------------------------------ MODULE SetFacts ------------------------------
(***************************************************************************)
(* Finite sets: their first elements and the sums over them.  A sum is as  *)
(* MapThenSumSet defines it: a function on the subsets of the set that     *)
(* takes out some element and goes on with the rest.  A statement about    *)
(* all subsets of a finite set is proved of a smallest one of which it     *)
(* does not hold, since the library's induction theorems, which take the   *)
(* statement as a parameter, are of no use to the provers.                 *)
(***************************************************************************)
EXTENDS Naturals, FiniteSets, FiniteSetsExt, FiniteSetTheorems, TLAPS

SumOf(f, S) == MapThenSumSet(LAMBDA x : f[x], S)

\* The element that is taken out first.
Some(S) == CHOOSE x \in S : TRUE

\* g sums f over every subset of S.
Sums(g, f, S) ==
    g = [T \in SUBSET S |-> IF T = {} THEN 0 ELSE f[Some(T)] + g[T \ {Some(T)}]]

TheSums(f, S) == CHOOSE g : Sums(g, f, S)

-----------------------------------------------------------------------------
\* Some element is one.
LEMMA SomeIn == \A S : S # {} => Some(S) \in S
BY DEF Some

\* Among subsets of a finite set there is a smallest one.
LEMMA SmallestSet ==
    ASSUME NEW S, IsFiniteSet(S), NEW B \in SUBSET SUBSET S, B # {}
    PROVE  \E T \in B : \A U \in SUBSET T : U \in B => U = T
<1>1. /\ IsWellFoundedOn(StrictSubsetOrdering(S), FiniteSubsetsOf(S))
      /\ B \subseteq FiniteSubsetsOf(S)
  BY FS_StrictSubsetOrderingWellFounded, FS_FiniteSubsetsOfFinite
<1>2. PICK T \in B : \A U \in B : <<U, T>> \notin StrictSubsetOrdering(S)
  BY <1>1, WFMin
<1>3. ASSUME NEW U \in SUBSET T, U \in B, U # T PROVE FALSE
  <2>1. <<U, T>> \in (SUBSET S) \X (SUBSET S) /\ <<U, T>>[1] = U /\ <<U, T>>[2] = T
    BY <1>3
  <2>2. <<U, T>> \in StrictSubsetOrdering(S)
    BY <2>1, <1>3 DEF StrictSubsetOrdering
  <2>3. QED BY <1>2, <1>3, <2>2
<1>4. QED BY <1>3

\* A finite set has a first element in any order of its elements.
LEMMA HasFirst ==
    ASSUME NEW S, IsFiniteSet(S), S # {}, NEW R,
           \A x, y \in S : <<x, y>> \in R \/ <<y, x>> \in R,
           \A x, y, z \in S : <<x, y>> \in R /\ <<y, z>> \in R => <<x, z>> \in R
    PROVE  \E m \in S : \A x \in S : <<m, x>> \in R
<1> DEFINE B == {T \in SUBSET S : T # {} /\ ~\E m \in T : \A x \in T : <<m, x>> \in R}
<1> SUFFICES ASSUME B # {} PROVE FALSE OBVIOUS
<1>1. PICK T \in B : \A U \in SUBSET T : U \in B => U = T
  <2>1. B \in SUBSET SUBSET S OBVIOUS
  <2> HIDE DEF B
  <2>2. QED BY <2>1, SmallestSet
<1>2. T \in SUBSET S /\ T # {} /\ ~\E m \in T : \A x \in T : <<m, x>> \in R
  OBVIOUS
<1>3. PICK a \in T : TRUE
  BY <1>2
<1>4. T \ {a} \in SUBSET T /\ T \ {a} \in SUBSET S /\ T \ {a} # T /\ T \ {a} # {}
  BY <1>2, <1>3
<1>5. PICK m \in T \ {a} : \A x \in T \ {a} : <<m, x>> \in R
  BY <1>1, <1>4
<1> HIDE DEF B
<1>6. QED BY <1>2, <1>3, <1>5

\* Max and Min are these.
LEMMA Extremes ==
    ASSUME NEW S, S \subseteq Nat, IsFiniteSet(S), S # {}
    PROVE  /\ Max(S) \in S /\ \A x \in S : x <= Max(S)
           /\ Min(S) \in S /\ \A x \in S : Min(S) <= x
<1> DEFINE Down == {p \in Nat \X Nat : p[1] >= p[2]}
           Up == {p \in Nat \X Nat : p[1] <= p[2]}
<1>1. \A x, y \in Nat : (<<x, y>> \in Down <=> x >= y) /\ (<<x, y>> \in Up <=> x <= y)
  OBVIOUS
<1> HIDE DEF Down, Up
<1>2. \A x \in S : x \in Nat
  OBVIOUS
<1>3. /\ \A x, y \in S : <<x, y>> \in Down \/ <<y, x>> \in Down
      /\ \A x, y, z \in S : <<x, y>> \in Down /\ <<y, z>> \in Down => <<x, z>> \in Down
  BY <1>1, <1>2
<1>4. /\ \A x, y \in S : <<x, y>> \in Up \/ <<y, x>> \in Up
      /\ \A x, y, z \in S : <<x, y>> \in Up /\ <<y, z>> \in Up => <<x, z>> \in Up
  BY <1>1, <1>2
<1>5. \E m \in S : \A x \in S : <<m, x>> \in Down
  BY <1>3, HasFirst
<1>6. \E m \in S : \A x \in S : <<m, x>> \in Up
  BY <1>4, HasFirst
<1>7. Max(S) \in S /\ \A x \in S : Max(S) >= x
  <2>1. \E m \in S : \A x \in S : m >= x
    BY <1>1, <1>2, <1>5
  <2>2. QED BY <2>1 DEF Max
<1>8. Min(S) \in S /\ \A x \in S : Min(S) <= x
  <2>1. \E m \in S : \A x \in S : m <= x
    BY <1>1, <1>2, <1>6
  <2>2. QED BY <2>1 DEF Min
<1>9. QED BY <1>2, <1>7, <1>8

\* The sum of the library is one of these.
LEMMA SumOfIs == \A f, S : SumOf(f, S) = TheSums(f, S)[S]
BY DEF SumOf, MapThenSumSet, MapThenFoldSet, TheSums, Sums, Some

\* What such a function says of a set.
LEMMA SumsOf ==
    ASSUME NEW f, NEW S, NEW g, Sums(g, f, S), NEW T \in SUBSET S
    PROVE  /\ T = {} => g[T] = 0
           /\ T # {} => /\ g[T] = f[Some(T)] + g[T \ {Some(T)}]
                        /\ Some(T) \in T /\ T \ {Some(T)} \in SUBSET S
BY SomeIn DEF Sums

\* There is at most one.
LEMMA SumsAgree ==
    ASSUME NEW f, NEW S, IsFiniteSet(S), NEW V \in SUBSET S, NEW g, NEW h, Sums(g, f, S), Sums(h, f, V)
    PROVE  \A T \in SUBSET V : g[T] = h[T]
<1> DEFINE B == {T \in SUBSET V : g[T] # h[T]}
<1> SUFFICES ASSUME B # {} PROVE FALSE OBVIOUS
<1>1. B \in SUBSET SUBSET S OBVIOUS
<1>2. PICK T \in B : \A U \in SUBSET T : U \in B => U = T
  <2> HIDE DEF B
  <2>1. QED BY <1>1, SmallestSet
<1>3. T \in SUBSET V /\ T \in SUBSET S /\ g[T] # h[T] OBVIOUS
<1>4. T # {} /\ Some(T) \in T
      /\ g[T] = f[Some(T)] + g[T \ {Some(T)}] /\ h[T] = f[Some(T)] + h[T \ {Some(T)}]
  BY <1>3, SumsOf
<1>5. g[T \ {Some(T)}] = h[T \ {Some(T)}]
  BY <1>2, <1>3, <1>4
<1>6. QED BY <1>3, <1>4, <1>5

\* There is one.
LEMMA SumsExist == ASSUME NEW f, NEW S, IsFiniteSet(S) PROVE Sums(TheSums(f, S), f, S)
<1> DEFINE B == {T \in SUBSET S : ~Sums(TheSums(f, T), f, T)}
<1> SUFFICES ASSUME B # {} PROVE FALSE OBVIOUS
<1>1. PICK T \in B : \A U \in SUBSET T : U \in B => U = T
  <2>1. B \in SUBSET SUBSET S OBVIOUS
  <2> HIDE DEF B
  <2>2. QED BY <2>1, SmallestSet
<1>2. T \in SUBSET S /\ ~Sums(TheSums(f, T), f, T) OBVIOUS
<1>3. \A U \in SUBSET T : U # T => Sums(TheSums(f, U), f, U)
  BY <1>1, <1>2
<1> DEFINE Rest(U) == U \ {Some(U)}
           g == [U \in SUBSET T |-> IF U = {} THEN 0 ELSE f[Some(U)] + TheSums(f, Rest(U))[Rest(U)]]
<1>4. ASSUME NEW U \in SUBSET T, U # T PROVE TheSums(f, U)[U] = g[U]
  <2>1. Sums(TheSums(f, U), f, U) /\ IsFiniteSet(U)
    BY <1>2, <1>3, <1>4, FS_Subset
  <2>2. CASE U = {}
    BY <2>1, <2>2, SumsOf
  <2>3. CASE U # {}
    <3>1. Rest(U) \in SUBSET U /\ Rest(U) \in SUBSET T /\ Rest(U) # T
      BY <1>4, <2>3, SomeIn
    <3>2. Sums(TheSums(f, Rest(U)), f, Rest(U))
      BY <1>3, <3>1
    <3>3. TheSums(f, U)[U] = f[Some(U)] + TheSums(f, U)[Rest(U)]
      BY <2>1, <2>3, SumsOf
    <3>4. TheSums(f, U)[Rest(U)] = TheSums(f, Rest(U))[Rest(U)]
      <4> HIDE DEF Rest
      <4>1. QED BY <2>1, <3>1, <3>2, SumsAgree
    <3>5. g[U] = f[Some(U)] + TheSums(f, Rest(U))[Rest(U)]
      BY <1>4, <2>3
    <3>6. QED BY <3>3, <3>4, <3>5
  <2>4. QED BY <2>2, <2>3
<1>5. ASSUME NEW U \in SUBSET T PROVE g[U] = IF U = {} THEN 0 ELSE f[Some(U)] + g[Rest(U)]
  <2>1. U # {} => Rest(U) \in SUBSET T /\ Rest(U) # T
    BY SomeIn
  <2>2. U # {} => TheSums(f, Rest(U))[Rest(U)] = g[Rest(U)]
    <3> HIDE DEF g, Rest
    <3>1. QED BY <1>4, <2>1
  <2>3. QED BY <2>2
<1>6. Sums(g, f, T)
  <2>1. g = [U \in SUBSET T |-> IF U = {} THEN 0 ELSE f[Some(U)] + g[Rest(U)]]
    <3>1. g = [U \in SUBSET T |-> g[U]] OBVIOUS
    <3>2. QED BY <1>5, <3>1
  <2> HIDE DEF g
  <2>2. QED BY <2>1 DEF Sums
<1> HIDE DEF g
<1>7. Sums(TheSums(f, T), f, T)
  BY <1>6 DEF TheSums
<1>8. QED BY <1>2, <1>7

-----------------------------------------------------------------------------
\* The sum of nothing is 0.
LEMMA SumEmpty == \A f : SumOf(f, {}) = 0
<1> SUFFICES ASSUME NEW f PROVE SumOf(f, {}) = 0 OBVIOUS
<1>1. Sums(TheSums(f, {}), f, {})
  BY SumsExist, FS_EmptySet
<1>2. QED BY <1>1, SumsOf, SumOfIs

\* The sum of something is one of its values and the sum of the rest.
LEMMA SumFirst ==
    ASSUME NEW f, NEW S, IsFiniteSet(S), S # {}
    PROVE  SumOf(f, S) = f[Some(S)] + SumOf(f, S \ {Some(S)})
<1> DEFINE R == S \ {Some(S)}
<1>1. R \in SUBSET S /\ IsFiniteSet(R)
  BY FS_Subset
<1>2. Sums(TheSums(f, S), f, S) /\ Sums(TheSums(f, R), f, R)
  BY <1>1, SumsExist
<1>3. TheSums(f, S)[S] = f[Some(S)] + TheSums(f, S)[R]
  BY <1>2, SumsOf
<1> HIDE DEF R
<1>4. TheSums(f, S)[R] = TheSums(f, R)[R]
  BY <1>1, <1>2, SumsAgree
<1>5. SumOf(f, S) = f[Some(S)] + SumOf(f, R)
  BY <1>3, <1>4, SumOfIs
<1>6. QED BY <1>5 DEF R

\* Natural numbers sum up to one.
LEMMA SumNat == ASSUME NEW S, IsFiniteSet(S), NEW f, \A x \in S : f[x] \in Nat PROVE SumOf(f, S) \in Nat
<1> DEFINE B == {T \in SUBSET S : SumOf(f, T) \notin Nat}
<1> SUFFICES ASSUME B # {} PROVE FALSE OBVIOUS
<1>1. PICK T \in B : \A U \in SUBSET T : U \in B => U = T
  <2>1. B \in SUBSET SUBSET S OBVIOUS
  <2> HIDE DEF B
  <2>2. QED BY <2>1, SmallestSet
<1>2. T \in SUBSET S /\ IsFiniteSet(T) /\ SumOf(f, T) \notin Nat
  BY FS_Subset
<1>3. T # {}
  BY <1>2, SumEmpty
<1>4. Some(T) \in T /\ T \ {Some(T)} \in SUBSET S
  BY <1>2, <1>3, SomeIn
<1>5. SumOf(f, T \ {Some(T)}) \in Nat
  BY <1>1, <1>2, <1>4
<1>6. f[Some(T)] \in Nat /\ SumOf(f, T) = f[Some(T)] + SumOf(f, T \ {Some(T)})
  BY <1>2, <1>3, <1>4, SumFirst
<1>7. QED BY <1>2, <1>5, <1>6

\* Any element may be taken out first.
LEMMA SumTake ==
    ASSUME NEW S, IsFiniteSet(S), NEW f, \A x \in S : f[x] \in Nat
    PROVE  \A a \in S : SumOf(f, S) = f[a] + SumOf(f, S \ {a})
<1> DEFINE B == {T \in SUBSET S : \E a \in T : SumOf(f, T) # f[a] + SumOf(f, T \ {a})}
<1> SUFFICES ASSUME B # {} PROVE FALSE OBVIOUS
<1>1. PICK T \in B : \A U \in SUBSET T : U \in B => U = T
  <2>1. B \in SUBSET SUBSET S OBVIOUS
  <2> HIDE DEF B
  <2>2. QED BY <2>1, SmallestSet
<1>2. PICK a \in T : SumOf(f, T) # f[a] + SumOf(f, T \ {a})
  OBVIOUS
<1>3. T \in SUBSET S /\ a \in T /\ T # {} /\ IsFiniteSet(T)
  BY FS_Subset
<1>4. \A U \in SUBSET T : U # T => \A c \in U : SumOf(f, U) = f[c] + SumOf(f, U \ {c})
  BY <1>1, <1>3
<1> DEFINE b == Some(T)
           R == T \ {a}
<1>5. b \in T /\ f[b] \in Nat /\ f[a] \in Nat /\ SumOf(f, T) = f[b] + SumOf(f, T \ {b})
  BY <1>3, SomeIn, SumFirst
<1> HIDE DEF b, B
<1>6. b # a
  BY <1>2, <1>5
<1>7. /\ T \ {b} \in SUBSET T /\ T \ {b} # T /\ a \in T \ {b}
      /\ R \in SUBSET T /\ R # T /\ b \in R /\ (T \ {b}) \ {a} = R \ {b} /\ R \ {b} \in SUBSET S
  BY <1>3, <1>5, <1>6
<1> HIDE DEF R
<1>8. SumOf(f, T \ {b}) = f[a] + SumOf(f, R \ {b})
  BY <1>4, <1>7
<1>9. SumOf(f, R) = f[b] + SumOf(f, R \ {b})
  BY <1>4, <1>7
<1>10. SumOf(f, R \ {b}) \in Nat
  <2>1. IsFiniteSet(R \ {b})
    BY <1>7, FS_Subset
  <2>2. QED BY <1>7, <2>1, SumNat
<1>11. SumOf(f, T) # f[a] + SumOf(f, R)
  BY <1>2 DEF R
<1>12. QED BY <1>5, <1>8, <1>9, <1>10, <1>11

\* Part of a set sums up to no more than all of it.
LEMMA SumMonotone ==
    ASSUME NEW S, IsFiniteSet(S), NEW f, \A x \in S : f[x] \in Nat, NEW V \in SUBSET S
    PROVE  SumOf(f, V) <= SumOf(f, S)
<1> DEFINE B == {T \in SUBSET S : V \subseteq T /\ ~(SumOf(f, V) <= SumOf(f, T))}
<1> SUFFICES ASSUME B # {} PROVE FALSE OBVIOUS
<1>1. PICK T \in B : \A U \in SUBSET T : U \in B => U = T
  <2>1. B \in SUBSET SUBSET S OBVIOUS
  <2> HIDE DEF B
  <2>2. QED BY <2>1, SmallestSet
<1>2. T \in SUBSET S /\ V \subseteq T /\ ~(SumOf(f, V) <= SumOf(f, T)) /\ IsFiniteSet(T) /\ IsFiniteSet(V)
  BY FS_Subset
<1>3. SumOf(f, V) \in Nat
  BY <1>2, SumNat
<1>4. PICK a \in T : a \notin V
  BY <1>2, <1>3
<1>5. SumOf(f, T) = f[a] + SumOf(f, T \ {a})
  BY <1>2, SumTake
<1>6. T \ {a} \in SUBSET S /\ V \subseteq T \ {a} /\ T \ {a} # T /\ IsFiniteSet(T \ {a})
  BY <1>2, <1>4, FS_Subset
<1>7. SumOf(f, V) <= SumOf(f, T \ {a})
  BY <1>1, <1>6
<1>8. SumOf(f, T \ {a}) \in Nat /\ f[a] \in Nat
  BY <1>2, <1>6, SumNat
<1>9. QED BY <1>2, <1>3, <1>5, <1>7, <1>8

\* Only the values in the set count.
LEMMA SumSame ==
    ASSUME NEW S, IsFiniteSet(S), NEW f, NEW h, \A x \in S : f[x] = h[x]
    PROVE  SumOf(f, S) = SumOf(h, S)
<1> DEFINE B == {T \in SUBSET S : SumOf(f, T) # SumOf(h, T)}
<1> SUFFICES ASSUME B # {} PROVE FALSE OBVIOUS
<1>1. PICK T \in B : \A U \in SUBSET T : U \in B => U = T
  <2>1. B \in SUBSET SUBSET S OBVIOUS
  <2> HIDE DEF B
  <2>2. QED BY <2>1, SmallestSet
<1>2. T \in SUBSET S /\ IsFiniteSet(T) /\ SumOf(f, T) # SumOf(h, T)
  BY FS_Subset
<1>3. T # {}
  BY <1>2, SumEmpty
<1>4. Some(T) \in T /\ T \ {Some(T)} \in SUBSET S /\ T \ {Some(T)} # T
  BY <1>2, <1>3, SomeIn
<1>5. SumOf(f, T \ {Some(T)}) = SumOf(h, T \ {Some(T)})
  BY <1>1, <1>4
<1>6. QED BY <1>2, <1>3, <1>4, <1>5, SumFirst

\* A function has finitely many values on a finite set.
LEMMA FiniteImage == ASSUME NEW S, IsFiniteSet(S), NEW g PROVE IsFiniteSet({g[x] : x \in S})
<1> DEFINE f == [x \in S |-> g[x]]
           T == {g[x] : x \in S}
<1>1. f \in Surjection(S, T)
  BY DEF Surjection
<1>2. QED BY <1>1, FS_Surjection

\* Ten times every value is ten times the sum.
LEMMA SumTenfold ==
    ASSUME NEW S, IsFiniteSet(S), NEW f, NEW h, \A x \in S : f[x] \in Nat /\ h[x] = 10 * f[x]
    PROVE  SumOf(h, S) = 10 * SumOf(f, S)
<1> DEFINE B == {T \in SUBSET S : SumOf(h, T) # 10 * SumOf(f, T)}
<1> SUFFICES ASSUME B # {} PROVE FALSE OBVIOUS
<1>1. PICK T \in B : \A U \in SUBSET T : U \in B => U = T
  <2>1. B \in SUBSET SUBSET S OBVIOUS
  <2> HIDE DEF B
  <2>2. QED BY <2>1, SmallestSet
<1>2. T \in SUBSET S /\ IsFiniteSet(T) /\ SumOf(h, T) # 10 * SumOf(f, T)
  BY FS_Subset
<1>3. T # {}
  BY <1>2, SumEmpty
<1> DEFINE a == Some(T)
           R == T \ {a}
<1>4. a \in T /\ a \in S /\ R \in SUBSET S /\ R \in SUBSET T /\ R # T /\ IsFiniteSet(R)
  BY <1>2, <1>3, SomeIn, FS_Subset
<1>5. SumOf(h, T) = h[a] + SumOf(h, R) /\ SumOf(f, T) = f[a] + SumOf(f, R)
  BY <1>2, <1>3, SumFirst
<1> HIDE DEF a, R
<1>6. SumOf(h, R) = 10 * SumOf(f, R)
  BY <1>1, <1>4
<1>7. SumOf(f, R) \in Nat
  BY <1>4, SumNat
<1> HIDE DEF B
<1>8. f[a] \in Nat /\ h[a] = 10 * f[a]
  BY <1>4
<1>9. QED BY <1>2, <1>5, <1>6, <1>7, <1>8

\* The sum over the images of different elements is the sum over the elements.
LEMMA SumImage ==
    ASSUME NEW S, IsFiniteSet(S), NEW f, \A x \in S : f[x] \in Nat,
           NEW g, \A x, y \in S : g[x] = g[y] => x = y,
           NEW h, \A x \in S : h[g[x]] = f[x]
    PROVE  SumOf(h, {g[x] : x \in S}) = SumOf(f, S)
<1> DEFINE Image(T) == {g[x] : x \in T}
           B == {T \in SUBSET S : SumOf(h, Image(T)) # SumOf(f, T)}
<1>0. SUFFICES ASSUME B # {} PROVE FALSE OBVIOUS
<1>1. PICK T \in B : \A U \in SUBSET T : U \in B => U = T
  <2>1. B \in SUBSET SUBSET S OBVIOUS
  <2> HIDE DEF B
  <2>2. QED BY <1>0, <2>1, SmallestSet
<1>2. T \in SUBSET S /\ IsFiniteSet(T) /\ SumOf(h, Image(T)) # SumOf(f, T)
  BY FS_Subset
<1>3. T # {}
  BY <1>2, SumEmpty
<1> DEFINE a == Some(T)
           R == T \ {a}
<1>4. a \in T /\ a \in S /\ R \in SUBSET S /\ R \in SUBSET T /\ R # T
  BY <1>2, <1>3, SomeIn
<1>5. SumOf(f, T) = f[a] + SumOf(f, R)
  BY <1>2, <1>3, SumFirst
<1>6. SumOf(h, Image(R)) = SumOf(f, R)
  BY <1>1, <1>4
<1>7. Image(T) \ {g[a]} = Image(R) /\ g[a] \in Image(T)
  BY <1>4, <1>2
<1>8. IsFiniteSet(Image(T)) /\ \A y \in Image(T) : h[y] \in Nat
  <2>1. IsFiniteSet({g[x] : x \in T})
    BY <1>2, FiniteImage
  <2>2. QED BY <1>2, <2>1
<1> HIDE DEF Image, R, a
<1>9. SumOf(h, Image(T)) = h[g[a]] + SumOf(h, Image(T) \ {g[a]})
  BY <1>7, <1>8, SumTake
<1>10. h[g[a]] = f[a]
  BY <1>4
<1>11. QED BY <1>2, <1>5, <1>6, <1>7, <1>9, <1>10

\* Two different things are a finite set of two.
LEMMA PairHasTwo ==
    ASSUME NEW x, NEW y, x # y
    PROVE  IsFiniteSet({x, y}) /\ Cardinality({x, y}) = 2
<1>1. IsFiniteSet({x}) /\ Cardinality({x}) = 1
  BY FS_Singleton
<1>2. IsFiniteSet({x} \cup {y}) /\ Cardinality({x} \cup {y}) = 1 + 1
  BY <1>1, FS_AddElement
<1>3. {x} \cup {y} = {x, y}
  OBVIOUS
<1>4. IsFiniteSet({x, y}) /\ Cardinality({x, y}) = 1 + 1
  BY <1>2, <1>3
<1>5. QED BY <1>4

\* The sum over two different elements.
LEMMA SumTwo ==
    ASSUME NEW a, NEW b, a # b, NEW f, f[a] \in Nat, f[b] \in Nat
    PROVE  SumOf(f, {a, b}) = f[a] + f[b]
<1>1. IsFiniteSet({a, b}) /\ IsFiniteSet({b})
  BY PairHasTwo, FS_Singleton
<1>2. SumOf(f, {a, b}) = f[a] + SumOf(f, {a, b} \ {a})
  BY <1>1, SumTake
<1>3. SumOf(f, {b}) = f[b] + SumOf(f, {b} \ {b})
  BY <1>1, SumTake
<1>4. {a, b} \ {a} = {b} /\ {b} \ {b} = {}
  OBVIOUS
<1>5. SumOf(f, {b}) = f[b] + 0 /\ SumOf(f, {a, b}) = f[a] + SumOf(f, {b})
  BY <1>2, <1>3, <1>4, SumEmpty
<1>6. QED BY <1>5

-----------------------------------------------------------------------------
\* What the values of a set lack to a hundred each sums up to what their sum lacks.
LEMMA SumComplement ==
    ASSUME NEW S, IsFiniteSet(S), NEW f, NEW h, \A x \in S : f[x] \in 0..100 /\ h[x] = 100 - f[x]
    PROVE  /\ SumOf(f, S) \in Nat /\ Cardinality(S) \in Nat
           /\ SumOf(h, S) = 100 * Cardinality(S) - SumOf(f, S)
<1> DEFINE B == {T \in SUBSET S : SumOf(h, T) # 100 * Cardinality(T) - SumOf(f, T)}
<1>0. SumOf(f, S) \in Nat /\ Cardinality(S) \in Nat
  <2>1. \A x \in S : f[x] \in Nat
    OBVIOUS
  <2>2. QED BY <2>1, SumNat, FS_CardinalityType
<1> SUFFICES ASSUME B # {} PROVE FALSE
  BY <1>0
<1>1. PICK T \in B : \A U \in SUBSET T : U \in B => U = T
  <2>1. B \in SUBSET SUBSET S OBVIOUS
  <2> HIDE DEF B
  <2>2. QED BY <2>1, SmallestSet
<1>2. T \in SUBSET S /\ IsFiniteSet(T) /\ SumOf(h, T) # 100 * Cardinality(T) - SumOf(f, T)
  BY FS_Subset
<1>3. T # {}
  <2>1. SumOf(h, {}) = 0 /\ SumOf(f, {}) = 0 /\ Cardinality({}) = 0
    BY SumEmpty, FS_EmptySet
  <2>2. QED BY <1>2, <2>1
<1> DEFINE a == Some(T)
           R == T \ {a}
<1>4. a \in T /\ a \in S /\ R \in SUBSET S /\ R \in SUBSET T /\ R # T /\ IsFiniteSet(R)
  BY <1>2, <1>3, SomeIn, FS_Subset
<1>5. SumOf(h, T) = h[a] + SumOf(h, R) /\ SumOf(f, T) = f[a] + SumOf(f, R)
  BY <1>2, <1>3, SumFirst
<1>6. Cardinality(R) = Cardinality(T) - 1 /\ Cardinality(T) \in Nat /\ Cardinality(R) \in Nat
  BY <1>2, <1>4, FS_RemoveElement, FS_CardinalityType
<1> HIDE DEF a, R
<1>7. SumOf(h, R) = 100 * Cardinality(R) - SumOf(f, R)
  BY <1>1, <1>4
<1>8. SumOf(f, R) \in Nat
  BY <1>4, SumNat
<1> HIDE DEF B
<1>9. f[a] \in 0..100 /\ h[a] = 100 - f[a]
  BY <1>4
<1>10. QED BY <1>2, <1>5, <1>6, <1>7, <1>8, <1>9

\* One element more.
LEMMA SumMore ==
    ASSUME NEW S, IsFiniteSet(S), NEW a, a \notin S, NEW f, f[a] \in Nat, \A x \in S : f[x] \in Nat
    PROVE  SumOf(f, S \cup {a}) = f[a] + SumOf(f, S) /\ SumOf(f, S) \in Nat
<1>1. IsFiniteSet(S \cup {a}) /\ \A x \in S \cup {a} : f[x] \in Nat
  BY FS_AddElement
<1>2. (S \cup {a}) \ {a} = S
  OBVIOUS
<1>3. QED BY <1>1, <1>2, SumTake, SumNat

\* As many values as elements: the values differ.
LEMMA DifferentValues ==
    ASSUME NEW S, IsFiniteSet(S), NEW g, Cardinality({g[x] : x \in S}) = Cardinality(S)
    PROVE  \A x, y \in S : g[x] = g[y] => x = y
<1> SUFFICES ASSUME NEW x \in S, NEW y \in S, g[x] = g[y], x # y PROVE FALSE
  OBVIOUS
<1> DEFINE R == S \ {x}
           T == {g[z] : z \in S}
           f == [z \in R |-> g[z]]
<1>1. T = {g[z] : z \in R}
  OBVIOUS
<1>2. f \in Surjection(R, T)
  BY <1>1 DEF Surjection
<1>3. IsFiniteSet(R) /\ Cardinality(R) = Cardinality(S) - 1 /\ Cardinality(S) \in Nat
  BY FS_RemoveElement, FS_Subset, FS_CardinalityType
<1> HIDE DEF R, f
<1>4. Cardinality(T) <= Cardinality(R)
  BY <1>2, <1>3, FS_Surjection
<1>5. QED BY <1>3, <1>4

\* A set of two.
LEMMA OfTwo ==
    ASSUME NEW S, IsFiniteSet(S), Cardinality(S) = 2
    PROVE  \E a, b \in S : a # b /\ S = {a, b}
<1>1. S # {}
  BY FS_EmptySet
<1>2. PICK a \in S : TRUE
  BY <1>1
<1>3. IsFiniteSet(S \ {a}) /\ Cardinality(S \ {a}) = 1
  BY FS_RemoveElement
<1>4. PICK b : S \ {a} = {b}
  BY <1>3, FS_Singleton
<1>5. QED BY <1>4

\* The sum over three different elements.
LEMMA SumThree ==
    ASSUME NEW f, NEW a, NEW b, NEW c, a # b, a # c, b # c, f[a] \in Nat, f[b] \in Nat, f[c] \in Nat
    PROVE  SumOf(f, {a, b, c}) = f[a] + f[b] + f[c]
<1>1. IsFiniteSet({a, b}) /\ SumOf(f, {a, b}) = f[a] + f[b] /\ {a, b, c} = {a, b} \cup {c}
  BY PairHasTwo, SumTwo
<1> DEFINE S == {a, b}
<1>2. c \notin S /\ IsFiniteSet(S) /\ \A x \in S : f[x] \in Nat
  BY <1>1
<1> HIDE DEF S
<1>3. SumOf(f, S \cup {c}) = f[c] + SumOf(f, S)
  BY <1>2, SumMore
<1>4. S \cup {c} = {a, b, c} /\ SumOf(f, S) = f[a] + f[b]
  BY <1>1 DEF S
<1>5. SumOf(f, {a, b, c}) = f[c] + (f[a] + f[b])
  BY <1>3, <1>4
<1>6. QED BY <1>5
=============================================================================
