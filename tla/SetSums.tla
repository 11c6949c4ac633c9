--------------------------------- MODULE SetSums ----------------------------------
(***************************************************************************)
(* Sums over finite sets, as MapThenSumSet of the community modules        *)
(* computes them: the facts that the proofs about the books of the auction *)
(* and about the cap on bought coins rest on.                              *)
(*                                                                         *)
(* MapThenSumSet is a recursive function on the subsets of its set, taken  *)
(* by CHOOSE.  That such a function exists, and what it computes, needs    *)
(* induction on finite sets; here it is an argument with a minimal set     *)
(* for which the claim is wrong, which needs no operator as a parameter.   *)
(***************************************************************************)
EXTENDS Integers, FiniteSets, FiniteSetsExt, FiniteSetTheorems, TLAPS

SumOf(f, S) == MapThenSumSet(LAMBDA x : f[x], S)

(* One unfolding of the recursive function, and the functions it defines.  *)
Unfold(f, S, g) ==
  [s \in SUBSET S |-> IF s = {} THEN 0
                      ELSE LET x == CHOOSE x \in s : TRUE IN f[x] + g[s \ {x}]]
IsSum(f, S, g) == g = Unfold(f, S, g)
SumFun(f, S) == CHOOSE g : IsSum(f, S, g)

(* Of the subsets of a finite set in a collection, some one is minimal.    *)
LEMMA MinimalSubset ==
  ASSUME NEW S, IsFiniteSet(S), NEW B, B \subseteq SUBSET S, B # {}
  PROVE  \E T \in B : \A U \in B : U \subseteq T => U = T
<1>1. IsWellFoundedOn(StrictSubsetOrdering(S), SUBSET S)
  BY FS_StrictSubsetOrderingWellFounded, FS_FiniteSubsetsOfFinite
<1>2. PICK T \in B : \A U \in B : ~(<<U, T>> \in StrictSubsetOrdering(S))
  BY <1>1, WFMin
<1> QED BY <1>2 DEF StrictSubsetOrdering

LEMMA ChosenIsElement == ASSUME NEW s, s # {} PROVE (CHOOSE x \in s : TRUE) \in s
  OBVIOUS

(* Two such functions agree where both are defined.                        *)
LEMMA SumsAgree ==
  ASSUME NEW f, NEW S, IsFiniteSet(S), NEW T, T \subseteq S,
         NEW g, IsSum(f, S, g), NEW h, IsSum(f, T, h)
  PROVE  \A s \in SUBSET T : g[s] = h[s]
<1> SUFFICES ASSUME {s \in SUBSET T : g[s] # h[s]} # {} PROVE FALSE
  OBVIOUS
<1> DEFINE Bad == {s \in SUBSET T : g[s] # h[s]}
<1>1. IsFiniteSet(T) /\ Bad \subseteq SUBSET T /\ Bad # {}
  BY FS_Subset
<1>2. PICK s \in Bad : \A u \in Bad : u \subseteq s => u = s
  <2> HIDE DEF Bad
  <2> QED BY <1>1, MinimalSubset
<1>3. s \in SUBSET T /\ s \in SUBSET S
  OBVIOUS
<1>4. CASE s = {}
  BY <1>3, <1>4 DEF IsSum, Unfold
<1>5. CASE s # {}
  <2> DEFINE x == CHOOSE x \in s : TRUE
  <2>1. g[s] = f[x] + g[s \ {x}] /\ h[s] = f[x] + h[s \ {x}]
    BY <1>3, <1>5 DEF IsSum, Unfold
  <2>2. x \in s
    BY <1>5
  <2>3. s \ {x} \notin Bad
    BY <1>2, <2>2
  <2>4. g[s \ {x}] = h[s \ {x}]
    BY <1>3, <2>3
  <2> QED BY <2>1, <2>4
<1> QED BY <1>4, <1>5

(* Such a function exists.                                                 *)
LEMMA SumExists ==
  ASSUME NEW f, NEW S, IsFiniteSet(S)
  PROVE  IsSum(f, S, SumFun(f, S))
<1> SUFFICES ASSUME ~\E g : IsSum(f, S, g) PROVE FALSE
  BY DEF SumFun
<1> DEFINE Bad == {T \in SUBSET S : ~\E g : IsSum(f, T, g)}
<1>1. S \in Bad /\ Bad \subseteq SUBSET S
  OBVIOUS
<1>2. PICK T \in Bad : \A U \in Bad : U \subseteq T => U = T
  <2>1. Bad # {}
    BY <1>1
  <2> HIDE DEF Bad
  <2> QED BY <1>1, <2>1, MinimalSubset
<1>3. T \in SUBSET S /\ IsFiniteSet(T)
  BY FS_Subset
<1>4. ASSUME NEW U \in SUBSET T, U # T PROVE IsSum(f, U, SumFun(f, U))
  BY <1>2, <1>3, <1>4 DEF SumFun
<1>5. ASSUME NEW U \in SUBSET T, U # T, NEW V \in SUBSET U
      PROVE  SumFun(f, U)[V] = SumFun(f, V)[V]
  <2>1. V \in SUBSET T /\ V # T /\ IsFiniteSet(U)
    BY <1>3, <1>5, FS_Subset
  <2>2. IsSum(f, U, SumFun(f, U)) /\ IsSum(f, V, SumFun(f, V))
    BY <1>4, <1>5, <2>1
  <2> QED BY <2>1, <2>2, SumsAgree
<1> DEFINE h == [s \in SUBSET T |->
                   IF s = {} THEN 0
                   ELSE LET x == CHOOSE x \in s : TRUE IN f[x] + SumFun(f, s \ {x})[s \ {x}]]
<1>6. ASSUME NEW U \in SUBSET T, U # T PROVE h[U] = SumFun(f, U)[U]
  <2>1. CASE U = {}
    <3>1. IsSum(f, U, SumFun(f, U))
      BY <1>4, <1>6
    <3> QED BY <2>1, <3>1 DEF IsSum, Unfold
  <2>2. CASE U # {}
    <3> DEFINE y == CHOOSE x \in U : TRUE
    <3>1. h[U] = f[y] + SumFun(f, U \ {y})[U \ {y}]
      BY <2>2
    <3>2. IsSum(f, U, SumFun(f, U))
      BY <1>4, <1>6
    <3>3. SumFun(f, U)[U] = f[y] + SumFun(f, U)[U \ {y}]
      BY <2>2, <3>2 DEF IsSum, Unfold
    <3>4. SumFun(f, U)[U \ {y}] = SumFun(f, U \ {y})[U \ {y}]
      BY <1>5, <1>6
    <3> QED BY <3>1, <3>3, <3>4
  <2> QED BY <2>1, <2>2
<1>7. ASSUME NEW s \in SUBSET T, s # {}
      PROVE  h[s] = f[CHOOSE x \in s : TRUE] + h[s \ {CHOOSE x \in s : TRUE}]
  <2> DEFINE x == CHOOSE x \in s : TRUE
  <2>1. x \in s
    BY <1>7
  <2>2. s \ {x} \in SUBSET T /\ s \ {x} # T
    BY <2>1
  <2>3. h[s] = f[x] + SumFun(f, s \ {x})[s \ {x}]
    BY <1>7
  <2> HIDE DEF h, x
  <2>4. h[s \ {x}] = SumFun(f, s \ {x})[s \ {x}]
    BY <1>6, <2>2
  <2>5. h[s] = f[x] + h[s \ {x}]
    BY <2>3, <2>4
  <2> QED BY <2>5 DEF x
<1>8. h[{}] = 0
  OBVIOUS
<1>9. IsSum(f, T, h)
  <2>1. h = [s \in SUBSET T |-> h[s]]
    OBVIOUS
  <2> HIDE DEF h
  <2>2. \A s \in SUBSET T : h[s] = IF s = {} THEN 0
           ELSE LET x == CHOOSE x \in s : TRUE IN f[x] + h[s \ {x}]
    BY <1>7, <1>8
  <2> QED BY <2>1, <2>2 DEF IsSum, Unfold
<1> QED BY <1>2, <1>9

(* So a sum is 0, or an element's value and the sum over the others.       *)
LEMMA SumEmpty == ASSUME NEW f PROVE SumOf(f, {}) = 0
<1>1. IsSum(f, {}, SumFun(f, {}))
  BY SumExists, FS_EmptySet
<1>2. SumOf(f, {}) = SumFun(f, {})[{}]
  BY DEF SumOf, MapThenSumSet, MapThenFoldSet, SumFun, IsSum, Unfold
<1> QED BY <1>1, <1>2 DEF IsSum, Unfold

LEMMA SumChosen ==
  ASSUME NEW f, NEW S, IsFiniteSet(S), S # {}
  PROVE  SumOf(f, S) = f[CHOOSE x \in S : TRUE] + SumOf(f, S \ {CHOOSE x \in S : TRUE})
<1> DEFINE x == CHOOSE x \in S : TRUE
           R == S \ {x}
<1>1. SumOf(f, S) = SumFun(f, S)[S] /\ SumOf(f, R) = SumFun(f, R)[R]
  BY DEF SumOf, MapThenSumSet, MapThenFoldSet, SumFun, IsSum, Unfold
<1>2. R \subseteq S /\ IsFiniteSet(R)
  BY FS_Subset
<1> HIDE DEF x
<1>3. IsSum(f, S, SumFun(f, S)) /\ IsSum(f, R, SumFun(f, R))
  BY <1>2, SumExists
<1>4. SumFun(f, S)[S] = f[x] + SumFun(f, S)[R]
  BY <1>3 DEF IsSum, Unfold, x
<1>5. SumFun(f, S)[R] = SumFun(f, R)[R]
  <2>1. \A s \in SUBSET R : SumFun(f, S)[s] = SumFun(f, R)[s]
    <3> HIDE DEF R
    <3>1. PICK g : g = SumFun(f, S)
      OBVIOUS
    <3>2. PICK h : h = SumFun(f, R)
      OBVIOUS
    <3>a. R \subseteq S
      BY <1>2
    <3>b. IsSum(f, S, g)
      BY <1>3, <3>1
    <3>c. IsSum(f, R, h)
      BY <1>3, <3>2
    <3>3. \A s \in SUBSET R : g[s] = h[s]
      BY <3>a, <3>b, <3>c, SumsAgree
    <3> QED BY <3>1, <3>2, <3>3
  <2> QED BY <2>1
<1> QED BY <1>1, <1>4, <1>5 DEF x

(* Sums of integers are integers, and the element may be any.              *)
LEMMA SumIsInt ==
  ASSUME NEW f, NEW S, IsFiniteSet(S), \A x \in S : f[x] \in Int
  PROVE  SumOf(f, S) \in Int
<1> SUFFICES ASSUME SumOf(f, S) \notin Int PROVE FALSE
  OBVIOUS
<1> DEFINE Bad == {T \in SUBSET S : SumOf(f, T) \notin Int}
<1>1. Bad \subseteq SUBSET S /\ Bad # {}
  OBVIOUS
<1>2. PICK T \in Bad : \A U \in Bad : U \subseteq T => U = T
  <2> HIDE DEF Bad
  <2> QED BY <1>1, MinimalSubset
<1>3. IsFiniteSet(T) /\ T # {}
  <2>1. T # {}
    BY SumEmpty
  <2> QED BY <2>1, FS_Subset
<1> DEFINE x == CHOOSE x \in T : TRUE
<1>4. x \in T
  BY <1>3
<1>5. SumOf(f, T) = f[x] + SumOf(f, T \ {x})
  BY <1>3, SumChosen
<1> HIDE DEF x
<1>6. T \ {x} \notin Bad /\ f[x] \in Int
  BY <1>2, <1>4
<1> QED BY <1>5, <1>6

LEMMA SumRemove ==
  ASSUME NEW f, NEW S, IsFiniteSet(S), \A x \in S : f[x] \in Int, NEW a \in S
  PROVE  SumOf(f, S) = f[a] + SumOf(f, S \ {a})
<1> DEFINE Splits(T) == \A b \in T : SumOf(f, T) = f[b] + SumOf(f, T \ {b})
           Bad == {T \in SUBSET S : ~Splits(T)}
<1> SUFFICES ASSUME Bad # {} PROVE FALSE
  OBVIOUS
<1>1. Bad \subseteq SUBSET S
  OBVIOUS
<1>2. PICK T \in Bad : \A U \in Bad : U \subseteq T => U = T
  <2> HIDE DEF Bad
  <2> QED BY <1>1, MinimalSubset
<1>3. PICK b \in T : SumOf(f, T) # f[b] + SumOf(f, T \ {b})
  BY <1>2
<1> DEFINE x == CHOOSE x \in T : TRUE
<1>4. IsFiniteSet(T) /\ x \in T
  BY <1>3, FS_Subset
<1>5. SumOf(f, T) = f[x] + SumOf(f, T \ {x})
  BY <1>3, <1>4, SumChosen
<1> HIDE DEF x
<1>6. x # b
  BY <1>3, <1>5
<1> DEFINE R == T \ {b, x}
<1>7. Splits(T \ {x}) /\ Splits(T \ {b})
  BY <1>2, <1>3, <1>4
<1>8. b \in T \ {x} /\ x \in T \ {b} /\ (T \ {x}) \ {b} = R /\ (T \ {b}) \ {x} = R
  BY <1>3, <1>4, <1>6
<1>9. /\ SumOf(f, T \ {x}) = f[b] + SumOf(f, R)
      /\ SumOf(f, T \ {b}) = f[x] + SumOf(f, R)
  BY <1>7, <1>8
<1>10. SumOf(f, R) \in Int /\ f[b] \in Int /\ f[x] \in Int
  <2>1. R \subseteq S /\ IsFiniteSet(R)
    BY FS_Subset
  <2> QED BY <1>4, <2>1, SumIsInt
<1> HIDE DEF R
<1> QED BY <1>3, <1>5, <1>9, <1>10

(* The same for an element that is added.                                  *)
LEMMA SumAdd ==
  ASSUME NEW f, NEW S, IsFiniteSet(S), NEW a, a \notin S, \A x \in S \cup {a} : f[x] \in Int
  PROVE  SumOf(f, S \cup {a}) = f[a] + SumOf(f, S)
<1>1. IsFiniteSet(S \cup {a}) /\ (S \cup {a}) \ {a} = S
  BY FS_AddElement
<1>2. a \in S \cup {a}
  OBVIOUS
<1> QED BY <1>1, <1>2, SumRemove

(* The sum over two sets without a common element.                         *)
LEMMA SumDisjoint ==
  ASSUME NEW f, NEW S, IsFiniteSet(S), NEW T, IsFiniteSet(T), S \cap T = {},
         \A x \in S \cup T : f[x] \in Int
  PROVE  SumOf(f, S \cup T) = SumOf(f, S) + SumOf(f, T)
<1> DEFINE Bad == {U \in SUBSET T : SumOf(f, S \cup U) # SumOf(f, S) + SumOf(f, U)}
<1> SUFFICES ASSUME Bad # {} PROVE FALSE
  OBVIOUS
<1>1. Bad \subseteq SUBSET T
  OBVIOUS
<1>2. PICK U \in Bad : \A V \in Bad : V \subseteq U => V = U
  <2> HIDE DEF Bad
  <2> QED BY <1>1, MinimalSubset
<1>3. SumOf(f, S) \in Int
  BY SumIsInt
<1>4. U # {}
  <2>1. SumOf(f, {}) = 0
    BY SumEmpty
  <2>2. SUFFICES ASSUME U = {} PROVE FALSE
    OBVIOUS
  <2>3. S \cup U = S
    BY <2>2
  <2> QED BY <1>3, <2>1, <2>2, <2>3
<1>5. PICK x : x \in U
  BY <1>4
<1>6. PICK V : V = U \ {x}
  OBVIOUS
<1>7. V \notin Bad /\ V \in SUBSET T /\ x \in T
  BY <1>2, <1>5, <1>6
<1>8. SumOf(f, S \cup V) = SumOf(f, S) + SumOf(f, V)
  BY <1>7
<1>9. IsFiniteSet(U) /\ IsFiniteSet(V) /\ IsFiniteSet(S \cup U)
  <2>1. IsFiniteSet(U) /\ IsFiniteSet(V)
    BY <1>2, <1>7, FS_Subset
  <2> QED BY <2>1, FS_Union
<1>10. SumOf(f, U) = f[x] + SumOf(f, V)
  BY <1>5, <1>6, <1>9, SumRemove
<1>11. PICK W : W = S \cup U
  OBVIOUS
<1>12. W \ {x} = S \cup V /\ x \in W /\ IsFiniteSet(W) /\ \A y \in W : f[y] \in Int
  BY <1>5, <1>6, <1>7, <1>9, <1>11
<1>13. SumOf(f, W) = f[x] + SumOf(f, W \ {x})
  BY <1>12, SumRemove
<1>14. SumOf(f, V) \in Int /\ f[x] \in Int
  BY <1>7, <1>9, SumIsInt
<1>15. SumOf(f, W) = f[x] + SumOf(f, S \cup V)
  <2>1. W \ {x} = S \cup V
    BY <1>12
  <2> QED BY <1>13, <2>1
<1>16. SumOf(f, W) = SumOf(f, S) + SumOf(f, U)
  BY <1>3, <1>8, <1>10, <1>14, <1>15
<1> QED BY <1>2, <1>11, <1>16

(* The sum depends on the values in the set only.                          *)
LEMMA SumSame ==
  ASSUME NEW f, NEW g, NEW S, IsFiniteSet(S), \A x \in S : f[x] = g[x]
  PROVE  SumOf(f, S) = SumOf(g, S)
<1> SUFFICES ASSUME SumOf(f, S) # SumOf(g, S) PROVE FALSE
  OBVIOUS
<1> DEFINE Bad == {T \in SUBSET S : SumOf(f, T) # SumOf(g, T)}
<1>1. Bad \subseteq SUBSET S /\ Bad # {}
  OBVIOUS
<1>2. PICK T \in Bad : \A U \in Bad : U \subseteq T => U = T
  <2> HIDE DEF Bad
  <2> QED BY <1>1, MinimalSubset
<1>3. IsFiniteSet(T) /\ T # {}
  BY FS_Subset, SumEmpty
<1> DEFINE x == CHOOSE x \in T : TRUE
<1>4. x \in T
  BY <1>3
<1>5. SumOf(f, T) = f[x] + SumOf(f, T \ {x}) /\ SumOf(g, T) = g[x] + SumOf(g, T \ {x})
  BY <1>3, SumChosen
<1> HIDE DEF x
<1>6. T \ {x} \notin Bad /\ f[x] = g[x]
  BY <1>2, <1>4
<1> QED BY <1>5, <1>6

(* One value changes: the sum changes by as much.                          *)
LEMMA SumChange ==
  ASSUME NEW f, NEW g, NEW S, IsFiniteSet(S), NEW a \in S, \A x \in S : f[x] \in Int,
         g[a] \in Int, \A x \in S \ {a} : g[x] = f[x]
  PROVE  SumOf(g, S) = SumOf(f, S) + g[a] - f[a]
<1>1. IsFiniteSet(S \ {a}) /\ \A x \in S : g[x] \in Int
  BY FS_RemoveElement
<1>2. SumOf(f, S) = f[a] + SumOf(f, S \ {a}) /\ SumOf(g, S) = g[a] + SumOf(g, S \ {a})
  BY <1>1, SumRemove
<1>3. SumOf(f, S \ {a}) = SumOf(g, S \ {a}) /\ SumOf(f, S \ {a}) \in Int
  BY <1>1, SumSame, SumIsInt
<1> QED BY <1>2, <1>3

(* A sum of numbers that are not negative grows with the set.              *)
LEMMA SumIsNat ==
  ASSUME NEW f, NEW S, IsFiniteSet(S), \A x \in S : f[x] \in Nat
  PROVE  SumOf(f, S) \in Nat
<1> SUFFICES ASSUME SumOf(f, S) \notin Nat PROVE FALSE
  OBVIOUS
<1> DEFINE Bad == {T \in SUBSET S : SumOf(f, T) \notin Nat}
<1>1. Bad \subseteq SUBSET S /\ Bad # {}
  OBVIOUS
<1>2. PICK T \in Bad : \A U \in Bad : U \subseteq T => U = T
  <2> HIDE DEF Bad
  <2> QED BY <1>1, MinimalSubset
<1>3. IsFiniteSet(T) /\ T # {}
  <2>1. T # {}
    BY SumEmpty
  <2> QED BY <2>1, FS_Subset
<1> DEFINE x == CHOOSE x \in T : TRUE
<1>4. x \in T
  BY <1>3
<1>5. SumOf(f, T) = f[x] + SumOf(f, T \ {x})
  BY <1>3, SumChosen
<1> HIDE DEF x
<1>6. T \ {x} \notin Bad /\ f[x] \in Nat
  BY <1>2, <1>4
<1> QED BY <1>5, <1>6

LEMMA SumGrows ==
  ASSUME NEW f, NEW S, IsFiniteSet(S), \A x \in S : f[x] \in Nat, NEW T \in SUBSET S
  PROVE  SumOf(f, T) <= SumOf(f, S)
<1> SUFFICES ASSUME ~(SumOf(f, T) <= SumOf(f, S)) PROVE FALSE
  OBVIOUS
<1> DEFINE Bad == {U \in SUBSET S : T \subseteq U /\ ~(SumOf(f, T) <= SumOf(f, U))}
<1>1. Bad \subseteq SUBSET S /\ Bad # {}
  OBVIOUS
<1>2. PICK U \in Bad : \A V \in Bad : V \subseteq U => V = U
  <2> HIDE DEF Bad
  <2> QED BY <1>1, MinimalSubset
<1>3. IsFiniteSet(U) /\ IsFiniteSet(T)
  BY FS_Subset
<1>4. SumOf(f, U) \in Nat /\ SumOf(f, T) \in Nat
  BY <1>3, SumIsNat
<1>5. PICK x \in U : x \notin T
  <2>1. U # T
    BY <1>4
  <2> QED BY <2>1
<1>6. SumOf(f, U) = f[x] + SumOf(f, U \ {x}) /\ f[x] \in Nat
  <2>1. \A y \in U : f[y] \in Int
    OBVIOUS
  <2> QED BY <1>3, <2>1, SumRemove
<1>7. U \ {x} \notin Bad /\ T \subseteq U \ {x} /\ U \ {x} \in SUBSET S
  BY <1>2, <1>5
<1>8. SumOf(f, T) <= SumOf(f, U \ {x})
  BY <1>7
<1>9. SumOf(f, U \ {x}) \in Nat
  <2>1. IsFiniteSet(U \ {x}) /\ \A y \in U \ {x} : f[y] \in Nat
    BY <1>3, FS_RemoveElement
  <2> QED BY <2>1, SumIsNat
<1>10. ~(SumOf(f, T) <= SumOf(f, U))
  BY <1>2
<1> QED BY <1>4, <1>6, <1>8, <1>9, <1>10

(* Where every value is 0 the sum is.                                      *)
LEMMA SumZero ==
  ASSUME NEW S, IsFiniteSet(S)
  PROVE  SumOf([x \in S |-> 0], S) = 0
<1> DEFINE f == [x \in S |-> 0]
           Bad == {T \in SUBSET S : SumOf(f, T) # 0}
<1> SUFFICES ASSUME Bad # {} PROVE FALSE
  OBVIOUS
<1>1. Bad \subseteq SUBSET S
  OBVIOUS
<1>2. PICK T \in Bad : \A U \in Bad : U \subseteq T => U = T
  <2> HIDE DEF Bad
  <2> QED BY <1>1, MinimalSubset
<1>3. T # {}
  BY SumEmpty
<1> DEFINE x == CHOOSE x \in T : TRUE
<1>4. x \in T /\ IsFiniteSet(T)
  BY <1>3, FS_Subset
<1>5. SumOf(f, T) = f[x] + SumOf(f, T \ {x})
  BY <1>3, <1>4, SumChosen
<1> HIDE DEF x
<1>6. SumOf(f, T \ {x}) = 0 /\ f[x] = 0
  BY <1>2, <1>4
<1> QED BY <1>5, <1>6
================================================================================
