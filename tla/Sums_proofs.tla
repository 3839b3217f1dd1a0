---------------------------- MODULE Sums_proofs ----------------------------
(***************************************************************************)
(* Sums over finite sets, SumFunctionOnSet of the module Functions.  Every *)
(* lemma that needs an induction on the set is proved with a subset that   *)
(* is minimal among those it fails for (WFMin), since an induction theorem *)
(* would take the induction hypothesis as an operator.                     *)
(***************************************************************************)
EXTENDS Integers, FiniteSets, FiniteSetsExt, TLAPS, FiniteSetTheorems, WellFoundedInduction

\* The element of s that a sum takes first.
First(s) == CHOOSE x \in s : TRUE

\* The recursive function a sum over S is defined by.
IsSum(it, g, S) ==
    it = [s \in SUBSET S |-> IF s = {} THEN 0 ELSE g[First(s)] + it[s \ {First(s)}]]

\* A sum is what such a function gives the whole set.
LEMMA SumDef ==
  ASSUME NEW g, NEW S
  PROVE  SumFunctionOnSet(g, S) = (CHOOSE it : IsSum(it, g, S))[S]
  BY DEF SumFunctionOnSet, FoldFunctionOnSet, MapThenFoldSet, IsSum, First

\* Of finite sets, one that is minimal.
LEMMA MinimalSet ==
  ASSUME NEW S, IsFiniteSet(S), NEW F \in SUBSET (SUBSET S), F # {}
  PROVE  \E x \in F : \A y \in F : y \subseteq x => y = x
  <1>1. F \subseteq FiniteSubsetsOf(S)
    BY FS_Subset DEF FiniteSubsetsOf
  <1>2. IsWellFoundedOn(StrictSubsetOrdering(S), FiniteSubsetsOf(S))
    BY FS_StrictSubsetOrderingWellFounded
  <1>3. \E x \in F : \A y \in F : ~(<<y, x>> \in StrictSubsetOrdering(S))
    BY <1>1, <1>2, WFMin
  <1> QED
    BY <1>3 DEF StrictSubsetOrdering

\* Two such functions agree where both are defined.
LEMMA SumsAgree ==
  ASSUME NEW S, IsFiniteSet(S), NEW g, NEW a, NEW b, NEW V \in SUBSET S,
         IsSum(a, g, S), IsSum(b, g, V)
  PROVE  \A W \in SUBSET V : a[W] = b[W]
  <1> DEFINE F == {W \in SUBSET V : a[W] # b[W]}
  <1> SUFFICES ASSUME F # {} PROVE FALSE
    OBVIOUS
  <1>1. PICK W \in F : \A y \in F : y \subseteq W => y = W
    <2>1. IsFiniteSet(V) /\ F \in SUBSET (SUBSET V)
      BY FS_Subset
    <2> HIDE DEF F
    <2>2. \E x \in F : \A y \in F : y \subseteq x => y = x
      BY <2>1, MinimalSet
    <2> QED
      BY <2>2
  <1>2. W \in SUBSET S /\ W \in SUBSET V /\ a[W] # b[W]
    OBVIOUS
  <1>3. /\ a[W] = IF W = {} THEN 0 ELSE g[First(W)] + a[W \ {First(W)}]
        /\ b[W] = IF W = {} THEN 0 ELSE g[First(W)] + b[W \ {First(W)}]
    BY <1>2 DEF IsSum
  <1>4. W # {}
    BY <1>2, <1>3
  <1>5. First(W) \in W
    BY <1>4 DEF First
  <1>6. W \ {First(W)} \in SUBSET V /\ W \ {First(W)} \subseteq W /\ W \ {First(W)} # W
    BY <1>2, <1>5
  <1>7. a[W \ {First(W)}] = b[W \ {First(W)}]
    BY <1>1, <1>6
  <1> QED
    BY <1>2, <1>3, <1>4, <1>7

\* There is one for every finite set.
LEMMA SumExists ==
  ASSUME NEW S, IsFiniteSet(S), NEW g
  PROVE  \E it : IsSum(it, g, S)
  <1> DEFINE F == {T \in SUBSET S : ~\E it : IsSum(it, g, T)}
             sol(U) == CHOOSE it : IsSum(it, g, U)
             less(U) == U \ {First(U)}
             val(U) == IF U = {} THEN 0 ELSE g[First(U)] + sol(less(U))[less(U)]
  <1> SUFFICES ASSUME F # {} PROVE FALSE
    BY DEF F
  <1>1. PICK T \in F : \A y \in F : y \subseteq T => y = T
    <2>1. F \in SUBSET (SUBSET S)
      OBVIOUS
    <2> HIDE DEF F
    <2>2. \E x \in F : \A y \in F : y \subseteq x => y = x
      BY <2>1, MinimalSet
    <2> QED
      BY <2>2
  <1>2. T \in SUBSET S /\ ~\E it : IsSum(it, g, T)
    OBVIOUS
  <1>3. ASSUME NEW U \in SUBSET T, U # T PROVE IsSum(sol(U), g, U)
    <2>1. U \in SUBSET S
      BY <1>2
    <2>2. \E it : IsSum(it, g, U)
      BY <1>1, <1>3, <2>1
    <2> QED
      BY <2>2
  <1>4. ASSUME NEW U \in SUBSET T, U # {} PROVE less(U) \in SUBSET T /\ less(U) \subseteq U /\ less(U) # U /\ less(U) # T
    <2>1. First(U) \in U
      BY <1>4 DEF First
    <2> QED
      BY <2>1
  <1>5. ASSUME NEW U \in SUBSET T, U # T PROVE sol(U)[U] = val(U)
    <2>1. CASE U = {}
      <3>1. IsSum(sol(U), g, U) /\ val(U) = 0
        BY <1>3, <1>5, <2>1
      <3> HIDE DEF sol, val
      <3> QED
        BY <2>1, <3>1 DEF IsSum
    <2>2. CASE U # {}
      <3>1. sol(U)[U] = g[First(U)] + sol(U)[less(U)]
        <4>1. IsSum(sol(U), g, U)
          BY <1>3, <1>5
        <4> HIDE DEF sol
        <4> QED
          BY <2>2, <4>1 DEF IsSum
      <3>2. sol(U)[less(U)] = sol(less(U))[less(U)]
        <4>1. /\ IsSum(sol(U), g, U) /\ IsSum(sol(less(U)), g, less(U))
              /\ less(U) \in SUBSET U
          BY <1>3, <1>4, <1>5, <2>2
        <4>2. IsFiniteSet(U)
          BY <1>2, FS_Subset
        <4> HIDE DEF sol, less
        <4>3. \A W \in SUBSET less(U) : sol(U)[W] = sol(less(U))[W]
          BY <4>1, <4>2, SumsAgree
        <4> QED
          BY <4>3
      <3> QED
        BY <2>2, <3>1, <3>2
    <2> QED
      BY <2>1, <2>2
  <1> DEFINE all == [U \in SUBSET T |-> val(U)]
  <1>6. ASSUME NEW U \in SUBSET T
        PROVE  val(U) = IF U = {} THEN 0 ELSE g[First(U)] + all[less(U)]
    <2>1. CASE U = {}
      BY <2>1
    <2>2. CASE U # {}
      <3>1. less(U) \in SUBSET T /\ sol(less(U))[less(U)] = val(less(U))
        BY <1>4, <1>5, <2>2
      <3>2. all[less(U)] = val(less(U))
        <4> HIDE DEF val, less
        <4> QED
          BY <3>1
      <3>3. val(U) = g[First(U)] + sol(less(U))[less(U)]
        <4> HIDE DEF sol, less
        <4> QED
          BY <2>2
      <3> HIDE DEF val, sol, less, all
      <3> QED
        BY <2>2, <3>1, <3>2, <3>3
    <2> QED
      BY <2>1, <2>2
  <1>7. all = [U \in SUBSET T |-> IF U = {} THEN 0 ELSE g[First(U)] + all[less(U)]]
    <2>1. all = [U \in SUBSET T |-> val(U)]
      OBVIOUS
    <2> HIDE DEF all, val, sol, less
    <2> QED
      BY <1>6, <2>1
  <1>8. IsSum(all, g, T)
    <2> HIDE DEF val, sol
    <2> HIDE DEF all
    <2> QED
      BY <1>7 DEF IsSum
  <1> QED
    BY <1>2, <1>8

\* So a sum is zero for no elements, and otherwise the value of one element
\* and the sum of the others.
LEMMA SumUnfolds ==
  ASSUME NEW S, IsFiniteSet(S), NEW g
  PROVE  SumFunctionOnSet(g, S) =
            IF S = {} THEN 0
            ELSE g[First(S)] + SumFunctionOnSet(g, S \ {First(S)})
  <1> DEFINE sol(U) == CHOOSE it : IsSum(it, g, U)
             R == S \ {First(S)}
  <1>1. R \in SUBSET S /\ IsFiniteSet(R) /\ S \in SUBSET S
    BY FS_Subset
  <1>2. IsSum(sol(S), g, S) /\ IsSum(sol(R), g, R)
    BY <1>1, SumExists
  <1>3. SumFunctionOnSet(g, S) = sol(S)[S] /\ SumFunctionOnSet(g, R) = sol(R)[R]
    BY SumDef
  <1> HIDE DEF sol
  <1>4. sol(S)[R] = sol(R)[R]
    <2>1. \A W \in SUBSET R : sol(S)[W] = sol(R)[W]
      BY <1>1, <1>2, SumsAgree
    <2> QED
      BY <2>1
  <1>5. sol(S)[S] = IF S = {} THEN 0 ELSE g[First(S)] + sol(S)[R]
    BY <1>1, <1>2 DEF IsSum
  <1> QED
    BY <1>3, <1>4, <1>5

\* g gives every element of S an integer.
Ints(g, S) == \A x \in S : g[x] \in Int

\* A sum of integers is one.
LEMMA SumType ==
  ASSUME NEW S, IsFiniteSet(S), NEW g, Ints(g, S)
  PROVE  SumFunctionOnSet(g, S) \in Int
  <1> DEFINE F == {W \in SUBSET S : SumFunctionOnSet(g, W) \notin Int}
  <1> SUFFICES ASSUME F # {} PROVE FALSE
    OBVIOUS
  <1>1. PICK W \in F : \A y \in F : y \subseteq W => y = W
    <2>1. F \in SUBSET (SUBSET S)
      OBVIOUS
    <2> HIDE DEF F
    <2>2. \E x \in F : \A y \in F : y \subseteq x => y = x
      BY <2>1, MinimalSet
    <2> QED
      BY <2>2
  <1>2. W \in SUBSET S /\ SumFunctionOnSet(g, W) \notin Int /\ IsFiniteSet(W)
    BY FS_Subset
  <1>3. SumFunctionOnSet(g, W) = IF W = {} THEN 0
                                 ELSE g[First(W)] + SumFunctionOnSet(g, W \ {First(W)})
    BY <1>2, SumUnfolds
  <1>4. W # {}
    BY <1>2, <1>3
  <1>5. First(W) \in W
    BY <1>4 DEF First
  <1>6. W \ {First(W)} \subseteq W /\ W \ {First(W)} # W /\ W \ {First(W)} \in SUBSET S
    BY <1>2, <1>5
  <1>7. SumFunctionOnSet(g, W \ {First(W)}) \in Int
    BY <1>1, <1>6
  <1>8. g[First(W)] \in Int
    BY <1>2, <1>5 DEF Ints
  <1> QED
    BY <1>2, <1>3, <1>4, <1>7, <1>8

\* A sum over no elements is zero.
LEMMA SumOfNone == ASSUME NEW g PROVE SumFunctionOnSet(g, {}) = 0
  <1>1. IsFiniteSet({})
    BY FS_EmptySet
  <1> QED
    BY <1>1, SumUnfolds

\* Any element may be taken out of a sum.
LEMMA SumWithout ==
  ASSUME NEW S, IsFiniteSet(S), NEW g, Ints(g, S)
  PROVE  \A x \in S : SumFunctionOnSet(g, S) = g[x] + SumFunctionOnSet(g, S \ {x})
  <1> DEFINE s(U) == SumFunctionOnSet(g, U)
             F == {W \in SUBSET S : \E x \in W : s(W) # g[x] + s(W \ {x})}
  <1> SUFFICES ASSUME F # {} PROVE FALSE
    OBVIOUS
  <1>1. PICK W \in F : \A y \in F : y \subseteq W => y = W
    <2>1. F \in SUBSET (SUBSET S)
      OBVIOUS
    <2> HIDE DEF F
    <2>2. \E y \in F : \A z \in F : z \subseteq y => z = y
      BY <2>1, MinimalSet
    <2> QED
      BY <2>2
  <1>2. W \in SUBSET S
    OBVIOUS
  <1>3. PICK x \in W : s(W) # g[x] + s(W \ {x})
    OBVIOUS
  <1> DEFINE c == First(W)
             R == W \ {c, x}
  <1>4. c \in W /\ W # {}
    BY <1>3 DEF First
  <1>5. /\ IsFiniteSet(W) /\ IsFiniteSet(R) /\ Ints(g, R)
        /\ g[x] \in Int /\ g[c] \in Int
    BY <1>2, <1>3, <1>4, FS_Subset DEF Ints
  <1>6. s(W) = g[c] + s(W \ {c})
    BY <1>4, <1>5, SumUnfolds
  <1>7. c # x
    BY <1>3, <1>6
  <1>8. ASSUME NEW V \in SUBSET W, V # W, NEW y \in V PROVE s(V) = g[y] + s(V \ {y})
    <2>1. V \notin F /\ V \in SUBSET S
      BY <1>1, <1>2, <1>8
    <2> QED
      BY <2>1
  <1>9. s(W \ {c}) = g[x] + s(R)
    <2>1. W \ {c} \in SUBSET W /\ W \ {c} # W /\ x \in W \ {c} /\ (W \ {c}) \ {x} = R
      BY <1>3, <1>4, <1>7
    <2> HIDE DEF s, R
    <2> QED
      BY <1>8, <2>1
  <1>10. s(W \ {x}) = g[c] + s(R)
    <2>1. W \ {x} \in SUBSET W /\ W \ {x} # W /\ c \in W \ {x} /\ (W \ {x}) \ {c} = R
      BY <1>3, <1>4, <1>7
    <2> HIDE DEF s, R
    <2> QED
      BY <1>8, <2>1
  <1>11. s(R) \in Int
    BY <1>5, SumType
  <1> HIDE DEF s, R, c
  <1> QED
    BY <1>3, <1>5, <1>6, <1>9, <1>10, <1>11

\* Functions that agree on a set have one sum over it.
LEMMA SumCongruent ==
  ASSUME NEW S, IsFiniteSet(S), NEW g, NEW h, \A x \in S : g[x] = h[x]
  PROVE  SumFunctionOnSet(g, S) = SumFunctionOnSet(h, S)
  <1> DEFINE F == {W \in SUBSET S : SumFunctionOnSet(g, W) # SumFunctionOnSet(h, W)}
  <1> SUFFICES ASSUME F # {} PROVE FALSE
    OBVIOUS
  <1>1. PICK W \in F : \A y \in F : y \subseteq W => y = W
    <2>1. F \in SUBSET (SUBSET S)
      OBVIOUS
    <2> HIDE DEF F
    <2>2. \E y \in F : \A z \in F : z \subseteq y => z = y
      BY <2>1, MinimalSet
    <2> QED
      BY <2>2
  <1>2. /\ W \in SUBSET S /\ IsFiniteSet(W)
        /\ SumFunctionOnSet(g, W) # SumFunctionOnSet(h, W)
    BY FS_Subset
  <1>3. \A f : SumFunctionOnSet(f, W) =
            IF W = {} THEN 0 ELSE f[First(W)] + SumFunctionOnSet(f, W \ {First(W)})
    BY <1>2, SumUnfolds
  <1>4. W # {}
    BY <1>2, <1>3
  <1>5. First(W) \in W
    BY <1>4 DEF First
  <1>6. W \ {First(W)} \in SUBSET S /\ W \ {First(W)} \subseteq W /\ W \ {First(W)} # W
    BY <1>2, <1>5
  <1>7. SumFunctionOnSet(g, W \ {First(W)}) = SumFunctionOnSet(h, W \ {First(W)})
    BY <1>1, <1>6
  <1>8. g[First(W)] = h[First(W)]
    BY <1>2, <1>5
  <1> QED
    BY <1>2, <1>3, <1>4, <1>7, <1>8

\* A sum of zeros is zero.
LEMMA SumOfZeros ==
  ASSUME NEW S, IsFiniteSet(S), NEW g, \A x \in S : g[x] = 0
  PROVE  SumFunctionOnSet(g, S) = 0
  <1> DEFINE F == {W \in SUBSET S : SumFunctionOnSet(g, W) # 0}
  <1> SUFFICES ASSUME F # {} PROVE FALSE
    OBVIOUS
  <1>1. PICK W \in F : \A y \in F : y \subseteq W => y = W
    <2>1. F \in SUBSET (SUBSET S)
      OBVIOUS
    <2> HIDE DEF F
    <2>2. \E x \in F : \A y \in F : y \subseteq x => y = x
      BY <2>1, MinimalSet
    <2> QED
      BY <2>2
  <1>2. W \in SUBSET S /\ SumFunctionOnSet(g, W) # 0 /\ IsFiniteSet(W)
    BY FS_Subset
  <1>3. W # {}
    BY <1>2, SumOfNone
  <1>4. PICK x \in W : TRUE
    BY <1>3
  <1>5. Ints(g, W) /\ g[x] = 0
    BY <1>2, <1>4 DEF Ints
  <1>6. SumFunctionOnSet(g, W) = g[x] + SumFunctionOnSet(g, W \ {x})
    BY <1>2, <1>4, <1>5, SumWithout
  <1>7. W \ {x} \in SUBSET S /\ W \ {x} \subseteq W /\ W \ {x} # W
    BY <1>2, <1>4
  <1>8. SumFunctionOnSet(g, W \ {x}) = 0
    BY <1>1, <1>7
  <1> QED
    BY <1>2, <1>5, <1>6, <1>8

\* The sum over two sets that share nothing.
LEMMA SumOfUnion ==
  ASSUME NEW S, NEW T, IsFiniteSet(S), IsFiniteSet(T), S \cap T = {}, NEW g,
         Ints(g, S), Ints(g, T)
  PROVE  SumFunctionOnSet(g, S \union T) = SumFunctionOnSet(g, S) + SumFunctionOnSet(g, T)
  <1> DEFINE s(U) == SumFunctionOnSet(g, U)
             F == {W \in SUBSET S : s(W \union T) # s(W) + s(T)}
  <1> SUFFICES ASSUME F # {} PROVE FALSE
    <2>1. S \notin F
      OBVIOUS
    <2> QED
      BY <2>1
  <1>1. PICK W \in F : \A y \in F : y \subseteq W => y = W
    <2>1. F \in SUBSET (SUBSET S)
      OBVIOUS
    <2> HIDE DEF F
    <2>2. \E y \in F : \A z \in F : z \subseteq y => z = y
      BY <2>1, MinimalSet
    <2> QED
      BY <2>2
  <1>2. W \in SUBSET S /\ s(W \union T) # s(W) + s(T)
    OBVIOUS
  <1>3. /\ IsFiniteSet(W) /\ Ints(g, W)
        /\ IsFiniteSet(W \union T) /\ Ints(g, W \union T)
    BY <1>2, FS_Subset, FS_Union DEF Ints
  <1>4. s(T) \in Int
    BY SumType
  <1>5. CASE W = {}
    <2>1. s(W) = 0
      BY <1>5, SumOfNone
    <2>2. W \union T = T
      BY <1>5
    <2>3. s(W \union T) = s(T)
      BY <2>2
    <2> HIDE DEF s
    <2> QED
      BY <1>2, <1>4, <2>1, <2>3
  <1>6. CASE W # {}
    <2>1. PICK x \in W : TRUE
      BY <1>6
    <2>2. /\ W \ {x} \in SUBSET S /\ W \ {x} \subseteq W /\ W \ {x} # W
          /\ (W \union T) \ {x} = (W \ {x}) \union T
          /\ x \in W \union T /\ IsFiniteSet(W \ {x}) /\ Ints(g, W \ {x}) /\ g[x] \in Int
      BY <1>2, <1>3, <2>1, FS_Subset DEF Ints
    <2>3. s((W \ {x}) \union T) = s(W \ {x}) + s(T)
      BY <1>1, <2>2
    <2>4. s(W) = g[x] + s(W \ {x})
      BY <1>3, SumWithout
    <2>5. s(W \union T) = g[x] + s((W \ {x}) \union T)
      BY <1>3, <2>2, SumWithout
    <2>6. s(W \ {x}) \in Int
      BY <2>2, SumType
    <2> HIDE DEF s
    <2> QED
      BY <1>2, <1>4, <2>2, <2>3, <2>4, <2>5, <2>6
  <1> QED
    BY <1>5, <1>6

\* A sum over S is the sum over the values that h gives the elements of S, if
\* it gives no value twice.
LEMMA SumRenamed ==
  ASSUME NEW S, IsFiniteSet(S), NEW T, NEW f, NEW g, NEW h \in Bijection(S, T),
         \A x \in S : f[x] = g[h[x]], Ints(f, S)
  PROVE  SumFunctionOnSet(f, S) = SumFunctionOnSet(g, T)
  <1> DEFINE im(U) == {h[x] : x \in U}
             F == {W \in SUBSET S : SumFunctionOnSet(f, W) # SumFunctionOnSet(g, im(W))}
  <1>0. /\ \A x \in S : h[x] \in T
        /\ \A y \in T : \E x \in S : h[x] = y
        /\ \A x, y \in S : h[x] = h[y] => x = y
    BY DEF Bijection, Injection, Surjection, IsInjective
  <1> SUFFICES ASSUME F # {} PROVE FALSE
    <2>1. S \notin F
      OBVIOUS
    <2>2. im(S) = T
      BY <1>0
    <2> QED
      BY <2>1, <2>2
  <1>1. PICK W \in F : \A y \in F : y \subseteq W => y = W
    <2>1. F \in SUBSET (SUBSET S)
      OBVIOUS
    <2> HIDE DEF F
    <2>2. \E y \in F : \A z \in F : z \subseteq y => z = y
      BY <2>1, MinimalSet
    <2> QED
      BY <2>2
  <1>2. /\ W \in SUBSET S /\ SumFunctionOnSet(f, W) # SumFunctionOnSet(g, im(W))
    OBVIOUS
  <1>3. IsFiniteSet(W) /\ Ints(f, W)
    BY <1>2, FS_Subset DEF Ints
  <1>4. IsFiniteSet(im(W)) /\ Ints(g, im(W))
    <2>1. Ints(g, im(W))
      BY <1>2 DEF Ints
    <2> DEFINE k == [x \in W |-> h[x]]
    <2>2. k \in Surjection(W, im(W))
      BY DEF Surjection
    <2>3. IsFiniteSet(im(W))
      <3> HIDE DEF k, im
      <3> QED
        BY <1>3, <2>2, FS_Surjection
    <2> QED
      BY <2>1, <2>3
  <1>5. CASE W = {}
    <2>1. im(W) = {}
      BY <1>5
    <2> HIDE DEF im
    <2> QED
      BY <1>2, <1>5, <2>1, SumOfNone
  <1>6. CASE W # {}
    <2>1. PICK x \in W : TRUE
      BY <1>6
    <2>2. /\ W \ {x} \in SUBSET S /\ W \ {x} \subseteq W /\ W \ {x} # W
          /\ im(W) \ {h[x]} = im(W \ {x}) /\ h[x] \in im(W) /\ f[x] = g[h[x]]
      BY <1>0, <1>2, <2>1
    <2>3. SumFunctionOnSet(f, W \ {x}) = SumFunctionOnSet(g, im(W \ {x}))
      BY <1>1, <2>2
    <2>4. SumFunctionOnSet(f, W) = f[x] + SumFunctionOnSet(f, W \ {x})
      BY <1>3, SumWithout
    <2> HIDE DEF im
    <2>5. SumFunctionOnSet(g, im(W)) = g[h[x]] + SumFunctionOnSet(g, im(W) \ {h[x]})
      BY <1>4, <2>2, SumWithout
    <2> QED
      BY <1>2, <2>2, <2>3, <2>4, <2>5
  <1> QED
    BY <1>5, <1>6

\* A value that changes changes the sum by as much.
LEMMA SumChangedAt ==
  ASSUME NEW S, IsFiniteSet(S), NEW g, NEW h, Ints(g, S), Ints(h, S), NEW x \in S,
         \A y \in S : y # x => h[y] = g[y]
  PROVE  SumFunctionOnSet(h, S) = SumFunctionOnSet(g, S) + (h[x] - g[x])
  <1> DEFINE R == S \ {x}
  <1>1. IsFiniteSet(R) /\ Ints(g, R) /\ Ints(h, R) /\ \A y \in R : h[y] = g[y]
    BY FS_Subset DEF Ints
  <1>2. SumFunctionOnSet(h, R) = SumFunctionOnSet(g, R)
    BY <1>1, SumCongruent
  <1>3. /\ SumFunctionOnSet(g, S) = g[x] + SumFunctionOnSet(g, R)
        /\ SumFunctionOnSet(h, S) = h[x] + SumFunctionOnSet(h, R)
    BY SumWithout
  <1>4. SumFunctionOnSet(g, R) \in Int /\ g[x] \in Int /\ h[x] \in Int
    BY <1>1, SumType DEF Ints
  <1> QED
    BY <1>2, <1>3, <1>4

\* What one element loses to another changes no sum.
LEMMA SumMovedBetween ==
  ASSUME NEW S, IsFiniteSet(S), NEW g, NEW h, Ints(g, S), Ints(h, S),
         NEW x \in S, NEW z \in S, x # z,
         \A y \in S : y # x /\ y # z => h[y] = g[y],
         h[x] + h[z] = g[x] + g[z]
  PROVE  SumFunctionOnSet(h, S) = SumFunctionOnSet(g, S)
  <1> DEFINE R == S \ {x}
  <1>1. /\ IsFiniteSet(R) /\ Ints(g, R) /\ Ints(h, R) /\ z \in R
        /\ \A y \in R : y # z => h[y] = g[y]
    BY FS_Subset DEF Ints
  <1>2. SumFunctionOnSet(h, R) = SumFunctionOnSet(g, R) + (h[z] - g[z])
    BY <1>1, SumChangedAt
  <1>3. /\ SumFunctionOnSet(g, S) = g[x] + SumFunctionOnSet(g, R)
        /\ SumFunctionOnSet(h, S) = h[x] + SumFunctionOnSet(h, R)
    BY SumWithout
  <1>4. /\ SumFunctionOnSet(g, R) \in Int
        /\ g[x] \in Int /\ h[x] \in Int /\ g[z] \in Int /\ h[z] \in Int
    BY <1>1, SumType DEF Ints
  <1> QED
    BY <1>2, <1>3, <1>4
=============================================================================
