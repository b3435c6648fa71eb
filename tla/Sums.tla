-------------------------------- MODULE Sums --------------------------------
(***************************************************************************)
(* Sums over finite sets, as the folds of the community modules take them. *)
(*                                                                         *)
(* MapThenSumSet() of the community modules sums by recursion over subsets *)
(* of its set.  The recursion has one solution, by induction over finite   *)
(* sets; here induction is the existence of a smallest counterexample, a   *)
(* statement about sets and not about an operator.                         *)
(***************************************************************************)
EXTENDS Integers, FiniteSets, FiniteSetsExt, Functions, FiniteSetTheorems,
        WellFoundedInduction, TLAPS

\* A set of subsets of a finite set has a smallest member.
LEMMA Smallest ==
  ASSUME NEW S, IsFiniteSet(S), NEW F \in SUBSET SUBSET S, F # {}
  PROVE  \E s \in F : \A t \in F : t \subseteq s => t = s
<1>1. F \subseteq FiniteSubsetsOf(S)
  BY FS_FiniteSubsetsOfFinite
<1>2. PICK s \in F : \A t \in F : <<t, s>> \notin StrictSubsetOrdering(S)
  BY <1>1, WFMin, FS_StrictSubsetOrderingWellFounded
<1> QED
  BY <1>2 DEF StrictSubsetOrdering

\* g sums e over the subsets of S, as MapThenSumSet() does.
Pick(s) == CHOOSE x \in s : TRUE
Adds(g, e, S) ==
    g = [s \in SUBSET S |-> IF s = {} THEN 0 ELSE e[Pick(s)] + g[s \ {Pick(s)}]]

Total(e, S) == (CHOOSE g : Adds(g, e, S))[S]

LEMMA PickIsIn == ASSUME NEW s, s # {} PROVE Pick(s) \in s
BY DEF Pick

LEMMA SumsAgree ==
  ASSUME NEW e, NEW S, NEW T, NEW g, NEW h, Adds(g, e, S), Adds(h, e, T),
         NEW U, U \subseteq S, U \subseteq T, IsFiniteSet(U)
  PROVE  g[U] = h[U]
<1> DEFINE F == {s \in SUBSET U : g[s] # h[s]}
<1> SUFFICES ASSUME F # {} PROVE FALSE
  OBVIOUS
<1>1. PICK s \in F : \A t \in F : t \subseteq s => t = s
  <2>1. F \in SUBSET SUBSET U
    OBVIOUS
  <2> HIDE DEF F
  <2> QED
    BY <2>1, Smallest
<1>2. s \subseteq U /\ s \in SUBSET S /\ s \in SUBSET T /\ g[s] # h[s]
  BY <1>1
<1>3. CASE s = {}
  BY <1>2, <1>3 DEF Adds
<1>4. CASE s # {}
  <2> DEFINE r == s \ {Pick(s)}
  <2>1. r \subseteq s /\ r # s /\ r \in SUBSET U
    BY <1>2, <1>4, PickIsIn
  <2>2. g[r] = h[r]
    BY <1>1, <2>1
  <2>3. g[s] = e[Pick(s)] + g[r] /\ h[s] = e[Pick(s)] + h[r]
    BY <1>2, <1>4 DEF Adds
  <2> QED
    BY <1>2, <2>2, <2>3
<1> QED
  BY <1>3, <1>4

\* Of two sets with a solution, one in the other, the totals fit together.
LEMMA TotalOf ==
  ASSUME NEW e, NEW S, IsFiniteSet(S), NEW g, Adds(g, e, S)
  PROVE  \A U \in SUBSET S : Total(e, U) = g[U]
<1> TAKE U \in SUBSET S
<1> DEFINE h == [s \in SUBSET U |-> g[s]]
<1>1. Adds(h, e, U)
  <2> SUFFICES ASSUME NEW s \in SUBSET U
               PROVE  g[s] = IF s = {} THEN 0 ELSE e[Pick(s)] + h[s \ {Pick(s)}]
    BY DEF Adds
  <2>1. s \in SUBSET S /\ s \ {Pick(s)} \in SUBSET U
    OBVIOUS
  <2>2. g[s] = IF s = {} THEN 0 ELSE e[Pick(s)] + g[s \ {Pick(s)}]
    BY <2>1 DEF Adds
  <2> QED
    BY <2>1, <2>2
<1>2. IsFiniteSet(U)
  BY FS_Subset
<1> HIDE DEF h
<1>3. Adds(CHOOSE k : Adds(k, e, U), e, U)
  BY <1>1
<1> QED
  BY <1>2, <1>3, SumsAgree DEF Total

LEMMA SumExists ==
  ASSUME NEW e, NEW S, IsFiniteSet(S)
  PROVE  \E g : Adds(g, e, S)
<1> DEFINE F == {T \in SUBSET S : ~ \E g : Adds(g, e, T)}
<1> SUFFICES ASSUME F # {} PROVE FALSE
  OBVIOUS
<1>1. PICK T \in F : \A U \in F : U \subseteq T => U = T
  <2>1. F \in SUBSET SUBSET S
    OBVIOUS
  <2> HIDE DEF F
  <2> QED
    BY <2>1, Smallest
<1>2. \A U \in SUBSET T : U # T => \E g : Adds(g, e, U)
  BY <1>1
<1> DEFINE h == [U \in SUBSET T |-> IF U = {} THEN 0
                                    ELSE e[Pick(U)] + Total(e, U \ {Pick(U)})]
<1>3. ASSUME NEW V \in SUBSET T, V # T PROVE h[V] = Total(e, V)
  <2>1. IsFiniteSet(V)
    BY FS_Subset
  <2>2. PICK g : Adds(g, e, V)
    BY <1>2, <1>3
  <2>3. \A U \in SUBSET V : Total(e, U) = g[U]
    BY <2>1, <2>2, TotalOf
  <2>4. g[V] = IF V = {} THEN 0 ELSE e[Pick(V)] + g[V \ {Pick(V)}]
    BY <2>2 DEF Adds
  <2> QED
    BY <2>3, <2>4
<1>4. Adds(h, e, T)
  <2> SUFFICES ASSUME NEW U \in SUBSET T
               PROVE  h[U] = IF U = {} THEN 0 ELSE e[Pick(U)] + h[U \ {Pick(U)}]
    BY DEF Adds
  <2>1. CASE U # {}
    <3>1. U \ {Pick(U)} \in SUBSET T /\ U \ {Pick(U)} # T
      BY <2>1, PickIsIn
    <3>2. h[U \ {Pick(U)}] = Total(e, U \ {Pick(U)})
      BY <1>3, <3>1
    <3> QED
      BY <2>1, <3>2
  <2> QED
    BY <2>1
<1> QED
  BY <1>1, <1>4

\* What a sum over nothing is, and how a sum comes apart.
LEMMA TotalEmpty == ASSUME NEW e PROVE Total(e, {}) = 0
<1>1. IsFiniteSet({})
  BY FS_EmptySet
<1>2. PICK g : Adds(g, e, {})
  BY <1>1, SumExists
<1>3. Total(e, {}) = g[{}]
  BY <1>1, <1>2, TotalOf
<1> QED
  BY <1>2, <1>3 DEF Adds

LEMMA TotalPicked ==
  ASSUME NEW e, NEW S, IsFiniteSet(S), S # {}
  PROVE  Total(e, S) = e[Pick(S)] + Total(e, S \ {Pick(S)})
<1>1. PICK g : Adds(g, e, S)
  BY SumExists
<1>2. \A U \in SUBSET S : Total(e, U) = g[U]
  BY <1>1, TotalOf
<1> QED
  BY <1>1, <1>2 DEF Adds

LEMMA TotalIsInt ==
  ASSUME NEW e, NEW S, IsFiniteSet(S), \A x \in S : e[x] \in Int
  PROVE  Total(e, S) \in Int
<1> DEFINE F == {T \in SUBSET S : Total(e, T) \notin Int}
<1> SUFFICES ASSUME F # {} PROVE FALSE
  BY DEF F
<1>1. PICK T \in F : \A U \in F : U \subseteq T => U = T
  <2>1. F \in SUBSET SUBSET S
    OBVIOUS
  <2> HIDE DEF F
  <2> QED
    BY <2>1, Smallest
<1>2. T # {} /\ IsFiniteSet(T)
  <2>1. T # {}
    BY TotalEmpty
  <2>2. IsFiniteSet(T)
    BY FS_Subset
  <2> QED
    BY <2>1, <2>2
<1> DEFINE R == T \ {Pick(T)}
<1>3. R \in SUBSET S /\ R \subseteq T /\ R # T /\ e[Pick(T)] \in Int
  BY <1>2, PickIsIn
<1>4. Total(e, R) \in Int
  BY <1>1, <1>3
<1>5. Total(e, T) = e[Pick(T)] + Total(e, R)
  BY <1>2, TotalPicked
<1> QED
  BY <1>1, <1>3, <1>4, <1>5

\* The order in which the elements are picked makes no difference.
LEMMA TotalRemove ==
  ASSUME NEW e, NEW S, IsFiniteSet(S), \A x \in S : e[x] \in Int, NEW y \in S
  PROVE  Total(e, S) = e[y] + Total(e, S \ {y})
<1> DEFINE F == {T \in SUBSET S : \E x \in T : Total(e, T) # e[x] + Total(e, T \ {x})}
<1> SUFFICES ASSUME F # {} PROVE FALSE
  BY DEF F
<1>1. PICK T \in F : \A U \in F : U \subseteq T => U = T
  <2>1. F \in SUBSET SUBSET S
    OBVIOUS
  <2> HIDE DEF F
  <2> QED
    BY <2>1, Smallest
<1>2. PICK x \in T : Total(e, T) # e[x] + Total(e, T \ {x})
  BY <1>1
<1> DEFINE p == Pick(T)
           R == T \ {p}
           Q == T \ {x}
           O == R \ {x}
<1>3. IsFiniteSet(T) /\ IsFiniteSet(R) /\ IsFiniteSet(Q) /\ IsFiniteSet(O) /\ T \subseteq S
  BY FS_Subset
<1>4. p \in T /\ Total(e, T) = e[p] + Total(e, R)
  BY <1>2, <1>3, TotalPicked, PickIsIn
<1>5. x # p
  BY <1>2, <1>4
<1>6. Total(e, R) = e[x] + Total(e, O)
  <2>1. R \in SUBSET S /\ R \notin F /\ x \in R
    BY <1>1, <1>2, <1>4, <1>5
  <2> QED
    BY <2>1
<1>7. Total(e, Q) = e[p] + Total(e, O)
  <2>1. Q \in SUBSET S /\ Q \notin F /\ p \in Q /\ Q \ {p} = O
    BY <1>1, <1>2, <1>4, <1>5
  <2> QED
    BY <2>1
<1>8. e[x] \in Int /\ e[p] \in Int /\ Total(e, O) \in Int
  BY <1>2, <1>3, <1>4, TotalIsInt
<1> QED
  BY <1>2, <1>4, <1>6, <1>7, <1>8

LEMMA TotalAdd ==
  ASSUME NEW e, NEW S, IsFiniteSet(S), NEW y, y \notin S, \A x \in S \cup {y} : e[x] \in Int
  PROVE  Total(e, S \cup {y}) = Total(e, S) + e[y]
<1>1. IsFiniteSet(S \cup {y}) /\ (S \cup {y}) \ {y} = S
  BY FS_AddElement
<1>2. Total(e, S \cup {y}) = e[y] + Total(e, S)
  BY <1>1, TotalRemove
<1> QED
  BY <1>2, TotalIsInt

\* A sum depends on the summands in its set only.
LEMMA TotalSame ==
  ASSUME NEW e, NEW f, NEW S, IsFiniteSet(S), \A x \in S : e[x] = f[x]
  PROVE  Total(e, S) = Total(f, S)
<1> DEFINE F == {T \in SUBSET S : Total(e, T) # Total(f, T)}
<1> SUFFICES ASSUME F # {} PROVE FALSE
  BY DEF F
<1>1. PICK T \in F : \A U \in F : U \subseteq T => U = T
  <2>1. F \in SUBSET SUBSET S
    OBVIOUS
  <2> HIDE DEF F
  <2> QED
    BY <2>1, Smallest
<1>2. T # {} /\ IsFiniteSet(T) /\ T \subseteq S
  <2>1. Total(e, {}) = 0 /\ Total(f, {}) = 0
    BY TotalEmpty
  <2>2. IsFiniteSet(T)
    BY FS_Subset
  <2> QED
    BY <2>1, <2>2
<1> DEFINE R == T \ {Pick(T)}
<1>3. R \in SUBSET S /\ R \subseteq T /\ R # T /\ Pick(T) \in S
  BY <1>2, PickIsIn
<1>4. Total(e, R) = Total(f, R)
  BY <1>1, <1>3
<1>5. Total(e, T) = e[Pick(T)] + Total(e, R) /\ Total(f, T) = f[Pick(T)] + Total(f, R)
  BY <1>2, TotalPicked
<1> QED
  BY <1>1, <1>3, <1>4, <1>5

\* Summing two functions one by one or together.
LEMMA TotalPlus ==
  ASSUME NEW e, NEW f, NEW g, NEW S, IsFiniteSet(S),
         \A x \in S : e[x] \in Int /\ f[x] \in Int /\ g[x] = e[x] + f[x]
  PROVE  Total(g, S) = Total(e, S) + Total(f, S)
<1> DEFINE F == {T \in SUBSET S : Total(g, T) # Total(e, T) + Total(f, T)}
<1> SUFFICES ASSUME F # {} PROVE FALSE
  BY DEF F
<1>1. PICK T \in F : \A U \in F : U \subseteq T => U = T
  <2>1. F \in SUBSET SUBSET S
    OBVIOUS
  <2> HIDE DEF F
  <2> QED
    BY <2>1, Smallest
<1>2. T # {} /\ IsFiniteSet(T) /\ T \subseteq S
  <2>1. Total(e, {}) = 0 /\ Total(f, {}) = 0 /\ Total(g, {}) = 0
    BY TotalEmpty
  <2>2. {} \notin F
    BY <2>1
  <2>3. T \subseteq S
    OBVIOUS
  <2> QED
    BY <2>2, <2>3, FS_Subset
<1> DEFINE R == T \ {Pick(T)}
<1>3. R \in SUBSET S /\ R \subseteq T /\ R # T /\ Pick(T) \in S /\ IsFiniteSet(R)
  BY <1>2, PickIsIn, FS_Subset
<1>4. Total(g, R) = Total(e, R) + Total(f, R)
  BY <1>1, <1>3
<1>5. /\ Total(e, T) = e[Pick(T)] + Total(e, R) /\ Total(f, T) = f[Pick(T)] + Total(f, R)
      /\ Total(g, T) = g[Pick(T)] + Total(g, R)
  BY <1>2, TotalPicked
<1>6. Total(e, R) \in Int /\ Total(f, R) \in Int
  BY <1>3, TotalIsInt
<1> QED
  BY <1>1, <1>3, <1>4, <1>5, <1>6

LEMMA TotalUnion ==
  ASSUME NEW e, NEW S, NEW T, IsFiniteSet(S), IsFiniteSet(T), S \cap T = {},
         \A x \in S \cup T : e[x] \in Int
  PROVE  Total(e, S \cup T) = Total(e, S) + Total(e, T)
<1> DEFINE F == {U \in SUBSET T : Total(e, S \cup U) # Total(e, S) + Total(e, U)}
<1> SUFFICES ASSUME F # {} PROVE FALSE
  BY DEF F
<1>1. PICK U \in F : \A V \in F : V \subseteq U => V = U
  <2>1. F \in SUBSET SUBSET T
    OBVIOUS
  <2> HIDE DEF F
  <2> QED
    BY <2>1, Smallest
<1>2. U # {} /\ IsFiniteSet(U) /\ U \subseteq T
  <2>1. Total(e, {}) = 0 /\ Total(e, S) \in Int
    BY TotalEmpty, TotalIsInt
  <2>2. S \cup {} = S
    OBVIOUS
  <2>3. {} \notin F
    BY <2>1, <2>2
  <2>4. U \subseteq T
    OBVIOUS
  <2> QED
    BY <2>3, <2>4, FS_Subset
<1>3. PICK y \in U : TRUE
  BY <1>2
<1> DEFINE R == U \ {y}
<1>4. R \in SUBSET T /\ R \subseteq U /\ R # U /\ y \in S \cup U /\ (S \cup U) \ {y} = S \cup R
  BY <1>2, <1>3
<1>5. IsFiniteSet(R) /\ IsFiniteSet(S \cup U)
  BY <1>2, <1>4, FS_Subset, FS_Union
<1>6. Total(e, S \cup R) = Total(e, S) + Total(e, R)
  BY <1>1, <1>4
<1>7. Total(e, S \cup U) = e[y] + Total(e, S \cup R)
  BY <1>2, <1>4, <1>5, TotalRemove
<1>8. Total(e, U) = e[y] + Total(e, R)
  BY <1>2, <1>3, TotalRemove
<1>9. e[y] \in Int /\ Total(e, S) \in Int /\ Total(e, R) \in Int
  BY <1>2, <1>4, <1>5, TotalIsInt
<1> QED
  BY <1>1, <1>6, <1>7, <1>8, <1>9

\* A sum of things that are not negative.
LEMMA TotalIsNat ==
  ASSUME NEW e, NEW S, IsFiniteSet(S), \A x \in S : e[x] \in Nat
  PROVE  Total(e, S) \in Nat
<1> DEFINE F == {T \in SUBSET S : Total(e, T) \notin Nat}
<1> SUFFICES ASSUME F # {} PROVE FALSE
  BY DEF F
<1>1. PICK T \in F : \A U \in F : U \subseteq T => U = T
  <2>1. F \in SUBSET SUBSET S
    OBVIOUS
  <2> HIDE DEF F
  <2> QED
    BY <2>1, Smallest
<1>2. T # {} /\ IsFiniteSet(T)
  <2>1. T # {}
    BY TotalEmpty
  <2>2. IsFiniteSet(T)
    BY FS_Subset
  <2> QED
    BY <2>1, <2>2
<1> DEFINE R == T \ {Pick(T)}
<1>3. R \in SUBSET S /\ R \subseteq T /\ R # T /\ e[Pick(T)] \in Nat
  BY <1>2, PickIsIn
<1>4. Total(e, R) \in Nat
  BY <1>1, <1>3
<1>5. Total(e, T) = e[Pick(T)] + Total(e, R)
  BY <1>2, TotalPicked
<1> QED
  BY <1>1, <1>3, <1>4, <1>5

\* Adding more of them makes it no smaller.
LEMMA TotalGrows ==
  ASSUME NEW e, NEW f, NEW S, NEW T, IsFiniteSet(T), S \subseteq T,
         \A x \in T : f[x] \in Nat, \A x \in S : e[x] = f[x]
  PROVE  Total(e, S) <= Total(f, T)
<1> DEFINE R == T \ S
<1>1. IsFiniteSet(S) /\ IsFiniteSet(R) /\ S \cap R = {} /\ T = S \cup R
  BY FS_Subset
<1>2. Total(e, S) = Total(f, S)
  BY <1>1, TotalSame
<1>3. Total(f, S) \in Nat /\ Total(f, R) \in Nat
  BY <1>1, TotalIsNat
<1>4. Total(f, S \cup R) = Total(f, S) + Total(f, R)
  <2>1. \A x \in S \cup R : f[x] \in Int
    BY <1>1
  <2> HIDE DEF R
  <2> QED
    BY <1>1, <2>1, TotalUnion
<1> QED
  BY <1>1, <1>2, <1>3, <1>4

\* Renaming what is summed does not change the sum.
LEMMA TotalImage ==
  ASSUME NEW e, NEW f, NEW m, NEW S, IsFiniteSet(S),
         \A x, y \in S : m[x] = m[y] => x = y,
         \A x \in S : f[x] \in Int /\ e[m[x]] = f[x]
  PROVE  Total(e, {m[x] : x \in S}) = Total(f, S)
<1> DEFINE F == {U \in SUBSET S : Total(e, {m[x] : x \in U}) # Total(f, U)}
<1> SUFFICES ASSUME F # {} PROVE FALSE
  BY DEF F
<1>1. PICK U \in F : \A V \in F : V \subseteq U => V = U
  <2>1. F \in SUBSET SUBSET S
    OBVIOUS
  <2> HIDE DEF F
  <2> QED
    BY <2>1, Smallest
<1>2. U # {} /\ IsFiniteSet(U) /\ U \subseteq S
  <2>1. Total(e, {}) = 0 /\ Total(f, {}) = 0
    BY TotalEmpty
  <2>2. {m[x] : x \in {}} = {}
    OBVIOUS
  <2>3. {} \notin F
    BY <2>1, <2>2
  <2>4. U \subseteq S
    OBVIOUS
  <2> QED
    BY <2>3, <2>4, FS_Subset
<1>3. PICK y \in U : TRUE
  BY <1>2
<1> DEFINE R == U \ {y}
           I == {m[x] : x \in U}
           J == {m[x] : x \in R}
<1>4. R \in SUBSET S /\ R \subseteq U /\ R # U
  BY <1>2, <1>3
<1>5. J = I \ {m[y]} /\ m[y] \in I
  BY <1>2, <1>3
<1>6. IsFiniteSet(I)
  <2>1. [x \in U |-> m[x]] \in Surjection(U, I)
    BY DEF Surjection
  <2> HIDE DEF I
  <2> QED
    BY <1>2, <2>1, FS_Surjection
<1>7. Total(e, J) = Total(f, R)
  BY <1>1, <1>4
<1>8. Total(e, I) = e[m[y]] + Total(e, J)
  <2>1. \A z \in I : e[z] \in Int
    BY <1>2
  <2> HIDE DEF I, J
  <2> QED
    BY <1>5, <1>6, <2>1, TotalRemove
<1>9. Total(f, U) = f[y] + Total(f, R)
  BY <1>2, <1>3, TotalRemove
<1> QED
  BY <1>1, <1>2, <1>3, <1>7, <1>8, <1>9

LEMMA TotalZero ==
  ASSUME NEW e, NEW S, IsFiniteSet(S), \A x \in S : e[x] = 0
  PROVE  Total(e, S) = 0
<1> DEFINE F == {T \in SUBSET S : Total(e, T) # 0}
<1> SUFFICES ASSUME F # {} PROVE FALSE
  BY DEF F
<1>1. PICK T \in F : \A U \in F : U \subseteq T => U = T
  <2>1. F \in SUBSET SUBSET S
    OBVIOUS
  <2> HIDE DEF F
  <2> QED
    BY <2>1, Smallest
<1>2. T # {}
  BY TotalEmpty
<1>3. IsFiniteSet(T)
  BY FS_Subset
<1>4. Pick(T) \in S /\ Total(e, T \ {Pick(T)}) = 0
  BY <1>1, <1>2, PickIsIn
<1> QED
  BY <1>1, <1>2, <1>3, <1>4, TotalPicked

\* What FoldFunctionOnSet() of the community modules adds up.
LEMMA FoldIsTotal ==
  ASSUME NEW e, NEW S, IsFiniteSet(S)
  PROVE  FoldFunctionOnSet(+, 0, e, S) = Total(e, S)
<1> DEFINE Adding(g) == g = [s \in SUBSET S |->
                               IF s = {} THEN 0
                               ELSE e[CHOOSE x \in s : TRUE] + g[s \ {CHOOSE x \in s : TRUE}]]
<1>1. FoldFunctionOnSet(+, 0, e, S) = (CHOOSE g : Adding(g))[S]
  BY DEF FoldFunctionOnSet, MapThenFoldSet
<1>2. \A g : Adds(g, e, S) <=> Adding(g)
  BY DEF Adds, Pick
<1> HIDE DEF Adding
<1>3. Adds(CHOOSE g : Adding(g), e, S)
  BY <1>2, SumExists
<1>4. Total(e, S) = (CHOOSE g : Adding(g))[S]
  BY <1>3, TotalOf
<1> QED
  BY <1>1, <1>4

\* A factor of all the summands is one of the sum.
LEMMA TotalTimes ==
  ASSUME NEW e, NEW f, NEW S, IsFiniteSet(S), NEW c \in Int,
         \A x \in S : e[x] \in Int /\ f[x] = c * e[x]
  PROVE  Total(f, S) = c * Total(e, S)
<1> DEFINE F == {T \in SUBSET S : Total(f, T) # c * Total(e, T)}
<1> SUFFICES ASSUME F # {} PROVE FALSE
  BY DEF F
<1>1. PICK T \in F : \A U \in F : U \subseteq T => U = T
  <2>1. F \in SUBSET SUBSET S
    OBVIOUS
  <2> HIDE DEF F
  <2> QED
    BY <2>1, Smallest
<1>2. T # {} /\ IsFiniteSet(T) /\ T \subseteq S
  <2>1. Total(e, {}) = 0 /\ Total(f, {}) = 0 /\ c * 0 = 0
    BY TotalEmpty
  <2>2. {} \notin F
    BY <2>1
  <2>3. T \subseteq S
    OBVIOUS
  <2> QED
    BY <2>2, <2>3, FS_Subset
<1> DEFINE R == T \ {Pick(T)}
<1>3. R \in SUBSET S /\ R \subseteq T /\ R # T /\ Pick(T) \in S /\ IsFiniteSet(R)
  BY <1>2, PickIsIn, FS_Subset
<1>4. Total(f, R) = c * Total(e, R)
  BY <1>1, <1>3
<1>5. Total(e, T) = e[Pick(T)] + Total(e, R) /\ Total(f, T) = f[Pick(T)] + Total(f, R)
  BY <1>2, TotalPicked
<1>6. Total(e, R) \in Int /\ e[Pick(T)] \in Int /\ f[Pick(T)] = c * e[Pick(T)]
  BY <1>3, TotalIsInt
<1>7. \A x, y \in Int : c * (x + y) = c * x + c * y
  OBVIOUS
<1> HIDE DEF R, F
<1>8. Total(f, T) = c * Total(e, T)
  BY <1>4, <1>5, <1>6, <1>7
<1> QED
  BY <1>1, <1>8 DEF F

\* A sum of so many things, none above a bound.
LEMMA TotalAtMost ==
  ASSUME NEW e, NEW S, IsFiniteSet(S), NEW b \in Int,
         \A x \in S : e[x] \in Int /\ e[x] <= b
  PROVE  Total(e, S) <= b * Cardinality(S)
<1> DEFINE F == {T \in SUBSET S : ~ Total(e, T) <= b * Cardinality(T)}
<1> SUFFICES ASSUME F # {} PROVE FALSE
  BY DEF F
<1>1. PICK T \in F : \A U \in F : U \subseteq T => U = T
  <2>1. F \in SUBSET SUBSET S
    OBVIOUS
  <2> HIDE DEF F
  <2> QED
    BY <2>1, Smallest
<1>2. T # {} /\ IsFiniteSet(T) /\ T \subseteq S
  <2>1. Total(e, {}) = 0 /\ Cardinality({}) = 0 /\ 0 <= b * 0
    BY TotalEmpty, FS_EmptySet
  <2>2. {} \notin F
    BY <2>1
  <2>3. T \subseteq S
    OBVIOUS
  <2> QED
    BY <2>2, <2>3, FS_Subset
<1> DEFINE R == T \ {Pick(T)}
           n == Cardinality(R)
<1>3. /\ R \in SUBSET S /\ R \subseteq T /\ R # T /\ Pick(T) \in S
      /\ IsFiniteSet(R) /\ n \in Nat /\ Cardinality(T) = n + 1
  <2>1. Pick(T) \in T
    BY <1>2, PickIsIn
  <2>2. IsFiniteSet(R) /\ n = Cardinality(T) - 1
    BY <1>2, <2>1, FS_RemoveElement
  <2>3. Cardinality(T) \in Nat /\ n \in Nat
    BY <1>2, <2>2, FS_CardinalityType
  <2> QED
    BY <1>2, <2>1, <2>2, <2>3
<1>4. Total(e, R) <= b * n
  BY <1>1, <1>3
<1>5. Total(e, T) = e[Pick(T)] + Total(e, R)
  BY <1>2, TotalPicked
<1>6. Total(e, R) \in Int /\ e[Pick(T)] \in Int /\ e[Pick(T)] <= b
  BY <1>3, TotalIsInt
<1>7. b * (n + 1) = b * n + b /\ b * n \in Int
  BY <1>3
<1> HIDE DEF R, F, n
<1>8. Total(e, T) <= b * Cardinality(T)
  BY <1>3, <1>4, <1>5, <1>6, <1>7
<1> QED
  BY <1>1, <1>8 DEF F

\* Adding one for each is counting.
LEMMA TotalOfOnes ==
  ASSUME NEW e, NEW S, IsFiniteSet(S), \A x \in S : e[x] = 1
  PROVE  Total(e, S) = Cardinality(S)
<1> DEFINE neg == 0 - 1
           f == [x \in S |-> neg]
           n == Cardinality(S)
<1>1. n \in Nat
  BY FS_CardinalityType
<1>2. (\A x \in S : e[x] \in Int /\ e[x] <= 1) /\ \A x \in S : f[x] \in Int /\ f[x] <= neg
  OBVIOUS
<1>3. \A x \in S : e[x] \in Int /\ f[x] = neg * e[x]
  OBVIOUS
<1>4. neg \in Int /\ \A x \in Int : neg * x = -x
  OBVIOUS
<1> HIDE DEF f, neg
<1>5. Total(e, S) <= 1 * n
  BY <1>2, TotalAtMost
<1>6. Total(f, S) <= neg * n
  BY <1>2, <1>4, TotalAtMost
<1>7. Total(f, S) = neg * Total(e, S)
  BY <1>3, <1>4, TotalTimes
<1>8. Total(e, S) \in Int
  BY <1>2, TotalIsInt
<1> QED
  BY <1>1, <1>5, <1>6, <1>7, <1>8, <1>4

\* The amounts of the postings at the positions in S, as SumAt() adds them.
Amounts(postings, S) == MapThenSumSet(LAMBDA i : postings[i].amount, S)

LEMMA AmountsAreTotal ==
  ASSUME NEW postings, NEW S, IsFiniteSet(S)
  PROVE  Amounts(postings, S) = Total([i \in S |-> postings[i].amount], S)
<1> DEFINE e == [i \in S |-> postings[i].amount]
           Sums(g) == g = [s \in SUBSET S |->
                             IF s = {} THEN 0
                             ELSE postings[CHOOSE x \in s : TRUE].amount
                                    + g[s \ {CHOOSE x \in s : TRUE}]]
<1>1. Amounts(postings, S) = (CHOOSE g : Sums(g))[S]
  BY DEF Amounts, MapThenSumSet, MapThenFoldSet
<1>2. ASSUME NEW s \in SUBSET S, s # {} PROVE e[Pick(s)] = postings[CHOOSE x \in s : TRUE].amount
  BY <1>2, PickIsIn DEF Pick
<1>3. \A g : Adds(g, e, S) <=> Sums(g)
  <2> HIDE DEF e
  <2> QED
    BY <1>2 DEF Adds, Pick
<1> HIDE DEF e, Sums
<1>4. \E g : Sums(g)
  BY <1>3, SumExists
<1>5. Adds(CHOOSE g : Sums(g), e, S)
  BY <1>3, <1>4
<1>6. Total(e, S) = (CHOOSE g : Sums(g))[S]
  BY <1>5, TotalOf
<1> QED
  BY <1>1, <1>6 DEF e


LEMMA TotalOne == ASSUME NEW e, NEW y, e[y] \in Int PROVE Total(e, {y}) = e[y]
<1>1. IsFiniteSet({}) /\ {} \cup {y} = {y} /\ Total(e, {}) = 0
  BY FS_EmptySet, TotalEmpty
<1>2. Total(e, {} \cup {y}) = Total(e, {}) + e[y]
  BY <1>1, TotalAdd
<1> QED
  BY <1>1, <1>2

\* The sum over a selection is the sum of what the selection leaves of each.
LEMMA TotalFilter ==
  ASSUME NEW e, NEW f, NEW S, NEW T, IsFiniteSet(S), T \subseteq S,
         \A x \in S : f[x] \in Int /\ f[x] = (IF x \in T THEN e[x] ELSE 0)
  PROVE  Total(e, T) = Total(f, S)
<1>1. IsFiniteSet(T) /\ IsFiniteSet(S \ T) /\ T \cup (S \ T) = S /\ T \cap (S \ T) = {}
  BY FS_Subset, FS_Difference
<1>2. Total(f, S) = Total(f, T) + Total(f, S \ T)
  BY <1>1, TotalUnion
<1>3. Total(f, S \ T) = 0
  BY <1>1, TotalZero
<1>4. Total(e, T) = Total(f, T)
  BY <1>1, TotalSame
<1>5. Total(f, T) \in Int
  BY <1>1, TotalIsInt
<1> QED
  BY <1>2, <1>3, <1>4, <1>5

\* The sum of a selection of the two postings of a transfer.
LEMMA SumOfTwo ==
  ASSUME NEW p, DOMAIN p = {1, 2}, {p[1].amount, p[2].amount} \subseteq Int,
         NEW S \in SUBSET {1, 2}
  PROVE  Amounts(p, S) = (IF 1 \in S THEN p[1].amount ELSE 0)
                         + (IF 2 \in S THEN p[2].amount ELSE 0)
<1>1. IsFiniteSet({1}) /\ IsFiniteSet({2}) /\ IsFiniteSet({}) /\ IsFiniteSet({1, 2})
  <2>1. {1, 2} = {1} \cup {2}
    OBVIOUS
  <2>2. IsFiniteSet({1}) /\ IsFiniteSet({2}) /\ IsFiniteSet({})
    BY FS_EmptySet, FS_Singleton
  <2>3. IsFiniteSet({1} \cup {2})
    BY <2>2, FS_Union
  <2> QED
    BY <2>1, <2>2, <2>3
<1>2. S = {} \/ S = {1} \/ S = {2} \/ S = {1, 2}
  OBVIOUS
<1> DEFINE e == [i \in S |-> p[i].amount]
<1>3. Amounts(p, S) = Total(e, S)
  BY <1>1, <1>2, AmountsAreTotal
<1>4. \A i \in S : e[i] \in Int /\ e[i] = p[i].amount
  BY <1>2
<1> HIDE DEF e
<1>5. CASE S = {}
  BY <1>3, <1>5, TotalEmpty
<1>6. CASE S = {1}
  BY <1>3, <1>4, <1>6, TotalOne
<1>7. CASE S = {2}
  <2>1. Total(e, {2}) = e[2]
    BY <1>4, <1>7, TotalOne
  <2>2. Total(e, {2}) = p[2].amount /\ p[2].amount \in Int
    BY <1>4, <1>7, <2>1
  <2> QED
    BY <1>3, <1>7, <2>2
<1>8. CASE S = {1, 2}
  <2>1. Total(e, {1}) = e[1]
    BY <1>4, <1>8, TotalOne
  <2>2. {1} \cup {2} = {1, 2} /\ 2 \notin {1} /\ \A x \in {1} \cup {2} : e[x] \in Int
    BY <1>4, <1>8
  <2>3. Total(e, {1} \cup {2}) = Total(e, {1}) + e[2]
    BY <1>1, <2>2, TotalAdd
  <2> QED
    BY <1>3, <1>4, <1>8, <2>1, <2>2, <2>3
<1> QED
  BY <1>2, <1>5, <1>6, <1>7, <1>8
=============================================================================
