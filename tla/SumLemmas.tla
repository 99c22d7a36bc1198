----------------------------- MODULE SumLemmas -----------------------------
(***************************************************************************)
(* Sums of the values of a function over a finite set, as the models take  *)
(* them of the rows of a ledger: what the proofs need to know of           *)
(* SumFunctionOnSet().                                                     *)
(*                                                                         *)
(* The fold behind it is a recursive function on the subsets of the set,   *)
(* which means no more than that the function exists, if it does.  That it *)
(* does, and everything about its values, is proved from the least subset  *)
(* for which the claim would fail: the strict inclusion of finite sets is  *)
(* well founded.  The natural numbers are shown to be well ordered in the  *)
(* same way.                                                               *)
(***************************************************************************)
EXTENDS Integers, FiniteSetsExt, FiniteSetTheorems, TLAPS

\* The sum over s, by the sums over smaller sets in the table t.
SumStep(f, t, s) ==
  IF s = {} THEN 0
  ELSE f[CHOOSE x \in s : TRUE] + t[s \ {CHOOSE x \in s : TRUE}]

\* t holds the sum over every subset of S.
IsSumTable(t, f, S) == t = [s \in SUBSET S |-> SumStep(f, t, s)]

SumTable(f, S) == CHOOSE t : IsSumTable(t, f, S)

\* The fold chooses such a table.
LEMMA SumByTable ==
  ASSUME NEW f, NEW S
  PROVE  SumFunctionOnSet(f, S) = SumTable(f, S)[S]
  BY DEF SumFunctionOnSet, FoldFunctionOnSet, MapThenFoldSet, SumTable,
         IsSumTable, SumStep

\* Among some subsets of a finite set there is one that contains no other.
LEMMA LeastSubset ==
  ASSUME NEW S, IsFiniteSet(S), NEW T, T \subseteq SUBSET S, T # {}
  PROVE  \E x \in T : \A y \in T : y \subseteq x => y = x
  <1>1. IsWellFoundedOn(StrictSubsetOrdering(S), FiniteSubsetsOf(S))
    BY FS_StrictSubsetOrderingWellFounded
  <1>2. FiniteSubsetsOf(S) = SUBSET S
    BY FS_FiniteSubsetsOfFinite
  <1>3. PICK x \in T : \A y \in T : <<y, x>> \notin StrictSubsetOrdering(S)
    BY <1>1, <1>2, WFMin
  <1>4. ASSUME NEW y \in T, y \subseteq x
        PROVE  y = x
    <2>1. <<y, x>> \in (SUBSET S) \X (SUBSET S)
      OBVIOUS
    <2>2. y # x => <<y, x>> \in StrictSubsetOrdering(S)
      BY <2>1, <1>4 DEF StrictSubsetOrdering
    <2> QED BY <1>3, <2>2
  <1> QED BY <1>4

\* Among some natural numbers there is a least one.
LEMMA LeastNatural ==
  ASSUME NEW N, N \subseteq Nat, N # {}
  PROVE  \E n \in N : \A m \in N : n <= m
  <1>1. PICK k \in N : TRUE
    OBVIOUS
  <1> DEFINE all == 0 .. k
             T == {0 .. m : m \in {i \in N : i <= k}}
  <1>2. IsFiniteSet(all)
    BY <1>1, FS_Interval
  <1>3. T \subseteq SUBSET all /\ T # {}
    BY <1>1
  <1>4. PICK x \in T : \A y \in T : y \subseteq x => y = x
    <2> HIDE DEF T, all
    <2> QED BY <1>2, <1>3, LeastSubset
  <1>5. PICK n \in N : n <= k /\ x = 0 .. n
    BY <1>4
  <1>6. ASSUME NEW m \in N
        PROVE  n <= m
    <2>1. CASE m < n
      <3>1. 0 .. m \in T /\ 0 .. m \subseteq 0 .. n
        BY <2>1, <1>1, <1>5
      <3>2. 0 .. m = 0 .. n
        BY <3>1, <1>4, <1>5
      <3> QED BY <2>1, <3>2
    <2> QED BY <2>1
  <1> QED BY <1>6

\* The table is unique, on the subsets that two of them share.
LEMMA SumTablesAgree ==
  ASSUME NEW f, NEW S, NEW R, NEW t, NEW u, IsFiniteSet(S), R \in SUBSET S,
         IsSumTable(t, f, R), IsSumTable(u, f, S)
  PROVE  \A s \in SUBSET R : t[s] = u[s]
  <1> SUFFICES ASSUME \E s \in SUBSET R : t[s] # u[s]
               PROVE  FALSE
    OBVIOUS
  <1> DEFINE Bad == {s \in SUBSET R : t[s] # u[s]}
  <1>1. Bad \subseteq SUBSET R /\ Bad # {} /\ IsFiniteSet(R)
    BY FS_Subset
  <1>2. PICK s \in Bad : \A y \in Bad : y \subseteq s => y = s
    <2> HIDE DEF Bad
    <2> QED BY <1>1, LeastSubset
  <1>3. t[s] = SumStep(f, t, s) /\ u[s] = SumStep(f, u, s)
    BY DEF IsSumTable
  <1>4. CASE s = {}
    BY <1>4, <1>3, <1>2 DEF SumStep
  <1>5. CASE s # {}
    <2> DEFINE x == CHOOSE x \in s : TRUE
               rest == s \ {x}
    <2>1. x \in s
      BY <1>5
    <2>2. rest \subseteq s /\ rest # s /\ rest \in SUBSET R
      BY <2>1
    <2>3. t[rest] = u[rest]
      BY <2>2, <1>2
    <2>4. t[s] = f[x] + t[rest] /\ u[s] = f[x] + u[rest]
      BY <1>5, <1>3 DEF SumStep
    <2> QED BY <2>3, <2>4, <1>2
  <1> QED BY <1>4, <1>5

\* Every finite set has its table: the tables of the smaller sets, put together.
LEMMA SumTableExists ==
  ASSUME NEW f, NEW S, IsFiniteSet(S)
  PROVE  IsSumTable(SumTable(f, S), f, S)
  <1> SUFFICES ASSUME ~ \E t : IsSumTable(t, f, S)
               PROVE  FALSE
    BY DEF SumTable
  <1> DEFINE Bad == {R \in SUBSET S : ~ \E t : IsSumTable(t, f, R)}
  <1>1. Bad \subseteq SUBSET S /\ Bad # {}
    OBVIOUS
  <1>2. PICK R \in Bad : \A y \in Bad : y \subseteq R => y = R
    <2> HIDE DEF Bad
    <2> QED BY <1>1, LeastSubset
  <1>3. \A r \in SUBSET R : r # R => \E t : IsSumTable(t, f, r)
    BY <1>2
  <1> DEFINE T(r) == CHOOSE t : IsSumTable(t, f, r)
             V(r) == T(r)[r]
             First(s) == CHOOSE x \in s : TRUE
             Top == IF R = {} THEN 0 ELSE f[First(R)] + V(R \ {First(R)})
             t == [s \in SUBSET R |-> IF s = R THEN Top ELSE V(s)]
  <1>4. \A r \in SUBSET R : r # R => IsSumTable(T(r), f, r)
    BY <1>3
  <1>5. ASSUME NEW s \in SUBSET R, s # R
        PROVE  t[s] = SumStep(f, t, s)
    <2>1. t[s] = V(s)
      BY <1>5
    <2>2. V(s) = SumStep(f, T(s), s)
      <3>1. IsSumTable(T(s), f, s)
        BY <1>4, <1>5
      <3>2. \A u : IsSumTable(u, f, s) => u[s] = SumStep(f, u, s)
        BY DEF IsSumTable
      <3> HIDE DEF T
      <3> QED BY <3>1, <3>2
    <2>3. CASE s = {}
      BY <2>1, <2>2, <2>3 DEF SumStep
    <2>4. CASE s # {}
      <3> DEFINE rest == s \ {First(s)}
      <3>1. First(s) \in s
        BY <2>4
      <3>2. rest \in SUBSET R /\ rest # R /\ rest \in SUBSET s
        BY <3>1
      <3>3. T(s)[rest] = T(rest)[rest]
        <4>1. IsSumTable(T(s), f, s) /\ IsSumTable(T(rest), f, rest)
          BY <3>2, <1>4, <1>5
        <4>2. IsFiniteSet(s) /\ rest \in SUBSET s
          BY FS_Subset, <3>2
        <4>3. \A u \in SUBSET rest : T(rest)[u] = T(s)[u]
          <5> HIDE DEF T, rest
          <5> QED BY <4>1, <4>2, SumTablesAgree
        <4> QED BY <4>3
      <3>4. t[rest] = V(rest)
        BY <3>2
      <3>5. V(s) = f[First(s)] + T(s)[rest]
        BY <2>2, <2>4 DEF SumStep
      <3>6. SumStep(f, t, s) = f[First(s)] + t[rest]
        BY <2>4 DEF SumStep
      <3> QED BY <2>1, <3>3, <3>4, <3>5, <3>6
    <2> QED BY <2>3, <2>4
  <1>6. t[R] = SumStep(f, t, R)
    <2>1. CASE R = {}
      BY <2>1 DEF SumStep
    <2>2. CASE R # {}
      <3> DEFINE rest == R \ {First(R)}
      <3>1. First(R) \in R
        BY <2>2
      <3>2. rest \in SUBSET R /\ rest # R
        BY <3>1
      <3>3. t[rest] = V(rest)
        BY <3>2
      <3> QED BY <2>2, <3>3 DEF SumStep
    <2> QED BY <2>1, <2>2
  <1>7. IsSumTable(t, f, R)
    <2>1. t = [s \in SUBSET R |-> t[s]]
      OBVIOUS
    <2>2. \A s \in SUBSET R : t[s] = SumStep(f, t, s)
      BY <1>5, <1>6
    <2> HIDE DEF t
    <2> QED BY <2>1, <2>2 DEF IsSumTable
  <1> QED BY <1>7, <1>2

\* Nothing sums up to zero.
LEMMA SumEmpty ==
  ASSUME NEW f
  PROVE  SumFunctionOnSet(f, {}) = 0
  <1>1. IsFiniteSet({})
    BY FS_EmptySet
  <1>2. IsSumTable(SumTable(f, {}), f, {})
    BY <1>1, SumTableExists
  <1>3. SumTable(f, {})[{}] = SumStep(f, SumTable(f, {}), {})
    BY <1>2 DEF IsSumTable
  <1> QED BY <1>3, SumByTable DEF SumStep

\* A sum is one of its terms and the sum of the rest.
LEMMA SumFirst ==
  ASSUME NEW f, NEW S, IsFiniteSet(S), S # {}
  PROVE  \E x \in S : SumFunctionOnSet(f, S) = f[x] + SumFunctionOnSet(f, S \ {x})
  <1> DEFINE x == CHOOSE x \in S : TRUE
             rest == S \ {x}
             of == SumTable(f, S)
             ofRest == SumTable(f, rest)
  <1>1. x \in S /\ rest \in SUBSET S /\ rest \in SUBSET rest
    OBVIOUS
  <1>2. IsFiniteSet(rest)
    BY <1>1, FS_Subset
  <1>3. IsSumTable(of, f, S) /\ IsSumTable(ofRest, f, rest)
    BY <1>2, SumTableExists
  <1>4. of[S] = f[x] + of[rest]
    <2>1. of[S] = SumStep(f, of, S)
      BY <1>3 DEF IsSumTable
    <2> QED BY <2>1 DEF SumStep
  <1>5. of[rest] = ofRest[rest]
    <2>1. \A s \in SUBSET rest : ofRest[s] = of[s]
      <3> HIDE DEF x, of, ofRest, rest
      <3> QED BY <1>1, <1>3, SumTablesAgree
    <2> QED BY <2>1, <1>1
  <1>6. SumFunctionOnSet(f, S) = of[S] /\ SumFunctionOnSet(f, rest) = ofRest[rest]
    BY SumByTable
  <1> QED BY <1>1, <1>4, <1>5, <1>6

\* A sum of integers is an integer.
LEMMA SumType ==
  ASSUME NEW f, NEW S, IsFiniteSet(S), \A x \in S : f[x] \in Int
  PROVE  SumFunctionOnSet(f, S) \in Int
  <1> DEFINE F(R) == SumFunctionOnSet(f, R)
  <1> SUFFICES ASSUME F(S) \notin Int
               PROVE  FALSE
    OBVIOUS
  <1> DEFINE Bad == {R \in SUBSET S : F(R) \notin Int}
  <1>1. Bad \subseteq SUBSET S /\ Bad # {}
    OBVIOUS
  <1>2. PICK R \in Bad : \A y \in Bad : y \subseteq R => y = R
    <2> HIDE DEF Bad
    <2> QED BY <1>1, LeastSubset
  <1>3. IsFiniteSet(R) /\ R # {} /\ \A x \in R : f[x] \in Int
    <2>1. R \in SUBSET S
      OBVIOUS
    <2>2. R # {}
      BY SumEmpty
    <2> QED BY <2>1, <2>2, FS_Subset
  <1>4. PICK x \in R : F(R) = f[x] + F(R \ {x})
    BY <1>3, SumFirst
  <1>5. F(R \ {x}) \in Int
    BY <1>2
  <1> QED BY <1>2, <1>3, <1>4, <1>5

\* Whichever term is taken out of a sum, the rest is the sum of the others.
LEMMA SumRemove ==
  ASSUME NEW f, NEW S, IsFiniteSet(S), \A x \in S : f[x] \in Int, NEW y \in S
  PROVE  SumFunctionOnSet(f, S) = f[y] + SumFunctionOnSet(f, S \ {y})
  <1> DEFINE F(R) == SumFunctionOnSet(f, R)
  <1> SUFFICES ASSUME F(S) # f[y] + F(S \ {y})
               PROVE  FALSE
    OBVIOUS
  <1> DEFINE Bad == {R \in SUBSET S : \E z \in R : F(R) # f[z] + F(R \ {z})}
  <1>1. Bad \subseteq SUBSET S /\ Bad # {}
    OBVIOUS
  <1>2. PICK R \in Bad : \A z \in Bad : z \subseteq R => z = R
    <2> HIDE DEF Bad
    <2> QED BY <1>1, LeastSubset
  <1>3. IsFiniteSet(R) /\ R \in SUBSET S
    BY FS_Subset
  <1>4. PICK z \in R : F(R) # f[z] + F(R \ {z})
    BY <1>2
  <1>5. PICK x \in R : F(R) = f[x] + F(R \ {x})
    BY <1>3, <1>4, SumFirst
  <1>6. x # z
    BY <1>4, <1>5
  <1>7. ASSUME NEW Q \in SUBSET R, Q # R, NEW u \in Q
        PROVE  F(Q) = f[u] + F(Q \ {u})
    <2>1. Q \notin Bad /\ Q \in SUBSET S
      <3> HIDE DEF Bad
      <3> QED BY <1>2, <1>3, <1>7
    <2> HIDE DEF F
    <2> QED BY <2>1
  <1>8. /\ F(R \ {x}) = f[z] + F((R \ {x}) \ {z})
        /\ F(R \ {z}) = f[x] + F((R \ {z}) \ {x})
    <2> HIDE DEF F
    <2> QED BY <1>7, <1>6
  <1>9. (R \ {x}) \ {z} = (R \ {z}) \ {x}
    OBVIOUS
  <1>10. F((R \ {x}) \ {z}) \in Int
    <2>1. IsFiniteSet((R \ {x}) \ {z})
      BY <1>3, FS_Subset
    <2> QED BY <2>1, SumType
  <1>11. f[x] \in Int /\ f[z] \in Int
    OBVIOUS
  <1>12. f[z] + (f[x] + F((R \ {x}) \ {z})) = f[x] + (f[z] + F((R \ {x}) \ {z}))
    <2> HIDE DEF F
    <2> QED BY <1>10, <1>11
  <1> HIDE DEF F, Bad
  <1> QED BY <1>4, <1>5, <1>8, <1>9, <1>12

\* A term more.
LEMMA SumAdd ==
  ASSUME NEW f, NEW S, IsFiniteSet(S), NEW y, y \notin S, f[y] \in Int,
         \A x \in S : f[x] \in Int
  PROVE  SumFunctionOnSet(f, S \cup {y}) = f[y] + SumFunctionOnSet(f, S)
  <1> DEFINE R == S \cup {y}
  <1>1. IsFiniteSet(R) /\ y \in R /\ R \ {y} = S /\ \A x \in R : f[x] \in Int
    BY FS_AddElement
  <1> HIDE DEF R
  <1>2. SumFunctionOnSet(f, R) = f[y] + SumFunctionOnSet(f, R \ {y})
    BY <1>1, SumRemove
  <1> QED BY <1>1, <1>2 DEF R

\* Terms that are no larger have a sum that is no larger.
LEMMA SumAtMost ==
  ASSUME NEW f, NEW g, NEW S, IsFiniteSet(S),
         \A x \in S : f[x] \in Int /\ g[x] \in Int /\ f[x] <= g[x]
  PROVE  SumFunctionOnSet(f, S) <= SumFunctionOnSet(g, S)
  <1> DEFINE F(R) == SumFunctionOnSet(f, R)
             G(R) == SumFunctionOnSet(g, R)
  <1> SUFFICES ASSUME ~(F(S) <= G(S))
               PROVE  FALSE
    OBVIOUS
  <1> DEFINE Bad == {R \in SUBSET S : ~(F(R) <= G(R))}
  <1>1. Bad \subseteq SUBSET S /\ Bad # {}
    OBVIOUS
  <1>2. PICK R \in Bad : \A z \in Bad : z \subseteq R => z = R
    <2> HIDE DEF Bad
    <2> QED BY <1>1, LeastSubset
  <1>3. /\ IsFiniteSet(R) /\ R # {}
        /\ \A x \in R : f[x] \in Int /\ g[x] \in Int /\ f[x] <= g[x]
    <2>1. R \in SUBSET S
      OBVIOUS
    <2>2. R # {}
      BY SumEmpty
    <2> QED BY <2>1, <2>2, FS_Subset
  <1>4. PICK x \in R : F(R) = f[x] + F(R \ {x})
    BY <1>3, SumFirst
  <1>5. G(R) = g[x] + G(R \ {x})
    BY <1>3, SumRemove
  <1>6. F(R \ {x}) <= G(R \ {x})
    BY <1>2
  <1>7. F(R \ {x}) \in Int /\ G(R \ {x}) \in Int
    BY <1>3, FS_RemoveElement, SumType
  <1> HIDE DEF F, G
  <1> QED BY <1>2, <1>3, <1>4, <1>5, <1>6, <1>7

\* The sum depends on the terms, not on what else the function is.
LEMMA SumSame ==
  ASSUME NEW f, NEW g, NEW S, IsFiniteSet(S),
         \A x \in S : f[x] \in Int /\ f[x] = g[x]
  PROVE  SumFunctionOnSet(f, S) = SumFunctionOnSet(g, S)
  <1>1. /\ SumFunctionOnSet(f, S) <= SumFunctionOnSet(g, S)
        /\ SumFunctionOnSet(g, S) <= SumFunctionOnSet(f, S)
    BY SumAtMost
  <1>2. SumFunctionOnSet(f, S) \in Int /\ SumFunctionOnSet(g, S) \in Int
    BY SumType
  <1> QED BY <1>1, <1>2

\* Zeros sum up to zero.
LEMMA SumZeros ==
  ASSUME NEW f, NEW S, IsFiniteSet(S), \A x \in S : f[x] = 0
  PROVE  SumFunctionOnSet(f, S) = 0
  <1> DEFINE F(R) == SumFunctionOnSet(f, R)
  <1> SUFFICES ASSUME F(S) # 0
               PROVE  FALSE
    OBVIOUS
  <1> DEFINE Bad == {R \in SUBSET S : F(R) # 0}
  <1>1. Bad \subseteq SUBSET S /\ Bad # {}
    OBVIOUS
  <1>2. PICK R \in Bad : \A z \in Bad : z \subseteq R => z = R
    <2> HIDE DEF Bad
    <2> QED BY <1>1, LeastSubset
  <1>3. IsFiniteSet(R) /\ R # {}
    <2>1. R \in SUBSET S
      OBVIOUS
    <2>2. R # {}
      BY SumEmpty
    <2> QED BY <2>1, <2>2, FS_Subset
  <1>4. PICK x \in R : F(R) = f[x] + F(R \ {x})
    BY <1>3, SumFirst
  <1>5. F(R \ {x}) = 0 /\ f[x] = 0
    BY <1>2
  <1> QED BY <1>2, <1>4, <1>5

\* Part of a sum is no larger than all of it.
LEMMA SumOfPart ==
  ASSUME NEW f, NEW S, IsFiniteSet(S), \A x \in S : f[x] \in Nat,
         NEW P, P \subseteq S
  PROVE  SumFunctionOnSet(f, P) <= SumFunctionOnSet(f, S)
  <1>. DEFINE F(Q) == SumFunctionOnSet(f, Q)
              T == {Q \in SUBSET S : P \subseteq Q /\ F(Q) < F(P)}
  <1>1. \A Q \in SUBSET S : IsFiniteSet(Q) /\ F(Q) \in Int
    BY FS_Subset, SumType
  <1>. SUFFICES ASSUME F(S) < F(P)
                PROVE  FALSE
    BY <1>1
  <1>2. PICK Q \in T : \A R \in T : R \subseteq Q => R = Q
    <2>1. S \in T /\ T \subseteq SUBSET S
      OBVIOUS
    <2>. HIDE DEF T
    <2> QED BY <2>1, LeastSubset
  <1>3. PICK x : x \in Q /\ x \notin P
    <2>1. Q # P
      BY <1>1, <1>2
    <2> QED BY <1>2, <2>1
  <1>4. F(Q) = f[x] + F(Q \ {x})
    BY <1>1, <1>2, <1>3, SumRemove
  <1>5. ~(F(Q \ {x}) < F(P))
    BY <1>2, <1>3
  <1>6. f[x] \in Nat /\ F(Q \ {x}) \in Int /\ F(P) \in Int /\ F(Q) < F(P)
    BY <1>1, <1>2, <1>3
  <1> HIDE DEF F
  <1> QED BY <1>4, <1>5, <1>6

\* A sum is that of its terms that are not zero.
LEMMA SumSkipsZeros ==
  ASSUME NEW f, NEW S, IsFiniteSet(S), \A x \in S : f[x] \in Int,
         NEW P, P \subseteq S, \A x \in S : x \notin P => f[x] = 0
  PROVE  SumFunctionOnSet(f, S) = SumFunctionOnSet(f, P)
  <1>. DEFINE F(Q) == SumFunctionOnSet(f, Q)
              T == {Q \in SUBSET S : P \subseteq Q /\ F(Q) # F(P)}
  <1>1. \A Q \in SUBSET S : IsFiniteSet(Q) /\ F(Q) \in Int
    BY FS_Subset, SumType
  <1>. SUFFICES ASSUME F(S) # F(P)
                PROVE  FALSE
    OBVIOUS
  <1>2. PICK Q \in T : \A R \in T : R \subseteq Q => R = Q
    <2>1. S \in T /\ T \subseteq SUBSET S
      OBVIOUS
    <2>. HIDE DEF T
    <2> QED BY <2>1, LeastSubset
  <1>3. PICK x : x \in Q /\ x \notin P
    <2>1. Q # P
      BY <1>2
    <2> QED BY <1>2, <2>1
  <1>4. F(Q) = f[x] + F(Q \ {x})
    BY <1>1, <1>2, <1>3, SumRemove
  <1>5. F(Q \ {x}) = F(P)
    BY <1>2, <1>3
  <1>6. f[x] = 0 /\ F(P) \in Int /\ F(Q) # F(P)
    BY <1>1, <1>2, <1>3
  <1> HIDE DEF F
  <1> QED BY <1>4, <1>5, <1>6

=============================================================================
