------------------------------ MODULE SumLemmas ------------------------------
(***************************************************************************)
(* What SumFunctionOnSet of the community module Functions computes on a   *)
(* finite set of naturals.  The operator is a fold, hence a recursion over *)
(* subsets; the lemmas tie it to the cardinality of a set that holds f[x]  *)
(* distinct units for every x, which is what the library has theorems on.  *)
(***************************************************************************)
EXTENDS Integers, Functions, FiniteSetTheorems, FunctionTheorems, WellFoundedInduction, TLAPS

\* f[x] distinct units for x, and those of all elements of S.
UnitsOf(f, x) == {x} \X (1 .. f[x])
Units(f, S) == UNION {UnitsOf(f, x) : x \in S}

UnitCount(f, S) == Cardinality(Units(f, S))

\* The units of x are as many as f says.
LEMMA UnitsOfFinite ==
  ASSUME NEW f, NEW x, f[x] \in Nat
  PROVE  IsFiniteSet(UnitsOf(f, x)) /\ Cardinality(UnitsOf(f, x)) = f[x]
PROOF
  <1>1. IsFiniteSet({x}) /\ Cardinality({x}) = 1
    BY FS_Singleton
  <1>2. IsFiniteSet(1 .. f[x]) /\ Cardinality(1 .. f[x]) = f[x]
    BY FS_Interval
  <1>3. IsFiniteSet({x} \X (1 .. f[x])) /\ Cardinality({x} \X (1 .. f[x])) = 1 * f[x]
    BY <1>1, <1>2, FS_Product
  <1> QED BY <1>3 DEF UnitsOf

\* Finitely many elements have finitely many units together.
LEMMA FiniteUnits ==
  ASSUME NEW S, IsFiniteSet(S), NEW f, \A x \in S : f[x] \in Nat
  PROVE  IsFiniteSet(Units(f, S))
PROOF
  <1> DEFINE T == {UnitsOf(f, x) : x \in S}
             F == [x \in S |-> UnitsOf(f, x)]
  <1>1. F \in Surjection(S, T)
    BY DEF Surjection
  <1> HIDE DEF F
  <1>2. \A u \in T : IsFiniteSet(u)
    BY UnitsOfFinite
  <1> HIDE DEF T
  <1>3. IsFiniteSet(T)
    BY <1>1, FS_Surjection
  <1>4. IsFiniteSet(UNION T)
    BY <1>2, <1>3, FS_UNION
  <1> QED BY <1>4 DEF T, Units

\* Counting units without x counts f[x] fewer.
LEMMA UnitCountRemove ==
  ASSUME NEW S, IsFiniteSet(S), NEW f, \A y \in S : f[y] \in Nat, NEW x \in S
  PROVE  UnitCount(f, S) = f[x] + UnitCount(f, S \ {x})
PROOF
  <1> DEFINE A == UnitsOf(f, x)
             B == Units(f, S \ {x})
  <1>0. IsFiniteSet(S \ {x}) 
    BY FS_RemoveElement
  <1>1. IsFiniteSet(A) /\ Cardinality(A) = f[x]
    BY UnitsOfFinite
  <1>2. IsFiniteSet(B)
    BY <1>0, FiniteUnits
  <1>3. A \cap B = {}
    BY DEF Units, UnitsOf
  <1>4. A \cup B = Units(f, S)
    BY DEF Units
  <1>6. Cardinality(B) \in Nat /\ f[x] \in Nat
    BY <1>2, FS_CardinalityType
  <1> HIDE DEF A, B
  <1>5. Cardinality(A \cup B) = Cardinality(A) + Cardinality(B) - Cardinality({})
    BY <1>1, <1>2, <1>3, FS_Union
  <1>7. Cardinality({}) = 0
    BY FS_EmptySet
  <1>8. Cardinality(A \cup B) = f[x] + Cardinality(B)
    BY <1>1, <1>5, <1>6, <1>7
  <1> QED BY <1>8, <1>4 DEF UnitCount, B

\* The sum of f over S is the number of units: both functions on the subsets
\* of S obey one recursion, and a smallest subset where they differ is absurd.
LEMMA SumIsUnitCount ==
  ASSUME NEW S, IsFiniteSet(S), NEW f, \A x \in S : f[x] \in Nat
  PROVE  SumFunctionOnSet(f, S) = UnitCount(f, S)
PROOF
  <1> DEFINE pick(s) == CHOOSE x \in s : TRUE
             Step(g) == [s \in SUBSET S |->
                           IF s = {} THEN 0 ELSE f[pick(s)] + g[s \ {pick(s)}]]
             U == [s \in SUBSET S |-> UnitCount(f, s)]
             G == CHOOSE g : g = Step(g)
             Bad == {s \in SUBSET S : G[s] # U[s]}
  <1>1. SumFunctionOnSet(f, S) = G[S]
    BY DEF SumFunctionOnSet, FoldFunctionOnSet, MapThenFoldSet
  <1>2. UnitCount(f, {}) = 0
    BY FS_EmptySet DEF UnitCount, Units
  <1>3. ASSUME NEW s \in SUBSET S, s # {}
        PROVE  /\ pick(s) \in s
               /\ s \ {pick(s)} \in SUBSET S
               /\ UnitCount(f, s) = f[pick(s)] + UnitCount(f, s \ {pick(s)})
    <2>1. pick(s) \in s
      BY <1>3
    <2>2. IsFiniteSet(s) /\ \A y \in s : f[y] \in Nat
      BY FS_Subset
    <2> HIDE DEF pick
    <2>3. UnitCount(f, s) = f[pick(s)] + UnitCount(f, s \ {pick(s)})
      BY <2>1, <2>2, UnitCountRemove
    <2> QED BY <2>1, <2>3
  <1>4. U = Step(U)
    BY <1>2, <1>3
  <1> HIDE DEF U
  <1>5. G = Step(G)
    BY <1>4
  <1> HIDE DEF G
  <1>6. Bad = {}
    <2> SUFFICES ASSUME Bad # {} PROVE FALSE
      OBVIOUS
    <2>1. IsWellFoundedOn(StrictSubsetOrdering(S), SUBSET S)
      BY FS_StrictSubsetOrderingWellFounded, FS_FiniteSubsetsOfFinite
    <2>2. PICK s \in Bad : \A t \in Bad : ~(<<t, s>> \in StrictSubsetOrdering(S))
      <3>1. Bad \subseteq SUBSET S
        OBVIOUS
      <3> HIDE DEF Bad
      <3> QED BY <2>1, <3>1, WFMin
    <2>3. s \in SUBSET S /\ G[s] # U[s]
      OBVIOUS
    <2>4. s # {}
      BY <1>4, <1>5, <2>3
    <2> DEFINE t == s \ {pick(s)}
    <2>5. pick(s) \in s /\ t \in SUBSET S
      BY <1>3, <2>3, <2>4
    <2>6. <<t, s>> \in StrictSubsetOrdering(S)
      BY <2>3, <2>5 DEF StrictSubsetOrdering
    <2>7. G[t] = U[t]
      BY <2>2, <2>5, <2>6
    <2>8. G[s] = f[pick(s)] + G[t]
      BY <1>5, <2>3, <2>4
    <2>9. U[s] = f[pick(s)] + U[t]
      BY <1>4, <2>3, <2>4
    <2> QED BY <2>3, <2>7, <2>8, <2>9
  <1>7. S \in SUBSET S
    OBVIOUS
  <1>8. G[S] = U[S]
    BY <1>6, <1>7
  <1> QED BY <1>1, <1>7, <1>8 DEF U

\* Changing one point of the function changes the sum by the difference there:
\* what an update of one bill row does to the points held by an account.
LEMMA SumUpdate ==
  ASSUME NEW S, IsFiniteSet(S), NEW x \in S,
         NEW f \in [S -> Nat], NEW g \in [S -> Nat],
         \A y \in S \ {x} : f[y] = g[y]
  PROVE  /\ SumFunctionOnSet(f, S) \in Nat
         /\ SumFunctionOnSet(g, S) \in Nat
         /\ SumFunctionOnSet(g, S) = SumFunctionOnSet(f, S) - f[x] + g[x]
PROOF
  <1> DEFINE T == S \ {x}
  <1>1. IsFiniteSet(T)
    BY FS_RemoveElement
  <1>2. UnitCount(f, T) = UnitCount(g, T)
    <2>1. Units(f, T) = Units(g, T)
      BY DEF Units, UnitsOf
    <2> QED BY <2>1 DEF UnitCount
  <1>3. UnitCount(f, T) \in Nat
    BY <1>1, FiniteUnits, FS_CardinalityType DEF UnitCount
  <1>4. UnitCount(f, S) = f[x] + UnitCount(f, T)
    BY UnitCountRemove
  <1>5. UnitCount(g, S) = g[x] + UnitCount(g, T)
    BY UnitCountRemove
  <1>6. f[x] \in Nat /\ g[x] \in Nat
    OBVIOUS
  <1>7. SumFunctionOnSet(f, S) = UnitCount(f, S) /\ SumFunctionOnSet(g, S) = UnitCount(g, S)
    BY SumIsUnitCount
  <1> HIDE DEF T
  <1> QED BY <1>2, <1>3, <1>4, <1>5, <1>6, <1>7

\* A function that is zero everywhere sums to zero.
LEMMA SumOfZeroes ==
  ASSUME NEW S, IsFiniteSet(S), NEW f, \A x \in S : f[x] = 0
  PROVE  SumFunctionOnSet(f, S) = 0
PROOF
  <1>1. SumFunctionOnSet(f, S) = UnitCount(f, S)
    BY SumIsUnitCount
  <1>2. Units(f, S) = {}
    BY DEF Units, UnitsOf
  <1> QED BY <1>1, <1>2, FS_EmptySet DEF UnitCount

\* A sum of naturals is one.
LEMMA SumIsNat ==
  ASSUME NEW S, IsFiniteSet(S), NEW f, \A x \in S : f[x] \in Nat
  PROVE  SumFunctionOnSet(f, S) \in Nat
PROOF
  BY SumIsUnitCount, FiniteUnits, FS_CardinalityType DEF UnitCount

\* Elements that contribute nothing may be left out.
LEMMA SumOfSupport ==
  ASSUME NEW S, IsFiniteSet(S), NEW f, \A x \in S : f[x] \in Nat,
         NEW T \in SUBSET S, NEW g, \A x \in T : g[x] = f[x],
         \A x \in S \ T : f[x] = 0
  PROVE  SumFunctionOnSet(g, T) = SumFunctionOnSet(f, S)
PROOF
  <1>1. IsFiniteSet(T) /\ \A x \in T : g[x] \in Nat
    BY FS_Subset
  <1>2. Units(g, T) = Units(f, S)
    BY DEF Units, UnitsOf
  <1>3. SumFunctionOnSet(g, T) = UnitCount(g, T)
    BY <1>1, SumIsUnitCount
  <1>4. SumFunctionOnSet(f, S) = UnitCount(f, S)
    BY SumIsUnitCount
  <1> QED BY <1>2, <1>3, <1>4 DEF UnitCount

\* A sum with and without one element.
LEMMA SumWithout ==
  ASSUME NEW S, IsFiniteSet(S), NEW x, NEW f, \A y \in S : f[y] \in Nat
  PROVE  SumFunctionOnSet(f, S) = UnitCount(f, S \ {x}) + (IF x \in S THEN f[x] ELSE 0)
PROOF
  <1>1. SumFunctionOnSet(f, S) = UnitCount(f, S)
    BY SumIsUnitCount
  <1>2. IsFiniteSet(S \ {x}) /\ \A y \in S \ {x} : f[y] \in Nat
    BY FS_Subset
  <1>3. UnitCount(f, S \ {x}) \in Nat
    BY <1>2, FiniteUnits, FS_CardinalityType DEF UnitCount
  <1>4. CASE x \in S
    <2>1. UnitCount(f, S) = f[x] + UnitCount(f, S \ {x})
      BY <1>4, UnitCountRemove
    <2> QED BY <1>1, <1>3, <1>4, <2>1
  <1>5. CASE x \notin S
    <2>1. S \ {x} = S
      BY <1>5
    <2> QED BY <1>1, <1>3, <1>5, <2>1
  <1> QED BY <1>4, <1>5

\* When one element joins, leaves or changes its value, the sum changes by what
\* that element contributed before and after.
LEMMA SumChange ==
  ASSUME NEW S, IsFiniteSet(S), NEW T, IsFiniteSet(T), NEW x, S \ {x} = T \ {x},
         NEW f, \A y \in S : f[y] \in Nat, NEW g, \A y \in T : g[y] \in Nat,
         \A y \in S \ {x} : g[y] = f[y]
  PROVE  SumFunctionOnSet(g, T) + (IF x \in S THEN f[x] ELSE 0) =
           SumFunctionOnSet(f, S) + (IF x \in T THEN g[x] ELSE 0)
PROOF
  <1> DEFINE R == S \ {x}
             a == IF x \in S THEN f[x] ELSE 0
             b == IF x \in T THEN g[x] ELSE 0
  <1>1. IsFiniteSet(R) /\ \A y \in R : f[y] \in Nat
    BY FS_Subset
  <1>2. UnitCount(f, R) \in Nat
    BY <1>1, FiniteUnits, FS_CardinalityType DEF UnitCount
  <1>3. UnitCount(g, R) = UnitCount(f, R)
    <2>1. Units(g, R) = Units(f, R)
      BY DEF Units, UnitsOf
    <2> QED BY <2>1 DEF UnitCount
  <1>4. SumFunctionOnSet(f, S) = UnitCount(f, R) + a
    BY SumWithout
  <1>5. SumFunctionOnSet(g, T) = UnitCount(g, R) + b
    BY SumWithout
  <1>6. a \in Nat /\ b \in Nat
    OBVIOUS
  <1> HIDE DEF R, a, b
  <1>7. SumFunctionOnSet(g, T) + a = SumFunctionOnSet(f, S) + b
    BY <1>2, <1>3, <1>4, <1>5, <1>6
  <1> QED BY <1>7 DEF a, b

\* A sum is at most one of larger terms.
LEMMA SumAtMost ==
  ASSUME NEW S, IsFiniteSet(S), NEW f, \A x \in S : f[x] \in Nat,
         NEW g, \A x \in S : g[x] \in Nat /\ f[x] <= g[x]
  PROVE  SumFunctionOnSet(f, S) <= SumFunctionOnSet(g, S)
PROOF
  <1>1. SumFunctionOnSet(f, S) = UnitCount(f, S) /\ SumFunctionOnSet(g, S) = UnitCount(g, S)
    BY SumIsUnitCount
  <1>2. Units(f, S) \subseteq Units(g, S)
    BY DEF Units, UnitsOf
  <1>3. IsFiniteSet(Units(g, S))
    BY FiniteUnits
  <1>4. Cardinality(Units(f, S)) <= Cardinality(Units(g, S))
    BY <1>2, <1>3, FS_Subset
  <1> QED BY <1>1, <1>4 DEF UnitCount

\* The sums over two disjoint sets are the sum over both.
LEMMA SumOfUnion ==
  ASSUME NEW S, IsFiniteSet(S), NEW T, IsFiniteSet(T), S \cap T = {},
         NEW f, \A x \in S \cup T : f[x] \in Nat
  PROVE  SumFunctionOnSet(f, S \cup T) = SumFunctionOnSet(f, S) + SumFunctionOnSet(f, T)
PROOF
  <1>1. IsFiniteSet(S \cup T)
    BY FS_Union
  <1>2. /\ SumFunctionOnSet(f, S) = UnitCount(f, S) /\ SumFunctionOnSet(f, T) = UnitCount(f, T)
        /\ SumFunctionOnSet(f, S \cup T) = UnitCount(f, S \cup T)
    BY <1>1, SumIsUnitCount
  <1>3. Units(f, S \cup T) = Units(f, S) \cup Units(f, T) /\ Units(f, S) \cap Units(f, T) = {}
    BY DEF Units, UnitsOf
  <1>4. IsFiniteSet(Units(f, S)) /\ IsFiniteSet(Units(f, T))
    BY FiniteUnits
  <1>5. Cardinality(Units(f, S) \cup Units(f, T))
          = Cardinality(Units(f, S)) + Cardinality(Units(f, T)) - Cardinality(Units(f, S) \cap Units(f, T))
    BY <1>4, FS_Union
  <1>6. /\ Cardinality(Units(f, S)) \in Nat /\ Cardinality(Units(f, T)) \in Nat
        /\ Cardinality(Units(f, S) \cap Units(f, T)) = 0
    BY <1>3, <1>4, FS_CardinalityType, FS_EmptySet
  <1>7. Cardinality(Units(f, S) \cup Units(f, T)) = Cardinality(Units(f, S)) + Cardinality(Units(f, T))
    BY <1>5, <1>6
  <1>8. UnitCount(f, S \cup T) = Cardinality(Units(f, S) \cup Units(f, T))
    BY <1>3 DEF UnitCount
  <1> QED BY <1>2, <1>7, <1>8 DEF UnitCount

\* A sum does not depend on what its terms are called.
LEMMA SumRenamed ==
  ASSUME NEW S, IsFiniteSet(S), NEW f, \A x \in S : f[x] \in Nat,
         NEW T, NEW h \in Bijection(S, T), NEW g, \A x \in S : g[h[x]] = f[x]
  PROVE  SumFunctionOnSet(g, T) = SumFunctionOnSet(f, S)
PROOF
  <1>1. IsFiniteSet(T)
    BY FS_Bijection DEF ExistsBijection
  <1>2. /\ h \in [S -> T] /\ \A x, y \in S : h[x] = h[y] => x = y
        /\ \A t \in T : \E x \in S : h[x] = t
    BY DEF Bijection, Injection, Surjection, IsInjective
  <1>3. \A t \in T : g[t] \in Nat
    BY <1>2
  <1>4. SumFunctionOnSet(f, S) = UnitCount(f, S) /\ SumFunctionOnSet(g, T) = UnitCount(g, T)
    BY <1>1, <1>3, SumIsUnitCount
  <1> DEFINE H == [u \in Units(f, S) |-> <<h[u[1]], u[2]>>]
  <1>5. H \in Bijection(Units(f, S), Units(g, T))
    <2>1. ASSUME NEW u \in Units(f, S)
          PROVE  /\ u[1] \in S /\ u[2] \in 1 .. f[u[1]] /\ u = <<u[1], u[2]>>
                 /\ H[u] \in Units(g, T)
      <3>1. PICK x \in S : u \in {x} \X (1 .. f[x])
        BY <2>1 DEF Units, UnitsOf
      <3>2. u[1] = x /\ u[2] \in 1 .. f[x] /\ u = <<u[1], u[2]>>
        BY <3>1
      <3>3. h[x] \in T /\ g[h[x]] = f[x]
        BY <1>2
      <3>4. H[u] = <<h[x], u[2]>>
        BY <3>2
      <3>5. H[u] \in {h[x]} \X (1 .. g[h[x]])
        BY <3>2, <3>3, <3>4
      <3> QED BY <3>2, <3>3, <3>5 DEF Units, UnitsOf
    <2>2. H \in [Units(f, S) -> Units(g, T)]
      BY <2>1
    <2>3. ASSUME NEW u \in Units(f, S), NEW v \in Units(f, S), H[u] = H[v]
          PROVE  u = v
      <3>1. h[u[1]] = h[v[1]] /\ u[2] = v[2]
        BY <2>3
      <3>2. u[1] = v[1]
        BY <1>2, <2>1, <3>1
      <3> QED BY <2>1, <3>1, <3>2
    <2>4. ASSUME NEW t \in Units(g, T)
          PROVE  \E u \in Units(f, S) : H[u] = t
      <3>1. PICK y \in T : t \in {y} \X (1 .. g[y])
        BY <2>4 DEF Units, UnitsOf
      <3>2. PICK x \in S : h[x] = y
        BY <1>2
      <3>3. t = <<h[x], t[2]>> /\ t[2] \in 1 .. f[x]
        BY <3>1, <3>2
      <3>4. <<x, t[2]>> \in {x} \X (1 .. f[x])
        BY <3>3
      <3>5. <<x, t[2]>> \in Units(f, S)
        BY <3>4 DEF Units, UnitsOf
      <3>6. H[<<x, t[2]>>] = t
        BY <3>3, <3>5
      <3> QED BY <3>5, <3>6
    <2> HIDE DEF H
    <2> QED BY <2>2, <2>3, <2>4 DEF Bijection, Injection, Surjection, IsInjective
  <1>6. Cardinality(Units(g, T)) = Cardinality(Units(f, S))
    BY <1>5, FiniteUnits, FS_Bijection DEF ExistsBijection
  <1> QED BY <1>4, <1>6 DEF UnitCount

\* If every term of one sum is at least c times the term of another, so is the sum.
LEMMA SumOfParts ==
  ASSUME NEW S, IsFiniteSet(S), NEW c \in Nat,
         NEW f, \A x \in S : f[x] \in Nat,
         NEW g, \A x \in S : g[x] \in Nat /\ c * f[x] <= g[x]
  PROVE  c * SumFunctionOnSet(f, S) <= SumFunctionOnSet(g, S)
PROOF
  <1> DEFINE Bad == {s \in SUBSET S : ~(c * UnitCount(f, s) <= UnitCount(g, s))}
  <1>1. \A s \in SUBSET S : /\ IsFiniteSet(s) /\ UnitCount(f, s) \in Nat /\ UnitCount(g, s) \in Nat
    <2> SUFFICES ASSUME NEW s \in SUBSET S
                 PROVE  IsFiniteSet(s) /\ UnitCount(f, s) \in Nat /\ UnitCount(g, s) \in Nat
      OBVIOUS
    <2>1. IsFiniteSet(s) /\ (\A x \in s : f[x] \in Nat) /\ (\A x \in s : g[x] \in Nat)
      BY FS_Subset
    <2> QED BY <2>1, FiniteUnits, FS_CardinalityType DEF UnitCount
  <1>2. Bad = {}
    <2> SUFFICES ASSUME Bad # {} PROVE FALSE
      OBVIOUS
    <2>1. IsWellFoundedOn(StrictSubsetOrdering(S), SUBSET S)
      BY FS_StrictSubsetOrderingWellFounded, FS_FiniteSubsetsOfFinite
    <2>2. PICK s \in Bad : \A t \in Bad : ~(<<t, s>> \in StrictSubsetOrdering(S))
      <3>1. Bad \subseteq SUBSET S
        OBVIOUS
      <3> HIDE DEF Bad
      <3> QED BY <2>1, <3>1, WFMin
    <2>3. s \in SUBSET S /\ ~(c * UnitCount(f, s) <= UnitCount(g, s))
      OBVIOUS
    <2>4. CASE s = {}
      <3>1. UnitCount(f, {}) = 0 /\ UnitCount(g, {}) = 0
        BY FS_EmptySet DEF UnitCount, Units
      <3> QED BY <2>3, <2>4, <3>1
    <2>5. CASE s # {}
      <3>1. PICK x \in s : TRUE
        BY <2>5
      <3> DEFINE t == s \ {x}
      <3>2. t \in SUBSET S /\ <<t, s>> \in StrictSubsetOrdering(S)
        BY <2>3 DEF StrictSubsetOrdering
      <3>3. c * UnitCount(f, t) <= UnitCount(g, t)
        BY <2>2, <3>2
      <3>4. UnitCount(f, s) = f[x] + UnitCount(f, t) /\ UnitCount(g, s) = g[x] + UnitCount(g, t)
        BY <1>1, <2>3, UnitCountRemove
      <3>5. /\ f[x] \in Nat /\ g[x] \in Nat /\ c * f[x] <= g[x]
            /\ UnitCount(f, t) \in Nat /\ UnitCount(g, t) \in Nat
        BY <1>1, <2>3, <3>2
      <3> HIDE DEF t
      <3>6. c * (f[x] + UnitCount(f, t)) = c * f[x] + c * UnitCount(f, t)
        BY <3>5
      <3>7. c * f[x] \in Nat /\ c * UnitCount(f, t) \in Nat
        BY <3>5
      <3>8. c * UnitCount(f, s) <= UnitCount(g, s)
        BY <3>3, <3>4, <3>5, <3>6, <3>7
      <3> QED BY <2>3, <3>8
    <2> QED BY <2>4, <2>5
  <1>3. c * UnitCount(f, S) <= UnitCount(g, S)
    BY <1>2
  <1>4. SumFunctionOnSet(f, S) = UnitCount(f, S) /\ SumFunctionOnSet(g, S) = UnitCount(g, S)
    BY SumIsUnitCount
  <1> QED BY <1>3, <1>4

=============================================================================
