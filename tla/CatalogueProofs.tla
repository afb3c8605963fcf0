--------------------------- MODULE CatalogueProofs ---------------------------
(***************************************************************************)
(* For any tiers, admins, payloads and prices: what an admin was told is   *)
(* stored stays; rows are what the columns allow and the script's follow   *)
(* the duration; quotes and accepted pairs add up; and a refresh nobody    *)
(* overtook leaves nothing to refresh.  What the decimals leave in the     *)
(* last digits is not bounded: every proof holds whatever they round to.   *)
(***************************************************************************)
EXTENDS Catalogue, SumLemmas, SequenceTheorems

-----------------------------------------------------------------------------
(* Rows are only ever appended, and a version an upsert chose is the one    *)
(* after the last when its insert goes through.                             *)

\* A history of a tier, whatever its rows hold.
IsHistory(s) == \E S : s \in Seq(S)

HistoriesOK == \A t \in Tiers : IsHistory(entries[t])
RowsOfTiers == \A a \in Admins : upsert[a].pc # "idle" => DOMAIN upsert[a].rows \subseteq Tiers
AcceptedOfTiers == \A k \in DOMAIN accepted : k[1] \in Tiers

\* What was accepted is found in a history; histories and requests only speak
\* of tiers of the catalogue.
CatalogueInv ==
  /\ entries = [t \in Tiers |-> entries[t]]
  /\ upsert = [a \in Admins |-> upsert[a]]
  /\ HistoriesOK
  /\ RowsOfTiers
  /\ AcceptedOfTiers
  /\ AcceptedStays

\* h continues g: the versions of g are in h, unchanged.
Continues(h, g) ==
  /\ IsHistory(h)
  /\ DOMAIN g \subseteq DOMAIN h
  /\ \A v \in DOMAIN g : h[v] = g[v]

\* Appending a row continues a history and puts the row at the next version.
LEMMA AppendContinues ==
  ASSUME NEW g, IsHistory(g), NEW x
  PROVE  /\ Continues(Append(g, x), g)
         /\ Len(g) + 1 \in DOMAIN Append(g, x)
         /\ Append(g, x)[Len(g) + 1] = x
<1>1. PICK S : g \in Seq(S)
  BY DEF IsHistory
<1>2. g \in Seq(S \union {x}) /\ x \in S \union {x}
  BY <1>1
<1>3. Append(g, x) \in Seq(S \union {x})
  BY <1>2
<1>. QED
  BY <1>2, <1>3 DEF Continues, IsHistory

\* The empty history is continued by any.
LEMMA SeedContinues ==
  ASSUME NEW g, g = <<>>, NEW x
  PROVE  Continues(<<x>>, g)
<1>1. <<x>> \in Seq({x})
  OBVIOUS
<1>2. DOMAIN g = {}
  OBVIOUS
<1>. QED
  BY <1>1, <1>2 DEF Continues, IsHistory

\* A step that continues every history and accepts nothing new keeps the
\* invariant.
LEMMA ContinuingKeeps ==
  ASSUME CatalogueInv,
         entries' = [t \in Tiers |-> entries'[t]],
         \A t \in Tiers : Continues(entries'[t], entries[t])
  PROVE  /\ HistoriesOK'
         /\ \A k \in DOMAIN accepted :
              /\ k[1] \in Tiers
              /\ k[2] \in DOMAIN entries'[k[1]]
              /\ entries'[k[1]][k[2]] = accepted[k]
<1>1. HistoriesOK'
  BY DEF HistoriesOK, Continues
<1>2. ASSUME NEW k \in DOMAIN accepted
      PROVE  /\ k[1] \in Tiers
             /\ k[2] \in DOMAIN entries'[k[1]]
             /\ entries'[k[1]][k[2]] = accepted[k]
  <2>1. k[1] \in Tiers /\ k[2] \in DOMAIN entries[k[1]] /\ entries[k[1]][k[2]] = accepted[k]
    BY DEF CatalogueInv, AcceptedOfTiers, AcceptedStays
  <2>2. Continues(entries'[k[1]], entries[k[1]])
    BY <2>1
  <2>. QED
    BY <2>1, <2>2 DEF Continues
<1>. QED
  BY <1>1, <1>2

\* Deriving the surcharge adds no tier to what was submitted.
LEMMA DerivedTiers ==
  ASSUME NEW s \in Submissions, NEW current
  PROVE  DOMAIN Derived(s, current) \subseteq Tiers
<1>1. DOMAIN s \subseteq Tiers
  BY PricesAssumption
<1>2. CASE Pro \in DOMAIN s /\ s[Pro].surcharge = None
  <2>1. DOMAIN Derived(s, current) = DOMAIN s
    BY <1>2 DEF Derived
  <2>. QED
    BY <1>1, <2>1
<1>3. CASE ~(Pro \in DOMAIN s /\ s[Pro].surcharge = None)
  BY <1>1, <1>3 DEF Derived
<1>. QED
  BY <1>2, <1>3

\* An accepted upsert appends its rows at the versions its answer names.
LEMMA InsertKeeps ==
  ASSUME CatalogueInv, NEW a \in Admins, Insert(a)
  PROVE  CatalogueInv'
<1>. DEFINE rows == upsert[a].rows
            version == upsert[a].version
<1>1. DOMAIN rows \subseteq Tiers
  BY DEF Insert, CatalogueInv, RowsOfTiers
<1>2. entries' = [t \in Tiers |->
                    IF t \in DOMAIN rows THEN Append(entries[t], StoredRow(a, t)) ELSE entries[t]]
  BY DEF Insert
<1>3. \A t \in Tiers : IsHistory(entries[t])
  BY DEF CatalogueInv, HistoriesOK
<1>4. \A t \in Tiers : Continues(entries'[t], entries[t])
  BY <1>2, <1>3, AppendContinues DEF Continues
<1>5. entries' = [t \in Tiers |-> entries'[t]]
  BY <1>2
<1>6. /\ HistoriesOK'
      /\ \A k \in DOMAIN accepted :
           k[1] \in Tiers /\ k[2] \in DOMAIN entries'[k[1]] /\ entries'[k[1]][k[2]] = accepted[k]
  BY <1>4, <1>5, ContinuingKeeps
<1>7. accepted' = AcceptedWith(a)
  BY DEF Insert
<1>8. /\ DOMAIN accepted' = Told(a) \union DOMAIN accepted
      /\ \A k \in DOMAIN accepted' :
           accepted'[k] = IF k \in Told(a) THEN StoredRow(a, k[1]) ELSE accepted[k]
  BY <1>7 DEF AcceptedWith
<1>9. ASSUME NEW k \in Told(a)
      PROVE  k[1] \in Tiers /\ k[2] \in DOMAIN entries'[k[1]] /\ entries'[k[1]][k[2]] = StoredRow(a, k[1])
  <2>1. PICK t \in DOMAIN rows : k = <<t, version[t]>>
    BY DEF Told
  <2>2. version[t] = Len(entries[t]) + 1
    BY <2>1 DEF Insert, VersionsFree
  <2>3. t \in Tiers /\ entries'[t] = Append(entries[t], StoredRow(a, t))
    BY <1>1, <1>2, <2>1
  <2>4. /\ Len(entries[t]) + 1 \in DOMAIN entries'[t]
        /\ entries'[t][Len(entries[t]) + 1] = StoredRow(a, t)
    BY <1>3, <2>3, AppendContinues
  <2>5. k[1] = t /\ k[2] = Len(entries[t]) + 1
    BY <2>1, <2>2
  <2>. QED
    BY <2>3, <2>4, <2>5
<1>10. AcceptedOfTiers' /\ AcceptedStays'
  <2>. SUFFICES ASSUME NEW k \in DOMAIN accepted'
                PROVE  /\ k[1] \in Tiers
                       /\ k[2] \in DOMAIN entries'[k[1]] /\ entries'[k[1]][k[2]] = accepted'[k]
    BY DEF AcceptedOfTiers, AcceptedStays
  <2>1. CASE k \in Told(a)
    BY <1>8, <1>9, <2>1
  <2>2. CASE k \notin Told(a)
    BY <1>6, <1>8, <2>2
  <2>. QED
    BY <2>1, <2>2
<1>11. /\ upsert' = [b \in Admins |-> upsert'[b]]
       /\ RowsOfTiers'
  BY DEF Insert, CatalogueInv, RowsOfTiers, Resting
<1>. QED
  BY <1>5, <1>6, <1>10, <1>11 DEF CatalogueInv

\* An upsert that does not insert changes its own request only.
LEMMA RequestKeeps ==
  ASSUME CatalogueInv, NEW a \in Admins,
         (\E s \in Submissions : Validate(a, s)) \/ Allocate(a) \/ InsertFails(a)
  PROVE  CatalogueInv'
<1>1. UNCHANGED <<entries, accepted>>
  BY DEF Validate, Allocate, InsertFails
<1>2. upsert' = [b \in Admins |-> upsert'[b]] /\ RowsOfTiers'
  <2>1. ASSUME NEW s \in Submissions, Validate(a, s)
        PROVE  upsert' = [b \in Admins |-> upsert'[b]] /\ RowsOfTiers'
    <3>1. DOMAIN Derived(s, Current) \subseteq Tiers
      BY DerivedTiers
    <3>. QED
      BY <2>1, <3>1 DEF Validate, CatalogueInv, RowsOfTiers
  <2>2. CASE Allocate(a)
    BY <2>2 DEF Allocate, CatalogueInv, RowsOfTiers
  <2>3. CASE InsertFails(a)
    BY <2>3 DEF InsertFails, CatalogueInv, RowsOfTiers, Resting
  <2>. QED
    BY <2>1, <2>2, <2>3
<1>. QED
  BY <1>1, <1>2 DEF CatalogueInv, HistoriesOK, AcceptedOfTiers, AcceptedStays

\* The scripts append rows, too, and accept nothing.
LEMMA ScriptKeeps ==
  ASSUME CatalogueInv, Apply \/ SeedLegacy
  PROVE  CatalogueInv'
<1>1. \A t \in Tiers : IsHistory(entries[t])
  BY DEF CatalogueInv, HistoriesOK
<1>2. entries' = [t \in Tiers |-> entries'[t]] /\ \A t \in Tiers : Continues(entries'[t], entries[t])
  <2>1. CASE Apply
    BY <1>1, <2>1, AppendContinues DEF Apply, Continues
  <2>2. CASE SeedLegacy
    BY <1>1, <2>2, SeedContinues DEF SeedLegacy, Continues
  <2>. QED
    BY <2>1, <2>2
<1>3. UNCHANGED <<upsert, accepted>>
  BY DEF Apply, SeedLegacy
<1>. QED
  BY <1>2, <1>3, ContinuingKeeps DEF CatalogueInv, RowsOfTiers, AcceptedOfTiers, AcceptedStays

\* Nothing is stored or accepted at the start.
LEMMA CatalogueInitInv == Init => CatalogueInv
<1>. SUFFICES ASSUME Init PROVE CatalogueInv
  OBVIOUS
<1>1. \A t \in Tiers : entries[t] = <<>> /\ <<>> \in Seq({})
  BY DEF Init
<1>2. HistoriesOK
  BY <1>1 DEF HistoriesOK, IsHistory
<1>3. DOMAIN accepted = {}
  BY DEF Init
<1>. QED
  BY <1>2, <1>3 DEF Init, CatalogueInv, RowsOfTiers, AcceptedOfTiers, AcceptedStays, Resting

\* Every step keeps the invariant.
LEMMA CatalogueNextInv == CatalogueInv /\ [Next]_vars => CatalogueInv'
<1>. SUFFICES ASSUME CatalogueInv, [Next]_vars PROVE CatalogueInv'
  OBVIOUS
<1>1. ASSUME NEW a \in Admins,
             (\E s \in Submissions : Validate(a, s)) \/ Allocate(a) \/ InsertFails(a)
      PROVE  CatalogueInv'
  BY <1>1, RequestKeeps
<1>2. ASSUME NEW a \in Admins, Insert(a) PROVE CatalogueInv'
  BY <1>2, InsertKeeps
<1>3. CASE Apply \/ SeedLegacy
  BY <1>3, ScriptKeeps
<1>4. CASE (\E s \in Durations : Plan(s)) \/ GiveUp \/ UNCHANGED vars
  <2>1. UNCHANGED <<entries, upsert, accepted>>
    BY <1>4 DEF Plan, GiveUp, vars
  <2>. QED
    BY <2>1 DEF CatalogueInv, HistoriesOK, RowsOfTiers, AcceptedOfTiers, AcceptedStays
<1>. QED
  BY <1>1, <1>2, <1>3, <1>4 DEF Next

(* An accepted upsert is never undone: the rows an admin was told are stored
   stay under the versions the answer named (upsert_tiers, the UNIQUE key on
   template, tier and version, ON CONFLICT DO NOTHING of the scripts). *)
THEOREM AcceptedRowsStay == Spec => []AcceptedStays
<1>1. CatalogueInv => AcceptedStays
  BY DEF CatalogueInv
<1>. QED
  BY CatalogueInitInv, CatalogueNextInv, <1>1, PTL DEF Spec

-----------------------------------------------------------------------------
(* What the formula gives.                                                  *)

\* The rates of a recipe.
Rates == Nat \X Nat

\* What the subtotals are exactly, whatever the last digits.
Exact(recipe, n) == [k \in DOMAIN recipe |-> Subtotal(recipe[k], n).n]
ExactTotal(recipe, n) == SumFunctionOnSet(Exact(recipe, n), DOMAIN recipe)

\* The exact part of a subtotal is the tiered price of the minutes, and a number of 300ths.
LEMMA SubtotalExact ==
  ASSUME NEW rates \in Rates, NEW n \in Nat
  PROVE  /\ Subtotal(rates, n).n \in Nat
         /\ Subtotal(rates, n).n = IF n <= 900 THEN n * rates[1]
                                   ELSE 900 * rates[1] + (n - 900) * rates[2]
<1>1. rates[1] \in Nat /\ rates[2] \in Nat
  BY DEF Rates
<1>2. Minutes(n).n = n
  BY DEF Minutes, Kept, Number
<1>3. \A x, k : Times(x, k).n = x.n * k
  BY DEF Times, Kept, Number
<1>4. \A x, y : Plus(x, y).n = x.n + y.n
  BY DEF Plus, Kept, Number
<1>5. \A a, b : Number(a, b).n = a
  BY DEF Number
<1>6. CASE n <= 900
  <2>1. Subtotal(rates, n).n = n * rates[1]
    BY <1>2, <1>3, <1>6 DEF Subtotal
  <2>. QED
    BY <1>1, <1>6, <2>1
<1>7. CASE ~(n <= 900)
  <2>1. Subtotal(rates, n).n = 900 * rates[1] + (n - 900) * rates[2]
    BY <1>3, <1>4, <1>5, <1>7 DEF Subtotal
  <2>2. n - 900 \in Nat
    BY <1>7
  <2>. QED
    BY <1>1, <1>7, <2>1, <2>2
<1>. QED
  BY <1>6, <1>7

\* Of nothing nothing is left by rounding.
LEMMA NothingIsExact == Kept(Number(0, 0)) = Number(0, 0)
<1>. DEFINE x == Number(0, 0)
            E == {k \in 0 .. 5 : x.n < 30 * 10 ^ k \/ (x.n = 30 * 10 ^ k /\ x.e < 0)}
<1>1. x.n = 0 /\ x.e = 0
  BY DEF Number
<1>2. 0 \in E /\ \A k \in E : k \in Nat
  BY <1>1
<1>. HIDE DEF E
<1>3. Min(E) = 0
  <2>. DEFINE y == Min(E)
  <2>1. y \in E /\ \A k \in E : y <= k
    BY <1>2 DEF Min
  <2>. HIDE DEF y
  <2>2. y = 0
    BY <1>2, <2>1
  <2>. QED BY <2>2 DEF y
<1>4. Ulp(x) = 3
  BY <1>3 DEF Ulp, E
<1>. QED
  BY <1>1, <1>4 DEF Kept, Number

\* A duration of nothing costs nothing.
LEMMA NothingCosts ==
  ASSUME NEW rates \in Rates
  PROVE  /\ Subtotal(rates, 0) = Number(0, 0)
         /\ Plus(Number(0, 0), Number(0, 0)) = Number(0, 0)
<1>1. rates[1] \in Nat
  BY DEF Rates
<1>2. Number(0, 0).n = 0 /\ Number(0, 0).e = 0
  BY DEF Number
<1>3. Minutes(0) = Number(0, 0)
  BY NothingIsExact DEF Minutes
<1>4. Times(Number(0, 0), rates[1]) = Number(0, 0)
  BY <1>1, <1>2, NothingIsExact DEF Times
<1>. QED
  BY <1>2, <1>3, <1>4, NothingIsExact DEF Subtotal, Plus

\* The charge is a fold from the first row to the last: on the rows up to k one function
\* obeys the recursion of the fold, and whichever does adds up the subtotals.
LEMMA FoldIsExact ==
  ASSUME NEW recipe \in Seq(Rates), NEW n \in Nat
  PROVE  /\ ExactTotal(recipe, n) \in Nat
         /\ Unrounded(recipe, n).n = ExactTotal(recipe, n)
         /\ n = 0 => Unrounded(recipe, n) = Number(0, 0)
<1>. DEFINE m == Len(recipe)
            f == Exact(recipe, n)
            Sum(s) == SumFunctionOnSet(f, s)
            Step(g, S) == [s \in SUBSET S |->
                             IF s = {} THEN Number(0, 0)
                             ELSE Plus(g[s \ {Max(s)}], Subtotal(recipe[Max(s)], n))]
            AddsTo(x, s) == x.n = Sum(s) /\ (n = 0 => x = Number(0, 0))
            G == CHOOSE g : g = Step(g, DOMAIN recipe)
            Obeyed(k) == \E g : g = Step(g, 1 .. k)
            AddsUp(k) == \A g : g = Step(g, 1 .. k) => \A s \in SUBSET (1 .. k) : AddsTo(g[s], s)
            Bad == {k \in 0 .. m : ~(Obeyed(k) /\ AddsUp(k))}
<1>1. m \in Nat /\ DOMAIN recipe = 1 .. m /\ \A k \in 1 .. m : recipe[k] \in Rates
  OBVIOUS
<1>2. DOMAIN f = 1 .. m /\ \A k \in 1 .. m : f[k] \in Nat /\ f[k] = Subtotal(recipe[k], n).n
  BY <1>1, SubtotalExact DEF Exact
<1>3. Unrounded(recipe, n) = G[DOMAIN recipe]
  BY DEF Unrounded, FoldLeft, MapThenFoldSet
<1>4. \A x, y : Plus(x, y).n = x.n + y.n
  BY DEF Plus, Kept, Number
<1>5. \A k \in 0 .. m : \A s \in SUBSET (1 .. k) :
        IsFiniteSet(s) /\ (\A x \in s : f[x] \in Nat) /\ Sum(s) \in Nat
  <2>. SUFFICES ASSUME NEW k \in 0 .. m, NEW s \in SUBSET (1 .. k)
                PROVE  IsFiniteSet(s) /\ (\A x \in s : f[x] \in Nat) /\ Sum(s) \in Nat
    OBVIOUS
  <2>1. IsFiniteSet(1 .. k)
    BY <1>1, FS_Interval
  <2>2. IsFiniteSet(s)
    BY <2>1, FS_Subset
  <2>3. \A x \in s : f[x] \in Nat
    BY <1>1, <1>2
  <2>. HIDE DEF f
  <2>. QED
    BY <2>2, <2>3, SumIsNat
<1>. HIDE DEF f, G
<1>6. Bad = {}
  <2>. SUFFICES ASSUME Bad # {} PROVE FALSE
    OBVIOUS
  <2>1. Bad \subseteq Nat
    BY <1>1
  <2>2. PICK k \in Bad : \A j \in Bad : ~(<<j, k>> \in OpToRel(<, Nat))
    <3>. HIDE DEF Bad
    <3>. QED
      BY <2>1, NatLessThanWellFounded, WFMin
  <2>3. k \in 0 .. m /\ k \in Nat /\ \A j \in 0 .. m : j < k => Obeyed(j) /\ AddsUp(j)
    <3>. HIDE DEF Obeyed, AddsUp
    <3>1. k \in 0 .. m /\ k \in Nat /\ \A j \in 0 .. m : j \in Nat
      BY <1>1
    <3>2. ASSUME NEW j \in 0 .. m, j < k PROVE Obeyed(j) /\ AddsUp(j)
      <4>1. <<j, k>> \in OpToRel(<, Nat)
        BY <3>1, <3>2 DEF OpToRel
      <4>2. j \notin Bad
        BY <2>2, <4>1
      <4>. QED BY <4>2
    <3>. QED BY <3>1, <3>2
  <2>. HIDE DEF Bad
  <2>4. CASE k = 0
    <3>1. SUBSET (1 .. k) = {{}}
      BY <2>4
    <3>2. Sum({}) = 0
      BY FS_EmptySet, SumOfZeroes
    <3>3. Obeyed(k)
      <4>. DEFINE e == [s \in SUBSET (1 .. k) |-> Number(0, 0)]
      <4>1. e = Step(e, 1 .. k)
        BY <3>1
      <4>. QED BY <4>1
    <3>4. AddsUp(k)
      <4>. SUFFICES ASSUME NEW g, g = Step(g, 1 .. k) PROVE AddsTo(g[{}], {})
        BY <3>1, <3>2
      <4>1. g[{}] = Number(0, 0)
        BY <3>1
      <4>. QED BY <3>2, <4>1 DEF Number
    <3>. QED BY <2>2, <3>3, <3>4 DEF Bad
  <2>5. CASE k # 0
    <3>. DEFINE j == k - 1
    <3>1. j \in 0 .. m /\ j < k /\ k \in 1 .. m /\ 1 .. k = (1 .. j) \union {k} /\ k \notin 1 .. j
      BY <1>1, <2>3, <2>5
    <3>2. Obeyed(j) /\ AddsUp(j)
      BY <2>3, <3>1
    <3>3. \A s \in SUBSET (1 .. k) : k \in s => Max(s) = k /\ s \ {k} \in SUBSET (1 .. j)
      <4>. SUFFICES ASSUME NEW s \in SUBSET (1 .. k), k \in s PROVE Max(s) = k
        BY <3>1
      <4>1. \A y \in s : y \in Int /\ k >= y
        BY <2>3
      <4>2. Max(s) \in s /\ Max(s) >= k
        BY <4>1 DEF Max
      <4>3. k \in Int
        BY <2>3
      <4>. DEFINE x == Max(s)
      <4>4. x \in Int /\ k >= x /\ x >= k
        BY <4>1, <4>2
      <4>. HIDE DEF x
      <4>5. x = k
        BY <4>3, <4>4
      <4>. QED BY <4>5 DEF x
    <3>4. \A s \in SUBSET (1 .. k) : k \notin s => s \in SUBSET (1 .. j)
      BY <3>1
    <3>5. \A s \in SUBSET (1 .. j) : s \in SUBSET (1 .. k) /\ s \ {Max(s)} \in SUBSET (1 .. j)
      BY <3>1
    <3>6. \A s \in SUBSET (1 .. k) : k \in s => Sum(s) = f[k] + Sum(s \ {k})
      <4>. SUFFICES ASSUME NEW s \in SUBSET (1 .. k), k \in s PROVE Sum(s) = f[k] + Sum(s \ {k})
        OBVIOUS
      <4>1. /\ IsFiniteSet(s) /\ \A x \in s : f[x] \in Nat
            /\ IsFiniteSet(s \ {k}) /\ \A x \in s \ {k} : f[x] \in Nat
        BY <1>5, <2>3, FS_Subset
      <4>2. Sum(s) = UnitCount(f, s)
        BY <4>1, SumIsUnitCount
      <4>3. Sum(s \ {k}) = UnitCount(f, s \ {k})
        BY <4>1, SumIsUnitCount
      <4>4. UnitCount(f, s) = f[k] + UnitCount(f, s \ {k})
        BY <4>1, UnitCountRemove
      <4>. QED BY <4>2, <4>3, <4>4
    <3>. HIDE DEF j
    <3>7. Obeyed(k)
      <4>1. PICK g : g = Step(g, 1 .. j)
        BY <3>2
      <4>. DEFINE h == [s \in SUBSET (1 .. k) |->
                          IF k \in s THEN Plus(g[s \ {k}], Subtotal(recipe[k], n)) ELSE g[s]]
      <4>2. ASSUME NEW s \in SUBSET (1 .. k)
            PROVE  h[s] = Step(h, 1 .. k)[s]
        <5>1. CASE k \in s
          <6>1. Max(s) = k /\ s \ {k} \in SUBSET (1 .. j) /\ s \ {k} \in SUBSET (1 .. k) /\ k \notin s \ {k}
            BY <3>3, <3>5, <5>1
          <6>2. h[s \ {k}] = g[s \ {k}]
            BY <6>1
          <6>3. h[s] = Plus(g[s \ {k}], Subtotal(recipe[k], n))
            BY <5>1
          <6>4. Step(h, 1 .. k)[s] = Plus(h[s \ {k}], Subtotal(recipe[k], n))
            <7>. HIDE DEF h
            <7>. QED BY <5>1, <6>1
          <6>. QED BY <6>2, <6>3, <6>4
        <5>2. CASE k \notin s
          <6>1. s \in SUBSET (1 .. j) /\ s \ {Max(s)} \in SUBSET (1 .. k) /\ k \notin s \ {Max(s)}
            BY <3>4, <3>5, <5>2
          <6>2. h[s] = g[s] /\ h[s \ {Max(s)}] = g[s \ {Max(s)}]
            BY <5>2, <6>1
          <6>3. g[s] = IF s = {} THEN Number(0, 0)
                       ELSE Plus(g[s \ {Max(s)}], Subtotal(recipe[Max(s)], n))
            BY <4>1, <6>1
          <6>4. Step(h, 1 .. k)[s] = IF s = {} THEN Number(0, 0)
                       ELSE Plus(h[s \ {Max(s)}], Subtotal(recipe[Max(s)], n))
            <7>. HIDE DEF h
            <7>. QED BY <6>1
          <6>. QED BY <6>2, <6>3, <6>4
        <5>. QED BY <5>1, <5>2
      <4>3. h = Step(h, 1 .. k)
        <5>1. h = [s \in SUBSET (1 .. k) |-> h[s]]
          OBVIOUS
        <5>2. Step(h, 1 .. k) = [s \in SUBSET (1 .. k) |-> Step(h, 1 .. k)[s]]
          <6>. HIDE DEF h
          <6>. QED OBVIOUS
        <5>. HIDE DEF h, Step
        <5>. QED BY <4>2, <5>1, <5>2
      <4>. QED BY <4>3
    <3>8. AddsUp(k)
      <4>. SUFFICES ASSUME NEW g, g = Step(g, 1 .. k), NEW s \in SUBSET (1 .. k)
                    PROVE  AddsTo(g[s], s)
        OBVIOUS
      <4>. DEFINE h == [t \in SUBSET (1 .. j) |-> g[t]]
      <4>1. h = Step(h, 1 .. j)
        <5>1. ASSUME NEW t \in SUBSET (1 .. j)
              PROVE  h[t] = Step(h, 1 .. j)[t]
          <6>1. g[t] = IF t = {} THEN Number(0, 0)
                       ELSE Plus(g[t \ {Max(t)}], Subtotal(recipe[Max(t)], n))
            BY <3>5
          <6>2. h[t] = g[t] /\ h[t \ {Max(t)}] = g[t \ {Max(t)}]
            BY <3>5
          <6>3. Step(h, 1 .. j)[t] = IF t = {} THEN Number(0, 0)
                       ELSE Plus(h[t \ {Max(t)}], Subtotal(recipe[Max(t)], n))
            <7>. HIDE DEF h
            <7>. QED OBVIOUS
          <6>. QED BY <6>1, <6>2, <6>3
        <5>2. h = [t \in SUBSET (1 .. j) |-> h[t]]
          OBVIOUS
        <5>3. Step(h, 1 .. j) = [t \in SUBSET (1 .. j) |-> Step(h, 1 .. j)[t]]
          <6>. HIDE DEF h
          <6>. QED OBVIOUS
        <5>. HIDE DEF h, Step
        <5>. QED BY <5>1, <5>2, <5>3
      <4>2. \A t \in SUBSET (1 .. j) : AddsTo(g[t], t)
        <5>1. \A t \in SUBSET (1 .. j) : AddsTo(h[t], t)
          <6>. HIDE DEF h, Step, AddsTo
          <6>. QED BY <3>2, <4>1
        <5>. QED BY <5>1
      <4>3. CASE k \notin s
        BY <3>4, <4>2, <4>3
      <4>4. CASE k \in s
        <5>1. Max(s) = k /\ s \ {k} \in SUBSET (1 .. j)
          BY <3>3, <4>4
        <5>2. g[s] = Plus(g[s \ {k}], Subtotal(recipe[k], n))
          BY <4>4, <5>1
        <5>3. g[s].n = g[s \ {k}].n + f[k]
          <6>1. f[k] = Subtotal(recipe[k], n).n
            BY <1>2, <3>1
          <6>2. Plus(g[s \ {k}], Subtotal(recipe[k], n)).n = g[s \ {k}].n + Subtotal(recipe[k], n).n
            BY <1>4
          <6>. HIDE DEF Step
          <6>. QED BY <5>2, <6>1, <6>2
        <5>4. Sum(s) = f[k] + Sum(s \ {k}) /\ f[k] \in Nat /\ Sum(s \ {k}) \in Nat
          BY <1>2, <1>5, <2>3, <3>1, <3>5, <3>6, <4>4, <5>1
        <5>5. g[s \ {k}].n = Sum(s \ {k})
          BY <4>2, <5>1
        <5>6. n = 0 => g[s] = Number(0, 0)
          <6>1. recipe[k] \in Rates
            BY <1>1, <3>1
          <6>. HIDE DEF Step
          <6>. QED BY <4>2, <5>1, <5>2, <6>1, NothingCosts
        <5>. HIDE DEF Sum, Step
        <5>. QED BY <5>3, <5>4, <5>5, <5>6
      <4>. QED BY <4>3, <4>4
    <3>. HIDE DEF Obeyed, AddsUp
    <3>. QED BY <2>2, <3>7, <3>8 DEF Bad
  <2>. QED BY <2>4, <2>5
<1>7. Obeyed(m) /\ AddsUp(m)
  <2>. HIDE DEF Obeyed, AddsUp
  <2>. QED BY <1>1, <1>6
<1>8. G = Step(G, 1 .. m)
  BY <1>1, <1>7 DEF G
<1>9. AddsTo(G[1 .. m], 1 .. m)
  BY <1>7, <1>8
<1>10. Sum(1 .. m) = ExactTotal(recipe, n) /\ Sum(1 .. m) \in Nat
  BY <1>1, <1>5 DEF ExactTotal, f
<1>. HIDE DEF Sum
<1>. QED
  BY <1>1, <1>3, <1>9, <1>10

\* A recipe is three rows of rates, or four with the summary of a custom one.
LEMMA RecipesTyped ==
  /\ \A t \in Tiers : Recipes[t] \in Seq(Rates) /\ Len(Recipes[t]) = 3
  /\ \A recipe \in CustomRecipes : recipe \in Seq(Rates) /\ Len(recipe) \in 3 .. 4
<1>1. \A w \in Nat : Recipe(w) \in Seq(Rates) /\ Len(Recipe(w)) = 3
  BY DEF Recipe, Rates
<1>2. \A t \in Tiers : Recipes[t] \in {Recipe(2), Recipe(6), Recipe(15)}
  BY TiersAssumption DEF Recipes, Flash, Pro, Derivative
<1>. DEFINE summary == <<<<13, 13>>>>
            whole == summary \o Recipe(15)
<1>3. summary \in Seq(Rates) /\ Len(summary) = 1
  BY DEF Rates
<1>4. whole \in Seq(Rates) /\ Len(whole) = 4
  <2>1. Recipe(15) \in Seq(Rates) /\ Len(Recipe(15)) = 3
    BY <1>1
  <2>. DEFINE rest == Recipe(15)
  <2>. HIDE DEF summary, rest
  <2>2. whole = summary \o rest
    BY DEF rest
  <2>3. rest \in Seq(Rates) /\ Len(rest) = 3
    BY <2>1 DEF rest
  <2>. HIDE DEF whole
  <2>4. summary \o rest \in Seq(Rates) /\ Len(summary \o rest) = Len(summary) + Len(rest)
    BY <1>3, <2>3, ConcatProperties
  <2>. QED BY <1>3, <2>2, <2>3, <2>4
<1>5. /\ Recipe(2) \in Seq(Rates) /\ Recipe(6) \in Seq(Rates) /\ Recipe(15) \in Seq(Rates)
      /\ Len(Recipe(2)) = 3 /\ Len(Recipe(6)) = 3 /\ Len(Recipe(15)) = 3
  BY <1>1
<1>6. \A recipe \in CustomRecipes : recipe \in Seq(Rates) /\ Len(recipe) \in 3 .. 4
  <2>. SUFFICES ASSUME NEW recipe \in {Recipe(2), Recipe(6), whole}
                PROVE  recipe \in Seq(Rates) /\ Len(recipe) \in 3 .. 4
    BY DEF CustomRecipes
  <2>. HIDE DEF whole
  <2>. QED BY <1>4, <1>5
<1>. QED
  BY <1>2, <1>5, <1>6

\* A charge is the exact total rounded up, or a point more.
LEMMA TotalExact ==
  ASSUME NEW recipe \in Seq(Rates), NEW n \in Nat
  PROVE  /\ ExactTotal(recipe, n) \in Nat
         /\ Total(recipe, n) \in Nat
         /\ Total(recipe, n) >= (ExactTotal(recipe, n) + 299) \div 300
         /\ Total(recipe, n) <= (ExactTotal(recipe, n) + 300) \div 300
         /\ n = 0 => Total(recipe, n) = 0
<1>1. /\ ExactTotal(recipe, n) \in Nat
      /\ Unrounded(recipe, n).n = ExactTotal(recipe, n)
      /\ n = 0 => Unrounded(recipe, n) = Number(0, 0)
  BY FoldIsExact
<1>. DEFINE x == Unrounded(recipe, n)
            N == ExactTotal(recipe, n)
            up == IF N % 300 = 0 /\ x.e > 0 THEN 1 ELSE 0
<1>2. Total(recipe, n) = (N + 299) \div 300 + up
  BY <1>1 DEF Total, Ceil
<1>3. up \in 0 .. 1 /\ (up = 1 => N % 300 = 0)
  OBVIOUS
<1>4. n = 0 => N = 0 /\ up = 0
  BY <1>1 DEF Number
<1>. HIDE DEF N, up, x
<1>5. N \in Nat
  BY <1>1 DEF N
<1>6. /\ (N + 299) \div 300 + up \in Nat
      /\ (N + 299) \div 300 + up >= (N + 299) \div 300
      /\ (N + 299) \div 300 + up <= (N + 300) \div 300
  BY <1>3, <1>5
<1>. QED
  BY <1>1, <1>2, <1>4, <1>6 DEF N

\* The Pro tier's text costs more, and nothing where there is no duration.
LEMMA ProAboveFlash ==
  ASSUME NEW n \in Nat
  PROVE  Total(Recipes[Flash], n) <= Total(Recipes[Pro], n)
<1>. DEFINE low == Exact(Recipes[Flash], n)
            high == Exact(Recipes[Pro], n)
<1>1. /\ Recipes[Flash] = << <<2, 2>>, <<10, 6>>, <<7, 4>> >>
      /\ Recipes[Pro] = << <<6, 6>>, <<10, 6>>, <<7, 4>> >>
  BY DEF Recipes, Recipe, Flash, Pro, Derivative
<1>2. Recipes[Flash] \in Seq(Rates) /\ Recipes[Pro] \in Seq(Rates)
  BY RecipesTyped, TiersAssumption
<1>3. DOMAIN Recipes[Flash] = 1 .. 3 /\ DOMAIN Recipes[Pro] = 1 .. 3
  BY <1>1
<1>4. low \in [1 .. 3 -> Nat] /\ high \in [1 .. 3 -> Nat]
  BY <1>2, <1>3, SubtotalExact DEF Exact
<1>5. \A k \in (1 .. 3) \ {1} : low[k] = high[k]
  <2>1. Recipes[Flash][2] = Recipes[Pro][2] /\ Recipes[Flash][3] = Recipes[Pro][3]
    BY <1>1
  <2>. QED BY <1>3, <2>1 DEF Exact
<1>6. n # 0 => low[1] < high[1]
  <2>1. low[1] = Subtotal(<<2, 2>>, n).n /\ high[1] = Subtotal(<<6, 6>>, n).n
    BY <1>1, <1>3 DEF Exact
  <2>2. <<2, 2>> \in Rates /\ <<6, 6>> \in Rates
    BY DEF Rates
  <2>3. /\ Subtotal(<<2, 2>>, n).n = IF n <= 900 THEN n * 2 ELSE 900 * 2 + (n - 900) * 2
        /\ Subtotal(<<6, 6>>, n).n = IF n <= 900 THEN n * 6 ELSE 900 * 6 + (n - 900) * 6
    BY <2>2, SubtotalExact
  <2>. QED BY <2>1, <2>3
<1>. HIDE DEF low, high
<1>7. IsFiniteSet(1 .. 3) /\ 1 \in 1 .. 3
  <2>. DEFINE k == 3
  <2>1. k \in Int
    OBVIOUS
  <2>. HIDE DEF k
  <2>2. IsFiniteSet(1 .. k)
    BY <2>1, FS_Interval
  <2>. QED BY <2>2 DEF k
<1>8. /\ SumFunctionOnSet(low, 1 .. 3) \in Nat /\ SumFunctionOnSet(high, 1 .. 3) \in Nat
      /\ SumFunctionOnSet(high, 1 .. 3) = SumFunctionOnSet(low, 1 .. 3) - low[1] + high[1]
  BY <1>4, <1>5, <1>7, SumUpdate
<1>9. n # 0 => ExactTotal(Recipes[Flash], n) < ExactTotal(Recipes[Pro], n)
  <2>1. low[1] \in Nat /\ high[1] \in Nat
    BY <1>4
  <2>. QED BY <1>3, <1>6, <1>8, <2>1 DEF ExactTotal, low, high
<1>10. CASE n = 0
  <2>1. Total(Recipes[Flash], n) = 0 /\ Total(Recipes[Pro], n) = 0
    BY <1>2, <1>10, TotalExact
  <2>. QED BY <2>1
<1>11. CASE n # 0
  <2>. DEFINE f == ExactTotal(Recipes[Flash], n)
              p == ExactTotal(Recipes[Pro], n)
  <2>1. f \in Nat /\ p \in Nat /\ f < p
    BY <1>2, <1>9, <1>11, TotalExact
  <2>2. /\ Total(Recipes[Flash], n) \in Nat /\ Total(Recipes[Pro], n) \in Nat
        /\ Total(Recipes[Flash], n) <= (f + 300) \div 300
        /\ Total(Recipes[Pro], n) >= (p + 299) \div 300
    <3>. DEFINE cheap == Total(Recipes[Flash], n)
                dear == Total(Recipes[Pro], n)
    <3>. HIDE DEF f, p, cheap, dear
    <3>1. cheap \in Nat /\ cheap <= (f + 300) \div 300
      BY <1>2, TotalExact DEF f, cheap
    <3>2. dear \in Nat /\ dear >= (p + 299) \div 300
      BY <1>2, TotalExact DEF p, dear
    <3>. QED BY <3>1, <3>2 DEF cheap, dear
  <2>. HIDE DEF f, p
  <2>3. (f + 300) \div 300 <= (p + 299) \div 300
    BY <2>1
  <2>4. (f + 300) \div 300 \in Int /\ (p + 299) \div 300 \in Int
    BY <2>1
  <2>. QED BY <2>2, <2>3, <2>4
<1>. QED
  BY <1>10, <1>11

\* The breakdown of a charge adds up to it, in whole points none of which is negative:
\* rows are rounded down, so that what the last one absorbs is not.
LEMMA BreakdownFits ==
  ASSUME NEW recipe \in Seq(Rates), Len(recipe) # 0, NEW n \in Nat
  PROVE  /\ SumOf(Breakdown(recipe, n)) = Total(recipe, n)
         /\ \A k \in DOMAIN Breakdown(recipe, n) : Breakdown(recipe, n)[k] >= 0
<1>. DEFINE m == Len(recipe)
            f == Exact(recipe, n)
            low == [k \in DOMAIN recipe |-> Subtotal(recipe[k], n).n \div 300]
            rest == Total(recipe, n) - SumOf(low)
            g == Breakdown(recipe, n)
<1>1. m \in Nat \ {0} /\ m \in 1 .. m /\ DOMAIN recipe = 1 .. m /\ \A k \in 1 .. m : recipe[k] \in Rates
  OBVIOUS
<1>2. IsFiniteSet(1 .. m)
  BY <1>1, FS_Interval
<1>3. DOMAIN low = 1 .. m /\ \A k \in 1 .. m : f[k] \in Nat /\ low[k] = f[k] \div 300
  BY <1>1, SubtotalExact DEF Exact
<1>4. \A k \in 1 .. m : low[k] \in Nat /\ f[k] \in Nat /\ 300 * low[k] <= f[k]
  <2>. HIDE DEF f, low
  <2>. QED BY <1>3
<1>5. low \in [1 .. m -> Nat]
  BY <1>1, <1>4
<1>6. g = [low EXCEPT ![m] = @ + Total(recipe, n) - SumOf(low)]
  BY DEF Breakdown
<1>7. SumOf(low) = SumFunctionOnSet(low, 1 .. m) /\ ExactTotal(recipe, n) = SumFunctionOnSet(f, 1 .. m)
  BY <1>1, <1>3 DEF SumOf, SumFunction, ExactTotal
<1>8. Total(recipe, n) \in Nat /\ ExactTotal(recipe, n) \in Nat
      /\ Total(recipe, n) >= (ExactTotal(recipe, n) + 299) \div 300
  BY TotalExact
<1>. HIDE DEF f, low, g
<1>9. 300 * SumFunctionOnSet(low, 1 .. m) <= SumFunctionOnSet(f, 1 .. m)
  <2>. DEFINE c == 300
  <2>1. c \in Nat /\ (\A k \in 1 .. m : low[k] \in Nat) /\ \A k \in 1 .. m : f[k] \in Nat /\ c * low[k] <= f[k]
    BY <1>4
  <2>. HIDE DEF c, m
  <2>2. c * SumFunctionOnSet(low, 1 .. m) <= SumFunctionOnSet(f, 1 .. m)
    BY <1>2, <2>1, SumOfParts
  <2>. QED BY <2>2 DEF c
<1>10. SumFunctionOnSet(low, 1 .. m) \in Nat
  BY <1>2, <1>4, SumIsNat
<1>11. rest \in Nat
  <2>. DEFINE N == ExactTotal(recipe, n)
              L == SumOf(low)
  <2>1. N \in Nat /\ L \in Nat /\ 300 * L <= N
    BY <1>7, <1>8, <1>9, <1>10
  <2>. HIDE DEF N, L
  <2>2. L <= (N + 299) \div 300 /\ (N + 299) \div 300 \in Int
    BY <2>1
  <2>. QED BY <1>8, <2>1, <2>2 DEF N, L
<1>12. /\ g \in [1 .. m -> Nat]
       /\ g[m] = low[m] + rest /\ \A k \in (1 .. m) \ {m} : low[k] = g[k]
  <2>1. low[m] + Total(recipe, n) - SumOf(low) = low[m] + rest /\ low[m] + rest \in Nat
    BY <1>1, <1>4, <1>7, <1>8, <1>10, <1>11
  <2>. HIDE DEF rest
  <2>. QED BY <1>1, <1>5, <1>6, <2>1
<1>13. SumFunctionOnSet(g, 1 .. m) = SumFunctionOnSet(low, 1 .. m) - low[m] + g[m]
  BY <1>1, <1>2, <1>5, <1>12, SumUpdate
<1>14. SumOf(g) = SumFunctionOnSet(g, 1 .. m)
  BY <1>12 DEF SumOf, SumFunction
<1>15. SumOf(g) = Total(recipe, n)
  <2>1. low[m] \in Nat
    BY <1>1, <1>4
  <2>. QED BY <1>7, <1>8, <1>10, <1>11, <1>12, <1>13, <1>14, <2>1
<1>. QED
  BY <1>12, <1>15 DEF g

\* What the formula gives.
LEMMA FormulaTyped ==
  ASSUME NEW s \in Durations
  PROVE  /\ \A t \in Tiers : Formula(t, s) = Total(Recipes[t], OfSeconds(s)) /\ Formula(t, s) \in Nat
         /\ Formula(Flash, s) <= Formula(Pro, s)
<1>1. OfSeconds(s) \in Nat
  BY BoundsAssumption DEF OfSeconds
<1>2. \A t \in Tiers : Formula(t, s) = Total(Recipes[t], OfSeconds(s))
  <2>. SUFFICES ASSUME NEW t \in Tiers PROVE Formula(t, s) = Total(Recipes[t], OfSeconds(s))
    OBVIOUS
  <2>1. TierQuotes[t][s] = QuoteOf(Recipes[t], OfSeconds(s))
    BY DEF TierQuotes
  <2>. QED BY <2>1 DEF Formula, QuoteOf
<1>3. \A t \in Tiers : Total(Recipes[t], OfSeconds(s)) \in Nat
  BY <1>1, RecipesTyped, TotalExact
<1>4. Flash \in Tiers /\ Pro \in Tiers
  BY TiersAssumption
<1>. QED
  BY <1>1, <1>2, <1>3, <1>4, ProAboveFlash

-----------------------------------------------------------------------------
(* The rows, the requests and the plan of the script.                       *)

\* A history holds what the columns allow, a version after the other.
RowsTyped ==
  \A t \in Tiers :
    /\ entries[t] \in Seq(RowType) /\ Len(entries[t]) <= MaxVersion
    /\ \A v \in DOMAIN entries[t] : entries[t][v].version = v

\* A request that has been validated holds payloads that fit the rows it saw.
RequestFits(r) ==
  r.pc # "idle" =>
    /\ r.pc \in {"valid", "allocated"} /\ template.known
    /\ DOMAIN r.rows # {} /\ DOMAIN r.rows \subseteq Tiers /\ r.rows \in [DOMAIN r.rows -> Payloads]
    /\ PairFits(Merged(r.rows, r.seen))
    /\ r.pc = "allocated" => \A t \in DOMAIN r.rows : r.version[t] \in Nat \ {0}

\* The tiers a plan rewrites, in view of what it was made from.
PlanMade(p) ==
  /\ p.seed => DOMAIN p.seen = {} /\ p.version = [t \in Tiers |-> 1]
  /\ ~p.seed =>
       /\ DOMAIN p.version \subseteq Tiers
       /\ p.version = [t \in DOMAIN p.version |-> p.seen[t].version + 1]
       /\ DOMAIN p.version =
            {t \in DOMAIN p.seen : p.seen[t].price # Formula(t, p.seconds) \/ p.seen[t].reference # Formula(t, p.seconds)}

\* Only one run of the script is under way, so a row of the script's it did not
\* plan to replace is right, and one it did is still the last.
PlanFits(p) ==
  p.pc # "idle" =>
    /\ p.pc = "planned" /\ p.seconds \in Durations /\ p.seed \in BOOLEAN
    /\ PlanMade(p)
    /\ p.seed => /\ \A t \in DOMAIN Current : Current[t].by # "refresh"
                 /\ template.known => DOMAIN Current = Tiers
    /\ ~p.seed => /\ template.known
                  /\ \A t \in DOMAIN Current :
                       Current[t].by = "refresh" =>
                         IF t \in DOMAIN p.version THEN p.version[t] = Len(entries[t]) + 1
                         ELSE Current[t].price = Formula(t, p.seconds)

SoundInv ==
  /\ template \in [known : BOOLEAN, seconds : Durations \union {None}]
  /\ ~template.known => \A t \in Tiers : entries[t] = <<>>
  /\ RowsTyped
  /\ \A a \in Admins : RequestFits(upsert[a])
  /\ PlanFits(script)
  /\ \A k \in DOMAIN accepted : k \in Tiers \X (1 .. MaxVersion)
  /\ RefreshedPriceTheDuration

\* A history of a tier that holds what the columns allow, a version after the other.
TierTyped(e) ==
  /\ e \in Seq(RowType) /\ Len(e) <= MaxVersion
  /\ \A v \in DOMAIN e : e[v].version = v

\* Rows are typed tier by tier.
LEMMA RowsByTier == RowsTyped <=> \A t \in Tiers : TierTyped(entries[t])
BY DEF RowsTyped, TierTyped

\* A row of the next version may be appended.
LEMMA AppendTyped ==
  ASSUME NEW e, TierTyped(e), NEW r \in RowType, r.version = Len(e) + 1
  PROVE  /\ TierTyped(Append(e, r)) /\ Append(e, r) # <<>>
         /\ Append(e, r)[Len(Append(e, r))] = r
         /\ Len(Append(e, r)) = Len(e) + 1
<1>1. e \in Seq(RowType) /\ Len(e) \in Nat
  BY DEF TierTyped
<1>2. /\ Append(e, r) \in Seq(RowType) /\ Len(Append(e, r)) = Len(e) + 1
      /\ Append(e, r)[Len(e) + 1] = r /\ \A v \in 1 .. Len(e) : Append(e, r)[v] = e[v]
  BY <1>1
<1>3. r.version <= MaxVersion
  BY BoundsAssumption DEF RowType
<1>4. ASSUME NEW v \in DOMAIN Append(e, r) PROVE Append(e, r)[v].version = v
  <2>1. v \in 1 .. Len(e) \/ v = Len(e) + 1
    BY <1>1, <1>2, <1>4
  <2>. QED BY <1>1, <1>2, <2>1 DEF TierTyped
<1>. QED
  BY <1>1, <1>2, <1>3, <1>4 DEF TierTyped

\* The first row of a tier has version 1.
LEMMA FirstTyped ==
  ASSUME NEW r \in RowType, r.version = 1
  PROVE  TierTyped(<<r>>) /\ <<r>> # <<>> /\ <<r>>[Len(<<r>>)] = r
<1>1. <<r>> \in Seq(RowType) /\ Len(<<r>>) = 1 /\ <<r>>[1] = r
  OBVIOUS
<1>. QED
  BY <1>1, BoundsAssumption DEF TierTyped

\* The current rows are the last of the histories that have one.
LEMMA CurrentRows ==
  /\ DOMAIN Current = {t \in Tiers : entries[t] # <<>>}
  /\ \A t \in DOMAIN Current : Current[t] = entries[t][Len(entries[t])]
BY DEF Current

\* The version of a current row is the length of its history.
LEMMA CurrentTyped ==
  ASSUME RowsTyped, NEW t \in DOMAIN Current
  PROVE  /\ t \in Tiers /\ Len(entries[t]) \in 1 .. MaxVersion
         /\ Current[t] \in RowType /\ Current[t].version = Len(entries[t])
         /\ Current[t].price \in Nat
<1>1. t \in Tiers /\ entries[t] # <<>> /\ Current[t] = entries[t][Len(entries[t])]
  BY CurrentRows
<1>2. entries[t] \in Seq(RowType) /\ Len(entries[t]) <= MaxVersion
  BY <1>1 DEF RowsTyped
<1>3. Len(entries[t]) \in Nat /\ Len(entries[t]) # 0
  BY <1>1, <1>2, EmptySeq
<1>4. Len(entries[t]) \in DOMAIN entries[t] /\ Len(entries[t]) \in 1 .. MaxVersion
  BY <1>2, <1>3, BoundsAssumption
<1>5. Current[t] \in RowType /\ Current[t].version = Len(entries[t])
  BY <1>1, <1>2, <1>4 DEF RowsTyped
<1>. QED
  BY <1>1, <1>4, <1>5 DEF RowType

\* A row's price in the merged view is a natural number.
LEMMA MergedPrice ==
  ASSUME RowsTyped, NEW s, NEW t \in DOMAIN Merged(s, Current), s \in [DOMAIN s -> Payloads]
  PROVE  Merged(s, Current)[t].price \in Nat
<1>1. CASE t \in DOMAIN s
  BY <1>1 DEF Merged, Payloads
<1>2. CASE t \notin DOMAIN s
  <2>1. t \in DOMAIN Current /\ Merged(s, Current)[t] = Current[t]
    BY <1>2 DEF Merged
  <2>. QED BY <2>1, CurrentTyped
<1>. QED
  BY <1>1, <1>2

\* What is validated is a payload again: the surcharge that is derived is not negative.
LEMMA ValidFits ==
  ASSUME RowsTyped, template.known, NEW s \in Submissions, Valid(s, Current)
  PROVE  RequestFits([pc |-> "valid", rows |-> Derived(s, Current), seen |-> Current])
<1>1. DOMAIN s # {} /\ DOMAIN s \subseteq Tiers /\ s \in [DOMAIN s -> Payloads]
  BY PricesAssumption
<1>. DEFINE d == Derived(s, Current)
<1>2. PairFits(Merged(d, Current))
  BY DEF Valid
<1>3. DOMAIN d = DOMAIN s /\ d \in [DOMAIN s -> Payloads]
  <2>1. CASE Pro \in DOMAIN s /\ s[Pro].surcharge = None
    <3>. DEFINE v == s[Pro].price - Merged(s, Current)[Flash].price
    <3>1. d = [s EXCEPT ![Pro].surcharge = v]
      BY <2>1 DEF Derived
    <3>2. Flash \in DOMAIN Merged(s, Current)
      BY <2>1 DEF Valid
    <3>3. Merged(s, Current)[Flash].price \in Nat /\ s[Pro].price \in Nat
      <4>1. s[Pro] \in Payloads
        BY <1>1, <2>1
      <4>. QED BY <1>1, <3>2, <4>1, MergedPrice DEF Payloads
    <3>. HIDE DEF v
    <3>4. /\ DOMAIN d = DOMAIN s /\ d[Pro].price = s[Pro].price
          /\ d[Pro] = [s[Pro] EXCEPT !.surcharge = v]
          /\ \A t \in DOMAIN s \ {Pro} : d[t] = s[t]
          /\ d = [t \in DOMAIN s |-> d[t]]
      BY <1>1, <2>1, <3>1 DEF Payloads
    <3>5. Flash # Pro
      BY DEF Flash, Pro
    <3>6. /\ {Flash, Pro} \subseteq DOMAIN Merged(d, Current)
          /\ Merged(d, Current)[Pro].price = s[Pro].price
          /\ Merged(d, Current)[Flash].price = Merged(s, Current)[Flash].price
      <4>. HIDE DEF d
      <4>. QED BY <2>1, <3>2, <3>4, <3>5 DEF Merged
    <3>7. v \in Nat
      <4>1. s[Pro].price >= Merged(s, Current)[Flash].price
        BY <1>2, <3>6 DEF PairFits
      <4>. QED BY <3>3, <4>1 DEF v
    <3>. HIDE DEF d
    <3>8. s[Pro] \in Payloads
      BY <1>1, <2>1
    <3>9. d[Pro] \in Payloads
      BY <3>4, <3>7, <3>8 DEF Payloads
    <3>. QED BY <1>1, <3>4, <3>9
  <2>2. CASE ~(Pro \in DOMAIN s /\ s[Pro].surcharge = None)
    <3>1. d = s
      BY <2>2 DEF Derived
    <3>. HIDE DEF d
    <3>. QED BY <1>1, <3>1
  <2>. QED BY <2>1, <2>2
<1>. DEFINE r == [pc |-> "valid", rows |-> d, seen |-> Current]
<1>4. r.pc = "valid" /\ r.rows = d /\ r.seen = Current
  OBVIOUS
<1>. HIDE DEF r
<1>5. RequestFits(r)
  <2>. HIDE DEF d
  <2>. QED BY <1>1, <1>2, <1>3, <1>4 DEF RequestFits
<1>. QED
  BY <1>5 DEF r

\* Requests depend on the template being known only.
LEMMA RequestsKept ==
  ASSUME NEW a \in Admins, \A b \in Admins : RequestFits(upsert[b]),
         template.known => template'.known,
         \A b \in Admins \ {a} : upsert'[b] = upsert[b],
         upsert'[a] = upsert[a] \/ upsert'[a] = Resting
  PROVE  \A b \in Admins : RequestFits(upsert[b])'
BY DEF RequestFits, Resting

\* An accepted upsert.
LEMMA InsertSound ==
  ASSUME SoundInv, CatalogueInv, NEW a \in Admins, Insert(a)
  PROVE  SoundInv'
<1>. DEFINE r == upsert[a]
<1>1. /\ r.pc = "allocated" /\ UNCHANGED <<template, script>>
      /\ entries' = [t \in Tiers |-> IF t \in DOMAIN r.rows THEN Append(entries[t], StoredRow(a, t)) ELSE entries[t]]
      /\ \A t \in DOMAIN r.rows : r.version[t] = Len(entries[t]) + 1 /\ r.version[t] <= MaxVersion
      /\ accepted' = AcceptedWith(a)
      /\ upsert' = [upsert EXCEPT ![a] = Resting]
  BY DEF Insert, VersionsFree
<1>2. /\ template.known
      /\ DOMAIN r.rows \subseteq Tiers /\ r.rows \in [DOMAIN r.rows -> Payloads]
      /\ \A t \in DOMAIN r.rows : r.version[t] \in Nat \ {0}
  BY <1>1 DEF SoundInv, RequestFits
<1>3. ASSUME NEW t \in DOMAIN r.rows
      PROVE  StoredRow(a, t) \in RowType /\ StoredRow(a, t).version = Len(entries[t]) + 1
             /\ StoredRow(a, t).by # "refresh"
  <2>1. r.rows[t] \in Payloads /\ r.version[t] \in 1 .. MaxVersion
    BY <1>1, <1>2, <1>3, BoundsAssumption
  <2>2. a # "refresh"
    BY WritersAssumption
  <2>. QED BY <1>1, <2>1, <2>2 DEF StoredRow, Row, RowType, Payloads
<1>4. \A t \in Tiers : TierTyped(entries[t])
  BY RowsByTier DEF SoundInv
<1>5. ASSUME NEW t \in DOMAIN r.rows
      PROVE  /\ t \in Tiers /\ TierTyped(entries'[t]) /\ entries'[t] # <<>>
             /\ entries'[t][Len(entries'[t])] = StoredRow(a, t)
  <2>1. t \in Tiers /\ entries'[t] = Append(entries[t], StoredRow(a, t))
    BY <1>1, <1>2, <1>5
  <2>. QED BY <1>3, <1>4, <1>5, <2>1, AppendTyped
<1>6. \A t \in Tiers : t \notin DOMAIN r.rows => entries'[t] = entries[t]
  BY <1>1
<1>7. RowsTyped'
  <2>1. \A t \in Tiers : TierTyped(entries'[t])
    BY <1>4, <1>5, <1>6
  <2>. QED BY <2>1 DEF RowsTyped, TierTyped
<1>8. /\ DOMAIN Current \subseteq DOMAIN Current' /\ DOMAIN Current' \subseteq Tiers
      /\ \A t \in DOMAIN Current' : Current'[t].by = "refresh" =>
           t \in DOMAIN Current /\ Current'[t] = Current[t] /\ entries'[t] = entries[t]
  <2>1. /\ DOMAIN Current' = {t \in Tiers : entries'[t] # <<>>}
        /\ \A t \in DOMAIN Current' : Current'[t] = entries'[t][Len(entries'[t])]
    BY DEF Current
  <2>. QED BY <1>3, <1>5, <1>6, <2>1, CurrentRows
<1>9. RefreshedPriceTheDuration'
  BY <1>1, <1>8 DEF SoundInv, RefreshedPriceTheDuration
<1>10. PlanFits(script)'
  <2>. SUFFICES ASSUME script.pc # "idle" PROVE PlanFits(script)'
    BY <1>1 DEF PlanFits
  <2>1. /\ script.pc = "planned" /\ script.seconds \in Durations /\ script.seed \in BOOLEAN /\ PlanMade(script)
        /\ script.seed => /\ \A t \in DOMAIN Current : Current[t].by # "refresh"
                          /\ template.known => DOMAIN Current = Tiers
        /\ ~script.seed =>
             \A t \in DOMAIN Current : Current[t].by = "refresh" =>
                IF t \in DOMAIN script.version THEN script.version[t] = Len(entries[t]) + 1
                ELSE Current[t].price = Formula(t, script.seconds)
    BY DEF SoundInv, PlanFits
  <2>2. script.seed => /\ \A t \in DOMAIN Current' : Current'[t].by # "refresh"
                       /\ DOMAIN Current' = Tiers
    BY <1>2, <1>8, <2>1
  <2>3. ~script.seed =>
          \A t \in DOMAIN Current' : Current'[t].by = "refresh" =>
             IF t \in DOMAIN script.version THEN script.version[t] = Len(entries'[t]) + 1
             ELSE Current'[t].price = Formula(t, script.seconds)
    BY <1>8, <2>1
  <2>4. script' = script /\ template'.known
    BY <1>1, <1>2
  <2>. QED BY <2>1, <2>2, <2>3, <2>4 DEF PlanFits
<1>11. \A b \in Admins : RequestFits(upsert[b])'
  <2>1. upsert = [b \in Admins |-> upsert[b]]
    BY DEF CatalogueInv
  <2>2. upsert'[a] = Resting /\ \A b \in Admins \ {a} : upsert'[b] = upsert[b]
    BY <1>1, <2>1
  <2>. QED BY <1>1, <2>2, RequestsKept DEF SoundInv
<1>12. \A k \in DOMAIN accepted' : k \in Tiers \X (1 .. MaxVersion)
  <2>1. \A k \in Told(a) : k \in Tiers \X (1 .. MaxVersion)
    BY <1>1, <1>2, BoundsAssumption DEF Told
  <2>2. DOMAIN accepted' = Told(a) \union DOMAIN accepted
    BY <1>1 DEF AcceptedWith
  <2>. QED BY <2>1, <2>2 DEF SoundInv
<1>. QED
  BY <1>1, <1>2, <1>7, <1>9, <1>10, <1>11, <1>12 DEF SoundInv

\* Nothing about the tables and the script changes.
LEMMA RequestSound ==
  ASSUME SoundInv, CatalogueInv, NEW a \in Admins,
         (\E s \in Submissions : Validate(a, s)) \/ Allocate(a) \/ InsertFails(a)
  PROVE  SoundInv'
<1>1. UNCHANGED <<template, entries, script, accepted>>
  BY DEF Validate, Allocate, InsertFails
<1>2. upsert = [b \in Admins |-> upsert[b]]
  BY DEF CatalogueInv
<1>3. ASSUME NEW s \in Submissions, Validate(a, s)
      PROVE  RequestFits(upsert'[a]) /\ \A b \in Admins \ {a} : upsert'[b] = upsert[b]
  <2>1. /\ template.known /\ Valid(s, Current)
        /\ upsert' = [upsert EXCEPT ![a] = [pc |-> "valid", rows |-> Derived(s, Current), seen |-> Current]]
    BY <1>3 DEF Validate
  <2>2. RequestFits([pc |-> "valid", rows |-> Derived(s, Current), seen |-> Current])
    BY <2>1, ValidFits DEF SoundInv
  <2>. QED BY <1>2, <2>1, <2>2
<1>4. ASSUME Allocate(a)
      PROVE  RequestFits(upsert'[a]) /\ \A b \in Admins \ {a} : upsert'[b] = upsert[b]
  <2>. DEFINE r == [pc |-> "allocated", rows |-> upsert[a].rows, seen |-> upsert[a].seen,
                    version |-> [t \in DOMAIN upsert[a].rows |-> Len(entries[t]) + 1]]
  <2>1. upsert[a].pc = "valid" /\ upsert' = [upsert EXCEPT ![a] = r]
    BY <1>4 DEF Allocate
  <2>2. upsert'[a] = r /\ \A b \in Admins \ {a} : upsert'[b] = upsert[b]
    BY <1>2, <2>1
  <2>3. /\ template.known
        /\ DOMAIN upsert[a].rows # {} /\ DOMAIN upsert[a].rows \subseteq Tiers
        /\ upsert[a].rows \in [DOMAIN upsert[a].rows -> Payloads]
        /\ PairFits(Merged(upsert[a].rows, upsert[a].seen))
    BY <2>1 DEF SoundInv, RequestFits
  <2>4. \A t \in DOMAIN upsert[a].rows : Len(entries[t]) + 1 \in Nat \ {0}
    BY <2>3 DEF SoundInv, RowsTyped
  <2>5. /\ r.pc = "allocated" /\ r.rows = upsert[a].rows /\ r.seen = upsert[a].seen
        /\ \A t \in DOMAIN upsert[a].rows : r.version[t] \in Nat \ {0}
    BY <2>4
  <2>. HIDE DEF r
  <2>6. RequestFits(r)
    BY <2>3, <2>5 DEF RequestFits
  <2>. QED BY <2>2, <2>6
<1>5. ASSUME InsertFails(a)
      PROVE  RequestFits(upsert'[a]) /\ \A b \in Admins \ {a} : upsert'[b] = upsert[b]
  <2>1. upsert'[a] = Resting /\ \A b \in Admins \ {a} : upsert'[b] = upsert[b]
    BY <1>2, <1>5 DEF InsertFails
  <2>. QED BY <2>1 DEF RequestFits, Resting
<1>6. \A b \in Admins : RequestFits(upsert'[b])
  <2>1. RequestFits(upsert'[a]) /\ \A b \in Admins \ {a} : upsert'[b] = upsert[b]
    BY <1>3, <1>4, <1>5
  <2>. QED BY <2>1 DEF SoundInv
<1>7. \A b \in Admins : RequestFits(upsert[b])'
  BY <1>1, <1>6 DEF RequestFits
<1>8. Current' = Current
  BY <1>1 DEF Current
<1>9. RowsTyped' /\ PlanFits(script)' /\ RefreshedPriceTheDuration'
  BY <1>1, <1>8 DEF SoundInv, RowsTyped, PlanFits, RefreshedPriceTheDuration
<1>. QED
  BY <1>1, <1>7, <1>9 DEF SoundInv

\* The script plans what it is going to write.
LEMMA PlanSound ==
  ASSUME SoundInv, NEW s \in Durations, Plan(s)
  PROVE  SoundInv'
<1>. DEFINE version == IF template.known
                         THEN [t \in {u \in DOMAIN Current : Outdated(u, s)} |-> Len(entries[t]) + 1]
                         ELSE [t \in Tiers |-> 1]
            p == [pc |-> "planned", seconds |-> s, seed |-> ~template.known, seen |-> Current, version |-> version]
<1>1. UNCHANGED <<template, entries, upsert, accepted>> /\ script' = p
  BY DEF Plan
<1>2. /\ p.pc = "planned" /\ p.seconds = s /\ p.seed = ~template.known /\ p.seen = Current
      /\ p.version = version
  OBVIOUS
<1>3. RowsTyped
  BY DEF SoundInv
<1>4. template.known \in BOOLEAN
  BY DEF SoundInv
<1>5. ASSUME ~template.known PROVE PlanFits(p)
  <2>1. DOMAIN Current = {}
    BY <1>5, CurrentRows DEF SoundInv
  <2>2. version = [t \in Tiers |-> 1] /\ p.seed
    BY <1>2, <1>5
  <2>. HIDE DEF p, version
  <2>. QED BY <1>2, <1>5, <2>1, <2>2 DEF PlanFits, PlanMade
<1>6. ASSUME template.known PROVE PlanFits(p)
  <2>1. /\ DOMAIN version = {u \in DOMAIN Current : Outdated(u, s)}
        /\ version = [t \in DOMAIN version |-> version[t]]
        /\ \A t \in DOMAIN version : version[t] = Len(entries[t]) + 1
    BY <1>6
  <2>. HIDE DEF version
  <2>2. ~p.seed
    BY <1>2, <1>6
  <2>. HIDE DEF p
  <2>3. \A t \in DOMAIN version : t \in Tiers /\ version[t] = p.seen[t].version + 1
    BY <1>2, <1>3, <2>1, CurrentTyped
  <2>4. version = [t \in DOMAIN version |-> p.seen[t].version + 1]
    BY <2>1, <2>3
  <2>5. DOMAIN version =
          {t \in DOMAIN p.seen : p.seen[t].price # Formula(t, p.seconds) \/ p.seen[t].reference # Formula(t, p.seconds)}
    BY <1>2, <2>1 DEF Outdated
  <2>6. PlanMade(p)
    BY <1>2, <2>2, <2>3, <2>4, <2>5 DEF PlanMade
  <2>7. \A t \in DOMAIN Current :
          IF t \in DOMAIN version THEN version[t] = Len(entries[t]) + 1 ELSE Current[t].price = Formula(t, s)
    BY <2>1 DEF Outdated
  <2>8. p.seed \in BOOLEAN
    BY <1>2, <1>4
  <2>. QED BY <1>2, <1>6, <2>2, <2>6, <2>7, <2>8 DEF PlanFits
<1>7. PlanFits(p)
  BY <1>4, <1>5, <1>6
<1>8. Current' = Current
  BY <1>1 DEF Current
<1>. HIDE DEF p, version
<1>9. PlanFits(script)'
  BY <1>1, <1>7, <1>8 DEF PlanFits
<1>10. RowsTyped' /\ RefreshedPriceTheDuration' /\ \A a \in Admins : RequestFits(upsert[a])'
  BY <1>1, <1>8 DEF SoundInv, RowsTyped, RefreshedPriceTheDuration, RequestFits
<1>. QED
  BY <1>1, <1>9, <1>10 DEF SoundInv

\* The rows of a plan are inserted where their version is free.
LEMMA ScriptRowTyped ==
  ASSUME SoundInv, script.pc = "planned", \A t \in DOMAIN script.version : script.version[t] <= MaxVersion,
         NEW t \in Tiers, Inserted(t)
  PROVE  /\ ScriptRow(t, script.seconds) \in RowType
         /\ ScriptRow(t, script.seconds).version = Len(entries[t]) + 1
         /\ ScriptRow(t, script.seconds).price = Formula(t, script.seconds)
         /\ ScriptRow(t, script.seconds).reference = Formula(t, script.seconds)
<1>1. script.version[t] = Len(entries[t]) + 1 /\ script.version[t] <= MaxVersion /\ script.seconds \in Durations
  BY DEF Inserted, SoundInv, PlanFits
<1>2. Len(entries[t]) \in Nat
  BY DEF SoundInv, RowsTyped
<1>3. script.version[t] \in 1 .. MaxVersion
  BY <1>1, <1>2, BoundsAssumption
<1>4. Formula(t, script.seconds) \in Nat
  BY <1>1, FormulaTyped
<1>5. SurchargeOf(t, FormulaPrices(script.seconds)) \in Nat \union {None}
  <2>1. Flash \in Tiers /\ Pro \in Tiers
    BY TiersAssumption
  <2>2. /\ Formula(Flash, script.seconds) \in Nat /\ Formula(Pro, script.seconds) \in Nat
        /\ Formula(Flash, script.seconds) <= Formula(Pro, script.seconds)
    BY <1>1, <2>1, FormulaTyped
  <2>3. /\ FormulaPrices(script.seconds)[Pro] = Formula(Pro, script.seconds)
        /\ FormulaPrices(script.seconds)[Flash] = Formula(Flash, script.seconds)
    BY <2>1 DEF FormulaPrices
  <2>4. Formula(Pro, script.seconds) - Formula(Flash, script.seconds) \in Nat
    BY <2>2
  <2>. QED BY <2>3, <2>4 DEF SurchargeOf
<1>. QED
  BY <1>1, <1>3, <1>4, <1>5 DEF ScriptRow, Row, RowType

\* What the script leaves: rows of its plan where they were free, everything else as it was.
LEMMA Written ==
  ASSUME SoundInv, Apply
  PROVE  /\ script.pc = "planned" /\ \A t \in DOMAIN script.version : script.version[t] <= MaxVersion
         /\ DOMAIN Current' = {t \in Tiers : t \in DOMAIN Current \/ Inserted(t)}
         /\ \A t \in Tiers :
              IF Inserted(t)
                THEN /\ entries'[t] = Append(entries[t], ScriptRow(t, script.seconds))
                     /\ TierTyped(entries'[t]) /\ entries'[t] # <<>>
                     /\ Current'[t] = ScriptRow(t, script.seconds)
                ELSE /\ entries'[t] = entries[t]
                     /\ t \in DOMAIN Current => Current'[t] = Current[t]
<1>1. /\ script.pc = "planned" /\ \A t \in DOMAIN script.version : script.version[t] <= MaxVersion
      /\ entries' = [t \in Tiers |->
            IF Inserted(t) THEN Append(entries[t], ScriptRow(t, script.seconds)) ELSE entries[t]]
  BY DEF Apply
<1>2. \A t \in Tiers : TierTyped(entries[t])
  BY RowsByTier DEF SoundInv
<1>3. ASSUME NEW t \in Tiers, Inserted(t)
      PROVE  /\ entries'[t] = Append(entries[t], ScriptRow(t, script.seconds))
             /\ TierTyped(entries'[t]) /\ entries'[t] # <<>>
             /\ entries'[t][Len(entries'[t])] = ScriptRow(t, script.seconds)
  <2>1. entries'[t] = Append(entries[t], ScriptRow(t, script.seconds))
    BY <1>1, <1>3
  <2>2. ScriptRow(t, script.seconds) \in RowType /\ ScriptRow(t, script.seconds).version = Len(entries[t]) + 1
    BY <1>1, <1>3, ScriptRowTyped
  <2>. QED BY <1>2, <2>1, <2>2, AppendTyped
<1>4. \A t \in Tiers : ~Inserted(t) => entries'[t] = entries[t]
  BY <1>1
<1>5. /\ DOMAIN Current' = {t \in Tiers : entries'[t] # <<>>}
      /\ \A t \in DOMAIN Current' : Current'[t] = entries'[t][Len(entries'[t])]
  BY DEF Current
<1>. QED
  BY <1>1, <1>3, <1>4, <1>5, CurrentRows

\* After the transaction the rows of the script follow the duration it wrote.
LEMMA ApplySound ==
  ASSUME SoundInv, Apply
  PROVE  SoundInv'
<1>. DEFINE s == script.seconds
<1>1. /\ script.pc = "planned" /\ UNCHANGED <<upsert, accepted>> /\ script' = Resting
      /\ template' = IF script.seed /\ template.known THEN template ELSE [known |-> TRUE, seconds |-> s]
  BY DEF Apply
<1>2. /\ s \in Durations /\ script.seed \in BOOLEAN /\ PlanMade(script)
      /\ script.seed => /\ \A t \in DOMAIN Current : Current[t].by # "refresh"
                        /\ template.known => DOMAIN Current = Tiers
      /\ ~script.seed => /\ template.known
                         /\ \A t \in DOMAIN Current :
                              Current[t].by = "refresh" =>
                                IF t \in DOMAIN script.version THEN script.version[t] = Len(entries[t]) + 1
                                ELSE Current[t].price = Formula(t, s)
  BY <1>1 DEF SoundInv, PlanFits
<1>3. /\ template' \in [known : BOOLEAN, seconds : Durations \union {None}] /\ template'.known
      /\ ~(script.seed /\ template.known) => template'.seconds = s
      /\ script.seed /\ template.known => template' = template
  BY <1>1, <1>2 DEF SoundInv
<1>4. /\ DOMAIN Current' = {t \in Tiers : t \in DOMAIN Current \/ Inserted(t)}
      /\ \A t \in Tiers :
           IF Inserted(t)
             THEN /\ TierTyped(entries'[t])
                  /\ Current'[t] = ScriptRow(t, s)
             ELSE /\ entries'[t] = entries[t]
                  /\ t \in DOMAIN Current => Current'[t] = Current[t]
  BY Written
<1>5. RowsTyped'
  <2>1. \A t \in Tiers : TierTyped(entries[t])
    BY RowsByTier DEF SoundInv
  <2>2. \A t \in Tiers : TierTyped(entries'[t])
    BY <1>4, <2>1
  <2>. QED BY <2>2 DEF RowsTyped, TierTyped
<1>6. ASSUME NEW t \in DOMAIN Current', Current'[t].by = "refresh"
      PROVE  template'.seconds # None /\ Current'[t].price = Formula(t, template'.seconds)
  <2>1. s # None
    BY <1>2, BoundsAssumption
  <2>2. CASE Inserted(t)
    <3>1. t \in Tiers /\ Current'[t].price = Formula(t, s)
      BY <1>4, <2>2 DEF ScriptRow, Row
    <3>2. ~(script.seed /\ template.known)
      <4>. SUFFICES ASSUME script.seed, template.known PROVE FALSE
        OBVIOUS
      <4>1. script.version = [u \in Tiers |-> 1] /\ DOMAIN Current = Tiers
        BY <1>2 DEF PlanMade
      <4>2. Len(entries[t]) \in 1 .. MaxVersion
        BY <3>1, <4>1, CurrentTyped DEF SoundInv
      <4>3. 1 = Len(entries[t]) + 1
        BY <2>2, <3>1, <4>1 DEF Inserted
      <4>. QED BY <4>2, <4>3
    <3>. QED BY <1>3, <2>1, <3>1, <3>2
  <2>3. CASE ~Inserted(t)
    <3>1. t \in Tiers /\ t \in DOMAIN Current /\ Current[t] = Current'[t]
      BY <1>4, <2>3
    <3>2. ~script.seed
      BY <1>2, <1>6, <3>1
    <3>3. t \notin DOMAIN script.version /\ Current[t].price = Formula(t, s)
      BY <1>2, <1>6, <2>3, <3>1, <3>2 DEF Inserted
    <3>. QED BY <1>3, <2>1, <3>1, <3>2, <3>3
  <2>. QED BY <2>2, <2>3
<1>7. RefreshedPriceTheDuration'
  BY <1>6 DEF RefreshedPriceTheDuration
<1>8. \A a \in Admins : RequestFits(upsert[a])'
  BY <1>1, <1>3 DEF SoundInv, RequestFits
<1>9. PlanFits(script)'
  BY <1>1 DEF PlanFits, Resting
<1>. QED
  BY <1>1, <1>3, <1>5, <1>7, <1>8, <1>9 DEF SoundInv

\* The seed of the v1 prices writes no row of the refresh script.
LEMMA SeedSound ==
  ASSUME SoundInv, SeedLegacy
  PROVE  SoundInv'
<1>. DEFINE r(t) == Row(LegacyPrices[t], SurchargeOf(t, LegacyPrices), LegacyPrices[t], 1, "seed")
<1>1. /\ LegacyPrices[Pro] >= LegacyPrices[Flash]
      /\ template' = IF template.known THEN template ELSE [known |-> TRUE, seconds |-> None]
      /\ entries' = [t \in Tiers |-> IF entries[t] = <<>> THEN <<r(t)>> ELSE entries[t]]
      /\ UNCHANGED <<upsert, script, accepted>>
  BY DEF SeedLegacy
<1>2. ASSUME NEW t \in Tiers
      PROVE  r(t) \in RowType /\ r(t).version = 1 /\ r(t).by = "seed"
  <2>1. LegacyPrices[t] \in Nat /\ LegacyPrices[Flash] \in Nat /\ LegacyPrices[Pro] \in Nat
    BY PricesAssumption, TiersAssumption
  <2>2. LegacyPrices[Pro] - LegacyPrices[Flash] \in Nat
    BY <1>1, <2>1
  <2>3. SurchargeOf(t, LegacyPrices) \in Nat \union {None}
    BY <2>2 DEF SurchargeOf
  <2>4. 1 \in 1 .. MaxVersion
    BY BoundsAssumption
  <2>. QED BY <2>1, <2>3, <2>4 DEF Row, RowType
<1>. HIDE DEF r
<1>3. \A t \in Tiers : TierTyped(entries[t])
  BY RowsByTier DEF SoundInv
<1>4. \A t \in Tiers :
        IF entries[t] = <<>>
          THEN entries'[t] = <<r(t)>> /\ TierTyped(entries'[t]) /\ entries'[t] # <<>>
               /\ entries'[t][Len(entries'[t])] = r(t)
          ELSE entries'[t] = entries[t]
  BY <1>1, <1>2, FirstTyped
<1>5. RowsTyped'
  <2>1. \A t \in Tiers : TierTyped(entries'[t])
    BY <1>3, <1>4
  <2>. QED BY <2>1 DEF RowsTyped, TierTyped
<1>6. /\ DOMAIN Current' = Tiers
      /\ \A t \in Tiers : IF t \in DOMAIN Current THEN Current'[t] = Current[t] /\ entries'[t] = entries[t]
                          ELSE Current'[t].by = "seed"
  <2>1. /\ DOMAIN Current' = {t \in Tiers : entries'[t] # <<>>}
        /\ \A t \in DOMAIN Current' : Current'[t] = entries'[t][Len(entries'[t])]
    BY DEF Current
  <2>. QED BY <1>2, <1>4, <2>1, CurrentRows
<1>7. /\ template' \in [known : BOOLEAN, seconds : Durations \union {None}] /\ template'.known
      /\ template.known => template' = template
      /\ ~template.known => DOMAIN Current = {}
  BY <1>1, CurrentRows DEF SoundInv
<1>8. RefreshedPriceTheDuration'
  <2>. SUFFICES ASSUME NEW t \in DOMAIN Current', Current'[t].by = "refresh"
                PROVE  template'.seconds # None /\ Current'[t].price = Formula(t, template'.seconds)
    BY DEF RefreshedPriceTheDuration
  <2>1. t \in DOMAIN Current /\ Current'[t] = Current[t]
    BY <1>6
  <2>2. template' = template
    BY <1>7, <2>1
  <2>. QED BY <2>1, <2>2 DEF SoundInv, RefreshedPriceTheDuration
<1>9. PlanFits(script)'
  <2>. SUFFICES ASSUME script.pc # "idle" PROVE PlanFits(script)'
    BY <1>1 DEF PlanFits
  <2>1. /\ script.pc = "planned" /\ script.seconds \in Durations /\ script.seed \in BOOLEAN /\ PlanMade(script)
        /\ script.seed => \A t \in DOMAIN Current : Current[t].by # "refresh"
        /\ ~script.seed =>
             \A t \in DOMAIN Current : Current[t].by = "refresh" =>
                IF t \in DOMAIN script.version THEN script.version[t] = Len(entries[t]) + 1
                ELSE Current[t].price = Formula(t, script.seconds)
    BY DEF SoundInv, PlanFits
  <2>2. script.seed => \A t \in DOMAIN Current' : Current'[t].by # "refresh"
    BY <1>6, <2>1
  <2>3. ~script.seed =>
          \A t \in DOMAIN Current' : Current'[t].by = "refresh" =>
             IF t \in DOMAIN script.version THEN script.version[t] = Len(entries'[t]) + 1
             ELSE Current'[t].price = Formula(t, script.seconds)
    BY <1>6, <2>1
  <2>4. script' = script /\ template'.known
    BY <1>1, <1>7
  <2>. QED BY <1>6, <2>1, <2>2, <2>3, <2>4 DEF PlanFits
<1>10. \A a \in Admins : RequestFits(upsert[a])'
  BY <1>1, <1>7 DEF SoundInv, RequestFits
<1>. QED
  BY <1>1, <1>5, <1>7, <1>8, <1>9, <1>10 DEF SoundInv

\* Nothing is stored or planned at the start.
LEMMA SoundInit == Init => SoundInv
<1>. SUFFICES ASSUME Init PROVE SoundInv
  OBVIOUS
<1>1. /\ \A t \in Tiers : entries[t] = <<>>
      /\ \A a \in Admins : upsert[a].pc = "idle"
      /\ script.pc = "idle" /\ DOMAIN accepted = {}
      /\ template \in [known : BOOLEAN, seconds : Durations \union {None}]
  <2>1. /\ entries = [t \in Tiers |-> <<>>] /\ upsert = [a \in Admins |-> Resting]
        /\ script = Resting /\ accepted = <<>>
    BY DEF Init
  <2>2. Resting.pc = "idle"
    BY DEF Resting
  <2>3. DOMAIN accepted = {}
    BY <2>1
  <2>4. template \in [known : BOOLEAN, seconds : Durations \union {None}]
    <3>1. \/ template \in [known : {FALSE}, seconds : {None}]
          \/ template \in [known : {TRUE}, seconds : {None} \union Durations]
      BY DEF Init
    <3>. QED BY <3>1
  <2>. QED BY <2>1, <2>2, <2>3, <2>4
<1>2. <<>> \in Seq(RowType) /\ Len(<<>>) = 0 /\ DOMAIN <<>> = {}
  OBVIOUS
<1>3. RowsTyped
  <2>1. 0 <= MaxVersion
    BY BoundsAssumption
  <2>. QED BY <1>1, <1>2, <2>1 DEF RowsTyped
<1>4. DOMAIN Current = {}
  BY <1>1, CurrentRows
<1>. QED
  BY <1>1, <1>3, <1>4 DEF SoundInv, RequestFits, PlanFits, RefreshedPriceTheDuration

\* Every step keeps the invariant.
LEMMA SoundNext == SoundInv /\ CatalogueInv /\ [Next]_vars => SoundInv'
<1>. SUFFICES ASSUME SoundInv, CatalogueInv, [Next]_vars PROVE SoundInv'
  OBVIOUS
<1>1. ASSUME NEW a \in Admins,
             (\E s \in Submissions : Validate(a, s)) \/ Allocate(a) \/ InsertFails(a)
      PROVE  SoundInv'
  BY <1>1, RequestSound
<1>2. ASSUME NEW a \in Admins, Insert(a) PROVE SoundInv'
  BY <1>2, InsertSound
<1>3. ASSUME NEW s \in Durations, Plan(s) PROVE SoundInv'
  BY <1>3, PlanSound
<1>4. CASE Apply
  BY <1>4, ApplySound
<1>5. CASE SeedLegacy
  BY <1>5, SeedSound
<1>6. CASE GiveUp \/ UNCHANGED vars
  <2>1. UNCHANGED <<template, entries, upsert, accepted>> /\ (script' = script \/ script' = Resting)
    BY <1>6 DEF GiveUp, vars
  <2>2. Current' = Current
    BY <2>1 DEF Current
  <2>3. PlanFits(script)'
    BY <2>1, <2>2 DEF SoundInv, PlanFits, Resting
  <2>4. RowsTyped' /\ RefreshedPriceTheDuration' /\ \A a \in Admins : RequestFits(upsert[a])'
    BY <2>1, <2>2 DEF SoundInv, RowsTyped, RefreshedPriceTheDuration, RequestFits
  <2>. QED BY <2>1, <2>3, <2>4 DEF SoundInv
<1>. QED
  BY <1>1, <1>2, <1>3, <1>4, <1>5, <1>6 DEF Next

\* Both invariants, and what they say of the rows.
LEMMA SoundMeans == SoundInv /\ CatalogueInv => RowsAreSound
<1>. SUFFICES ASSUME SoundInv, CatalogueInv PROVE RowsAreSound
  OBVIOUS
<1>1. \A t \in Tiers : Len(entries[t]) <= MaxVersion
        /\ \A v \in DOMAIN entries[t] : entries[t][v] \in RowType /\ entries[t][v].version = v
  BY DEF SoundInv, RowsTyped
<1>2. \A a \in Admins : upsert[a].pc \in {"idle", "valid", "allocated"}
  BY DEF SoundInv, RequestFits
<1>3. script.pc \in {"idle", "planned"}
  BY DEF SoundInv, PlanFits
<1>4. ASSUME NEW k \in DOMAIN accepted
      PROVE  k \in Tiers \X (1 .. MaxVersion) /\ accepted[k] \in RowType
  <2>1. k \in Tiers \X (1 .. MaxVersion) /\ k[1] \in Tiers
    BY DEF SoundInv
  <2>2. k[2] \in DOMAIN entries[k[1]] /\ accepted[k] = entries[k[1]][k[2]]
    BY DEF CatalogueInv, AcceptedStays
  <2>. QED BY <1>1, <2>1, <2>2
<1>. QED
  BY <1>1, <1>2, <1>3, <1>4 DEF RowsAreSound, TypeOK, SoundInv

\* The catalogue is what the columns' checks allow, although only the scripts rely on
\* them: prices and surcharges are never negative, versions have no gap, and a tier the
\* refresh script priced last costs what the template's duration costs, whoever else
\* writes between its plan and its transaction (upsert_tiers, plan_refresh, apply_to_db).
THEOREM CatalogueIsSound == Spec => []RowsAreSound
<1>1. Init => SoundInv /\ CatalogueInv
  BY SoundInit, CatalogueInitInv
<1>2. SoundInv /\ CatalogueInv /\ [Next]_vars => SoundInv' /\ CatalogueInv'
  BY SoundNext, CatalogueNextInv
<1>. QED
  BY <1>1, <1>2, SoundMeans, PTL DEF Spec

\* Both invariants hold always.
LEMMA SoundAlways == Spec => [](SoundInv /\ CatalogueInv)
<1>1. Init => SoundInv /\ CatalogueInv
  BY SoundInit, CatalogueInitInv
<1>2. SoundInv /\ CatalogueInv /\ [Next]_vars => (SoundInv /\ CatalogueInv)'
  BY SoundNext, CatalogueNextInv
<1>. QED
  BY <1>1, <1>2, PTL DEF Spec

\* A quote's breakdown adds up to its charge in whole points none of which is negative, for
\* every duration and any number of subtitle lines, on both sides of the third minute and
\* whatever the decimals round: rows are rounded down and the charge up, so what the last
\* row absorbs is never negative (_quantize_breakdown_subtotals_to_int).
THEOREM QuotesAddUp == Spec => []BreakdownAddsUp
<1>1. SoundInv => BreakdownAddsUp
  <2>. SUFFICES ASSUME SoundInv, NEW q \in Quotes
                PROVE  SumOf(q.breakdown) = q.charge /\ \A k \in DOMAIN q.breakdown : q.breakdown[k] >= 0
    BY DEF BreakdownAddsUp
  <2>1. ASSUME NEW recipe \in Seq(Rates), Len(recipe) # 0, NEW n \in Nat, q = QuoteOf(recipe, n)
        PROVE  SumOf(q.breakdown) = q.charge /\ \A k \in DOMAIN q.breakdown : q.breakdown[k] >= 0
    <3>1. q.breakdown = Breakdown(recipe, n) /\ q.charge = Total(recipe, n)
      BY <2>1 DEF QuoteOf
    <3>. QED BY <2>1, <3>1, BreakdownFits
  <2>2. CASE q \in CustomQuotes
    <3>1. PICK recipe \in CustomRecipes, lines \in Lines : q = QuoteOf(recipe, OfLines(lines))
      BY <2>2 DEF CustomQuotes
    <3>2. OfLines(lines) \in Nat
      BY BoundsAssumption DEF OfLines
    <3>3. recipe \in Seq(Rates) /\ Len(recipe) # 0
      BY RecipesTyped
    <3>. QED BY <2>1, <3>1, <3>2, <3>3
  <2>3. CASE q \notin CustomQuotes
    <3>1. /\ template.seconds # None
          /\ q \in {TierQuotes[t][template.seconds] : t \in DOMAIN Effective(Current)}
      BY <2>3 DEF Quotes
    <3>2. PICK t \in DOMAIN Effective(Current) : q = TierQuotes[t][template.seconds]
      BY <3>1
    <3>3. t \in Tiers
      <4>1. t \in DOMAIN Current \union DOMAIN Family
        BY DEF Effective
      <4>. QED BY <4>1, CurrentRows, PricesAssumption
    <3>4. template.seconds \in Durations
      BY <3>1 DEF SoundInv
    <3>5. q = QuoteOf(Recipes[t], OfSeconds(template.seconds))
      BY <3>2, <3>3, <3>4 DEF TierQuotes
    <3>6. OfSeconds(template.seconds) \in Nat
      BY <3>4, BoundsAssumption DEF OfSeconds
    <3>7. Recipes[t] \in Seq(Rates) /\ Len(Recipes[t]) # 0
      <4>1. Recipes[t] \in Seq(Rates) /\ Len(Recipes[t]) = 3
        BY <3>3, RecipesTyped
      <4>. QED BY <4>1
    <3>. QED BY <2>1, <3>5, <3>6, <3>7
  <2>. QED BY <2>2, <2>3
<1>. QED
  BY <1>1, SoundAlways, PTL

\* An accepted upsert leaves Flash, Pro and the surcharge in agreement unless somebody wrote
\* between its two reads: what is checked is what is submitted, completed by what was
\* current, and nothing else is inserted (_derive_pro_surcharge_in_place,
\* merge_for_invariant_check, validate_invariants).
THEOREM AcceptedPairFits == Spec => CheckedPairFits
<1>. DEFINE Checked == \A a \in Admins :
              /\ upsert[a].pc = "allocated" /\ upsert'[a].pc = "idle" /\ entries' # entries
              /\ upsert[a].seen = Current
              => PairFits(Current')
<1>1. SoundInv /\ CatalogueInv /\ [Next]_vars => Checked
  <2>. SUFFICES ASSUME SoundInv, CatalogueInv, [Next]_vars, NEW a \in Admins,
                       upsert[a].pc = "allocated", upsert'[a].pc = "idle", entries' # entries,
                       upsert[a].seen = Current
                PROVE  PairFits(Current')
    OBVIOUS
  <2>1. upsert = [b \in Admins |-> upsert[b]]
    BY DEF CatalogueInv
  <2>2. Insert(a)
    <3>1. \A b \in Admins : b # a => ~Insert(b)
      BY <2>1 DEF Insert
    <3>2. ~(Apply \/ SeedLegacy \/ GiveUp \/ UNCHANGED vars) /\ ~\E s \in Durations : Plan(s)
      BY DEF Apply, SeedLegacy, GiveUp, Plan, vars
    <3>3. \A b \in Admins : ~(Allocate(b) \/ InsertFails(b)) /\ ~\E s \in Submissions : Validate(b, s)
      BY DEF Allocate, InsertFails, Validate
    <3>. QED BY <3>1, <3>2, <3>3 DEF Next
  <2>. DEFINE rows == upsert[a].rows
  <2>3. /\ DOMAIN rows \subseteq Tiers /\ PairFits(Merged(rows, Current))
        /\ entries' = [t \in Tiers |-> IF t \in DOMAIN rows THEN Append(entries[t], StoredRow(a, t)) ELSE entries[t]]
    BY <2>2 DEF SoundInv, RequestFits, Insert
  <2>4. ASSUME NEW t \in DOMAIN rows
        PROVE  t \in DOMAIN Current' /\ Current'[t] = StoredRow(a, t)
    <3>1. t \in Tiers /\ entries'[t] = Append(entries[t], StoredRow(a, t))
      BY <2>3, <2>4
    <3>2. IsHistory(entries[t])
      BY <3>1 DEF CatalogueInv, HistoriesOK
    <3>3. /\ Len(entries[t]) + 1 \in DOMAIN entries'[t]
          /\ entries'[t][Len(entries[t]) + 1] = StoredRow(a, t)
      BY <3>1, <3>2, AppendContinues
    <3>4. Len(entries'[t]) = Len(entries[t]) + 1 /\ entries'[t] # <<>>
      <4>1. PICK S : entries[t] \in Seq(S)
        BY <3>2 DEF IsHistory
      <4>. QED BY <3>1, <3>3, <4>1
    <3>. QED BY <3>1, <3>3, <3>4 DEF Current
  <2>5. /\ DOMAIN Current' = DOMAIN rows \union DOMAIN Current
        /\ \A t \in DOMAIN Current : t \notin DOMAIN rows => Current'[t] = Current[t]
    <3>1. \A t \in Tiers : t \notin DOMAIN rows => entries'[t] = entries[t]
      BY <2>3
    <3>. QED BY <2>3, <2>4, <3>1 DEF Current
  <2>6. \A t \in DOMAIN Current' :
          /\ t \in DOMAIN Merged(rows, Current)
          /\ Current'[t].price = Merged(rows, Current)[t].price
          /\ Current'[t].surcharge = Merged(rows, Current)[t].surcharge
    <3>. SUFFICES ASSUME NEW t \in DOMAIN Current'
                  PROVE  /\ t \in DOMAIN Merged(rows, Current)
                         /\ Current'[t].price = Merged(rows, Current)[t].price
                         /\ Current'[t].surcharge = Merged(rows, Current)[t].surcharge
      OBVIOUS
    <3>1. t \in DOMAIN rows \union DOMAIN Current
      BY <2>5
    <3>2. /\ t \in DOMAIN Merged(rows, Current)
          /\ Merged(rows, Current)[t] = IF t \in DOMAIN rows THEN rows[t] ELSE Current[t]
      BY <3>1 DEF Merged
    <3>3. CASE t \in DOMAIN rows
      <4>1. StoredRow(a, t).price = rows[t].price /\ StoredRow(a, t).surcharge = rows[t].surcharge
        BY DEF StoredRow, Row
      <4>. QED BY <2>4, <3>2, <3>3, <4>1
    <3>4. CASE t \notin DOMAIN rows
      BY <2>5, <3>1, <3>2, <3>4
    <3>. QED BY <3>3, <3>4
  <2>. HIDE DEF rows
  <2>. QED BY <2>3, <2>6 DEF PairFits
<1>2. CheckedPairFits <=> [][Checked]_vars
  BY DEF CheckedPairFits
<1>. QED
  BY <1>1, SoundAlways, PTL DEF Spec, CheckedPairFits

\* After a refresh that nobody overtook every tier costs what the formula says, in both
\* columns, the tiers the plan left out included: a second run has nothing to do
\* (plan_refresh, plan_seeds, apply_to_db).
THEOREM NothingLeftToRefresh == Spec => RefreshSettles
<1>. DEFINE Settled ==
       /\ script.pc = "planned" /\ script'.pc = "idle"
       /\ <<template, entries>>' # <<template, entries>>
       /\ script.seen = Current
       => \A t \in DOMAIN Current' :
            Current'[t].price = Formula(t, script.seconds) /\ Current'[t].reference = Current'[t].price
<1>1. SoundInv /\ [Next]_vars => Settled
  <2>. SUFFICES ASSUME SoundInv, [Next]_vars, script.pc = "planned", script'.pc = "idle",
                       <<template, entries>>' # <<template, entries>>, script.seen = Current,
                       NEW t \in DOMAIN Current'
                PROVE  Current'[t].price = Formula(t, script.seconds) /\ Current'[t].reference = Current'[t].price
    OBVIOUS
  <2>1. Apply
    <3>1. \A b \in Admins : ~(Allocate(b) \/ InsertFails(b) \/ Insert(b)) /\ ~\E s \in Submissions : Validate(b, s)
      BY DEF Allocate, InsertFails, Validate, Insert
    <3>2. ~(SeedLegacy \/ GiveUp \/ UNCHANGED vars) /\ ~\E s \in Durations : Plan(s)
      BY DEF SeedLegacy, GiveUp, Plan, vars
    <3>. QED BY <3>1, <3>2 DEF Next
  <2>2. /\ \A u \in DOMAIN script.version : script.version[u] <= MaxVersion
        /\ t \in Tiers /\ (t \in DOMAIN Current \/ Inserted(t))
        /\ IF Inserted(t) THEN Current'[t] = ScriptRow(t, script.seconds)
           ELSE t \in DOMAIN Current /\ Current'[t] = Current[t]
    BY <2>1, Written
  <2>3. CASE Inserted(t)
    BY <2>2, <2>3, ScriptRowTyped
  <2>4. CASE ~Inserted(t)
    <3>1. t \in DOMAIN Current /\ Current'[t] = Current[t]
      BY <2>2, <2>4
    <3>2. PlanMade(script) /\ ~script.seed
      <4>1. PlanMade(script)
        BY DEF SoundInv, PlanFits
      <4>. QED BY <3>1, <4>1 DEF PlanMade
    <3>3. t \notin DOMAIN script.version
      <4>. SUFFICES ASSUME t \in DOMAIN script.version PROVE FALSE
        OBVIOUS
      <4>1. script.version[t] = Current[t].version + 1
        BY <3>2 DEF PlanMade
      <4>2. Current[t].version = Len(entries[t])
        BY <3>1, CurrentTyped DEF SoundInv
      <4>. QED BY <2>4, <4>1, <4>2 DEF Inserted
    <3>. QED BY <3>1, <3>2, <3>3 DEF PlanMade
  <2>. QED BY <2>3, <2>4
<1>. QED
  BY <1>1, SoundAlways, PTL DEF Spec, RefreshSettles

=============================================================================
