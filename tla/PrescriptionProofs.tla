------------------------- MODULE PrescriptionProofs -------------------------
(* For any lens, of any number of surfaces, configurations, terms and odd   *)
(* terms: it can be written and is read back as the same lens, and varying  *)
(* and solving it leaves a lens and changes in it only what is varied.  The *)
(* pipeline and the tools, which write lenses and read them back, rest on   *)
(* this.                                                                    *)
EXTENDS OptimizationBuilder, FiniteSetTheorems, SequenceTheorems, WellFoundedInduction, TLAPS

-----------------------------------------------------------------------------
(* Lists and ascending sets *)

LEMMA RankRises ==
  ASSUME NEW S \in SUBSET Int, IsFiniteSet(S), NEW x \in S
  PROVE  /\ Cardinality(Below(S, x)) \in 0..(Cardinality(S) - 1)
         /\ \A y \in S : x < y => Cardinality(Below(S, x)) < Cardinality(Below(S, y))
<1>0. \A z \in S : z \in Int
  OBVIOUS
<1>1. \A y \in S : Below(S, y) \in SUBSET S /\ y \notin Below(S, y)
  BY DEF Below
<1>2. \A y \in S : IsFiniteSet(Below(S, y))
  BY <1>1, FS_Subset
<1>3. Cardinality(S) \in Nat /\ \A y \in S : Cardinality(Below(S, y)) \in Nat
  BY <1>2, FS_CardinalityType
<1>4. Cardinality(Below(S, x)) <= Cardinality(S) /\ Cardinality(Below(S, x)) # Cardinality(S)
  BY <1>1, FS_Subset
<1>5. ASSUME NEW y \in S, x < y
      PROVE  Cardinality(Below(S, x)) < Cardinality(Below(S, y))
  <2>1. Below(S, x) \subseteq Below(S, y)
    <3>1. ASSUME NEW z \in S, z < x PROVE z < y
      BY <1>0, <1>5, <3>1
    <3> QED
      BY <3>1 DEF Below
  <2>2. x \in Below(S, y) /\ x \notin Below(S, x)
    BY <1>0, <1>5 DEF Below
  <2>3. /\ Cardinality(Below(S, x)) <= Cardinality(Below(S, y))
        /\ Cardinality(Below(S, x)) # Cardinality(Below(S, y))
    BY <1>2, <2>1, <2>2, FS_Subset
  <2> QED
    BY <1>3, <2>3
<1> QED
  BY <1>3, <1>4, <1>5

\* Increasing lists a finite set of integers, each once, from the least up.
LEMMA IncreasingLists ==
  ASSUME NEW S \in SUBSET Int, IsFiniteSet(S)
  PROVE  /\ Increasing(S) \in Seq(S) /\ Len(Increasing(S)) = Cardinality(S)
         /\ DOMAIN Increasing(S) = 1..Cardinality(S)
         /\ Cardinality(S) \in Nat
         /\ \A x \in S : \E i \in DOMAIN Increasing(S) :
              Increasing(S)[i] = x /\ Cardinality(Below(S, x)) = i - 1
         /\ \A i, j \in DOMAIN Increasing(S) : i < j => Increasing(S)[i] < Increasing(S)[j]
<1> DEFINE n == Cardinality(S)
           rank == [x \in S |-> Cardinality(Below(S, x))]
<1>1. n \in Nat
  BY FS_CardinalityType
<1>2. \A x \in S : rank[x] \in 0..(n - 1)
  BY RankRises
<1>3. \A x, y \in S : x < y => rank[x] < rank[y]
  BY RankRises
<1>4. rank \in Injection(S, 0..(n - 1))
  <2> HIDE DEF n
  <2>1. rank \in [S -> 0..(n - 1)]
    BY <1>2
  <2>2. ASSUME NEW x \in S, NEW y \in S, rank[x] = rank[y] PROVE x = y
    <3>1. x < y \/ y < x \/ x = y
      OBVIOUS
    <3>2. rank[x] \in Int
      BY <1>1, <1>2
    <3> HIDE DEF rank
    <3> QED
      BY <1>3, <2>2, <3>1, <3>2
  <2> HIDE DEF rank
  <2> QED
    BY <2>1, <2>2 DEF Injection, IsInjective
<1>5. IsFiniteSet(0..(n - 1)) /\ Cardinality(0..(n - 1)) = n
  BY <1>1, FS_Interval
<1>6. rank \in Surjection(S, 0..(n - 1))
  <2> HIDE DEF rank
  <2> QED
    BY <1>4, <1>5, FS_Injection
<1>7. \A k \in 0..(n - 1) : \E x \in S : rank[x] = k
  <2> HIDE DEF rank, n
  <2> QED
    BY <1>6 DEF Surjection
<1> DEFINE list == Increasing(S)
<1>8. list = [i \in 1..n |-> CHOOSE x \in S : Cardinality(Below(S, x)) = i - 1]
  BY DEF Increasing
<1>9. ASSUME NEW i \in 1..n
      PROVE  list[i] \in S /\ rank[list[i]] = i - 1
  <2>1. list[i] = CHOOSE x \in S : Cardinality(Below(S, x)) = i - 1
    BY <1>8
  <2>2. i - 1 \in 0..(n - 1)
    BY <1>1
  <2>3. \E x \in S : Cardinality(Below(S, x)) = i - 1
    BY <1>7, <2>2
  <2> HIDE DEF list
  <2>4. list[i] \in S /\ Cardinality(Below(S, list[i])) = i - 1
    BY <2>1, <2>3
  <2> QED
    BY <2>4
<1>10. list \in Seq(S) /\ Len(list) = n /\ DOMAIN list = 1..n
  <2> HIDE DEF list, rank, n
  <2>1. list \in [1..n -> S]
    BY <1>8, <1>9
  <2> QED
    BY <1>1, <2>1
<1>11. ASSUME NEW x \in S
       PROVE  \E i \in 1..n : list[i] = x /\ rank[x] = i - 1
  <2>1. rank[x] \in 0..(n - 1)
    BY <1>2
  <2>2. rank[x] + 1 \in 1..n /\ (rank[x] + 1) - 1 = rank[x]
    BY <1>1, <2>1
  <2>3. list[rank[x] + 1] \in S /\ rank[list[rank[x] + 1]] = rank[x]
    BY <1>9, <2>2
  <2> HIDE DEF list, rank, n
  <2>4. list[rank[x] + 1] = x
    BY <1>4, <2>3 DEF Injection, IsInjective
  <2> QED
    BY <2>2, <2>4
<1>12. ASSUME NEW i \in 1..n, NEW j \in 1..n, i < j
       PROVE  list[i] < list[j]
  <2>1. /\ list[i] \in S /\ rank[list[i]] = i - 1 /\ list[i] \in Int
        /\ list[j] \in S /\ rank[list[j]] = j - 1 /\ list[j] \in Int
    BY <1>9
  <2> HIDE DEF list, rank, n
  <2>2. ~(list[j] < list[i]) /\ list[i] # list[j]
    BY <1>1, <1>3, <1>12, <2>1
  <2> QED
    BY <2>1, <2>2
<1>13. \A x \in S : rank[x] = Cardinality(Below(S, x))
  OBVIOUS
<1> HIDE DEF list, rank, n
<1>14. /\ list \in Seq(S) /\ Len(list) = n /\ DOMAIN list = 1..n /\ n \in Nat
       /\ \A x \in S : \E i \in DOMAIN list : list[i] = x /\ Cardinality(Below(S, x)) = i - 1
       /\ \A i, j \in DOMAIN list : i < j => list[i] < list[j]
  BY <1>1, <1>10, <1>11, <1>12, <1>13
<1> QED
  BY <1>14 DEF list, n

LEMMA GreatestExists ==
  ASSUME NEW S \in SUBSET Int, IsFiniteSet(S), S # {}
  PROVE  \E x \in S : \A y \in S : y <= x
<1> DEFINE list == Increasing(S)
<1>0. /\ list \in Seq(S) /\ Len(list) = Cardinality(S) /\ Len(list) # 0
  BY IncreasingLists, FS_EmptySet
<1>1. /\ list \in Seq(S) /\ Len(list) \in Nat /\ DOMAIN list = 1..Len(list)
      /\ \A x \in S : \E i \in DOMAIN list : list[i] = x
      /\ \A i, j \in DOMAIN list : i < j => list[i] < list[j]
  BY IncreasingLists
<1> HIDE DEF list
<1>2. Len(list) \in DOMAIN list
  BY <1>0, <1>1
<1>3. \A i \in DOMAIN list : list[i] \in S /\ list[i] \in Int
  <2>1. \A i \in 1..Len(list) : list[i] \in S
    BY <1>0, ElementOfSeq
  <2> QED
    BY <1>1, <2>1
<1>4. ASSUME NEW y \in S PROVE y <= list[Len(list)]
  <2>1. PICK i \in DOMAIN list : list[i] = y
    BY <1>1
  <2>2. i < Len(list) \/ i = Len(list)
    BY <1>1, <2>1
  <2> QED
    BY <1>1, <1>2, <1>3, <2>1, <2>2
<1> QED
  BY <1>2, <1>3, <1>4

LEMMA ListIs ==
  ASSUME NEW s, IsList(s)
  PROVE  /\ Len(s) \in Nat /\ DOMAIN s = 1..Len(s)
         /\ s = [i \in 1..Len(s) |-> s[i]]
         /\ (s = <<>> <=> Len(s) = 0)
BY DEF IsList

LEMMA ListMade ==
  ASSUME NEW n \in Nat, NEW s, s = [i \in 1..n |-> s[i]]
  PROVE  IsList(s) /\ Len(s) = n /\ DOMAIN s = 1..n
<1>1. DOMAIN s = 1..n
  BY Zenon
<1>2. \A i \in 1..n : s[i] \in Range(s)
  BY <1>1 DEF Range
<1>3. s \in [1..n -> Range(s)]
  BY <1>1, <1>2
<1>4. s \in Seq(Range(s)) /\ Len(s) = n
  BY <1>3
<1> QED
  BY <1>1, <1>4 DEF IsList

LEMMA LeastElement ==
  ASSUME NEW T, T \subseteq Nat, T # {}
  PROVE  \E x \in T : \A y \in T : x <= y
<1> DEFINE Less == {p \in Nat \X Nat : p[1] < p[2]}
<1>1. IsWellFoundedOn(Less, Nat)
  <2>1. OpToRel(<, Nat) = Less
    BY DEF OpToRel
  <2> QED
    BY <2>1, NatLessThanWellFounded
<1>2. PICK x \in T : \A y \in T : ~(<<y, x>> \in Less)
  <2> HIDE DEF Less
  <2> QED
    BY <1>1, WFMin
<1>3. \A y \in T : ~(y < x)
  BY <1>2
<1> QED
  BY <1>3

LEMMA ListInduction ==
  ASSUME NEW n \in Nat \ {0}, NEW T, 1 \in T,
         \A i \in 1 .. n - 1 : i \in T => i + 1 \in T
  PROVE  1 .. n \subseteq T
<1> DEFINE U == {i \in 1 .. n : i \notin T}
<1> SUFFICES ASSUME U # {} PROVE FALSE
  OBVIOUS
<1>1. PICK x \in U : \A y \in U : x <= y
  <2>1. U \subseteq Nat
    OBVIOUS
  <2> HIDE DEF U
  <2> QED
    BY <2>1, LeastElement
<1>2. x - 1 \in 1 .. n - 1 /\ (x - 1) + 1 = x
  BY <1>1
<1>3. x - 1 \in T
  BY <1>1, <1>2
<1> QED
  BY <1>1, <1>2, <1>3

\* The recursive function FlattenSeq is defined with exists: the parts of s
\* up to the i-th, flattened.
PrefixesKept(g, s, n) ==
  /\ g[1] = s[1] /\ FlattenSeq(s) = g[n]
  /\ \A i \in 1 .. n - 1 : g[i + 1] = g[i] \o s[i + 1]

LEMMA Flattening ==
  ASSUME NEW n \in Nat \ {0}, NEW s, Len(s) = n
  PROVE  \E g : PrefixesKept(g, s, n)
<1> DEFINE Solves(g, m) == g = [i \in 1 .. m |-> IF i = 1 THEN s[i] ELSE g[i - 1] \o s[i]]
           T == {m \in 1 .. n : \E g : Solves(g, m)}
<1>1. 1 \in T
  <2>1. Solves([i \in 1 .. 1 |-> s[1]], 1)
    OBVIOUS
  <2> HIDE DEF Solves
  <2> QED
    BY <2>1
<1>2. ASSUME NEW m \in 1 .. n - 1, m \in T
      PROVE  m + 1 \in T
  <2>1. PICK g : Solves(g, m)
    BY <1>2
  <2> DEFINE h == [i \in 1 .. m + 1 |-> IF i = m + 1 THEN g[m] \o s[m + 1] ELSE g[i]]
  <2>2. \A i \in 1 .. m + 1 : h[i] = IF i = 1 THEN s[i] ELSE h[i - 1] \o s[i]
    <3>1. \A i \in 1 .. m : /\ i \in 1 .. m + 1 /\ i # m + 1
                            /\ i # 1 => i - 1 \in 1 .. m
      OBVIOUS
    <3>2. m + 1 \in 1 .. m + 1 /\ (m + 1) - 1 = m /\ m + 1 # 1 /\ m \in 1 .. m
      OBVIOUS
    <3>3. \A i \in 1 .. m : g[i] = IF i = 1 THEN s[i] ELSE g[i - 1] \o s[i]
      BY <2>1
    <3>4. \A i \in 1 .. m : h[i] = g[i]
      BY <3>1
    <3>5. h[m + 1] = g[m] \o s[m + 1]
      BY <3>2
    <3>6. \A i \in 1 .. m + 1 : i \in 1 .. m \/ i = m + 1
      OBVIOUS
    <3> HIDE DEF h, Solves, T
    <3>7. \A i \in 1 .. m : h[i] = IF i = 1 THEN s[i] ELSE h[i - 1] \o s[i]
      BY <3>1, <3>3, <3>4
    <3>8. h[m + 1] = h[m] \o s[m + 1]
      BY <3>2, <3>4, <3>5
    <3> QED
      BY <3>2, <3>6, <3>7, <3>8
  <2>3. h = [i \in 1 .. m + 1 |-> h[i]]
    OBVIOUS
  <2> HIDE DEF h
  <2>4. Solves(h, m + 1)
    BY <2>2, <2>3
  <2>5. m + 1 \in 1 .. n
    OBVIOUS
  <2> HIDE DEF Solves
  <2> QED
    BY <2>4, <2>5
<1>3. n \in T
  <2> HIDE DEF T
  <2>1. 1 .. n \subseteq T
    BY <1>1, <1>2, ListInduction
  <2> QED
    BY <2>1
<1> DEFINE f == CHOOSE g : Solves(g, n)
<1>4. Solves(f, n)
  BY <1>3
<1>5. FlattenSeq(s) = f[n]
  BY DEF FlattenSeq
<1> HIDE DEF f, T
<1>6. f[1] = s[1] /\ \A i \in 1 .. n - 1 : f[i + 1] = f[i] \o s[i + 1]
  <2>1. \A i \in 1 .. n - 1 : i + 1 \in 1 .. n /\ i + 1 # 1 /\ (i + 1) - 1 = i
    OBVIOUS
  <2>2. \A i \in 1 .. n : f[i] = IF i = 1 THEN s[i] ELSE f[i - 1] \o s[i]
    BY <1>4
  <2>3. 1 \in 1 .. n
    OBVIOUS
  <2> HIDE DEF Solves
  <2>4. \A i \in 1 .. n - 1 : f[i + 1] = f[(i + 1) - 1] \o s[i + 1]
    BY <2>1, <2>2
  <2> QED
    BY <2>1, <2>2, <2>3, <2>4
<1> HIDE DEF Solves
<1>7. PrefixesKept(f, s, n)
  BY <1>5, <1>6 DEF PrefixesKept
<1> QED
  BY <1>7

\* What the first part has and appending any other keeps, the whole has.
LEMMA FlattenGrows ==
  ASSUME NEW n \in Nat \ {0}, NEW s, Len(s) = n, NEW S, s[1] \in S,
         \A a \in S, i \in 2 .. n : a \o s[i] \in S
  PROVE  FlattenSeq(s) \in S
<1>0. PICK g : PrefixesKept(g, s, n)
  BY Flattening
<1>1. /\ g[1] = s[1] /\ FlattenSeq(s) = g[n]
      /\ \A i \in 1 .. n - 1 : g[i + 1] = g[i] \o s[i + 1]
  BY <1>0 DEF PrefixesKept
<1> DEFINE T == {i \in 1 .. n : g[i] \in S}
<1>2. 1 \in T
  BY <1>1
<1>3. \A i \in 1 .. n - 1 : i \in T => i + 1 \in T
  <2>1. \A i \in 1 .. n - 1 : i + 1 \in 2 .. n /\ i + 1 \in 1 .. n
    OBVIOUS
  <2> QED
    BY <1>1, <2>1
<1>4. n \in T
  <2> HIDE DEF T
  <2>1. 1 .. n \subseteq T
    BY <1>2, <1>3, ListInduction
  <2> QED
    BY <2>1
<1> QED
  BY <1>1, <1>4

LEMMA SeqMade ==
  ASSUME NEW n \in Nat, NEW f, f = [i \in 1..n |-> f[i]], NEW S, \A i \in 1..n : f[i] \in S
  PROVE  f \in Seq(S)
OBVIOUS

LEMMA SeqIsList ==
  ASSUME NEW S, NEW s \in Seq(S)
  PROVE  /\ IsList(s) /\ DOMAIN s = 1..Len(s) /\ Len(s) \in Nat
         /\ \A i \in DOMAIN s : s[i] \in S
<1>1. s = [i \in 1..Len(s) |-> s[i]] /\ Len(s) \in Nat /\ \A i \in 1..Len(s) : s[i] \in S
  OBVIOUS
<1> QED
  BY <1>1, ListMade

LEMMA FlattenTyped ==
  ASSUME NEW S, NEW s \in Seq(Seq(S))
  PROVE  FlattenSeq(s) \in Seq(S)
<1>1. Len(s) \in Nat /\ \A i \in 1..Len(s) : s[i] \in Seq(S)
  OBVIOUS
<1>2. CASE Len(s) = 0
  <2>1. FlattenSeq(s) = s
    BY <1>2 DEF FlattenSeq
  <2>2. s = <<>>
    BY <1>2
  <2> QED
    BY <2>1, <2>2
<1>3. CASE Len(s) # 0
  <2>1. Len(s) \in Nat \ {0} /\ s[1] \in Seq(S)
    BY <1>1, <1>3
  <2>2. \A a \in Seq(S), i \in 2..Len(s) : a \o s[i] \in Seq(S)
    <3>1. \A a, b \in Seq(S) : a \o b \in Seq(S)
      BY ConcatProperties
    <3>2. \A i \in 2..Len(s) : i \in 1..Len(s)
      BY <1>1
    <3> QED
      BY <1>1, <3>1, <3>2
  <2> QED
    BY <2>1, <2>2, FlattenGrows
<1> QED
  BY <1>2, <1>3

\* The elements of a list made of a finite set.
LEMMA IncreasingElements ==
  ASSUME NEW n \in Nat, NEW m \in Int, NEW S \in SUBSET (m..n)
  PROVE  Increasing(S) \in Seq(S)
<1>1. IsFiniteSet(m..n)
  <2>1. m \in Int /\ n \in Int
    OBVIOUS
  <2> QED
    BY ONLY <2>1, FS_Interval
<1>2. IsFiniteSet(S) /\ S \in SUBSET Int
  <2>1. IsFiniteSet(S)
    BY <1>1, FS_Subset
  <2> QED
    BY <2>1
<1> QED
  BY <1>2, IncreasingLists

-----------------------------------------------------------------------------
(* Aspheric columns *)

\* The reader's column n holds the n-th power the writer lists: the columns
\* rise through listed powers only, and leave none out
\* (AsphericalData::radial_power against aspherics_to_opt_bench_str).
THEOREM ColumnsAreTheListedPowers ==
  ASSUME NEW odd \in Nat \ {0}
  PROVE  /\ \A n \in Nat : /\ radial_power(odd, n) >= 3
                           /\ Listed(odd, radial_power(odd, n))
                           /\ radial_power(odd, n) < radial_power(odd, n + 1)
         /\ \A power \in Nat : power >= 3 /\ Listed(odd, power) =>
              \E n \in Nat : radial_power(odd, n) = power
<1>1. ASSUME NEW n \in Nat
      PROVE  /\ radial_power(odd, n) >= 3
             /\ Listed(odd, radial_power(odd, n))
             /\ radial_power(odd, n) < radial_power(odd, n + 1)
  BY DEF radial_power, Listed
<1>2. ASSUME NEW power \in Nat, power >= 3, Listed(odd, power)
      PROVE  \E n \in Nat : radial_power(odd, n) = power
  <2>1. CASE (power - 3) \div 2 < odd
    <3>1. power - 3 \in Nat /\ radial_power(odd, power - 3) = power
      BY <1>2, <2>1 DEF radial_power
    <3> QED
      BY <3>1
  <2>2. CASE (power - 3) \div 2 >= odd
    <3>1. power % 2 = 0
      BY <1>2, <2>2 DEF Listed
    <3> DEFINE n == (power - 4) \div 2 + odd
    <3>2. n \in Nat /\ radial_power(odd, n) = power
      BY <1>2, <2>2, <3>1 DEF radial_power
    <3> QED
      BY <3>2
  <2>3. (power - 3) \div 2 \in Int
    BY <1>2
  <2> QED
    BY <2>1, <2>2, <2>3
<1> QED
  BY <1>1, <1>2

LEMMA RadialTerm ==
  ASSUME NEW coeffs, IsList(coeffs), NEW power \in Nat \ {0}
  PROVE  Term(Radial, coeffs, power) = IF power \in DOMAIN coeffs THEN coeffs[power] ELSE 0
<1>1. Len(coeffs) \in Nat /\ DOMAIN coeffs = 1..Len(coeffs)
  BY ListIs
<1>2. \A i \in 1..Len(coeffs) : powerOf(Radial, i - 1) = i
  BY <1>1 DEF powerOf
<1>3. CASE power \in 1..Len(coeffs)
  <2>1. (CHOOSE i \in 1..Len(coeffs) : powerOf(Radial, i - 1) = power) = power
    BY <1>2, <1>3
  <2> QED
    BY <1>1, <1>2, <1>3, <2>1 DEF Term
<1>4. CASE power \notin 1..Len(coeffs)
  BY <1>1, <1>2, <1>4 DEF Term
<1> QED
  BY <1>3, <1>4

LEMMA EvenTerm ==
  ASSUME NEW coeffs, IsList(coeffs), NEW type, type # Radial, NEW power \in Nat \ {0}
  PROVE  Term(type, coeffs, power)
           = IF power % 2 = 0 /\ power \div 2 \in DOMAIN coeffs THEN coeffs[power \div 2] ELSE 0
<1>1. Len(coeffs) \in Nat /\ DOMAIN coeffs = 1..Len(coeffs)
  BY ListIs
<1>2. \A i \in 1..Len(coeffs) : powerOf(type, i - 1) = 2 * i
  BY <1>1 DEF powerOf
<1>3. CASE power % 2 = 0 /\ power \div 2 \in 1..Len(coeffs)
  <2>1. power = 2 * (power \div 2)
    BY <1>3
  <2>2. (CHOOSE i \in 1..Len(coeffs) : powerOf(type, i - 1) = power) = power \div 2
    BY <1>2, <1>3, <2>1
  <2> QED
    BY <1>1, <1>2, <1>3, <2>1, <2>2 DEF Term
<1>4. CASE ~(power % 2 = 0 /\ power \div 2 \in 1..Len(coeffs))
  <2>1. \A i \in 1..Len(coeffs) : (2 * i) % 2 = 0 /\ (2 * i) \div 2 = i
    BY <1>1
  <2>2. \A i \in 1..Len(coeffs) : 2 * i # power
    BY <1>4, <2>1
  <2> QED
    BY <1>1, <1>2, <1>4, <2>2 DEF Term
<1> QED
  BY <1>3, <1>4

LEMMA RadialPowerRises ==
  ASSUME NEW odd \in Nat \ {0}, NEW i \in Nat, NEW j \in Nat, i < j
  PROVE  radial_power(odd, i) < radial_power(odd, j)
BY DEF radial_power

ListedTo(odd, highest) == {power \in 3..highest : Listed(odd, power)}

LEMMA RankOfPower ==
  ASSUME NEW odd \in Nat \ {0}, NEW highest \in Nat, NEW m \in Nat,
         radial_power(odd, m) <= highest
  PROVE  /\ radial_power(odd, m) \in ListedTo(odd, highest)
         /\ Cardinality(Below(ListedTo(odd, highest), radial_power(odd, m))) = m
<1> DEFINE S == ListedTo(odd, highest)
           x == radial_power(odd, m)
           f == [j \in 0..(m - 1) |-> radial_power(odd, j)]
<1>1. /\ \A n \in Nat : /\ radial_power(odd, n) \in Nat /\ radial_power(odd, n) >= 3
                        /\ Listed(odd, radial_power(odd, n))
      /\ \A power \in Nat : power >= 3 /\ Listed(odd, power) =>
           \E n \in Nat : radial_power(odd, n) = power
  <2>1. \A n \in Nat : radial_power(odd, n) \in Nat
    BY DEF radial_power
  <2> QED
    BY <2>1, ColumnsAreTheListedPowers
<1>2. x \in S
  BY <1>1 DEF ListedTo
<1>3. \A j \in 0..(m - 1) : f[j] \in Below(S, x)
  <2> SUFFICES ASSUME NEW j \in 0..(m - 1) PROVE radial_power(odd, j) \in Below(S, x)
    OBVIOUS
  <2>1. radial_power(odd, j) < x
    BY RadialPowerRises
  <2> QED
    BY <1>1, <2>1 DEF ListedTo, Below
<1>4. \A i, j \in 0..(m - 1) : f[i] = f[j] => i = j
  <2> SUFFICES ASSUME NEW i \in 0..(m - 1), NEW j \in 0..(m - 1), i # j
               PROVE  radial_power(odd, i) # radial_power(odd, j)
    OBVIOUS
  <2>1. i < j \/ j < i
    OBVIOUS
  <2>2. radial_power(odd, i) \in Nat /\ radial_power(odd, j) \in Nat
    BY <1>1
  <2> QED
    BY <2>1, <2>2, RadialPowerRises
<1>5. \A y \in Below(S, x) : \E j \in 0..(m - 1) : f[j] = y
  <2> SUFFICES ASSUME NEW y \in Below(S, x) PROVE \E j \in 0..(m - 1) : radial_power(odd, j) = y
    OBVIOUS
  <2>1. y \in Nat /\ y >= 3 /\ Listed(odd, y) /\ y < x
    BY DEF Below, ListedTo
  <2>2. PICK n \in Nat : radial_power(odd, n) = y
    BY <1>1, <2>1
  <2>3. ~(m < n) /\ m # n
    <3>1. m < n => x < y
      BY <2>2, RadialPowerRises
    <3> QED
      BY <1>1, <2>1, <2>2, <3>1
  <2> QED
    BY <2>2, <2>3
<1>6. ExistsBijection(0..(m - 1), Below(S, x))
  <2> HIDE DEF f, S, x
  <2>1. f \in [0..(m - 1) -> Below(S, x)]
    BY <1>3 DEF f
  <2>2. f \in Bijection(0..(m - 1), Below(S, x))
    BY <1>4, <1>5, <2>1 DEF Bijection, Injection, Surjection, IsInjective
  <2> QED
    BY <2>2 DEF ExistsBijection
<1>7. IsFiniteSet(0..(m - 1)) /\ Cardinality(0..(m - 1)) = m
  <2>1. 0 \in Int /\ m - 1 \in Int
    OBVIOUS
  <2>2. /\ IsFiniteSet(0..(m - 1))
        /\ Cardinality(0..(m - 1)) = IF 0 > m - 1 THEN 0 ELSE (m - 1) - 0 + 1
    BY ONLY <2>1, FS_Interval
  <2> QED
    BY <2>2
<1>8. Cardinality(Below(S, x)) = m
  <2> HIDE DEF S, x
  <2> QED
    BY <1>6, <1>7, FS_Bijection
<1> QED
  BY <1>2, <1>8

\* The writer's n-th column is the reader's.
LEMMA ColumnPowers ==
  ASSUME NEW odd \in Nat \ {0}, NEW type, NEW coeffs, IsList(coeffs)
  PROVE  /\ IsList(Powers(odd, type, coeffs))
         /\ \A n \in 1..Len(Powers(odd, type, coeffs)) :
              /\ Powers(odd, type, coeffs)[n] = radial_power(odd, n - 1)
              /\ radial_power(odd, n - 1) \in 3..Highest(type, coeffs)
              /\ Listed(odd, radial_power(odd, n - 1))
         /\ \A power \in 3..Highest(type, coeffs) : Listed(odd, power) =>
              \E n \in 1..Len(Powers(odd, type, coeffs)) : radial_power(odd, n - 1) = power
<1> DEFINE highest == Highest(type, coeffs)
           S == ListedTo(odd, highest)
           powers == Increasing(S)
<1>1. highest \in Nat
  BY ListIs DEF Highest
<1>2. powers = Powers(odd, type, coeffs)
  BY DEF Powers, ListedTo
<1>3. S \in SUBSET Int /\ IsFiniteSet(S)
  <2>1. S \in SUBSET (3..highest) /\ IsFiniteSet(3..highest)
    BY <1>1, FS_Interval DEF ListedTo
  <2>2. IsFiniteSet(S)
    BY <2>1, FS_Subset
  <2> QED
    BY <1>1, <2>1, <2>2
<1>4. /\ powers \in Seq(S) /\ Len(powers) = Cardinality(S) /\ DOMAIN powers = 1..Len(powers)
      /\ Len(powers) \in Nat
      /\ \A x \in S : \E i \in DOMAIN powers : powers[i] = x /\ Cardinality(Below(S, x)) = i - 1
      /\ \A i, j \in DOMAIN powers : i < j => powers[i] < powers[j]
  <2> HIDE DEF S
  <2> QED
    BY <1>3, IncreasingLists
<1>5. \A n \in 1..Len(powers) : powers[n] \in S
  <2> HIDE DEF powers, S
  <2> QED
    BY <1>4, ElementOfSeq
<1>6. ASSUME NEW x \in S
      PROVE  \E n \in 1..Len(powers) : powers[n] = x /\ x = radial_power(odd, n - 1)
  <2>1. x \in Nat /\ x >= 3 /\ Listed(odd, x) /\ x <= highest
    BY <1>1 DEF ListedTo
  <2>2. PICK m \in Nat : radial_power(odd, m) = x
    BY <2>1, ColumnsAreTheListedPowers
  <2>3. Cardinality(Below(S, x)) = m
    BY <1>1, <2>1, <2>2, RankOfPower
  <2> HIDE DEF powers, S, highest
  <2>4. PICK i \in 1..Len(powers) : powers[i] = x /\ Cardinality(Below(S, x)) = i - 1
    BY <1>4
  <2> QED
    BY <2>2, <2>3, <2>4
<1>7. ASSUME NEW n \in 1..Len(powers)
      PROVE  powers[n] = radial_power(odd, n - 1) /\ powers[n] \in S
  <2>1. powers[n] \in S
    BY <1>5
  <2> HIDE DEF powers, S, highest
  <2>2. PICK i \in 1..Len(powers) : powers[i] = powers[n] /\ powers[n] = radial_power(odd, i - 1)
    BY <1>6, <2>1
  <2>3. ~(i < n) /\ ~(n < i)
    <3>1. \A k \in 1..Len(powers) : powers[k] \in Int
      BY <1>3, <1>5
    <3>2. i \in DOMAIN powers /\ n \in DOMAIN powers /\ powers[i] \in Int
      BY <1>4, <3>1
    <3>3. ASSUME NEW a \in DOMAIN powers, NEW b \in DOMAIN powers, a < b, powers[a] = powers[b]
          PROVE  FALSE
      BY <1>4, <3>1, <3>3
    <3> QED
      BY <2>2, <3>2, <3>3
  <2>4. i = n
    BY <1>4, <2>3
  <2> QED
    BY <2>1, <2>2, <2>4
<1>8. IsList(powers)
  <2> HIDE DEF powers, S
  <2>1. powers = [i \in 1..Len(powers) |-> powers[i]]
    BY <1>4
  <2> QED
    BY <1>4, <2>1, ListMade
<1>9. \A x \in S : x \in 3..highest /\ Listed(odd, x)
  BY DEF ListedTo
<1>10. \A power \in 3..highest : Listed(odd, power) => power \in S
  BY DEF ListedTo
<1> HIDE DEF powers, S, highest
<1>11. /\ IsList(powers)
       /\ \A n \in 1..Len(powers) : /\ powers[n] = radial_power(odd, n - 1)
                                    /\ radial_power(odd, n - 1) \in 3..highest
                                    /\ Listed(odd, radial_power(odd, n - 1))
       /\ \A power \in 3..highest : Listed(odd, power) =>
            \E n \in 1..Len(powers) : radial_power(odd, n - 1) = power
  BY <1>6, <1>7, <1>8, <1>9, <1>10
<1> QED
  BY <1>2, <1>11 DEF highest

\* The terms a row never lists are zero.
TermsOK(type, coeffs) ==
  /\ type \in {Spherical, Even, EvenA2, Radial} /\ IsList(coeffs)
  /\ type = Spherical => coeffs = <<>>
  /\ type = Even => (1 \in DOMAIN coeffs => coeffs[1] = 0)
  /\ type = Radial => \A i \in DOMAIN coeffs : i <= 2 => coeffs[i] = 0

LEMMA OddTermsCounted ==
  ASSUME NEW type, NEW coeffs, IsList(coeffs)
  PROVE  /\ required_odd_count(type, coeffs) \in Nat
         /\ type = Radial =>
              \A power \in DOMAIN coeffs :
                power >= 3 /\ power % 2 = 1 /\ coeffs[power] # 0 =>
                  (power - 1) \div 2 <= required_odd_count(type, coeffs)
<1> DEFINE half == Len(coeffs) \div 2
           kept == {i \in 1..half : 2 * i + 1 <= Len(coeffs) /\ coeffs[2 * i + 1] # 0}
<1>1. Len(coeffs) \in Nat /\ DOMAIN coeffs = 1..Len(coeffs) /\ half \in Nat
  BY ListIs
<1>2. required_odd_count(type, coeffs) =
        IF type # Radial THEN 0
        ELSE IF kept = {} THEN 1 ELSE CHOOSE i \in kept : \A j \in kept : j <= i
  BY DEF required_odd_count
<1>3. kept \in SUBSET Int /\ IsFiniteSet(kept) /\ \A i \in kept : i \in Nat
  <2>1. kept \subseteq 1..half /\ IsFiniteSet(1..half)
    BY <1>1, FS_Interval
  <2> HIDE DEF kept, half
  <2>2. IsFiniteSet(kept)
    BY <2>1, FS_Subset
  <2> QED
    BY <1>1, <2>1, <2>2
<1>4. ASSUME type = Radial, NEW power \in DOMAIN coeffs,
             power >= 3, power % 2 = 1, coeffs[power] # 0
      PROVE  (power - 1) \div 2 \in kept
  <2> DEFINE i == (power - 1) \div 2
  <2>1. power \in Nat /\ power <= Len(coeffs)
    BY <1>1
  <2>2. power = 2 * i + 1 /\ i \in 1..half
    BY <1>1, <1>4, <2>1
  <2> HIDE DEF i
  <2> QED
    BY <1>4, <2>1, <2>2 DEF i
<1> HIDE DEF kept
<1>5. CASE kept = {}
  BY <1>2, <1>4, <1>5
<1>6. CASE kept # {}
  <2>1. \E i \in kept : \A j \in kept : j <= i
    BY <1>3, <1>6, GreatestExists
  <2> DEFINE most == CHOOSE i \in kept : \A j \in kept : j <= i
  <2>2. most \in kept /\ \A j \in kept : j <= most
    BY <2>1
  <2> HIDE DEF most
  <2>3. most \in Nat
    BY <1>3, <2>2
  <2> QED
    BY <1>2, <1>4, <1>6, <2>2, <2>3 DEF most
<1> QED
  BY <1>5, <1>6

\* The odd form: what was written of a surface is read back, every power.
LEMMA OddFormReads ==
  ASSUME NEW odd \in Nat \ {0}, NEW type, NEW coeffs, TermsOK(type, coeffs), type # EvenA2,
         required_odd_count(type, coeffs) <= odd
  PROVE  LET back == get_coeffs(odd, Radial, Columns(odd, type, coeffs))
         IN /\ TermsOK(Radial, back) /\ back # <<>>
            /\ \A power \in Nat \ {0} : Term(Radial, back, power) = Term(type, coeffs, power)
<1> DEFINE powers == Powers(odd, type, coeffs)
           n == Len(powers)
           data == Columns(odd, type, coeffs)
           length == IF Len(data) = 0 THEN 2 ELSE radial_power(odd, Len(data) - 1)
           back == get_coeffs(odd, Radial, data)
<1>0. odd > 0 /\ odd \in Nat
  OBVIOUS
<1>1. /\ IsList(coeffs) /\ Len(coeffs) \in Nat /\ DOMAIN coeffs = 1..Len(coeffs)
      /\ type \in {Spherical, Even, Radial}
  BY ListIs DEF TermsOK
<1>2. n \in Nat /\ IsList(powers)
  BY <1>1, ColumnPowers, ListIs
<1>3. data = [i \in 1..n |-> Term(type, coeffs, powers[i])]
  BY <1>0 DEF Columns
<1>4. data = [i \in 1..n |-> data[i]] /\ Len(data) = n /\ DOMAIN data = 1..n
  <2> HIDE DEF n, powers, data
  <2>1. data = [i \in 1..n |-> data[i]]
    BY <1>3
  <2> QED
    BY <1>2, <2>1, ListMade
<1>5. \A i \in 1..n : /\ powers[i] = radial_power(odd, i - 1)
                      /\ radial_power(odd, i - 1) \in 3..Highest(type, coeffs)
                      /\ Listed(odd, radial_power(odd, i - 1))
  BY <1>1, ColumnPowers
<1>6. \A power \in 3..Highest(type, coeffs) : Listed(odd, power) =>
        \E i \in 1..n : radial_power(odd, i - 1) = power
  BY <1>1, ColumnPowers
<1> HIDE DEF powers, n, data
<1>7. /\ length \in Nat /\ length >= 2
      /\ \A i \in 1..n : radial_power(odd, i - 1) <= length
  <2>1. CASE n = 0
    BY <1>4, <2>1
  <2>2. CASE n # 0
    <3>1. \A i \in Nat : radial_power(odd, i) \in Nat /\ radial_power(odd, i) >= 3
      BY DEF radial_power
    <3>2. n - 1 \in Nat /\ length = radial_power(odd, n - 1)
      BY <1>2, <1>4, <2>2
    <3>3. ASSUME NEW i \in 1..n PROVE radial_power(odd, i - 1) <= length
      <4>1. i - 1 \in Nat /\ (i - 1 < n - 1 \/ i - 1 = n - 1)
        BY <1>2
      <4>2. i - 1 < n - 1 => radial_power(odd, i - 1) < radial_power(odd, n - 1)
        BY <3>2, <4>1, RadialPowerRises
      <4>3. radial_power(odd, i - 1) \in Nat /\ radial_power(odd, n - 1) \in Nat
        BY <3>1, <3>2, <4>1
      <4> HIDE DEF length
      <4> QED
        BY <3>2, <4>1, <4>2, <4>3
    <3> QED
      BY <3>1, <3>2, <3>3
  <2> QED
    BY <2>1, <2>2
<1>8. back = [p \in 1..length |->
               IF \E i \in 1..n : radial_power(odd, i - 1) = p
               THEN data[CHOOSE i \in 1..n : radial_power(odd, i - 1) = p] ELSE 0]
  <2>1. back = [p \in 1..length |->
                 IF \E i \in 1..Len(data) : radial_power(odd, i - 1) = p
                 THEN data[CHOOSE i \in 1..Len(data) : radial_power(odd, i - 1) = p] ELSE 0]
    BY DEF get_coeffs, Radial, Even
  <2> HIDE DEF length, back
  <2> QED
    BY <1>4, <2>1
<1> HIDE DEF length, back
<1>9. IsList(back) /\ Len(back) = length /\ DOMAIN back = 1..length
  <2>1. back = [p \in 1..length |-> back[p]]
    BY <1>8
  <2> QED
    BY <1>7, <2>1, ListMade
<1>10. ASSUME NEW i \in 1..n
       PROVE  back[radial_power(odd, i - 1)] = Term(type, coeffs, radial_power(odd, i - 1))
  <2> DEFINE p == radial_power(odd, i - 1)
             j == CHOOSE k \in 1..n : radial_power(odd, k - 1) = p
  <2>1. p \in 1..length
    BY <1>5, <1>7
  <2>2. j \in 1..n /\ radial_power(odd, j - 1) = p
    OBVIOUS
  <2> HIDE DEF j, p
  <2>3. back[p] = data[j]
    BY <1>8, <2>1, <2>2 DEF j
  <2>4. data[j] = Term(type, coeffs, p)
    BY <1>3, <1>5, <2>2
  <2> QED
    BY <2>3, <2>4 DEF p
<1>11. ASSUME NEW p \in 1..length, \A i \in 1..n : radial_power(odd, i - 1) # p
       PROVE  back[p] = 0
  BY <1>8, <1>11
<1>12. \A i \in 1..n : radial_power(odd, i - 1) >= 3
  BY <1>5
<1>13. ASSUME NEW power \in Nat \ {0}, \A i \in 1..n : radial_power(odd, i - 1) # power
       PROVE  Term(type, coeffs, power) = 0
  <2>1. ~(power \in 3..Highest(type, coeffs) /\ Listed(odd, power))
    BY <1>6, <1>13
  <2>2. CASE type = Radial
    <3>1. Term(type, coeffs, power) = IF power \in DOMAIN coeffs THEN coeffs[power] ELSE 0
      BY <1>1, <2>2, RadialTerm
    <3>2. ASSUME power \in DOMAIN coeffs PROVE coeffs[power] = 0
      <4>1. CASE power <= 2
        BY <2>2, <3>2, <4>1 DEF TermsOK
      <4>2. CASE power >= 3
        <5>1. Highest(type, coeffs) = Len(coeffs)
          BY <2>2 DEF Highest
        <5>2. power \in 3..Highest(type, coeffs)
          BY <1>1, <3>2, <4>2, <5>1
        <5>3. power % 2 # 0 /\ ~((power - 1) \div 2 <= odd)
          BY <2>1, <5>2 DEF Listed
        <5>4. power % 2 = 1 /\ (power - 1) \div 2 \in Int
          BY <5>3
        <5>5. required_odd_count(type, coeffs) \in Nat
          BY <1>1, OddTermsCounted
        <5>6. coeffs[power] # 0 => (power - 1) \div 2 <= required_odd_count(type, coeffs)
          BY <1>1, <2>2, <3>2, <4>2, <5>4, OddTermsCounted
        <5> QED
          BY <1>0, <5>3, <5>4, <5>5, <5>6
      <4> QED
        BY <4>1, <4>2
    <3> QED
      BY <3>1, <3>2
  <2>3. CASE type # Radial
    <3>1. Term(type, coeffs, power)
            = IF power % 2 = 0 /\ power \div 2 \in DOMAIN coeffs THEN coeffs[power \div 2] ELSE 0
      BY <1>1, <2>3, EvenTerm
    <3>2. ASSUME power % 2 = 0, power \div 2 \in DOMAIN coeffs PROVE coeffs[power \div 2] = 0
      <4>1. Highest(type, coeffs) = 2 * Len(coeffs)
        BY <2>3 DEF Highest
      <4>2. power \div 2 \in 1..Len(coeffs) /\ power = 2 * (power \div 2)
        BY <1>1, <3>2
      <4>3. power <= 2
        BY <1>1, <2>1, <3>2, <4>1, <4>2 DEF Listed
      <4>4. power \div 2 = 1
        BY <1>1, <4>2, <4>3
      <4>5. type = Even
        BY <1>1, <2>3, <3>2 DEF TermsOK
      <4> QED
        BY <3>2, <4>4, <4>5 DEF TermsOK
    <3> QED
      BY <3>1, <3>2
  <2> QED
    BY <2>2, <2>3
<1>14. ASSUME NEW power \in Nat \ {0}
       PROVE  Term(Radial, back, power) = Term(type, coeffs, power)
  <2>1. Term(Radial, back, power) = IF power \in 1..length THEN back[power] ELSE 0
    BY <1>9, RadialTerm
  <2>2. CASE \E i \in 1..n : radial_power(odd, i - 1) = power
    <3>1. PICK i \in 1..n : radial_power(odd, i - 1) = power
      BY <2>2
    <3>2. power \in 1..length
      BY <1>7, <3>1
    <3> QED
      BY <1>10, <2>1, <3>1, <3>2
  <2>3. CASE \A i \in 1..n : radial_power(odd, i - 1) # power
    BY <1>11, <1>13, <2>1, <2>3
  <2> QED
    BY <2>2, <2>3
<1>15. \A p \in DOMAIN back : p <= 2 => back[p] = 0
  <2> SUFFICES ASSUME NEW p \in 1..length, p <= 2 PROVE back[p] = 0
    BY <1>9
  <2>1. \A i \in 1..n : radial_power(odd, i - 1) # p
    BY <1>12
  <2> QED
    BY <1>11, <2>1
<1>16. TermsOK(Radial, back)
  BY <1>9, <1>15 DEF TermsOK, Radial, Spherical, Even
<1>17. back # <<>>
  BY <1>7, <1>9
<1> QED
  BY <1>14, <1>16, <1>17 DEF back, data

\* The even form, of a file without odd terms.
LEMMA EvenFormReads ==
  ASSUME NEW type \in {Even, EvenA2}, NEW coeffs, TermsOK(type, coeffs)
  PROVE  LET back == get_coeffs(0, type, Columns(0, type, coeffs))
         IN /\ TermsOK(type, back)
            /\ \A power \in Nat \ {0} : Term(type, back, power) = Term(type, coeffs, power)
<1> DEFINE back == get_coeffs(0, type, Columns(0, type, coeffs))
           first == IF type = Even THEN 2 ELSE 1
           data == SubSeq(coeffs, first, Len(coeffs))
           S == Range(coeffs) \cup {0}
<1>1. IsList(coeffs) /\ Len(coeffs) \in Nat /\ DOMAIN coeffs = 1..Len(coeffs)
  BY ListIs DEF TermsOK
<1>2. Columns(0, type, coeffs) = data /\ type # Radial
  BY DEF Columns, Even, EvenA2, Radial
<1>3. \A i \in 1..Len(coeffs) : coeffs[i] \in S
  BY <1>1 DEF Range
<1>4. /\ data \in Seq(S) /\ Len(data) = IF first <= Len(coeffs) THEN Len(coeffs) - first + 1 ELSE 0
      /\ \A i \in 1..(Len(coeffs) - first + 1) : data[i] = coeffs[first + i - 1]
  <2>1. \A i \in first..Len(coeffs) : coeffs[i] \in S
    BY <1>1, <1>3
  <2>2. first \in Int /\ Len(coeffs) \in Int
    BY <1>1
  <2> HIDE DEF first, S
  <2> QED
    BY <2>1, <2>2, SubSeqProperties
<1>5. CASE type = Even
  <2>1. back = <<0>> \o data
    BY <1>2, <1>5 DEF get_coeffs, Even, Radial
  <2>2. <<0>> \in Seq(S) /\ Len(<<0>>) = 1
    OBVIOUS
  <2>3. /\ data \in Seq(S) /\ Len(data) = IF 2 <= Len(coeffs) THEN Len(coeffs) - 1 ELSE 0
        /\ \A i \in 1..(Len(coeffs) - 1) : data[i] = coeffs[i + 1]
    <3>1. first = 2
      BY <1>5
    <3> HIDE DEF S, data, first
    <3>2. /\ data \in Seq(S) /\ Len(data) = IF 2 <= Len(coeffs) THEN Len(coeffs) - 2 + 1 ELSE 0
          /\ \A i \in 1..(Len(coeffs) - 2 + 1) : data[i] = coeffs[2 + i - 1]
      BY <1>4, <3>1, Zenon
    <3>3. Len(coeffs) - 2 + 1 = Len(coeffs) - 1
      BY <1>1
    <3>4. \A i \in 1..(Len(coeffs) - 1) : 2 + i - 1 = i + 1
      BY <1>1
    <3> QED
      BY <3>2, <3>3, <3>4
  <2> HIDE DEF S, data, back, first
  <2>4. /\ back \in Seq(S) /\ Len(back) = 1 + Len(data)
        /\ \A i \in 1..(1 + Len(data)) : back[i] = IF i <= 1 THEN <<0>>[i] ELSE data[i - 1]
    BY <2>1, <2>2, <2>3, ConcatProperties
  <2>5. Len(data) \in Nat /\ DOMAIN back = 1..(1 + Len(data))
    <3>1. data \in Seq(S)
      BY <2>3
    <3>2. Len(data) \in Nat
      BY <3>1
    <3> QED
      BY <2>4, <3>2
  <2>6. back = [i \in 1..(1 + Len(data)) |-> back[i]]
    BY <2>4
  <2>7. IsList(back)
    BY <2>5, <2>6, ListMade
  <2>8. back[1] = 0
    BY <2>4, <2>5
  <2>9. \A i \in 2..Len(coeffs) : i \in DOMAIN back /\ back[i] = coeffs[i]
    <3> SUFFICES ASSUME NEW i \in 2..Len(coeffs) PROVE i \in DOMAIN back /\ back[i] = coeffs[i]
      OBVIOUS
    <3>1. i \in 1..(1 + Len(data)) /\ ~(i <= 1) /\ i - 1 \in 1..(Len(coeffs) - 1)
      <4>1. 2 <= Len(coeffs)
        BY <1>1
      <4>2. Len(data) = Len(coeffs) - 1
        BY <2>3, <4>1
      <4> QED
        BY <1>1, <4>2
    <3>2. \A k \in 1..(Len(coeffs) - 1) : data[k] = coeffs[k + 1]
      BY <2>3
    <3>3. data[i - 1] = coeffs[(i - 1) + 1] /\ (i - 1) + 1 = i
      BY <1>1, <3>1, <3>2
    <3> QED
      BY <2>4, <2>5, <3>1, <3>3
  <2>10. \A i \in DOMAIN back : i = 1 \/ i \in 2..Len(coeffs)
    <3>1. CASE 2 <= Len(coeffs)
      <4>1. Len(data) = Len(coeffs) - 1
        BY <2>3, <3>1
      <4> QED
        BY <1>1, <2>5, <4>1
    <3>2. CASE ~(2 <= Len(coeffs))
      <4>1. Len(data) = 0
        BY <2>3, <3>2
      <4> QED
        BY <2>5, <4>1
    <3> QED
      BY <3>1, <3>2
  <2>11. ASSUME NEW power \in Nat \ {0}
         PROVE  Term(type, back, power) = Term(type, coeffs, power)
    <3>1. /\ Term(type, back, power)
               = IF power % 2 = 0 /\ power \div 2 \in DOMAIN back THEN back[power \div 2] ELSE 0
          /\ Term(type, coeffs, power)
               = IF power % 2 = 0 /\ power \div 2 \in DOMAIN coeffs THEN coeffs[power \div 2] ELSE 0
      BY <1>1, <1>2, <2>7, EvenTerm
    <3>2. 1 \in DOMAIN coeffs => coeffs[1] = 0
      BY <1>5 DEF TermsOK
    <3>3. \A i \in Int : \/ i = 1
                         \/ i \in 2..Len(coeffs)
                         \/ i \notin DOMAIN back /\ i \notin DOMAIN coeffs
      BY <1>1, <2>10
    <3>4. \A i \in 2..Len(coeffs) : i \in DOMAIN coeffs
      BY <1>1
    <3>5. power \div 2 \in Int
      OBVIOUS
    <3>6. 1 \in DOMAIN back
      BY <2>5
    <3> QED
      BY <2>8, <2>9, <3>1, <3>2, <3>3, <3>4, <3>5, <3>6
  <2>12. TermsOK(type, back)
    BY <1>5, <2>7, <2>8 DEF TermsOK, Even, Spherical, Radial
  <2> QED
    BY <2>11, <2>12 DEF back
<1>6. CASE type = EvenA2
  <2>1. back = data /\ first = 1
    BY <1>2, <1>6 DEF get_coeffs, Even, EvenA2, Radial
  <2> HIDE DEF S, data, back, first
  <2>2. data = coeffs
    <3>1. coeffs \in Seq(S)
      <4>1. coeffs \in [1..Len(coeffs) -> S]
        BY <1>1, <1>3, ListIs
      <4> QED
        BY <1>1, <4>1
    <3>2. Len(data) = Len(coeffs) /\ \A i \in 1..Len(coeffs) : data[i] = coeffs[i]
      BY <1>1, <1>4, <2>1
    <3> QED
      BY <1>4, <3>1, <3>2, SeqEqual
  <2> QED
    BY <2>1, <2>2 DEF back
<1> QED
  BY <1>5, <1>6

-----------------------------------------------------------------------------
(* A lens, and how a text is read *)

\* What is kept per configuration has a value for each.
PerConfiguration(p, values) ==
  values = <<>> \/ (p.names # <<>> /\ values = [c \in DOMAIN p.names |-> values[c]])

IsSurface(a) ==
  a = [cell |-> a.cell, radius |-> a.radius, thick |-> a.thick, thickBy |-> a.thickBy,
       diameter |-> a.diameter, diameterBy |-> a.diameterBy,
       type |-> a.type, k |-> a.k, coeffs |-> a.coeffs]

SurfaceOK(p, a) ==
  /\ IsSurface(a) /\ a.cell \in Cells
  /\ a.cell \in {"AS", "FS"} => a.radius = 0 /\ a.type = Spherical
  /\ a.type = Spherical => a.k = 0
  /\ TermsOK(a.type, a.coeffs)
  /\ PerConfiguration(p, a.thickBy) /\ PerConfiguration(p, a.diameterBy)
  /\ a.diameterBy # <<>> => a.cell = "AS"

\* The aspheres of a file have one form.
FormsOK(p) ==
  /\ p.odd > 0 => \A s \in DOMAIN p.surfaces : p.surfaces[s].type # EvenA2
  /\ p.odd = 0 =>
       /\ \A s \in DOMAIN p.surfaces : p.surfaces[s].type # Radial
       /\ \A s, t \in DOMAIN p.surfaces : p.surfaces[s].type = Even => p.surfaces[t].type # EvenA2

LensOK(p) ==
  /\ p = [odd |-> p.odd, first |-> p.first, firstBy |-> p.firstBy, names |-> p.names,
          surfaces |-> p.surfaces]
  /\ p.odd \in Nat /\ IsList(p.names) /\ IsList(p.surfaces)
  /\ p.first > 0
  /\ p.firstBy = [c \in DOMAIN p.names |-> p.firstBy[c]]
  /\ \A c \in DOMAIN p.names : p.firstBy[c] > 0
  /\ \A s \in DOMAIN p.surfaces : SurfaceOK(p, p.surfaces[s])
  /\ \A s, t \in DOMAIN p.surfaces :
       p.surfaces[s].cell = "AS" /\ p.surfaces[t].cell = "AS" =>
         p.surfaces[s].diameterBy = p.surfaces[t].diameterBy
  /\ FormsOK(p)

LEMMA TermsRead ==
  ASSUME NEW odd \in Nat, NEW a2, NEW data, IsList(data)
  PROVE  LET type == RowType(odd, a2)
         IN /\ TermsOK(type, get_coeffs(odd, type, data))
            /\ type = Radial => get_coeffs(odd, type, data) # <<>>
<1> DEFINE type == RowType(odd, a2)
           coeffs == get_coeffs(odd, type, data)
           length == IF Len(data) = 0 THEN 2 ELSE radial_power(odd, Len(data) - 1)
<1>1. Len(data) \in Nat /\ DOMAIN data = 1..Len(data)
  BY ListIs
<1>2. CASE odd > 0
  <2>1. type = Radial
    BY <1>2 DEF RowType
  <2>2. \A n \in Nat : radial_power(odd, n) \in Nat /\ radial_power(odd, n) >= 3
    BY <1>2 DEF radial_power
  <2>3. length \in Nat /\ length >= 2
    <3>1. CASE Len(data) = 0
      BY <3>1
    <3>2. CASE Len(data) # 0
      <4>1. length = radial_power(odd, Len(data) - 1) /\ Len(data) - 1 \in Nat
        BY <1>1, <3>2
      <4> HIDE DEF length
      <4> QED
        BY <2>2, <4>1
    <3> QED
      BY <3>1, <3>2
  <2>4. coeffs = [p \in 1..length |->
                    IF \E n \in 1..Len(data) : radial_power(odd, n - 1) = p
                    THEN data[CHOOSE n \in 1..Len(data) : radial_power(odd, n - 1) = p] ELSE 0]
    <3>1. coeffs = get_coeffs(odd, Radial, data)
      BY <2>1
    <3> QED
      BY <3>1 DEF get_coeffs, Radial, Even
  <2> HIDE DEF coeffs, length, type
  <2>5. IsList(coeffs) /\ Len(coeffs) = length /\ DOMAIN coeffs = 1..length
    <3>1. coeffs = [p \in 1..length |-> coeffs[p]]
      BY <2>4
    <3> QED
      BY <2>3, <3>1, ListMade
  <2>6. ASSUME NEW p \in DOMAIN coeffs, p <= 2 PROVE coeffs[p] = 0
    <3>1. \A n \in 1..Len(data) : radial_power(odd, n - 1) # p
      BY <1>1, <2>2, <2>5, <2>6
    <3> QED
      BY <2>4, <2>5, <3>1
  <2>7. TermsOK(Radial, coeffs)
    BY <2>5, <2>6 DEF TermsOK, Radial, Spherical, Even
  <2>8. coeffs # <<>>
    BY <2>3, <2>5
  <2> QED
    BY <2>1, <2>7, <2>8 DEF coeffs, type
<1>3. CASE ~(odd > 0) /\ a2
  <2>1. type = EvenA2
    BY <1>3 DEF RowType
  <2>2. coeffs = data
    BY <2>1 DEF get_coeffs, EvenA2, Even, Radial
  <2> HIDE DEF coeffs, type
  <2>3. TermsOK(EvenA2, data)
    BY DEF TermsOK, Radial, Spherical, Even, EvenA2
  <2> QED
    BY <2>1, <2>2, <2>3 DEF coeffs, type, EvenA2, Radial
<1>4. CASE ~(odd > 0) /\ ~a2
  <2> DEFINE S == Range(data) \cup {0}
  <2>1. type = Even
    BY <1>4 DEF RowType
  <2>2. coeffs = <<0>> \o data
    BY <2>1 DEF get_coeffs, Even, Radial
  <2>3. data \in Seq(S) /\ <<0>> \in Seq(S)
    <3>1. data \in Seq(Range(data))
      BY DEF IsList
    <3>2. Range(data) \subseteq S
      OBVIOUS
    <3>3. data \in Seq(S)
      BY <3>1, <3>2, SeqMonotonic
    <3> QED
      BY <3>3
  <2> HIDE DEF coeffs, type, S
  <2>4. /\ coeffs \in Seq(S) /\ Len(coeffs) = Len(<<0>>) + Len(data)
        /\ \A i \in 1..(Len(<<0>>) + Len(data)) :
             coeffs[i] = IF i <= Len(<<0>>) THEN <<0>>[i] ELSE data[i - Len(<<0>>)]
    BY <2>2, <2>3, ConcatProperties
  <2>5. Len(<<0>>) = 1 /\ <<0>>[1] = 0
    OBVIOUS
  <2>6. coeffs[1] = 0
    BY <1>1, <2>4, <2>5
  <2>7. IsList(coeffs)
    <3>1. coeffs = [i \in 1..Len(coeffs) |-> coeffs[i]] /\ Len(coeffs) \in Nat
      BY <2>4
    <3> QED
      BY <3>1, ListMade
  <2>8. TermsOK(Even, coeffs)
    BY <2>6, <2>7 DEF TermsOK, Radial, Spherical, Even, EvenA2
  <2> QED
    BY <2>1, <2>8 DEF coeffs, type, Even, Radial
<1> QED
  BY <1>2, <1>3, <1>4

\* The configurations are the scenarios the report names.
LEMMA ScenariosNamed ==
  ASSUME NEW file, IsText(file)
  PROVE  LET names == build_prescription(file).names
         IN /\ IsList(names) /\ DOMAIN names = DOMAIN configured_scenarios(file)
            /\ names = <<>> <=> configured_scenarios(file) = <<>>
<1> DEFINE scenarios == configured_scenarios(file)
           names == build_prescription(file).names
<1>1. names = IF scenarios = <<>> THEN <<>> ELSE file.names
  BY DEF build_prescription
<1>2. /\ Len(file.scenarios) \in Nat /\ DOMAIN file.scenarios = 1..Len(file.scenarios)
      /\ file.scenarios = <<>> <=> Len(file.scenarios) = 0
      /\ Len(file.names) \in Nat /\ DOMAIN file.names = 1..Len(file.names)
      /\ file.names = <<>> <=> Len(file.names) = 0
  BY ListIs DEF IsText
<1>3. IsList(<<>>)
  BY DEF IsList
<1>4. CASE Len(file.names) = Len(file.scenarios)
  <2>1. scenarios = file.scenarios
    BY <1>4 DEF configured_scenarios
  <2> HIDE DEF scenarios, names
  <2>2. CASE scenarios = <<>>
    BY <1>1, <1>3, <2>2 DEF scenarios, names
  <2>3. CASE scenarios # <<>>
    <3>1. names = file.names
      BY <1>1, <2>3
    <3>2. IsList(names) /\ DOMAIN names = DOMAIN scenarios /\ names # <<>>
      BY <1>2, <1>4, <2>1, <2>3, <3>1 DEF IsText
    <3> QED
      BY <2>3, <3>2 DEF scenarios, names
  <2> QED
    BY <2>2, <2>3
<1>5. CASE Len(file.names) # Len(file.scenarios)
  <2>1. scenarios = <<>>
    BY <1>5 DEF configured_scenarios
  <2>2. names = <<>>
    BY <1>1, <2>1
  <2> QED
    BY <1>3, <2>1, <2>2
<1> QED
  BY <1>4, <1>5

LEMMA KeptByConfiguration ==
  ASSUME NEW file, IsText(file), NEW variable
  PROVE  PerConfiguration(build_prescription(file), ByConfiguration(file, variable))
<1> DEFINE scenarios == configured_scenarios(file)
           values == ByConfiguration(file, variable)
           p == build_prescription(file)
<1>1. DOMAIN p.names = DOMAIN scenarios /\ (p.names = <<>> <=> scenarios = <<>>)
  BY ScenariosNamed
<1>2. PICK e : values = <<>> \/ values = [c \in DOMAIN scenarios |-> e[c]]
  <2> DEFINE name == CHOOSE name \in variable : Len(file.variables[name]) > 1
  <2>1. values = <<>> \/ values = [c \in DOMAIN scenarios |-> require_value(file, name, scenarios[c])]
    BY DEF ByConfiguration
  <2> DEFINE e == [c \in DOMAIN scenarios |-> require_value(file, name, scenarios[c])]
  <2>2. e = [c \in DOMAIN scenarios |-> e[c]]
    OBVIOUS
  <2> HIDE DEF values
  <2>3. values = <<>> \/ values = [c \in DOMAIN scenarios |-> e[c]]
    BY <2>1, <2>2
  <2> HIDE DEF e
  <2> QED
    BY <2>3
<1> HIDE DEF values, p, scenarios
<1>3. CASE scenarios = <<>>
  <2>1. [c \in DOMAIN scenarios |-> e[c]] = <<>>
    <3>1. DOMAIN scenarios = {}
      BY <1>3
    <3>2. [c \in DOMAIN scenarios |-> e[c]] = [c \in {} |-> e[c]]
      BY <3>1
    <3> QED
      BY <3>2
  <2>2. values = <<>>
    BY <1>2, <2>1
  <2> QED
    BY <2>2 DEF PerConfiguration, values, p
<1>4. CASE scenarios # <<>>
  <2>1. values = <<>> \/ values = [c \in DOMAIN p.names |-> values[c]]
    BY <1>1, <1>2
  <2> QED
    BY <1>1, <1>4, <2>1 DEF PerConfiguration, values, p
<1> QED
  BY <1>3, <1>4

\* The aspheric row a surface takes: the last of its own.
AsphericRow(file, s) ==
  file.asph[CHOOSE a \in AsphericRowsOf(file, s) : \A b \in AsphericRowsOf(file, s) : b <= a]

HasShape(file, s) == file.rows[s].cell \notin {"AS", "FS"} /\ AsphericRowsOf(file, s) # {}

LEMMA LastAsphericRow ==
  ASSUME NEW file, IsText(file), NEW s, AsphericRowsOf(file, s) # {}
  PROVE  \E a \in AsphericRowsOf(file, s) : AsphericRow(file, s) = file.asph[a]
<1> DEFINE rows == AsphericRowsOf(file, s)
<1>1. rows \in SUBSET (1..Len(file.asph)) /\ Len(file.asph) \in Nat
  <2>1. Len(file.asph) \in Nat /\ DOMAIN file.asph = 1..Len(file.asph)
    BY ListIs DEF IsText
  <2>2. rows \subseteq DOMAIN file.asph
    BY DEF AsphericRowsOf
  <2> HIDE DEF rows
  <2> QED
    BY <2>1, <2>2
<1>2. IsFiniteSet(rows) /\ rows \in SUBSET Int
  <2> HIDE DEF rows
  <2>1. 1 \in Int /\ Len(file.asph) \in Int
    BY <1>1
  <2>2. IsFiniteSet(1..Len(file.asph))
    BY <2>1, FS_Interval
  <2>3. IsFiniteSet(rows)
    BY <1>1, <2>2, FS_Subset
  <2> QED
    BY <1>1, <2>3
<1>3. \E a \in rows : \A b \in rows : b <= a
  <2> HIDE DEF rows
  <2> QED
    BY <1>2, GreatestExists DEF rows
<1> DEFINE a == CHOOSE a \in rows : \A b \in rows : b <= a
<1>4. a \in rows
  <2> HIDE DEF rows
  <2> QED
    BY <1>3
<1>5. AsphericRow(file, s) = file.asph[a]
  BY DEF AsphericRow
<1> QED
  BY <1>4, <1>5

LEMMA ImportedSurface ==
  ASSUME NEW file, NEW s
  PROVE  LET a == import_surface(file, s)
             row == file.rows[s]
             type == RowType(file.odd, file.a2)
         IN /\ IsSurface(a) /\ a.cell = row.cell
            /\ a.radius = IF row.cell = "R" THEN row.radius ELSE 0
            /\ a.thick = get_thickness(file, row, scenario_of_configuration(file, 0))
            /\ a.thickBy = ByConfiguration(file, ThicknessVariable(row))
            /\ a.diameter = get_diameter(file, row, scenario_of_configuration(file, 0))
            /\ a.diameterBy = ByConfiguration(file, DiameterVariable(file, row))
            /\ ~HasShape(file, s) => a.type = Spherical /\ a.k = 0 /\ a.coeffs = <<>>
            /\ HasShape(file, s) =>
                 /\ a.type = type /\ a.k = AsphericRow(file, s).k
                 /\ a.coeffs = get_coeffs(file.odd, type, AsphericRow(file, s).data)
<1> DEFINE a == import_surface(file, s)
           row == file.rows[s]
           type == RowType(file.odd, file.a2)
           rows == IF row.cell \in {"AS", "FS"} THEN {} ELSE AsphericRowsOf(file, s)
           asph == file.asph[CHOOSE i \in rows : \A j \in rows : j <= i]
<1>1. a = [cell |-> row.cell,
           radius |-> IF row.cell = "R" THEN row.radius ELSE 0,
           thick |-> get_thickness(file, row, scenario_of_configuration(file, 0)),
           thickBy |-> ByConfiguration(file, ThicknessVariable(row)),
           diameter |-> get_diameter(file, row, scenario_of_configuration(file, 0)),
           diameterBy |-> ByConfiguration(file, DiameterVariable(file, row)),
           type |-> IF rows = {} THEN Spherical ELSE type,
           k |-> IF rows = {} THEN 0 ELSE asph.k,
           coeffs |-> IF rows = {} THEN <<>> ELSE get_coeffs(file.odd, type, asph.data)]
  BY DEF import_surface
<1>2. HasShape(file, s) <=> rows # {}
  BY DEF HasShape
<1>3. HasShape(file, s) => asph = AsphericRow(file, s)
  BY DEF HasShape, AsphericRow
<1> HIDE DEF a, type, rows, asph
<1>4. IsSurface(a)
  BY <1>1 DEF IsSurface
<1> QED
  BY <1>1, <1>2, <1>3, <1>4 DEF a, type

LEMMA ImportedSurfaceOK ==
  ASSUME NEW file, IsText(file), NEW s \in DOMAIN file.rows
  PROVE  LET a == import_surface(file, s)
         IN /\ SurfaceOK(build_prescription(file), a)
            /\ a.type \in {Spherical, RowType(file.odd, file.a2)}
            /\ a.type = Radial => a.coeffs # <<>>
<1> DEFINE a == import_surface(file, s)
           p == build_prescription(file)
           type == RowType(file.odd, file.a2)
           coeffs == get_coeffs(file.odd, type, AsphericRow(file, s).data)
<1>1. /\ IsSurface(a) /\ a.cell = file.rows[s].cell /\ a.cell \in Cells
      /\ a.cell # "R" => a.radius = 0
      /\ ~HasShape(file, s) => a.type = Spherical /\ a.k = 0 /\ a.coeffs = <<>>
      /\ HasShape(file, s) => a.type = type /\ a.coeffs = coeffs
  BY ImportedSurface DEF IsText
<1>2. a.thickBy = ByConfiguration(file, ThicknessVariable(file.rows[s]))
      /\ a.diameterBy = ByConfiguration(file, DiameterVariable(file, file.rows[s]))
  BY ImportedSurface
<1>3. PerConfiguration(p, a.thickBy) /\ PerConfiguration(p, a.diameterBy)
  BY <1>2, KeptByConfiguration
<1>4. a.cell # "AS" => a.diameterBy = <<>>
  BY <1>1, <1>2 DEF DiameterVariable, ByConfiguration
<1>5. type \in {Even, EvenA2, Radial} /\ type # Spherical
  BY DEF RowType, Even, EvenA2, Radial, Spherical
<1>6. HasShape(file, s) => TermsOK(type, coeffs) /\ (type = Radial => coeffs # <<>>)
  <2> SUFFICES ASSUME HasShape(file, s) PROVE TermsOK(type, coeffs) /\ (type = Radial => coeffs # <<>>)
    OBVIOUS
  <2>1. IsList(AsphericRow(file, s).data)
    <3>1. PICK i \in AsphericRowsOf(file, s) : AsphericRow(file, s) = file.asph[i]
      BY LastAsphericRow DEF HasShape
    <3> QED
      BY <3>1 DEF AsphericRowsOf, IsText
  <2> QED
    BY <2>1, TermsRead DEF IsText
<1>7. HasShape(file, s) => file.rows[s].cell \notin {"AS", "FS"}
  BY DEF HasShape
<1>8. TermsOK(Spherical, <<>>)
  BY DEF TermsOK, IsList, Spherical, Even, Radial
<1> HIDE DEF a, p, type, coeffs
<1>9. CASE HasShape(file, s)
  <2>1. a.type # Spherical /\ TermsOK(a.type, a.coeffs) /\ (a.type = Radial => a.coeffs # <<>>)
    BY <1>1, <1>5, <1>6, <1>9
  <2>2. SurfaceOK(p, a)
    BY <1>1, <1>3, <1>4, <1>7, <1>9, <2>1 DEF SurfaceOK
  <2> QED
    BY <1>1, <1>9, <2>1, <2>2 DEF a, p, type
<1>10. CASE ~HasShape(file, s)
  <2>1. TermsOK(a.type, a.coeffs) /\ a.type # Radial
    BY <1>1, <1>8, <1>10 DEF Spherical, Radial
  <2>2. SurfaceOK(p, a)
    BY <1>1, <1>3, <1>4, <1>10, <2>1, Zenon DEF SurfaceOK, Cells
  <2> QED
    BY <1>1, <1>10, <2>1, <2>2 DEF a, p, type
<1> QED
  BY <1>9, <1>10

LEMMA ScenariosNeeded ==
  ASSUME NEW file
  PROVE  /\ scenario_of_configuration(file, 0) \in NeededScenarios(file)
         /\ \A c \in DOMAIN configured_scenarios(file) :
              configured_scenarios(file)[c] \in NeededScenarios(file)
BY DEF NeededScenarios

\* Whatever a file says, a prescription the importer builds is well-formed.
LEMMA ImportedLens ==
  ASSUME NEW file, IsText(file), Buildable(file)
  PROVE  LensOK(build_prescription(file))
<1> DEFINE p == build_prescription(file)
           scenarios == configured_scenarios(file)
           first == require_value(file, FirstOrder, scenario_of_configuration(file, 0))
           firstBy == [c \in DOMAIN scenarios |-> require_value(file, FirstOrder, scenarios[c])]
           imported == [s \in DOMAIN file.rows |-> import_surface(file, s)]
           type == RowType(file.odd, file.a2)
<1>1. p = [odd |-> file.odd, first |-> first, firstBy |-> firstBy,
           names |-> IF scenarios = <<>> THEN <<>> ELSE file.names, surfaces |-> imported]
  BY DEF build_prescription
<1>2. IsList(p.names) /\ DOMAIN p.names = DOMAIN scenarios
  BY ScenariosNamed
<1>3. first > 0 /\ \A c \in DOMAIN scenarios : firstBy[c] > 0
  <2>1. \A scenario \in NeededScenarios(file) : require_value(file, FirstOrder, scenario) > 0
    BY DEF Buildable
  <2>2. first > 0
    BY <2>1, ScenariosNeeded
  <2>3. \A c \in DOMAIN scenarios : require_value(file, FirstOrder, scenarios[c]) > 0
    BY <2>1, ScenariosNeeded
  <2> QED
    BY <2>2, <2>3
<1>4. IsList(imported) /\ DOMAIN imported = DOMAIN file.rows
  <2>1. Len(file.rows) \in Nat /\ DOMAIN file.rows = 1..Len(file.rows)
    BY ListIs DEF IsText
  <2>2. imported = [s \in 1..Len(file.rows) |-> imported[s]]
    BY <2>1
  <2> HIDE DEF imported
  <2> QED
    BY <2>1, <2>2, ListMade
<1>5. \A s \in DOMAIN file.rows :
        /\ SurfaceOK(p, imported[s]) /\ imported[s].type \in {Spherical, type}
  BY ImportedSurfaceOK
<1>6. ASSUME NEW s \in DOMAIN file.rows, NEW t \in DOMAIN file.rows,
             imported[s].cell = "AS", imported[t].cell = "AS"
      PROVE  imported[s].diameterBy = imported[t].diameterBy
  <2>1. \A i \in DOMAIN file.rows :
          /\ imported[i].cell = file.rows[i].cell
          /\ imported[i].diameterBy = ByConfiguration(file, DiameterVariable(file, file.rows[i]))
    BY ImportedSurface
  <2>2. DiameterVariable(file, file.rows[s]) = DiameterVariable(file, file.rows[t])
    BY <1>6, <2>1 DEF DiameterVariable
  <2> HIDE DEF imported
  <2> QED
    BY <2>1, <2>2
<1>7. file.odd \in Nat
  BY DEF IsText
<1>8. /\ file.odd > 0 => type = Radial
      /\ file.odd = 0 => type \in {Even, EvenA2}
  BY DEF RowType
<1> HIDE DEF p, scenarios, first, firstBy, imported, type
<1>9. p.odd = file.odd /\ p.first = first /\ p.firstBy = firstBy /\ p.surfaces = imported
  BY <1>1
<1>10. FormsOK(p)
  BY <1>4, <1>5, <1>7, <1>8, <1>9 DEF FormsOK, Spherical, Even, EvenA2, Radial
<1>11. firstBy = [c \in DOMAIN p.names |-> firstBy[c]]
  BY <1>2 DEF firstBy
<1>12. p = [odd |-> p.odd, first |-> p.first, firstBy |-> p.firstBy, names |-> p.names,
            surfaces |-> p.surfaces]
  BY <1>1
<1>13. LensOK(p)
  BY <1>2, <1>3, <1>4, <1>5, <1>6, <1>7, <1>9, <1>10, <1>11, <1>12 DEF LensOK
<1> QED
  BY <1>13 DEF p

-----------------------------------------------------------------------------
(* How a lens is written *)

LEMMA ImageFinite ==
  ASSUME NEW n \in Nat, NEW f
  PROVE  IsFiniteSet({f[i] : i \in 1..n})
<1> DEFINE T == {f[i] : i \in 1..n}
           g == [i \in 1..n |-> f[i]]
<1>1. g \in [1..n -> T] /\ \A y \in T : \E i \in 1..n : g[i] = y
  OBVIOUS
<1>2. IsFiniteSet(1..n)
  BY FS_Interval
<1> HIDE DEF g, T
<1>3. g \in Surjection(1..n, T)
  BY <1>1 DEF Surjection
<1>4. IsFiniteSet(T)
  BY <1>2, <1>3, FS_Surjection
<1> QED
  BY <1>4 DEF T

\* The declared odd count covers every odd term there is, and a file of
\* even aspheres still declares none.
LEMMA OddCountCovers ==
  ASSUME NEW p, LensOK(p)
  PROVE  /\ odd_count(p) \in Nat /\ p.odd <= odd_count(p)
         /\ \A s \in DOMAIN p.surfaces :
              required_odd_count(p.surfaces[s].type, p.surfaces[s].coeffs) <= odd_count(p)
         /\ p.odd = 0 => odd_count(p) = 0
<1> DEFINE need == [s \in DOMAIN p.surfaces |->
                      required_odd_count(p.surfaces[s].type, p.surfaces[s].coeffs)]
           needs == {need[s] : s \in DOMAIN p.surfaces}
           counts == {p.odd} \cup needs
           most == CHOOSE n \in counts : \A m \in counts : m <= n
<1>1. p.odd \in Nat /\ Len(p.surfaces) \in Nat /\ DOMAIN p.surfaces = 1..Len(p.surfaces)
  BY ListIs DEF LensOK
<1>2. \A s \in DOMAIN p.surfaces : need[s] \in Nat
  <2> SUFFICES ASSUME NEW s \in DOMAIN p.surfaces
               PROVE  required_odd_count(p.surfaces[s].type, p.surfaces[s].coeffs) \in Nat
    OBVIOUS
  <2>1. IsList(p.surfaces[s].coeffs)
    BY DEF LensOK, SurfaceOK, TermsOK
  <2> QED
    BY <2>1, OddTermsCounted
<1>3. odd_count(p) = most
  <2>1. needs = {required_odd_count(p.surfaces[s].type, p.surfaces[s].coeffs) : s \in DOMAIN p.surfaces}
    OBVIOUS
  <2> HIDE DEF needs
  <2> QED
    BY <2>1 DEF odd_count
<1> HIDE DEF need
<1>4. IsFiniteSet(counts) /\ counts \in SUBSET Int /\ counts # {} /\ \A n \in counts : n \in Nat
  <2>1. IsFiniteSet({need[i] : i \in 1..Len(p.surfaces)})
    BY <1>1, ImageFinite
  <2>2. IsFiniteSet(needs)
    BY <1>1, <2>1
  <2>3. IsFiniteSet({p.odd})
    BY FS_Singleton
  <2>4. \A n \in counts : n \in Nat
    BY <1>1, <1>2
  <2> HIDE DEF needs
  <2>5. IsFiniteSet(counts)
    BY <2>2, <2>3, FS_Union
  <2> QED
    BY <2>4, <2>5
<1>5. most \in counts /\ \A m \in counts : m <= most
  <2> HIDE DEF counts
  <2>1. \E n \in counts : \A m \in counts : m <= n
    BY <1>4, GreatestExists
  <2> QED
    BY <2>1
<1>6. p.odd \in counts /\ \A s \in DOMAIN p.surfaces : need[s] \in counts
  OBVIOUS
<1>7. ASSUME p.odd = 0 PROVE counts = {0}
  <2>1. \A s \in DOMAIN p.surfaces : need[s] = 0
    <3>1. \A s \in DOMAIN p.surfaces : p.surfaces[s].type # Radial
      BY <1>7 DEF LensOK, FormsOK
    <3> QED
      BY <3>1 DEF need, required_odd_count
  <2> QED
    BY <1>7, <2>1
<1> HIDE DEF most, counts
<1>8. odd_count(p) \in Nat
  BY <1>3, <1>4, <1>5
<1>9. p.odd = 0 => odd_count(p) = 0
  BY <1>3, <1>5, <1>7
<1>10. \A s \in DOMAIN p.surfaces : need[s] <= odd_count(p)
  BY <1>3, <1>5, <1>6
<1>11. p.odd <= odd_count(p)
  BY <1>3, <1>5, <1>6
<1> QED
  BY <1>8, <1>9, <1>10, <1>11 DEF need

\* A lens the importer has built, or a trial has varied, can be written.
LEMMA LensWritable ==
  ASSUME NEW p, LensOK(p)
  PROVE  CanWrite(p)
<1> SUFFICES ASSUME NEW s \in DOMAIN p.surfaces, odd_count(p) > 0,
                    p.surfaces[s].type # Radial, Len(p.surfaces[s].coeffs) > 0
             PROVE  p.surfaces[s].coeffs[1] = 0
  BY DEF CanWrite, Writable
<1>1. p.odd > 0
  BY OddCountCovers DEF LensOK
<1>2. TermsOK(p.surfaces[s].type, p.surfaces[s].coeffs) /\ p.surfaces[s].type # EvenA2
  BY <1>1 DEF LensOK, SurfaceOK, FormsOK
<1>3. 1 \in DOMAIN p.surfaces[s].coeffs
  <2>1. IsList(p.surfaces[s].coeffs)
    BY <1>2 DEF TermsOK
  <2>2. /\ Len(p.surfaces[s].coeffs) \in Nat
        /\ DOMAIN p.surfaces[s].coeffs = 1..Len(p.surfaces[s].coeffs)
    BY <2>1, ListIs
  <2> QED
    BY <2>2
<1>4. p.surfaces[s].type # Spherical
  <2>1. Len(<<>>) = 0
    OBVIOUS
  <2>2. p.surfaces[s].coeffs # <<>>
    BY <2>1
  <2> QED
    BY <1>2, <2>2 DEF TermsOK
<1>5. p.surfaces[s].type = Even
  BY <1>2, <1>4 DEF TermsOK
<1> QED
  BY <1>2, <1>3, <1>5 DEF TermsOK

LEMMA VariableValue ==
  ASSUME NEW p, NEW name, NEW value, <<name, value>> \in VariableRows(p),
         \A row \in VariableRows(p) : row[1] = name => row[2] = value
  PROVE  /\ name \in DOMAIN to_opt_bench_str(p).variables
         /\ to_opt_bench_str(p).variables[name] = value
<1> DEFINE rows == VariableRows(p)
           of == CHOOSE row \in rows : row[1] = name
<1>1. to_opt_bench_str(p).variables
        = [n \in {row[1] : row \in rows} |-> (CHOOSE row \in rows : row[1] = n)[2]]
  BY DEF to_opt_bench_str
<1> HIDE DEF rows
<1>2. name \in {row[1] : row \in rows}
  <2>1. <<name, value>> \in rows /\ <<name, value>>[1] = name
    BY DEF rows
  <2> QED
    BY <2>1
<1>3. of \in rows /\ of[1] = name
  <2>1. \E row \in rows : row[1] = name
    BY <1>2
  <2> QED
    BY <2>1
<1> HIDE DEF of
<1>4. of[2] = value
  BY <1>3 DEF rows
<1> QED
  BY <1>1, <1>2, <1>4 DEF of

\* The rows of [variable distances], by their names.
LEMMA VariableRowsAre ==
  ASSUME NEW p, NEW row \in VariableRows(p)
  PROVE  LET n == Len(p.surfaces)
         IN \/ row = <<FirstOrder, IF Multi(p) THEN p.firstBy ELSE <<p.first>> >>
            \/ /\ row[1] = Bf
               /\ p.surfaces[n].thickBy # <<>> /\ Multi(p) => row[2] = p.surfaces[n].thickBy
            \/ \E s \in 1..(n - 1) :
                 p.surfaces[s].thickBy # <<>> /\ row = <<d(s), p.surfaces[s].thickBy>>
            \/ \E s \in 1..n :
                 /\ p.surfaces[s].cell = "AS" /\ p.surfaces[s].diameterBy # <<>>
                 /\ row = <<ApertureDiameter, p.surfaces[s].diameterBy>>
BY DEF VariableRows

LEMMA WrittenShape ==
  ASSUME NEW p, LensOK(p)
  PROVE  LET file == to_opt_bench_str(p)
         IN /\ IsText(file) /\ file.odd = odd_count(p) /\ file.names = p.names
            /\ file.a2 = (odd_count(p) = 0 /\ has_even_a2_aspheric(p))
            /\ DOMAIN file.rows = DOMAIN p.surfaces
            /\ \A s \in DOMAIN p.surfaces : file.rows[s] = to_opt_bench_row(p, s)
            /\ configured_scenarios(file) = [c \in DOMAIN p.names |-> c - 1]
            /\ p.names # <<>> => 1 \in DOMAIN p.names
            /\ p.names = <<>> => configured_scenarios(file) = <<>>
            /\ scenario_of_configuration(file, 0) = 0
<1> DEFINE file == to_opt_bench_str(p)
           rows == [s \in DOMAIN p.surfaces |-> to_opt_bench_row(p, s)]
           scenarios == [c \in DOMAIN p.names |-> c - 1]
           aspheric == {s \in DOMAIN p.surfaces : HasAsphericRow(p.surfaces[s])}
           written == Increasing(aspheric)
           asph == [a \in DOMAIN written |-> aspherics_to_opt_bench_row(p, written[a])]
<1>1. /\ file.odd = odd_count(p) /\ file.names = p.names
      /\ file.a2 = (odd_count(p) = 0 /\ has_even_a2_aspheric(p))
      /\ file.rows = rows /\ file.scenarios = scenarios /\ file.asph = asph
  BY DEF to_opt_bench_str
<1>2. /\ Len(p.surfaces) \in Nat /\ DOMAIN p.surfaces = 1..Len(p.surfaces)
      /\ Len(p.names) \in Nat /\ DOMAIN p.names = 1..Len(p.names)
      /\ IsList(p.names) /\ (p.names = <<>> <=> Len(p.names) = 0)
  BY ListIs DEF LensOK
<1>3. IsList(rows) /\ DOMAIN rows = DOMAIN p.surfaces
  <2>1. rows = [s \in 1..Len(p.surfaces) |-> rows[s]]
    BY <1>2
  <2> HIDE DEF rows
  <2> QED
    BY <1>2, <2>1, ListMade
<1>4. IsList(scenarios) /\ Len(scenarios) = Len(p.names) /\ DOMAIN scenarios = DOMAIN p.names
  <2>1. scenarios = [c \in 1..Len(p.names) |-> scenarios[c]]
    BY <1>2
  <2> HIDE DEF scenarios
  <2> QED
    BY <1>2, <2>1, ListMade
<1>5. IsFiniteSet(aspheric) /\ aspheric \in SUBSET Int
  <2>1. IsFiniteSet(1..Len(p.surfaces))
    BY <1>2, FS_Interval
  <2>2. aspheric \in SUBSET (1..Len(p.surfaces))
    BY <1>2
  <2> HIDE DEF aspheric
  <2>3. IsFiniteSet(aspheric)
    BY <2>1, <2>2, FS_Subset
  <2> QED
    BY <2>2, <2>3
<1>6. /\ Cardinality(aspheric) \in Nat /\ DOMAIN written = 1..Cardinality(aspheric)
      /\ \A a \in DOMAIN written : written[a] \in aspheric
  <2> HIDE DEF aspheric
  <2>1. /\ written \in Seq(aspheric) /\ Len(written) = Cardinality(aspheric)
        /\ DOMAIN written = 1..Cardinality(aspheric) /\ Cardinality(aspheric) \in Nat
    BY <1>5, IncreasingLists
  <2> HIDE DEF written
  <2>2. \A a \in 1..Len(written) : written[a] \in aspheric
    BY <2>1, ElementOfSeq
  <2> QED
    BY <2>1, <2>2
<1>7. IsList(asph) /\ DOMAIN asph = DOMAIN written
  <2>1. asph = [a \in 1..Cardinality(aspheric) |-> asph[a]]
    BY <1>6
  <2> HIDE DEF asph, aspheric, written
  <2> QED
    BY <1>6, <2>1, ListMade
<1>8. odd_count(p) \in Nat
  BY OddCountCovers
<1>9. \A s \in DOMAIN p.surfaces : rows[s].cell \in Cells
  BY DEF to_opt_bench_row, LensOK, SurfaceOK
<1>10. ASSUME NEW a \in DOMAIN asph
       PROVE  IsList(asph[a].data)
  <2> DEFINE s == written[a]
             surface == p.surfaces[s]
  <2>1. s \in DOMAIN p.surfaces /\ a \in DOMAIN written
    BY <1>6, <1>7
  <2>2. asph[a] = aspherics_to_opt_bench_row(p, s)
    BY <2>1
  <2>3. asph[a].data = Columns(odd_count(p), surface.type, surface.coeffs)
    BY <2>2 DEF aspherics_to_opt_bench_row
  <2>4. IsList(surface.coeffs)
    <3>1. TermsOK(surface.type, surface.coeffs)
      BY <2>1 DEF LensOK, SurfaceOK
    <3> QED
      BY <3>1 DEF TermsOK
  <2> HIDE DEF surface, s, asph
  <2>5. CASE odd_count(p) > 0
    <3> DEFINE powers == Powers(odd_count(p), surface.type, surface.coeffs)
               columns == Columns(odd_count(p), surface.type, surface.coeffs)
    <3>1. IsList(powers)
      BY <1>8, <2>4, <2>5, ColumnPowers
    <3>2. columns = [n \in 1..Len(powers) |-> Term(surface.type, surface.coeffs, powers[n])]
      BY <2>5 DEF Columns
    <3>3. Len(powers) \in Nat
      BY <3>1, ListIs
    <3> HIDE DEF columns, powers
    <3>4. columns = [n \in 1..Len(powers) |-> columns[n]]
      BY <3>2
    <3>5. IsList(columns)
      BY <3>3, <3>4, ListMade
    <3> QED
      BY <2>3, <3>5 DEF columns
  <2>6. CASE ~(odd_count(p) > 0)
    <3> DEFINE first == CASE surface.type = Even -> 2 [] surface.type = Radial -> 3 [] OTHER -> 1
               tail == SubSeq(surface.coeffs, first, Len(surface.coeffs))
               S == Range(surface.coeffs)
    <3>1. asph[a].data = tail
      BY <2>3, <2>6 DEF Columns
    <3>2. first \in {1, 2, 3}
      OBVIOUS
    <3>3. Len(surface.coeffs) \in Nat /\ \A i \in 1..Len(surface.coeffs) : surface.coeffs[i] \in S
      <4>1. Len(surface.coeffs) \in Nat /\ DOMAIN surface.coeffs = 1..Len(surface.coeffs)
        BY <2>4, ListIs
      <4> QED
        BY <4>1 DEF Range
    <3> HIDE DEF first, S
    <3>4. /\ first \in Int /\ Len(surface.coeffs) \in Int
          /\ \A i \in first..Len(surface.coeffs) : surface.coeffs[i] \in S
      BY <3>2, <3>3
    <3>5. tail \in Seq(S)
      BY <3>4, SubSeqProperties
    <3> HIDE DEF tail
    <3>6. Len(tail) \in Nat /\ tail = [i \in 1..Len(tail) |-> tail[i]]
      BY <3>5
    <3>7. IsList(tail)
      BY <3>6, ListMade
    <3> QED
      BY <3>1, <3>7
  <2> QED
    BY <2>5, <2>6
<1>11. configured_scenarios(file) = scenarios
  <2> HIDE DEF file, scenarios, rows, asph
  <2> QED
    BY <1>1, <1>4 DEF configured_scenarios
<1>12. IsText(file)
  <2> HIDE DEF file, rows, scenarios, asph
  <2> QED
    BY <1>1, <1>2, <1>3, <1>4, <1>7, <1>8, <1>9, <1>10 DEF IsText
<1>13. p.names # <<>> => 1 \in DOMAIN p.names
  BY <1>2
<1>14. p.names = <<>> => scenarios = <<>>
  <2> SUFFICES ASSUME p.names = <<>> PROVE scenarios = <<>>
    OBVIOUS
  <2>1. Len(p.names) = 0
    BY <1>2
  <2>2. Len(scenarios) = 0
    BY <1>4, <2>1
  <2> HIDE DEF scenarios
  <2> QED
    BY <1>4, <2>2, ListIs
<1>15. scenario_of_configuration(file, 0) = 0
  <2>1. CASE p.names = <<>>
    <3> HIDE DEF file, scenarios
    <3> QED
      BY <1>11, <1>14, <2>1 DEF scenario_of_configuration
  <2>2. CASE p.names # <<>>
    <3>1. scenarios[1] = 0 /\ scenarios # <<>>
      BY <1>13, <2>2
    <3>2. 0 + 1 = 1
      OBVIOUS
    <3> HIDE DEF file, scenarios
    <3> QED
      BY <1>11, <3>1, <3>2 DEF scenario_of_configuration
  <2> QED
    BY <2>1, <2>2
<1>16. \A s \in DOMAIN p.surfaces : file.rows[s] = to_opt_bench_row(p, s)
  <2> HIDE DEF file
  <2> QED
    BY <1>1
<1> HIDE DEF file, rows, asph
<1>17. file.rows = rows /\ DOMAIN file.rows = DOMAIN p.surfaces
  BY <1>1, <1>3
<1> QED
  BY <1>1, <1>11, <1>12, <1>13, <1>14, <1>15, <1>16, <1>17 DEF file

LEMMA NamesApart ==
  /\ FirstOrder # Bf /\ FirstOrder # ApertureDiameter /\ Bf # ApertureDiameter
  /\ NoVar # Bf /\ NoVar # FirstOrder /\ NoVar # ApertureDiameter
  /\ \A i : /\ d(i) # FirstOrder /\ d(i) # Bf /\ d(i) # ApertureDiameter /\ d(i) # NoVar
            /\ \A j : d(i) = d(j) => i = j
BY DEF FirstOrder, Bf, ApertureDiameter, NoVar, d

LEMMA FirstOrderWritten ==
  ASSUME NEW p
  PROVE  /\ FirstOrder \in DOMAIN to_opt_bench_str(p).variables
         /\ to_opt_bench_str(p).variables[FirstOrder]
              = IF Multi(p) THEN p.firstBy ELSE <<p.first>>
<1> DEFINE value == IF Multi(p) THEN p.firstBy ELSE <<p.first>>
<1>1. <<FirstOrder, value>> \in VariableRows(p)
  BY DEF VariableRows
<1>2. ASSUME NEW row \in VariableRows(p), row[1] = FirstOrder
      PROVE  row[2] = value
  BY <1>2, VariableRowsAre, NamesApart
<1> QED
  BY <1>1, <1>2, VariableValue

LEMMA ThicknessWritten ==
  ASSUME NEW p, LensOK(p), NEW s \in DOMAIN p.surfaces, p.surfaces[s].thickBy # <<>>
  PROVE  /\ ThicknessName(p, s) # NoVar
         /\ ThicknessName(p, s) \in DOMAIN to_opt_bench_str(p).variables
         /\ to_opt_bench_str(p).variables[ThicknessName(p, s)] = p.surfaces[s].thickBy
<1> DEFINE n == Len(p.surfaces)
           value == p.surfaces[s].thickBy
<1>1. n \in Nat /\ s \in 1..n
  BY ListIs DEF LensOK
<1>2. p.names # <<>>
  BY DEF LensOK, SurfaceOK, PerConfiguration
<1>3. CASE s = n
  <2>1. ThicknessName(p, s) = Bf
    BY <1>3 DEF ThicknessName
  <2>2. <<Bf, value>> \in VariableRows(p)
    BY <1>2, <1>3 DEF VariableRows, Multi
  <2>3. \A row \in VariableRows(p) : row[1] = Bf => row[2] = value
    BY <1>2, <1>3, VariableRowsAre, NamesApart DEF Multi
  <2> QED
    BY <2>1, <2>2, <2>3, VariableValue, NamesApart
<1>4. CASE s # n
  <2>1. ThicknessName(p, s) = d(s)
    BY <1>4 DEF ThicknessName
  <2>2. <<d(s), value>> \in VariableRows(p)
    BY <1>1, <1>4 DEF VariableRows
  <2>3. \A row \in VariableRows(p) : row[1] = d(s) => row[2] = value
    BY VariableRowsAre, NamesApart
  <2> QED
    BY <2>1, <2>2, <2>3, VariableValue, NamesApart
<1> QED
  BY <1>3, <1>4

LEMMA DiameterWritten ==
  ASSUME NEW p, LensOK(p), NEW s \in DOMAIN p.surfaces, p.surfaces[s].cell = "AS"
  PROVE  LET file == to_opt_bench_str(p)
         IN /\ ApertureDiameter \in DOMAIN file.variables <=> p.surfaces[s].diameterBy # <<>>
            /\ p.surfaces[s].diameterBy # <<>> =>
                 file.variables[ApertureDiameter] = p.surfaces[s].diameterBy
<1> DEFINE n == Len(p.surfaces)
           value == p.surfaces[s].diameterBy
           file == to_opt_bench_str(p)
<1>1. n \in Nat /\ s \in 1..n /\ DOMAIN p.surfaces = 1..n
  BY ListIs DEF LensOK
<1>2. \A t \in 1..n : p.surfaces[t].cell = "AS" => p.surfaces[t].diameterBy = value
  BY <1>1 DEF LensOK
<1>3. \A row \in VariableRows(p) : row[1] = ApertureDiameter => row[2] = value /\ value # <<>>
  BY <1>2, VariableRowsAre, NamesApart
<1>4. value # <<>> => <<ApertureDiameter, value>> \in VariableRows(p)
  BY <1>1 DEF VariableRows
<1>5. value # <<>> => /\ ApertureDiameter \in DOMAIN file.variables
                      /\ file.variables[ApertureDiameter] = value
  BY <1>3, <1>4, VariableValue
<1>6. ASSUME ApertureDiameter \in DOMAIN file.variables PROVE value # <<>>
  <2> DEFINE rows == VariableRows(p)
  <2>1. file.variables = [name \in {row[1] : row \in rows} |->
                            (CHOOSE row \in rows : row[1] = name)[2]]
    BY DEF to_opt_bench_str
  <2> HIDE DEF file, rows
  <2>2. DOMAIN file.variables = {row[1] : row \in rows}
    BY <2>1
  <2>3. PICK row \in rows : row[1] = ApertureDiameter
    BY <1>6, <2>2
  <2> QED
    BY <1>3, <2>3 DEF rows
<1> QED
  BY <1>5, <1>6

\* A variable that is written per configuration is read per configuration,
\* unless there is only one.
LEMMA VariableRead ==
  ASSUME NEW p, LensOK(p), NEW name, NEW value, value # <<>>, PerConfiguration(p, value),
         to_opt_bench_str(p).variables[name] = value
  PROVE  LET file == to_opt_bench_str(p)
             back == ByConfiguration(file, {name})
         IN /\ DOMAIN value = DOMAIN p.names /\ 1 \in DOMAIN value
            /\ require_value(file, name, 0) = value[1]
            /\ back = value \/ (back = <<>> /\ DOMAIN p.names = {1})
<1> DEFINE file == to_opt_bench_str(p)
           back == ByConfiguration(file, {name})
           scenarios == configured_scenarios(file)
           n == Len(p.names)
<1>1. p.names # <<>> /\ value = [c \in DOMAIN p.names |-> value[c]]
  BY DEF PerConfiguration
<1>2. /\ 1 \in DOMAIN p.names /\ scenarios = [c \in DOMAIN p.names |-> c - 1]
  BY <1>1, WrittenShape
<1>3. n \in Nat /\ DOMAIN p.names = 1..n
  BY ListIs DEF LensOK
<1>4. Len(value) = n
  <2>1. value = [c \in 1..n |-> value[c]]
    BY <1>1, <1>3
  <2> QED
    BY <1>3, <2>1, ListMade
<1>5. require_value(file, name, 0) = value[1]
  <2>1. 0 + 1 = 1
    OBVIOUS
  <2> QED
    BY <2>1 DEF require_value
<1>6. CASE n > 1
  <2>1. back = [c \in DOMAIN scenarios |-> require_value(file, name, scenarios[c])]
    <3>1. Len(file.variables[name]) > 1
      BY <1>4, <1>6
    <3>2. (CHOOSE m \in {name} : Len(file.variables[m]) > 1) = name
      BY <3>1
    <3> HIDE DEF file
    <3> QED
      BY <3>1, <3>2 DEF ByConfiguration
  <2>2. \A c \in DOMAIN scenarios : require_value(file, name, scenarios[c]) = value[c]
    <3> SUFFICES ASSUME NEW c \in 1..n PROVE require_value(file, name, c - 1) = value[c]
      BY <1>2, <1>3
    <3>1. (c - 1) + 1 = c
      BY <1>3
    <3> QED
      BY <3>1 DEF require_value
  <2> HIDE DEF back, scenarios
  <2>3. DOMAIN scenarios = DOMAIN p.names
    BY <1>2
  <2>4. back = value
    BY <1>1, <2>1, <2>2, <2>3
  <2> QED
    BY <1>1, <1>2, <1>5, <2>4 DEF back
<1>7. CASE ~(n > 1)
  <2>1. back = <<>>
    BY <1>3, <1>4, <1>7 DEF ByConfiguration
  <2>2. DOMAIN p.names = {1}
    BY <1>2, <1>3, <1>7
  <2> HIDE DEF back
  <2> QED
    BY <1>1, <1>2, <1>5, <2>1, <2>2 DEF back
<1> QED
  BY <1>6, <1>7

LEMMA WrittenAspherics ==
  ASSUME NEW p, LensOK(p)
  PROVE  LET asph == to_opt_bench_str(p).asph
         IN /\ \A a \in DOMAIN asph : \E s \in DOMAIN p.surfaces :
                 HasAsphericRow(p.surfaces[s]) /\ asph[a] = aspherics_to_opt_bench_row(p, s)
            /\ \A s \in DOMAIN p.surfaces : HasAsphericRow(p.surfaces[s]) =>
                 \E a \in DOMAIN asph : asph[a] = aspherics_to_opt_bench_row(p, s)
<1> DEFINE file == to_opt_bench_str(p)
           aspheric == {s \in DOMAIN p.surfaces : HasAsphericRow(p.surfaces[s])}
           written == Increasing(aspheric)
           asph == [a \in DOMAIN written |-> aspherics_to_opt_bench_row(p, written[a])]
<1>1. file.asph = asph
  BY DEF to_opt_bench_str
<1>2. IsFiniteSet(aspheric) /\ aspheric \in SUBSET Int
  <2>1. Len(p.surfaces) \in Nat /\ DOMAIN p.surfaces = 1..Len(p.surfaces)
    BY ListIs DEF LensOK
  <2>2. IsFiniteSet(1..Len(p.surfaces))
    BY <2>1, FS_Interval
  <2>3. aspheric \in SUBSET (1..Len(p.surfaces))
    BY <2>1
  <2> HIDE DEF aspheric
  <2>4. IsFiniteSet(aspheric)
    BY <2>2, <2>3, FS_Subset
  <2> QED
    BY <2>3, <2>4
<1>3. /\ \A a \in DOMAIN written : written[a] \in aspheric
      /\ \A s \in aspheric : \E a \in DOMAIN written : written[a] = s
  <2> HIDE DEF aspheric
  <2>1. /\ written \in Seq(aspheric) /\ Len(written) = Cardinality(aspheric)
        /\ DOMAIN written = 1..Cardinality(aspheric)
        /\ \A s \in aspheric : \E a \in DOMAIN written : written[a] = s
    BY <1>2, IncreasingLists
  <2> HIDE DEF written
  <2>2. \A a \in 1..Len(written) : written[a] \in aspheric
    BY <2>1, ElementOfSeq
  <2> QED
    BY <2>1, <2>2
<1> HIDE DEF file, written
<1>4. \A a \in DOMAIN asph : \E s \in DOMAIN p.surfaces :
        HasAsphericRow(p.surfaces[s]) /\ asph[a] = aspherics_to_opt_bench_row(p, s)
  BY <1>3
<1>5. \A s \in DOMAIN p.surfaces : HasAsphericRow(p.surfaces[s]) =>
        \E a \in DOMAIN asph : asph[a] = aspherics_to_opt_bench_row(p, s)
  BY <1>3
<1> HIDE DEF asph
<1> QED
  BY <1>1, <1>4, <1>5 DEF file

LEMMA AsphericRead ==
  ASSUME NEW p, LensOK(p), NEW s \in DOMAIN p.surfaces
  PROVE  LET file == to_opt_bench_str(p)
         IN /\ HasShape(file, s) <=> HasAsphericRow(p.surfaces[s])
            /\ HasShape(file, s) => AsphericRow(file, s) = aspherics_to_opt_bench_row(p, s)
<1> DEFINE file == to_opt_bench_str(p)
<1>1. \A i \in DOMAIN p.surfaces : file.rows[i].id = i /\ file.rows[i].cell = p.surfaces[i].cell
  <2>1. \A i \in DOMAIN p.surfaces : file.rows[i] = to_opt_bench_row(p, i)
    BY WrittenShape
  <2>2. \A i : to_opt_bench_row(p, i).id = i /\ to_opt_bench_row(p, i).cell = p.surfaces[i].cell
    BY DEF to_opt_bench_row
  <2> HIDE DEF file
  <2> QED
    BY <2>1, <2>2
<1>2. DOMAIN file.rows = DOMAIN p.surfaces /\ IsText(file)
  BY WrittenShape
<1>3. /\ \A a \in DOMAIN file.asph : \E i \in DOMAIN p.surfaces :
           HasAsphericRow(p.surfaces[i]) /\ file.asph[a] = aspherics_to_opt_bench_row(p, i)
      /\ \A i \in DOMAIN p.surfaces : HasAsphericRow(p.surfaces[i]) =>
           \E a \in DOMAIN file.asph : file.asph[a] = aspherics_to_opt_bench_row(p, i)
  BY WrittenAspherics
<1>4. \A i : aspherics_to_opt_bench_row(p, i).id = i
  BY DEF aspherics_to_opt_bench_row
<1>5. s \in Int /\ DOMAIN p.surfaces = 1..Len(p.surfaces) /\ Len(p.surfaces) \in Nat
  BY ListIs DEF LensOK
<1> HIDE DEF file
<1>6. ASSUME NEW a \in AsphericRowsOf(file, s)
      PROVE  file.asph[a] = aspherics_to_opt_bench_row(p, s) /\ HasAsphericRow(p.surfaces[s])
  <2>1. a \in DOMAIN file.asph /\ file.asph[a].id = s
    BY <1>1 DEF AsphericRowsOf
  <2> QED
    BY <1>3, <1>4, <2>1
<1>7. HasAsphericRow(p.surfaces[s]) => AsphericRowsOf(file, s) # {}
  <2> SUFFICES ASSUME HasAsphericRow(p.surfaces[s]) PROVE AsphericRowsOf(file, s) # {}
    OBVIOUS
  <2>1. PICK a \in DOMAIN file.asph : file.asph[a] = aspherics_to_opt_bench_row(p, s)
    BY <1>3
  <2>2. file.asph[a].id = s
    BY <1>4, <2>1
  <2>3. \A later \in DOMAIN file.rows : file.rows[later].id = s => later <= s
    BY <1>1, <1>2, <1>5
  <2>4. a \in AsphericRowsOf(file, s)
    BY <1>1, <2>2, <2>3 DEF AsphericRowsOf
  <2> QED
    BY <2>4
<1>8. HasAsphericRow(p.surfaces[s]) => file.rows[s].cell \notin {"AS", "FS"}
  <2>1. SurfaceOK(p, p.surfaces[s])
    BY DEF LensOK
  <2>2. p.surfaces[s].type = Spherical => p.surfaces[s].k = 0 /\ p.surfaces[s].coeffs = <<>>
    BY <2>1 DEF SurfaceOK, TermsOK
  <2> QED
    BY <1>1, <2>1, <2>2 DEF SurfaceOK, HasAsphericRow
<1>9. HasShape(file, s) <=> HasAsphericRow(p.surfaces[s])
  BY <1>6, <1>7, <1>8 DEF HasShape
<1>10. HasShape(file, s) => AsphericRow(file, s) = aspherics_to_opt_bench_row(p, s)
  <2> SUFFICES ASSUME HasShape(file, s)
               PROVE  AsphericRow(file, s) = aspherics_to_opt_bench_row(p, s)
    OBVIOUS
  <2>1. PICK a \in AsphericRowsOf(file, s) : AsphericRow(file, s) = file.asph[a]
    BY <1>2, LastAsphericRow DEF HasShape
  <2> QED
    BY <1>6, <2>1
<1> QED
  BY <1>9, <1>10 DEF file

-----------------------------------------------------------------------------
(* A lens that is written is read back *)

LEMMA WrittenScenarios ==
  ASSUME NEW p, LensOK(p), NEW scenario \in NeededScenarios(to_opt_bench_str(p))
  PROVE  /\ scenario + 1 \in Configurations(p)
<1> DEFINE file == to_opt_bench_str(p)
           scenarios == configured_scenarios(file)
<1>1. /\ scenarios = [c \in DOMAIN p.names |-> c - 1]
      /\ p.names # <<>> => 1 \in DOMAIN p.names
      /\ p.names = <<>> => scenarios = <<>>
      /\ scenario_of_configuration(file, 0) = 0
  BY WrittenShape
<1>2. DOMAIN p.names = 1..Len(p.names) /\ Len(p.names) \in Nat /\ DOMAIN <<>> = {}
  BY ListIs DEF LensOK
<1>3. scenario = 0 \/ \E c \in DOMAIN scenarios : scenario = scenarios[c]
  BY <1>1 DEF NeededScenarios
<1> HIDE DEF scenarios
<1>4. CASE scenario = 0
  <2>1. 0 + 1 = 1
    OBVIOUS
  <2> QED
    BY <1>1, <1>4, <2>1 DEF Configurations, Multi
<1>5. CASE \E c \in DOMAIN scenarios : scenario = scenarios[c]
  <2>1. PICK c \in DOMAIN scenarios : scenario = scenarios[c]
    BY <1>5
  <2>2. p.names # <<>>
    BY <1>1, <1>2
  <2>3. c \in DOMAIN p.names /\ scenario = c - 1
    BY <1>1, <2>1
  <2>4. (c - 1) + 1 = c
    BY <1>2, <2>3
  <2> QED
    BY <2>2, <2>3, <2>4 DEF Configurations, Multi
<1> QED
  BY <1>3, <1>4, <1>5

LEMMA FirstOrderOfLens ==
  ASSUME NEW p, LensOK(p)
  PROVE  LET values == to_opt_bench_str(p).variables[FirstOrder]
         IN /\ DOMAIN values = Configurations(p)
            /\ \A c \in Configurations(p) : values[c] = firstOf(p, c) /\ values[c] > 0
<1> DEFINE values == to_opt_bench_str(p).variables[FirstOrder]
<1>1. values = IF Multi(p) THEN p.firstBy ELSE <<p.first>>
  BY FirstOrderWritten
<1>2. /\ p.firstBy = [c \in DOMAIN p.names |-> p.firstBy[c]] /\ p.first > 0
      /\ \A c \in DOMAIN p.names : p.firstBy[c] > 0
  BY DEF LensOK
<1>3. DOMAIN p.names = 1..Len(p.names) /\ Len(p.names) \in Nat /\ (p.names = <<>> <=> Len(p.names) = 0)
  BY ListIs DEF LensOK
<1> HIDE DEF values
<1>4. CASE Multi(p)
  <2>1. p.firstBy # <<>>
    <3>1. 1 \in DOMAIN p.names
      BY <1>3, <1>4 DEF Multi
    <3>2. 1 \in DOMAIN p.firstBy
      BY <1>2, <3>1
    <3> QED
      BY <3>2
  <2> QED
    BY <1>1, <1>2, <1>4, <2>1 DEF Configurations, firstOf, values
<1>5. CASE ~Multi(p)
  <2>1. p.names = <<>>
    BY <1>5 DEF Multi
  <2>2. p.firstBy = <<>>
    <3>1. DOMAIN p.names = {}
      BY <2>1
    <3>2. p.firstBy = [c \in {} |-> p.firstBy[c]]
      BY <1>2, <3>1
    <3> QED
      BY <3>2
  <2>3. values = <<p.first>> /\ Configurations(p) = {1}
    BY <1>1, <1>5 DEF Configurations
  <2>4. DOMAIN values = {1} /\ values[1] = p.first
    BY <2>3
  <2> QED
    BY <1>2, <2>2, <2>3, <2>4 DEF firstOf, values
<1> QED
  BY <1>4, <1>5

LEMMA PerConfigurationDomain ==
  ASSUME NEW p, NEW values, PerConfiguration(p, values), values # <<>>
  PROVE  DOMAIN values = Configurations(p) /\ Multi(p)
<1>1. p.names # <<>> /\ values = [c \in DOMAIN p.names |-> values[c]]
  BY DEF PerConfiguration
<1>2. DOMAIN values = DOMAIN p.names
  BY <1>1
<1> QED
  BY <1>1, <1>2 DEF Configurations, Multi

\* What is written can be read.
LEMMA WrittenBuildable ==
  ASSUME NEW p, LensOK(p)
  PROVE  Buildable(to_opt_bench_str(p))
<1> DEFINE file == to_opt_bench_str(p)
<1>1. DOMAIN file.rows = DOMAIN p.surfaces
  BY WrittenShape
<1>2. \A s \in DOMAIN p.surfaces : file.rows[s] = to_opt_bench_row(p, s)
  BY WrittenShape
<1>3. \A s : /\ to_opt_bench_row(p, s).id = s /\ to_opt_bench_row(p, s).var = ThicknessName(p, s)
             /\ to_opt_bench_row(p, s).cell = p.surfaces[s].cell
  BY DEF to_opt_bench_row
<1>4. \A a \in DOMAIN file.asph : \E s \in DOMAIN p.surfaces :
        HasAsphericRow(p.surfaces[s]) /\ file.asph[a] = aspherics_to_opt_bench_row(p, s)
  BY WrittenAspherics
<1>5. \A s : aspherics_to_opt_bench_row(p, s).id = s
  BY DEF aspherics_to_opt_bench_row
<1>6. \A scenario \in NeededScenarios(file) : scenario + 1 \in Configurations(p)
  BY WrittenScenarios
<1>7. /\ DOMAIN file.variables[FirstOrder] = Configurations(p)
      /\ \A c \in Configurations(p) : file.variables[FirstOrder][c] > 0
      /\ FirstOrder \in DOMAIN file.variables
  BY FirstOrderOfLens, FirstOrderWritten
<1>8. ASSUME NEW s \in DOMAIN p.surfaces, NEW name \in ThicknessVariable(to_opt_bench_row(p, s))
      PROVE  name \in DOMAIN file.variables /\ DOMAIN file.variables[name] = Configurations(p)
  <2>1. name = ThicknessName(p, s) /\ name # NoVar
    BY <1>3, <1>8 DEF ThicknessVariable
  <2>2. p.surfaces[s].thickBy # <<>>
    BY <2>1 DEF ThicknessName
  <2>3. name \in DOMAIN file.variables /\ file.variables[name] = p.surfaces[s].thickBy
    BY <2>1, <2>2, ThicknessWritten
  <2>4. PerConfiguration(p, p.surfaces[s].thickBy)
    BY DEF LensOK, SurfaceOK
  <2> HIDE DEF file
  <2> QED
    BY <2>2, <2>3, <2>4, PerConfigurationDomain
<1>9. ASSUME NEW s \in DOMAIN p.surfaces, NEW name \in DiameterVariable(file, to_opt_bench_row(p, s))
      PROVE  name \in DOMAIN file.variables /\ DOMAIN file.variables[name] = Configurations(p)
  <2>1. /\ p.surfaces[s].cell = "AS" /\ name = ApertureDiameter
        /\ ApertureDiameter \in DOMAIN file.variables
    BY <1>3, <1>9 DEF DiameterVariable
  <2>2. /\ p.surfaces[s].diameterBy # <<>>
        /\ file.variables[ApertureDiameter] = p.surfaces[s].diameterBy
    BY <2>1, DiameterWritten
  <2>3. PerConfiguration(p, p.surfaces[s].diameterBy)
    BY DEF LensOK, SurfaceOK
  <2> HIDE DEF file
  <2> QED
    BY <2>1, <2>2, <2>3, PerConfigurationDomain
<1> HIDE DEF file
<1>10. \A a \in DOMAIN file.asph : \E s \in DOMAIN file.rows : file.rows[s].id = file.asph[a].id
  BY <1>1, <1>2, <1>3, <1>4, <1>5
<1>11. ASSUME NEW scenario \in NeededScenarios(file)
       PROVE  /\ HasValue(file, FirstOrder, scenario)
              /\ require_value(file, FirstOrder, scenario) > 0
  BY <1>6, <1>7 DEF HasValue, require_value
<1>12. ASSUME NEW scenario \in NeededScenarios(file), NEW i \in DOMAIN file.rows,
              NEW name \in ThicknessVariable(file.rows[i]) \cup DiameterVariable(file, file.rows[i])
       PROVE  HasValue(file, name, scenario)
  <2>1. i \in DOMAIN p.surfaces /\ file.rows[i] = to_opt_bench_row(p, i)
    BY <1>1, <1>2
  <2>2. name \in DOMAIN file.variables /\ DOMAIN file.variables[name] = Configurations(p)
    BY <1>8, <1>9, <1>12, <2>1
  <2> QED
    BY <1>6, <2>2 DEF HasValue
<1> QED
  BY <1>10, <1>11, <1>12 DEF Buildable, file

\* A surface keeps its shape, whatever form its row takes.
LEMMA ShapeReadBack ==
  ASSUME NEW p, LensOK(p), NEW s \in DOMAIN p.surfaces
  PROVE  LET a == p.surfaces[s]
             file == to_opt_bench_str(p)
             b == import_surface(file, s)
         IN /\ b.k = a.k
            /\ \A power \in Nat \ {0} :
                 Term(b.type, b.coeffs, power) = Term(a.type, a.coeffs, power)
            /\ p.odd > 0 /\ a.coeffs # <<>> => b.type = Radial /\ b.coeffs # <<>>
<1> DEFINE a == p.surfaces[s]
           file == to_opt_bench_str(p)
           b == import_surface(file, s)
           N == odd_count(p)
           type == RowType(N, file.a2)
<1>1. /\ SurfaceOK(p, a) /\ TermsOK(a.type, a.coeffs) /\ (a.type = Spherical => a.k = 0)
      /\ FormsOK(p) /\ p.odd \in Nat
  BY DEF LensOK, SurfaceOK
<1>2. /\ N \in Nat /\ p.odd <= N /\ (p.odd = 0 => N = 0)
      /\ required_odd_count(a.type, a.coeffs) <= N
  BY OddCountCovers
<1>3. file.odd = N /\ file.a2 = (N = 0 /\ has_even_a2_aspheric(p))
  BY WrittenShape
<1>4. /\ HasShape(file, s) <=> HasAsphericRow(a)
      /\ HasShape(file, s) => AsphericRow(file, s) = aspherics_to_opt_bench_row(p, s)
  BY AsphericRead
<1>5. /\ ~HasShape(file, s) => b.type = Spherical /\ b.k = 0 /\ b.coeffs = <<>>
      /\ HasShape(file, s) =>
           /\ b.type = type /\ b.k = AsphericRow(file, s).k
           /\ b.coeffs = get_coeffs(N, type, AsphericRow(file, s).data)
  BY <1>3, ImportedSurface
<1>6. /\ aspherics_to_opt_bench_row(p, s).k = a.k
      /\ aspherics_to_opt_bench_row(p, s).data = Columns(N, a.type, a.coeffs)
  BY DEF aspherics_to_opt_bench_row
<1>7. CASE ~HasAsphericRow(a)
  <2>1. a.k = 0 /\ a.coeffs = <<>>
    BY <1>7 DEF HasAsphericRow
  <2>2. b.k = 0 /\ b.coeffs = <<>>
    BY <1>4, <1>5, <1>7
  <2>3. \A t, power : Term(t, <<>>, power) = 0
    BY DEF Term
  <2> HIDE DEF a, b
  <2>4. \A power : Term(b.type, b.coeffs, power) = Term(a.type, a.coeffs, power)
    BY <2>1, <2>2, <2>3
  <2> QED
    BY <2>1, <2>2, <2>4 DEF a, b, file
<1>8. CASE HasAsphericRow(a) /\ N > 0
  <2>1. type = Radial
    BY <1>8 DEF RowType
  <2>2. b.type = Radial /\ b.k = a.k /\ b.coeffs = get_coeffs(N, Radial, Columns(N, a.type, a.coeffs))
    BY <1>4, <1>5, <1>6, <1>8, <2>1
  <2>3. a.type # EvenA2
    BY <1>1, <1>2, <1>8 DEF FormsOK
  <2>4. N \in Nat \ {0}
    BY <1>2, <1>8
  <2> HIDE DEF a, b, file, N
  <2>5. LET back == get_coeffs(N, Radial, Columns(N, a.type, a.coeffs))
        IN /\ TermsOK(Radial, back) /\ back # <<>>
           /\ \A power \in Nat \ {0} : Term(Radial, back, power) = Term(a.type, a.coeffs, power)
    BY <1>1, <1>2, <2>3, <2>4, OddFormReads
  <2>6. /\ b.coeffs # <<>>
        /\ \A power \in Nat \ {0} : Term(b.type, b.coeffs, power) = Term(a.type, a.coeffs, power)
    BY <2>2, <2>5
  <2> QED
    BY <2>2, <2>6 DEF a, b, file
<1>9. CASE HasAsphericRow(a) /\ ~(N > 0)
  <2>1. N = 0 /\ p.odd = 0
    BY <1>1, <1>2, <1>9
  <2>2. a.type # Spherical
    BY <1>1, <1>9 DEF HasAsphericRow, TermsOK
  <2>3. a.type \in {Even, EvenA2}
    BY <1>1, <2>1, <2>2 DEF FormsOK, TermsOK
  <2>4. has_even_a2_aspheric(p) <=> a.type = EvenA2
    BY <1>1, <2>1, <2>3 DEF FormsOK, has_even_a2_aspheric, Even, EvenA2
  <2>5. type = a.type
    <3>1. type = IF file.a2 THEN EvenA2 ELSE Even
      <4> HIDE DEF N, file
      <4>1. ~(N > 0)
        BY <1>9
      <4> QED
        BY <4>1 DEF RowType
    <3>2. file.a2 <=> has_even_a2_aspheric(p)
      <4>1. file.a2 = (N = 0 /\ has_even_a2_aspheric(p))
        BY <1>3
      <4> QED
        BY <2>1, <4>1
    <3> HIDE DEF file, type, a, N
    <3>3. CASE a.type = EvenA2
      BY <2>4, <3>1, <3>2, <3>3
    <3>4. CASE a.type # EvenA2
      BY <2>3, <2>4, <3>1, <3>2, <3>4
    <3> QED
      BY <3>3, <3>4
  <2>6. b.type = a.type /\ b.k = a.k /\ b.coeffs = get_coeffs(0, a.type, Columns(0, a.type, a.coeffs))
    BY <1>4, <1>5, <1>6, <1>9, <2>1, <2>5
  <2> HIDE DEF a, b, file, N
  <2>7. LET back == get_coeffs(0, a.type, Columns(0, a.type, a.coeffs))
        IN /\ TermsOK(a.type, back)
           /\ \A power \in Nat \ {0} : Term(a.type, back, power) = Term(a.type, a.coeffs, power)
    BY <1>1, <2>3, EvenFormReads
  <2>8. \A power \in Nat \ {0} : Term(b.type, b.coeffs, power) = Term(a.type, a.coeffs, power)
    BY <2>6, <2>7
  <2> QED
    BY <2>1, <2>6, <2>8 DEF a, b, file
<1> QED
  BY <1>7, <1>8, <1>9

\* A surface keeps its spaces and its diameters in every configuration.
LEMMA ValuesReadBack ==
  ASSUME NEW p, LensOK(p), NEW s \in DOMAIN p.surfaces
  PROVE  LET a == p.surfaces[s]
             b == import_surface(to_opt_bench_str(p), s)
         IN /\ \A c \in Configurations(p) : /\ thicknessOf(b, c) = thicknessOf(a, c)
                                            /\ diameterOf(b, c) = diameterOf(a, c)
            /\ b.thickBy = <<>> => a.thickBy = <<>> \/ Configurations(p) = {1}
<1> DEFINE a == p.surfaces[s]
           file == to_opt_bench_str(p)
           row == to_opt_bench_row(p, s)
           b == import_surface(file, s)
           name == ThicknessName(p, s)
<1>1. /\ PerConfiguration(p, a.thickBy) /\ PerConfiguration(p, a.diameterBy)
      /\ (a.diameterBy # <<>> => a.cell = "AS")
  BY DEF LensOK, SurfaceOK
<1>2. file.rows[s] = row /\ scenario_of_configuration(file, 0) = 0
  BY WrittenShape
<1>3. /\ row.var = name /\ row.cell = a.cell /\ row.diameter = a.diameter
      /\ row.thickness = IF a.thickBy = <<>> THEN a.thick ELSE 0
  BY DEF to_opt_bench_row
<1>4. /\ b.thick = get_thickness(file, row, 0)
      /\ b.thickBy = ByConfiguration(file, ThicknessVariable(row))
      /\ b.diameter = get_diameter(file, row, 0)
      /\ b.diameterBy = ByConfiguration(file, DiameterVariable(file, row))
  BY <1>2, ImportedSurface
<1>5. \A value : value # <<>> /\ PerConfiguration(p, value) => Configurations(p) = DOMAIN p.names
  BY DEF PerConfiguration, Configurations, Multi
<1>6. ByConfiguration(file, {}) = <<>>
  BY DEF ByConfiguration
<1> HIDE DEF row, file, b
<1>7. /\ \A c \in Configurations(p) : thicknessOf(b, c) = thicknessOf(a, c)
      /\ b.thickBy = <<>> => a.thickBy = <<>> \/ Configurations(p) = {1}
  <2>1. CASE a.thickBy = <<>>
    <3>1. name = NoVar
      BY <2>1 DEF ThicknessName
    <3>2. ThicknessVariable(row) = {}
      BY <1>3, <3>1 DEF ThicknessVariable
    <3>3. b.thickBy = <<>> /\ b.thick = a.thick
      BY <1>3, <1>4, <1>6, <2>1, <3>1, <3>2 DEF get_thickness
    <3> QED
      BY <2>1, <3>3 DEF thicknessOf
  <2>2. CASE a.thickBy # <<>>
    <3>1. name # NoVar /\ file.variables[name] = a.thickBy
      BY <2>2, ThicknessWritten DEF file
    <3>2. LET back == ByConfiguration(file, {name})
          IN /\ DOMAIN a.thickBy = DOMAIN p.names /\ 1 \in DOMAIN a.thickBy
             /\ require_value(file, name, 0) = a.thickBy[1]
             /\ back = a.thickBy \/ (back = <<>> /\ DOMAIN p.names = {1})
      BY <1>1, <2>2, <3>1, VariableRead DEF file
    <3>3. ThicknessVariable(row) = {name}
      BY <1>3, <3>1 DEF ThicknessVariable
    <3>4. b.thick = a.thickBy[1]
      BY <1>3, <1>4, <3>1, <3>2 DEF get_thickness
    <3>5. Configurations(p) = DOMAIN p.names
      BY <1>1, <1>5, <2>2
    <3>6. b.thickBy = a.thickBy \/ (b.thickBy = <<>> /\ Configurations(p) = {1})
      BY <1>4, <3>2, <3>3, <3>5
    <3> HIDE DEF a
    <3> QED
      BY <2>2, <3>4, <3>6 DEF thicknessOf
  <2> QED
    BY <2>1, <2>2
<1>8. \A c \in Configurations(p) : diameterOf(b, c) = diameterOf(a, c)
  <2>1. CASE a.diameterBy = <<>>
    <3>1. DiameterVariable(file, row) = {}
      <4>1. a.cell = "AS" => ApertureDiameter \notin DOMAIN file.variables
        BY <2>1, DiameterWritten DEF file
      <4> QED
        BY <1>3, <4>1 DEF DiameterVariable
    <3>2. b.diameterBy = <<>> /\ b.diameter = a.diameter
      BY <1>3, <1>4, <1>6, <3>1 DEF get_diameter
    <3> QED
      BY <2>1, <3>2 DEF diameterOf
  <2>2. CASE a.diameterBy # <<>>
    <3>1. /\ ApertureDiameter \in DOMAIN file.variables
          /\ file.variables[ApertureDiameter] = a.diameterBy
      BY <1>1, <2>2, DiameterWritten DEF file
    <3>2. LET back == ByConfiguration(file, {ApertureDiameter})
          IN /\ DOMAIN a.diameterBy = DOMAIN p.names /\ 1 \in DOMAIN a.diameterBy
             /\ require_value(file, ApertureDiameter, 0) = a.diameterBy[1]
             /\ back = a.diameterBy \/ (back = <<>> /\ DOMAIN p.names = {1})
      BY <1>1, <2>2, <3>1, VariableRead DEF file
    <3>3. DiameterVariable(file, row) = {ApertureDiameter}
      BY <1>1, <1>3, <2>2, <3>1 DEF DiameterVariable
    <3>4. b.diameter = a.diameterBy[1]
      BY <1>4, <3>2, <3>3 DEF get_diameter
    <3>5. Configurations(p) = DOMAIN p.names
      BY <1>1, <1>5, <2>2
    <3>6. b.diameterBy = a.diameterBy \/ (b.diameterBy = <<>> /\ Configurations(p) = {1})
      BY <1>4, <3>2, <3>3, <3>5
    <3> HIDE DEF a
    <3> QED
      BY <2>2, <3>4, <3>6 DEF diameterOf
  <2> QED
    BY <2>1, <2>2
<1> QED
  BY <1>7, <1>8 DEF b, file

\* Two surfaces that are the same in every configuration of p, as far as a
\* text can say: the radius of a cover glass is not part of it.
Alike(p, a, b) ==
  /\ b.cell = a.cell /\ (a.cell # "CG" => b.radius = a.radius) /\ b.k = a.k
  /\ \A power \in Nat \ {0} : Term(b.type, b.coeffs, power) = Term(a.type, a.coeffs, power)
  /\ \A c \in Configurations(p) : /\ thicknessOf(b, c) = thicknessOf(a, c)
                                  /\ diameterOf(b, c) = diameterOf(a, c)

LEMMA FirstOrderReadBack ==
  ASSUME NEW p, LensOK(p), NEW c \in Configurations(p)
  PROVE  firstOf(build_prescription(to_opt_bench_str(p)), c) = firstOf(p, c)
<1> DEFINE file == to_opt_bench_str(p)
           q == build_prescription(file)
           values == file.variables[FirstOrder]
           scenarios == configured_scenarios(file)
<1>1. /\ scenarios = [e \in DOMAIN p.names |-> e - 1]
      /\ p.names = <<>> => scenarios = <<>>
      /\ scenario_of_configuration(file, 0) = 0
  BY WrittenShape
<1>2. values[c] = firstOf(p, c)
  BY FirstOrderOfLens
<1>3. /\ q.first = require_value(file, FirstOrder, 0)
      /\ q.firstBy = [e \in DOMAIN scenarios |-> require_value(file, FirstOrder, scenarios[e])]
  BY <1>1 DEF build_prescription
<1>4. DOMAIN p.names = 1..Len(p.names) /\ Len(p.names) \in Nat
  BY ListIs DEF LensOK
<1>5. \A scenario : require_value(file, FirstOrder, scenario) = values[scenario + 1]
  BY DEF require_value
<1> HIDE DEF file, q, values, scenarios
<1>6. CASE p.names = <<>>
  <2>1. c = 1
    BY <1>6 DEF Configurations, Multi
  <2>2. DOMAIN q.firstBy = {}
    BY <1>1, <1>3, <1>6
  <2>3. q.firstBy = <<>>
    <3>1. DOMAIN scenarios = {}
      BY <1>1, <1>6
    <3>2. q.firstBy = [e \in {} |-> require_value(file, FirstOrder, scenarios[e])]
      BY <1>3, <3>1
    <3> QED
      BY <3>2
  <2>4. q.first = values[1]
    <3>1. 0 + 1 = 1
      OBVIOUS
    <3> QED
      BY <1>3, <1>5, <3>1
  <2> QED
    BY <1>2, <2>1, <2>3, <2>4 DEF firstOf, q, file
<1>7. CASE p.names # <<>>
  <2>1. c \in DOMAIN p.names
    BY <1>7 DEF Configurations, Multi
  <2>2. c \in DOMAIN scenarios /\ scenarios[c] = c - 1
    BY <1>1, <2>1
  <2>3. (c - 1) + 1 = c
    BY <1>4, <2>1
  <2>4. q.firstBy[c] = values[c]
    BY <1>3, <1>5, <2>2, <2>3
  <2>5. q.firstBy # <<>>
    <3>1. DOMAIN q.firstBy = DOMAIN scenarios
      BY <1>3
    <3> QED
      BY <2>2, <3>1
  <2> QED
    BY <1>2, <2>4, <2>5 DEF firstOf, q, file
<1> QED
  BY <1>6, <1>7

LEMMA SurfaceReadBack ==
  ASSUME NEW p, LensOK(p), NEW s \in DOMAIN p.surfaces
  PROVE  Alike(p, p.surfaces[s], import_surface(to_opt_bench_str(p), s))
<1> DEFINE a == p.surfaces[s]
           file == to_opt_bench_str(p)
           row == to_opt_bench_row(p, s)
           b == import_surface(file, s)
<1>1. SurfaceOK(p, a)
  BY DEF LensOK
<1>2. file.rows[s] = row
  BY WrittenShape
<1>3. row.cell = a.cell /\ row.radius = IF a.cell = "R" THEN a.radius ELSE 0
  BY DEF to_opt_bench_row
<1>4. b.cell = row.cell /\ b.radius = IF row.cell = "R" THEN row.radius ELSE 0
  BY <1>2, ImportedSurface
<1>5. b.k = a.k /\ \A power \in Nat \ {0} :
                     Term(b.type, b.coeffs, power) = Term(a.type, a.coeffs, power)
  BY ShapeReadBack
<1>6. \A c \in Configurations(p) : /\ thicknessOf(b, c) = thicknessOf(a, c)
                                   /\ diameterOf(b, c) = diameterOf(a, c)
  BY ValuesReadBack
<1> HIDE DEF row, file, b
<1>7. a.cell # "CG" => b.radius = a.radius
  BY <1>1, <1>3, <1>4 DEF SurfaceOK, Cells
<1> HIDE DEF a
<1>8. b.cell = a.cell
  BY <1>3, <1>4
<1> QED
  BY <1>5, <1>6, <1>7, <1>8 DEF Alike, a, b, file

\* A lens goes through its text unharmed, whichever of the two forms its
\* aspheres are written in and however many configurations it has.
THEOREM LensIsReadBack ==
  ASSUME NEW p, LensOK(p)
  PROVE  LET file == to_opt_bench_str(p)
             q == build_prescription(file)
         IN /\ CanWrite(p) /\ Buildable(file) /\ LensOK(q)
            /\ q.names = p.names /\ DOMAIN q.surfaces = DOMAIN p.surfaces
            /\ \A c \in Configurations(p) : firstOf(q, c) = firstOf(p, c)
            /\ \A s \in DOMAIN p.surfaces : Alike(p, p.surfaces[s], q.surfaces[s])
<1> DEFINE file == to_opt_bench_str(p)
           q == build_prescription(file)
<1>1. CanWrite(p) /\ Buildable(file)
  BY LensWritable, WrittenBuildable
<1>2. IsText(file) /\ file.names = p.names /\ DOMAIN file.rows = DOMAIN p.surfaces
  BY WrittenShape
<1>3. LensOK(q)
  BY <1>1, <1>2, ImportedLens
<1>4. q.names = p.names
  <2>1. q.names = IF configured_scenarios(file) = <<>> THEN <<>> ELSE file.names
    BY DEF build_prescription
  <2>2. p.names # <<>> => configured_scenarios(file) # <<>>
    <3>1. /\ configured_scenarios(file) = [c \in DOMAIN p.names |-> c - 1]
          /\ p.names # <<>> => 1 \in DOMAIN p.names
      BY WrittenShape
    <3> HIDE DEF file
    <3>2. DOMAIN configured_scenarios(file) = DOMAIN p.names
      BY <3>1
    <3> QED
      BY <3>1, <3>2
  <2> HIDE DEF q, file
  <2> QED
    BY <1>2, <2>1, <2>2
<1>5. q.surfaces = [s \in DOMAIN file.rows |-> import_surface(file, s)]
  BY DEF build_prescription
<1>6. \A s \in DOMAIN p.surfaces : Alike(p, p.surfaces[s], import_surface(file, s))
  BY SurfaceReadBack
<1>7. \A c \in Configurations(p) : firstOf(q, c) = firstOf(p, c)
  BY FirstOrderReadBack
<1> HIDE DEF q, file
<1>8. /\ DOMAIN q.surfaces = DOMAIN p.surfaces
      /\ \A s \in DOMAIN p.surfaces : Alike(p, p.surfaces[s], q.surfaces[s])
  BY <1>2, <1>5, <1>6
<1> QED
  BY <1>1, <1>3, <1>4, <1>7, <1>8 DEF q, file

-----------------------------------------------------------------------------
(* Varied spheres become aspheres *)

Shaped(type) == type \in {Even, EvenA2, Radial}

\* The last argument is a list of indices; term i of the settings names
\* surface terms[i][1], from 0, and coefficient terms[i][2], -1 for the conic.
TermsAccepted(p, terms) ==
  /\ IsList(terms)
  /\ \A i \in DOMAIN terms :
       /\ terms[i][2] \in Int
       /\ terms[i][1] \in SurfaceNumbers(p) /\ ~IsStop(p, terms[i][1])
       /\ terms[i][2] >= 0 => HasTerm(asphereTypeOf(p, terms[i][1]), terms[i][2])

LEMMA SurfaceNumbersAre ==
  ASSUME NEW p, IsList(p.surfaces)
  PROVE  /\ SurfaceNumbers(p) = 0..(Len(p.surfaces) - 1) /\ Len(p.surfaces) \in Nat
         /\ \A s \in SurfaceNumbers(p) :
              s + 1 \in DOMAIN p.surfaces /\ Surface(p, s) = p.surfaces[s + 1] /\ s \in Nat
         /\ \A s \in DOMAIN p.surfaces :
              s - 1 \in SurfaceNumbers(p) /\ Surface(p, s - 1) = p.surfaces[s] /\ s \in Nat
<1>1. Len(p.surfaces) \in Nat /\ DOMAIN p.surfaces = 1..Len(p.surfaces)
  BY ListIs
<1>2. \A s \in 0..(Len(p.surfaces) - 1) : s + 1 \in DOMAIN p.surfaces /\ s \in Nat
  BY <1>1
<1>3. \A s \in DOMAIN p.surfaces : s - 1 \in 0..(Len(p.surfaces) - 1) /\ (s - 1) + 1 = s /\ s \in Nat
  BY <1>1
<1> QED
  BY <1>1, <1>2, <1>3 DEF SurfaceNumbers, Surface

\* The form a varied sphere takes is that of the file's aspheres.
LEMMA TypeTaken ==
  ASSUME NEW p, LensOK(p), NEW s \in DOMAIN p.surfaces
  PROVE  LET type == asphereTypeOf(p, s - 1)
         IN /\ Shaped(type)
            /\ p.surfaces[s].type # Spherical => type = p.surfaces[s].type
            /\ p.odd > 0 => type # EvenA2
            /\ p.odd = 0 => type # Radial
            /\ type = EvenA2 => \E t \in DOMAIN p.surfaces : p.surfaces[t].type = EvenA2
            /\ p.odd = 0 /\ type = Even =>
                 \A t \in DOMAIN p.surfaces : p.surfaces[t].type # EvenA2
<1> DEFINE type == asphereTypeOf(p, s - 1)
<1>1. Surface(p, s - 1) = p.surfaces[s]
  BY SurfaceNumbersAre DEF LensOK
<1>2. type = IF p.surfaces[s].type # Spherical THEN p.surfaces[s].type
             ELSE IF has_radial_aspheric(p) THEN Radial
             ELSE IF has_even_a2_aspheric(p) THEN EvenA2 ELSE Even
  BY <1>1 DEF asphereTypeOf
<1>3. p.surfaces[s].type \in {Spherical, Even, EvenA2, Radial} /\ FormsOK(p)
  BY DEF LensOK, SurfaceOK, TermsOK
<1> HIDE DEF type
<1>4. has_even_a2_aspheric(p) <=> \E t \in DOMAIN p.surfaces : p.surfaces[t].type = EvenA2
  BY DEF has_even_a2_aspheric
<1>5. has_radial_aspheric(p) <=> \E t \in DOMAIN p.surfaces : p.surfaces[t].type = Radial
  BY DEF has_radial_aspheric
<1>6. CASE p.surfaces[s].type # Spherical
  <2>1. type = p.surfaces[s].type
    BY <1>2, <1>6
  <2> QED
    BY <1>3, <1>6, <2>1 DEF FormsOK, Shaped, type
<1>7. CASE p.surfaces[s].type = Spherical
  <2>1. type = IF has_radial_aspheric(p) THEN Radial
               ELSE IF has_even_a2_aspheric(p) THEN EvenA2 ELSE Even
    BY <1>2, <1>7
  <2>2. Shaped(type)
    BY <2>1 DEF Shaped
  <2>3. type = EvenA2 => has_even_a2_aspheric(p)
    BY <2>1 DEF EvenA2, Radial, Even
  <2>4. type = Radial => has_radial_aspheric(p)
    BY <2>1 DEF EvenA2, Radial, Even
  <2>5. type = Even => ~has_even_a2_aspheric(p)
    BY <2>1 DEF EvenA2, Radial, Even
  <2> QED
    BY <1>3, <1>4, <1>5, <1>7, <2>2, <2>3, <2>4, <2>5 DEF FormsOK, type
<1> QED
  BY <1>6, <1>7

\* A longer list with the same terms is the same polynomial.
LEMMA LongerTerms ==
  ASSUME NEW type, NEW coeffs, TermsOK(type, coeffs),
         NEW wide, Shaped(wide), type # Spherical => wide = type,
         NEW n \in Nat, Len(coeffs) <= n, NEW longer,
         longer = [i \in 1..n |-> IF i \in DOMAIN coeffs THEN coeffs[i] ELSE 0]
  PROVE  /\ TermsOK(wide, longer)
         /\ \A power \in Nat \ {0} : Term(wide, longer, power) = Term(type, coeffs, power)
         /\ coeffs # <<>> => longer # <<>>
<1>1. IsList(coeffs) /\ Len(coeffs) \in Nat /\ DOMAIN coeffs = 1..Len(coeffs)
  BY ListIs DEF TermsOK
<1>2. IsList(longer) /\ Len(longer) = n /\ DOMAIN longer = 1..n
  <2>1. longer = [i \in 1..n |-> longer[i]]
    OBVIOUS
  <2> QED
    BY <2>1, ListMade
<1>3. \A i \in 1..n : longer[i] = IF i \in DOMAIN coeffs THEN coeffs[i] ELSE 0
  OBVIOUS
<1>4. TermsOK(wide, longer)
  <2>1. wide = Even /\ 1 \in DOMAIN longer => longer[1] = 0
    BY <1>1, <1>2, <1>3 DEF TermsOK
  <2>2. wide = Radial => \A i \in DOMAIN longer : i <= 2 => longer[i] = 0
    BY <1>1, <1>2, <1>3 DEF TermsOK
  <2> QED
    BY <1>2, <2>1, <2>2 DEF TermsOK, Shaped, Even, EvenA2, Radial, Spherical
<1>5. ASSUME NEW power \in Nat \ {0}
      PROVE  Term(wide, longer, power) = Term(type, coeffs, power)
  <2>1. \A m \in Nat : (IF m \in DOMAIN longer THEN longer[m] ELSE 0)
                         = (IF m \in DOMAIN coeffs THEN coeffs[m] ELSE 0)
    <3> SUFFICES ASSUME NEW m \in Nat
                 PROVE  (IF m \in DOMAIN longer THEN longer[m] ELSE 0)
                          = (IF m \in DOMAIN coeffs THEN coeffs[m] ELSE 0)
      OBVIOUS
    <3>1. CASE m \in DOMAIN longer
      BY <1>2, <1>3, <3>1
    <3>2. CASE m \notin DOMAIN longer
      <4>1. m \notin DOMAIN coeffs
        BY <1>1, <1>2, <3>2
      <4> QED
        BY <3>2, <4>1
    <3> QED
      BY <3>1, <3>2
  <2>2. CASE wide = Radial
    <3>1. Term(wide, longer, power) = IF power \in DOMAIN longer THEN longer[power] ELSE 0
      BY <1>2, <2>2, RadialTerm
    <3>2. CASE type = Radial
      <4>1. Term(type, coeffs, power) = IF power \in DOMAIN coeffs THEN coeffs[power] ELSE 0
        BY <1>1, <3>2, RadialTerm
      <4> QED
        BY <2>1, <3>1, <4>1
    <3>3. CASE type # Radial
      <4>1. coeffs = <<>>
        BY <2>2, <3>3 DEF TermsOK
      <4>2. Term(type, coeffs, power) = 0
        BY <4>1 DEF Term
      <4>3. power \notin DOMAIN coeffs
        BY <4>1
      <4> QED
        BY <2>1, <3>1, <4>2, <4>3
    <3> QED
      BY <3>2, <3>3
  <2>3. CASE wide # Radial
    <3>1. type # Radial
      <4>1. Radial # Spherical
        BY DEF Radial, Spherical
      <4> QED
        BY <2>3, <4>1
    <3>2. Term(wide, longer, power)
            = IF power % 2 = 0 /\ power \div 2 \in DOMAIN longer THEN longer[power \div 2] ELSE 0
      BY ONLY <1>2, <1>5, <2>3, EvenTerm
    <3>3. Term(type, coeffs, power)
            = IF power % 2 = 0 /\ power \div 2 \in DOMAIN coeffs THEN coeffs[power \div 2] ELSE 0
      BY <1>1, <3>1, EvenTerm
    <3> DEFINE m == power \div 2
    <3>4. m \in Nat
      OBVIOUS
    <3> HIDE DEF m
    <3>5. (IF m \in DOMAIN longer THEN longer[m] ELSE 0)
            = (IF m \in DOMAIN coeffs THEN coeffs[m] ELSE 0)
      BY <2>1, <3>4
    <3>6. CASE power % 2 = 0
      BY <3>2, <3>3, <3>5, <3>6 DEF m
    <3>7. CASE power % 2 # 0
      BY <3>2, <3>3, <3>7
    <3> QED
      BY <3>6, <3>7
  <2> QED
    BY <2>2, <2>3
<1>6. coeffs # <<>> => longer # <<>>
  <2>1. coeffs # <<>> => 1 \in DOMAIN coeffs
    BY <1>1
  <2> QED
    BY <1>1, <1>2, <2>1
<1> QED
  BY <1>4, <1>5, <1>6

SameButForm(a, b) ==
  /\ b.cell = a.cell /\ b.radius = a.radius /\ b.k = a.k
  /\ b.thick = a.thick /\ b.thickBy = a.thickBy
  /\ b.diameter = a.diameter /\ b.diameterBy = a.diameterBy
  /\ \A power \in Nat \ {0} : Term(b.type, b.coeffs, power) = Term(a.type, a.coeffs, power)
  /\ a.type = Radial /\ a.coeffs # <<>> => b.type = Radial /\ b.coeffs # <<>>

Touches(terms, s) == {i \in DOMAIN terms : terms[i][1] = s - 1}

LEMMA LongEnough ==
  ASSUME NEW terms, IsList(terms), \A i \in DOMAIN terms : terms[i][2] \in Int,
         NEW s, NEW n \in Nat
  PROVE  LET longest == Max({terms[i][2] + 1 : i \in Touches(terms, s)} \cup {n})
         IN longest \in Nat /\ n <= longest
<1> DEFINE S == {terms[i][2] + 1 : i \in Touches(terms, s)} \cup {n}
           f == [i \in DOMAIN terms |-> terms[i][2] + 1]
           all == {f[i] : i \in 1..Len(terms)} \cup {n}
<1>1. Len(terms) \in Nat /\ DOMAIN terms = 1..Len(terms)
  BY ListIs
<1>2. IsFiniteSet(all)
  <2>1. IsFiniteSet({f[i] : i \in 1..Len(terms)})
    <3> HIDE DEF f
    <3> QED
      BY <1>1, ImageFinite
  <2> QED
    BY <2>1, FS_AddElement
<1>3. S \subseteq all
  BY <1>1 DEF Touches
<1>4. S \in SUBSET Int /\ n \in S
  BY DEF Touches
<1>5. IsFiniteSet(S)
  <2> HIDE DEF S, all
  <2> QED
    BY <1>2, <1>3, FS_Subset
<1> HIDE DEF S
<1>6. PICK x \in S : \A y \in S : y <= x
  <2>1. S # {}
    BY <1>4
  <2> QED
    BY <1>4, <1>5, <2>1, GreatestExists
<1>7. \A y \in S : x >= y
  BY <1>4, <1>6
<1>8. Max(S) \in S /\ \A y \in S : Max(S) >= y
  BY <1>7 DEF Max
<1>9. Max(S) \in Nat /\ n <= Max(S)
  <2> DEFINE m == Max(S)
  <2>1. m \in S /\ m >= n
    BY <1>4, <1>8
  <2>2. m \in Int
    BY <1>4, <2>1
  <2> HIDE DEF m
  <2>3. m \in Nat /\ n <= m
    BY <2>1, <2>2
  <2> QED
    BY <2>3 DEF m
<1> QED
  BY <1>9 DEF S

LEMMA ExplicitSurface ==
  ASSUME NEW p, LensOK(p), NEW terms, TermsAccepted(p, terms), NEW s \in DOMAIN p.surfaces
  PROVE  LET a == p.surfaces[s]
             b == WithExplicitTerms(p, terms).surfaces[s]
         IN /\ Touches(terms, s) = {} => b = a
            /\ Touches(terms, s) # {} => b.type = asphereTypeOf(p, s - 1)
            /\ SurfaceOK(p, b) /\ SameButForm(a, b)
            /\ b.type \in {a.type, asphereTypeOf(p, s - 1)}
<1> DEFINE a == p.surfaces[s]
           b == WithExplicitTerms(p, terms).surfaces[s]
           type == asphereTypeOf(p, s - 1)
           longest == Max({terms[i][2] + 1 : i \in Touches(terms, s)} \cup {Len(a.coeffs)})
           longer == [i \in 1..longest |-> IF i \in DOMAIN a.coeffs THEN a.coeffs[i] ELSE 0]
<1>1. /\ IsList(p.surfaces) /\ SurfaceOK(p, a) /\ TermsOK(a.type, a.coeffs) /\ IsSurface(a)
      /\ p = [odd |-> p.odd, first |-> p.first, firstBy |-> p.firstBy, names |-> p.names,
              surfaces |-> p.surfaces]
  BY DEF LensOK, SurfaceOK
<1>2. Surface(p, s - 1) = a
  BY <1>1, SurfaceNumbersAre
<1>3. Len(a.coeffs) \in Nat
  BY <1>1, ListIs DEF TermsOK
<1>4. longest \in Nat /\ Len(a.coeffs) <= longest
  BY <1>3, LongEnough DEF TermsAccepted
<1>5. Shaped(type) /\ (a.type # Spherical => type = a.type)
  BY TypeTaken
<1>6. b = IF Touches(terms, s) = {} THEN a
          ELSE [a EXCEPT !.type = type,
                  !.coeffs = [i \in 1..longest |-> coefficientOf(p, s - 1, i - 1)]]
  BY <1>1 DEF WithExplicitTerms, Touches
<1>7. [i \in 1..longest |-> coefficientOf(p, s - 1, i - 1)] = longer
  <2> HIDE DEF longest, a
  <2>1. ASSUME NEW i \in 1..longest
        PROVE  coefficientOf(p, s - 1, i - 1) = IF i \in DOMAIN a.coeffs THEN a.coeffs[i] ELSE 0
    <3>1. (i - 1) + 1 = i
      BY <1>4
    <3> QED
      BY <1>2, <3>1 DEF coefficientOf
  <2> QED
    BY <2>1
<1>8. /\ TermsOK(type, longer)
      /\ \A power \in Nat \ {0} : Term(type, longer, power) = Term(a.type, a.coeffs, power)
      /\ a.coeffs # <<>> => longer # <<>>
  <2> HIDE DEF type, longest, a
  <2> QED
    BY <1>1, <1>4, <1>5, LongerTerms
<1>9. CASE Touches(terms, s) = {}
  <2>1. b = a
    BY <1>6, <1>9
  <2> HIDE DEF b
  <2> QED
    BY <1>1, <1>9, <2>1 DEF SameButForm, b
<1>10. CASE Touches(terms, s) # {}
  <2>1. b = [a EXCEPT !.type = type, !.coeffs = longer]
    BY <1>6, <1>7, <1>10
  <2>2. a.cell \notin {"AS", "FS"}
    <3>1. PICK i \in DOMAIN terms : terms[i][1] = s - 1
      BY <1>10 DEF Touches
    <3> QED
      BY <1>2, <3>1 DEF TermsAccepted, IsStop
  <2> HIDE DEF b, longer, type
  <2>3. /\ b = [cell |-> a.cell, radius |-> a.radius, thick |-> a.thick, thickBy |-> a.thickBy,
                diameter |-> a.diameter, diameterBy |-> a.diameterBy,
                type |-> type, k |-> a.k, coeffs |-> longer]
    BY <1>1, <2>1 DEF IsSurface
  <2> HIDE DEF a
  <2>4. /\ b.cell = a.cell /\ b.radius = a.radius /\ b.k = a.k
        /\ b.thick = a.thick /\ b.thickBy = a.thickBy
        /\ b.diameter = a.diameter /\ b.diameterBy = a.diameterBy
        /\ b.type = type /\ b.coeffs = longer /\ IsSurface(b)
    BY <2>3 DEF IsSurface
  <2>5. type # Spherical
    BY <1>5 DEF Shaped, Spherical, Even, EvenA2, Radial
  <2>6. SurfaceOK(p, b)
    BY <1>1, <1>8, <2>2, <2>4, <2>5 DEF SurfaceOK
  <2>7. a.type = Radial => type = Radial
    BY <1>5 DEF Radial, Spherical
  <2>8. SameButForm(a, b)
    BY <1>8, <2>4, <2>7 DEF SameButForm
  <2> QED
    BY <1>10, <2>4, <2>6, <2>8 DEF a, b, type
<1> QED
  BY <1>9, <1>10

LEMMA ExplicitLens ==
  ASSUME NEW p, LensOK(p), NEW terms, TermsAccepted(p, terms)
  PROVE  LET q == WithExplicitTerms(p, terms)
         IN /\ LensOK(q) /\ q.odd = p.odd /\ q.names = p.names
            /\ DOMAIN q.surfaces = DOMAIN p.surfaces /\ Len(q.surfaces) = Len(p.surfaces)
            /\ \A s \in DOMAIN p.surfaces : SameButForm(p.surfaces[s], q.surfaces[s])
<1> DEFINE q == WithExplicitTerms(p, terms)
<1>1. /\ p = [odd |-> p.odd, first |-> p.first, firstBy |-> p.firstBy, names |-> p.names,
              surfaces |-> p.surfaces]
      /\ IsList(p.surfaces) /\ FormsOK(p)
  BY DEF LensOK
<1>2. PICK e : q = [p EXCEPT !.surfaces = [s \in DOMAIN p.surfaces |-> e[s]]]
  <2> DEFINE on(s) == {i \in DOMAIN terms : terms[i][1] = s - 1}
             longest(s) == Max({terms[i][2] + 1 : i \in on(s)} \cup {Len(p.surfaces[s].coeffs)})
             made(s) == IF on(s) = {} THEN p.surfaces[s]
                        ELSE [p.surfaces[s] EXCEPT !.type = asphereTypeOf(p, s - 1),
                                !.coeffs = [i \in 1..longest(s) |-> coefficientOf(p, s - 1, i - 1)]]
             e == [s \in DOMAIN p.surfaces |-> made(s)]
  <2>1. q = [p EXCEPT !.surfaces = [s \in DOMAIN p.surfaces |-> made(s)]]
    BY DEF WithExplicitTerms
  <2> HIDE DEF made, q
  <2>2. [s \in DOMAIN p.surfaces |-> made(s)] = [s \in DOMAIN p.surfaces |-> e[s]]
    OBVIOUS
  <2> HIDE DEF e
  <2> QED
    BY <2>1, <2>2
<1>3. \A s \in DOMAIN p.surfaces :
        /\ SurfaceOK(p, q.surfaces[s]) /\ SameButForm(p.surfaces[s], q.surfaces[s])
        /\ q.surfaces[s].type \in {p.surfaces[s].type, asphereTypeOf(p, s - 1)}
  BY ExplicitSurface
<1> HIDE DEF q
<1>4. /\ q.odd = p.odd /\ q.first = p.first /\ q.firstBy = p.firstBy /\ q.names = p.names
      /\ DOMAIN q.surfaces = DOMAIN p.surfaces
      /\ q.surfaces = [s \in DOMAIN p.surfaces |-> q.surfaces[s]]
      /\ q = [odd |-> q.odd, first |-> q.first, firstBy |-> q.firstBy, names |-> q.names,
              surfaces |-> q.surfaces]
  BY <1>1, <1>2
<1>5. IsList(q.surfaces) /\ Len(q.surfaces) = Len(p.surfaces)
  <2>1. Len(p.surfaces) \in Nat /\ DOMAIN p.surfaces = 1..Len(p.surfaces)
    BY <1>1, ListIs
  <2>2. q.surfaces = [s \in 1..Len(p.surfaces) |-> q.surfaces[s]]
    BY <1>4, <2>1
  <2> QED
    BY <2>1, <2>2, ListMade
<1>6. \A s \in DOMAIN q.surfaces : SurfaceOK(q, q.surfaces[s])
  BY <1>3, <1>4 DEF SurfaceOK, PerConfiguration
<1>7. FormsOK(q)
  <2>1. \A s \in DOMAIN p.surfaces :
          LET type == asphereTypeOf(p, s - 1)
          IN /\ p.odd > 0 => type # EvenA2
             /\ p.odd = 0 => type # Radial
             /\ type = EvenA2 => \E t \in DOMAIN p.surfaces : p.surfaces[t].type = EvenA2
             /\ p.odd = 0 /\ type = Even =>
                  \A t \in DOMAIN p.surfaces : p.surfaces[t].type # EvenA2
    BY TypeTaken
  <2>2. p.odd > 0 => \A s \in DOMAIN p.surfaces : q.surfaces[s].type # EvenA2
    BY <1>1, <1>3, <2>1 DEF FormsOK
  <2>3. p.odd = 0 => \A s \in DOMAIN p.surfaces : q.surfaces[s].type # Radial
    BY <1>1, <1>3, <2>1 DEF FormsOK
  <2>4. ASSUME p.odd = 0, NEW s \in DOMAIN p.surfaces, NEW t \in DOMAIN p.surfaces,
               q.surfaces[s].type = Even, q.surfaces[t].type = EvenA2
        PROVE  FALSE
    <3>1. \E r \in DOMAIN p.surfaces : p.surfaces[r].type = EvenA2
      BY <1>3, <2>1, <2>4
    <3>2. p.surfaces[s].type # Even
      BY <1>1, <2>4, <3>1 DEF FormsOK
    <3>3. asphereTypeOf(p, s - 1) = Even
      BY <1>3, <2>4, <3>2
    <3> QED
      BY <2>1, <2>4, <3>1, <3>3
  <2> QED
    BY <1>4, <2>2, <2>3, <2>4 DEF FormsOK
<1>8. \A s, t \in DOMAIN q.surfaces :
        q.surfaces[s].cell = "AS" /\ q.surfaces[t].cell = "AS" =>
          q.surfaces[s].diameterBy = q.surfaces[t].diameterBy
  BY <1>3, <1>4 DEF LensOK, SameButForm
<1>9. LensOK(q)
  BY <1>4, <1>5, <1>6, <1>7, <1>8 DEF LensOK
<1> QED
  BY <1>3, <1>4, <1>5, <1>9 DEF q

-----------------------------------------------------------------------------
(* What a solve leaves *)

\* What a variable may be of, for a prescription and the trial's scenario.
VariableOK(p, scenario, v) ==
  /\ v[1] = "radius" => ~IsStop(p, v[2])
  /\ v[1] = "thickness" => v[3] = scenario
  /\ v[1] = "conic" => Surface(p, v[2]).type # Spherical
  /\ v[1] = "coefficient" => v[3] \in Int /\ HasTerm(Surface(p, v[2]).type, v[3])

VariablesOK(p, scenario, vs) ==
  \A i \in DOMAIN vs : /\ VariableOK(p, scenario, vs[i])
                       /\ vs[i] = <<vs[i][1], vs[i][2], vs[i][3]>>

Varies(vs, parameter) == \E i \in DOMAIN vs : vs[i] = parameter

\* What a solve leaves of a surface.
Solved(p, scenario, s, vs, a, b) ==
  /\ b.cell = a.cell /\ b.type = a.type
  /\ b.diameter = a.diameter /\ b.diameterBy = a.diameterBy
  /\ b.radius = a.radius \/ Varies(vs, <<"radius", s - 1, 0>>)
  /\ b.k = a.k \/ Varies(vs, <<"conic", s - 1, 0>>)
  /\ a.coeffs # <<>> => b.coeffs # <<>>
  /\ \A power \in Nat \ {0} :
       \/ Term(b.type, b.coeffs, power) = Term(a.type, a.coeffs, power)
       \/ \E index \in Int : /\ Varies(vs, <<"coefficient", s - 1, index>>)
                             /\ powerOf(a.type, index) = power
  /\ \A c \in Configurations(p) :
       \/ thicknessOf(b, c) = thicknessOf(a, c)
       \/ Varies(vs, <<"thickness", s - 1, c - 1>>)
       \/ a.thickBy = <<>> /\ Varies(vs, <<"thickness", s - 1, scenario>>)
  /\ b.thickBy = <<>> <=> a.thickBy = <<>>

LEMMA Unwritten ==
  ASSUME NEW vs, NEW values, NEW parameter, NEW before
  PROVE  ValueAfter(vs, values, parameter, before) = before \/ Varies(vs, parameter)
BY DEF ValueAfter, Varies

SameButThickness(a, b) ==
  b = [cell |-> a.cell, radius |-> a.radius, thick |-> b.thick, thickBy |-> b.thickBy,
       diameter |-> a.diameter, diameterBy |-> a.diameterBy,
       type |-> a.type, k |-> a.k, coeffs |-> a.coeffs]

LEMMA ThicknessLeft ==
  ASSUME NEW p, NEW scenario, NEW vs, VariablesOK(p, scenario, vs),
         IsList(p.names), NEW a, IsSurface(a), PerConfiguration(p, a.thickBy), NEW n, NEW values,
         NEW b, b = VarThickness(a, n, vs, values)
  PROVE  /\ SameButThickness(a, b)
         /\ PerConfiguration(p, b.thickBy)
         /\ b.thickBy = <<>> <=> a.thickBy = <<>>
         /\ \A c \in Configurations(p) :
              \/ thicknessOf(b, c) = thicknessOf(a, c)
              \/ Varies(vs, <<"thickness", n, c - 1>>)
              \/ a.thickBy = <<>> /\ Varies(vs, <<"thickness", n, scenario>>)
<1>1. CASE WritesThickness(vs, n) = {}
  <2>1. b = a
    BY <1>1 DEF VarThickness
  <2>2. SameButThickness(a, b)
    BY <2>1 DEF IsSurface, SameButThickness
  <2> QED
    BY <2>1, <2>2
<1>2. CASE WritesThickness(vs, n) # {} /\ a.thickBy = <<>>
  <2>1. PICK e : b = [a EXCEPT !.thick = e]
    BY <1>2 DEF VarThickness
  <2>2. b.thickBy = <<>> /\ SameButThickness(a, b)
    BY <1>2, <2>1 DEF IsSurface, SameButThickness
  <2>3. Varies(vs, <<"thickness", n, scenario>>)
    <3>1. PICK i \in DOMAIN vs : vs[i][1] = "thickness" /\ vs[i][2] = n
      BY <1>2 DEF WritesThickness
    <3>2. vs[i] = <<"thickness", n, scenario>>
      BY <3>1 DEF VariablesOK, VariableOK
    <3> QED
      BY <3>2 DEF Varies
  <2> QED
    BY <1>2, <2>2, <2>3 DEF PerConfiguration
<1>3. CASE WritesThickness(vs, n) # {} /\ a.thickBy # <<>>
  <2> DEFINE by == [c \in DOMAIN a.thickBy |->
                      ValueAfter(vs, values, <<"thickness", n, c - 1>>, a.thickBy[c])]
  <2>1. b = [a EXCEPT !.thickBy = by]
    BY <1>3 DEF VarThickness
  <2>2. DOMAIN a.thickBy = DOMAIN p.names /\ Configurations(p) = DOMAIN p.names /\ p.names # <<>>
    <3>1. DOMAIN a.thickBy = Configurations(p) /\ Multi(p)
      BY <1>3, PerConfigurationDomain
    <3> QED
      BY <3>1 DEF Configurations, Multi
  <2>3. \A c \in DOMAIN p.names : by[c] = a.thickBy[c] \/ Varies(vs, <<"thickness", n, c - 1>>)
    BY <2>2, Unwritten
  <2>4. by = [c \in DOMAIN p.names |-> by[c]]
    BY <2>2
  <2>5. by # <<>>
    <3>1. 1 \in DOMAIN p.names
      BY <2>2, ListIs
    <3>2. 1 \in DOMAIN by
      BY <2>2, <3>1
    <3> HIDE DEF by
    <3> QED
      BY <3>2
  <2> HIDE DEF by
  <2>6. b.thickBy = by /\ SameButThickness(a, b)
    BY <2>1 DEF IsSurface, SameButThickness
  <2>7. PerConfiguration(p, b.thickBy)
    BY <2>2, <2>4, <2>6 DEF PerConfiguration
  <2>8. \A c \in Configurations(p) : \/ thicknessOf(b, c) = thicknessOf(a, c)
                                     \/ Varies(vs, <<"thickness", n, c - 1>>)
    BY <1>3, <2>2, <2>3, <2>5, <2>6 DEF thicknessOf
  <2> QED
    BY <1>3, <2>5, <2>6, <2>7, <2>8
<1> QED
  BY <1>1, <1>2, <1>3

\* Coefficients as a solve rewrites them, and what remains of the polynomial.
Rewritten(vs, n, coeffs, after) ==
  /\ IsList(after) /\ Len(after) = Len(coeffs)
  /\ \A i \in DOMAIN coeffs :
       after[i] = coeffs[i] \/ Varies(vs, <<"coefficient", n, i - 1>>)

Remains(vs, n, type, coeffs, after) ==
  /\ TermsOK(type, after)
  /\ coeffs # <<>> => after # <<>>
  /\ \A power \in Nat \ {0} :
       \/ Term(type, after, power) = Term(type, coeffs, power)
       \/ \E index \in Int : /\ Varies(vs, <<"coefficient", n, index>>)
                             /\ powerOf(type, index) = power

\* The coefficients that are always zero are not among the variables.
LEMMA CoefficientsLeft ==
  ASSUME NEW p, NEW scenario, NEW vs, VariablesOK(p, scenario, vs),
         NEW n, NEW a, a = Surface(p, n), TermsOK(a.type, a.coeffs),
         NEW after, Rewritten(vs, n, a.coeffs, after)
  PROVE  Remains(vs, n, a.type, a.coeffs, after)
<1>0. IsList(after) /\ Len(after) = Len(a.coeffs)
  BY DEF Rewritten
<1>1. IsList(a.coeffs) /\ Len(a.coeffs) \in Nat /\ DOMAIN a.coeffs = 1..Len(a.coeffs)
  BY ListIs DEF TermsOK
<1>2. \A i \in DOMAIN a.coeffs : after[i] = a.coeffs[i] \/ Varies(vs, <<"coefficient", n, i - 1>>)
  BY DEF Rewritten
<1>4. IsList(after) /\ Len(after) = Len(a.coeffs) /\ DOMAIN after = DOMAIN a.coeffs
  BY <1>0, <1>1, ListIs
<1>5. ASSUME NEW i \in DOMAIN a.coeffs, after[i] # a.coeffs[i]
      PROVE  HasTerm(a.type, i - 1) /\ i \in Int
  <2>1. PICK j \in DOMAIN vs : vs[j] = <<"coefficient", n, i - 1>>
    BY <1>2, <1>5 DEF Varies
  <2>2. VariableOK(p, scenario, vs[j])
    BY DEF VariablesOK
  <2>3. vs[j][1] = "coefficient" /\ vs[j][2] = n /\ vs[j][3] = i - 1
    BY <2>1
  <2> QED
    BY <1>1, <2>2, <2>3 DEF VariableOK
<1>6. TermsOK(a.type, after)
  <2>1. a.type = Spherical => after = <<>>
    <3>1. a.type = Spherical => DOMAIN after = {}
      BY <1>4 DEF TermsOK
    <3>2. DOMAIN after = {} => Len(after) = 0
      BY ONLY <1>1, <1>4
    <3> QED
      BY <1>4, <3>1, <3>2, ListIs
  <2>2. a.type = Even => (1 \in DOMAIN after => after[1] = 0)
    <3>1. a.type = Even => ~HasTerm(a.type, 1 - 1)
      BY DEF HasTerm, Even, EvenA2, Radial
    <3> QED
      BY <1>4, <1>5, <3>1 DEF TermsOK
  <2>3. a.type = Radial => \A i \in DOMAIN after : i <= 2 => after[i] = 0
    <3>1. \A i \in Int : a.type = Radial /\ i <= 2 => ~HasTerm(a.type, i - 1)
      BY DEF HasTerm, Even, EvenA2, Radial
    <3>2. \A i \in DOMAIN a.coeffs : i \in Int
      BY <1>1
    <3> QED
      BY <1>4, <1>5, <3>1, <3>2 DEF TermsOK
  <2> QED
    BY <1>4, <2>1, <2>2, <2>3 DEF TermsOK
<1>7. ASSUME NEW power \in Nat \ {0}
      PROVE  \/ Term(a.type, after, power) = Term(a.type, a.coeffs, power)
             \/ \E index \in Int : /\ Varies(vs, <<"coefficient", n, index>>)
                                   /\ powerOf(a.type, index) = power
  <2>1. ASSUME NEW m \in DOMAIN a.coeffs, after[m] # a.coeffs[m], powerOf(a.type, m - 1) = power
        PROVE  \E index \in Int : /\ Varies(vs, <<"coefficient", n, index>>)
                                  /\ powerOf(a.type, index) = power
    <3>1. m - 1 \in Int
      BY <1>1
    <3> QED
      BY <1>2, <2>1, <3>1
  <2>2. CASE a.type = Radial
    <3>1. Term(a.type, after, power) = IF power \in DOMAIN after THEN after[power] ELSE 0
      BY <1>4, <2>2, RadialTerm
    <3>2. Term(a.type, a.coeffs, power) = IF power \in DOMAIN a.coeffs THEN a.coeffs[power] ELSE 0
      BY <1>1, <2>2, RadialTerm
    <3>3. powerOf(a.type, power - 1) = power
      BY <2>2 DEF powerOf
    <3> QED
      BY <1>4, <2>1, <3>1, <3>2, <3>3
  <2>3. CASE a.type # Radial
    <3> DEFINE m == power \div 2
    <3>1. Term(a.type, after, power) = IF power % 2 = 0 /\ m \in DOMAIN after THEN after[m] ELSE 0
      BY <1>4, <2>3, EvenTerm
    <3>2. Term(a.type, a.coeffs, power)
            = IF power % 2 = 0 /\ m \in DOMAIN a.coeffs THEN a.coeffs[m] ELSE 0
      BY <1>1, <2>3, EvenTerm
    <3>3. power % 2 = 0 => powerOf(a.type, m - 1) = power
      <4>1. power % 2 = 0 => 2 * ((m - 1) + 1) = power
        OBVIOUS
      <4> QED
        BY <2>3, <4>1 DEF powerOf
    <3> HIDE DEF m
    <3>4. CASE power % 2 = 0 /\ m \in DOMAIN a.coeffs
      <4>1. Term(a.type, after, power) = after[m] /\ Term(a.type, a.coeffs, power) = a.coeffs[m]
        BY <1>4, <3>1, <3>2, <3>4
      <4> QED
        BY <2>1, <3>3, <3>4, <4>1
    <3>5. CASE ~(power % 2 = 0 /\ m \in DOMAIN a.coeffs)
      BY <1>4, <3>1, <3>2, <3>5
    <3> QED
      BY <3>4, <3>5
  <2> QED
    BY <2>2, <2>3
<1>8. a.coeffs # <<>> => after # <<>>
  BY <1>1, <1>4, ListIs
<1> QED
  BY <1>6, <1>7, <1>8 DEF Remains

LEMMA SolvedSurface ==
  ASSUME NEW p, LensOK(p), NEW scenario, NEW vs, VariablesOK(p, scenario, vs),
         NEW values, NEW s \in DOMAIN p.surfaces
  PROVE  LET a == p.surfaces[s]
             b == write_to_prescription(a, s - 1, vs, values)
         IN SurfaceOK(p, b) /\ Solved(p, scenario, s, vs, a, b)
<1> DEFINE a == p.surfaces[s]
           n == s - 1
           t == VarThickness(a, n, vs, values)
           radius == ValueAfter(vs, values, <<"radius", n, 0>>, a.radius)
           k == ValueAfter(vs, values, <<"conic", n, 0>>, a.k)
           b == write_to_prescription(a, n, vs, values)
<1>1. /\ IsList(p.surfaces) /\ IsList(p.names) /\ SurfaceOK(p, a) /\ TermsOK(a.type, a.coeffs)
      /\ IsSurface(a) /\ PerConfiguration(p, a.thickBy)
  BY DEF LensOK, SurfaceOK
<1>2. Surface(p, n) = a
  BY <1>1, SurfaceNumbersAre
<1>3. /\ \A i \in DOMAIN vs : VariableOK(p, scenario, vs[i])
      /\ \A i \in DOMAIN vs : vs[i] = <<vs[i][1], vs[i][2], vs[i][3]>>
  BY DEF VariablesOK
<1>4. /\ SameButThickness(a, t)
      /\ PerConfiguration(p, t.thickBy)
      /\ t.thickBy = <<>> <=> a.thickBy = <<>>
      /\ \A c \in Configurations(p) :
           \/ thicknessOf(t, c) = thicknessOf(a, c)
           \/ Varies(vs, <<"thickness", n, c - 1>>)
           \/ a.thickBy = <<>> /\ Varies(vs, <<"thickness", n, scenario>>)
  <2> HIDE DEF a, n
  <2> QED
    BY <1>1, ThicknessLeft
<1>0. PICK coeffs : coeffs = [i \in DOMAIN a.coeffs |->
                                ValueAfter(vs, values, <<"coefficient", n, i - 1>>, a.coeffs[i])]
  OBVIOUS
<1>5. Remains(vs, n, a.type, a.coeffs, coeffs)
  <2>1. Len(a.coeffs) \in Nat /\ DOMAIN a.coeffs = 1..Len(a.coeffs)
    BY <1>1, ListIs DEF TermsOK
  <2>2. coeffs = [i \in 1..Len(a.coeffs) |-> coeffs[i]]
    BY <1>0, <2>1
  <2>3. IsList(coeffs) /\ Len(coeffs) = Len(a.coeffs)
    BY <2>1, <2>2, ListMade
  <2>4. \A i \in DOMAIN a.coeffs : coeffs[i] = a.coeffs[i] \/ Varies(vs, <<"coefficient", n, i - 1>>)
    BY <1>0, Unwritten
  <2>5. Rewritten(vs, n, a.coeffs, coeffs)
    BY <2>3, <2>4 DEF Rewritten
  <2> HIDE DEF a, n
  <2> QED
    BY <1>1, <1>2, <2>5, CoefficientsLeft
<1>6. /\ radius = a.radius \/ Varies(vs, <<"radius", n, 0>>)
      /\ k = a.k \/ Varies(vs, <<"conic", n, 0>>)
  BY Unwritten
<1> HIDE DEF t, n, a
<1>7. /\ t.radius = a.radius /\ t.k = a.k /\ t.coeffs = a.coeffs /\ t.cell = a.cell
      /\ t.diameter = a.diameter /\ t.diameterBy = a.diameterBy /\ t.type = a.type
      /\ t = [cell |-> a.cell, radius |-> a.radius, thick |-> t.thick, thickBy |-> t.thickBy,
              diameter |-> a.diameter, diameterBy |-> a.diameterBy,
              type |-> a.type, k |-> a.k, coeffs |-> a.coeffs]
  <2>1. t = [cell |-> a.cell, radius |-> a.radius, thick |-> t.thick, thickBy |-> t.thickBy,
              diameter |-> a.diameter, diameterBy |-> a.diameterBy,
              type |-> a.type, k |-> a.k, coeffs |-> a.coeffs]
    BY <1>4 DEF SameButThickness
  <2> QED
    BY <2>1
<1>8. b = [t EXCEPT !.radius = radius, !.k = k, !.coeffs = coeffs]
  <2>1. b = [t EXCEPT !.radius = ValueAfter(vs, values, <<"radius", n, 0>>, t.radius),
                      !.k = ValueAfter(vs, values, <<"conic", n, 0>>, t.k),
                      !.coeffs = [i \in DOMAIN t.coeffs |->
                         ValueAfter(vs, values, <<"coefficient", n, i - 1>>, t.coeffs[i])]]
    BY DEF write_to_prescription, t
  <2> QED
    BY <1>0, <1>7, <2>1
<1> HIDE DEF b, radius, k
<1>9. /\ b = [cell |-> a.cell, radius |-> radius, thick |-> t.thick, thickBy |-> t.thickBy,
              diameter |-> a.diameter, diameterBy |-> a.diameterBy,
              type |-> a.type, k |-> k, coeffs |-> coeffs]
  BY <1>7, <1>8
<1>10. /\ b.cell = a.cell /\ b.radius = radius /\ b.thick = t.thick /\ b.thickBy = t.thickBy
       /\ b.diameter = a.diameter /\ b.diameterBy = a.diameterBy
       /\ b.type = a.type /\ b.k = k /\ b.coeffs = coeffs /\ IsSurface(b)
  BY <1>9 DEF IsSurface
<1>11. a.cell \in {"AS", "FS"} => radius = a.radius
  <2>1. ASSUME Varies(vs, <<"radius", n, 0>>) PROVE ~IsStop(p, n)
    <3>1. PICK i \in DOMAIN vs : vs[i] = <<"radius", n, 0>>
      BY <2>1 DEF Varies
    <3> QED
      BY <1>3, <3>1 DEF VariableOK
  <2> QED
    BY <1>2, <1>6, <2>1 DEF IsStop
<1>12. a.type = Spherical => k = a.k
  <2>1. ASSUME Varies(vs, <<"conic", n, 0>>) PROVE Surface(p, n).type # Spherical
    <3>1. PICK i \in DOMAIN vs : vs[i] = <<"conic", n, 0>>
      BY <2>1 DEF Varies
    <3> QED
      BY <1>3, <3>1 DEF VariableOK
  <2> QED
    BY <1>2, <1>6, <2>1
<1>13. SurfaceOK(p, b)
  BY <1>1, <1>4, <1>5, <1>10, <1>11, <1>12 DEF SurfaceOK, Remains
<1>14. \A c : thicknessOf(b, c) = thicknessOf(t, c)
  BY <1>10 DEF thicknessOf
<1>15. Solved(p, scenario, s, vs, a, b)
  BY <1>4, <1>5, <1>6, <1>10, <1>14 DEF Solved, Remains, n
<1> QED
  BY <1>13, <1>15 DEF a, b, n

\* A solve leaves a lens, and changes in it only what it varies.
LEMMA SolvedLens ==
  ASSUME NEW p, LensOK(p), NEW scenario, NEW vs, VariablesOK(p, scenario, vs), NEW values
  PROVE  LET q == WithValues(p, vs, values)
         IN /\ LensOK(q) /\ q.odd = p.odd /\ q.names = p.names
            /\ DOMAIN q.surfaces = DOMAIN p.surfaces
            /\ \A s \in DOMAIN p.surfaces :
                 Solved(p, scenario, s, vs, p.surfaces[s], q.surfaces[s])
<1> DEFINE q == WithValues(p, vs, values)
           made(s) == write_to_prescription(p.surfaces[s], s - 1, vs, values)
<1>1. /\ p = [odd |-> p.odd, first |-> p.first, firstBy |-> p.firstBy, names |-> p.names,
              surfaces |-> p.surfaces]
      /\ IsList(p.surfaces) /\ FormsOK(p)
  BY DEF LensOK
<1>2. q = [p EXCEPT !.surfaces = [s \in DOMAIN p.surfaces |-> made(s)]]
  BY DEF WithValues
<1>3. \A s \in DOMAIN p.surfaces :
        SurfaceOK(p, made(s)) /\ Solved(p, scenario, s, vs, p.surfaces[s], made(s))
  BY SolvedSurface
<1> HIDE DEF q, made
<1>4. /\ q.odd = p.odd /\ q.first = p.first /\ q.firstBy = p.firstBy /\ q.names = p.names
      /\ q.surfaces = [s \in DOMAIN p.surfaces |-> made(s)]
      /\ q = [odd |-> q.odd, first |-> q.first, firstBy |-> q.firstBy, names |-> q.names,
              surfaces |-> q.surfaces]
  BY <1>1, <1>2
<1>5. DOMAIN q.surfaces = DOMAIN p.surfaces /\ \A s \in DOMAIN p.surfaces : q.surfaces[s] = made(s)
  BY <1>4
<1>6. IsList(q.surfaces)
  <2>1. Len(p.surfaces) \in Nat /\ DOMAIN p.surfaces = 1..Len(p.surfaces)
    BY <1>1, ListIs
  <2>2. q.surfaces = [s \in 1..Len(p.surfaces) |-> q.surfaces[s]]
    BY <1>4, <2>1
  <2> QED
    BY <2>1, <2>2, ListMade
<1>7. \A s \in DOMAIN q.surfaces : SurfaceOK(q, q.surfaces[s])
  BY <1>3, <1>4, <1>5 DEF SurfaceOK, PerConfiguration
<1>8. \A s \in DOMAIN p.surfaces : /\ q.surfaces[s].type = p.surfaces[s].type
                                   /\ q.surfaces[s].cell = p.surfaces[s].cell
                                   /\ q.surfaces[s].diameterBy = p.surfaces[s].diameterBy
  BY <1>3, <1>5 DEF Solved
<1>9. FormsOK(q)
  BY <1>1, <1>4, <1>5, <1>8 DEF FormsOK
<1>10. \A s, t \in DOMAIN q.surfaces :
         q.surfaces[s].cell = "AS" /\ q.surfaces[t].cell = "AS" =>
           q.surfaces[s].diameterBy = q.surfaces[t].diameterBy
  BY <1>5, <1>8 DEF LensOK
<1>11. LensOK(q)
  BY <1>4, <1>6, <1>7, <1>9, <1>10 DEF LensOK
<1> QED
  BY <1>3, <1>4, <1>5, <1>11 DEF q
=============================================================================
