-------------------------- MODULE ReportingProofs --------------------------
(***************************************************************************)
(* Proofs about Reporting: the types, that a summary counts the calls of   *)
(* its days, that a chart shows its buckets, and that the KPIs make sense. *)
(*                                                                         *)
(* The invariant says what the two tables tell of the calls whose          *)
(* statement has run (Tells): each of them belongs to exactly one row, and *)
(* a row counts the calls that belong to it.  Everything the dashboard     *)
(* shows is a sum over some of the rows, so it is a number of calls        *)
(* (SumCounts), and what is left is which hours belong to which days.      *)
(***************************************************************************)
EXTENDS Reporting, FiniteSetTheorems, WellFoundedInduction, TLAPS

-----------------------------------------------------------------------------
(* Sums *)

\* Sets of subsets of a finite set have smallest members.
LEMMA LeastSet ==
    ASSUME NEW S, IsFiniteSet(S), NEW Q \in SUBSET SUBSET S, Q # {}
    PROVE  \E m \in Q : \A T \in Q : T \subseteq m => T = m
<1> DEFINE R == StrictSubsetOrdering(S)
<1>1. IsWellFoundedOn(R, SUBSET S)
  BY FS_StrictSubsetOrderingWellFounded, FS_FiniteSubsetsOfFinite
<1>2. R = {ss \in (SUBSET S) \X (SUBSET S) : ss[1] \subseteq ss[2] /\ ss[1] # ss[2]}
  BY DEF StrictSubsetOrdering
<1> HIDE DEF R
<1>3. \E x \in Q : \A y \in Q : ~(<<y, x>> \in R)
  BY <1>1, WFMin
<1>4. PICK x \in Q : \A y \in Q : <<y, x>> \notin R
  BY <1>3
<1>5. \A y \in Q : y \subseteq x /\ y # x => <<y, x>> \in R
  BY <1>2
<1>6. \A y \in Q : y \subseteq x => y = x
  BY <1>4, <1>5
<1> QED
  BY <1>6

\* The element a fold takes first.
First(s) == CHOOSE x \in s : TRUE

\* g gives the sum of f over every subset of S.
Sums(f, g, S) ==
    g = [s \in SUBSET S |-> IF s = {} THEN 0 ELSE f[First(s)] + g[s \ {First(s)}]]

LEMMA SumIsChosen ==
    ASSUME NEW f, NEW S
    PROVE  SumFunctionOnSet(f, S) = (CHOOSE g : Sums(f, g, S))[S]
  BY DEF SumFunctionOnSet, FoldFunctionOnSet, MapThenFoldSet, Sums, First

SameOn(e, f, T) == \A x \in T : e[x] = f[x]

LEMMA SumsAgree ==
    ASSUME NEW S, IsFiniteSet(S), NEW T \in SUBSET S, NEW e, NEW f, NEW g, NEW h,
           Sums(f, g, S), Sums(e, h, T), SameOn(e, f, T)
    PROVE  \A s \in SUBSET T : g[s] = h[s]
<1> DEFINE Q == {s \in SUBSET T : g[s] # h[s]}
<1>1. SUFFICES ASSUME Q # {} PROVE FALSE
  OBVIOUS
<1>2. IsFiniteSet(T)
  BY FS_Subset
<1>3. PICK m \in Q : \A s \in Q : s \subseteq m => s = m
  <2>1. Q \in SUBSET SUBSET T
    OBVIOUS
  <2> HIDE DEF Q
  <2> QED
    BY <1>1, <1>2, <2>1, LeastSet
<1>4. m \in SUBSET S /\ m \in SUBSET T
  OBVIOUS
<1>5. /\ g[m] = IF m = {} THEN 0 ELSE f[First(m)] + g[m \ {First(m)}]
      /\ h[m] = IF m = {} THEN 0 ELSE e[First(m)] + h[m \ {First(m)}]
  BY <1>4 DEF Sums
<1>6. CASE m = {}
  BY <1>5, <1>6
<1>7. CASE m # {}
  <2>1. First(m) \in m
    BY <1>7 DEF First
  <2>2. m \ {First(m)} \notin Q
    BY <1>3, <2>1
  <2>3. g[m \ {First(m)}] = h[m \ {First(m)}]
    BY <2>2
  <2>4. e[First(m)] = f[First(m)]
    BY <2>1 DEF SameOn
  <2> QED
    BY <1>5, <1>7, <2>3, <2>4
<1> QED
  BY <1>6, <1>7

LEMMA SumsGiveSum ==
    ASSUME NEW S, IsFiniteSet(S), NEW f, NEW g, Sums(f, g, S), NEW T \in SUBSET S,
           NEW h, Sums(f, h, T)
    PROVE  SumFunctionOnSet(f, T) = g[T]
<1> DEFINE c == CHOOSE k : Sums(f, k, T)
<1>1. Sums(f, c, T)
  OBVIOUS
<1>2. SumFunctionOnSet(f, T) = c[T]
  BY SumIsChosen
<1> HIDE DEF c
<1>3. \A s \in SUBSET T : g[s] = c[s]
  <2>1. SameOn(f, f, T)
    BY DEF SameOn
  <2> QED
    BY <1>1, <2>1, SumsAgree
<1> QED
  BY <1>2, <1>3

LEMMA SumUnfolds ==
    ASSUME NEW S, IsFiniteSet(S), NEW f,
           \E g : Sums(f, g, S), \E h : Sums(f, h, S \ {First(S)})
    PROVE  SumFunctionOnSet(f, S)
             = IF S = {} THEN 0 ELSE f[First(S)] + SumFunctionOnSet(f, S \ {First(S)})
<1>1. PICK g : Sums(f, g, S)
  OBVIOUS
<1>2. PICK h : Sums(f, h, S \ {First(S)})
  OBVIOUS
<1>3. SumFunctionOnSet(f, S) = g[S]
  BY <1>1, SumsGiveSum
<1>4. SumFunctionOnSet(f, S \ {First(S)}) = g[S \ {First(S)}]
  BY <1>1, <1>2, SumsGiveSum
<1>5. g[S] = IF S = {} THEN 0 ELSE f[First(S)] + g[S \ {First(S)}]
  BY <1>1 DEF Sums
<1> QED
  BY <1>3, <1>4, <1>5

LEMMA SumsExist ==
    ASSUME NEW S, IsFiniteSet(S), NEW f
    PROVE  \A T \in SUBSET S : \E g : Sums(f, g, T)
<1> DEFINE Q == {T \in SUBSET S : ~\E g : Sums(f, g, T)}
<1>1. SUFFICES ASSUME Q # {} PROVE FALSE
  OBVIOUS
<1>2. PICK T \in Q : \A U \in Q : U \subseteq T => U = T
  <2>1. Q \in SUBSET SUBSET S
    OBVIOUS
  <2> HIDE DEF Q
  <2> QED
    BY <1>1, <2>1, LeastSet
<1>3. \A U \in SUBSET T : U # T => \E g : Sums(f, g, U)
  BY <1>2
<1>4. IsFiniteSet(T)
  BY FS_Subset
<1> DEFINE sum(U) == SumFunctionOnSet(f, U)
           h == [s \in SUBSET T |-> IF s = {} THEN 0 ELSE f[First(s)] + sum(s \ {First(s)})]
<1>5. ASSUME NEW U \in SUBSET T, U # T
      PROVE  sum(U) = IF U = {} THEN 0 ELSE f[First(U)] + sum(U \ {First(U)})
  <2>1. IsFiniteSet(U) /\ U \ {First(U)} \in SUBSET T /\ U \ {First(U)} # T
    BY <1>4, <1>5, FS_Subset
  <2> QED
    BY <1>3, <1>5, <2>1, SumUnfolds
<1>6. ASSUME NEW s \in SUBSET T, s # {}
      PROVE  sum(s \ {First(s)}) = h[s \ {First(s)}]
  <2>1. First(s) \in s
    BY <1>6 DEF First
  <2>2. s \ {First(s)} \in SUBSET T /\ s \ {First(s)} # T
    BY <2>1
  <2> DEFINE U == s \ {First(s)}
  <2>3. h[U] = IF U = {} THEN 0 ELSE f[First(U)] + sum(U \ {First(U)})
    BY <2>2
  <2> QED
    BY <1>5, <2>2, <2>3
<1>7. \A s \in SUBSET T : h[s] = IF s = {} THEN 0 ELSE f[First(s)] + h[s \ {First(s)}]
  <2> HIDE DEF sum
  <2> QED
    BY <1>6
<1>8. h = [s \in SUBSET T |-> IF s = {} THEN 0 ELSE f[First(s)] + h[s \ {First(s)}]]
  <2>1. h = [s \in SUBSET T |-> h[s]]
    OBVIOUS
  <2> HIDE DEF h, sum
  <2> QED
    BY <1>7, <2>1
<1>9. Sums(f, h, T)
  <2> HIDE DEF h, sum
  <2> QED
    BY <1>8 DEF Sums
<1> QED
  BY <1>2, <1>9

\* A sum is 0 or takes one element first.
LEMMA SumStep ==
    ASSUME NEW S, IsFiniteSet(S), NEW f
    PROVE  SumFunctionOnSet(f, S)
             = IF S = {} THEN 0 ELSE f[First(S)] + SumFunctionOnSet(f, S \ {First(S)})
<1>1. (\E g : Sums(f, g, S)) /\ (\E h : Sums(f, h, S \ {First(S)}))
  BY SumsExist
<1> QED
  BY <1>1, SumUnfolds

LEMMA SumEmpty == ASSUME NEW f PROVE SumFunctionOnSet(f, {}) = 0
  BY SumStep, FS_EmptySet

\* Only the values on the set matter.
LEMMA SumSame ==
    ASSUME NEW S, IsFiniteSet(S), NEW e, NEW f, SameOn(e, f, S)
    PROVE  SumFunctionOnSet(e, S) = SumFunctionOnSet(f, S)
<1>1. PICK g : Sums(f, g, S)
  BY SumsExist
<1>2. PICK h : Sums(e, h, S)
  BY SumsExist
<1>3. S \in SUBSET S
  OBVIOUS
<1>4. \A s \in SUBSET S : g[s] = h[s]
  BY <1>1, <1>2, <1>3, SumsAgree
<1>5. SumFunctionOnSet(f, S) = g[S] /\ SumFunctionOnSet(e, S) = h[S]
  BY <1>1, <1>2, <1>3, SumsGiveSum
<1> QED
  BY <1>3, <1>4, <1>5

\* f counts.
Natural(f, S) == \A x \in S : f[x] \in Nat

LEMMA SumNatural ==
    ASSUME NEW S, IsFiniteSet(S), NEW f, Natural(f, S)
    PROVE  \A T \in SUBSET S : SumFunctionOnSet(f, T) \in Nat
<1> DEFINE Q == {T \in SUBSET S : SumFunctionOnSet(f, T) \notin Nat}
<1>1. SUFFICES ASSUME Q # {} PROVE FALSE
  OBVIOUS
<1>2. PICK T \in Q : \A U \in Q : U \subseteq T => U = T
  <2>1. Q \in SUBSET SUBSET S
    OBVIOUS
  <2> HIDE DEF Q
  <2> QED
    BY <1>1, <2>1, LeastSet
<1>3. IsFiniteSet(T)
  BY FS_Subset
<1>4. CASE T = {}
  BY <1>4, SumEmpty
<1>5. CASE T # {}
  <2>1. First(T) \in T
    BY <1>5 DEF First
  <2>2. SumFunctionOnSet(f, T \ {First(T)}) \in Nat
    BY <1>2, <2>1
  <2>3. f[First(T)] \in Nat
    BY <2>1 DEF Natural
  <2>4. SumFunctionOnSet(f, T) = f[First(T)] + SumFunctionOnSet(f, T \ {First(T)})
    BY <1>3, <1>5, SumStep
  <2> QED
    BY <2>2, <2>3, <2>4
<1> QED
  BY <1>4, <1>5

\* Any element may be taken first.
LEMMA SumRemove ==
    ASSUME NEW S, IsFiniteSet(S), NEW f, Natural(f, S)
    PROVE  \A T \in SUBSET S : \A y \in T :
               SumFunctionOnSet(f, T) = f[y] + SumFunctionOnSet(f, T \ {y})
<1> DEFINE Q == {T \in SUBSET S : \E y \in T :
                   SumFunctionOnSet(f, T) # f[y] + SumFunctionOnSet(f, T \ {y})}
           sum(T) == SumFunctionOnSet(f, T)
<1>1. SUFFICES ASSUME Q # {} PROVE FALSE
  OBVIOUS
<1>2. PICK T \in Q : \A U \in Q : U \subseteq T => U = T
  <2>1. Q \in SUBSET SUBSET S
    OBVIOUS
  <2> HIDE DEF Q
  <2> QED
    BY <1>1, <2>1, LeastSet
<1>3. PICK y \in T : sum(T) # f[y] + sum(T \ {y})
  OBVIOUS
<1> DEFINE x == First(T)
<1>4. x \in T
  BY <1>3 DEF First
<1>5. IsFiniteSet(T)
  BY FS_Subset
<1>6. sum(T) = f[x] + sum(T \ {x})
  BY <1>3, <1>5, SumStep
<1>7. x # y
  BY <1>3, <1>6
<1>8. T \ {x} \notin Q /\ T \ {y} \notin Q /\ T \ {x} \in SUBSET S /\ T \ {y} \in SUBSET S
  BY <1>2, <1>3, <1>4
<1>9. sum(T \ {x}) = f[y] + sum((T \ {x}) \ {y})
  BY <1>3, <1>7, <1>8
<1>10. sum(T \ {y}) = f[x] + sum((T \ {y}) \ {x})
  BY <1>4, <1>7, <1>8
<1>11. sum((T \ {x}) \ {y}) = sum((T \ {y}) \ {x})
  <2>1. (T \ {x}) \ {y} = (T \ {y}) \ {x}
    OBVIOUS
  <2> HIDE DEF sum
  <2> QED
    BY ONLY <2>1, Zenon
<1>12. f[x] \in Nat /\ f[y] \in Nat
  BY <1>4 DEF Natural
<1>13. sum((T \ {y}) \ {x}) \in Nat
  BY SumNatural
<1> HIDE DEF sum, x, Q
<1> QED
  BY <1>3, <1>6, <1>9, <1>10, <1>11, <1>12, <1>13

\* f is at most k times g.
AtMost(f, k, g, S) == \A x \in S : f[x] <= k * g[x]

LEMMA SumBound ==
    ASSUME NEW S, IsFiniteSet(S), NEW f, NEW g, NEW k \in {1, 5},
           Natural(f, S), Natural(g, S), AtMost(f, k, g, S)
    PROVE  SumFunctionOnSet(f, S) <= k * SumFunctionOnSet(g, S)
<1> DEFINE F(T) == SumFunctionOnSet(f, T)
           G(T) == SumFunctionOnSet(g, T)
           Q == {T \in SUBSET S : ~(F(T) <= k * G(T))}
<1>1. SUFFICES ASSUME Q # {} PROVE FALSE
  <2>1. S \in SUBSET S
    OBVIOUS
  <2> QED
    BY <2>1
<1>2. PICK T \in Q : \A U \in Q : U \subseteq T => U = T
  <2>1. Q \in SUBSET SUBSET S
    OBVIOUS
  <2> HIDE DEF Q
  <2> QED
    BY <1>1, <2>1, LeastSet
<1>3. T \in SUBSET S /\ ~(F(T) <= k * G(T))
  OBVIOUS
<1>4. F(T) \in Nat /\ G(T) \in Nat
  BY <1>3, SumNatural
<1>5. T # {}
  <2>1. F({}) = 0 /\ G({}) = 0
    BY SumEmpty
  <2> HIDE DEF F, G
  <2> QED
    BY <1>3, <2>1
<1>6. PICK y \in T : TRUE
  BY <1>5
<1> DEFINE U == T \ {y}
<1>7. U \in SUBSET S /\ U \notin Q
  BY <1>2, <1>3, <1>6
<1>8. F(U) <= k * G(U)
  BY <1>7
<1>9. F(T) = f[y] + F(U) /\ G(T) = g[y] + G(U)
  BY <1>3, SumRemove
<1>10. f[y] \in Nat /\ g[y] \in Nat /\ f[y] <= k * g[y]
  BY <1>3 DEF Natural, AtMost
<1>11. F(U) \in Nat /\ G(U) \in Nat
  BY <1>7, SumNatural
<1> HIDE DEF F, G, Q, U
<1>12. CASE k = 1
  BY <1>3, <1>8, <1>9, <1>10, <1>11, <1>12
<1>13. CASE k = 5
  BY <1>3, <1>8, <1>9, <1>10, <1>11, <1>13
<1> QED
  BY <1>12, <1>13

\* f counts what M gives to each element, and nothing is given twice.
CountsParts(f, M, S) ==
    /\ \A x \in S : IsFiniteSet(M[x]) /\ f[x] = Cardinality(M[x])
    /\ \A x, y \in S : x # y => M[x] \cap M[y] = {}

Parts(M, T) == UNION {M[x] : x \in T}

LEMMA SumCounts ==
    ASSUME NEW S, IsFiniteSet(S), NEW f, NEW M, CountsParts(f, M, S)
    PROVE  IsFiniteSet(Parts(M, S)) /\ SumFunctionOnSet(f, S) = Cardinality(Parts(M, S))
<1> DEFINE F(T) == SumFunctionOnSet(f, T)
           Fits(T) == IsFiniteSet(Parts(M, T)) /\ F(T) = Cardinality(Parts(M, T))
           Q == {T \in SUBSET S : ~Fits(T)}
<1>1. SUFFICES ASSUME Q # {} PROVE FALSE
  <2>1. S \in SUBSET S
    OBVIOUS
  <2> QED
    BY <2>1
<1>2. PICK T \in Q : \A U \in Q : U \subseteq T => U = T
  <2>1. Q \in SUBSET SUBSET S
    OBVIOUS
  <2> HIDE DEF Q
  <2> QED
    BY <1>1, <2>1, LeastSet
<1>3. T \in SUBSET S /\ ~Fits(T)
  OBVIOUS
<1>4. Natural(f, S)
  BY FS_CardinalityType DEF Natural, CountsParts
<1>5. T # {}
  <2>1. Parts(M, {}) = {}
    BY DEF Parts
  <2>2. Fits({})
    BY <2>1, SumEmpty, FS_EmptySet
  <2> HIDE DEF Fits
  <2> QED
    BY <1>3, <2>2
<1>6. PICK y \in T : TRUE
  BY <1>5
<1> DEFINE U == T \ {y}
<1>7. U \in SUBSET S /\ U \notin Q
  BY <1>2, <1>3, <1>6
<1>8. Fits(U)
  BY <1>7
<1>9. F(T) = f[y] + F(U)
  BY <1>3, <1>4, SumRemove
<1>10. IsFiniteSet(M[y]) /\ f[y] = Cardinality(M[y])
  BY <1>3 DEF CountsParts
<1>11. Parts(M, T) = M[y] \cup Parts(M, U)
  BY <1>6 DEF Parts
<1>12. M[y] \cap Parts(M, U) = {}
  BY <1>3, <1>6 DEF Parts, CountsParts
<1>13. IsFiniteSet(Parts(M, U)) /\ F(U) = Cardinality(Parts(M, U))
  BY <1>8
<1> DEFINE V == Parts(M, U)
<1> HIDE DEF V
<1>14. IsFiniteSet(V) /\ F(U) = Cardinality(V) /\ Parts(M, T) = M[y] \cup V
       /\ M[y] \cap V = {}
  BY <1>11, <1>12, <1>13 DEF V
<1>15. /\ IsFiniteSet(M[y] \cup V)
       /\ Cardinality(M[y] \cup V) = Cardinality(M[y]) + Cardinality(V) - Cardinality({})
  BY <1>10, <1>14, FS_Union
<1>16. Cardinality({}) = 0 /\ Cardinality(M[y]) \in Nat /\ Cardinality(V) \in Nat
  BY <1>10, <1>14, FS_EmptySet, FS_CardinalityType
<1>17. F(T) = Cardinality(Parts(M, T))
  <2> HIDE DEF F
  <2> QED
    BY <1>9, <1>10, <1>14, <1>15, <1>16
<1> QED
  BY <1>3, <1>14, <1>15, <1>17

-----------------------------------------------------------------------------
(***************************************************************************)
(* Hours and days                                                          *)
(***************************************************************************)

LEMMA HourNumber == HOUR \in Nat /\ HOUR > 0
  BY TimeAssumption

LEMMA Multiples ==
    ASSUME NEW x \in Int, NEW y \in Int, x % HOUR = 0, y % HOUR = 0, x < y
    PROVE  x + HOUR <= y
<1>1. HOUR \in Nat /\ HOUR > 0
  BY HourNumber
<1> DEFINE p == x \div HOUR
           q == y \div HOUR
<1>2. p \in Int /\ q \in Int /\ x = HOUR * p /\ y = HOUR * q
  BY <1>1
<1> HIDE DEF p, q
<1>3. p < q
  BY <1>1, <1>2
<1>4. q = p + 1 + (q - p - 1) /\ q - p - 1 \in Nat
  BY <1>2, <1>3
<1>5. HOUR * q = HOUR * p + HOUR + HOUR * (q - p - 1)
  BY <1>1, <1>2, <1>4
<1>6. HOUR * (q - p - 1) >= 0
  BY <1>1, <1>4
<1> QED
  BY <1>1, <1>2, <1>5, <1>6

\* An hour begins at a multiple of HOUR, at or before each of its moments.
LEMMA HourOf ==
    ASSUME NEW m \in Int
    PROVE  /\ StartOfHour(m) \in Int /\ StartOfHour(m) % HOUR = 0
           /\ StartOfHour(m) <= m /\ m < StartOfHour(m) + HOUR
           /\ EndOfHour(m) = StartOfHour(m) + HOUR - 1
<1>1. HOUR \in Nat /\ HOUR > 0
  BY HourNumber
<1>2. m % HOUR \in 0..(HOUR - 1)
  BY <1>1
<1> DEFINE q == m \div HOUR
           r == m % HOUR
<1>3. q \in Int /\ r \in Int /\ m = HOUR * q + r
  BY <1>1
<1>4. StartOfHour(m) = HOUR * q
  <2>1. StartOfHour(m) = m - r
    BY DEF StartOfHour
  <2>2. HOUR * q \in Int
    BY <1>1, <1>3
  <2> DEFINE p == HOUR * q
  <2> HIDE DEF q, r, p
  <2>3. p \in Int /\ r \in Int /\ m = p + r
    BY <1>3, <2>2 DEF p
  <2>4. StartOfHour(m) = p
    BY <2>1, <2>3
  <2> QED
    BY <2>4 DEF p
<1> HIDE DEF q, r
<1>5. (HOUR * q) % HOUR = 0
  BY <1>1, <1>3
<1> QED
  BY <1>1, <1>2, <1>4, <1>5 DEF StartOfHour, EndOfHour

LEMMA HourOfMultiple ==
    ASSUME NEW m \in Int, m % HOUR = 0
    PROVE  StartOfHour(m) = m
  BY DEF StartOfHour

LEMMA HoursRise ==
    ASSUME NEW a \in Int, NEW b \in Int, a <= b
    PROVE  StartOfHour(a) <= StartOfHour(b)
<1>1. SUFFICES ASSUME StartOfHour(b) < StartOfHour(a) PROVE FALSE
  BY HourOf
<1>2. StartOfHour(b) + HOUR <= StartOfHour(a)
  BY <1>1, HourOf, Multiples
<1> QED
  BY <1>2, HourOf, HourNumber

\* A multiple of HOUR up to the end of an hour is at most where that hour begins.
LEMMA UpToHour ==
    ASSUME NEW a \in Int, NEW b \in Int, a % HOUR = 0, a <= EndOfHour(b)
    PROVE  a <= StartOfHour(b)
<1>1. SUFFICES ASSUME StartOfHour(b) < a PROVE FALSE
  BY HourOf
<1>2. StartOfHour(b) + HOUR <= a
  BY <1>1, HourOf, Multiples
<1> QED
  BY <1>2, HourOf, HourNumber

\* Every non-empty set of natural numbers has a least one (from the well-foundedness of <).
LEMMA LeastNat ==
    ASSUME NEW S \in SUBSET Nat, S # {}
    PROVE  \E m \in S : \A n \in S : m <= n
<1> DEFINE R == OpToRel(<, Nat)
<1>1. IsWellFoundedOn(R, Nat)
  BY NatLessThanWellFounded
<1>2. R = {ss \in Nat \X Nat : ss[1] < ss[2]}
  BY DEF OpToRel
<1> HIDE DEF R
<1>3. \E x \in S : \A y \in S : ~(<<y, x>> \in R)
  BY <1>1, WFMin
<1>4. PICK x \in S : \A y \in S : <<y, x>> \notin R
  BY <1>3
<1>5. \A y \in S : ~(y < x)
  BY <1>2, <1>4
<1> QED
  BY <1>5

LEMMA DayType ==
    ASSUME NEW z \in Zone
    PROVE  /\ LAST_DAY \in Nat /\ Day = 1..LAST_DAY
           /\ \A d \in 1..(LAST_DAY + 1) : DayStart[z][d] \in Int
           /\ \A d \in Day : DayStart[z][d] < DayStart[z][d + 1]
  BY TimeAssumption, ZoneAssumption DEF Day

LEMMA DaysRise ==
    ASSUME NEW z \in Zone, NEW d \in 1..(LAST_DAY + 1), NEW e \in 1..(LAST_DAY + 1), d < e
    PROVE  DayStart[z][d] < DayStart[z][e]
<1> DEFINE Q == {n \in 1..(LAST_DAY + 1) : d < n /\ ~(DayStart[z][d] < DayStart[z][n])}
<1>1. SUFFICES ASSUME Q # {} PROVE FALSE
  OBVIOUS
<1>2. PICK n \in Q : \A k \in Q : n <= k
  <2>1. Q \in SUBSET Nat
    BY DayType
  <2> HIDE DEF Q
  <2> QED
    BY <1>1, <2>1, LeastNat
<1>3. n \in 1..(LAST_DAY + 1) /\ d < n /\ ~(DayStart[z][d] < DayStart[z][n])
  OBVIOUS
<1>4. n - 1 \in Day /\ n - 1 \in 1..(LAST_DAY + 1) /\ n - 1 + 1 = n /\ n - 1 < n /\ d <= n - 1
  BY <1>3, DayType
<1>5. DayStart[z][n - 1] < DayStart[z][n]
  BY <1>4, DayType
<1>6. /\ DayStart[z][d] \in Int /\ DayStart[z][n] \in Int /\ DayStart[z][n - 1] \in Int
  BY <1>3, <1>4, DayType
<1>7. CASE d = n - 1
  BY <1>3, <1>5, <1>7
<1>8. CASE d < n - 1
  <2>1. n - 1 \notin Q
    <3>1. n \in Int /\ ~(n <= n - 1)
      BY <1>3
    <3> HIDE DEF Q
    <3> QED
      BY <1>2, <3>1
  <2>2. DayStart[z][d] < DayStart[z][n - 1]
    BY <1>4, <1>8, <2>1
  <2> HIDE DEF Q
  <2> QED
    BY <1>3, <1>5, <1>6, <2>2
<1> QED
  BY <1>3, <1>4, <1>7, <1>8

\* Moment m is on day d.
On(z, d, m) == StartOfDay(z, d) <= m /\ m <= EndOfDay(z, d)

LEMMA DayEdges ==
    ASSUME NEW z \in Zone, NEW d \in Day
    PROVE  /\ StartOfDay(z, d) \in Int /\ EndOfDay(z, d) \in Int
           /\ StartOfDay(z, d) <= EndOfDay(z, d)
           /\ EndOfDay(z, d) + 1 = DayStart[z][d + 1] /\ d + 1 \in 1..(LAST_DAY + 1)
           /\ \A e \in Day : d < e => EndOfDay(z, d) < StartOfDay(z, e)
           /\ \A e \in Day : d <= e => /\ StartOfDay(z, d) <= StartOfDay(z, e)
                                       /\ EndOfDay(z, d) <= EndOfDay(z, e)
<1>1. d \in 1..(LAST_DAY + 1) /\ d + 1 \in 1..(LAST_DAY + 1)
  BY DayType
<1>2. DayStart[z][d] \in Int /\ DayStart[z][d + 1] \in Int /\ DayStart[z][d] < DayStart[z][d + 1]
  BY <1>1, DayType
<1>3. ASSUME NEW e \in Day, d < e
      PROVE  /\ DayStart[z][e] \in Int /\ DayStart[z][e + 1] \in Int
             /\ DayStart[z][d + 1] <= DayStart[z][e]
             /\ DayStart[z][d] < DayStart[z][e] /\ DayStart[z][d + 1] < DayStart[z][e + 1]
  <2>1. /\ e \in 1..(LAST_DAY + 1) /\ e + 1 \in 1..(LAST_DAY + 1) /\ d + 1 < e + 1
        /\ d + 1 = e \/ d + 1 < e
    BY <1>1, <1>3, DayType
  <2>2. DayStart[z][e] \in Int /\ DayStart[z][e + 1] \in Int
    BY <2>1, DayType
  <2>3. DayStart[z][d + 1] <= DayStart[z][e]
    BY <1>1, <1>2, <2>1, <2>2, DaysRise
  <2>4. DayStart[z][d] < DayStart[z][e] /\ DayStart[z][d + 1] < DayStart[z][e + 1]
    BY <1>1, <1>3, <2>1, DaysRise
  <2> QED
    BY <2>2, <2>3, <2>4
<1>4. StartOfDay(z, d) \in Int /\ EndOfDay(z, d) \in Int /\ StartOfDay(z, d) <= EndOfDay(z, d)
      /\ EndOfDay(z, d) + 1 = DayStart[z][d + 1]
  BY <1>2 DEF StartOfDay, EndOfDay
<1>5. ASSUME NEW e \in Day, d < e
      PROVE  /\ EndOfDay(z, d) < StartOfDay(z, e)
             /\ StartOfDay(z, d) <= StartOfDay(z, e) /\ EndOfDay(z, d) <= EndOfDay(z, e)
  BY <1>2, <1>3, <1>5 DEF StartOfDay, EndOfDay
<1>6. ASSUME NEW e \in Day, d <= e
      PROVE  StartOfDay(z, d) <= StartOfDay(z, e) /\ EndOfDay(z, d) <= EndOfDay(z, e)
  <2>1. d = e \/ d < e
    BY <1>6, DayType
  <2> QED
    BY <1>4, <1>5, <2>1
<1> QED
  BY <1>1, <1>4, <1>5, <1>6

LEMMA OneDay ==
    ASSUME NEW z \in Zone, NEW d \in Day, NEW m \in Int, On(z, d, m)
    PROVE  DayOf(z, m) = d
<1>1. ASSUME NEW e \in Day, On(z, e, m) PROVE e = d
  <2>1. StartOfDay(z, e) \in Int /\ EndOfDay(z, e) \in Int
        /\ StartOfDay(z, d) \in Int /\ EndOfDay(z, d) \in Int
    BY DayEdges
  <2>2. ~(d < e)
    <3>1. d < e => EndOfDay(z, d) < StartOfDay(z, e)
      BY DayEdges
    <3> QED
      BY <1>1, <2>1, <3>1 DEF On
  <2>3. ~(e < d)
    <3>1. e < d => EndOfDay(z, e) < StartOfDay(z, d)
      BY DayEdges
    <3> QED
      BY <1>1, <2>1, <3>1 DEF On
  <2> QED
    BY <2>2, <2>3, DayType
<1>2. DayOf(z, m) = CHOOSE e \in Day : On(z, e, m)
  BY DEF DayOf, On
<1>3. (CHOOSE e \in Day : On(z, e, m)) \in Day /\ On(z, CHOOSE e \in Day : On(z, e, m), m)
  OBVIOUS
<1> QED
  BY <1>1, <1>2, <1>3

\* A call is on the day it is said to be on.
LEMMA MomentsDay ==
    ASSUME NEW z \in Zone, NEW m \in Moment
    PROVE  DayOf(z, m) \in Day /\ On(z, DayOf(z, m), m) /\ m \in Int
<1>1. m \in Int
  BY TimeAssumption
<1>2. PICK d \in Day : DayStart[z][d] <= m /\ m < DayStart[z][d + 1]
  BY ZoneAssumption
<1>3. DayStart[z][d + 1] \in Int
  BY DayType
<1>4. On(z, d, m)
  BY <1>1, <1>2, <1>3 DEF On, StartOfDay, EndOfDay
<1> QED
  BY <1>1, <1>4, OneDay

\* Days a to b are the moments from the start of a to the end of b.
LEMMA DaysBetween ==
    ASSUME NEW z \in Zone, NEW m \in Moment, NEW a \in Day, NEW b \in Day
    PROVE  DayOf(z, m) \in a..b <=> StartOfDay(z, a) <= m /\ m <= EndOfDay(z, b)
<1> DEFINE d == DayOf(z, m)
<1>1. d \in Day /\ On(z, d, m) /\ m \in Int
  BY MomentsDay
<1> HIDE DEF d
<1>2. /\ StartOfDay(z, d) \in Int /\ EndOfDay(z, d) \in Int
      /\ StartOfDay(z, a) \in Int /\ EndOfDay(z, b) \in Int
      /\ StartOfDay(z, b) \in Int /\ EndOfDay(z, a) \in Int
  BY <1>1, DayEdges
<1>3. a <= d => StartOfDay(z, a) <= StartOfDay(z, d)
  BY <1>1, DayEdges
<1>4. d <= b => EndOfDay(z, d) <= EndOfDay(z, b)
  BY <1>1, DayEdges
<1>5. d < a => EndOfDay(z, d) < StartOfDay(z, a)
  BY <1>1, DayEdges
<1>6. b < d => EndOfDay(z, b) < StartOfDay(z, d)
  BY <1>1, DayEdges
<1>7. d \in Int /\ a \in Int /\ b \in Int
  BY <1>1, DayType
<1>8. d \in a..b <=> StartOfDay(z, a) <= m /\ m <= EndOfDay(z, b)
  BY <1>1, <1>2, <1>3, <1>4, <1>5, <1>6, <1>7 DEF On
<1> QED
  BY <1>8 DEF d

LEMMA DaysOnTheHour ==
    ASSUME NEW z \in Zone, OnTheHour(z), NEW d \in Day
    PROVE  StartOfDay(z, d) \in Int /\ StartOfDay(z, d) % HOUR = 0
<1>1. d \in 1..(LAST_DAY + 1)
  BY DayType
<1> QED
  BY <1>1, DayType DEF OnTheHour, StartOfDay

\* Where days begin on the hour, the hour of a call is on the day of the call.
LEMMA HoursDay ==
    ASSUME NEW z \in Zone, OnTheHour(z), NEW m \in Moment
    PROVE  DayOf(z, StartOfHour(m)) = DayOf(z, m)
<1> DEFINE d == DayOf(z, m)
           h == StartOfHour(m)
           s == StartOfDay(z, d)
<1>1. d \in Day /\ On(z, d, m) /\ m \in Int
  BY MomentsDay
<1>2. s \in Int /\ s <= m /\ m <= EndOfDay(z, d) /\ EndOfDay(z, d) \in Int
  BY <1>1, DayEdges DEF On
<1>3. s % HOUR = 0
  BY <1>1, DaysOnTheHour
<1>4. s <= h
  BY <1>1, <1>2, <1>3, HourOfMultiple, HoursRise
<1>5. h \in Int /\ h <= m
  BY <1>1, HourOf
<1> HIDE DEF d, h
<1>6. On(z, d, h)
  BY <1>1, <1>2, <1>4, <1>5 DEF On
<1>7. DayOf(z, h) = d
  BY <1>1, <1>5, <1>6, OneDay
<1> QED
  BY <1>7 DEF d, h

-----------------------------------------------------------------------------
(***************************************************************************)
(* What the tables tell                                                    *)
(***************************************************************************)

\* The calls a row counts: a call without a source has a row of its own.
Members(r, in, K) == IF r.key.source = None THEN {r.id} ELSE {c \in in : K[c] = r.key}

\* The fields of a row.
Rowlike(r) == r = [id |-> r.id, key |-> r.key, total |-> r.total]

\* Every call in "in", whose key is K[c], belongs to one row, which counts its calls.
Tells(rows, in, K) ==
    /\ IsFiniteSet(rows)
    /\ \A r \in rows : /\ Rowlike(r) /\ r.id \in in /\ K[r.id] = r.key
                       /\ "calls" \in DOMAIN r.total
                       /\ r.total["calls"] = Cardinality(Members(r, in, K))
    /\ \A c \in in : \E r \in rows : c \in Members(r, in, K)
    /\ \A q, r \in rows : q # r => Members(q, in, K) \cap Members(r, in, K) = {}

LEMMA TellsSame ==
    ASSUME NEW rows, NEW in, NEW K, NEW L, Tells(rows, in, K), SameOn(K, L, in)
    PROVE  Tells(rows, in, L)
<1>1. \A r \in rows : Members(r, in, L) = Members(r, in, K)
  BY DEF Members, SameOn
<1>2. \A r \in rows : L[r.id] = K[r.id]
  BY DEF Tells, SameOn
<1> QED
  BY <1>1, <1>2 DEF Tells

LEMMA TellsNothing == \A K : Tells({}, {}, K)
  BY FS_EmptySet DEF Tells

\* A member has the key of its row.
LEMMA MembersKey ==
    ASSUME NEW rows, NEW in, NEW K, Tells(rows, in, K), NEW r \in rows,
           NEW c \in Members(r, in, K)
    PROVE  c \in in /\ K[c] = r.key
  BY DEF Tells, Members

LEMMA MembersFinite ==
    ASSUME NEW rows, NEW in, NEW K, Tells(rows, in, K), IsFiniteSet(in), NEW r \in rows
    PROVE  IsFiniteSet(Members(r, in, K)) /\ Members(r, in, K) \in SUBSET in
<1>1. Members(r, in, K) \in SUBSET in
  BY MembersKey
<1> QED
  BY <1>1, FS_Subset

\* The row that takes the totals of another one.
Grown(q, row) == [id |-> q.id, key |-> q.key,
                  total |-> [f \in DOMAIN q.total |-> q.total[f] + row.total[f]]]

\* What the statement does: it inserts its row, or one row grows.
LEMMA Upserted ==
    ASSUME NEW rows, NEW in, NEW K, Tells(rows, in, K), NEW row
    PROVE  \/ /\ Upsert(rows, row) = rows \cup {row}
              /\ \A r \in rows : r.key = row.key => row.key.source = None
           \/ \E q \in rows :
                  /\ q.key = row.key /\ row.key.source # None
                  /\ Upsert(rows, row) = (rows \ {q}) \cup {Grown(q, row)}
                  /\ \A r \in rows \ {q} : r.key # row.key
<1> DEFINE there == {r \in rows : r.key = row.key /\ row.key.source # None}
<1>1. CASE there = {}
  BY <1>1 DEF Upsert
<1>2. CASE there # {}
  <2>1. PICK q \in there : TRUE
    BY <1>2
  <2>2. q \in rows /\ q.key = row.key /\ row.key.source # None
    BY <2>1
  <2>3. ASSUME NEW r \in rows, r.key = row.key PROVE r = q
    <3>1. Members(r, in, K) = Members(q, in, K)
      BY <2>2, <2>3 DEF Members
    <3>2. q.id \in Members(q, in, K)
      BY <2>2 DEF Members, Tells
    <3> QED
      BY <2>2, <3>1, <3>2 DEF Tells
  <2>4. there = {q}
    BY <2>2, <2>3
  <2> DEFINE grow(r) == [r EXCEPT !.total = [f \in DOMAIN r.total |-> r.total[f] + row.total[f]]]
  <2>5. Upsert(rows, row) = (rows \ there) \cup {grow(r) : r \in there}
    BY <1>2 DEF Upsert
  <2>6. grow(q) = Grown(q, row)
    <3>1. q = [id |-> q.id, key |-> q.key, total |-> q.total]
      BY <2>2 DEF Tells, Rowlike
    <3> DEFINE t == [f \in DOMAIN q.total |-> q.total[f] + row.total[f]]
               i == q.id
               k == q.key
               u == q.total
    <3>2. q = [id |-> i, key |-> k, total |-> u]
      BY <3>1
    <3> HIDE DEF t, i, k, u
    <3>3. [q EXCEPT !.total = t] = [id |-> i, key |-> k, total |-> t]
      BY <3>2
    <3> QED
      BY <3>3 DEF t, i, k, Grown
  <2> HIDE DEF grow
  <2>7. {grow(r) : r \in there} = {Grown(q, row)}
    BY <2>4, <2>6
  <2> QED
    BY <2>2, <2>3, <2>4, <2>5, <2>7
<1> QED
  BY <1>1, <1>2

\* The statement of one more call: the table tells of it too.
LEMMA TellsMore ==
    ASSUME NEW rows, NEW in, IsFiniteSet(in), NEW K, Tells(rows, in, K), NEW c, c \notin in,
           NEW row, Rowlike(row), row.id = c, row.key = K[c],
           "calls" \in DOMAIN row.total, row.total["calls"] = 1
    PROVE  Tells(Upsert(rows, row), in \cup {c}, K)
<1> DEFINE more == in \cup {c}
           M(r) == Members(r, in, K)
           N(r) == Members(r, more, K)
<1>1. IsFiniteSet(rows)
  BY DEF Tells
<1>2. ASSUME NEW r \in rows, r.key # row.key \/ row.key.source = None
      PROVE  N(r) = M(r) /\ r.id \in more /\ c \notin N(r)
  <2>1. r.id \in in /\ K[r.id] = r.key /\ r.id # c
    BY DEF Tells
  <2>2. CASE r.key.source = None
    BY <2>1, <2>2 DEF Members
  <2>3. CASE r.key.source # None
    BY <1>2, <2>1, <2>3 DEF Members
  <2> QED
    BY <2>2, <2>3
<1>3. CASE /\ Upsert(rows, row) = rows \cup {row}
           /\ \A r \in rows : r.key = row.key => row.key.source = None
  <2>1. \A r \in rows : N(r) = M(r) /\ r.id \in more /\ c \notin N(r)
    BY <1>2, <1>3
  <2>2. N(row) = {c}
    <3>1. CASE row.key.source = None
      BY <3>1 DEF Members
    <3>2. CASE row.key.source # None
      <4>1. ASSUME NEW x \in in, K[x] = row.key PROVE FALSE
        <5>1. PICK r \in rows : x \in M(r)
          BY DEF Tells
        <5>2. r.key = row.key
          BY <4>1, <5>1, MembersKey
        <5> QED
          BY <1>3, <3>2, <5>2
      <4> QED
        BY <3>2, <4>1 DEF Members
    <3> QED
      BY <3>1, <3>2
  <2>3. IsFiniteSet(rows \cup {row})
    BY <1>1, FS_AddElement
  <2>4. Cardinality({c}) = 1
    BY FS_Singleton
  <2>5. row.id \in more /\ K[row.id] = row.key /\ row.total["calls"] = Cardinality(N(row))
    BY <2>2, <2>4
  <2>6. \A r \in rows : /\ Rowlike(r) /\ r.id \in more /\ K[r.id] = r.key
                        /\ "calls" \in DOMAIN r.total
                        /\ r.total["calls"] = Cardinality(N(r))
    BY <2>1 DEF Tells
  <2>7. \A x \in more : \E r \in rows \cup {row} : x \in N(r)
    <3>1. \A x \in in : \E r \in rows : x \in M(r)
      BY DEF Tells
    <3> HIDE DEF M, N
    <3> QED
      BY <2>1, <2>2, <3>1
  <2>8. ASSUME NEW q \in rows \cup {row}, NEW r \in rows \cup {row}, q # r
        PROVE  N(q) \cap N(r) = {}
    <3>1. q \in rows /\ r \in rows => M(q) \cap M(r) = {}
      BY <2>8 DEF Tells
    <3> HIDE DEF M, N
    <3> QED
      BY <2>1, <2>2, <2>8, <3>1
  <2>9. Rowlike(row) /\ "calls" \in DOMAIN row.total
    OBVIOUS
  <2> HIDE DEF more
  <2>10. Tells(rows \cup {row}, more, K)
    BY <2>3, <2>5, <2>6, <2>7, <2>8, <2>9 DEF Tells
  <2> QED
    BY <1>3, <2>10 DEF more
<1>4. CASE \E q \in rows :
               /\ q.key = row.key /\ row.key.source # None
               /\ Upsert(rows, row) = (rows \ {q}) \cup {Grown(q, row)}
               /\ \A r \in rows \ {q} : r.key # row.key
  <2>1. PICK q \in rows :
            /\ q.key = row.key /\ row.key.source # None
            /\ Upsert(rows, row) = (rows \ {q}) \cup {Grown(q, row)}
            /\ \A r \in rows \ {q} : r.key # row.key
    BY <1>4
  <2> DEFINE g == Grown(q, row)
             old == rows \ {q}
  <2>2. \A r \in old : N(r) = M(r) /\ r.id \in more /\ c \notin N(r)
    BY <1>2, <2>1
  <2>3. /\ g.id = q.id /\ g.key = q.key /\ Rowlike(g) /\ DOMAIN g.total = DOMAIN q.total
        /\ \A f \in DOMAIN q.total : g.total[f] = q.total[f] + row.total[f]
    BY DEF Grown, Rowlike
  <2> HIDE DEF g
  <2>4. N(g) = M(q) \cup {c}
    BY <2>1, <2>3 DEF Members
  <2>5. IsFiniteSet(M(q)) /\ c \notin M(q)
    BY MembersFinite
  <2>6. Cardinality(N(g)) = Cardinality(M(q)) + 1
    <3> HIDE DEF M, N
    <3> QED
      BY <2>4, <2>5, FS_AddElement
  <2>7. g.total["calls"] = Cardinality(N(g)) /\ "calls" \in DOMAIN g.total
        /\ g.id \in more /\ K[g.id] = g.key
    BY <2>3, <2>6 DEF Tells
  <2>8. IsFiniteSet(old \cup {g})
    BY <1>1, FS_Subset, FS_AddElement
  <2>9. \A r \in old : /\ Rowlike(r) /\ r.id \in more /\ K[r.id] = r.key
                       /\ "calls" \in DOMAIN r.total
                       /\ r.total["calls"] = Cardinality(N(r))
    BY <2>2 DEF Tells
  <2>10. \A x \in more : \E r \in old \cup {g} : x \in N(r)
    <3>1. \A x \in in : \E r \in rows : x \in M(r)
      BY DEF Tells
    <3> HIDE DEF M, N
    <3> QED
      BY <2>2, <2>4, <3>1
  <2>11. ASSUME NEW p \in old \cup {g}, NEW r \in old \cup {g}, p # r
         PROVE  N(p) \cap N(r) = {}
    <3>1. p \in old /\ r \in old => M(p) \cap M(r) = {}
      BY <2>11 DEF Tells
    <3>2. \A s \in old : M(s) \cap M(q) = {}
      BY DEF Tells
    <3> HIDE DEF M, N, old
    <3> QED
      BY <2>2, <2>4, <2>11, <3>1, <3>2
  <2>12. Upsert(rows, row) = old \cup {g}
    BY <2>1 DEF g
  <2> HIDE DEF more, old
  <2>13. Tells(old \cup {g}, more, K)
    BY <2>3, <2>7, <2>8, <2>9, <2>10, <2>11 DEF Tells
  <2> QED
    BY <2>12, <2>13 DEF more
<1> QED
  BY <1>3, <1>4, Upserted

\* A total of calls over some rows is the number of the calls that belong to them.
LEMMA TotalCounts ==
    ASSUME NEW rows, NEW in, IsFiniteSet(in), NEW K, Tells(rows, in, K),
           NEW R \in SUBSET rows
    PROVE  /\ Total(R, "calls")
                = Cardinality({c \in in : \E r \in R : c \in Members(r, in, K)})
           /\ IsFiniteSet(R)
<1> DEFINE f == [r \in R |-> r.total["calls"]]
           M == [r \in R |-> Members(r, in, K)]
<1>1. IsFiniteSet(R)
  BY FS_Subset DEF Tells
<1>2. \A r \in R : IsFiniteSet(M[r]) /\ f[r] = Cardinality(M[r])
  BY MembersFinite DEF Tells
<1>3. \A q, r \in R : q # r => M[q] \cap M[r] = {}
  BY DEF Tells
<1>4. CountsParts(f, M, R)
  <2> HIDE DEF f, M
  <2> QED
    BY <1>2, <1>3 DEF CountsParts
<1>5. SumFunctionOnSet(f, R) = Cardinality(Parts(M, R))
  <2> HIDE DEF f, M
  <2> QED
    BY <1>1, <1>4, SumCounts
<1>6. Parts(M, R) = {c \in in : \E r \in R : c \in Members(r, in, K)}
  <2>1. \A r \in R : Members(r, in, K) \in SUBSET in
    BY MembersFinite
  <2> QED
    BY <2>1 DEF Parts
<1>7. Total(R, "calls") = SumFunctionOnSet(f, R)
  BY DEF Total
<1> QED
  BY <1>1, <1>5, <1>6, <1>7

\* A Fetch takes rows with this key.
Wanted(key, from, to, sources) ==
    /\ StartOfHour(from) <= key.hour /\ key.hour <= EndOfHour(to)
    /\ sources = {} \/ key.source \in sources

\* The rows, and the calls, with a key in P.
RowsOf(R, P, rows) == R \subseteq rows /\ \A r \in rows : r \in R <=> r.key \in P
CallsOf(U, P, in, K) == U \subseteq in /\ \A c \in in : c \in U <=> K[c] \in P

\* Rows chosen by their key count the calls with such a key.
LEMMA ChosenCount ==
    ASSUME NEW rows, NEW in, IsFiniteSet(in), NEW K, Tells(rows, in, K), NEW P,
           NEW R, RowsOf(R, P, rows), NEW U, CallsOf(U, P, in, K)
    PROVE  Total(R, "calls") = Cardinality(U)
<1> USE DEF RowsOf, CallsOf
<1>1. {c \in in : \E r \in R : c \in Members(r, in, K)} = U
  <2>1. ASSUME NEW c \in U
        PROVE  \E r \in R : c \in Members(r, in, K)
    <3>1. PICK r \in rows : c \in Members(r, in, K)
      BY DEF Tells
    <3>2. r.key = K[c]
      BY <3>1, MembersKey
    <3> QED
      BY <3>1, <3>2
  <2>2. ASSUME NEW c \in in, NEW r \in R, c \in Members(r, in, K)
        PROVE  c \in U
    BY <2>2, MembersKey
  <2> QED
    BY <2>1, <2>2
<1> QED
  BY <1>1, TotalCounts

-----------------------------------------------------------------------------
(***************************************************************************)
(* The invariant                                                           *)
(***************************************************************************)

\* The key of each call, as its statement computes it.
VolumeKeys ==
    [c \in Call |-> [source |-> calls[c].source, hour |-> StartOfHour(calls[c].at)]]
KpiKeys ==
    [c \in Call |-> [source |-> calls[c].source, hour |-> StartOfHour(calls[c].at),
                     department |-> calls[c].department]]

\* A statement is started for a call that has ended, and runs once.
Stated(to, in) ==
    /\ to \subseteq Call /\ in \subseteq Call /\ to \cap in = {}
    /\ \A c \in to \cup in : calls[c] # None

\* Totals of any mix of answered, missed, rated and unrated calls.
Mixed(t) ==
    /\ t \in [calls : Nat, connected : Nat, requested : Nat, booked : Nat,
              sentiment : Nat, rated : Nat]
    /\ t.booked <= t.connected /\ t.connected <= t.calls /\ t.requested <= t.calls
    /\ t.rated <= t.calls /\ t.rated <= t.sentiment /\ t.sentiment <= 5 * t.rated

CallsTyped == calls \in [Call -> CallRow \cup {None}]

IInv ==
    /\ CallsTyped /\ Stated(toVolume, inVolume) /\ Stated(toKpis, inKpis)
    /\ Tells(volume, inVolume, VolumeKeys) /\ \A r \in volume : r.total \in [calls : Nat]
    /\ Tells(kpis, inKpis, KpiKeys) /\ \A r \in kpis : Mixed(r.total)

LEMMA Initially == Init => IInv
<1> SUFFICES ASSUME Init PROVE IInv
  OBVIOUS
<1>1. Tells(volume, inVolume, VolumeKeys) /\ Tells(kpis, inKpis, KpiKeys)
  BY TellsNothing DEF Init
<1>2. CallsTyped
  BY DEF Init, CallsTyped
<1> QED
  BY <1>1, <1>2 DEF Init, IInv, Stated

\* What stays when only calls whose statement has not run change.
LEMMA KeysStay ==
    ASSUME IInv, NEW c \in Call, \A d \in Call \ {c} : calls'[d] = calls[d],
           UNCHANGED <<volume, kpis, inVolume, inKpis>>,
           c \in inVolume => calls'[c].source = calls[c].source /\ calls'[c].at = calls[c].at,
           c \notin inKpis
    PROVE  /\ Tells(volume, inVolume, VolumeKeys)' /\ \A r \in volume' : r.total \in [calls : Nat]
           /\ Tells(kpis, inKpis, KpiKeys)' /\ \A r \in kpis' : Mixed(r.total)
<1>1. inVolume \subseteq Call /\ inKpis \subseteq Call
  BY DEF IInv, Stated
<1>2. SameOn(VolumeKeys, VolumeKeys', inVolume)
  BY <1>1 DEF SameOn, VolumeKeys
<1>3. SameOn(KpiKeys, KpiKeys', inKpis)
  BY <1>1 DEF SameOn, KpiKeys
<1>4. Tells(volume, inVolume, VolumeKeys')
  BY <1>2, TellsSame DEF IInv
<1>5. Tells(kpis, inKpis, KpiKeys')
  BY <1>3, TellsSame DEF IInv
<1> QED
  BY <1>4, <1>5 DEF IInv

LEMMA CallEndsKeeps ==
    ASSUME IInv, NEW c \in Call, NEW m \in Moment, NEW s \in Source \cup {None},
           NEW answered \in BOOLEAN, CallEnds(c, m, s, answered)
    PROVE  IInv'
<1> DEFINE row == [at |-> m, source |-> s, department |-> "none", sentiment |-> None,
                   result |-> IF answered THEN "none" ELSE "not_connected",
                   answered |-> answered]
<1>1. row \in CallRow
  BY DEF CallRow, Departments, Results
<1>2. calls' = [calls EXCEPT ![c] = row] /\ calls[c] = None
  BY DEF CallEnds
<1> HIDE DEF row
<1>3. CallsTyped' /\ \A d \in Call \ {c} : calls'[d] = calls[d]
  BY <1>1, <1>2 DEF IInv, CallsTyped
<1>4. calls'[c] # None
  BY <1>1, <1>2, NoneAssumption DEF IInv, CallsTyped
<1>5. c \notin inVolume /\ c \notin inKpis
  BY <1>2 DEF IInv, Stated
<1>6. /\ toVolume' \subseteq toVolume \cup {c} /\ toKpis' \subseteq toKpis \cup {c}
      /\ UNCHANGED <<volume, kpis, inVolume, inKpis>>
  BY DEF CallEnds
<1>7. Stated(toVolume, inVolume)' /\ Stated(toKpis, inKpis)'
  BY <1>3, <1>4, <1>5, <1>6 DEF IInv, Stated
<1> QED
  BY <1>3, <1>5, <1>6, <1>7, KeysStay DEF IInv

LEMMA ClassifiedKeeps ==
    ASSUME IInv, NEW c \in Call, NEW v \in Verdict, Classified(c, v)
    PROVE  IInv'
<1>1. calls[c] \in CallRow
  BY DEF Classified, IInv, CallsTyped
<1> DEFINE e == calls[c]
           row == [e EXCEPT !.department = v.department, !.result = v.result,
                            !.sentiment = v.sentiment]
<1>2. v.department \in Departments /\ v.result \in Results /\ v.sentiment \in 1..5
  BY VerdictAssumption
<1>3. row \in CallRow /\ row.source = e.source /\ row.at = e.at
  <2> HIDE DEF e
  <2>1. e \in CallRow
    BY <1>1 DEF e
  <2> QED
    BY <1>2, <2>1 DEF CallRow
<1>4. calls' = [calls EXCEPT ![c] = row]
  BY DEF Classified, IInv, CallsTyped
<1> HIDE DEF row
<1>5. CallsTyped' /\ calls'[c] = row /\ \A d \in Call \ {c} : calls'[d] = calls[d]
  BY <1>3, <1>4 DEF IInv, CallsTyped
<1>6. calls'[c] # None
  BY <1>3, <1>5, NoneAssumption
<1>7. /\ toVolume' = toVolume /\ toKpis' = toKpis \cup {c} /\ c \notin inKpis
      /\ UNCHANGED <<volume, kpis, inVolume, inKpis>>
  BY DEF Classified
<1>8. Stated(toVolume, inVolume)' /\ Stated(toKpis, inKpis)'
  BY <1>5, <1>6, <1>7 DEF IInv, Stated
<1> QED
  BY <1>3, <1>5, <1>7, <1>8, KeysStay DEF IInv

LEMMA AddVolumeKeeps ==
    ASSUME IInv, NEW c \in Call, AddVolume(c)
    PROVE  IInv'
<1> DEFINE row == VolumeIncrement(c)
<1>1. c \in toVolume /\ c \notin inVolume /\ IsFiniteSet(inVolume)
  <2>1. inVolume \in SUBSET Call
    BY DEF IInv, Stated
  <2> QED
    BY <2>1, CallAssumption, FS_Subset DEF AddVolume, IInv, Stated
<1>2. /\ Rowlike(row) /\ row.id = c /\ row.key = VolumeKeys[c]
      /\ row.total = [calls |-> 1] /\ "calls" \in DOMAIN row.total /\ row.total["calls"] = 1
  BY DEF VolumeIncrement, Rowlike, VolumeKeys
<1>3. volume' = Upsert(volume, row) /\ inVolume' = inVolume \cup {c}
      /\ toVolume' = toVolume \ {c} /\ UNCHANGED <<calls, kpis, toKpis, inKpis>>
  BY DEF AddVolume, AddToVolume
<1> HIDE DEF row
<1>4. Tells(Upsert(volume, row), inVolume \cup {c}, VolumeKeys)
  BY <1>1, <1>2, TellsMore DEF IInv
<1>5. VolumeKeys' = VolumeKeys /\ KpiKeys' = KpiKeys
  BY <1>3 DEF VolumeKeys, KpiKeys
<1>6. Tells(volume, inVolume, VolumeKeys)'
  BY <1>3, <1>4, <1>5
<1>7. Tells(kpis, inKpis, KpiKeys)' /\ \A r \in kpis' : Mixed(r.total)
  BY <1>3, <1>5 DEF IInv
<1>8. ASSUME NEW r \in volume' PROVE r.total \in [calls : Nat]
  <2>1. ASSUME NEW q \in volume PROVE Grown(q, row).total \in [calls : Nat]
    <3>1. q.total \in [calls : Nat]
      BY DEF IInv
    <3> QED
      BY <1>2, <3>1 DEF Grown
  <2> QED
    BY <1>2, <1>3, <2>1, Upserted DEF IInv
<1>9. Stated(toVolume, inVolume)' /\ Stated(toKpis, inKpis)' /\ CallsTyped'
  BY <1>1, <1>3 DEF IInv, Stated, CallsTyped
<1> QED
  BY <1>6, <1>7, <1>8, <1>9 DEF IInv

\* The totals of one call.
LEMMA OneMixed ==
    ASSUME NEW log \in CallRow
    PROVE  Mixed(KpiTotals(log)) /\ KpiTotals(log)["calls"] = 1
<1> DEFINE t == KpiTotals(log)
<1>1. /\ DOMAIN t = {"calls", "connected", "requested", "booked", "sentiment", "rated"}
      /\ t.calls = 1 /\ t.connected = One(log.result # "not_connected")
      /\ t.requested = One(log.result = "appointment_requested")
      /\ t.booked = One(log.result \in {"appointment_booked", "appointment_rescheduled"})
      /\ t.sentiment = IF log.sentiment = None THEN 0 ELSE log.sentiment
      /\ t.rated = One(log.sentiment # None)
      /\ t = [calls |-> t.calls, connected |-> t.connected, requested |-> t.requested,
              booked |-> t.booked, sentiment |-> t.sentiment, rated |-> t.rated]
  BY DEF KpiTotals
<1> HIDE DEF t
<1>2. t.connected \in 0..1 /\ t.requested \in 0..1 /\ t.booked \in 0..1 /\ t.rated \in 0..1
  BY <1>1 DEF One
<1>3. t.booked <= t.connected
  BY <1>1 DEF One
<1>4. t.rated <= t.sentiment /\ t.sentiment <= 5 * t.rated /\ t.sentiment \in Nat
  <2>1. CASE log.sentiment = None
    BY <1>1, <2>1 DEF One
  <2>2. CASE log.sentiment # None
    <3>1. log.sentiment \in 1..5
      BY <2>2 DEF CallRow
    <3>2. t.rated = 1 /\ t.sentiment = log.sentiment
      BY <1>1, <2>2 DEF One
    <3> QED
      BY <3>1, <3>2
  <2> QED
    BY <2>1, <2>2
<1>5. t \in [calls : Nat, connected : Nat, requested : Nat, booked : Nat,
             sentiment : Nat, rated : Nat]
  BY <1>1, <1>2, <1>4
<1>6. Mixed(t) /\ t["calls"] = 1
  BY <1>1, <1>2, <1>3, <1>4, <1>5 DEF Mixed
<1> QED
  BY <1>6 DEF t

\* The totals of two mixes.
LEMMA SumMixed ==
    ASSUME NEW q, NEW row, Mixed(q.total), Mixed(row.total)
    PROVE  Mixed(Grown(q, row).total)
<1> DEFINE s == q.total
           t == row.total
           g == Grown(q, row).total
<1>1. g = [f \in DOMAIN s |-> s[f] + t[f]]
  BY DEF Grown
<1>2. DOMAIN s = {"calls", "connected", "requested", "booked", "sentiment", "rated"}
  BY DEF Mixed
<1> HIDE DEF g, s, t
<1>3. Mixed(s) /\ Mixed(t)
  BY DEF s, t
<1>4. /\ g.calls = s.calls + t.calls /\ g.connected = s.connected + t.connected
      /\ g.requested = s.requested + t.requested /\ g.booked = s.booked + t.booked
      /\ g.sentiment = s.sentiment + t.sentiment /\ g.rated = s.rated + t.rated
      /\ g = [calls |-> g.calls, connected |-> g.connected, requested |-> g.requested,
              booked |-> g.booked, sentiment |-> g.sentiment, rated |-> g.rated]
  BY <1>1, <1>2
<1>5. /\ s.calls \in Nat /\ s.connected \in Nat /\ s.requested \in Nat /\ s.booked \in Nat
      /\ s.sentiment \in Nat /\ s.rated \in Nat
      /\ t.calls \in Nat /\ t.connected \in Nat /\ t.requested \in Nat /\ t.booked \in Nat
      /\ t.sentiment \in Nat /\ t.rated \in Nat
  BY <1>3 DEF Mixed
<1>6. /\ s.booked <= s.connected /\ s.connected <= s.calls /\ s.requested <= s.calls
      /\ s.rated <= s.calls /\ s.rated <= s.sentiment /\ s.sentiment <= 5 * s.rated
      /\ t.booked <= t.connected /\ t.connected <= t.calls /\ t.requested <= t.calls
      /\ t.rated <= t.calls /\ t.rated <= t.sentiment /\ t.sentiment <= 5 * t.rated
  BY <1>3 DEF Mixed
<1>7. /\ g.calls \in Nat /\ g.connected \in Nat /\ g.requested \in Nat /\ g.booked \in Nat
      /\ g.sentiment \in Nat /\ g.rated \in Nat
  BY <1>4, <1>5
<1>8. /\ g.booked <= g.connected /\ g.connected <= g.calls /\ g.requested <= g.calls
      /\ g.rated <= g.calls /\ g.rated <= g.sentiment /\ g.sentiment <= 5 * g.rated
  BY <1>4, <1>5, <1>6
<1>9. g \in [calls : Nat, connected : Nat, requested : Nat, booked : Nat,
             sentiment : Nat, rated : Nat]
  BY <1>4, <1>7
<1>10. Mixed(g)
  BY <1>8, <1>9 DEF Mixed
<1> QED
  BY <1>10 DEF g

LEMMA AddKpiKeeps ==
    ASSUME IInv, NEW c \in Call, AddKpi(c)
    PROVE  IInv'
<1> DEFINE row == [id |-> c, total |-> KpiTotals(calls[c]),
                   key |-> [source |-> calls[c].source, hour |-> StartOfHour(calls[c].at),
                            department |-> calls[c].department]]
<1>1. c \in toKpis /\ c \notin inKpis /\ IsFiniteSet(inKpis) /\ calls[c] \in CallRow
  <2>1. inKpis \in SUBSET Call
    BY DEF IInv, Stated
  <2> QED
    BY <2>1, CallAssumption, FS_Subset DEF AddKpi, IInv, Stated, CallsTyped
<1>2. /\ Rowlike(row) /\ row.id = c /\ row.key = KpiKeys[c] /\ row.total = KpiTotals(calls[c])
  BY DEF Rowlike, KpiKeys
<1>3. kpis' = Upsert(kpis, row) /\ inKpis' = inKpis \cup {c}
      /\ toKpis' = toKpis \ {c} /\ UNCHANGED <<calls, volume, toVolume, inVolume>>
  BY DEF AddKpi, AddToKpis
<1> HIDE DEF row
<1>4. Mixed(row.total) /\ row.total["calls"] = 1 /\ "calls" \in DOMAIN row.total
  <2>1. Mixed(row.total) /\ row.total["calls"] = 1
    BY <1>1, <1>2, OneMixed
  <2> QED
    BY <2>1 DEF Mixed
<1>5. Tells(Upsert(kpis, row), inKpis \cup {c}, KpiKeys)
  BY <1>1, <1>2, <1>4, TellsMore DEF IInv
<1>6. VolumeKeys' = VolumeKeys /\ KpiKeys' = KpiKeys
  BY <1>3 DEF VolumeKeys, KpiKeys
<1>7. Tells(kpis, inKpis, KpiKeys)'
  BY <1>3, <1>5, <1>6
<1>8. Tells(volume, inVolume, VolumeKeys)' /\ \A r \in volume' : r.total \in [calls : Nat]
  BY <1>3, <1>6 DEF IInv
<1>9. ASSUME NEW r \in kpis' PROVE Mixed(r.total)
  <2>1. ASSUME NEW q \in kpis PROVE Mixed(Grown(q, row).total)
    BY <1>4, SumMixed DEF IInv
  <2> QED
    BY <1>3, <1>4, <2>1, Upserted DEF IInv
<1>10. Stated(toVolume, inVolume)' /\ Stated(toKpis, inKpis)' /\ CallsTyped'
  BY <1>1, <1>3 DEF IInv, Stated, CallsTyped
<1> QED
  BY <1>7, <1>8, <1>9, <1>10 DEF IInv

LEMMA Stepwise == IInv /\ [Next]_vars => IInv'
<1> SUFFICES ASSUME IInv, [Next]_vars PROVE IInv'
  OBVIOUS
<1>1. CASE UNCHANGED vars
  BY <1>1 DEF vars, IInv, Stated, CallsTyped, VolumeKeys, KpiKeys
<1> QED
  BY <1>1, CallEndsKeeps, ClassifiedKeeps, AddVolumeKeeps, AddKpiKeeps DEF Next

\* The invariant holds in every reachable state.
LEMMA Invariance == Spec => []IInv
<1> QED
  BY Initially, Stepwise, PTL DEF Spec

LEMMA InsFinite ==
    ASSUME IInv
    PROVE  IsFiniteSet(inVolume) /\ IsFiniteSet(inKpis)
<1>1. inVolume \in SUBSET Call /\ inKpis \in SUBSET Call
  BY DEF IInv, Stated
<1> QED
  BY <1>1, CallAssumption, FS_Subset

\* What is known of a call whose statement has run.
LEMMA Counted ==
    ASSUME IInv, NEW c \in inVolume \cup inKpis
    PROVE  /\ c \in Call /\ calls[c] \in CallRow
           /\ calls[c].at \in Moment /\ calls[c].at \in Int
           /\ VolumeKeys[c] = [source |-> calls[c].source, hour |-> StartOfHour(calls[c].at)]
           /\ KpiKeys[c] = [source |-> calls[c].source, hour |-> StartOfHour(calls[c].at),
                            department |-> calls[c].department]
<1>1. c \in Call
  BY DEF IInv, Stated
<1>2. calls[c] \in CallRow
  BY <1>1 DEF IInv, Stated, CallsTyped
<1>3. calls[c].at \in Moment
  BY <1>2 DEF CallRow
<1> QED
  BY <1>1, <1>2, <1>3, TimeAssumption DEF VolumeKeys, KpiKeys

LEMMA Typed == IInv => TypeOK
<1> SUFFICES ASSUME IInv PROVE TypeOK
  OBVIOUS
<1> DEFINE n == Cardinality(Call)
<1>1. n \in Nat /\ Amount = 0..n
  BY CallAssumption, FS_CardinalityType DEF Amount
<1>2. ASSUME NEW S \in SUBSET Call PROVE Cardinality(S) \in Amount
  <2>1. IsFiniteSet(S) /\ Cardinality(S) <= n
    BY CallAssumption, FS_Subset
  <2> QED
    BY <1>1, <2>1, FS_CardinalityType
<1>3. ASSUME NEW c \in inVolume \cup inKpis
      PROVE  /\ calls[c].source \in Source \cup {None}
             /\ StartOfHour(calls[c].at) \in HourStart
             /\ calls[c].department \in Departments
  BY <1>3, Counted DEF CallRow, HourStart, StartOfHour
<1>4. ASSUME NEW r \in volume PROVE r \in VolumeRow
  <2>1. r.id \in inVolume /\ VolumeKeys[r.id] = r.key /\ Rowlike(r)
        /\ r.total["calls"] = Cardinality(Members(r, inVolume, VolumeKeys))
    BY DEF IInv, Tells
  <2>2. Members(r, inVolume, VolumeKeys) \in SUBSET Call
    <3>1. Members(r, inVolume, VolumeKeys) \in SUBSET inVolume
      BY InsFinite, MembersFinite DEF IInv
    <3> QED
      BY <3>1 DEF IInv, Stated
  <2>3. r.total.calls \in Amount
    BY <1>2, <2>1, <2>2
  <2>4. r.total \in [calls : Amount]
    BY <2>3 DEF IInv
  <2>5. r.key \in [source : Source \cup {None}, hour : HourStart]
    <3> DEFINE c == r.id
    <3>1. c \in inVolume /\ r.key = VolumeKeys[c]
      BY <2>1
    <3> HIDE DEF c
    <3>2. r.key = [source |-> calls[c].source, hour |-> StartOfHour(calls[c].at)]
      BY <3>1, Counted
    <3> QED
      BY <1>3, <3>1, <3>2
  <2>6. r.id \in Call
    BY <2>1, Counted
  <2> QED
    BY <2>1, <2>4, <2>5, <2>6 DEF VolumeRow, Rowlike
<1>5. ASSUME NEW r \in kpis PROVE r \in KpiRow
  <2>1. r.id \in inKpis /\ KpiKeys[r.id] = r.key /\ Rowlike(r)
        /\ r.total["calls"] = Cardinality(Members(r, inKpis, KpiKeys))
    BY DEF IInv, Tells
  <2>2. Members(r, inKpis, KpiKeys) \in SUBSET Call
    <3>1. Members(r, inKpis, KpiKeys) \in SUBSET inKpis
      BY InsFinite, MembersFinite DEF IInv
    <3> QED
      BY <3>1 DEF IInv, Stated
  <2> DEFINE t == r.total
  <2>3. t.calls \in Amount
    BY <1>2, <2>1, <2>2
  <2>4. Mixed(t)
    BY DEF IInv
  <2> HIDE DEF t, n
  <2>5. /\ t.connected \in Amount /\ t.requested \in Amount /\ t.booked \in Amount
        /\ t.rated \in Amount /\ t.sentiment \in 0..5 * n
    BY <1>1, <2>3, <2>4 DEF Mixed
  <2>6. t \in [calls : Amount, connected : Amount, requested : Amount, booked : Amount,
               sentiment : 0..5 * n, rated : Amount]
    BY <2>3, <2>4, <2>5 DEF Mixed
  <2>7. r.key \in [source : Source \cup {None}, hour : HourStart, department : Departments]
    <3> DEFINE c == r.id
    <3>1. c \in inKpis /\ r.key = KpiKeys[c]
      BY <2>1
    <3> HIDE DEF c
    <3>2. r.key = [source |-> calls[c].source, hour |-> StartOfHour(calls[c].at),
                   department |-> calls[c].department]
      BY <3>1, Counted
    <3> QED
      BY <1>3, <3>1, <3>2
  <2>8. r.id \in Call
    BY <2>1, Counted
  <2> QED
    BY <2>1, <2>6, <2>7, <2>8 DEF KpiRow, Rowlike, t, n
<1> QED
  BY <1>4, <1>5 DEF TypeOK, IInv, CallsTyped, Stated

\* The type invariant of Reporting: the rows of both tables have the columns of their
\* key, and a total is never more than the calls there are.
THEOREM TypeCorrect == Spec => []TypeOK
<1> QED
  BY Invariance, Typed, PTL

-----------------------------------------------------------------------------
(***************************************************************************)
(* Windows                                                                 *)
(***************************************************************************)

\* The calls in the hours that a window takes.
InHours(C, from, to, sources) ==
    {c \in C : /\ StartOfHour(from) <= StartOfHour(calls[c].at)
               /\ StartOfHour(calls[c].at) <= EndOfHour(to)
               /\ sources = {} \/ calls[c].source \in sources}

LEMMA KpisCounted ==
    ASSUME IInv, NEW from, NEW to, NEW sources, NEW department
    PROVE  Total(Fetch(Department(department), from, to, sources), "calls")
             = Cardinality(InHours({c \in inKpis : calls[c].department = department},
                                   from, to, sources))
<1> DEFINE P == {k \in {KpiKeys[c] : c \in inKpis} :
                    k.department = department /\ Wanted(k, from, to, sources)}
           R == Fetch(Department(department), from, to, sources)
           C == {c \in inKpis : calls[c].department = department}
           U == InHours(C, from, to, sources)
<1>1. \A r \in kpis : r.key \in {KpiKeys[c] : c \in inKpis}
  BY DEF IInv, Tells
<1>2. RowsOf(R, P, kpis)
  BY <1>1 DEF RowsOf, Fetch, Department, Wanted
<1>3. CallsOf(U, P, inKpis, KpiKeys)
  <2>1. \A c \in inKpis : KpiKeys[c] \in P <=>
            KpiKeys[c].department = department /\ Wanted(KpiKeys[c], from, to, sources)
    OBVIOUS
  <2>2. ASSUME NEW c \in inKpis
        PROVE  /\ KpiKeys[c].department = calls[c].department
               /\ KpiKeys[c].source = calls[c].source
               /\ KpiKeys[c].hour = StartOfHour(calls[c].at)
    <3>1. c \in Call
      BY DEF IInv, Stated
    <3> QED
      BY <3>1 DEF KpiKeys
  <2> HIDE DEF P
  <2> QED
    BY <2>1, <2>2 DEF CallsOf, InHours, Wanted
<1> HIDE DEF P, R, U
<1>4. Total(R, "calls") = Cardinality(U)
  <2>1. Tells(kpis, inKpis, KpiKeys) /\ IsFiniteSet(inKpis)
    BY InsFinite DEF IInv
  <2> QED
    BY <1>2, <1>3, <2>1, ChosenCount
<1> QED
  BY <1>4 DEF R, U

\* A window of whole days counts the calls of its days.
LEMMA WindowCounts ==
    ASSUME IInv, NEW z \in Zone, NEW a \in Day, NEW b \in Day, NEW C \in SUBSET inKpis,
           NEW sources
    PROVE  Counts(Cardinality(InHours(C, StartOfDay(z, a), EndOfDay(z, b), sources)),
                  CallsOn(C, z, a..b, sources), z)
<1> DEFINE from == StartOfDay(z, a)
           to == EndOfDay(z, b)
           U == InHours(C, from, to, sources)
           D == CallsOn(C, z, a..b, sources)
<1>1. from \in Int /\ to \in Int /\ to + 1 = DayStart[z][b + 1] /\ b + 1 \in 1..(LAST_DAY + 1)
  BY DayEdges
<1>2. \A c \in C : calls[c].at \in Moment /\ calls[c].at \in Int
  BY Counted
<1>3. \A c \in C : DayOf(z, calls[c].at) \in a..b <=>
                       from <= calls[c].at /\ calls[c].at <= to
  BY <1>2, DaysBetween
<1> HIDE DEF from, to
<1>4. D \subseteq U
  <2> SUFFICES ASSUME NEW c \in C, from <= calls[c].at, calls[c].at <= to
               PROVE  /\ StartOfHour(from) <= StartOfHour(calls[c].at)
                      /\ StartOfHour(calls[c].at) <= EndOfHour(to)
    BY <1>3 DEF CallsOn, InHours
  <2> DEFINE m == calls[c].at
  <2>1. m \in Int
    BY <1>2
  <2> HIDE DEF m
  <2>2. from <= m /\ m <= to
    BY DEF m
  <2>3. StartOfHour(from) <= StartOfHour(m) /\ StartOfHour(m) <= StartOfHour(to)
    BY <1>1, <2>1, <2>2, HoursRise
  <2>4. StartOfHour(m) <= EndOfHour(to)
    BY <1>1, <2>1, <2>3, HourOf, HourNumber
  <2> QED
    BY <2>3, <2>4 DEF m
<1>5. ASSUME OnTheHour(z) PROVE U = D
  <2>1. from % HOUR = 0 /\ (to + 1) % HOUR = 0
    BY <1>1, <1>5, DayType DEF OnTheHour, StartOfDay, from
  <2> SUFFICES ASSUME NEW c \in C, StartOfHour(from) <= StartOfHour(calls[c].at),
                      StartOfHour(calls[c].at) <= EndOfHour(to)
               PROVE  from <= calls[c].at /\ calls[c].at <= to
    BY <1>3, <1>4 DEF CallsOn, InHours
  <2> DEFINE m == calls[c].at
  <2>2. m \in Int
    BY <1>2
  <2> HIDE DEF m
  <2>3. StartOfHour(from) <= StartOfHour(m) /\ StartOfHour(m) <= EndOfHour(to)
    BY DEF m
  <2>4. from <= m
    BY <1>1, <2>1, <2>2, <2>3, HourOf, HourOfMultiple
  <2>5. StartOfHour(m) <= StartOfHour(to) /\ StartOfHour(to) <= to
    BY <1>1, <2>2, <2>3, HourOf, UpToHour
  <2>6. StartOfHour(m) + HOUR <= to + 1
    <3>1. StartOfHour(m) \in Int /\ StartOfHour(m) % HOUR = 0 /\ StartOfHour(to) \in Int
      BY <1>1, <2>2, HourOf
    <3>2. StartOfHour(m) < to + 1
      BY <1>1, <2>5, <3>1
    <3> QED
      BY <1>1, <2>1, <3>1, <3>2, Multiples
  <2>7. m <= to
    BY <1>1, <2>2, <2>6, HourOf, HourNumber
  <2> QED
    BY <2>4, <2>7 DEF m
<1>6. IsFiniteSet(U)
  <2>1. U \in SUBSET inKpis
    BY DEF InHours
  <2> QED
    BY <2>1, InsFinite, FS_Subset
<1>7. Cardinality(D) <= Cardinality(U) /\ Cardinality(U) \in Nat /\ Cardinality(D) \in Nat
  BY <1>4, <1>6, FS_Subset, FS_CardinalityType
<1> HIDE DEF U, D
<1>8. Counts(Cardinality(U), D, z)
  BY <1>5, <1>7 DEF Counts
<1> QED
  BY <1>8 DEF U, D, from, to

\* Where the previous period begins and ends.
LEMMA PreviousDays ==
    ASSUME NEW z \in Zone, NEW first \in Day, NEW last \in Day, first <= last,
           last - first + 1 < first, NEW department, NEW sources
    PROVE  LET span == last - first + 1 IN
           /\ first - span \in Day /\ first - 1 \in Day
           /\ Previous(z, first, last, department, sources)
                = Fetch(Department(department), StartOfDay(z, first - span),
                        EndOfDay(z, first - 1), sources)
<1>1. /\ first - 1 \in Day /\ first - (last - first + 1) \in Day
      /\ first - 1 - (last - first) = first - (last - first + 1)
  BY DayType
<1>2. EndOfDay(z, first - 1) = StartOfDay(z, first) - 1
  <2>1. first - 1 + 1 = first
    BY DayType
  <2>2. EndOfDay(z, first - 1) = DayStart[z][first] - 1
    BY <2>1 DEF EndOfDay
  <2> QED
    BY <2>2 DEF StartOfDay
<1> DEFINE to == StartOfDay(z, first) - 1
<1>3. to \in Int /\ On(z, first - 1, to)
  BY <1>1, <1>2, DayEdges DEF On
<1> HIDE DEF to
<1>4. DayOf(z, to) = first - 1
  BY <1>1, <1>3, OneDay
<1>5. Previous(z, first, last, department, sources)
        = Fetch(Department(department), StartOfDay(z, DayOf(z, to) - (last - first)), to,
                sources)
  BY DEF Previous, to
<1> QED
  BY <1>1, <1>2, <1>4, <1>5 DEF to

LEMMA WindowsHold == IInv => WindowsCountTheirDays
<1> SUFFICES ASSUME IInv, NEW z \in Zone, NEW p \in Selections,
                    NEW department \in {"sales", "service"}, NEW sources \in SourceFilters
             PROVE  LET C == {c \in inKpis : calls[c].department = department}
                        span == p[2] - p[1] + 1 IN
                    /\ Counts(Total(Selected(z, p[1], p[2], department, sources), "calls"),
                              CallsOn(C, z, p[1]..p[2], sources), z)
                    /\ Counts(Total(Previous(z, p[1], p[2], department, sources), "calls"),
                              CallsOn(C, z, p[1] - span..p[1] - 1, sources), z)
  BY DEF WindowsCountTheirDays
<1> DEFINE C == {c \in inKpis : calls[c].department = department}
           a == p[1]
           b == p[2]
           span == b - a + 1
<1>1. a \in Day /\ b \in Day /\ a <= b /\ span < a
  BY DEF Selections
<1>2. C \in SUBSET inKpis
  OBVIOUS
<1> HIDE DEF a, b
<1>3. Counts(Total(Selected(z, a, b, department, sources), "calls"),
             CallsOn(C, z, a..b, sources), z)
  <2>1. Total(Selected(z, a, b, department, sources), "calls")
          = Cardinality(InHours(C, StartOfDay(z, a), EndOfDay(z, b), sources))
    BY KpisCounted DEF Selected
  <2> HIDE DEF C
  <2> QED
    BY <1>1, <1>2, <2>1, WindowCounts
<1>4. Counts(Total(Previous(z, a, b, department, sources), "calls"),
             CallsOn(C, z, a - span..a - 1, sources), z)
  <2>1. /\ a - span \in Day /\ a - 1 \in Day
        /\ Previous(z, a, b, department, sources)
             = Fetch(Department(department), StartOfDay(z, a - span), EndOfDay(z, a - 1), sources)
    BY <1>1, PreviousDays
  <2>2. Total(Previous(z, a, b, department, sources), "calls")
          = Cardinality(InHours(C, StartOfDay(z, a - span), EndOfDay(z, a - 1), sources))
    BY <2>1, KpisCounted
  <2> HIDE DEF C, span
  <2> QED
    BY <1>2, <2>1, <2>2, WindowCounts
<1> QED
  BY <1>3, <1>4 DEF a, b

\* A summary counts the calls of its days, and compares them with the calls of exactly as
\* many days before, in every time zone and whatever the order of the statements.
THEOREM SummariesCountTheirDays == Spec => []WindowsCountTheirDays
<1> QED
  BY Invariance, WindowsHold, PTL

-----------------------------------------------------------------------------
(***************************************************************************)
(* Charts                                                                  *)
(***************************************************************************)

LEMMA FirstDays ==
    ASSUME NEW g \in Grouping, NEW d \in Day
    PROVE  /\ FirstDay[g][d] \in Day /\ FirstDay[g][d] <= d
           /\ \A e \in Day : FirstDay[g][d] <= e /\ e <= d => FirstDay[g][e] = FirstDay[g][d]
<1>1. LAST_DAY \in Nat /\ d \in 1..LAST_DAY
  BY TimeAssumption DEF Day
<1>2. FirstDay[g][d] \in 1..d /\ \A e \in FirstDay[g][d]..d : FirstDay[g][e] = FirstDay[g][d]
  BY GroupingAssumption
<1>3. FirstDay[g][d] \in Day /\ FirstDay[g][d] <= d
  BY <1>1, <1>2 DEF Day
<1>4. ASSUME NEW e \in Day, FirstDay[g][d] <= e, e <= d
      PROVE  FirstDay[g][e] = FirstDay[g][d]
  <2>1. e \in FirstDay[g][d]..d
    BY <1>1, <1>2, <1>4 DEF Day
  <2> QED
    BY <1>2, <2>1
<1> QED
  BY <1>3, <1>4

\* Buckets follow each other.
LEMMA BucketsRise ==
    ASSUME NEW g \in Grouping, NEW d \in Day, NEW e \in Day, d <= e
    PROVE  FirstDay[g][d] <= FirstDay[g][e]
<1>1. /\ FirstDay[g][d] \in Day /\ FirstDay[g][d] <= d /\ FirstDay[g][e] \in Day
      /\ FirstDay[g][e] <= d => FirstDay[g][d] = FirstDay[g][e]
  BY FirstDays
<1> DEFINE x == FirstDay[g][d]
           y == FirstDay[g][e]
<1>2. x \in Int /\ y \in Int /\ d \in Int /\ x <= d /\ (y <= d => x = y)
  BY <1>1, TimeAssumption DEF Day
<1> HIDE DEF x, y
<1>3. x <= y
  BY <1>2
<1> QED
  BY <1>3 DEF x, y

\* The hours a chart takes, where days begin on the hour.
LEMMA HourWindow ==
    ASSUME NEW z \in Zone, OnTheHour(z), NEW m \in Moment, NEW a \in Day, NEW b \in Day
    PROVE  /\ StartOfHour(StartOfDay(z, a)) <= StartOfHour(m) <=> a <= DayOf(z, m)
           /\ StartOfHour(m) <= EndOfHour(StartOfDay(z, b)) <=>
                  m <= EndOfHour(StartOfDay(z, b))
<1> DEFINE d == DayOf(z, m)
           s == StartOfDay(z, a)
           t == StartOfDay(z, b)
           h == StartOfHour(m)
<1>1. d \in Day /\ On(z, d, m) /\ m \in Int
  BY MomentsDay
<1>2. s \in Int /\ t \in Int /\ s % HOUR = 0 /\ t % HOUR = 0
  BY DaysOnTheHour
<1>3. /\ StartOfDay(z, d) <= m /\ m <= EndOfDay(z, d)
      /\ StartOfDay(z, d) \in Int /\ EndOfDay(z, d) \in Int
      /\ d < a => EndOfDay(z, d) < s
      /\ a <= d => s <= StartOfDay(z, d)
  BY <1>1, DayEdges DEF On
<1>4. d \in Int /\ a \in Int
  BY <1>1, DayType
<1>5. StartOfHour(s) = s /\ StartOfHour(t) = t /\ EndOfHour(t) = t + HOUR - 1
  BY <1>2, HourOfMultiple, HourOf
<1>6. h \in Int /\ h % HOUR = 0 /\ h <= m /\ m < h + HOUR
  BY <1>1, HourOf
<1>7. s <= m => s <= h
  BY <1>1, <1>2, <1>5, HoursRise
<1>8. h <= EndOfHour(t) => h <= t
  BY <1>2, <1>5, <1>6, UpToHour
<1> HIDE DEF d, s, t, h
<1>9. s <= h <=> a <= d
  BY <1>1, <1>2, <1>3, <1>4, <1>6, <1>7
<1>10. h <= EndOfHour(t) <=> m <= EndOfHour(t)
  BY <1>1, <1>2, <1>5, <1>6, <1>8, HourNumber
<1> QED
  BY <1>5, <1>9, <1>10 DEF d, s, t, h

\* The calls of a bucket that a chart from bucket a to bucket b shows.
Shown(z, g, k, a, b, sources) ==
    {c \in inVolume : /\ sources = {} \/ calls[c].source \in sources
                      /\ a <= DayOf(z, calls[c].at)
                      /\ calls[c].at <= EndOfHour(StartOfDay(z, b))
                      /\ BucketOf(z, g, calls[c].at) = k}

LEMMA ShownCounts ==
    ASSUME IInv, NEW z \in Zone, OnTheHour(z), NEW g \in Grouping, NEW a \in Day, NEW b \in Day,
           NEW k, NEW sources
    PROVE  Total({r \in Fetch(volume, StartOfDay(z, a), StartOfDay(z, b), sources) :
                     BucketOf(z, g, r.key.hour) = k}, "calls")
             = Cardinality(Shown(z, g, k, a, b, sources))
<1> DEFINE from == StartOfDay(z, a)
           to == StartOfDay(z, b)
           P == {x \in {VolumeKeys[c] : c \in inVolume} :
                    BucketOf(z, g, x.hour) = k /\ Wanted(x, from, to, sources)}
           R == {r \in Fetch(volume, from, to, sources) : BucketOf(z, g, r.key.hour) = k}
           U == Shown(z, g, k, a, b, sources)
<1>1. \A r \in volume : r.key \in {VolumeKeys[c] : c \in inVolume}
  BY DEF IInv, Tells
<1>2. RowsOf(R, P, volume)
  BY <1>1 DEF RowsOf, Fetch, Wanted
<1>3. CallsOf(U, P, inVolume, VolumeKeys)
  <2>1. \A c \in inVolume : VolumeKeys[c] \in P <=>
            BucketOf(z, g, VolumeKeys[c].hour) = k /\ Wanted(VolumeKeys[c], from, to, sources)
    OBVIOUS
  <2>2. ASSUME NEW c \in inVolume
        PROVE  c \in U <=> BucketOf(z, g, VolumeKeys[c].hour) = k
                           /\ Wanted(VolumeKeys[c], from, to, sources)
    <3> DEFINE m == calls[c].at
    <3>1. c \in Call
      BY DEF IInv, Stated
    <3>2. VolumeKeys[c].source = calls[c].source /\ VolumeKeys[c].hour = StartOfHour(m)
      BY <3>1 DEF VolumeKeys
    <3>3. m \in Moment
      BY Counted
    <3> HIDE DEF m
    <3>4. BucketOf(z, g, StartOfHour(m)) = BucketOf(z, g, m)
      BY <3>3, HoursDay DEF BucketOf
    <3>5. /\ StartOfHour(from) <= StartOfHour(m) <=> a <= DayOf(z, m)
          /\ StartOfHour(m) <= EndOfHour(to) <=> m <= EndOfHour(to)
      BY <3>3, HourWindow
    <3>6. c \in U <=> /\ sources = {} \/ calls[c].source \in sources
                      /\ a <= DayOf(z, m) /\ m <= EndOfHour(to)
                      /\ BucketOf(z, g, m) = k
      BY DEF Shown, m
    <3> QED
      BY <3>2, <3>4, <3>5, <3>6 DEF Wanted
  <2>3. U \subseteq inVolume
    BY DEF Shown
  <2> HIDE DEF P, U
  <2> QED
    BY <2>1, <2>2, <2>3 DEF CallsOf
<1> HIDE DEF P, R, U
<1>4. Total(R, "calls") = Cardinality(U)
  <2>1. Tells(volume, inVolume, VolumeKeys) /\ IsFiniteSet(inVolume)
    BY InsFinite DEF IInv
  <2> QED
    BY <1>2, <1>3, <2>1, ChosenCount
<1> QED
  BY <1>4 DEF R, U

\* The points of a chart.
Points(z, g, first, last, sources) ==
    LET a == FirstDay[g][first]
        b == FirstDay[g][last]
        rows == Fetch(volume, StartOfDay(z, a), StartOfDay(z, b), sources) IN
    {BucketOf(z, g, r.key.hour) : r \in rows} \cup {FirstDay[g][d] : d \in a..b}

LEMMA ChartPoints ==
    ASSUME IInv, NEW z \in Zone, OnTheHour(z), NEW g \in Grouping,
           NEW first \in Day, NEW last \in Day, first <= last, NEW sources
    PROVE  Points(z, g, first, last, sources) = {FirstDay[g][d] : d \in first..last}
<1> DEFINE a == FirstDay[g][first]
           b == FirstDay[g][last]
           rows == Fetch(volume, StartOfDay(z, a), StartOfDay(z, b), sources)
           days == {FirstDay[g][d] : d \in first..last}
<1>1. /\ a \in Day /\ a <= first /\ b \in Day /\ b <= last /\ a <= b
      /\ \A e \in Day : a <= e /\ e <= first => FirstDay[g][e] = a
      /\ \A e \in Day : b <= e /\ e <= last => FirstDay[g][e] = b
  BY FirstDays, BucketsRise
<1>2. Day \subseteq Int /\ a..b \subseteq Day /\ first..last \subseteq Day
  BY <1>1, DayType
<1> HIDE DEF a, b
<1>3. \A d \in a..b : FirstDay[g][d] \in days
  <2> SUFFICES ASSUME NEW d \in a..b PROVE \E e \in first..last : FirstDay[g][d] = FirstDay[g][e]
    OBVIOUS
  <2>1. d \in Day /\ a <= d /\ d <= b
    BY <1>1, <1>2
  <2>2. CASE first <= d
    <3>1. d \in first..last
      BY <1>1, <1>2, <2>1, <2>2
    <3> QED
      BY <3>1
  <2>3. CASE d <= first
    <3>1. FirstDay[g][d] = FirstDay[g][first]
      BY <1>1, <2>1, <2>3 DEF a
    <3>2. first \in first..last
      BY <1>2
    <3> QED
      BY <3>1, <3>2
  <2> QED
    BY <1>2, <2>1, <2>2, <2>3
<1>4. \A d \in first..last : \E e \in a..b : FirstDay[g][d] = FirstDay[g][e]
  <2> TAKE d \in first..last
  <2>1. d \in Day /\ first <= d /\ d <= last
    BY <1>2
  <2>2. CASE d <= b
    <3>1. d \in a..b
      BY <1>1, <1>2, <2>1, <2>2
    <3> QED
      BY <3>1
  <2>3. CASE b <= d
    <3>1. FirstDay[g][d] = b /\ FirstDay[g][b] = b
      BY <1>1, <1>2, <2>1, <2>3
    <3>2. b \in a..b
      BY <1>1, <1>2
    <3> QED
      BY <3>1, <3>2
  <2> QED
    BY <1>1, <1>2, <2>1, <2>2, <2>3
<1>5. ASSUME NEW r \in rows
      PROVE  BucketOf(z, g, r.key.hour) \in {FirstDay[g][d] : d \in a..b}
  <2>1. r \in volume /\ Wanted(r.key, StartOfDay(z, a), StartOfDay(z, b), sources)
    BY DEF Fetch, Wanted
  <2>2. PICK c \in inVolume : r.key = VolumeKeys[c]
    BY <2>1 DEF IInv, Tells
  <2> DEFINE m == calls[c].at
  <2>3. m \in Moment /\ r.key.hour = StartOfHour(m)
    <3>1. m \in Moment
      BY Counted
    <3>2. VolumeKeys[c] = [source |-> calls[c].source, hour |-> StartOfHour(m)]
      BY Counted
    <3> QED
      BY <2>2, <3>1, <3>2
  <2> HIDE DEF m
  <2> DEFINE d == DayOf(z, m)
  <2>4. d \in Day /\ On(z, d, m) /\ m \in Int /\ DayOf(z, StartOfHour(m)) = d
    BY <2>3, MomentsDay, HoursDay
  <2> HIDE DEF d
  <2>5. a <= d
    BY <1>1, <2>1, <2>3, HourWindow DEF Wanted, d
  <2>6. d <= b
    <3>0. b \in Int /\ d \in Int
      BY <1>1, <1>2, <2>4
    <3>1. SUFFICES ASSUME b < d PROVE FALSE
      BY <3>0
    <3> DEFINE t == StartOfDay(z, b)
               u == StartOfDay(z, d)
    <3>2. StartOfHour(m) <= EndOfHour(t)
      BY <2>1, <2>3 DEF Wanted
    <3>3. t \in Int /\ t % HOUR = 0 /\ u \in Int /\ u % HOUR = 0 /\ u <= m
      BY <1>1, <2>4, DaysOnTheHour DEF On
    <3>4. t < u
      <4>1. t <= EndOfDay(z, b) /\ EndOfDay(z, b) < u /\ EndOfDay(z, b) \in Int
        BY <1>1, <2>4, <3>1, DayEdges
      <4> QED
        BY <3>3, <4>1
    <3> HIDE DEF t, u
    <3>5. u <= StartOfHour(m) /\ StartOfHour(m) \in Int /\ StartOfHour(m) % HOUR = 0
      BY <2>4, <3>3, HourOf, HourOfMultiple, HoursRise
    <3>6. StartOfHour(m) <= t
      BY <3>2, <3>3, <3>5, UpToHour, HourOfMultiple
    <3> QED
      BY <3>3, <3>4, <3>5, <3>6
  <2>7. d \in a..b /\ BucketOf(z, g, r.key.hour) = FirstDay[g][d]
    BY <1>1, <1>2, <2>3, <2>4, <2>5, <2>6 DEF BucketOf
  <2> QED
    BY <2>7
<1> DEFINE hours == {BucketOf(z, g, r.key.hour) : r \in rows}
           buckets == {FirstDay[g][d] : d \in a..b}
<1>6. hours \subseteq buckets
  BY <1>5
<1>7. buckets = days
  BY <1>3, <1>4
<1>8. hours \cup buckets = days
  <2> HIDE DEF hours, buckets, days
  <2> QED
    BY <1>6, <1>7
<1>9. Points(z, g, first, last, sources) = hours \cup buckets
  BY DEF Points, a, b
<1> QED
  BY <1>8, <1>9

LEMMA ChartsHold == IInv => ChartShowsItsBuckets
<1> SUFFICES ASSUME IInv, NEW z \in {y \in Zone : OnTheHour(y)}, NEW p \in Selections,
                    NEW g \in Grouping, NEW sources \in SourceFilters
             PROVE  LET chart == Chart(z, p[1], p[2], g, sources)
                        end == FirstDay[g][p[2]]
                        lastHour == StartOfDay(z, end) IN
                    /\ DOMAIN chart = {FirstDay[g][d] : d \in p[1]..p[2]}
                    /\ \A b \in DOMAIN chart :
                           LET bucket == {c \in CallsOn(inVolume, z, Day, sources) :
                                             BucketOf(z, g, calls[c].at) = b} IN
                           chart[b] = Cardinality(IF b # end THEN bucket
                                                  ELSE {c \in bucket :
                                                          calls[c].at <= EndOfHour(lastHour)})
  BY DEF ChartShowsItsBuckets
<1> DEFINE first == p[1]
           last == p[2]
           start == FirstDay[g][first]
           end == FirstDay[g][last]
           rows == Fetch(volume, StartOfDay(z, start), StartOfDay(z, end), sources)
           buckets == Points(z, g, first, last, sources)
           chart == Chart(z, first, last, g, sources)
           count(b) == Total({r \in rows : BucketOf(z, g, r.key.hour) = b}, "calls")
           bucket(b) == {c \in CallsOn(inVolume, z, Day, sources) :
                            BucketOf(z, g, calls[c].at) = b}
<1>1. first \in Day /\ last \in Day /\ first <= last /\ z \in Zone /\ OnTheHour(z)
  BY DEF Selections
<1>2. chart = [b \in buckets |-> count(b)]
  BY DEF Chart, Points
<1> HIDE DEF first, last
<1>3. buckets = {FirstDay[g][d] : d \in first..last}
  BY <1>1, ChartPoints
<1>4. /\ start \in Day /\ end \in Day /\ start <= end
      /\ FirstDay[g][end] = end
  <2>1. start \in Day /\ end \in Day /\ start <= end /\ end <= last
    BY <1>1, FirstDays, BucketsRise
  <2>2. end <= end
    BY <2>1, DayType
  <2> QED
    BY <1>1, <2>1, <2>2, FirstDays
<1>5. \A b : count(b) = Cardinality(Shown(z, g, b, start, end, sources))
  BY <1>1, <1>4, ShownCounts
<1>6. ASSUME NEW b \in buckets
      PROVE  Shown(z, g, b, start, end, sources)
               = IF b # end THEN bucket(b)
                 ELSE {c \in bucket(b) : calls[c].at <= EndOfHour(StartOfDay(z, end))}
  <2>1. PICK e \in first..last : b = FirstDay[g][e]
    BY <1>3
  <2>2. e \in Day /\ first <= e /\ e <= last /\ Day \subseteq Int
    BY <1>1, DayType
  <2>3. start <= b /\ b <= end /\ b \in Day
    BY <1>1, <2>1, <2>2, BucketsRise, FirstDays
  <2>4. ASSUME NEW c \in inVolume, BucketOf(z, g, calls[c].at) = b
        PROVE  /\ start <= DayOf(z, calls[c].at) /\ DayOf(z, calls[c].at) \in Day
               /\ b # end => calls[c].at <= EndOfHour(StartOfDay(z, end))
    <3> DEFINE m == calls[c].at
               d == DayOf(z, m)
    <3>1. m \in Moment
      BY Counted
    <3>2. d \in Day /\ On(z, d, m) /\ m \in Int
      BY <1>1, <3>1, MomentsDay
    <3>3. FirstDay[g][d] = b
      BY <2>4 DEF BucketOf
    <3> HIDE DEF m, d, start, end
    <3>4. b <= d
      BY <3>2, <3>3, FirstDays
    <3>5. start <= d
      BY <1>4, <2>2, <2>3, <3>2, <3>4
    <3>6. ASSUME b # end PROVE m <= EndOfHour(StartOfDay(z, end))
      <4>1. FirstDay[g][end] = end
        BY <1>4
      <4>2. d < end
        <5>1. SUFFICES ASSUME end <= d PROVE FALSE
          BY <1>4, <2>2, <3>2
        <5>2. end <= b
          BY <1>4, <3>2, <3>3, <4>1, <5>1, BucketsRise
        <5> QED
          BY <1>4, <2>2, <2>3, <3>6, <5>2
      <4>3. EndOfDay(z, d) < StartOfDay(z, end) /\ EndOfDay(z, d) \in Int
            /\ StartOfDay(z, end) \in Int /\ m <= EndOfDay(z, d)
        BY <1>1, <1>4, <3>2, <4>2, DayEdges DEF On
      <4>4. StartOfDay(z, end) <= EndOfHour(StartOfDay(z, end))
        BY <4>3, HourOf, HourNumber
      <4> QED
        BY <3>2, <4>3, <4>4, HourOf, HourNumber
    <3> QED
      BY <3>2, <3>5, <3>6 DEF m, d
  <2> HIDE DEF start, end, buckets
  <2>5. CASE b # end
    BY <2>4, <2>5 DEF Shown, CallsOn
  <2>6. CASE b = end
    BY <2>4, <2>6 DEF Shown, CallsOn
  <2> QED
    BY <2>5, <2>6
<1> HIDE DEF buckets, count, chart, bucket, start
<1>7. DOMAIN chart = {FirstDay[g][d] : d \in first..last}
  BY <1>2, <1>3
<1>8. ASSUME NEW b \in DOMAIN chart
      PROVE  chart[b] = Cardinality(IF b # end THEN bucket(b)
                                    ELSE {c \in bucket(b) :
                                             calls[c].at <= EndOfHour(StartOfDay(z, end))})
  <2>1. b \in buckets /\ chart[b] = count(b)
    BY <1>2
  <2> HIDE DEF end
  <2> QED
    BY <1>5, <1>6, <2>1
<1> QED
  BY <1>7, <1>8 DEF chart, bucket, first, last

\* A point of a chart shows the calls of its bucket, the last one those of its first hour.
THEOREM ChartsShowTheirBuckets == Spec => []ChartShowsItsBuckets
<1> QED
  BY Invariance, ChartsHold, PTL

-----------------------------------------------------------------------------
(***************************************************************************)
(* KPIs                                                                    *)
(***************************************************************************)

\* A part of a whole is 0 to 100 percent of it.
LEMMA PercentOfWhole ==
    ASSUME NEW a \in Nat, NEW b \in Nat, a <= b
    PROVE  Percent(a, b) \in 0..100
<1>1. CASE b = 0
  BY <1>1 DEF Percent
<1>2. CASE b # 0
  <2> DEFINE x == 200 * a + b
             y == 2 * b
             q == x \div y
  <2>1. x \in Nat /\ y \in Nat /\ y > 0 /\ x < 101 * y
    BY <1>2
  <2> HIDE DEF x, y
  <2>2. q \in Int /\ y * q <= x /\ x < y * q + y
    BY <2>1
  <2> HIDE DEF q
  <2>3. q >= 0
    <3>1. SUFFICES ASSUME q <= -1 PROVE FALSE
      BY <2>2
    <3>2. y * q <= -y
      BY <2>1, <2>2, <3>1
    <3> QED
      BY <2>1, <2>2, <3>2
  <2>4. q <= 100
    <3>1. SUFFICES ASSUME q >= 101 PROVE FALSE
      BY <2>2
    <3>2. y * q >= y * 101
      BY <2>1, <2>2, <3>1
    <3> QED
      BY <2>1, <2>2, <3>2
  <2>5. Percent(a, b) = q
    BY <1>2 DEF Percent, q, x, y
  <2> QED
    BY <2>2, <2>3, <2>4, <2>5
<1> QED
  BY <1>1, <1>2

Column == {"calls", "connected", "requested", "booked", "sentiment", "rated"}

LEMMA ColumnsNatural ==
    ASSUME IInv, NEW R \in SUBSET kpis, NEW column \in Column
    PROVE  /\ Total(R, column) \in Nat /\ IsFiniteSet(R)
           /\ Natural([r \in R |-> r.total[column]], R)
<1>1. IsFiniteSet(R)
  BY FS_Subset DEF IInv, Tells
<1> DEFINE f == [r \in R |-> r.total[column]]
<1>2. Natural(f, R)
  BY DEF Natural, IInv, Mixed, Column
<1>3. SumFunctionOnSet(f, R) \in Nat
  <2>1. R \in SUBSET R
    OBVIOUS
  <2> HIDE DEF f
  <2> QED
    BY <1>1, <1>2, <2>1, SumNatural
<1> QED
  BY <1>1, <1>2, <1>3 DEF Total

\* What holds for every row holds for the sums.
LEMMA TotalBound ==
    ASSUME IInv, NEW R \in SUBSET kpis, NEW c \in Column, NEW d \in Column, NEW k \in {1, 5},
           \A r \in R : r.total[c] <= k * r.total[d]
    PROVE  Total(R, c) <= k * Total(R, d)
<1> DEFINE f == [r \in R |-> r.total[c]]
           g == [r \in R |-> r.total[d]]
<1>1. Natural(f, R) /\ Natural(g, R) /\ IsFiniteSet(R)
  BY ColumnsNatural
<1>2. AtMost(f, k, g, R)
  BY DEF AtMost
<1>3. Total(R, c) = SumFunctionOnSet(f, R) /\ Total(R, d) = SumFunctionOnSet(g, R)
  BY DEF Total
<1> HIDE DEF f, g
<1> QED
  BY <1>1, <1>2, <1>3, SumBound

LEMMA MixesMakeSense ==
    ASSUME IInv, NEW R \in SUBSET kpis
    PROVE  LET k == Kpis(R) IN
           /\ k.conversationRatePercent \in 0..100
           /\ k.bookingRatePercent \in 0..100
           /\ k.sentimentCount <= k.sentimentSum /\ k.sentimentSum <= 5 * k.sentimentCount
<1> DEFINE booked == Total(R, "booked")
           connected == Total(R, "connected")
           requested == Total(R, "requested")
           sentiment == Total(R, "sentiment")
           rated == Total(R, "rated")
<1>1. /\ booked \in Nat /\ connected \in Nat /\ requested \in Nat
      /\ sentiment \in Nat /\ rated \in Nat
  BY ColumnsNatural DEF Column
<1>2. \A r \in R : Mixed(r.total)
  BY DEF IInv
<1>3. booked <= 1 * connected
  <2>1. \A r \in R : r.total["booked"] <= 1 * r.total["connected"]
    BY <1>2 DEF Mixed
  <2> QED
    BY <2>1, TotalBound DEF Column
<1>4. rated <= 1 * sentiment
  <2>1. \A r \in R : r.total["rated"] <= 1 * r.total["sentiment"]
    BY <1>2 DEF Mixed
  <2> QED
    BY <2>1, TotalBound DEF Column
<1>5. sentiment <= 5 * rated
  <2>1. \A r \in R : r.total["sentiment"] <= 5 * r.total["rated"]
    BY <1>2 DEF Mixed
  <2> QED
    BY <2>1, TotalBound DEF Column
<1>6. Kpis(R) = [conversationRatePercent |-> Percent(booked, connected),
                 bookingRatePercent |-> Percent(booked, requested + booked),
                 sentimentSum |-> sentiment, sentimentCount |-> rated]
  BY DEF Kpis
<1> HIDE DEF booked, connected, requested, sentiment, rated
<1>7. Percent(booked, connected) \in 0..100 /\ Percent(booked, requested + booked) \in 0..100
  <2>1. booked <= connected /\ requested + booked \in Nat /\ booked <= requested + booked
    BY <1>1, <1>3
  <2> QED
    BY <1>1, <2>1, PercentOfWhole
<1> QED
  BY <1>1, <1>4, <1>5, <1>6, <1>7

LEMMA KpisHold == IInv => KpisMakeSense
<1> SUFFICES ASSUME IInv, NEW z \in Zone, NEW p \in Selections, NEW department \in Departments
             PROVE  LET k == Kpis(Selected(z, p[1], p[2], department, {})) IN
                    /\ k.conversationRatePercent \in 0..100
                    /\ k.bookingRatePercent \in 0..100
                    /\ k.sentimentCount <= k.sentimentSum
                    /\ k.sentimentSum <= 5 * k.sentimentCount
  BY DEF KpisMakeSense
<1> DEFINE R == Selected(z, p[1], p[2], department, {})
<1>1. R \in SUBSET kpis
  BY DEF Selected, Fetch, Department
<1> HIDE DEF R
<1>2. LET k == Kpis(R) IN
      /\ k.conversationRatePercent \in 0..100
      /\ k.bookingRatePercent \in 0..100
      /\ k.sentimentCount <= k.sentimentSum /\ k.sentimentSum <= 5 * k.sentimentCount
  BY <1>1, MixesMakeSense
<1> QED
  BY <1>2 DEF R

\* Rates are percentages from 0 to 100 and the mean sentiment lies between 1 and 5 for
\* every selection, whatever calls are mixed in it.
THEOREM KpisAlwaysMakeSense == Spec => []KpisMakeSense
<1> QED
  BY Invariance, KpisHold, PTL
=============================================================================
