-------------------------------- MODULE Sums --------------------------------
(***************************************************************************)
(* Facts about the sum of a function's values over a finite set, which is  *)
(* how the models write the SUM of a SQL query: SumFunctionOnSet of the    *)
(* community modules.  The values are natural numbers.                     *)
(*                                                                         *)
(* The community modules define the sum by a recursive function that takes *)
(* its elements in an order CHOOSE fixes.  The lemmas show that it exists  *)
(* on every finite set, that the order makes no difference, and how the    *)
(* sum changes with one of its terms.  Induction is by least counter-      *)
(* example.                                                                *)
(***************************************************************************)
EXTENDS Integers, FiniteSets, Functions, FiniteSetTheorems, TLAPS

Chosen(T) == CHOOSE x \in T : TRUE

\* h is the function that the definition of a sum over S iterates.
Iterates(h, f, S) ==
  h = [T \in SUBSET S |-> IF T = {} THEN 0 ELSE f[Chosen(T)] + h[T \ {Chosen(T)}]]

\* h gives the sum of f over each subset of S, whatever term is taken first.
Totals(h, f, S) ==
  /\ h \in [SUBSET S -> Nat]
  /\ h[{}] = 0
  /\ \A T \in SUBSET S : \A x \in T : h[T] = f[x] + h[T \ {x}]

LEMMA SumIsIterated ==
  ASSUME NEW f, NEW S
  PROVE  SumFunctionOnSet(f, S) = (CHOOSE h : Iterates(h, f, S))[S]
  BY DEF SumFunctionOnSet, FoldFunctionOnSet, MapThenFoldSet, Iterates, Chosen

\* A function that adds up the subsets of S exists.
LEMMA IterationExists ==
  ASSUME NEW S, IsFiniteSet(S), NEW f, \A x \in S : f[x] \in Nat
  PROVE  \E h \in [SUBSET S -> Nat] : Iterates(h, f, S)
<1> DEFINE Next(h) == [T \in SUBSET S |-> IF T = {} THEN 0 ELSE f[Chosen(T)] + h[T \ {Chosen(T)}]]
           Upto(h, n) == \A T \in SUBSET S : Cardinality(T) <= n => h[T] = Next(h)[T]
           Reached(n) == \E h \in [SUBSET S -> Nat] : Upto(h, n)
           missed == {n \in Nat : ~Reached(n)}
<1>1. \A T \in SUBSET S : IsFiniteSet(T) /\ Cardinality(T) \in Nat
  BY FS_Subset, FS_CardinalityType
<1>2. \A T \in SUBSET S : T # {} => Chosen(T) \in T
  BY DEF Chosen
<1>3. ASSUME NEW h \in [SUBSET S -> Nat]
      PROVE  Next(h) \in [SUBSET S -> Nat]
  BY <1>2, <1>3
<1>4. Reached(0)
  <2> DEFINE h == [T \in SUBSET S |-> 0]
  <2>1. \A T \in SUBSET S : Cardinality(T) <= 0 => T = {}
    BY <1>1, FS_EmptySet
  <2>2. h \in [SUBSET S -> Nat] /\ Upto(h, 0)
    BY <2>1
  <2>3. QED
    BY <2>2
<1>5. ASSUME NEW n \in Nat, Reached(n)
      PROVE  Reached(n + 1)
  <2>1. PICK h \in [SUBSET S -> Nat] : Upto(h, n)
    BY <1>5
  <2>2. ASSUME NEW T \in SUBSET S, Cardinality(T) <= n + 1
        PROVE  Next(h)[T] = Next(Next(h))[T]
    <3>1. CASE T = {}
      BY <3>1
    <3>2. CASE T # {}
      <4>1. Chosen(T) \in T /\ T \ {Chosen(T)} \in SUBSET S
        BY <1>2, <3>2
      <4>2. Cardinality(T \ {Chosen(T)}) <= n
        BY <1>1, <2>2, <4>1, FS_RemoveElement
      <4>3. h[T \ {Chosen(T)}] = Next(h)[T \ {Chosen(T)}]
        BY <2>1, <4>1, <4>2
      <4>4. QED
        BY <3>2, <4>3
    <3>3. QED
      BY <3>1, <3>2
  <2>3. Upto(Next(h), n + 1)
    BY <2>2
  <2>4. QED
    BY <1>3, <2>1, <2>3
<1> HIDE DEF Reached
<1>6. missed = {}
  <2> SUFFICES ASSUME missed # {} PROVE FALSE
    OBVIOUS
  <2>1. PICK n \in missed : \A m \in missed : ~(<<m, n>> \in OpToRel(<, Nat))
    <3> HIDE DEF missed
    <3>1. missed \subseteq Nat
      BY DEF missed
    <3>2. QED
      BY <3>1, NatLessThanWellFounded, WFMin
  <2>2. n \in Nat \ {0}
    BY <1>4
  <2>3. PICK m \in Nat : n = m + 1
    BY <2>2
  <2>4. <<m, n>> \in OpToRel(<, Nat)
    BY <2>2, <2>3 DEF OpToRel
  <2>5. m \notin missed
    BY <2>1, <2>4
  <2>6. Reached(m)
    BY <2>5
  <2>7. QED
    BY <1>5, <2>1, <2>3, <2>6
<1>7. Reached(Cardinality(S))
  BY <1>1, <1>6
<1>8. PICK h \in [SUBSET S -> Nat] : Upto(h, Cardinality(S))
  BY <1>7 DEF Reached
<1>9. \A T \in SUBSET S : Cardinality(T) <= Cardinality(S)
  BY FS_Subset
<1>10. h = Next(h)
  BY <1>3, <1>8, <1>9
<1>11. QED
  BY <1>10 DEF Iterates

\* A nonempty set of subsets of S has a member none of whose proper subsets
\* is a member.
LEMMA SmallestSubset ==
  ASSUME NEW S, IsFiniteSet(S), NEW bad \in SUBSET (SUBSET S), bad # {}
  PROVE  \E T \in bad : \A U \in bad : U \subseteq T => U = T
<1>1. bad \subseteq FiniteSubsetsOf(S)
  BY FS_FiniteSubsetsOfFinite
<1>2. PICK T \in bad : \A U \in bad : ~(<<U, T>> \in StrictSubsetOrdering(S))
  BY <1>1, FS_StrictSubsetOrderingWellFounded, WFMin
<1>3. QED
  BY <1>2 DEF StrictSubsetOrdering

\* The order in which the terms are taken makes no difference.
LEMMA IterationTotals ==
  ASSUME NEW S, IsFiniteSet(S), NEW f, \A x \in S : f[x] \in Nat,
         NEW h \in [SUBSET S -> Nat], Iterates(h, f, S)
  PROVE  Totals(h, f, S)
<1> DEFINE Any(T) == \A x \in T : h[T] = f[x] + h[T \ {x}]
           bad == {T \in SUBSET S : ~Any(T)}
<1>1. \A T \in SUBSET S : T # {} => Chosen(T) \in T
  BY DEF Chosen
<1>2. h[{}] = 0 /\ \A T \in SUBSET S : T # {} => h[T] = f[Chosen(T)] + h[T \ {Chosen(T)}]
  BY DEF Iterates
<1>3. ASSUME NEW T \in SUBSET S, \A U \in SUBSET T : U # T => Any(U)
      PROVE  Any(T)
  <2> SUFFICES ASSUME NEW x \in T PROVE h[T] = f[x] + h[T \ {x}]
    OBVIOUS
  <2> DEFINE y == Chosen(T)
  <2>1. y \in T /\ h[T] = f[y] + h[T \ {y}]
    BY <1>1, <1>2, <1>3
  <2>2. CASE y = x
    BY <2>1, <2>2
  <2>3. CASE y # x
    <3> DEFINE U == T \ {x, y}
    <3>1. /\ T \ {y} \in SUBSET T /\ T \ {y} # T /\ x \in T \ {y} /\ (T \ {y}) \ {x} = U
          /\ T \ {x} \in SUBSET T /\ T \ {x} # T /\ y \in T \ {x} /\ (T \ {x}) \ {y} = U
      BY <2>1, <2>3
    <3>2. h[T \ {y}] = f[x] + h[U]
      BY <1>3, <3>1
    <3>3. h[T \ {x}] = f[y] + h[U]
      BY <1>3, <3>1
    <3>4. f[x] \in Nat /\ f[y] \in Nat /\ h[U] \in Nat
      BY <1>3, <2>1
    <3> HIDE DEF U, y
    <3>5. QED
      BY <2>1, <3>2, <3>3, <3>4
  <2>4. QED
    BY <2>2, <2>3
<1> HIDE DEF Any
<1>4. bad = {}
  <2> SUFFICES ASSUME bad # {} PROVE FALSE
    OBVIOUS
  <2>1. bad \in SUBSET (SUBSET S)
    OBVIOUS
  <2>2. PICK T \in bad : \A U \in bad : U \subseteq T => U = T
    <3> HIDE DEF bad
    <3>1. QED
      BY <2>1, SmallestSubset
  <2>3. \A U \in SUBSET T : U # T => Any(U)
    BY <2>2
  <2>4. QED
    BY <1>3, <2>2, <2>3
<1>5. \A T \in SUBSET S : Any(T)
  BY <1>4
<1>6. QED
  BY <1>2, <1>5 DEF Totals, Any

\* There is one such function, on S and on each of its subsets.
LEMMA TotalsAgree ==
  ASSUME NEW S, IsFiniteSet(S), NEW R \in SUBSET S, NEW f, NEW g, NEW h, NEW k,
         \A x \in R : f[x] = g[x], Totals(h, f, R), Totals(k, g, S)
  PROVE  \A T \in SUBSET R : h[T] = k[T]
<1> DEFINE bad == {T \in SUBSET R : h[T] # k[T]}
<1> SUFFICES ASSUME bad # {} PROVE FALSE
  OBVIOUS
<1>1. bad \in SUBSET (SUBSET S)
  OBVIOUS
<1>2. PICK T \in bad : \A U \in bad : U \subseteq T => U = T
  <2> HIDE DEF bad
  <2>1. QED
    BY <1>1, SmallestSubset
<1>3. T # {}
  BY <1>2 DEF Totals
<1>4. PICK x \in T : TRUE
  BY <1>3
<1>5. T \ {x} \in SUBSET R /\ h[T \ {x}] = k[T \ {x}]
  BY <1>2, <1>4
<1>6. h[T] = f[x] + h[T \ {x}] /\ k[T] = g[x] + k[T \ {x}]
  BY <1>2, <1>4 DEF Totals
<1>7. QED
  BY <1>2, <1>4, <1>5, <1>6

\* The sum over a finite set and over its subsets is one such function.
LEMMA SumTotals ==
  ASSUME NEW S, IsFiniteSet(S), NEW f, \A x \in S : f[x] \in Nat
  PROVE  \E h : Totals(h, f, S) /\ \A T \in SUBSET S : SumFunctionOnSet(f, T) = h[T]
<1>1. ASSUME NEW R \in SUBSET S
      PROVE  \E k : Totals(k, f, R) /\ SumFunctionOnSet(f, R) = k[R]
  <2> DEFINE k == CHOOSE k : Iterates(k, f, R)
  <2>1. IsFiniteSet(R) /\ \A x \in R : f[x] \in Nat
    BY FS_Subset
  <2>2. PICK h \in [SUBSET R -> Nat] : Iterates(h, f, R)
    BY <2>1, IterationExists
  <2>3. Iterates(k, f, R)
    BY <2>2
  <2> HIDE DEF k
  <2>4. h = k
    <3> DEFINE bad == {T \in SUBSET R : h[T] # k[T]}
    <3>1. bad = {}
      <4> SUFFICES ASSUME bad # {} PROVE FALSE
        OBVIOUS
      <4>1. bad \in SUBSET (SUBSET R)
        OBVIOUS
      <4>2. PICK T \in bad : \A U \in bad : U \subseteq T => U = T
        <5> HIDE DEF bad
        <5>1. QED
          BY <2>1, <4>1, SmallestSubset
      <4>3. T # {} /\ Chosen(T) \in T
        BY <2>2, <2>3, <4>2 DEF Iterates, Chosen
      <4>4. T \ {Chosen(T)} \in SUBSET R /\ h[T \ {Chosen(T)}] = k[T \ {Chosen(T)}]
        BY <4>2, <4>3
      <4>5. QED
        BY <2>2, <2>3, <4>2, <4>3, <4>4 DEF Iterates
    <3>2. \A T \in SUBSET R : h[T] = k[T]
      BY <3>1
    <3>3. QED
      BY <2>2, <2>3, <3>2 DEF Iterates
  <2>5. QED
    BY <2>1, <2>2, <2>3, <2>4, IterationTotals, SumIsIterated DEF k
<1>2. PICK h : Totals(h, f, S)
  BY <1>1
<1>3. ASSUME NEW T \in SUBSET S
      PROVE  SumFunctionOnSet(f, T) = h[T]
  <2>1. PICK k : Totals(k, f, T) /\ SumFunctionOnSet(f, T) = k[T]
    BY <1>1
  <2>2. QED
    BY <1>2, <2>1, TotalsAgree
<1>4. QED
  BY <1>2, <1>3

\* A sum is a number.
LEMMA SumNat ==
  ASSUME NEW S, IsFiniteSet(S), NEW f, \A x \in S : f[x] \in Nat
  PROVE  SumFunctionOnSet(f, S) \in Nat
<1>1. PICK h : Totals(h, f, S) /\ \A T \in SUBSET S : SumFunctionOnSet(f, T) = h[T]
  BY SumTotals
<1>2. QED
  BY <1>1 DEF Totals

\* The sum of no terms.
LEMMA SumEmpty ==
  ASSUME NEW f
  PROVE  SumFunctionOnSet(f, {}) = 0
<1>1. PICK h : Totals(h, f, {}) /\ \A T \in SUBSET {} : SumFunctionOnSet(f, T) = h[T]
  <2>1. IsFiniteSet({})
    BY FS_EmptySet
  <2>2. QED
    BY <2>1, SumTotals
<1>2. QED
  BY <1>1 DEF Totals

\* Any term may be taken first.
LEMMA SumTerm ==
  ASSUME NEW S, IsFiniteSet(S), NEW f, \A x \in S : f[x] \in Nat, NEW x \in S
  PROVE  SumFunctionOnSet(f, S) = f[x] + SumFunctionOnSet(f, S \ {x})
<1>1. PICK h : Totals(h, f, S) /\ \A T \in SUBSET S : SumFunctionOnSet(f, T) = h[T]
  BY SumTotals
<1>2. QED
  BY <1>1 DEF Totals

\* The same terms have the same sum.
LEMMA SumSame ==
  ASSUME NEW S, IsFiniteSet(S), NEW f, NEW g, \A x \in S : f[x] \in Nat /\ f[x] = g[x]
  PROVE  SumFunctionOnSet(f, S) = SumFunctionOnSet(g, S)
<1>1. PICK h : Totals(h, f, S) /\ \A T \in SUBSET S : SumFunctionOnSet(f, T) = h[T]
  BY SumTotals
<1>2. PICK k : Totals(k, g, S) /\ \A T \in SUBSET S : SumFunctionOnSet(g, T) = k[T]
  BY SumTotals
<1>3. QED
  BY <1>1, <1>2, TotalsAgree

\* A sum of larger terms is no smaller.
LEMMA SumMonotone ==
  ASSUME NEW S, IsFiniteSet(S), NEW f, NEW g,
         \A x \in S : f[x] \in Nat /\ g[x] \in Nat /\ f[x] <= g[x]
  PROVE  SumFunctionOnSet(f, S) <= SumFunctionOnSet(g, S)
<1>1. PICK h : Totals(h, f, S) /\ \A T \in SUBSET S : SumFunctionOnSet(f, T) = h[T]
  BY SumTotals
<1>2. PICK k : Totals(k, g, S) /\ \A T \in SUBSET S : SumFunctionOnSet(g, T) = k[T]
  BY SumTotals
<1> DEFINE bad == {T \in SUBSET S : ~(h[T] <= k[T])}
<1>3. bad = {}
  <2> SUFFICES ASSUME bad # {} PROVE FALSE
    OBVIOUS
  <2>1. bad \in SUBSET (SUBSET S)
    OBVIOUS
  <2>2. PICK T \in bad : \A U \in bad : U \subseteq T => U = T
    <3> HIDE DEF bad
    <3>1. QED
      BY <2>1, SmallestSubset
  <2>3. PICK x \in T : TRUE
    <3>1. h[{}] = 0 /\ k[{}] = 0
      BY <1>1, <1>2 DEF Totals
    <3>2. ~(h[T] <= k[T])
      BY <2>2
    <3>3. QED
      BY <3>1, <3>2
  <2>4. /\ h[T] = f[x] + h[T \ {x}] /\ k[T] = g[x] + k[T \ {x}]
        /\ h[T \ {x}] \in Nat /\ k[T \ {x}] \in Nat
    BY <1>1, <1>2, <2>2, <2>3 DEF Totals
  <2>5. h[T \ {x}] <= k[T \ {x}]
    BY <2>2, <2>3
  <2>6. f[x] \in Nat /\ g[x] \in Nat /\ f[x] <= g[x]
    BY <2>2, <2>3
  <2>7. h[T] <= k[T]
    BY <2>4, <2>5, <2>6
  <2>8. QED
    BY <2>2, <2>7
<1>4. QED
  BY <1>1, <1>2, <1>3

\* Fewer terms have no larger sum.
LEMMA SumSubset ==
  ASSUME NEW S, IsFiniteSet(S), NEW f, \A x \in S : f[x] \in Nat, NEW T \in SUBSET S
  PROVE  SumFunctionOnSet(f, T) <= SumFunctionOnSet(f, S)
<1>1. PICK h : Totals(h, f, S) /\ \A U \in SUBSET S : SumFunctionOnSet(f, U) = h[U]
  BY SumTotals
<1> DEFINE bad == {U \in SUBSET S : T \subseteq U /\ ~(h[T] <= h[U])}
<1>2. bad = {}
  <2> SUFFICES ASSUME bad # {} PROVE FALSE
    OBVIOUS
  <2>1. bad \in SUBSET (SUBSET S)
    OBVIOUS
  <2>2. PICK U \in bad : \A V \in bad : V \subseteq U => V = U
    <3> HIDE DEF bad
    <3>1. QED
      BY <2>1, SmallestSubset
  <2>3. h[T] \in Nat /\ h[U] \in Nat
    BY <1>1, <2>2 DEF Totals
  <2>4. U # T
    BY <2>2, <2>3
  <2>5. PICK x \in U \ T : TRUE
    BY <2>2, <2>4
  <2>6. h[U] = f[x] + h[U \ {x}] /\ h[U \ {x}] \in Nat /\ f[x] \in Nat
    BY <1>1, <2>2, <2>5 DEF Totals
  <2>7. h[T] <= h[U \ {x}]
    BY <2>2, <2>5
  <2>8. h[T] <= h[U]
    BY <2>3, <2>6, <2>7
  <2>9. QED
    BY <2>2, <2>8
<1>3. QED
  BY <1>1, <1>2

\* What term x adds to the sum of f over T.
Term(f, T, x) == IF x \in T THEN f[x] ELSE 0

\* When the terms of two sums differ at one place, so do the sums.
LEMMA SumChange ==
  ASSUME NEW S, IsFiniteSet(S), NEW T \in SUBSET S, NEW U \in SUBSET S, NEW x,
         NEW f, NEW g, \A y \in T : f[y] \in Nat, \A y \in U : g[y] \in Nat,
         T \ {x} = U \ {x}, \A y \in T \ {x} : f[y] = g[y]
  PROVE  SumFunctionOnSet(g, U) = SumFunctionOnSet(f, T) - Term(f, T, x) + Term(g, U, x)
<1>1. IsFiniteSet(T) /\ IsFiniteSet(U) /\ IsFiniteSet(T \ {x})
  BY FS_Subset
<1>2. SumFunctionOnSet(f, T) = Term(f, T, x) + SumFunctionOnSet(f, T \ {x})
  <2>1. CASE x \in T
    BY <1>1, <2>1, SumTerm DEF Term
  <2>2. CASE x \notin T
    <3>1. T \ {x} = T
      BY <2>2
    <3>2. SumFunctionOnSet(f, T) \in Nat
      BY <1>1, SumNat
    <3>3. QED
      BY <2>2, <3>1, <3>2 DEF Term
  <2>3. QED
    BY <2>1, <2>2
<1>3. SumFunctionOnSet(g, U) = Term(g, U, x) + SumFunctionOnSet(g, U \ {x})
  <2>1. CASE x \in U
    BY <1>1, <2>1, SumTerm DEF Term
  <2>2. CASE x \notin U
    <3>1. U \ {x} = U
      BY <2>2
    <3>2. SumFunctionOnSet(g, U) \in Nat
      BY <1>1, SumNat
    <3>3. Term(g, U, x) = 0
      BY <2>2 DEF Term
    <3>4. QED
      BY <3>1, <3>2, <3>3
  <2>3. QED
    BY <2>1, <2>2
<1>4. SumFunctionOnSet(f, T \ {x}) = SumFunctionOnSet(g, U \ {x})
  BY <1>1, SumSame
<1>5. SumFunctionOnSet(f, T \ {x}) \in Nat /\ Term(f, T, x) \in Nat /\ Term(g, U, x) \in Nat
  BY <1>1, SumNat DEF Term
<1>6. QED
  BY <1>2, <1>3, <1>4, <1>5

=============================================================================
