------------------------------ MODULE DataProofs ------------------------------
(***************************************************************************)
(* Facts about numbers, sums and lists that the proofs of several          *)
(* components use.  Those about least and greatest elements and about what *)
(* MapThenSumSet returns are proved without an induction rule, from the    *)
(* least counterexample.                                                   *)
(***************************************************************************)
EXTENDS Integers, FiniteSets, FiniteSetsExt, SequencesExt, FiniteSetTheorems, SequenceTheorems,
        WellFoundedInduction, TLAPS

(* A non-empty set of numbers has a least. *)
LEMMA LeastNatural ==
  ASSUME NEW S, S \subseteq Nat, S # {}
  PROVE  \E n \in S : \A k \in S : n <= k
<1>1. PICK n \in S : \A k \in S : ~(<<k, n>> \in OpToRel(<, Nat))
  <2>1. IsWellFoundedOn(OpToRel(<, Nat), Nat)
    BY NatLessThanWellFounded
  <2> QED
    BY <2>1, WFMin
<1>2. ASSUME NEW k \in S PROVE n <= k
  <2>1. ~(<<k, n>> \in OpToRel(<, Nat))
    BY <1>1
  <2>2. ~(k < n)
    BY <2>1 DEF OpToRel
  <2> QED
    BY <2>2
<1> QED
  BY <1>2

(* A non-empty set of numbers up to a bound has a greatest. *)
LEMMA GreatestBelow ==
  ASSUME NEW N \in Nat, NEW S \in SUBSET (1..N), S # {}
  PROVE  Max(S) \in S /\ \A k \in S : Max(S) >= k
<1> DEFINE D == {d \in Nat : N - d \in S}
<1>1. D # {}
  <2>1. PICK s \in S : TRUE
    OBVIOUS
  <2>2. N - s \in D
    BY <2>1
  <2> QED
    BY <2>2
<1>2. PICK d \in D : \A e \in D : d <= e
  <2> HIDE DEF D
  <2>1. D \subseteq Nat
    BY DEF D
  <2> QED
    BY <1>1, <2>1, LeastNatural
<1>3. N - d \in S
  OBVIOUS
<1>4. ASSUME NEW k \in S PROVE N - d >= k
  <2>1. N - k \in D
    OBVIOUS
  <2>2. d <= N - k
    BY <2>1, <1>2
  <2> QED
    BY <2>2
<1>5. \E x \in S : \A y \in S : x >= y
  BY <1>3, <1>4
<1> QED
  BY <1>5 DEF Max

(* So has a finite non-empty set of numbers. *)
LEMMA GreatestOfFinite ==
  ASSUME NEW S, S \subseteq Nat, IsFiniteSet(S), S # {}
  PROVE  Max(S) \in S /\ \A k \in S : Max(S) >= k
<1> DEFINE HasGreatest(T) == \E x \in T : \A y \in T : x >= y
           Bad == {n \in Nat : \E T \in SUBSET S : T # {} /\ Cardinality(T) = n /\ ~HasGreatest(T)}
<1>1. HasGreatest(S)
  <2> SUFFICES ASSUME ~HasGreatest(S) PROVE FALSE
    OBVIOUS
  <2>1. Cardinality(S) \in Bad
    BY FS_CardinalityType
  <2>2. PICK n \in Bad : \A k \in Bad : n <= k
    <3>1. Bad \subseteq Nat /\ Bad # {}
      BY <2>1
    <3> HIDE DEF Bad
    <3> QED
      BY <3>1, LeastNatural
  <2>3. PICK T \in SUBSET S : T # {} /\ Cardinality(T) = n /\ ~HasGreatest(T)
    OBVIOUS
  <2>4. PICK x \in T : TRUE
    BY <2>3
  <2> DEFINE R == T \ {x}
  <2>5. IsFiniteSet(T) /\ Cardinality(R) = n - 1 /\ Cardinality(R) \in Nat
    BY <2>3, <2>4, FS_Subset, FS_RemoveElement, FS_CardinalityType
  <2>6. R # {}
    BY <2>3, <2>4
  <2>7. HasGreatest(R)
    <3>1. Cardinality(R) \notin Bad
      <4>1. n \in Nat /\ (Cardinality(R) \in Bad => n <= Cardinality(R))
        BY <2>2
      <4> HIDE DEF R, Bad
      <4> QED
        BY <4>1, <2>5
    <3> QED
      BY <3>1, <2>5, <2>6
  <2>8. PICK m \in R : \A y \in R : m >= y
    BY <2>7
  <2>9. m \in Nat /\ x \in Nat
    BY <2>4
  <2>10. CASE m >= x
    <3>1. ASSUME NEW y \in T PROVE m >= y
      <4>1. CASE y = x
        BY <2>10, <4>1
      <4>2. CASE y # x
        BY <2>8, <4>2
      <4> QED
        BY <4>1, <4>2
    <3>2. m \in T
      OBVIOUS
    <3> QED
      BY <2>3, <3>1, <3>2
  <2>11. CASE ~(m >= x)
    <3>1. \A y \in T : x >= y
      BY <2>8, <2>9, <2>11
    <3> QED
      BY <2>3, <3>1
  <2> QED
    BY <2>10, <2>11
<1> QED
  BY <1>1 DEF Max

-----------------------------------------------------------------------------
(* Sums.  What a sum over the subset s of a set adds to those of smaller   *)
(* subsets; g holds the sums of all subsets.                               *)
SumStep(m, s, g) ==
  IF s = {} THEN 0 ELSE m[CHOOSE x \in s : TRUE] + g[s \ {CHOOSE x \in s : TRUE}]

(* g holds the sums of the subsets of S. *)
IsSum(g, S, m) == \A s \in SUBSET S : g[s] = SumStep(m, s, g)

SmallSubsets(S, n) == {s \in SUBSET S : Cardinality(s) <= n}

LEMMA RestIsSmaller ==
  ASSUME NEW S, IsFiniteSet(S), NEW n \in Nat, NEW s \in SUBSET S, Cardinality(s) <= n + 1, s # {}
  PROVE  /\ (CHOOSE x \in s : TRUE) \in s
         /\ s \ {CHOOSE x \in s : TRUE} \in SmallSubsets(S, n)
<1> DEFINE x == CHOOSE y \in s : TRUE
<1>1. x \in s
  OBVIOUS
<1> HIDE DEF x
<1>2. IsFiniteSet(s)
  BY FS_Subset
<1>3. Cardinality(s \ {x}) = Cardinality(s) - 1 /\ Cardinality(s) \in Nat
  BY <1>1, <1>2, FS_RemoveElement, FS_CardinalityType
<1>4. s \ {x} \in SmallSubsets(S, n)
  BY <1>3 DEF SmallSubsets
<1> QED
  BY <1>1, <1>4 DEF x

LEMMA SumUpTo ==
  ASSUME NEW S, IsFiniteSet(S), NEW m, \A x \in S : m[x] \in Nat, NEW n \in Nat
  PROVE  \E g \in [SmallSubsets(S, n) -> Nat] : \A s \in SmallSubsets(S, n) : g[s] = SumStep(m, s, g)
<1> DEFINE Good(k) == \E g \in [SmallSubsets(S, k) -> Nat] : \A s \in SmallSubsets(S, k) : g[s] = SumStep(m, s, g)
           Bad == {k \in Nat : ~Good(k)}
<1> SUFFICES ASSUME Bad # {} PROVE FALSE
  OBVIOUS
<1>1. PICK k \in Bad : \A j \in Bad : k <= j
  <2>1. Bad \subseteq Nat
    OBVIOUS
  <2> HIDE DEF Bad
  <2> QED
    BY <2>1, LeastNatural
<1>2. k # 0
  <2>1. SmallSubsets(S, 0) = {{}}
    <3>1. ASSUME NEW s \in SmallSubsets(S, 0) PROVE s = {}
      <4>1. IsFiniteSet(s) /\ Cardinality(s) <= 0
        BY FS_Subset DEF SmallSubsets
      <4>2. Cardinality(s) \in Nat /\ (Cardinality(s) = 0 <=> s = {})
        BY <4>1, FS_CardinalityType, FS_EmptySet
      <4> QED
        BY <4>1, <4>2
    <3>2. {} \in SmallSubsets(S, 0)
      BY FS_EmptySet DEF SmallSubsets
    <3> QED
      BY <3>1, <3>2
  <2>2. [s \in SmallSubsets(S, 0) |-> 0] \in [SmallSubsets(S, 0) -> Nat]
    OBVIOUS
  <2>3. \A s \in SmallSubsets(S, 0) : [t \in SmallSubsets(S, 0) |-> 0][s] = SumStep(m, s, [t \in SmallSubsets(S, 0) |-> 0])
    BY <2>1 DEF SumStep
  <2>4. Good(0)
    BY <2>2, <2>3
  <2> QED
    BY <2>4
<1>3. k \in Nat /\ k - 1 \in Nat /\ ~Good(k)
  BY <1>2
<1>4. Good(k - 1)
  <2>1. k - 1 \notin Bad
    <3> HIDE DEF Bad
    <3> QED
      BY <1>1, <1>3
  <2> QED
    BY <1>3, <2>1
<1> HIDE DEF Bad
<1>5. PICK g \in [SmallSubsets(S, k - 1) -> Nat] : \A s \in SmallSubsets(S, k - 1) : g[s] = SumStep(m, s, g)
  BY <1>4
<1> DEFINE h == [s \in SmallSubsets(S, k) |-> SumStep(m, s, g)]
<1>6. ASSUME NEW s \in SmallSubsets(S, k), s # {}
      PROVE  /\ (CHOOSE x \in s : TRUE) \in S
             /\ s \ {CHOOSE x \in s : TRUE} \in SmallSubsets(S, k - 1)
  <2>1. s \in SUBSET S /\ Cardinality(s) <= (k - 1) + 1
    BY <1>3 DEF SmallSubsets
  <2> QED
    BY <2>1, <1>3, <1>6, RestIsSmaller
<1>7. h \in [SmallSubsets(S, k) -> Nat]
  <2> SUFFICES ASSUME NEW s \in SmallSubsets(S, k) PROVE SumStep(m, s, g) \in Nat
    OBVIOUS
  <2>1. CASE s = {}
    BY <2>1 DEF SumStep
  <2>2. CASE s # {}
    <3>1. m[CHOOSE x \in s : TRUE] \in Nat
      BY <1>6, <2>2
    <3>2. g[s \ {CHOOSE x \in s : TRUE}] \in Nat
      BY <1>6, <2>2, <1>5
    <3> QED
      BY <3>1, <3>2, <2>2 DEF SumStep
  <2> QED
    BY <2>1, <2>2
<1>8. ASSUME NEW t \in SmallSubsets(S, k - 1) PROVE t \in SmallSubsets(S, k) /\ h[t] = g[t]
  <2>1. t \in SmallSubsets(S, k)
    <3>1. Cardinality(t) <= k - 1 /\ Cardinality(t) \in Nat /\ t \in SUBSET S
      BY FS_Subset, FS_CardinalityType DEF SmallSubsets
    <3> QED
      BY <3>1, <1>3 DEF SmallSubsets
  <2> QED
    BY <2>1, <1>5
<1>9. ASSUME NEW s \in SmallSubsets(S, k) PROVE h[s] = SumStep(m, s, h)
  <2>1. h[s] = SumStep(m, s, g)
    OBVIOUS
  <2> HIDE DEF h
  <2>2. CASE s = {}
    BY <2>1, <2>2 DEF SumStep
  <2>3. CASE s # {}
    <3>1. h[s \ {CHOOSE x \in s : TRUE}] = g[s \ {CHOOSE x \in s : TRUE}]
      BY <1>6, <1>8, <2>3
    <3> QED
      BY <2>1, <2>3, <3>1 DEF SumStep
  <2> QED
    BY <2>2, <2>3
<1>10. Good(k)
  <2> HIDE DEF h
  <2> QED
    BY <1>7, <1>9
<1> QED
  BY <1>3, <1>10

LEMMA SumExists ==
  ASSUME NEW S, IsFiniteSet(S), NEW m, \A x \in S : m[x] \in Nat
  PROVE  \E g \in [SUBSET S -> Nat] : \A s \in SUBSET S : g[s] = SumStep(m, s, g)
<1>1. Cardinality(S) \in Nat
  BY FS_CardinalityType
<1>2. SmallSubsets(S, Cardinality(S)) = SUBSET S
  BY FS_Subset DEF SmallSubsets
<1>3. \E g \in [SmallSubsets(S, Cardinality(S)) -> Nat] :
        \A s \in SmallSubsets(S, Cardinality(S)) : g[s] = SumStep(m, s, g)
  <2> DEFINE n == Cardinality(S)
  <2>1. n \in Nat
    BY <1>1
  <2> HIDE DEF n
  <2>2. \E g \in [SmallSubsets(S, n) -> Nat] : \A s \in SmallSubsets(S, n) : g[s] = SumStep(m, s, g)
    BY <2>1, SumUpTo
  <2> QED
    BY <2>2 DEF n
<1> QED
  BY <1>2, <1>3

LEMMA SumIsNatural ==
  ASSUME NEW S, IsFiniteSet(S), NEW m, \A x \in S : m[x] \in Nat, NEW g,
         g = [s \in SUBSET S |-> SumStep(m, s, g)]
  PROVE  g[S] \in Nat
<1> DEFINE Bad == {n \in Nat : \E s \in SUBSET S : Cardinality(s) = n /\ g[s] \notin Nat}
<1>1. SUFFICES ASSUME g[S] \notin Nat PROVE FALSE
  OBVIOUS
<1>2. Bad # {}
  <2>1. Cardinality(S) \in Nat
    BY FS_CardinalityType
  <2>2. Cardinality(S) \in Bad
    BY <1>1, <2>1
  <2> QED
    BY <2>2
<1>3. PICK n \in Bad : \A k \in Bad : n <= k
  <2>1. Bad \subseteq Nat
    OBVIOUS
  <2> HIDE DEF Bad
  <2> QED
    BY <1>2, <2>1, LeastNatural
<1>4. PICK s \in SUBSET S : Cardinality(s) = n /\ g[s] \notin Nat
  <2>1. n \in Bad
    BY <1>3
  <2> QED
    BY <2>1
<1>5. g[s] = SumStep(m, s, g)
  OBVIOUS
<1>6. s # {}
  BY <1>4, <1>5 DEF SumStep
<1> DEFINE x == CHOOSE y \in s : TRUE
<1>7. x \in s /\ IsFiniteSet(s)
  BY <1>6, FS_Subset
<1>8. g[s] = m[x] + g[s \ {x}]
  BY <1>5, <1>6 DEF SumStep
<1> HIDE DEF x
<1>9. Cardinality(s \ {x}) = n - 1 /\ n - 1 \in Nat /\ n \in Nat
  <2>1. Cardinality(s \ {x}) = Cardinality(s) - 1
    BY <1>7, FS_RemoveElement
  <2>2. IsFiniteSet(s \ {x})
    BY <1>7, FS_Subset
  <2>3. Cardinality(s \ {x}) \in Nat /\ Cardinality(s) \in Nat
    BY <1>7, <2>2, FS_CardinalityType
  <2> QED
    BY <2>1, <2>3, <1>4
<1>10. g[s \ {x}] \in Nat
  <2>1. n - 1 \notin Bad
    <3> HIDE DEF Bad
    <3> QED
      BY <1>3, <1>9
  <2>2. s \ {x} \in SUBSET S
    OBVIOUS
  <2> QED
    BY <1>9, <2>1, <2>2
<1> QED
  BY <1>4, <1>7, <1>8, <1>10

(* The sum of a set does not depend on the set whose subsets are summed. *)
LEMMA SumsAgree ==
  ASSUME NEW S, IsFiniteSet(S), NEW T, T \subseteq S, NEW m, NEW g, NEW h,
         IsSum(g, S, m), IsSum(h, T, m)
  PROVE  h[T] = g[T]
<1> DEFINE Differs(s) == s \in SUBSET S /\ s \in SUBSET T /\ g[s] # h[s]
           Bad == {n \in Nat : \E s \in SUBSET S : Cardinality(s) = n /\ Differs(s)}
<1>1. SUFFICES ASSUME g[T] # h[T] PROVE FALSE
  OBVIOUS
<1>2. Cardinality(T) \in Bad
  <2>1. IsFiniteSet(T) /\ Cardinality(T) \in Nat
    BY FS_Subset, FS_CardinalityType
  <2> QED
    BY <1>1, <2>1
<1>3. PICK n \in Bad : \A k \in Bad : n <= k
  <2>1. Bad \subseteq Nat /\ Bad # {}
    BY <1>2
  <2> HIDE DEF Bad
  <2> QED
    BY <2>1, LeastNatural
<1>4. PICK s \in SUBSET S : Cardinality(s) = n /\ Differs(s)
  BY <1>3
<1>5. s \in SUBSET T /\ g[s] = SumStep(m, s, g) /\ h[s] = SumStep(m, s, h)
  BY <1>4 DEF IsSum
<1>6. s # {}
  BY <1>4, <1>5 DEF SumStep
<1> DEFINE x == CHOOSE y \in s : TRUE
<1>7. x \in s /\ IsFiniteSet(s)
  BY <1>6, FS_Subset
<1>8. g[s] = m[x] + g[s \ {x}] /\ h[s] = m[x] + h[s \ {x}]
  BY <1>5, <1>6 DEF SumStep
<1> HIDE DEF x
<1>9. Cardinality(s \ {x}) = n - 1 /\ n - 1 \in Nat /\ n \in Nat
  <2>1. Cardinality(s \ {x}) = Cardinality(s) - 1 /\ IsFiniteSet(s \ {x})
    BY <1>7, FS_RemoveElement, FS_Subset
  <2>2. Cardinality(s \ {x}) \in Nat /\ Cardinality(s) \in Nat
    BY <1>7, <2>1, FS_CardinalityType
  <2> QED
    BY <2>1, <2>2, <1>4
<1>10. g[s \ {x}] = h[s \ {x}]
  <2>1. n - 1 \notin Bad
    <3> HIDE DEF Bad
    <3> QED
      BY <1>3, <1>9
  <2>2. s \ {x} \in SUBSET S /\ s \ {x} \in SUBSET T
    BY <1>5
  <2> QED
    BY <1>9, <2>1, <2>2
<1> QED
  BY <1>4, <1>8, <1>10

(* Any element may be the one taken out. *)
LEMMA SumTakesOut ==
  ASSUME NEW S, IsFiniteSet(S), NEW m, \A x \in S : m[x] \in Nat,
         NEW g \in [SUBSET S -> Nat], \A s \in SUBSET S : g[s] = SumStep(m, s, g),
         NEW r \in SUBSET S, NEW z \in r
  PROVE  g[r] = m[z] + g[r \ {z}]
<1> DEFINE Fails(s) == \E w \in s : g[s] # m[w] + g[s \ {w}]
           Bad == {n \in Nat : \E s \in SUBSET S : Cardinality(s) = n /\ Fails(s)}
<1>1. SUFFICES ASSUME g[r] # m[z] + g[r \ {z}] PROVE FALSE
  OBVIOUS
<1>2. Cardinality(r) \in Bad
  <2>1. IsFiniteSet(r) /\ Cardinality(r) \in Nat
    BY FS_Subset, FS_CardinalityType
  <2> QED
    BY <1>1, <2>1
<1>3. PICK n \in Bad : \A k \in Bad : n <= k
  <2>1. Bad \subseteq Nat /\ Bad # {}
    BY <1>2
  <2> HIDE DEF Bad
  <2> QED
    BY <2>1, LeastNatural
<1>4. PICK s \in SUBSET S : Cardinality(s) = n /\ Fails(s)
  BY <1>3
<1>5. PICK w \in s : g[s] # m[w] + g[s \ {w}]
  BY <1>4
<1> DEFINE x == CHOOSE y \in s : TRUE
<1>6. x \in s /\ g[s] = m[x] + g[s \ {x}]
  BY <1>5 DEF SumStep
<1> HIDE DEF x
<1>7. x # w
  BY <1>5, <1>6
<1>8. IsFiniteSet(s) /\ \A y \in s : Cardinality(s \ {y}) = n - 1 /\ n - 1 \in Nat /\ n \in Nat
  <2>1. IsFiniteSet(s)
    BY FS_Subset
  <2> SUFFICES ASSUME NEW y \in s
               PROVE  Cardinality(s \ {y}) = n - 1 /\ n - 1 \in Nat /\ n \in Nat
    BY <2>1
  <2>2. Cardinality(s \ {y}) = Cardinality(s) - 1 /\ IsFiniteSet(s \ {y})
    BY <2>1, FS_RemoveElement, FS_Subset
  <2>3. Cardinality(s \ {y}) \in Nat /\ Cardinality(s) \in Nat
    BY <2>1, <2>2, FS_CardinalityType
  <2> QED
    BY <2>2, <2>3, <1>4
<1>9. \A y \in s : ~Fails(s \ {y})
  <2> SUFFICES ASSUME NEW y \in s PROVE ~Fails(s \ {y})
    OBVIOUS
  <2>1. n - 1 \notin Bad
    <3>1. n \in Nat /\ n - 1 \in Nat
      BY <1>8
    <3> HIDE DEF Bad
    <3> QED
      BY <1>3, <3>1
  <2>2. s \ {y} \in SUBSET S /\ Cardinality(s \ {y}) = n - 1 /\ n - 1 \in Nat
    BY <1>8
  <2> HIDE DEF Fails
  <2> QED
    BY <2>1, <2>2
<1>10. g[s \ {x}] = m[w] + g[(s \ {x}) \ {w}]
  BY <1>6, <1>7, <1>9
<1>11. g[s \ {w}] = m[x] + g[(s \ {w}) \ {x}]
  BY <1>6, <1>7, <1>9
<1>12. (s \ {x}) \ {w} = (s \ {w}) \ {x}
  OBVIOUS
<1>13. PICK k \in Nat : k = g[(s \ {x}) \ {w}]
  OBVIOUS
<1>14. m[w] \in Nat /\ m[x] \in Nat
  BY <1>6
<1>15. g[s] = m[x] + (m[w] + k) /\ g[s \ {w}] = m[x] + k
  BY <1>6, <1>10, <1>11, <1>12, <1>13
<1> QED
  BY <1>5, <1>14, <1>15

(***************************************************************************)
(* What a sequence lists, and what becomes of that as it is read from the  *)
(* front, appended to, joined and shortened.                               *)
(***************************************************************************)
Lists(s, x) == \E i \in DOMAIN s : s[i] = x

Distinct(s) == \A i, j \in DOMAIN s : s[i] = s[j] => i = j

LEMMA TailLists ==
  ASSUME NEW S, NEW s \in Seq(S), s # <<>>
  PROVE  /\ Head(s) \in S /\ Lists(s, Head(s))
         /\ Tail(s) \in Seq(S)
         /\ \A x : Lists(s, x) <=> x = Head(s) \/ Lists(Tail(s), x)
         /\ Distinct(s) => Distinct(Tail(s)) /\ ~Lists(Tail(s), Head(s))
<1>1. /\ Head(s) \in S /\ Tail(s) \in Seq(S) /\ Len(Tail(s)) = Len(s) - 1
      /\ \A i \in 1..Len(Tail(s)) : Tail(s)[i] = s[i + 1]
  BY HeadTailProperties
<1>2. Len(s) \in Nat \ {0} /\ DOMAIN s = 1..Len(s) /\ DOMAIN Tail(s) = 1..(Len(s) - 1)
  BY <1>1, EmptySeq, LenProperties
<1>3. Head(s) = s[1]
  OBVIOUS
<1> DEFINE t == Tail(s)
           n == Len(s)
<1>4. n \in Nat \ {0} /\ DOMAIN s = 1..n /\ DOMAIN t = 1..(n - 1) /\ \A i \in 1..(n - 1) : t[i] = s[i + 1]
  BY <1>1, <1>2
<1> HIDE DEF t, n
<1>5. Lists(s, s[1])
  BY <1>4 DEF Lists
<1>6. \A i \in DOMAIN t : i + 1 \in DOMAIN s /\ i + 1 # 1 /\ s[i + 1] = t[i]
  BY <1>4
<1>7. \A i \in DOMAIN s : i # 1 => i - 1 \in DOMAIN t /\ t[i - 1] = s[i]
  <2>1. \A i \in 1..n : i # 1 => i - 1 \in 1..(n - 1) /\ (i - 1) + 1 = i
    BY <1>4
  <2> QED BY <1>4, <2>1
<1>8. ASSUME NEW x PROVE Lists(s, x) <=> x = s[1] \/ Lists(t, x)
  BY <1>5, <1>6, <1>7 DEF Lists
<1>9. ASSUME Distinct(s) PROVE Distinct(t) /\ ~Lists(t, s[1])
  <2>1. ASSUME NEW i \in DOMAIN t, NEW j \in DOMAIN t, t[i] = t[j] PROVE i = j
    <3>1. i + 1 = j + 1
      BY <1>6, <1>9, <2>1 DEF Distinct
    <3> QED BY <1>4, <3>1
  <2>2. 1 \in DOMAIN s
    BY <1>4
  <2> QED BY <1>6, <1>9, <2>1, <2>2 DEF Distinct, Lists
<1> QED BY <1>1, <1>3, <1>5, <1>8, <1>9 DEF t

LEMMA AppendLists ==
  ASSUME NEW S, NEW s \in Seq(S), NEW e \in S
  PROVE  /\ Append(s, e) \in Seq(S) /\ Len(Append(s, e)) = Len(s) + 1
         /\ DOMAIN s \subseteq DOMAIN Append(s, e)
         /\ \A i \in DOMAIN Append(s, e) :
              \/ i \in DOMAIN s /\ Append(s, e)[i] = s[i]
              \/ i = Len(s) + 1 /\ i \notin DOMAIN s /\ Append(s, e)[i] = e
         /\ \A x : Lists(Append(s, e), x) <=> Lists(s, x) \/ x = e
         /\ Distinct(s) /\ ~Lists(s, e) => Distinct(Append(s, e))
<1> DEFINE t == Append(s, e)
           n == Len(s)
<1>1. /\ n \in Nat /\ DOMAIN s = 1..n /\ t \in Seq(S) /\ Len(t) = n + 1 /\ DOMAIN t = 1..(n + 1)
      /\ \A i \in 1..n : t[i] = s[i]
      /\ t[n + 1] = e
  BY LenProperties, AppendProperties
<1> HIDE DEF t, n
<1>2. \A i \in DOMAIN t : \/ i \in DOMAIN s /\ t[i] = s[i]
                          \/ i = n + 1 /\ i \notin DOMAIN s /\ t[i] = e
  BY <1>1
<1>3. \A i \in DOMAIN s : i \in DOMAIN t /\ t[i] = s[i]
  BY <1>1
<1>4. n + 1 \in DOMAIN t /\ t[n + 1] = e
  BY <1>1
<1>5. \A x : Lists(t, x) <=> Lists(s, x) \/ x = e
  BY <1>2, <1>3, <1>4 DEF Lists
<1>6. Distinct(s) /\ ~Lists(s, e) => Distinct(t)
  BY <1>2 DEF Lists, Distinct
<1> QED BY <1>1, <1>2, <1>3, <1>5, <1>6 DEF t, n

LEMMA ConcatLists ==
  ASSUME NEW S, NEW s \in Seq(S), NEW t \in Seq(S)
  PROVE  /\ s \o t \in Seq(S)
         /\ \A x : Lists(s \o t, x) <=> Lists(s, x) \/ Lists(t, x)
         /\ Distinct(s) /\ Distinct(t) /\ (\A x : ~(Lists(s, x) /\ Lists(t, x))) => Distinct(s \o t)
<1> DEFINE u == s \o t
           m == Len(s)
           n == Len(t)
<1>1. /\ m \in Nat /\ n \in Nat /\ DOMAIN s = 1..m /\ DOMAIN t = 1..n /\ u \in Seq(S) /\ DOMAIN u = 1..(m + n)
      /\ \A i \in 1..(m + n) : u[i] = IF i <= m THEN s[i] ELSE t[i - m]
  BY LenProperties, ConcatProperties
<1> HIDE DEF u, m, n
<1>2. \A i \in DOMAIN u : \/ i \in DOMAIN s /\ u[i] = s[i]
                          \/ i - m \in DOMAIN t /\ i \notin DOMAIN s /\ u[i] = t[i - m]
  BY <1>1
<1>3. \A i \in DOMAIN s : i \in DOMAIN u /\ u[i] = s[i]
  BY <1>1
<1>4. ASSUME NEW i \in DOMAIN t PROVE m + i \in DOMAIN u /\ u[m + i] = t[i]
  <2>1. i \in 1..n /\ m + i \in 1..(m + n) /\ ~(m + i <= m) /\ (m + i) - m = i
    BY <1>1
  <2> QED BY <1>1, <2>1
<1>5. ASSUME NEW x PROVE Lists(u, x) <=> Lists(s, x) \/ Lists(t, x)
  BY <1>2, <1>3, <1>4 DEF Lists
<1>6. ASSUME Distinct(s), Distinct(t), \A x : ~(Lists(s, x) /\ Lists(t, x)) PROVE Distinct(u)
  <2> SUFFICES ASSUME NEW i \in DOMAIN u, NEW j \in DOMAIN u, u[i] = u[j] PROVE i = j
    BY DEF Distinct
  <2>0. i \in Int /\ j \in Int /\ m \in Int
    BY <1>1
  <2>1. CASE i \in DOMAIN s /\ j \in DOMAIN s
    BY <1>2, <1>6, <2>1 DEF Distinct
  <2>2. CASE i \notin DOMAIN s /\ j \notin DOMAIN s
    <3>1. i - m \in DOMAIN t /\ j - m \in DOMAIN t /\ t[i - m] = t[j - m]
      BY <1>2, <2>2
    <3>2. i - m = j - m
      BY <1>6, <3>1 DEF Distinct
    <3> QED BY <2>0, <3>2
  <2>3. CASE i \in DOMAIN s /\ j \notin DOMAIN s
    BY <1>2, <1>6, <2>3 DEF Lists
  <2>4. CASE i \notin DOMAIN s /\ j \in DOMAIN s
    BY <1>2, <1>6, <2>4 DEF Lists
  <2> QED BY <2>1, <2>2, <2>3, <2>4
<1> QED BY <1>1, <1>5, <1>6 DEF u

LEMMA RemoveAtLists ==
  ASSUME NEW S, NEW s \in Seq(S), NEW i \in DOMAIN s
  PROVE  /\ RemoveAt(s, i) \in Seq(S)
         /\ \A j \in DOMAIN RemoveAt(s, i) :
              (IF j < i THEN j ELSE j + 1) \in DOMAIN s \ {i}
              /\ RemoveAt(s, i)[j] = s[IF j < i THEN j ELSE j + 1]
         /\ \A k \in DOMAIN s \ {i} : Lists(RemoveAt(s, i), s[k])
<1> DEFINE a == SubSeq(s, 1, i - 1)
           b == SubSeq(s, i + 1, Len(s))
           u == a \o b
           n == Len(s)
<1>0. n \in Nat /\ DOMAIN s = 1..n /\ i \in 1..n /\ \A j \in 1..n : s[j] \in S
  BY LenProperties, ElementOfSeq
<1>1. a \in Seq(S) /\ Len(a) = i - 1 /\ \A j \in 1..(i - 1) : a[j] = s[j]
  <2>1. 1 \in Int /\ i - 1 \in Int /\ \A j \in 1..(i - 1) : s[j] \in S
    BY <1>0
  <2>2. /\ a \in Seq(S) /\ Len(a) = IF 1 <= i - 1 THEN (i - 1) - 1 + 1 ELSE 0
        /\ \A j \in 1..((i - 1) - 1 + 1) : a[j] = s[1 + j - 1]
    BY <2>1, SubSeqProperties
  <2> HIDE DEF a
  <2>3. \A j \in 1..(i - 1) : 1 + j - 1 = j
    OBVIOUS
  <2> QED BY <1>0, <2>2, <2>3
<1>2. b \in Seq(S) /\ Len(b) = n - i /\ \A j \in 1..(n - i) : b[j] = s[i + j]
  <2>1. i + 1 \in Int /\ n \in Int /\ \A j \in (i + 1)..n : s[j] \in S
    BY <1>0
  <2>2. /\ b \in Seq(S) /\ Len(b) = IF i + 1 <= n THEN n - (i + 1) + 1 ELSE 0
        /\ \A j \in 1..(n - (i + 1) + 1) : b[j] = s[(i + 1) + j - 1]
    BY <2>1, SubSeqProperties
  <2> HIDE DEF b, n
  <2>3. \A j \in 1..(n - i) : (i + 1) + j - 1 = i + j
    BY <1>0
  <2>4. n - (i + 1) + 1 = n - i
    BY <1>0
  <2> QED BY <1>0, <2>2, <2>3, <2>4
<1> HIDE DEF a, b, n
<1>3. u \in Seq(S) /\ DOMAIN u = 1..(n - 1) /\ \A j \in 1..(n - 1) : u[j] = IF j <= i - 1 THEN a[j] ELSE b[j - (i - 1)]
  <2>1. /\ u \in Seq(S) /\ Len(u) = Len(a) + Len(b)
        /\ \A j \in 1..(Len(a) + Len(b)) : u[j] = IF j <= Len(a) THEN a[j] ELSE b[j - Len(a)]
    BY <1>1, <1>2, ConcatProperties
  <2>2. Len(a) = i - 1 /\ Len(a) + Len(b) = n - 1
    BY <1>0, <1>1, <1>2
  <2>3. DOMAIN u = 1..Len(u)
    BY <2>1, LenProperties
  <2> HIDE DEF u
  <2> QED BY <2>1, <2>2, <2>3
<1> HIDE DEF u
<1>4. ASSUME NEW j \in DOMAIN u
      PROVE  (IF j < i THEN j ELSE j + 1) \in DOMAIN s \ {i} /\ u[j] = s[IF j < i THEN j ELSE j + 1]
  <2>1. j \in 1..(n - 1)
    BY <1>3
  <2>2. CASE j < i
    <3>1. j \in 1..(i - 1) /\ j <= i - 1
      BY <1>0, <2>1, <2>2
    <3> QED BY <1>0, <1>1, <1>3, <2>1, <2>2, <3>1
  <2>3. CASE ~(j < i)
    <3>1. j - (i - 1) \in 1..(n - i) /\ ~(j <= i - 1) /\ i + (j - (i - 1)) = j + 1 /\ j + 1 \in 1..n /\ j + 1 # i
      BY <1>0, <2>1, <2>3
    <3>2. u[j] = b[j - (i - 1)] /\ b[j - (i - 1)] = s[i + (j - (i - 1))]
      BY <1>2, <1>3, <2>1, <3>1
    <3> QED BY <1>0, <2>3, <3>1, <3>2
  <2> QED BY <2>2, <2>3
<1>5. ASSUME NEW k \in DOMAIN s \ {i} PROVE Lists(u, s[k])
  <2>1. CASE k < i
    <3>1. k \in 1..(n - 1) /\ k <= i - 1 /\ k \in 1..(i - 1)
      BY <1>0, <2>1
    <3> QED BY <1>1, <1>3, <3>1 DEF Lists
  <2>2. CASE ~(k < i)
    <3>1. k - 1 \in 1..(n - 1) /\ ~(k - 1 <= i - 1) /\ (k - 1) - (i - 1) \in 1..(n - i) /\ i + ((k - 1) - (i - 1)) = k
      BY <1>0, <2>2
    <3>2. u[k - 1] = b[(k - 1) - (i - 1)] /\ b[(k - 1) - (i - 1)] = s[k]
      BY <1>2, <1>3, <3>1
    <3> QED BY <1>3, <3>1, <3>2 DEF Lists
  <2> QED BY <2>1, <2>2
<1> QED BY <1>3, <1>4, <1>5 DEF RemoveAt, u, a, b, n
=============================================================================
