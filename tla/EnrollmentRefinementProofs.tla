---------------------- MODULE EnrollmentRefinementProofs ----------------------
(***************************************************************************)
(* The enrollment service implements SeatAllocation, for every set of      *)
(* students and sections, any catalogue, dates and capacities; and a       *)
(* hand-over leaves no seat idle, since it reaches a prefix of the queue.  *)
(* Last, what becomes of the messages it starts (EnrollmentNotices).       *)
(***************************************************************************)
EXTENDS EnrollmentProofs, EnrollmentRefinement, EnrollmentNotices, SequenceTheorems

(* A gapless numbering as a sequence. *)
Listed(active, pos) ==
  [i \in 1..Cardinality(active) |-> CHOOSE s \in active : pos[s] = i]

UpTo(active, pos, k) == {t \in active : pos[t] <= k}

-----------------------------------------------------------------------------
(* Numberings. *)

(* The sequence has at every place the student with that position. *)
LEMMA ListedFacts ==
  ASSUME NEW active \in SUBSET Student, NEW pos \in [Student -> Nat], GaplessOn(active, pos)
  PROVE  /\ Cardinality(active) \in Nat
         /\ Listed(active, pos) \in Seq(Student)
         /\ Len(Listed(active, pos)) = Cardinality(active)
         /\ \A i \in 1..Cardinality(active) :
              Listed(active, pos)[i] \in active /\ pos[Listed(active, pos)[i]] = i
         /\ \A s \in active : /\ pos[s] \in 1..Cardinality(active)
                              /\ Listed(active, pos)[pos[s]] = s
<1> DEFINE n == Cardinality(active)
           q == Listed(active, pos)
<1>1. n \in Nat
  BY CountIsNat
<1>2. ASSUME NEW i \in 1..n
      PROVE  q[i] \in active /\ pos[q[i]] = i
  <2>1. \E s \in active : pos[s] = i
    BY DEF GaplessOn
  <2>2. q[i] = CHOOSE s \in active : pos[s] = i
    BY DEF Listed
  <2> QED BY <2>1, <2>2
<1>3. q \in [1..n -> Student]
  BY <1>2 DEF Listed
<1>4. q \in Seq(Student) /\ Len(q) = n
  BY <1>1, <1>3
<1>5. ASSUME NEW s \in active
      PROVE  pos[s] \in 1..n /\ q[pos[s]] = s
  <2>1. pos[s] \in 1..n
    BY DEF GaplessOn
  <2> QED BY <1>2, <2>1, GaplessInjective
<1> QED BY <1>1, <1>2, <1>4, <1>5

(* Who stands at a position is found there. *)
LEMMA ListedAt ==
  ASSUME NEW active \in SUBSET Student, NEW pos \in [Student -> Nat], GaplessOn(active, pos),
         NEW s \in active
  PROVE  pos[s] \in 1..Cardinality(active) /\ Listed(active, pos)[pos[s]] = s
BY ListedFacts

(* It is the only one that has. *)
LEMMA ListedIs ==
  ASSUME NEW active \in SUBSET Student, NEW pos \in [Student -> Nat], GaplessOn(active, pos),
         NEW q \in Seq(Student), Len(q) = Cardinality(active),
         \A i \in 1..Cardinality(active) : q[i] \in active /\ pos[q[i]] = i
  PROVE  Listed(active, pos) = q
<1> DEFINE l == Listed(active, pos)
<1>1. l \in Seq(Student) /\ Len(l) = Len(q)
  BY ListedFacts
<1>2. ASSUME NEW i \in 1..Len(l)
      PROVE  l[i] = q[i]
  <2>1. i \in 1..Cardinality(active)
    BY <1>1
  <2>2. l[i] \in active /\ pos[l[i]] = i
    BY <2>1, ListedFacts
  <2>3. q[i] \in active /\ pos[q[i]] = i
    BY <2>1
  <2> HIDE DEF l
  <2> QED BY <2>2, <2>3, GaplessInjective
<1> HIDE DEF l
<1>3. l = q
  BY <1>1, <1>2, SeqEqual
<1> QED BY <1>3 DEF l

(* Positions count. *)
LEMMA UpToCounts ==
  ASSUME NEW active \in SUBSET Student, NEW pos \in [Student -> Nat], GaplessOn(active, pos),
         NEW k \in 0..Cardinality(active)
  PROVE  Cardinality(UpTo(active, pos, k)) = k
<1> DEFINE U == UpTo(active, pos, k)
           f == [t \in U |-> pos[t]]
<1>1. U \in SUBSET active /\ IsFiniteSet(U) /\ k \in Nat /\ Cardinality(active) \in Nat
  BY CountIsNat DEF UpTo
<1>2. \A t \in U : pos[t] \in 1..k
  BY ListedFacts DEF UpTo
<1>3. f \in [U -> 1..k]
  BY <1>2
<1>4. \A t, u \in U : f[t] = f[u] => t = u
  BY <1>1, GaplessInjective
<1>5. \A i \in 1..k : \E t \in U : f[t] = i
  <2> SUFFICES ASSUME NEW i \in 1..k PROVE \E t \in U : f[t] = i
    OBVIOUS
  <2>1. i \in 1..Cardinality(active)
    BY <1>1
  <2>2. PICK t \in active : pos[t] = i
    BY <2>1 DEF GaplessOn
  <2>3. t \in U
    BY <2>2 DEF UpTo
  <2> QED BY <2>2, <2>3
<1>6. f \in Bijection(U, 1..k)
  BY <1>3, <1>4, <1>5 DEF Bijection, Injection, Surjection, IsInjective
<1>7. Cardinality(1..k) = k
  BY <1>1, FS_Interval
<1>8. ExistsBijection(U, 1..k)
  BY <1>6 DEF ExistsBijection
<1> HIDE DEF U
<1>9. Cardinality(U) = k
  BY <1>1, <1>7, <1>8, FS_Bijection
<1> QED BY <1>9 DEF U

(* A set that has with every student all who stand before is a prefix. *)
LEMMA PrefixIsUpTo ==
  ASSUME NEW active \in SUBSET Student, NEW pos \in [Student -> Nat], GaplessOn(active, pos),
         NEW D \in SUBSET active,
         \A s \in D, t \in active : pos[t] < pos[s] => t \in D
  PROVE  Cardinality(D) \in 0..Cardinality(active) /\ D = UpTo(active, pos, Cardinality(D))
<1> DEFINE k == Cardinality(D)
           n == Cardinality(active)
<1>1. n \in Nat /\ k \in 0..n /\ IsFiniteSet(D) /\ IsFiniteSet(active)
  BY CountIsNat, FS_Subset
<1>2. ASSUME NEW s \in D
      PROVE  pos[s] <= k
  <2>1. pos[s] \in 0..n
    BY ListedFacts
  <2>2. UpTo(active, pos, pos[s]) \in SUBSET D
    <3>1. \A t \in active : pos[t] <= pos[s] => pos[t] < pos[s] \/ t = s
      BY GaplessInjective
    <3> QED BY <3>1 DEF UpTo
  <2>3. Cardinality(UpTo(active, pos, pos[s])) = pos[s]
    BY <2>1, UpToCounts
  <2> QED BY <1>1, <2>2, <2>3, FS_Subset
<1>3. ASSUME NEW s \in active \ D
      PROVE  pos[s] > k
  <2>1. pos[s] \in 1..n
    BY ListedFacts
  <2>2. D \in SUBSET UpTo(active, pos, pos[s] - 1)
    <3>1. ASSUME NEW t \in D PROVE pos[t] <= pos[s] - 1
      <4>1. ~(pos[s] < pos[t])
        OBVIOUS
      <4>2. pos[s] # pos[t]
        BY GaplessInjective
      <4> QED BY <2>1, <4>1, <4>2
    <3> QED BY <3>1 DEF UpTo
  <2>3. pos[s] - 1 \in 0..n
    BY <1>1, <2>1
  <2>4. Cardinality(UpTo(active, pos, pos[s] - 1)) = pos[s] - 1
    BY <2>3, UpToCounts
  <2>5. UpTo(active, pos, pos[s] - 1) \in SUBSET Student
    BY DEF UpTo
  <2>6. IsFiniteSet(UpTo(active, pos, pos[s] - 1))
    BY <2>5, CountIsNat
  <2>7. k <= pos[s] - 1
    BY <2>2, <2>4, <2>6, FS_Subset
  <2> QED BY <1>1, <2>1, <2>7
<1>4. \A s \in active : pos[s] \in Nat
  OBVIOUS
<1>5. D = UpTo(active, pos, k)
  <2> SUFFICES ASSUME NEW s \in active PROVE s \in D <=> pos[s] <= k
    BY DEF UpTo
  <2> QED BY <1>1, <1>2, <1>3, <1>4
<1> QED BY <1>1, <1>5

(* Renumbering after the first k have left moves everybody up by k. *)
LEMMA PrefixLeaves ==
  ASSUME NEW active \in SUBSET Student, NEW pos \in [Student -> Nat], GaplessOn(active, pos),
         NEW k \in 0..Cardinality(active)
  PROVE  LET rest == active \ UpTo(active, pos, k)
             n == Cardinality(active)
         IN Listed(rest, Resequenced(rest, pos)) = SubSeq(Listed(active, pos), k + 1, n)
<1> DEFINE gone == UpTo(active, pos, k)
           rest == active \ gone
           n == Cardinality(active)
           q == Listed(active, pos)
           rank == Resequenced(rest, pos)
           m == SubSeq(q, k + 1, n)
<1>1. /\ IsFiniteSet(active) /\ n \in Nat /\ k \in Nat /\ k <= n
      /\ gone \in SUBSET active /\ rest \in SUBSET Student /\ gone \in SUBSET Student
  BY CountIsNat DEF UpTo
<1>2. Cardinality(gone) = k
  BY UpToCounts
<1>3. Cardinality(rest) = n - k
  <2>1. active \cap gone = gone
    BY <1>1
  <2> QED BY <1>1, <1>2, <2>1, FS_Difference
<1>4. ASSUME NEW t \in rest
      PROVE  rank[t] = pos[t] - k
  <2> DEFINE upto == UpTo(active, pos, pos[t])
  <2>1. pos[t] \in 1..n /\ pos[t] > k
    BY ListedFacts DEF UpTo
  <2>2. Cardinality(upto) = pos[t]
    BY <1>1, <2>1, UpToCounts
  <2>3. {u \in rest : pos[u] <= pos[t]} = upto \ gone
    BY DEF UpTo
  <2>4. upto \cap gone = gone
    BY <1>1, <2>1 DEF UpTo
  <2>5. upto \in SUBSET Student
    BY DEF UpTo
  <2>6. IsFiniteSet(upto)
    BY <2>5, CountIsNat
  <2> HIDE DEF upto, gone
  <2>7. Cardinality(upto \ gone) = pos[t] - k
    BY <1>2, <2>2, <2>4, <2>6, FS_Difference
  <2>8. rank[t] = Cardinality({u \in rest : pos[u] <= pos[t]})
    BY <1>1 DEF Resequenced
  <2> QED BY <2>3, <2>7, <2>8
<1>5. rank \in [Student -> Nat] /\ GaplessOn(rest, rank)
  <2>1. \A s, t \in rest : pos[s] = pos[t] => s = t
    BY GaplessInjective
  <2> QED BY <1>1, <2>1, ResequencedGapless
<1>6. q \in Seq(Student) /\ Len(q) = n
  BY ListedFacts
<1>7. /\ m \in Seq(Student) /\ Len(m) = n - k
      /\ \A i \in 1..(n - k) : m[i] = q[i + k]
  <2>1. \A i \in (k + 1)..n : q[i] \in Student
    BY <1>1, <1>6
  <2>2. k + 1 \in Int /\ n \in Int
    BY <1>1
  <2> HIDE DEF q
  <2>3. /\ m \in Seq(Student)
        /\ Len(m) = IF k + 1 <= n THEN n - (k + 1) + 1 ELSE 0
        /\ \A i \in 1..(n - (k + 1) + 1) : m[i] = q[(k + 1) + i - 1]
    BY <2>1, <2>2, SubSeqProperties
  <2> QED BY <1>1, <2>3
<1>8. ASSUME NEW i \in 1..(n - k)
      PROVE  m[i] \in rest /\ rank[m[i]] = i
  <2>1. i + k \in 1..n /\ i + k > k
    BY <1>1
  <2>2. q[i + k] \in active /\ pos[q[i + k]] = i + k
    BY <2>1, ListedFacts
  <2>3. m[i] = q[i + k]
    BY <1>7
  <2> HIDE DEF m, q, rank
  <2>4. m[i] \in rest
    BY <1>1, <2>1, <2>2, <2>3 DEF UpTo
  <2>5. rank[m[i]] = pos[m[i]] - k
    BY <1>4, <2>4
  <2> QED BY <1>1, <2>2, <2>3, <2>4, <2>5
<1> HIDE DEF m, rank, rest
<1>9. Listed(rest, rank) = m
  BY <1>1, <1>3, <1>5, <1>7, <1>8, ListedIs
<1> QED BY <1>9 DEF m, rank, rest

(* Renumbering after one has left moves up those behind. *)
LEMMA OneLeaves ==
  ASSUME NEW active \in SUBSET Student, NEW pos \in [Student -> Nat], GaplessOn(active, pos),
         NEW s \in active
  PROVE  LET rest == active \ {s}
             q == Listed(active, pos)
         IN Listed(rest, Resequenced(rest, pos))
              = SubSeq(q, 1, pos[s] - 1) \o SubSeq(q, pos[s] + 1, Len(q))
<1> DEFINE rest == active \ {s}
           n == Cardinality(active)
           q == Listed(active, pos)
           rank == Resequenced(rest, pos)
           front == SubSeq(q, 1, pos[s] - 1)
           back == SubSeq(q, pos[s] + 1, n)
           m == front \o back
<1>1. /\ IsFiniteSet(active) /\ n \in Nat /\ pos[s] \in 1..n
      /\ rest \in SUBSET Student
  BY CountIsNat, ListedFacts
<1>2. Cardinality(rest) = n - 1
  BY <1>1, FS_RemoveElement
<1>3. ASSUME NEW t \in rest
      PROVE  rank[t] = IF pos[t] < pos[s] THEN pos[t] ELSE pos[t] - 1
  <2> DEFINE upto == UpTo(active, pos, pos[t])
  <2>1. pos[t] \in 1..n
    BY ListedFacts
  <2>9. pos[t] # pos[s]
    BY GaplessInjective
  <2>2. Cardinality(upto) = pos[t]
    BY <1>1, <2>1, UpToCounts
  <2>3. {u \in rest : pos[u] <= pos[t]} = upto \ {s}
    BY DEF UpTo
  <2>4. s \in upto <=> ~(pos[t] < pos[s])
    BY <1>1, <2>1, <2>9 DEF UpTo
  <2>5. upto \in SUBSET Student
    BY DEF UpTo
  <2>6. IsFiniteSet(upto)
    BY <2>5, CountIsNat
  <2>7. rank[t] = Cardinality({u \in rest : pos[u] <= pos[t]})
    BY <1>1 DEF Resequenced
  <2>8. Cardinality(upto \ {s}) = IF s \in upto THEN pos[t] - 1 ELSE pos[t]
    BY <2>2, <2>6, FS_RemoveElement
  <2> QED BY <2>3, <2>4, <2>7, <2>8
<1>4. rank \in [Student -> Nat] /\ GaplessOn(rest, rank)
  <2>1. \A t, u \in rest : pos[t] = pos[u] => t = u
    BY GaplessInjective
  <2> QED BY <1>1, <2>1, ResequencedGapless
<1>5. q \in Seq(Student) /\ Len(q) = n /\ \A i \in 1..n : q[i] \in Student
  BY <1>1, ListedFacts
<1>6. /\ front \in Seq(Student) /\ Len(front) = pos[s] - 1
      /\ \A i \in 1..(pos[s] - 1) : front[i] = q[i]
  <2>1. 1 \in Int /\ pos[s] - 1 \in Int /\ \A i \in 1..(pos[s] - 1) : q[i] \in Student
    BY <1>1, <1>5
  <2> HIDE DEF q
  <2>2. /\ front \in Seq(Student)
        /\ Len(front) = IF 1 <= pos[s] - 1 THEN (pos[s] - 1) - 1 + 1 ELSE 0
        /\ \A i \in 1..((pos[s] - 1) - 1 + 1) : front[i] = q[1 + i - 1]
    BY <2>1, SubSeqProperties
  <2> QED BY <1>1, <2>2
<1>7. /\ back \in Seq(Student) /\ Len(back) = n - pos[s]
      /\ \A i \in 1..(n - pos[s]) : back[i] = q[pos[s] + i]
  <2>1. pos[s] + 1 \in Int /\ n \in Int /\ \A i \in (pos[s] + 1)..n : q[i] \in Student
    BY <1>1, <1>5
  <2> HIDE DEF q
  <2>2. /\ back \in Seq(Student)
        /\ Len(back) = IF pos[s] + 1 <= n THEN n - (pos[s] + 1) + 1 ELSE 0
        /\ \A i \in 1..(n - (pos[s] + 1) + 1) : back[i] = q[(pos[s] + 1) + i - 1]
    BY <2>1, SubSeqProperties
  <2> QED BY <1>1, <2>2
<1>8. /\ m \in Seq(Student) /\ Len(m) = n - 1
      /\ \A i \in 1..(n - 1) : m[i] = IF i < pos[s] THEN q[i] ELSE q[i + 1]
  <2> HIDE DEF front, back, q
  <2>1. /\ m \in Seq(Student) /\ Len(m) = Len(front) + Len(back)
        /\ \A i \in 1..(Len(front) + Len(back)) :
             m[i] = IF i <= Len(front) THEN front[i] ELSE back[i - Len(front)]
    BY <1>6, <1>7, ConcatProperties
  <2>2. Len(front) + Len(back) = n - 1
    BY <1>1, <1>6, <1>7
  <2>3. ASSUME NEW i \in 1..(n - 1)
        PROVE  m[i] = IF i < pos[s] THEN q[i] ELSE q[i + 1]
    <3>1. CASE i < pos[s]
      <4>1. i \in 1..(pos[s] - 1) /\ i <= Len(front) /\ i \in 1..(Len(front) + Len(back))
        BY <1>1, <1>6, <2>2, <3>1
      <4>2. m[i] = front[i] /\ front[i] = q[i]
        BY <1>6, <2>1, <4>1
      <4> QED BY <3>1, <4>2
    <3>2. CASE ~(i < pos[s])
      <4>1. i - (pos[s] - 1) \in 1..(n - pos[s]) /\ ~(i <= Len(front))
        BY <1>1, <1>6, <3>2
      <4>2. m[i] = back[i - (pos[s] - 1)]
        BY <1>6, <2>1, <2>2, <4>1
      <4>3. pos[s] + (i - (pos[s] - 1)) = i + 1
        BY <1>1
      <4> QED BY <1>7, <3>2, <4>1, <4>2, <4>3
    <3> QED BY <3>1, <3>2
  <2> QED BY <2>1, <2>2, <2>3
<1>9. ASSUME NEW i \in 1..(n - 1)
      PROVE  m[i] \in rest /\ rank[m[i]] = i
  <2>1. CASE i < pos[s]
    <3>1. i \in 1..n /\ m[i] = q[i]
      BY <1>1, <1>8, <2>1
    <3>2. q[i] \in active /\ pos[q[i]] = i
      BY <3>1, ListedFacts
    <3> HIDE DEF m, q, rank
    <3>3. m[i] \in rest
      BY <1>1, <2>1, <3>1, <3>2
    <3>4. rank[m[i]] = IF pos[m[i]] < pos[s] THEN pos[m[i]] ELSE pos[m[i]] - 1
      BY <1>3, <3>3
    <3> QED BY <2>1, <3>1, <3>2, <3>3, <3>4
  <2>2. CASE ~(i < pos[s])
    <3>1. i + 1 \in 1..n
      BY <1>1
    <3>2. m[i] = q[i + 1]
      BY <1>8, <2>2
    <3>3. q[i + 1] \in active /\ pos[q[i + 1]] = i + 1
      BY <3>1, ListedFacts
    <3> HIDE DEF m, q, rank
    <3>4. m[i] \in rest /\ ~(i + 1 < pos[s])
      BY <1>1, <2>2, <3>2, <3>3
    <3>5. rank[m[i]] = IF pos[m[i]] < pos[s] THEN pos[m[i]] ELSE pos[m[i]] - 1
      BY <1>3, <3>4
    <3> QED BY <1>1, <3>2, <3>3, <3>4, <3>5
  <2> QED BY <2>1, <2>2
<1> HIDE DEF m, rank, rest
<1>10. Listed(rest, rank) = m
  BY <1>1, <1>2, <1>4, <1>8, <1>9, ListedIs
<1> QED BY <1>5, <1>10 DEF m, rank, rest

(* A newcomer is last. *)
LEMMA OneJoins ==
  ASSUME NEW active \in SUBSET Student, NEW pos \in [Student -> Nat], GaplessOn(active, pos),
         NEW s \in Student \ active, NEW new \in [Student -> Nat],
         GaplessOn(active \cup {s}, new),
         new[s] = Cardinality(active) + 1, \A t \in active : new[t] = pos[t]
  PROVE  Listed(active \cup {s}, new) = Append(Listed(active, pos), s)
<1> DEFINE n == Cardinality(active)
           q == Listed(active, pos)
           m == Append(q, s)
<1>1. n \in Nat /\ q \in Seq(Student) /\ Len(q) = n
      /\ \A i \in 1..n : q[i] \in active /\ pos[q[i]] = i
  BY ListedFacts
<1>2. Cardinality(active \cup {s}) = n + 1
  BY CountIsNat, FS_AddElement
<1> HIDE DEF q
<1>3. m \in Seq(Student) /\ Len(m) = n + 1 /\ m[n + 1] = s /\ \A i \in 1..n : m[i] = q[i]
  BY <1>1
<1>4. \A i \in 1..(n + 1) : m[i] \in active \cup {s} /\ new[m[i]] = i
  BY <1>1, <1>3
<1> DEFINE more == active \cup {s}
<1>5. more \in SUBSET Student /\ Cardinality(more) = n + 1 /\ GaplessOn(more, new)
  BY <1>2
<1>7. \A i \in 1..Cardinality(more) : m[i] \in more /\ new[m[i]] = i
  BY <1>4, <1>5
<1>8. m \in Seq(Student) /\ Len(m) = Cardinality(more)
  BY <1>3, <1>5
<1> HIDE DEF m, more, n
<1>6. Listed(more, new) = m
  BY <1>5, <1>7, <1>8, ListedIs
<1> QED BY <1>6 DEF m, q, more

-----------------------------------------------------------------------------
(* The state that a caller sees. *)

LEMMA QueueFacts ==
  ASSUME Structural, QueueGapless, NEW c \in Section
  PROVE  /\ Active(c) \in SUBSET Student /\ position[c] \in [Student -> Nat]
         /\ GaplessOn(Active(c), position[c])
         /\ QueueOf[c] = Listed(Active(c), position[c])
         /\ Allocation!Waiting(c) = Active(c)
<1>1. /\ Active(c) \in SUBSET Student /\ position[c] \in [Student -> Nat]
      /\ GaplessOn(Active(c), position[c])
  BY ActiveFacts DEF Structural
<1>2. QueueOf[c] = Listed(Active(c), position[c])
  BY DEF QueueOf, Listed
<1> DEFINE q == Listed(Active(c), position[c])
<1>3. /\ DOMAIN q = 1..Cardinality(Active(c))
      /\ \A i \in 1..Cardinality(Active(c)) : q[i] \in Active(c)
  <2>1. DOMAIN q = 1..Cardinality(Active(c))
    BY DEF Listed
  <2> QED BY <1>1, <2>1, ListedFacts
<1>4. \A s \in Active(c) : position[c][s] \in DOMAIN q /\ q[position[c][s]] = s
  BY <1>1, <1>3, ListedFacts
<1> HIDE DEF q
<1>5. {q[i] : i \in DOMAIN q} = Active(c)
  BY <1>3, <1>4
<1> QED BY <1>1, <1>2, <1>5 DEF q, Allocation!Waiting, Allocation!ToSet

(* A step that touches the rows of one section. *)
LEMMA QueueMoves ==
  ASSUME NEW c \in Section,
         \A d \in Section \ {c} : waitlist'[d] = waitlist[d] /\ position'[d] = position[d]
  PROVE  QueueOf' = [QueueOf EXCEPT ![c] = Listed(Active(c)', position'[c])]
<1>1. ASSUME NEW d \in Section \ {c}
      PROVE  QueueOf'[d] = QueueOf[d]
  <2>1. QueueOf'[d] = Listed(Active(d)', position'[d]) /\ QueueOf[d] = Listed(Active(d), position[d])
    BY DEF QueueOf, Listed
  <2>2. Active(d)' = Active(d)
    BY DEF Active
  <2> QED BY <2>1, <2>2
<1>2. QueueOf'[c] = Listed(Active(c)', position'[c])
  BY DEF QueueOf, Listed
<1>3. DOMAIN QueueOf = Section /\ DOMAIN QueueOf' = Section
      /\ QueueOf' = [d \in Section |-> QueueOf'[d]]
  BY DEF QueueOf
<1> QED BY <1>1, <1>2, <1>3

LEMMA SeatsMove ==
  ASSUME NEW c \in Section, \A d \in Section \ {c} : enrollment'[d] = enrollment[d]
  PROVE  SeatsOf' = [SeatsOf EXCEPT ![c] = SeatHolders(enrollment', c)]
BY DEF SeatsOf, SeatHolders

LEMMA SameQueue ==
  ASSUME UNCHANGED <<waitlist, position>>
  PROVE  QueueOf' = QueueOf
BY DEF QueueOf, Active

LEMMA SameSeats ==
  ASSUME KeepsSeats
  PROVE  SeatsOf' = SeatsOf
BY DEF SeatsOf, SeatHolders, KeepsSeats

(* SeatAllocation counts as FiniteSets does. *)
LEMMA SameCardinality ==
  ASSUME NEW S
  PROVE  Allocation!Cardinality(S) = Cardinality(S)
BY Zenon DEF Allocation!Cardinality, Cardinality

(* Free, as the service computes it. *)
LEMMA FreeIsNotFull ==
  ASSUME Structural, QueueGapless, NEW c \in Section
  PROVE  Allocation!Free(c) <=> ~Full(c)
<1>1. SeatsTaken(c) \in Nat /\ capacity[c] \in Nat
  BY CountIsNat DEF SeatsTaken, SeatHolders, Structural, TypeOK
<1>2. SeatsOf[c] = SeatHolders(enrollment, c)
  BY DEF SeatsOf
<1> QED BY <1>1, <1>2, SameCardinality DEF Allocation!Free, Full, SeatsTaken

-----------------------------------------------------------------------------
(* Each operation is one of SeatAllocation's. *)

LEMMA SeatedIsAdmitted ==
  ASSUME Structural, QueueGapless, NEW c \in Section, NEW s \in Student, EnrollSeated(s, c)
  PROVE  Allocation!Admit(c, s)
<1>1. enrollment[c][s] = NoRow /\ waitlist[c][s] = NoRow /\ ~Full(c)
  BY DEF EnrollSeated, MayEnroll
<1>2. s \notin SeatsOf[c] \cup Allocation!Waiting(c)
  BY <1>1, NotARow, RowAssumption, QueueFacts DEF SeatsOf, SeatHolders, Active, WaitlistStatus
<1>3. QueueOf' = QueueOf /\ capacity' = capacity
  BY SameQueue DEF EnrollSeated
<1>4. SeatHolders(enrollment', c) = SeatsOf[c] \cup {s}
  BY DEF EnrollSeated, SeatsOf, SeatHolders, SeatConsuming, Structural, TypeOK
<1>5. \A d \in Section \ {c} : enrollment'[d] = enrollment[d]
  BY DEF EnrollSeated, Structural, TypeOK
<1>6. SeatsOf' = [SeatsOf EXCEPT ![c] = SeatsOf[c] \cup {s}]
  BY <1>4, <1>5, SeatsMove
<1> QED BY <1>1, <1>2, <1>3, <1>6, FreeIsNotFull DEF Allocation!Admit

LEMMA WaitlistedJoins ==
  ASSUME Structural, QueueGapless, Structural', QueueGapless',
         NEW c \in Section, NEW s \in Student, EnrollWaitlisted(s, c)
  PROVE  Allocation!Join(c, s)
<1>1. enrollment[c][s] = NoRow /\ waitlist[c][s] = NoRow /\ Full(c)
  BY DEF EnrollWaitlisted, MayEnroll
<1>2. s \notin Active(c)
  BY <1>1, RowAssumption DEF Active, WaitlistStatus
<1>3. s \notin SeatsOf[c] \cup Allocation!Waiting(c)
  BY <1>1, <1>2, NotARow, QueueFacts DEF SeatsOf, SeatHolders
<1>4. SeatsOf' = SeatsOf /\ capacity' = capacity
  BY SameSeats DEF EnrollWaitlisted, KeepsSeats
<1>5. /\ waitlist' = [waitlist EXCEPT ![c][s] = "ACTIVE"]
      /\ position' = [position EXCEPT ![c][s] = Cardinality(Active(c)) + 1]
  BY LastPositionIsLength DEF EnrollWaitlisted, Structural
<1>6. /\ waitlist \in [Section -> [Student -> WaitlistStatus \cup {NoRow}]]
      /\ position \in [Section -> [Student -> Nat]]
  BY DEF Structural, TypeOK
<1>7. Active(c)' = Active(c) \cup {s}
  BY <1>5, <1>6 DEF Active
<1>8. /\ position'[c][s] = Cardinality(Active(c)) + 1
      /\ \A t \in Active(c) : position'[c][t] = position[c][t]
  BY <1>2, <1>5, <1>6 DEF Active
<1>9. position'[c] \in [Student -> Nat] /\ GaplessOn(Active(c)', position'[c])
  BY DEF Structural, TypeOK, QueueGapless, GaplessOn
<1>10. Listed(Active(c)', position'[c]) = Append(QueueOf[c], s)
  <2> DEFINE active == Active(c)
             new == position'[c]
  <2>1. /\ active \in SUBSET Student /\ position[c] \in [Student -> Nat]
        /\ GaplessOn(active, position[c]) /\ QueueOf[c] = Listed(active, position[c])
    BY QueueFacts
  <2>2. /\ s \in Student \ active /\ new \in [Student -> Nat] /\ GaplessOn(active \cup {s}, new)
        /\ new[s] = Cardinality(active) + 1 /\ \A t \in active : new[t] = position[c][t]
    BY <1>2, <1>7, <1>8, <1>9
  <2>3. Active(c)' = active \cup {s}
    BY <1>7
  <2> HIDE DEF active, new
  <2>4. Listed(active \cup {s}, new) = Append(Listed(active, position[c]), s)
    BY <2>1, <2>2, OneJoins
  <2> QED BY <2>1, <2>3, <2>4 DEF new
<1>11. \A d \in Section \ {c} : waitlist'[d] = waitlist[d] /\ position'[d] = position[d]
  BY <1>5, <1>6
<1>12. QueueOf' = [QueueOf EXCEPT ![c] = Append(QueueOf[c], s)]
  BY <1>10, <1>11, QueueMoves
<1> QED BY <1>1, <1>3, <1>4, <1>12, FreeIsNotFull DEF Allocation!Join

(* One who waits leaves the queue, and those behind move up. *)
LEMMA OneLeavesQueue ==
  ASSUME Structural, QueueGapless, NEW c \in Section, NEW s \in Active(c),
         Active(c)' = Active(c) \ {s},
         \A d \in Section \ {c} : waitlist'[d] = waitlist[d],
         position' = [position EXCEPT ![c] = Resequenced(Active(c) \ {s}, position[c])]
  PROVE  \E i \in DOMAIN QueueOf[c] :
           /\ QueueOf[c][i] = s
           /\ QueueOf' = [QueueOf EXCEPT ![c] = Allocation!RemoveAt(QueueOf[c], i)]
<1> DEFINE active == Active(c)
           pos == position[c]
           rank == Resequenced(active \ {s}, pos)
           q == Listed(active, pos)
<1>1. /\ active \in SUBSET Student /\ pos \in [Student -> Nat]
      /\ GaplessOn(active, pos) /\ QueueOf[c] = q
  BY QueueFacts
<1>2. \A d \in Section \ {c} : position'[d] = position[d]
  BY DEF Structural, TypeOK
<1>3. position'[c] = rank
  BY DEF Structural, TypeOK
<1>4. DOMAIN q = 1..Cardinality(active) /\ pos[s] \in 1..Cardinality(active) /\ q[pos[s]] = s
  <2>1. DOMAIN q = 1..Cardinality(active)
    BY DEF Listed
  <2> QED BY <1>1, <2>1, ListedFacts
<1>5. Active(c)' = active \ {s}
  OBVIOUS
<1> HIDE DEF active, pos, q
<1>6. Listed(active \ {s}, rank) = SubSeq(q, 1, pos[s] - 1) \o SubSeq(q, pos[s] + 1, Len(q))
  BY <1>1, OneLeaves DEF q, active
<1> HIDE DEF rank
<1>7. QueueOf' = [QueueOf EXCEPT ![c] = Listed(active \ {s}, rank)]
  BY <1>2, <1>3, <1>5, QueueMoves
<1>8. QueueOf' = [QueueOf EXCEPT ![c] = Allocation!RemoveAt(QueueOf[c], pos[s])]
  BY <1>1, <1>6, <1>7 DEF Allocation!RemoveAt
<1> QED BY <1>1, <1>4, <1>8

LEMMA EntryIsWithdrawn ==
  ASSUME Structural, QueueGapless, NEW c \in Section, NEW s \in Student, RemoveWaitlistEntry(s, c)
  PROVE  Allocation!Withdraw(c, s) \/ UNCHANGED <<SeatsOf, QueueOf, capacity>>
<1>1. SeatsOf' = SeatsOf /\ capacity' = capacity
  BY SameSeats DEF RemoveWaitlistEntry, KeepsSeats
<1>2. /\ waitlist' = [waitlist EXCEPT ![c] = [waitlist[c] EXCEPT ![s] = NoRow]]
      /\ waitlist \in [Section -> [Student -> WaitlistStatus \cup {NoRow}]]
  BY DEF RemoveWaitlistEntry, Structural, TypeOK
<1>3. Active(c)' = Active(c) \ {s} /\ \A d \in Section \ {c} : waitlist'[d] = waitlist[d]
  BY <1>2, RowAssumption DEF Active, WaitlistStatus
<1>4. CASE s \in Active(c)
  <2>1. position' = [position EXCEPT ![c] = Resequenced(Active(c) \ {s}, position[c])]
    BY <1>4 DEF RemoveWaitlistEntry
  <2>2. \E i \in DOMAIN QueueOf[c] :
           /\ QueueOf[c][i] = s
           /\ QueueOf' = [QueueOf EXCEPT ![c] = Allocation!RemoveAt(QueueOf[c], i)]
    BY <1>3, <1>4, <2>1, OneLeavesQueue
  <2> QED BY <1>1, <2>2 DEF Allocation!Withdraw
<1>5. CASE s \notin Active(c)
  <2>1. position' = position
    BY <1>5 DEF RemoveWaitlistEntry
  <2>2. \A d \in Section : Active(d)' = Active(d)
    BY <1>3, <1>5 DEF Active
  <2>3. QueueOf' = QueueOf
    BY <2>1, <2>2 DEF QueueOf
  <2> QED BY <1>1, <2>3
<1> QED BY <1>4, <1>5

LEMMA EntryIsPicked ==
  ASSUME Structural, QueueGapless, NEW c \in Section, NEW s \in Student, PromoteWaitlistEntry(s, c)
  PROVE  Allocation!Pick(c, s)
<1> DEFINE wl == [waitlist[c] EXCEPT ![s] = "CONVERTED"]
<1>1. s \in Active(c) /\ ~Full(c) /\ capacity' = capacity
  BY DEF PromoteWaitlistEntry
<1>2. /\ enrollment' = [enrollment EXCEPT ![c][s] = "PENDING"]
      /\ waitlist' = [waitlist EXCEPT ![c] = wl]
      /\ position' = [position EXCEPT
           ![c] = Resequenced({t \in Student : wl[t] = "ACTIVE"}, position[c])]
  BY DEF PromoteWaitlistEntry, Commit
<1>3. {t \in Student : wl[t] = "ACTIVE"} = Active(c) \ {s}
  BY DEF Active, Structural, TypeOK
<1>4. Active(c)' = Active(c) \ {s} /\ \A d \in Section \ {c} : waitlist'[d] = waitlist[d]
  BY <1>2, <1>3 DEF Active, Structural, TypeOK
<1>5. \E i \in DOMAIN QueueOf[c] :
        /\ QueueOf[c][i] = s
        /\ QueueOf' = [QueueOf EXCEPT ![c] = Allocation!RemoveAt(QueueOf[c], i)]
  BY <1>1, <1>2, <1>3, <1>4, OneLeavesQueue
<1>6. SeatHolders(enrollment', c) = SeatsOf[c] \cup {s}
  BY <1>2 DEF SeatsOf, SeatHolders, SeatConsuming, Structural, TypeOK
<1>7. \A d \in Section \ {c} : enrollment'[d] = enrollment[d]
  BY <1>2 DEF Structural, TypeOK
<1>8. SeatsOf' = [SeatsOf EXCEPT ![c] = SeatsOf[c] \cup {s}]
  BY <1>6, <1>7, SeatsMove
<1> QED BY <1>1, <1>5, <1>8, FreeIsNotFull DEF Allocation!Pick

(* The loop of handleSeatAvailability reaches a prefix of the queue. *)
LEMMA ConsideredIsPrefix ==
  ASSUME Structural, QueueGapless, NEW c \in Section, NEW enr \in Tables
  PROVE  LET k == Cardinality(Considered(enr, c)) IN
         /\ k \in 0..Cardinality(Active(c))
         /\ Considered(enr, c) = UpTo(Active(c), position[c], k)
<1> DEFINE D == Considered(enr, c)
           active == Active(c)
           pos == position[c]
           ahead(s) == {t \in active : pos[t] < pos[s] /\ Claimable(enr, c, t)}
<1>1. active \in SUBSET Student /\ pos \in [Student -> Nat] /\ GaplessOn(active, pos)
  BY QueueFacts
<1>2. D \in SUBSET active
  BY DEF Considered
<1>3. ASSUME NEW s \in D, NEW t \in active, pos[t] < pos[s]
      PROVE  t \in D
  <2>1. ahead(t) \in SUBSET ahead(s)
    BY <1>1, <1>2, <1>3
  <2>2. ahead(s) \in SUBSET Student /\ ahead(t) \in SUBSET Student
    BY <1>1
  <2>3. IsFiniteSet(ahead(s)) /\ Cardinality(ahead(s)) \in Nat /\ Cardinality(ahead(t)) \in Nat
    BY <2>2, CountIsNat
  <2>4. Cardinality(ahead(t)) <= Cardinality(ahead(s))
    BY <2>1, <2>3, FS_Subset
  <2>5. Cardinality(ahead(s)) < FreeSeats(enr, c) /\ FreeSeats(enr, c) \in Nat
    BY PromotedFit DEF Considered
  <2>6. Cardinality(ahead(t)) < FreeSeats(enr, c)
    BY <2>3, <2>4, <2>5
  <2> QED BY <2>6 DEF Considered
<1> HIDE DEF D, active, pos
<1>4. Cardinality(D) \in 0..Cardinality(active) /\ D = UpTo(active, pos, Cardinality(D))
  BY <1>1, <1>2, <1>3, PrefixIsUpTo
<1> QED BY <1>4 DEF D, active, pos

(* Those who leave the queue in a hand-over are the ones considered. *)
LEMMA QueueHandedOver ==
  ASSUME Structural, QueueGapless, NEW c \in Section, NEW enr \in Tables, HandleSeatAvailability(c, enr)
  PROVE  LET k == Cardinality(Considered(enr, c)) IN
         QueueOf' = [QueueOf EXCEPT ![c] = SubSeq(QueueOf[c], k + 1, Len(QueueOf[c]))]
<1> DEFINE D == Considered(enr, c)
           k == Cardinality(D)
           active == Active(c)
           pos == position[c]
           q == Listed(active, pos)
           rest == active \ D
           wl == AfterPromotions(enr, c)
<1>1. /\ waitlist' = [waitlist EXCEPT ![c] = wl]
      /\ position' = [position EXCEPT ![c] = Resequenced({s \in Student : wl[s] = "ACTIVE"}, pos)]
  BY DEF HandleSeatAvailability, Commit
<1>2. {s \in Student : wl[s] = "ACTIVE"} = rest
  BY DEF AfterPromotions, Promoted, Considered, Active
<1>3. Active(c)' = rest
  BY <1>1, <1>2 DEF Active, Structural, TypeOK
<1>4. position'[c] = Resequenced(rest, pos)
  BY <1>1, <1>2 DEF Structural, TypeOK
<1>5. \A d \in Section \ {c} : waitlist'[d] = waitlist[d] /\ position'[d] = position[d]
  BY <1>1 DEF Structural, TypeOK
<1> HIDE DEF wl
<1>6. /\ active \in SUBSET Student /\ pos \in [Student -> Nat]
      /\ GaplessOn(active, pos) /\ QueueOf[c] = q
  BY QueueFacts
<1>7. k \in 0..Cardinality(active) /\ D = UpTo(active, pos, k)
  BY ConsideredIsPrefix
<1>8. Len(q) = Cardinality(active)
  BY <1>6, ListedFacts
<1> HIDE DEF D, k, active, pos
<1>9. Listed(rest, Resequenced(rest, pos)) = SubSeq(q, k + 1, Cardinality(active))
  <2>1. Listed(active \ UpTo(active, pos, k), Resequenced(active \ UpTo(active, pos, k), pos))
          = SubSeq(q, k + 1, Cardinality(active))
    BY <1>6, <1>7, PrefixLeaves
  <2> QED BY <1>7, <2>1
<1> HIDE DEF q, rest
<1>10. QueueOf' = [QueueOf EXCEPT ![c] = SubSeq(q, k + 1, Cardinality(active))]
  BY <1>3, <1>4, <1>5, <1>9, QueueMoves
<1> QED BY <1>6, <1>8, <1>10 DEF k, D

(* The promoted are among the first of the queue. *)
LEMMA PromotedAreFirst ==
  ASSUME Structural, QueueGapless, NEW c \in Section, NEW enr \in Tables
  PROVE  LET k == Cardinality(Considered(enr, c)) IN
         /\ k \in 0..Len(QueueOf[c])
         /\ Promoted(enr, c) \in SUBSET Allocation!ToSet(SubSeq(QueueOf[c], 1, k))
<1> DEFINE k == Cardinality(Considered(enr, c))
           n == Cardinality(Active(c))
           q == QueueOf[c]
           pos == position[c]
           m == SubSeq(q, 1, k)
<1>1. /\ n \in Nat /\ q \in Seq(Student) /\ Len(q) = n
      /\ \A s \in Active(c) : pos[s] \in 1..n /\ q[pos[s]] = s
  <2>1. /\ Active(c) \in SUBSET Student /\ pos \in [Student -> Nat]
        /\ GaplessOn(Active(c), pos) /\ q = Listed(Active(c), pos)
    BY QueueFacts
  <2> DEFINE active == Active(c)
             l == Listed(active, pos)
  <2>2. active \in SUBSET Student /\ pos \in [Student -> Nat] /\ GaplessOn(active, pos)
    BY <2>1
  <2> HIDE DEF pos, active
  <2>3. Cardinality(active) \in Nat /\ l \in Seq(Student) /\ Len(l) = Cardinality(active)
    BY <2>2, ListedFacts
  <2>4. \A s \in active : pos[s] \in 1..Cardinality(active) /\ l[pos[s]] = s
    <3> USE DEF l
    <3> SUFFICES ASSUME NEW s \in active
                 PROVE  pos[s] \in 1..Cardinality(active) /\ l[pos[s]] = s
      OBVIOUS
    <3> QED BY <2>2, ListedAt
  <2>5. q = l
    BY <2>1 DEF active
  <2> QED BY <2>3, <2>4, <2>5 DEF active
<1>2. k \in 0..n /\ Considered(enr, c) = UpTo(Active(c), pos, k)
  BY ConsideredIsPrefix
<1> HIDE DEF k, n, q, pos
<1>3. Len(m) = k /\ m \in Seq(Student) /\ \A i \in 1..k : m[i] = q[i]
  <2>1. \A i \in 1..k : q[i] \in Student
    BY <1>1, <1>2
  <2>2. 1 \in Int /\ k \in Int
    BY <1>2
  <2>3. /\ m \in Seq(Student)
        /\ Len(m) = IF 1 <= k THEN k - 1 + 1 ELSE 0
        /\ \A i \in 1..(k - 1 + 1) : m[i] = q[1 + i - 1]
    BY <2>1, <2>2, SubSeqProperties
  <2> QED BY <1>1, <1>2, <2>3
<1> HIDE DEF m
<1>4. ASSUME NEW s \in Promoted(enr, c)
      PROVE  s \in Allocation!ToSet(m)
  <2>1. s \in Active(c) /\ pos[s] <= k
    BY <1>2 DEF Promoted, UpTo
  <2>2. pos[s] \in 1..k /\ pos[s] \in DOMAIN m /\ m[pos[s]] = s
    BY <1>1, <1>2, <1>3, <2>1
  <2> QED BY <2>2 DEF Allocation!ToSet
<1> QED BY <1>1, <1>2, <1>4 DEF k, q, m

(* A seat of c is given up and handed over along the queue. *)
LEMMA HandOverIsRelease ==
  ASSUME Structural, QueueGapless, NEW c \in Section, NEW s \in Student, NEW enr \in Tables,
         enrollment[c][s] \in SeatConsuming,
         \A d \in Section \ {c} : enr[d] = enrollment[d],
         \A t \in Student :
           /\ enr[c][t] \in SeatConsuming => enrollment[c][t] = enr[c][t]
           /\ enrollment[c][t] = NoRow => enr[c][t] = NoRow,
         SeatHolders(enr, c) = SeatHolders(enrollment, c) \ {s},
         HandleSeatAvailability(c, enr), capacity' = capacity
  PROVE  Allocation!Release(c, s)
<1> DEFINE P == Promoted(enr, c)
           k == Cardinality(Considered(enr, c))
<1>1. GivesSeats(c, enr, P)
  BY HandOverGives
<1>2. P \in SUBSET Student
  BY DEF Promoted, Considered, Active
<1>3. SeatsOf[c] = SeatHolders(enrollment, c) /\ s \in SeatsOf[c]
  BY DEF SeatsOf, SeatHolders
<1> HIDE DEF P
<1>4. /\ SeatHolders(enrollment', c) = (SeatsOf[c] \ {s}) \cup P
      /\ \A d \in Section \ {c} : enrollment'[d] = enrollment[d]
  BY <1>1, <1>2, <1>3, SeatsAfter
<1>5. SeatsOf' = [SeatsOf EXCEPT ![c] = (SeatsOf[c] \ {s}) \cup P]
  BY <1>4, SeatsMove
<1>6. P # {} => Cardinality(SeatsOf[c] \ {s}) + Cardinality(P) <= capacity[c]
  BY <1>1, <1>3 DEF GivesSeats
<1>7. QueueOf' = [QueueOf EXCEPT ![c] = SubSeq(QueueOf[c], k + 1, Len(QueueOf[c]))]
  BY QueueHandedOver
<1>8. k \in 0..Len(QueueOf[c]) /\ P \in SUBSET Allocation!ToSet(SubSeq(QueueOf[c], 1, k))
  BY PromotedAreFirst DEF P
<1>9. P # {} => Allocation!Cardinality(SeatsOf[c] \ {s}) + Allocation!Cardinality(P) <= capacity[c]
  BY <1>6, SameCardinality
<1> HIDE DEF k
<1> QED BY <1>3, <1>5, <1>7, <1>8, <1>9 DEF Allocation!Release

LEMMA DropReleases ==
  ASSUME Structural, QueueGapless, NEW c \in Section, NEW s \in Student,
         DropEnrollment(s, c) \/ RemoveSeated(s, c)
  PROVE  Allocation!Release(c, s)
<1> DEFINE enr == WithoutRow(enrollment, c, s)
<1>1. /\ enrollment[c][s] \in SeatConsuming
      /\ HandleSeatAvailability(c, enr) /\ capacity' = capacity
  BY DEF DropEnrollment, RemoveSeated, Droppable, SeatConsuming
<1>2. SeatHolders(enr, c) = SeatHolders(enrollment, c) \ {s}
  BY NotARow DEF WithoutRow, SeatHolders, Structural, TypeOK
<1>3. /\ enr \in Tables
      /\ \A d \in Section \ {c} : enr[d] = enrollment[d]
      /\ \A t \in Student :
           /\ enr[c][t] \in SeatConsuming => enrollment[c][t] = enr[c][t]
           /\ enrollment[c][t] = NoRow => enr[c][t] = NoRow
  BY WithoutRowLoses
<1> HIDE DEF enr
<1> QED BY <1>1, <1>2, <1>3, HandOverIsRelease

LEMMA UpdateReleases ==
  ASSUME Structural, QueueGapless, NEW c \in Section, NEW s \in Student, NEW next \in Targets[c],
         UpdateReleasingSeat(s, c, next)
  PROVE  Allocation!Release(c, s)
<1> DEFINE enr == [enrollment EXCEPT ![c][s] = next]
<1>1. next \in EnrollmentStatus \ SeatConsuming /\ enrollment[c][s] \in SeatConsuming
  BY DEF UpdateReleasingSeat, ValidTransitions, EnrollmentStatus, SeatConsuming
<1>2. enr \in Tables /\ \A d \in Section \ {c} : enr[d] = enrollment[d]
  BY <1>1 DEF Structural, TypeOK, Tables
<1>3. \A t \in Student :
        /\ enr[c][t] \in SeatConsuming => enrollment[c][t] = enr[c][t]
        /\ enrollment[c][t] = NoRow => enr[c][t] = NoRow
  BY <1>1, NotARow DEF Structural, TypeOK
<1>4. SeatHolders(enr, c) = SeatHolders(enrollment, c) \ {s}
  BY <1>1 DEF SeatHolders, Structural, TypeOK
<1>5. HandleSeatAvailability(c, enr) /\ capacity' = capacity
  BY DEF UpdateReleasingSeat
<1> HIDE DEF enr
<1> QED BY <1>1, <1>2, <1>3, <1>4, <1>5, HandOverIsRelease

(* Steps that move neither a seat nor the queue. *)
LEMMA StatusChangeStutters ==
  ASSUME Structural, QueueGapless, NEW c \in Section, NEW s \in Student,
         RemoveUnseated(s, c) \/ \E next \in Targets[c] : UpdateKeepingSeat(s, c, next)
  PROVE  UNCHANGED <<SeatsOf, QueueOf, capacity>>
<1>1. UNCHANGED <<waitlist, position, capacity>>
  BY DEF RemoveUnseated, UpdateKeepingSeat
<1>2. enrollment[c][s] \in SeatConsuming <=> enrollment'[c][s] \in SeatConsuming
  BY NotARow DEF RemoveUnseated, WithoutRow, UpdateKeepingSeat, ValidTransitions, SeatConsuming,
                 Structural, TypeOK
<1>3. \A d \in Section, t \in Student : d # c \/ t # s => enrollment'[d][t] = enrollment[d][t]
  BY DEF RemoveUnseated, WithoutRow, UpdateKeepingSeat, Structural, TypeOK
<1>4. \A d \in Section, t \in Student :
        enrollment[d][t] \in SeatConsuming <=> enrollment'[d][t] \in SeatConsuming
  BY <1>2, <1>3
<1>5. SeatsOf' = SeatsOf
  BY <1>4 DEF SeatsOf, SeatHolders
<1> QED BY <1>1, <1>5, SameQueue

LEMMA SectionIsResized ==
  ASSUME Structural, QueueGapless, Structural', QueueGapless',
         NEW c \in Section, NEW seats \in Capacities[c],
         NEW st \in Statuses, UpdateSection(c, seats, st)
  PROVE  Allocation!Resize(c)
<1>1. SeatsOf' = SeatsOf /\ QueueOf' = QueueOf
  BY SameQueue DEF UpdateSection, SeatsOf
<1>2. capacity' = [capacity EXCEPT ![c] = seats] /\ capacity'[c] \in Nat
  BY DEF UpdateSection, Structural, TypeOK
<1>3. capacity'[c] = seats
  BY <1>2 DEF Structural, TypeOK
<1> QED BY <1>1, <1>2, <1>3 DEF Allocation!Resize

LEMMA StepImplements ==
  ASSUME Structural, QueueGapless, Structural', QueueGapless', [Next]_vars
  PROVE  [Allocation!Next]_<<SeatsOf, QueueOf, capacity>>
<1> DEFINE Stutters == UNCHANGED <<SeatsOf, QueueOf, capacity>>
<1>1. CASE UNCHANGED <<enrollment, waitlist, position, capacity>>
  BY <1>1, SameQueue DEF SeatsOf
<1>2. ASSUME NEW c \in Section, NEW seats \in Capacities[c], NEW st \in Statuses,
             UpdateSection(c, seats, st)
      PROVE  Allocation!Next
  BY <1>2, SectionIsResized DEF Allocation!Next
<1>3. ASSUME NEW c \in Section, NEW s \in Student, StudentOperation(s, c)
      PROVE  Allocation!Next \/ Stutters
  <2>1. \/ Allocation!Admit(c, s) \/ Allocation!Join(c, s)
        \/ Allocation!Release(c, s) \/ Allocation!Withdraw(c, s) \/ Stutters
    BY <1>3, SeatedIsAdmitted, WaitlistedJoins, DropReleases, EntryIsWithdrawn
       DEF StudentOperation
  <2> HIDE DEF Stutters
  <2> QED BY <2>1 DEF Allocation!Next
<1>4. ASSUME NEW c \in Section, NEW s \in Student, AdminOperation(s, c)
      PROVE  Allocation!Next \/ Stutters
  <2>1. Allocation!Pick(c, s) \/ Allocation!Release(c, s) \/ Stutters
    BY <1>4, EntryIsPicked, StatusChangeStutters, UpdateReleases, DropReleases
       DEF AdminOperation
  <2> HIDE DEF Stutters
  <2> QED BY <2>1 DEF Allocation!Next
<1> QED BY <1>1, <1>2, <1>3, <1>4 DEF Next, Tick, vars

LEMMA InitImplements ==
  ASSUME Init
  PROVE  Allocation!Init
<1>1. SeatsOf = [c \in Section |-> {}]
  BY NotARow DEF Init, SeatsOf, SeatHolders
<1>2. \A c \in Section : Active(c) = {}
  BY RowAssumption DEF Init, Active, WaitlistStatus
<1>3. QueueOf = [c \in Section |-> << >>]
  <2>1. ASSUME NEW c \in Section
        PROVE  QueueOf[c] = << >>
    <3>1. Cardinality(Active(c)) = 0
      BY <1>2, FS_EmptySet
    <3>2. QueueOf[c] = Listed(Active(c), position[c])
      BY DEF QueueOf, Listed
    <3>3. DOMAIN Listed(Active(c), position[c]) = {}
      BY <3>1 DEF Listed
    <3> QED BY <3>1, <3>2, <3>3 DEF Listed
  <2> QED BY <2>1 DEF QueueOf
<1>4. capacity \in [Section -> Nat]
  BY RowAssumption DEF Init
<1> QED BY <1>1, <1>3, <1>4 DEF Allocation!Init

(* The service implements SeatAllocation: rows, statuses, counters and       *)
(* positions may change only as some first-come first-served queue with a    *)
(* bounded number of seats would (enrollStudent, dropEnrollment,             *)
(* removeWaitlistEntry, promoteWaitlistEntry, update, remove, updateSection  *)
(* and handleSeatAvailability).                                              *)
THEOREM ServiceImplementsAllocation == Spec => ImplementsSeatAllocation
<1>1. Structural /\ QueueGapless /\ Structural' /\ QueueGapless' /\ [Next]_vars
        => [Allocation!Next]_<<SeatsOf, QueueOf, capacity>>
  BY StepImplements
<1>2. Init => Allocation!Init
  BY InitImplements
<1> QED BY AlwaysStructural, WaitlistGapless, <1>1, <1>2, PTL
       DEF Spec, ImplementsSeatAllocation, Allocation!Spec, Allocation!allocVars

-----------------------------------------------------------------------------
(* A hand-over does not stop early. *)

(* If someone is not reached, every free seat was given. *)
LEMMA UnreachedOnlyWhenFull ==
  ASSUME Structural, QueueGapless, NEW c \in Section, NEW enr \in Tables,
         NEW s \in Active(c), s \notin Considered(enr, c)
  PROVE  Cardinality(Promoted(enr, c)) >= FreeSeats(enr, c)
<1> DEFINE D == Considered(enr, c)
           k == Cardinality(D)
           n == Cardinality(Active(c))
           pos == position[c]
           ahead(u) == {t \in Active(c) : pos[t] < pos[u] /\ Claimable(enr, c, t)}
<1>1. Active(c) \in SUBSET Student /\ pos \in [Student -> Nat] /\ GaplessOn(Active(c), pos)
  BY QueueFacts
<1>2. k \in 0..n /\ D = UpTo(Active(c), pos, k)
  BY ConsideredIsPrefix
<1>3. n \in Nat /\ pos[s] \in 1..n
  <2> HIDE DEF pos
  <2> QED BY <1>1, ListedFacts
<1>4. k + 1 \in 1..n
  <2>1. ~(pos[s] <= k)
    BY <1>2 DEF UpTo
  <2> HIDE DEF k, n, pos
  <2> QED BY <1>2, <1>3, <2>1
<1>5. PICK u \in Active(c) : pos[u] = k + 1
  BY <1>1, <1>4 DEF GaplessOn
<1>6. ahead(u) = Promoted(enr, c)
  <2>1. \A t \in Active(c) : pos[t] < pos[u] <=> t \in D
    <3>1. \A t \in Active(c) : pos[t] \in Nat /\ k \in Nat
      BY <1>1, <1>2, <1>3
    <3> HIDE DEF k, pos, D
    <3> QED BY <1>2, <1>5, <3>1 DEF UpTo
  <2>2. Promoted(enr, c) = {t \in D : Claimable(enr, c, t)} /\ D \in SUBSET Active(c)
    BY DEF Promoted, Considered
  <2> HIDE DEF D
  <2> QED BY <2>1, <2>2
<1>7. u \notin D
  <2>1. k \in Nat
    BY <1>2, <1>3
  <2> HIDE DEF k, pos, D
  <2> QED BY <1>2, <1>5, <2>1 DEF UpTo
<1>8. ~(Cardinality(ahead(u)) < FreeSeats(enr, c))
  BY <1>7 DEF Considered
<1>9. Promoted(enr, c) \in SUBSET Student
  BY DEF Promoted, Considered, Active
<1>10. Cardinality(Promoted(enr, c)) \in Nat /\ FreeSeats(enr, c) \in Nat
  BY <1>9, CountIsNat, PromotedFit
<1> HIDE DEF ahead
<1> QED BY <1>6, <1>8, <1>10

(* While a seat is left after a hand-over, nobody waits. *)
LEMMA HandOverLeavesNone ==
  ASSUME Structural, QueueGapless, NEW c \in Section, NEW enr \in Tables,
         \A d \in Section \ {c} : enr[d] = enrollment[d],
         \A s \in Student :
           /\ enr[c][s] \in SeatConsuming => enrollment[c][s] = enr[c][s]
           /\ enrollment[c][s] = NoRow => enr[c][s] = NoRow,
         HandleSeatAvailability(c, enr), OpenForEnrollment(c),
         Cardinality(SeatHolders(enrollment', c)) < capacity[c]
  PROVE  \A s \in Student : waitlist'[c][s] # "ACTIVE"
<1> DEFINE P == Promoted(enr, c)
           H == SeatHolders(enr, c)
<1> SUFFICES ASSUME NEW s \in Student, waitlist'[c][s] = "ACTIVE" PROVE FALSE
  OBVIOUS
<1>1. waitlist'[c] = AfterPromotions(enr, c)
  BY DEF HandleSeatAvailability, Commit, Structural, TypeOK
<1>2. s \in Active(c) /\ s \notin Considered(enr, c)
  BY <1>1 DEF AfterPromotions, Promoted, Active
<1>3. Cardinality(P) >= FreeSeats(enr, c)
  BY <1>2, UnreachedOnlyWhenFull
<1>4. GivesSeats(c, enr, P)
  BY HandOverGives
<1>5. P \in SUBSET Student /\ H \in SUBSET Student
  BY DEF Promoted, Considered, Active, SeatHolders
<1>6. P \cap H = {}
  BY NotARow DEF Promoted, Claimable, SeatHolders
<1> HIDE DEF P
<1>7. SeatHolders(enrollment', c) = H \cup P
  BY <1>4, <1>5, SeatsAfter
<1>8. FreeSeats(enr, c) = IF Cardinality(H) < capacity[c] THEN capacity[c] - Cardinality(H) ELSE 0
  BY DEF FreeSeats
<1> HIDE DEF H
<1>9. /\ IsFiniteSet(P) /\ IsFiniteSet(H)
      /\ Cardinality(P) \in Nat /\ Cardinality(H) \in Nat /\ capacity[c] \in Nat
  BY <1>5, CountIsNat DEF Structural, TypeOK
<1>10. H \cap P = {}
  BY <1>6
<1>11. Cardinality(H \cup P) = Cardinality(H) + Cardinality(P)
  <2>1. Cardinality(H \cup P) = Cardinality(H) + Cardinality(P) - Cardinality(H \cap P)
    BY <1>9, FS_Union
  <2>2. Cardinality({}) = 0
    BY FS_EmptySet
  <2>3. Cardinality(H \cap P) = 0
    BY <1>10, <2>2
  <2> QED BY <1>9, <2>1, <2>3
<1> QED BY <1>3, <1>7, <1>8, <1>9, <1>11

LEMMA StepLeavesNoIdleSeat ==
  ASSUME Structural, QueueGapless, [Next]_vars, NEW c \in Section,
         ~(SeatHolders(enrollment, c) \subseteq SeatHolders(enrollment', c)),
         OpenForEnrollment(c), Cardinality(SeatHolders(enrollment', c)) < capacity[c]
  PROVE  \A s \in Student : waitlist'[c][s] # "ACTIVE"
<1> DEFINE Loses == ~(SeatHolders(enrollment, c) \subseteq SeatHolders(enrollment', c))
<1>1. enrollment' # enrollment
  OBVIOUS
<1>2. ASSUME NEW d \in Section, NEW s \in Student,
             DropEnrollment(s, d) \/ RemoveSeated(s, d)
      PROVE  \A t \in Student : waitlist'[c][t] # "ACTIVE"
  <2> DEFINE enr == WithoutRow(enrollment, d, s)
  <2>1. HandleSeatAvailability(d, enr)
    BY <1>2 DEF DropEnrollment, RemoveSeated
  <2>2. /\ enr \in Tables
        /\ \A e \in Section \ {d} : enr[e] = enrollment[e]
        /\ \A t \in Student :
             /\ enr[d][t] \in SeatConsuming => enrollment[d][t] = enr[d][t]
             /\ enrollment[d][t] = NoRow => enr[d][t] = NoRow
    BY WithoutRowLoses
  <2> HIDE DEF enr
  <2>3. c = d
    <3>1. GivesSeats(d, enr, Promoted(enr, d)) /\ Promoted(enr, d) \in SUBSET Student
      BY <2>1, <2>2, HandOverGives DEF Promoted, Considered, Active
    <3>2. \A e \in Section \ {d} : enrollment'[e] = enrollment[e]
      BY <2>2, <3>1, SeatsAfter
    <3> QED BY <3>2 DEF SeatHolders
  <2> QED BY <2>1, <2>2, <2>3, HandOverLeavesNone
<1>3. ASSUME NEW d \in Section, NEW s \in Student, NEW next \in Targets[d],
             UpdateReleasingSeat(s, d, next)
      PROVE  \A t \in Student : waitlist'[c][t] # "ACTIVE"
  <2> DEFINE enr == [enrollment EXCEPT ![d][s] = next]
  <2>1. HandleSeatAvailability(d, enr)
    BY <1>3 DEF UpdateReleasingSeat
  <2>2. next \in EnrollmentStatus \ SeatConsuming /\ enrollment[d][s] \in SeatConsuming
    BY <1>3 DEF UpdateReleasingSeat, ValidTransitions, EnrollmentStatus, SeatConsuming
  <2>3. enr \in Tables /\ \A e \in Section \ {d} : enr[e] = enrollment[e]
    BY <2>2 DEF Structural, TypeOK, Tables
  <2>4. \A t \in Student :
          /\ enr[d][t] \in SeatConsuming => enrollment[d][t] = enr[d][t]
          /\ enrollment[d][t] = NoRow => enr[d][t] = NoRow
    BY <2>2, NotARow DEF Structural, TypeOK
  <2> HIDE DEF enr
  <2>5. c = d
    <3>1. GivesSeats(d, enr, Promoted(enr, d)) /\ Promoted(enr, d) \in SUBSET Student
      BY <2>1, <2>3, <2>4, HandOverGives DEF Promoted, Considered, Active
    <3>2. \A e \in Section \ {d} : enrollment'[e] = enrollment[e]
      BY <2>3, <3>1, SeatsAfter
    <3> QED BY <3>2 DEF SeatHolders
  <2> QED BY <2>1, <2>3, <2>4, <2>5, HandOverLeavesNone
<1>4. ASSUME NEW d \in Section, NEW s \in Student,
             EnrollSeated(s, d) \/ PromoteWaitlistEntry(s, d)
      PROVE  FALSE
  <2>1. enrollment' = [enrollment EXCEPT ![d][s] = "PENDING"]
    BY <1>4 DEF EnrollSeated, PromoteWaitlistEntry, Commit
  <2> QED BY <2>1 DEF SeatHolders, SeatConsuming, Structural, TypeOK
<1>5. ASSUME NEW d \in Section, NEW s \in Student,
             RemoveUnseated(s, d) \/ \E next \in Targets[d] : UpdateKeepingSeat(s, d, next)
      PROVE  FALSE
  <2>1. SeatsOf' = SeatsOf
    BY <1>5, StatusChangeStutters
  <2> QED BY <2>1 DEF SeatsOf
<1>6. ASSUME NEW d \in Section, NEW s \in Student, StudentOperation(s, d)
      PROVE  \A t \in Student : waitlist'[c][t] # "ACTIVE"
  BY <1>1, <1>2, <1>4, <1>6 DEF StudentOperation, EnrollWaitlisted, RemoveWaitlistEntry
<1>7. ASSUME NEW d \in Section, NEW s \in Student, AdminOperation(s, d)
      PROVE  \A t \in Student : waitlist'[c][t] # "ACTIVE"
  BY <1>2, <1>3, <1>4, <1>5, <1>7 DEF AdminOperation
<1> QED BY <1>1, <1>6, <1>7 DEF Next, Tick, UpdateSection, vars

(* A step that frees a seat of an open section leaves none that someone who  *)
(* waits could take: either the section is full again, or the loop of        *)
(* handleSeatAvailability has come to the end of the queue.                  *)
THEOREM NoSeatLeftIdle == Spec => ReleaseLeavesNoIdleSeat
<1>1. ASSUME Structural, QueueGapless, [Next]_vars
      PROVE  [\A c \in Section :
               /\ ~(SeatHolders(enrollment, c) \subseteq SeatHolders(enrollment', c))
               /\ OpenForEnrollment(c)
               /\ Cardinality(SeatHolders(enrollment', c)) < capacity[c]
               => \A s \in Student : waitlist'[c][s] = "ACTIVE" => ~Claimable(enrollment', c, s)]_vars
  BY <1>1, StepLeavesNoIdleSeat
<1> QED BY AlwaysStructural, WaitlistGapless, <1>1, PTL DEF Spec, ReleaseLeavesNoIdleSeat

-----------------------------------------------------------------------------
(* Messages. *)

ToldOf(template, s, c, n) == Message(Notice(template, s, c), n) \in Started

PromotedRows(c, s) ==
  {n \in 1..enrollmentsMade[c][s] : ToldOf("enrollment.promoted", s, c, n)}

(* RowsAccountedFor of one student and section, with what keeps it: a row   *)
(* not made yet has no message, and who still waits has queued once more    *)
(* than they were promoted.                                                 *)
Account(c, s) ==
  /\ \A n \in 1..enrollmentsMade[c][s] :
       ToldOf("enrollment.confirmed", s, c, n) <=> ~ToldOf("enrollment.promoted", s, c, n)
  /\ \A n \in 1..entriesMade[c][s] : ToldOf("enrollment.waitlisted", s, c, n)
  /\ Cardinality(PromotedRows(c, s)) <= entriesMade[c][s]
  /\ waitlist[c][s] = "ACTIVE" => Cardinality(PromotedRows(c, s)) < entriesMade[c][s]
  /\ waitlist[c][s] = "CONVERTED" => PromotedRows(c, s) # {}
  /\ enrollment[c][s] \notin {NoRow, "DROPPED"} =>
       ~ToldOf("enrollment.dropped", s, c, enrollmentsMade[c][s])
  /\ \A n : \A t \in {"enrollment.confirmed", "enrollment.promoted", "enrollment.dropped"} :
       ToldOf(t, s, c, n) => n \in Int /\ n <= enrollmentsMade[c][s]
  /\ \A n : ToldOf("enrollment.waitlisted", s, c, n) => n \in Int /\ n <= entriesMade[c][s]

Counts == [Section -> [Student -> Nat]]

NoticeInv ==
  /\ enrollmentsMade \in Counts /\ entriesMade \in Counts
  /\ ToldOnce
  /\ \A c \in Section, s \in Student : Account(c, s)

LEMMA NoticeSteps == NoticeSpec => Spec
<1>1. NoticeInit => Init
  BY DEF NoticeInit
<1>2. [NoticeNext]_noticeVars => [Next]_vars
  BY DEF NoticeNext, noticeVars, Operation, Publish, Skip, PublishFails, Crash, GiveUp
<1> QED BY <1>1, <1>2, PTL DEF NoticeSpec, Spec

LEMMA MessagesDiffer ==
  \A t, u, s, r, c, d, m, n :
    Message(Notice(t, s, c), m) = Message(Notice(u, r, d), n)
      <=> t = u /\ s = r /\ c = d /\ m = n
BY NoticesDiffer DEF Message

LEMMA RowsCounted ==
  ASSUME enrollmentsMade \in Counts, entriesMade \in Counts, Operation
  PROVE  /\ enrollmentsMade' \in Counts /\ entriesMade' \in Counts
         /\ \A c \in Section, s \in Student :
              /\ enrollmentsMade'[c][s] =
                   IF enrollment[c][s] = NoRow /\ enrollment'[c][s] # NoRow
                   THEN enrollmentsMade[c][s] + 1 ELSE enrollmentsMade[c][s]
              /\ entriesMade'[c][s] =
                   IF waitlist[c][s] = NoRow /\ waitlist'[c][s] # NoRow
                   THEN entriesMade[c][s] + 1 ELSE entriesMade[c][s]
BY DEF Operation, Counted, Counts

(* What an operation adds to the messages started about s and c. *)
LEMMA StartedAfter ==
  ASSUME Operation, NEW c \in Section, NEW s \in Student
  PROVE  /\ \A n : \A t \in {"enrollment.confirmed", "enrollment.promoted", "enrollment.dropped"} :
              ToldOf(t, s, c, n)' <=>
                ToldOf(t, s, c, n) \/ (Notice(t, s, c) \in notices' /\ n = enrollmentsMade'[c][s])
         /\ \A n : ToldOf("enrollment.waitlisted", s, c, n)' <=>
              \/ ToldOf("enrollment.waitlisted", s, c, n)
              \/ Notice("enrollment.waitlisted", s, c) \in notices' /\ n = entriesMade'[c][s]
<1>1. Started' = Started \cup {MessageOf(m) : m \in notices'}
  BY DEF Operation, Started
<1>2. ASSUME NEW t, NEW n
      PROVE  Message(Notice(t, s, c), n) \in {MessageOf(m) : m \in notices'} <=>
               /\ Notice(t, s, c) \in notices'
               /\ n = IF t = "enrollment.waitlisted" THEN entriesMade'[c][s]
                                                    ELSE enrollmentsMade'[c][s]
  <2>1. ASSUME NEW m
        PROVE  MessageOf(m) = Message(Notice(t, s, c), n) <=>
                 /\ m = Notice(t, s, c)
                 /\ n = IF t = "enrollment.waitlisted" THEN entriesMade'[c][s]
                                                      ELSE enrollmentsMade'[c][s]
    BY DEF MessageOf, Message, Notice
  <2> QED BY <2>1
<1> QED BY <1>1, <1>2 DEF ToldOf

LEMMA OperationKeepsAccount ==
  ASSUME enrollmentsMade \in Counts, entriesMade \in Counts, Operation,
         NEW c \in Section, NEW s \in Student, Account(c, s), NoticesFit(c, s)
  PROVE  Account(c, s)'
<1> DEFINE e == enrollmentsMade[c][s]
           w == entriesMade[c][s]
           born == enrollment[c][s] = NoRow /\ enrollment'[c][s] # NoRow
           queued == waitlist[c][s] = NoRow /\ waitlist'[c][s] # NoRow
           waited == waitlist[c][s] = "ACTIVE"
           P == PromotedRows(c, s)
<1>1. e \in Nat /\ w \in Nat /\ P \in SUBSET (1..e)
  BY DEF Counts, PromotedRows
<1>2. /\ enrollmentsMade'[c][s] = IF born THEN e + 1 ELSE e
      /\ entriesMade'[c][s] = IF queued THEN w + 1 ELSE w
  BY RowsCounted
<1>3. /\ Notice("enrollment.confirmed", s, c) \in notices' <=> born /\ ~waited
      /\ Notice("enrollment.promoted", s, c) \in notices' <=> born /\ waited
      /\ Notice("enrollment.waitlisted", s, c) \in notices' <=> queued
      /\ Notice("enrollment.dropped", s, c) \in notices' => enrollment'[c][s] \in {NoRow, "DROPPED"}
  BY DEF NoticesFit
<1>4. /\ \A n : ToldOf("enrollment.confirmed", s, c, n)' <=>
           ToldOf("enrollment.confirmed", s, c, n) \/ (born /\ ~waited /\ n = e + 1)
      /\ \A n : ToldOf("enrollment.promoted", s, c, n)' <=>
           ToldOf("enrollment.promoted", s, c, n) \/ (born /\ waited /\ n = e + 1)
      /\ \A n : ToldOf("enrollment.waitlisted", s, c, n)' <=>
           ToldOf("enrollment.waitlisted", s, c, n) \/ (queued /\ n = w + 1)
      /\ \A n : ToldOf("enrollment.dropped", s, c, n)' <=>
           \/ ToldOf("enrollment.dropped", s, c, n)
           \/ Notice("enrollment.dropped", s, c) \in notices' /\ n = enrollmentsMade'[c][s]
  BY <1>2, <1>3, StartedAfter
<1>5. /\ \A n : ToldOf("enrollment.confirmed", s, c, n) => n \in Int /\ n <= e
      /\ \A n : ToldOf("enrollment.promoted", s, c, n) => n \in Int /\ n <= e
      /\ \A n : ToldOf("enrollment.dropped", s, c, n) => n \in Int /\ n <= e
      /\ \A n : ToldOf("enrollment.waitlisted", s, c, n) => n \in Int /\ n <= w
  BY DEF Account
<1>6. PromotedRows(c, s)' = IF born /\ waited THEN P \cup {e + 1} ELSE P
  <2>1. PromotedRows(c, s)' =
          {n \in 1..enrollmentsMade'[c][s] : ToldOf("enrollment.promoted", s, c, n)'}
    BY DEF PromotedRows, ToldOf
  <2>2. P = {n \in 1..e : ToldOf("enrollment.promoted", s, c, n)}
    BY DEF PromotedRows
  <2> HIDE DEF P
  <2> QED BY <1>1, <1>2, <1>4, <1>5, <2>1, <2>2
<1>7. IsFiniteSet(P) /\ Cardinality(P) \in Nat
  <2> HIDE DEF P, e
  <2>1. 1 \in Int /\ e \in Int
    BY <1>1
  <2>2. IsFiniteSet(1..e)
    BY <2>1, FS_Interval
  <2> QED BY <1>1, <2>2, FS_Subset, FS_CardinalityType
<1>8. Cardinality(PromotedRows(c, s)') =
        IF born /\ waited THEN Cardinality(P) + 1 ELSE Cardinality(P)
  <2>1. e + 1 \notin P
    BY <1>1
  <2> HIDE DEF P
  <2> QED BY <1>6, <1>7, <2>1, FS_AddElement
<1>9. /\ \A n \in 1..e :
           ToldOf("enrollment.confirmed", s, c, n) <=> ~ToldOf("enrollment.promoted", s, c, n)
      /\ \A n \in 1..w : ToldOf("enrollment.waitlisted", s, c, n)
      /\ Cardinality(P) <= w
      /\ waited => Cardinality(P) < w
      /\ waitlist[c][s] = "CONVERTED" => P # {}
      /\ enrollment[c][s] \notin {NoRow, "DROPPED"} => ~ToldOf("enrollment.dropped", s, c, e)
  BY DEF Account
<1>10. waited => ~queued
  BY RowsAreNamed
<1>11. /\ enrollment[c][s] \in {NoRow, "DROPPED"} =>
            born \/ enrollment'[c][s] \in {NoRow, "DROPPED"}
       /\ waitlist'[c][s] = "ACTIVE" => (waited /\ ~born) \/ queued
       /\ waitlist'[c][s] = "CONVERTED" => waitlist[c][s] = "CONVERTED" \/ (born /\ waited)
  BY DEF NoticesFit
<1> HIDE DEF e, w, born, queued, waited, P
<1>12. \A n \in 1..enrollmentsMade'[c][s] :
         ToldOf("enrollment.confirmed", s, c, n)' <=> ~ToldOf("enrollment.promoted", s, c, n)'
  BY <1>1, <1>2, <1>4, <1>5, <1>9
<1>13. \A n \in 1..entriesMade'[c][s] : ToldOf("enrollment.waitlisted", s, c, n)'
  BY <1>1, <1>2, <1>4, <1>9
<1>14. /\ Cardinality(PromotedRows(c, s)') <= entriesMade'[c][s]
       /\ waitlist'[c][s] = "ACTIVE" => Cardinality(PromotedRows(c, s)') < entriesMade'[c][s]
  BY <1>1, <1>2, <1>7, <1>8, <1>9, <1>10, <1>11
<1>15. waitlist'[c][s] = "CONVERTED" => PromotedRows(c, s)' # {}
  BY <1>6, <1>9, <1>11
<1>16. enrollment'[c][s] \notin {NoRow, "DROPPED"} =>
         ~ToldOf("enrollment.dropped", s, c, enrollmentsMade[c][s])'
  <2>1. ASSUME NEW n, n = enrollmentsMade'[c][s], ToldOf("enrollment.dropped", s, c, n)',
               enrollment'[c][s] \notin {NoRow, "DROPPED"}
        PROVE  FALSE
    BY <1>1, <1>2, <1>3, <1>4, <1>5, <1>9, <1>11, <2>1 DEF born
  <2> QED BY <2>1 DEF ToldOf
<1>17. /\ \A n : ToldOf("enrollment.confirmed", s, c, n)' => n \in Int /\ n <= enrollmentsMade'[c][s]
       /\ \A n : ToldOf("enrollment.promoted", s, c, n)' => n \in Int /\ n <= enrollmentsMade'[c][s]
       /\ \A n : ToldOf("enrollment.waitlisted", s, c, n)' => n \in Int /\ n <= entriesMade'[c][s]
  BY <1>1, <1>2, <1>4, <1>5
<1>18. \A n : ToldOf("enrollment.dropped", s, c, n)' => n \in Int /\ n <= enrollmentsMade'[c][s]
  BY <1>1, <1>2, <1>4, <1>5
<1> QED BY <1>12, <1>13, <1>14, <1>15, <1>16, <1>17, <1>18 DEF Account

(* The messages a step starts have not been started before. *)
LEMMA StartedAreNew ==
  ASSUME enrollmentsMade \in Counts, entriesMade \in Counts, Operation,
         TypeOK', \A c \in Section, s \in Student : Account(c, s) /\ NoticesFit(c, s)
  PROVE  {MessageOf(m) : m \in notices'} \cap Started = {}
<1> SUFFICES ASSUME NEW m \in notices', MessageOf(m) \in Started
             PROVE  FALSE
  OBVIOUS
<1>1. PICK t \in {"enrollment.confirmed", "enrollment.waitlisted",
                  "enrollment.promoted", "enrollment.dropped"},
           s \in Student, c \in Section : m = Notice(t, s, c)
  BY DEF TypeOK, Notice
<1> DEFINE e == enrollmentsMade[c][s]
           w == entriesMade[c][s]
<1>2. Account(c, s) /\ NoticesFit(c, s) /\ e \in Nat /\ w \in Nat
  BY DEF Counts
<1>3. /\ enrollmentsMade'[c][s] =
           IF enrollment[c][s] = NoRow /\ enrollment'[c][s] # NoRow THEN e + 1 ELSE e
      /\ entriesMade'[c][s] =
           IF waitlist[c][s] = NoRow /\ waitlist'[c][s] # NoRow THEN w + 1 ELSE w
  BY RowsCounted
<1>4. /\ t = "enrollment.waitlisted" => ToldOf(t, s, c, entriesMade'[c][s])
      /\ t # "enrollment.waitlisted" => ToldOf(t, s, c, enrollmentsMade'[c][s])
  BY <1>1 DEF MessageOf, Notice, ToldOf
<1>5. CASE t \in {"enrollment.confirmed", "enrollment.promoted"}
  <2>1. enrollmentsMade'[c][s] = e + 1
    BY <1>1, <1>2, <1>3, <1>5 DEF NoticesFit
  <2>2. \A n : ToldOf(t, s, c, n) => n <= e
    BY <1>2, <1>5 DEF Account
  <2> HIDE DEF e
  <2> QED BY <1>2, <1>4, <1>5, <2>1, <2>2
<1>6. CASE t = "enrollment.waitlisted"
  <2>1. entriesMade'[c][s] = w + 1
    BY <1>1, <1>2, <1>3, <1>6 DEF NoticesFit
  <2>2. \A n : ToldOf(t, s, c, n) => n <= w
    BY <1>2, <1>6 DEF Account
  <2> HIDE DEF w
  <2> QED BY <1>2, <1>4, <1>6, <2>1, <2>2
<1>7. CASE t = "enrollment.dropped"
  <2>1. enrollment[c][s] \notin {NoRow, "DROPPED"}
    BY <1>1, <1>2, <1>7, NotARow DEF NoticesFit, SeatConsuming
  <2>2. enrollmentsMade'[c][s] = e /\ ~ToldOf(t, s, c, e)
    BY <1>2, <1>3, <1>7, <2>1 DEF Account
  <2> QED BY <1>4, <1>7, <2>2
<1> QED BY <1>5, <1>6, <1>7

(* Publishing, giving up and a crash move messages and start none. *)
LEMMA FatesKeepAccounts ==
  ASSUME Started' = Started, UNCHANGED <<enrollment, waitlist, enrollmentsMade, entriesMade>>,
         \A c \in Section, s \in Student : Account(c, s)
  PROVE  \A c \in Section, s \in Student : Account(c, s)'
BY DEF Account, PromotedRows, ToldOf

LEMMA NoticeInductive ==
  ASSUME Structural, NeverQueuedAndEnrolled, TypeOK', NoticeInv, [NoticeNext]_noticeVars
  PROVE  NoticeInv'
<1>1. CASE Operation
  <2>1. \A c \in Section, s \in Student : Account(c, s) /\ NoticesFit(c, s)
    BY <1>1, StepTells DEF NoticeInv, Operation
  <2>2. enrollmentsMade \in Counts /\ entriesMade \in Counts
    BY DEF NoticeInv
  <2>3. \A c \in Section, s \in Student : Account(c, s)'
    BY <1>1, <2>1, <2>2, OperationKeepsAccount
  <2>4. {MessageOf(m) : m \in notices'} \cap Started = {}
    BY <1>1, <2>1, <2>2, StartedAreNew
  <2>5. ToldOnce'
    BY <1>1, <2>4 DEF NoticeInv, ToldOnce, Operation, Started
  <2> QED BY <1>1, <2>2, <2>3, <2>5, RowsCounted DEF NoticeInv
<1>2. ASSUME UNCHANGED <<vars, enrollmentsMade, entriesMade, repeated>>,
             Started' = Started, publishing' \cap (published' \cup unpublished') = {}
      PROVE  NoticeInv'
  <2>1. UNCHANGED <<enrollment, waitlist, enrollmentsMade, entriesMade>>
    BY <1>2 DEF vars
  <2>2. \A c \in Section, s \in Student : Account(c, s)'
    BY <1>2, <2>1, FatesKeepAccounts DEF NoticeInv
  <2> QED BY <1>2, <2>2 DEF NoticeInv, ToldOnce
<1>3. ASSUME NEW m \in publishing, Publish(m) \/ Skip(m) \/ PublishFails(m)
      PROVE  NoticeInv'
  <2>1. Started' = Started /\ publishing' \cap (published' \cup unpublished') = {}
    BY <1>3 DEF NoticeInv, ToldOnce, Publish, Skip, PublishFails, GiveUp, Started
  <2> QED BY <1>2, <1>3, <2>1 DEF Publish, Skip, PublishFails, GiveUp
<1>4. CASE Crash
  <2>1. Started' = Started /\ publishing' \cap (published' \cup unpublished') = {}
    BY <1>4 DEF NoticeInv, ToldOnce, Crash, GiveUp, Started
  <2> QED BY <1>2, <1>4, <2>1 DEF Crash, GiveUp
<1>5. CASE UNCHANGED noticeVars
  <2>1. Started' = Started /\ publishing' \cap (published' \cup unpublished') = {}
    BY <1>5 DEF NoticeInv, ToldOnce, noticeVars, fates, Started
  <2> QED BY <1>2, <1>5, <2>1 DEF noticeVars, fates
<1> QED BY <1>1, <1>3, <1>4, <1>5 DEF NoticeNext

LEMMA NoticeInvHolds == NoticeSpec => []NoticeInv
<1>1. NoticeInit => NoticeInv
  <2>1. ASSUME NoticeInit
        PROVE  NoticeInv
    <3>1. /\ Started = {} /\ ToldOnce
          /\ enrollmentsMade = [c \in Section |-> [s \in Student |-> 0]]
          /\ entriesMade = [c \in Section |-> [s \in Student |-> 0]]
      BY <2>1 DEF NoticeInit, Started, ToldOnce
    <3>2. \A c \in Section, s \in Student :
            waitlist[c][s] = NoRow /\ enrollment[c][s] = NoRow /\ PromotedRows(c, s) = {}
      BY <2>1, <3>1 DEF NoticeInit, Init, PromotedRows
    <3>3. Cardinality({}) = 0
      BY FS_EmptySet
    <3>4. \A t, s, c, n : ~ToldOf(t, s, c, n)
      BY <3>1 DEF ToldOf
    <3>5. ASSUME NEW c \in Section, NEW s \in Student
          PROVE  Account(c, s)
      <4>1. enrollmentsMade[c][s] = 0 /\ entriesMade[c][s] = 0 /\ 1..0 = {}
        BY <3>1
      <4>2. /\ Cardinality(PromotedRows(c, s)) = 0
            /\ waitlist[c][s] \notin {"ACTIVE", "CONVERTED"}
        BY <3>2, <3>3, RowsAreNamed
      <4> QED BY <3>4, <4>1, <4>2 DEF Account
    <3> QED BY <3>1, <3>5 DEF NoticeInv, Counts
  <2> QED BY <2>1
<1>2. Structural /\ NeverQueuedAndEnrolled /\ TypeOK' /\ NoticeInv /\ [NoticeNext]_noticeVars
        => NoticeInv'
  BY NoticeInductive
<1> QED BY NoticeSteps, AlwaysStructural, QueuedAreNotEnrolled, TypeCorrect, <1>1, <1>2, PTL
     DEF NoticeSpec

(* No message is ever started twice, for any students, sections and number  *)
(* of rows: the id of a row that was dropped or removed is not used again,  *)
(* and no row is told about a second time, whatever fails in between.       *)
THEOREM NobodyToldTwice == NoticeSpec => []ToldOnce
<1>1. NoticeInv => ToldOnce
  BY DEF NoticeInv
<1> QED BY <1>1, NoticeInvHolds, PTL

(* Each enrollment row and each place in a queue there has ever been has its *)
(* message, published, on its way or given up: what the commit has decided   *)
(* is what publishEnrollmentNotification is called with.                     *)
THEOREM RowsAlwaysAccountedFor == NoticeSpec => []RowsAccountedFor
<1>1. NoticeInv => RowsAccountedFor
  BY DEF NoticeInv, Account, RowsAccountedFor, PromotedRows, ToldOf
<1> QED BY <1>1, NoticeInvHolds, PTL
=============================================================================
