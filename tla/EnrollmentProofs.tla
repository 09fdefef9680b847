-------------------------- MODULE EnrollmentProofs --------------------------
(***************************************************************************)
(* Theorems about Enrollment, for every set of students and sections, any  *)
(* catalog and any dates.  First the structure: types, and a queue without *)
(* gaps.  Then what a step may do with seats, and what follows from it: no *)
(* section is oversold, no seat is given without the prerequisites or      *)
(* against the timetable, the counter stays in sync, nobody waits for a    *)
(* section they are enrolled in, and the messages match what was done.     *)
(***************************************************************************)
EXTENDS Enrollment, DataProofs

Tables == [Section -> [Student -> EnrollmentStatus \cup {NoRow}]]

WaitlistRows == [Student -> WaitlistStatus \cup {NoRow}]

(* The positions of the ACTIVE rows of one section are 1..n. *)
GaplessOn(active, pos) == {pos[s] : s \in active} = 1..Cardinality(active)

(* No two of those who wait for a section have the same position.  Weaker  *)
(* than QueueGapless: it survives writers that delete rows and renumber    *)
(* nobody, so that what is proved from it holds beside them, too.          *)
Spaced ==
  \A c \in Section : \A s, t \in Active(c) : position[c][s] = position[c][t] => s = t

Structural == TypeOK /\ Spaced

-----------------------------------------------------------------------------
(* Counting students: every set of them is finite. *)

LEMMA CountIsNat ==
  ASSUME NEW S \in SUBSET Student
  PROVE  IsFiniteSet(S) /\ Cardinality(S) \in Nat
BY StudentAssumption, FS_Subset, FS_CardinalityType

(* A larger set of students counts more. *)
LEMMA StrictlyMore ==
  ASSUME NEW T \in SUBSET Student, NEW S \in SUBSET T, S # T
  PROVE  Cardinality(S) < Cardinality(T)
<1>1. IsFiniteSet(T) /\ Cardinality(T) \in Nat /\ Cardinality(S) \in Nat
  BY CountIsNat
<1>2. Cardinality(S) <= Cardinality(T) /\ Cardinality(S) # Cardinality(T)
  BY <1>1, FS_Subset
<1> QED BY <1>1, <1>2

(* Gapless positions are pairwise different. *)
LEMMA GaplessInjective ==
  ASSUME NEW active \in SUBSET Student, NEW pos \in [Student -> Nat],
         GaplessOn(active, pos)
  PROVE  \A s, t \in active : pos[s] = pos[t] => s = t
<1> DEFINE n == Cardinality(active)
           f == [s \in active |-> pos[s]]
<1>1. IsFiniteSet(active) /\ n \in Nat
  BY CountIsNat
<1>2. f \in Surjection(active, 1..n)
  BY DEF GaplessOn, Surjection
<1>3. Cardinality(1..n) = n
  BY <1>1, FS_Interval
<1>4. f \in Injection(active, 1..n)
  BY <1>1, <1>2, <1>3, FS_Surjection
<1> QED BY <1>4 DEF Injection, IsInjective

(* Renumbering any ACTIVE rows whose positions differ yields 1..n. *)
LEMMA ResequencedGapless ==
  ASSUME NEW active \in SUBSET Student, NEW pos \in [Student -> Nat],
         \A s, t \in active : pos[s] = pos[t] => s = t
  PROVE  /\ Resequenced(active, pos) \in [Student -> Nat]
         /\ GaplessOn(active, Resequenced(active, pos))
<1> DEFINE n == Cardinality(active)
           upto(s) == {t \in active : pos[t] <= pos[s]}
           rank == [s \in active |-> Cardinality(upto(s))]
<1>1. IsFiniteSet(active) /\ n \in Nat
  BY CountIsNat
<1>2. ASSUME NEW s \in active
      PROVE  Cardinality(upto(s)) \in 1..n
  <2>1. upto(s) \in SUBSET active /\ s \in upto(s)
    OBVIOUS
  <2>2. Cardinality(upto(s)) \in Nat /\ Cardinality(upto(s)) <= n
    BY <1>1, <2>1, FS_Subset, CountIsNat
  <2>3. Cardinality(upto(s)) # 0
    BY <2>1, CountIsNat, FS_EmptySet
  <2> QED BY <1>1, <2>2, <2>3
<1>3. ASSUME NEW s \in active, NEW t \in active, pos[s] < pos[t]
      PROVE  Cardinality(upto(s)) < Cardinality(upto(t))
  <2>1. upto(s) \in SUBSET upto(t) /\ t \in upto(t) /\ t \notin upto(s)
    BY <1>3
  <2>2. upto(t) \in SUBSET Student
    OBVIOUS
  <2> QED BY <2>1, <2>2, StrictlyMore
<1>4. rank \in Injection(active, 1..n)
  <2>1. rank \in [active -> 1..n]
    BY <1>2
  <2>2. ASSUME NEW s \in active, NEW t \in active, rank[s] = rank[t]
        PROVE  s = t
    <3>1. ~(pos[s] < pos[t]) /\ ~(pos[t] < pos[s])
      BY <1>1, <1>2, <1>3, <2>2
    <3> QED BY <3>1
  <2> QED BY <2>1, <2>2 DEF Injection, IsInjective
<1>5. Cardinality(1..n) = n /\ IsFiniteSet(1..n)
  BY <1>1, FS_Interval
<1>6. rank \in Surjection(active, 1..n)
  BY <1>4, <1>5, FS_Injection
<1>7. {rank[s] : s \in active} = 1..n
  <2>1. rank \in [active -> 1..n] /\ \A k \in 1..n : \E s \in active : rank[s] = k
    BY <1>6 DEF Surjection
  <2> HIDE DEF rank
  <2> QED BY <2>1
<1>8. \A s \in active : Resequenced(active, pos)[s] = rank[s]
  BY DEF Resequenced
<1>9. Resequenced(active, pos) \in [Student -> Nat]
  BY <1>1, <1>2 DEF Resequenced
<1> QED BY <1>7, <1>8, <1>9 DEF GaplessOn

-----------------------------------------------------------------------------
(* The waitlist of a section. *)

LEMMA ActiveFacts ==
  ASSUME Structural, NEW c \in Section
  PROVE  /\ Active(c) \in SUBSET Student
         /\ Cardinality(Active(c)) \in Nat
         /\ position[c] \in [Student -> Nat]
         /\ QueueGapless => GaplessOn(Active(c), position[c])
         /\ \A s, t \in Active(c) : position[c][s] = position[c][t] => s = t
<1>1. Active(c) \in SUBSET Student /\ position[c] \in [Student -> Nat]
  BY DEF Active, Structural, TypeOK
<1>2. QueueGapless => GaplessOn(Active(c), position[c])
  BY DEF QueueGapless, GaplessOn
<1> QED BY <1>1, <1>2, CountIsNat DEF Structural, Spaced

(* Who queues last stands behind everybody. *)
LEMMA LastPositionIsLast ==
  ASSUME TypeOK, NEW c \in Section
  PROVE  /\ LastPosition(c) \in Nat
         /\ \A s \in Active(c) : position[c][s] <= LastPosition(c)
<1> DEFINE P == {position[c][s] : s \in Active(c)}
<1>1. CASE Active(c) = {}
  BY <1>1 DEF LastPosition
<1>2. CASE Active(c) # {}
  <2>1. Active(c) \in SUBSET Student /\ position[c] \in [Student -> Nat]
    BY DEF Active, TypeOK
  <2>2. P \subseteq Nat /\ P # {}
    BY <1>2, <2>1
  <2>3. IsFiniteSet(P)
    <3> DEFINE f == [s \in Active(c) |-> position[c][s]]
    <3>1. f \in Surjection(Active(c), P)
      BY DEF Surjection
    <3> QED BY <2>1, <3>1, CountIsNat, FS_Surjection
  <2>4. Max(P) \in P /\ \A k \in P : Max(P) >= k
    <3> HIDE DEF P
    <3> QED BY <2>2, <2>3, GreatestOfFinite
  <2>5. LastPosition(c) = Max(P)
    BY <1>2 DEF LastPosition
  <2>6. LastPosition(c) \in Nat /\ \A k \in P : k \in Nat /\ LastPosition(c) >= k
    <3> HIDE DEF P
    <3> QED BY <2>2, <2>4, <2>5
  <2> QED BY <2>6
<1> QED BY <1>1, <1>2

LEMMA LastPositionIsLength ==
  ASSUME Structural, QueueGapless, NEW c \in Section
  PROVE  LastPosition(c) = Cardinality(Active(c))
<1> DEFINE n == Cardinality(Active(c))
           P == {position[c][s] : s \in Active(c)}
<1>1. n \in Nat /\ P = 1..n /\ Active(c) \in SUBSET Student
  BY ActiveFacts DEF GaplessOn
<1>2. CASE Active(c) = {}
  BY <1>2, FS_EmptySet DEF LastPosition
<1>3. CASE Active(c) # {}
  <2>1. n # 0
    BY <1>1, <1>3, CountIsNat, FS_EmptySet
  <2>2. Max(1..n) = n
    BY <1>1, <2>1 DEF Max
  <2> QED BY <1>1, <1>3, <2>2 DEF LastPosition
<1> QED BY <1>2, <1>3

-----------------------------------------------------------------------------
(* What Commit and the hand-over of a seat do to types and positions. *)

NoticeType ==
  [template : {"enrollment.confirmed", "enrollment.waitlisted",
               "enrollment.promoted", "enrollment.dropped"},
   student : Student, section : Section]

RowsOK ==
  /\ enrollment \in Tables
  /\ waitlist \in [Section -> WaitlistRows]
  /\ position \in [Section -> [Student -> Nat]]
  /\ enrolledCount \in [Section -> Nat]

(* Nobody ties for a place, and if there were no gaps there still are none. *)
QueuesKept == Spaced' /\ (QueueGapless => QueueGapless')

(* Commit keeps rows well typed, positions apart, and gapless if they were, *)
(* when it makes nobody ACTIVE who was not.                                 *)
LEMMA CommitKeepsRows ==
  ASSUME Structural, NEW c \in Section, NEW enr \in Tables, NEW wl \in WaitlistRows,
         NEW count \in Nat,
         {s \in Student : wl[s] = "ACTIVE"} \subseteq Active(c),
         Commit(c, enr, wl, count)
  PROVE  RowsOK' /\ QueuesKept
<1> DEFINE active == {s \in Student : wl[s] = "ACTIVE"}
           renumbered == Resequenced(active, position[c])
<1>1. /\ waitlist \in [Section -> WaitlistRows]
      /\ position \in [Section -> [Student -> Nat]]
      /\ enrolledCount \in [Section -> Nat]
  BY DEF Structural, TypeOK, WaitlistRows
<1>2. \A s, t \in active : position[c][s] = position[c][t] => s = t
  BY ActiveFacts DEF Structural
<1>3. renumbered \in [Student -> Nat] /\ GaplessOn(active, renumbered)
  <2>1. active \in SUBSET Student /\ position[c] \in [Student -> Nat]
    BY <1>1
  <2> QED BY <1>2, <2>1, ResequencedGapless
<1>4. /\ enrollment' = enr
      /\ waitlist' = [waitlist EXCEPT ![c] = wl]
      /\ position' = [position EXCEPT ![c] = renumbered]
      /\ enrolledCount' = [enrolledCount EXCEPT ![c] = count]
  BY DEF Commit
<1> HIDE DEF renumbered
<1>5. RowsOK'
  BY <1>1, <1>3, <1>4 DEF RowsOK
<1>6. ASSUME NEW d \in Section, d # c
      PROVE  Active(d)' = Active(d) /\ position'[d] = position[d]
  BY <1>1, <1>4, <1>6 DEF Active
<1>7. Active(c)' = active /\ position'[c] = renumbered
  BY <1>1, <1>4 DEF Active
<1>8. Spaced'
  <2>1. \A s, t \in active : renumbered[s] = renumbered[t] => s = t
    <3>1. active \in SUBSET Student
      OBVIOUS
    <3> QED BY <1>3, <3>1, GaplessInjective
  <2> SUFFICES ASSUME NEW d \in Section
               PROVE  \A s, t \in Active(d)' : position'[d][s] = position'[d][t] => s = t
    BY DEF Spaced
  <2>2. CASE d = c
    BY <1>7, <2>1, <2>2
  <2>3. CASE d # c
    BY <1>6, <2>3 DEF Structural, Spaced
  <2> QED BY <2>2, <2>3
<1>9. ASSUME QueueGapless PROVE QueueGapless'
  <2> SUFFICES ASSUME NEW d \in Section
               PROVE  {position'[d][s] : s \in Active(d)'} = 1..Cardinality(Active(d)')
    BY DEF QueueGapless
  <2>1. CASE d = c
    BY <1>3, <1>7, <2>1 DEF GaplessOn
  <2>2. CASE d # c
    BY <1>6, <1>9, <2>2 DEF QueueGapless
  <2> QED BY <2>1, <2>2
<1> QED BY <1>5, <1>8, <1>9 DEF QueuesKept

(* The rows a hand-over of seats writes. *)
LEMMA HandOverRows ==
  ASSUME Structural, NEW c \in Section, NEW enr \in Tables
  PROVE  /\ Promoted(enr, c) \in SUBSET Active(c)
         /\ WithPromotions(enr, c) \in Tables
         /\ AfterPromotions(enr, c) \in WaitlistRows
         /\ {s \in Student : AfterPromotions(enr, c)[s] = "ACTIVE"} \subseteq Active(c)
         /\ PromotionNotices(enr, c) \subseteq NoticeType
<1>1. Promoted(enr, c) \in SUBSET Active(c)
  BY DEF Promoted, Considered
<1>2. WithPromotions(enr, c) \in Tables
  BY DEF WithPromotions, Tables, EnrollmentStatus
<1>3. waitlist[c] \in WaitlistRows
  BY DEF Structural, TypeOK, WaitlistRows
<1>4. AfterPromotions(enr, c) \in WaitlistRows
  <2>1. ASSUME NEW s \in Student
        PROVE  (CASE s \in Promoted(enr, c)               -> "CONVERTED"
                  [] s \in Considered(enr, c) \ Promoted(enr, c) ->
                       IF enr[c][s] = NoRow THEN "EXPIRED" ELSE "CANCELLED"
                  [] OTHER                                -> waitlist[c][s])
               \in WaitlistStatus \cup {NoRow}
    BY <1>3 DEF WaitlistRows, WaitlistStatus
  <2> QED BY <2>1 DEF AfterPromotions, WaitlistRows
<1>5. {s \in Student : AfterPromotions(enr, c)[s] = "ACTIVE"} \subseteq Active(c)
  BY DEF AfterPromotions, Active
<1>6. PromotionNotices(enr, c) \subseteq NoticeType
  BY <1>1 DEF PromotionNotices, Notice, NoticeType, Active
<1> QED BY <1>1, <1>2, <1>4, <1>5, <1>6

LEMMA HandleSeatAvailabilityKeepsRows ==
  ASSUME Structural, NEW c \in Section, NEW enr \in Tables, HandleSeatAvailability(c, enr)
  PROVE  RowsOK' /\ QueuesKept
<1> DEFINE promoted == WithPromotions(enr, c)
           wl == AfterPromotions(enr, c)
           count == Cardinality(SeatHolders(promoted, c))
<1>1. count \in Nat
  BY CountIsNat DEF SeatHolders
<1>2. /\ promoted \in Tables
      /\ wl \in WaitlistRows
      /\ {s \in Student : wl[s] = "ACTIVE"} \subseteq Active(c)
  BY HandOverRows
<1>3. Commit(c, promoted, wl, count)
  BY DEF HandleSeatAvailability
<1> HIDE DEF promoted, wl, count
<1> QED BY <1>1, <1>2, <1>3, CommitKeepsRows

-----------------------------------------------------------------------------
(* Types and positions, operation by operation. *)

LEMMA TypeSplit ==
  TypeOK <=> /\ RowsOK
             /\ capacity \in [Section -> Nat]
             /\ status \in [Section -> SectionStatus]
             /\ now \in 0..MaxTime
             /\ notices \subseteq NoticeType
BY DEF TypeOK, RowsOK, Tables, WaitlistRows, NoticeType

(* A step that leaves the waitlists alone keeps their positions. *)
LEMMA SameWaitlists ==
  ASSUME Spaced, UNCHANGED <<waitlist, position>>
  PROVE  QueuesKept
BY DEF QueuesKept, QueueGapless, Spaced, Active

LEMMA WithoutRowType ==
  ASSUME TypeOK, NEW c \in Section, NEW s \in Student
  PROVE  WithoutRow(enrollment, c, s) \in Tables
BY DEF TypeOK, WithoutRow, Tables

LEMMA EnrollSeatedStructural ==
  ASSUME Structural, NEW s \in Student, NEW c \in Section, EnrollSeated(s, c)
  PROVE  Structural' /\ QueuesKept
<1>1. SeatsTaken(c) + 1 \in Nat
  BY CountIsNat DEF SeatsTaken, SeatHolders
<1>2. enrollment' \in Tables /\ enrolledCount' \in [Section -> Nat]
  BY <1>1 DEF EnrollSeated, Structural, TypeOK, Tables, EnrollmentStatus
<1>3. notices' \subseteq NoticeType
  BY DEF EnrollSeated, Notice, NoticeType
<1>4. TypeOK'
  BY <1>2, <1>3, TypeSplit DEF EnrollSeated, Structural, TypeOK, Tables, NoticeType
<1> QED BY <1>4, SameWaitlists DEF Structural, EnrollSeated, QueuesKept

LEMMA EnrollWaitlistedStructural ==
  ASSUME Structural, NEW s \in Student, NEW c \in Section, EnrollWaitlisted(s, c)
  PROVE  Structural' /\ QueuesKept
<1> DEFINE n == LastPosition(c)
<1>1. /\ waitlist' = [waitlist EXCEPT ![c][s] = "ACTIVE"]
      /\ position' = [position EXCEPT ![c][s] = n + 1]
      /\ waitlist[c][s] = NoRow
      /\ waitlist \in [Section -> WaitlistRows]
      /\ position \in [Section -> [Student -> Nat]]
  BY DEF EnrollWaitlisted, MayEnroll, Structural, TypeOK, WaitlistRows
<1>2. /\ n \in Nat /\ \A t \in Active(c) : position[c][t] <= n
      /\ s \notin Active(c) /\ Active(c) \in SUBSET Student /\ IsFiniteSet(Active(c))
  BY <1>1, LastPositionIsLast, CountIsNat, RowAssumption DEF Active, Structural, WaitlistStatus
<1> HIDE DEF n
<1>3. TypeOK'
  <2>1. SeatsTaken(c) \in Nat
    BY CountIsNat DEF SeatsTaken, SeatHolders
  <2>2. enrolledCount' \in [Section -> Nat]
    BY <2>1 DEF EnrollWaitlisted, Structural, TypeOK
  <2>3. waitlist' \in [Section -> WaitlistRows] /\ position' \in [Section -> [Student -> Nat]]
    BY <1>1, <1>2 DEF WaitlistRows, WaitlistStatus
  <2>4. notices' \subseteq NoticeType
    BY DEF EnrollWaitlisted, Notice, NoticeType
  <2> QED BY <2>2, <2>3, <2>4
        DEF EnrollWaitlisted, Structural, TypeOK, WaitlistRows, NoticeType
<1>4. Active(c)' = Active(c) \cup {s}
  BY <1>1 DEF Active, WaitlistRows
<1>5. position'[c][s] = n + 1 /\ \A t \in Active(c) : position'[c][t] = position[c][t]
  BY <1>1, <1>2 DEF Active
<1>6. ASSUME NEW d \in Section, d # c
      PROVE  Active(d)' = Active(d) /\ position'[d] = position[d]
  BY <1>1, <1>6 DEF Active
<1>7. Spaced'
  <2> SUFFICES ASSUME NEW d \in Section, NEW t \in Active(d)', NEW u \in Active(d)',
                      position'[d][t] = position'[d][u]
               PROVE  t = u
    BY DEF Spaced
  <2>1. CASE d # c
    BY <1>6, <2>1 DEF Structural, Spaced
  <2>2. CASE d = c
    <3>1. \A v \in Active(c) : position'[c][v] \in Nat /\ position'[c][v] < n + 1
      BY <1>1, <1>2, <1>5
    <3>2. CASE t = s \/ u = s
      BY <1>2, <1>4, <1>5, <2>2, <3>1, <3>2
    <3>3. CASE t # s /\ u # s
      BY <1>4, <1>5, <2>2, <3>3 DEF Structural, Spaced
    <3> QED BY <3>2, <3>3
  <2> QED BY <2>1, <2>2
<1>8. ASSUME QueueGapless, NEW d \in Section
      PROVE  {position'[d][t] : t \in Active(d)'} = 1..Cardinality(Active(d)')
  <2>1. CASE d = c
    <3>1. n = Cardinality(Active(c))
      BY <1>8, LastPositionIsLength DEF n
    <3>2. Cardinality(Active(c)') = n + 1
      BY <1>2, <1>4, <3>1, FS_AddElement
    <3>3. {position'[c][t] : t \in Active(c)'} = {position[c][t] : t \in Active(c)} \cup {n + 1}
      BY <1>4, <1>5
    <3>4. {position[c][t] : t \in Active(c)} = 1..n
      BY <1>8, <3>1 DEF QueueGapless
    <3>5. (1..n) \cup {n + 1} = 1..(n + 1)
      BY <1>2
    <3> QED BY <2>1, <3>2, <3>3, <3>4, <3>5
  <2>2. CASE d # c
    BY <1>6, <1>8, <2>2 DEF QueueGapless
  <2> QED BY <2>1, <2>2
<1>9. QueueGapless => QueueGapless'
  BY <1>8 DEF QueueGapless
<1> QED BY <1>3, <1>7, <1>9 DEF Structural, QueuesKept

LEMMA DropEnrollmentStructural ==
  ASSUME Structural, NEW s \in Student, NEW c \in Section, DropEnrollment(s, c)
  PROVE  Structural' /\ QueuesKept
<1> DEFINE without == WithoutRow(enrollment, c, s)
<1>1. without \in Tables
  BY WithoutRowType DEF Structural
<1>2. RowsOK' /\ QueuesKept
  BY <1>1, HandleSeatAvailabilityKeepsRows DEF DropEnrollment
<1>3. PromotionNotices(without, c) \subseteq NoticeType
  BY <1>1, HandOverRows
<1>4. Notice("enrollment.dropped", s, c) \in NoticeType
  BY DEF Notice, NoticeType
<1>5. notices' \subseteq NoticeType
  BY <1>3, <1>4 DEF DropEnrollment
<1>6. UNCHANGED <<capacity, status, now>>
  BY DEF DropEnrollment
<1> QED BY <1>2, <1>5, <1>6 DEF Structural, QueuesKept, TypeOK, RowsOK, Tables, WaitlistRows, NoticeType

LEMMA RemoveWaitlistEntryStructural ==
  ASSUME Structural, NEW s \in Student, NEW c \in Section, RemoveWaitlistEntry(s, c)
  PROVE  Structural' /\ QueuesKept
<1> DEFINE wl == [waitlist[c] EXCEPT ![s] = NoRow]
<1>1. /\ wl \in WaitlistRows
      /\ waitlist' = [waitlist EXCEPT ![c] = wl]
      /\ waitlist \in [Section -> WaitlistRows]
      /\ enrollment \in Tables
      /\ enrolledCount \in [Section -> Nat]
      /\ UNCHANGED <<enrollment, enrolledCount, capacity, status, now>>
      /\ notices' = {}
  BY DEF RemoveWaitlistEntry, Structural, TypeOK, WaitlistRows, Tables
<1>2. CASE s \in Active(c)
  <2>1. {t \in Student : wl[t] = "ACTIVE"} = Active(c) \ {s}
    BY RowAssumption, <1>1 DEF Active, WaitlistStatus, WaitlistRows
  <2>2. position' = [position EXCEPT ![c] = Resequenced(Active(c) \ {s}, position[c])]
    BY <1>2 DEF RemoveWaitlistEntry
  <2>3. Commit(c, enrollment, wl, enrolledCount[c])
    BY <1>1, <2>1, <2>2 DEF Commit
  <2>4. enrolledCount[c] \in Nat /\ {t \in Student : wl[t] = "ACTIVE"} \subseteq Active(c)
    BY <1>1, <2>1
  <2> HIDE DEF wl
  <2>5. RowsOK' /\ QueuesKept
    BY <1>1, <2>3, <2>4, CommitKeepsRows
  <2> QED BY <1>1, <2>5 DEF Structural, QueuesKept, TypeOK, RowsOK, Tables, WaitlistRows
<1>3. CASE s \notin Active(c)
  <2>1. position' = position
    BY <1>3 DEF RemoveWaitlistEntry
  <2>2. \A d \in Section : Active(d)' = Active(d)
    BY <1>1, <1>3, RowAssumption DEF Active, WaitlistRows, WaitlistStatus
  <2>3. QueuesKept
    BY <2>1, <2>2 DEF QueuesKept, QueueGapless, Spaced, Structural
  <2>4. waitlist' \in [Section -> WaitlistRows]
    BY <1>1
  <2> QED BY <1>1, <2>1, <2>3, <2>4 DEF Structural, QueuesKept, TypeOK, WaitlistRows
<1> QED BY <1>2, <1>3

LEMMA PromoteWaitlistEntryStructural ==
  ASSUME Structural, NEW s \in Student, NEW c \in Section, PromoteWaitlistEntry(s, c)
  PROVE  Structural' /\ QueuesKept
<1> DEFINE enr == [enrollment EXCEPT ![c][s] = "PENDING"]
           wl == [waitlist[c] EXCEPT ![s] = "CONVERTED"]
<1>1. enr \in Tables /\ wl \in WaitlistRows
  BY DEF Structural, TypeOK, Tables, WaitlistRows, EnrollmentStatus, WaitlistStatus
<1>2. {t \in Student : wl[t] = "ACTIVE"} \subseteq Active(c)
  BY DEF Active, Structural, TypeOK
<1>3. SeatsTaken(c) + 1 \in Nat
  BY CountIsNat DEF SeatsTaken, SeatHolders
<1>4. Commit(c, enr, wl, SeatsTaken(c) + 1)
  BY DEF PromoteWaitlistEntry
<1>5. notices' \subseteq NoticeType
  BY DEF PromoteWaitlistEntry, Notice, NoticeType
<1>6. UNCHANGED <<capacity, status, now>>
  BY DEF PromoteWaitlistEntry
<1> HIDE DEF enr, wl
<1>7. RowsOK' /\ QueuesKept
  BY <1>1, <1>2, <1>3, <1>4, CommitKeepsRows
<1> QED BY <1>5, <1>6, <1>7 DEF Structural, QueuesKept, TypeOK, RowsOK, Tables, WaitlistRows, NoticeType

LEMMA UpdateKeepingSeatStructural ==
  ASSUME Structural, NEW s \in Student, NEW c \in Section, NEW next,
         UpdateKeepingSeat(s, c, next)
  PROVE  Structural' /\ QueuesKept
<1>1. next \in EnrollmentStatus
  BY DEF UpdateKeepingSeat, SeatConsuming, EnrollmentStatus
<1>2. TypeOK'
  BY <1>1 DEF UpdateKeepingSeat, Structural, TypeOK
<1> QED BY <1>2, SameWaitlists DEF UpdateKeepingSeat, Structural, QueuesKept

LEMMA UpdateReleasingSeatStructural ==
  ASSUME Structural, NEW s \in Student, NEW c \in Section, NEW next,
         UpdateReleasingSeat(s, c, next)
  PROVE  Structural' /\ QueuesKept
<1> DEFINE updated == [enrollment EXCEPT ![c][s] = next]
<1>1. next \in EnrollmentStatus
  BY DEF UpdateReleasingSeat, ValidTransitions, EnrollmentStatus
<1>2. updated \in Tables
  BY <1>1 DEF Structural, TypeOK, Tables
<1>3. RowsOK' /\ QueuesKept
  BY <1>2, HandleSeatAvailabilityKeepsRows DEF UpdateReleasingSeat
<1>4. PromotionNotices(updated, c) \subseteq NoticeType
  BY <1>2, HandOverRows
<1>5. Notice("enrollment.dropped", s, c) \in NoticeType
  BY DEF Notice, NoticeType
<1>6. notices' \subseteq NoticeType
  BY <1>4, <1>5 DEF UpdateReleasingSeat
<1>7. UNCHANGED <<capacity, status, now>>
  BY DEF UpdateReleasingSeat
<1> QED BY <1>3, <1>6, <1>7 DEF Structural, QueuesKept, TypeOK, RowsOK, Tables, WaitlistRows, NoticeType

LEMMA RemoveSeatedStructural ==
  ASSUME Structural, NEW s \in Student, NEW c \in Section, RemoveSeated(s, c)
  PROVE  Structural' /\ QueuesKept
<1> DEFINE without == WithoutRow(enrollment, c, s)
<1>1. without \in Tables
  BY WithoutRowType DEF Structural
<1>2. RowsOK' /\ QueuesKept
  BY <1>1, HandleSeatAvailabilityKeepsRows DEF RemoveSeated
<1>3. notices' \subseteq NoticeType
  BY <1>1, HandOverRows DEF RemoveSeated
<1>4. UNCHANGED <<capacity, status, now>>
  BY DEF RemoveSeated
<1> QED BY <1>2, <1>3, <1>4 DEF Structural, QueuesKept, TypeOK, RowsOK, Tables, WaitlistRows, NoticeType

LEMMA RemoveUnseatedStructural ==
  ASSUME Structural, NEW s \in Student, NEW c \in Section, RemoveUnseated(s, c)
  PROVE  Structural' /\ QueuesKept
<1>1. enrollment' \in Tables
  BY WithoutRowType DEF RemoveUnseated, Structural
<1>2. TypeOK'
  BY <1>1 DEF RemoveUnseated, Structural, TypeOK, Tables
<1> QED BY <1>2, SameWaitlists DEF RemoveUnseated, Structural, QueuesKept

LEMMA UpdateSectionStructural ==
  ASSUME Structural, NEW c \in Section, NEW seats \in Capacities[c], NEW st \in Statuses,
         UpdateSection(c, seats, st)
  PROVE  Structural' /\ QueuesKept
<1>1. seats \in Nat /\ st \in SectionStatus
  BY RowAssumption
<1>2. TypeOK'
  BY <1>1 DEF UpdateSection, Structural, TypeOK
<1> QED BY <1>2, SameWaitlists DEF UpdateSection, Structural, QueuesKept

LEMMA TickStructural ==
  ASSUME Structural, Tick
  PROVE  Structural' /\ QueuesKept
<1>1. TypeOK'
  BY DateAssumption DEF Tick, Structural, TypeOK
<1> QED BY <1>1, SameWaitlists DEF Tick, Structural, QueuesKept

LEMMA InitStructural == Init => Structural /\ QueueGapless
<1> SUFFICES ASSUME Init PROVE Structural /\ QueueGapless
  OBVIOUS
<1>1. TypeOK
  BY RowAssumption, DateAssumption DEF Init, TypeOK, SectionStatus
<1>2. ASSUME NEW c \in Section PROVE Active(c) = {}
  BY RowAssumption DEF Init, Active, WaitlistStatus
<1>3. Spaced
  BY <1>2 DEF Spaced
<1>4. QueueGapless
  BY <1>2, FS_EmptySet DEF QueueGapless
<1> QED BY <1>1, <1>3, <1>4 DEF Structural

LEMMA NextStructural == Structural /\ [Next]_vars => Structural' /\ QueuesKept
<1> SUFFICES ASSUME Structural, [Next]_vars PROVE Structural' /\ QueuesKept
  OBVIOUS
<1>1. CASE Tick
  BY <1>1, TickStructural
<1>2. ASSUME NEW c \in Section, NEW seats \in Capacities[c], NEW st \in Statuses,
             UpdateSection(c, seats, st)
      PROVE  Structural' /\ QueuesKept
  BY <1>2, UpdateSectionStructural
<1>3. ASSUME NEW c \in Section, NEW s \in Student, StudentOperation(s, c)
      PROVE  Structural' /\ QueuesKept
  BY <1>3, EnrollSeatedStructural, EnrollWaitlistedStructural, DropEnrollmentStructural,
     RemoveWaitlistEntryStructural DEF StudentOperation
<1>4. ASSUME NEW c \in Section, NEW s \in Student, AdminOperation(s, c)
      PROVE  Structural' /\ QueuesKept
  BY <1>4, PromoteWaitlistEntryStructural, UpdateKeepingSeatStructural,
     UpdateReleasingSeatStructural, RemoveSeatedStructural, RemoveUnseatedStructural
     DEF AdminOperation
<1>5. CASE UNCHANGED vars
  <2>1. TypeOK'
    BY <1>5 DEF vars, Structural, TypeOK
  <2> QED BY <1>5, <2>1, SameWaitlists DEF vars, Structural, QueuesKept
<1> QED BY <1>1, <1>2, <1>3, <1>4, <1>5 DEF Next

(* Types and positions need each other: LastPosition is a number only because *)
(* the positions are.                                                         *)
LEMMA AlwaysStructural == Spec => []Structural
BY InitStructural, NextStructural, PTL DEF Spec

(* Rows, counters and messages stay well typed, whatever the students and the *)
(* administration do (schema.prisma's enums and non-null columns).            *)
THEOREM TypeCorrect == Spec => []TypeOK
<1>1. Structural => TypeOK
  BY DEF Structural
<1> QED BY AlwaysStructural, <1>1, PTL

(* The ACTIVE rows of every waitlist are numbered 1..n, without gap or tie, in *)
(* every reachable state (resequenceWaitlist, addStudentToWaitlist).           *)
THEOREM WaitlistGapless == Spec => []QueueGapless
<1>1. Structural /\ QueueGapless /\ [Next]_vars => QueueGapless'
  BY NextStructural DEF QueuesKept
<1> QED BY AlwaysStructural, InitStructural, <1>1, PTL DEF Spec

-----------------------------------------------------------------------------
(* The promotions of one hand-over fit into the free seats: the number of   *)
(* claimable students ahead numbers the promoted ones 0, 1, ..., differently *)
(* and below FreeSeats.                                                      *)
LEMMA PromotedFit ==
  ASSUME Structural, NEW c \in Section, NEW enr \in Tables
  PROVE  /\ FreeSeats(enr, c) \in Nat
         /\ Cardinality(Promoted(enr, c)) <= FreeSeats(enr, c)
<1> DEFINE k == FreeSeats(enr, c)
           P == Promoted(enr, c)
           ahead(s) == {t \in Active(c) : position[c][t] < position[c][s] /\ Claimable(enr, c, t)}
           rank == [s \in P |-> Cardinality(ahead(s))]
<1>1. k \in Nat
  <2>1. SeatHolders(enr, c) \in SUBSET Student
    BY DEF SeatHolders
  <2>2. Cardinality(SeatHolders(enr, c)) \in Nat /\ capacity[c] \in Nat
    BY <2>1, CountIsNat DEF Structural, TypeOK
  <2> QED BY <2>2 DEF FreeSeats
<1>2. P \in SUBSET Active(c) /\ Active(c) \in SUBSET Student
  BY DEF Promoted, Considered, Active
<1>3. position[c] \in [Student -> Nat]
  BY DEF Structural, TypeOK
<1>4. ASSUME NEW s \in P
      PROVE  Cardinality(ahead(s)) \in 0..(k - 1)
  <2>1. Cardinality(ahead(s)) < k
    BY DEF Promoted, Considered
  <2>2. ahead(s) \in SUBSET Student
    BY <1>2
  <2>3. Cardinality(ahead(s)) \in Nat
    BY <2>2, CountIsNat
  <2> QED BY <1>1, <2>1, <2>3
<1>5. ASSUME NEW s \in P, NEW t \in P, position[c][s] < position[c][t]
      PROVE  Cardinality(ahead(s)) < Cardinality(ahead(t))
  <2>1. s \in ahead(t) /\ s \notin ahead(s)
    BY <1>2, <1>3, <1>5 DEF Promoted
  <2>2. ahead(s) \in SUBSET ahead(t)
    BY <1>2, <1>3, <1>5
  <2>3. ahead(t) \in SUBSET Student
    BY <1>2
  <2> QED BY <2>1, <2>2, <2>3, StrictlyMore
<1>6. rank \in Injection(P, 0..(k - 1))
  <2>1. rank \in [P -> 0..(k - 1)]
    BY <1>4
  <2>2. ASSUME NEW s \in P, NEW t \in P, rank[s] = rank[t]
        PROVE  s = t
    <3>1. Cardinality(ahead(s)) = Cardinality(ahead(t))
      BY <2>2
    <3>2. Cardinality(ahead(s)) \in Int /\ Cardinality(ahead(t)) \in Int
      BY <1>4
    <3>3. ~(position[c][s] < position[c][t]) /\ ~(position[c][t] < position[c][s])
      BY <1>5, <3>1, <3>2
    <3>4. position[c][s] \in Nat /\ position[c][t] \in Nat
      BY <1>2, <1>3
    <3>5. position[c][s] = position[c][t]
      BY <3>3, <3>4
    <3>6. s \in Active(c) /\ t \in Active(c)
      BY <1>2
    <3> QED BY <3>5, <3>6, ActiveFacts DEF Structural
  <2> QED BY <2>1, <2>2 DEF Injection, IsInjective
<1>7. IsFiniteSet(0..(k - 1)) /\ Cardinality(0..(k - 1)) = k
  BY <1>1, FS_Interval
<1>8. Cardinality(P) <= k
  BY <1>6, <1>7, FS_Injection
<1> QED BY <1>1, <1>8

-----------------------------------------------------------------------------
(* The effect of a step on seats: section c's enrollments first lose some    *)
(* rows or seats (they become enr), then the students in given receive one.  *)

GivesSeats(c, enr, given) ==
  /\ enr \in Tables
  /\ \A d \in Section \ {c} : enr[d] = enrollment[d]
  /\ \A s \in Student :
       /\ enr[c][s] \in SeatConsuming => enrollment[c][s] = enr[c][s]
       /\ enrollment[c][s] = NoRow => enr[c][s] = NoRow
  /\ given \subseteq Student
  /\ \A s \in given : Claimable(enr, c, s)
  /\ given # {} => Cardinality(SeatHolders(enr, c)) + Cardinality(given) <= capacity[c]
  /\ enrollment' = [enr EXCEPT
       ![c] = [s \in Student |-> IF s \in given THEN "PENDING" ELSE @[s]]]

(* A step that changes a status and leaves every seat where it is. *)
KeepsSeats == \A c \in Section : \A s \in Student :
  /\ enrollment'[c][s] \in SeatConsuming <=> enrollment[c][s] \in SeatConsuming
  /\ enrollment[c][s] = NoRow <=> enrollment'[c][s] = NoRow

LEMMA NotARow == NoRow \notin SeatConsuming
BY RowAssumption DEF SeatConsuming, EnrollmentStatus

LEMMA HandOverGives ==
  ASSUME Structural, NEW c \in Section, NEW enr \in Tables,
         \A d \in Section \ {c} : enr[d] = enrollment[d],
         \A s \in Student :
           /\ enr[c][s] \in SeatConsuming => enrollment[c][s] = enr[c][s]
           /\ enrollment[c][s] = NoRow => enr[c][s] = NoRow,
         HandleSeatAvailability(c, enr)
  PROVE  GivesSeats(c, enr, Promoted(enr, c))
<1> DEFINE P == Promoted(enr, c)
           taken == Cardinality(SeatHolders(enr, c))
<1>1. P \subseteq Student /\ P \in SUBSET Student
  BY DEF Promoted, Considered, Active
<1>2. \A s \in P : Claimable(enr, c, s)
  BY DEF Promoted
<1>3. P # {} => taken + Cardinality(P) <= capacity[c]
  <2>1. SeatHolders(enr, c) \in SUBSET Student
    BY DEF SeatHolders
  <2>2. taken \in Nat /\ Cardinality(P) \in Nat /\ capacity[c] \in Nat
    BY <1>1, <2>1, CountIsNat DEF Structural, TypeOK
  <2>3. Cardinality(P) <= FreeSeats(enr, c)
    BY PromotedFit
  <2>4. P # {} => Cardinality(P) # 0
    BY <1>1, CountIsNat, FS_EmptySet
  <2> QED BY <2>2, <2>3, <2>4 DEF FreeSeats
<1>4. enrollment' = WithPromotions(enr, c)
  BY DEF HandleSeatAvailability, Commit
<1> QED BY <1>1, <1>2, <1>3, <1>4 DEF GivesSeats, WithPromotions

(* Giving one student a seat by hand, when the section is not full. *)
LEMMA OneSeatGives ==
  ASSUME Structural, NEW c \in Section, NEW s \in Student,
         Claimable(enrollment, c, s), ~Full(c),
         enrollment' = [enrollment EXCEPT ![c][s] = "PENDING"]
  PROVE  GivesSeats(c, enrollment, {s})
<1>1. enrollment \in Tables
  BY DEF Structural, TypeOK, Tables
<1>2. Cardinality({s}) = 1
  BY FS_Singleton
<1>3. Cardinality(SeatHolders(enrollment, c)) \in Nat /\ capacity[c] \in Nat
  BY CountIsNat DEF SeatHolders, Structural, TypeOK
<1>4. Cardinality(SeatHolders(enrollment, c)) + 1 <= capacity[c]
  BY <1>3 DEF Full, SeatsTaken
<1>5. enrollment' = [enrollment EXCEPT
        ![c] = [t \in Student |-> IF t \in {s} THEN "PENDING" ELSE @[t]]]
  BY <1>1 DEF Tables
<1> QED BY <1>1, <1>2, <1>4, <1>5 DEF GivesSeats

LEMMA WithoutRowLoses ==
  ASSUME Structural, NEW c \in Section, NEW s \in Student
  PROVE  LET enr == WithoutRow(enrollment, c, s) IN
         /\ enr \in Tables
         /\ \A d \in Section \ {c} : enr[d] = enrollment[d]
         /\ \A t \in Student :
              /\ enr[c][t] \in SeatConsuming => enrollment[c][t] = enr[c][t]
              /\ enrollment[c][t] = NoRow => enr[c][t] = NoRow
BY NotARow DEF WithoutRow, Structural, TypeOK, Tables

(* Every step either gives seats of one section, or leaves seats where they are. *)
LEMMA EveryStepGivesOrKeeps ==
  ASSUME Structural, [Next]_vars
  PROVE  KeepsSeats \/ \E c \in Section, enr \in Tables, given \in SUBSET Student :
                          GivesSeats(c, enr, given)
<1> DEFINE Gives == \E c \in Section, enr \in Tables, given \in SUBSET Student :
                      GivesSeats(c, enr, given)
<1>1. CASE enrollment' = enrollment
  BY <1>1 DEF KeepsSeats
<1>2. ASSUME NEW c \in Section, NEW s \in Student, StudentOperation(s, c)
      PROVE  KeepsSeats \/ Gives
  <2>1. CASE EnrollSeated(s, c)
    <3>1. Claimable(enrollment, c, s)
      BY <2>1 DEF EnrollSeated, MayEnroll, Claimable
    <3>2. GivesSeats(c, enrollment, {s})
      BY <2>1, <3>1, OneSeatGives DEF EnrollSeated
    <3> QED BY <3>2 DEF GivesSeats
  <2>2. CASE EnrollWaitlisted(s, c) \/ RemoveWaitlistEntry(s, c)
    BY <1>1, <2>2 DEF EnrollWaitlisted, RemoveWaitlistEntry
  <2>3. CASE DropEnrollment(s, c)
    <3> DEFINE enr == WithoutRow(enrollment, c, s)
    <3>1. GivesSeats(c, enr, Promoted(enr, c))
      BY <2>3, WithoutRowLoses, HandOverGives DEF DropEnrollment
    <3> QED BY <3>1 DEF GivesSeats
  <2> QED BY <1>2, <2>1, <2>2, <2>3 DEF StudentOperation
<1>3. ASSUME NEW c \in Section, NEW s \in Student, AdminOperation(s, c)
      PROVE  KeepsSeats \/ Gives
  <2>1. CASE PromoteWaitlistEntry(s, c)
    <3>1. GivesSeats(c, enrollment, {s})
      BY <2>1, OneSeatGives DEF PromoteWaitlistEntry, Commit
    <3> QED BY <3>1 DEF GivesSeats
  <2>2. ASSUME NEW next \in Targets[c], UpdateKeepingSeat(s, c, next)
        PROVE  KeepsSeats
    <3>1. /\ enrollment' = [enrollment EXCEPT ![c][s] = next]
          /\ next \in SeatConsuming
          /\ enrollment[c][s] \in SeatConsuming
          /\ enrollment \in Tables
      BY <2>2 DEF UpdateKeepingSeat, ValidTransitions, SeatConsuming, Structural, TypeOK, Tables
    <3> QED BY <3>1, NotARow DEF KeepsSeats, Tables
  <2>3. ASSUME NEW next \in Targets[c], UpdateReleasingSeat(s, c, next)
        PROVE  Gives
    <3> DEFINE enr == [enrollment EXCEPT ![c][s] = next]
    <3>1. next \in EnrollmentStatus \ SeatConsuming /\ enrollment[c][s] \in SeatConsuming
      BY <2>3 DEF UpdateReleasingSeat, ValidTransitions, EnrollmentStatus, SeatConsuming
    <3>2. enr \in Tables
      BY <3>1 DEF Structural, TypeOK, Tables
    <3>3. \A d \in Section \ {c} : enr[d] = enrollment[d]
      BY DEF Structural, TypeOK
    <3>4. \A t \in Student :
            /\ enr[c][t] \in SeatConsuming => enrollment[c][t] = enr[c][t]
            /\ enrollment[c][t] = NoRow => enr[c][t] = NoRow
      BY <3>1, NotARow DEF Structural, TypeOK
    <3>5. HandleSeatAvailability(c, enr)
      BY <2>3 DEF UpdateReleasingSeat
    <3> HIDE DEF enr
    <3>6. GivesSeats(c, enr, Promoted(enr, c))
      BY <3>2, <3>3, <3>4, <3>5, HandOverGives
    <3> QED BY <3>6 DEF GivesSeats
  <2>4. CASE RemoveSeated(s, c)
    <3> DEFINE enr == WithoutRow(enrollment, c, s)
    <3>1. GivesSeats(c, enr, Promoted(enr, c))
      BY <2>4, WithoutRowLoses, HandOverGives DEF RemoveSeated
    <3> QED BY <3>1 DEF GivesSeats
  <2>5. CASE RemoveUnseated(s, c)
    <3> DEFINE enr == WithoutRow(enrollment, c, s)
    <3>1. enr = [enr EXCEPT ![c] = [t \in Student |-> IF t \in {} THEN "PENDING" ELSE @[t]]]
      BY WithoutRowLoses DEF Tables
    <3>2. GivesSeats(c, enr, {})
      BY <2>5, <3>1, WithoutRowLoses DEF RemoveUnseated, GivesSeats
    <3>3. enr \in Tables /\ {} \in SUBSET Student
      BY WithoutRowLoses
    <3> HIDE DEF enr
    <3> QED BY <3>2, <3>3
  <2> QED BY <1>3, <2>1, <2>2, <2>3, <2>4, <2>5 DEF AdminOperation
<1> QED BY <1>1, <1>2, <1>3 DEF Next, Tick, UpdateSection, vars

-----------------------------------------------------------------------------
(* Consequences for the seats of a section. *)

LEMMA SeatsAfter ==
  ASSUME Structural, NEW c \in Section, NEW enr \in Tables, NEW given \in SUBSET Student,
         GivesSeats(c, enr, given)
  PROVE  /\ enrollment' \in Tables
         /\ \A d \in Section \ {c} : enrollment'[d] = enrollment[d]
         /\ \A s \in Student : enrollment'[c][s] = IF s \in given THEN "PENDING" ELSE enr[c][s]
         /\ SeatHolders(enrollment', c) = SeatHolders(enr, c) \cup given
         /\ SeatHolders(enr, c) \subseteq SeatHolders(enrollment, c)
<1>1. \A s \in Student : enrollment'[c][s] = IF s \in given THEN "PENDING" ELSE enr[c][s]
  BY DEF GivesSeats, Tables
<1>2. enrollment' \in Tables
  BY DEF GivesSeats, Tables, EnrollmentStatus
<1>3. \A d \in Section \ {c} : enrollment'[d] = enrollment[d]
  BY DEF GivesSeats, Tables
<1>4. SeatHolders(enrollment', c) = SeatHolders(enr, c) \cup given
  BY <1>1 DEF SeatHolders, SeatConsuming
<1>5. SeatHolders(enr, c) \subseteq SeatHolders(enrollment, c)
  BY DEF GivesSeats, SeatHolders
<1> QED BY <1>1, <1>2, <1>3, <1>4, <1>5

LEMMA StepNeverOversells ==
  ASSUME Structural, [Next]_vars, NEW c \in Section,
         Cardinality(SeatHolders(enrollment', c)) > SeatsTaken(c)
  PROVE  Cardinality(SeatHolders(enrollment', c)) <= capacity[c]
<1>1. CASE KeepsSeats
  <2>1. SeatHolders(enrollment', c) = SeatHolders(enrollment, c)
    BY <1>1 DEF KeepsSeats, SeatHolders
  <2>2. SeatsTaken(c) \in Nat
    BY CountIsNat DEF SeatsTaken, SeatHolders
  <2> QED BY <2>1, <2>2 DEF SeatsTaken
<1>2. ASSUME NEW d \in Section, NEW enr \in Tables, NEW given \in SUBSET Student,
             GivesSeats(d, enr, given)
      PROVE  Cardinality(SeatHolders(enrollment', c)) <= capacity[c]
  <2>1. SeatsTaken(c) \in Nat
    BY CountIsNat DEF SeatsTaken, SeatHolders
  <2>2. CASE c # d
    <3>1. SeatHolders(enrollment', c) = SeatHolders(enrollment, c)
      BY <1>2, <2>2, SeatsAfter DEF SeatHolders
    <3> QED BY <2>1, <3>1 DEF SeatsTaken
  <2>3. CASE c = d
    <3> DEFINE H == SeatHolders(enr, c)
    <3>1. /\ SeatHolders(enrollment', c) = H \cup given
          /\ H \subseteq SeatHolders(enrollment, c)
      BY <1>2, <2>3, SeatsAfter
    <3>2. /\ IsFiniteSet(H) /\ IsFiniteSet(given) /\ IsFiniteSet(SeatHolders(enrollment, c))
          /\ Cardinality(H) \in Nat /\ Cardinality(given) \in Nat
          /\ capacity[c] \in Nat
      BY CountIsNat DEF SeatHolders, Structural, TypeOK
    <3>3. CASE given = {}
      <4>1. Cardinality(SeatHolders(enrollment', c)) <= SeatsTaken(c)
        BY <3>1, <3>2, <3>3, FS_Subset DEF SeatsTaken
      <4>2. Cardinality(SeatHolders(enrollment', c)) \in Nat
        BY <3>1, <3>2, <3>3
      <4> QED BY <2>1, <4>1, <4>2
    <3>4. CASE given # {}
      <4>1. Cardinality(H) + Cardinality(given) <= capacity[c]
        BY <1>2, <2>3, <3>4 DEF GivesSeats
      <4>2. Cardinality(H \cup given) = Cardinality(H) + Cardinality(given)
                                          - Cardinality(H \cap given)
        BY <3>2, FS_Union
      <4>3. Cardinality(H \cap given) \in Nat
        <5>1. H \cap given \in SUBSET Student
          OBVIOUS
        <5> QED BY <5>1, CountIsNat
      <4> QED BY <3>1, <3>2, <4>1, <4>2, <4>3
    <3> QED BY <3>3, <3>4
  <2> QED BY <2>2, <2>3
<1> QED BY <1>1, <1>2, EveryStepGivesOrKeeps

(* No step fills a section beyond its capacity, however many students enroll,  *)
(* drop, queue and are promoted, and even if the capacity was shrunk meanwhile *)
(* (enrollStudent, promoteWaitlistEntry, handleSeatAvailability).              *)
THEOREM NeverOversold == Spec => NoOversell
<1>1. Structural /\ [Next]_vars =>
        [\A c \in Section :
           LET after == Cardinality(SeatHolders(enrollment', c)) IN
           after > SeatsTaken(c) => after <= capacity[c]]_vars
  BY StepNeverOversells
<1> QED BY AlwaysStructural, <1>1, PTL DEF Spec, NoOversell

-----------------------------------------------------------------------------
(* Consequences for prerequisites and timetables. *)

LEMMA StepNeedsPrerequisites ==
  ASSUME Structural, [Next]_vars, NEW c \in Section, NEW s \in Student,
         enrollment[c][s] = NoRow, enrollment'[c][s] # NoRow
  PROVE  HasPrerequisites(enrollment, s, c)
<1>1. ~KeepsSeats
  BY DEF KeepsSeats
<1>2. ASSUME NEW d \in Section, NEW enr \in Tables, NEW given \in SUBSET Student,
             GivesSeats(d, enr, given)
      PROVE  HasPrerequisites(enrollment, s, c)
  <2>1. c = d
    BY <1>2, SeatsAfter
  <2>2. s \in given
    BY <1>2, <2>1, SeatsAfter DEF GivesSeats
  <2>3. HasPrerequisites(enr, s, c)
    BY <1>2, <2>1, <2>2 DEF GivesSeats, Claimable, Eligible
  <2>4. \A e \in Section : enr[e][s] = "COMPLETED" => enrollment[e][s] = "COMPLETED"
    BY <1>2 DEF GivesSeats, SeatConsuming
  <2> QED BY <2>3, <2>4 DEF HasPrerequisites
<1> QED BY <1>1, <1>2, EveryStepGivesOrKeeps

(* Whoever is given a seat has completed its prerequisites by then, also when *)
(* the seat comes by a promotion inside another student's drop                *)
(* (assertPrerequisitesMet as called by assertStudentEligible).               *)
THEOREM SeatsAlwaysNeedPrerequisites == Spec => SeatsNeedPrerequisites
<1>1. Structural /\ [Next]_vars =>
        [\A c \in Section, s \in Student :
           enrollment[c][s] = NoRow /\ enrollment'[c][s] # NoRow
             => HasPrerequisites(enrollment, s, c)]_vars
  BY StepNeedsPrerequisites
<1> QED BY AlwaysStructural, <1>1, PTL DEF Spec, SeatsNeedPrerequisites

LEMMA StepKeepsTimetables ==
  ASSUME Structural, [Next]_vars, NoScheduleConflict
  PROVE  NoScheduleConflict'
<1>1. CASE KeepsSeats
  BY <1>1 DEF KeepsSeats, NoScheduleConflict
<1>2. ASSUME NEW e \in Section, NEW enr \in Tables, NEW given \in SUBSET Student,
             GivesSeats(e, enr, given)
      PROVE  NoScheduleConflict'
  <2> SUFFICES ASSUME NEW s \in Student, NEW c \in Section, NEW d \in Section,
                      c # d, SemesterOf[c] = SemesterOf[d],
                      enrollment'[c][s] \in SeatConsuming,
                      enrollment'[d][s] \in SeatConsuming
               PROVE  {c, d} \notin Overlapping
    BY DEF NoScheduleConflict
  <2>1. ASSUME NEW a \in Section, NEW b \in Section, a # b,
               SemesterOf[a] = SemesterOf[b], a = e, s \in given,
               enrollment'[b][s] \in SeatConsuming
        PROVE  {a, b} \notin Overlapping
    <3>1. FitsTimetable(enr, s, a)
      BY <1>2, <2>1 DEF GivesSeats, Claimable, Eligible
    <3>2. enr[b][s] \in SeatConsuming
      BY <1>2, <2>1, SeatsAfter DEF GivesSeats
    <3>3. b \in Timetable(enr, s, SemesterOf[a])
      BY <2>1, <3>2 DEF Timetable
    <3> QED BY <3>1, <3>3 DEF FitsTimetable
  <2>2. CASE c = e /\ s \in given
    BY <2>1, <2>2
  <2>3. CASE d = e /\ s \in given
    <3>1. {d, c} \notin Overlapping
      BY <2>1, <2>3
    <3>2. {d, c} = {c, d}
      OBVIOUS
    <3> QED BY <3>1, <3>2
  <2>4. CASE ~(c = e /\ s \in given) /\ ~(d = e /\ s \in given)
    <3>1. enrollment[c][s] \in SeatConsuming /\ enrollment[d][s] \in SeatConsuming
      BY <1>2, <2>4, SeatsAfter DEF GivesSeats
    <3> QED BY <3>1 DEF NoScheduleConflict
  <2> QED BY <2>2, <2>3, <2>4
<1> QED BY <1>1, <1>2, EveryStepGivesOrKeeps

(* No student ever holds seats in two overlapping sections of a semester: the *)
(* check made at enrolment or promotion is never outrun by a later seat       *)
(* (assertNoScheduleConflict).                                                *)
THEOREM TimetablesNeverConflict == Spec => []NoScheduleConflict
<1>1. Init => NoScheduleConflict
  BY NotARow DEF Init, NoScheduleConflict
<1> QED BY AlwaysStructural, StepKeepsTimetables, <1>1, PTL DEF Spec

-----------------------------------------------------------------------------
(* Credits. *)

CreditsOf == [d \in Section |-> Credits[CourseOf[d]]]

(* Loads are sums of one table of credits, whatever the enrollments. *)
LEMMA LoadsAreSums ==
  \E sum \in [SUBSET Section -> Nat] :
    /\ \A r \in SUBSET Section : sum[r] = SumStep(CreditsOf, r, sum)
    /\ \A enr, s, sem : Load(enr, s, sem) = sum[Timetable(enr, s, sem)]
<1>1. \A d \in Section : CreditsOf[d] \in Nat
  BY CatalogAssumption DEF CreditsOf
<1>2. PICK sum \in [SUBSET Section -> Nat] :
        \A r \in SUBSET Section : sum[r] = SumStep(CreditsOf, r, sum)
  BY <1>1, SectionAssumption, SumExists
<1>3. ASSUME NEW enr, NEW s, NEW sem
      PROVE  Load(enr, s, sem) = sum[Timetable(enr, s, sem)]
  <2> DEFINE T == Timetable(enr, s, sem)
             F(g) == [r \in SUBSET T |-> IF r = {} THEN 0
                        ELSE Credits[CourseOf[CHOOSE x \in r : TRUE]]
                               + g[r \ {CHOOSE x \in r : TRUE}]]
  <2>1. Load(enr, s, sem) = (CHOOSE g : g = F(g))[T]
    BY DEF Load, MapThenSumSet, MapThenFoldSet
  <2>2. T \in SUBSET Section /\ IsFiniteSet(T)
    BY SectionAssumption, FS_Subset DEF Timetable
  <2> HIDE DEF T
  <2>3. ASSUME NEW g PROVE F(g) = [r \in SUBSET T |-> SumStep(CreditsOf, r, g)]
    <3>1. ASSUME NEW r \in SUBSET T, r # {}
          PROVE  CreditsOf[CHOOSE x \in r : TRUE] = Credits[CourseOf[CHOOSE x \in r : TRUE]]
      <4>1. (CHOOSE x \in r : TRUE) \in Section
        BY <2>2, <3>1
      <4> QED BY <4>1 DEF CreditsOf
    <3> QED BY <3>1 DEF SumStep
  <2> HIDE DEF F
  <2> DEFINE part == [r \in SUBSET T |-> sum[r]]
  <2>4. part = F(part)
    <3>1. ASSUME NEW r \in SUBSET T PROVE part[r] = SumStep(CreditsOf, r, part)
      <4>1. r \in SUBSET Section /\ sum[r] = SumStep(CreditsOf, r, sum)
        BY <1>2, <2>2
      <4>2. part[r] = sum[r] /\ \A x : part[r \ {x}] = sum[r \ {x}]
        OBVIOUS
      <4> HIDE DEF part
      <4> QED BY <4>1, <4>2 DEF SumStep
    <3>2. part = [r \in SUBSET T |-> part[r]]
      OBVIOUS
    <3> HIDE DEF part
    <3>3. part = [r \in SUBSET T |-> SumStep(CreditsOf, r, part)]
      BY <3>1, <3>2
    <3> QED BY <2>3, <3>3
  <2> DEFINE iter == CHOOSE g : g = F(g)
  <2>5. iter = F(iter)
    <3> HIDE DEF part
    <3> QED BY <2>4
  <2> HIDE DEF iter
  <2>6. \A r \in SUBSET T : iter[r] = SumStep(CreditsOf, r, iter)
    <3>1. iter = [r \in SUBSET T |-> SumStep(CreditsOf, r, iter)]
      BY <2>3, <2>5
    <3> QED BY <3>1
  <2> HIDE DEF part
  <2>7. T \subseteq Section /\ IsSum(sum, Section, CreditsOf) /\ IsSum(iter, T, CreditsOf)
    BY <1>2, <2>2, <2>6 DEF IsSum
  <2>8. iter[T] = sum[T]
    BY <2>7, SectionAssumption, SumsAgree
  <2> QED BY <2>1, <2>8 DEF iter, T
<1> QED BY <1>2, <1>3

LEMMA StepKeepsLimits ==
  ASSUME Structural, [Next]_vars, NEW s \in Student, NEW c \in Section,
         enrollment[c][s] \notin SeatConsuming, enrollment'[c][s] \in SeatConsuming
  PROVE  Load(enrollment', s, SemesterOf[c]) <= CreditLimit(c)
<1>1. ~KeepsSeats
  BY DEF KeepsSeats
<1>2. PICK e \in Section, enr \in Tables, given \in SUBSET Student : GivesSeats(e, enr, given)
  BY <1>1, EveryStepGivesOrKeeps
<1>3. e = c /\ s \in given
  BY <1>2, SeatsAfter DEF GivesSeats
<1> DEFINE sem == SemesterOf[c]
           before == Timetable(enr, s, sem)
           after == Timetable(enrollment', s, sem)
<1>4. enr[c][s] = NoRow /\ WithinCreditLimit(enr, s, c)
  BY <1>2, <1>3 DEF GivesSeats, Claimable, Eligible
<1>5. c \notin before /\ before \in SUBSET Section /\ after \in SUBSET Section
  BY <1>4, NotARow DEF Timetable
<1>6. after = before \cup {c}
  <2>1. \A d \in Section \ {c} : enrollment'[d] = enr[d]
    BY <1>2, <1>3 DEF GivesSeats, Tables
  <2>2. enrollment'[c][s] \in SeatConsuming
    OBVIOUS
  <2> QED BY <2>1, <2>2, <1>3 DEF Timetable
<1>7. PICK sum \in [SUBSET Section -> Nat] :
        /\ \A r \in SUBSET Section : sum[r] = SumStep(CreditsOf, r, sum)
        /\ \A t, u, v : Load(t, u, v) = sum[Timetable(t, u, v)]
  BY LoadsAreSums
<1>8. Load(enr, s, sem) = sum[before] /\ Load(enrollment', s, sem) = sum[after]
  BY <1>7
<1>9. \A d \in Section : CreditsOf[d] \in Nat
  BY CatalogAssumption DEF CreditsOf
<1> HIDE DEF before, after, sem
<1>10. sum[after] = CreditsOf[c] + sum[after \ {c}]
  BY <1>5, <1>6, <1>7, <1>9, SectionAssumption, SumTakesOut
<1>11. after \ {c} = before
  BY <1>5, <1>6
<1>12. Load(enr, s, sem) + CreditsOf[c] <= CreditLimit(c)
  BY <1>4 DEF WithinCreditLimit, CreditsOf, sem
<1>13. sum[before] \in Nat /\ CreditsOf[c] \in Nat /\ CreditLimit(c) \in Nat
  BY <1>5, <1>7, <1>9, CatalogAssumption DEF CreditLimit
<1>14. sum[after] = CreditsOf[c] + sum[before] /\ sum[before] + CreditsOf[c] <= CreditLimit(c)
  BY <1>8, <1>10, <1>11, <1>12
<1>15. sum[after] <= CreditLimit(c)
  BY <1>13, <1>14
<1> QED BY <1>8, <1>15 DEF sem

(* Whoever is given a seat holds no more credits in the semester, the new    *)
(* section's included, than its limit: the sum that assertCreditLimit reads  *)
(* before it inserts is the one there is when the seat is given.             *)
THEOREM LimitsAlwaysKept == Spec => CreditLoadWithinLimit
<1>1. Structural /\ [Next]_vars =>
        [\A s \in Student, c \in Section :
           enrollment[c][s] \notin SeatConsuming /\ enrollment'[c][s] \in SeatConsuming
             => Load(enrollment', s, SemesterOf[c]) <= CreditLimit(c)]_vars
  BY StepKeepsLimits
<1> QED BY AlwaysStructural, <1>1, PTL DEF Spec, CreditLoadWithinLimit

-----------------------------------------------------------------------------
(* The counter. *)

LEMMA CommitCounts ==
  ASSUME Structural, EnrolledCountInSync, NEW c \in Section, NEW enr \in Tables, NEW wl,
         \A d \in Section \ {c} : enr[d] = enrollment[d],
         Commit(c, enr, wl, Cardinality(SeatHolders(enr, c)))
  PROVE  EnrolledCountInSync'
<1> SUFFICES ASSUME NEW d \in Section PROVE enrolledCount'[d] = SeatsTaken(d)'
  BY DEF EnrolledCountInSync
<1>1. enrollment' = enr /\ SeatsTaken(d)' = Cardinality(SeatHolders(enr, d))
  BY DEF Commit, SeatsTaken, SeatHolders
<1>2. enrolledCount' = [enrolledCount EXCEPT ![c] = Cardinality(SeatHolders(enr, c))]
      /\ enrolledCount \in [Section -> Nat]
  BY DEF Commit, Structural, TypeOK
<1>3. CASE d = c
  BY <1>1, <1>2, <1>3
<1>4. CASE d # c
  <2>1. SeatHolders(enr, d) = SeatHolders(enrollment, d)
    BY <1>4 DEF SeatHolders
  <2> QED BY <1>1, <1>2, <1>4, <2>1 DEF EnrolledCountInSync, SeatsTaken
<1> QED BY <1>3, <1>4

(* A step that leaves counters and seats alone. *)
LEMMA SameSeatsCount ==
  ASSUME EnrolledCountInSync, KeepsSeats, enrolledCount' = enrolledCount
  PROVE  EnrolledCountInSync'
<1>1. ASSUME NEW c \in Section
      PROVE  SeatHolders(enrollment', c) = SeatHolders(enrollment, c)
  BY DEF KeepsSeats, SeatHolders
<1> QED BY <1>1 DEF EnrolledCountInSync, SeatsTaken, SeatHolders

LEMMA HandOverCounts ==
  ASSUME Structural, EnrolledCountInSync, NEW c \in Section, NEW enr \in Tables,
         \A d \in Section \ {c} : enr[d] = enrollment[d],
         HandleSeatAvailability(c, enr)
  PROVE  EnrolledCountInSync'
<1> DEFINE promoted == WithPromotions(enr, c)
<1>1. promoted \in Tables
  BY HandOverRows
<1>2. \A d \in Section \ {c} : promoted[d] = enrollment[d]
  BY DEF WithPromotions, Tables
<1>3. Commit(c, promoted, AfterPromotions(enr, c), Cardinality(SeatHolders(promoted, c)))
  BY DEF HandleSeatAvailability
<1> HIDE DEF promoted
<1> QED BY <1>1, <1>2, <1>3, CommitCounts

(* One more seat, given by hand, is one more to count. *)
LEMMA OneMoreSeat ==
  ASSUME Structural, NEW c \in Section, NEW s \in Student, enrollment[c][s] = NoRow
  PROVE  LET enr == [enrollment EXCEPT ![c][s] = "PENDING"] IN
         /\ enr \in Tables
         /\ \A d \in Section \ {c} : enr[d] = enrollment[d]
         /\ Cardinality(SeatHolders(enr, c)) = SeatsTaken(c) + 1
<1> DEFINE enr == [enrollment EXCEPT ![c][s] = "PENDING"]
<1>1. enr \in Tables /\ \A d \in Section \ {c} : enr[d] = enrollment[d]
  BY DEF Structural, TypeOK, Tables, EnrollmentStatus
<1>2. SeatHolders(enr, c) = SeatHolders(enrollment, c) \cup {s}
  BY DEF SeatHolders, SeatConsuming, Structural, TypeOK
<1>3. s \notin SeatHolders(enrollment, c)
  BY NotARow DEF SeatHolders
<1>4. IsFiniteSet(SeatHolders(enrollment, c))
  BY CountIsNat DEF SeatHolders
<1> QED BY <1>1, <1>2, <1>3, <1>4, FS_AddElement DEF SeatsTaken

LEMMA StudentOperationCounts ==
  ASSUME Structural, EnrolledCountInSync, NEW c \in Section, NEW s \in Student,
         StudentOperation(s, c)
  PROVE  EnrolledCountInSync'
<1>1. CASE EnrollSeated(s, c)
  <2> DEFINE enr == [enrollment EXCEPT ![c][s] = "PENDING"]
  <2>1. enr \in Tables /\ (\A d \in Section \ {c} : enr[d] = enrollment[d])
        /\ Cardinality(SeatHolders(enr, c)) = SeatsTaken(c) + 1
    BY <1>1, OneMoreSeat DEF EnrollSeated, MayEnroll
  <2>2. enrollment' = enr /\ enrolledCount' = [enrolledCount EXCEPT ![c] = SeatsTaken(c) + 1]
    BY <1>1 DEF EnrollSeated
  <2>3. enrolledCount \in [Section -> Nat]
    BY DEF Structural, TypeOK
  <2> HIDE DEF enr
  <2> SUFFICES ASSUME NEW d \in Section PROVE enrolledCount'[d] = SeatsTaken(d)'
    BY DEF EnrolledCountInSync
  <2>4. SeatsTaken(d)' = Cardinality(SeatHolders(enr, d))
    BY <2>2 DEF SeatsTaken, SeatHolders
  <2>5. CASE d = c
    BY <2>1, <2>2, <2>3, <2>4, <2>5
  <2>6. CASE d # c
    <3>1. SeatHolders(enr, d) = SeatHolders(enrollment, d)
      BY <2>1, <2>6 DEF SeatHolders
    <3> QED BY <2>2, <2>3, <2>4, <2>6, <3>1 DEF EnrolledCountInSync, SeatsTaken
  <2> QED BY <2>5, <2>6
<1>2. CASE EnrollWaitlisted(s, c)
  <2>1. enrolledCount' = enrolledCount /\ enrollment' = enrollment
    BY <1>2 DEF EnrollWaitlisted, EnrolledCountInSync, Structural, TypeOK
  <2> QED BY <2>1, SameSeatsCount DEF KeepsSeats
<1>3. CASE DropEnrollment(s, c)
  BY <1>3, WithoutRowLoses, HandOverCounts DEF DropEnrollment
<1>4. CASE RemoveWaitlistEntry(s, c)
  BY <1>4, SameSeatsCount DEF RemoveWaitlistEntry, KeepsSeats
<1> QED BY <1>1, <1>2, <1>3, <1>4 DEF StudentOperation

LEMMA AdminOperationCounts ==
  ASSUME Structural, EnrolledCountInSync, NEW c \in Section, NEW s \in Student,
         AdminOperation(s, c)
  PROVE  EnrolledCountInSync'
<1>1. CASE PromoteWaitlistEntry(s, c)
  <2> DEFINE enr == [enrollment EXCEPT ![c][s] = "PENDING"]
             wl == [waitlist[c] EXCEPT ![s] = "CONVERTED"]
  <2>1. enr \in Tables /\ (\A d \in Section \ {c} : enr[d] = enrollment[d])
        /\ Cardinality(SeatHolders(enr, c)) = SeatsTaken(c) + 1
    BY <1>1, OneMoreSeat DEF PromoteWaitlistEntry, Claimable
  <2>2. Commit(c, enr, wl, SeatsTaken(c) + 1)
    BY <1>1 DEF PromoteWaitlistEntry
  <2> HIDE DEF enr, wl
  <2> QED BY <2>1, <2>2, CommitCounts
<1>2. ASSUME NEW next \in Targets[c], UpdateKeepingSeat(s, c, next)
      PROVE  EnrolledCountInSync'
  <2>1. enrolledCount' = enrolledCount
    BY <1>2 DEF UpdateKeepingSeat
  <2>2. next \in SeatConsuming /\ enrollment[c][s] \in SeatConsuming
    BY <1>2 DEF UpdateKeepingSeat, ValidTransitions, SeatConsuming
  <2>3. KeepsSeats
    BY <1>2, <2>2, NotARow DEF UpdateKeepingSeat, KeepsSeats, Structural, TypeOK
  <2> QED BY <2>1, <2>3, SameSeatsCount
<1>3. ASSUME NEW next \in Targets[c], UpdateReleasingSeat(s, c, next)
      PROVE  EnrolledCountInSync'
  <2> DEFINE enr == [enrollment EXCEPT ![c][s] = next]
  <2>1. next \in EnrollmentStatus
    BY <1>3 DEF UpdateReleasingSeat, ValidTransitions, EnrollmentStatus
  <2>2. enr \in Tables /\ \A d \in Section \ {c} : enr[d] = enrollment[d]
    BY <2>1 DEF Structural, TypeOK, Tables
  <2>3. HandleSeatAvailability(c, enr)
    BY <1>3 DEF UpdateReleasingSeat
  <2> HIDE DEF enr
  <2> QED BY <2>2, <2>3, HandOverCounts
<1>4. CASE RemoveSeated(s, c)
  BY <1>4, WithoutRowLoses, HandOverCounts DEF RemoveSeated
<1>5. CASE RemoveUnseated(s, c)
  <2>1. enrolledCount' = enrolledCount
    BY <1>5 DEF RemoveUnseated
  <2>2. ASSUME NEW d \in Section
        PROVE  SeatHolders(enrollment', d) = SeatHolders(enrollment, d)
    BY <1>5, NotARow DEF RemoveUnseated, WithoutRow, SeatHolders, Structural, TypeOK
  <2> QED BY <2>1, <2>2 DEF EnrolledCountInSync, SeatsTaken, SeatHolders
<1> QED BY <1>1, <1>2, <1>3, <1>4, <1>5 DEF AdminOperation

LEMMA StepCounts ==
  ASSUME Structural, [Next]_vars, EnrolledCountInSync
  PROVE  EnrolledCountInSync'
<1>1. CASE UNCHANGED <<enrollment, enrolledCount>>
  BY <1>1, SameSeatsCount DEF KeepsSeats
<1> QED BY <1>1, StudentOperationCounts, AdminOperationCounts
       DEF Next, Tick, UpdateSection, vars

(* The denormalised enrolledCount equals the seats it stands for after every *)
(* committed operation (syncSectionEnrolledCount and its four callers).      *)
THEOREM CounterNeverDrifts == Spec => []EnrolledCountInSync
<1>1. Init => EnrolledCountInSync
  <2> SUFFICES ASSUME Init, NEW c \in Section PROVE enrolledCount[c] = SeatsTaken(c)
    BY DEF EnrolledCountInSync
  <2>1. SeatHolders(enrollment, c) = {}
    BY NotARow DEF Init, SeatHolders
  <2> QED BY <2>1, FS_EmptySet DEF Init, SeatsTaken
<1> QED BY AlwaysStructural, StepCounts, <1>1, PTL DEF Spec

-----------------------------------------------------------------------------
(* Waiting and being enrolled. *)

(* A hand-over in section c keeps those who go on waiting without a row. *)
LEMMA HandOverSeparates ==
  ASSUME Structural, NeverQueuedAndEnrolled, NEW c \in Section, NEW enr \in Tables,
         \A d \in Section \ {c} : enr[d] = enrollment[d],
         \A s \in Student : enrollment[c][s] = NoRow => enr[c][s] = NoRow,
         HandleSeatAvailability(c, enr)
  PROVE  NeverQueuedAndEnrolled'
<1>1. /\ enrollment' = WithPromotions(enr, c)
      /\ waitlist' = [waitlist EXCEPT ![c] = AfterPromotions(enr, c)]
  BY DEF HandleSeatAvailability, Commit
<1> SUFFICES ASSUME NEW d \in Section, NEW s \in Student, waitlist'[d][s] = "ACTIVE"
             PROVE  enrollment'[d][s] = NoRow
  BY DEF NeverQueuedAndEnrolled
<1>2. CASE d # c
  BY <1>1, <1>2 DEF WithPromotions, Tables, NeverQueuedAndEnrolled, Structural, TypeOK
<1>3. CASE d = c
  <2>1. AfterPromotions(enr, c)[s] = "ACTIVE"
    BY <1>1, <1>3 DEF Structural, TypeOK
  <2>2. waitlist[c][s] = "ACTIVE" /\ s \notin Promoted(enr, c)
    BY <2>1 DEF AfterPromotions
  <2>3. enr[c][s] = NoRow
    BY <2>2 DEF NeverQueuedAndEnrolled
  <2>4. enrollment'[c][s] = enr[c][s]
    BY <1>1, <2>2 DEF WithPromotions, Tables
  <2> QED BY <1>3, <2>3, <2>4
<1> QED BY <1>2, <1>3

LEMMA StepSeparates ==
  ASSUME Structural, [Next]_vars, NeverQueuedAndEnrolled
  PROVE  NeverQueuedAndEnrolled'
<1>1. CASE UNCHANGED <<enrollment, waitlist>>
  BY <1>1 DEF NeverQueuedAndEnrolled
<1>2. ASSUME NEW c \in Section, NEW s \in Student, StudentOperation(s, c)
      PROVE  NeverQueuedAndEnrolled'
  <2>1. CASE EnrollSeated(s, c) \/ EnrollWaitlisted(s, c)
    <3>1. waitlist[c][s] = NoRow /\ enrollment[c][s] = NoRow /\ NoRow # "ACTIVE"
      BY <2>1, RowAssumption DEF EnrollSeated, EnrollWaitlisted, MayEnroll, WaitlistStatus
    <3>2. CASE waitlist' = waitlist /\ enrollment' = [enrollment EXCEPT ![c][s] = "PENDING"]
      BY <3>1, <3>2 DEF NeverQueuedAndEnrolled, Structural, TypeOK
    <3>3. CASE enrollment' = enrollment /\ waitlist' = [waitlist EXCEPT ![c][s] = "ACTIVE"]
      BY <3>1, <3>3 DEF NeverQueuedAndEnrolled, Structural, TypeOK
    <3> QED BY <2>1, <3>2, <3>3 DEF EnrollSeated, EnrollWaitlisted
  <2>2. CASE DropEnrollment(s, c)
    BY <2>2, WithoutRowLoses, HandOverSeparates DEF DropEnrollment
  <2>3. CASE RemoveWaitlistEntry(s, c)
    BY <2>3, RowAssumption
       DEF RemoveWaitlistEntry, NeverQueuedAndEnrolled, Structural, TypeOK, WaitlistStatus
  <2> QED BY <1>2, <2>1, <2>2, <2>3 DEF StudentOperation
<1>3. ASSUME NEW c \in Section, NEW s \in Student, AdminOperation(s, c)
      PROVE  NeverQueuedAndEnrolled'
  <2>1. CASE PromoteWaitlistEntry(s, c)
    <3>1. /\ enrollment' = [enrollment EXCEPT ![c][s] = "PENDING"]
          /\ waitlist' = [waitlist EXCEPT ![c] = [waitlist[c] EXCEPT ![s] = "CONVERTED"]]
      BY <2>1 DEF PromoteWaitlistEntry, Commit
    <3> QED BY <3>1 DEF NeverQueuedAndEnrolled, Structural, TypeOK
  <2>2. ASSUME NEW next \in Targets[c], UpdateKeepingSeat(s, c, next)
        PROVE  NeverQueuedAndEnrolled'
    <3>1. enrollment[c][s] # NoRow
      BY <2>2, NotARow DEF UpdateKeepingSeat, ValidTransitions, SeatConsuming
    <3> QED BY <2>2, <3>1 DEF UpdateKeepingSeat, NeverQueuedAndEnrolled, Structural, TypeOK
  <2>3. ASSUME NEW next \in Targets[c], UpdateReleasingSeat(s, c, next)
        PROVE  NeverQueuedAndEnrolled'
    <3> DEFINE enr == [enrollment EXCEPT ![c][s] = next]
    <3>1. next \in EnrollmentStatus /\ enrollment[c][s] # NoRow
      BY <2>3, NotARow DEF UpdateReleasingSeat, ValidTransitions, EnrollmentStatus, SeatConsuming
    <3>2. enr \in Tables /\ \A d \in Section \ {c} : enr[d] = enrollment[d]
      BY <3>1 DEF Structural, TypeOK, Tables
    <3>3. \A t \in Student : enrollment[c][t] = NoRow => enr[c][t] = NoRow
      BY <3>1 DEF Structural, TypeOK
    <3>4. HandleSeatAvailability(c, enr)
      BY <2>3 DEF UpdateReleasingSeat
    <3> HIDE DEF enr
    <3> QED BY <3>2, <3>3, <3>4, HandOverSeparates
  <2>4. CASE RemoveSeated(s, c)
    BY <2>4, WithoutRowLoses, HandOverSeparates DEF RemoveSeated
  <2>5. CASE RemoveUnseated(s, c)
    BY <2>5 DEF RemoveUnseated, WithoutRow, NeverQueuedAndEnrolled, Structural, TypeOK
  <2> QED BY <1>3, <2>1, <2>2, <2>3, <2>4, <2>5 DEF AdminOperation
<1> QED BY <1>1, <1>2, <1>3 DEF Next, Tick, UpdateSection, vars

(* Nobody waits for a section they have an enrollment in, so the branches of *)
(* promoteWaitlistEntry and handleSeatAvailability for that case are never   *)
(* taken.                                                                    *)
THEOREM QueuedAreNotEnrolled == Spec => []NeverQueuedAndEnrolled
<1>1. Init => NeverQueuedAndEnrolled
  BY RowAssumption DEF Init, NeverQueuedAndEnrolled
<1> QED BY AlwaysStructural, StepSeparates, <1>1, PTL DEF Spec

-----------------------------------------------------------------------------
(* Messages. *)

(* The messages a step starts about one student and section say what it did *)
(* to their rows: "confirmed" and "promoted" go with a new enrollment,       *)
(* "waitlisted" with a new place, "dropped" with an enrollment given up.     *)
NoticesFit(c, s) ==
  LET born == enrollment[c][s] = NoRow /\ enrollment'[c][s] # NoRow
      queued == waitlist[c][s] = NoRow /\ waitlist'[c][s] # NoRow
      waited == waitlist[c][s] = "ACTIVE"
      Told(template) == Notice(template, s, c) \in notices'
  IN /\ Told("enrollment.confirmed") <=> born /\ ~waited
     /\ Told("enrollment.promoted") <=> born /\ waited
     /\ Told("enrollment.waitlisted") <=> queued
     /\ Told("enrollment.dropped") =>
          enrollment[c][s] \in SeatConsuming /\ enrollment'[c][s] \in {NoRow, "DROPPED"}
     /\ enrollment[c][s] \in {NoRow, "DROPPED"} =>
          born \/ enrollment'[c][s] \in {NoRow, "DROPPED"}
     /\ waitlist'[c][s] = "ACTIVE" => (waited /\ ~born) \/ queued
     /\ waitlist'[c][s] = "CONVERTED" => waitlist[c][s] = "CONVERTED" \/ (born /\ waited)

LEMMA NoticesDiffer ==
  \A t, u, s, r, c, d : Notice(t, s, c) = Notice(u, r, d) <=> t = u /\ s = r /\ c = d
BY DEF Notice

LEMMA RowsAreNamed ==
  NoRow \notin EnrollmentStatus \cup {"ACTIVE", "CONVERTED", "EXPIRED", "CANCELLED"}
BY RowAssumption DEF WaitlistStatus

(* Nobody is told when no row is made and none leaves its final status. *)
LEMMA SilenceFits ==
  ASSUME notices' = {}, NEW c \in Section, NEW s \in Student,
         enrollment[c][s] \in {NoRow, "DROPPED"} => enrollment'[c][s] \in {NoRow, "DROPPED"},
         enrollment[c][s] = NoRow => enrollment'[c][s] = NoRow,
         waitlist'[c][s] = waitlist[c][s] \/ waitlist'[c][s] = NoRow
  PROVE  NoticesFit(c, s)
BY RowsAreNamed DEF NoticesFit

LEMMA EnrollNotices ==
  ASSUME Structural, NEW c \in Section, NEW s \in Student,
         EnrollSeated(s, c) \/ EnrollWaitlisted(s, c), NEW d \in Section, NEW t \in Student
  PROVE  NoticesFit(d, t)
<1>1. enrollment[c][s] = NoRow /\ waitlist[c][s] = NoRow /\ NoRow # "ACTIVE"
  BY RowAssumption DEF EnrollSeated, EnrollWaitlisted, MayEnroll, WaitlistStatus
<1>2. CASE EnrollSeated(s, c)
  <2>1. /\ waitlist' = waitlist /\ notices' = {Notice("enrollment.confirmed", s, c)}
        /\ enrollment' = [enrollment EXCEPT ![c][s] = "PENDING"]
    BY <1>2 DEF EnrollSeated
  <2>2. enrollment'[d][t] = IF d = c /\ t = s THEN "PENDING" ELSE enrollment[d][t]
    BY <2>1 DEF Structural, TypeOK
  <2>3. \A u : Notice(u, t, d) \in notices' <=> u = "enrollment.confirmed" /\ t = s /\ d = c
    BY <2>1, NoticesDiffer
  <2> QED BY <1>1, <2>1, <2>2, <2>3, NotARow DEF NoticesFit, SeatConsuming
<1>3. CASE EnrollWaitlisted(s, c)
  <2>1. /\ enrollment' = enrollment /\ notices' = {Notice("enrollment.waitlisted", s, c)}
        /\ waitlist' = [waitlist EXCEPT ![c][s] = "ACTIVE"]
    BY <1>3 DEF EnrollWaitlisted
  <2>2. waitlist'[d][t] = IF d = c /\ t = s THEN "ACTIVE" ELSE waitlist[d][t]
    BY <2>1 DEF Structural, TypeOK
  <2>3. \A u : Notice(u, t, d) \in notices' <=> u = "enrollment.waitlisted" /\ t = s /\ d = c
    BY <2>1, NoticesDiffer
  <2> QED BY <1>1, <2>1, <2>2, <2>3 DEF NoticesFit
<1> QED BY <1>2, <1>3

(* A hand-over tells the promoted, and s of the enrollment it gave up or     *)
(* nothing.                                                                  *)
LEMMA HandOverNotices ==
  ASSUME Structural, NeverQueuedAndEnrolled, NEW c \in Section, NEW s \in Student,
         NEW enr \in Tables, NEW told \in SUBSET {Notice("enrollment.dropped", s, c)},
         \A d \in Section \ {c} : enr[d] = enrollment[d],
         \A t \in Student \ {s} : enr[c][t] = enrollment[c][t],
         enrollment[c][s] \in SeatConsuming,
         told # {} => enr[c][s] \in {NoRow, "DROPPED"},
         HandleSeatAvailability(c, enr), notices' = PromotionNotices(enr, c) \cup told,
         NEW d \in Section, NEW t \in Student
  PROVE  NoticesFit(d, t)
<1> DEFINE P == Promoted(enr, c)
<1>1. /\ enrollment' = WithPromotions(enr, c)
      /\ waitlist' = [waitlist EXCEPT ![c] = AfterPromotions(enr, c)]
  BY DEF HandleSeatAvailability, Commit
<1>2. enrollment'[d][t] = IF d = c /\ t \in P THEN "PENDING" ELSE enr[d][t]
  BY <1>1 DEF WithPromotions, Tables
<1>3. IF d = c /\ t \in P THEN waitlist'[d][t] = "CONVERTED"
      ELSE \/ waitlist'[d][t] = waitlist[d][t]
           \/ waitlist[d][t] = "ACTIVE" /\ waitlist'[d][t] \in {"EXPIRED", "CANCELLED"}
  <2>1. d # c => waitlist'[d] = waitlist[d]
    BY <1>1 DEF Structural, TypeOK
  <2>2. d = c => waitlist'[d][t] = AfterPromotions(enr, c)[t]
    BY <1>1 DEF Structural, TypeOK
  <2>3. Considered(enr, c) \subseteq Active(c) /\ P \subseteq Considered(enr, c)
    BY DEF Considered, Promoted
  <2>4. t \in Active(c) => waitlist[c][t] = "ACTIVE"
    BY DEF Active
  <2> QED BY <2>1, <2>2, <2>3, <2>4 DEF AfterPromotions
<1>4. \A u \in P : waitlist[c][u] = "ACTIVE" /\ enrollment[c][u] = NoRow /\ u # s
  <2>1. \A u \in P : u \in Student /\ waitlist[c][u] = "ACTIVE"
    BY DEF Promoted, Considered, Active
  <2> QED BY <2>1, NotARow DEF NeverQueuedAndEnrolled
<1>5. /\ Notice("enrollment.confirmed", t, d) \notin notices'
      /\ Notice("enrollment.waitlisted", t, d) \notin notices'
      /\ Notice("enrollment.dropped", t, d) \in notices' => t = s /\ d = c /\ told # {}
      /\ Notice("enrollment.promoted", t, d) \in notices' <=> t \in P /\ d = c
  BY NoticesDiffer DEF PromotionNotices
<1>6. "PENDING" \in SeatConsuming
  BY DEF SeatConsuming
<1> HIDE DEF P
<1>7. CASE d = c /\ t \in P
  BY <1>2, <1>3, <1>4, <1>5, <1>6, <1>7, NotARow, RowsAreNamed DEF NoticesFit
<1>8. CASE d = c /\ t = s
  <2>1. t \notin P /\ enrollment'[d][t] = enr[c][s] /\ enrollment[d][t] \notin {NoRow, "DROPPED"}
    BY <1>2, <1>4, <1>8, NotARow DEF SeatConsuming
  <2>2. Notice("enrollment.promoted", t, d) \notin notices'
    BY <1>5, <2>1
  <2> QED BY <1>3, <1>5, <1>8, <2>1, <2>2, RowsAreNamed DEF NoticesFit
<1>9. CASE d # c \/ (t # s /\ t \notin P)
  <2>1. enrollment'[d][t] = enrollment[d][t]
    BY <1>2, <1>9
  <2>2. /\ Notice("enrollment.promoted", t, d) \notin notices'
        /\ Notice("enrollment.dropped", t, d) \notin notices'
    BY <1>5, <1>9
  <2> QED BY <1>3, <1>5, <1>9, <2>1, <2>2, RowsAreNamed DEF NoticesFit
<1> QED BY <1>7, <1>8, <1>9

LEMMA ReleaseNotices ==
  ASSUME Structural, NeverQueuedAndEnrolled, NEW c \in Section, NEW s \in Student,
         DropEnrollment(s, c) \/ RemoveSeated(s, c)
           \/ \E next \in Targets[c] : UpdateReleasingSeat(s, c, next),
         NEW d \in Section, NEW t \in Student
  PROVE  NoticesFit(d, t)
<1>1. CASE DropEnrollment(s, c) \/ RemoveSeated(s, c)
  <2> DEFINE enr == WithoutRow(enrollment, c, s)
  <2>1. enrollment[c][s] \in SeatConsuming /\ HandleSeatAvailability(c, enr)
    BY <1>1 DEF DropEnrollment, RemoveSeated, Droppable, SeatConsuming
  <2>2. \E told \in SUBSET {Notice("enrollment.dropped", s, c)} :
          notices' = PromotionNotices(enr, c) \cup told
    <3>1. CASE DropEnrollment(s, c)
      <4>1. notices' = PromotionNotices(enr, c) \cup {Notice("enrollment.dropped", s, c)}
        BY <3>1 DEF DropEnrollment
      <4> QED BY <4>1
    <3>2. CASE RemoveSeated(s, c)
      <4>1. notices' = PromotionNotices(enr, c) \cup {}
        BY <3>2 DEF RemoveSeated
      <4> QED BY <4>1
    <3> QED BY <1>1, <3>1, <3>2
  <2>3. enr \in Tables /\ \A e \in Section \ {c} : enr[e] = enrollment[e]
    BY WithoutRowLoses
  <2>4. (\A u \in Student \ {s} : enr[c][u] = enrollment[c][u]) /\ enr[c][s] = NoRow
    BY DEF WithoutRow, Structural, TypeOK
  <2> HIDE DEF enr
  <2> QED BY <2>1, <2>2, <2>3, <2>4, HandOverNotices
<1>2. ASSUME NEW next \in Targets[c], UpdateReleasingSeat(s, c, next)
      PROVE  NoticesFit(d, t)
  <2> DEFINE enr == [enrollment EXCEPT ![c][s] = next]
             told == {Notice("enrollment.dropped", s, c) : x \in {next} \cap {"DROPPED"}}
  <2>1. next \in EnrollmentStatus \ SeatConsuming /\ enrollment[c][s] \in SeatConsuming
    BY <1>2 DEF UpdateReleasingSeat, ValidTransitions, EnrollmentStatus, SeatConsuming
  <2>2. HandleSeatAvailability(c, enr) /\ notices' = PromotionNotices(enr, c) \cup told
    BY <1>2 DEF UpdateReleasingSeat
  <2>3. told \in SUBSET {Notice("enrollment.dropped", s, c)}
    OBVIOUS
  <2>4. enr \in Tables /\ \A e \in Section \ {c} : enr[e] = enrollment[e]
    BY <2>1 DEF Structural, TypeOK, Tables
  <2>5. (\A u \in Student \ {s} : enr[c][u] = enrollment[c][u]) /\ enr[c][s] = next
    BY <2>1 DEF Structural, TypeOK
  <2>6. told # {} => next = "DROPPED"
    OBVIOUS
  <2> HIDE DEF enr, told
  <2> QED BY <2>1, <2>2, <2>3, <2>4, <2>5, <2>6, HandOverNotices
<1> QED BY <1>1, <1>2

LEMMA PromotionIsTold ==
  ASSUME Structural, NEW c \in Section, NEW s \in Student, PromoteWaitlistEntry(s, c),
         NEW d \in Section, NEW t \in Student
  PROVE  NoticesFit(d, t)
<1>1. /\ enrollment' = [enrollment EXCEPT ![c][s] = "PENDING"]
      /\ waitlist' = [waitlist EXCEPT ![c] = [waitlist[c] EXCEPT ![s] = "CONVERTED"]]
      /\ notices' = {Notice("enrollment.promoted", s, c)}
      /\ waitlist[c][s] = "ACTIVE" /\ enrollment[c][s] = NoRow
  BY DEF PromoteWaitlistEntry, Commit, Claimable, Active
<1>2. /\ enrollment'[d][t] = IF d = c /\ t = s THEN "PENDING" ELSE enrollment[d][t]
      /\ waitlist'[d][t] = IF d = c /\ t = s THEN "CONVERTED" ELSE waitlist[d][t]
  BY <1>1 DEF Structural, TypeOK
<1>3. \A u : Notice(u, t, d) \in notices' <=> u = "enrollment.promoted" /\ t = s /\ d = c
  BY <1>1, NoticesDiffer
<1> QED BY <1>1, <1>2, <1>3, NotARow, RowsAreNamed DEF NoticesFit, SeatConsuming

(* Whatever step starts messages, they say what it did to the rows. *)
LEMMA StepTells ==
  ASSUME Structural, NeverQueuedAndEnrolled, Next
  PROVE  \A c \in Section, s \in Student : NoticesFit(c, s)
<1> DEFINE Fits == \A c \in Section, s \in Student : NoticesFit(c, s)
<1>1. CASE notices' = {} /\ UNCHANGED <<enrollment, waitlist>>
  BY <1>1, SilenceFits
<1>2. ASSUME NEW c \in Section, NEW s \in Student, StudentOperation(s, c)
      PROVE  Fits
  <2>1. CASE RemoveWaitlistEntry(s, c)
    <3>1. /\ notices' = {} /\ enrollment' = enrollment
          /\ waitlist' = [waitlist EXCEPT ![c] = [waitlist[c] EXCEPT ![s] = NoRow]]
      BY <2>1 DEF RemoveWaitlistEntry
    <3>2. \A d \in Section, t \in Student :
            waitlist'[d][t] = waitlist[d][t] \/ waitlist'[d][t] = NoRow
      BY <3>1 DEF Structural, TypeOK
    <3> QED BY <3>1, <3>2, SilenceFits
  <2> QED BY <1>2, <2>1, EnrollNotices, ReleaseNotices DEF StudentOperation
<1>3. ASSUME NEW c \in Section, NEW s \in Student, AdminOperation(s, c)
      PROVE  Fits
  <2>1. ASSUME NEW next \in Targets[c], UpdateKeepingSeat(s, c, next)
        PROVE  Fits
    <3>1. /\ notices' = {} /\ waitlist' = waitlist
          /\ enrollment' = [enrollment EXCEPT ![c][s] = next]
          /\ enrollment[c][s] \notin {NoRow, "DROPPED"}
      BY <2>1, RowsAreNamed DEF UpdateKeepingSeat, ValidTransitions, SeatConsuming, EnrollmentStatus
    <3>2. \A d \in Section, t \in Student :
            enrollment[d][t] \in {NoRow, "DROPPED"} => enrollment'[d][t] = enrollment[d][t]
      BY <3>1 DEF Structural, TypeOK
    <3> QED BY <3>1, <3>2, SilenceFits
  <2>2. CASE RemoveUnseated(s, c)
    <3>1. notices' = {} /\ waitlist' = waitlist
      BY <2>2 DEF RemoveUnseated
    <3>2. \A d \in Section, t \in Student :
            enrollment'[d][t] = IF d = c /\ t = s THEN NoRow ELSE enrollment[d][t]
      BY <2>2 DEF RemoveUnseated, WithoutRow, Structural, TypeOK
    <3> QED BY <3>1, <3>2, SilenceFits
  <2> QED BY <1>3, <2>1, <2>2, PromotionIsTold, ReleaseNotices DEF AdminOperation
<1> QED BY <1>1, <1>2, <1>3 DEF Next, Tick, UpdateSection
=============================================================================
