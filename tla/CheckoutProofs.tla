---------------------------- MODULE CheckoutProofs ----------------------------
(***************************************************************************)
(* Checkouts, for any number of requests in progress, providers, keys,     *)
(* intents and payments, and for any signals in any order: what is charged *)
(* and announced once, and what no step takes back.                        *)
(***************************************************************************)
EXTENDS PaymentCheckout, DataProofs

(* What a request has read, by phase. *)
FindJob == [phase : {"find"}, attempt : Attempt, amount : 1..Total, draft : BOOLEAN]
CreateJob == [phase : {"create"}, attempt : Attempt, amount : 1..Total, draft : BOOLEAN,
              intent : Intent \cup {None}]
RetireJob == [phase : {"retire", "retiring"}, intent : Intent, status : {"EXPIRED", "CANCELLED"},
              next : {Idle} \cup {job \in CreateJob : job.intent = None}]
SignalJob == [phase : {"signal", "decide"}, attempt : Attempt, signal : SignalStatus,
              intent : Intent, seen : ActiveIntent \cup Final,
              seenAttempt : ActiveAttempt \cup Final, paid : BOOLEAN]
ChargeJob == [phase : {"charge"}, attempt : Attempt, intent : Intent, seen : ActiveIntent \cup Final,
              seenAttempt : ActiveAttempt \cup Final, paidSoFar : Nat]
AnnounceJob == [phase : {"announce"}, intent : Intent]
PayJob == [phase : {"pay", "settle"}, amount : Nat \ {0}, paidSoFar : Nat]

OwnsAttempt(job) == attempts[job.attempt] # None /\ attempts[job.attempt].intent = job.intent

(* A request works on rows that are still there, for neither intents nor   *)
(* attempts are deleted and an attempt stays with its intent; and one that *)
(* saw its intent paid, or succeeded, was right and so it stays.  Who made *)
(* a charge has yet to announce it.                                        *)
Sound(w) ==
  LET job == work[w] IN
  \/ job = Idle
  \/ job \in FindJob
  \/ job \in CreateJob /\ (job.intent # None => intents[job.intent] # None)
  \/ job \in RetireJob /\ intents[job.intent] # None
  \/ /\ job \in SignalJob /\ OwnsAttempt(job)
     /\ job.paid \/ job.seen = "SUCCEEDED" => PaymentsOf(job.intent) # {}
  \/ job \in ChargeJob /\ OwnsAttempt(job)
  \/ job \in AnnounceJob /\ PaymentsOf(job.intent) # {} /\ announced[job.intent] = 0
  \/ job \in PayJob

WorkSound == DOMAIN work = Worker /\ \A w \in Worker : Sound(w)

Announces(w) == work[w].phase = "announce"

ChargedOnce ==
  \A p, q \in Rows(payments) :
    payments[p].intent # None /\ payments[p].intent = payments[q].intent => p = q

AnnouncedOnce ==
  \A i \in Intent : announced[i] # 0 => announced[i] = 1 /\ PaymentsOf(i) # {}

OneAnnouncer ==
  \A w, v \in Worker : Announces(w) /\ Announces(v) /\ work[w].intent = work[v].intent => w = v

RowsInv == PayTypeOK /\ SucceededMeansPaid /\ ChargedOnce /\ AnnouncedOnce

CheckoutInv == RowsInv /\ WorkSound /\ OneAnnouncer

(* What no step takes back. *)
Grows ==
  /\ \A i \in Intent : intents[i] # None => intents'[i] # None
  /\ \A a \in Attempt : attempts[a] # None =>
       attempts'[a] # None /\ attempts'[a].intent = attempts[a].intent
  /\ \A p \in PaymentId : payments[p] # None /\ payments[p].intent # None => payments'[p] = payments[p]

(* The next id of a table with room is free. *)
LEMMA NextIdFree ==
  ASSUME NEW N \in Nat, NEW table, DOMAIN table = 1..N, HasRoom(table)
  PROVE  NextId(table) \in DOMAIN table /\ table[NextId(table)] = None
<1> DEFINE Free == DOMAIN table \ Rows(table)
<1>1. Free # {}
  BY DEF HasRoom, Rows
<1>2. \E k \in Free : \A j \in Free : k <= j
  <2>1. Free \subseteq Nat
    OBVIOUS
  <2> HIDE DEF Free
  <2> QED
    BY <1>1, <2>1, LeastNatural
<1>3. NextId(table) \in Free
  BY <1>2 DEF NextId
<1> QED
  BY <1>3 DEF Rows

LEMMA PaidAmountType ==
  ASSUME IsFiniteSet(DOMAIN payments), \A p \in Rows(payments) : payments[p].amount \in Nat
  PROVE  PaidAmount \in Nat
<1> DEFINE S == {p \in Rows(payments) : payments[p].status = "COMPLETED"}
           m == [p \in S |-> payments[p].amount]
           F(g) == [s \in SUBSET S |-> IF s = {} THEN 0
                      ELSE payments[CHOOSE x \in s : TRUE].amount + g[s \ {CHOOSE x \in s : TRUE}]]
<1>1. PaidAmount = (CHOOSE g : g = F(g))[S]
  BY DEF PaidAmount, MapThenSumSet, MapThenFoldSet
<1>2. IsFiniteSet(S)
  BY FS_Subset DEF Rows
<1>3. \A x \in S : m[x] \in Nat
  OBVIOUS
<1>4. ASSUME NEW g PROVE F(g) = [s \in SUBSET S |-> SumStep(m, s, g)]
  <2>1. ASSUME NEW s \in SUBSET S, s # {}
        PROVE  m[CHOOSE x \in s : TRUE] = payments[CHOOSE x \in s : TRUE].amount
    <3> HIDE DEF S
    <3>1. (CHOOSE x \in s : TRUE) \in S
      BY <2>1
    <3> QED
      BY <3>1
  <2> HIDE DEF S, m
  <2> QED
    BY <2>1 DEF SumStep
<1> HIDE DEF S, m, F
<1>5. PICK g \in [SUBSET S -> Nat] : \A s \in SUBSET S : g[s] = SumStep(m, s, g)
  BY <1>2, <1>3, SumExists
<1>6. g = F(g)
  <2>1. g = [s \in SUBSET S |-> SumStep(m, s, g)]
    BY <1>5
  <2> QED
    BY <2>1, <1>4
<1> DEFINE sum == CHOOSE h : h = F(h)
<1>7. sum = F(sum)
  BY <1>6
<1> HIDE DEF sum
<1>8. sum = [s \in SUBSET S |-> SumStep(m, s, sum)]
  BY <1>4, <1>7
<1>9. sum[S] \in Nat
  BY <1>2, <1>3, <1>8, SumIsNatural
<1> QED
  BY <1>1, <1>9 DEF sum


LEMMA PaidIsNatural == PayTypeOK => PaidAmount \in Nat
<1> SUFFICES ASSUME PayTypeOK PROVE PaidAmount \in Nat
  OBVIOUS
<1>1. DOMAIN payments = 1..MaxPayments /\ MaxPayments \in Nat
  BY BoundAssumption DEF PayTypeOK, PaymentId
<1>2. IsFiniteSet(DOMAIN payments)
  BY <1>1, FS_Interval
<1>3. \A p \in Rows(payments) : payments[p].amount \in Nat
  BY DEF PayTypeOK, Rows, PaymentRow
<1> QED
  BY <1>2, <1>3, PaidAmountType

LEMMA OutstandingType == PayTypeOK /\ Outstanding > 0 => Outstanding \in 1..Total
BY PaidIsNatural, InvoiceAssumption DEF Outstanding

LEMMA NewestIsLive ==
  ASSUME PayTypeOK, LiveIntents # {}
  PROVE  Max(LiveIntents) \in LiveIntents
<1>1. LiveIntents \in SUBSET (1..MaxIntents) /\ MaxIntents \in Nat
  BY BoundAssumption DEF PayTypeOK, LiveIntents, Rows, Intent
<1> QED
  BY <1>1, GreatestBelow

LEMMA InitCheckoutInv == PayInit => CheckoutInv
<1> SUFFICES ASSUME PayInit PROVE CheckoutInv
  OBVIOUS
<1>1. Rows(intents) = {} /\ Rows(attempts) = {} /\ Rows(payments) = {}
  BY DEF PayInit, Rows
<1>2. PayTypeOK
  BY <1>1 DEF PayInit, PayTypeOK, InvoiceStatus
<1>3. SucceededMeansPaid /\ ChargedOnce
  BY <1>1 DEF SucceededMeansPaid, ChargedOnce
<1>4. AnnouncedOnce
  BY DEF PayInit, AnnouncedOnce
<1>5. WorkSound
  BY DEF PayInit, WorkSound, Sound
<1>6. OneAnnouncer
  BY DEF PayInit, OneAnnouncer, Announces, Idle
<1> QED
  BY <1>2, <1>3, <1>4, <1>5, <1>6 DEF CheckoutInv, RowsInv

(* What was paid stays paid. *)
LEMMA PaidStays ==
  ASSUME Grows, PayTypeOK, PayTypeOK', NEW i \in Intent, PaymentsOf(i) # {}
  PROVE  PaymentsOf(i)' # {}
<1>1. PICK p \in PaymentId : payments[p] # None /\ payments[p].intent = i
  BY DEF PaymentsOf, Rows, PayTypeOK
<1>2. i # None
  BY BoundAssumption
<1>3. payments'[p] = payments[p]
  BY <1>1, <1>2 DEF Grows
<1>4. p \in PaymentsOf(i)'
  BY <1>1, <1>3 DEF PaymentsOf, Rows, PayTypeOK
<1> QED
  BY <1>4

(* A request that is not moved stays sound. *)
LEMMA OthersStaySound ==
  ASSUME CheckoutInv, PayTypeOK', Grows, NEW w \in Worker, Sound(w),
         work'[w] = work[w],
         Announces(w) => announced'[work[w].intent] = announced[work[w].intent]
  PROVE  Sound(w)'
<1> DEFINE job == work[w]
<1> USE DEF Idle
<1>1. CASE job = Idle
  BY <1>1 DEF Sound
<1>2. CASE job \in FindJob
  BY <1>2 DEF Sound
<1>3. CASE job \in CreateJob /\ (job.intent # None => intents[job.intent] # None)
  BY <1>3 DEF Sound, CreateJob, Grows
<1>4. CASE job \in RetireJob /\ intents[job.intent] # None
  BY <1>4 DEF Sound, RetireJob, Grows
<1>5. CASE /\ job \in SignalJob /\ OwnsAttempt(job)
           /\ job.paid \/ job.seen = "SUCCEEDED" => PaymentsOf(job.intent) # {}
  <2>1. job.attempt \in Attempt /\ job.intent \in Intent
    BY <1>5 DEF SignalJob
  <2>2. attempts'[job.attempt] # None /\ attempts'[job.attempt].intent = job.intent
    BY <1>5, <2>1 DEF OwnsAttempt, Grows
  <2>3. job.paid \/ job.seen = "SUCCEEDED" => PaymentsOf(work[w].intent)' # {}
    <3> SUFFICES ASSUME job.paid \/ job.seen = "SUCCEEDED" PROVE PaymentsOf(work[w].intent)' # {}
      OBVIOUS
    <3>1. PICK i \in Intent : i = job.intent
      BY <2>1
    <3>2. PaymentsOf(i) # {}
      BY <1>5, <3>1
    <3>3. PaymentsOf(i)' # {}
      BY <3>2, PaidStays DEF CheckoutInv, RowsInv
    <3> QED
      BY <3>1, <3>3
  <2> QED
    BY <1>5, <2>2, <2>3 DEF Sound, OwnsAttempt
<1>6. CASE job \in ChargeJob /\ OwnsAttempt(job)
  <2>1. job.attempt \in Attempt
    BY <1>6 DEF ChargeJob
  <2> QED
    BY <1>6, <2>1 DEF Sound, OwnsAttempt, Grows
<1>7. CASE job \in AnnounceJob /\ PaymentsOf(job.intent) # {} /\ announced[job.intent] = 0
  <2>1. PICK i \in Intent : i = job.intent
    BY <1>7 DEF AnnounceJob
  <2>2. PaymentsOf(i)' # {}
    BY <1>7, <2>1, PaidStays DEF CheckoutInv, RowsInv
  <2>3. announced'[i] = 0
    BY <1>7, <2>1 DEF Announces, AnnounceJob
  <2> QED
    BY <1>7, <2>1, <2>2, <2>3 DEF Sound
<1>8. CASE job \in PayJob
  BY <1>8 DEF Sound
<1> QED
  BY <1>1, <1>2, <1>3, <1>4, <1>5, <1>6, <1>7, <1>8 DEF Sound


LEMMA GoesTo ==
  ASSUME WorkSound, NEW w \in Worker, NEW next, Goes(w, next)
  PROVE  DOMAIN work' = Worker /\ work'[w] = next /\ \A v \in Worker \ {w} : work'[v] = work[v]
BY DEF WorkSound, Goes

(* What the step of one request leaves to show. *)
LEMMA OneMoves ==
  ASSUME CheckoutInv, PayTypeOK', Grows, NEW w \in Worker, DOMAIN work' = Worker, Sound(w)',
         \A v \in Worker \ {w} : work'[v] = work[v],
         \A v \in Worker \ {w} :
           Announces(v) => announced'[work[v].intent] = announced[work[v].intent],
         Announces(w)' =>
           \A v \in Worker \ {w} : Announces(v) => work[v].intent # work'[w].intent
  PROVE  WorkSound' /\ OneAnnouncer'
<1>1. ASSUME NEW v \in Worker PROVE Sound(v)'
  <2>1. CASE v = w
    BY <2>1
  <2>2. CASE v # w
    <3>1. Sound(v)
      BY DEF CheckoutInv, WorkSound
    <3> QED
      BY <2>2, <3>1, OthersStaySound
  <2> QED
    BY <2>1, <2>2
<1>2. WorkSound'
  BY <1>1 DEF WorkSound
<1>3. OneAnnouncer'
  BY DEF CheckoutInv, OneAnnouncer, Announces
<1> QED
  BY <1>2, <1>3

(* A step that only reads. *)
LEMMA OnlyReads ==
  ASSUME CheckoutInv, NEW w \in Worker, NEW next, Goes(w, next), next.phase # "announce",
         UNCHANGED <<invoice, intents, attempts, payments, announced>>, Sound(w)'
  PROVE  CheckoutInv' /\ Grows
<1>1. RowsInv'
  BY DEF CheckoutInv, RowsInv, PayTypeOK, SucceededMeansPaid, ChargedOnce, AnnouncedOnce,
         PaymentsOf, Rows
<1>2. Grows
  BY DEF Grows
<1>3. DOMAIN work' = Worker /\ work'[w] = next /\ \A v \in Worker \ {w} : work'[v] = work[v]
  BY GoesTo DEF CheckoutInv
<1>4. ~Announces(w)'
  BY <1>3 DEF Announces
<1>5. WorkSound' /\ OneAnnouncer'
  BY <1>1, <1>2, <1>3, <1>4, OneMoves DEF RowsInv
<1> QED
  BY <1>1, <1>2, <1>5 DEF CheckoutInv

LEMMA FailKeeps ==
  ASSUME CheckoutInv, NEW w \in Worker, Fail(w)
  PROVE  CheckoutInv' /\ Grows
<1>1. work'[w] = Idle
  BY GoesTo DEF Fail, CheckoutInv
<1>2. Sound(w)'
  BY <1>1 DEF Sound
<1> QED
  BY <1>2, OnlyReads DEF Fail, Idle

LEMMA BeginCheckoutKeeps ==
  ASSUME CheckoutInv, NEW w \in Worker, NEW a \in Attempt, BeginCheckout(w, a)
  PROVE  CheckoutInv' /\ Grows
<1> DEFINE next == [phase |-> "find", attempt |-> a, amount |-> Outstanding, draft |-> invoice = "DRAFT"]
<1>1. Goes(w, next)
  BY DEF BeginCheckout, Starts
<1>2. Outstanding \in 1..Total
  BY OutstandingType DEF BeginCheckout, CheckoutInv, RowsInv
<1>3. next \in FindJob
  BY <1>2 DEF FindJob
<1>4. work'[w] = next
  BY <1>1, GoesTo DEF CheckoutInv
<1>5. Sound(w)'
  BY <1>3, <1>4 DEF Sound, FindJob
<1> QED
  BY <1>1, <1>5, OnlyReads DEF BeginCheckout

LEMMA FindIntentKeeps ==
  ASSUME CheckoutInv, NEW w \in Worker, FindIntent(w)
  PROVE  CheckoutInv' /\ Grows
<1> DEFINE job == work[w]
           newest == Max(LiveIntents)
           Create(i) == [phase |-> "create", attempt |-> job.attempt, amount |-> job.amount,
                         draft |-> job.draft, intent |-> i]
<1>1. job \in FindJob
  BY DEF FindIntent, CheckoutInv, WorkSound, Sound, Idle, CreateJob, RetireJob, SignalJob, ChargeJob,
         AnnounceJob, PayJob
<1>2. Create(None) \in CreateJob
  BY <1>1 DEF FindJob, CreateJob
<1>3. ASSUME LiveIntents # {}
      PROVE  /\ newest \in Intent /\ intents[newest] # None
             /\ Create(newest) \in CreateJob
             /\ Retire(newest, "EXPIRED", Create(None)) \in RetireJob
             /\ Retire(newest, "CANCELLED", Create(None)) \in RetireJob
  <2>1. newest \in LiveIntents
    BY <1>3, NewestIsLive DEF CheckoutInv, RowsInv
  <2> HIDE DEF newest
  <2>2. newest \in Intent /\ intents[newest] # None
    BY <2>1 DEF LiveIntents, Rows, CheckoutInv, RowsInv, PayTypeOK
  <2>3. Create(newest) \in CreateJob
    BY <1>1, <2>2 DEF FindJob, CreateJob
  <2>4. /\ Retire(newest, "EXPIRED", Create(None)) \in RetireJob
        /\ Retire(newest, "CANCELLED", Create(None)) \in RetireJob
    BY <1>2, <2>2 DEF RetireJob, Retire
  <2> QED
    BY <2>2, <2>3, <2>4
<1> HIDE DEF newest
<1>4. PICK next :
        /\ Goes(w, next)
        /\ \/ next \in CreateJob /\ (next.intent # None => intents[next.intent] # None)
           \/ next \in RetireJob /\ intents[next.intent] # None
           \/ next = Idle
  <2>1. CASE LiveIntents = {} /\ Goes(w, Create(None))
    BY <2>1, <1>2
  <2>2. CASE LiveIntents # {} /\ Goes(w, Retire(newest, "EXPIRED", Create(None)))
    <3>1. Retire(newest, "EXPIRED", Create(None)).intent = newest
      BY DEF Retire
    <3> QED
      BY <2>2, <1>3, <3>1
  <2>3. CASE LiveIntents # {} /\ Goes(w, Create(newest))
    <3>1. Create(newest).intent = newest
      OBVIOUS
    <3> QED
      BY <2>3, <1>3, <3>1
  <2>4. CASE LiveIntents # {} /\ Goes(w, Retire(newest, "CANCELLED", Create(None)))
    <3>1. Retire(newest, "CANCELLED", Create(None)).intent = newest
      BY DEF Retire
    <3> QED
      BY <2>4, <1>3, <3>1
  <2>5. CASE Goes(w, Idle)
    BY <2>5
  <2> QED
    BY <2>1, <2>2, <2>3, <2>4, <2>5 DEF FindIntent, newest
<1>5. work'[w] = next
  BY <1>4, GoesTo DEF CheckoutInv
<1>6. UNCHANGED <<invoice, intents, attempts, payments, announced>>
  BY DEF FindIntent
<1>7. Sound(w)'
  <2>1. CASE next \in CreateJob /\ (next.intent # None => intents[next.intent] # None)
    BY <1>5, <1>6, <2>1 DEF Sound
  <2>2. CASE next \in RetireJob /\ intents[next.intent] # None
    BY <1>5, <1>6, <2>2 DEF Sound
  <2>3. CASE next = Idle
    BY <1>5, <2>3 DEF Sound
  <2> QED
    BY <1>4, <2>1, <2>2, <2>3
<1>8. next.phase # "announce"
  BY <1>4 DEF CreateJob, RetireJob, Idle
<1> QED
  BY <1>4, <1>6, <1>7, <1>8, OnlyReads

LEMMA ExpireOnReadKeeps ==
  ASSUME CheckoutInv, NEW w \in Worker, NEW i \in Intent, ExpireOnRead(w, i)
  PROVE  CheckoutInv' /\ Grows
<1> DEFINE next == Retire(i, "EXPIRED", Idle)
<1>1. Goes(w, next) /\ UNCHANGED <<invoice, intents, attempts, payments, announced>>
  BY DEF ExpireOnRead, Starts
<1>2. next \in RetireJob /\ next.intent = i /\ next.phase = "retire"
  BY DEF RetireJob, Retire
<1>3. intents[i] # None
  BY DEF ExpireOnRead, LiveIntents, Rows
<1>4. work'[w] = next
  BY <1>1, GoesTo DEF CheckoutInv
<1> HIDE DEF next
<1>5. Sound(w)'
  BY <1>1, <1>2, <1>3, <1>4 DEF Sound
<1> QED
  BY <1>1, <1>2, <1>5, OnlyReads

(* What a request has read is of the kind its phase says. *)
LEMMA ReadByPhase ==
  ASSUME CheckoutInv, NEW w \in Worker
  PROVE  /\ work[w].phase = "create" => work[w] \in CreateJob /\ (work[w].intent # None => intents[work[w].intent] # None)
         /\ work[w].phase \in {"retire", "retiring"} => work[w] \in RetireJob /\ intents[work[w].intent] # None
         /\ work[w].phase \in {"signal", "decide"} =>
              /\ work[w] \in SignalJob /\ OwnsAttempt(work[w])
              /\ work[w].paid \/ work[w].seen = "SUCCEEDED" => PaymentsOf(work[w].intent) # {}
         /\ work[w].phase = "charge" => work[w] \in ChargeJob /\ OwnsAttempt(work[w])
         /\ work[w].phase = "announce" =>
              /\ work[w] \in AnnounceJob
              /\ PaymentsOf(work[w].intent) # {} /\ announced[work[w].intent] = 0
         /\ work[w].phase \in {"pay", "settle"} => work[w] \in PayJob
<1>1. Sound(w)
  BY DEF CheckoutInv, WorkSound
<1> QED
  BY <1>1 DEF Sound, Idle, FindJob, CreateJob, RetireJob, SignalJob, ChargeJob, AnnounceJob, PayJob

LEMMA CheckIntentKeeps ==
  ASSUME CheckoutInv, NEW w \in Worker, CheckIntent(w)
  PROVE  CheckoutInv' /\ Grows
<1> DEFINE job == work[w]
<1>1. job \in RetireJob /\ intents[job.intent] # None
  BY ReadByPhase DEF CheckIntent
<1>2. PICK next : Goes(w, next) /\ (next = [job EXCEPT !.phase = "retiring"] \/ next = job.next)
  BY DEF CheckIntent
<1>3. UNCHANGED <<invoice, intents, attempts, payments, announced>> /\ work'[w] = next
  BY <1>2, GoesTo DEF CheckIntent, CheckoutInv
<1>4. next.phase # "announce" /\ Sound(w)'
  <2>1. CASE next = [job EXCEPT !.phase = "retiring"]
    <3>1. next \in RetireJob /\ next.intent = job.intent /\ next.phase = "retiring"
      BY <1>1, <2>1 DEF RetireJob
    <3> QED
      BY <1>1, <1>3, <3>1 DEF Sound
  <2>2. CASE next = job.next
    <3>1. next = Idle \/ (next \in CreateJob /\ next.intent = None)
      BY <1>1, <2>2 DEF RetireJob
    <3>2. next.phase # "announce"
      BY <3>1 DEF Idle, CreateJob
    <3> QED
      BY <1>3, <3>1, <3>2 DEF Sound
  <2> QED
    BY <1>2, <2>1, <2>2
<1> QED
  BY <1>2, <1>3, <1>4, OnlyReads

LEMMA ReadSignalKeeps ==
  ASSUME CheckoutInv, NEW w \in Worker, NEW a \in Attempt, NEW signal \in Signals, ReadSignal(w, a, signal)
  PROVE  CheckoutInv' /\ Grows
<1> DEFINE i == attempts[a].intent
           next == [phase |-> "signal", attempt |-> a, signal |-> signal, intent |-> i,
                    seen |-> intents[i].status, seenAttempt |-> attempts[a].status,
                    paid |-> PaymentsOf(i) # {}]
<1>1. attempts[a] # None /\ Goes(w, next) /\ UNCHANGED <<invoice, intents, attempts, payments, announced>>
  BY DEF ReadSignal, Starts
<1>2. attempts[a] \in AttemptRow /\ intents[i] \in IntentRow /\ i \in Rows(intents) /\ i \in Intent
  BY <1>1 DEF CheckoutInv, RowsInv, PayTypeOK, Rows, AttemptRow
<1>3. next \in SignalJob
  BY <1>2, BoundAssumption DEF SignalJob, AttemptRow, IntentRow
<1>4. intents[i].status = "SUCCEEDED" => PaymentsOf(i) # {}
  BY <1>2 DEF CheckoutInv, RowsInv, SucceededMeansPaid
<1>5. work'[w] = next
  BY <1>1, GoesTo DEF CheckoutInv
<1>6. OwnsAttempt(next) /\ (next.paid \/ next.seen = "SUCCEEDED" => PaymentsOf(next.intent) # {})
  BY <1>1, <1>4 DEF OwnsAttempt
<1>7. next.phase # "announce"
  OBVIOUS
<1> HIDE DEF next
<1>8. Sound(w)'
  BY <1>1, <1>3, <1>5, <1>6 DEF Sound, OwnsAttempt, PaymentsOf, Rows
<1> QED
  BY <1>1, <1>7, <1>8, OnlyReads

LEMMA LockAttemptKeeps ==
  ASSUME CheckoutInv, NEW w \in Worker, LockAttempt(w)
  PROVE  CheckoutInv' /\ Grows
<1> DEFINE next == [work[w] EXCEPT !.phase = "decide"]
<1>1. Goes(w, next) /\ UNCHANGED <<invoice, intents, attempts, payments, announced>>
  BY DEF LockAttempt
<1>2. /\ work[w] \in SignalJob /\ OwnsAttempt(work[w])
      /\ work[w].paid \/ work[w].seen = "SUCCEEDED" => PaymentsOf(work[w].intent) # {}
  BY ReadByPhase DEF LockAttempt
<1>3. /\ next \in SignalJob /\ next.phase = "decide" /\ next.attempt = work[w].attempt
      /\ next.intent = work[w].intent /\ next.paid = work[w].paid /\ next.seen = work[w].seen
  BY <1>2 DEF SignalJob
<1>4. work'[w] = next
  BY <1>1, GoesTo DEF CheckoutInv
<1> HIDE DEF next
<1>5. Sound(w)'
  BY <1>1, <1>2, <1>3, <1>4 DEF Sound, OwnsAttempt, PaymentsOf, Rows
<1> QED
  BY <1>1, <1>3, <1>5, OnlyReads

LEMMA ReadInvoiceKeeps ==
  ASSUME CheckoutInv, NEW w \in Worker, ReadInvoice(w)
  PROVE  CheckoutInv' /\ Grows
<1> DEFINE job == work[w]
           next == [phase |-> "charge", attempt |-> job.attempt, intent |-> job.intent,
                    seen |-> job.seen, seenAttempt |-> job.seenAttempt, paidSoFar |-> PaidAmount]
<1>1. Goes(w, next) /\ UNCHANGED <<invoice, intents, attempts, payments, announced>>
  BY DEF ReadInvoice
<1>2. job \in SignalJob /\ OwnsAttempt(job)
  BY ReadByPhase DEF ReadInvoice
<1>3. PaidAmount \in Nat
  BY PaidIsNatural DEF CheckoutInv, RowsInv
<1>4. next \in ChargeJob /\ OwnsAttempt(next) /\ next.phase = "charge"
  BY <1>2, <1>3 DEF SignalJob, ChargeJob, OwnsAttempt
<1>5. work'[w] = next
  BY <1>1, GoesTo DEF CheckoutInv
<1> HIDE DEF next
<1>6. Sound(w)'
  BY <1>1, <1>4, <1>5 DEF Sound, OwnsAttempt
<1> QED
  BY <1>1, <1>4, <1>6, OnlyReads

LEMMA BeginPaymentKeeps ==
  ASSUME CheckoutInv, NEW w \in Worker, NEW amount \in Amounts, BeginPayment(w, amount)
  PROVE  CheckoutInv' /\ Grows
<1> DEFINE next == [phase |-> "pay", amount |-> amount, paidSoFar |-> PaidAmount]
<1>1. Goes(w, next) /\ UNCHANGED <<invoice, intents, attempts, payments, announced>>
  BY DEF BeginPayment, Starts
<1>2. PaidAmount \in Nat
  BY PaidIsNatural DEF CheckoutInv, RowsInv
<1>3. next \in PayJob /\ next.phase = "pay"
  BY <1>2, InvoiceAssumption DEF PayJob
<1>4. work'[w] = next
  BY <1>1, GoesTo DEF CheckoutInv
<1> HIDE DEF next
<1>5. Sound(w)'
  BY <1>3, <1>4 DEF Sound
<1> QED
  BY <1>1, <1>3, <1>5, OnlyReads


-----------------------------------------------------------------------------
(* Steps that write. *)

(* Intent i may have got the status s; nothing else is seen to change. *)
KeepsRows(i, s) ==
  /\ intents' \in [Intent -> IntentRow \cup {None}]
  /\ attempts' \in [Attempt -> AttemptRow \cup {None}]
  /\ \A k \in Intent : intents'[k] # None <=> intents[k] # None
  /\ \A k \in Intent : intents[k] # None =>
       intents'[k].status = intents[k].status \/ (k = i /\ intents'[k].status = s)
  /\ \A a \in Attempt : attempts'[a] # None <=> attempts[a] # None
  /\ \A a \in Attempt : attempts[a] # None => attempts'[a].intent = attempts[a].intent

LEMMA NewStatus ==
  ASSUME CheckoutInv, NEW i \in Intent, NEW s, KeepsRows(i, s),
         UNCHANGED <<payments, announced>>, invoice' \in InvoiceStatus \cup {None},
         s = "SUCCEEDED" => PaymentsOf(i) # {}
  PROVE  RowsInv' /\ Grows
<1>1. PayTypeOK'
  <2>1. \A a \in Rows(attempts)' : intents'[attempts'[a].intent] # None
    <3> SUFFICES ASSUME NEW a \in Attempt, attempts'[a] # None
                 PROVE  intents'[attempts'[a].intent] # None
      BY DEF Rows, KeepsRows
    <3>1. attempts[a] # None /\ attempts'[a].intent = attempts[a].intent
      BY DEF KeepsRows
    <3>2. attempts[a].intent \in Intent /\ intents[attempts[a].intent] # None
      BY <3>1 DEF CheckoutInv, RowsInv, PayTypeOK, Rows, AttemptRow
    <3> QED
      BY <3>1, <3>2 DEF KeepsRows
  <2>2. \A p \in Rows(payments)' : payments'[p].intent # None => intents'[payments'[p].intent] # None
    <3> SUFFICES ASSUME NEW p \in PaymentId, payments[p] # None, payments[p].intent # None
                 PROVE  intents'[payments[p].intent] # None
      BY DEF Rows, CheckoutInv, RowsInv, PayTypeOK
    <3>1. payments[p].intent \in Intent /\ intents[payments[p].intent] # None
      BY DEF CheckoutInv, RowsInv, PayTypeOK, Rows, PaymentRow
    <3> QED
      BY <3>1 DEF KeepsRows
  <2> QED
    BY <2>1, <2>2 DEF CheckoutInv, RowsInv, PayTypeOK, KeepsRows
<1>2. SucceededMeansPaid'
  <2> SUFFICES ASSUME NEW k \in Intent, intents'[k] # None, intents'[k].status = "SUCCEEDED"
               PROVE  PaymentsOf(k)' # {}
    BY <1>1 DEF SucceededMeansPaid, Rows, PayTypeOK
  <2>1. intents[k] # None /\ (intents[k].status = "SUCCEEDED" \/ (k = i /\ s = "SUCCEEDED"))
    BY DEF KeepsRows
  <2>2. PaymentsOf(k) # {}
    <3>1. CASE intents[k].status = "SUCCEEDED"
      BY <2>1, <3>1 DEF CheckoutInv, RowsInv, SucceededMeansPaid, Rows, PayTypeOK
    <3>2. CASE k = i /\ s = "SUCCEEDED"
      BY <3>2
    <3> QED
      BY <2>1, <3>1, <3>2
  <2> QED
    BY <2>2 DEF PaymentsOf, Rows
<1>3. ChargedOnce' /\ AnnouncedOnce'
  BY DEF CheckoutInv, RowsInv, ChargedOnce, AnnouncedOnce, PaymentsOf, Rows
<1>4. Grows
  BY DEF KeepsRows, Grows
<1> QED
  BY <1>1, <1>2, <1>3, <1>4 DEF RowsInv

(* A step that writes rows and goes on. *)
LEMMA Writes ==
  ASSUME CheckoutInv, RowsInv', Grows, NEW w \in Worker, NEW next, Goes(w, next),
         next.phase # "announce", Sound(w)', announced' = announced
  PROVE  CheckoutInv' /\ Grows
<1>1. DOMAIN work' = Worker /\ work'[w] = next /\ \A v \in Worker \ {w} : work'[v] = work[v]
  BY GoesTo DEF CheckoutInv
<1>2. ~Announces(w)'
  BY <1>1 DEF Announces
<1>3. WorkSound' /\ OneAnnouncer'
  BY <1>1, <1>2, OneMoves DEF RowsInv
<1> QED
  BY <1>3 DEF CheckoutInv

(* A step that writes rows and moves no request. *)
LEMMA Edits ==
  ASSUME CheckoutInv, RowsInv', Grows, UNCHANGED <<announced, work>>
  PROVE  CheckoutInv' /\ Grows
<1>1. ASSUME NEW w \in Worker PROVE Sound(w)'
  BY OthersStaySound DEF CheckoutInv, RowsInv, WorkSound
<1>2. WorkSound'
  BY <1>1 DEF WorkSound, CheckoutInv
<1>3. OneAnnouncer'
  BY DEF CheckoutInv, OneAnnouncer, Announces
<1> QED
  BY <1>2, <1>3 DEF CheckoutInv

LEMMA IdleIsSound ==
  ASSUME CheckoutInv, NEW w \in Worker, Goes(w, Idle)
  PROVE  Sound(w)' /\ Idle.phase # "announce"
<1>1. work'[w] = Idle
  BY GoesTo DEF CheckoutInv
<1> QED
  BY <1>1 DEF Sound, Idle

LEMMA ConcludeKeepsRows ==
  ASSUME CheckoutInv, NEW w \in Worker, NEW s \in SignalStatus,
         work[w].phase \in {"signal", "decide", "charge"}, Conclude(work[w], s, s)
  PROVE  work[w].intent \in Intent /\ KeepsRows(work[w].intent, s)
<1> DEFINE job == work[w]
           i == job.intent
           a == job.attempt
<1>1. OwnsAttempt(job) /\ i \in Intent /\ a \in Attempt
  BY ReadByPhase DEF SignalJob, ChargeJob
<1>2. attempts[a] \in AttemptRow /\ intents[i] \in IntentRow /\ intents[i] # None
  BY <1>1 DEF OwnsAttempt, CheckoutInv, RowsInv, PayTypeOK, Rows
<1>3. s \in ActiveIntent \cup Final /\ s \in ActiveAttempt \cup Final
  BY DEF SignalStatus, ActiveIntent, ActiveAttempt, Final
<1>4. intents' = intents \/ intents' = [intents EXCEPT ![i].status = s]
  BY DEF Conclude
<1>5. attempts' = attempts \/ attempts' = [attempts EXCEPT ![a].status = s]
  BY DEF Conclude
<1>6. intents \in [Intent -> IntentRow \cup {None}] /\ attempts \in [Attempt -> AttemptRow \cup {None}]
  BY DEF CheckoutInv, RowsInv, PayTypeOK
<1> HIDE DEF job, i, a
<1>7. /\ [intents[i] EXCEPT !.status = s] \in IntentRow
      /\ [intents[i] EXCEPT !.status = s].status = s
      /\ [attempts[a] EXCEPT !.status = s] \in AttemptRow
      /\ [attempts[a] EXCEPT !.status = s].intent = attempts[a].intent
  BY <1>2, <1>3 DEF IntentRow, AttemptRow
<1>8. /\ None \notin IntentRow /\ None \notin AttemptRow
  BY BoundAssumption
<1>9. /\ intents' \in [Intent -> IntentRow \cup {None}]
      /\ \A k \in Intent : intents'[k] # None <=> intents[k] # None
      /\ \A k \in Intent : intents[k] # None =>
           intents'[k].status = intents[k].status \/ (k = i /\ intents'[k].status = s)
  <2>1. CASE intents' = intents
    BY <1>6, <2>1
  <2>2. CASE intents' = [intents EXCEPT ![i].status = s]
    <3>1. \A k \in Intent : intents'[k] = IF k = i THEN [intents[i] EXCEPT !.status = s] ELSE intents[k]
      BY <1>6, <2>2
    <3>2. DOMAIN intents' = Intent /\ intents' = [k \in Intent |-> intents'[k]]
      BY <1>6, <2>2
    <3> QED
      BY <1>1, <1>2, <1>6, <1>7, <1>8, <3>1, <3>2
  <2> QED
    BY <1>4, <2>1, <2>2
<1>10. /\ attempts' \in [Attempt -> AttemptRow \cup {None}]
       /\ \A k \in Attempt : attempts'[k] # None <=> attempts[k] # None
       /\ \A k \in Attempt : attempts[k] # None => attempts'[k].intent = attempts[k].intent
  <2>1. CASE attempts' = attempts
    BY <1>6, <2>1
  <2>2. CASE attempts' = [attempts EXCEPT ![a].status = s]
    <3>1. \A k \in Attempt : attempts'[k] = IF k = a THEN [attempts[a] EXCEPT !.status = s] ELSE attempts[k]
      BY <1>6, <2>2
    <3>2. attempts' = [k \in Attempt |-> attempts'[k]]
      BY <1>6, <2>2
    <3>3. attempts[a] # None
      BY <1>1 DEF OwnsAttempt, a
    <3> QED
      BY <1>1, <1>2, <1>6, <1>7, <1>8, <3>1, <3>2, <3>3
  <2> QED
    BY <1>5, <2>1, <2>2
<1> QED
  BY <1>1, <1>9, <1>10 DEF KeepsRows, i, job


LEMMA ApplySignalKeeps ==
  ASSUME CheckoutInv, NEW w \in Worker, ApplySignal(w)
  PROVE  CheckoutInv' /\ Grows
<1> DEFINE job == work[w]
<1>1. /\ job.phase = "decide" /\ ~Charges(job) /\ Goes(w, Idle)
      /\ UNCHANGED <<invoice, payments, announced>>
  BY DEF ApplySignal
<1>2. /\ job \in SignalJob /\ OwnsAttempt(job)
      /\ job.paid \/ job.seen = "SUCCEEDED" => PaymentsOf(job.intent) # {}
  BY <1>1, ReadByPhase
<1>3. invoice' \in InvoiceStatus \cup {None}
  BY <1>1 DEF CheckoutInv, RowsInv, PayTypeOK
<1>4. RowsInv' /\ Grows
  <2>1. CASE job.seen \in Final
    <3>1. UNCHANGED <<intents, attempts>>
      BY <2>1 DEF ApplySignal
    <3> QED
      BY <1>1, <3>1 DEF CheckoutInv, RowsInv, PayTypeOK, SucceededMeansPaid, ChargedOnce, AnnouncedOnce,
         PaymentsOf, Rows, Grows
  <2>2. CASE job.seen \notin Final
    <3>1. Conclude(job, job.signal, job.signal)
      BY <2>2 DEF ApplySignal
    <3>2. job.signal \in SignalStatus /\ (job.signal = "SUCCEEDED" => PaymentsOf(job.intent) # {})
      BY <1>1, <1>2, <2>2 DEF Charges, SignalJob
    <3>3. job.intent \in Intent /\ KeepsRows(job.intent, job.signal)
      BY <1>1, <3>1, <3>2, ConcludeKeepsRows
    <3> QED
      BY <1>1, <1>3, <3>2, <3>3, NewStatus
  <2> QED
    BY <2>1, <2>2
<1> QED
  BY <1>1, <1>4, IdleIsSound, Writes

LEMMA ChargeSettledKeeps ==
  ASSUME CheckoutInv, NEW w \in Worker, ChargeSettled(w)
  PROVE  CheckoutInv' /\ Grows
<1> DEFINE job == work[w]
<1>1. /\ job.phase = "charge" /\ Conclude(job, "FAILED", "FAILED") /\ Goes(w, Idle)
      /\ UNCHANGED <<invoice, payments, announced>>
  BY DEF ChargeSettled
<1>2. invoice' \in InvoiceStatus \cup {None}
  BY <1>1 DEF CheckoutInv, RowsInv, PayTypeOK
<1>3. "FAILED" \in SignalStatus
  BY DEF SignalStatus
<1>4. job.intent \in Intent /\ KeepsRows(job.intent, "FAILED")
  BY <1>1, <1>3, ConcludeKeepsRows
<1>5. RowsInv' /\ Grows
  BY <1>1, <1>2, <1>4, NewStatus
<1> QED
  BY <1>1, <1>5, IdleIsSound, Writes

LEMMA RetireIntentKeeps ==
  ASSUME CheckoutInv, NEW w \in Worker, RetireIntent(w)
  PROVE  CheckoutInv' /\ Grows
<1> DEFINE job == work[w]
           i == job.intent
           live == {a \in Rows(attempts) : /\ attempts[a].intent = job.intent
                                           /\ attempts[a].status \in ActiveAttempt}
<1>1. /\ job.phase = "retiring" /\ Goes(w, job.next)
      /\ UNCHANGED <<invoice, payments, announced>>
  BY DEF RetireIntent
<1>2. /\ intents' = [intents EXCEPT ![i].status = job.status]
      /\ attempts' = [a \in Attempt |->
           IF a \in live THEN [attempts[a] EXCEPT !.status = job.status] ELSE attempts[a]]
  BY DEF RetireIntent
<1>3. job \in RetireJob /\ intents[i] # None
  BY <1>1, ReadByPhase
<1>4. i \in Intent /\ job.status \in {"EXPIRED", "CANCELLED"} /\ job.status \in Final
  BY <1>3 DEF RetireJob, Final
<1>5. intents \in [Intent -> IntentRow \cup {None}] /\ attempts \in [Attempt -> AttemptRow \cup {None}]
  BY DEF CheckoutInv, RowsInv, PayTypeOK
<1>6. None \notin IntentRow /\ None \notin AttemptRow
  BY BoundAssumption
<1>7. KeepsRows(i, job.status)
  <2>1. /\ [intents[i] EXCEPT !.status = job.status] \in IntentRow
        /\ [intents[i] EXCEPT !.status = job.status].status = job.status
    BY <1>3, <1>4, <1>5 DEF IntentRow
  <2>2. ASSUME NEW a \in live
        PROVE  /\ [attempts[a] EXCEPT !.status = job.status] \in AttemptRow
               /\ [attempts[a] EXCEPT !.status = job.status].intent = attempts[a].intent
               /\ a \in Attempt /\ attempts[a] # None
    BY <1>4, <1>5 DEF AttemptRow, Rows
  <2> HIDE DEF live, job, i
  <2>3. \A k \in Intent : intents'[k] = IF k = i THEN [intents[i] EXCEPT !.status = job.status] ELSE intents[k]
    BY <1>2, <1>5
  <2>4. intents' = [k \in Intent |-> intents'[k]]
    BY <1>2, <1>5
  <2>5. /\ intents' \in [Intent -> IntentRow \cup {None}]
        /\ \A k \in Intent : intents'[k] # None <=> intents[k] # None
        /\ \A k \in Intent : intents[k] # None =>
             intents'[k].status = intents[k].status \/ (k = i /\ intents'[k].status = job.status)
    BY <1>3, <1>4, <1>5, <1>6, <2>1, <2>3, <2>4
  <2>6. \A a \in Attempt : attempts'[a] =
          IF a \in live THEN [attempts[a] EXCEPT !.status = job.status] ELSE attempts[a]
    BY <1>2
  <2>7. attempts' = [a \in Attempt |-> attempts'[a]]
    BY <1>2
  <2>8. /\ attempts' \in [Attempt -> AttemptRow \cup {None}]
        /\ \A a \in Attempt : attempts'[a] # None <=> attempts[a] # None
        /\ \A a \in Attempt : attempts[a] # None => attempts'[a].intent = attempts[a].intent
    BY <1>5, <1>6, <2>2, <2>6, <2>7
  <2> QED
    BY <2>5, <2>8 DEF KeepsRows
<1>8. RowsInv' /\ Grows
  <2>1. invoice' \in InvoiceStatus \cup {None}
    BY <1>1 DEF CheckoutInv, RowsInv, PayTypeOK
  <2> QED
    BY <1>1, <1>4, <1>7, <2>1, NewStatus
<1>9. job.next.phase # "announce" /\ Sound(w)'
  <2>1. work'[w] = job.next
    BY <1>1, GoesTo DEF CheckoutInv
  <2>2. job.next = Idle \/ (job.next \in CreateJob /\ job.next.intent = None)
    BY <1>3 DEF RetireJob
  <2> HIDE DEF job
  <2>3. job.next.phase # "announce"
    BY <2>2 DEF Idle, CreateJob
  <2> QED
    BY <2>1, <2>2, <2>3 DEF Sound
<1> QED
  BY <1>1, <1>8, <1>9, Writes

LEMMA FallDueKeeps ==
  ASSUME CheckoutInv, NEW i \in Intent, FallDue(i)
  PROVE  CheckoutInv' /\ Grows
<1>1. /\ i \in LiveIntents /\ intents' = [intents EXCEPT ![i].due = TRUE]
      /\ UNCHANGED <<invoice, attempts, payments, announced, work>>
  BY DEF FallDue
<1>2. intents \in [Intent -> IntentRow \cup {None}] /\ attempts \in [Attempt -> AttemptRow \cup {None}]
  BY DEF CheckoutInv, RowsInv, PayTypeOK
<1>3. intents[i] # None
  BY <1>1 DEF LiveIntents, Rows
<1>4. /\ [intents[i] EXCEPT !.due = TRUE] \in IntentRow
      /\ [intents[i] EXCEPT !.due = TRUE].status = intents[i].status
  BY <1>2, <1>3 DEF IntentRow
<1>5. \A k \in Intent : intents'[k] = IF k = i THEN [intents[i] EXCEPT !.due = TRUE] ELSE intents[k]
  BY <1>1, <1>2
<1>6. intents' = [k \in Intent |-> intents'[k]]
  BY <1>1, <1>2
<1>7. None \notin IntentRow
  BY BoundAssumption
<1>8. KeepsRows(i, intents[i].status)
  BY <1>1, <1>2, <1>3, <1>4, <1>5, <1>6, <1>7 DEF KeepsRows
<1>9. intents[i].status = "SUCCEEDED" => PaymentsOf(i) # {}
  BY <1>3 DEF CheckoutInv, RowsInv, SucceededMeansPaid, Rows, PayTypeOK
<1>10. RowsInv' /\ Grows
  <2>1. invoice' \in InvoiceStatus \cup {None}
    BY <1>1 DEF CheckoutInv, RowsInv, PayTypeOK
  <2> QED
    BY <1>1, <1>8, <1>9, <2>1, NewStatus
<1> QED
  BY <1>1, <1>10, Edits

LEMMA CreateAttemptKeeps ==
  ASSUME CheckoutInv, NEW w \in Worker, CreateAttempt(w)
  PROVE  CheckoutInv' /\ Grows
<1> DEFINE job == work[w]
           new == [provider |-> job.attempt[1], amount |-> job.amount,
                   status |-> "REQUIRES_ACTION", due |-> FALSE]
           i == IF job.intent = None THEN NextId(intents) ELSE job.intent
           row == [intent |-> i, status |-> "REDIRECT_REQUIRED"]
<1>1. /\ job.phase = "create" /\ attempts[job.attempt] = None /\ Goes(w, Idle)
      /\ job.intent = None => HasRoom(intents)
      /\ attempts' = [attempts EXCEPT ![job.attempt] = row]
      /\ intents' = IF job.intent # None THEN intents ELSE [intents EXCEPT ![i] = new]
      /\ UNCHANGED <<payments, announced>>
  BY DEF CreateAttempt
<1>2. job \in CreateJob /\ (job.intent # None => intents[job.intent] # None)
  BY <1>1, ReadByPhase
<1>3. intents \in [Intent -> IntentRow \cup {None}] /\ attempts \in [Attempt -> AttemptRow \cup {None}]
  BY DEF CheckoutInv, RowsInv, PayTypeOK
<1>4. invoice' \in InvoiceStatus \cup {None}
  BY DEF CreateAttempt, CheckoutInv, RowsInv, PayTypeOK, InvoiceStatus
<1>5. /\ i \in Intent /\ job.attempt \in Attempt
      /\ job.intent = None => intents[i] = None
      /\ job.intent # None => intents[i] # None
  <2>1. CASE job.intent = None
    <3>1. DOMAIN intents = 1..MaxIntents /\ MaxIntents \in Nat /\ HasRoom(intents)
      BY <1>1, <1>3, <2>1, BoundAssumption DEF Intent
    <3>2. NextId(intents) \in Intent /\ intents[NextId(intents)] = None
      BY <3>1, NextIdFree DEF Intent
    <3> QED
      BY <1>2, <2>1, <3>2 DEF CreateJob
  <2>2. CASE job.intent # None
    BY <1>2, <2>2 DEF CreateJob
  <2> QED
    BY <2>1, <2>2
<1>6. new \in IntentRow /\ new.status = "REQUIRES_ACTION"
  <2>1. job.attempt[1] \in Provider
    BY <1>5 DEF Attempt
  <2> QED
    BY <1>2, <2>1 DEF IntentRow, CreateJob, ActiveIntent
<1>7. row \in AttemptRow /\ row.intent = i
  BY <1>5 DEF AttemptRow, ActiveAttempt
<1>8. None \notin IntentRow /\ None \notin AttemptRow
  BY BoundAssumption
<1> HIDE DEF i, new, row, job
<1>9. /\ intents' \in [Intent -> IntentRow \cup {None}]
      /\ \A k \in Intent : intents[k] # None => intents'[k] = intents[k]
      /\ \A k \in Intent : intents[k] = None /\ intents'[k] # None => intents'[k].status = "REQUIRES_ACTION"
      /\ intents'[i] # None
  BY <1>1, <1>3, <1>5, <1>6, <1>8
<1>10. /\ attempts' \in [Attempt -> AttemptRow \cup {None}]
       /\ \A a \in Attempt : attempts[a] # None => attempts'[a] = attempts[a]
       /\ \A a \in Attempt : attempts'[a] # None => attempts[a] # None \/ attempts'[a].intent = i
  BY <1>1, <1>3, <1>5, <1>7, <1>8
<1>11. PayTypeOK'
  <2>1. \A a \in Rows(attempts)' : intents'[attempts'[a].intent] # None
    <3> SUFFICES ASSUME NEW a \in Attempt, attempts'[a] # None
                 PROVE  intents'[attempts'[a].intent] # None
      BY <1>10 DEF Rows
    <3>1. CASE attempts[a] # None
      <4>1. attempts'[a] = attempts[a] /\ attempts[a].intent \in Intent /\ intents[attempts[a].intent] # None
        BY <1>10, <3>1 DEF CheckoutInv, RowsInv, PayTypeOK, Rows, AttemptRow
      <4> QED
        BY <1>9, <4>1
    <3>2. CASE attempts'[a].intent = i
      BY <1>9, <3>2
    <3> QED
      BY <1>10, <3>1, <3>2
  <2>2. \A p \in Rows(payments)' : payments'[p].intent # None => intents'[payments'[p].intent] # None
    <3> SUFFICES ASSUME NEW p \in PaymentId, payments[p] # None, payments[p].intent # None
                 PROVE  intents'[payments[p].intent] # None
      BY <1>1 DEF Rows, CheckoutInv, RowsInv, PayTypeOK
    <3>1. payments[p].intent \in Intent /\ intents[payments[p].intent] # None
      BY DEF CheckoutInv, RowsInv, PayTypeOK, Rows, PaymentRow
    <3> QED
      BY <1>9, <3>1
  <2>3. /\ payments' \in [PaymentId -> PaymentRow \cup {None}]
        /\ announced' \in [Intent -> Nat]
    BY <1>1 DEF CheckoutInv, RowsInv, PayTypeOK
  <2> QED
    BY <1>4, <1>9, <1>10, <2>1, <2>2, <2>3 DEF PayTypeOK
<1>12. SucceededMeansPaid'
  <2> SUFFICES ASSUME NEW k \in Intent, intents'[k] # None, intents'[k].status = "SUCCEEDED"
               PROVE  PaymentsOf(k)' # {}
    BY <1>9 DEF SucceededMeansPaid, Rows
  <2>1. intents[k] # None /\ intents[k].status = "SUCCEEDED"
    BY <1>9
  <2>2. PaymentsOf(k) # {}
    BY <2>1 DEF CheckoutInv, RowsInv, SucceededMeansPaid, Rows, PayTypeOK
  <2> QED
    BY <1>1, <2>2 DEF PaymentsOf, Rows
<1>13. ChargedOnce' /\ AnnouncedOnce'
  BY <1>1 DEF CheckoutInv, RowsInv, ChargedOnce, AnnouncedOnce, PaymentsOf, Rows
<1>14. Grows
  BY <1>1, <1>9, <1>10 DEF Grows
<1> QED
  BY <1>1, <1>11, <1>12, <1>13, <1>14, IdleIsSound, Writes DEF RowsInv


(* A new payment, of an intent that has none or of no intent. *)
LEMMA NewPayment ==
  ASSUME CheckoutInv, HasRoom(payments), NEW row \in PaymentRow,
         payments' = [payments EXCEPT ![NextId(payments)] = row],
         row.intent # None => intents[row.intent] # None /\ PaymentsOf(row.intent) = {}
  PROVE  /\ payments' \in [PaymentId -> PaymentRow \cup {None}]
         /\ \A p \in Rows(payments)' : payments'[p].intent # None => intents[payments'[p].intent] # None
         /\ \A p \in PaymentId : payments[p] # None => payments'[p] = payments[p]
         /\ \E p \in PaymentId : payments'[p] = row
         /\ ChargedOnce'
<1> DEFINE n == NextId(payments)
<1>1. payments \in [PaymentId -> PaymentRow \cup {None}]
  BY DEF CheckoutInv, RowsInv, PayTypeOK
<1>2. n \in PaymentId /\ payments[n] = None
  <2>1. DOMAIN payments = 1..MaxPayments /\ MaxPayments \in Nat
    BY <1>1, BoundAssumption DEF PaymentId
  <2> QED
    BY <2>1, NextIdFree DEF PaymentId
<1>3. None \notin PaymentRow
  BY BoundAssumption
<1> HIDE DEF n
<1>4. /\ payments' \in [PaymentId -> PaymentRow \cup {None}]
      /\ payments'[n] = row
      /\ \A p \in PaymentId : p # n => payments'[p] = payments[p]
  BY <1>1, <1>2 DEF n
<1>5. \A p \in Rows(payments)' : payments'[p].intent # None => intents[payments'[p].intent] # None
  <2> SUFFICES ASSUME NEW p \in PaymentId, payments'[p] # None, payments'[p].intent # None
               PROVE  intents[payments'[p].intent] # None
    BY <1>4 DEF Rows
  <2>1. CASE p = n
    BY <1>4, <2>1
  <2>2. CASE p # n
    BY <1>1, <1>4, <2>2 DEF CheckoutInv, RowsInv, PayTypeOK, Rows
  <2> QED
    BY <2>1, <2>2
<1>6. ChargedOnce'
  <2> SUFFICES ASSUME NEW p \in PaymentId, NEW q \in PaymentId, payments'[p] # None, payments'[q] # None,
                      payments'[p].intent # None, payments'[p].intent = payments'[q].intent
               PROVE  p = q
    BY <1>4 DEF ChargedOnce, Rows
  <2>1. ASSUME NEW r \in PaymentId, r # n, payments[r] # None, row.intent # None
        PROVE  payments[r].intent # row.intent
    BY <1>1, <2>1 DEF PaymentsOf, Rows
  <2>2. CASE p # n /\ q # n
    BY <1>1, <1>4, <2>2 DEF CheckoutInv, RowsInv, ChargedOnce, Rows
  <2>3. CASE p = n /\ q # n
    BY <1>4, <2>1, <2>3
  <2>4. CASE p # n /\ q = n
    BY <1>4, <2>1, <2>4
  <2> QED
    BY <2>2, <2>3, <2>4
<1> QED
  BY <1>2, <1>4, <1>5, <1>6

LEMMA ChargeKeeps ==
  ASSUME CheckoutInv, NEW w \in Worker, Charge(w)
  PROVE  CheckoutInv' /\ Grows
<1> DEFINE job == work[w]
           i == job.intent
           row == [amount |-> intents[i].amount, status |-> "COMPLETED", intent |-> i]
           next == [phase |-> "announce", intent |-> i]
<1>1. /\ job.phase = "charge" /\ PaymentsOf(i) = {} /\ HasRoom(payments)
      /\ payments' = [payments EXCEPT ![NextId(payments)] = row]
      /\ Conclude(job, "SUCCEEDED", "SUCCEEDED") /\ Goes(w, next) /\ announced' = announced
  BY DEF Charge, UniquePayment
<1>2. invoice' \in InvoiceStatus \cup {None}
  BY DEF Charge, StatusFromPaid, InvoiceStatus
<1>3. "SUCCEEDED" \in SignalStatus
  BY DEF SignalStatus
<1>4. i \in Intent /\ KeepsRows(i, "SUCCEEDED")
  BY <1>1, <1>3, ConcludeKeepsRows
<1>5. OwnsAttempt(job) /\ job \in ChargeJob
  BY <1>1, ReadByPhase
<1>6. intents[i] # None /\ intents[i] \in IntentRow
  BY <1>5 DEF OwnsAttempt, ChargeJob, CheckoutInv, RowsInv, PayTypeOK, Rows
<1>7. row \in PaymentRow /\ row.intent = i
  BY <1>4, <1>6, InvoiceAssumption DEF PaymentRow, IntentRow, PaymentStatus
<1> HIDE DEF i, row, job
<1>8. /\ payments' \in [PaymentId -> PaymentRow \cup {None}]
      /\ \A p \in Rows(payments)' : payments'[p].intent # None => intents[payments'[p].intent] # None
      /\ \A p \in PaymentId : payments[p] # None => payments'[p] = payments[p]
      /\ \E p \in PaymentId : payments'[p] = row
      /\ ChargedOnce'
  BY <1>1, <1>6, <1>7, NewPayment
<1>9. PICK k \in Intent : k = i
  BY <1>4
<1>10. PaymentsOf(k)' # {}
  <2>1. PICK p \in PaymentId : payments'[p] = row
    BY <1>8
  <2>2. row # None
    BY <1>7, BoundAssumption
  <2>3. p \in PaymentsOf(k)'
    BY <1>7, <1>8, <1>9, <2>1, <2>2 DEF PaymentsOf, Rows
  <2> QED
    BY <2>3
<1>11. PaymentsOf(k) = {}
  BY <1>1, <1>9
<1>12. announced[k] = 0
  BY <1>11 DEF CheckoutInv, RowsInv, AnnouncedOnce
<1>13. Grows
  BY <1>4, <1>8 DEF Grows, KeepsRows
<1>14. RowsInv'
  <2>1. \A a \in Rows(attempts)' : intents'[attempts'[a].intent] # None
    <3> SUFFICES ASSUME NEW a \in Attempt, attempts'[a] # None
                 PROVE  intents'[attempts'[a].intent] # None
      BY <1>4 DEF Rows, KeepsRows
    <3>1. attempts[a] # None /\ attempts'[a].intent = attempts[a].intent
      BY <1>4 DEF KeepsRows
    <3>2. attempts[a].intent \in Intent /\ intents[attempts[a].intent] # None
      BY <3>1 DEF CheckoutInv, RowsInv, PayTypeOK, Rows, AttemptRow
    <3> QED
      BY <1>4, <3>1, <3>2 DEF KeepsRows
  <2>2. \A p \in Rows(payments)' : payments'[p].intent # None => intents'[payments'[p].intent] # None
    <3> SUFFICES ASSUME NEW p \in Rows(payments)', payments'[p].intent # None
                 PROVE  intents'[payments'[p].intent] # None
      OBVIOUS
    <3>1. payments'[p].intent \in Intent
      BY <1>8 DEF Rows, PaymentRow
    <3>2. intents[payments'[p].intent] # None
      BY <1>8
    <3> QED
      BY <1>4, <3>1, <3>2 DEF KeepsRows
  <2>3. PayTypeOK'
    <3>1. announced' \in [Intent -> Nat]
      BY <1>1 DEF CheckoutInv, RowsInv, PayTypeOK
    <3> QED
      BY <1>2, <1>4, <1>8, <2>1, <2>2, <3>1 DEF PayTypeOK, KeepsRows
  <2>4. SucceededMeansPaid'
    <3> SUFFICES ASSUME NEW m \in Intent, intents'[m] # None, intents'[m].status = "SUCCEEDED"
                 PROVE  PaymentsOf(m)' # {}
      BY <2>3 DEF SucceededMeansPaid, Rows, PayTypeOK
    <3>1. CASE m = k
      BY <1>10, <3>1
    <3>2. CASE m # k
      <4>1. intents[m] # None /\ intents[m].status = "SUCCEEDED"
        BY <1>4, <1>9, <3>2 DEF KeepsRows
      <4>2. PaymentsOf(m) # {}
        BY <4>1 DEF CheckoutInv, RowsInv, SucceededMeansPaid, Rows, PayTypeOK
      <4> QED
        BY <1>13, <2>3, <4>2, PaidStays DEF CheckoutInv, RowsInv
    <3> QED
      BY <3>1, <3>2
  <2>5. AnnouncedOnce'
    <3> SUFFICES ASSUME NEW m \in Intent, announced'[m] # 0
                 PROVE  announced'[m] = 1 /\ PaymentsOf(m)' # {}
      BY DEF AnnouncedOnce
    <3>1. announced[m] = 1 /\ PaymentsOf(m) # {}
      BY <1>1 DEF CheckoutInv, RowsInv, AnnouncedOnce
    <3> QED
      BY <1>1, <1>13, <2>3, <3>1, PaidStays DEF CheckoutInv, RowsInv
  <2> QED
    BY <1>8, <2>3, <2>4, <2>5 DEF RowsInv
<1>15. /\ DOMAIN work' = Worker /\ work'[w] = next
       /\ \A v \in Worker \ {w} : work'[v] = work[v]
  BY <1>1, GoesTo DEF CheckoutInv
<1>16. Sound(w)'
  <2>1. work'[w] \in AnnounceJob /\ work'[w].intent = k
    BY <1>9, <1>15 DEF AnnounceJob
  <2>2. announced'[k] = 0
    BY <1>1, <1>12
  <2> QED
    BY <1>10, <2>1, <2>2 DEF Sound
<1>17. ASSUME NEW v \in Worker \ {w}, Announces(v) PROVE work[v].intent # work'[w].intent
  <2>1. PaymentsOf(work[v].intent) # {}
    BY <1>17, ReadByPhase DEF Announces
  <2> QED
    BY <1>9, <1>11, <1>15, <2>1
<1>18. WorkSound' /\ OneAnnouncer'
  <2>1. \A v \in Worker \ {w} : Announces(v) => announced'[work[v].intent] = announced[work[v].intent]
    BY <1>1
  <2> HIDE DEF next
  <2> QED
    BY <1>13, <1>14, <1>15, <1>16, <1>17, <2>1, OneMoves DEF RowsInv
<1> QED
  BY <1>13, <1>14, <1>18 DEF CheckoutInv

LEMMA AnnounceKeeps ==
  ASSUME CheckoutInv, NEW w \in Worker, Announce(w)
  PROVE  CheckoutInv' /\ Grows
<1>1. /\ Announces(w) /\ Goes(w, Idle)
      /\ announced' = [announced EXCEPT ![work[w].intent] = @ + 1]
      /\ UNCHANGED <<invoice, intents, attempts, payments>>
  BY DEF Announce, Announces
<1>2. /\ work[w] \in AnnounceJob
      /\ PaymentsOf(work[w].intent) # {} /\ announced[work[w].intent] = 0
  BY <1>1, ReadByPhase DEF Announces
<1>3. PICK k \in Intent : k = work[w].intent
  BY <1>2 DEF AnnounceJob
<1>4. announced \in [Intent -> Nat]
  BY DEF CheckoutInv, RowsInv, PayTypeOK
<1>5. announced' \in [Intent -> Nat] /\ announced'[k] = 1 /\ \A m \in Intent : m # k => announced'[m] = announced[m]
  BY <1>1, <1>2, <1>3, <1>4
<1>6. PaymentsOf(k)' # {}
  BY <1>1, <1>2, <1>3 DEF PaymentsOf, Rows
<1>7. RowsInv'
  <2>1. PayTypeOK' /\ SucceededMeansPaid' /\ ChargedOnce'
    BY <1>1, <1>5 DEF CheckoutInv, RowsInv, PayTypeOK, SucceededMeansPaid, ChargedOnce, PaymentsOf, Rows
  <2>2. AnnouncedOnce'
    <3> SUFFICES ASSUME NEW m \in Intent, announced'[m] # 0
                 PROVE  announced'[m] = 1 /\ PaymentsOf(m)' # {}
      BY DEF AnnouncedOnce
    <3>1. CASE m = k
      BY <1>5, <1>6, <3>1
    <3>2. CASE m # k
      <4>1. announced[m] = 1 /\ PaymentsOf(m) # {}
        BY <1>5, <3>2 DEF CheckoutInv, RowsInv, AnnouncedOnce
      <4> QED
        BY <1>1, <1>5, <3>2, <4>1 DEF PaymentsOf, Rows
    <3> QED
      BY <3>1, <3>2
  <2> QED
    BY <2>1, <2>2 DEF RowsInv
<1>8. Grows
  BY <1>1 DEF Grows
<1>9. /\ DOMAIN work' = Worker /\ work'[w] = Idle
      /\ \A v \in Worker \ {w} : work'[v] = work[v]
  BY <1>1, GoesTo DEF CheckoutInv
<1>10. Sound(w)' /\ ~Announces(w)'
  BY <1>9 DEF Sound, Announces, Idle
<1>11. ASSUME NEW v \in Worker \ {w}, Announces(v)
       PROVE  announced'[work[v].intent] = announced[work[v].intent]
  <2>1. work[v].intent # k
    BY <1>1, <1>3, <1>11 DEF CheckoutInv, OneAnnouncer
  <2>2. work[v].intent \in Intent
    BY <1>11, ReadByPhase DEF Announces, AnnounceJob
  <2> QED
    BY <1>5, <2>1, <2>2
<1>12. WorkSound' /\ OneAnnouncer'
  BY <1>7, <1>8, <1>9, <1>10, <1>11, OneMoves DEF RowsInv
<1> QED
  BY <1>7, <1>8, <1>12 DEF CheckoutInv

-----------------------------------------------------------------------------
(* The administration. *)

(* Payments come, change or go, but only manual ones. *)
LEMMA ManualOnly ==
  ASSUME CheckoutInv, payments' \in [PaymentId -> PaymentRow \cup {None}],
         UNCHANGED <<intents, attempts, announced>>, invoice' \in InvoiceStatus \cup {None},
         \A p \in PaymentId :
           \/ payments'[p] = payments[p]
           \/ /\ payments[p] = None \/ payments[p].intent = None
              /\ payments'[p] = None \/ payments'[p].intent = None
  PROVE  RowsInv' /\ Grows
<1>1. payments \in [PaymentId -> PaymentRow \cup {None}]
  BY DEF CheckoutInv, RowsInv, PayTypeOK
<1>2. \A p \in PaymentId : payments'[p] # None /\ payments'[p].intent # None => payments'[p] = payments[p]
  OBVIOUS
<1>3. Grows
  BY DEF Grows
<1>4. PayTypeOK'
  <2>1. \A p \in Rows(payments)' : payments'[p].intent # None => intents'[payments'[p].intent] # None
    <3> SUFFICES ASSUME NEW p \in PaymentId, payments'[p] # None, payments'[p].intent # None
                 PROVE  intents[payments'[p].intent] # None
      BY DEF Rows
    <3>1. payments'[p] = payments[p]
      BY <1>2
    <3> QED
      BY <1>1, <3>1 DEF CheckoutInv, RowsInv, PayTypeOK, Rows
  <2>2. \A a \in Rows(attempts)' : intents'[attempts'[a].intent] # None
    BY DEF CheckoutInv, RowsInv, PayTypeOK, Rows
  <2>3. /\ intents' \in [Intent -> IntentRow \cup {None}]
        /\ attempts' \in [Attempt -> AttemptRow \cup {None}]
        /\ announced' \in [Intent -> Nat]
    BY DEF CheckoutInv, RowsInv, PayTypeOK
  <2> QED
    BY <2>1, <2>2, <2>3 DEF PayTypeOK
<1>5. ASSUME NEW i \in Intent, PaymentsOf(i) # {} PROVE PaymentsOf(i)' # {}
  BY <1>3, <1>4, <1>5, PaidStays DEF CheckoutInv, RowsInv
<1>6. SucceededMeansPaid'
  <2> SUFFICES ASSUME NEW m \in Intent, intents[m] # None, intents[m].status = "SUCCEEDED"
               PROVE  PaymentsOf(m)' # {}
    BY <1>4 DEF SucceededMeansPaid, Rows, PayTypeOK
  <2>1. PaymentsOf(m) # {}
    BY DEF CheckoutInv, RowsInv, SucceededMeansPaid, Rows, PayTypeOK
  <2> QED
    BY <1>5, <2>1
<1>7. ChargedOnce'
  <2> SUFFICES ASSUME NEW p \in PaymentId, NEW q \in PaymentId, payments'[p] # None, payments'[q] # None,
                      payments'[p].intent # None, payments'[p].intent = payments'[q].intent
               PROVE  p = q
    BY DEF ChargedOnce, Rows
  <2>1. payments'[p] = payments[p] /\ payments'[q] = payments[q]
    BY <1>2
  <2> QED
    BY <1>1, <2>1 DEF CheckoutInv, RowsInv, ChargedOnce, Rows
<1>8. AnnouncedOnce'
  BY <1>5 DEF CheckoutInv, RowsInv, AnnouncedOnce
<1> QED
  BY <1>3, <1>4, <1>6, <1>7, <1>8 DEF RowsInv

LEMMA CreatePaymentKeeps ==
  ASSUME CheckoutInv, NEW w \in Worker, CreatePayment(w)
  PROVE  CheckoutInv' /\ Grows
<1> DEFINE job == work[w]
           row == [amount |-> job.amount, status |-> "COMPLETED", intent |-> None]
           next == [job EXCEPT !.phase = "settle"]
<1>1. /\ job.phase = "pay" /\ HasRoom(payments) /\ Goes(w, next)
      /\ payments' = [payments EXCEPT ![NextId(payments)] = row]
      /\ UNCHANGED <<invoice, intents, attempts, announced>>
  BY DEF CreatePayment
<1>2. job \in PayJob
  BY <1>1, ReadByPhase
<1>3. row \in PaymentRow /\ row.intent = None
  BY <1>2 DEF PayJob, PaymentRow, PaymentStatus
<1>4. payments' \in [PaymentId -> PaymentRow \cup {None}]
  <2> HIDE DEF row
  <2> QED
    BY <1>1, <1>3, NewPayment
<1>5. NextId(payments) \in PaymentId /\ payments[NextId(payments)] = None
  <2>1. DOMAIN payments = 1..MaxPayments /\ MaxPayments \in Nat
    BY BoundAssumption DEF PaymentId, CheckoutInv, RowsInv, PayTypeOK
  <2> QED
    BY <1>1, <2>1, NextIdFree DEF PaymentId
<1>6. \A p \in PaymentId :
        payments'[p] = payments[p] \/ (payments[p] = None /\ payments'[p].intent = None)
  <2> HIDE DEF row
  <2>1. payments \in [PaymentId -> PaymentRow \cup {None}]
    BY DEF CheckoutInv, RowsInv, PayTypeOK
  <2> QED
    BY <1>1, <1>3, <1>5, <2>1
<1>7. invoice' \in InvoiceStatus \cup {None}
  BY <1>1 DEF CheckoutInv, RowsInv, PayTypeOK
<1>8. RowsInv' /\ Grows
  BY <1>1, <1>4, <1>6, <1>7, ManualOnly
<1>9. next \in PayJob /\ next.phase = "settle"
  BY <1>2 DEF PayJob
<1>10. Sound(w)'
  <2>1. work'[w] = next
    BY <1>1, GoesTo DEF CheckoutInv
  <2> HIDE DEF next
  <2> QED
    BY <1>9, <2>1 DEF Sound
<1> QED
  BY <1>1, <1>8, <1>9, <1>10, Writes

LEMMA SettleInvoiceKeeps ==
  ASSUME CheckoutInv, NEW w \in Worker, SettleInvoice(w)
  PROVE  CheckoutInv' /\ Grows
<1>1. Goes(w, Idle) /\ UNCHANGED <<intents, attempts, payments, announced>>
  BY DEF SettleInvoice
<1>2. invoice' \in InvoiceStatus \cup {None}
  BY DEF SettleInvoice, StatusFromPaid, InvoiceStatus
<1>3. payments' \in [PaymentId -> PaymentRow \cup {None}]
  BY <1>1 DEF CheckoutInv, RowsInv, PayTypeOK
<1>4. RowsInv' /\ Grows
  BY <1>1, <1>2, <1>3, ManualOnly
<1> QED
  BY <1>1, <1>4, IdleIsSound, Writes

LEMMA AdministrationEdits ==
  ASSUME CheckoutInv, NEW w \in Worker,
         \/ \E p \in PaymentId, status \in PaymentEdits : UpdatePayment(w, p, status)
         \/ \E p \in PaymentId : RemovePayment(w, p)
         \/ \E status \in InvoiceEdits : UpdateInvoice(w, status)
         \/ RemoveInvoice(w)
  PROVE  CheckoutInv' /\ Grows
<1> USE DEF Manual
<1>1. payments \in [PaymentId -> PaymentRow \cup {None}] /\ invoice \in InvoiceStatus \cup {None}
  BY DEF CheckoutInv, RowsInv, PayTypeOK
<1>2. CASE \E p \in PaymentId, status \in PaymentEdits : UpdatePayment(w, p, status)
  <2>1. PICK p \in PaymentId, status \in PaymentEdits : UpdatePayment(w, p, status)
    BY <1>2
  <2>2. [payments[p] EXCEPT !.status = status] \in PaymentRow /\ [payments[p] EXCEPT !.status = status].intent = None
    BY <1>1, <2>1, InvoiceAssumption DEF UpdatePayment, PaymentRow
  <2>3. payments' = [payments EXCEPT ![p] = [payments[p] EXCEPT !.status = status]]
    BY <2>1 DEF UpdatePayment
  <2>4. payments' \in [PaymentId -> PaymentRow \cup {None}]
    BY <1>1, <2>2, <2>3
  <2>5. \A q \in PaymentId :
          \/ payments'[q] = payments[q]
          \/ payments[q].intent = None /\ payments'[q].intent = None
    BY <1>1, <2>1, <2>2, <2>3 DEF UpdatePayment
  <2>6. UNCHANGED <<invoice, intents, attempts, announced, work>>
    BY <2>1 DEF UpdatePayment
  <2>7. RowsInv' /\ Grows
    BY <1>1, <2>4, <2>5, <2>6, ManualOnly
  <2> QED
    BY <2>6, <2>7, Edits
<1>3. CASE \E p \in PaymentId : RemovePayment(w, p)
  <2>1. PICK p \in PaymentId : RemovePayment(w, p)
    BY <1>3
  <2>2. payments' \in [PaymentId -> PaymentRow \cup {None}]
    BY <1>1, <2>1 DEF RemovePayment
  <2>3. \A q \in PaymentId :
          payments'[q] = payments[q] \/ (payments[q].intent = None /\ payments'[q] = None)
    BY <1>1, <2>1 DEF RemovePayment
  <2>4. UNCHANGED <<invoice, intents, attempts, announced, work>>
    BY <2>1 DEF RemovePayment
  <2>5. RowsInv' /\ Grows
    BY <1>1, <2>2, <2>3, <2>4, ManualOnly
  <2> QED
    BY <2>4, <2>5, Edits
<1>4. CASE \E status \in InvoiceEdits : UpdateInvoice(w, status)
  <2>1. invoice' \in InvoiceStatus \cup {None} /\ UNCHANGED <<intents, attempts, payments, announced, work>>
    BY <1>4, InvoiceAssumption DEF UpdateInvoice
  <2>2. RowsInv' /\ Grows
    BY <1>1, <2>1, ManualOnly
  <2> QED
    BY <2>1, <2>2, Edits
<1>5. CASE RemoveInvoice(w)
  <2>1. /\ Rows(intents) = {} /\ invoice' = None /\ payments' = [p \in PaymentId |-> None]
        /\ UNCHANGED <<intents, attempts, announced, work>>
    BY <1>5 DEF RemoveInvoice
  <2>2. payments' \in [PaymentId -> PaymentRow \cup {None}]
    BY <2>1
  <2>3. ASSUME NEW p \in PaymentId PROVE payments[p] = None \/ payments[p].intent = None
    <3> SUFFICES ASSUME payments[p] # None, payments[p].intent # None PROVE FALSE
      OBVIOUS
    <3>1. intents[payments[p].intent] # None /\ payments[p].intent \in Intent
      BY <1>1 DEF CheckoutInv, RowsInv, PayTypeOK, Rows, PaymentRow
    <3> QED
      BY <2>1, <3>1 DEF Rows, CheckoutInv, RowsInv, PayTypeOK
  <2>4. \A p \in PaymentId : payments'[p] = None
    BY <2>1
  <2>5. RowsInv' /\ Grows
    BY <2>1, <2>2, <2>3, <2>4, ManualOnly
  <2> QED
    BY <2>1, <2>5, Edits
<1> QED
  BY <1>2, <1>3, <1>4, <1>5

-----------------------------------------------------------------------------
LEMMA NextCheckoutInv == CheckoutInv /\ [PayNext]_payVars => CheckoutInv' /\ Grows
<1> SUFFICES ASSUME CheckoutInv, [PayNext]_payVars PROVE CheckoutInv' /\ Grows
  OBVIOUS
<1>1. ASSUME NEW w \in Worker, Checkout(w) PROVE CheckoutInv' /\ Grows
  BY <1>1, BeginCheckoutKeeps, FindIntentKeeps, ExpireOnReadKeeps, CheckIntentKeeps,
     RetireIntentKeeps, CreateAttemptKeeps DEF Checkout
<1>2. ASSUME NEW w \in Worker, ProviderSignal(w) PROVE CheckoutInv' /\ Grows
  BY <1>2, ReadSignalKeeps, LockAttemptKeeps, ApplySignalKeeps, ReadInvoiceKeeps,
     ChargeSettledKeeps, ChargeKeeps, AnnounceKeeps DEF ProviderSignal
<1>3. ASSUME NEW w \in Worker, Administration(w) PROVE CheckoutInv' /\ Grows
  BY <1>3, BeginPaymentKeeps, CreatePaymentKeeps, SettleInvoiceKeeps, AdministrationEdits
     DEF Administration
<1>4. ASSUME NEW w \in Worker, Fail(w) PROVE CheckoutInv' /\ Grows
  BY <1>4, FailKeeps
<1>5. ASSUME NEW i \in Intent, FallDue(i) PROVE CheckoutInv' /\ Grows
  BY <1>5, FallDueKeeps
<1>6. CASE UNCHANGED payVars
  <2>1. UNCHANGED <<invoice, intents, attempts, payments, announced, work>>
    BY <1>6 DEF payVars
  <2>2. RowsInv'
    BY <2>1 DEF CheckoutInv, RowsInv, PayTypeOK, SucceededMeansPaid, ChargedOnce, AnnouncedOnce,
       PaymentsOf, Rows
  <2>3. Grows
    BY <2>1 DEF Grows
  <2> QED
    BY <2>1, <2>2, <2>3, Edits
<1> QED
  BY <1>1, <1>2, <1>3, <1>4, <1>5, <1>6 DEF PayNext

LEMMA CheckoutInvHolds == PaySpec => []CheckoutInv
<1>1. PayInit => CheckoutInv
  BY InitCheckoutInv
<1>2. CheckoutInv /\ [PayNext]_payVars => CheckoutInv'
  BY NextCheckoutInv
<1> QED
  BY <1>1, <1>2, PTL DEF PaySpec

(* The rows of an invoice and its checkouts keep their types, and an attempt *)
(* or a payment never points to an intent that is not there, though rows are *)
(* created from what was read some statements earlier.                       *)
THEOREM PayTypesHold == PaySpec => []PayTypeOK
<1>1. CheckoutInv => PayTypeOK
  BY DEF CheckoutInv, RowsInv
<1> QED
  BY <1>1, CheckoutInvHolds, PTL

(* A checkout shown as succeeded has its payment, for any overlap of       *)
(* callbacks, webhooks, expiries, cancellations, failing requests and      *)
(* edits by the administration.                                            *)
THEOREM SuccessIsPaid == PaySpec => []SucceededMeansPaid
<1>1. CheckoutInv => SucceededMeansPaid
  BY DEF CheckoutInv, RowsInv
<1> QED
  BY <1>1, CheckoutInvHolds, PTL

LEMMA OnceByCount == CheckoutInv => ChargedAndAnnouncedOnce
<1> SUFFICES ASSUME CheckoutInv, NEW i \in Intent
             PROVE  /\ announced[i] <= Cardinality(PaymentsOf(i))
                    /\ Cardinality(PaymentsOf(i)) <= 1
  BY DEF ChargedAndAnnouncedOnce
<1>1. announced[i] \in Nat /\ (announced[i] # 0 => announced[i] = 1 /\ PaymentsOf(i) # {})
  BY DEF CheckoutInv, RowsInv, PayTypeOK, AnnouncedOnce
<1>2. i # None
  BY BoundAssumption
<1>3. CASE PaymentsOf(i) = {}
  <2>1. Cardinality(PaymentsOf(i)) = 0
    BY <1>3, FS_EmptySet
  <2> QED
    BY <1>1, <1>3, <2>1
<1>4. CASE PaymentsOf(i) # {}
  <2>1. PICK p : p \in PaymentsOf(i)
    BY <1>4
  <2>2. PaymentsOf(i) = {p}
    BY <1>2, <2>1 DEF PaymentsOf, CheckoutInv, RowsInv, ChargedOnce
  <2>3. Cardinality(PaymentsOf(i)) = 1
    BY <2>2, FS_Singleton
  <2> QED
    BY <1>1, <2>3
<1> QED
  BY <1>3, <1>4

(* However often a success is reported, through whichever attempts and     *)
(* requests, a checkout is charged once, and payment.completed is sent at  *)
(* most once and never before the charge.                                  *)
THEOREM ChargedOnceAnnouncedOnce == PaySpec => []ChargedAndAnnouncedOnce
BY CheckoutInvHolds, OnceByCount, PTL

(* No step changes or deletes a payment made through a checkout, not even  *)
(* the deletion of its invoice.                                            *)
THEOREM ManagedPaymentsStay == PaySpec => ManagedPaymentsAppendOnly
<1>1. CheckoutInv /\ [PayNext]_payVars =>
        [\A p \in Rows(payments) : payments[p].intent # None => payments'[p] = payments[p]]_payVars
  BY NextCheckoutInv DEF Grows, Rows, CheckoutInv, RowsInv, PayTypeOK
<1> QED
  BY <1>1, CheckoutInvHolds, PTL DEF PaySpec, ManagedPaymentsAppendOnly

(* An idempotency key never leads to another intent than the first time,   *)
(* and its attempt is never lost.                                          *)
THEOREM KeysKeepTheirIntent == PaySpec => KeyKeepsIntent
<1>1. CheckoutInv /\ [PayNext]_payVars =>
        [\A a \in Rows(attempts) : attempts'[a] # None /\ attempts'[a].intent = attempts[a].intent]_payVars
  BY NextCheckoutInv DEF Grows, Rows, CheckoutInv, RowsInv, PayTypeOK
<1> QED
  BY <1>1, CheckoutInvHolds, PTL DEF PaySpec, KeyKeepsIntent

-----------------------------------------------------------------------------
(* What becomes of a final status. *)

Differs(i) == intents[i].status \in Final /\ intents'[i].status # intents[i].status

(* Some request that now commits had read intent i before it was final. *)
StaleCommit(i) ==
  \E w \in Worker :
    /\ work[w].phase \in {"decide", "charge", "retiring"}
    /\ work[w].intent = i
    /\ work[w].phase # "retiring" => work[w].seen \notin Final
    /\ work'[w] # work[w]

Settles == \A i \in Rows(intents) : Differs(i) => StaleCommit(i)

(* A charge is only decided on by a request that saw the intent open. *)
ChargesSawOpen == \A w \in Worker : work[w].phase = "charge" => work[w].seen \notin Final

LEMMA SameIntentsSettle ==
  ASSUME UNCHANGED intents
  PROVE  Settles
BY DEF Settles, Differs

(* A commit that writes a status of the intent its request is about. *)
LEMMA WriterSettles ==
  ASSUME CheckoutInv, NEW w \in Worker, NEW status,
         work[w].phase \in {"decide", "charge", "retiring"},
         work[w].phase # "retiring" => work[w].seen \notin Final,
         work'[w] # work[w],
         \/ UNCHANGED intents
         \/ intents' = [intents EXCEPT ![work[w].intent].status = status]
  PROVE  Settles
<1>1. CASE UNCHANGED intents
  BY <1>1, SameIntentsSettle
<1>2. CASE intents' = [intents EXCEPT ![work[w].intent].status = status]
  <2>1. \A i \in Rows(intents) : i # work[w].intent => intents'[i] = intents[i]
    BY <1>2 DEF Rows
  <2> QED
    BY <2>1 DEF Settles, Differs, StaleCommit
<1> QED
  BY <1>1, <1>2

LEMMA SignalSettles ==
  ASSUME CheckoutInv, ChargesSawOpen, NEW w \in Worker,
         ApplySignal(w) \/ ChargeSettled(w) \/ Charge(w)
  PROVE  Settles
<1> DEFINE job == work[w]
<1>1. work'[w] # work[w]
  <2>1. \E next : Goes(w, next) /\ next.phase \in {"idle", "announce"}
    BY DEF ApplySignal, ChargeSettled, Charge, Idle
  <2>2. job.phase \in {"decide", "charge"}
    BY DEF ApplySignal, ChargeSettled, Charge
  <2> QED
    BY <2>1, <2>2, GoesTo DEF CheckoutInv
<1>2. CASE ApplySignal(w)
  <2>1. CASE job.seen \in Final
    BY <1>2, <2>1, SameIntentsSettle DEF ApplySignal
  <2>2. CASE job.seen \notin Final
    BY <1>1, <1>2, <2>2, WriterSettles DEF ApplySignal, Conclude
  <2> QED
    BY <2>1, <2>2
<1>3. CASE ChargeSettled(w) \/ Charge(w)
  <2>1. job.phase = "charge" /\ job.seen \notin Final
    BY <1>3 DEF ChargeSettled, Charge, ChargesSawOpen
  <2>2. \E status : \/ UNCHANGED intents
                    \/ intents' = [intents EXCEPT ![job.intent].status = status]
    BY <1>3 DEF ChargeSettled, Charge, Conclude
  <2> QED
    BY <1>1, <2>1, <2>2, WriterSettles
<1> QED
  BY <1>2, <1>3

LEMMA RetireSettles ==
  ASSUME CheckoutInv, NEW w \in Worker, RetireIntent(w)
  PROVE  Settles
<1>1. /\ work[w].phase = "retiring" /\ Goes(w, work[w].next)
      /\ intents' = [intents EXCEPT ![work[w].intent].status = work[w].status]
  BY DEF RetireIntent
<1>2. work[w] \in RetireJob
  BY <1>1, ReadByPhase
<1>3. work[w].next.phase # "retiring"
  BY <1>2 DEF RetireJob, CreateJob, Idle
<1>4. work'[w] # work[w]
  BY <1>1, <1>3, GoesTo DEF CheckoutInv
<1>5. /\ work[w].phase \in {"decide", "charge", "retiring"}
      /\ work[w].phase # "retiring" => work[w].seen \notin Final
  BY <1>1
<1>6. \E status : \/ UNCHANGED intents
                  \/ intents' = [intents EXCEPT ![work[w].intent].status = status]
  BY <1>1
<1> QED
  BY <1>4, <1>5, <1>6, WriterSettles

LEMMA CreateSettles ==
  ASSUME CheckoutInv, NEW w \in Worker, CreateAttempt(w)
  PROVE  Settles
<1> DEFINE job == work[w]
           i == NextId(intents)
<1>1. CASE job.intent # None
  BY <1>1, SameIntentsSettle DEF CreateAttempt
<1>2. CASE job.intent = None
  <2>1. intents[i] = None
    <3>1. DOMAIN intents = 1..MaxIntents /\ MaxIntents \in Nat /\ HasRoom(intents)
      BY <1>2, BoundAssumption DEF CreateAttempt, CheckoutInv, RowsInv, PayTypeOK, Intent
    <3> QED
      BY <3>1, NextIdFree
  <2>2. \A k \in Rows(intents) : intents'[k] = intents[k]
    BY <1>2, <2>1 DEF CreateAttempt, Rows
  <2> QED
    BY <2>2 DEF Settles, Differs
<1> QED
  BY <1>1, <1>2

LEMMA FallDueSettles ==
  ASSUME CheckoutInv, NEW i \in Intent, FallDue(i)
  PROVE  Settles
<1>1. intents' = [intents EXCEPT ![i].due = TRUE] /\ intents \in [Intent -> IntentRow \cup {None}]
  BY DEF FallDue, CheckoutInv, RowsInv, PayTypeOK
<1>2. \A k \in Rows(intents) : intents'[k].status = intents[k].status
  BY <1>1 DEF Rows, IntentRow
<1> QED
  BY <1>2 DEF Settles, Differs

LEMMA StepSettles ==
  ASSUME CheckoutInv, ChargesSawOpen, PayNext
  PROVE  Settles
<1>1. ASSUME NEW w \in Worker, Checkout(w) PROVE Settles
  BY <1>1, SameIntentsSettle, RetireSettles, CreateSettles
     DEF Checkout, BeginCheckout, FindIntent, ExpireOnRead, CheckIntent
<1>2. ASSUME NEW w \in Worker, ProviderSignal(w) PROVE Settles
  BY <1>2, SameIntentsSettle, SignalSettles
     DEF ProviderSignal, ReadSignal, LockAttempt, ReadInvoice, Announce
<1>3. ASSUME NEW w \in Worker, Administration(w) PROVE Settles
  BY <1>3, SameIntentsSettle
     DEF Administration, BeginPayment, CreatePayment, SettleInvoice, UpdatePayment, RemovePayment,
         UpdateInvoice, RemoveInvoice
<1> QED
  BY <1>1, <1>2, <1>3, SameIntentsSettle, FallDueSettles DEF PayNext, Fail

(* Only ReadInvoice leads to a charge. *)
LEMMA ChargesStaySeen ==
  ASSUME CheckoutInv, ChargesSawOpen, [PayNext]_payVars
  PROVE  ChargesSawOpen'
<1>1. ASSUME NEW w \in Worker, NEW next, Goes(w, next),
             next.phase = "charge" => next.seen \notin Final
      PROVE  ChargesSawOpen'
  BY <1>1, GoesTo DEF CheckoutInv, ChargesSawOpen
<1>2. CASE UNCHANGED work
  BY <1>2 DEF ChargesSawOpen
<1>3. ASSUME NEW w \in Worker, Checkout(w)
      PROVE  \E next : Goes(w, next) /\ (next.phase = "charge" => next.seen \notin Final)
  <2>1. CASE \E a \in Attempt : BeginCheckout(w, a)
    BY <2>1 DEF BeginCheckout, Starts
  <2>2. CASE FindIntent(w)
    BY <2>2 DEF FindIntent, Retire, Idle
  <2>3. CASE \E i \in Intent : ExpireOnRead(w, i)
    BY <2>3 DEF ExpireOnRead, Starts, Retire
  <2>4. CASE CheckIntent(w) \/ RetireIntent(w)
    <3>1. work[w].phase \in {"retire", "retiring"} /\ work[w] \in RetireJob
      BY <2>4, ReadByPhase DEF CheckIntent, RetireIntent
    <3>2. work[w].next.phase # "charge" /\ [work[w] EXCEPT !.phase = "retiring"].phase # "charge"
      BY <3>1 DEF RetireJob, CreateJob, Idle
    <3> QED
      BY <2>4, <3>2 DEF CheckIntent, RetireIntent
  <2>5. CASE CreateAttempt(w)
    BY <2>5 DEF CreateAttempt, Idle
  <2> QED
    BY <1>3, <2>1, <2>2, <2>3, <2>4, <2>5 DEF Checkout
<1>4. ASSUME NEW w \in Worker, ProviderSignal(w)
      PROVE  \E next : Goes(w, next) /\ (next.phase = "charge" => next.seen \notin Final)
  <2>1. CASE \E a \in Attempt, signal \in Signals : ReadSignal(w, a, signal)
    BY <2>1 DEF ReadSignal, Starts
  <2>2. CASE LockAttempt(w)
    <3>1. work[w] \in SignalJob
      BY <2>2, ReadByPhase DEF LockAttempt
    <3>2. [work[w] EXCEPT !.phase = "decide"].phase # "charge"
      BY <3>1 DEF SignalJob
    <3> QED
      BY <2>2, <3>2 DEF LockAttempt
  <2>3. CASE ReadInvoice(w)
    BY <2>3 DEF ReadInvoice, Charges
  <2>4. CASE ApplySignal(w) \/ ChargeSettled(w) \/ Charge(w) \/ Announce(w)
    BY <2>4 DEF ApplySignal, ChargeSettled, Charge, Announce, Idle
  <2> QED
    BY <1>4, <2>1, <2>2, <2>3, <2>4 DEF ProviderSignal
<1>5. ASSUME NEW w \in Worker, Administration(w)
      PROVE  \/ UNCHANGED work
             \/ \E next : Goes(w, next) /\ (next.phase = "charge" => next.seen \notin Final)
  <2>1. CASE \E amount \in Amounts : BeginPayment(w, amount)
    BY <2>1 DEF BeginPayment, Starts
  <2>2. CASE CreatePayment(w)
    <3>1. work[w] \in PayJob
      BY <2>2, ReadByPhase DEF CreatePayment
    <3>2. [work[w] EXCEPT !.phase = "settle"].phase # "charge"
      BY <3>1 DEF PayJob
    <3> QED
      BY <2>2, <3>2 DEF CreatePayment
  <2>3. CASE SettleInvoice(w)
    BY <2>3 DEF SettleInvoice, Idle
  <2> QED
    BY <1>5, <2>1, <2>2, <2>3 DEF Administration, UpdatePayment, RemovePayment, UpdateInvoice,
       RemoveInvoice
<1>6. ASSUME NEW w \in Worker, Fail(w)
      PROVE  \E next : Goes(w, next) /\ (next.phase = "charge" => next.seen \notin Final)
  BY <1>6 DEF Fail, Idle
<1>7. CASE (\E i \in Intent : FallDue(i)) \/ UNCHANGED payVars
  BY <1>2, <1>7 DEF FallDue, payVars
<1> QED
  BY <1>1, <1>2, <1>3, <1>4, <1>5, <1>6, <1>7 DEF PayNext

(* However many requests overlap, a final status is changed only by one that *)
(* had read the intent before it was final: processProviderSignal's check,   *)
(* expirePaymentIntent's and cancelPaymentIntent's hold back all that start  *)
(* later, for any number of requests, providers, keys and intents.           *)
THEOREM FinalAlwaysSettles == PaySpec => FinalStatusSettles
<1>1. PayInit => ChargesSawOpen
  BY DEF PayInit, ChargesSawOpen, Idle
<1>2. CheckoutInv /\ ChargesSawOpen /\ [PayNext]_payVars => ChargesSawOpen'
  BY ChargesStaySeen
<1>3. CheckoutInv /\ ChargesSawOpen /\ [PayNext]_payVars =>
        [\A i \in Rows(intents) :
           intents[i].status \in Final /\ intents'[i].status # intents[i].status =>
             \E w \in Worker :
               /\ work[w].phase \in {"decide", "charge", "retiring"}
               /\ work[w].intent = i
               /\ work[w].phase # "retiring" => work[w].seen \notin Final
               /\ work'[w] # work[w]]_payVars
  BY StepSettles DEF Settles, Differs, StaleCommit
<1> QED
  BY <1>1, <1>2, <1>3, CheckoutInvHolds, PTL DEF PaySpec, FinalStatusSettles

-----------------------------------------------------------------------------
(* What is open under an expired checkout. *)

(* Some request that now commits had found the checkout of a open. *)
LateWriter(a) ==
  \E w \in Worker :
    /\ work[w].phase \in {"create", "decide"}
    /\ work[w].intent = attempts'[a].intent
    /\ work[w].phase = "decide" => work[w].seen \notin Final
    /\ work'[w] # work[w]

Opens(a) == OpenUnderExpired(attempts', intents', a) /\ ~OpenUnderExpired(attempts, intents, a)

StaysClosed == \A a \in Attempt : Opens(a) => LateWriter(a)

(* A step that makes no checkout expired, and writes no status to an attempt *)
(* but a final one.                                                          *)
LEMMA NothingOpens ==
  ASSUME \A i \in Intent : intents'[i].status = "EXPIRED" => intents[i].status = "EXPIRED",
         \A a \in Attempt : attempts'[a] = attempts[a] \/ attempts'[a].status \in Final,
         PayTypeOK
  PROVE  StaysClosed
<1> SUFFICES ASSUME NEW a \in Attempt, Opens(a) PROVE FALSE
  BY DEF StaysClosed
<1>1. attempts'[a] = attempts[a] /\ attempts[a] # None /\ intents'[attempts[a].intent].status = "EXPIRED"
  BY DEF Opens, OpenUnderExpired
<1>2. attempts[a].intent \in Intent
  BY <1>1 DEF PayTypeOK, AttemptRow
<1> QED
  BY <1>1, <1>2 DEF Opens, OpenUnderExpired

LEMMA SameRowsStayClosed ==
  ASSUME PayTypeOK, UNCHANGED <<intents, attempts>>
  PROVE  StaysClosed
BY NothingOpens

(* The expiry takes every open attempt along. *)
LEMMA RetireCloses ==
  ASSUME CheckoutInv, NEW w \in Worker, RetireIntent(w)
  PROVE  StaysClosed
<1> DEFINE job == work[w]
           live == {a \in Rows(attempts) : attempts[a].intent = job.intent /\ attempts[a].status \in ActiveAttempt}
<1>1. job \in RetireJob
  BY ReadByPhase DEF RetireIntent
<1>2. /\ intents' = [intents EXCEPT ![job.intent].status = job.status]
      /\ attempts' = [a \in Attempt |->
           IF a \in live THEN [attempts[a] EXCEPT !.status = job.status] ELSE attempts[a]]
  BY DEF RetireIntent
<1>3. PayTypeOK
  BY DEF CheckoutInv, RowsInv
<1> SUFFICES ASSUME NEW a \in Attempt, Opens(a) PROVE FALSE
  BY DEF StaysClosed
<1>4. attempts'[a] # None /\ attempts'[a].status \notin Final /\ intents'[attempts'[a].intent].status = "EXPIRED"
  BY DEF Opens, OpenUnderExpired
<1>5. a \notin live
  <2> SUFFICES ASSUME a \in live PROVE FALSE
    OBVIOUS
  <2>1. attempts[a] \in AttemptRow
    BY <1>3 DEF PayTypeOK, Rows
  <2>2. attempts'[a] = [attempts[a] EXCEPT !.status = job.status]
    BY <1>2
  <2>3. attempts'[a].status = job.status
    BY <2>1, <2>2 DEF AttemptRow
  <2> QED
    BY <1>1, <1>4, <2>3 DEF RetireJob, Final
<1>6. attempts'[a] = attempts[a]
  BY <1>2, <1>5
<1>7. attempts[a] \in AttemptRow
  BY <1>3, <1>4, <1>6 DEF PayTypeOK
<1>8. attempts[a].intent # job.intent
  <2>1. a \in Rows(attempts)
    BY <1>3, <1>4, <1>6 DEF Rows, PayTypeOK
  <2>2. attempts[a].status \in ActiveAttempt
    BY <1>4, <1>6, <1>7 DEF AttemptRow
  <2> QED
    BY <1>5, <2>1, <2>2
<1>9. intents'[attempts[a].intent] = intents[attempts[a].intent]
  BY <1>2, <1>3, <1>7, <1>8 DEF PayTypeOK, AttemptRow
<1> QED
  BY <1>4, <1>6, <1>9 DEF Opens, OpenUnderExpired

LEMMA CreateCloses ==
  ASSUME CheckoutInv, NEW w \in Worker, CreateAttempt(w)
  PROVE  StaysClosed
<1> DEFINE job == work[w]
           i == IF job.intent = None THEN NextId(intents) ELSE job.intent
<1>1. PayTypeOK
  BY DEF CheckoutInv, RowsInv
<1>2. job.attempt \in Attempt
  BY ReadByPhase DEF CreateAttempt, CreateJob
<1>3. attempts' = [attempts EXCEPT ![job.attempt] = [intent |-> i, status |-> "REDIRECT_REQUIRED"]]
  BY DEF CreateAttempt
<1>4. attempts'[job.attempt].intent = i
  BY <1>1, <1>2, <1>3 DEF PayTypeOK
<1>5. work'[w] # work[w]
  BY GoesTo DEF CreateAttempt, CheckoutInv, Idle
<1> SUFFICES ASSUME NEW a \in Attempt, Opens(a) PROVE LateWriter(a)
  BY DEF StaysClosed
<1>6. CASE job.intent # None
  <2>1. intents' = intents
    BY <1>6 DEF CreateAttempt
  <2>2. a = job.attempt
    <3> SUFFICES ASSUME a # job.attempt PROVE FALSE
      OBVIOUS
    <3>1. attempts'[a] = attempts[a]
      BY <1>3
    <3> QED
      BY <2>1, <3>1 DEF Opens, OpenUnderExpired
  <2> QED
    BY <1>4, <1>5, <1>6, <2>2 DEF LateWriter, CreateAttempt
<1>7. CASE job.intent = None
  <2>1. i \in Intent /\ intents[i] = None
    <3>1. DOMAIN intents = 1..MaxIntents /\ MaxIntents \in Nat /\ HasRoom(intents)
      BY <1>1, <1>7, BoundAssumption DEF CreateAttempt, PayTypeOK, Intent
    <3> QED
      BY <1>7, <3>1, NextIdFree DEF Intent
  <2> HIDE DEF i
  <2>2. intents' = [intents EXCEPT ![i] = [provider |-> job.attempt[1], amount |-> job.amount,
                                           status |-> "REQUIRES_ACTION", due |-> FALSE]]
    BY <1>7 DEF CreateAttempt, i
  <2>3. intents'[i].status = "REQUIRES_ACTION" /\ \A k \in Intent \ {i} : intents'[k] = intents[k]
    BY <1>1, <2>1, <2>2 DEF PayTypeOK
  <2>4. a # job.attempt
    BY <1>4, <2>3 DEF Opens, OpenUnderExpired
  <2>5. attempts'[a] = attempts[a] /\ attempts[a] # None
    BY <1>3, <2>4 DEF Opens, OpenUnderExpired
  <2>6. attempts[a].intent \in Intent /\ intents[attempts[a].intent] # None
    BY <1>1, <2>5 DEF PayTypeOK, Rows, AttemptRow
  <2>7. intents'[attempts[a].intent] = intents[attempts[a].intent]
    BY <2>1, <2>3, <2>6
  <2> QED
    BY <2>5, <2>7 DEF Opens, OpenUnderExpired
<1> QED
  BY <1>6, <1>7

LEMMA SignalCloses ==
  ASSUME CheckoutInv, NEW w \in Worker, ApplySignal(w)
  PROVE  StaysClosed
<1> DEFINE job == work[w]
<1>1. PayTypeOK
  BY DEF CheckoutInv, RowsInv
<1>2. CASE job.seen \in Final
  BY <1>1, <1>2, SameRowsStayClosed DEF ApplySignal
<1>3. CASE job.seen \notin Final
  <2>1. /\ job.attempt \in Attempt /\ job.intent \in Intent
        /\ attempts[job.attempt] # None /\ attempts[job.attempt].intent = job.intent
    BY ReadByPhase DEF ApplySignal, SignalJob, OwnsAttempt
  <2>2. /\ intents' = intents \/ intents' = [intents EXCEPT ![job.intent].status = job.signal]
        /\ attempts' = attempts \/ attempts' = [attempts EXCEPT ![job.attempt].status = job.signal]
    BY <1>3 DEF ApplySignal, Conclude
  <2>3. work'[w] # work[w]
    BY GoesTo DEF ApplySignal, CheckoutInv, Idle
  <2> SUFFICES ASSUME NEW a \in Attempt, Opens(a) PROVE LateWriter(a)
    BY DEF StaysClosed
  <2>4. attempts[a] \in AttemptRow \/ a = job.attempt
    BY <1>1, <2>2 DEF Opens, OpenUnderExpired, PayTypeOK
  <2>5. attempts'[a].intent = attempts[a].intent /\ attempts[a].intent \in Intent
    <3>1. attempts[a] \in AttemptRow
      BY <1>1, <2>1, <2>4 DEF PayTypeOK
    <3>2. attempts'[a] = attempts[a] \/ attempts'[a] = [attempts[a] EXCEPT !.status = job.signal]
      BY <1>1, <2>2 DEF PayTypeOK
    <3> QED
      BY <3>1, <3>2 DEF AttemptRow
  <2>6. attempts[a].intent = job.intent
    <3> SUFFICES ASSUME attempts[a].intent # job.intent PROVE FALSE
      OBVIOUS
    <3>1. attempts'[a] = attempts[a]
      BY <1>1, <2>1, <2>2 DEF PayTypeOK
    <3>2. intents'[attempts[a].intent] = intents[attempts[a].intent]
      BY <1>1, <2>2, <2>5 DEF PayTypeOK
    <3> QED
      BY <3>1, <3>2 DEF Opens, OpenUnderExpired
  <2> QED
    BY <1>3, <2>3, <2>5, <2>6 DEF LateWriter, ApplySignal
<1> QED
  BY <1>2, <1>3

(* A charge leaves its checkout and its attempt failed or succeeded. *)
LEMMA ChargeCloses ==
  ASSUME CheckoutInv, NEW w \in Worker, ChargeSettled(w) \/ Charge(w)
  PROVE  StaysClosed
<1> DEFINE job == work[w]
<1>1. PayTypeOK
  BY DEF CheckoutInv, RowsInv
<1>2. /\ job.attempt \in Attempt /\ job.intent \in Intent
      /\ attempts[job.attempt] # None /\ attempts[job.attempt].intent = job.intent
  BY ReadByPhase DEF ChargeSettled, Charge, ChargeJob, OwnsAttempt
<1>3. PICK status \in {"FAILED", "SUCCEEDED"} :
        /\ intents' = intents \/ intents' = [intents EXCEPT ![job.intent].status = status]
        /\ attempts' = attempts \/ attempts' = [attempts EXCEPT ![job.attempt].status = status]
  BY DEF ChargeSettled, Charge, Conclude
<1>4. intents[job.intent] \in IntentRow /\ attempts[job.attempt] \in AttemptRow
  BY <1>1, <1>2 DEF PayTypeOK, Rows
<1>5. \A i \in Intent : intents'[i].status = "EXPIRED" => intents[i].status = "EXPIRED"
  <2> SUFFICES ASSUME NEW i \in Intent, intents'[i].status = "EXPIRED" PROVE intents[i].status = "EXPIRED"
    OBVIOUS
  <2>1. intents \in [Intent -> IntentRow \cup {None}]
    BY <1>1 DEF PayTypeOK
  <2>2. CASE i = job.intent /\ intents' = [intents EXCEPT ![job.intent].status = status]
    <3>1. intents'[i] = [intents[i] EXCEPT !.status = status]
      BY <2>1, <2>2
    <3>2. intents'[i].status = status
      BY <1>4, <2>2, <3>1 DEF IntentRow
    <3> QED
      BY <3>2
  <2>3. CASE i # job.intent \/ intents' = intents
    BY <1>3, <2>1, <2>3
  <2> QED
    BY <1>3, <2>2, <2>3
<1>6. \A a \in Attempt : attempts'[a] = attempts[a] \/ attempts'[a].status \in Final
  <2> SUFFICES ASSUME NEW a \in Attempt, attempts'[a] # attempts[a] PROVE attempts'[a].status \in Final
    OBVIOUS
  <2>1. attempts \in [Attempt -> AttemptRow \cup {None}]
    BY <1>1 DEF PayTypeOK
  <2>2. a = job.attempt /\ attempts'[a] = [attempts[a] EXCEPT !.status = status]
    BY <1>3, <2>1
  <2>3. attempts'[a].status = status
    BY <1>4, <2>2 DEF AttemptRow
  <2> QED
    BY <2>3 DEF Final
<1> QED
  BY <1>1, <1>5, <1>6, NothingOpens

LEMMA FallDueCloses ==
  ASSUME CheckoutInv, NEW i \in Intent, FallDue(i)
  PROVE  StaysClosed
<1>1. PayTypeOK
  BY DEF CheckoutInv, RowsInv
<1>2. intents' = [intents EXCEPT ![i].due = TRUE] /\ attempts' = attempts /\ intents[i] # None
  BY DEF FallDue, LiveIntents, Rows
<1>3. intents[i] \in IntentRow /\ intents \in [Intent -> IntentRow \cup {None}]
  BY <1>1, <1>2 DEF PayTypeOK
<1>4. \A k \in Intent : intents'[k].status = intents[k].status
  BY <1>2, <1>3 DEF IntentRow
<1> QED
  BY <1>1, <1>2, <1>4, NothingOpens

LEMMA StepCloses ==
  ASSUME CheckoutInv, [PayNext]_payVars
  PROVE  StaysClosed
<1>1. PayTypeOK
  BY DEF CheckoutInv, RowsInv
<1>2. ASSUME NEW w \in Worker, Checkout(w) PROVE StaysClosed
  BY <1>1, <1>2, SameRowsStayClosed, RetireCloses, CreateCloses
     DEF Checkout, BeginCheckout, FindIntent, ExpireOnRead, CheckIntent
<1>3. ASSUME NEW w \in Worker, ProviderSignal(w) PROVE StaysClosed
  BY <1>1, <1>3, SameRowsStayClosed, SignalCloses, ChargeCloses
     DEF ProviderSignal, ReadSignal, LockAttempt, ReadInvoice, Announce
<1>4. ASSUME NEW w \in Worker, Administration(w) PROVE StaysClosed
  BY <1>1, <1>4, SameRowsStayClosed
     DEF Administration, BeginPayment, CreatePayment, SettleInvoice, UpdatePayment, RemovePayment,
         UpdateInvoice, RemoveInvoice
<1>5. ASSUME NEW w \in Worker, Fail(w) PROVE StaysClosed
  BY <1>1, <1>5, SameRowsStayClosed DEF Fail
<1>6. CASE UNCHANGED payVars
  BY <1>1, <1>6, SameRowsStayClosed DEF payVars
<1> QED
  BY <1>2, <1>3, <1>4, <1>5, <1>6, FallDueCloses DEF PayNext

(* An expiry closes a checkout with all its attempts, and nothing opens under *)
(* it later but by a request that had found it open before: for any number    *)
(* of requests that create, reuse, expire and conclude it meanwhile.          *)
THEOREM ExpiredAlwaysStaysClosed == PaySpec => ExpiredStaysClosed
<1>1. CheckoutInv /\ [PayNext]_payVars =>
        [\A a \in Attempt :
           OpenUnderExpired(attempts', intents', a) /\ ~OpenUnderExpired(attempts, intents, a) =>
             \E w \in Worker :
               /\ work[w].phase \in {"create", "decide"}
               /\ work[w].intent = attempts'[a].intent
               /\ work[w].phase = "decide" => work[w].seen \notin Final
               /\ work'[w] # work[w]]_payVars
  BY StepCloses DEF StaysClosed, Opens, LateWriter
<1> QED
  BY <1>1, CheckoutInvHolds, PTL DEF PaySpec, ExpiredStaysClosed
=============================================================================
