--------------------------- MODULE PaymentCheckout --------------------------
(***************************************************************************)
(* FinanceService of finance-service: paying one invoice of one student.   *)
(* A checkout opens a payment intent with one attempt for each provider    *)
(* and idempotency key; the provider reports on an attempt by callback and *)
(* by webhook, any number of times and in any order; the administration    *)
(* records, edits and deletes manual payments and edits the invoice.       *)
(*                                                                         *)
(* Transactions run at PostgreSQL's default READ COMMITTED level: each     *)
(* statement sees what is committed when it starts, so an operation is cut *)
(* into its reads and its commit.  A request in progress is a worker, what *)
(* it has read is in work.  Writes appear at the commit.  The only lock    *)
(* held across reads is the attempt's row, written by a signal right after *)
(* its first read.                                                         *)
(***************************************************************************)
EXTENDS Integers, FiniteSets, FiniteSetsExt

CONSTANTS
  Worker,        \* requests in progress at the same time
  Provider, Key, \* payment providers and idempotency keys
  Total,         \* the invoice's total
  Signals,       \* bound: what the providers report
  Amounts,       \* bound: the manual payments the administration enters
  InvoiceEdits,  \* bound: the invoice statuses the administration sets
  PaymentEdits,  \* bound: the payment statuses the administration sets
  MaxIntents,    \* bound: payment intents ever created
  MaxPayments,   \* bound: payments recorded at the same time
  None

Intent == 1..MaxIntents        \* in the order of createdAt
PaymentId == 1..MaxPayments
Attempt == Provider \X Key     \* @@unique([invoiceId, studentId, provider, idempotencyKey])

InvoiceStatus == {"DRAFT", "PENDING", "PAID", "OVERDUE", "CANCELLED", "PARTIALLY_PAID"}
PaymentStatus == {"PENDING", "COMPLETED", "FAILED", "REFUNDED"}
ActiveIntent == {"REQUIRES_ACTION", "PROCESSING"}
Final == {"SUCCEEDED", "FAILED", "CANCELLED", "EXPIRED"}
ActiveAttempt == {"REDIRECT_REQUIRED", "PROCESSING"}
SignalStatus == {"SUCCEEDED", "FAILED", "CANCELLED", "PROCESSING"}

(* The rows of PaymentIntent, PaymentAttempt and Payment. *)
IntentRow == [provider : Provider, amount : 1..Total, status : ActiveIntent \cup Final, due : BOOLEAN]
AttemptRow == [intent : Intent, status : ActiveAttempt \cup Final]
PaymentRow == [amount : Nat \ {0}, status : PaymentStatus, intent : Intent \cup {None}]

ASSUME WorkerAssumption == IsFiniteSet(Worker)

ASSUME InvoiceAssumption ==
  /\ Total \in Nat \ {0}
  /\ Amounts \subseteq Nat \ {0}
  /\ InvoiceEdits \subseteq InvoiceStatus
  /\ PaymentEdits \subseteq PaymentStatus

ASSUME BoundAssumption ==
  /\ Signals \subseteq SignalStatus
  /\ {MaxIntents, MaxPayments} \subseteq Nat
  /\ None \notin InvoiceStatus /\ None \notin Intent
  /\ None \notin IntentRow /\ None \notin AttemptRow /\ None \notin PaymentRow

VARIABLES
  invoice,       \* its stored status, or None once it is deleted
  intents,       \* [Intent -> [provider, amount, status, due] or None]
  attempts,      \* [Attempt -> [intent, status] or None]
  payments,      \* [PaymentId -> [amount, status, intent] or None]
  announced,     \* [Intent -> Nat]: payment.completed messages sent for its payment
  work           \* [Worker -> what the request has read, by phase]

rowVars == <<invoice, intents, attempts, payments>>
payVars == <<invoice, intents, attempts, payments, announced, work>>

-----------------------------------------------------------------------------
(* Queries. *)

Rows(table) == {k \in DOMAIN table : table[k] # None}

PaymentsOf(i) == {p \in Rows(payments) : payments[p].intent = i}

PaidAmount ==
  MapThenSumSet(LAMBDA p : payments[p].amount,
                {p \in Rows(payments) : payments[p].status = "COMPLETED"})

Outstanding == IF PaidAmount >= Total THEN 0 ELSE Total - PaidAmount

StatusFromPaid(paid) ==
  IF paid >= Total THEN "PAID" ELSE IF paid > 0 THEN "PARTIALLY_PAID" ELSE "PENDING"

LiveIntents == {i \in Rows(intents) : intents[i].status \in ActiveIntent}

NextId(table) == CHOOSE k \in DOMAIN table \ Rows(table) :
                   \A j \in DOMAIN table \ Rows(table) : k <= j

HasRoom(table) == Rows(table) # DOMAIN table

(* A signal holds the lock on its attempt's row until it commits. *)
Locked(a) == \E w \in Worker : work[w].phase \in {"decide", "charge"} /\ work[w].attempt = a

-----------------------------------------------------------------------------
(* Requests. *)

Idle == [phase |-> "idle"]

Goes(w, next) == work' = [work EXCEPT ![w] = next]

Starts(w, next) == work[w] = Idle /\ Goes(w, next)

(* A request fails: a row is gone, a unique constraint is hit, PostgreSQL     *)
(* breaks a deadlock, the process dies.  Its transaction leaves no trace.     *)
Fail(w) ==
  /\ work[w] # Idle
  /\ Goes(w, Idle)
  /\ UNCHANGED <<invoice, intents, attempts, payments, announced>>

-----------------------------------------------------------------------------
(* initiateStudentInvoiceCheckout.  A known idempotency key returns its     *)
(* attempt and changes nothing.                                             *)

(* Mutant: a settled invoice can be checked out again. *)
BeginCheckoutUnchecked(w, a) ==
  /\ attempts[a] = None
  /\ invoice \notin {None, "CANCELLED"}
  /\ Starts(w, [phase |-> "find", attempt |-> a, amount |-> Outstanding,
                draft |-> invoice = "DRAFT"])
  /\ UNCHANGED <<invoice, intents, attempts, payments, announced>>

BeginCheckout(w, a) ==
  /\ attempts[a] = None
  /\ invoice \notin {None, "CANCELLED"}
  /\ Outstanding > 0
  /\ Starts(w, [phase |-> "find", attempt |-> a, amount |-> Outstanding,
                draft |-> invoice = "DRAFT"])
  /\ UNCHANGED <<invoice, intents, attempts, payments, announced>>

(* A request that gives intent i a final status, and what it goes on with. *)
Retire(i, status, next) == [phase |-> "retire", intent |-> i, status |-> status, next |-> next]

(* The newest live intent decides how the checkout goes on: an overdue one is *)
(* expired, one for another provider cancelled, one for this provider reused; *)
(* one that is processing turns the request away.                             *)
FindIntent(w) ==
  LET job == work[w]
      newest == Max(LiveIntents)
      Create(i) == [phase |-> "create", attempt |-> job.attempt, amount |-> job.amount,
                    draft |-> job.draft, intent |-> i]
  IN
  /\ job.phase = "find"
  /\ \/ LiveIntents = {} /\ Goes(w, Create(None))
     \/ /\ LiveIntents # {} /\ intents[newest].due
        /\ Goes(w, Retire(newest, "EXPIRED", Create(None)))
     \/ /\ LiveIntents # {} /\ ~intents[newest].due
        /\ intents[newest].status = "REQUIRES_ACTION"
        /\ Goes(w, IF intents[newest].provider = job.attempt[1]
                   THEN Create(newest) ELSE Retire(newest, "CANCELLED", Create(None)))
     \/ /\ LiveIntents # {} /\ ~intents[newest].due
        /\ intents[newest].status = "PROCESSING"
        /\ Goes(w, Idle)
  /\ UNCHANGED <<invoice, intents, attempts, payments, announced>>

(* A look at the checkout (getStudentPaymentIntent, the handoff page, a signal  *)
(* sent from the student's page) finds the intent overdue.                      *)
ExpireOnRead(w, i) ==
  /\ i \in LiveIntents
  /\ intents[i].due
  /\ Starts(w, Retire(i, "EXPIRED", Idle))
  /\ UNCHANGED <<invoice, intents, attempts, payments, announced>>

(* What expirePaymentIntent and cancelPaymentIntent read again inside their *)
(* transaction.                                                             *)
Retirable(i, status) ==
  IF status = "EXPIRED" THEN i \in LiveIntents /\ intents[i].due
                        ELSE intents[i].status = "REQUIRES_ACTION"

CheckIntent(w) ==
  LET job == work[w] IN
  /\ job.phase = "retire"
  /\ Goes(w, IF Retirable(job.intent, job.status) THEN [job EXCEPT !.phase = "retiring"] ELSE job.next)
  /\ UNCHANGED <<invoice, intents, attempts, payments, announced>>

(* Mutant: the attempts are left as they are. *)
RetireIntentOnly(w) ==
  LET job == work[w] IN
  /\ job.phase = "retiring"
  /\ intents' = [intents EXCEPT ![job.intent].status = job.status]
  /\ Goes(w, job.next)
  /\ UNCHANGED <<invoice, attempts, payments, announced>>

(* The intent and its live attempts get the final status.  Waits for signals *)
(* that hold one of these attempts.                                          *)
RetireIntent(w) ==
  LET job == work[w]
      live == {a \in Rows(attempts) : /\ attempts[a].intent = job.intent
                                      /\ attempts[a].status \in ActiveAttempt}
  IN
  /\ job.phase = "retiring"
  /\ \A a \in live : ~Locked(a)
  /\ intents' = [intents EXCEPT ![job.intent].status = job.status]
  /\ attempts' = [a \in Attempt |->
       IF a \in live THEN [attempts[a] EXCEPT !.status = job.status] ELSE attempts[a]]
  /\ Goes(w, job.next)
  /\ UNCHANGED <<invoice, payments, announced>>

(* Mutant: idempotency keys are not unique. *)
CreateAnotherAttempt(w) ==
  LET job == work[w]
      i == IF job.intent = None THEN NextId(intents) ELSE job.intent
  IN
  /\ job.phase = "create"
  /\ invoice # None
  /\ job.intent = None => HasRoom(intents)
  /\ intents' = IF job.intent # None THEN intents
                ELSE [intents EXCEPT ![i] = [provider |-> job.attempt[1], amount |-> job.amount,
                                             status |-> "REQUIRES_ACTION", due |-> FALSE]]
  /\ invoice' = IF job.intent = None /\ job.draft THEN "PENDING" ELSE invoice
  /\ attempts' = [attempts EXCEPT ![job.attempt] = [intent |-> i, status |-> "REDIRECT_REQUIRED"]]
  /\ Goes(w, Idle)
  /\ UNCHANGED <<payments, announced>>

(* The closing transaction: the intent if none is reused, and the attempt. *)
CreateAttempt(w) ==
  LET job == work[w]
      i == IF job.intent = None THEN NextId(intents) ELSE job.intent
  IN
  /\ job.phase = "create"
  /\ attempts[job.attempt] = None
  /\ invoice # None
  /\ job.intent = None => HasRoom(intents)
  /\ intents' = IF job.intent # None THEN intents
                ELSE [intents EXCEPT ![i] = [provider |-> job.attempt[1], amount |-> job.amount,
                                             status |-> "REQUIRES_ACTION", due |-> FALSE]]
  /\ invoice' = IF job.intent = None /\ job.draft THEN "PENDING" ELSE invoice
  /\ attempts' = [attempts EXCEPT ![job.attempt] = [intent |-> i, status |-> "REDIRECT_REQUIRED"]]
  /\ Goes(w, Idle)
  /\ UNCHANGED <<payments, announced>>

(* expiresAt passes. *)
FallDue(i) ==
  /\ i \in LiveIntents
  /\ ~intents[i].due
  /\ intents' = [intents EXCEPT ![i].due = TRUE]
  /\ UNCHANGED <<invoice, attempts, payments, announced, work>>

-----------------------------------------------------------------------------
(* processProviderSignal, of a signal whose signature is right; any other *)
(* leaves all of this state alone.                                        *)

ReadSignal(w, a, signal) ==
  /\ attempts[a] # None
  /\ LET i == attempts[a].intent IN
     Starts(w, [phase |-> "signal", attempt |-> a, signal |-> signal, intent |-> i,
                seen |-> intents[i].status, seenAttempt |-> attempts[a].status,
                paid |-> PaymentsOf(i) # {}])
  /\ UNCHANGED <<invoice, intents, attempts, payments, announced>>

(* The attempt's row is written, which waits for other signals about it. *)
LockAttempt(w) ==
  /\ work[w].phase = "signal"
  /\ ~Locked(work[w].attempt)
  /\ Goes(w, [work[w] EXCEPT !.phase = "decide"])
  /\ UNCHANGED <<invoice, intents, attempts, payments, announced>>

(* The next statuses, written only where they differ from what was read. *)
Conclude(job, intentStatus, attemptStatus) ==
  /\ intents' = IF intentStatus = job.seen THEN intents
                ELSE [intents EXCEPT ![job.intent].status = intentStatus]
  /\ attempts' = IF attemptStatus = job.seenAttempt THEN attempts
                 ELSE [attempts EXCEPT ![job.attempt].status = attemptStatus]

Charges(job) == job.seen \notin Final /\ job.signal = "SUCCEEDED" /\ ~job.paid

(* Mutant: a finalised checkout takes signals. *)
ApplyAnySignal(w) ==
  LET job == work[w] IN
  /\ job.phase = "decide"
  /\ ~Charges(job)
  /\ Conclude(job, job.signal, job.signal)
  /\ Goes(w, Idle)
  /\ UNCHANGED <<invoice, payments, announced>>

(* A signal that charges nothing. *)
ApplySignal(w) ==
  LET job == work[w] IN
  /\ job.phase = "decide"
  /\ ~Charges(job)
  /\ IF job.seen \in Final THEN UNCHANGED <<intents, attempts>>
                           ELSE Conclude(job, job.signal, job.signal)
  /\ Goes(w, Idle)
  /\ UNCHANGED <<invoice, payments, announced>>

(* A success: the invoice is read again. *)
ReadInvoice(w) ==
  LET job == work[w] IN
  /\ job.phase = "decide"
  /\ Charges(job)
  /\ Goes(w, [phase |-> "charge", attempt |-> job.attempt, intent |-> job.intent,
              seen |-> job.seen, seenAttempt |-> job.seenAttempt, paidSoFar |-> PaidAmount])
  /\ UNCHANGED <<invoice, intents, attempts, payments, announced>>

(* Nothing is left to pay: the checkout fails and is left for manual review. *)
ChargeSettled(w) ==
  LET job == work[w] IN
  /\ job.phase = "charge"
  /\ job.paidSoFar >= Total
  /\ Conclude(job, "FAILED", "FAILED")
  /\ Goes(w, Idle)
  /\ UNCHANGED <<invoice, payments, announced>>

(* Mutant: Payment.paymentIntentId is not unique. *)
UniquePaymentUnchecked(i) == TRUE

(* Payment.paymentIntentId is @unique. *)
UniquePayment(i) == PaymentsOf(i) = {}

Charge(w) ==
  LET job == work[w]
      amount == intents[job.intent].amount
  IN
  /\ job.phase = "charge"
  /\ job.paidSoFar < Total
  /\ UniquePayment(job.intent)
  /\ HasRoom(payments)
  /\ payments' = [payments EXCEPT ![NextId(payments)] =
                    [amount |-> amount, status |-> "COMPLETED", intent |-> job.intent]]
  /\ invoice' = StatusFromPaid(job.paidSoFar + amount)
  /\ Conclude(job, "SUCCEEDED", "SUCCEEDED")
  /\ Goes(w, [phase |-> "announce", intent |-> job.intent])
  /\ UNCHANGED announced

(* publishPaymentCompleted, after the commit. *)
Announce(w) ==
  /\ work[w].phase = "announce"
  /\ announced' = [announced EXCEPT ![work[w].intent] = @ + 1]
  /\ Goes(w, Idle)
  /\ UNCHANGED <<invoice, intents, attempts, payments>>

-----------------------------------------------------------------------------
(* createPayment, without a transaction: check, insert, update the invoice. *)

BeginPayment(w, amount) ==
  /\ invoice # None
  /\ PaidAmount + amount <= Total
  /\ Starts(w, [phase |-> "pay", amount |-> amount, paidSoFar |-> PaidAmount])
  /\ UNCHANGED <<invoice, intents, attempts, payments, announced>>

CreatePayment(w) ==
  LET job == work[w] IN
  /\ job.phase = "pay"
  /\ invoice # None
  /\ HasRoom(payments)
  /\ payments' = [payments EXCEPT ![NextId(payments)] =
                    [amount |-> job.amount, status |-> "COMPLETED", intent |-> None]]
  /\ Goes(w, [job EXCEPT !.phase = "settle"])
  /\ UNCHANGED <<invoice, intents, attempts, announced>>

SettleInvoice(w) ==
  LET job == work[w] IN
  /\ job.phase = "settle"
  /\ invoice # None
  /\ invoice' = StatusFromPaid(job.paidSoFar + job.amount)
  /\ Goes(w, Idle)
  /\ UNCHANGED <<intents, attempts, payments, announced>>

-----------------------------------------------------------------------------
(* The administration's edits. *)

Manual(p) == payments[p] # None /\ payments[p].intent = None

UpdatePayment(w, p, status) ==
  /\ work[w] = Idle
  /\ Manual(p)
  /\ payments' = [payments EXCEPT ![p].status = status]
  /\ UNCHANGED <<invoice, intents, attempts, announced, work>>

(* Mutant: payments made through a checkout can be deleted as well. *)
RemoveAnyPayment(w, p) ==
  /\ work[w] = Idle
  /\ payments[p] # None
  /\ payments' = [payments EXCEPT ![p] = None]
  /\ UNCHANGED <<invoice, intents, attempts, announced, work>>

RemovePayment(w, p) ==
  /\ work[w] = Idle
  /\ Manual(p)
  /\ payments' = [payments EXCEPT ![p] = None]
  /\ UNCHANGED <<invoice, intents, attempts, announced, work>>

UpdateInvoice(w, status) ==
  /\ work[w] = Idle
  /\ invoice \notin {None, status}
  /\ invoice' = status
  /\ UNCHANGED <<intents, attempts, payments, announced, work>>

(* Mutant: an invoice with checkouts can be deleted. *)
RemoveAnyInvoice(w) ==
  /\ work[w] = Idle
  /\ invoice # None
  /\ invoice' = None
  /\ payments' = [p \in PaymentId |-> None]
  /\ UNCHANGED <<intents, attempts, announced, work>>

(* Its payments go with it; an invoice with checkouts stays. *)
RemoveInvoice(w) ==
  /\ work[w] = Idle
  /\ invoice # None
  /\ Rows(intents) = {}
  /\ invoice' = None
  /\ payments' = [p \in PaymentId |-> None]
  /\ UNCHANGED <<intents, attempts, announced, work>>

-----------------------------------------------------------------------------
PayInit ==
  /\ invoice = "DRAFT"
  /\ intents = [i \in Intent |-> None]
  /\ attempts = [a \in Attempt |-> None]
  /\ payments = [p \in PaymentId |-> None]
  /\ announced = [i \in Intent |-> 0]
  /\ work = [w \in Worker |-> Idle]

Checkout(w) ==
  \/ \E a \in Attempt : BeginCheckout(w, a)
  \/ FindIntent(w)
  \/ \E i \in Intent : ExpireOnRead(w, i)
  \/ CheckIntent(w)
  \/ RetireIntent(w)
  \/ CreateAttempt(w)

ProviderSignal(w) ==
  \/ \E a \in Attempt, signal \in Signals : ReadSignal(w, a, signal)
  \/ LockAttempt(w)
  \/ ApplySignal(w)
  \/ ReadInvoice(w)
  \/ ChargeSettled(w)
  \/ Charge(w)
  \/ Announce(w)

Administration(w) ==
  \/ \E amount \in Amounts : BeginPayment(w, amount)
  \/ CreatePayment(w)
  \/ SettleInvoice(w)
  \/ \E p \in PaymentId, status \in PaymentEdits : UpdatePayment(w, p, status)
  \/ \E p \in PaymentId : RemovePayment(w, p)
  \/ \E status \in InvoiceEdits : UpdateInvoice(w, status)
  \/ RemoveInvoice(w)

PayNext ==
  \/ \E w \in Worker : Checkout(w) \/ ProviderSignal(w) \/ Administration(w) \/ Fail(w)
  \/ \E i \in Intent : FallDue(i)

PaySpec == PayInit /\ [][PayNext]_payVars

-----------------------------------------------------------------------------
(* Type invariant: the rows carry the enum values of schema.prisma, and an *)
(* attempt or a payment refers to an intent that exists.                   *)
PayTypeOK ==
  /\ invoice \in InvoiceStatus \cup {None}
  /\ intents \in [Intent -> IntentRow \cup {None}]
  /\ attempts \in [Attempt -> AttemptRow \cup {None}]
  /\ \A a \in Rows(attempts) : intents[attempts[a].intent] # None
  /\ payments \in [PaymentId -> PaymentRow \cup {None}]
  /\ \A p \in Rows(payments) : payments[p].intent # None => intents[payments[p].intent] # None
  /\ announced \in [Intent -> Nat]

(* A checkout shown as succeeded has been paid: whatever callbacks, webhooks, *)
(* expiries and manual edits overlap, its payment is there.                   *)
SucceededMeansPaid ==
  \A i \in Rows(intents) : intents[i].status = "SUCCEEDED" => PaymentsOf(i) # {}

(* A checkout is charged at most once and announced at most once, and only    *)
(* after it was charged, however often its success is reported and through    *)
(* whichever of its attempts.                                                 *)
ChargedAndAnnouncedOnce ==
  \A i \in Intent : announced[i] <= Cardinality(PaymentsOf(i)) /\ Cardinality(PaymentsOf(i)) <= 1

(* A payment made through a checkout is never changed or deleted, neither by *)
(* the administration nor along with its invoice (finance.service.ts:        *)
(* "Managed checkout payments are append-only").                             *)
ManagedPaymentsAppendOnly ==
  [][\A p \in Rows(payments) :
       payments[p].intent # None => payments'[p] = payments[p]]_payVars

(* A retried checkout finds the intent its idempotency key was given first. *)
KeyKeepsIntent ==
  [][\A a \in Rows(attempts) :
       attempts'[a] # None /\ attempts'[a].intent = attempts[a].intent]_payVars

(* A final status is changed only by a request that read the checkout before *)
(* it was final: by the commit of a signal, or of an expiry or cancellation, *)
(* that had already found it open.  So however many requests overlap and     *)
(* however often the provider repeats or contradicts itself, those that      *)
(* start later leave a final status alone.                                   *)
FinalStatusSettles ==
  [][\A i \in Rows(intents) :
       intents[i].status \in Final /\ intents'[i].status # intents[i].status =>
         \E w \in Worker :
           /\ work[w].phase \in {"decide", "charge", "retiring"}
           /\ work[w].intent = i
           /\ work[w].phase # "retiring" => work[w].seen \notin Final
           /\ work'[w] # work[w]]_payVars

(* Expiry closes a checkout with all its attempts at once, and what is open   *)
(* under an expired checkout afterwards was left by a request that had found  *)
(* the checkout open before: an attempt added by one that reuses it, or the   *)
(* commit of a signal.  So no attempt is overlooked, and none that a student  *)
(* starts after the expiry can end under the expired checkout.                *)
OpenUnderExpired(rows, checkouts, a) ==
  /\ rows[a] # None
  /\ rows[a].status \notin Final
  /\ checkouts[rows[a].intent].status = "EXPIRED"

ExpiredStaysClosed ==
  [][\A a \in Attempt :
       OpenUnderExpired(attempts', intents', a) /\ ~OpenUnderExpired(attempts, intents, a) =>
         \E w \in Worker :
           /\ work[w].phase \in {"create", "decide"}
           /\ work[w].intent = attempts'[a].intent
           /\ work[w].phase = "decide" => work[w].seen \notin Final
           /\ work'[w] # work[w]]_payVars

(* A finalised checkout keeps its status (finance.service.ts: "This sandbox  *)
(* checkout is already finalized").  Does not hold when requests overlap.    *)
FinalStatusSticks ==
  [][\A i \in Rows(intents) :
       intents[i].status \in Final => intents'[i].status = intents[i].status]_payVars

(* The service "rejects overpayments" (finance.service.spec.ts).  Does not   *)
(* hold even while requests do not overlap: a checkout is charged the amount *)
(* that was open when its intent was created.                                *)
NoOverpayment == PaidAmount <= Total
=============================================================================
