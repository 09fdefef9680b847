-------------------------- MODULE InvoiceGeneration --------------------------
(***************************************************************************)
(* finance-service: how the invoices of a semester come to be.  A clerk    *)
(* enters one by hand, generates that of one student, or those of all the  *)
(* students academic-service has confirmed enrollments of.  A request is   *)
(* cut at its three statements per student: is there an invoice, how many  *)
(* are there (the new number), and the insert, which fails on a number     *)
(* that is taken.  There is one semester; the year in a number, amounts,   *)
(* items and the event that follows the insert (see Inbox) are left out.   *)
(***************************************************************************)
EXTENDS Naturals, FiniteSets

CONSTANTS
  Clerk,        \* requests, each served once
  Billed,       \* the students that academic-service lists
  WithItems,    \* those of them that have something to pay
  MaxRemoved,   \* bound: invoices deleted
  Nothing

Kinds == {"manual", "single", "batch"}
Steps == {"find", "count", "create", "done"}
(* todo: the students still to come; one: the student under way. *)
Job == [kind : Kinds, step : Steps, todo : SUBSET Billed, one : Billed \cup {Nothing},
        number : Nat, errors : SUBSET Billed]

ASSUME BillingAssumption ==
  /\ WithItems \subseteq Billed /\ IsFiniteSet(Billed) /\ IsFiniteSet(Clerk)
  /\ MaxRemoved \in Nat
  /\ Nothing \notin Job

VARIABLES
  invoices,     \* the rows of Invoice: [number, student, by]
  job,          \* [Clerk -> the request, or Nothing while it has not come]
  overlapped,   \* history: [Clerk -> the requests it overlapped]
  removed       \* history: the number of invoices deleted

billingVars == <<invoices, job, overlapped, removed>>

MaxNumber == Cardinality(Clerk) * (Cardinality(Billed) + 1)

BillingInit ==
  /\ invoices = {}
  /\ job = [k \in Clerk |-> Nothing]
  /\ overlapped = [k \in Clerk |-> {}]
  /\ removed = 0

-----------------------------------------------------------------------------
Running == {k \in Clerk : job[k] # Nothing /\ job[k].step # "done"}

Begin(k, kind, students) ==
  /\ job[k] = Nothing
  /\ job' = [job EXCEPT ![k] =
       [kind |-> kind, step |-> IF kind = "manual" THEN "count" ELSE "find", todo |-> students,
        one |-> IF kind = "batch" THEN Nothing ELSE CHOOSE s \in students : TRUE,
        number |-> 0, errors |-> {}]]
  /\ overlapped' = [q \in Clerk |->
       IF q = k THEN Running ELSE IF q \in Running THEN overlapped[q] \cup {k} ELSE overlapped[q]]
  /\ UNCHANGED <<invoices, removed>>

GenerateForSemester(k) == Begin(k, "batch", Billed)
GenerateForStudent(k, s) == Begin(k, "single", {s})
CreateInvoice(k, s) == Begin(k, "manual", {s})

(* What follows for a job whose current student is dealt with. *)
Turned(j, failed) ==
  LET rest == j.todo \ {j.one}
      errors == IF failed THEN j.errors \cup {j.one} ELSE j.errors
  IN [j EXCEPT !.todo = rest, !.errors = errors, !.number = 0,
               !.one = Nothing, !.step = IF rest = {} THEN "done" ELSE "find"]

(* Mutants: nothing is looked up; the first error ends the batch. *)
NeverInvoiced(s) == FALSE
GiveUp(j, failed) ==
  [Turned(j, failed) EXCEPT !.step = IF failed \/ j.todo = {j.one} THEN "done" ELSE "find"]

AlreadyInvoiced(s) == \E i \in invoices : i.student = s

(* The catch around one student: the batch goes on. *)
Onward(j, failed) == Turned(j, failed)

(* invoice.findFirst.  A student without items is skipped, and an existing *)
(* invoice too, or refuses the request for a single student.               *)
FindInvoice(k, s) ==
  /\ k \in Running
  /\ job[k].step = "find"
  /\ s \in job[k].todo
  /\ job' = [job EXCEPT ![k] =
       IF AlreadyInvoiced(s) \/ s \notin WithItems
       THEN Onward([@ EXCEPT !.one = s], FALSE)
       ELSE [@ EXCEPT !.one = s, !.step = "count"]]
  /\ UNCHANGED <<invoices, overlapped, removed>>

(* generateInvoiceNumber. *)
NextNumber == Cardinality(invoices) + 1

CountInvoices(k) ==
  /\ k \in Running
  /\ job[k].step = "count"
  /\ job' = [job EXCEPT ![k].number = NextNumber, ![k].step = "create"]
  /\ UNCHANGED <<invoices, overlapped, removed>>

InsertInvoice(k) ==
  /\ k \in Running
  /\ job[k].step = "create"
  /\ LET taken == \E i \in invoices : i.number = job[k].number
     IN /\ invoices' = IF taken THEN invoices
                       ELSE invoices \cup {[number |-> job[k].number, student |-> job[k].one, by |-> k]}
        /\ job' = [job EXCEPT ![k] = Onward(@, taken)]
  /\ UNCHANGED <<overlapped, removed>>

(* removeInvoice of one without checkout history. *)
RemoveInvoice(i) ==
  /\ i \in invoices
  /\ removed < MaxRemoved
  /\ invoices' = invoices \ {i}
  /\ removed' = removed + 1
  /\ UNCHANGED <<job, overlapped>>

-----------------------------------------------------------------------------
BillingNext ==
  \/ \E k \in Clerk :
       \/ GenerateForSemester(k)
       \/ \E s \in Billed : GenerateForStudent(k, s) \/ CreateInvoice(k, s)
       \/ \E s \in Billed : FindInvoice(k, s)
       \/ CountInvoices(k) \/ InsertInvoice(k)
  \/ \E i \in invoices : RemoveInvoice(i)

BillingSpec == BillingInit /\ [][BillingNext]_billingVars

(***************************************************************************)
(* Properties.                                                             *)
(***************************************************************************)
Invoice == [number : 1..MaxNumber, student : Billed, by : Clerk]

(* Every variable keeps its shape. *)
BillingTypeOK ==
  /\ invoices \subseteq Invoice
  /\ \A k \in Clerk : job[k] = Nothing \/ (job[k] \in Job /\ job[k].number <= MaxNumber)
  /\ overlapped \in [Clerk -> SUBSET Clerk]
  /\ removed \in 0..MaxRemoved

(* Numbers are unique, and generating bills a student twice for a semester *)
(* only if two requests overlapped: the look-up and the insert are not one *)
(* transaction, and the table has no constraint on student and semester.   *)
BilledOnce ==
  \A a, b \in invoices : a # b =>
    /\ a.number # b.number
    /\ a.student = b.student /\ {job[a.by].kind, job[b.by].kind} \cap {"manual"} = {}
         => b.by \in overlapped[a.by]

(* A batch that has ended leaves every student with something to pay an    *)
(* invoice or reports an error; and an error has a cause, a request that   *)
(* overlapped or a deletion, which makes the count, and so the next        *)
(* number, fall back on one that is taken.                                 *)
BatchReportTrue ==
  \A k \in Clerk :
    job[k] # Nothing /\ job[k].kind = "batch" /\ job[k].step = "done" =>
      /\ \A s \in WithItems : removed > 0 \/ s \in job[k].errors \/ AlreadyInvoiced(s)
      /\ job[k].errors # {} => removed > 0 \/ overlapped[k] # {}
=============================================================================
