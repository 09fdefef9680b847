--------------------------- MODULE ServiceProofs ----------------------------
(***************************************************************************)
(* Theorems about the parts that CampusServices puts side by side, each of *)
(* them about its own specification, for any users, sections, invoices,    *)
(* tabs, tickets and numbers of requests under way: what the pages show    *)
(* and plan, what the rolls of a day hold, who is billed, what becomes of  *)
(* a ticket and of a notification.  Sessions have a module of their own,   *)
(* AuthProofs.  Last, what they say of CampusServices.                     *)
(***************************************************************************)
EXTENDS CampusServices, AuthProofs, DataProofs, FiniteSetTheorems, SequenceTheorems, TLAPS

(***************************************************************************)
(* Pages: the invoices page shows what was selected, the registration page *)
(* keeps its plan.                                                         *)
(***************************************************************************)
(* The invoices page. *)

FetchIsMap == fetch \in [Fetch -> Fetching \cup {NotFetching}]

(* All that is under way for a dialog that opened in quiet is for it. *)
AnswersAreForDialog ==
  quiet => /\ {detail, checkout} \subseteq {open, NoBill}
           /\ \A f \in Fetch : IdleFetch(f) \/ (fetch[f].bill = open /\ fetch[f].on = open)

(* What is under way for a dialog belongs to the semester. *)
DialogIsOfTerm ==
  /\ open # NoBill => {open, detail, checkout} \subseteq BillsOf(term) \cup {NoBill}
  /\ \A f \in Fetch : IdleFetch(f) \/ {fetch[f].bill, fetch[f].on} \subseteq BillsOf(term)

NothingOpen == open = NoBill /\ AllIdle

(* A list asked for in tidiness is the only one on its way, and nobody     *)
(* opens a dialog before it is there.                                      *)
ListOnItsWay ==
  tidy =>
    /\ \A l \in Listing : listing[l] \in {term, NoBill}
    /\ \A l, m \in Listing : listing[l] # NoBill /\ listing[m] # NoBill => l = m
    /\ listView # "loading" => \A l \in Listing : listing[l] = NoBill
    /\ listView # "ready" => NothingOpen
    /\ listView = "ready" => listed = BillsOf(term) /\ DialogIsOfTerm

InvoicesInv == InvoicesTypeOK /\ FetchIsMap /\ AnswersAreForDialog /\ ListOnItsWay

LEMMA InvoicesInvGivesShown == InvoicesInv => ShownIsSelected
BY DEF InvoicesInv, AnswersAreForDialog, ListOnItsWay, ShownIsSelected, DialogIsOfClick, ListIsOfTerm

LEMMA InitInvoicesInv == InvoicesInit => InvoicesInv
<1> SUFFICES ASSUME InvoicesInit PROVE InvoicesInv
  OBVIOUS
<1> USE BillsAssumption DEF InvoicesInit
<1>1. InvoicesTypeOK
  <2>1. \A f \in Fetch : IdleFetch(f)
    BY DEF IdleFetch
  <2>2. leaves \in 0..MaxLeaves /\ AllTerms \in Term
    BY DEF Term
  <2> QED BY <2>1, <2>2 DEF InvoicesTypeOK
<1>2. FetchIsMap
  BY DEF FetchIsMap
<1>3. AnswersAreForDialog
  BY DEF AnswersAreForDialog
<1>4. ListOnItsWay
  BY DEF ListOnItsWay, NothingOpen, AllIdle, IdleFetch
<1> QED BY <1>1, <1>2, <1>3, <1>4 DEF InvoicesInv

-----------------------------------------------------------------------------
(* The page opens anew. *)
LEMMA OpensKeeps ==
  ASSUME InvoicesInv, NEW back \in Bill \cup {NoBill}, Opens(back), leaves' \in 0..MaxLeaves
  PROVE  InvoicesInv'
<1> USE BillsAssumption DEF Opens
<1>1. InvoicesTypeOK'
  BY DEF InvoicesTypeOK, IdleFetch, Term
<1>2. FetchIsMap'
  BY DEF FetchIsMap
<1>3. AnswersAreForDialog'
  BY DEF AnswersAreForDialog
<1>4. ListOnItsWay'
  BY DEF ListOnItsWay, NothingOpen, AllIdle, IdleFetch
<1> QED BY <1>1, <1>2, <1>3, <1>4 DEF InvoicesInv

(* The list is asked for again. *)
LEMMA AskKeeps ==
  ASSUME InvoicesInv, NEW t \in Term, open = NoBill, AskList(t), term' = t,
         UNCHANGED <<listed, returning, leaves, dialogVars>>
  PROVE  InvoicesInv'
<1> USE BillsAssumption DEF InvoicesInv, dialogVars
<1>1. PICK l \in Listing : listing[l] = NoBill /\ listing' = [listing EXCEPT ![l] = t]
                           /\ tidy' = (AllIdle /\ \A m \in Listing : listing[m] = NoBill)
  BY DEF AskList
<1>2. listView' = "loading"
  BY DEF AskList
<1>3. InvoicesTypeOK'
  BY <1>1, <1>2 DEF InvoicesTypeOK, IdleFetch
<1>4. FetchIsMap' /\ AnswersAreForDialog'
  BY <1>1 DEF FetchIsMap, AnswersAreForDialog, IdleFetch
<1>5. ListOnItsWay'
  BY <1>1, <1>2 DEF InvoicesTypeOK, ListOnItsWay, NothingOpen, AllIdle, IdleFetch
<1> QED BY <1>3, <1>4, <1>5

(* A request goes out for the dialog as it is. *)
LEMMA RequestKeeps ==
  ASSUME InvoicesInv, NEW f \in Fetch, IdleFetch(f), NEW x \in Fetching, open # NoBill,
         fetch' = [fetch EXCEPT ![f] = x], x.on = open, x.bill \in {open, detail} \ {NoBill},
         detailError' \in BOOLEAN, UNCHANGED <<listVars, open, detail, checkout, quiet>>
  PROVE  InvoicesInv'
<1> USE BillsAssumption DEF InvoicesInv, listVars
<1>1. \A g \in Fetch : fetch'[g] = IF g = f THEN x ELSE fetch[g]
  BY DEF FetchIsMap
<1>2. InvoicesTypeOK' /\ FetchIsMap'
  BY <1>1 DEF InvoicesTypeOK, FetchIsMap, IdleFetch
<1>3. AnswersAreForDialog'
  BY <1>1 DEF AnswersAreForDialog, IdleFetch
<1>4. ListOnItsWay'
  BY <1>1 DEF ListOnItsWay, NothingOpen, DialogIsOfTerm, AllIdle, IdleFetch
<1> QED BY <1>2, <1>3, <1>4

(* An answer is dealt with: it shows what it is for, or nothing. *)
LEMMA AnswerKeeps ==
  ASSUME InvoicesInv, NEW f \in Fetch, ~IdleFetch(f), NEW x \in Fetching \cup {NotFetching},
         fetch' = [fetch EXCEPT ![f] = x],
         x = NotFetching \/ {x.bill, x.on} \subseteq {fetch[f].bill, fetch[f].on},
         detail' \in {detail, fetch[f].bill}, checkout' \in {checkout, fetch[f].bill},
         listed' \in {listed, listed \cup {fetch[f].bill}}, detailError' \in BOOLEAN,
         UNCHANGED <<term, listing, listView, returning, leaves, tidy, open, quiet>>
  PROVE  InvoicesInv'
<1> USE BillsAssumption DEF InvoicesInv
<1>1. \A g \in Fetch : fetch'[g] = IF g = f THEN x ELSE fetch[g]
  BY DEF FetchIsMap
<1>2. fetch[f].bill \in Bill
  BY DEF InvoicesTypeOK, Fetching
<1>3. InvoicesTypeOK' /\ FetchIsMap'
  BY <1>1, <1>2 DEF InvoicesTypeOK, FetchIsMap, IdleFetch
<1>4. AnswersAreForDialog'
  BY <1>1 DEF AnswersAreForDialog, IdleFetch
<1>5. ListOnItsWay'
  <2>1. CASE ~tidy
    BY <2>1 DEF ListOnItsWay
  <2>2. CASE tidy
    <3>1. listView = "ready" /\ listed = BillsOf(term) /\ DialogIsOfTerm
      BY <2>2 DEF ListOnItsWay, NothingOpen, AllIdle
    <3>2. {fetch[f].bill, fetch[f].on} \subseteq BillsOf(term)
      BY <3>1 DEF DialogIsOfTerm
    <3>3. listed' = BillsOf(term)'
      BY <3>1, <3>2 DEF BillsOf
    <3>4. BillsOf(term)' = BillsOf(term)
      BY DEF BillsOf
    <3>5. DialogIsOfTerm'
      BY <1>1, <3>1, <3>2, <3>4 DEF DialogIsOfTerm, IdleFetch
    <3> QED BY <2>2, <3>1, <3>3, <3>5 DEF ListOnItsWay
  <2> QED BY <2>1, <2>2 DEF InvoicesTypeOK
<1> QED BY <1>3, <1>4, <1>5
(* A dialog opens on an invoice of the list. *)
LEMMA DialogKeeps ==
  ASSUME InvoicesInv, NEW b \in listed, NEW then \in {"nothing", "intent"}, OpenDetail(b, then),
         listView = "ready", UNCHANGED listVars
  PROVE  InvoicesInv'
<1> USE BillsAssumption DEF InvoicesInv, listVars
<1>1. PICK f \in Fetch : IdleFetch(f) /\ fetch' = [fetch EXCEPT ![f] =
                           [op |-> "detail", bill |-> b, on |-> b, then |-> then]]
  BY DEF OpenDetail
<1>2. open' = b /\ detail' = NoBill /\ checkout' = NoBill /\ detailError' = FALSE /\ quiet' = AllIdle
  BY DEF OpenDetail, ClearDialog
<1>3. /\ [op |-> "detail", bill |-> b, on |-> b, then |-> then] \in Fetching
      /\ b \in Bill
  BY DEF InvoicesTypeOK, Fetching
<1>4. \A g \in Fetch : fetch'[g] = IF g = f
        THEN [op |-> "detail", bill |-> b, on |-> b, then |-> then] ELSE fetch[g]
  BY <1>1 DEF FetchIsMap
<1>5. InvoicesTypeOK' /\ FetchIsMap'
  BY <1>1, <1>2, <1>3, <1>4 DEF InvoicesTypeOK, FetchIsMap, IdleFetch, AllIdle
<1>6. AnswersAreForDialog'
  <2>1. quiet' => \A g \in Fetch : g = f \/ fetch'[g] = NotFetching
    BY <1>2, <1>4 DEF AllIdle, IdleFetch
  <2>2. fetch'[f].bill = open' /\ fetch'[f].on = open'
    BY <1>2, <1>4
  <2> QED BY <1>2, <2>1, <2>2 DEF AnswersAreForDialog, IdleFetch
<1>7. ListOnItsWay'
  BY <1>2, <1>4 DEF ListOnItsWay, DialogIsOfTerm, BillsOf, IdleFetch
<1> QED BY <1>5, <1>6, <1>7

(* A list arrives, and may open a dialog. *)
LEMMA ArrivalKeeps ==
  ASSUME InvoicesInv, NEW l \in Listing, ListArrives(l)
  PROVE  InvoicesInv'
<1> USE BillsAssumption DEF InvoicesInv
<1>1. /\ listing[l] # NoBill
      /\ listed' = BillsOf(listing[l])
      /\ listing' = [listing EXCEPT ![l] = NoBill]
      /\ listView' = IF listView = "error" THEN "error" ELSE "ready"
      /\ UNCHANGED <<term, leaves, tidy>>
  BY DEF ListArrives
<1>2. listed' \subseteq Bill
  BY <1>1 DEF BillsOf
<1>3. tidy => /\ listView = "loading" /\ open = NoBill /\ AllIdle
              /\ listed' = BillsOf(term)'
              /\ \A m \in Listing : listing'[m] = NoBill
  BY <1>1 DEF ListOnItsWay, NothingOpen, InvoicesTypeOK
<1>4. CASE returning \notin listed'
  <2>1. UNCHANGED <<returning, dialogVars>>
    BY <1>4 DEF ListArrives
  <2>2. InvoicesTypeOK' /\ FetchIsMap' /\ AnswersAreForDialog'
    BY <1>1, <1>2, <2>1 DEF InvoicesTypeOK, FetchIsMap, AnswersAreForDialog, IdleFetch, dialogVars
  <2>3. ListOnItsWay'
    BY <1>1, <1>3, <2>1 DEF ListOnItsWay, DialogIsOfTerm, AllIdle, IdleFetch, dialogVars
  <2> QED BY <2>2, <2>3
<1>5. CASE returning \in listed'
  <2>1. OpenDetail(returning, "intent") /\ returning' = NoBill
    BY <1>5 DEF ListArrives
  <2>2. PICK f \in Fetch : IdleFetch(f) /\ fetch' = [fetch EXCEPT ![f] =
              [op |-> "detail", bill |-> returning, on |-> returning, then |-> "intent"]]
    BY <2>1 DEF OpenDetail
  <2>3. /\ open' = returning /\ detail' = NoBill /\ checkout' = NoBill
        /\ detailError' = FALSE /\ quiet' = AllIdle
    BY <2>1 DEF OpenDetail, ClearDialog
  <2>4. [op |-> "detail", bill |-> returning, on |-> returning, then |-> "intent"] \in Fetching
    BY <1>2, <1>5 DEF Fetching
  <2>5. \A g \in Fetch : fetch'[g] = IF g = f
          THEN [op |-> "detail", bill |-> returning, on |-> returning, then |-> "intent"] ELSE fetch[g]
    BY <2>2 DEF FetchIsMap
  <2>6. InvoicesTypeOK' /\ FetchIsMap'
    BY <1>1, <1>2, <1>5, <2>1, <2>2, <2>3, <2>4, <2>5
    DEF InvoicesTypeOK, FetchIsMap, IdleFetch, AllIdle
  <2>7. AnswersAreForDialog'
    <3>1. quiet' => \A g \in Fetch : g = f \/ fetch'[g] = NotFetching
      BY <2>3, <2>5 DEF AllIdle, IdleFetch
    <3>2. fetch'[f].bill = open' /\ fetch'[f].on = open'
      BY <2>3, <2>5
    <3> QED BY <2>3, <3>1, <3>2 DEF AnswersAreForDialog, IdleFetch
  <2>8. ListOnItsWay'
    BY <1>1, <1>3, <1>5, <2>3, <2>5 DEF ListOnItsWay, DialogIsOfTerm, AllIdle, IdleFetch
  <2> QED BY <2>6, <2>7, <2>8
<1> QED BY <1>4, <1>5

(* The rest. *)
LEMMA CloseKeeps ==
  ASSUME InvoicesInv, CloseDialog
  PROVE  InvoicesInv'
<1> USE DEF InvoicesInv, CloseDialog, listVars
<1>1. InvoicesTypeOK' /\ FetchIsMap' /\ AnswersAreForDialog'
  BY DEF InvoicesTypeOK, FetchIsMap, AnswersAreForDialog, IdleFetch
<1>2. ListOnItsWay'
  BY DEF ListOnItsWay, NothingOpen, DialogIsOfTerm, AllIdle, IdleFetch
<1> QED BY <1>1, <1>2

LEMMA FailureKeeps ==
  ASSUME InvoicesInv, NEW l \in Listing, ListFails(l)
  PROVE  InvoicesInv'
<1> USE DEF InvoicesInv, ListFails, dialogVars
<1>1. InvoicesTypeOK' /\ FetchIsMap' /\ AnswersAreForDialog'
  BY DEF InvoicesTypeOK, FetchIsMap, AnswersAreForDialog, IdleFetch
<1>2. ListOnItsWay'
  BY DEF InvoicesTypeOK, ListOnItsWay, NothingOpen, AllIdle, IdleFetch
<1> QED BY <1>1, <1>2

-----------------------------------------------------------------------------
LEMMA InvoicesInvInductive == InvoicesInv /\ [InvoicesNext]_invoicesVars => InvoicesInv'
<1> SUFFICES ASSUME InvoicesInv, [InvoicesNext]_invoicesVars PROVE InvoicesInv'
  OBVIOUS
<1> USE BillsAssumption
<1>1. ASSUME OpenInvoices PROVE InvoicesInv'
  <2>1. leaves' \in 0..MaxLeaves
    BY <1>1 DEF OpenInvoices, InvoicesInv, InvoicesTypeOK
  <2> QED BY <1>1, <2>1, OpensKeeps DEF OpenInvoices
<1>2. ASSUME ContinueCheckout PROVE InvoicesInv'
  <2>1. leaves' \in 0..MaxLeaves /\ checkout \in Bill \cup {NoBill}
    BY <1>2 DEF ContinueCheckout, InvoicesInv, InvoicesTypeOK
  <2> QED BY <1>2, <2>1, OpensKeeps DEF ContinueCheckout
<1>3. ASSUME NEW t \in Term, SelectTerm(t) PROVE InvoicesInv'
  BY <1>3, AskKeeps DEF SelectTerm
<1>4. ASSUME RetryList PROVE InvoicesInv'
  BY <1>4, AskKeeps DEF RetryList, InvoicesInv, InvoicesTypeOK
<1>5. ASSUME NEW l \in Listing, ListArrives(l) \/ ListFails(l) PROVE InvoicesInv'
  BY <1>5, ArrivalKeeps, FailureKeeps
<1>6. ASSUME NEW b \in Bill, ClickBill(b) PROVE InvoicesInv'
  BY <1>6, DialogKeeps DEF ClickBill
<1>7. ASSUME NEW f \in Fetch, DetailArrives(f) \/ DetailFails(f) PROVE InvoicesInv'
  <2> DEFINE x == AfterDetail(fetch[f])
  <2>1. fetch[f] \in Fetching
    BY <1>7 DEF DetailArrives, DetailFails, InvoicesInv, InvoicesTypeOK, IdleFetch
  <2>2. /\ x \in Fetching \cup {NotFetching}
        /\ x = NotFetching \/ {x.bill, x.on} \subseteq {fetch[f].bill, fetch[f].on}
    BY <2>1 DEF AfterDetail, Fetching
  <2>3. /\ ~IdleFetch(f) /\ fetch' = [fetch EXCEPT ![f] = x]
        /\ detail' \in {detail, fetch[f].bill} /\ checkout' = checkout
        /\ listed' \in {listed, listed \cup {fetch[f].bill}} /\ detailError' \in BOOLEAN
        /\ UNCHANGED <<term, listing, listView, returning, leaves, tidy, open, quiet>>
    BY <1>7 DEF DetailArrives, DetailFails, IdleFetch, listVars, InvoicesInv, InvoicesTypeOK, FetchIsMap
  <2> HIDE DEF x
  <2> QED BY <2>2, <2>3, AnswerKeeps
<1>8. ASSUME NEW f \in Fetch, NEW found \in BOOLEAN, IntentArrives(f, found) PROVE InvoicesInv'
  BY <1>8, AnswerKeeps DEF IntentArrives, IdleFetch, listVars, InvoicesInv, InvoicesTypeOK
<1>9. ASSUME NEW f \in Fetch, CheckoutStarted(f) PROVE InvoicesInv'
  <2> DEFINE x == [fetch[f] EXCEPT !.op = "detail", !.bill = fetch[f].on]
  <2>1. fetch[f] \in Fetching
    BY <1>9 DEF CheckoutStarted, InvoicesInv, InvoicesTypeOK, IdleFetch
  <2>2. x \in Fetching /\ x.bill = fetch[f].on /\ x.on = fetch[f].on
    BY <2>1 DEF Fetching
  <2>3. /\ ~IdleFetch(f) /\ fetch' = [fetch EXCEPT ![f] = x]
        /\ detail' = detail /\ checkout' = fetch[f].bill /\ listed' = listed /\ detailError' = FALSE
        /\ UNCHANGED <<term, listing, listView, returning, leaves, tidy, open, quiet>>
    BY <1>9, <2>1 DEF CheckoutStarted, IdleFetch, listVars, Fetching, InvoicesInv, FetchIsMap
  <2> HIDE DEF x
  <2> QED BY <2>2, <2>3, AnswerKeeps
<1>10. ASSUME NEW f \in Fetch, CheckoutFails(f) PROVE InvoicesInv'
  BY <1>10, AnswerKeeps DEF CheckoutFails, IdleFetch, listVars, InvoicesInv, InvoicesTypeOK
<1>11. ASSUME StartCheckout PROVE InvoicesInv'
  <2>1. PICK f \in Fetch : IdleFetch(f) /\ fetch' = [fetch EXCEPT ![f] =
              [op |-> "start", bill |-> detail, on |-> open, then |-> "charged"]]
    BY <1>11 DEF StartCheckout
  <2> DEFINE x == [op |-> "start", bill |-> detail, on |-> open, then |-> "charged"]
  <2>2. x \in Fetching /\ x.bill \in {open, detail} \ {NoBill} /\ x.on = open /\ open # NoBill
    BY <1>11 DEF StartCheckout, Fetching, InvoicesInv, InvoicesTypeOK
  <2>3. detailError' \in BOOLEAN /\ UNCHANGED <<listVars, open, detail, checkout, quiet>>
    BY <1>11 DEF StartCheckout, InvoicesInv, InvoicesTypeOK
  <2> HIDE DEF x
  <2> QED BY <2>1, <2>2, <2>3, RequestKeeps DEF x
<1>12. ASSUME RefreshDetail PROVE InvoicesInv'
  <2>1. PICK f \in Fetch : IdleFetch(f) /\ fetch' = [fetch EXCEPT ![f] =
              [op |-> "detail", bill |-> open, on |-> open, then |-> "nothing"]]
    BY <1>12 DEF RefreshDetail
  <2> DEFINE x == [op |-> "detail", bill |-> open, on |-> open, then |-> "nothing"]
  <2>2. x \in Fetching /\ x.bill \in {open, detail} \ {NoBill} /\ x.on = open /\ open # NoBill
    BY <1>12 DEF RefreshDetail, Fetching, InvoicesInv, InvoicesTypeOK
  <2>3. detailError' \in BOOLEAN /\ UNCHANGED <<listVars, open, detail, checkout, quiet>>
    BY <1>12 DEF RefreshDetail
  <2> HIDE DEF x
  <2> QED BY <2>1, <2>2, <2>3, RequestKeeps DEF x
<1>13. ASSUME CloseDialog PROVE InvoicesInv'
  BY <1>13, CloseKeeps
<1>14. ASSUME UNCHANGED invoicesVars PROVE InvoicesInv'
  BY <1>14 DEF invoicesVars, listVars, dialogVars, InvoicesInv, InvoicesTypeOK, FetchIsMap,
     AnswersAreForDialog, ListOnItsWay, NothingOpen, DialogIsOfTerm, AllIdle, IdleFetch
<1> QED BY <1>1, <1>2, <1>3, <1>4, <1>5, <1>6, <1>7, <1>8, <1>9, <1>10, <1>11, <1>12, <1>13, <1>14
        DEF InvoicesNext

(* The invariant holds. *)
THEOREM InvoicesInvHolds == InvoicesSpec => []InvoicesInv
BY InitInvoicesInv, InvoicesInvInductive, PTL DEF InvoicesSpec

(* Type correctness. *)
THEOREM InvoicesTypeCorrect == InvoicesSpec => []InvoicesTypeOK
<1>1. InvoicesInv => InvoicesTypeOK
  BY DEF InvoicesInv
<1> QED BY <1>1, InvoicesInvHolds, PTL

(* A dialog that opened while nothing was under way shows and pays the     *)
(* invoice clicked, and a list asked for then shows the semester selected, *)
(* in whatever order list, details and payments are answered or fail.      *)
THEOREM ShownAlwaysSelected == InvoicesSpec => []ShownIsSelected
BY InvoicesInvHolds, InvoicesInvGivesShown, PTL

-----------------------------------------------------------------------------
(* The registration page. *)

(* The student has a place, or the section is one the page answers not for. *)
Held(s) == place[s] # "none" \/ s \in excused

(* What load maps to. *)
Loading == [step : {"idle", "sent"}, enrolled : SUBSET Wanted,
            waiting : SUBSET Wanted, got : SUBSET {"enrollments", "waitlist"}]

(* Before the page opens nothing is under way. *)
ClosedIsQuiet ==
  view = "closed" =>
    /\ cleared = {}
    /\ submission = NotSubmitting
    /\ \A s \in Wanted : shown[s] = "none" /\ asked[s] = "none"
    /\ \A l \in Load : load[l] = NotLoading

(* Whatever the page takes for a place is one: in what it shows, in what   *)
(* it is about to show, in an answer, and in what it has taken out of the  *)
(* plan.                                                                   *)
WhatIsTakenIsHeld ==
  /\ \A s \in Wanted : shown[s] = "enrolled" \/ asked[s] = "granted" => Held(s)
  /\ \A l \in Load : \A s \in load[l].enrolled : Held(s)
  /\ \A s \in cleared : Held(s)

(* While a plan is submitted, the sections it took are still to come,      *)
(* under way or held.                                                      *)
SubmissionCoversPlan ==
  /\ submission.answer = "sent" => submission.at \in Wanted
  /\ submission.at = NoSection => submission.todo = {}
  /\ submission.answer = "none" => submission = NotSubmitting
  /\ submission.answer \in {"sent", "granted"} =>
       \A s \in submission.planned : \/ s \in submission.todo
                                     \/ s = submission.at /\ submission.answer = "sent"
                                     \/ Held(s)

PlanInv == RegisterTypeOK /\ ClosedIsQuiet /\ WhatIsTakenIsHeld /\ SubmissionCoversPlan

LEMMA InitPlanInv == RegisterInit => PlanInv
BY PageAssumption DEF RegisterInit, PlanInv, RegisterTypeOK, ClosedIsQuiet, WhatIsTakenIsHeld,
   SubmissionCoversPlan, NotSubmitting, NotLoading, Place, Answer

-----------------------------------------------------------------------------
(* An answer keeps the shape of the loads. *)
LEMMA AnsweredLoad ==
  ASSUME load \in [Load -> Loading], NEW l \in Load, NEW rows \in SUBSET Wanted,
         load' = [load EXCEPT ![l].enrolled = rows, ![l].got = @ \cup {"enrollments"}]
  PROVE  load' \in [Load -> Loading]
BY DEF Loading

(* Loading: what is shown as enrolled was a place when it was asked for,   *)
(* and a place is given up only where the page does not answer for it.     *)
LEMMA LoadKeeps ==
  ASSUME PlanInv,
         \/ \E l \in Load :
              \/ AnswerEnrollments(l) \/ \E rows \in SUBSET Wanted : AnswerWaitlist(l, rows)
              \/ \E sections \in SUBSET Wanted : ReceiveLoad(l, sections)
              \/ FailLoad(l)
         \/ OpenPage \/ RetryLoad
  PROVE  PlanInv'
<1> USE DEF PlanInv, RegisterTypeOK, ClosedIsQuiet, WhatIsTakenIsHeld, SubmissionCoversPlan, Held,
            callVars, pageVars, historyVars, Place, Answer, NotLoading
<1>1. ASSUME NEW l \in Load, AnswerEnrollments(l) PROVE PlanInv'
  <2>1. PICK rows \in SUBSET Wanted :
          /\ \A s \in rows : place[s] = "enrolled"
          /\ load' = [load EXCEPT ![l].enrolled = rows, ![l].got = @ \cup {"enrollments"}]
    BY <1>1 DEF AnswerEnrollments
  <2>2. load[l].step = "sent" /\ UNCHANGED <<place, events, callVars, shown, loaded, plan, view, historyVars>>
    BY <1>1 DEF AnswerEnrollments
  <2>3. load' \in [Load -> Loading]
    <3>1. load \in [Load -> Loading]
      BY DEF Loading
    <3> QED BY <2>1, <3>1, AnsweredLoad
  <2>4. \A m \in Load : load'[m].enrolled \in {load[m].enrolled, rows}
    BY <2>1
  <2>5. view # "closed"
    BY <2>2
  <2> QED BY <2>1, <2>2, <2>3, <2>4, <2>5 DEF Loading
<1>2. CASE \E l \in Load, rows \in SUBSET Wanted : AnswerWaitlist(l, rows)
  BY <1>2 DEF AnswerWaitlist
<1>3. CASE \E l \in Load, sections \in SUBSET Wanted : ReceiveLoad(l, sections)
  BY <1>3 DEF ReceiveLoad
<1>4. CASE \E l \in Load : FailLoad(l)
  BY <1>4 DEF FailLoad
<1>5. CASE OpenPage
  BY <1>5 DEF OpenPage, StartLoad, Starting, NotSubmitting
<1>6. CASE RetryLoad
  BY <1>6, PageAssumption DEF RetryLoad, Event, StartLoad, Starting
<1> QED BY <1>1, <1>2, <1>3, <1>4, <1>5, <1>6

(* The service's steps, and what happens outside of the page. *)
LEMMA ServerKeeps ==
  ASSUME PlanInv,
         \/ \E s \in Wanted :
              \/ \E to \in Place : ChangeElsewhere(s, to)
              \/ \E to \in Place, answer \in Answer : TakeClick(s, to, answer)
              \/ \E answer \in Answer : TakeLeave(s, answer)
         \/ \E to \in Place, answer \in Answer : TakePlanned(to, answer)
  PROVE  PlanInv'
<1> USE DEF PlanInv, RegisterTypeOK, ClosedIsQuiet, WhatIsTakenIsHeld, SubmissionCoversPlan, Held,
            pageVars, callVars, historyVars, Place, Answer, NotLoading
<1>1. CASE \E s \in Wanted, to \in Place : ChangeElsewhere(s, to)
  BY <1>1, PageAssumption DEF ChangeElsewhere, Event
<1>2. CASE \E s \in Wanted, to \in Place, answer \in Answer : TakeClick(s, to, answer)
  BY <1>2 DEF TakeClick, Taken, Granted
<1>3. CASE \E s \in Wanted, answer \in Answer : TakeLeave(s, answer)
  BY <1>3 DEF TakeLeave
<1>4. CASE \E to \in Place, answer \in Answer : TakePlanned(to, answer)
  BY <1>4, PageAssumption DEF TakePlanned, Taken, Granted, NotSubmitting
<1> QED BY <1>1, <1>2, <1>3, <1>4

(* The student's clicks on one section, and what follows them. *)
LEMMA ClickKeeps ==
  ASSUME PlanInv, NEW s \in Wanted,
         \/ Toggle(s) \/ ClickEnroll(s) \/ ClickGranted(s) \/ ClickRefused(s)
         \/ ClickLeave(s) \/ LeaveAnswered(s)
  PROVE  PlanInv'
<1> USE DEF PlanInv, RegisterTypeOK, ClosedIsQuiet, WhatIsTakenIsHeld, SubmissionCoversPlan, Held,
            pageVars, historyVars, Place, Answer, NotLoading
<1>1. CASE Toggle(s)
  BY <1>1 DEF Toggle, callVars, NotSubmitting
<1>2. CASE ClickEnroll(s)
  BY <1>2, PageAssumption DEF ClickEnroll, Event
<1>3. CASE ClickGranted(s)
  BY <1>3 DEF ClickGranted, StartLoad, Starting
<1>4. CASE ClickRefused(s)
  BY <1>4 DEF ClickRefused
<1>5. CASE ClickLeave(s)
  BY <1>5, PageAssumption DEF ClickLeave, Event
<1>6. CASE LeaveAnswered(s)
  <2>1. CASE leaving[s] = "granted"
    BY <1>6, <2>1 DEF LeaveAnswered, StartLoad, Starting
  <2>2. CASE leaving[s] # "granted"
    BY <1>6, <2>2 DEF LeaveAnswered
  <2> QED BY <2>1, <2>2
<1> QED BY <1>1, <1>2, <1>3, <1>4, <1>5, <1>6

(* Asking for the next of the sections, the others of the plan being held. *)
LEMMA AskKeepsPlan ==
  ASSUME PlanInv, NEW planned \in SUBSET Wanted, NEW todo \in SUBSET Wanted, Ask(planned, todo),
         \A s \in planned \ todo : Held(s), view # "closed", events' \in 0..MaxEvents,
         UNCHANGED <<place, enrolling, asked, leaving, pageVars, historyVars>>
  PROVE  PlanInv'
<1>1. \/ \E s \in todo : submission' = [planned |-> planned, todo |-> todo \ {s}, at |-> s, answer |-> "sent"]
      \/ todo = {} /\ submission' = [planned |-> planned, todo |-> {}, at |-> NoSection, answer |-> "granted"]
  BY DEF Ask, NotSubmitting
<1>2. RegisterTypeOK'
  BY <1>1 DEF PlanInv, RegisterTypeOK, pageVars, historyVars, Answer
<1>3. ClosedIsQuiet'
  BY DEF ClosedIsQuiet, pageVars
<1>4. WhatIsTakenIsHeld'
  BY DEF PlanInv, WhatIsTakenIsHeld, Held, pageVars, historyVars
<1>5. SubmissionCoversPlan'
  <2>1. \A s \in Wanted : Held(s)' = Held(s)
    BY DEF Held, historyVars
  <2>2. CASE todo = {} /\ submission' = [planned |-> planned, todo |-> {}, at |-> NoSection, answer |-> "granted"]
    BY <2>1, <2>2 DEF SubmissionCoversPlan
  <2>3. ASSUME NEW s \in todo,
               submission' = [planned |-> planned, todo |-> todo \ {s}, at |-> s, answer |-> "sent"]
        PROVE  SubmissionCoversPlan'
    BY <2>1, <2>3, PageAssumption DEF SubmissionCoversPlan
  <2> QED BY <1>1, <2>2, <2>3
<1> QED BY <1>2, <1>3, <1>4, <1>5 DEF PlanInv

(* The submission of the plan. *)
LEMMA SubmissionKeeps ==
  ASSUME PlanInv, SubmitPlan \/ AskNext \/ PlanDone \/ PlanStopped
  PROVE  PlanInv'
<1>1. CASE SubmitPlan
  <2>1. /\ view = "ready" /\ events < MaxEvents /\ events' = events + 1
        /\ Ask(plan \cap loaded, Outstanding)
        /\ UNCHANGED <<place, enrolling, asked, leaving, pageVars, historyVars>>
    BY <1>1 DEF SubmitPlan, Event
  <2>2. /\ plan \cap loaded \in SUBSET Wanted /\ Outstanding \in SUBSET Wanted
        /\ events' \in 0..MaxEvents
    BY <2>1, PageAssumption DEF PlanInv, RegisterTypeOK, Outstanding
  <2>3. \A s \in (plan \cap loaded) \ Outstanding : Held(s)
    BY DEF PlanInv, RegisterTypeOK, WhatIsTakenIsHeld, Outstanding
  <2> QED BY <2>1, <2>2, <2>3, AskKeepsPlan
<1>2. CASE AskNext
  <2>1. /\ submission.answer = "granted" /\ submission.at # NoSection
        /\ Ask(submission.planned, submission.todo)
        /\ UNCHANGED <<place, events, enrolling, asked, leaving, pageVars, historyVars>>
    BY <1>2 DEF AskNext
  <2>2. /\ submission.planned \in SUBSET Wanted /\ submission.todo \in SUBSET Wanted
        /\ events' \in 0..MaxEvents
    BY <2>1 DEF PlanInv, RegisterTypeOK
  <2>3. \A s \in submission.planned \ submission.todo : Held(s)
    BY <2>1 DEF PlanInv, SubmissionCoversPlan
  <2>4. view # "closed"
    BY <2>1 DEF PlanInv, ClosedIsQuiet, NotSubmitting
  <2> QED BY <2>1, <2>2, <2>3, <2>4, AskKeepsPlan
<1>3. CASE PlanDone
  BY <1>3 DEF PlanInv, RegisterTypeOK, ClosedIsQuiet, WhatIsTakenIsHeld, SubmissionCoversPlan, Held, Place,
       Answer, NotLoading, NotSubmitting, PlanDone, StartLoad, Starting
<1>4. CASE PlanStopped
  BY <1>4 DEF PlanInv, RegisterTypeOK, ClosedIsQuiet, WhatIsTakenIsHeld, SubmissionCoversPlan, Held, Place,
       Answer, NotLoading, NotSubmitting, PlanStopped, pageVars, historyVars
<1> QED BY <1>1, <1>2, <1>3, <1>4

-----------------------------------------------------------------------------
LEMMA PlanInvInductive == PlanInv /\ [RegisterNext]_registerVars => PlanInv'
<1> SUFFICES ASSUME PlanInv, [RegisterNext]_registerVars PROVE PlanInv'
  OBVIOUS
<1>1. CASE RegisterNext
  BY <1>1, LoadKeeps, ServerKeeps, ClickKeeps, SubmissionKeeps DEF RegisterNext
<1>2. CASE UNCHANGED registerVars
  BY <1>2 DEF registerVars, callVars, pageVars, historyVars, PlanInv, RegisterTypeOK,
       ClosedIsQuiet, WhatIsTakenIsHeld, SubmissionCoversPlan, Held
<1> QED BY <1>1, <1>2

(* What leaves the plan, and what is about to, is held or excused. *)
THEOREM PlanInvHolds == RegisterSpec => []PlanInv
BY InitPlanInv, PlanInvInductive, PTL DEF RegisterSpec

(* The variables of the page keep their shape. *)
THEOREM PageTypeCorrect == RegisterSpec => []RegisterTypeOK
<1>1. PlanInv => RegisterTypeOK
  BY DEF PlanInv
<1> QED BY <1>1, PlanInvHolds, PTL

(* What the page takes out of the plan has a place, or is of those that    *)
(* PlanIsHonoured excepts, what was not loaded or came in later included.  *)
THEOREM PlanAlwaysHonoured == RegisterSpec => []PlanIsHonoured
<1>1. PlanInv => PlanIsHonoured
  BY DEF PlanInv, WhatIsTakenIsHeld, Held, PlanIsHonoured
<1> QED BY <1>1, PlanInvHolds, PTL

(***************************************************************************)
(* Attendance: rolls saved one after the other do not mix.                 *)
(***************************************************************************)
(* Two rolls under way know of one another. *)
CrossingIsMutual == \A k, q \in Underway : k # q => q \in crossing[k]

(* A roll's rows are there only after it has been saved. *)
RowsAreSaved == \A row \in attendance : row.by \in Roll => SavingAt(row.by, "saved")

(* What is in the day when a roll is about to be inserted has come since   *)
(* it erased the day: from a roll that crossed it, or by hand.             *)
SinceErased ==
  \A k \in Roll : SavingAt(k, "insert") =>
    \A row \in attendance :
      /\ row.by \in Roll => row.by \in crossing[k] /\ k \in crossing[row.by]
      /\ crossing[k] = {} => row.student \in edited

(* While a roll stands, none is about to be inserted. *)
StandingAlone ==
  standing # NoRoll => SavingAt(standing, "saved") /\ \A k \in Roll : ~SavingAt(k, "insert")

RollInv ==
  /\ RollTypeOK
  /\ CrossingIsMutual
  /\ RowsAreSaved
  /\ SinceErased
  /\ StandingAlone
  /\ RollsApart
  /\ RollStands

LEMMA InitRollInv == RollInit => RollInv
BY RollAssumption DEF RollInit, RollInv, RollTypeOK, CrossingIsMutual, RowsAreSaved, SinceErased,
   StandingAlone, RollsApart, RollStands, Underway, SavingAt, Mark

-----------------------------------------------------------------------------
(* What one student's row shows depends on that student's rows only. *)
LEMMA StandsWhereUntouched ==
  ASSUME RollStands, standing' = standing, NEW touched, edited' = edited \cup touched,
         saving' = saving,
         \A row : row.student \notin touched => (row \in attendance' <=> row \in attendance)
  PROVE  RollStands'
<1> SUFFICES ASSUME standing # NoRoll, NEW p \in Known \ edited'
             PROVE  {[student |-> row.student, status |-> row.status] :
                       row \in {r \in attendance' : r.student = p}}
                      = {m \in saving[standing].marks : m.student = p}
  BY DEF RollStands
<1>1. p \notin edited /\ p \notin touched
  OBVIOUS
<1>2. {r \in attendance' : r.student = p} = {r \in attendance : r.student = p}
  BY <1>1
<1> QED BY <1>1, <1>2 DEF RollStands

(* By hand. *)
LEMMA HandKeeps ==
  ASSUME RollInv,
         \/ \E marks \in Marks \ {{}} : InsertByHand(marks)
         \/ \E row \in attendance : RemoveRow(row) \/ \E status \in MarkStatus : UpdateRow(row, status)
         \/ \E t \in Teacher : Reassign(t)
  PROVE  RollInv'
<1> USE DEF RollInv
<1>1. ASSUME NEW marks \in Marks, InsertByHand(marks) PROVE RollInv'
  <2>1. /\ attendance' = attendance \cup RowsOf(marks, NoRoll)
        /\ edited' = edited \cup CalledIn(marks)
        /\ UNCHANGED <<teacher, saving, crossing, standing>>
        /\ marks \subseteq Mark
    BY <1>1 DEF InsertByHand, Marks
  <2>2. /\ CalledIn(marks) \subseteq Known
        /\ \A m, n \in marks : m.student = n.student => m = n
        /\ \A row \in attendance : row.student \notin CalledIn(marks)
    BY <1>1 DEF InsertByHand, Insertable
  <2>3. \A row \in RowsOf(marks, NoRoll) :
          row.student \in CalledIn(marks) /\ row.by = NoRoll /\ row.status \in MarkStatus
          /\ row \in [student : Known, status : MarkStatus, by : Roll \cup {NoRoll}]
    BY <2>1, <2>2 DEF RowsOf, CalledIn, Mark
  <2>4. \A a, b \in RowsOf(marks, NoRoll) : a # b => a.student # b.student
    BY <2>2 DEF RowsOf
  <2>5. RollTypeOK'
    BY <2>1, <2>2, <2>3, RollAssumption DEF RollTypeOK
  <2>6. CrossingIsMutual' /\ RowsAreSaved' /\ SinceErased' /\ StandingAlone'
    BY <2>1, <2>3, RollAssumption DEF CrossingIsMutual, RowsAreSaved, SinceErased, StandingAlone,
       Underway, SavingAt
  <2>7. RollsApart'
    BY <2>1, <2>2, <2>3, <2>4, RollAssumption DEF RollsApart
  <2>8. RollStands'
    BY <2>1, <2>3, StandsWhereUntouched
  <2> QED BY <2>5, <2>6, <2>7, <2>8
<1>2. ASSUME NEW row \in attendance, RemoveRow(row) PROVE RollInv'
  <2>1. /\ attendance' = attendance \ {row}
        /\ edited' = edited \cup {row.student}
        /\ UNCHANGED <<teacher, saving, crossing, standing>>
    BY <1>2 DEF RemoveRow
  <2>2. RollTypeOK'
    BY <2>1, RollAssumption DEF RollTypeOK
  <2>3. CrossingIsMutual' /\ RowsAreSaved' /\ SinceErased' /\ StandingAlone' /\ RollsApart'
    BY <2>1 DEF CrossingIsMutual, RowsAreSaved, SinceErased, StandingAlone, RollsApart,
       Underway, SavingAt
  <2>4. RollStands'
    BY <2>1, StandsWhereUntouched
  <2> QED BY <2>2, <2>3, <2>4
<1>3. ASSUME NEW row \in attendance, NEW status \in MarkStatus, UpdateRow(row, status) PROVE RollInv'
  <2> DEFINE new == [row EXCEPT !.status = status]
  <2>1. /\ attendance' = (attendance \ {row}) \cup {new}
        /\ edited' = edited \cup {row.student}
        /\ UNCHANGED <<teacher, saving, crossing, standing>>
    BY <1>3 DEF UpdateRow
  <2>2. row \in [student : Known, status : MarkStatus, by : Roll \cup {NoRoll}]
    BY DEF RollTypeOK
  <2>3. /\ new \in [student : Known, status : MarkStatus, by : Roll \cup {NoRoll}]
        /\ new.student = row.student /\ new.by = row.by
    BY <2>2
  <2> HIDE DEF new
  <2>4. RollTypeOK'
    BY <2>1, <2>2, <2>3, RollAssumption DEF RollTypeOK
  <2>5. CrossingIsMutual' /\ RowsAreSaved' /\ SinceErased' /\ StandingAlone'
    BY <2>1, <2>3 DEF CrossingIsMutual, RowsAreSaved, SinceErased, StandingAlone, Underway, SavingAt
  <2>6. RollsApart'
    BY <2>1, <2>3 DEF RollsApart
  <2>7. RollStands'
    BY <2>1, <2>3, StandsWhereUntouched
  <2> QED BY <2>4, <2>5, <2>6, <2>7
<1>4. ASSUME NEW t \in Teacher, Reassign(t) PROVE RollInv'
  BY <1>4 DEF Reassign, RollTypeOK, CrossingIsMutual, RowsAreSaved, SinceErased, StandingAlone,
     RollsApart, RollStands, Underway, SavingAt
<1> QED BY <1>1, <1>2, <1>3, <1>4

-----------------------------------------------------------------------------
(* Saving a roll. *)
LEMMA MarkKeeps ==
  ASSUME RollInv, NEW k \in Roll, NEW t \in Teacher, NEW marks \in Marks, MarkSection(k, t, marks)
  PROVE  RollInv'
<1> USE DEF RollInv
<1>1. /\ SavingAt(k, "none")
      /\ saving' = [saving EXCEPT ![k] = [by |-> t, marks |-> marks, step |-> "check"]]
      /\ crossing' = [q \in Roll |-> IF q = k THEN Underway
                                     ELSE IF q \in Underway THEN crossing[q] \cup {k}
                                     ELSE crossing[q]]
      /\ UNCHANGED <<attendance, teacher, standing, edited>>
      /\ marks \subseteq Mark
  BY DEF MarkSection, Marks
<1>2. RollTypeOK'
  BY <1>1 DEF RollTypeOK, Underway
<1>3. Underway' = Underway \cup {k} /\ k \notin Underway
  BY <1>1 DEF RollTypeOK, Underway, SavingAt
<1>4. CrossingIsMutual'
  <2> SUFFICES ASSUME NEW a \in Underway', NEW b \in Underway', a # b
               PROVE  b \in crossing'[a]
    BY DEF CrossingIsMutual
  <2>1. a \in Roll /\ b \in Roll
    BY DEF Underway
  <2>2. CASE a = k
    BY <1>1, <1>3, <2>1, <2>2
  <2>3. CASE b = k
    BY <1>1, <1>3, <2>1, <2>3
  <2>4. CASE a # k /\ b # k
    BY <1>1, <1>3, <2>1, <2>4 DEF CrossingIsMutual
  <2> QED BY <2>2, <2>3, <2>4
<1>5. \A row \in attendance : row.by # k
  BY <1>1 DEF RowsAreSaved, SavingAt
<1>6. RowsAreSaved' /\ SinceErased' /\ StandingAlone' /\ RollsApart'
  BY <1>1, <1>5, RollAssumption DEF RollTypeOK, RowsAreSaved, SinceErased, StandingAlone, RollsApart,
     SavingAt, Underway
<1>7. standing # NoRoll => saving'[standing] = saving[standing]
  BY <1>1 DEF StandingAlone, SavingAt, RollTypeOK
<1>8. RollStands'
  BY <1>1, <1>7 DEF RollStands
<1> QED BY <1>2, <1>4, <1>6, <1>8

(* The next step of a roll under way changes what is said of it only. *)
LEMMA ProceedKeeps ==
  ASSUME RollInv, NEW k \in Roll, k \in Underway,
         NEW step \in {"erase", "insert", "saved", "refused"}, Proceed(k, step),
         crossing' = crossing
  PROVE  /\ saving' \in [Roll -> [by : Teacher, marks : SUBSET Mark,
                          step : {"none", "check", "erase", "insert", "saved", "refused"}]]
         /\ saving'[k].step = step /\ \A q \in Roll \ {k} : saving'[q] = saving[q]
         /\ Underway' \subseteq Underway
         /\ CrossingIsMutual'
<1>1. saving' = [saving EXCEPT ![k].step = step]
  BY DEF Proceed
<1>2. saving' \in [Roll -> [by : Teacher, marks : SUBSET Mark,
                    step : {"none", "check", "erase", "insert", "saved", "refused"}]]
  BY <1>1 DEF RollInv, RollTypeOK
<1>3. saving'[k].step = step /\ \A q \in Roll \ {k} : saving'[q] = saving[q]
  BY <1>1 DEF RollInv, RollTypeOK
<1>4. Underway' \subseteq Underway
  BY <1>2, <1>3 DEF Underway
<1> QED BY <1>2, <1>3, <1>4 DEF RollInv, CrossingIsMutual

LEMMA CheckKeeps ==
  ASSUME RollInv, NEW k \in Roll, CheckTeacher(k)
  PROVE  RollInv'
<1>1. PICK step \in {"erase", "refused"} : Proceed(k, step)
  BY DEF CheckTeacher
<1>2. UNCHANGED <<attendance, teacher, crossing, standing, edited>> /\ k \in Underway /\ SavingAt(k, "check")
  BY DEF CheckTeacher, Underway, SavingAt
<1>3. /\ saving' \in [Roll -> [by : Teacher, marks : SUBSET Mark,
                       step : {"none", "check", "erase", "insert", "saved", "refused"}]]
      /\ saving'[k].step = step /\ \A q \in Roll \ {k} : saving'[q] = saving[q]
      /\ CrossingIsMutual'
  BY <1>1, <1>2, ProceedKeeps
<1>4. RollTypeOK'
  BY <1>2, <1>3 DEF RollInv, RollTypeOK
<1>5. RowsAreSaved' /\ SinceErased' /\ StandingAlone' /\ RollsApart'
  BY <1>2, <1>3 DEF RollInv, RollTypeOK, RowsAreSaved, SinceErased, StandingAlone, RollsApart, SavingAt
<1>6. standing # NoRoll => saving'[standing] = saving[standing]
  BY <1>2, <1>3 DEF RollInv, RollTypeOK, StandingAlone, SavingAt
<1>7. RollStands'
  BY <1>2, <1>6 DEF RollInv, RollStands
<1> QED BY <1>3, <1>4, <1>5, <1>7 DEF RollInv

LEMMA EraseKeeps ==
  ASSUME RollInv, NEW k \in Roll, EraseDay(k)
  PROVE  RollInv'
<1>1. /\ Proceed(k, "insert") /\ attendance' = {} /\ standing' = NoRoll
      /\ UNCHANGED <<teacher, crossing, edited>> /\ k \in Underway
  BY DEF EraseDay, WithoutDay, Underway, SavingAt
<1>2. /\ saving' \in [Roll -> [by : Teacher, marks : SUBSET Mark,
                       step : {"none", "check", "erase", "insert", "saved", "refused"}]]
      /\ CrossingIsMutual'
  BY <1>1, ProceedKeeps
<1> QED BY <1>1, <1>2 DEF RollInv, RollTypeOK, RowsAreSaved, SinceErased, StandingAlone, RollsApart,
        RollStands

(* The insert: whoever else has rows in the day crossed this roll.         *)
LEMMA RollInsertKeeps ==
  ASSUME RollInv, NEW k \in Roll, InsertRoll(k)
  PROVE  RollInv'
<1> DEFINE marks == saving[k].marks
           present == {row.student : row \in attendance}
<1>1. /\ SavingAt(k, "insert") /\ k \in Underway /\ marks \subseteq Mark
      /\ UNCHANGED <<teacher, crossing>>
      /\ edited' = edited \cap present
  BY DEF InsertRoll, Underway, SavingAt, RollInv, RollTypeOK
<1>2. standing = NoRoll
  BY <1>1 DEF RollInv, StandingAlone
<1>3. ASSUME NEW q \in Roll \ {k}, SavingAt(q, "insert")
      PROVE  q \in crossing[k] /\ k \in crossing[q]
  BY <1>1, <1>3 DEF RollInv, CrossingIsMutual, Underway, SavingAt
<1>4. CASE Insertable(marks)
  <2> DEFINE new == RowsOf(marks, k)
  <2>1. /\ attendance' = attendance \cup new /\ Proceed(k, "saved")
        /\ standing' = IF crossing[k] = {} THEN k ELSE NoRoll
    BY <1>4 DEF InsertRoll
  <2>2. /\ saving' \in [Roll -> [by : Teacher, marks : SUBSET Mark,
                         step : {"none", "check", "erase", "insert", "saved", "refused"}]]
        /\ saving'[k].step = "saved" /\ \A q \in Roll \ {k} : saving'[q] = saving[q]
        /\ CrossingIsMutual'
    BY <1>1, <2>1, ProceedKeeps
  <2>3. /\ CalledIn(marks) \subseteq Known
        /\ \A m, n \in marks : m.student = n.student => m = n
        /\ CalledIn(marks) \cap present = {}
    BY <1>4 DEF Insertable
  <2>4. \A row \in new : row.student \in CalledIn(marks) /\ row.by = k
          /\ row \in [student : Known, status : MarkStatus, by : Roll \cup {NoRoll}]
    BY <1>1, <2>3 DEF RowsOf, CalledIn, Mark
  <2>5. \A a, b \in new : a # b => a.student # b.student
    BY <2>3 DEF RowsOf
  <2>6. RollTypeOK'
    BY <1>1, <2>1, <2>2, <2>4 DEF RollInv, RollTypeOK
  <2>7. RowsAreSaved'
    BY <2>1, <2>2, <2>4 DEF RollInv, RowsAreSaved, SavingAt
  <2>8. SinceErased'
    <3> SUFFICES ASSUME NEW q \in Roll, SavingAt(q, "insert")', NEW row \in attendance'
                 PROVE  /\ row.by \in Roll => row.by \in crossing[q] /\ q \in crossing[row.by]
                        /\ crossing[q] = {} => row.student \in edited'
      BY <1>1 DEF SinceErased
    <3>1. q # k /\ SavingAt(q, "insert")
      BY <2>2 DEF SavingAt
    <3>2. q \in crossing[k] /\ k \in crossing[q]
      BY <1>3, <3>1
    <3> QED BY <2>1, <2>4, <3>1, <3>2 DEF RollInv, SinceErased
  <2>9. StandingAlone'
    BY <1>3, <2>1, <2>2, RollAssumption DEF StandingAlone, SavingAt
  <2>10. RollsApart'
    <3> SUFFICES ASSUME NEW a \in attendance', NEW b \in attendance', a # b
                 PROVE  /\ a.student # b.student
                        /\ {a.by, b.by} \subseteq Roll /\ a.by # b.by => b.by \in crossing[a.by]
      BY <1>1 DEF RollsApart
    <3>1. CASE a \in attendance /\ b \in attendance
      BY <3>1 DEF RollInv, RollsApart
    <3>2. CASE a \in new /\ b \in new
      BY <3>2, <2>4, <2>5
    <3>3. CASE a \in attendance /\ b \in new
      BY <3>3, <1>1, <2>3, <2>4 DEF RollInv, SinceErased
    <3>4. CASE a \in new /\ b \in attendance
      BY <3>4, <1>1, <2>3, <2>4 DEF RollInv, SinceErased
    <3> QED BY <2>1, <3>1, <3>2, <3>3, <3>4
  <2>11. RollStands'
    <3> SUFFICES ASSUME crossing[k] = {}, NEW p \in Known \ edited'
                 PROVE  {[student |-> row.student, status |-> row.status] :
                           row \in {r \in attendance' : r.student = p}}
                          = {m \in saving'[k].marks : m.student = p}
      BY <2>1 DEF RollStands
    <3>1. p \notin present
      BY <1>1 DEF RollInv, SinceErased
    <3>2. {r \in attendance' : r.student = p} = {r \in new : r.student = p}
      BY <2>1, <3>1
    <3>3. {[student |-> row.student, status |-> row.status] : row \in {r \in new : r.student = p}}
            = {[student |-> m.student, status |-> m.status] : m \in {n \in marks : n.student = p}}
      <4>1. ASSUME NEW row \in new, row.student = p
            PROVE  \E m \in {n \in marks : n.student = p} :
                     [student |-> row.student, status |-> row.status]
                       = [student |-> m.student, status |-> m.status]
        BY <4>1 DEF RowsOf
      <4>2. ASSUME NEW m \in marks, m.student = p
            PROVE  \E row \in {r \in new : r.student = p} :
                     [student |-> row.student, status |-> row.status]
                       = [student |-> m.student, status |-> m.status]
        <5> DEFINE row == [student |-> m.student, status |-> m.status, by |-> k]
        <5>1. row \in new /\ row.student = p /\ row.status = m.status
          BY <4>2 DEF RowsOf
        <5> QED BY <4>2, <5>1
      <4> DEFINE stated == {[student |-> row.student, status |-> row.status] :
                             row \in {r \in new : r.student = p}}
                 called == {[student |-> m.student, status |-> m.status] :
                             m \in {n \in marks : n.student = p}}
      <4>3. \A x \in stated : x \in called
        BY <4>1
      <4>4. \A x \in called : x \in stated
        BY <4>2
      <4>5. \A x : x \in stated <=> x \in called
        <5> HIDE DEF stated, called
        <5> QED BY <4>3, <4>4
      <4>6. stated = called
        <5> HIDE DEF stated, called
        <5> QED BY <4>5
      <4> QED BY <4>6
    <3>4. \A m \in marks : m = [student |-> m.student, status |-> m.status]
      BY <1>1 DEF Mark
    <3>5. {[student |-> m.student, status |-> m.status] : m \in {n \in marks : n.student = p}}
            = {n \in marks : n.student = p}
      BY <3>4
    <3>6. saving'[k].marks = marks
      BY <2>1 DEF Proceed, RollInv, RollTypeOK
    <3> QED BY <3>2, <3>3, <3>5, <3>6
  <2> QED BY <2>2, <2>6, <2>7, <2>8, <2>9, <2>10, <2>11 DEF RollInv
<1>5. CASE ~Insertable(marks)
  <2>1. Proceed(k, "refused") /\ UNCHANGED <<attendance, standing>>
    BY <1>5 DEF InsertRoll
  <2>2. /\ saving' \in [Roll -> [by : Teacher, marks : SUBSET Mark,
                         step : {"none", "check", "erase", "insert", "saved", "refused"}]]
        /\ saving'[k].step = "refused" /\ \A q \in Roll \ {k} : saving'[q] = saving[q]
        /\ CrossingIsMutual'
    BY <1>1, <2>1, ProceedKeeps
  <2>3. RollTypeOK' /\ RowsAreSaved' /\ StandingAlone' /\ RollsApart' /\ RollStands'
    BY <1>1, <1>2, <2>1, <2>2 DEF RollInv, RollTypeOK, RowsAreSaved, StandingAlone, RollsApart,
       RollStands, SavingAt
  <2>4. SinceErased'
    BY <1>1, <1>3, <2>1, <2>2 DEF RollInv, SinceErased, SavingAt
  <2> QED BY <2>2, <2>3, <2>4 DEF RollInv
<1> QED BY <1>4, <1>5

-----------------------------------------------------------------------------
LEMMA RollInvInductive == RollInv /\ [RollNext]_rollVars => RollInv'
<1> SUFFICES ASSUME RollInv, [RollNext]_rollVars PROVE RollInv'
  OBVIOUS
<1>1. CASE RollNext
  BY <1>1, HandKeeps, MarkKeeps, CheckKeeps, EraseKeeps, RollInsertKeeps DEF RollNext
<1>2. CASE UNCHANGED rollVars
  BY <1>2 DEF rollVars, RollInv, RollTypeOK, CrossingIsMutual, RowsAreSaved, SinceErased,
     StandingAlone, RollsApart, RollStands, Underway, SavingAt
<1> QED BY <1>1, <1>2

LEMMA RollInvHolds == RollSpec => []RollInv
BY InitRollInv, RollInvInductive, PTL DEF RollSpec

(* The rows and requests keep their shape. *)
THEOREM RollTypeCorrect == RollSpec => []RollTypeOK
<1>1. RollInv => RollTypeOK
  BY DEF RollInv
<1> QED BY <1>1, RollInvHolds, PTL

(* Rolls do not mix, and the last one alone stands (see RollsDoNotMix). *)
THEOREM RollsNeverMix == RollSpec => []RollsDoNotMix
<1>1. RollInv => RollsDoNotMix
  BY DEF RollInv, RollsDoNotMix
<1> QED BY <1>1, RollInvHolds, PTL

(***************************************************************************)
(* Invoices of a semester: who is billed twice, and what a batch reports.  *)
(***************************************************************************)
BillingShape ==
  /\ invoices \subseteq [number : Nat, student : Billed, by : Clerk] /\ IsFiniteSet(invoices)
  /\ job \in [Clerk -> Job \cup {Nothing}]
  /\ overlapped \in [Clerk -> SUBSET Clerk]
  /\ removed \in Nat

Creating(k) == k \in Running /\ job[k].step \in {"count", "create"}
Generates(k) == job[k] # Nothing /\ job[k].kind # "manual"

(* Two requests in service at the same time have overlapped. *)
OverlapIsMutual == \A k, q \in Running : k # q => q \in overlapped[k]

(* A request bills a student once: whom it has billed is not to come. *)
BilledIsDone ==
  /\ \A i \in invoices : job[i.by] # Nothing /\ i.student \notin job[i.by].todo
  /\ \A k \in Clerk : Creating(k) => job[k].one \in job[k].todo

(* An invoice of the student a request is about to bill has come since it  *)
(* looked for one.                                                         *)
CameSince ==
  \A k \in Clerk, i \in invoices :
    Creating(k) /\ Generates(k) /\ Generates(i.by) /\ i.student = job[k].one
      => i.by \in overlapped[k] /\ k \in overlapped[i.by]

(* While none was deleted, the numbers do not exceed the count.  One that  *)
(* was counted without an overlap is still the next.                       *)
NumbersInUse ==
  removed = 0 =>
    /\ \A i \in invoices : i.number <= Cardinality(invoices)
    /\ \A k \in Running : job[k].step = "create" =>
         /\ job[k].number <= Cardinality(invoices) + 1
         /\ overlapped[k] = {} => job[k].number = Cardinality(invoices) + 1

(* What a batch leaves behind. *)
BatchLeaves ==
  \A k \in Clerk : job[k] # Nothing /\ job[k].kind = "batch" =>
    /\ \A s \in WithItems \ job[k].todo : removed > 0 \/ s \in job[k].errors \/ AlreadyInvoiced(s)
    /\ job[k].errors # {} => removed > 0 \/ overlapped[k] # {}
    /\ job[k].step = "done" => job[k].todo = {}

BillingInv ==
  /\ BillingShape /\ OverlapIsMutual /\ BilledIsDone /\ CameSince
  /\ NumbersInUse /\ BatchLeaves /\ BilledOnce

LEMMA BillingInvGivesReport == BillingInv => BatchReportTrue
BY DEF BillingInv, BatchLeaves, BatchReportTrue, AlreadyInvoiced

LEMMA InitBillingInv == BillingInit => BillingInv
<1> SUFFICES ASSUME BillingInit PROVE BillingInv
  OBVIOUS
<1> USE DEF BillingInit
<1>1. BillingShape
  BY FS_EmptySet DEF BillingShape
<1>2. Running = {}
  BY DEF Running
<1>3. OverlapIsMutual /\ BilledIsDone /\ CameSince /\ BilledOnce
  BY <1>2 DEF OverlapIsMutual, BilledIsDone, CameSince, BilledOnce, Creating
<1>4. NumbersInUse /\ BatchLeaves
  BY <1>2 DEF NumbersInUse, BatchLeaves
<1> QED BY <1>1, <1>3, <1>4 DEF BillingInv

-----------------------------------------------------------------------------
(* A request comes. *)
LEMMA BeginKeeps ==
  ASSUME BillingInv, NEW k \in Clerk, NEW kind \in Kinds, NEW students \in SUBSET Billed,
         kind # "batch" => \E s \in Billed : students = {s},
         kind = "batch" => students = Billed,
         Begin(k, kind, students)
  PROVE  BillingInv'
<1> USE BillingAssumption DEF BillingInv
<1> DEFINE one == IF kind = "batch" THEN Nothing ELSE CHOOSE s \in students : TRUE
           j == [kind |-> kind, step |-> IF kind = "manual" THEN "count" ELSE "find",
                 todo |-> students, one |-> one, number |-> 0, errors |-> {}]
<1>1. one \in Billed \cup {Nothing} /\ (kind # "batch" => one \in students)
  OBVIOUS
<1>2. /\ job[k] = Nothing /\ job' = [job EXCEPT ![k] = j]
      /\ overlapped' = [q \in Clerk |-> IF q = k THEN Running
                          ELSE IF q \in Running THEN overlapped[q] \cup {k} ELSE overlapped[q]]
      /\ UNCHANGED <<invoices, removed>>
  BY DEF Begin
<1> HIDE DEF one
<1>3. j \in Job
  BY <1>1 DEF Job, Kinds, Steps
<1>4. /\ j.kind = kind /\ j.todo = students /\ j.one = one /\ j.errors = {}
      /\ j.step = IF kind = "manual" THEN "count" ELSE "find"
  OBVIOUS
<1> HIDE DEF j
<1>5. \A q \in Clerk : job'[q] = IF q = k THEN j ELSE job[q]
  BY <1>2 DEF BillingShape
<1>6. k \notin Running /\ Running' = Running \cup {k} /\ Running \subseteq Clerk
  BY <1>2, <1>3, <1>4, <1>5 DEF Running
<1>7. BillingShape'
  BY <1>2, <1>3, <1>5, <1>6 DEF BillingShape
<1>8. OverlapIsMutual'
  <2> SUFFICES ASSUME NEW a \in Running', NEW b \in Running', a # b PROVE b \in overlapped'[a]
    BY DEF OverlapIsMutual
  <2> QED BY <1>2, <1>6 DEF OverlapIsMutual
<1>9. \A i \in invoices : i.by # k /\ i.by \in Clerk
  BY <1>2 DEF BilledIsDone, BillingShape
<1>10. BilledIsDone'
  BY <1>1, <1>2, <1>4, <1>5, <1>6, <1>9 DEF BilledIsDone, Creating
<1>11. CameSince'
  BY <1>2, <1>4, <1>5, <1>6, <1>9 DEF CameSince, Creating, Generates, BillingShape
<1>12. NumbersInUse'
  BY <1>2, <1>4, <1>5, <1>6 DEF NumbersInUse, BillingShape
<1>13. BatchLeaves'
  BY <1>2, <1>3, <1>4, <1>5 DEF BatchLeaves, AlreadyInvoiced, BillingShape
<1>14. BilledOnce'
  BY <1>2, <1>5, <1>9 DEF BilledOnce, BillingShape
<1> QED BY <1>7, <1>8, <1>10, <1>11, <1>12, <1>13, <1>14

(* A request has dealt with a student: the request that is left. *)
LEMMA TurnedIs ==
  ASSUME NEW j \in Job, j.one \in j.todo, NEW failed \in BOOLEAN
  PROVE  /\ Onward(j, failed) \in Job
         /\ Onward(j, failed).kind = j.kind
         /\ Onward(j, failed).todo = j.todo \ {j.one}
         /\ Onward(j, failed).errors = IF failed THEN j.errors \cup {j.one} ELSE j.errors
         /\ Onward(j, failed).step \in {"find", "done"}
         /\ Onward(j, failed).step = "done" => Onward(j, failed).todo = {}
BY DEF Onward, Turned, Job, Steps

(* The student is looked up: skipped, or to be billed. *)
LEMMA FindKeeps ==
  ASSUME BillingInv, NEW k \in Clerk, NEW s \in Billed, FindInvoice(k, s)
  PROVE  BillingInv'
<1> USE BillingAssumption DEF BillingInv
<1> DEFINE seen == [job[k] EXCEPT !.one = s]
           next == [job[k] EXCEPT !.one = s, !.step = "count"]
           skip == AlreadyInvoiced(s) \/ s \notin WithItems
           j == IF skip THEN Onward(seen, FALSE) ELSE next
<1>1. /\ k \in Running /\ job[k] \in Job /\ job[k].step = "find" /\ s \in job[k].todo
      /\ job' = [job EXCEPT ![k] = j]
      /\ UNCHANGED <<invoices, overlapped, removed>>
  BY DEF FindInvoice, Running, BillingShape
<1>2. /\ seen \in Job /\ seen.one = s /\ seen.kind = job[k].kind /\ seen.todo = job[k].todo
      /\ seen.errors = job[k].errors
  BY <1>1 DEF Job
<1>3. /\ next \in Job /\ next.one = s /\ next.kind = job[k].kind /\ next.todo = job[k].todo
      /\ next.errors = job[k].errors /\ next.step = "count"
  BY <1>1 DEF Job, Steps
<1> HIDE DEF seen, next
<1>4. /\ j \in Job /\ j.kind = job[k].kind /\ j.errors = job[k].errors
      /\ j.todo = IF skip THEN job[k].todo \ {s} ELSE job[k].todo
      /\ j.step \in {"find", "done", "count"} /\ (j.step = "count" => ~skip /\ j.one = s)
      /\ j.step = "done" => j.todo = {}
  <2>1. CASE skip
    BY <1>1, <1>2, <2>1, TurnedIs
  <2>2. CASE ~skip
    BY <1>3, <2>2
  <2> QED BY <2>1, <2>2
<1> HIDE DEF j
<1>5. \A q \in Clerk : job'[q] = IF q = k THEN j ELSE job[q]
  BY <1>1 DEF BillingShape
<1>6. Running' \subseteq Running /\ Running \subseteq Clerk
  BY <1>1, <1>5 DEF Running
<1>7. BillingShape'
  BY <1>1, <1>4, <1>5 DEF BillingShape
<1>8. OverlapIsMutual'
  BY <1>1, <1>6 DEF OverlapIsMutual
<1>9. BilledIsDone'
  BY <1>1, <1>4, <1>5, <1>6 DEF BilledIsDone, Creating, BillingShape
<1>10. CameSince'
  BY <1>1, <1>4, <1>5, <1>6 DEF CameSince, Creating, Generates, AlreadyInvoiced, BillingShape
<1>11. NumbersInUse'
  BY <1>1, <1>4, <1>5, <1>6 DEF NumbersInUse
<1>12. BatchLeaves'
  BY <1>1, <1>4, <1>5 DEF BatchLeaves, AlreadyInvoiced
<1>13. BilledOnce'
  BY <1>1, <1>4, <1>5 DEF BilledOnce, BillingShape
<1> QED BY <1>7, <1>8, <1>9, <1>10, <1>11, <1>12, <1>13

(* The invoices are counted. *)
LEMMA CountKeeps ==
  ASSUME BillingInv, NEW k \in Clerk, CountInvoices(k)
  PROVE  BillingInv'
<1> USE BillingAssumption DEF BillingInv
<1> DEFINE j == [job[k] EXCEPT !.number = NextNumber, !.step = "create"]
<1>1. /\ k \in Running /\ job[k] \in Job /\ job[k].step = "count"
      /\ UNCHANGED <<invoices, overlapped, removed>>
  BY DEF CountInvoices, Running, BillingShape
<1>2. job' = [job EXCEPT ![k] = j]
  BY DEF CountInvoices
<1>3. NextNumber \in Nat /\ NextNumber = Cardinality(invoices) + 1
  BY FS_CardinalityType DEF BillingShape, NextNumber
<1>4. /\ j \in Job /\ j.kind = job[k].kind /\ j.errors = job[k].errors /\ j.todo = job[k].todo
      /\ j.one = job[k].one /\ j.step = "create" /\ j.number = Cardinality(invoices) + 1
  <2>1. \A n \in Nat : [job[k] EXCEPT !.number = n, !.step = "create"] \in Job
    BY <1>1 DEF Job, Steps
  <2>2. j \in Job
    BY <1>3, <2>1
  <2> QED BY <1>1, <1>3, <2>2 DEF Job
<1> HIDE DEF j
<1>5. \A q \in Clerk : job'[q] = IF q = k THEN j ELSE job[q]
  BY <1>2 DEF BillingShape
<1>6. Running' = Running /\ Running \subseteq Clerk
  BY <1>1, <1>4, <1>5 DEF Running
<1>7. BillingShape'
  BY <1>1, <1>2, <1>4, <1>5 DEF BillingShape
<1>8. OverlapIsMutual'
  BY <1>1, <1>6 DEF OverlapIsMutual
<1>9. BilledIsDone'
  BY <1>1, <1>4, <1>5, <1>6 DEF BilledIsDone, Creating, BillingShape
<1>10. CameSince'
  BY <1>1, <1>4, <1>5, <1>6 DEF CameSince, Creating, Generates, BillingShape
<1>11. NumbersInUse'
  BY <1>1, <1>3, <1>4, <1>5, <1>6 DEF NumbersInUse
<1>12. BatchLeaves'
  BY <1>1, <1>4, <1>5 DEF BatchLeaves, AlreadyInvoiced
<1>13. BilledOnce'
  BY <1>1, <1>4, <1>5 DEF BilledOnce, BillingShape
<1> QED BY <1>7, <1>8, <1>9, <1>10, <1>11, <1>12, <1>13

(* The invoice is inserted, or its number is taken. *)
LEMMA InvoiceInsertKeeps ==
  ASSUME BillingInv, NEW k \in Clerk, InsertInvoice(k)
  PROVE  BillingInv'
<1> USE BillingAssumption DEF BillingInv
<1> DEFINE taken == \E i \in invoices : i.number = job[k].number
           row == [number |-> job[k].number, student |-> job[k].one, by |-> k]
           j == Onward(job[k], taken)
<1>1. /\ k \in Running /\ job[k] \in Job /\ job[k].step = "create" /\ job[k].one \in job[k].todo
      /\ job' = [job EXCEPT ![k] = j]
      /\ invoices' = IF taken THEN invoices ELSE invoices \cup {row}
      /\ UNCHANGED <<overlapped, removed>>
  BY DEF InsertInvoice, Running, BillingShape, BilledIsDone, Creating
<1>2. taken \in BOOLEAN /\ row.number = job[k].number /\ row.student = job[k].one /\ row.by = k
  OBVIOUS
<1>3. row \in [number : Nat, student : Billed, by : Clerk] /\ row \in [number : Nat, student : job[k].todo, by : {k}]
  BY <1>1 DEF Job
<1>4. /\ j \in Job /\ j.kind = job[k].kind /\ j.todo = job[k].todo \ {job[k].one}
      /\ j.errors = IF taken THEN job[k].errors \cup {job[k].one} ELSE job[k].errors
      /\ j.step \in {"find", "done"} /\ (j.step = "done" => j.todo = {})
  BY <1>1, <1>2, TurnedIs
<1> HIDE DEF j, row
<1>5. \A q \in Clerk : job'[q] = IF q = k THEN j ELSE job[q]
  BY <1>1 DEF BillingShape
<1>6. Running' \subseteq Running /\ Running \subseteq Clerk
  BY <1>1, <1>5 DEF Running
<1>7. /\ IsFiniteSet(invoices') /\ Cardinality(invoices) \in Nat
      /\ row \notin invoices => Cardinality(invoices \cup {row}) = Cardinality(invoices) + 1
  BY <1>1, FS_AddElement, FS_CardinalityType DEF BillingShape
<1>8. BillingShape'
  BY <1>1, <1>3, <1>4, <1>5, <1>7 DEF BillingShape
<1>9. OverlapIsMutual'
  BY <1>1, <1>6 DEF OverlapIsMutual
<1>10. BilledIsDone'
  BY <1>1, <1>2, <1>4, <1>5, <1>6 DEF BilledIsDone, Creating, BillingShape
<1>11. CameSince'
  <2> SUFFICES ASSUME NEW q \in Clerk, NEW i \in invoices', Creating(q)', Generates(q)', Generates(i.by)',
                      i.student = job'[q].one
               PROVE  i.by \in overlapped[q] /\ q \in overlapped[i.by]
    BY <1>1 DEF CameSince
  <2>1. q # k /\ Creating(q) /\ Generates(q) /\ job'[q] = job[q]
    BY <1>4, <1>5, <1>6 DEF Creating, Generates
  <2>2. CASE i \in invoices
    BY <1>4, <1>5, <2>1, <2>2 DEF CameSince, Generates, BilledIsDone, BillingShape
  <2>3. CASE i = row
    BY <1>1, <1>2, <2>1, <2>3 DEF OverlapIsMutual, Creating
  <2> QED BY <1>1, <2>2, <2>3
<1>12. NumbersInUse'
  <2> SUFFICES ASSUME removed = 0
               PROVE  /\ \A i \in invoices' : i.number <= Cardinality(invoices')
                      /\ \A q \in Running' : job'[q].step = "create" =>
                           /\ job'[q].number <= Cardinality(invoices') + 1
                           /\ overlapped[q] = {} => job'[q].number = Cardinality(invoices') + 1
    BY <1>1 DEF NumbersInUse
  <2>1. \A q \in Running' : job'[q].step = "create" => q # k /\ q \in Running /\ job'[q] = job[q]
    BY <1>4, <1>5, <1>6
  <2>2. \A q \in Running : q # k => overlapped[q] # {}
    BY <1>1 DEF OverlapIsMutual
  <2>3. job[k].number <= Cardinality(invoices) + 1 /\ job[k].number \in Nat
    BY <1>1 DEF NumbersInUse, Job
  <2>4. \A i \in invoices : i.number \in Nat /\ i.number <= Cardinality(invoices)
    BY DEF NumbersInUse, BillingShape
  <2>5. \A q \in Running : job[q].step = "create" =>
          job[q].number \in Nat /\ job[q].number <= Cardinality(invoices) + 1
    BY <1>6 DEF NumbersInUse, Running, BillingShape, Job
  <2>6. CASE taken
    BY <1>1, <2>1, <2>2, <2>4, <2>5, <2>6
  <2>7. CASE ~taken
    <3>1. row \notin invoices
      BY <1>2, <2>7
    <3>2. Cardinality(invoices') = Cardinality(invoices) + 1
      BY <1>1, <1>7, <2>7, <3>1
    <3>3. \A i \in invoices' : i.number <= Cardinality(invoices')
      BY <1>1, <1>2, <1>7, <2>3, <2>4, <2>7, <3>2
    <3>4. \A q \in Running' : job'[q].step = "create" => job'[q].number <= Cardinality(invoices') + 1
      BY <1>7, <2>1, <2>5, <3>2
    <3> QED BY <2>1, <2>2, <3>3, <3>4
  <2> QED BY <2>6, <2>7
<1>13. BatchLeaves'
  <2> SUFFICES ASSUME NEW q \in Clerk, job'[q] # Nothing, job'[q].kind = "batch"
               PROVE  /\ \A s \in WithItems \ job'[q].todo :
                           removed > 0 \/ s \in job'[q].errors \/ AlreadyInvoiced(s)'
                      /\ job'[q].errors # {} => removed > 0 \/ overlapped[q] # {}
                      /\ job'[q].step = "done" => job'[q].todo = {}
    BY <1>1 DEF BatchLeaves
  <2>1. \A s : AlreadyInvoiced(s) => AlreadyInvoiced(s)'
    BY <1>1 DEF AlreadyInvoiced
  <2>2. CASE q # k
    BY <1>5, <2>1, <2>2 DEF BatchLeaves
  <2>3. CASE q = k
    <3>1. ~taken => \E i \in invoices' : i.student = job[k].one
      <4>1. ~taken => row \in invoices'
        BY <1>1
      <4> QED BY <1>2, <4>1
    <3>2. \A s \in WithItems \ job[k].todo : removed > 0 \/ s \in job[k].errors \/ AlreadyInvoiced(s)
      BY <1>1, <1>4, <1>5, <2>3 DEF BatchLeaves, Running
    <3>6. job'[k] = j
      BY <1>5
    <3>3. \A s \in WithItems \ job'[k].todo : removed > 0 \/ s \in job'[k].errors \/ AlreadyInvoiced(s)'
      <4> SUFFICES ASSUME NEW s \in WithItems \ job'[k].todo
                   PROVE  removed > 0 \/ s \in job'[k].errors \/ AlreadyInvoiced(s)'
        OBVIOUS
      <4>1. CASE s # job[k].one
        BY <1>4, <2>1, <3>2, <3>6, <4>1
      <4>2. CASE s = job[k].one /\ taken
        BY <1>4, <3>6, <4>2
      <4>3. CASE s = job[k].one /\ ~taken
        BY <3>1, <4>3 DEF AlreadyInvoiced
      <4> QED BY <4>1, <4>2, <4>3
    <3>4. taken => removed > 0 \/ overlapped[k] # {}
      <4> SUFFICES ASSUME removed = 0, overlapped[k] = {}, taken PROVE FALSE
        BY DEF BillingShape
      <4>1. job[k].number = Cardinality(invoices) + 1
        BY <1>1 DEF NumbersInUse
      <4>2. PICK i \in invoices : i.number = job[k].number
        OBVIOUS
      <4>3. i.number \in Nat /\ i.number <= Cardinality(invoices)
        BY DEF NumbersInUse, BillingShape
      <4> QED BY <1>7, <4>1, <4>2, <4>3
    <3>5. job[k].errors # {} => removed > 0 \/ overlapped[k] # {}
      BY <1>4, <1>5, <2>3, <1>1 DEF BatchLeaves, Running
    <3> QED BY <1>4, <1>5, <2>3, <3>3, <3>4, <3>5
  <2> QED BY <2>2, <2>3
<1>14. BilledOnce'
  <2> SUFFICES ASSUME NEW a \in invoices', NEW b \in invoices', a # b
               PROVE  /\ a.number # b.number
                      /\ a.student = b.student
                           /\ {job'[a.by].kind, job'[b.by].kind} \cap {"manual"} = {}
                           => b.by \in overlapped[a.by]
    BY <1>1 DEF BilledOnce
  <2>1. \A i \in invoices' : i.by \in Clerk /\ job'[i.by].kind = job[i.by].kind
    BY <1>1, <1>2, <1>4, <1>5 DEF BillingShape
  <2>2. CASE a \in invoices /\ b \in invoices
    BY <2>1, <2>2 DEF BilledOnce
  <2>3. Creating(k)
    BY <1>1 DEF Creating
  <2>4. \A i \in invoices : i.by = k => i.student # job[k].one
    BY <1>1 DEF BilledIsDone
  <2>5. \A i \in invoices : i.student = job[k].one /\ job[i.by].kind # "manual" /\ job[k].kind # "manual"
          => i.by \in overlapped[k] /\ k \in overlapped[i.by]
    BY <1>1, <2>3 DEF CameSince, Generates, BilledIsDone, Running
  <2>6. CASE a = row /\ b \in invoices /\ ~taken
    BY <1>2, <2>1, <2>5, <2>6
  <2>7. CASE b = row /\ a \in invoices /\ ~taken
    BY <1>2, <2>1, <2>5, <2>7
  <2> QED BY <1>1, <2>2, <2>6, <2>7
<1> QED BY <1>8, <1>9, <1>10, <1>11, <1>12, <1>13, <1>14

(* An invoice is deleted. *)
LEMMA RemoveKeeps ==
  ASSUME BillingInv, NEW i \in invoices, RemoveInvoice(i)
  PROVE  BillingInv'
<1> USE DEF BillingInv
<1>1. /\ invoices' = invoices \ {i} /\ removed' = removed + 1 /\ removed' > 0
      /\ UNCHANGED <<job, overlapped>>
  BY DEF RemoveInvoice, BillingShape
<1>2. BillingShape'
  BY <1>1, FS_RemoveElement DEF BillingShape
<1>3. Running' = Running
  BY <1>1 DEF Running
<1>4. OverlapIsMutual' /\ BilledIsDone' /\ CameSince'
  BY <1>1, <1>3 DEF OverlapIsMutual, BilledIsDone, CameSince, Creating, Generates
<1>5. NumbersInUse' /\ BatchLeaves' /\ BilledOnce'
  BY <1>1, <1>2 DEF NumbersInUse, BatchLeaves, BilledOnce, BillingShape
<1> QED BY <1>2, <1>4, <1>5

LEMMA BillingStutterKeeps ==
  ASSUME BillingInv, UNCHANGED billingVars
  PROVE  BillingInv'
BY DEF billingVars, BillingInv, BillingShape, Running, OverlapIsMutual, BilledIsDone, CameSince, Creating,
   Generates, NumbersInUse, BatchLeaves, BilledOnce, AlreadyInvoiced

-----------------------------------------------------------------------------
LEMMA BillingInvInductive == BillingInv /\ [BillingNext]_billingVars => BillingInv'
<1> SUFFICES ASSUME BillingInv, [BillingNext]_billingVars PROVE BillingInv'
  OBVIOUS
<1>1. ASSUME NEW k \in Clerk, GenerateForSemester(k) PROVE BillingInv'
  BY <1>1, BeginKeeps DEF GenerateForSemester, Kinds
<1>2. ASSUME NEW k \in Clerk, NEW s \in Billed, GenerateForStudent(k, s) \/ CreateInvoice(k, s)
      PROVE  BillingInv'
  <2>1. {s} \in SUBSET Billed /\ \E p \in Billed : {s} = {p}
    OBVIOUS
  <2> QED BY <1>2, <2>1, BeginKeeps DEF GenerateForStudent, CreateInvoice, Kinds
<1> QED BY <1>1, <1>2, FindKeeps, CountKeeps, InvoiceInsertKeeps, RemoveKeeps, BillingStutterKeeps
        DEF BillingNext

(* The invariant holds. *)
THEOREM BillingInvHolds == BillingSpec => []BillingInv
BY InitBillingInv, BillingInvInductive, PTL DEF BillingSpec

(* A number is given once, and a student is generated a second invoice for *)
(* the semester only by two requests that overlapped: the check and the    *)
(* insert of generateSemesterInvoices are enough for one at a time.        *)
THEOREM StudentsBilledOnce == BillingSpec => []BilledOnce
<1>1. BillingInv => BilledOnce
  BY DEF BillingInv
<1> QED BY <1>1, BillingInvHolds, PTL

(* When a batch has ended, whoever has something to pay has an invoice or  *)
(* is reported, and a batch on its own reports nobody.                     *)
THEOREM BatchReportAlwaysTrue == BillingSpec => []BatchReportTrue
BY BillingInvHolds, BillingInvGivesReport, PTL

-----------------------------------------------------------------------------
(* A request inserts one invoice of a student at most, whence the bound of *)
(* the numbers.                                                            *)
OneFromEach == \A a, b \in invoices : a.by = b.by /\ a.student = b.student => a = b

BillingBounds ==
  /\ OneFromEach
  /\ invoices \subseteq Invoice
  /\ \A k \in Clerk : job[k] # Nothing =>
       job[k].number <= MaxNumber /\ (job[k].step = "create" => job[k].number # 0)
  /\ removed <= MaxRemoved

LEMMA RowsFit ==
  ASSUME BillingInv, OneFromEach, NEW k \in Clerk
  PROVE  MaxNumber \in Nat /\ NextNumber \in 1..MaxNumber
<1> DEFINE f == [i \in invoices |-> <<i.by, i.student>>]
<1>1. \A i \in invoices : i.by \in Clerk /\ i.student \in Billed
  BY DEF BillingInv, BillingShape
<1>2. f \in [invoices -> Clerk \X Billed] /\ \A a, b \in invoices : f[a] = f[b] => a = b
  BY <1>1 DEF OneFromEach
<1>3. f \in Injection(invoices, Clerk \X Billed)
  BY <1>2 DEF Injection, IsInjective
<1> HIDE DEF f
<1>4. /\ IsFiniteSet(Clerk \X Billed)
      /\ Cardinality(Clerk \X Billed) = Cardinality(Clerk) * Cardinality(Billed)
  BY FS_Product, BillingAssumption
<1>5. Cardinality(invoices) <= Cardinality(Clerk) * Cardinality(Billed)
  BY <1>3, <1>4, FS_Injection
<1>6. /\ Cardinality(Clerk) \in Nat \ {0} /\ Cardinality(Billed) \in Nat /\ Cardinality(invoices) \in Nat
  BY FS_EmptySet, FS_CardinalityType, BillingAssumption DEF BillingInv, BillingShape
<1>7. \A b, c, n \in Nat : c # 0 /\ n <= c * b => n + 1 <= c * (b + 1)
  <2> SUFFICES ASSUME NEW b \in Nat, NEW c \in Nat, NEW n \in Nat, c # 0, n <= c * b
               PROVE  n + 1 <= c * (b + 1)
    OBVIOUS
  <2>1. c * (b + 1) = c * b + c /\ c * b \in Nat
    OBVIOUS
  <2> QED BY <2>1
<1>8. \A b, c \in Nat : c * (b + 1) \in Nat
  OBVIOUS
<1>9. /\ Cardinality(invoices) + 1 <= Cardinality(Clerk) * (Cardinality(Billed) + 1)
      /\ Cardinality(Clerk) * (Cardinality(Billed) + 1) \in Nat
  BY <1>5, <1>6, <1>7, <1>8, Zenon
<1> QED BY <1>6, <1>9 DEF NextNumber, MaxNumber

LEMMA InitBillingBounds == BillingInit => BillingBounds
<1> SUFFICES ASSUME BillingInit PROVE BillingBounds
  OBVIOUS
<1> QED BY BillingAssumption DEF BillingInit, BillingBounds, OneFromEach

(* A request comes, or looks a student up: it has no number yet. *)
LEMMA UnnumberedKeepsBounds ==
  ASSUME BillingInv, BillingBounds, NEW k \in Clerk, NEW j \in Job, j.step # "create",
         j.number = 0 \/ (job[k] # Nothing /\ j.number = job[k].number),
         job' = [job EXCEPT ![k] = j], UNCHANGED <<invoices, removed>>
  PROVE  BillingBounds'
<1>1. 0 <= MaxNumber
  BY RowsFit DEF BillingBounds
<1>2. \A q \in Clerk : job'[q] = IF q = k THEN j ELSE job[q]
  BY DEF BillingInv, BillingShape
<1> QED BY <1>1, <1>2 DEF BillingBounds, OneFromEach

LEMMA BeginKeepsBounds ==
  ASSUME BillingInv, BillingBounds, NEW k \in Clerk, NEW kind \in Kinds, NEW students \in SUBSET Billed,
         kind # "batch" => \E s \in Billed : students = {s},
         Begin(k, kind, students)
  PROVE  BillingBounds'
<1> DEFINE one == IF kind = "batch" THEN Nothing ELSE CHOOSE s \in students : TRUE
           j == [kind |-> kind, step |-> IF kind = "manual" THEN "count" ELSE "find",
                 todo |-> students, one |-> one, number |-> 0, errors |-> {}]
<1>1. one \in Billed \cup {Nothing}
  OBVIOUS
<1>2. job' = [job EXCEPT ![k] = j] /\ UNCHANGED <<invoices, removed>>
  BY DEF Begin
<1> HIDE DEF one
<1>3. j \in Job /\ j.number = 0 /\ j.step # "create"
  BY <1>1 DEF Job, Kinds, Steps
<1> HIDE DEF j
<1> QED BY <1>2, <1>3, UnnumberedKeepsBounds

LEMMA OnwardHasNoNumber ==
  ASSUME NEW j \in Job, j.one \in Billed, NEW failed \in BOOLEAN
  PROVE  Onward(j, failed) \in Job /\ Onward(j, failed).number = 0 /\ Onward(j, failed).step # "create"
BY DEF Onward, Turned, Job, Steps

LEMMA FindKeepsBounds ==
  ASSUME BillingInv, BillingBounds, NEW k \in Clerk, NEW s \in Billed, FindInvoice(k, s)
  PROVE  BillingBounds'
<1> DEFINE seen == [job[k] EXCEPT !.one = s]
           next == [job[k] EXCEPT !.one = s, !.step = "count"]
           j == IF AlreadyInvoiced(s) \/ s \notin WithItems THEN Onward(seen, FALSE) ELSE next
<1>1. job[k] \in Job /\ job[k] # Nothing /\ job' = [job EXCEPT ![k] = j] /\ UNCHANGED <<invoices, removed>>
  BY DEF FindInvoice, Running, BillingInv, BillingShape
<1>2. seen \in Job /\ seen.one = s /\ next \in Job /\ next.number = job[k].number /\ next.step # "create"
  BY <1>1 DEF Job, Steps
<1> HIDE DEF seen, next
<1>3. j \in Job /\ (j.number = 0 \/ j.number = job[k].number) /\ j.step # "create"
  BY <1>2, OnwardHasNoNumber
<1> HIDE DEF j
<1> QED BY <1>1, <1>3, UnnumberedKeepsBounds

LEMMA CountKeepsBounds ==
  ASSUME BillingInv, BillingBounds, NEW k \in Clerk, CountInvoices(k)
  PROVE  BillingBounds'
<1>1. PICK n \in 1..MaxNumber : n = NextNumber
  BY RowsFit DEF BillingBounds
<1>2. /\ job[k] \in Job /\ UNCHANGED <<invoices, removed>>
      /\ job' = [job EXCEPT ![k] = [job[k] EXCEPT !.number = n, !.step = "create"]]
  BY <1>1 DEF CountInvoices, Running, BillingInv, BillingShape
<1>3. [job[k] EXCEPT !.number = n, !.step = "create"].number = n
  BY <1>2 DEF Job
<1>4. \A q \in Clerk : job'[q] = IF q = k THEN [job[k] EXCEPT !.number = n, !.step = "create"] ELSE job[q]
  BY <1>2 DEF BillingInv, BillingShape
<1> QED BY <1>1, <1>2, <1>3, <1>4 DEF BillingBounds, OneFromEach

LEMMA InsertKeepsBounds ==
  ASSUME BillingInv, BillingBounds, NEW k \in Clerk, InsertInvoice(k)
  PROVE  BillingBounds'
<1> DEFINE taken == \E i \in invoices : i.number = job[k].number
           row == [number |-> job[k].number, student |-> job[k].one, by |-> k]
           j == Onward(job[k], taken)
<1>1. /\ job[k] \in Job /\ job[k] # Nothing /\ job[k].step = "create" /\ k \in Running
      /\ job' = [job EXCEPT ![k] = j] /\ UNCHANGED removed
      /\ invoices' = IF taken THEN invoices ELSE invoices \cup {row}
  BY DEF InsertInvoice, Running, BillingInv, BillingShape
<1>2. j \in Job /\ j.number = 0 /\ j.step # "create"
  <2>1. job[k].one \in Billed /\ taken \in BOOLEAN
    BY <1>1 DEF BillingInv, BilledIsDone, Creating, Job
  <2> QED BY <1>1, <2>1, OnwardHasNoNumber
<1>3. /\ row.by = k /\ row.student = job[k].one /\ row.number = job[k].number
      /\ job[k].number <= MaxNumber /\ job[k].one \in job[k].todo
  BY <1>1 DEF BillingBounds, BillingInv, BilledIsDone, Creating
<1>4. \A i \in invoices : ~(i.by = k /\ i.student = job[k].one)
  BY <1>3 DEF BillingInv, BilledIsDone
<1>5. row \in Invoice
  <2>1. job[k].number # 0
    BY <1>1 DEF BillingBounds
  <2>2. job[k].number \in 1..MaxNumber /\ job[k].one \in Billed
    BY <1>1, <1>3, <2>1 DEF Job
  <2> QED BY <2>2 DEF Invoice
<1> HIDE DEF row, j, taken
<1>6. OneFromEach' /\ invoices' \subseteq Invoice
  BY <1>1, <1>3, <1>4, <1>5 DEF BillingBounds, OneFromEach
<1>7. \A q \in Clerk : job'[q] = IF q = k THEN j ELSE job[q]
  BY <1>1 DEF BillingInv, BillingShape
<1>8. 0 <= MaxNumber
  BY RowsFit DEF BillingBounds
<1> QED BY <1>1, <1>2, <1>6, <1>7, <1>8 DEF BillingBounds

LEMMA BillingBoundsInductive ==
  BillingInv /\ BillingBounds /\ [BillingNext]_billingVars => BillingBounds'
<1> SUFFICES ASSUME BillingInv, BillingBounds, [BillingNext]_billingVars PROVE BillingBounds'
  OBVIOUS
<1>1. ASSUME NEW k \in Clerk, GenerateForSemester(k) PROVE BillingBounds'
  BY <1>1, BeginKeepsBounds DEF GenerateForSemester, Kinds
<1>2. ASSUME NEW k \in Clerk, NEW s \in Billed, GenerateForStudent(k, s) \/ CreateInvoice(k, s)
      PROVE  BillingBounds'
  <2>1. {s} \in SUBSET Billed /\ \E p \in Billed : {s} = {p}
    OBVIOUS
  <2> QED BY <1>2, <2>1, BeginKeepsBounds DEF GenerateForStudent, CreateInvoice, Kinds
<1>3. ASSUME NEW i \in invoices, RemoveInvoice(i) PROVE BillingBounds'
  BY <1>3, BillingAssumption DEF RemoveInvoice, BillingBounds, OneFromEach, BillingInv, BillingShape
<1>4. CASE UNCHANGED billingVars
  BY <1>4 DEF billingVars, BillingBounds, OneFromEach
<1> QED BY <1>1, <1>2, <1>3, <1>4, FindKeepsBounds, CountKeepsBounds, InsertKeepsBounds DEF BillingNext

(* The rows and requests keep their shape: no number exceeds what the      *)
(* requests could bill.                                                    *)
THEOREM BillingTypeCorrect == BillingSpec => []BillingTypeOK
<1>1. BillingInv /\ BillingBounds => BillingTypeOK
  <2> SUFFICES ASSUME BillingInv, BillingBounds PROVE BillingTypeOK
    OBVIOUS
  <2>1. removed \in 0..MaxRemoved
    BY BillingAssumption DEF BillingInv, BillingShape, BillingBounds
  <2> QED BY <2>1 DEF BillingInv, BillingShape, BillingBounds, BillingTypeOK
<1> QED BY <1>1, BillingInvHolds, InitBillingBounds, BillingBoundsInductive, PTL DEF BillingSpec


(***************************************************************************)
(* Notifications: what is published is kept, once where it has an id.      *)
(***************************************************************************)
(* Where an event may be. *)
Waits(n) == Lists(waiting, n)

Handled(n) == \E i \in DOMAIN ongoing : ongoing[i].notice = n

Marked(n) == n \in dropped \/ \E row \in inbox : n \in row.of

(* An event waits once and is handled once; while the channel lasts, not   *)
(* both, and what is still handled when it is gone waits again.            *)
QueueInOrder ==
  /\ Distinct(waiting)
  /\ \A i, j \in DOMAIN ongoing : ongoing[i].notice = ongoing[j].notice => i = j
  /\ \A n \in Notice : /\ Waits(n) \/ Handled(n) => n \in DOMAIN sent
                       /\ consumer = "up" => ~(Waits(n) /\ Handled(n))
                       /\ consumer = "cut" => (Handled(n) => Waits(n))
  /\ consumer = "down" => ongoing = <<>>

(* An event is somewhere, and what was stored has left its mark. *)
NoneLost ==
  /\ \A n \in DOMAIN sent : Waits(n) \/ Handled(n) \/ Marked(n)
  /\ \A i \in DOMAIN ongoing, n \in Notice : ongoing[i].notice = n /\ ongoing[i].step = "ack" => Marked(n)

OneRowEach ==
  /\ \A row, other \in inbox : row.id = other.id /\ row.id # NoId => row = other
  /\ \A id \in readIds : \E row \in inbox : row.id = id /\ row.isRead

(* Events without an id have a row for each time they were delivered, and  *)
(* are delivered again only after some trouble: so a row's copy is free.   *)
Copies(n) == {row.copy : row \in {r \in inbox : r.id = NoId /\ n \in r.of}}

CopiesAreDeliveries ==
  /\ \A row \in inbox : row.of \subseteq DOMAIN sent /\ (row.id = NoId => row.copy # 0)
  /\ \A n \in DOMAIN sent :
       /\ Cardinality(Copies(n)) <= trouble + 1
       /\ Waits(n) => Cardinality(Copies(n)) <= trouble
       /\ \A i \in DOMAIN ongoing : ongoing[i].notice = n /\ ongoing[i].step = "store" =>
            Cardinality(Copies(n)) + (IF consumer = "cut" THEN 1 ELSE 0) <= trouble

InboxInv ==
  /\ InboxTypeOK /\ QueueInOrder /\ NoneLost /\ OneRowEach
  /\ CopiesAreDeliveries /\ ConnectedAreOpen

LEMMA InboxInvGivesKept == InboxInv => NoticesKept
<1> SUFFICES ASSUME InboxInv PROVE NoticesKept
  OBVIOUS
<1> USE DEF InboxInv
<1>1. EveryNoticeKept
  BY DEF EveryNoticeKept, NoneLost, Waits, Handled, Marked, Lists
<1>2. ASSUME NEW id \in NoticeId
      PROVE  /\ Cardinality({row \in inbox : row.id = id}) <= 1
             /\ id \in readIds => \A row \in inbox : row.id = id => row.isRead
  <2> DEFINE R == {row \in inbox : row.id = id}
  <2>1. id # NoId
    BY InboxAssumption
  <2>2. \A row, other \in R : row = other
    BY <2>1 DEF OneRowEach
  <2>3. R = {} \/ \E x : R = {x}
    BY <2>2
  <2> HIDE DEF R
  <2>4. Cardinality(R) = 0 \/ Cardinality(R) = 1
    BY <2>3, FS_EmptySet, FS_Singleton
  <2>5. id \in readIds => \A row \in inbox : row.id = id => row.isRead
    BY <2>1 DEF OneRowEach
  <2> QED BY <2>4, <2>5 DEF R
<1> QED BY <1>1, <1>2 DEF NoticesKept, ReadStaysRead

LEMMA InitInboxInv == InboxInit => InboxInv
<1> SUFFICES ASSUME InboxInit PROVE InboxInv
  OBVIOUS
<1> USE DEF InboxInit
<1>0. Len(sent) = 0 /\ DOMAIN sent = {} /\ DOMAIN waiting = {} /\ DOMAIN ongoing = {}
  OBVIOUS
<1>1. InboxTypeOK
  BY <1>0, InboxAssumption DEF InboxTypeOK
<1>2. QueueInOrder
  BY <1>0 DEF QueueInOrder, Distinct, Waits, Handled, Lists
<1>3. NoneLost /\ OneRowEach /\ CopiesAreDeliveries
  BY <1>0 DEF NoneLost, OneRowEach, CopiesAreDeliveries
<1>4. ConnectedAreOpen
  BY DEF ConnectedAreOpen
<1> QED BY <1>1, <1>2, <1>3, <1>4 DEF InboxInv

-----------------------------------------------------------------------------
LEMMA CopiesAreFew ==
  ASSUME InboxInv, NEW n
  PROVE  /\ Copies(n) \subseteq 1..(MaxTrouble + 1)
         /\ IsFiniteSet(Copies(n)) /\ Cardinality(Copies(n)) \in Nat
<1>1. Copies(n) \subseteq 1..(MaxTrouble + 1)
  <2> SUFFICES ASSUME NEW r \in inbox, r.id = NoId PROVE r.copy \in 1..(MaxTrouble + 1)
    BY DEF Copies
  <2>1. r.copy \in 0..(MaxTrouble + 1) /\ r.copy # 0
    BY DEF InboxInv, InboxTypeOK, InboxRow, CopiesAreDeliveries
  <2> QED BY <2>1, InboxAssumption
<1>2. IsFiniteSet(1..(MaxTrouble + 1))
  BY InboxAssumption, FS_Interval
<1>3. IsFiniteSet(Copies(n))
  BY <1>1, <1>2, FS_Subset
<1> QED BY <1>1, <1>3, FS_CardinalityType

Handler == [notice : Notice, step : {"store", "ack"}]

LEMMA ShapeOfQueues ==
  ASSUME InboxTypeOK
  PROVE  /\ waiting \in Seq(Notice) /\ ongoing \in Seq(Handler)
         /\ Len(sent) \in Nat /\ DOMAIN sent = 1..Len(sent) /\ DOMAIN sent \subseteq Notice
         /\ \A i \in DOMAIN waiting : waiting[i] \in Notice
         /\ \A i \in DOMAIN ongoing : ongoing[i] \in Handler
         /\ trouble \in Nat /\ trouble <= MaxTrouble /\ MaxTrouble \in Nat
<1>1. waiting \in Seq(Notice) /\ ongoing \in Seq(Handler) /\ sent \in Seq(NoticeId \cup {NoId})
      /\ Len(sent) <= MaxNotices /\ trouble \in 0..MaxTrouble
  BY DEF InboxTypeOK, Handler
<1>2. Len(sent) \in Nat /\ DOMAIN sent = 1..Len(sent)
  BY <1>1, LenProperties
<1>3. DOMAIN sent \subseteq Notice
  BY <1>1, <1>2, InboxAssumption DEF Notice
<1> HIDE DEF Handler, Notice
<1>4. \A i \in DOMAIN waiting : waiting[i] \in Notice
  BY <1>1, LenProperties, ElementOfSeq
<1>5. \A i \in DOMAIN ongoing : ongoing[i] \in Handler
  BY <1>1, LenProperties, ElementOfSeq
<1> QED BY <1>1, <1>2, <1>3, <1>4, <1>5, InboxAssumption

(* The rows alone change: events stay marked, and no copy comes. *)
LEMMA RowsKeep ==
  ASSUME InboxInv, UNCHANGED <<queueVars, socketVars>>,
         inbox' \subseteq InboxRow, dropped' \subseteq Notice, readIds' \subseteq NoticeId,
         \A n \in Notice : Marked(n) => Marked(n)',
         OneRowEach',
         \A row \in inbox' : \E old \in inbox : row.id = old.id /\ row.copy = old.copy /\ row.of = old.of
  PROVE  InboxInv'
<1> USE DEF InboxInv, queueVars, socketVars
<1>1. InboxTypeOK'
  BY DEF InboxTypeOK
<1>2. QueueInOrder' /\ ConnectedAreOpen'
  BY DEF QueueInOrder, Waits, Handled, ConnectedAreOpen
<1>3. NoneLost'
  <2>1. DOMAIN sent \subseteq Notice /\ \A i \in DOMAIN ongoing : ongoing[i].notice \in Notice
    BY ShapeOfQueues DEF Handler
  <2> QED BY <2>1 DEF NoneLost, Waits, Handled
<1>4. CopiesAreDeliveries'
  <2>1. ASSUME NEW n
        PROVE  Cardinality(Copies(n)') <= Cardinality(Copies(n)) /\ Cardinality(Copies(n)') \in Nat
               /\ Cardinality(Copies(n)) \in Nat
    <3>1. Copies(n)' \subseteq Copies(n)
      BY DEF Copies
    <3>2. IsFiniteSet(Copies(n)) /\ Cardinality(Copies(n)) \in Nat
      BY CopiesAreFew
    <3> QED BY <3>1, <3>2, FS_Subset, FS_CardinalityType
  <2>2. trouble \in Nat
    BY ShapeOfQueues
  <2>3. ASSUME NEW n \in DOMAIN sent'
        PROVE  /\ Cardinality(Copies(n)') <= trouble' + 1
               /\ Waits(n)' => Cardinality(Copies(n)') <= trouble'
               /\ \A i \in DOMAIN ongoing' : ongoing'[i].notice = n /\ ongoing'[i].step = "store" =>
                    Cardinality(Copies(n)') + (IF consumer' = "cut" THEN 1 ELSE 0) <= trouble'
    <3>1. PICK x \in Nat, y \in Nat : x = Cardinality(Copies(n)') /\ y = Cardinality(Copies(n)) /\ x <= y
      BY <2>1
    <3>2. /\ y <= trouble + 1
          /\ Waits(n) => y <= trouble
          /\ \A i \in DOMAIN ongoing : ongoing[i].notice = n /\ ongoing[i].step = "store" =>
               y + (IF consumer = "cut" THEN 1 ELSE 0) <= trouble
      BY <3>1 DEF CopiesAreDeliveries
    <3>3. /\ x <= trouble + 1
          /\ Waits(n) => x <= trouble
          /\ \A i \in DOMAIN ongoing : ongoing[i].notice = n /\ ongoing[i].step = "store" =>
               x + (IF consumer = "cut" THEN 1 ELSE 0) <= trouble
      BY <2>2, <3>1, <3>2
    <3> QED BY <3>1, <3>3 DEF Waits
  <2>4. \A row \in inbox' : row.of \subseteq DOMAIN sent' /\ (row.id = NoId => row.copy # 0)
    BY DEF CopiesAreDeliveries
  <2> QED BY <2>3, <2>4 DEF CopiesAreDeliveries
<1> QED BY <1>1, <1>2, <1>3, <1>4

LEMMA MarkReadKeeps ==
  ASSUME InboxInv, NEW row \in inbox, MarkRead(row)
  PROVE  InboxInv'
<1> USE DEF MarkRead, InboxInv
<1> DEFINE new == [row EXCEPT !.isRead = TRUE]
<1>1. row \in InboxRow /\ inbox \subseteq InboxRow
  BY DEF InboxTypeOK
<1>2. new \in InboxRow /\ new.id = row.id /\ new.copy = row.copy /\ new.of = row.of /\ new.isRead
  BY <1>1 DEF InboxRow
<1>3. inbox' = (inbox \ {row}) \cup {new} /\ readIds' = readIds \cup ({row.id} \ {NoId}) /\ dropped' = dropped
  BY DEF rowVars
<1> HIDE DEF new
<1>4. inbox' \subseteq InboxRow /\ readIds' \subseteq NoticeId /\ dropped' \subseteq Notice
  BY <1>1, <1>2, <1>3 DEF InboxTypeOK, InboxRow
<1>5. \A n \in Notice : Marked(n) => Marked(n)'
  BY <1>2, <1>3 DEF Marked
<1>6. OneRowEach'
  <2>1. \A r, s \in inbox' : r.id = s.id /\ r.id # NoId => r = s
    BY <1>2, <1>3 DEF OneRowEach
  <2>2. ASSUME NEW id \in readIds' PROVE \E r \in inbox' : r.id = id /\ r.isRead
    BY <1>2, <1>3 DEF OneRowEach
  <2> QED BY <2>1, <2>2 DEF OneRowEach
<1>7. \A r \in inbox' : \E old \in inbox : r.id = old.id /\ r.copy = old.copy /\ r.of = old.of
  BY <1>2, <1>3
<1> QED BY <1>4, <1>5, <1>6, <1>7, RowsKeep

LEMMA MarkAllReadKeeps ==
  ASSUME InboxInv, MarkAllRead
  PROVE  InboxInv'
<1> USE DEF MarkAllRead, InboxInv
<1> DEFINE Read(row) == [row EXCEPT !.isRead = TRUE]
<1>1. inbox \subseteq InboxRow
  BY DEF InboxTypeOK
<1>2. \A row \in inbox : /\ Read(row) \in InboxRow /\ Read(row).id = row.id /\ Read(row).copy = row.copy
                         /\ Read(row).of = row.of /\ Read(row).isRead
  BY <1>1 DEF InboxRow
<1>3. inbox' = {Read(row) : row \in inbox} /\ readIds' = readIds \cup ({row.id : row \in inbox} \ {NoId})
      /\ dropped' = dropped
  OBVIOUS
<1> HIDE DEF Read
<1>4. inbox' \subseteq InboxRow /\ readIds' \subseteq NoticeId /\ dropped' \subseteq Notice
  BY <1>1, <1>2, <1>3 DEF InboxTypeOK, InboxRow
<1>5. \A n \in Notice : Marked(n) => Marked(n)'
  BY <1>2, <1>3 DEF Marked
<1>6. OneRowEach'
  <2>1. \A r, s \in inbox' : r.id = s.id /\ r.id # NoId => r = s
    BY <1>2, <1>3 DEF OneRowEach
  <2>2. ASSUME NEW id \in readIds' PROVE \E r \in inbox' : r.id = id /\ r.isRead
    BY <1>2, <1>3 DEF OneRowEach
  <2> QED BY <2>1, <2>2 DEF OneRowEach
<1>7. \A r \in inbox' : \E old \in inbox : r.id = old.id /\ r.copy = old.copy /\ r.of = old.of
  BY <1>2, <1>3
<1> QED BY <1>4, <1>5, <1>6, <1>7, RowsKeep

LEMMA DeleteNoticeKeeps ==
  ASSUME InboxInv, NEW row \in inbox, DeleteNotice(row)
  PROVE  InboxInv'
<1> USE DEF DeleteNotice, InboxInv
<1>1. row \in InboxRow /\ inbox \subseteq InboxRow
  BY DEF InboxTypeOK
<1>2. inbox' \subseteq InboxRow /\ readIds' \subseteq NoticeId /\ dropped' \subseteq Notice
  BY <1>1 DEF InboxTypeOK, InboxRow
<1>3. \A n \in Notice : Marked(n) => Marked(n)'
  BY DEF Marked
<1>4. OneRowEach'
  BY DEF OneRowEach
<1> QED BY <1>2, <1>3, <1>4, RowsKeep

-----------------------------------------------------------------------------
(* Sockets: what else there is stays. *)
LEMMA SocketsKeep ==
  ASSUME InboxInv, UNCHANGED <<queueVars, rowVars>>,
         socket' \in [Socket -> {"new", "authenticating", "left early", "open", "gone", "gone early"}],
         connected' \subseteq Socket, ConnectedAreOpen'
  PROVE  InboxInv'
<1> USE DEF InboxInv, queueVars, rowVars
<1>1. InboxTypeOK'
  BY DEF InboxTypeOK
<1>2. QueueInOrder' /\ NoneLost'
  BY DEF QueueInOrder, NoneLost, Waits, Handled, Marked
<1>3. OneRowEach' /\ CopiesAreDeliveries'
  BY DEF OneRowEach, CopiesAreDeliveries, Copies, Waits
<1> QED BY <1>1, <1>2, <1>3

LEMMA SocketStepKeeps ==
  ASSUME InboxInv, NEW s \in Socket, Connect(s) \/ RegisterSocket(s) \/ RejectSocket(s) \/ CloseTab(s)
  PROVE  InboxInv'
<1>1. UNCHANGED <<queueVars, rowVars>>
  BY DEF Connect, RegisterSocket, RejectSocket, CloseTab
<1>2. socket \in [Socket -> {"new", "authenticating", "left early", "open", "gone", "gone early"}]
      /\ connected \subseteq Socket /\ ConnectedAreOpen
  BY DEF InboxInv, InboxTypeOK
<1>3. /\ socket' \in [Socket -> {"new", "authenticating", "left early", "open", "gone", "gone early"}]
      /\ connected' \subseteq Socket
  BY <1>2 DEF Connect, RegisterSocket, RejectSocket, CloseTab, WithoutSocket
<1>4. ConnectedAreOpen'
  BY <1>2 DEF ConnectedAreOpen, Connect, RegisterSocket, RejectSocket, CloseTab, WithoutSocket
<1> QED BY <1>1, <1>3, <1>4, SocketsKeep

-----------------------------------------------------------------------------
(* Steps that leave the rows alone. *)
LEMMA CopiesStay == ASSUME inbox' = inbox, NEW n PROVE Copies(n)' = Copies(n)
BY DEF Copies

LEMMA PublishKeeps ==
  ASSUME InboxInv, NEW id \in NoticeId \cup {NoId}, PublishNotice(id)
  PROVE  InboxInv'
<1> USE DEF PublishNotice, InboxInv, rowVars, socketVars
<1> DEFINE n0 == Len(sent) + 1
<1>1. /\ sent \in Seq(NoticeId \cup {NoId}) /\ Len(sent) \in Nat /\ DOMAIN sent = 1..Len(sent)
      /\ DOMAIN sent \subseteq Notice /\ trouble \in Nat
      /\ waiting \in Seq(Notice)
  BY ShapeOfQueues DEF InboxTypeOK
<1>2. /\ sent' \in Seq(NoticeId \cup {NoId}) /\ Len(sent') = n0 /\ DOMAIN sent' = 1..n0
      /\ DOMAIN sent \subseteq DOMAIN sent'
  <2>1. sent' \in Seq(NoticeId \cup {NoId}) /\ Len(sent') = n0
    BY <1>1, AppendProperties
  <2>2. DOMAIN sent' = 1..n0
    BY <2>1, LenProperties
  <2> QED BY <1>1, <2>1, <2>2
<1>3. n0 \in Notice /\ n0 \notin DOMAIN sent /\ n0 \in DOMAIN sent' /\ DOMAIN sent' = DOMAIN sent \cup {n0}
      /\ n0 <= MaxNotices
  BY <1>1, <1>2, InboxAssumption DEF Notice
<1>4. waiting' = Append(waiting, n0)
  BY <1>2
<1> HIDE DEF n0
<1>5. /\ waiting' \in Seq(Notice)
      /\ \A x : Waits(x)' <=> Waits(x) \/ x = n0
      /\ Distinct(waiting) /\ ~Waits(n0) => Distinct(waiting')
  <2>1. /\ Append(waiting, n0) \in Seq(Notice)
        /\ \A x : Lists(Append(waiting, n0), x) <=> Lists(waiting, x) \/ x = n0
        /\ Distinct(waiting) /\ ~Lists(waiting, n0) => Distinct(Append(waiting, n0))
    BY <1>1, <1>3, AppendLists
  <2> QED BY <1>4, <2>1 DEF Waits
<1>6. \A n : Handled(n)' <=> Handled(n)
  BY DEF Handled
<1>7. ~Waits(n0) /\ ~Handled(n0)
  BY <1>3 DEF QueueInOrder
<1>8. InboxTypeOK'
  BY <1>2, <1>3, <1>5 DEF InboxTypeOK
<1>9. QueueInOrder'
  <2>1. Distinct(waiting')
    BY <1>5, <1>7 DEF QueueInOrder
  <2>2. ASSUME NEW n \in Notice
        PROVE  /\ Waits(n)' \/ Handled(n)' => n \in DOMAIN sent'
               /\ consumer' = "up" => ~(Waits(n)' /\ Handled(n)')
               /\ consumer' = "cut" => (Handled(n)' => Waits(n)')
    BY <1>3, <1>5, <1>6, <1>7 DEF QueueInOrder
  <2> QED BY <2>1, <2>2 DEF QueueInOrder
<1>10. NoneLost'
  <2>1. \A n \in DOMAIN sent' : Waits(n)' \/ Handled(n)' \/ Marked(n)'
    BY <1>3, <1>5, <1>6 DEF NoneLost, Marked
  <2> QED BY <2>1 DEF NoneLost, Marked
<1>11. OneRowEach' /\ ConnectedAreOpen'
  BY DEF OneRowEach, ConnectedAreOpen
<1>12. CopiesAreDeliveries'
  <2>1. \A n : Copies(n)' = Copies(n)
    BY CopiesStay
  <2>2. Copies(n0) = {}
    BY <1>3 DEF CopiesAreDeliveries, Copies
  <2>3. ASSUME NEW n \in DOMAIN sent'
        PROVE  /\ Cardinality(Copies(n)') <= trouble' + 1
               /\ Waits(n)' => Cardinality(Copies(n)') <= trouble'
               /\ \A i \in DOMAIN ongoing' : ongoing'[i].notice = n /\ ongoing'[i].step = "store" =>
                    Cardinality(Copies(n)') + (IF consumer' = "cut" THEN 1 ELSE 0) <= trouble'
    <3>1. CASE n = n0
      <4>1. Cardinality(Copies(n)') = 0
        BY <2>1, <2>2, <3>1, FS_EmptySet
      <4>2. \A i \in DOMAIN ongoing : ongoing[i].notice # n
        BY <1>7, <3>1 DEF Handled
      <4> QED BY <1>1, <4>1, <4>2
    <3>2. CASE n # n0
      BY <1>3, <1>5, <2>1, <3>2 DEF CopiesAreDeliveries
    <3> QED BY <3>1, <3>2
  <2>4. \A row \in inbox' : row.of \subseteq DOMAIN sent' /\ (row.id = NoId => row.copy # 0)
    BY <1>3 DEF CopiesAreDeliveries
  <2> QED BY <2>3, <2>4 DEF CopiesAreDeliveries
<1> QED BY <1>8, <1>9, <1>10, <1>11, <1>12

LEMMA DeliverKeeps ==
  ASSUME InboxInv, DeliverNotice
  PROVE  InboxInv'
<1> USE DEF DeliverNotice, InboxInv, rowVars, socketVars
<1> DEFINE m == Head(waiting)
           h == [notice |-> m, step |-> "store"]
<1>1. /\ waiting \in Seq(Notice) /\ ongoing \in Seq(Handler) /\ trouble \in Nat /\ DOMAIN sent \subseteq Notice
      /\ Distinct(waiting) /\ waiting # <<>>
  BY ShapeOfQueues DEF QueueInOrder
<1>2. /\ m \in Notice /\ Waits(m) /\ waiting' \in Seq(Notice) /\ Distinct(waiting')
      /\ \A x : Waits(x)' <=> Waits(x) /\ x # m
  BY <1>1, TailLists DEF Waits
<1>3. h \in Handler
  BY <1>2 DEF Handler
<1>4. h.notice = m /\ h.step = "store" /\ ongoing' = Append(ongoing, h)
  OBVIOUS
<1> HIDE DEF m, h
<1>5. /\ ongoing' \in Seq(Handler)
      /\ DOMAIN ongoing \subseteq DOMAIN ongoing'
      /\ \A i \in DOMAIN ongoing' : \/ i \in DOMAIN ongoing /\ ongoing'[i] = ongoing[i]
                                    \/ i = Len(ongoing) + 1 /\ i \notin DOMAIN ongoing /\ ongoing'[i] = h
      /\ \A x : Lists(ongoing', x) <=> Lists(ongoing, x) \/ x = h
  BY <1>1, <1>3, <1>4, AppendLists
<1>6. \A n : Handled(n)' <=> Handled(n) \/ n = m
  <2>1. \A n : Handled(n) <=> \E x : Lists(ongoing, x) /\ x.notice = n
    BY DEF Handled, Lists
  <2>2. \A n : Handled(n)' <=> \E x : Lists(ongoing', x) /\ x.notice = n
    BY DEF Handled, Lists
  <2> QED BY <1>4, <1>5, <2>1, <2>2
<1>7. ~Handled(m) /\ m \in DOMAIN sent
  BY <1>2 DEF QueueInOrder
<1>8. InboxTypeOK'
  BY <1>2, <1>5 DEF InboxTypeOK, Handler
<1>9. QueueInOrder'
  <2>1. ASSUME NEW i \in DOMAIN ongoing', NEW j \in DOMAIN ongoing', ongoing'[i].notice = ongoing'[j].notice
        PROVE  i = j
    <3>1. \A k \in DOMAIN ongoing : ongoing[k].notice # m
      BY <1>7 DEF Handled
    <3> QED BY <1>4, <1>5, <2>1, <3>1 DEF QueueInOrder
  <2>2. ASSUME NEW n \in Notice
        PROVE  /\ Waits(n)' \/ Handled(n)' => n \in DOMAIN sent'
               /\ consumer' = "up" => ~(Waits(n)' /\ Handled(n)')
               /\ consumer' = "cut" => (Handled(n)' => Waits(n)')
    BY <1>2, <1>6, <1>7 DEF QueueInOrder
  <2> QED BY <1>2, <2>1, <2>2 DEF QueueInOrder
<1>10. NoneLost'
  <2>1. \A n \in DOMAIN sent' : Waits(n)' \/ Handled(n)' \/ Marked(n)'
    BY <1>2, <1>6 DEF NoneLost, Marked
  <2>2. ASSUME NEW i \in DOMAIN ongoing', NEW n \in Notice, ongoing'[i].notice = n, ongoing'[i].step = "ack"
        PROVE  Marked(n)'
    BY <1>4, <1>5, <2>2 DEF NoneLost, Marked
  <2> QED BY <2>1, <2>2 DEF NoneLost
<1>11. OneRowEach' /\ ConnectedAreOpen'
  BY DEF OneRowEach, ConnectedAreOpen
<1>12. CopiesAreDeliveries'
  <2>1. \A n : Copies(n)' = Copies(n)
    BY CopiesStay
  <2>2. ASSUME NEW n \in DOMAIN sent', NEW i \in DOMAIN ongoing', ongoing'[i].notice = n, ongoing'[i].step = "store"
        PROVE  Cardinality(Copies(n)') + (IF consumer' = "cut" THEN 1 ELSE 0) <= trouble'
    <3>1. CASE i \in DOMAIN ongoing /\ ongoing'[i] = ongoing[i]
      BY <2>1, <2>2, <3>1 DEF CopiesAreDeliveries
    <3>2. CASE ongoing'[i] = h
      <4>1. Cardinality(Copies(m)) <= trouble /\ n = m
        BY <1>2, <1>4, <1>7, <2>2, <3>2 DEF CopiesAreDeliveries
      <4>2. Cardinality(Copies(m)) \in Nat
        BY CopiesAreFew
      <4> QED BY <1>1, <2>1, <4>1, <4>2
    <3> QED BY <1>5, <3>1, <3>2
  <2> QED BY <1>2, <2>1, <2>2 DEF CopiesAreDeliveries
<1> QED BY <1>8, <1>9, <1>10, <1>11, <1>12

(* A handler ends: its event is marked. *)
LEMMA HandlerEnds ==
  ASSUME InboxInv, NEW i \in DOMAIN ongoing, ongoing' = RemoveAt(ongoing, i),
         UNCHANGED <<sent, waiting, consumer, inbox, readIds, socketVars>>,
         trouble' \in 0..MaxTrouble, trouble <= trouble',
         dropped' \subseteq Notice, dropped \subseteq dropped', \A n \in Notice : ongoing[i].notice = n => Marked(n)'
  PROVE  InboxInv'
<1> USE DEF InboxInv, socketVars
<1>1. /\ waiting \in Seq(Notice) /\ ongoing \in Seq(Handler) /\ trouble \in Nat /\ DOMAIN sent \subseteq Notice
  BY ShapeOfQueues DEF QueueInOrder
<1> DEFINE FrontAt(j) == IF j < i THEN j ELSE j + 1
<1>2. /\ ongoing' \in Seq(Handler)
      /\ \A j \in DOMAIN ongoing' : FrontAt(j) \in DOMAIN ongoing \ {i} /\ ongoing'[j] = ongoing[FrontAt(j)]
      /\ \A k \in DOMAIN ongoing \ {i} : \E j \in DOMAIN ongoing' : ongoing'[j] = ongoing[k]
  BY <1>1, RemoveAtLists DEF Lists
<1>3. \A j, k \in DOMAIN ongoing' : FrontAt(j) = FrontAt(k) => j = k
  <2>1. i \in Int /\ \A j \in DOMAIN ongoing' : j \in Int
    <3>1. DOMAIN ongoing = 1..Len(ongoing) /\ DOMAIN ongoing' = 1..Len(ongoing')
      BY <1>1, <1>2, LenProperties
    <3> QED BY <3>1
  <2> QED BY <2>1
<1> HIDE DEF At
<1>4. \A n : Handled(n)' => Handled(n)
  BY <1>2 DEF Handled
<1>5. \A n : Handled(n) => Handled(n)' \/ n = ongoing[i].notice
  BY <1>2 DEF Handled
<1>6. \A n : Waits(n)' <=> Waits(n)
  BY DEF Waits
<1>7. \A n : Marked(n) => Marked(n)'
  BY DEF Marked
<1>8. InboxTypeOK'
  BY <1>2 DEF InboxTypeOK, Handler
<1>9. QueueInOrder'
  <2>1. ASSUME NEW j \in DOMAIN ongoing', NEW k \in DOMAIN ongoing', ongoing'[j].notice = ongoing'[k].notice
        PROVE  j = k
    <3>1. FrontAt(j) = FrontAt(k)
      BY <1>2, <2>1 DEF QueueInOrder
    <3> QED BY <1>3, <3>1
  <2>2. ASSUME NEW n \in Notice
        PROVE  /\ Waits(n)' \/ Handled(n)' => n \in DOMAIN sent'
               /\ consumer' = "up" => ~(Waits(n)' /\ Handled(n)')
               /\ consumer' = "cut" => (Handled(n)' => Waits(n)')
    BY <1>4, <1>6 DEF QueueInOrder
  <2>3. consumer' # "down"
    BY DEF QueueInOrder
  <2> QED BY <2>1, <2>2, <2>3 DEF QueueInOrder
<1>10. NoneLost'
  <2>1. \A n \in DOMAIN sent' : Waits(n)' \/ Handled(n)' \/ Marked(n)'
    BY <1>1, <1>5, <1>6, <1>7 DEF NoneLost
  <2>2. ASSUME NEW j \in DOMAIN ongoing', NEW n \in Notice, ongoing'[j].notice = n, ongoing'[j].step = "ack"
        PROVE  Marked(n)'
    BY <1>2, <1>7, <2>2 DEF NoneLost
  <2> QED BY <2>1, <2>2 DEF NoneLost
<1>11. OneRowEach' /\ ConnectedAreOpen'
  BY DEF OneRowEach, ConnectedAreOpen
<1>12. CopiesAreDeliveries'
  <2> SUFFICES ASSUME NEW n \in DOMAIN sent'
               PROVE  /\ Cardinality(Copies(n)') <= trouble' + 1
                      /\ Waits(n)' => Cardinality(Copies(n)') <= trouble'
                      /\ \A j \in DOMAIN ongoing' : ongoing'[j].notice = n /\ ongoing'[j].step = "store" =>
                           Cardinality(Copies(n)') + (IF consumer' = "cut" THEN 1 ELSE 0) <= trouble'
    BY DEF CopiesAreDeliveries
  <2>1. PICK k \in Nat, t \in Nat : k = Cardinality(Copies(n)) /\ t = trouble'
    BY CopiesAreFew
  <2>2. Cardinality(Copies(n)') = k /\ trouble <= t
    BY <2>1, CopiesStay
  <2>3. k <= trouble + 1 /\ (Waits(n) => k <= trouble)
    BY <2>1 DEF CopiesAreDeliveries
  <2>4. ASSUME NEW j \in DOMAIN ongoing', ongoing'[j].notice = n, ongoing'[j].step = "store"
        PROVE  k + (IF consumer = "cut" THEN 1 ELSE 0) <= trouble
    BY <1>2, <2>1, <2>4 DEF CopiesAreDeliveries
  <2>5. k <= t + 1 /\ (Waits(n)' => k <= t)
    BY <1>1, <1>6, <2>2, <2>3
  <2>6. ASSUME NEW j \in DOMAIN ongoing', ongoing'[j].notice = n, ongoing'[j].step = "store"
        PROVE  k + (IF consumer' = "cut" THEN 1 ELSE 0) <= t
    BY <1>1, <2>2, <2>4, <2>6
  <2> QED BY <2>1, <2>2, <2>5, <2>6
<1> QED BY <1>8, <1>9, <1>10, <1>11, <1>12

LEMMA HandlerEndsKeep ==
  ASSUME InboxInv, NEW i \in DOMAIN ongoing, AckNotice(i) \/ RejectNotice(i)
  PROVE  InboxInv'
<1>1. /\ ongoing' = RemoveAt(ongoing, i)
      /\ UNCHANGED <<sent, waiting, consumer, inbox, readIds, socketVars>>
  BY DEF AckNotice, RejectNotice, rowVars
<1>2. trouble \in Nat /\ trouble <= MaxTrouble /\ MaxTrouble \in Nat /\ ongoing[i] \in Handler
  BY ShapeOfQueues DEF InboxInv
<1>3. trouble' \in 0..MaxTrouble /\ trouble <= trouble'
  BY <1>2 DEF AckNotice, RejectNotice, Trouble
<1>4. dropped' \subseteq Notice /\ dropped \subseteq dropped'
  BY <1>2 DEF AckNotice, RejectNotice, rowVars, InboxInv, InboxTypeOK, Handler
<1>5. \A n \in Notice : ongoing[i].notice = n => Marked(n)'
  BY DEF AckNotice, RejectNotice, rowVars, InboxInv, NoneLost, Marked
<1> QED BY <1>1, <1>3, <1>4, <1>5, HandlerEnds

-----------------------------------------------------------------------------
(* The channel goes, or the process: what was not acknowledged waits again. *)
LEMMA NotesGivenBack ==
  ASSUME InboxInv
  PROVE  /\ UnackedNotices \in Seq(Notice) /\ Distinct(UnackedNotices)
         /\ \A n : Lists(UnackedNotices, n) <=> Handled(n)
<1>1. ongoing \in Seq(Handler) /\ \A i \in DOMAIN ongoing : ongoing[i].notice \in Notice
  BY ShapeOfQueues DEF InboxInv, Handler
<1>2. Len(ongoing) \in Nat /\ DOMAIN ongoing = 1..Len(ongoing)
  BY <1>1, LenProperties
<1> DEFINE u == UnackedNotices
<1>3. DOMAIN u = DOMAIN ongoing /\ \A i \in DOMAIN ongoing : u[i] = ongoing[i].notice
  BY DEF UnackedNotices
<1>4. u \in [1..Len(ongoing) -> Notice]
  BY <1>1, <1>2 DEF UnackedNotices
<1>5. u \in Seq(Notice)
  BY <1>2, <1>4, SeqDef
<1> HIDE DEF u
<1>6. Distinct(u)
  BY <1>3 DEF Distinct, InboxInv, QueueInOrder
<1>7. \A n : Lists(u, n) <=> Handled(n)
  BY <1>3 DEF Lists, Handled
<1> QED BY <1>5, <1>6, <1>7 DEF u

LEMMA Requeued ==
  ASSUME InboxInv, CutConsumer \/ CrashConsumer
  PROVE  waiting' \in Seq(Notice) /\ Distinct(waiting') /\ \A n \in Notice : Waits(n)' <=> Waits(n) \/ Handled(n)
<1> USE DEF InboxInv
<1>1. waiting \in Seq(Notice) /\ Distinct(waiting) /\ \A i \in DOMAIN ongoing : ongoing[i] \in Handler
  BY ShapeOfQueues DEF QueueInOrder
<1>2. CASE waiting' = UnackedNotices \o waiting /\ consumer = "up"
  <2> DEFINE u == UnackedNotices
  <2>1. u \in Seq(Notice) /\ Distinct(u) /\ \A n : Lists(u, n) <=> Handled(n)
    BY NotesGivenBack
  <2>2. waiting' = u \o waiting
    BY <1>2
  <2> HIDE DEF u
  <2>3. \A n : ~(Lists(u, n) /\ Lists(waiting, n))
    <3>1. \A n : Handled(n) => n \in Notice
      BY <1>1 DEF Handled, Handler
    <3> QED BY <1>2, <2>1, <3>1 DEF QueueInOrder, Waits
  <2>4. /\ u \o waiting \in Seq(Notice)
        /\ \A x : Lists(u \o waiting, x) <=> Lists(u, x) \/ Lists(waiting, x)
        /\ Distinct(u \o waiting)
    BY <1>1, <2>1, <2>3, ConcatLists
  <2> QED BY <2>1, <2>2, <2>4 DEF Waits
<1>3. CASE waiting' = waiting /\ consumer = "cut"
  BY <1>1, <1>3 DEF QueueInOrder, Waits
<1>4. consumer \in {"up", "cut", "down"}
  BY DEF InboxTypeOK
<1> QED BY <1>2, <1>3, <1>4 DEF CutConsumer, CrashConsumer

LEMMA TroubleKeeps ==
  ASSUME InboxInv, CutConsumer \/ CrashConsumer
  PROVE  InboxInv'
<1> USE DEF InboxInv
<1>1. /\ DOMAIN sent \subseteq Notice /\ trouble \in Nat /\ trouble <= MaxTrouble /\ MaxTrouble \in Nat
      /\ ongoing \in Seq(Handler) /\ <<>> \in Seq(Handler) /\ DOMAIN <<>> = {}
  BY ShapeOfQueues, EmptySeq
<1>2. /\ sent' = sent /\ inbox' = inbox /\ dropped' = dropped /\ readIds' = readIds
      /\ trouble' = trouble + 1 /\ trouble' \in 0..MaxTrouble
  BY <1>1 DEF CutConsumer, CrashConsumer, Trouble, rowVars
<1>3. waiting' \in Seq(Notice) /\ Distinct(waiting') /\ \A n \in Notice : Waits(n)' <=> Waits(n) \/ Handled(n)
  BY Requeued
<1>4. \/ consumer = "up" /\ consumer' = "cut" /\ ongoing' = ongoing
      \/ consumer' = "down" /\ ongoing' = <<>>
  BY DEF CutConsumer, CrashConsumer
<1>5. /\ socket' \in [Socket -> {"new", "authenticating", "left early", "open", "gone", "gone early"}]
      /\ connected' \subseteq Socket /\ ConnectedAreOpen'
  BY DEF CutConsumer, CrashConsumer, socketVars, InboxTypeOK, ConnectedAreOpen
<1>6. \A n : Marked(n)' <=> Marked(n)
  BY <1>2 DEF Marked
<1>7. InboxTypeOK'
  <2>1. ongoing' \in Seq(Handler) /\ consumer' \in {"up", "cut", "down"}
    BY <1>1, <1>4
  <2> QED BY <1>2, <1>3, <1>5, <2>1 DEF InboxTypeOK, Handler
<1>8. QueueInOrder'
  <2>1. \A i, j \in DOMAIN ongoing' : ongoing'[i].notice = ongoing'[j].notice => i = j
    BY <1>1, <1>4 DEF QueueInOrder
  <2>2. \A n : Handled(n)' => Handled(n)
    BY <1>1, <1>4 DEF Handled
  <2>3. ASSUME NEW n \in Notice
        PROVE  /\ Waits(n)' \/ Handled(n)' => n \in DOMAIN sent'
               /\ consumer' = "up" => ~(Waits(n)' /\ Handled(n)')
               /\ consumer' = "cut" => (Handled(n)' => Waits(n)')
    BY <1>2, <1>3, <1>4, <2>2 DEF QueueInOrder
  <2> QED BY <1>3, <1>4, <2>1, <2>3 DEF QueueInOrder
<1>9. NoneLost'
  <2>1. \A n \in DOMAIN sent' : Waits(n)' \/ Handled(n)' \/ Marked(n)'
    BY <1>1, <1>2, <1>3, <1>6 DEF NoneLost
  <2>2. ASSUME NEW i \in DOMAIN ongoing', NEW n \in Notice, ongoing'[i].notice = n, ongoing'[i].step = "ack"
        PROVE  Marked(n)'
    BY <1>1, <1>4, <1>6, <2>2 DEF NoneLost
  <2> QED BY <2>1, <2>2 DEF NoneLost
<1>10. OneRowEach'
  BY <1>2 DEF OneRowEach
<1>11. CopiesAreDeliveries'
  <2>1. ASSUME NEW n \in DOMAIN sent'
        PROVE  /\ Cardinality(Copies(n)') <= trouble' + 1
               /\ Waits(n)' => Cardinality(Copies(n)') <= trouble'
               /\ \A i \in DOMAIN ongoing' : ongoing'[i].notice = n /\ ongoing'[i].step = "store" =>
                    Cardinality(Copies(n)') + (IF consumer' = "cut" THEN 1 ELSE 0) <= trouble'
    <3>1. PICK k \in Nat : k = Cardinality(Copies(n))
      BY CopiesAreFew
    <3>2. Cardinality(Copies(n)') = k
      BY <1>2, <3>1, CopiesStay
    <3>3. k <= trouble + 1
      BY <1>2, <3>1 DEF CopiesAreDeliveries
    <3>4. ASSUME NEW i \in DOMAIN ongoing', ongoing'[i].notice = n, ongoing'[i].step = "store"
          PROVE  k <= trouble
      <4>1. consumer = "up" /\ ongoing' = ongoing
        BY <1>1, <1>4, <3>4
      <4>2. k + 0 <= trouble
        BY <1>2, <3>1, <3>4, <4>1 DEF CopiesAreDeliveries
      <4> QED BY <3>1, <4>2
    <3>5. k <= trouble' /\ k <= trouble' + 1
      BY <1>1, <1>2, <3>1, <3>3
    <3>6. ASSUME NEW i \in DOMAIN ongoing', ongoing'[i].notice = n, ongoing'[i].step = "store"
          PROVE  k + (IF consumer' = "cut" THEN 1 ELSE 0) <= trouble'
      BY <1>1, <1>2, <3>1, <3>4, <3>6
    <3> QED BY <3>2, <3>5, <3>6
  <2>2. \A row \in inbox' : row.of \subseteq DOMAIN sent' /\ (row.id = NoId => row.copy # 0)
    BY <1>2 DEF CopiesAreDeliveries
  <2> QED BY <2>1, <2>2 DEF CopiesAreDeliveries
<1> QED BY <1>5, <1>7, <1>8, <1>9, <1>10, <1>11

LEMMA BootKeeps ==
  ASSUME InboxInv, BootConsumer
  PROVE  InboxInv'
<1> USE DEF InboxInv, BootConsumer, rowVars, socketVars
<1>1. ongoing = <<>> /\ DOMAIN ongoing = {}
  BY DEF QueueInOrder
<1>2. InboxTypeOK'
  BY DEF InboxTypeOK
<1>3. QueueInOrder' /\ NoneLost'
  BY <1>1 DEF QueueInOrder, NoneLost, Waits, Handled, Marked
<1>4. OneRowEach' /\ ConnectedAreOpen'
  BY DEF OneRowEach, ConnectedAreOpen
<1>5. CopiesAreDeliveries'
  BY <1>1 DEF CopiesAreDeliveries, Copies, Waits
<1> QED BY <1>2, <1>3, <1>4, <1>5

-----------------------------------------------------------------------------
(* An event is stored. *)
LEMMA StoredIs ==
  ASSUME InboxInv, NEW i \in DOMAIN ongoing, ongoing[i].step = "store",
         NEW n \in DOMAIN sent, ongoing[i].notice = n, inbox' = Stored(n),
         UNCHANGED <<sent, dropped, readIds>>
  PROVE  /\ inbox' \subseteq InboxRow /\ OneRowEach'
         /\ \A m \in Notice : Marked(m) => Marked(m)'
         /\ Marked(n)'
         /\ \A row \in inbox' : row.of \subseteq DOMAIN sent /\ (row.id = NoId => row.copy # 0)
         /\ \A m \in DOMAIN sent : m # n => Copies(m)' \subseteq Copies(m)
         /\ \E x : Copies(n)' \subseteq Copies(n) \cup {x}
<1> USE DEF InboxInv
<1> DEFINE id == sent[n]
           same == {row \in inbox : row.id = id}
           free == (1..(MaxTrouble + 1)) \ {row.copy : row \in {old \in same : n \in old.of}}
<1>1. /\ id \in NoticeId \cup {NoId} /\ n \in Notice /\ MaxTrouble \in Nat /\ trouble \in Nat
      /\ trouble <= MaxTrouble
  <2>1. sent \in Seq(NoticeId \cup {NoId}) /\ DOMAIN sent = 1..Len(sent)
    BY ShapeOfQueues DEF InboxTypeOK
  <2> QED BY <2>1, ShapeOfQueues, ElementOfSeq
<1>2. inbox \subseteq InboxRow /\ \A row \in inbox : row.of \subseteq DOMAIN sent /\ (row.id = NoId => row.copy # 0)
  BY DEF InboxTypeOK, CopiesAreDeliveries
<1>3. CASE id = NoId
  <2>1. free = (1..(MaxTrouble + 1)) \ Copies(n)
    BY <1>3 DEF Copies
  <2>2. free # {}
    <3>1. Copies(n) \subseteq 1..(MaxTrouble + 1)
      BY CopiesAreFew
    <3>2. Cardinality(1..(MaxTrouble + 1)) = MaxTrouble + 1
      <4>1. 1 \in Int /\ MaxTrouble + 1 \in Int /\ ~(1 > MaxTrouble + 1) /\ (MaxTrouble + 1) - 1 + 1 = MaxTrouble + 1
        BY <1>1
      <4> QED BY <4>1, FS_Interval
    <3>3. PICK k \in Nat : k = Cardinality(Copies(n))
      BY CopiesAreFew
    <3>4. k + (IF consumer = "cut" THEN 1 ELSE 0) <= trouble
      BY <3>3 DEF CopiesAreDeliveries
    <3>5. k # MaxTrouble + 1
      BY <1>1, <3>3, <3>4
    <3> QED BY <2>1, <3>1, <3>2, <3>3, <3>5
  <2> DEFINE c == Min(free)
  <2>3. c \in free
    <3>1. free \subseteq Nat
      OBVIOUS
    <3> HIDE DEF free
    <3>2. \E x \in free : \A y \in free : x <= y
      BY <2>2, <3>1, LeastNatural
    <3> QED BY <3>2 DEF Min
  <2> DEFINE new == [id |-> NoId, copy |-> c, of |-> {n}, isRead |-> FALSE]
  <2>4. inbox' = inbox \cup {new}
    BY <1>3 DEF Stored
  <2>5. c \in 1..(MaxTrouble + 1) /\ c # 0 /\ c \in 0..(MaxTrouble + 1)
    BY <1>1, <2>1, <2>3
  <2> HIDE DEF c, free
  <2>6. new \in InboxRow /\ new.id = NoId /\ new.copy = c /\ new.of = {n}
    BY <1>1, <2>5 DEF InboxRow
  <2> HIDE DEF new, same, id
  <2>7. inbox' \subseteq InboxRow
    BY <1>2, <2>4, <2>6
  <2>8. OneRowEach'
    BY <2>4, <2>6 DEF OneRowEach
  <2>9. (\A m \in Notice : Marked(m) => Marked(m)') /\ Marked(n)'
    BY <2>4, <2>6 DEF Marked
  <2>10. \A row \in inbox' : row.of \subseteq DOMAIN sent /\ (row.id = NoId => row.copy # 0)
    BY <1>2, <2>4, <2>5, <2>6
  <2>11. \A m : m # n => Copies(m)' \subseteq Copies(m)
    BY <2>4, <2>6 DEF Copies
  <2>12. Copies(n)' \subseteq Copies(n) \cup {c}
    BY <2>4, <2>6 DEF Copies
  <2> QED BY <2>7, <2>8, <2>9, <2>10, <2>11, <2>12
<1>4. CASE id # NoId /\ same = {}
  <2> DEFINE new == [id |-> id, copy |-> 0, of |-> {n}, isRead |-> FALSE]
  <2>1. inbox' = inbox \cup {new}
    BY <1>4 DEF Stored
  <2>2. \A row \in inbox : row.id # id
    BY <1>4
  <2>3. new \in InboxRow /\ new.id = id /\ new.of = {n}
    <3>1. 0 \in 0..(MaxTrouble + 1)
      BY <1>1
    <3> QED BY <1>1, <3>1 DEF InboxRow
  <2> HIDE DEF new, same, id, free
  <2>4. inbox' \subseteq InboxRow
    BY <1>2, <2>1, <2>3
  <2>5. OneRowEach'
    BY <2>1, <2>2, <2>3 DEF OneRowEach
  <2>6. (\A m \in Notice : Marked(m) => Marked(m)') /\ Marked(n)'
    BY <2>1, <2>3 DEF Marked
  <2>7. \A row \in inbox' : row.of \subseteq DOMAIN sent /\ (row.id = NoId => row.copy # 0)
    BY <1>2, <1>4, <2>1, <2>3
  <2>8. \A m : Copies(m)' \subseteq Copies(m)
    BY <1>4, <2>1, <2>3 DEF Copies
  <2> QED BY <2>4, <2>5, <2>6, <2>7, <2>8
<1>5. CASE id # NoId /\ same # {}
  <2> DEFINE Now(row) == Updated(row, n)
  <2>1. inbox' = (inbox \ same) \cup {Now(row) : row \in same}
    BY <1>5 DEF Stored
  <2>2. \A row \in InboxRow : /\ Now(row) \in InboxRow /\ Now(row).id = row.id /\ Now(row).of = row.of \cup {n}
                              /\ Now(row).isRead = row.isRead
    BY <1>1 DEF InboxRow, Updated
  <2>3. \A row \in inbox : row \in same <=> row.id = id
    OBVIOUS
  <2>4. same \subseteq inbox
    OBVIOUS
  <2> HIDE DEF Now, same, id, free
  <2>5. inbox' \subseteq InboxRow
    BY <1>2, <2>1, <2>2, <2>4
  <2>6. OneRowEach'
    <3>1. ASSUME NEW r \in inbox', NEW s \in inbox', r.id = s.id, r.id # NoId PROVE r = s
      <4>1. PICK a \in inbox : a.id = r.id /\ r = (IF a \in same THEN Now(a) ELSE a)
        BY <1>2, <2>1, <2>2, <2>4
      <4>2. PICK b \in inbox : b.id = s.id /\ s = (IF b \in same THEN Now(b) ELSE b)
        BY <1>2, <2>1, <2>2, <2>4
      <4>3. a = b
        BY <3>1, <4>1, <4>2 DEF OneRowEach
      <4> QED BY <4>1, <4>2, <4>3
    <3>2. ASSUME NEW d \in readIds' PROVE \E r \in inbox' : r.id = d /\ r.isRead
      <4>1. PICK a \in inbox : a.id = d /\ a.isRead
        BY DEF OneRowEach
      <4>2. CASE a \in same
        BY <1>2, <2>1, <2>2, <4>1, <4>2
      <4>3. CASE a \notin same
        BY <2>1, <4>1, <4>3
      <4> QED BY <4>2, <4>3
    <3> QED BY <3>1, <3>2 DEF OneRowEach
  <2>7. ASSUME NEW m \in Notice, Marked(m) PROVE Marked(m)'
    <3>1. CASE m \in dropped
      BY <3>1 DEF Marked
    <3>2. CASE m \notin dropped
      <4>1. PICK a \in inbox : m \in a.of
        BY <2>7, <3>2 DEF Marked
      <4>2. \E r \in inbox' : m \in r.of
        <5>1. CASE a \in same
          BY <1>2, <2>1, <2>2, <4>1, <5>1
        <5>2. CASE a \notin same
          BY <2>1, <4>1, <5>2
        <5> QED BY <5>1, <5>2
      <4> QED BY <4>2 DEF Marked
    <3> QED BY <3>1, <3>2
  <2>8. Marked(n)'
    <3>1. PICK a \in same : TRUE
      BY <1>5
    <3>2. Now(a) \in inbox' /\ n \in Now(a).of
      BY <1>2, <2>1, <2>2, <2>4
    <3> QED BY <3>2 DEF Marked
  <2>9. \A row \in inbox' : row.of \subseteq DOMAIN sent /\ (row.id = NoId => row.copy # 0)
    <3> SUFFICES ASSUME NEW r \in inbox' PROVE r.of \subseteq DOMAIN sent /\ (r.id = NoId => r.copy # 0)
      OBVIOUS
    <3>1. CASE r \in inbox
      BY <1>2, <3>1
    <3>2. CASE r \notin inbox
      <4>1. PICK a \in same : r = Now(a)
        BY <2>1, <3>2
      <4> QED BY <1>2, <1>5, <2>2, <2>3, <2>4, <4>1
    <3> QED BY <3>1, <3>2
  <2>10. \A m : Copies(m)' \subseteq Copies(m)
    <3>1. \A r \in inbox' : r.id = NoId => r \in inbox
      BY <1>2, <1>5, <2>1, <2>2, <2>3, <2>4
    <3> QED BY <3>1 DEF Copies
  <2> QED BY <2>5, <2>6, <2>7, <2>8, <2>9, <2>10
<1> QED BY <1>3, <1>4, <1>5

LEMMA StoreKeeps ==
  ASSUME InboxInv, NEW i \in DOMAIN ongoing, StoreNotice(i)
  PROVE  InboxInv'
<1> USE DEF InboxInv, socketVars
<1>1. /\ DOMAIN sent \subseteq Notice /\ trouble \in Nat
      /\ ongoing \in Seq(Handler) /\ ongoing[i] \in Handler
  BY ShapeOfQueues
<1> DEFINE n == ongoing[i].notice
           h == [ongoing[i] EXCEPT !.step = "ack"]
<1>2. PICK m : m = n
  OBVIOUS
<1>3. m \in DOMAIN sent /\ m \in Notice /\ Handled(m)
  BY <1>1, <1>2 DEF QueueInOrder, Handled, Handler
<1>4. h \in Handler /\ h.notice = m /\ h.step = "ack"
  BY <1>1, <1>2 DEF Handler
<1>5. ongoing' = [ongoing EXCEPT ![i] = h]
  BY DEF StoreNotice
<1>6. /\ inbox' = Stored(m) /\ ongoing[i].step = "store"
      /\ UNCHANGED <<sent, waiting, consumer, trouble, dropped, readIds, socket, connected>>
  BY <1>2 DEF StoreNotice
<1>7. ongoing[i].notice = m
  BY <1>2
<1> HIDE DEF n, h
<1>8. /\ ongoing' \in Seq(Handler) /\ DOMAIN ongoing' = DOMAIN ongoing
      /\ \A j \in DOMAIN ongoing : ongoing'[j] = IF j = i THEN h ELSE ongoing[j]
  <2>1. i \in 1..Len(ongoing)
    BY <1>1, LenProperties
  <2>2. ongoing' \in Seq(Handler)
    BY <1>1, <1>4, <1>5, <2>1, ExceptSeq
  <2> QED BY <1>5, <2>2
<1>9. \A j \in DOMAIN ongoing : ongoing'[j].notice = ongoing[j].notice
  BY <1>4, <1>7, <1>8
<1>10. /\ inbox' \subseteq InboxRow /\ OneRowEach'
       /\ \A q \in Notice : Marked(q) => Marked(q)'
       /\ Marked(m)'
       /\ \A row \in inbox' : row.of \subseteq DOMAIN sent /\ (row.id = NoId => row.copy # 0)
       /\ \A q \in DOMAIN sent : q # m => Copies(q)' \subseteq Copies(q)
       /\ \E x : Copies(m)' \subseteq Copies(m) \cup {x}
  BY <1>3, <1>6, <1>7, StoredIs
<1>11. InboxTypeOK'
  BY <1>6, <1>8, <1>10 DEF InboxTypeOK, Handler
<1>12. \A q : (Waits(q)' <=> Waits(q)) /\ (Handled(q)' <=> Handled(q))
  BY <1>6, <1>8, <1>9 DEF Waits, Handled
<1>13. QueueInOrder'
  <2>1. \A j, k \in DOMAIN ongoing' : ongoing'[j].notice = ongoing'[k].notice => j = k
    BY <1>8, <1>9 DEF QueueInOrder
  <2>2. consumer' # "down"
    BY <1>6 DEF QueueInOrder
  <2> QED BY <1>6, <1>12, <2>1, <2>2 DEF QueueInOrder
<1>14. NoneLost'
  <2>1. \A q \in DOMAIN sent' : Waits(q)' \/ Handled(q)' \/ Marked(q)'
    BY <1>1, <1>6, <1>10, <1>12 DEF NoneLost
  <2>2. ASSUME NEW j \in DOMAIN ongoing', NEW q \in Notice, ongoing'[j].notice = q, ongoing'[j].step = "ack"
        PROVE  Marked(q)'
    <3>1. CASE j = i
      BY <1>4, <1>8, <1>10, <2>2, <3>1
    <3>2. CASE j # i
      BY <1>8, <1>10, <2>2, <3>2 DEF NoneLost
    <3> QED BY <3>1, <3>2
  <2> QED BY <2>1, <2>2 DEF NoneLost
<1>15. ConnectedAreOpen'
  BY <1>6 DEF ConnectedAreOpen
<1>16. CopiesAreDeliveries'
  <2>1. ASSUME NEW q \in DOMAIN sent'
        PROVE  /\ Cardinality(Copies(q)') <= trouble' + 1
               /\ Waits(q)' => Cardinality(Copies(q)') <= trouble'
               /\ \A j \in DOMAIN ongoing' : ongoing'[j].notice = q /\ ongoing'[j].step = "store" =>
                    Cardinality(Copies(q)') + (IF consumer' = "cut" THEN 1 ELSE 0) <= trouble'
    <3>0. q \in DOMAIN sent
      BY <1>6
    <3>1. IsFiniteSet(Copies(q)) /\ Cardinality(Copies(q)) \in Nat
      BY CopiesAreFew
    <3>2. PICK k \in Nat : k = Cardinality(Copies(q))
      BY <3>1
    <3>3. /\ k <= trouble + 1
          /\ Waits(q) => k <= trouble
          /\ \A j \in DOMAIN ongoing : ongoing[j].notice = q /\ ongoing[j].step = "store" =>
               k + (IF consumer = "cut" THEN 1 ELSE 0) <= trouble
      BY <3>0, <3>2 DEF CopiesAreDeliveries
    <3>4. CASE q # m
      <4>1. Copies(q)' \subseteq Copies(q)
        BY <1>10, <3>0, <3>4
      <4>2. PICK x \in Nat : x = Cardinality(Copies(q)') /\ x <= k
        BY <3>1, <3>2, <4>1, FS_Subset, FS_CardinalityType
      <4>3. /\ x <= trouble + 1
            /\ Waits(q) => x <= trouble
            /\ \A j \in DOMAIN ongoing : ongoing[j].notice = q /\ ongoing[j].step = "store" =>
                 x + (IF consumer = "cut" THEN 1 ELSE 0) <= trouble
        BY <1>1, <3>2, <3>3, <4>2
      <4>4. \A j \in DOMAIN ongoing' : ongoing'[j].notice = q => ongoing'[j] = ongoing[j] /\ j \in DOMAIN ongoing
        BY <1>7, <1>8, <1>9, <3>4
      <4> QED BY <1>6, <1>12, <4>2, <4>3, <4>4
    <3>5. CASE q = m
      <4>1. PICK y : Copies(q)' \subseteq Copies(q) \cup {y}
        BY <1>10, <3>5
      <4>2. IsFiniteSet(Copies(q) \cup {y}) /\ Cardinality(Copies(q) \cup {y}) <= k + 1
            /\ Cardinality(Copies(q) \cup {y}) \in Nat
        <5>1. /\ IsFiniteSet(Copies(q) \cup {y})
              /\ Cardinality(Copies(q) \cup {y}) = IF y \in Copies(q) THEN k ELSE k + 1
          BY <3>1, <3>2, FS_AddElement
        <5> QED BY <3>2, <5>1
      <4>3. Cardinality(Copies(q)') <= Cardinality(Copies(q) \cup {y}) /\ Cardinality(Copies(q)') \in Nat
        BY <4>1, <4>2, FS_Subset, FS_CardinalityType
      <4>4. PICK x \in Nat : x = Cardinality(Copies(q)') /\ x <= k + 1
        BY <3>2, <4>2, <4>3
      <4>5. k + (IF consumer = "cut" THEN 1 ELSE 0) <= trouble
        BY <1>6, <1>7, <3>3, <3>5
      <4>6. x <= trouble + 1
        BY <1>1, <3>2, <4>4, <4>5
      <4>7. Waits(q) => x <= trouble
        <5>1. consumer # "down"
          BY DEF QueueInOrder
        <5>2. consumer \in {"up", "cut", "down"}
          BY DEF InboxTypeOK
        <5>3. Waits(q) => consumer = "cut"
          BY <1>3, <3>5, <5>1, <5>2 DEF QueueInOrder
        <5> QED BY <1>1, <3>2, <4>4, <4>5, <5>3
      <4>8. \A j \in DOMAIN ongoing' : ongoing'[j].notice = q => ongoing'[j].step = "ack"
        BY <1>4, <1>7, <1>8, <1>9, <3>5 DEF QueueInOrder
      <4> QED BY <1>6, <1>12, <4>4, <4>6, <4>7, <4>8
    <3> QED BY <3>4, <3>5
  <2> QED BY <1>6, <1>10, <2>1 DEF CopiesAreDeliveries
<1> QED BY <1>10, <1>11, <1>13, <1>14, <1>15, <1>16

-----------------------------------------------------------------------------
LEMMA InboxInvInductive == InboxInv /\ [InboxNext]_inboxVars => InboxInv'
<1> SUFFICES ASSUME InboxInv, [InboxNext]_inboxVars PROVE InboxInv'
  OBVIOUS
<1>1. CASE \E id \in NoticeId \cup {NoId} : PublishNotice(id)
  BY <1>1, PublishKeeps
<1>2. CASE DeliverNotice \/ BootConsumer
  BY <1>2, DeliverKeeps, BootKeeps
<1>3. CASE CutConsumer \/ CrashConsumer
  BY <1>3, TroubleKeeps
<1>4. CASE \E i \in DOMAIN ongoing : StoreNotice(i) \/ AckNotice(i) \/ RejectNotice(i)
  BY <1>4, StoreKeeps, HandlerEndsKeep
<1>5. CASE (\E row \in inbox : MarkRead(row) \/ DeleteNotice(row)) \/ MarkAllRead
  BY <1>5, MarkReadKeeps, DeleteNoticeKeeps, MarkAllReadKeeps
<1>6. CASE \E s \in Socket : Connect(s) \/ RegisterSocket(s) \/ RejectSocket(s) \/ CloseTab(s)
  BY <1>6, SocketStepKeeps
<1>7. CASE UNCHANGED inboxVars
  <2>1. /\ UNCHANGED <<queueVars, rowVars>>
        /\ socket' \in [Socket -> {"new", "authenticating", "left early", "open", "gone", "gone early"}]
        /\ connected' \subseteq Socket /\ ConnectedAreOpen'
    BY <1>7 DEF inboxVars, socketVars, InboxInv, InboxTypeOK, ConnectedAreOpen
  <2> QED BY <2>1, SocketsKeep
<1> QED BY <1>1, <1>2, <1>3, <1>4, <1>5, <1>6, <1>7 DEF InboxNext

(* Wherever an event is, it is there once, and no row is made twice. *)
THEOREM InboxInvHolds == InboxSpec => []InboxInv
BY InitInboxInv, InboxInvInductive, PTL DEF InboxSpec

(* The rows, queues and connections keep their shape: a row's copy never   *)
(* runs out.                                                               *)
THEOREM InboxTypeCorrect == InboxSpec => []InboxTypeOK
<1>1. InboxInv => InboxTypeOK
  BY DEF InboxInv
<1> QED BY <1>1, InboxInvHolds, PTL

(* What was published is kept, and what was read stays read, through every *)
(* order of deliveries, lost channels, crashes and requests of the user.   *)
THEOREM NoticesAlwaysKept == InboxSpec => []NoticesKept
BY InboxInvGivesKept, InboxInvHolds, PTL

(* The gateway holds open connections only, but for tabs that left early.  *)
THEOREM ConnectedAlwaysOpen == InboxSpec => []ConnectedAreOpen
<1>1. InboxInv => ConnectedAreOpen
  BY DEF InboxInv
<1> QED BY <1>1, InboxInvHolds, PTL

(***************************************************************************)
(* Tickets: what an answer does to the status, and how numbers are given.  *)
(***************************************************************************)
DeskIsMap == desk \in [Desk -> DeskRequest \cup {NoRequest}]

(* Rows have an id and a number of their own. *)
RowsOfTickets ==
  /\ IsFiniteSet(tickets) /\ Cardinality(tickets) <= opened
  /\ \A t \in tickets : t.id <= opened
  /\ \A s, t \in tickets : s.id = t.id \/ s.number = t.number => s = t

(* What a request may be about, and where it may be. *)
RequestsInOrder ==
  \A d \in Desk : Busy(d) =>
    /\ desk[d].op = "open" <=> desk[d].id = 0
    /\ desk[d].id <= opened
    /\ desk[d].step = "status" => desk[d].op = "respond" /\ desk[d].read = "OPEN"
    /\ DeskAt(d, "open", "insert") => desk[d].number # 0

(* Two tickets being opened have met. *)
OpensHaveMet ==
  \A d, e \in Desk :
    d # e /\ Busy(d) /\ Busy(e) /\ desk[d].op = "open" /\ desk[e].op = "open" => "open" \in desk[d].met

(* While none was deleted, the numbers do not exceed the count, and what   *)
(* was counted without meeting another is still the next.                  *)
NumbersFollowCount ==
  ~deleted =>
    /\ \A t \in tickets : t.number <= Cardinality(tickets)
    /\ \A d \in Desk : DeskAt(d, "open", "insert") =>
         /\ desk[d].number <= Cardinality(tickets) + 1
         /\ "open" \in desk[d].met \/ desk[d].number = Cardinality(tickets) + 1

(* What became of the ticket since a request read it. *)
SinceRead ==
  \A d \in Desk, t \in tickets :
    Busy(d) /\ desk[d].id = t.id /\ desk[d].step # "find" =>
      /\ desk[d].read # "OPEN" /\ t.status = "OPEN" => t.reopened
      /\ desk[d].read = "OPEN" /\ t.status \in {"RESOLVED", "CLOSED"} => "update" \in desk[d].met

NoneAlone == "alone" \notin refusals /\ \A t \in tickets : "alone" \notin t.overruled

TicketsInv ==
  /\ TicketsTypeOK /\ DeskIsMap /\ RowsOfTickets /\ RequestsInOrder /\ OpensHaveMet
  /\ NumbersFollowCount /\ SinceRead /\ AnsweredIsTaken /\ NoneAlone

LEMMA NoRequestApart == NoRequest \notin DeskRequest
BY DEF NoRequest, DeskRequest

LEMMA TicketsInvGivesHold == TicketsInv => TicketsHold
BY DEF TicketsInv, TicketsHold, NoneAlone, RowsOfTickets

LEMMA InitTicketsInv == TicketsInit => TicketsInv
<1> SUFFICES ASSUME TicketsInit PROVE TicketsInv
  OBVIOUS
<1> USE TicketsAssumption DEF TicketsInit
<1>0. \A d \in Desk : ~Busy(d)
  BY DEF Busy
<1>1. TicketsTypeOK
  <2>1. opened \in 0..MaxTickets /\ requests \in 0..MaxRequests
    OBVIOUS
  <2> QED BY <1>0, <2>1 DEF TicketsTypeOK
<1>2. DeskIsMap
  BY DEF DeskIsMap
<1>3. RowsOfTickets
  BY FS_EmptySet DEF RowsOfTickets
<1>4. RequestsInOrder /\ OpensHaveMet /\ NumbersFollowCount
  BY <1>0 DEF RequestsInOrder, OpensHaveMet, NumbersFollowCount, DeskAt
<1>5. SinceRead /\ AnsweredIsTaken /\ NoneAlone
  BY <1>0 DEF SinceRead, AnsweredIsTaken, NoneAlone
<1> QED BY <1>1, <1>2, <1>3, <1>4, <1>5 DEF TicketsInv

LEMMA BusyIs ==
  ASSUME TicketsInv, NEW d \in Desk
  PROVE  /\ Busy(d) <=> desk[d] \in DeskRequest
         /\ desk[d] = NoRequest \/ desk[d] \in DeskRequest
BY NoRequestApart DEF TicketsInv, DeskIsMap, Busy

LEMMA BusyNext ==
  ASSUME DeskIsMap', NEW d \in Desk
  PROVE  /\ Busy(d)' <=> desk'[d] \in DeskRequest
         /\ desk'[d] = NoRequest \/ desk'[d] \in DeskRequest
BY NoRequestApart DEF DeskIsMap, Busy

LEMMA CountIsBounded ==
  ASSUME TicketsInv
  PROVE  /\ Cardinality(tickets) \in Nat /\ opened \in Nat /\ MaxTickets \in Nat
         /\ Cardinality(tickets) <= opened /\ opened <= MaxTickets
BY TicketsAssumption, FS_CardinalityType DEF TicketsInv, RowsOfTickets, TicketsTypeOK

(* There is at most one row of an id. *)
LEMMA RowOfId ==
  ASSUME TicketsInv, NEW id
  PROVE  WithId(id) = {} \/ \E t \in tickets : t.id = id /\ WithId(id) = {t}
BY DEF TicketsInv, RowsOfTickets, WithId

(* A row takes the place of another one: the count stays, and so does what *)
(* tells the rows apart.                                                   *)
LEMMA RowChanges ==
  ASSUME TicketsInv, opened' = opened,
         NEW old \in tickets, NEW new \in Ticket, new.id = old.id, new.number = old.number,
         tickets' = (tickets \ {old}) \cup {new}
  PROVE  /\ tickets' \subseteq Ticket /\ RowsOfTickets' /\ Cardinality(tickets') = Cardinality(tickets)
         /\ \A t \in tickets' : t = new \/ (t \in tickets /\ t.id # old.id)
         /\ \A t \in tickets' : \E s \in tickets : s.id = t.id /\ s.number = t.number
<1> USE DEF TicketsInv
<1>1. tickets \subseteq Ticket /\ IsFiniteSet(tickets)
  BY DEF TicketsTypeOK, RowsOfTickets
<1>2. \A t \in tickets \ {old} : t.id # old.id /\ t.number # old.number
  BY DEF RowsOfTickets
<1>3. IsFiniteSet(tickets \ {old}) /\ Cardinality(tickets \ {old}) = Cardinality(tickets) - 1
  BY <1>1, FS_RemoveElement
<1>4. new \notin tickets \ {old}
  BY <1>2
<1>5. /\ IsFiniteSet((tickets \ {old}) \cup {new})
      /\ Cardinality((tickets \ {old}) \cup {new}) = (Cardinality(tickets) - 1) + 1
  BY <1>3, <1>4, FS_AddElement
<1>6. Cardinality(tickets') = Cardinality(tickets)
  BY <1>5, CountIsBounded
<1>7. RowsOfTickets'
  <2>1. IsFiniteSet(tickets') /\ Cardinality(tickets') <= opened'
    BY <1>5, <1>6, CountIsBounded
  <2>2. \A t \in tickets' : t.id <= opened'
    BY DEF RowsOfTickets
  <2>3. \A s, t \in tickets' : s.id = t.id \/ s.number = t.number => s = t
    BY <1>2 DEF RowsOfTickets
  <2> QED BY <2>1, <2>2, <2>3 DEF RowsOfTickets
<1> QED BY <1>1, <1>2, <1>6, <1>7

-----------------------------------------------------------------------------
(* A request about a ticket goes on or ends, and others may meet it.       *)
SameRequest(x, y) ==
  /\ x.op = y.op /\ x.step = y.step /\ x.id = y.id /\ x.number = y.number /\ x.read = y.read
  /\ y.met \subseteq x.met

GoesOn(d) ==
  /\ DeskIsMap'
  /\ \A e \in Desk \ {d} : desk'[e] = desk[e] \/ (Busy(e) /\ Busy(e)' /\ SameRequest(desk'[e], desk[e]))
  /\ Busy(d) /\ desk[d].op # "open"
  /\ ~Busy(d)' \/ /\ desk'[d].op = desk[d].op /\ desk'[d].id = desk[d].id
                  /\ desk'[d].step = "status" => desk[d].op = "respond" /\ desk'[d].read = "OPEN"

(* Whoever is busy then was busy before, with the same request or, if it   *)
(* is the one that goes on, about the same ticket.                         *)
LEMMA WhoGoesOn ==
  ASSUME TicketsInv, NEW d \in Desk, GoesOn(d), NEW e \in Desk, Busy(e)'
  PROVE  /\ Busy(e) /\ desk[e] \in DeskRequest /\ desk'[e] \in DeskRequest
         /\ desk'[e].op = desk[e].op /\ desk'[e].id = desk[e].id
         /\ e # d => SameRequest(desk'[e], desk[e])
         /\ desk[e].op = "open" => e # d
<1>1. desk'[e] \in DeskRequest
  BY BusyNext DEF GoesOn
<1>2. CASE e = d
  BY <1>1, <1>2, BusyIs DEF GoesOn
<1>3. CASE e # d
  <2>1. CASE desk'[e] = desk[e]
    BY <1>1, <1>3, <2>1, BusyIs DEF SameRequest
  <2>2. CASE desk'[e] # desk[e]
    BY <1>1, <1>3, <2>2, BusyIs DEF SameRequest, GoesOn
  <2> QED BY <2>1, <2>2
<1> QED BY <1>2, <1>3

LEMMA GoingOnKeeps ==
  ASSUME TicketsInv, NEW d \in Desk, GoesOn(d), UNCHANGED <<opened, requests, refusals>>,
         deleted' \in BOOLEAN, deleted => deleted',
         tickets' \subseteq Ticket, RowsOfTickets',
         ~deleted' => /\ Cardinality(tickets') = Cardinality(tickets)
                      /\ \A t \in tickets' : \E s \in tickets : s.id = t.id /\ s.number = t.number
  PROVE  TicketsTypeOK' /\ DeskIsMap' /\ RowsOfTickets' /\ RequestsInOrder' /\ OpensHaveMet' /\ NumbersFollowCount'
<1> USE DEF TicketsInv
<1>1. DeskIsMap' /\ TicketsTypeOK'
  BY BusyNext DEF GoesOn, TicketsTypeOK
<1>2. RequestsInOrder'
  <2> SUFFICES ASSUME NEW e \in Desk, Busy(e)'
               PROVE  /\ desk'[e].op = "open" <=> desk'[e].id = 0
                      /\ desk'[e].id <= opened'
                      /\ desk'[e].step = "status" => desk'[e].op = "respond" /\ desk'[e].read = "OPEN"
                      /\ DeskAt(e, "open", "insert")' => desk'[e].number # 0
    BY DEF RequestsInOrder
  <2>1. /\ Busy(e) /\ desk'[e].op = desk[e].op /\ desk'[e].id = desk[e].id
        /\ e # d => SameRequest(desk'[e], desk[e])
        /\ desk[e].op = "open" => e # d
    BY WhoGoesOn
  <2>2. desk'[e].step = "status" => desk'[e].op = "respond" /\ desk'[e].read = "OPEN"
    <3>1. CASE e = d
      BY <2>1, <3>1 DEF GoesOn
    <3>2. CASE e # d
      BY <2>1, <3>2 DEF SameRequest, RequestsInOrder
    <3> QED BY <3>1, <3>2
  <2>3. DeskAt(e, "open", "insert")' => desk'[e].number # 0
    BY <2>1 DEF DeskAt, SameRequest, RequestsInOrder
  <2> QED BY <2>1, <2>2, <2>3 DEF RequestsInOrder
<1>3. OpensHaveMet'
  <2> SUFFICES ASSUME NEW e \in Desk, NEW f \in Desk, e # f, Busy(e)', Busy(f)',
                      desk'[e].op = "open", desk'[f].op = "open"
               PROVE  "open" \in desk'[e].met
    BY DEF OpensHaveMet
  <2>1. /\ Busy(e) /\ Busy(f) /\ desk[e].op = "open" /\ desk[f].op = "open"
        /\ SameRequest(desk'[e], desk[e])
    BY WhoGoesOn
  <2> QED BY <2>1 DEF SameRequest, OpensHaveMet
<1>4. NumbersFollowCount'
  <2> SUFFICES ASSUME ~deleted'
               PROVE  /\ \A t \in tickets' : t.number <= Cardinality(tickets')
                      /\ \A e \in Desk : DeskAt(e, "open", "insert")' =>
                           /\ desk'[e].number <= Cardinality(tickets') + 1
                           /\ "open" \in desk'[e].met \/ desk'[e].number = Cardinality(tickets') + 1
    BY DEF NumbersFollowCount
  <2>1. \A t \in tickets' : t.number <= Cardinality(tickets')
    BY DEF NumbersFollowCount
  <2>2. ASSUME NEW e \in Desk, DeskAt(e, "open", "insert")'
        PROVE  /\ desk'[e].number <= Cardinality(tickets') + 1
               /\ "open" \in desk'[e].met \/ desk'[e].number = Cardinality(tickets') + 1
    <3>1. SameRequest(desk'[e], desk[e]) /\ DeskAt(e, "open", "insert")
      BY <2>2, WhoGoesOn DEF DeskAt, SameRequest
    <3> QED BY <3>1 DEF SameRequest, NumbersFollowCount
  <2> QED BY <2>1, <2>2
<1> QED BY <1>1, <1>2, <1>3, <1>4

(* The row of the ticket changes, or there is none. *)
LEMMA RowStepKeeps ==
  ASSUME TicketsInv, NEW d \in Desk, GoesOn(d), UNCHANGED <<opened, requests, deleted, refusals>>,
         \/ tickets' = tickets
         \/ \E old \in tickets, new \in Ticket :
              new.id = old.id /\ new.number = old.number /\ tickets' = (tickets \ {old}) \cup {new}
  PROVE  TicketsTypeOK' /\ DeskIsMap' /\ RowsOfTickets' /\ RequestsInOrder' /\ OpensHaveMet' /\ NumbersFollowCount'
<1>1. /\ tickets' \subseteq Ticket /\ RowsOfTickets' /\ Cardinality(tickets') = Cardinality(tickets)
      /\ \A t \in tickets' : \E s \in tickets : s.id = t.id /\ s.number = t.number
  <2>1. CASE tickets' = tickets
    BY <2>1 DEF TicketsInv, TicketsTypeOK, RowsOfTickets
  <2>2. CASE tickets' # tickets
    <3>1. PICK old \in tickets, new \in Ticket :
            new.id = old.id /\ new.number = old.number /\ tickets' = (tickets \ {old}) \cup {new}
      BY <2>2
    <3> QED BY <3>1, RowChanges
  <2> QED BY <2>1, <2>2
<1>2. deleted' \in BOOLEAN /\ deleted' = deleted
  BY DEF TicketsInv, TicketsTypeOK
<1> QED BY <1>1, <1>2, GoingOnKeeps


LEMMA MeetsMore ==
  ASSUME NEW x \in DeskRequest, NEW k \in {"open", "update"}
  PROVE  /\ [x EXCEPT !.met = @ \cup {k}] \in DeskRequest
         /\ SameRequest([x EXCEPT !.met = @ \cup {k}], x)
         /\ k \in [x EXCEPT !.met = @ \cup {k}].met
BY DEF DeskRequest, SameRequest

LEMMA FindTicketKeeps ==
  ASSUME TicketsInv, NEW d \in Desk, FindTicket(d)
  PROVE  TicketsInv'
<1> USE DEF FindTicket, TicketsInv
<1>1. desk \in [Desk -> DeskRequest \cup {NoRequest}] /\ desk[d] \in DeskRequest
  BY BusyIs DEF DeskIsMap
<1>2. \/ desk' = [desk EXCEPT ![d] = NoRequest]
      \/ \E t \in tickets : /\ WithId(desk[d].id) = {t} /\ t.id = desk[d].id
                            /\ desk' = [desk EXCEPT ![d].read = t.status, ![d].step = "insert", ![d].met = {}]
  <2>1. CASE WithId(desk[d].id) = {}
    BY <2>1 DEF Done
  <2>2. CASE WithId(desk[d].id) # {}
    <3>1. PICK s \in tickets : s.id = desk[d].id /\ WithId(desk[d].id) = {s}
      BY <2>2, RowOfId
    <3>2. \E t \in WithId(desk[d].id) :
            desk' = [desk EXCEPT ![d].read = t.status, ![d].step = "insert", ![d].met = {}]
      BY <2>2
    <3> QED BY <3>1, <3>2
  <2> QED BY <2>1, <2>2
<1>3. DeskIsMap' /\ \A e \in Desk \ {d} : desk'[e] = desk[e]
  <2>1. \A t \in tickets : t.status \in TicketStatus
    BY DEF TicketsTypeOK, Ticket
  <2>2. ASSUME NEW t \in tickets PROVE [desk[d] EXCEPT !.read = t.status, !.step = "insert", !.met = {}] \in DeskRequest
    BY <1>1, <2>1 DEF DeskRequest
  <2> QED BY <1>1, <1>2, <2>2 DEF DeskIsMap
<1>4. desk'[d] = NoRequest \/ (/\ desk'[d].op = desk[d].op /\ desk'[d].id = desk[d].id /\ desk'[d].step = "insert"
                               /\ \A t \in tickets : t.id = desk[d].id => desk'[d].read = t.status)
  <2>1. CASE desk' = [desk EXCEPT ![d] = NoRequest]
    BY <1>1, <2>1
  <2>2. CASE desk' # [desk EXCEPT ![d] = NoRequest]
    <3>1. PICK t \in tickets :
            /\ WithId(desk[d].id) = {t} /\ t.id = desk[d].id
            /\ desk' = [desk EXCEPT ![d].read = t.status, ![d].step = "insert", ![d].met = {}]
      BY <1>2, <2>2
    <3>2. desk'[d] = [desk[d] EXCEPT !.read = t.status, !.step = "insert", !.met = {}]
      BY <1>1, <3>1
    <3>3. desk'[d].op = desk[d].op /\ desk'[d].id = desk[d].id /\ desk'[d].step = "insert" /\ desk'[d].read = t.status
      BY <1>1, <3>2 DEF DeskRequest
    <3>4. \A s \in tickets : s.id = desk[d].id => s = t
      BY <3>1 DEF RowsOfTickets
    <3> QED BY <3>3, <3>4
  <2> QED BY <2>1, <2>2
<1>5. GoesOn(d)
  BY <1>3, <1>4 DEF GoesOn, Busy
<1>6. TicketsTypeOK' /\ DeskIsMap' /\ RowsOfTickets' /\ RequestsInOrder' /\ OpensHaveMet' /\ NumbersFollowCount'
  BY <1>5, RowStepKeeps
<1>7. SinceRead'
  <2> SUFFICES ASSUME NEW e \in Desk, NEW t \in tickets, Busy(e)', desk'[e].id = t.id, desk'[e].step # "find"
               PROVE  /\ desk'[e].read # "OPEN" /\ t.status = "OPEN" => t.reopened
                      /\ desk'[e].read = "OPEN" /\ t.status \in {"RESOLVED", "CLOSED"} => "update" \in desk'[e].met
    BY DEF SinceRead
  <2>1. CASE e = d
    BY <1>4, <2>1 DEF Busy
  <2>2. CASE e # d
    BY <1>3, <2>2 DEF Busy, SinceRead
  <2> QED BY <2>1, <2>2
<1>8. AnsweredIsTaken'
  <2> SUFFICES ASSUME NEW t \in tickets, t.responses > 0, t.status = "OPEN", ~t.reopened, ~t.left
               PROVE  \E e \in Desk : DeskAt(e, "respond", "status")' /\ desk'[e].id = t.id
    BY DEF AnsweredIsTaken
  <2>1. PICK e \in Desk : DeskAt(e, "respond", "status") /\ desk[e].id = t.id
    BY DEF AnsweredIsTaken
  <2>2. e # d
    BY <2>1 DEF DeskAt
  <2> QED BY <1>3, <2>1, <2>2 DEF DeskAt, Busy
<1>9. NoneAlone'
  BY DEF NoneAlone
<1> QED BY <1>6, <1>7, <1>8, <1>9

(* An update, met by the others that are about the ticket. *)
LEMMA UpdateKeeps ==
  ASSUME TicketsInv, NEW d \in Desk, NEW status \in TicketStatus, UpdateTicket(d, status)
  PROVE  TicketsInv'
<1> USE DEF UpdateTicket, TicketsInv
<1> DEFINE id == desk[d].id
           New(t) == [t EXCEPT !.status = status, !.stamped = @ \cup Stamps(status), !.reopened = status = "OPEN"]
<1>1. desk \in [Desk -> DeskRequest \cup {NoRequest}] /\ desk[d] \in DeskRequest /\ tickets \subseteq Ticket
      /\ Busy(d) /\ desk[d].op = "update" /\ desk[d].step = "insert"
  BY BusyIs DEF DeskIsMap, DeskAt, TicketsTypeOK
<1>2. tickets' = (tickets \ WithId(id)) \cup {New(t) : t \in WithId(id)}
  BY DEF Rewritten
<1>3. \A t \in Ticket : /\ New(t) \in Ticket /\ New(t).id = t.id /\ New(t).number = t.number
                        /\ New(t).status = status /\ New(t).reopened = (status = "OPEN")
                        /\ New(t).overruled = t.overruled /\ New(t).responses = t.responses
  BY DEF Ticket, Stamps
<1>4. \A e \in Desk : desk'[e] = IF e = d THEN NoRequest
                                 ELSE IF Busy(e) /\ desk[e].id = id THEN [desk[e] EXCEPT !.met = @ \cup {"update"}]
                                 ELSE desk[e]
  BY DEF Meeting
<1>5. DOMAIN desk' = Desk /\ desk' = [e \in Desk |-> desk'[e]]
  BY DEF Meeting
<1> HIDE DEF New, id
<1>6. ASSUME NEW e \in Desk \ {d}, Busy(e), desk[e].id = id
      PROVE  desk'[e] \in DeskRequest /\ SameRequest(desk'[e], desk[e]) /\ "update" \in desk'[e].met
  <2>1. desk[e] \in DeskRequest
    BY <1>6, BusyIs
  <2>2. desk'[e] = [desk[e] EXCEPT !.met = @ \cup {"update"}]
    BY <1>4, <1>6
  <2> QED BY <2>1, <2>2, MeetsMore
<1>7. ASSUME NEW e \in Desk \ {d}, ~(Busy(e) /\ desk[e].id = id)
      PROVE  desk'[e] = desk[e]
  BY <1>4, <1>7
<1>8. ~Busy(d)' /\ DeskIsMap'
  <2>1. desk'[d] = NoRequest
    BY <1>4
  <2>2. \A e \in Desk : desk'[e] \in DeskRequest \cup {NoRequest}
    BY <1>1, <1>6, <1>7, <2>1
  <2> QED BY <1>5, <2>1, <2>2 DEF Busy, DeskIsMap
<1>9. GoesOn(d)
  <2>1. \A e \in Desk \ {d} : desk'[e] = desk[e] \/ (Busy(e) /\ Busy(e)' /\ SameRequest(desk'[e], desk[e]))
    BY <1>6, <1>7, <1>8, BusyNext
  <2> QED BY <1>1, <1>8, <2>1 DEF GoesOn
<1>10. \/ tickets' = tickets /\ \A t \in tickets : t.id # id
       \/ \E old \in tickets : old.id = id /\ tickets' = (tickets \ {old}) \cup {New(old)}
  <2>1. CASE WithId(id) = {}
    BY <1>2, <2>1 DEF WithId
  <2>2. CASE WithId(id) # {}
    BY <1>2, <2>2, RowOfId
  <2> QED BY <2>1, <2>2
<1>11. TicketsTypeOK' /\ DeskIsMap' /\ RowsOfTickets' /\ RequestsInOrder' /\ OpensHaveMet' /\ NumbersFollowCount'
  BY <1>1, <1>3, <1>9, <1>10, RowStepKeeps
<1>12. ASSUME NEW t \in tickets'
       PROVE  \/ t \in tickets /\ t.id # id
              \/ \E old \in tickets : old.id = id /\ t = New(old)
  <2>1. CASE tickets' = tickets /\ \A s \in tickets : s.id # id
    BY <2>1
  <2>2. CASE \E old \in tickets : old.id = id /\ tickets' = (tickets \ {old}) \cup {New(old)}
    BY <2>2 DEF RowsOfTickets
  <2> QED BY <1>10, <2>1, <2>2
<1>13. SinceRead'
  <2> SUFFICES ASSUME NEW e \in Desk, NEW t \in tickets', Busy(e)', desk'[e].id = t.id, desk'[e].step # "find"
               PROVE  /\ desk'[e].read # "OPEN" /\ t.status = "OPEN" => t.reopened
                      /\ desk'[e].read = "OPEN" /\ t.status \in {"RESOLVED", "CLOSED"} => "update" \in desk'[e].met
    BY DEF SinceRead
  <2>1. e # d /\ Busy(e) /\ desk[e].id = t.id /\ SameRequest(desk'[e], desk[e])
    BY <1>8, <1>9, WhoGoesOn
  <2>2. CASE t \in tickets /\ t.id # id
    BY <2>1, <2>2 DEF SinceRead, SameRequest
  <2>3. CASE \E old \in tickets : old.id = id /\ t = New(old)
    <3>1. t.id = id /\ t.reopened = (t.status = "OPEN")
      BY <1>1, <1>3, <2>3
    <3> QED BY <1>6, <2>1, <3>1
  <2> QED BY <1>12, <2>2, <2>3
<1>14. AnsweredIsTaken'
  <2> SUFFICES ASSUME NEW t \in tickets', t.responses > 0, t.status = "OPEN", ~t.reopened, ~t.left
               PROVE  \E e \in Desk : DeskAt(e, "respond", "status")' /\ desk'[e].id = t.id
    BY DEF AnsweredIsTaken
  <2>1. t \in tickets /\ t.id # id
    <3>1. ASSUME NEW old \in tickets, t = New(old)
          PROVE  FALSE
      BY <1>1, <1>3, <3>1
    <3> HIDE DEF New
    <3> QED BY <1>12, <3>1
  <2>2. PICK e \in Desk : DeskAt(e, "respond", "status") /\ desk[e].id = t.id
    BY <2>1 DEF AnsweredIsTaken
  <2>3. e # d
    BY <1>1, <2>2 DEF DeskAt
  <2> QED BY <1>7, <2>1, <2>2, <2>3 DEF DeskAt, Busy
<1>15. NoneAlone'
  BY <1>1, <1>3, <1>12 DEF NoneAlone
<1> QED BY <1>11, <1>13, <1>14, <1>15

-----------------------------------------------------------------------------
(* A request that writes to its row what tells nobody else anything of it. *)
LEMMA QuietWriteKeeps ==
  ASSUME TicketsInv, NEW d \in Desk, Busy(d), desk[d].op # "open", desk[d].step # "find",
         DeskIsMap', \A e \in Desk \ {d} : desk'[e] = desk[e],
         ~Busy(d)' \/ (/\ SameRequest([desk'[d] EXCEPT !.step = desk[d].step], desk[d])
                       /\ desk'[d].step = "status" /\ desk[d].op = "respond" /\ desk[d].read = "OPEN"),
         UNCHANGED <<opened, requests, deleted, refusals>>,
         \/ tickets' = tickets
         \/ \E old \in tickets, new \in Ticket :
              /\ new.id = old.id /\ new.number = old.number /\ old.id = desk[d].id
              /\ tickets' = (tickets \ {old}) \cup {new}
              /\ new.status = old.status \/ new.status = "IN_PROGRESS"
              /\ new.reopened = old.reopened,
         AnsweredIsTaken', NoneAlone'
  PROVE  TicketsInv'
<1> USE DEF TicketsInv
<1>1. /\ desk[d] \in DeskRequest /\ (desk'[d] = NoRequest \/ desk'[d] \in DeskRequest)
      /\ Busy(d)' => desk'[d] \in DeskRequest
  BY BusyIs, BusyNext
<1>2. Busy(d)' => /\ desk'[d].op = desk[d].op /\ desk'[d].id = desk[d].id /\ desk'[d].read = desk[d].read
                  /\ desk[d].met \subseteq desk'[d].met
  BY <1>1 DEF SameRequest, DeskRequest
<1>3. GoesOn(d)
  BY <1>2 DEF GoesOn
<1>4. TicketsTypeOK' /\ DeskIsMap' /\ RowsOfTickets' /\ RequestsInOrder' /\ OpensHaveMet' /\ NumbersFollowCount'
  BY <1>3, RowStepKeeps
<1>5. SinceRead'
  <2> SUFFICES ASSUME NEW e \in Desk, NEW t \in tickets', Busy(e)', desk'[e].id = t.id, desk'[e].step # "find"
               PROVE  /\ desk'[e].read # "OPEN" /\ t.status = "OPEN" => t.reopened
                      /\ desk'[e].read = "OPEN" /\ t.status \in {"RESOLVED", "CLOSED"} => "update" \in desk'[e].met
    BY DEF SinceRead
  <2>1. /\ Busy(e) /\ desk[e].id = t.id /\ desk[e].step # "find" /\ desk'[e].read = desk[e].read
        /\ desk[e].met \subseteq desk'[e].met
    BY <1>2 DEF Busy
  <2>2. CASE t \in tickets
    BY <2>1, <2>2 DEF SinceRead
  <2>3. CASE t \notin tickets
    <3>1. PICK old \in tickets : /\ t.id = old.id /\ t.reopened = old.reopened
                                 /\ t.status = old.status \/ t.status = "IN_PROGRESS"
      BY <2>3
    <3>2. /\ desk[e].read # "OPEN" /\ old.status = "OPEN" => old.reopened
          /\ desk[e].read = "OPEN" /\ old.status \in {"RESOLVED", "CLOSED"} => "update" \in desk[e].met
      BY <2>1, <3>1 DEF SinceRead
    <3> QED BY <2>1, <3>1, <3>2
  <2> QED BY <2>2, <2>3
<1> QED BY <1>4, <1>5


(* What becomes of the row, there being one or none. *)
LEMMA RowOr ==
  ASSUME TicketsInv, NEW id, NEW new, tickets' = (tickets \ WithId(id)) \cup {new[t] : t \in WithId(id)}
  PROVE  \/ tickets' = tickets /\ WithId(id) = {} /\ \A t \in tickets : t.id # id
         \/ \E old \in tickets : /\ old.id = id /\ WithId(id) = {old}
                                 /\ tickets' = (tickets \ {old}) \cup {new[old]}
                                 /\ \A t \in tickets : t.id = id => t = old
<1>1. CASE WithId(id) = {}
  BY <1>1 DEF WithId
<1>2. CASE WithId(id) # {}
  BY <1>2, RowOfId DEF TicketsInv, RowsOfTickets
<1> QED BY <1>1, <1>2

(* The row of the request: another one is whole. *)
LEMMA AssignKeeps ==
  ASSUME TicketsInv, NEW d \in Desk, NEW a \in Agent, AssignTicket(d, a)
  PROVE  TicketsInv'
<1> USE DEF AssignTicket, TicketsInv
<1> DEFINE new == [t \in Ticket |-> [t EXCEPT !.assigned = a]]
           id == desk[d].id
<1>1. desk \in [Desk -> DeskRequest \cup {NoRequest}] /\ tickets \subseteq Ticket
      /\ Busy(d) /\ desk[d].op = "assign" /\ desk[d].step = "insert"
      /\ desk' = [desk EXCEPT ![d] = NoRequest]
  BY DEF DeskIsMap, DeskAt, TicketsTypeOK, Done
<1>2. \A t \in Ticket : /\ new[t] \in Ticket /\ new[t].id = t.id /\ new[t].number = t.number
                        /\ new[t].status = t.status /\ new[t].reopened = t.reopened
                        /\ new[t].overruled = t.overruled /\ new[t].responses = t.responses
                        /\ new[t].left = t.left
  BY DEF Ticket
<1>3. tickets' = (tickets \ WithId(id)) \cup {new[t] : t \in WithId(id)}
  BY <1>1 DEF Rewritten, WithId
<1> HIDE DEF new, id
<1>4. \/ tickets' = tickets /\ WithId(id) = {}
      \/ \E old \in tickets : old.id = id /\ tickets' = (tickets \ {old}) \cup {new[old]}
  BY <1>3, RowOr
<1>5. \A t \in tickets' : \E s \in tickets :
        t.id = s.id /\ t.status = s.status /\ t.reopened = s.reopened /\ t.overruled = s.overruled
        /\ t.responses = s.responses /\ t.left = s.left
  BY <1>1, <1>2, <1>4
<1>6. DeskIsMap' /\ ~Busy(d)' /\ \A e \in Desk \ {d} : desk'[e] = desk[e]
  BY <1>1 DEF DeskIsMap, Busy
<1>7. AnsweredIsTaken'
  <2> SUFFICES ASSUME NEW t \in tickets', t.responses > 0, t.status = "OPEN", ~t.reopened, ~t.left
               PROVE  \E e \in Desk : DeskAt(e, "respond", "status")' /\ desk'[e].id = t.id
    BY DEF AnsweredIsTaken
  <2>1. PICK s \in tickets : t.id = s.id /\ s.responses > 0 /\ s.status = "OPEN" /\ ~s.reopened /\ ~s.left
    BY <1>5
  <2>2. PICK e \in Desk : DeskAt(e, "respond", "status") /\ desk[e].id = t.id
    BY <2>1 DEF AnsweredIsTaken
  <2>3. e # d
    BY <1>1, <2>2 DEF DeskAt
  <2> QED BY <1>6, <2>2, <2>3 DEF DeskAt, Busy
<1>8. NoneAlone'
  BY <1>5 DEF NoneAlone
<1>9. \/ tickets' = tickets
      \/ \E old \in tickets, n \in Ticket :
           /\ n.id = old.id /\ n.number = old.number /\ old.id = desk[d].id
           /\ tickets' = (tickets \ {old}) \cup {n}
           /\ n.status = old.status \/ n.status = "IN_PROGRESS"
           /\ n.reopened = old.reopened
  BY <1>1, <1>2, <1>4 DEF id
<1> QED BY <1>1, <1>6, <1>7, <1>8, <1>9, QuietWriteKeeps

LEMMA RespondKeeps ==
  ASSUME TicketsInv, NEW d \in Desk, InsertResponse(d)
  PROVE  TicketsInv'
<1> USE DEF InsertResponse, TicketsInv
<1> DEFINE new == [t \in tickets |-> [t EXCEPT !.responses = @ + 1]]
           id == desk[d].id
<1>1. desk \in [Desk -> DeskRequest \cup {NoRequest}] /\ tickets \subseteq Ticket
      /\ Busy(d) /\ desk[d].op = "respond" /\ desk[d].step = "insert" /\ desk[d] \in DeskRequest
  BY BusyIs DEF DeskIsMap, DeskAt, TicketsTypeOK
<1>2. \A t \in tickets : /\ new[t].id = t.id /\ new[t].number = t.number
                         /\ new[t].status = t.status /\ new[t].reopened = t.reopened
                         /\ new[t].overruled = t.overruled /\ new[t].left = t.left
                         /\ t.responses < MaxResponses => new[t] \in Ticket
  <2>1. \A r \in 0..MaxResponses : r < MaxResponses => r + 1 \in 0..MaxResponses
    BY TicketsAssumption
  <2> QED BY <1>1, <2>1 DEF Ticket
<1>3. tickets' = (tickets \ WithId(id)) \cup {new[t] : t \in WithId(id)}
  BY DEF Rewritten, WithId
<1>4. /\ \A t \in WithId(id) : t.responses < MaxResponses
      /\ \/ WithId(id) # {} /\ desk[d].read = "OPEN" /\ desk' = [desk EXCEPT ![d].step = "status"]
         \/ ~(WithId(id) # {} /\ desk[d].read = "OPEN") /\ desk' = [desk EXCEPT ![d] = NoRequest]
  BY DEF WasOpen, Done
<1> HIDE DEF new, id
<1>5. \/ tickets' = tickets /\ WithId(id) = {} /\ \A t \in tickets : t.id # id
      \/ \E old \in tickets : /\ old.id = id /\ tickets' = (tickets \ {old}) \cup {new[old]}
                              /\ old.responses < MaxResponses /\ new[old] \in Ticket /\ WithId(id) # {}
                              /\ \A t \in tickets : t.id = id => t = old
  BY <1>2, <1>3, <1>4, RowOr
<1>6. \A t \in tickets' : \/ t \in tickets /\ t.id # id
                          \/ \E s \in tickets : /\ t.id = s.id /\ s.id = id /\ t.status = s.status
                                                /\ t.reopened = s.reopened /\ t.overruled = s.overruled
                                                /\ t.left = s.left
                                                /\ WithId(id) # {}
  BY <1>2, <1>5
<1>7. /\ DeskIsMap' /\ \A e \in Desk \ {d} : desk'[e] = desk[e]
      /\ \/ desk'[d] = NoRequest /\ (WithId(id) = {} \/ desk[d].read # "OPEN")
         \/ /\ desk'[d] \in DeskRequest /\ desk'[d] = [desk[d] EXCEPT !.step = "status"]
            /\ desk[d].read = "OPEN"
  <2>1. [desk[d] EXCEPT !.step = "status"] \in DeskRequest
    BY <1>1 DEF DeskRequest
  <2> QED BY <1>1, <1>4, <2>1 DEF DeskIsMap
<1>8. Busy(d)' => /\ desk'[d].op = "respond" /\ desk'[d].step = "status" /\ desk'[d].id = id
                  /\ SameRequest([desk'[d] EXCEPT !.step = desk[d].step], desk[d])
                  /\ desk[d].read = "OPEN"
  <2>1. Busy(d)' => desk'[d] = [desk[d] EXCEPT !.step = "status"] /\ desk[d].read = "OPEN"
    BY <1>7 DEF Busy
  <2>2. SameRequest([[desk[d] EXCEPT !.step = "status"] EXCEPT !.step = desk[d].step], desk[d])
    BY <1>1 DEF DeskRequest, SameRequest
  <2>3. [desk[d] EXCEPT !.step = "status"].op = "respond" /\ [desk[d] EXCEPT !.step = "status"].step = "status"
        /\ [desk[d] EXCEPT !.step = "status"].id = id
    BY <1>1 DEF DeskRequest, id
  <2> QED BY <2>1, <2>2, <2>3
<1>9. AnsweredIsTaken'
  <2> SUFFICES ASSUME NEW t \in tickets', t.responses > 0, t.status = "OPEN", ~t.reopened, ~t.left
               PROVE  \E e \in Desk : DeskAt(e, "respond", "status")' /\ desk'[e].id = t.id
    BY DEF AnsweredIsTaken
  <2>1. CASE t \in tickets /\ t.id # id
    <3>1. PICK e \in Desk : DeskAt(e, "respond", "status") /\ desk[e].id = t.id
      BY <2>1 DEF AnsweredIsTaken
    <3>2. e # d
      BY <1>1, <3>1 DEF DeskAt
    <3> QED BY <1>7, <3>1, <3>2 DEF DeskAt, Busy
  <2>2. CASE ~(t \in tickets /\ t.id # id)
    <3>1. PICK s \in tickets : t.id = s.id /\ s.id = id /\ t.status = s.status /\ t.reopened = s.reopened
                               /\ WithId(id) # {}
      BY <1>6, <2>2
    <3>2. desk[d].read = "OPEN"
      BY <1>1, <3>1 DEF SinceRead, id
    <3>3. Busy(d)'
      BY <1>7, <3>1, <3>2, BusyNext
    <3> QED BY <1>8, <3>1, <3>3 DEF DeskAt
  <2> QED BY <2>1, <2>2
<1>10. NoneAlone'
  BY <1>6 DEF NoneAlone
<1>11. \/ tickets' = tickets
       \/ \E old \in tickets, n \in Ticket :
            /\ n.id = old.id /\ n.number = old.number /\ old.id = desk[d].id
            /\ tickets' = (tickets \ {old}) \cup {n}
            /\ n.status = old.status \/ n.status = "IN_PROGRESS"
            /\ n.reopened = old.reopened
  BY <1>2, <1>5 DEF id
<1> QED BY <1>1, <1>7, <1>8, <1>9, <1>10, <1>11, QuietWriteKeeps

LEMMA SetInProgressKeeps ==
  ASSUME TicketsInv, NEW d \in Desk, SetInProgress(d)
  PROVE  TicketsInv'
<1> USE DEF SetInProgress, TicketsInv
<1> DEFINE how == IF "update" \in desk[d].met THEN "crossed" ELSE "alone"
           new == [t \in tickets |->
                    [t EXCEPT !.status = "IN_PROGRESS",
                              !.left = FALSE,
                              !.overruled = IF t.status \in {"RESOLVED", "CLOSED"} THEN @ \cup {how} ELSE @]]
           id == desk[d].id
<1>1. desk \in [Desk -> DeskRequest \cup {NoRequest}] /\ tickets \subseteq Ticket
      /\ Busy(d) /\ desk[d].op = "respond" /\ desk[d].step = "status"
      /\ desk' = [desk EXCEPT ![d] = NoRequest]
  BY DEF DeskIsMap, DeskAt, TicketsTypeOK, Done
<1>2. \A t \in tickets : /\ new[t].id = t.id /\ new[t].number = t.number
                         /\ new[t].status = "IN_PROGRESS" /\ new[t].reopened = t.reopened
                         /\ new[t] \in Ticket
                         /\ new[t].overruled \subseteq t.overruled
                              \cup (IF t.status \in {"RESOLVED", "CLOSED"} THEN {how} ELSE {})
  <2>1. how \in {"crossed", "alone"}
    OBVIOUS
  <2> HIDE DEF how
  <2> SUFFICES ASSUME NEW t \in tickets
               PROVE  /\ new[t].id = t.id /\ new[t].number = t.number
                      /\ new[t].status = "IN_PROGRESS" /\ new[t].reopened = t.reopened
                      /\ new[t] \in Ticket
                      /\ new[t].overruled \subseteq t.overruled
                           \cup (IF t.status \in {"RESOLVED", "CLOSED"} THEN {how} ELSE {})
    OBVIOUS
  <2> DEFINE o == IF t.status \in {"RESOLVED", "CLOSED"} THEN t.overruled \cup {how} ELSE t.overruled
  <2>2. t \in Ticket /\ t.overruled \subseteq {"crossed", "alone"}
    BY <1>1 DEF Ticket
  <2>3. /\ o \subseteq {"crossed", "alone"}
        /\ o \subseteq t.overruled \cup (IF t.status \in {"RESOLVED", "CLOSED"} THEN {how} ELSE {})
    BY <2>1, <2>2
  <2>4. new[t] = [t EXCEPT !.status = "IN_PROGRESS", !.left = FALSE, !.overruled = o]
    BY <2>2 DEF Ticket
  <2> HIDE DEF o, new, SetInProgress
  <2>5. PICK r \in SUBSET {"crossed", "alone"} : r = o
    BY <2>3
  <2>6. new[t] = [t EXCEPT !.status = "IN_PROGRESS", !.left = FALSE, !.overruled = r]
    BY <2>4, <2>5
  <2>7. new[t].id = t.id /\ new[t].number = t.number /\ new[t].status = "IN_PROGRESS"
        /\ new[t].reopened = t.reopened /\ new[t].overruled = r
    BY <2>2, <2>6 DEF Ticket
  <2>8. new[t] = [id |-> t.id, number |-> t.number, status |-> "IN_PROGRESS", stamped |-> t.stamped,
                  assigned |-> t.assigned, responses |-> t.responses, reopened |-> t.reopened,
                  left |-> FALSE, overruled |-> r]
    BY <2>2, <2>6 DEF Ticket
  <2>9. /\ t.id \in 1..MaxTickets /\ t.number \in 1..(MaxTickets + 1)
        /\ t.stamped \in SUBSET {"RESOLVED", "CLOSED"} /\ t.assigned \in Agent \cup {NoAgent}
        /\ t.responses \in 0..MaxResponses /\ t.reopened \in BOOLEAN
    BY <2>2 DEF Ticket
  <2>10. new[t] \in Ticket
    BY <2>8, <2>9 DEF Ticket, TicketStatus
  <2> QED BY <2>3, <2>5, <2>7, <2>10
<1>3. tickets' = (tickets \ WithId(id)) \cup {new[t] : t \in WithId(id)}
  BY DEF Rewritten, WithId
<1>4. desk[d].read = "OPEN"
  BY <1>1 DEF RequestsInOrder
<1>5. ASSUME NEW t \in tickets, t.id = id, t.status \in {"RESOLVED", "CLOSED"} PROVE how = "crossed"
  BY <1>1, <1>4, <1>5 DEF SinceRead
<1> HIDE DEF new, id, how
<1>6. \/ tickets' = tickets /\ \A t \in tickets : t.id # id
      \/ \E old \in tickets : /\ old.id = id /\ tickets' = (tickets \ {old}) \cup {new[old]}
                              /\ \A t \in tickets : t.id = id => t = old
  BY <1>3, RowOr
<1>7. \A t \in tickets' : \/ t \in tickets /\ t.id # id
                          \/ t.status = "IN_PROGRESS" /\ "alone" \notin t.overruled
  <2> SUFFICES ASSUME NEW t \in tickets', ~(t \in tickets /\ t.id # id)
               PROVE  t.status = "IN_PROGRESS" /\ "alone" \notin t.overruled
    OBVIOUS
  <2>1. PICK old \in tickets : old.id = id /\ t = new[old]
    BY <1>6
  <2>2. "alone" \notin old.overruled /\ (old.status \in {"RESOLVED", "CLOSED"} => how # "alone")
    BY <1>5, <2>1 DEF NoneAlone
  <2> QED BY <1>2, <2>1, <2>2
<1>8. DeskIsMap' /\ ~Busy(d)' /\ \A e \in Desk \ {d} : desk'[e] = desk[e]
  BY <1>1 DEF DeskIsMap, Busy
<1>9. AnsweredIsTaken'
  <2> SUFFICES ASSUME NEW t \in tickets', t.responses > 0, t.status = "OPEN", ~t.reopened, ~t.left
               PROVE  \E e \in Desk : DeskAt(e, "respond", "status")' /\ desk'[e].id = t.id
    BY DEF AnsweredIsTaken
  <2>1. t \in tickets /\ t.id # id
    BY <1>7
  <2>2. PICK e \in Desk : DeskAt(e, "respond", "status") /\ desk[e].id = t.id
    BY <2>1 DEF AnsweredIsTaken
  <2>3. e # d
    BY <2>1, <2>2 DEF id
  <2> QED BY <1>8, <2>2, <2>3 DEF DeskAt, Busy
<1>10. NoneAlone'
  BY <1>7 DEF NoneAlone
<1>11. \/ tickets' = tickets
       \/ \E old \in tickets, n \in Ticket :
            /\ n.id = old.id /\ n.number = old.number /\ old.id = desk[d].id
            /\ tickets' = (tickets \ {old}) \cup {n}
            /\ n.status = old.status \/ n.status = "IN_PROGRESS"
            /\ n.reopened = old.reopened
  BY <1>2, <1>6 DEF id
<1> QED BY <1>1, <1>8, <1>9, <1>10, <1>11, QuietWriteKeeps

LEMMA RemoveTicketKeeps ==
  ASSUME TicketsInv, NEW d \in Desk, RemoveTicket(d)
  PROVE  TicketsInv'
<1> USE DEF RemoveTicket, TicketsInv
<1> DEFINE id == desk[d].id
<1>1. desk \in [Desk -> DeskRequest \cup {NoRequest}] /\ tickets \subseteq Ticket
      /\ Busy(d) /\ desk[d].op = "remove" /\ desk[d].step = "insert"
      /\ desk' = [desk EXCEPT ![d] = NoRequest]
  BY DEF DeskIsMap, DeskAt, TicketsTypeOK, Done
<1>2. DeskIsMap' /\ ~Busy(d)' /\ \A e \in Desk \ {d} : desk'[e] = desk[e]
  BY <1>1 DEF DeskIsMap, Busy
<1>3. GoesOn(d)
  BY <1>1, <1>2 DEF GoesOn
<1>4. tickets' \subseteq tickets /\ \A t \in tickets' : t.id # id
  BY DEF WithId
<1>5. RowsOfTickets' /\ (~deleted' => tickets' = tickets)
  <2>1. IsFiniteSet(tickets') /\ Cardinality(tickets') <= Cardinality(tickets) /\ Cardinality(tickets') \in Nat
    BY <1>4, FS_Subset, FS_CardinalityType DEF RowsOfTickets
  <2>2. Cardinality(tickets') <= opened
    BY <2>1, CountIsBounded
  <2>3. ~deleted' => tickets' = tickets
    OBVIOUS
  <2> QED BY <1>4, <2>1, <2>2, <2>3 DEF RowsOfTickets
<1>6. deleted' \in BOOLEAN /\ (deleted => deleted') /\ tickets' \subseteq Ticket
  BY <1>1, <1>4 DEF TicketsTypeOK
<1>7. TicketsTypeOK' /\ DeskIsMap' /\ RowsOfTickets' /\ RequestsInOrder' /\ OpensHaveMet' /\ NumbersFollowCount'
  BY <1>3, <1>5, <1>6, GoingOnKeeps
<1>8. SinceRead'
  BY <1>2, <1>4 DEF SinceRead, Busy
<1>9. AnsweredIsTaken'
  <2> SUFFICES ASSUME NEW t \in tickets', t.responses > 0, t.status = "OPEN", ~t.reopened, ~t.left
               PROVE  \E e \in Desk : DeskAt(e, "respond", "status")' /\ desk'[e].id = t.id
    BY DEF AnsweredIsTaken
  <2>2. PICK e \in Desk : DeskAt(e, "respond", "status") /\ desk[e].id = t.id
    BY <1>4 DEF AnsweredIsTaken
  <2>3. e # d
    BY <1>1, <2>2 DEF DeskAt
  <2> QED BY <1>2, <2>2, <2>3 DEF DeskAt, Busy
<1>10. NoneAlone'
  BY <1>4 DEF NoneAlone
<1> QED BY <1>7, <1>8, <1>9, <1>10


-----------------------------------------------------------------------------
(* Opening a ticket. *)
OthersStay(d) ==
  DeskIsMap' /\ \A e \in Desk \ {d} :
    desk'[e] = desk[e] \/ (Busy(e) /\ Busy(e)' /\ SameRequest(desk'[e], desk[e]))

LEMMA OtherIs ==
  ASSUME TicketsInv, NEW d \in Desk, OthersStay(d), NEW e \in Desk \ {d}
  PROVE  Busy(e)' <=> Busy(e) /\ SameRequest(desk'[e], desk[e])
<1>1. CASE desk'[e] = desk[e]
  BY <1>1 DEF Busy, SameRequest
<1>2. CASE desk'[e] # desk[e]
  BY <1>2 DEF OthersStay
<1> QED BY <1>1, <1>2

(* An answer that is to come is still to come. *)
LEMMA OthersAnswer ==
  ASSUME TicketsInv, NEW d \in Desk, OthersStay(d), ~DeskAt(d, "respond", "status"),
         \A t \in tickets' : t \in tickets \/ t.responses = 0
  PROVE  AnsweredIsTaken'
<1> SUFFICES ASSUME NEW t \in tickets', t.responses > 0, t.status = "OPEN", ~t.reopened, ~t.left
             PROVE  \E e \in Desk : DeskAt(e, "respond", "status")' /\ desk'[e].id = t.id
  BY DEF AnsweredIsTaken
<1>1. t \in tickets
  OBVIOUS
<1>2. PICK e \in Desk : DeskAt(e, "respond", "status") /\ desk[e].id = t.id
  BY <1>1 DEF AnsweredIsTaken, TicketsInv
<1>3. e # d
  BY <1>2
<1>4. Busy(e)' /\ SameRequest(desk'[e], desk[e])
  <2>1. CASE desk'[e] = desk[e]
    BY <1>2, <2>1 DEF Busy, SameRequest, DeskAt
  <2>2. CASE desk'[e] # desk[e]
    BY <1>3, <2>2 DEF OthersStay
  <2> QED BY <2>1, <2>2
<1> QED BY <1>2, <1>4 DEF DeskAt, SameRequest

LEMMA TakeKeeps ==
  ASSUME TicketsInv, NEW d \in Desk, NEW op, NEW id,
         Take(d, op, id, "find"),
         \/ op = "open" /\ id = 0
         \/ op \in {"update", "assign", "respond", "remove"} /\ id \in 1..opened
  PROVE  TicketsInv'
<1> USE DEF Take, TicketsInv
<1> DEFINE met == IF op = "open" /\ \E e \in Desk : Busy(e) /\ desk[e].op = "open" THEN {"open"} ELSE {}
           own == [op |-> op, step |-> "find", id |-> id, number |-> 0, read |-> "OPEN", met |-> met]
<1>1. /\ desk \in [Desk -> DeskRequest \cup {NoRequest}] /\ ~Busy(d) /\ opened \in 0..MaxTickets
      /\ MaxTickets \in Nat
      /\ UNCHANGED <<tickets, opened, deleted, refusals>> /\ requests' = requests + 1 /\ requests < MaxRequests
  BY TicketsAssumption DEF DeskIsMap, TicketsTypeOK
<1>2. own \in DeskRequest /\ own.op = op /\ own.id = id /\ own.step = "find"
  <2>1. met \in SUBSET {"open", "update"}
    OBVIOUS
  <2>2. id \in 0..MaxTickets /\ 0 \in 0..(MaxTickets + 1)
    BY <1>1
  <2> HIDE DEF met
  <2> QED BY <2>1, <2>2 DEF DeskRequest, TicketStatus
<1>3. op = "open" => (\A e \in Desk : Busy(e) /\ desk[e].op = "open" => "open" \in own.met)
  OBVIOUS
<1>4. \/ op = "open" /\ desk' = Meeting(d, "open", 0, own)
      \/ op # "open" /\ desk' = [desk EXCEPT ![d] = own]
  OBVIOUS
<1> HIDE DEF own
<1>5. desk'[d] = own /\ DOMAIN desk' = Desk /\ desk' = [e \in Desk |-> desk'[e]]
  BY <1>1, <1>4 DEF Meeting
<1>6. ASSUME NEW e \in Desk \ {d}
      PROVE  \/ desk'[e] = desk[e] /\ ~(op = "open" /\ Busy(e) /\ desk[e].op = "open")
             \/ /\ Busy(e) /\ desk'[e] \in DeskRequest /\ SameRequest(desk'[e], desk[e])
                /\ op = "open" /\ "open" \in desk'[e].met
  <2>1. Busy(e) => (desk[e].op = "open" <=> desk[e].id = 0)
    BY DEF RequestsInOrder
  <2>2. CASE op = "open" /\ Busy(e) /\ desk[e].id = 0
    <3>1. desk'[e] = [desk[e] EXCEPT !.met = @ \cup {"open"}]
      BY <1>4, <2>2 DEF Meeting
    <3>2. desk[e] \in DeskRequest
      BY <2>2, BusyIs
    <3> QED BY <2>2, <3>1, <3>2, MeetsMore
  <2>3. CASE ~(op = "open" /\ Busy(e) /\ desk[e].id = 0)
    <3>1. desk'[e] = desk[e]
      BY <1>1, <1>4, <2>3 DEF Meeting
    <3> QED BY <2>1, <2>3, <3>1
  <2> QED BY <2>2, <2>3
<1>7. DeskIsMap'
  <2>1. \A e \in Desk : desk'[e] \in DeskRequest \cup {NoRequest}
    BY <1>1, <1>2, <1>5, <1>6
  <2> QED BY <1>5, <2>1 DEF DeskIsMap
<1>8. OthersStay(d)
  BY <1>6, <1>7, BusyNext DEF OthersStay
<1>9. TicketsTypeOK'
  <2>1. requests' \in 0..MaxRequests
    BY <1>1, TicketsAssumption DEF TicketsTypeOK
  <2> QED BY <1>1, <1>7, <2>1, BusyNext DEF TicketsTypeOK
<1>10. RowsOfTickets' /\ NoneAlone'
  BY <1>1 DEF RowsOfTickets, NoneAlone
<1>11. RequestsInOrder'
  <2> SUFFICES ASSUME NEW e \in Desk, Busy(e)'
               PROVE  /\ desk'[e].op = "open" <=> desk'[e].id = 0
                      /\ desk'[e].id <= opened'
                      /\ desk'[e].step = "status" => desk'[e].op = "respond" /\ desk'[e].read = "OPEN"
                      /\ DeskAt(e, "open", "insert")' => desk'[e].number # 0
    BY DEF RequestsInOrder
  <2>1. CASE e = d
    BY <1>1, <1>2, <1>5, <2>1 DEF DeskAt
  <2>2. CASE e # d
    <3>1. Busy(e) /\ SameRequest(desk'[e], desk[e])
      BY <1>8, <2>2, OtherIs
    <3>2. DeskAt(e, "open", "insert")' => DeskAt(e, "open", "insert")
      BY <3>1 DEF DeskAt, SameRequest
    <3> QED BY <1>1, <3>1, <3>2 DEF SameRequest, RequestsInOrder
  <2> QED BY <2>1, <2>2
<1>12. OpensHaveMet'
  <2> SUFFICES ASSUME NEW e \in Desk, NEW f \in Desk, e # f, Busy(e)', Busy(f)',
                      desk'[e].op = "open", desk'[f].op = "open"
               PROVE  "open" \in desk'[e].met
    BY DEF OpensHaveMet
  <2>1. CASE e = d
    <3>1. Busy(f) /\ desk[f].op = "open"
      BY <1>8, <2>1, OtherIs DEF SameRequest
    <3> QED BY <1>2, <1>3, <1>5, <2>1, <3>1
  <2>2. CASE f = d
    <3>1. Busy(e) /\ desk[e].op = "open" /\ e # d
      BY <1>8, <2>2, OtherIs DEF SameRequest
    <3> QED BY <1>2, <1>5, <1>6, <2>2, <3>1
  <2>3. CASE e # d /\ f # d
    <3>1. Busy(e) /\ Busy(f) /\ desk[e].op = "open" /\ desk[f].op = "open" /\ desk[e].met \subseteq desk'[e].met
      BY <1>8, <2>3, OtherIs DEF SameRequest
    <3> QED BY <3>1 DEF OpensHaveMet
  <2> QED BY <2>1, <2>2, <2>3
<1>13. NumbersFollowCount'
  <2>1. ASSUME NEW e \in Desk, DeskAt(e, "open", "insert")'
        PROVE  DeskAt(e, "open", "insert") /\ SameRequest(desk'[e], desk[e])
    <3>1. e # d
      BY <1>2, <1>5, <2>1 DEF DeskAt
    <3> QED BY <1>8, <2>1, <3>1, OtherIs DEF DeskAt, SameRequest
  <2> SUFFICES ASSUME ~deleted
               PROVE  /\ \A t \in tickets : t.number <= Cardinality(tickets)
                      /\ \A e \in Desk : DeskAt(e, "open", "insert")' =>
                           /\ desk'[e].number <= Cardinality(tickets) + 1
                           /\ "open" \in desk'[e].met \/ desk'[e].number = Cardinality(tickets) + 1
    BY <1>1 DEF NumbersFollowCount
  <2> HIDE DEF Take
  <2>2. \A t \in tickets : t.number <= Cardinality(tickets)
    BY DEF NumbersFollowCount
  <2>3. ASSUME NEW e \in Desk, DeskAt(e, "open", "insert")'
        PROVE  /\ desk'[e].number <= Cardinality(tickets) + 1
               /\ "open" \in desk'[e].met \/ desk'[e].number = Cardinality(tickets) + 1
    <3>1. DeskAt(e, "open", "insert") /\ desk'[e].number = desk[e].number /\ desk[e].met \subseteq desk'[e].met
      BY <2>1, <2>3 DEF SameRequest
    <3> QED BY <3>1 DEF NumbersFollowCount
  <2> QED BY <2>2, <2>3
<1>14. SinceRead'
  <2> SUFFICES ASSUME NEW e \in Desk, NEW t \in tickets, Busy(e)', desk'[e].id = t.id, desk'[e].step # "find"
               PROVE  /\ desk'[e].read # "OPEN" /\ t.status = "OPEN" => t.reopened
                      /\ desk'[e].read = "OPEN" /\ t.status \in {"RESOLVED", "CLOSED"} => "update" \in desk'[e].met
    BY <1>1 DEF SinceRead
  <2>1. e # d
    BY <1>2, <1>5
  <2> QED BY <1>8, <2>1, OtherIs DEF SinceRead, SameRequest
<1>15. AnsweredIsTaken'
  BY <1>1, <1>8, OthersAnswer DEF DeskAt
<1> QED BY <1>7, <1>9, <1>10, <1>11, <1>12, <1>13, <1>14, <1>15

LEMMA CountTicketsKeeps ==
  ASSUME TicketsInv, NEW d \in Desk, CountTickets(d)
  PROVE  TicketsInv'
<1> USE DEF CountTickets, TicketsInv
<1>1. /\ desk \in [Desk -> DeskRequest \cup {NoRequest}] /\ desk[d] \in DeskRequest /\ Busy(d)
      /\ desk[d].op = "open" /\ desk[d].step = "find"
      /\ UNCHANGED <<tickets, opened, requests, deleted, refusals>>
  BY BusyIs DEF DeskIsMap, DeskAt
<1>2. PICK k \in Nat : k = Cardinality(tickets) /\ k + 1 \in 0..(MaxTickets + 1)
  BY CountIsBounded
<1> DEFINE own == [desk[d] EXCEPT !.number = k + 1, !.step = "insert"]
<1>3. desk' = [desk EXCEPT ![d] = own]
  BY <1>1, <1>2
<1>4. own \in DeskRequest /\ own.op = "open" /\ own.step = "insert" /\ own.id = desk[d].id /\ own.met = desk[d].met
      /\ own.number = k + 1
  BY <1>1, <1>2 DEF DeskRequest
<1> HIDE DEF own, CountTickets
<1>5. desk'[d] = own /\ (\A e \in Desk \ {d} : desk'[e] = desk[e]) /\ DeskIsMap'
  BY <1>1, <1>3, <1>4 DEF DeskIsMap
<1>6. OthersStay(d) /\ TicketsTypeOK'
  BY <1>1, <1>5, BusyNext DEF OthersStay, TicketsTypeOK
<1>7. RowsOfTickets' /\ NoneAlone'
  BY <1>1 DEF RowsOfTickets, NoneAlone
<1>8. desk[d].id = 0 /\ k + 1 # 0 /\ opened \in Nat
  BY <1>1, CountIsBounded DEF RequestsInOrder
<1>9. RequestsInOrder'
  <2> SUFFICES ASSUME NEW e \in Desk, Busy(e)'
               PROVE  /\ desk'[e].op = "open" <=> desk'[e].id = 0
                      /\ desk'[e].id <= opened'
                      /\ desk'[e].step = "status" => desk'[e].op = "respond" /\ desk'[e].read = "OPEN"
                      /\ DeskAt(e, "open", "insert")' => desk'[e].number # 0
    BY DEF RequestsInOrder
  <2>1. CASE e = d
    BY <1>1, <1>4, <1>5, <1>8, <2>1 DEF DeskAt
  <2>2. CASE e # d
    BY <1>1, <1>5, <2>2 DEF DeskAt, RequestsInOrder, Busy
  <2> QED BY <2>1, <2>2
<1>10. OpensHaveMet'
  <2>1. \A e \in Desk : Busy(e)' => Busy(e) /\ desk'[e].op = desk[e].op /\ desk'[e].met = desk[e].met
    BY <1>1, <1>4, <1>5 DEF Busy
  <2> QED BY <2>1 DEF OpensHaveMet
<1>11. NumbersFollowCount'
  <2> SUFFICES ASSUME ~deleted, NEW e \in Desk, DeskAt(e, "open", "insert")'
               PROVE  /\ desk'[e].number <= k + 1
                      /\ "open" \in desk'[e].met \/ desk'[e].number = k + 1
    BY <1>1, <1>2 DEF NumbersFollowCount
  <2>1. CASE e = d
    BY <1>4, <1>5, <2>1
  <2>2. CASE e # d
    <3>1. desk'[e] = desk[e] /\ DeskAt(e, "open", "insert")
      BY <1>5, <2>2 DEF DeskAt, Busy
    <3> QED BY <1>2, <3>1 DEF NumbersFollowCount
  <2> QED BY <2>1, <2>2
<1>12. SinceRead'
  <2> SUFFICES ASSUME NEW e \in Desk, NEW t \in tickets, Busy(e)', desk'[e].id = t.id, desk'[e].step # "find"
               PROVE  /\ desk'[e].read # "OPEN" /\ t.status = "OPEN" => t.reopened
                      /\ desk'[e].read = "OPEN" /\ t.status \in {"RESOLVED", "CLOSED"} => "update" \in desk'[e].met
    BY <1>1 DEF SinceRead
  <2>1. t.id # 0
    BY DEF TicketsTypeOK, Ticket
  <2>2. e # d
    BY <1>4, <1>5, <1>8, <2>1
  <2> QED BY <1>5, <2>2 DEF SinceRead, Busy
<1>13. AnsweredIsTaken'
  BY <1>1, <1>6, OthersAnswer DEF DeskAt
<1> QED BY <1>5, <1>6, <1>7, <1>9, <1>10, <1>11, <1>12, <1>13

(* The ticket is inserted, or its number is taken. *)
LEMMA InsertTicketKeeps ==
  ASSUME TicketsInv, NEW d \in Desk, InsertTicket(d)
  PROVE  TicketsInv'
<1> USE DEF InsertTicket, TicketsInv
<1>1. /\ desk \in [Desk -> DeskRequest \cup {NoRequest}] /\ desk[d] \in DeskRequest /\ DeskAt(d, "open", "insert")
      /\ desk' = [desk EXCEPT ![d] = NoRequest] /\ UNCHANGED <<requests, deleted>>
  BY BusyIs DEF DeskIsMap, DeskAt, Done
<1>2. DeskIsMap' /\ ~Busy(d)' /\ \A e \in Desk \ {d} : desk'[e] = desk[e]
  BY <1>1 DEF DeskIsMap, Busy
<1>3. OthersStay(d) /\ ~DeskAt(d, "respond", "status")
  BY <1>1, <1>2 DEF OthersStay, DeskAt
<1>4. \A e \in Desk : Busy(e)' => e # d /\ Busy(e) /\ desk'[e] = desk[e]
  BY <1>2 DEF Busy
<1>5. OpensHaveMet'
  BY <1>4 DEF OpensHaveMet
<1>6. CASE \E t \in tickets : t.number = desk[d].number
  <2> DEFINE why == IF deleted THEN "deleted" ELSE IF "open" \in desk[d].met THEN "crossed" ELSE "alone"
  <2>1. refusals' = refusals \cup {why} /\ tickets' = tickets /\ opened' = opened
    BY <1>6
  <2>2. why \in {"deleted", "crossed", "alone"}
    OBVIOUS
  <2>3. why # "alone"
    <3> SUFFICES ASSUME ~deleted, "open" \notin desk[d].met PROVE FALSE
      OBVIOUS
    <3>1. desk[d].number = Cardinality(tickets) + 1
      BY <1>1 DEF NumbersFollowCount
    <3>2. PICK t \in tickets : t.number = desk[d].number /\ t.number <= Cardinality(tickets)
      BY <1>6 DEF NumbersFollowCount
    <3> QED BY <3>1, <3>2, CountIsBounded
  <2> HIDE DEF why
  <2>4. TicketsTypeOK' /\ RowsOfTickets' /\ NoneAlone'
    BY <1>1, <1>4, <2>1, <2>2, <2>3 DEF TicketsTypeOK, RowsOfTickets, NoneAlone
  <2>5. RequestsInOrder' /\ NumbersFollowCount'
    BY <1>1, <1>4, <2>1 DEF RequestsInOrder, NumbersFollowCount, DeskAt
  <2>6. SinceRead'
    BY <1>4, <2>1 DEF SinceRead
  <2>7. AnsweredIsTaken'
    BY <1>3, <2>1, OthersAnswer
  <2> QED BY <1>2, <1>5, <2>4, <2>5, <2>6, <2>7
<1>7. CASE ~\E t \in tickets : t.number = desk[d].number
  <2> DEFINE new == [id |-> opened + 1, number |-> desk[d].number, status |-> "OPEN", stamped |-> {},
                     assigned |-> NoAgent, responses |-> 0, reopened |-> FALSE, left |-> FALSE,
                     overruled |-> {}]
  <2>1. opened < MaxTickets /\ opened' = opened + 1 /\ tickets' = tickets \cup {new} /\ refusals' = refusals
    BY <1>7
  <2>2. opened \in Nat /\ MaxTickets \in Nat
    BY CountIsBounded
  <2>3. desk[d].number \in 1..(MaxTickets + 1)
    <3>1. desk[d].number # 0
      BY <1>1 DEF RequestsInOrder, DeskAt
    <3>2. desk[d].number \in 0..(MaxTickets + 1)
      BY <1>1 DEF DeskRequest
    <3> QED BY <2>2, <3>1, <3>2
  <2>4. /\ new \in Ticket /\ new.id = opened + 1 /\ new.number = desk[d].number /\ new.responses = 0
        /\ new.overruled = {} /\ new.status = "OPEN"
    <3>1. opened + 1 \in 1..MaxTickets /\ 0 \in 0..MaxResponses
      BY <2>1, <2>2, TicketsAssumption
    <3> QED BY <2>3, <3>1 DEF Ticket, TicketStatus
  <2> HIDE DEF new
  <2>5. /\ \A t \in tickets : t.id # opened + 1 /\ t.number # desk[d].number
        /\ new \notin tickets
    <3>1. \A t \in tickets : t.id <= opened /\ t.id \in Nat
      BY DEF RowsOfTickets, TicketsTypeOK, Ticket
    <3> QED BY <1>7, <2>2, <2>4, <3>1
  <2>6. IsFiniteSet(tickets') /\ Cardinality(tickets') = Cardinality(tickets) + 1
    BY <2>1, <2>5, FS_AddElement DEF RowsOfTickets
  <2>7. PICK k \in Nat : k = Cardinality(tickets) /\ k <= opened /\ Cardinality(tickets') = k + 1
    BY <2>6, CountIsBounded
  <2>8. TicketsTypeOK'
    <3>1. opened' \in 0..MaxTickets
      BY <2>1, <2>2
    <3> QED BY <1>1, <1>4, <2>1, <2>4, <3>1 DEF TicketsTypeOK
  <2>9. RowsOfTickets'
    <3>1. IsFiniteSet(tickets') /\ Cardinality(tickets') <= opened'
      BY <2>1, <2>2, <2>6, <2>7
    <3>2. \A t \in tickets' : t.id <= opened'
      <4>1. \A t \in tickets : t.id <= opened /\ t.id \in Nat
        BY DEF RowsOfTickets, TicketsTypeOK, Ticket
      <4> QED BY <2>1, <2>2, <2>4, <4>1
    <3>3. \A s, t \in tickets' : s.id = t.id \/ s.number = t.number => s = t
      BY <2>1, <2>4, <2>5 DEF RowsOfTickets
    <3> QED BY <3>1, <3>2, <3>3 DEF RowsOfTickets
  <2>10. RequestsInOrder'
    <3>1. \A e \in Desk : Busy(e) => desk[e].id \in Nat
      BY BusyIs DEF DeskRequest
    <3> QED BY <1>4, <2>1, <2>2, <3>1 DEF RequestsInOrder, DeskAt
  <2>11. NumbersFollowCount'
    <3> SUFFICES ASSUME ~deleted
                 PROVE  /\ \A t \in tickets' : t.number <= k + 1
                        /\ \A e \in Desk : DeskAt(e, "open", "insert")' =>
                             /\ desk'[e].number <= (k + 1) + 1
                             /\ "open" \in desk'[e].met \/ desk'[e].number = (k + 1) + 1
      BY <1>1, <2>7 DEF NumbersFollowCount
    <3>1. desk[d].number <= k + 1
      BY <1>1, <2>7 DEF NumbersFollowCount
    <3>2. \A t \in tickets : t.number <= k /\ t.number \in Nat
      BY <2>7 DEF NumbersFollowCount, TicketsTypeOK, Ticket
    <3>3. ASSUME NEW e \in Desk, DeskAt(e, "open", "insert")'
          PROVE  /\ desk'[e].number <= (k + 1) + 1
                 /\ "open" \in desk'[e].met \/ desk'[e].number = (k + 1) + 1
      <4>1. e # d /\ desk'[e] = desk[e] /\ DeskAt(e, "open", "insert")
        BY <1>4, <3>3 DEF DeskAt
      <4>2. "open" \in desk[e].met
        BY <1>1, <4>1 DEF OpensHaveMet, DeskAt
      <4>3. desk[e].number <= k + 1 /\ desk[e].number \in Nat
        <5>1. desk[e] \in DeskRequest
          BY <4>1, BusyIs DEF DeskAt
        <5> QED BY <2>7, <4>1, <5>1 DEF NumbersFollowCount, DeskRequest
      <4> QED BY <2>7, <4>1, <4>2, <4>3
    <3>4. \A t \in tickets' : t.number <= k + 1
      BY <2>1, <2>4, <2>7, <3>1, <3>2
    <3> QED BY <3>3, <3>4
  <2>12. SinceRead'
    <3>1. \A e \in Desk : Busy(e)' => Busy(e) /\ desk'[e] = desk[e] /\ desk[e].id # opened + 1
      <4>1. \A e \in Desk : Busy(e) => desk[e].id \in Nat /\ desk[e].id <= opened
        BY BusyIs DEF DeskRequest, RequestsInOrder
      <4> QED BY <1>4, <2>2, <4>1
    <3> QED BY <2>1, <2>4, <3>1 DEF SinceRead
  <2>13. AnsweredIsTaken'
    BY <1>3, <2>1, <2>4, OthersAnswer
  <2>14. NoneAlone'
    BY <2>1, <2>4 DEF NoneAlone
  <2> QED BY <1>2, <1>5, <2>8, <2>9, <2>10, <2>11, <2>12, <2>13, <2>14
<1> QED BY <1>6, <1>7

-----------------------------------------------------------------------------
(* A request that ends writes nothing, unless it has answered the ticket.  *)
LEMMA EndingKeeps ==
  ASSUME TicketsInv, NEW d \in Desk, Busy(d), ~DeskAt(d, "respond", "status"), Done(d),
         UNCHANGED <<tickets, opened, requests, deleted, refusals>>
  PROVE  TicketsInv'
<1> USE DEF TicketsInv
<1>1. desk \in [Desk -> DeskRequest \cup {NoRequest}] /\ desk' = [desk EXCEPT ![d] = NoRequest]
  BY DEF DeskIsMap, Done
<1>2. DeskIsMap' /\ ~Busy(d)' /\ \A e \in Desk \ {d} : desk'[e] = desk[e]
  BY <1>1 DEF DeskIsMap, Busy
<1>3. OthersStay(d)
  BY <1>2 DEF OthersStay
<1>4. \A e \in Desk : Busy(e)' => e # d /\ Busy(e) /\ desk'[e] = desk[e]
  BY <1>2 DEF Busy
<1>5. TicketsTypeOK' /\ RowsOfTickets' /\ NoneAlone'
  BY <1>4 DEF TicketsTypeOK, RowsOfTickets, NoneAlone
<1>6. RequestsInOrder' /\ NumbersFollowCount'
  BY <1>4 DEF RequestsInOrder, NumbersFollowCount, DeskAt
<1>7. OpensHaveMet' /\ SinceRead'
  BY <1>4 DEF OpensHaveMet, SinceRead
<1>8. AnsweredIsTaken'
  BY <1>3, OthersAnswer
<1> QED BY <1>2, <1>5, <1>6, <1>7, <1>8

(* One that has leaves it as it is, open if it was.                        *)
LEMMA LeavingKeeps ==
  ASSUME TicketsInv, NEW d \in Desk, RequestFails(d), DeskAt(d, "respond", "status")
  PROVE  TicketsInv'
<1> USE DEF TicketsInv
<1> DEFINE new == [t \in tickets |-> [t EXCEPT !.left = @ \/ t.status = "OPEN"]]
           id == desk[d].id
<1>1. desk \in [Desk -> DeskRequest \cup {NoRequest}] /\ tickets \subseteq Ticket
      /\ Busy(d) /\ desk[d].op = "respond" /\ desk[d].step = "status"
      /\ desk' = [desk EXCEPT ![d] = NoRequest] /\ UNCHANGED <<opened, requests, deleted, refusals>>
  BY DEF RequestFails, DeskIsMap, DeskAt, TicketsTypeOK, Done
<1>2. \A t \in tickets : /\ new[t] \in Ticket /\ new[t].id = t.id /\ new[t].number = t.number
                         /\ new[t].status = t.status /\ new[t].reopened = t.reopened
                         /\ new[t].overruled = t.overruled
                         /\ t.status = "OPEN" => new[t].left
  <2> SUFFICES ASSUME NEW t \in tickets
               PROVE  /\ new[t] \in Ticket /\ new[t].id = t.id /\ new[t].number = t.number
                      /\ new[t].status = t.status /\ new[t].reopened = t.reopened
                      /\ new[t].overruled = t.overruled
                      /\ t.status = "OPEN" => new[t].left
    OBVIOUS
  <2>1. t \in Ticket
    BY <1>1
  <2>2. PICK b \in BOOLEAN : b = (t.left \/ t.status = "OPEN")
    OBVIOUS
  <2>3. new[t] = [t EXCEPT !.left = b]
    BY <2>2
  <2>4. t.status = "OPEN" => b = TRUE
    BY <2>2
  <2> HIDE DEF new
  <2>5. new[t] \in Ticket /\ new[t].left = b
    BY <2>1, <2>3 DEF Ticket
  <2>6. /\ new[t].id = t.id /\ new[t].number = t.number /\ new[t].status = t.status
        /\ new[t].reopened = t.reopened /\ new[t].overruled = t.overruled
    BY <2>1, <2>3 DEF Ticket
  <2> QED BY <2>4, <2>5, <2>6
<1>3. tickets' = (tickets \ WithId(id)) \cup {new[t] : t \in WithId(id)}
  BY DEF RequestFails, Rewritten, WithId
<1> HIDE DEF new, id
<1>4. \/ tickets' = tickets /\ \A t \in tickets : t.id # id
      \/ \E old \in tickets : /\ old.id = id /\ tickets' = (tickets \ {old}) \cup {new[old]}
                              /\ \A t \in tickets : t.id = id => t = old
  BY <1>3, RowOr
<1>5. \A t \in tickets' : \/ t \in tickets /\ t.id # id
                          \/ \E s \in tickets : s.id = id /\ t = new[s]
  BY <1>4
<1>6. DeskIsMap' /\ ~Busy(d)' /\ \A e \in Desk \ {d} : desk'[e] = desk[e]
  BY <1>1 DEF DeskIsMap, Busy
<1>7. AnsweredIsTaken'
  <2> SUFFICES ASSUME NEW t \in tickets', t.responses > 0, t.status = "OPEN", ~t.reopened, ~t.left
               PROVE  \E e \in Desk : DeskAt(e, "respond", "status")' /\ desk'[e].id = t.id
    BY DEF AnsweredIsTaken
  <2>1. t \in tickets /\ t.id # id
    BY <1>2, <1>5
  <2>2. PICK e \in Desk : DeskAt(e, "respond", "status") /\ desk[e].id = t.id
    BY <2>1 DEF AnsweredIsTaken
  <2>3. e # d
    BY <2>1, <2>2 DEF id
  <2> QED BY <1>6, <2>2, <2>3 DEF DeskAt, Busy
<1>8. NoneAlone'
  BY <1>1, <1>2, <1>5 DEF NoneAlone
<1>9. \/ tickets' = tickets
      \/ \E old \in tickets, n \in Ticket :
           /\ n.id = old.id /\ n.number = old.number /\ old.id = desk[d].id
           /\ tickets' = (tickets \ {old}) \cup {n}
           /\ n.status = old.status \/ n.status = "IN_PROGRESS"
           /\ n.reopened = old.reopened
  BY <1>2, <1>4 DEF id
<1> QED BY <1>1, <1>6, <1>7, <1>8, <1>9, QuietWriteKeeps

LEMMA RequestFailsKeeps ==
  ASSUME TicketsInv, NEW d \in Desk, RequestFails(d)
  PROVE  TicketsInv'
<1>1. CASE DeskAt(d, "respond", "status")
  BY <1>1, LeavingKeeps
<1>2. CASE ~DeskAt(d, "respond", "status")
  <2>1. Busy(d) /\ Done(d) /\ UNCHANGED <<tickets, opened, requests, deleted, refusals>>
    BY <1>2 DEF RequestFails
  <2> QED BY <1>2, <2>1, EndingKeeps
<1> QED BY <1>1, <1>2

-----------------------------------------------------------------------------
LEMMA TicketsInvInductive == TicketsInv /\ [TicketsNext]_ticketVars => TicketsInv'
<1> SUFFICES ASSUME TicketsInv, [TicketsNext]_ticketVars PROVE TicketsInv'
  OBVIOUS
<1>1. CASE UNCHANGED ticketVars
  BY <1>1 DEF ticketVars, TicketsInv, TicketsTypeOK, DeskIsMap, RowsOfTickets, RequestsInOrder, OpensHaveMet,
              NumbersFollowCount, SinceRead, AnsweredIsTaken, NoneAlone, DeskAt, Busy
<1>2. ASSUME NEW d \in Desk,
             \/ Take(d, "open", 0, "find")
             \/ \E op \in {"update", "assign", "respond", "remove"}, id \in 1..opened : Take(d, op, id, "find")
      PROVE  TicketsInv'
  BY <1>2, TakeKeeps
<1>3. ASSUME NEW d \in Desk, CountTickets(d) \/ InsertTicket(d) \/ FindTicket(d)
      PROVE  TicketsInv'
  BY <1>3, CountTicketsKeeps, InsertTicketKeeps, FindTicketKeeps
<1>4. ASSUME NEW d \in Desk,
             \/ \E status \in TicketStatus : UpdateTicket(d, status)
             \/ \E a \in Agent : AssignTicket(d, a)
             \/ InsertResponse(d) \/ SetInProgress(d) \/ RemoveTicket(d) \/ RequestFails(d)
      PROVE  TicketsInv'
  BY <1>4, UpdateKeeps, AssignKeeps, RespondKeeps, SetInProgressKeeps, RemoveTicketKeeps, RequestFailsKeeps
<1> QED BY <1>1, <1>2, <1>3, <1>4 DEF TicketsNext

(* What became of a ticket since a request read it is never forgotten. *)
THEOREM TicketsInvHolds == TicketsSpec => []TicketsInv
BY InitTicketsInv, TicketsInvInductive, PTL DEF TicketsSpec

(* The rows and requests keep their shape. *)
THEOREM TicketsTypeCorrect == TicketsSpec => []TicketsTypeOK
<1>1. TicketsInv => TicketsTypeOK
  BY DEF TicketsInv
<1> QED BY <1>1, TicketsInvHolds, PTL

(* An answered ticket is taken unless a response ended before it set the   *)
(* status, only an update that crossed the answer is overruled by it, and  *)
(* a number is refused only after a deletion or beside another ticket      *)
(* being opened (see TicketsHold).                                         *)
THEOREM TicketsAlwaysHold == TicketsSpec => []TicketsHold
BY TicketsInvGivesHold, TicketsInvHolds, PTL

(***************************************************************************)
(* CampusServices: each part moves by itself, so what holds of its own     *)
(* specification holds of all of them side by side.                        *)
(***************************************************************************)
LEMMA PartsStart ==
  ServicesInit => /\ AuthInit /\ InboxInit /\ BillingInit /\ RollInit /\ TicketsInit
                  /\ InvoicesInit /\ RegisterInit
BY DEF ServicesInit

LEMMA PartsMove ==
  [ServicesNext]_servicesVars =>
    /\ [AuthNext]_authVars /\ [InboxNext]_inboxVars /\ [BillingNext]_billingVars /\ [RollNext]_rollVars
    /\ [TicketsNext]_ticketVars /\ [InvoicesNext]_invoicesVars /\ [RegisterNext]_registerVars
<1> SUFFICES ASSUME [ServicesNext]_servicesVars
             PROVE  /\ [AuthNext]_authVars /\ [InboxNext]_inboxVars /\ [BillingNext]_billingVars
                    /\ [RollNext]_rollVars /\ [TicketsNext]_ticketVars
                    /\ [InvoicesNext]_invoicesVars /\ [RegisterNext]_registerVars
  OBVIOUS
<1>1. CASE UNCHANGED servicesVars
  BY <1>1 DEF servicesVars
<1>2. CASE AuthMoves
  BY <1>2 DEF AuthMoves
<1>3. CASE InboxMoves
  BY <1>3 DEF InboxMoves
<1>4. CASE BillingMoves
  BY <1>4 DEF BillingMoves
<1>5. CASE RollMoves
  BY <1>5 DEF RollMoves
<1>6. CASE TicketsMove
  BY <1>6 DEF TicketsMove
<1>7. CASE InvoicesMove
  BY <1>7 DEF InvoicesMove
<1>8. CASE RegisterMoves
  BY <1>8 DEF RegisterMoves
<1> QED BY <1>1, <1>2, <1>3, <1>4, <1>5, <1>6, <1>7, <1>8 DEF ServicesNext

(* Every behaviour of the services side by side is, seen through the       *)
(* variables of one of them, a behaviour of that one.                      *)
LEMMA ServicesImplementParts ==
  ServicesSpec => /\ AuthSpec /\ InboxSpec /\ BillingSpec /\ RollSpec /\ TicketsSpec
                  /\ InvoicesSpec /\ RegisterSpec
BY PartsStart, PartsMove, PTL
   DEF ServicesSpec, AuthSpec, InboxSpec, BillingSpec, RollSpec, TicketsSpec, InvoicesSpec, RegisterSpec

LEMMA FocusStays == ServicesSpec => [](focus \in Service)
<1>1. ServicesInit => focus \in Service
  BY DEF ServicesInit
<1>2. focus \in Service /\ [ServicesNext]_servicesVars => (focus \in Service)'
  BY DEF ServicesNext, servicesVars, AuthMoves, InboxMoves, BillingMoves, RollMoves, TicketsMove,
         InvoicesMove, RegisterMoves
<1> QED BY <1>1, <1>2, PTL DEF ServicesSpec

(* Every variable of every part keeps its shape. *)
THEOREM ServicesTypesHold == ServicesSpec => []ServicesTypeOK
<1>1. AuthInv => AuthTypeOK
  BY DEF AuthInv
<1>2. /\ focus \in Service /\ AuthTypeOK /\ InboxTypeOK /\ BillingTypeOK /\ RollTypeOK /\ TicketsTypeOK
      /\ InvoicesTypeOK /\ RegisterTypeOK
      => ServicesTypeOK
  BY DEF ServicesTypeOK
<1> QED BY <1>1, <1>2, FocusStays, ServicesImplementParts, AuthInvHolds, InboxTypeCorrect, BillingTypeCorrect,
           RollTypeCorrect, TicketsTypeCorrect, InvoicesTypeCorrect, PageTypeCorrect, PTL

(* What the services promise, they promise side by side. *)
THEOREM ServicesPromisesHold ==
  ServicesSpec =>
    /\ [](SessionsEndWithPassword /\ SoleSession) /\ LockHolds
    /\ [](NoticesKept /\ ConnectedAreOpen)
    /\ [](BilledOnce /\ BatchReportTrue)
    /\ [](RollsDoNotMix /\ TicketsHold)
    /\ [](ShownIsSelected /\ PlanIsHonoured)
BY ServicesImplementParts, SessionsAlwaysEnd, SessionAlwaysSole, LockAlwaysHolds, NoticesAlwaysKept,
   ConnectedAlwaysOpen, StudentsBilledOnce, BatchReportAlwaysTrue, RollsNeverMix, TicketsAlwaysHold,
   ShownAlwaysSelected, PlanAlwaysHonoured, PTL
=============================================================================
