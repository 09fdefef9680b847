----------------------------- MODULE InvoicesPage -----------------------------
(***************************************************************************)
(* frontend: the page with a student's invoices.  It lists those of one    *)
(* semester or of all, shows one of them in a dialog and starts a payment  *)
(* there.  What it asks for (the list, an invoice, a payment) is answered  *)
(* in any order, and an answer is taken whatever the page shows by then.   *)
(*                                                                         *)
(* The data is the identity of the invoice it belongs to; amounts, the     *)
(* state of a payment (see PaymentCheckout) and wording are left out.      *)
(***************************************************************************)
EXTENDS Naturals, FiniteSets

CONSTANTS
  Bill,        \* the student's invoices
  TermOf,      \* [Bill -> semesters]
  AllTerms,    \* the filter that is not set
  Listing,     \* bound: loads of the list at the same time
  Fetch,       \* bound: requests of the dialog at the same time
  MaxLeaves,   \* bound: how often the student goes to a payment provider
  NoBill

ASSUME BillsAssumption ==
  /\ DOMAIN TermOf = Bill
  /\ AllTerms \notin {TermOf[b] : b \in Bill} /\ NoBill \notin Bill
  /\ MaxLeaves \in Nat

Term == {TermOf[b] : b \in Bill} \cup {AllTerms}

VARIABLES
  term,        \* selectedSemester
  listed,      \* invoices: the list shown
  listing,     \* [Listing -> the semester asked for, or NoBill]
  listView,    \* "closed", "loading", "ready" or "error"
  returning,   \* the invoice named by the address, until it is opened
  leaves,      \* how often the student has gone to a provider
  open,        \* selectedInvoiceId, or NoBill when the dialog is closed
  detail,      \* selectedInvoice
  detailError, \* whether the dialog shows an error
  checkout,    \* the invoice activeCheckout pays
  fetch,       \* [Fetch -> the request of the dialog under way]
  quiet,       \* history: nothing was under way when the dialog opened
  tidy         \* history: nothing was under way when the list was asked for

listVars == <<term, listed, listing, listView, returning, leaves, tidy>>
dialogVars == <<open, detail, detailError, checkout, fetch, quiet>>
invoicesVars == <<listVars, dialogVars>>

NotFetching == [op |-> "none"]
(* then: what the handler goes on with after the invoice is loaded; on:    *)
(* selectedInvoiceId as the handler saw it.                                *)
Fetching == [op : {"detail", "intent", "start"}, bill : Bill, on : Bill,
             then : {"nothing", "intent", "charged"}]
IdleFetch(f) == fetch[f] = NotFetching
AllIdle == \A f \in Fetch : IdleFetch(f)

(* The page as it opens, with or without an invoice in its address. *)
Opens(back) ==
  /\ term' = AllTerms
  /\ listed' = {}
  /\ \E l \in Listing : listing' = [m \in Listing |-> IF m = l THEN AllTerms ELSE NoBill]
  /\ listView' = "loading"
  /\ returning' = back
  /\ open' = NoBill /\ detail' = NoBill /\ checkout' = NoBill
  /\ detailError' = FALSE
  /\ fetch' = [f \in Fetch |-> NotFetching]
  /\ quiet' = FALSE
  /\ tidy' = TRUE

InvoicesInit ==
  /\ term = AllTerms
  /\ listed = {}
  /\ listing = [l \in Listing |-> NoBill]
  /\ listView = "closed"
  /\ returning = NoBill
  /\ leaves = 0
  /\ open = NoBill /\ detail = NoBill /\ checkout = NoBill
  /\ detailError = FALSE
  /\ fetch = [f \in Fetch |-> NotFetching]
  /\ quiet = FALSE
  /\ tidy = TRUE

OpenInvoices ==
  /\ listView = "closed"
  /\ Opens(NoBill)
  /\ UNCHANGED leaves

-----------------------------------------------------------------------------
(* openInvoiceDetail: the dialog opens, empty, and loads. *)

(* Mutant: what the dialog showed stays until the answer comes. *)
KeepDialog(b) == UNCHANGED <<detail, checkout>>
ClearDialog(b) == detail' = NoBill /\ checkout' = NoBill

OpenDetail(b, then) ==
  /\ open' = b
  /\ ClearDialog(b)
  /\ detailError' = FALSE
  /\ \E f \in Fetch :
       /\ IdleFetch(f)
       /\ fetch' = [fetch EXCEPT ![f] = [op |-> "detail", bill |-> b, on |-> b, then |-> then]]
  /\ quiet' = AllIdle

(* fetchInvoices, for the semester selected. *)
AskList(t) ==
  /\ \E l \in Listing :
       /\ listing[l] = NoBill
       /\ listing' = [listing EXCEPT ![l] = t]
       /\ tidy' = (AllIdle /\ \A m \in Listing : listing[m] = NoBill)
  /\ listView' = "loading"

SelectTerm(t) ==
  /\ open = NoBill /\ listView # "closed"
  /\ t # term
  /\ term' = t
  /\ AskList(t)
  /\ UNCHANGED <<listed, returning, leaves, dialogVars>>

RetryList ==
  /\ open = NoBill
  /\ listView = "error"
  /\ AskList(term)
  /\ UNCHANGED <<term, listed, returning, leaves, dialogVars>>

BillsOf(t) == {b \in Bill : t \in {AllTerms, TermOf[b]}}

(* The list arrives.  The invoice named by the address is opened as soon   *)
(* as it is listed, once, and its payment is looked up after it.           *)
ListArrives(l) ==
  /\ listing[l] # NoBill
  /\ listed' = BillsOf(listing[l])
  /\ listing' = [listing EXCEPT ![l] = NoBill]
  /\ listView' = IF listView = "error" THEN "error" ELSE "ready"
  /\ IF returning \in listed'
     THEN OpenDetail(returning, "intent") /\ returning' = NoBill
     ELSE UNCHANGED <<returning, dialogVars>>
  /\ UNCHANGED <<term, leaves, tidy>>

ListFails(l) ==
  /\ listing[l] # NoBill
  /\ listing' = [listing EXCEPT ![l] = NoBill]
  /\ listView' = "error"
  /\ UNCHANGED <<term, listed, returning, leaves, tidy, dialogVars>>

ClickBill(b) ==
  /\ open = NoBill
  /\ listView = "ready"
  /\ b \in listed
  /\ OpenDetail(b, "nothing")
  /\ UNCHANGED listVars

-----------------------------------------------------------------------------
(* The answers.  setSelectedInvoice takes the invoice whatever is open,    *)
(* and syncInvoiceInList adds it to the list if it is not there.           *)
AfterDetail(x) ==
  IF x.then = "intent" THEN [x EXCEPT !.op = "intent", !.then = "nothing"] ELSE NotFetching

DetailArrives(f) ==
  /\ fetch[f] # NotFetching /\ fetch[f].op = "detail"
  /\ detail' = fetch[f].bill
  /\ listed' = listed \cup {fetch[f].bill}
  /\ fetch' = [fetch EXCEPT ![f] = AfterDetail(@)]
  /\ UNCHANGED <<term, listing, listView, returning, leaves, tidy,
                 open, detailError, checkout, quiet>>

DetailFails(f) ==
  /\ fetch[f] # NotFetching /\ fetch[f].op = "detail"
  /\ detailError' = TRUE
  /\ fetch' = [fetch EXCEPT ![f] = AfterDetail(@)]
  /\ UNCHANGED <<listVars, open, detail, checkout, quiet>>

IntentArrives(f, found) ==
  /\ fetch[f] # NotFetching /\ fetch[f].op = "intent"
  /\ checkout' = IF found THEN fetch[f].bill ELSE checkout
  /\ fetch' = [fetch EXCEPT ![f] = NotFetching]
  /\ UNCHANGED <<listVars, open, detail, detailError, quiet>>

(* handleStartCheckout: for the invoice shown, and no other meanwhile. *)
Charging == \E f \in Fetch : fetch[f] # NotFetching
                             /\ (fetch[f].op = "start" \/ fetch[f].then = "charged")

StartCheckout ==
  /\ open # NoBill /\ detail # NoBill /\ ~detailError
  /\ ~Charging
  /\ \E f \in Fetch :
       /\ IdleFetch(f)
       /\ fetch' = [fetch EXCEPT ![f] =
            [op |-> "start", bill |-> detail, on |-> open, then |-> "charged"]]
  /\ UNCHANGED <<listVars, open, detail, detailError, checkout, quiet>>

(* The payment is shown, and the invoice that was open loaded again. *)
CheckoutStarted(f) ==
  /\ fetch[f] # NotFetching /\ fetch[f].op = "start"
  /\ checkout' = fetch[f].bill
  /\ detailError' = FALSE
  /\ fetch' = [fetch EXCEPT ![f].op = "detail", ![f].bill = fetch[f].on]
  /\ UNCHANGED <<listVars, open, detail, quiet>>

CheckoutFails(f) ==
  /\ fetch[f] # NotFetching /\ fetch[f].op = "start"
  /\ fetch' = [fetch EXCEPT ![f] = NotFetching]
  /\ UNCHANGED <<listVars, open, detail, detailError, checkout, quiet>>

(* refreshCurrentInvoice, by a button of the error or of the payment. *)
RefreshDetail ==
  /\ open # NoBill
  /\ detailError \/ (detail # NoBill /\ checkout # NoBill)
  /\ detailError' = FALSE
  /\ \E f \in Fetch :
       /\ IdleFetch(f)
       /\ fetch' = [fetch EXCEPT ![f] =
            [op |-> "detail", bill |-> open, on |-> open, then |-> "nothing"]]
  /\ UNCHANGED <<listVars, open, detail, checkout, quiet>>

CloseDialog ==
  /\ open # NoBill
  /\ open' = NoBill /\ detail' = NoBill /\ checkout' = NoBill
  /\ detailError' = FALSE
  /\ quiet' = FALSE
  /\ UNCHANGED <<listVars, fetch>>

(* handleContinueCheckout: the browser goes to the provider and comes back *)
(* to a new page whose address names the invoice.                          *)
ContinueCheckout ==
  /\ open # NoBill /\ detail # NoBill /\ ~detailError
  /\ checkout # NoBill
  /\ leaves < MaxLeaves
  /\ leaves' = leaves + 1
  /\ Opens(checkout)

-----------------------------------------------------------------------------
InvoicesNext ==
  \/ \E t \in Term : SelectTerm(t)
  \/ OpenInvoices \/ RetryList
  \/ \E l \in Listing : ListArrives(l) \/ ListFails(l)
  \/ \E b \in Bill : ClickBill(b)
  \/ \E f \in Fetch :
       \/ DetailArrives(f) \/ DetailFails(f)
       \/ \E found \in BOOLEAN : IntentArrives(f, found)
       \/ CheckoutStarted(f) \/ CheckoutFails(f)
  \/ StartCheckout \/ RefreshDetail \/ CloseDialog \/ ContinueCheckout

InvoicesSpec == InvoicesInit /\ [][InvoicesNext]_invoicesVars

(***************************************************************************)
(* Properties.                                                             *)
(***************************************************************************)
(* Every variable keeps its shape. *)
InvoicesTypeOK ==
  /\ term \in Term
  /\ listed \subseteq Bill
  /\ listing \in [Listing -> Term \cup {NoBill}]
  /\ listView \in {"closed", "loading", "ready", "error"}
  /\ {returning, open, detail, checkout} \subseteq Bill \cup {NoBill}
  /\ leaves \in 0..MaxLeaves
  /\ detailError \in BOOLEAN
  /\ \A f \in Fetch : IdleFetch(f) \/ fetch[f] \in Fetching
  /\ quiet \in BOOLEAN /\ tidy \in BOOLEAN

(* A dialog that opened while nothing of an earlier one was under way      *)
(* shows, and pays, the invoice that was clicked, whatever the order of    *)
(* the answers; otherwise a late answer shows another invoice under it.    *)
DialogIsOfClick ==
  quiet => {detail, checkout} \subseteq {open, NoBill}

(* A list that was asked for while nothing was under way has invoices of   *)
(* the semester selected only, and when it has arrived, all of them.       *)
ListIsOfTerm ==
  tidy /\ listView = "ready" => listed = BillsOf(term)

ShownIsSelected == DialogIsOfClick /\ ListIsOfTerm
=============================================================================
