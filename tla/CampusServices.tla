---------------------------- MODULE CampusServices ----------------------------
(***************************************************************************)
(* The services and pages beside enrollment and payment, side by side.     *)
(* They have no table, queue or variable in common, so that a property of  *)
(* one says nothing of the steps of another: a behaviour of this module    *)
(* moves one of them, the one in focus, and leaves the others as they      *)
(* start.  It has the sum of their states, not the product.                *)
(***************************************************************************)
EXTENDS AuthSession, Inbox, InvoiceGeneration, AttendanceRoll, SupportTickets,
        InvoicesPage, RegisterPage

VARIABLE focus

Service == {"auth", "inbox", "billing", "attendance", "tickets", "invoices", "register"}

servicesVars == <<focus, authVars, inboxVars, billingVars, rollVars, ticketVars,
                  invoicesVars, registerVars>>

(* What is out of focus starts in one way. *)
AtRest ==
  /\ focus # "auth" => scope = CHOOSE s \in Scope : TRUE
  /\ focus # "attendance" => teacher = CHOOSE t \in Teacher : TRUE

ServicesInit ==
  /\ focus \in Service
  /\ AuthInit /\ InboxInit /\ BillingInit /\ RollInit /\ TicketsInit
  /\ InvoicesInit /\ RegisterInit
  /\ AtRest

AuthMoves ==
  /\ focus = "auth" /\ AuthNext
  /\ UNCHANGED <<focus, inboxVars, billingVars, rollVars, ticketVars, invoicesVars, registerVars>>

InboxMoves ==
  /\ focus = "inbox" /\ InboxNext
  /\ UNCHANGED <<focus, authVars, billingVars, rollVars, ticketVars, invoicesVars, registerVars>>

BillingMoves ==
  /\ focus = "billing" /\ BillingNext
  /\ UNCHANGED <<focus, authVars, inboxVars, rollVars, ticketVars, invoicesVars, registerVars>>

RollMoves ==
  /\ focus = "attendance" /\ RollNext
  /\ UNCHANGED <<focus, authVars, inboxVars, billingVars, ticketVars, invoicesVars, registerVars>>

TicketsMove ==
  /\ focus = "tickets" /\ TicketsNext
  /\ UNCHANGED <<focus, authVars, inboxVars, billingVars, rollVars, invoicesVars, registerVars>>

InvoicesMove ==
  /\ focus = "invoices" /\ InvoicesNext
  /\ UNCHANGED <<focus, authVars, inboxVars, billingVars, rollVars, ticketVars, registerVars>>

RegisterMoves ==
  /\ focus = "register" /\ RegisterNext
  /\ UNCHANGED <<focus, authVars, inboxVars, billingVars, rollVars, ticketVars, invoicesVars>>

ServicesNext ==
  \/ AuthMoves \/ InboxMoves \/ BillingMoves \/ RollMoves
  \/ TicketsMove \/ InvoicesMove \/ RegisterMoves

ServicesSpec == ServicesInit /\ [][ServicesNext]_servicesVars

(* Every variable of the part that moves keeps its shape. *)
ServicesTypeOK ==
  /\ focus \in Service
  /\ focus = "auth" => AuthTypeOK
  /\ focus = "inbox" => InboxTypeOK
  /\ focus = "billing" => BillingTypeOK
  /\ focus = "attendance" => RollTypeOK
  /\ focus = "tickets" => TicketsTypeOK
  /\ focus = "invoices" => InvoicesTypeOK
  /\ focus = "register" => RegisterTypeOK
=============================================================================
