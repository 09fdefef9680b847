---------------------------- MODULE SupportTickets ----------------------------
(***************************************************************************)
(* engagement-service: support tickets.  A user opens one; administrators  *)
(* set its status, assign it, answer it and delete it.  A request is cut   *)
(* at its database statements, no transaction encloses them, and it may    *)
(* end between two.  The text of a ticket, its priority and its category   *)
(* are left out.                                                           *)
(***************************************************************************)
EXTENDS Naturals, FiniteSets

CONSTANTS
  Desk,          \* requests served at the same time
  Agent,         \* administrators a ticket may be assigned to
  MaxTickets,    \* bound: tickets opened
  MaxResponses,  \* bound: responses to a ticket
  MaxRequests,   \* bound: requests
  NoAgent

ASSUME TicketsAssumption == {MaxTickets, MaxResponses, MaxRequests} \subseteq Nat /\ NoAgent \notin Agent

VARIABLES
  tickets,    \* the rows of SupportTicket, with the number of responses
  opened,     \* how many were opened so far
  requests,   \* how many requests came so far
  desk,       \* [Desk -> the request under way]
  deleted,    \* history: whether a ticket was ever deleted
  refusals    \* history: the reasons for which a ticket was not opened

ticketVars == <<tickets, opened, requests, desk, deleted, refusals>>

TicketStatus == {"OPEN", "IN_PROGRESS", "RESOLVED", "CLOSED"}
(* reopened: an update said OPEN; left: a response ended before it set the *)
(* status; overruled: one took the place of a status other than OPEN,      *)
(* having crossed an update or not.                                        *)
Ticket == [id : 1..MaxTickets, number : 1..(MaxTickets + 1), status : TicketStatus,
           stamped : SUBSET {"RESOLVED", "CLOSED"}, assigned : Agent \cup {NoAgent},
           responses : 0..MaxResponses, reopened : BOOLEAN, left : BOOLEAN,
           overruled : SUBSET {"crossed", "alone"}]

NoRequest == [op |-> "none"]
DeskRequest == [op : {"open", "update", "assign", "respond", "remove"},
                step : {"find", "insert", "status"}, id : 0..MaxTickets,
                number : 0..(MaxTickets + 1), read : TicketStatus, met : SUBSET {"open", "update"}]

TicketsInit ==
  /\ tickets = {}
  /\ opened = 0
  /\ requests = 0
  /\ desk = [d \in Desk |-> NoRequest]
  /\ deleted = FALSE
  /\ refusals = {}

-----------------------------------------------------------------------------
Busy(d) == desk[d] # NoRequest
DeskAt(d, op, step) == Busy(d) /\ desk[d].op = op /\ desk[d].step = step
WithId(id) == {t \in tickets : t.id = id}
Done(d) == desk' = [desk EXCEPT ![d] = NoRequest]

(* The other requests for a ticket (0: a new one) have now met an          *)
(* operation of a kind.                                                    *)
Meeting(d, kind, id, own) ==
  [e \in Desk |-> IF e = d THEN own
                  ELSE IF Busy(e) /\ desk[e].id = id THEN [desk[e] EXCEPT !.met = @ \cup {kind}]
                  ELSE desk[e]]

Take(d, op, id, step) ==
  /\ ~Busy(d)
  /\ requests < MaxRequests
  /\ requests' = requests + 1
  /\ LET met == IF op = "open" /\ \E e \in Desk : Busy(e) /\ desk[e].op = "open" THEN {"open"} ELSE {}
         own == [op |-> op, step |-> step, id |-> id, number |-> 0, read |-> "OPEN", met |-> met]
     IN desk' = IF op = "open" THEN Meeting(d, "open", 0, own) ELSE [desk EXCEPT ![d] = own]
  /\ UNCHANGED <<tickets, opened, deleted, refusals>>

(* create: the number is the count plus one, and must be free at insert. *)
CountTickets(d) ==
  /\ DeskAt(d, "open", "find")
  /\ desk' = [desk EXCEPT ![d].number = Cardinality(tickets) + 1, ![d].step = "insert"]
  /\ UNCHANGED <<tickets, opened, requests, deleted, refusals>>

InsertTicket(d) ==
  /\ DeskAt(d, "open", "insert")
  /\ IF \E t \in tickets : t.number = desk[d].number
     THEN /\ refusals' = refusals \cup
               {IF deleted THEN "deleted" ELSE IF "open" \in desk[d].met THEN "crossed" ELSE "alone"}
          /\ UNCHANGED <<tickets, opened>>
     ELSE /\ opened < MaxTickets
          /\ opened' = opened + 1
          /\ tickets' = tickets \cup
               {[id |-> opened', number |-> desk[d].number, status |-> "OPEN", stamped |-> {},
                 assigned |-> NoAgent, responses |-> 0, reopened |-> FALSE, left |-> FALSE,
                 overruled |-> {}]}
          /\ UNCHANGED refusals
  /\ Done(d)
  /\ UNCHANGED <<requests, deleted>>

(* findOne, which comes first in the others: NotFound ends the request. *)
FindTicket(d) ==
  /\ Busy(d) /\ desk[d].op # "open" /\ desk[d].step = "find"
  /\ IF WithId(desk[d].id) = {}
     THEN Done(d)
     ELSE \E t \in WithId(desk[d].id) :
            desk' = [desk EXCEPT ![d].read = t.status, ![d].step = "insert", ![d].met = {}]
  /\ UNCHANGED <<tickets, opened, requests, deleted, refusals>>

(* A write to a row that is gone by now fails. *)
Rewritten(id, Row(_)) == (tickets \ WithId(id)) \cup {Row(t) : t \in WithId(id)}

(* Mutant: every status is stamped. *)
StampAny(status) == {status}

(* update: resolvedAt and closedAt are set, and never cleared. *)
Stamps(status) == {status} \cap {"RESOLVED", "CLOSED"}

UpdateTicket(d, status) ==
  /\ DeskAt(d, "update", "insert")
  /\ LET Row(t) == [t EXCEPT !.status = status,
                             !.stamped = @ \cup Stamps(status),
                             !.reopened = status = "OPEN"]
     IN tickets' = Rewritten(desk[d].id, Row)
  /\ desk' = Meeting(d, "update", desk[d].id, NoRequest)
  /\ UNCHANGED <<opened, requests, deleted, refusals>>

AssignTicket(d, a) ==
  /\ DeskAt(d, "assign", "insert")
  /\ LET Row(t) == [t EXCEPT !.assigned = a] IN tickets' = Rewritten(desk[d].id, Row)
  /\ Done(d)
  /\ UNCHANGED <<opened, requests, deleted, refusals>>

(* addResponse: the response, and then, if the ticket was read as open,    *)
(* its status, whatever that is by now.                                    *)

(* Mutant: every response sets the status. *)
AlwaysProgress(read) == TRUE
WasOpen(read) == read = "OPEN"

InsertResponse(d) ==
  /\ DeskAt(d, "respond", "insert")
  /\ \A t \in WithId(desk[d].id) : t.responses < MaxResponses
  /\ LET Row(t) == [t EXCEPT !.responses = @ + 1] IN tickets' = Rewritten(desk[d].id, Row)
  /\ IF WithId(desk[d].id) # {} /\ WasOpen(desk[d].read)
     THEN desk' = [desk EXCEPT ![d].step = "status"]
     ELSE Done(d)
  /\ UNCHANGED <<opened, requests, deleted, refusals>>

SetInProgress(d) ==
  /\ DeskAt(d, "respond", "status")
  /\ LET how == IF "update" \in desk[d].met THEN "crossed" ELSE "alone"
         Row(t) == [t EXCEPT !.status = "IN_PROGRESS", !.left = FALSE,
                             !.overruled = IF t.status \in {"RESOLVED", "CLOSED"} THEN @ \cup {how} ELSE @]
     IN tickets' = Rewritten(desk[d].id, Row)
  /\ Done(d)
  /\ UNCHANGED <<opened, requests, deleted, refusals>>

(* A statement throws or the process dies: what was written stays, and an  *)
(* answered ticket may stay open.                                          *)
RequestFails(d) ==
  /\ Busy(d)
  /\ LET Row(t) == [t EXCEPT !.left = @ \/ t.status = "OPEN"]
     IN tickets' = IF DeskAt(d, "respond", "status") THEN Rewritten(desk[d].id, Row) ELSE tickets
  /\ Done(d)
  /\ UNCHANGED <<opened, requests, deleted, refusals>>

RemoveTicket(d) ==
  /\ DeskAt(d, "remove", "insert")
  /\ tickets' = tickets \ WithId(desk[d].id)
  /\ deleted' = (deleted \/ WithId(desk[d].id) # {})
  /\ Done(d)
  /\ UNCHANGED <<opened, requests, refusals>>

-----------------------------------------------------------------------------
TicketsNext ==
  \E d \in Desk :
    \/ Take(d, "open", 0, "find")
    \/ \E op \in {"update", "assign", "respond", "remove"}, id \in 1..opened : Take(d, op, id, "find")
    \/ CountTickets(d) \/ InsertTicket(d) \/ FindTicket(d)
    \/ \E status \in TicketStatus : UpdateTicket(d, status)
    \/ \E a \in Agent : AssignTicket(d, a)
    \/ InsertResponse(d) \/ SetInProgress(d) \/ RemoveTicket(d) \/ RequestFails(d)

TicketsSpec == TicketsInit /\ [][TicketsNext]_ticketVars

(***************************************************************************)
(* Properties.                                                             *)
(***************************************************************************)
(* Every variable keeps its shape. *)
TicketsTypeOK ==
  /\ tickets \subseteq Ticket
  /\ opened \in 0..MaxTickets
  /\ requests \in 0..MaxRequests
  /\ \A d \in Desk : ~Busy(d) \/ desk[d] \in DeskRequest
  /\ deleted \in BOOLEAN
  /\ refusals \subseteq {"deleted", "crossed", "alone"}

(* A ticket that was answered is not open, unless an update said so, the   *)
(* response's second statement is still to come, or a response ended just  *)
(* before it and none has set the status since.                            *)
AnsweredIsTaken ==
  \A t \in tickets : t.responses > 0 /\ t.status = "OPEN" =>
    \/ t.reopened \/ t.left
    \/ \E d \in Desk : DeskAt(d, "respond", "status") /\ desk[d].id = t.id

(* A response takes a ticket back from RESOLVED or CLOSED only if it read  *)
(* the ticket before an update that overlapped it; and a ticket is refused *)
(* its number only after a deletion or beside another one being opened.    *)
TicketsHold ==
  /\ AnsweredIsTaken
  /\ \A t \in tickets : "alone" \notin t.overruled
  /\ "alone" \notin refusals
  /\ \A s, t \in tickets : s # t => s.number # t.number
=============================================================================
