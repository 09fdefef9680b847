----------------------------- MODULE ShadowSync -----------------------------
(***************************************************************************)
(* people-service owns the student profiles and replicates them: after     *)
(* every committed change it sends an event to the two shadow queues, and  *)
(* the services that consume a queue apply it to a table of their own.     *)
(* core-api and auth-service consume the same queue, people-shadow;        *)
(* academic-service has people-shadow.academic to itself.                  *)
(*                                                                         *)
(* A request of people-service is cut into its reads, its write and its    *)
(* publication; a consumer into the delivery, the statements of its        *)
(* handler and the acknowledgement.  No consumer sets a prefetch limit, so *)
(* its handlers overlap.  A broker connection may be lost, after which     *)
(* nothing consumes until the process is started again, and a process may  *)
(* die.  lecturers.service.ts has the same steps.                          *)
(***************************************************************************)
EXTENDS Naturals, Sequences, FiniteSets, SequencesExt

CONSTANTS
  Request,         \* requests people-service serves at the same time
  Consumer,        \* the consuming services that run
  StudentId,       \* primary keys, uuids: never used twice
  User,            \* accounts, which live in auth-service
  Curriculum,      \* the curricula of academic-service to begin with
  LegacyCurricula, \* the curricula of core-api's own catalogue
  Year,            \* the profile's other columns
  Entered,         \* bound: the rows that requests enter
  MaxVersions,     \* bound: changes of profiles
  MaxHandlers,     \* bound: handlers of one consumer at the same time
  MaxOutages,      \* bound: lost events, failing statements and connections, crashes
  None

Row == [user : User, curriculum : Curriculum, year : Year]
Queue == {"people-shadow", "people-shadow.academic"}   \* PEOPLE_SHADOW_QUEUES
QueueOf(c) == IF c = "academic" THEN "people-shadow.academic" ELSE "people-shadow"

ASSUME ConsumerAssumption == Consumer \subseteq {"core", "auth", "academic"}
ASSUME CatalogueAssumption == LegacyCurricula \subseteq Curriculum /\ Entered \subseteq Row
ASSUME ShadowBounds ==
  /\ {MaxVersions, MaxHandlers, MaxOutages} \subseteq Nat /\ IsFiniteSet(Request)
  /\ None \notin Row

VARIABLES
  student,      \* people-service's table: [StudentId -> Row, or None]
  curricula,    \* the curricula academic-service still has
  version,      \* the number of changes committed to student
  history,      \* [StudentId -> SUBSET Row]: the rows student has held
  request,      \* [Request -> what the request is about to write or publish]
  queue,        \* [Queue -> Seq(events)], durable
  process,      \* [Consumer -> "up", "cut" (no channel consumes) or "down"]
  handlers,     \* [Consumer -> Seq([event, step])], in the order of delivery
  copy,         \* [Consumer -> [StudentId -> Row, or None]]: the shadow tables
  applied,      \* [Consumer -> the newest version it has handled]
  spoiled,      \* services that lost, refused or overtook an event
  outages       \* how much has failed

peopleVars == <<student, version, history>>
consumerVars == <<process, handlers, copy, applied>>
vars == <<peopleVars, curricula, request, queue, consumerVars, spoiled, outages>>

Idle == [phase |-> "idle"]
Event == [id : StudentId, row : Row \cup {None}, version : 1..MaxVersions]
Job == [phase : {"create", "update"}, id : StudentId, row : Row]
  \cup [phase : {"remove"}, id : StudentId, row : {None}]

Init ==
  /\ student = [s \in StudentId |-> None]
  /\ curricula = Curriculum
  /\ version = 0
  /\ history = [s \in StudentId |-> {}]
  /\ request = [r \in Request |-> Idle]
  /\ queue = [q \in Queue |-> <<>>]
  /\ process = [c \in Consumer |-> "up"]
  /\ handlers = [c \in Consumer |-> <<>>]
  /\ copy = [c \in Consumer |-> [s \in StudentId |-> None]]
  /\ applied = [c \in Consumer |-> 0]
  /\ spoiled = {}
  /\ outages = 0

Outage == outages < MaxOutages /\ outages' = outages + 1

(***************************************************************************)
(* people-service.                                                         *)
(***************************************************************************)
(* @@unique userId, in every table of profiles. *)
UserFree(table, id, user) ==
  \A s \in StudentId \ {id} : table[s] # None => table[s].user # user

Writing == {r \in Request : request[r].phase \in {"create", "update", "remove"}}
MayBegin(r) == request[r] = Idle /\ version + Cardinality(Writing) < MaxVersions

(* create up to its insert: nobody has the profile, the curriculum exists. *)
BeginCreate(r, s, row) ==
  /\ MayBegin(r)
  /\ history[s] = {} /\ \A q \in Writing : request[q].id # s
  /\ UserFree(student, s, row.user)
  /\ row.curriculum \in curricula
  /\ request' = [request EXCEPT ![r] = [phase |-> "create", id |-> s, row |-> row]]
  /\ UNCHANGED <<peopleVars, curricula, queue, consumerVars, spoiled, outages>>

(* update up to its write.  row is the request's columns over those read;  *)
(* only a curriculum that changes is looked up.                            *)
BeginUpdate(r, s, row) ==
  /\ MayBegin(r)
  /\ student[s] # None
  /\ row.curriculum \in curricula \cup {student[s].curriculum}
  /\ request' = [request EXCEPT ![r] = [phase |-> "update", id |-> s, row |-> row]]
  /\ UNCHANGED <<peopleVars, curricula, queue, consumerVars, spoiled, outages>>

BeginRemove(r, s) ==
  /\ MayBegin(r)
  /\ student[s] # None
  /\ request' = [request EXCEPT ![r] = [phase |-> "remove", id |-> s, row |-> None]]
  /\ UNCHANGED <<peopleVars, curricula, queue, consumerVars, spoiled, outages>>

(* The database accepts the write: an updated or deleted row is still      *)
(* there, and no other profile has the user.                               *)
Writable(job) ==
  /\ job.phase \in {"update", "remove"} => student[job.id] # None
  /\ job.phase \in {"create", "update"} => UserFree(student, job.id, job.row.user)

Write(r) ==
  /\ r \in Writing
  /\ Writable(request[r])
  /\ LET s == request[r].id
         row == request[r].row
     IN /\ student' = [student EXCEPT ![s] = row]
        /\ version' = version + 1
        /\ history' = [history EXCEPT ![s] = @ \cup ({row} \ {None})]
        /\ request' = [request EXCEPT ![r] =
             [phase |-> "publish", event |-> [id |-> s, row |-> row, version |-> version']]]
  /\ UNCHANGED <<curricula, queue, consumerVars, spoiled, outages>>

(* Prisma throws: the request ends without a change. *)
Refused(r) ==
  /\ r \in Writing
  /\ ~Writable(request[r])
  /\ request' = [request EXCEPT ![r] = Idle]
  /\ UNCHANGED <<peopleVars, curricula, queue, consumerVars, spoiled, outages>>

(* publishMessage: the event goes to every queue. *)
Publish(r) ==
  /\ request[r].phase = "publish"
  /\ queue' = [q \in Queue |-> Append(queue[q], request[r].event)]
  /\ request' = [request EXCEPT ![r] = Idle]
  /\ UNCHANGED <<peopleVars, curricula, consumerVars, spoiled, outages>>

(* The broker is out of reach and publishMessage's false goes unread, or   *)
(* the process dies between the commit and the publication.                *)
LoseEvent(r) ==
  /\ request[r].phase = "publish"
  /\ Outage
  /\ request' = [request EXCEPT ![r] = Idle]
  /\ spoiled' = spoiled \cup {"people"}
  /\ UNCHANGED <<peopleVars, curricula, queue, consumerVars>>

(***************************************************************************)
(* The consumers.                                                          *)
(***************************************************************************)
(* The first statement of a handler: academic-service looks the curriculum *)
(* up before an upsert.                                                    *)
FirstStep(c, event) == IF c = "academic" /\ event.row # None THEN "check" ELSE "write"

(* The broker hands the next message to one consumer of the queue. *)
Deliver(c) ==
  /\ process[c] = "up"
  /\ Len(handlers[c]) < MaxHandlers
  /\ queue[QueueOf(c)] # <<>>
  /\ LET event == Head(queue[QueueOf(c)])
     IN handlers' = [handlers EXCEPT ![c] =
                       Append(@, [event |-> event, step |-> FirstStep(c, event)])]
  /\ queue' = [queue EXCEPT ![QueueOf(c)] = Tail(@)]
  /\ UNCHANGED <<peopleVars, curricula, request, process, copy, applied, spoiled, outages>>

(* The i-th handler of c is at step and goes on to next. *)
Continue(c, i, step, next) ==
  /\ handlers[c][i].step = step
  /\ handlers' = [handlers EXCEPT ![c][i].step = next]

(* A curriculum that academic-service does not have ends the handler. *)
CheckCurriculum(c, i) ==
  /\ Continue(c, i, "check",
       IF handlers[c][i].event.row.curriculum \in curricula THEN "write" ELSE "ack")
  /\ UNCHANGED <<peopleVars, curricula, request, queue, process, copy, applied, spoiled, outages>>

(* The constraints of c's table: the unique user, and in core-api and      *)
(* academic-service the foreign key to the curriculum.                     *)
Accepts(c, event) ==
  event.row # None =>
    /\ UserFree(copy[c], event.id, event.row.user)
    /\ c = "core" => event.row.curriculum \in LegacyCurricula
    /\ c = "academic" => event.row.curriculum \in curricula

(* Mutants: the update half, or the create half, forgets a column. *)
UpsertKeepingCurriculum(old, new) ==
  IF old = None \/ new = None THEN new ELSE [new EXCEPT !.curriculum = old.curriculum]
UpsertWithoutUser(old, new) ==
  IF old = None /\ new # None THEN [curriculum |-> new.curriculum, year |-> new.year] ELSE new

(* The row an upsert leaves: update and create name every column. *)
Upsert(old, new) == new

(* upsert, or deleteMany, which is content with no row. *)
Apply(c, i) ==
  LET event == handlers[c][i].event
  IN /\ Accepts(c, event)
     /\ Continue(c, i, "write", "ack")
     /\ copy' = [copy EXCEPT ![c][event.id] = Upsert(@, event.row)]
     /\ spoiled' = spoiled \cup (IF event.version < applied[c] THEN {c} ELSE {})
     /\ applied' = [applied EXCEPT ![c] = IF event.version < @ THEN @ ELSE event.version]
     /\ UNCHANGED <<peopleVars, curricula, request, queue, process, outages>>

(* A message leaves the queue for good: ack, and nack without requeue. *)
Settle(c, i) == handlers' = [handlers EXCEPT ![c] = RemoveAt(@, i)]

Ack(c, i) ==
  /\ handlers[c][i].step = "ack"
  /\ Settle(c, i)
  /\ UNCHANGED <<peopleVars, curricula, request, queue, process, copy, applied, spoiled, outages>>

(* Mutant: nack with requeue, so that the message comes back for ever. *)
RejectAndRequeue(c, i) ==
  /\ handlers[c][i].step = "write"
  /\ ~Accepts(c, handlers[c][i].event)
  /\ Settle(c, i)
  /\ queue' = [queue EXCEPT ![QueueOf(c)] = <<handlers[c][i].event>> \o @]
  /\ spoiled' = spoiled \cup {c}
  /\ UNCHANGED <<peopleVars, curricula, request, process, copy, applied, outages>>

(* The upsert violates a constraint: the message is dropped. *)
Reject(c, i) ==
  /\ handlers[c][i].step = "write"
  /\ ~Accepts(c, handlers[c][i].event)
  /\ Settle(c, i)
  /\ spoiled' = spoiled \cup {c}
  /\ UNCHANGED <<peopleVars, curricula, request, queue, process, copy, applied, outages>>

(* A statement fails for another reason, and so does the message. *)
FailStatement(c, i) ==
  /\ handlers[c][i].step \in {"check", "write"}
  /\ Outage
  /\ Settle(c, i)
  /\ spoiled' = spoiled \cup {c}
  /\ UNCHANGED <<peopleVars, curricula, request, queue, process, copy, applied>>

(* Mutant: noAck, the broker forgets a message when it delivers it. *)
UnackedNothing(c) == <<>>

(* What the broker holds for c without an acknowledgement. *)
Unacked(c) == [i \in DOMAIN handlers[c] |-> handlers[c][i].event]

Requeue(c) == queue' = [queue EXCEPT ![QueueOf(c)] = Unacked(c) \o @]

(* The connection closes.  Its handlers run on, but their acks reach no    *)
(* one: the broker has put the messages back.                              *)
Disconnect(c) ==
  /\ process[c] = "up"
  /\ Outage
  /\ process' = [process EXCEPT ![c] = "cut"]
  /\ Requeue(c)
  /\ UNCHANGED <<peopleVars, curricula, request, handlers, copy, applied, spoiled>>

Crash(c) ==
  /\ process[c] # "down"
  /\ Outage
  /\ process' = [process EXCEPT ![c] = "down"]
  /\ handlers' = [handlers EXCEPT ![c] = <<>>]
  /\ IF process[c] = "up" THEN Requeue(c) ELSE UNCHANGED queue
  /\ UNCHANGED <<peopleVars, curricula, request, copy, applied, spoiled>>

(* The container starts again, and onModuleInit subscribes. *)
Boot(c) ==
  /\ process[c] = "down"
  /\ process' = [process EXCEPT ![c] = "up"]
  /\ UNCHANGED <<peopleVars, curricula, request, queue, handlers, copy, applied, spoiled, outages>>

(* academic-service deletes a curriculum and, by cascade, its students. *)
RemoveCurriculum(k) ==
  /\ k \in curricula
  /\ curricula' = curricula \ {k}
  /\ copy' = [c \in Consumer |-> [s \in StudentId |->
       IF c = "academic" /\ copy[c][s] # None /\ copy[c][s].curriculum = k
       THEN None ELSE copy[c][s]]]
  /\ UNCHANGED <<peopleVars, request, queue, process, handlers, applied, spoiled, outages>>

-----------------------------------------------------------------------------
RequestStep(r) == Write(r) \/ Refused(r) \/ Publish(r)
HandlerStep(c, i) == CheckCurriculum(c, i) \/ Apply(c, i) \/ Ack(c, i) \/ Reject(c, i)

Next ==
  \/ \E r \in Request :
       \/ \E s \in StudentId :
            \/ \E row \in Entered : BeginCreate(r, s, row) \/ BeginUpdate(r, s, row)
            \/ BeginRemove(r, s)
       \/ RequestStep(r)
       \/ LoseEvent(r)
  \/ \E c \in Consumer :
       \/ Deliver(c) \/ Disconnect(c) \/ Crash(c) \/ Boot(c)
       \/ \E i \in DOMAIN handlers[c] : HandlerStep(c, i) \/ FailStatement(c, i)
  \/ \E k \in Curriculum : RemoveCurriculum(k)

(* A request and a handler run to their end, the broker delivers, and a    *)
(* process that died is started again (restart: unless-stopped).  Nothing  *)
(* starts a process again that has only lost its connection.               *)
Fairness ==
  /\ \A r \in Request : WF_vars(RequestStep(r))
  /\ \A c \in Consumer :
       /\ WF_vars(Deliver(c)) /\ WF_vars(Boot(c))
       /\ \A i \in 1..MaxHandlers : WF_vars(i \in DOMAIN handlers[c] /\ HandlerStep(c, i))

Spec == Init /\ [][Next]_vars /\ Fairness

(***************************************************************************)
(* Properties.                                                             *)
(***************************************************************************)
(* Every variable keeps its shape. *)
ShadowTypeOK ==
  /\ student \in [StudentId -> Row \cup {None}]
  /\ curricula \subseteq Curriculum
  /\ version \in 0..MaxVersions
  /\ history \in [StudentId -> SUBSET Row]
  /\ \A r \in Request :
       request[r] \in {Idle} \cup Job \cup [phase : {"publish"}, event : Event]
  /\ \A q \in Queue : \A i \in DOMAIN queue[q] : queue[q][i] \in Event
  /\ process \in [Consumer -> {"up", "cut", "down"}]
  /\ \A c \in Consumer : \A i \in DOMAIN handlers[c] :
       handlers[c][i] \in [event : Event, step : {"check", "write", "ack"}]
  /\ copy \in [Consumer -> [StudentId -> Row \cup {None}]]
  /\ applied \in [Consumer -> 0..MaxVersions]
  /\ spoiled \subseteq Consumer \cup {"people"}
  /\ outages \in 0..MaxOutages

(* A shadow row, in whatever order, however often and by whichever service *)
(* its events were handled, is one that people-service really held for     *)
(* that student: no mixture of two versions.                               *)
CopiesAreVersions ==
  \A c \in Consumer, s \in StudentId : copy[c][s] \in history[s] \cup {None}

Sharing(q) == {c \in Consumer : QueueOf(c) = q}
Drained(q) == queue[q] = <<>> /\ \A c \in Sharing(q) : handlers[c] = <<>>
Settled(q) ==
  /\ Sharing(q) # {}
  /\ Drained(q)
  /\ \A r \in Request : request[r].phase # "publish"

(* Once a queue is empty and its handlers have ended, the last word on     *)
(* every student has reached one of the services that share the queue,     *)
(* unless an event was lost, refused or overtaken, or the student's        *)
(* curriculum is gone from academic-service: redelivery, crashes and       *)
(* lost connections alone do no harm.                                      *)
SettledCopyIsCurrent ==
  \A q \in Queue :
    Settled(q) /\ spoiled \cap (Sharing(q) \cup {"people"}) = {} =>
      \A s \in StudentId :
        (q = "people-shadow.academic" /\ student[s] # None => student[s].curriculum \in curricula)
          => \E c \in Sharing(q) : copy[c][s] = student[s]

(* A message that waits is handled, by redelivery if a process dies, and   *)
(* none keeps a queue busy for ever, as long as some service that shares   *)
(* the queue has its connection.                                           *)
QueuesDrain ==
  \A q \in Queue :
    queue[q] # <<>> ~> (Drained(q) \/ \A c \in Sharing(q) : process[c] = "cut")

(* docs/ARCHITECTURE.md:75: the shadow sync keeps the claim studentId of   *)
(* the tokens, which auth-service fills in from its own shadow table.  A   *)
(* student of the register comes to be in that table.                      *)
StudentClaimsKept ==
  \A s \in StudentId :
    student[s] # None ~> (student[s] = None \/ copy["auth"][s] # None)

=============================================================================
