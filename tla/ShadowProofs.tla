---------------------------- MODULE ShadowProofs ----------------------------
(***************************************************************************)
(* Whatever is lost, repeated, refused or overtaken between people-service *)
(* and its shadows, for any services, students and rows and any bounds on  *)
(* versions, handlers and outages: a shadow row is a row people-service    *)
(* has held, and where nothing was lost, refused or overtaken the last row *)
(* is the one the shadow ends with.                                        *)
(***************************************************************************)
EXTENDS ShadowSync, DataProofs, TLAPS

Shadows == [Consumer -> [StudentId -> Row \cup {None}]]

(* Events that tell of a row the student has had, or of none. *)
Genuine ==
  {e \in [id : StudentId, row : Row \cup {None}, version : 1..version] :
     e.row \in history[e.id] \cup {None}}
Handler == [event : Genuine, step : {"check", "write", "ack"}]
Pending == [phase : {"publish"}, event : Genuine]

(* The strengthening: every event on its way is genuine, wherever it is. *)
RequestsGenuine == request \in [Request -> {Idle} \cup Job \cup Pending]
QueuesGenuine == queue \in [Queue -> Seq(Genuine)]
HandlersGenuine == handlers \in [Consumer -> Seq(Handler)]

ShadowInv ==
  /\ version \in Nat
  /\ history \in [StudentId -> SUBSET Row]
  /\ copy \in Shadows
  /\ RequestsGenuine
  /\ QueuesGenuine
  /\ HandlersGenuine
  /\ CopiesAreVersions

-----------------------------------------------------------------------------
(* As histories grow, what was genuine remains so. *)
LEMMA GenuineGrows ==
  ASSUME history \in [StudentId -> SUBSET Row],
         history' \in [StudentId -> SUBSET Row],
         \A s \in StudentId : history[s] \subseteq history'[s],
         version \in Nat, version' \in Nat, version <= version',
         QueuesGenuine, queue' = queue,
         HandlersGenuine, handlers' = handlers
  PROVE  Pending \subseteq Pending' /\ QueuesGenuine' /\ HandlersGenuine'
<1>1. Genuine \subseteq Genuine'
  BY DEF Genuine
<1>2. Pending \subseteq Pending' /\ Handler \subseteq Handler'
  BY <1>1 DEF Pending, Handler
<1>3. Seq(Genuine) \subseteq Seq(Genuine') /\ Seq(Handler) \subseteq Seq(Handler')
  BY <1>1, <1>2, SeqMonotonic
<1> QED BY <1>2, <1>3 DEF QueuesGenuine, HandlersGenuine

LEMMA InitShadowInv == Init => ShadowInv
<1> SUFFICES ASSUME Init PROVE ShadowInv
  OBVIOUS
<1>1. version \in Nat /\ history \in [StudentId -> SUBSET Row] /\ copy \in Shadows
  BY DEF Init, Shadows
<1>2. RequestsGenuine
  BY DEF Init, RequestsGenuine
<1>3. QueuesGenuine
  BY EmptySeq DEF Init, QueuesGenuine
<1>4. HandlersGenuine
  BY EmptySeq DEF Init, HandlersGenuine
<1>5. CopiesAreVersions
  BY DEF Init, CopiesAreVersions
<1> QED BY <1>1, <1>2, <1>3, <1>4, <1>5 DEF ShadowInv

-----------------------------------------------------------------------------
(* The steps of a request. *)
LEMMA RequestKeeps ==
  ASSUME ShadowInv, NEW r \in Request,
         \/ \E s \in StudentId :
              \/ \E row \in Entered : BeginCreate(r, s, row) \/ BeginUpdate(r, s, row)
              \/ BeginRemove(r, s)
         \/ RequestStep(r)
         \/ LoseEvent(r)
  PROVE  ShadowInv'
<1> USE DEF ShadowInv
<1>1. CASE \E s \in StudentId :
              \/ \E row \in Entered : BeginCreate(r, s, row) \/ BeginUpdate(r, s, row)
              \/ BeginRemove(r, s)
  <2>1. \E job \in Job : request' = [request EXCEPT ![r] = job]
    BY <1>1, CatalogueAssumption DEF BeginCreate, BeginUpdate, BeginRemove, Job
  <2>2. UNCHANGED <<peopleVars, queue, consumerVars>>
    BY <1>1 DEF BeginCreate, BeginUpdate, BeginRemove
  <2> QED BY <2>1, <2>2 DEF peopleVars, consumerVars, RequestsGenuine, QueuesGenuine,
              HandlersGenuine, Pending, Handler, Genuine, CopiesAreVersions
<1>2. CASE Write(r)
  <2> DEFINE s == request[r].id
             row == request[r].row
             event == [id |-> s, row |-> row, version |-> version']
  <2>1. request[r] \in Job
    BY <1>2 DEF Write, Writing, RequestsGenuine, Idle, Pending
  <2>2. s \in StudentId /\ row \in Row \cup {None}
    BY <2>1 DEF Job
  <2>3. /\ version' = version + 1
        /\ history' = [history EXCEPT ![s] = @ \cup ({row} \ {None})]
        /\ request' = [request EXCEPT ![r] = [phase |-> "publish", event |-> event]]
        /\ UNCHANGED <<queue, consumerVars>>
    BY <1>2 DEF Write
  <2>4. /\ version' \in Nat /\ version <= version' /\ version' \in 1..version'
        /\ history' \in [StudentId -> SUBSET Row]
        /\ \A t \in StudentId : history[t] \subseteq history'[t]
    BY <2>2, <2>3
  <2>5. Pending \subseteq Pending' /\ QueuesGenuine' /\ HandlersGenuine'
    BY <2>3, <2>4, GenuineGrows DEF consumerVars
  <2>6. row \in history'[s] \cup {None}
    BY <2>2, <2>3
  <2>7. event \in Genuine'
    BY <2>2, <2>4, <2>6 DEF Genuine
  <2>8. [phase |-> "publish", event |-> event] \in Pending'
    BY <2>7 DEF Pending
  <2>9. RequestsGenuine'
    BY <2>3, <2>5, <2>8 DEF RequestsGenuine
  <2>10. CopiesAreVersions' /\ copy' \in Shadows
    BY <2>3, <2>4 DEF consumerVars, CopiesAreVersions
  <2> QED BY <2>4, <2>5, <2>9, <2>10
<1>3. CASE Publish(r)
  <2>1. request[r] \in Pending
    BY <1>3 DEF Publish, RequestsGenuine, Idle, Job
  <2>2. request[r].event \in Genuine
    BY <2>1 DEF Pending
  <2>3. \A q \in Queue : Append(queue[q], request[r].event) \in Seq(Genuine)
    BY <2>2, AppendProperties DEF QueuesGenuine
  <2>4. UNCHANGED <<peopleVars, consumerVars>>
    BY <1>3 DEF Publish
  <2>5. Genuine' = Genuine /\ Handler' = Handler /\ Pending' = Pending
    BY <2>4 DEF peopleVars, Genuine, Handler, Pending
  <2>6. QueuesGenuine'
    BY <1>3, <2>3, <2>5 DEF Publish, QueuesGenuine
  <2>7. RequestsGenuine'
    BY <1>3, <2>5 DEF Publish, RequestsGenuine
  <2> QED BY <2>4, <2>5, <2>6, <2>7
          DEF peopleVars, consumerVars, HandlersGenuine, CopiesAreVersions
<1>4. CASE Refused(r) \/ LoseEvent(r)
  <2>1. /\ request' = [request EXCEPT ![r] = Idle]
        /\ UNCHANGED <<peopleVars, queue, consumerVars>>
    BY <1>4 DEF Refused, LoseEvent
  <2> QED BY <2>1 DEF peopleVars, consumerVars, RequestsGenuine, QueuesGenuine,
              HandlersGenuine, Pending, Handler, Genuine, CopiesAreVersions
<1> QED BY <1>1, <1>2, <1>3, <1>4 DEF RequestStep

-----------------------------------------------------------------------------
(* The steps of a consumer. *)

(* A step that leaves the register, the histories and the requests alone  *)
(* does not change which events are genuine.                              *)
LEMMA GenuineStays ==
  ASSUME UNCHANGED <<peopleVars, request>>
  PROVE  /\ Genuine' = Genuine /\ Handler' = Handler /\ Pending' = Pending
         /\ ShadowInv => /\ RequestsGenuine'
                         /\ version' \in Nat
                         /\ history' \in [StudentId -> SUBSET Row]
BY DEF peopleVars, Genuine, Handler, Pending, RequestsGenuine, ShadowInv

(* Handlers that are a genuine sequence for c and as before for the others. *)
LEMMA HandlersReplaced ==
  ASSUME ShadowInv, NEW c \in Consumer, NEW hs \in Seq(Handler),
         handlers' = [handlers EXCEPT ![c] = hs], Handler' = Handler
  PROVE  HandlersGenuine'
BY DEF ShadowInv, HandlersGenuine

(* What c's broker holds back is genuine, and so is the queue with it. *)
LEMMA RequeueGenuine ==
  ASSUME ShadowInv, NEW c \in Consumer, Requeue(c), Genuine' = Genuine
  PROVE  QueuesGenuine'
<1>1. handlers[c] \in Seq(Handler)
  BY DEF ShadowInv, HandlersGenuine
<1>2. Unacked(c) \in Seq(Genuine)
  <2>1. DOMAIN handlers[c] = 1..Len(handlers[c]) /\ Len(handlers[c]) \in Nat
    BY <1>1, LenProperties
  <2>2. \A i \in DOMAIN handlers[c] : handlers[c][i] \in Handler
    BY <1>1, <2>1, ElementOfSeq
  <2>3. \A i \in DOMAIN handlers[c] : handlers[c][i].event \in Genuine
    BY <2>2 DEF Handler
  <2> QED BY <2>1, <2>3, IsASeq DEF Unacked
<1>3. QueueOf(c) \in Queue
  BY DEF QueueOf, Queue
<1>4. Unacked(c) \o queue[QueueOf(c)] \in Seq(Genuine)
  BY <1>2, <1>3, ConcatProperties DEF ShadowInv, QueuesGenuine
<1> QED BY <1>3, <1>4 DEF Requeue, ShadowInv, QueuesGenuine

LEMMA ConsumerKeeps ==
  ASSUME ShadowInv, NEW c \in Consumer,
         Deliver(c) \/ Disconnect(c) \/ Crash(c) \/ Boot(c)
  PROVE  ShadowInv'
<1>1. UNCHANGED <<peopleVars, request, copy>>
  BY DEF Deliver, Disconnect, Crash, Boot
<1>2. /\ Genuine' = Genuine /\ Handler' = Handler
      /\ RequestsGenuine' /\ version' \in Nat /\ history' \in [StudentId -> SUBSET Row]
  BY <1>1, GenuineStays
<1>3. copy' \in Shadows /\ CopiesAreVersions'
  BY <1>1 DEF peopleVars, ShadowInv, CopiesAreVersions, Shadows
<1>4. QueuesGenuine' /\ HandlersGenuine'
  <2>1. CASE Deliver(c)
    <3> DEFINE q == QueueOf(c)
               event == Head(queue[q])
               new == [event |-> event, step |-> FirstStep(c, event)]
    <3>1. q \in Queue /\ queue[q] \in Seq(Genuine) /\ queue[q] # <<>>
      BY <2>1 DEF Deliver, QueueOf, Queue, ShadowInv, QueuesGenuine
    <3>2. event \in Genuine /\ Tail(queue[q]) \in Seq(Genuine)
      BY <3>1, HeadTailProperties
    <3>3. new \in Handler
      BY <3>2 DEF FirstStep, Handler
    <3>4. Append(handlers[c], new) \in Seq(Handler)
      BY <3>3, AppendProperties DEF ShadowInv, HandlersGenuine
    <3>5. handlers' = [handlers EXCEPT ![c] = Append(handlers[c], new)]
      BY <2>1 DEF Deliver
    <3>6. HandlersGenuine'
      BY <1>2, <3>4, <3>5, HandlersReplaced
    <3>7. queue' = [queue EXCEPT ![q] = Tail(queue[q])]
      BY <2>1 DEF Deliver
    <3> QED BY <1>2, <3>1, <3>2, <3>6, <3>7 DEF ShadowInv, QueuesGenuine
  <2>2. CASE Disconnect(c)
    BY <1>2, <2>2, RequeueGenuine DEF Disconnect, ShadowInv, HandlersGenuine
  <2>3. CASE Crash(c)
    <3>1. QueuesGenuine'
      BY <1>2, <2>3, RequeueGenuine DEF Crash, ShadowInv, QueuesGenuine
    <3>2. HandlersGenuine'
      BY <1>2, <2>3, EmptySeq, HandlersReplaced DEF Crash
    <3> QED BY <3>1, <3>2
  <2>4. CASE Boot(c)
    BY <1>2, <2>4 DEF Boot, ShadowInv, QueuesGenuine, HandlersGenuine
  <2> QED BY <2>1, <2>2, <2>3, <2>4
<1> QED BY <1>2, <1>3, <1>4 DEF ShadowInv

(* The steps of one handler. *)
LEMMA HandlerKeeps ==
  ASSUME ShadowInv, NEW c \in Consumer, NEW i \in DOMAIN handlers[c],
         HandlerStep(c, i) \/ FailStatement(c, i)
  PROVE  ShadowInv'
<1> DEFINE event == handlers[c][i].event
<1>1. UNCHANGED <<peopleVars, request, queue>>
  BY DEF HandlerStep, FailStatement, CheckCurriculum, Apply, Ack, Reject
<1>2. /\ Genuine' = Genuine /\ Handler' = Handler
      /\ RequestsGenuine' /\ version' \in Nat /\ history' \in [StudentId -> SUBSET Row]
  BY <1>1, GenuineStays
<1>3. QueuesGenuine'
  BY <1>1, <1>2 DEF ShadowInv, QueuesGenuine
<1>4. handlers[c] \in Seq(Handler) /\ i \in 1..Len(handlers[c])
  BY LenProperties DEF ShadowInv, HandlersGenuine
<1>5. handlers[c][i] \in Handler
  BY <1>4, ElementOfSeq
<1>6. HandlersGenuine'
  <2>1. CASE \E step, next \in {"check", "write", "ack"} : Continue(c, i, step, next)
    <3>1. PICK next \in {"check", "write", "ack"} :
            handlers' = [handlers EXCEPT ![c][i].step = next]
      BY <2>1 DEF Continue
    <3>2. [handlers[c][i] EXCEPT !.step = next] \in Handler
      BY <1>5 DEF Handler
    <3>3. [handlers[c] EXCEPT ![i] = [@ EXCEPT !.step = next]] \in Seq(Handler)
      BY <1>4, <3>2, ExceptSeq
    <3> QED BY <1>2, <3>1, <3>3, HandlersReplaced
  <2>2. CASE Settle(c, i)
    BY <1>2, <1>4, <2>2, RemoveAtLists, HandlersReplaced DEF Settle
  <2>3. \/ \E step, next \in {"check", "write", "ack"} : Continue(c, i, step, next)
        \/ Settle(c, i)
    BY DEF HandlerStep, FailStatement, CheckCurriculum, Apply, Ack, Reject
  <2> QED BY <2>1, <2>2, <2>3
<1>7. copy' \in Shadows /\ CopiesAreVersions'
  <2>1. CASE Apply(c, i)
    <3>1. copy' = [copy EXCEPT ![c][event.id] = event.row]
      BY <2>1 DEF Apply, Upsert
    <3>2. event.id \in StudentId /\ event.row \in Row \cup {None}
          /\ event.row \in history[event.id] \cup {None}
      BY <1>5 DEF Handler, Genuine
    <3>3. copy' \in Shadows
      BY <3>1, <3>2 DEF ShadowInv, Shadows
    <3>4. \A d \in Consumer, s \in StudentId :
            copy'[d][s] = IF d = c /\ s = event.id THEN event.row ELSE copy[d][s]
      BY <3>1, <3>2 DEF ShadowInv, Shadows
    <3> QED BY <1>1, <3>2, <3>3, <3>4 DEF peopleVars, ShadowInv, CopiesAreVersions
  <2>2. CASE ~Apply(c, i)
    <3>1. UNCHANGED copy
      BY <2>2 DEF HandlerStep, FailStatement, CheckCurriculum, Ack, Reject
    <3> QED BY <1>1, <3>1 DEF peopleVars, ShadowInv, CopiesAreVersions, Shadows
  <2> QED BY <2>1, <2>2
<1> QED BY <1>2, <1>3, <1>6, <1>7 DEF ShadowInv

-----------------------------------------------------------------------------
LEMMA NextKeepsShadowInv == ShadowInv /\ [Next]_vars => ShadowInv'
<1> SUFFICES ASSUME ShadowInv, [Next]_vars PROVE ShadowInv'
  OBVIOUS
<1>1. CASE \E k \in Curriculum : RemoveCurriculum(k)
  <2>1. UNCHANGED <<peopleVars, request, queue, handlers>>
    BY <1>1 DEF RemoveCurriculum
  <2>2. /\ Genuine' = Genuine /\ Handler' = Handler
        /\ RequestsGenuine' /\ version' \in Nat /\ history' \in [StudentId -> SUBSET Row]
    BY <2>1, GenuineStays
  <2>3. copy' \in Shadows
    BY <1>1 DEF RemoveCurriculum, ShadowInv, Shadows
  <2>4. \A c \in Consumer, s \in StudentId : copy'[c][s] \in {None, copy[c][s]}
    BY <1>1 DEF RemoveCurriculum
  <2>5. CopiesAreVersions'
    BY <2>1, <2>4 DEF peopleVars, ShadowInv, CopiesAreVersions
  <2> QED BY <2>1, <2>2, <2>3, <2>5 DEF ShadowInv, QueuesGenuine, HandlersGenuine
<1>2. CASE UNCHANGED vars
  <2>1. UNCHANGED <<peopleVars, request, queue, handlers, copy>>
    BY <1>2 DEF vars, consumerVars
  <2>2. /\ Genuine' = Genuine /\ Handler' = Handler
        /\ RequestsGenuine' /\ version' \in Nat /\ history' \in [StudentId -> SUBSET Row]
    BY <2>1, GenuineStays
  <2> QED BY <2>1, <2>2 DEF peopleVars, ShadowInv, QueuesGenuine, HandlersGenuine,
              CopiesAreVersions, Shadows
<1> QED BY <1>1, <1>2, RequestKeeps, ConsumerKeeps, HandlerKeeps DEF Next

(* However its events are delayed, repeated, dropped or reordered, and     *)
(* whichever service handles them, a shadow row is a row that              *)
(* people-service has held for that student.                               *)
THEOREM CopiesAlwaysVersions == Spec => []CopiesAreVersions
<1>1. ShadowInv => CopiesAreVersions
  BY DEF ShadowInv
<1> QED BY <1>1, InitShadowInv, NextKeepsShadowInv, PTL DEF Spec

-----------------------------------------------------------------------------
(* The other variables, without the bounds of the runs but where a guard   *)
(* counts.                                                                 *)
ShadowShape ==
  /\ student \in [StudentId -> Row \cup {None}]
  /\ curricula \subseteq Curriculum
  /\ version + Cardinality(Writing) <= MaxVersions
  /\ process \in [Consumer -> {"up", "cut", "down"}]
  /\ applied \in [Consumer -> 0..version]
  /\ spoiled \subseteq Consumer \cup {"people"}
  /\ outages \in 0..MaxOutages

LEMMA WritingIsFinite ==
  /\ IsFiniteSet(Writing) /\ Cardinality(Writing) \in Nat
  /\ IsFiniteSet(Writing') /\ Cardinality(Writing') \in Nat
<1>1. Writing \subseteq Request /\ Writing' \subseteq Request /\ IsFiniteSet(Request)
  BY ShadowBounds DEF Writing
<1> QED BY <1>1, FS_Subset, FS_CardinalityType

LEMMA InitShadowShape == Init => ShadowShape
<1> SUFFICES ASSUME Init PROVE ShadowShape
  OBVIOUS
<1>1. Writing = {}
  BY DEF Init, Writing, Idle
<1>2. version + Cardinality(Writing) <= MaxVersions
  BY <1>1, FS_EmptySet, ShadowBounds DEF Init
<1> QED BY <1>2, ShadowBounds DEF Init, ShadowShape

(* The requests that will write, after each step of one. *)
LEMMA WritingNext ==
  ASSUME ShadowInv, NEW r \in Request
  PROVE  /\ \A job \in Job : request' = [request EXCEPT ![r] = job] => Writing' \subseteq Writing \cup {r}
         /\ r \in Writing /\ (\E e : request' = [request EXCEPT ![r] = [phase |-> "publish", event |-> e]])
              => Writing' = Writing \ {r}
         /\ request' = [request EXCEPT ![r] = Idle] => Writing' \subseteq Writing
<1>1. request \in [Request -> {Idle} \cup Job \cup Pending]
  BY DEF ShadowInv, RequestsGenuine
<1> QED BY <1>1 DEF Writing, Idle, Pending

LEMMA RequestKeepsShape ==
  ASSUME ShadowInv, ShadowShape, NEW r \in Request,
         \/ \E s \in StudentId :
              \/ \E row \in Entered : BeginCreate(r, s, row) \/ BeginUpdate(r, s, row)
              \/ BeginRemove(r, s)
         \/ RequestStep(r)
         \/ LoseEvent(r)
  PROVE  ShadowShape'
<1> USE DEF ShadowShape
<1>1. version \in Nat /\ MaxVersions \in Nat /\ MaxOutages \in Nat
  BY ShadowBounds DEF ShadowInv
<1>2. CASE \E s \in StudentId :
              \/ \E row \in Entered : BeginCreate(r, s, row) \/ BeginUpdate(r, s, row)
              \/ BeginRemove(r, s)
  <2>1. \E job \in Job : request' = [request EXCEPT ![r] = job]
    BY <1>2, CatalogueAssumption DEF BeginCreate, BeginUpdate, BeginRemove, Job
  <2>2. MayBegin(r) /\ UNCHANGED <<peopleVars, curricula, consumerVars, spoiled, outages>>
    BY <1>2 DEF BeginCreate, BeginUpdate, BeginRemove
  <2>3. Writing' \subseteq Writing \cup {r}
    BY <2>1, WritingNext
  <2>4. Cardinality(Writing') <= Cardinality(Writing) + 1
    <3>1. /\ IsFiniteSet(Writing \cup {r})
          /\ Cardinality(Writing \cup {r}) = IF r \in Writing THEN Cardinality(Writing) ELSE Cardinality(Writing) + 1
      BY WritingIsFinite, FS_AddElement
    <3>2. Cardinality(Writing') <= Cardinality(Writing \cup {r})
      BY <2>3, <3>1, FS_Subset
    <3> QED BY <3>1, <3>2, WritingIsFinite
  <2>5. version' + Cardinality(Writing') <= MaxVersions
    BY <1>1, <2>2, <2>4, WritingIsFinite DEF MayBegin, peopleVars
  <2> QED BY <2>2, <2>5 DEF peopleVars, consumerVars
<1>3. CASE Write(r)
  <2>1. request[r] \in Job /\ r \in Writing
    BY <1>3 DEF Write, Writing, ShadowInv, RequestsGenuine, Idle, Pending
  <2>2. student' \in [StudentId -> Row \cup {None}]
    <3>1. request[r].row \in Row \cup {None}
      BY <2>1 DEF Job
    <3> QED BY <1>3, <3>1 DEF Write
  <2>3. version' = version + 1 /\ UNCHANGED <<curricula, consumerVars, spoiled, outages>>
    BY <1>3 DEF Write
  <2>4. Writing' = Writing \ {r}
    BY <1>3, <2>1, WritingNext DEF Write
  <2>5. Cardinality(Writing') = Cardinality(Writing) - 1
    BY <2>1, <2>4, WritingIsFinite, FS_RemoveElement
  <2>6. version' + Cardinality(Writing') <= MaxVersions
    BY <1>1, <2>3, <2>5, WritingIsFinite
  <2>7. applied' \in [Consumer -> 0..version']
    BY <1>1, <2>3 DEF consumerVars
  <2> QED BY <2>2, <2>3, <2>6, <2>7 DEF consumerVars
<1>4. CASE Publish(r) \/ Refused(r) \/ LoseEvent(r)
  <2>1. /\ request' = [request EXCEPT ![r] = Idle]
        /\ UNCHANGED <<peopleVars, curricula, consumerVars>>
        /\ spoiled' \in {spoiled, spoiled \cup {"people"}} /\ outages' \in 0..MaxOutages
    BY <1>1, <1>4 DEF Publish, Refused, LoseEvent, Outage
  <2>2. Cardinality(Writing') <= Cardinality(Writing)
    BY <2>1, WritingNext, WritingIsFinite, FS_Subset
  <2>3. version' + Cardinality(Writing') <= MaxVersions
    BY <1>1, <2>1, <2>2, WritingIsFinite DEF peopleVars
  <2> QED BY <2>1, <2>3 DEF peopleVars, consumerVars
<1> QED BY <1>2, <1>3, <1>4 DEF RequestStep

LEMMA OthersKeepShape ==
  ASSUME ShadowInv, ShadowShape,
         UNCHANGED <<student, version, request>>,
         curricula' \subseteq curricula,
         process' \in [Consumer -> {"up", "cut", "down"}],
         applied' \in [Consumer -> 0..version],
         spoiled' \subseteq Consumer \cup {"people"},
         outages' \in 0..MaxOutages
  PROVE  ShadowShape'
<1>1. Writing' = Writing
  BY DEF Writing
<1> QED BY <1>1 DEF ShadowShape

LEMMA NextKeepsShape == ShadowInv /\ ShadowShape /\ [Next]_vars => ShadowShape'
<1> SUFFICES ASSUME ShadowInv, ShadowShape, [Next]_vars PROVE ShadowShape'
  OBVIOUS
<1>1. version \in Nat /\ MaxVersions \in Nat /\ MaxOutages \in Nat
  BY ShadowBounds DEF ShadowInv
<1>2. ASSUME NEW c \in Consumer,
             Deliver(c) \/ Disconnect(c) \/ Crash(c) \/ Boot(c)
      PROVE  ShadowShape'
  <2>1. /\ UNCHANGED <<student, version, request, curricula, applied, spoiled>>
        /\ process' = process \/ \E p \in {"up", "cut", "down"} : process' = [process EXCEPT ![c] = p]
        /\ outages' \in 0..MaxOutages
    BY <1>1, <1>2 DEF Deliver, Disconnect, Crash, Boot, Outage, peopleVars, ShadowShape
  <2>2. process' \in [Consumer -> {"up", "cut", "down"}]
    BY <2>1 DEF ShadowShape
  <2> QED BY <2>1, <2>2, OthersKeepShape DEF ShadowShape
<1>3. ASSUME NEW c \in Consumer, NEW i \in DOMAIN handlers[c], HandlerStep(c, i) \/ FailStatement(c, i)
      PROVE  ShadowShape'
  <2>1. /\ UNCHANGED <<student, version, request, curricula, process>>
        /\ spoiled' \subseteq spoiled \cup {c} /\ outages' \in 0..MaxOutages
    BY <1>1, <1>3 DEF HandlerStep, FailStatement, CheckCurriculum, Apply, Ack, Reject, Outage, peopleVars, ShadowShape
  <2>2. applied' \in [Consumer -> 0..version]
    <3>1. handlers[c][i] \in Handler
      BY ElementOfSeq, LenProperties DEF ShadowInv, HandlersGenuine
    <3>2. handlers[c][i].event.version \in 0..version
      BY <1>1, <3>1 DEF Handler, Genuine
    <3>3. CASE Apply(c, i)
      BY <3>2, <3>3 DEF Apply, ShadowShape
    <3>4. CASE ~Apply(c, i)
      BY <1>3, <3>4 DEF HandlerStep, FailStatement, CheckCurriculum, Ack, Reject, ShadowShape
    <3> QED BY <3>3, <3>4
  <2> QED BY <2>1, <2>2, OthersKeepShape DEF ShadowShape
<1>4. CASE \E k \in Curriculum : RemoveCurriculum(k)
  BY <1>4, OthersKeepShape DEF RemoveCurriculum, peopleVars, ShadowShape
<1>5. CASE UNCHANGED vars
  BY <1>5, OthersKeepShape DEF vars, peopleVars, consumerVars, ShadowShape
<1> QED BY <1>2, <1>3, <1>4, <1>5, RequestKeepsShape DEF Next

(* Every variable keeps its shape: the register changes no more often, and *)
(* no more fails, than the bounds say.                                     *)
THEOREM ShadowTypesHold == Spec => []ShadowTypeOK
<1>1. ShadowInv /\ ShadowShape => ShadowTypeOK
  <2> SUFFICES ASSUME ShadowInv, ShadowShape PROVE ShadowTypeOK
    OBVIOUS
  <2>1. version \in 0..MaxVersions /\ 0..version \subseteq 0..MaxVersions /\ 1..version \subseteq 1..MaxVersions
    BY ShadowBounds, WritingIsFinite DEF ShadowInv, ShadowShape
  <2>2. Genuine \subseteq Event
    BY <2>1 DEF Genuine, Event
  <2>3. \A r \in Request : request[r] \in {Idle} \cup Job \cup [phase : {"publish"}, event : Event]
    BY <2>2 DEF ShadowInv, RequestsGenuine, Pending
  <2>4. \A q \in Queue : \A i \in DOMAIN queue[q] : queue[q][i] \in Event
    BY <2>2, ElementOfSeq, LenProperties DEF ShadowInv, QueuesGenuine
  <2>5. \A c \in Consumer : \A i \in DOMAIN handlers[c] :
          handlers[c][i] \in [event : Event, step : {"check", "write", "ack"}]
    <3>1. Handler \subseteq [event : Event, step : {"check", "write", "ack"}]
      BY <2>2 DEF Handler
    <3> QED BY <3>1, ElementOfSeq, LenProperties DEF ShadowInv, HandlersGenuine
  <2> QED BY <2>1, <2>3, <2>4, <2>5 DEF ShadowInv, ShadowShape, ShadowTypeOK, Shadows
<1> QED BY <1>1, InitShadowInv, NextKeepsShadowInv, InitShadowShape, NextKeepsShape, PTL DEF Spec

-----------------------------------------------------------------------------
(***************************************************************************)
(* The last word on a student: it is on its way to a queue's services, or  *)
(* it has reached one of them.                                             *)
(***************************************************************************)
Published(e) == \E r \in Request : request[r] = [phase |-> "publish", event |-> e]

(* An event that c handles: at all, or so that it will be written or come  *)
(* back.                                                                   *)
Handles(c, e) == \E i \in DOMAIN handlers[c] : handlers[c][i].event = e
MustHandle(c, e) ==
  process[c] = "up" /\ \E i \in DOMAIN handlers[c] : handlers[c][i].event = e /\ handlers[c][i].step # "ack"

OnItsWay(q, e) == Published(e) \/ Lists(queue[q], e) \/ \E c \in Sharing(q) : Handles(c, e)
Due(q, e) == Published(e) \/ Lists(queue[q], e) \/ \E c \in Sharing(q) : MustHandle(c, e)

(* The curriculum of the student's row is gone: academic-service will not  *)
(* write the row.                                                          *)
Bereft(q, s) ==
  q = "people-shadow.academic" /\ student[s] # None /\ student[s].curriculum \notin curricula

(* One of the services that share q has the student's row as of v.         *)
Reached(q, s, v) ==
  Bereft(q, s) \/ \E c \in Sharing(q) : applied[c] >= v /\ copy[c][s] = student[s]

(* v is the version of the student's last change: nothing on its way to q  *)
(* is newer, and the row has reached a service or an event still to be     *)
(* written brings it.                                                      *)
LastWord(q, s, v) ==
  /\ \A e \in Event : OnItsWay(q, e) /\ e.id = s =>
       e.version <= v /\ (e.version = v => e.row = student[s])
  /\ Reached(q, s, v) \/ \E e \in Event : Due(q, e) /\ e.id = s /\ e.version = v

Unspoiled(q) == Sharing(q) # {} /\ spoiled \cap (Sharing(q) \cup {"people"}) = {}

LastWordArrives ==
  \A q \in Queue : Unspoiled(q) => \A s \in StudentId : \E v \in 0..version : LastWord(q, s, v)

ShadowWord == ShadowInv /\ ShadowShape /\ LastWordArrives

LEMMA EventsOnTheirWay ==
  ASSUME ShadowInv, ShadowShape
  PROVE  /\ version \in 0..MaxVersions /\ Genuine \subseteq Event
         /\ \A q \in Queue : \A e : OnItsWay(q, e) => e \in Genuine /\ e.version \in 1..version
         /\ \A q \in Queue : \A e : Due(q, e) => OnItsWay(q, e)
<1>1. version \in 0..MaxVersions /\ 1..version \subseteq 1..MaxVersions
  BY ShadowBounds, WritingIsFinite DEF ShadowInv, ShadowShape
<1>2. Genuine \subseteq Event
  BY <1>1 DEF Genuine, Event
<1>3. ASSUME NEW e, Published(e) PROVE e \in Genuine
  <2>1. PICK r \in Request : request[r] = [phase |-> "publish", event |-> e]
    BY <1>3 DEF Published
  <2>2. request[r] \in Pending
    <3>1. request[r].phase = "publish" /\ request[r] \in {Idle} \cup Job \cup Pending
      BY <2>1 DEF ShadowInv, RequestsGenuine
    <3> QED BY <3>1 DEF Idle, Job
  <2>3. request[r].event \in Genuine
    BY <2>2 DEF Pending
  <2> QED BY <2>1, <2>3
<1>4. ASSUME NEW q \in Queue, NEW e, Lists(queue[q], e) PROVE e \in Genuine
  BY <1>4, ElementOfSeq, LenProperties DEF Lists, ShadowInv, QueuesGenuine
<1>5. ASSUME NEW c \in Consumer, NEW e, Handles(c, e) PROVE e \in Genuine
  <2>1. PICK i \in DOMAIN handlers[c] : handlers[c][i].event = e
    BY <1>5 DEF Handles
  <2>2. handlers[c][i] \in Handler
    BY ElementOfSeq, LenProperties DEF ShadowInv, HandlersGenuine
  <2> QED BY <2>1, <2>2 DEF Handler
<1>6. \A e \in Genuine : e.version \in 1..version
  BY DEF Genuine
<1>7. ASSUME NEW q \in Queue, NEW e, OnItsWay(q, e) PROVE e \in Genuine
  BY <1>3, <1>4, <1>5, <1>7 DEF OnItsWay, Sharing
<1>8. \A q \in Queue : \A e : Due(q, e) => OnItsWay(q, e)
  BY DEF Due, OnItsWay, MustHandle, Handles
<1> QED BY <1>1, <1>2, <1>6, <1>7, <1>8

LEMMA InitShadowWord == Init => ShadowWord
<1> SUFFICES ASSUME Init PROVE LastWordArrives
  BY InitShadowInv, InitShadowShape DEF ShadowWord
<1> SUFFICES ASSUME NEW q \in Queue, Unspoiled(q), NEW s \in StudentId
             PROVE  LastWord(q, s, 0) /\ 0 \in 0..version
  BY DEF LastWordArrives
<1>1. version = 0 /\ student[s] = None
  BY DEF Init
<1>2. PICK c \in Sharing(q) : TRUE
  BY DEF Unspoiled
<1>3. Reached(q, s, 0)
  BY <1>1, <1>2 DEF Reached, Init, Sharing
<1>4. \A e \in Event : ~OnItsWay(q, e)
  <2> SUFFICES ASSUME NEW e \in Event, OnItsWay(q, e) PROVE FALSE
    OBVIOUS
  <2>1. e.version \in 1..version
    BY InitShadowInv, InitShadowShape, EventsOnTheirWay
  <2> QED BY <1>1, <2>1
<1> QED BY <1>1, <1>3, <1>4 DEF LastWord

(* A step that brings no event of the student up, and drops none that is   *)
(* due but by writing it, leaves the last word what it is.                 *)
LEMMA WordKept ==
  ASSUME NEW q \in Queue, NEW s \in StudentId, NEW v \in Nat, LastWord(q, s, v),
         student'[s] = student[s],
         \A e \in Event : OnItsWay(q, e)' /\ e.id = s => OnItsWay(q, e),
         \A e \in Event : Due(q, e) /\ e.id = s /\ e.version = v => Due(q, e)' \/ Reached(q, s, v)',
         Reached(q, s, v) => Reached(q, s, v)'
  PROVE  LastWord(q, s, v)'
BY DEF LastWord

(* It suffices to show that of each queue and student.                     *)
LEMMA WordsKept ==
  ASSUME ShadowWord, version \in Nat, version' \in Nat, version <= version', spoiled \subseteq spoiled',
         \A q \in Queue, s \in StudentId, v \in 0..version :
           Unspoiled(q)' /\ LastWord(q, s, v) => LastWord(q, s, v)'
  PROVE  LastWordArrives'
<1>1. \A q \in Queue : Sharing(q)' = Sharing(q)
  BY DEF Sharing, QueueOf
<1> SUFFICES ASSUME NEW q \in Queue, Unspoiled(q)', NEW s \in StudentId
             PROVE  \E v \in 0..version' : LastWord(q, s, v)'
  BY DEF LastWordArrives
<1>2. Unspoiled(q)
  BY <1>1 DEF Unspoiled
<1>3. PICK v \in 0..version : LastWord(q, s, v)
  BY <1>2 DEF ShadowWord, LastWordArrives
<1>4. v \in 0..version'
  BY <1>3
<1> QED BY <1>3, <1>4

(* The register and the copies stay as they are.                           *)
LEMMA ReachedStays ==
  ASSUME NEW q, NEW s, NEW v, UNCHANGED <<student, curricula, copy, applied>>
  PROVE  Reached(q, s, v)' <=> Reached(q, s, v)
BY DEF Reached, Bereft, Sharing, QueueOf

(* No event appears, goes, or is handled.                                  *)
LEMMA WordStays ==
  ASSUME NEW q \in Queue, NEW s \in StudentId, NEW v \in Nat, LastWord(q, s, v),
         student'[s] = student[s], Reached(q, s, v) => Reached(q, s, v)',
         \A e \in Event : e.id = s => (Published(e)' <=> Published(e)),
         UNCHANGED <<queue, handlers, process>>
  PROVE  LastWord(q, s, v)'
<1>1. Sharing(q)' = Sharing(q)
  BY DEF Sharing, QueueOf
<1>2. ASSUME NEW e \in Event, e.id = s PROVE (OnItsWay(q, e)' <=> OnItsWay(q, e)) /\ (Due(q, e)' <=> Due(q, e))
  BY <1>1, <1>2 DEF OnItsWay, Due, Lists, Handles, MustHandle
<1> QED BY <1>2, WordKept

-----------------------------------------------------------------------------
(* A change of the register: its event is the last word on the student.    *)
LEMMA WriteKeepsWord ==
  ASSUME ShadowWord, NEW r \in Request, Write(r)
  PROVE  LastWordArrives'
<1> USE DEF ShadowWord
<1>1. /\ request[r] \in Job /\ r \in Writing /\ version \in Nat
      /\ request \in [Request -> {Idle} \cup Job \cup Pending]
  BY DEF Write, Writing, ShadowInv, RequestsGenuine, Idle, Pending
<1>2. PICK n \in Nat : n = version + 1
  BY <1>1
<1>3. PICK o \in StudentId : o = request[r].id
  BY <1>1 DEF Job
<1>4. PICK row \in Row \cup {None} : row = request[r].row
  BY <1>1 DEF Job
<1> DEFINE new == [id |-> o, row |-> row, version |-> n]
<1>5. /\ student' = [student EXCEPT ![o] = row] /\ version' = n
      /\ request' = [request EXCEPT ![r] = [phase |-> "publish", event |-> new]]
      /\ UNCHANGED <<curricula, queue, consumerVars, spoiled, outages>>
  BY <1>2, <1>3, <1>4 DEF Write
<1>6. n \in 1..MaxVersions
  <2>1. Cardinality(Writing) # 0
    BY <1>1, WritingIsFinite, FS_EmptySet
  <2> QED BY <1>1, <1>2, <2>1, WritingIsFinite, ShadowBounds DEF ShadowShape
<1>7. new \in Event /\ new.id = o /\ new.row = row /\ new.version = n
  BY <1>6 DEF Event
<1> HIDE DEF new
<1>8. \A e : Published(e)' <=> Published(e) \/ e = new
  <2>1. \A e : request[r] # [phase |-> "publish", event |-> e]
    BY <1>1 DEF Job
  <2>2. \A p \in Request : request'[p] = IF p = r THEN [phase |-> "publish", event |-> new] ELSE request[p]
    BY <1>1, <1>5
  <2>3. \A e, f : [phase |-> "publish", event |-> e] = [phase |-> "publish", event |-> f] => e = f
    <3> SUFFICES ASSUME NEW e, NEW f, [phase |-> "publish", event |-> e] = [phase |-> "publish", event |-> f]
                 PROVE  e = f
      OBVIOUS
    <3>1. [phase |-> "publish", event |-> e].event = [phase |-> "publish", event |-> f].event
      OBVIOUS
    <3> QED BY <3>1
  <2> QED BY <2>1, <2>2, <2>3 DEF Published
<1>9. UNCHANGED <<queue, handlers, process, copy, applied, curricula, spoiled>>
  BY <1>5 DEF consumerVars
<1>10. \A q \in Queue : \A e : (OnItsWay(q, e)' => OnItsWay(q, e) \/ e = new) /\ Due(q, new)'
  BY <1>8, <1>9 DEF OnItsWay, Due, Sharing, QueueOf, Lists, Handles, MustHandle
<1> SUFFICES ASSUME NEW q \in Queue, Unspoiled(q)', NEW s \in StudentId
             PROVE  \E v \in 0..version' : LastWord(q, s, v)'
  BY DEF LastWordArrives
<1>11. CASE s = o
  <2>1. \A e \in Event : OnItsWay(q, e)' /\ e.id = s => e.version <= n /\ (e.version = n => e.row = row)
    <3> SUFFICES ASSUME NEW e \in Event, OnItsWay(q, e) PROVE e.version <= n /\ e.version # n
      BY <1>7, <1>10
    <3>1. e.version \in 1..version
      BY EventsOnTheirWay
    <3> QED BY <1>1, <1>2, <3>1
  <2>2. student'[s] = row
    BY <1>5, <1>11 DEF ShadowShape
  <2>3. LastWord(q, s, n)'
    BY <1>7, <1>10, <1>11, <2>1, <2>2 DEF LastWord
  <2> QED BY <1>1, <1>2, <1>5, <2>3
<1>12. CASE s # o
  <2>1. Unspoiled(q)
    BY <1>9 DEF Unspoiled, Sharing, QueueOf
  <2>2. PICK v \in 0..version : LastWord(q, s, v)
    BY <2>1 DEF LastWordArrives
  <2>3. student'[s] = student[s]
    BY <1>5, <1>12 DEF ShadowShape
  <2>4. Reached(q, s, v) => Reached(q, s, v)'
    BY <1>9, <2>3 DEF Reached, Bereft, Sharing, QueueOf
  <2>5. LastWord(q, s, v)'
    BY <1>7, <1>8, <1>9, <1>12, <2>2, <2>3, <2>4, WordStays
  <2> QED BY <1>1, <1>2, <1>5, <2>2, <2>5
<1> QED BY <1>11, <1>12

LEMMA PublishKeepsWord ==
  ASSUME ShadowWord, NEW r \in Request, Publish(r)
  PROVE  LastWordArrives'
<1> USE DEF ShadowWord
<1>1. /\ request[r] \in Pending /\ version \in Nat
      /\ request \in [Request -> {Idle} \cup Job \cup Pending]
  BY DEF Publish, ShadowInv, RequestsGenuine, Idle, Job
<1>2. PICK new \in Genuine : request[r] = [phase |-> "publish", event |-> new]
  BY <1>1 DEF Pending
<1>3. /\ queue' = [q \in Queue |-> Append(queue[q], new)] /\ request' = [request EXCEPT ![r] = Idle]
      /\ UNCHANGED <<student, version, curricula, handlers, process, copy, applied, spoiled>>
  BY <1>2 DEF Publish, peopleVars, consumerVars
<1>4. \A e : (Published(e)' => Published(e)) /\ (Published(e) => Published(e)' \/ e = new) /\ Published(new)
  <2>1. \A p \in Request : request'[p] = IF p = r THEN Idle ELSE request[p]
    BY <1>1, <1>3
  <2>2. \A e : Idle # [phase |-> "publish", event |-> e]
    <3> SUFFICES ASSUME NEW e, Idle = [phase |-> "publish", event |-> e] PROVE FALSE
      OBVIOUS
    <3>1. Idle.phase = [phase |-> "publish", event |-> e].phase
      OBVIOUS
    <3> QED BY <3>1 DEF Idle
  <2>3. \A e : request[r] = [phase |-> "publish", event |-> e] => e = new
    <3> SUFFICES ASSUME NEW e, request[r] = [phase |-> "publish", event |-> e] PROVE e = new
      OBVIOUS
    <3>1. request[r].event = e /\ request[r].event = new
      BY <1>2
    <3> QED BY <3>1
  <2> QED BY <1>2, <2>1, <2>2, <2>3 DEF Published
<1>5. \A q \in Queue : \A e : Lists(queue'[q], e) <=> Lists(queue[q], e) \/ e = new
  BY <1>2, <1>3, AppendLists DEF ShadowInv, QueuesGenuine
<1>6. ASSUME NEW q \in Queue, NEW s \in StudentId, NEW v \in 0..version, Unspoiled(q)' /\ LastWord(q, s, v)
      PROVE  LastWord(q, s, v)'
  <2>1. \A e : (OnItsWay(q, e)' => OnItsWay(q, e)) /\ (Due(q, e) => Due(q, e)')
    BY <1>3, <1>4, <1>5 DEF OnItsWay, Due, Sharing, QueueOf, Handles, MustHandle
  <2>2. Reached(q, s, v) => Reached(q, s, v)'
    BY <1>3, ReachedStays
  <2> QED BY <1>3, <1>6, <2>1, <2>2, WordKept
<1> QED BY <1>1, <1>3, <1>6, WordsKept

LEMMA RequestKeepsWord ==
  ASSUME ShadowWord, NEW r \in Request,
         \/ \E s \in StudentId :
              \/ \E row \in Entered : BeginCreate(r, s, row) \/ BeginUpdate(r, s, row)
              \/ BeginRemove(r, s)
         \/ RequestStep(r)
         \/ LoseEvent(r)
  PROVE  LastWordArrives'
<1> USE DEF ShadowWord
<1>1. version \in Nat /\ request \in [Request -> {Idle} \cup Job \cup Pending]
  BY DEF ShadowInv, RequestsGenuine
<1>2. CASE \/ \E s \in StudentId :
                \/ \E row \in Entered : BeginCreate(r, s, row) \/ BeginUpdate(r, s, row)
                \/ BeginRemove(r, s)
           \/ Refused(r)
  <2>1. /\ request[r].phase # "publish" /\ \E job \in Job \cup {Idle} : request' = [request EXCEPT ![r] = job]
        /\ UNCHANGED <<student, version, curricula, queue, handlers, process, copy, applied, spoiled>>
    <3>1. CASE Refused(r)
      BY <3>1 DEF Refused, Writing, peopleVars, consumerVars
    <3>2. CASE ~Refused(r)
      BY <1>2, <3>2, CatalogueAssumption
         DEF BeginCreate, BeginUpdate, BeginRemove, MayBegin, Idle, Job, peopleVars, consumerVars
    <3> QED BY <3>1, <3>2
  <2>2. PICK job \in Job \cup {Idle} : request' = [request EXCEPT ![r] = job]
    BY <2>1
  <2>3. \A e : [phase |-> "publish", event |-> e].phase = "publish"
    OBVIOUS
  <2>4. job.phase # "publish"
    BY DEF Job, Idle
  <2>5. \A p \in Request : request'[p] = IF p = r THEN job ELSE request[p]
    BY <1>1, <2>2
  <2>6. \A e : Published(e)' <=> Published(e)
    BY <2>1, <2>3, <2>4, <2>5 DEF Published
  <2>7. ASSUME NEW q \in Queue, NEW s \in StudentId, NEW v \in 0..version, Unspoiled(q)' /\ LastWord(q, s, v)
        PROVE  LastWord(q, s, v)'
    BY <2>1, <2>6, <2>7, ReachedStays, WordStays
  <2> QED BY <1>1, <2>1, <2>7, WordsKept
<1>3. CASE LoseEvent(r)
  <2>1. \A q \in Queue : ~Unspoiled(q)'
    BY <1>3 DEF LoseEvent, Unspoiled
  <2> QED BY <2>1 DEF LastWordArrives
<1> QED BY <1>2, <1>3, WriteKeepsWord, PublishKeepsWord DEF RequestStep

-----------------------------------------------------------------------------
(* Only academic-service looks a curriculum up, and only of a row.         *)
ChecksAreOfRows ==
  \A c \in Consumer : \A i \in DOMAIN handlers[c] :
    handlers[c][i].step = "check" => c = "academic" /\ handlers[c][i].event.row # None

(* What the handlers of c are after one of them goes on, or has ended.     *)
LEMMA HandlersNext ==
  ASSUME ShadowInv, NEW c \in Consumer, NEW i \in DOMAIN handlers[c]
  PROVE  /\ handlers[c][i] \in Handler
         /\ \A next \in {"write", "ack"} : handlers' = [handlers EXCEPT ![c][i].step = next] =>
              /\ \A d \in Consumer \ {c} : handlers'[d] = handlers[d]
              /\ DOMAIN handlers'[c] = DOMAIN handlers[c]
              /\ handlers'[c][i].event = handlers[c][i].event /\ handlers'[c][i].step = next
              /\ \A j \in DOMAIN handlers[c] \ {i} : handlers'[c][j] = handlers[c][j]
         /\ Settle(c, i) =>
              /\ \A d \in Consumer \ {c} : handlers'[d] = handlers[d]
              /\ \A j \in DOMAIN handlers'[c] : Lists(handlers[c], handlers'[c][j])
              /\ \A j \in DOMAIN handlers[c] \ {i} : Lists(handlers'[c], handlers[c][j])
<1>1. handlers[c] \in Seq(Handler) /\ handlers \in [Consumer -> Seq(Handler)]
  BY DEF ShadowInv, HandlersGenuine
<1>2. handlers[c][i] \in Handler
  BY <1>1, ElementOfSeq, LenProperties
<1>3. ASSUME NEW next \in {"write", "ack"}, handlers' = [handlers EXCEPT ![c][i].step = next]
      PROVE  /\ \A d \in Consumer \ {c} : handlers'[d] = handlers[d]
             /\ DOMAIN handlers'[c] = DOMAIN handlers[c]
             /\ handlers'[c][i].event = handlers[c][i].event /\ handlers'[c][i].step = next
             /\ \A j \in DOMAIN handlers[c] \ {i} : handlers'[c][j] = handlers[c][j]
  <2>1. /\ \A d \in Consumer \ {c} : handlers'[d] = handlers[d]
        /\ handlers'[c] = [handlers[c] EXCEPT ![i] = [handlers[c][i] EXCEPT !.step = next]]
    BY <1>1, <1>3
  <2>2. /\ DOMAIN handlers'[c] = DOMAIN handlers[c]
        /\ handlers'[c][i] = [handlers[c][i] EXCEPT !.step = next]
        /\ \A j \in DOMAIN handlers[c] \ {i} : handlers'[c][j] = handlers[c][j]
    BY <2>1
  <2>3. [handlers[c][i] EXCEPT !.step = next].event = handlers[c][i].event
        /\ [handlers[c][i] EXCEPT !.step = next].step = next
    BY <1>2 DEF Handler
  <2> QED BY <2>1, <2>2, <2>3
<1>4. ASSUME Settle(c, i)
      PROVE  /\ \A d \in Consumer \ {c} : handlers'[d] = handlers[d]
             /\ \A j \in DOMAIN handlers'[c] : Lists(handlers[c], handlers'[c][j])
             /\ \A j \in DOMAIN handlers[c] \ {i} : Lists(handlers'[c], handlers[c][j])
  <2>1. handlers'[c] = RemoveAt(handlers[c], i) /\ \A d \in Consumer \ {c} : handlers'[d] = handlers[d]
    BY <1>1, <1>4 DEF Settle
  <2>2. /\ \A j \in DOMAIN RemoveAt(handlers[c], i) : Lists(handlers[c], RemoveAt(handlers[c], i)[j])
        /\ \A j \in DOMAIN handlers[c] \ {i} : Lists(RemoveAt(handlers[c], i), handlers[c][j])
    BY <1>1, RemoveAtLists DEF Lists
  <2> QED BY <2>1, <2>2
<1> QED BY <1>2, <1>3, <1>4

(* The handlers of c after a delivery. *)
LEMMA DeliverNext ==
  ASSUME ShadowInv, NEW c \in Consumer, Deliver(c)
  PROVE  \E new \in Genuine :
           /\ \A q \in Queue \ {QueueOf(c)} : queue'[q] = queue[q]
           /\ \A e : Lists(queue[QueueOf(c)], e) <=> e = new \/ Lists(queue'[QueueOf(c)], e)
           /\ \A d \in Consumer \ {c} : handlers'[d] = handlers[d]
           /\ \A h : Lists(handlers'[c], h)
                       <=> Lists(handlers[c], h) \/ h = [event |-> new, step |-> FirstStep(c, new)]
<1> DEFINE q == QueueOf(c)
<1>1. q \in Queue /\ queue[q] \in Seq(Genuine) /\ queue[q] # <<>> /\ handlers \in [Consumer -> Seq(Handler)]
      /\ queue \in [Queue -> Seq(Genuine)]
  BY DEF Deliver, QueueOf, Queue, ShadowInv, QueuesGenuine, HandlersGenuine
<1>2. PICK new \in Genuine : new = Head(queue[q])
  BY <1>1, TailLists
<1> DEFINE h == [event |-> new, step |-> FirstStep(c, new)]
<1>3. h \in Handler
  BY DEF FirstStep, Handler
<1>4. /\ handlers' = [handlers EXCEPT ![c] = Append(handlers[c], h)]
      /\ queue' = [queue EXCEPT ![q] = Tail(queue[q])]
  BY <1>2 DEF Deliver
<1> HIDE DEF h, q
<1>5. \A g : Lists(Append(handlers[c], h), g) <=> Lists(handlers[c], g) \/ g = h
  BY <1>1, <1>3, AppendLists
<1>6. \A e : Lists(queue[q], e) <=> e = new \/ Lists(Tail(queue[q]), e)
  BY <1>1, <1>2, TailLists
<1>7. /\ \A p \in Queue \ {q} : queue'[p] = queue[p]
      /\ \A e : Lists(queue[q], e) <=> e = new \/ Lists(queue'[q], e)
      /\ \A d \in Consumer \ {c} : handlers'[d] = handlers[d]
      /\ \A g : Lists(handlers'[c], g) <=> Lists(handlers[c], g) \/ g = h
  BY <1>1, <1>4, <1>5, <1>6
<1> QED BY <1>7 DEF h, q

LEMMA ChecksStay == ShadowInv /\ ChecksAreOfRows /\ [Next]_vars => ChecksAreOfRows'
<1> SUFFICES ASSUME ShadowInv, ChecksAreOfRows, [Next]_vars PROVE ChecksAreOfRows'
  OBVIOUS
<1>1. CASE UNCHANGED handlers
  BY <1>1 DEF ChecksAreOfRows
<1>2. ASSUME NEW c \in Consumer, Deliver(c) PROVE ChecksAreOfRows'
  <2>1. PICK new \in Genuine :
          /\ \A d \in Consumer \ {c} : handlers'[d] = handlers[d]
          /\ \A h : Lists(handlers'[c], h)
                      <=> Lists(handlers[c], h) \/ h = [event |-> new, step |-> FirstStep(c, new)]
    BY <1>2, DeliverNext
  <2>2. [event |-> new, step |-> FirstStep(c, new)].step = "check"
          => c = "academic" /\ [event |-> new, step |-> FirstStep(c, new)].event.row # None
    BY DEF FirstStep
  <2>3. \A h : Lists(handlers'[c], h) /\ h.step = "check" => c = "academic" /\ h.event.row # None
    BY <2>1, <2>2 DEF ChecksAreOfRows, Lists
  <2>4. \A i \in DOMAIN handlers'[c] : Lists(handlers'[c], handlers'[c][i])
    BY DEF Lists
  <2> QED BY <2>1, <2>3, <2>4 DEF ChecksAreOfRows
<1>3. ASSUME NEW c \in Consumer, NEW i \in DOMAIN handlers[c], HandlerStep(c, i) \/ FailStatement(c, i)
      PROVE  ChecksAreOfRows'
  <2>1. \/ \E next \in {"write", "ack"} : handlers' = [handlers EXCEPT ![c][i].step = next]
        \/ Settle(c, i)
    BY <1>3 DEF HandlerStep, FailStatement, CheckCurriculum, Apply, Ack, Reject, Continue
  <2>2. CASE Settle(c, i)
    <3>1. \A h : Lists(handlers[c], h) /\ h.step = "check" => c = "academic" /\ h.event.row # None
      BY DEF ChecksAreOfRows, Lists
    <3> QED BY <2>2, <3>1, HandlersNext DEF ChecksAreOfRows
  <2>3. CASE \E next \in {"write", "ack"} : handlers' = [handlers EXCEPT ![c][i].step = next]
    <3>1. PICK next \in {"write", "ack"} : handlers' = [handlers EXCEPT ![c][i].step = next]
      BY <2>3
    <3>2. /\ \A d \in Consumer \ {c} : handlers'[d] = handlers[d]
          /\ DOMAIN handlers'[c] = DOMAIN handlers[c] /\ handlers'[c][i].step # "check"
          /\ \A j \in DOMAIN handlers[c] \ {i} : handlers'[c][j] = handlers[c][j]
      BY <3>1, HandlersNext
    <3> QED BY <3>2 DEF ChecksAreOfRows
  <2> QED BY <2>1, <2>2, <2>3
<1>4. ASSUME NEW c \in Consumer, Crash(c) PROVE ChecksAreOfRows'
  BY <1>4 DEF Crash, ChecksAreOfRows, ShadowInv, HandlersGenuine
<1>5. ASSUME NEW r \in Request,
             \/ \E s \in StudentId :
                  \/ \E row \in Entered : BeginCreate(r, s, row) \/ BeginUpdate(r, s, row)
                  \/ BeginRemove(r, s)
             \/ RequestStep(r) \/ LoseEvent(r)
      PROVE  UNCHANGED handlers
  BY <1>5 DEF BeginCreate, BeginUpdate, BeginRemove, RequestStep, Write, Refused, Publish, LoseEvent, consumerVars
<1>6. ASSUME NEW c \in Consumer, Disconnect(c) \/ Boot(c) PROVE UNCHANGED handlers
  BY <1>6 DEF Disconnect, Boot
<1>7. ASSUME NEW k \in Curriculum, RemoveCurriculum(k) PROVE UNCHANGED handlers
  BY <1>7 DEF RemoveCurriculum
<1>8. UNCHANGED vars => UNCHANGED handlers
  BY DEF vars, consumerVars
<1> QED BY <1>1, <1>2, <1>3, <1>4, <1>5, <1>6, <1>7, <1>8 DEF Next

-----------------------------------------------------------------------------
(* What a queue's last words are does not depend on who has another queue. *)
LEMMA OthersKeepWord ==
  ASSUME NEW q \in Queue, NEW c \in Consumer, c \notin Sharing(q), queue'[q] = queue[q],
         UNCHANGED <<student, curricula, request>>,
         \A d \in Consumer \ {c} : /\ handlers'[d] = handlers[d] /\ process'[d] = process[d]
                                   /\ copy'[d] = copy[d] /\ applied'[d] = applied[d],
         NEW s \in StudentId, NEW v \in Nat, LastWord(q, s, v)
  PROVE  LastWord(q, s, v)'
<1>1. Sharing(q)' = Sharing(q) /\ Sharing(q) \subseteq Consumer \ {c}
  BY DEF Sharing, QueueOf
<1>2. \A e : Published(e)' <=> Published(e)
  BY DEF Published
<1>3. \A d \in Sharing(q) : \A e : (Handles(d, e)' <=> Handles(d, e)) /\ (MustHandle(d, e)' <=> MustHandle(d, e))
  BY <1>1 DEF Handles, MustHandle
<1>4. \A e : (OnItsWay(q, e)' <=> OnItsWay(q, e)) /\ (Due(q, e)' <=> Due(q, e))
  BY <1>1, <1>2, <1>3 DEF OnItsWay, Due, Lists
<1>5. Reached(q, s, v)' <=> Reached(q, s, v)
  BY <1>1 DEF Reached, Bereft
<1> QED BY <1>4, <1>5, WordKept

LEMMA DeliverKeepsWord ==
  ASSUME ShadowWord, NEW c \in Consumer, Deliver(c)
  PROVE  LastWordArrives'
<1> USE DEF ShadowWord
<1> DEFINE own == QueueOf(c)
<1>1. /\ UNCHANGED <<student, version, history, curricula, request, process, copy, applied, spoiled>>
      /\ version \in Nat /\ process[c] = "up" /\ own \in Queue
  BY DEF Deliver, peopleVars, ShadowInv, QueueOf, Queue
<1>2. PICK new \in Genuine :
        /\ \A q \in Queue \ {own} : queue'[q] = queue[q]
        /\ \A e : Lists(queue[own], e) <=> e = new \/ Lists(queue'[own], e)
        /\ \A d \in Consumer \ {c} : handlers'[d] = handlers[d]
        /\ \A h : Lists(handlers'[c], h)
                    <=> Lists(handlers[c], h) \/ h = [event |-> new, step |-> FirstStep(c, new)]
  BY DeliverNext
<1> DEFINE handler == [event |-> new, step |-> FirstStep(c, new)]
<1>3. handler.event = new /\ handler.step # "ack" /\ Lists(handlers'[c], handler)
      /\ \A h : Lists(handlers'[c], h) <=> Lists(handlers[c], h) \/ h = handler
  BY <1>2 DEF FirstStep
<1> HIDE DEF handler, own
<1>4. /\ \A e : Handles(c, e)' => Handles(c, e) \/ e = new
      /\ \A e : MustHandle(c, e) => MustHandle(c, e)'
      /\ MustHandle(c, new)'
  <2>1. ASSUME NEW e, Handles(c, e)' PROVE Handles(c, e) \/ e = new
    <3>1. PICK i \in DOMAIN handlers'[c] : handlers'[c][i].event = e
      BY <2>1 DEF Handles
    <3>2. Lists(handlers[c], handlers'[c][i]) \/ handlers'[c][i] = handler
      BY <1>3 DEF Lists
    <3> QED BY <1>3, <3>1, <3>2 DEF Handles, Lists
  <2>2. ASSUME NEW e, MustHandle(c, e) PROVE MustHandle(c, e)'
    <3>1. PICK i \in DOMAIN handlers[c] : handlers[c][i].event = e /\ handlers[c][i].step # "ack"
      BY <2>2 DEF MustHandle
    <3>2. Lists(handlers'[c], handlers[c][i])
      BY <1>3 DEF Lists
    <3> QED BY <1>1, <3>1, <3>2 DEF MustHandle, Lists
  <2>3. MustHandle(c, new)'
    BY <1>1, <1>3 DEF MustHandle, Lists
  <2> QED BY <2>1, <2>2, <2>3
<1>5. \A d \in Consumer \ {c} : \A e : (Handles(d, e)' <=> Handles(d, e)) /\ (MustHandle(d, e)' <=> MustHandle(d, e))
  BY <1>1, <1>2 DEF Handles, MustHandle
<1>6. \A e : Published(e)' <=> Published(e)
  BY <1>1 DEF Published
<1>7. ASSUME NEW q \in Queue, NEW s \in StudentId, NEW v \in 0..version, Unspoiled(q)' /\ LastWord(q, s, v)
      PROVE  LastWord(q, s, v)'
  <2>1. CASE q = own
    <3>1. Sharing(q)' = Sharing(q) /\ c \in Sharing(q) /\ Sharing(q) \subseteq Consumer
      BY <2>1 DEF Sharing, QueueOf, own
    <3>2. \A e : Lists(queue[q], e) <=> e = new \/ Lists(queue'[q], e)
      BY <1>2, <2>1
    <3>3. \A e : OnItsWay(q, e)' => OnItsWay(q, e)
      BY <1>4, <1>5, <1>6, <3>1, <3>2 DEF OnItsWay
    <3>4. \A e : Due(q, e) => Due(q, e)'
      BY <1>4, <1>5, <1>6, <3>1, <3>2 DEF Due
    <3>5. Reached(q, s, v) => Reached(q, s, v)'
      BY <1>1, ReachedStays
    <3> QED BY <1>1, <1>7, <3>3, <3>4, <3>5, WordKept
  <2>2. CASE q # own
    <3>1. c \notin Sharing(q)
      BY <2>2 DEF Sharing, own
    <3> QED BY <1>1, <1>2, <1>7, <2>2, <3>1, OthersKeepWord
  <2> QED BY <2>1, <2>2
<1> QED BY <1>1, <1>7, WordsKept

(* The messages that the broker takes back are those c handles.            *)
LEMMA RequeueNext ==
  ASSUME ShadowInv, NEW c \in Consumer, Requeue(c)
  PROVE  /\ QueueOf(c) \in Queue
         /\ \A q \in Queue \ {QueueOf(c)} : queue'[q] = queue[q]
         /\ \A e : Lists(queue'[QueueOf(c)], e) <=> Handles(c, e) \/ Lists(queue[QueueOf(c)], e)
<1> DEFINE q == QueueOf(c)
<1>1. q \in Queue /\ queue \in [Queue -> Seq(Genuine)] /\ handlers[c] \in Seq(Handler)
  BY DEF QueueOf, Queue, ShadowInv, QueuesGenuine, HandlersGenuine
<1>2. DOMAIN Unacked(c) = DOMAIN handlers[c] /\ \A i \in DOMAIN handlers[c] : Unacked(c)[i] = handlers[c][i].event
  BY DEF Unacked
<1>3. Unacked(c) \in Seq(Genuine)
  <2>1. DOMAIN handlers[c] = 1..Len(handlers[c]) /\ Len(handlers[c]) \in Nat
    BY <1>1, LenProperties
  <2>2. \A i \in DOMAIN handlers[c] : handlers[c][i] \in Handler
    BY <1>1, <2>1, ElementOfSeq
  <2>3. \A i \in DOMAIN handlers[c] : handlers[c][i].event \in Genuine
    BY <2>2 DEF Handler
  <2> QED BY <2>1, <2>3, IsASeq DEF Unacked
<1>4. queue' = [queue EXCEPT ![q] = Unacked(c) \o queue[q]]
  BY DEF Requeue
<1> HIDE DEF q
<1>5. \A e : Lists(Unacked(c) \o queue[q], e) <=> Lists(Unacked(c), e) \/ Lists(queue[q], e)
  BY <1>1, <1>3, ConcatLists
<1>6. \A e : Lists(Unacked(c), e) <=> Handles(c, e)
  BY <1>2 DEF Lists, Handles
<1>7. /\ \A p \in Queue \ {q} : queue'[p] = queue[p]
      /\ \A e : Lists(queue'[q], e) <=> Handles(c, e) \/ Lists(queue[q], e)
  BY <1>1, <1>4, <1>5, <1>6
<1> QED BY <1>1, <1>7 DEF q

(* A connection or a process is gone: what it had not acknowledged is back *)
(* in the queue.  A process that lost its connection first has given it    *)
(* back before.                                                            *)
LEMMA GoneKeepsWord ==
  ASSUME ShadowWord, NEW c \in Consumer,
         (process[c] = "up" /\ Requeue(c)) \/ (process[c] # "up" /\ UNCHANGED queue),
         UNCHANGED <<student, version, curricula, request, copy, applied, spoiled>>,
         \A d \in Consumer \ {c} : handlers'[d] = handlers[d] /\ process'[d] = process[d],
         handlers'[c] = handlers[c] \/ handlers'[c] = <<>>
  PROVE  LastWordArrives'
<1> USE DEF ShadowWord
<1> DEFINE own == QueueOf(c)
<1>1. version \in Nat /\ own \in Queue
  BY DEF ShadowInv, QueueOf, Queue
<1>2. /\ \A q \in Queue \ {own} : queue'[q] = queue[q]
      /\ \A e : Lists(queue[own], e) => Lists(queue'[own], e)
      /\ \A e : Lists(queue'[own], e) => Lists(queue[own], e) \/ Handles(c, e)
      /\ \A e : MustHandle(c, e) => Lists(queue'[own], e)
  <2>1. CASE process[c] = "up" /\ Requeue(c)
    <3>1. \A e : MustHandle(c, e) => Handles(c, e)
      BY DEF MustHandle, Handles
    <3> QED BY <2>1, <3>1, RequeueNext
  <2>2. CASE process[c] # "up" /\ UNCHANGED queue
    BY <2>2 DEF MustHandle, Lists
  <2> QED BY <2>1, <2>2
<1> HIDE DEF own
<1>3. \A e : Handles(c, e)' => Handles(c, e)
  BY DEF Handles
<1>4. \A d \in Consumer \ {c} : \A e : (Handles(d, e)' <=> Handles(d, e)) /\ (MustHandle(d, e)' <=> MustHandle(d, e))
  BY DEF Handles, MustHandle
<1>5. \A e : Published(e)' <=> Published(e)
  BY DEF Published
<1>6. ASSUME NEW q \in Queue, NEW s \in StudentId, NEW v \in 0..version, Unspoiled(q)' /\ LastWord(q, s, v)
      PROVE  LastWord(q, s, v)'
  <2>1. CASE q = own
    <3>1. Sharing(q)' = Sharing(q) /\ c \in Sharing(q) /\ Sharing(q) \subseteq Consumer
      BY <2>1 DEF Sharing, QueueOf, own
    <3>2. \A e : OnItsWay(q, e)' => OnItsWay(q, e)
      BY <1>2, <1>3, <1>4, <1>5, <2>1, <3>1 DEF OnItsWay
    <3>3. \A e : Due(q, e) => Due(q, e)'
      BY <1>2, <1>4, <1>5, <2>1, <3>1 DEF Due
    <3>4. Reached(q, s, v) => Reached(q, s, v)'
      BY ReachedStays
    <3> QED BY <1>6, <3>2, <3>3, <3>4, WordKept
  <2>2. CASE q # own
    <3>1. c \notin Sharing(q)
      BY <2>2 DEF Sharing, own
    <3> QED BY <1>2, <1>6, <2>2, <3>1, OthersKeepWord
  <2> QED BY <2>1, <2>2
<1> QED BY <1>1, <1>6, WordsKept

LEMMA ConsumerKeepsWord ==
  ASSUME ShadowWord, NEW c \in Consumer,
         Deliver(c) \/ Disconnect(c) \/ Crash(c) \/ Boot(c)
  PROVE  LastWordArrives'
<1> USE DEF ShadowWord
<1>1. handlers \in [Consumer -> Seq(Handler)] /\ process \in [Consumer -> {"up", "cut", "down"}]
  BY DEF ShadowInv, HandlersGenuine, ShadowShape
<1>2. CASE Disconnect(c)
  BY <1>1, <1>2, GoneKeepsWord DEF Disconnect, peopleVars
<1>3. CASE Crash(c)
  BY <1>1, <1>3, GoneKeepsWord DEF Crash, peopleVars
<1>4. CASE Boot(c)
  BY <1>1, <1>4, GoneKeepsWord DEF Boot, peopleVars
<1> QED BY <1>2, <1>3, <1>4, DeliverKeepsWord

-----------------------------------------------------------------------------
(* A message is dropped for good: the queue is spoiled for its services.   *)
LEMMA DropKeepsWord ==
  ASSUME ShadowWord, NEW c \in Consumer, NEW i \in DOMAIN handlers[c], Settle(c, i),
         UNCHANGED <<student, version, curricula, request, queue, process, copy, applied>>,
         spoiled' = spoiled \cup {c}
  PROVE  LastWordArrives'
<1> USE DEF ShadowWord
<1>1. version \in Nat /\ \A d \in Consumer \ {c} : handlers'[d] = handlers[d]
  BY HandlersNext DEF ShadowInv
<1>2. ASSUME NEW q \in Queue, NEW s \in StudentId, NEW v \in 0..version, Unspoiled(q)' /\ LastWord(q, s, v)
      PROVE  LastWord(q, s, v)'
  <2>1. c \notin Sharing(q)
    BY <1>2 DEF Unspoiled, Sharing, QueueOf
  <2> QED BY <1>1, <1>2, <2>1, OthersKeepWord
<1> QED BY <1>1, <1>2, WordsKept

(* A handler goes on or ends, and what it handles has reached the copy if  *)
(* it was the last word and is not to be written any more.                 *)
LEMMA HandlerMovesOn ==
  ASSUME ShadowWord, NEW c \in Consumer, NEW i \in DOMAIN handlers[c],
         \/ \E next \in {"write", "ack"} : handlers' = [handlers EXCEPT ![c][i].step = next]
         \/ Settle(c, i),
         UNCHANGED <<student, version, curricula, request, queue, process>>, spoiled \subseteq spoiled',
         \A d \in Consumer \ {c} : copy'[d] = copy[d] /\ applied'[d] = applied[d],
         \A q \in Queue, s \in StudentId, v \in 0..version :
           q = QueueOf(c) /\ LastWord(q, s, v) /\ Unspoiled(q)' =>
             /\ Reached(q, s, v) => Reached(q, s, v)'
             /\ \A e \in Event : e = handlers[c][i].event /\ handlers[c][i].step # "ack" /\ e.id = s /\ e.version = v
                  => MustHandle(c, e)' \/ process[c] # "up" \/ Reached(q, s, v)'
  PROVE  LastWordArrives'
<1> USE DEF ShadowWord
<1> DEFINE own == QueueOf(c)
<1>1. /\ version \in Nat /\ own \in Queue
      /\ \A d \in Consumer \ {c} : handlers'[d] = handlers[d]
  BY HandlersNext DEF ShadowInv, QueueOf, Queue
<1>2. PICK old \in Handler : old = handlers[c][i]
  BY HandlersNext
<1>3. /\ \A e : Handles(c, e)' => Handles(c, e)
      /\ \A e : MustHandle(c, e) => MustHandle(c, e)' \/ (process[c] = "up" /\ e = old.event /\ old.step # "ack")
  <2>1. CASE \E next \in {"write", "ack"} : handlers' = [handlers EXCEPT ![c][i].step = next]
    <3>1. /\ DOMAIN handlers'[c] = DOMAIN handlers[c]
          /\ handlers'[c][i].event = handlers[c][i].event
          /\ \A j \in DOMAIN handlers[c] \ {i} : handlers'[c][j] = handlers[c][j]
      BY <2>1, HandlersNext
    <3> QED BY <1>2, <3>1 DEF Handles, MustHandle
  <2>2. CASE Settle(c, i)
    <3>1. /\ \A j \in DOMAIN handlers'[c] : Lists(handlers[c], handlers'[c][j])
          /\ \A j \in DOMAIN handlers[c] \ {i} : Lists(handlers'[c], handlers[c][j])
      BY <2>2, HandlersNext
    <3>2. ASSUME NEW e, Handles(c, e)' PROVE Handles(c, e)
      BY <3>1, <3>2 DEF Handles, Lists
    <3>3. ASSUME NEW e, MustHandle(c, e) 
                 PROVE  MustHandle(c, e)' \/ (process[c] = "up" /\ e = old.event /\ old.step # "ack")
      <4>1. PICK j \in DOMAIN handlers[c] : handlers[c][j].event = e /\ handlers[c][j].step # "ack"
        BY <3>3 DEF MustHandle
      <4>2. CASE j = i
        BY <1>2, <3>3, <4>1, <4>2 DEF MustHandle
      <4>3. CASE j # i
        <5>1. Lists(handlers'[c], handlers[c][j])
          BY <3>1, <4>3
        <5> QED BY <3>3, <4>1, <5>1 DEF MustHandle, Lists
      <4> QED BY <4>2, <4>3
    <3> QED BY <3>2, <3>3
  <2> QED BY <2>1, <2>2
<1>4. \A d \in Consumer \ {c} : \A e : (Handles(d, e)' <=> Handles(d, e)) /\ (MustHandle(d, e)' <=> MustHandle(d, e))
  BY <1>1 DEF Handles, MustHandle
<1>5. \A e : Published(e)' <=> Published(e)
  BY DEF Published
<1>6. ASSUME NEW q \in Queue, NEW s \in StudentId, NEW v \in 0..version, Unspoiled(q)' /\ LastWord(q, s, v)
      PROVE  LastWord(q, s, v)'
  <2>1. CASE q = own
    <3>1. Sharing(q)' = Sharing(q) /\ c \in Sharing(q) /\ Sharing(q) \subseteq Consumer
      BY <2>1 DEF Sharing, QueueOf
    <3>2. \A e : OnItsWay(q, e)' => OnItsWay(q, e)
      BY <1>3, <1>4, <1>5, <3>1 DEF OnItsWay
    <3>3. /\ Reached(q, s, v) => Reached(q, s, v)'
          /\ \A e \in Event : e = old.event /\ old.step # "ack" /\ e.id = s /\ e.version = v
               => MustHandle(c, e)' \/ process[c] # "up" \/ Reached(q, s, v)'
      BY <1>2, <1>6, <2>1
    <3> HIDE DEF own
    <3>4. ASSUME NEW e \in Event, Due(q, e), e.id = s, e.version = v PROVE Due(q, e)' \/ Reached(q, s, v)'
      <4>1. CASE Published(e) \/ Lists(queue[q], e)
        BY <1>5, <4>1 DEF Due
      <4>2. CASE \E d \in Sharing(q) \ {c} : MustHandle(d, e)
        BY <1>4, <3>1, <4>2 DEF Due
      <4>3. CASE MustHandle(c, e)
        BY <1>3, <3>1, <3>3, <3>4, <4>3 DEF Due
      <4> QED BY <3>4, <4>1, <4>2, <4>3 DEF Due
    <3> QED BY <1>6, <3>2, <3>3, <3>4, WordKept
  <2>2. CASE q # own
    <3>1. c \notin Sharing(q)
      BY <2>2 DEF Sharing
    <3> QED BY <1>1, <1>6, <3>1, OthersKeepWord
  <2> QED BY <2>1, <2>2
<1> QED BY <1>1, <1>6, WordsKept

(* Whether a curriculum is there: an event without one is not written, but *)
(* then the student is to lose the row, if it was the last word.           *)
LEMMA CheckKeepsWord ==
  ASSUME ShadowWord, ChecksAreOfRows, NEW c \in Consumer, NEW i \in DOMAIN handlers[c], CheckCurriculum(c, i)
  PROVE  LastWordArrives'
<1> USE DEF ShadowWord
<1>1. PICK old \in Handler : old = handlers[c][i]
  BY HandlersNext
<1>2. /\ UNCHANGED <<student, version, curricula, request, queue, process, copy, applied, spoiled>>
      /\ old.step = "check" /\ c = "academic" /\ old.event.row # None
      /\ handlers' = [handlers EXCEPT ![c][i].step =
                        IF old.event.row.curriculum \in curricula THEN "write" ELSE "ack"]
  BY <1>1 DEF CheckCurriculum, Continue, peopleVars, ChecksAreOfRows
<1>3. \E next \in {"write", "ack"} : handlers' = [handlers EXCEPT ![c][i].step = next]
  BY <1>2
<1>4. ASSUME NEW q \in Queue, NEW s \in StudentId, NEW v \in 0..version, NEW e \in Event,
             q = QueueOf(c), LastWord(q, s, v), e = old.event, e.id = s, e.version = v
      PROVE  MustHandle(c, e)' \/ process[c] # "up" \/ Reached(q, s, v)'
  <2>1. CASE old.event.row.curriculum \in curricula
    <3>1. handlers' = [handlers EXCEPT ![c][i].step = "write"]
      BY <1>2, <2>1
    <3>2. i \in DOMAIN handlers'[c] /\ handlers'[c][i].event = e /\ handlers'[c][i].step # "ack"
      BY <1>1, <1>4, <3>1, HandlersNext
    <3> QED BY <1>2, <3>2 DEF MustHandle
  <2>2. CASE old.event.row.curriculum \notin curricula
    <3>1. OnItsWay(q, e)
      BY <1>1, <1>4 DEF OnItsWay, Handles, Sharing
    <3>2. e.row = student[s]
      BY <1>4, <3>1 DEF LastWord
    <3> QED BY <1>2, <1>4, <2>2, <3>2 DEF Reached, Bereft, QueueOf
  <2> QED BY <2>1, <2>2
<1>5. \A q, s, v : Reached(q, s, v) => Reached(q, s, v)'
  BY <1>2, ReachedStays
<1>6. \A q \in Queue, s \in StudentId, v \in 0..version :
       q = QueueOf(c) /\ LastWord(q, s, v) /\ Unspoiled(q)' =>
         /\ Reached(q, s, v) => Reached(q, s, v)'
         /\ \A e \in Event : e = handlers[c][i].event /\ handlers[c][i].step # "ack" /\ e.id = s /\ e.version = v
              => MustHandle(c, e)' \/ process[c] # "up" \/ Reached(q, s, v)'
  BY <1>1, <1>4, <1>5
<1>7. \A d \in Consumer \ {c} : copy'[d] = copy[d] /\ applied'[d] = applied[d]
  BY <1>2
<1>8. UNCHANGED <<student, version, curricula, request, queue, process>> /\ spoiled \subseteq spoiled'
  BY <1>2
<1> QED BY <1>3, <1>6, <1>7, <1>8, HandlerMovesOn

(* The row is written: by an event that is no older than those before it,  *)
(* or the service is spoiled.                                              *)
LEMMA ApplyKeepsWord ==
  ASSUME ShadowWord, NEW c \in Consumer, NEW i \in DOMAIN handlers[c], Apply(c, i)
  PROVE  LastWordArrives'
<1> USE DEF ShadowWord
<1>1. PICK old \in Handler : old = handlers[c][i]
  BY HandlersNext
<1>2. PICK e \in Genuine : e = old.event
  BY DEF Handler
<1>3. /\ UNCHANGED <<student, version, curricula, request, queue, process>>
      /\ handlers' = [handlers EXCEPT ![c][i].step = "ack"]
      /\ copy' = [copy EXCEPT ![c][e.id] = e.row]
      /\ spoiled' = spoiled \cup (IF e.version < applied[c] THEN {c} ELSE {})
      /\ applied' = [applied EXCEPT ![c] = IF e.version < applied[c] THEN applied[c] ELSE e.version]
  BY <1>1, <1>2 DEF Apply, Continue, Upsert, peopleVars
<1>4. e.id \in StudentId /\ e.row \in Row \cup {None} /\ e.version \in Nat /\ applied[c] \in Nat
      /\ e \in Event
  BY EventsOnTheirWay DEF Genuine, ShadowShape, ShadowInv
<1>5. /\ \A d \in Consumer \ {c} : copy'[d] = copy[d] /\ applied'[d] = applied[d]
      /\ \A s \in StudentId : copy'[c][s] = IF s = e.id THEN e.row ELSE copy[c][s]
      /\ applied'[c] = IF e.version < applied[c] THEN applied[c] ELSE e.version
  BY <1>3, <1>4 DEF ShadowInv, Shadows, ShadowShape
<1>6. ASSUME NEW q \in Queue, NEW s \in StudentId, NEW v \in 0..version,
             q = QueueOf(c), LastWord(q, s, v), Unspoiled(q)'
      PROVE  /\ Reached(q, s, v) => Reached(q, s, v)'
             /\ e.id = s /\ e.version = v => Reached(q, s, v)'
  <2>1. Sharing(q)' = Sharing(q) /\ c \in Sharing(q) /\ Sharing(q) \subseteq Consumer
    BY <1>6 DEF Sharing, QueueOf
  <2>2. ~(e.version < applied[c])
    BY <1>3, <1>6, <2>1 DEF Unspoiled
  <2>3. OnItsWay(q, e)
    BY <1>1, <1>2, <2>1 DEF OnItsWay, Handles
  <2>4. e.id = s => e.version <= v /\ (e.version = v => e.row = student[s])
    BY <1>4, <1>6, <2>3 DEF LastWord
  <2>5. v \in Nat /\ applied'[c] = e.version
    BY <1>5, <2>2 DEF ShadowInv
  <2>6. ASSUME e.id = s, e.version = v PROVE Reached(q, s, v)'
    <3>1. applied'[c] >= v /\ copy'[c][s] = student'[s]
      BY <1>3, <1>5, <2>4, <2>5, <2>6
    <3> QED BY <2>1, <3>1 DEF Reached
  <2>7. ASSUME NEW d \in Sharing(q), applied[d] >= v, copy[d][s] = student[s] PROVE Reached(q, s, v)'
    <3>1. CASE d # c
      BY <1>3, <1>5, <2>1, <2>7, <3>1 DEF Reached
    <3>2. CASE d = c /\ e.id = s
      <4>1. e.version = v
        BY <1>4, <2>2, <2>4, <2>5, <2>7, <3>2
      <4> QED BY <2>6, <3>2, <4>1
    <3>3. CASE d = c /\ e.id # s
      <4>1. applied'[c] >= v /\ copy'[c][s] = student'[s]
        BY <1>3, <1>4, <1>5, <2>2, <2>5, <2>7, <3>3
      <4> QED BY <2>1, <4>1 DEF Reached
    <3> QED BY <3>1, <3>2, <3>3
  <2>8. Bereft(q, s) => Bereft(q, s)'
    BY <1>3 DEF Bereft
  <2>9. Reached(q, s, v) => Reached(q, s, v)'
    <3>1. CASE Bereft(q, s)
      BY <2>8, <3>1 DEF Reached
    <3> QED BY <2>7, <3>1 DEF Reached
  <2> QED BY <2>6, <2>9
<1>7. spoiled \subseteq spoiled' /\ \E next \in {"write", "ack"} : handlers' = [handlers EXCEPT ![c][i].step = next]
  BY <1>3
<1>8. \A q \in Queue, s \in StudentId, v \in 0..version :
       q = QueueOf(c) /\ LastWord(q, s, v) /\ Unspoiled(q)' =>
         /\ Reached(q, s, v) => Reached(q, s, v)'
         /\ \A f \in Event : f = handlers[c][i].event /\ handlers[c][i].step # "ack" /\ f.id = s /\ f.version = v
              => MustHandle(c, f)' \/ process[c] # "up" \/ Reached(q, s, v)'
  BY <1>1, <1>2, <1>6
<1>9. UNCHANGED <<student, version, curricula, request, queue, process>>
  BY <1>3
<1> QED BY <1>5, <1>7, <1>8, <1>9, HandlerMovesOn

LEMMA AckKeepsWord ==
  ASSUME ShadowWord, NEW c \in Consumer, NEW i \in DOMAIN handlers[c], Ack(c, i)
  PROVE  LastWordArrives'
<1>1. /\ handlers[c][i].step = "ack" /\ Settle(c, i)
      /\ UNCHANGED <<student, version, curricula, request, queue, process, copy, applied, spoiled>>
  BY DEF Ack, peopleVars
<1>2. \A q, s, v : Reached(q, s, v) => Reached(q, s, v)'
  BY <1>1, ReachedStays
<1> QED BY <1>1, <1>2, HandlerMovesOn

LEMMA HandlerKeepsWord ==
  ASSUME ShadowWord, ChecksAreOfRows, NEW c \in Consumer, NEW i \in DOMAIN handlers[c],
         HandlerStep(c, i) \/ FailStatement(c, i)
  PROVE  LastWordArrives'
<1>1. CASE Reject(c, i) \/ FailStatement(c, i)
  BY <1>1, DropKeepsWord DEF Reject, FailStatement, peopleVars
<1> QED BY <1>1, CheckKeepsWord, ApplyKeepsWord, AckKeepsWord DEF HandlerStep

(* The rows of a curriculum go with it.                                    *)
LEMMA RemoveCurriculumKeepsWord ==
  ASSUME ShadowWord, NEW k \in Curriculum, RemoveCurriculum(k)
  PROVE  LastWordArrives'
<1> USE DEF ShadowWord
<1>1. /\ UNCHANGED <<student, version, request, queue, process, handlers, applied, spoiled>>
      /\ curricula' = curricula \ {k} /\ version \in Nat
      /\ \A d \in Consumer, s \in StudentId :
           copy'[d][s] = IF d = "academic" /\ copy[d][s] # None /\ copy[d][s].curriculum = k
                         THEN None ELSE copy[d][s]
  BY DEF RemoveCurriculum, peopleVars, ShadowInv
<1>2. ASSUME NEW q \in Queue, NEW s \in StudentId, NEW v \in 0..version, Reached(q, s, v)
      PROVE  Reached(q, s, v)'
  <2>1. Bereft(q, s) => Bereft(q, s)'
    BY <1>1 DEF Bereft
  <2>2. ASSUME NEW d \in Sharing(q), applied[d] >= v, copy[d][s] = student[s]
        PROVE  Bereft(q, s)' \/ copy'[d][s] = student'[s]
    BY <1>1, <2>2 DEF Bereft, Sharing, QueueOf
  <2>3. Sharing(q)' = Sharing(q) /\ \A d \in Sharing(q) : applied'[d] = applied[d]
    BY <1>1 DEF Sharing, QueueOf
  <2>4. CASE Bereft(q, s)'
    BY <2>4 DEF Reached
  <2>5. CASE ~Bereft(q, s)'
    <3>1. PICK d \in Sharing(q) : applied[d] >= v /\ copy[d][s] = student[s]
      BY <1>2, <2>1, <2>5 DEF Reached
    <3>2. copy'[d][s] = student'[s] /\ applied'[d] >= v
      BY <2>2, <2>3, <2>5, <3>1
    <3> QED BY <2>3, <3>2 DEF Reached
  <2> QED BY <2>4, <2>5
<1>3. \A e : Published(e)' <=> Published(e)
  BY <1>1 DEF Published
<1>4. ASSUME NEW q \in Queue, NEW s \in StudentId, NEW v \in 0..version, Unspoiled(q)' /\ LastWord(q, s, v)
      PROVE  LastWord(q, s, v)'
  BY <1>1, <1>2, <1>3, <1>4, WordStays
<1> QED BY <1>1, <1>4, WordsKept

LEMMA NextKeepsWord == ShadowWord /\ ChecksAreOfRows /\ [Next]_vars => ShadowWord'
<1> SUFFICES ASSUME ShadowWord, ChecksAreOfRows, [Next]_vars PROVE ShadowWord'
  OBVIOUS
<1>1. ShadowInv' /\ ShadowShape'
  BY NextKeepsShadowInv, NextKeepsShape DEF ShadowWord
<1>2. CASE UNCHANGED vars
  <2>1. UNCHANGED <<student, version, curricula, request, queue, process, handlers, copy, applied, spoiled>>
    BY <1>2 DEF vars, peopleVars, consumerVars
  <2>2. \A e : Published(e)' <=> Published(e)
    BY <2>1 DEF Published
  <2>3. ASSUME NEW q \in Queue, NEW s \in StudentId, NEW v \in 0..version, Unspoiled(q)' /\ LastWord(q, s, v)
        PROVE  LastWord(q, s, v)'
    BY <2>1, <2>2, <2>3, ReachedStays, WordStays
  <2>4. LastWordArrives'
    BY <2>1, <2>3, WordsKept DEF ShadowWord, ShadowInv
  <2> QED BY <1>1, <2>4 DEF ShadowWord
<1>3. CASE Next
  <2>1. LastWordArrives'
    BY <1>3, RequestKeepsWord, ConsumerKeepsWord, HandlerKeepsWord, RemoveCurriculumKeepsWord DEF Next
  <2> QED BY <1>1, <2>1 DEF ShadowWord
<1> QED BY <1>2, <1>3

(* Once a queue is empty and its handlers have ended, the last word on     *)
(* every student has reached one of the services that share the queue,     *)
(* unless an event was lost, refused or overtaken (see ShadowSync): no     *)
(* redelivery, crash or lost connection can keep a stale row.              *)
THEOREM SettledAlwaysCurrent == Spec => []SettledCopyIsCurrent
<1>1. ShadowWord => SettledCopyIsCurrent
  <2> SUFFICES ASSUME ShadowWord, NEW q \in Queue, Settled(q), spoiled \cap (Sharing(q) \cup {"people"}) = {},
                      NEW s \in StudentId,
                      q = "people-shadow.academic" /\ student[s] # None => student[s].curriculum \in curricula
               PROVE  \E c \in Sharing(q) : copy[c][s] = student[s]
    BY DEF SettledCopyIsCurrent
  <2>1. PICK v \in 0..version : LastWord(q, s, v)
    BY DEF ShadowWord, LastWordArrives, Unspoiled, Settled
  <2>2. \A e : ~Due(q, e)
    <3>1. \A e : ~Published(e)
      BY DEF Published, Settled
    <3>2. \A e : ~Lists(queue[q], e)
      BY DEF Lists, Settled, Drained
    <3>3. \A c \in Sharing(q) : \A e : ~MustHandle(c, e)
      BY DEF MustHandle, Settled, Drained
    <3> QED BY <3>1, <3>2, <3>3 DEF Due
  <2> QED BY <2>1, <2>2 DEF LastWord, Reached, Bereft
<1>2. Init => ChecksAreOfRows
  BY DEF Init, ChecksAreOfRows
<1>3. ShadowWord => ShadowInv
  BY DEF ShadowWord
<1> QED BY <1>1, <1>2, <1>3, InitShadowWord, NextKeepsWord, ChecksStay, PTL DEF Spec
=============================================================================
