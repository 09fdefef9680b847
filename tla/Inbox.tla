-------------------------------- MODULE Inbox --------------------------------
(***************************************************************************)
(* notification-service: the events of the other services become rows of   *)
(* Notification, which the user reads and deletes, and open tabs connect   *)
(* to a socket gateway to be told of new ones.                             *)
(*                                                                         *)
(* An event about an enrollment carries the id of its notification, built  *)
(* from the kind and the enrollment; an event about an invoice or a        *)
(* payment carries none.  Handlers overlap: no prefetch limit is set.  The *)
(* push to the tabs follows the write at once and leaves no state; the     *)
(* mail, awaited before the acknowledgement, ends well whatever happens.   *)
(* There is one user; announcements are only pushed.                       *)
(***************************************************************************)
EXTENDS Naturals, Sequences, FiniteSets, SequencesExt

CONSTANTS
  NoticeId,       \* ids that events carry
  NoId,           \* of an event without one
  Socket,         \* connections of tabs
  MaxNotices,     \* bound: events
  MaxOngoing,     \* bound: handlers at the same time
  MaxTrouble      \* bound: lost connections, crashes, failing statements

ASSUME InboxAssumption ==
  /\ NoId \notin NoticeId
  /\ {MaxNotices, MaxOngoing, MaxTrouble} \subseteq Nat

VARIABLES
  sent,         \* the events published so far, in order: Seq(ids)
  waiting,      \* the queue of notification events: Seq(positions in sent)
  ongoing,      \* the handlers: Seq([notice, step])
  consumer,     \* "up", "cut" (no channel consumes) or "down"
  inbox,        \* the rows of Notification
  dropped,      \* history: the events rejected, or whose row was deleted
  readIds,      \* history: the ids whose notification the user has read
  trouble,      \* how much has gone wrong
  socket,       \* [Socket -> what has become of the connection]
  connected     \* connectedClients of the gateway

queueVars == <<sent, waiting, ongoing, consumer, trouble>>
rowVars == <<inbox, dropped, readIds>>
socketVars == <<socket, connected>>
inboxVars == <<queueVars, rowVars, socketVars>>

Notice == 1..MaxNotices
(* of: the events that made the row or updated it; copy tells the rows of  *)
(* one event apart.                                                        *)
InboxRow == [id : NoticeId \cup {NoId}, copy : 0..(MaxTrouble + 1), of : SUBSET Notice, isRead : BOOLEAN]

InboxInit ==
  /\ sent = <<>>
  /\ waiting = <<>>
  /\ ongoing = <<>>
  /\ consumer = "up"
  /\ inbox = {}
  /\ dropped = {}
  /\ readIds = {}
  /\ trouble = 0
  /\ socket = [s \in Socket |-> "new"]
  /\ connected = {}

-----------------------------------------------------------------------------
(* Another service publishes an event. *)
PublishNotice(id) ==
  /\ Len(sent) < MaxNotices
  /\ sent' = Append(sent, id)
  /\ waiting' = Append(waiting, Len(sent'))
  /\ UNCHANGED <<ongoing, consumer, trouble, rowVars, socketVars>>

DeliverNotice ==
  /\ consumer = "up"
  /\ waiting # <<>>
  /\ Len(ongoing) < MaxOngoing
  /\ ongoing' = Append(ongoing, [notice |-> Head(waiting), step |-> "store"])
  /\ waiting' = Tail(waiting)
  /\ UNCHANGED <<sent, consumer, trouble, rowVars, socketVars>>

(* Mutants: the update half resets the flag; the acknowledgement comes     *)
(* before the handler, and a crash loses the event.                        *)
UnreadAgain(row, n) == [row EXCEPT !.of = @ \cup {n}, !.isRead = FALSE]
NothingUnacked == <<>>

(* The update half of the upsert: the text, and not the flag. *)
Updated(row, n) == [row EXCEPT !.of = @ \cup {n}]

(* createFromEvent: an upsert by the event's id, or a new row. *)
Stored(n) ==
  LET id == sent[n]
      same == {row \in inbox : row.id = id}
      free == (1..(MaxTrouble + 1)) \ {row.copy : row \in {old \in same : n \in old.of}}
  IN IF id = NoId
     THEN inbox \cup {[id |-> NoId, copy |-> Min(free), of |-> {n}, isRead |-> FALSE]}
     ELSE IF same = {}
     THEN inbox \cup {[id |-> id, copy |-> 0, of |-> {n}, isRead |-> FALSE]}
     ELSE (inbox \ same) \cup {Updated(row, n) : row \in same}

StoreNotice(i) ==
  /\ ongoing[i].step = "store"
  /\ inbox' = Stored(ongoing[i].notice)
  /\ ongoing' = [ongoing EXCEPT ![i].step = "ack"]
  /\ UNCHANGED <<sent, waiting, consumer, trouble, dropped, readIds, socketVars>>

AckNotice(i) ==
  /\ ongoing[i].step = "ack"
  /\ ongoing' = RemoveAt(ongoing, i)
  /\ UNCHANGED <<sent, waiting, consumer, trouble, rowVars, socketVars>>

Trouble == trouble < MaxTrouble /\ trouble' = trouble + 1

(* A statement fails: nack without requeue. *)
RejectNotice(i) ==
  /\ ongoing[i].step = "store"
  /\ Trouble
  /\ dropped' = dropped \cup {ongoing[i].notice}
  /\ ongoing' = RemoveAt(ongoing, i)
  /\ UNCHANGED <<sent, waiting, consumer, inbox, readIds, socketVars>>

(* What the broker gives out again when the channel closes. *)
UnackedNotices == [i \in DOMAIN ongoing |-> ongoing[i].notice]

CutConsumer ==
  /\ consumer = "up"
  /\ Trouble
  /\ consumer' = "cut"
  /\ waiting' = UnackedNotices \o waiting
  /\ UNCHANGED <<sent, ongoing, rowVars, socketVars>>

CrashConsumer ==
  /\ consumer # "down"
  /\ Trouble
  /\ consumer' = "down"
  /\ waiting' = IF consumer = "up" THEN UnackedNotices \o waiting ELSE waiting
  /\ ongoing' = <<>>
  /\ socket' = [s \in Socket |-> IF socket[s] = "new" THEN "new" ELSE "gone"]
  /\ connected' = {}
  /\ UNCHANGED <<sent, rowVars>>

BootConsumer ==
  /\ consumer = "down"
  /\ consumer' = "up"
  /\ UNCHANGED <<sent, waiting, ongoing, trouble, rowVars, socketVars>>

-----------------------------------------------------------------------------
(* The user's requests, of the same process.  markRead and                 *)
(* deleteMyNotification find the row first; one that is gone by then makes *)
(* the write fail.                                                         *)
MarkRead(row) ==
  /\ consumer # "down"
  /\ ~row.isRead
  /\ inbox' = (inbox \ {row}) \cup {[row EXCEPT !.isRead = TRUE]}
  /\ readIds' = readIds \cup ({row.id} \ {NoId})
  /\ UNCHANGED <<queueVars, dropped, socketVars>>

MarkAllRead ==
  /\ consumer # "down"
  /\ inbox' = {[row EXCEPT !.isRead = TRUE] : row \in inbox}
  /\ readIds' = readIds \cup ({row.id : row \in inbox} \ {NoId})
  /\ UNCHANGED <<queueVars, dropped, socketVars>>

DeleteNotice(row) ==
  /\ consumer # "down"
  /\ inbox' = inbox \ {row}
  /\ dropped' = dropped \cup row.of
  /\ readIds' = readIds \ {row.id}
  /\ UNCHANGED <<queueVars, socketVars>>

-----------------------------------------------------------------------------
(* The gateway.  handleConnection awaits the authentication and then, in   *)
(* one step, registers the socket; the tab may be gone by then.            *)
Connect(s) ==
  /\ consumer # "down"
  /\ socket[s] = "new"
  /\ socket' = [socket EXCEPT ![s] = "authenticating"]
  /\ UNCHANGED <<queueVars, rowVars, connected>>

(* The token is good: connectedClients.set. *)
RegisterSocket(s) ==
  /\ socket[s] \in {"authenticating", "left early"}
  /\ socket' = [socket EXCEPT ![s] = IF @ = "authenticating" THEN "open" ELSE "gone early"]
  /\ connected' = connected \cup {s}
  /\ UNCHANGED <<queueVars, rowVars>>

(* It is not: the gateway disconnects the socket. *)
RejectSocket(s) ==
  /\ socket[s] \in {"authenticating", "left early"}
  /\ socket' = [socket EXCEPT ![s] = "gone"]
  /\ UNCHANGED <<queueVars, rowVars, connected>>

(* Mutant: the entry stays. *)
KeepSocket(s) == connected

(* handleDisconnect: connectedClients.delete. *)
WithoutSocket(s) == connected \ {s}

CloseTab(s) ==
  /\ socket[s] \in {"authenticating", "open"}
  /\ socket' = [socket EXCEPT ![s] = IF @ = "open" THEN "gone" ELSE "left early"]
  /\ connected' = WithoutSocket(s)
  /\ UNCHANGED <<queueVars, rowVars>>

-----------------------------------------------------------------------------
InboxNext ==
  \/ \E id \in NoticeId \cup {NoId} : PublishNotice(id)
  \/ DeliverNotice \/ CutConsumer \/ CrashConsumer \/ BootConsumer
  \/ \E i \in DOMAIN ongoing : StoreNotice(i) \/ AckNotice(i) \/ RejectNotice(i)
  \/ \E row \in inbox : MarkRead(row) \/ DeleteNotice(row)
  \/ MarkAllRead
  \/ \E s \in Socket : Connect(s) \/ RegisterSocket(s) \/ RejectSocket(s) \/ CloseTab(s)

InboxSpec == InboxInit /\ [][InboxNext]_inboxVars

(***************************************************************************)
(* Properties.                                                             *)
(***************************************************************************)
(* Every variable keeps its shape. *)
InboxTypeOK ==
  /\ sent \in Seq(NoticeId \cup {NoId}) /\ Len(sent) <= MaxNotices
  /\ waiting \in Seq(Notice)
  /\ ongoing \in Seq([notice : Notice, step : {"store", "ack"}])
  /\ consumer \in {"up", "cut", "down"}
  /\ inbox \subseteq InboxRow
  /\ dropped \subseteq Notice
  /\ readIds \subseteq NoticeId
  /\ trouble \in 0..MaxTrouble
  /\ socket \in [Socket -> {"new", "authenticating", "left early", "open", "gone", "gone early"}]
  /\ connected \subseteq Socket

(* An event that was published waits, is being handled or has left its     *)
(* mark in the inbox, through crashes and lost connections, until the user *)
(* deletes it or a statement fails.                                        *)
EveryNoticeKept ==
  \A n \in DOMAIN sent :
    \/ n \in dropped
    \/ \E i \in DOMAIN waiting : waiting[i] = n
    \/ \E i \in DOMAIN ongoing : ongoing[i].notice = n
    \/ \E row \in inbox : n \in row.of

(* A notification with an id is there once, and what the user has read     *)
(* does not become unread, however often its event is delivered.           *)
ReadStaysRead ==
  \A id \in NoticeId :
    /\ Cardinality({row \in inbox : row.id = id}) <= 1
    /\ id \in readIds => \A row \in inbox : row.id = id => row.isRead

NoticesKept == EveryNoticeKept /\ ReadStaysRead

(* The gateway holds no connection that is closed, except of a tab that    *)
(* left while its token was being checked: that entry stays for good.      *)
ConnectedAreOpen ==
  \A s \in connected : socket[s] \in {"open", "gone early"}
=============================================================================
