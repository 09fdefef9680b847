------------------------- MODULE EnrollmentNotices --------------------------
(***************************************************************************)
(* What becomes of the messages of EnrollmentsService.  An operation first *)
(* commits; only then does it call publishEnrollmentNotification for each  *)
(* student it concerns, and answers without waiting for it.  A publication *)
(* is skipped when the row read has no user or course data, fails when the *)
(* channel does (either is only logged), and is lost when the process dies *)
(* first.  Those under way end in any order.                               *)
(*                                                                         *)
(* A message's id is its template's prefix and the id of the row it is     *)
(* about, so the rows a student has had in a section are counted here: the *)
(* n-th enrollment row and the n-th waitlist row are those with number n.  *)
(***************************************************************************)
EXTENDS Enrollment

CONSTANTS
  Contact,    \* the students whose rows carry all that a message needs
  MaxRows,    \* bound: [Student -> rows of one table ever made for a section]
  MaxUnderWay \* bound: publications left under way when an operation commits

ASSUME NoticeAssumption ==
  Contact \subseteq Student /\ MaxRows \in [Student -> Nat] /\ MaxUnderWay \in Nat

VARIABLES
  enrollmentsMade,   \* [Section -> [Student -> Nat]], enrollment rows made so far
  entriesMade,       \* [Section -> [Student -> Nat]], waitlist rows made so far
  publishing,        \* messages whose publication is under way
  published,         \* messages RabbitMQ has taken
  unpublished,       \* messages skipped, refused or lost with the process
  repeated           \* messages started although they had been started before

fates == <<publishing, published, unpublished>>
noticeVars == <<vars, enrollmentsMade, entriesMade, fates, repeated>>

Started == publishing \cup published \cup unpublished

-----------------------------------------------------------------------------
(* The numbers of rows once those a step makes are counted. *)
Counted(made, before, after) ==
  [c \in Section |-> [s \in Student |->
     IF before[c][s] = NoRow /\ after[c][s] # NoRow THEN made[c][s] + 1 ELSE made[c][s]]]

Message(notice, n) == [notice |-> notice, row |-> n]

(* Mutant: the id is made of the student's and the section's. *)
MessageOfPair(notice) == Message(notice, 1)

(* The message of a notification the step starts. *)
MessageOf(notice) ==
  LET made == IF notice.template = "enrollment.waitlisted" THEN entriesMade' ELSE enrollmentsMade'
  IN Message(notice, made[notice.section][notice.student])

(* An operation of Enrollment commits, and its publications start. *)
Operation ==
  LET started == {MessageOf(m) : m \in notices'} IN
  /\ Cardinality(publishing) <= MaxUnderWay
  /\ Next
  /\ enrollmentsMade' = Counted(enrollmentsMade, enrollment, enrollment')
  /\ entriesMade' = Counted(entriesMade, waitlist, waitlist')
  /\ \A c \in Section, s \in Student :
       enrollmentsMade'[c][s] <= MaxRows[s] /\ entriesMade'[c][s] <= MaxRows[s]
  /\ publishing' = publishing \cup started
  /\ repeated' = repeated \cup (started \cap Started)
  /\ UNCHANGED <<published, unpublished>>

(* publishEnrollmentNotificationEvent: the channel takes the message. *)
Publish(m) ==
  /\ m \in publishing
  /\ m.notice.student \in Contact
  /\ publishing' = publishing \ {m}
  /\ published' = published \cup {m}
  /\ UNCHANGED <<vars, enrollmentsMade, entriesMade, unpublished, repeated>>

(* The messages in gone are given up; nobody hears of it but the log. *)
GiveUp(gone) ==
  /\ publishing' = publishing \ gone
  /\ unpublished' = unpublished \cup gone
  /\ UNCHANGED <<vars, enrollmentsMade, entriesMade, published, repeated>>

(* Its early return: user or course data is missing. *)
Skip(m) == m \in publishing /\ m.notice.student \notin Contact /\ GiveUp({m})

(* No connection, sendToQueue throws, or it returns false, which the service *)
(* takes for a failure.                                                     *)
PublishFails(m) == m \in publishing /\ m.notice.student \in Contact /\ GiveUp({m})

(* The process dies: what it had not published yet is nowhere written down. *)
Crash == publishing # {} /\ GiveUp(publishing)

NoticeInit ==
  /\ Init
  /\ enrollmentsMade = [c \in Section |-> [s \in Student |-> 0]]
  /\ entriesMade = [c \in Section |-> [s \in Student |-> 0]]
  /\ publishing = {} /\ published = {} /\ unpublished = {} /\ repeated = {}

NoticeNext ==
  \/ Operation
  \/ \E m \in publishing : Publish(m) \/ Skip(m) \/ PublishFails(m)
  \/ Crash

NoticeSpec == NoticeInit /\ [][NoticeNext]_noticeVars
-----------------------------------------------------------------------------
(* No message is started twice, and none that the broker has or that was   *)
(* given up is started again: the notification service takes the id for    *)
(* the message, so a second one would be swallowed there, also for a row   *)
(* made after the first was dropped or removed.                            *)
ToldOnce == repeated = {} /\ publishing \cap (published \cup unpublished) = {}

(* Every row is accounted for, however long ago it was made and whatever    *)
(* failed since: for each enrollment a student has had there is one message *)
(* of how it was got, for each place in a queue one of the place, published,*)
(* on its way or given up.  "Promoted" is said no more often than the       *)
(* student has queued, and once at least while a CONVERTED row stands;      *)
(* "dropped" never of an enrollment that stands.                            *)
RowsAccountedFor ==
  \A c \in Section, s \in Student :
    LET Told(template, n) == Message(Notice(template, s, c), n) \in Started
        promoted == {n \in 1..enrollmentsMade[c][s] : Told("enrollment.promoted", n)}
    IN /\ \A n \in 1..enrollmentsMade[c][s] :
            Told("enrollment.confirmed", n) <=> ~Told("enrollment.promoted", n)
       /\ \A n \in 1..entriesMade[c][s] : Told("enrollment.waitlisted", n)
       /\ Cardinality(promoted) <= entriesMade[c][s]
       /\ waitlist[c][s] = "CONVERTED" => promoted # {}
       /\ enrollment[c][s] \notin {NoRow, "DROPPED"} =>
            ~Told("enrollment.dropped", enrollmentsMade[c][s])
=============================================================================
