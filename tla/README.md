# CampusCore: a TLA+ model of its services and of two of its pages

CampusCore is a campus platform of TypeScript/NestJS services over PostgreSQL
(Prisma) and RabbitMQ, with a Next.js frontend. This directory holds TLA+
modules translated from its source, the TLC configurations that model-check
them, and proofs checked by TLAPS. All paths below are relative to `src/`.

Contents: [inventory](#1-inventory), [plan](#2-plan),
[modules](#3-modules-and-how-they-correspond-to-the-code),
[runs](#4-runs), [what does not hold](#5-what-does-not-hold),
[proofs](#6-proofs), [limits](#7-what-is-not-modelled).

## 1. Inventory

| Component | State it keeps | Operations | What is hard about it | What makes it correct |
|---|---|---|---|---|
| **Enrollment and waitlist** (`academic-service/.../enrollments`, `waitlist`) | enrollments, waitlist rows with positions, `Section.enrolledCount` | enroll, drop, promote, leave the queue, change a status, remove | contention for the last seat, promotions long after queueing, a denormalised counter, renumbering | no section is oversold, a released seat goes along the queue, counter and positions exact, eligibility at the moment a seat is given, one message for each row, whatever becomes of its publication |
| **Sections and grades** (`.../sections`) | sections, grades on the enrollment rows | update a section, grade batch, publish | writes enrollments without the section lock and the status machine | published grades belong to students of the section |
| **Academic people shadow** (`.../people-shadow`) | copies of students and lecturers | upsert, delete | foreign keys delete rows of every section | the queue's order survives |
| **Finance** (`finance-service/.../finance`) | invoices, payments, payment intents, attempts | checkout, callback, webhook, expiry, manual payments, edits | READ COMMITTED transactions that overlap, retries, expiry racing a late answer | charged once, success means paid, managed payments never change |
| **Finance, generation** (the same service) | invoices of a semester, their numbers | enter, generate for one student or for all, delete | look-up, count and insert without a transaction, numbers counted | a student is billed once, a batch says whom it could not bill |
| **Auth** (`auth-service/.../auth`, `packages/platform-auth`) | the account, sessions, the links sent by mail, cookies | register, login, refresh, logout, change and reset the password, verify the address | a session replaced in three statements, failed sign-ins counted by reading and writing back, answers that get lost | sessions end with a password change, one session at a time, the lock holds |
| **People** (`people-service`) | students, lecturers | create, update, delete | read-modify-write, events after the commit | the shadows converge |
| **Shadow replication** (publishers in auth and people, consumers in academic, auth and backend) | copies of users, students, lecturers | upsert, delete | ordering of events, skipped and lost events | a copy ends as the original |
| **RabbitMQ transport** (a `rabbitmq.service.ts` in each service) | connection, channel | publish, consume, reconnect | reconnection without consumers, publishing while disconnected | what was accepted is consumed |
| **Attendance** (`academic-service/.../attendance`) | attendance rows | save a day's roll, edit a row | delete and create without a transaction, one invalid entry | rolls do not mix, the last one stands |
| **Notifications** (`notification-service`) | notifications, sockets | consume, push, mark read, delete, connect | messages that come twice, tabs that leave while their token is checked | no message without a row, one row for an id, what was read stays read |
| **Tickets** (`engagement-service`) | tickets, responses, ticket numbers | open, update, assign, answer, delete | a response writes a status it read before, numbers counted | an answered ticket is in progress, a response does not undo a decision |
| **Frontend**, invoices (`dashboard/invoices/page.tsx`) | list, dialog, payment started | filter, open, pay, return from a provider | answers in any order, taken whatever is shown by then | it shows, and pays, what was clicked |
| **Frontend**, registration (`dashboard/register/page.tsx`) | places as loaded, the plan | plan, enroll, leave, submit the plan | overlapping loads of several answers, a submission section by section | what leaves the plan was granted |
| Announcements, catalogue, grade items, roles, audit log, analytics, e-mail, other pages, deployment | rows of their own, or none | create, read, update, delete; reports; I/O | little | single-row rules |

How they interact: services do not share tables. auth-service publishes users
to the RabbitMQ queue `auth-shadow`, people-service students and lecturers to
`people-shadow`, which auth-service and core-api both consume, and
`people-shadow.academic`; the consumers keep shadow rows. academic-service and finance-service
publish to the notification queue after their commits. finance-service reads
students and semesters over HTTP. The frontend calls all of them through nginx.

`PROJECT.json` lists every component with its status, and under `hazards` each
place in the code that a test would hardly reach, with the property that
watches it or the reason there is none yet.

## 2. Plan

In this order; 1 to 11 are done.

1. `SeatAllocation` - what seat allocation promises, abstractly.
2. `Enrollment`, `EnrollmentRefinement` - the enrollment service, and the
   mapping under which it implements 1.
3. `EnrollmentProofs` - its invariants and action properties as theorems.
4. `AcademicRecords` - 2 composed with the writers that bypass its lock;
   `RecordsProofs`, in which the lemmas of 3 are used again.
5. `PaymentCheckout`, `CheckoutProofs` - one invoice with overlapping requests.
6. `ShadowSync`, `ShadowProofs` - the student profiles of people-service and
   their copies: overlapping edits and handlers, lost, repeated and overtaken
   events.
7. `AuthSession`, `AuthProofs` - one account: sign-in and its lock, rotation of
   the refresh token, passwords and links, cut at their statements.
8. `Inbox`, `InvoiceGeneration`, `AttendanceRoll`, `SupportTickets` - the
   services whose operations are several statements without a transaction, and
   the consumer of notifications.
9. `InvoicesPage`, `RegisterPage` - the pages on which students act on 2 and 5,
   with answers in any order; `CampusServices` - 7 to 9 side by side;
   `ServiceProofs` - proofs about 8 and 9 and about their composition.
10. `EnrollmentNotices` - 2 with its messages after the commit: skipped,
    refused, lost with the process, in any order; `EnrollmentRefinementProofs` - a
    proof that 2 implements 1, and proofs about the messages.
11. `DataProofs` - what the proofs of several components need to know of
    numbers, sums and lists.
12. The auth events in `ShadowSync`: `publishUserUpsertById` reads the row again
    after the commit, and `user-roles.synced` replaces a set.
13. Proofs of what the queue of `ShadowSync` promises under repeated crashes
    short of liveness: that a message that waits is handled once its service
    runs, from each state it may be in.

## 3. Modules and how they correspond to the code

### SeatAllocation (abstract)
For every section a set of seat holders, a queue and a capacity. A seat is
given only while one is free; a student joins at the tail and only when the
section is full; a released seat is handed along a prefix of the queue; only
staff pick out of turn.

### Enrollment
`enrollment`, `waitlist` and `position` are the tables `Enrollment` and
`Waitlist`, as functions of section and student because of their unique
constraints; `enrolledCount`, `capacity` and `status` are columns of `Section`.
`now` is the server's clock, compared with the four dates of the semester.
`notices` is the set of notifications the last step starts once it has
committed; what becomes of them is `EnrollmentNotices`.

*An operation is one step.* Every mutation of the service runs in
`withSerializableTransaction`, SERIALIZABLE and with the section's row locked.
A transaction that throws or loses three times leaves nothing behind: it is a
stuttering step.

| Action | Code (`enrollments.service.ts`) |
|---|---|
| `EnrollSeated`, `EnrollWaitlisted` | `enrollStudent`, by its branch |
| `DropEnrollment` | `dropEnrollment` and the promotions it causes |
| `PromoteWaitlistEntry`, `RemoveWaitlistEntry` | the methods of these names |
| `UpdateKeepingSeat`, `UpdateReleasingSeat` | `update`, by whether the seat is released |
| `RemoveSeated`, `RemoveUnseated` | `remove` |
| `UpdateSection` | `SectionsService.updateSection` |

The promotion loop of `handleSeatAvailability` is defined without recursion: an
entry is *considered* when fewer students ahead of it are claimable than seats
are free, and *promoted* when it is considered and claimable. This is the loop
because promoting one student into a section changes neither the eligibility of
another nor their position.

Section statuses are `OPEN` and one other value, `CLOSED`: the code tests
`OPEN` only. `addedAt`, the tie breaker of equal positions, is left out, since
positions of ACTIVE rows never tie (`QueueGapless`, proved). A call of `update`
that carries a status and a grade is two steps here; nothing distinguishes
them.

### EnrollmentNotices
Enrollment with the publications its operations start. `publishing` holds those
under way, `published` what RabbitMQ has taken, `unpublished` what was given up,
`repeated` (history) what was started although it had been started before. A
message's id is a prefix for its template and the id of the row it is about, so
`enrollmentsMade` and `entriesMade` count the rows a student has had in a
section, and a message carries the number of its row.

| Action | Code (`enrollments.service.ts` unless named) |
|---|---|
| `Operation` | a step of `Enrollment`; after the commit, and after the retries of `withSerializableTransaction`, `publishEnrollmentNotification` for each student concerned, which nobody awaits |
| `Publish` | `publishEnrollmentNotificationEvent`, to the end |
| `Skip` | its early return: the row read has no user or course data |
| `PublishFails` | `publishMessage` (`rabbitmq.service.ts`) without a channel, or refused; the error is logged |
| `Crash` | the process dies: nothing had written down what was under way |

`Contact` is the students whose rows carry what a message needs. `MaxRows` bounds
the rows a student may have, `MaxUnderWay` the publications still under way when
an operation commits. A grade batch may revive a `DROPPED` row, which could then
be dropped a second time under the same id; the grade batches are
`AcademicRecords`' and are not part of this module.

### AcademicRecords
Adds `grade` and `registered` (the student shadow) and the writers outside the
section lock: `updateSectionGrades`, `publishSectionGrades`, `update` with a
grade only, and the deletion and re-creation of a student. They are atomic:
each is one statement or one array transaction of blind writes. A SERIALIZABLE
operation that overlaps one of them either loses on a row both write or has the
effect of having run first, so interleaving them as whole steps loses no final
state.

### PaymentCheckout
One invoice: `invoice` is its status; `intents`, `attempts` and `payments` are
tables; `announced` counts the `payment.completed` messages for a checkout;
`work` holds, for every request in progress, what it has read.

Finance transactions run at PostgreSQL's default READ COMMITTED level, so each
operation is cut where another may come between: its reads, and its commit.

| Actions | Code (`finance.service.ts`) |
|---|---|
| `BeginCheckout`, `FindIntent`, `CreateAttempt` | `initiateStudentInvoiceCheckout`: the invoice, the live intent, the closing transaction |
| `CheckIntent`, `RetireIntent` | `expirePaymentIntent` and `cancelPaymentIntent`: the read, the write |
| `ExpireOnRead` | the three places that expire what they find overdue |
| `FallDue` | the clock passes `expiresAt` |
| `ReadSignal`, `LockAttempt`, `ApplySignal`, `ReadInvoice`, `ChargeSettled`, `Charge`, `Announce` | `processProviderSignal`: the first read, the write that locks the attempt, the branches, and the message after the commit |
| `BeginPayment`, `CreatePayment`, `SettleInvoice` | `createPayment`, three statements without a transaction |
| `UpdatePayment`, `RemovePayment`, `UpdateInvoice`, `RemoveInvoice` | the methods of these names |
| `Fail` | a request ends early: an exception, a constraint, a deadlock broken by PostgreSQL, a crash |

Abstractions: a row and the rows Prisma includes with it are read in one step,
and so are the lookup of the attempt and of the invoice at the start of a
checkout. Writes appear at the commit. The lock cycle between a signal
(attempt, then intent) and an expiry (intent, then attempts) is represented by
waiting and by `Fail`. Payment numbers, e-mails, the message of a manual
payment and signals with a wrong signature are left out; the last change
timestamps only.

### ShadowSync
`student` is people-service's table, `copy` the tables of the consumers that
run, `queue` the two durable queues. `request` holds for every request of
people-service what it is about to write or publish, `handlers` for every
consumer the messages it has been given, with the statement it is at.
`history`, `version`, `applied` and `spoiled` are history variables: what the
table has held, and who lost, refused or overtook an event.

| Actions | Code |
|---|---|
| `BeginCreate`, `BeginUpdate`, `BeginRemove`, `Write`, `Refused` | `create`, `update`, `remove` of `students.service.ts`, before and at their write |
| `Publish`, `LoseEvent` | `publishMessage` of people-service: to every queue, or to none |
| `Deliver`, `Ack`, `FailStatement` | `consumeMessages` (`rabbitmq.service.ts`): no prefetch limit, `ack` after the callback, `nack` without requeue |
| `CheckCurriculum`, `Apply`, `Reject` | the handlers of `people-shadow.consumer.ts`; what the schemas of the consumers refuse |
| `Disconnect`, `Crash`, `Boot` | the close listeners, the end of a process, `onModuleInit` |
| `RemoveCurriculum` | `curricula.service.ts`, with its cascade |

Abstractions: the reads that precede a write are one step, since the write's
own constraints repeat what they check; `row` is a profile as it will be
written, the columns the request leaves out being those it read. The account's
row that academic-service upserts first is left out, as nothing here reads it,
and accounts are not deleted. The retries of `connectWithRetry` have one
outcome. A connection lost before an acknowledgement puts the messages back in
front of the queue; a service that has lost it may publish again, but only a
start of the process consumes again.

### AuthSession
One account: `account` is its row of `User`, `sessions` those of `Session`,
`cookie` what each browser holds, `serving` what auth-service is at. A password
is the number of the change that set it. A refresh token is the number of the
sign-in it was signed for; two signed within a second are the same string.

| Actions | Code (`auth.service.ts` unless named) |
|---|---|
| `SignIn`, `ReadCredentials`, `RightPassword`, `WrongPassword`, `WriteAttempt`, `LockPasses` | `login`, `validateLocalCredentials`: the row, the count of failures or its reset, the lock |
| `Register`, `CreateAccount` | `register` |
| `Refresh`, `FindSession` | the frontend's interceptor, `refreshToken` |
| `Rotate`, `CreateSession`, `ReceiveTokens`, `LoseTokens` | `generateTokens`, `storeRefreshSession`: `deleteMany`, then `create`; the cookies, or an answer that is lost |
| `SignOut`, `RevokeOne`, `ReceiveSignOut` | `logout` |
| `HandlerFails` | a statement, or the publication between the two writes of `resetPassword`, throws, or the process dies: what was written stays |
| `ChangePassword`, `CheckOldPassword`, `ResetPassword`, `FindResetLink`, `WritePassword`, `RevokeAll` | `changePassword`, `resetPassword`: the read, the update, the deletion of the sessions |
| `AskLink`, `WriteLink`, `VerifyEmail`, `FindVerification`, `WriteVerified` | `forgotPassword`, `resendVerificationEmail`, `verifyEmail` |
| `UpdateUser` | `users.service.ts`: an administrator sets the status or the password |
| `SessionExpires`, `ResetLinkExpires` | the dates these are compared with |

`settled`, `chosen` and the fields `met`, `since` and `crossed` are history:
the browser that signed in last and alone, the password its owner chose last,
and which kinds of request each one overlapped. Left out: the profile, the
audit log, the events for the shadows, and `User.refreshToken`, which nothing
reads.

### Inbox
The notifications of one user. `sent` is the events in the order published,
`waiting` the queue, `ongoing` the handlers, `inbox` the rows, `connected` the
gateway's map of sockets.

| Actions | Code (`notification-service`) |
|---|---|
| `PublishNotice` | the publishers: an event about an enrollment has the id of its row, others have none |
| `DeliverNotice`, `AckNotice`, `RejectNotice` | `consumeMessages` of `rabbitmq.service.ts` |
| `StoreNotice` | `handleUserNotification`, `createFromEvent`: an upsert by id, or a create |
| `MarkRead`, `MarkAllRead`, `DeleteNotice` | the methods of `notifications.service.ts` |
| `CutConsumer`, `CrashConsumer`, `BootConsumer` | the close listeners, the end of the process, `onModuleInit` |
| `Connect`, `RegisterSocket`, `RejectSocket`, `CloseTab` | `handleConnection` on both sides of its await, `handleDisconnect` |

The push to the sockets follows the write and leaves no state; the mail is
awaited before the acknowledgement and its failure is caught.

### InvoiceGeneration
The invoices of one semester. A request (`job`) is cut, for each student, at
`FindInvoice`, `CountInvoices` (the next number) and `InsertInvoice`, which
fails on a number that is taken: `generateInvoicesForSemester`,
`generateInvoiceForStudentSemester`, `createInvoice` and `createInvoiceRecord`
of `finance.service.ts`; `RemoveInvoice` is the method of this name. In a batch
a failure is recorded and the next student follows. `overlapped` and `removed`
are history. Amounts, items and the year in a number are left out; students
with nothing to pay are those outside `WithItems`.

### AttendanceRoll
One section and one day. `MarkSection`, `CheckTeacher`, `EraseDay` and
`InsertRoll` are the start and the three statements of `markSectionAttendance`;
the insert is one statement for all entries and fails as a whole when a student
is unknown, is named twice, or has a row already. `InsertByHand`, `UpdateRow`
and `RemoveRow` are the administrators' operations (`create` and `createBulk`
together), `Reassign` a change of the section's lecturer. `crossing`,
`standing`, `edited` and the field `by` are history.

### SupportTickets
`CountTickets` and `InsertTicket` are `create`; `FindTicket` is the look-up that
starts `update`, `assign`, `addResponse` and `remove`; `UpdateTicket` with its
stamps, `AssignTicket`, `InsertResponse`, `SetInProgress` and `RemoveTicket` are
their writes. `SetInProgress` writes on the status `FindTicket` read.
`RequestFails` ends a request before any of its statements; a response that ends
between its two leaves the ticket `OPEN` and answered, which the history field
`left` records. `reopened` and `overruled` are history as well. The text, the
priority and the category are left out.

### InvoicesPage
The state is that of `InvoicesPage`: `term`, `listed`, `open`, `detail`,
`checkout`, and the requests under way (`listing`, `fetch`).

| Actions | Code (`invoices/page.tsx`) |
|---|---|
| `OpenInvoices`, `AskList`, `SelectTerm`, `RetryList`, `ListArrives`, `ListFails` | the effects and `fetchInvoices`, with the return from a provider that opens the invoice the address names |
| `ClickBill`, `OpenDetail`, `DetailArrives`, `DetailFails`, `IntentArrives`, `RefreshDetail`, `CloseDialog` | `openInvoiceDetail`, `loadInvoiceDetail`, `refreshCurrentInvoice`, the dialog |
| `StartCheckout`, `CheckoutStarted`, `CheckoutFails`, `ContinueCheckout` | the methods `handle...` and the way to the provider |

An invoice is its identity here; what a payment does is `PaymentCheckout`'s.

### RegisterPage
`place` is what academic-service holds, `shown` what the page shows of it,
`loaded` the sections the page has loaded (at most 150, `sectionsApi.getAll`),
`plan` the plan in the browser's storage, whose sections need not be among them. The service takes requests at its
own time (`TakeClick`, `TakePlanned`, `TakeLeave`, `ChangeElsewhere`) and gives
any answer `Enrollment` may give.

| Actions | Code (`register/page.tsx`) |
|---|---|
| `OpenPage`, `RetryLoad`, `StartLoad`, `AnswerEnrollments`, `AnswerWaitlist`, `ReceiveLoad`, `FailLoad` | `fetchBaseData`: two answers read at two moments, taken together |
| `Toggle` | `togglePlannedSection` |
| `ClickEnroll`, `ClickGranted`, `ClickRefused` | `handleEnroll` |
| `ClickLeave`, `LeaveAnswered` | `handleLeaveWaitlist` |
| `SubmitPlan`, `Ask`, `AskNext`, `PlanDone`, `PlanStopped` | `handleSubmitPlan`: the sections planned, loaded and not shown as enrolled (`Outstanding`), one after the other; then the whole plan is emptied |

Holds, the registration window, the state of a section and clashes in the
timetable, which block a button from the outside, are left out: the page may
ask more often here than there.

### CampusServices
The seven modules above side by side, for one run. They have no table, queue
or variable in common, so a property of one cannot depend on the steps of
another, and every interleaving is a product of independent behaviours. The
module therefore moves one service at a time, the one in `focus`: the run
explores the sum of their states. What interacts is composed elsewhere:
`AcademicRecords` extends `Enrollment`, `ShadowSync` has publishers and
consumers, and each page has its service's answers in it.

## 4. Runs

| Run | Instance | Properties |
|---|---|---|
| `enrollment_queue` | 1 section, capacity 0 to 2 and changing, 4 students, 5 instants covering before, during, between and after the two windows | `TypeOK`, `EnrolledCountInSync`, `QueueGapless`, `NeverQueuedAndEnrolled`, `NoOversell`, `ReleaseLeavesNoIdleSeat`, `ImplementsSeatAllocation` |
| `enrollment_timetable` | 3 sections of 1 seat each: two overlap, one admits no second section beside it by its credit limit, one requires another course; 3 students, each of whom may wait for each | `NoScheduleConflict`, `CreditLoadWithinLimit`, `SeatsNeedPrerequisites`, `ReleaseLeavesNoIdleSeat` |
| `enrollment_notices` | 1 section of 1 or 2 seats, a student with 2 rows of each kind whose messages can be sent, one with 1 whose cannot; 1 publication under way at a commit | `ToldOnce`, `RowsAccountedFor` |
| `academic_records` | 1 section with 1 seat, 3 students, grade batches of any set of rows | `RecordsTypeOK`, `PublishedOnlyOnceConfirmed`, `WaitlistOrderStable`, `CounterHeals` |
| `checkout_concurrent` | 2 requests at a time, 1 provider, 2 keys, 2 intents, 2 payments, a total of 1, an invoice that may be cancelled at any moment | `PayTypeOK`, `SucceededMeansPaid`, `ChargedAndAnnouncedOnce`, `ManagedPaymentsAppendOnly`, `KeyKeepsIntent`, `FinalStatusSettles` (the commit of a request that had read the checkout open still overwrites), `ExpiredStaysClosed` (such a commit, or a checkout that reuses it, still opens) |
| `shadow_academic` | academic-service, 2 requests at a time, 2 profiles of 1 account, 2 curricula, 3 changes, 2 handlers at a time, 1 outage | `ShadowTypeOK`, `CopiesAreVersions`, `SettledCopyIsCurrent`, `QueuesDrain` |
| `campus_services` | see the next table | `ServicesTypeOK` and those of the next table |

| In `campus_services` | Instance | Properties, and what they except |
|---|---|---|
| `AuthSession` | 2 requests, 1 browser, a lock after 2 failures, four scopes: 3 failures; 3 sessions with a change of the password; a link; an administrator | `SessionsEndWithPassword` (a sign-in that overlapped the change survives it; a change that ends between its two writes has not succeeded, and all old sessions survive it), `SoleSession` (two that overlap leave two sessions or none that matches), `LockHolds` (a sign-in read before the lock lifts it) |
| `Inbox` | 2 events, 1 id, 2 handlers, 2 losses or crashes, 1 socket | `NoticesKept` (not what a statement failed on), `ConnectedAreOpen` (a tab that left while its token was checked is kept for good) |
| `InvoiceGeneration` | 3 requests, 3 students of whom 2 have something to pay, 1 deletion | `BilledOnce` (requests that overlap bill twice), `BatchReportTrue` (they also make one another fail, and so does a deletion) |
| `AttendanceRoll` | 2 rolls of at most 2 entries, 2 lecturers, 3 students of whom 2 exist | `RollsDoNotMix` (rolls saved at the same time mix where they name different students) |
| `SupportTickets` | 2 requests at a time, 6 in all, 2 tickets, 2 responses, 1 agent | `TicketsHold` (a response that crossed an update undoes it; one that ends between its two statements leaves the ticket open; a deletion lets numbers be refused) |
| `InvoicesPage` | 2 invoices in 2 semesters, 2 lists and 2 requests under way, 1 way to a provider | `ShownIsSelected` (a late answer for an earlier dialog or semester is shown) |
| `RegisterPage` | 2 sections, any of them loaded, 2 loads, 3 requests or changes elsewhere | `PlanIsHonoured` (what was planned during a submission, or was not loaded at its start, is thrown away) |

Why the bounds are enough. Four students are one to drop, two to be promoted at
once when a section of two seats was raised, and one who is left; with an
ineligible one in the queue three sections are needed, one to conflict with,
one that costs too many credits and one to require. Two overlapping requests
are what every race of the finance service needs: each is between one read and
one other commit. They share one provider, so none of them cancels a checkout to
switch to another: two providers make more than 26 million states, and the
theorems of `CheckoutProofs` are for any number. Two intents and two payments let a checkout be replaced and a
manual payment compete with a charge. Two rows of each kind let a student be
told of a row made after the first was dropped. Positions are bounded where deletions
leave gaps (`MaxPosition`), since a queue that is never renumbered could grow
them for ever. Symmetry is over students, workers, providers and keys, none of
which the code tells apart.

In `campus_services` every race is between a request's read and one write of
another, so two requests are enough; billing has a third so that one may come
after two that overlapped, and find what they left. Of three students, one is
unknown or has nothing to pay. `Scope` bounds an account's behaviours four ways
instead of one: the lock, the sessions, the links and an administrator each
need a few steps of their kind and none of the others, and every scope keeps
all actions its bounds allow. The same two values stand for requests
(`p1`, `p2`) and for students, sections or semesters (`u1`, `u2`) in all seven
modules. Nothing tells the requests apart. `InvoicesPage` tells `u1` from `u2` by
the invoice each semester has (`MCTermOf`), so the symmetry set `Swaps` lets them
change places only together with these invoices, `b1` and `b2`, which maps
`MCTermOf` to itself. The run has 4.9 million distinct states.

`CHECK_DEADLOCK FALSE` stands in the checkout configurations because the one
invoice modelled may be deleted, after which nothing can happen, and in the
shadow and `campus_services` configurations because requests, events and
sessions are bounded in number.

Three changes in `shadow_academic` are one to overtake another and one to
follow, and create, delete and create a second profile of the account; the two
rows differ in both columns, so that a mixture of them is neither. One outage
suffices for each way to fail, which the changes then surround.

Fairness is assumed in `ShadowSync` only. A request and a handler run to their
end, for nothing in them waits for another; RabbitMQ delivers to a consumer
that is subscribed; a process that ends is started again, as
`docker-compose.production.yml` says `restart: unless-stopped`. Nothing is
assumed about a process that has lost its connection: its liveness probe still
answers, and no code subscribes again, so `QueuesDrain` excepts the case that
all consumers of a queue are in it. Elsewhere a request, a promotion or a
message may always fail to come, and all properties are safety properties.

## 5. What does not hold

| Run | Property | The code |
|---|---|---|
| `records_over_capacity` | `NoOverCapacityConfirmation` (`load-tests/README.md:131`) | a grade batch sets `COMPLETED` on rows whose seat was given away |
| `records_draft_grades` | `DraftGradesHidden` (`frontend/.../lecturer/grades/[id]/page.tsx:157`) | saving a draft completes the enrollment, and completed enrollments are shown |
| `checkout_overpayment` | `NoOverpayment` (`finance.service.spec.ts:170`) | a checkout is charged the amount fixed at its creation |
| `checkout_final_status` | `FinalStatusSticks` (`finance.service.ts:697`) | the status is read before the lock is waited for, and written blindly |
| `shadow_claims` | `StudentClaimsKept` (`docs/ARCHITECTURE.md:75`) | auth-service and core-api consume one queue, and each message goes to one of them |

Of `ShadowSync` also these do not hold, and no document says they do: a copy is
current although an event was lost (there is no outbox and no comparison of the
tables), refused (a constraint of the consumer's schema) or overtaken (a
consumer's handlers overlap, events carry no version). `spoiled` names the
services this happened to, and `SettledCopyIsCurrent` is about the rest.

Nor do the following, which the properties of the passing runs except by name:

- A password change or reset that throws or dies between `user.update` and
  `session.deleteMany` (`auth.service.ts:327-336`, `401-413`) leaves the new
  password and every session of the old one, until a later change succeeds
  (`HandlerFails`; `SessionsEndWithPassword` is about changes that succeed).
- A response to a ticket that ends between its insert and the status update
  (`support-tickets.service.ts:197-209`) leaves an answered ticket `OPEN`
  (`RequestFails`, the field `left`).
- A planned section that is not among the 150 loaded is never asked for and is
  thrown away with the plan (`register/page.tsx:673-679`, `859`; `excused`).
- A message about an enrollment is not certain to arrive: it is skipped, refused
  or lost after the commit, and only the log knows (`unpublished`).
- Two overlapping checkouts of one invoice create two live intents, each of which
  may be charged; an expiry can leave an attempt open that a request which had
  found the checkout open adds or writes afterwards. No property says otherwise.

## 6. Proofs

Every property of a run that is expected to pass is a theorem, but for the
liveness property `QueuesDrain`. The runs check the properties on the instances
of section 4; the theorems state them for all values of the constants that
satisfy the named assumptions of the modules. What is assumed is what the code's
data guarantee: values that stand for "no row" are no rows, bounds are numbers,
the catalogue gives every section a course and a semester, and the students,
sections, workers, requests and billed students that something is counted of
are finitely many. The bounds of the models (`MaxVersions` and the like) remain
parameters: a theorem holds for each of their values.

### Enrollment

`EnrollmentProofs` proves, for any sets of students and sections, any catalogue,
dates and capacities:

| Theorem | States | Rests on |
|---|---|---|
| `TypeCorrect`, `WaitlistGapless` | `TypeOK`, `QueueGapless` are invariant | `Structural`; `QueuesKept` |
| `NeverOversold` | a step never gives a seat beyond the capacity | `SeatsAfter`, `StepNeverOversells` |
| `SeatsAlwaysNeedPrerequisites` | a new seat holder has the prerequisites | `EveryStepGivesOrKeeps` |
| `TimetablesNeverConflict` | no overlapping seats | `EveryStepGivesOrKeeps`, induction over steps |
| `LimitsAlwaysKept` | a new seat keeps its holder within the credit limit | `EveryStepGivesOrKeeps`, `LoadsAreSums` |
| `CounterNeverDrifts` | `enrolledCount` is exact | `StepCounts` |
| `QueuedAreNotEnrolled` | nobody waits where they are enrolled | `StepSeparates` |

`Structural`, that is `TypeOK` and that no two who wait for a section have the
same position (`Spaced`), is the inductive invariant: the new position
`LastPosition + 1` is taken by nobody because it is above all the positions,
which needs that they are numbers and the students finitely many. `QueueGapless` is then kept by every
step that found it (`QueuesKept`). The two are separate because the writers of
`AcademicRecords` destroy the second and not the first, and the lemmas ask for
no more than the first. `Resequenced` gives rank numbers; `ResequencedGapless`
shows they are 1 to n when the old positions are distinct, by cardinalities of
finite sets.

For the properties of seats, `PromotedFit` shows what a promotion guarantees:
promoted students are claimable, and at most as many as seats are free. The
second part counts: the promoted student with the highest position has all the
others ahead of it. `EveryStepGivesOrKeeps` then reduces every action to one of
two cases, seats given to claimable students or none given, and each safety
proof treats the two cases.

A student's credits are `MapThenSumSet` of the community modules: a function
that takes the sections out in an order `CHOOSE` gives, and of which it has to
be proved that it exists. An induction rule is an operator with an operator for
a parameter, which the provers cannot instantiate, so `DataProofs` argues from
the least counterexample (`LeastNatural`): such a sum exists, does not depend
on the set it is computed in, and any element may be taken out first
(`SumExists`, `SumsAgree`, `SumTakesOut`). So the sum `assertCreditLimit` reads
before the insert is the one after it, less the new section's credits.

### Enrollment implements SeatAllocation

`EnrollmentRefinementProofs` proves `ServiceImplementsAllocation`: `Spec`
implements `SeatAllocation` under the mapping of `EnrollmentRefinement`. A
queue there is a sequence, here a numbering; `ListedFacts` and `ListedIs` say
that a gapless numbering has exactly one sequence, `OneJoins`, `OneLeaves` and
`PrefixLeaves` what a newcomer, a removal and a hand-over do to it. That a
hand-over consumes a prefix is `ConsideredIsPrefix`: whoever stands before a
considered student has no more claimable students ahead, so is considered too,
and by `PrefixIsUpTo` a set with that property is the first k for k its
cardinality. Cardinalities replace an induction over the promotion loop
throughout. Each operation is then one of the abstract ones
(`SeatedIsAdmitted`, `WaitlistedJoins`, `HandOverIsRelease`, `EntryIsPicked`,
`EntryIsWithdrawn`, `SectionIsResized`) or a stuttering step
(`StatusChangeStutters`). `Structural` is the only invariant used.

The same prefix gives `NoSeatLeftIdle`: if a waiting student was not reached,
the first one not reached has exactly the promoted ahead of it among the
claimable, so there are as many promotions as free seats
(`UnreachedOnlyWhenFull`) and the section is full again. While a seat is left
after a hand-over, nobody waits.

### Messages

Also in `EnrollmentRefinementProofs`, about `EnrollmentNotices`, for any students,
sections, rows and publications under way, and any of them skipped, refused or
lost:

| Theorem | States | The strengthening |
|---|---|---|
| `NobodyToldTwice` | `ToldOnce` | `NoticeInv`: a row not made yet has no message, so a step that makes one starts a new message (`StartedAreNew`); a row that stands has not been dropped |
| `RowsAlwaysAccountedFor` | `RowsAccountedFor` | `Account`, its conjunct for one student and section: who still waits has queued once more than they were promoted; `StepTells` of `EnrollmentProofs`: which notifications a step starts, by what it does to the rows, which rests on `NeverQueuedAndEnrolled` |

### The academic service with all its writers

`RecordsProofs` proves about `AcademicRecords`, for any students, sections and
grade batches:

| Theorem | States | The strengthening |
|---|---|---|
| `RecordsTypesHold`, `PublishedWereConfirmed` | `RecordsTypeOK`, `PublishedOnlyOnceConfirmed` | `RecordsInv`: nobody waits who is enrolled, for a promotion would make a row with a published grade `PENDING` again; students without a shadow have no rows |
| `QueuedStayApart` | `NeverQueuedAndEnrolled`, which `Enrollment` promises, still holds beside the other writers | a conjunct of `RecordsInv` |
| `WaitlistNeverReordered` | `WaitlistOrderStable` | a step lets some leave, renumbers by rank, or lets one join behind (`QueueMoves`) |
| `CounterAlwaysHeals` | `CounterHeals` | every write of the counter writes the number of seats after the step |

### Checkout

`CheckoutProofs` proves about `PaymentCheckout`, for any number of overlapping
requests, providers, keys, intents and payments, and signals of any kind in any
order:

| Theorem | States | The strengthening |
|---|---|---|
| `PayTypesHold`, `SuccessIsPaid`, `ChargedOnceAnnouncedOnce` | `PayTypeOK`, `SucceededMeansPaid`, `ChargedAndAnnouncedOnce` | `CheckoutInv`: for each phase of a request, what it has read that must still be so (`Sound`): its rows exist, its attempt is still its intent's, an intent it saw paid or succeeded has its payment; who has charged has yet to announce, and is the only one |
| `ManagedPaymentsStay`, `KeysKeepTheirIntent` | `ManagedPaymentsAppendOnly`, `KeyKeepsIntent` | `Grows`: rows of a checkout are never taken back, by any action |
| `FinalAlwaysSettles` | `FinalStatusSettles` | `ChargesSawOpen`: only a request that saw its intent open is about to charge it |
| `ExpiredAlwaysStaysClosed` | `ExpiredStaysClosed` | `CheckoutInv`; a step that makes no checkout expired and writes only final statuses opens nothing (`NothingOpens`), an expiry takes all open attempts along (`RetireCloses`) |

What a request knows in `Sound` is deliberately little: most of what it read may
be out of date by the commit, and the theorems hold nevertheless, because a
payment's `paymentIntentId` is unique, `SUCCEEDED` is written in the transaction
that inserts the payment, and no operation deletes it.
The last two theorems name the requests that may still write over a final status:
those that had read the checkout before. `checkout_final_status` shows that they
do.

### Shadows

`ShadowProofs` proves for any services, profiles and rows, and any bounds on
changes, outages and handlers:

| Theorem | States | The strengthening |
|---|---|---|
| `CopiesAlwaysVersions` | `CopiesAreVersions` | `ShadowInv`: every event is *genuine*, that is, tells of a row its student has held, while it waits to be published, in a queue and in a handler |
| `ShadowTypesHold` | `ShadowTypeOK` | `ShadowShape`: the writes under way and those done do not exceed the bound, by cardinalities |
| `SettledAlwaysCurrent` | `SettledCopyIsCurrent` | `LastWordArrives` |

Which events are genuine depends on `history`, so the step that changes it,
`Write`, needs `GenuineGrows`; `RequeueGenuine` is what makes redelivery
harmless.

`SettledCopyIsCurrent` says what the tables are when all is quiet; the steps
before say why. `LastWordArrives`: for every queue whose services nothing was
lost, refused or overtaken for, and for every student, there is a version such
that nothing newer about the student is on its way, an event of that version
tells of the row the student has, and either that event is still due (to be
published, in the queue, or in a handler that has not written it) or a service
that shares the queue has the row, as of that version or a later one. An event
that is only to be acknowledged no longer counts as due, for nothing need write
it again, nor does one whose connection was lost, for its message is back in the
queue. Redelivery keeps
the invariant since it moves events back from the handlers to the queue
(`ConcatLists`, `RemoveAtLists` of `DataProofs`); a repeated older event that
is written after a newer one makes the service spoiled, which is the
exception the property states; and the end of a student's curriculum takes the
row with it.

### The other services, the pages, and their composition

The modules of `CampusServices` have their properties proved in `AuthProofs` and
`ServiceProofs` on their own specifications, for any number of requests,
students, sections, sessions and so on. Each invariant had to be
strengthened in the same way: what a request has read is out of date by the
time it writes, so the invariant says, for each place a request may be at, what
can have changed since.

| Theorem | States | The strengthening |
|---|---|---|
| `SessionsAlwaysEnd`, `SessionAlwaysSole`, `LockAlwaysHolds` (`AuthProofs`) | `SessionsEndWithPassword`, `SoleSession`, `LockHolds` | `AuthInv`: requests in service have met; the sessions' property itself; a sign-in knows the password chosen last or has met its change; one that met no other finds no session when it creates its own, and its answer carries that session's token; who is about to write over a lock has met it; before the account exists nobody changes its password |
| `StudentsBilledOnce`, `BatchReportAlwaysTrue` | `BilledOnce`, `BatchReportTrue` | `BillingInv`: overlapping is mutual; a request does not come back to a student it has billed; an invoice of the student under way came since the look-up, so from a request that overlapped; without deletions the numbers do not exceed the count, by cardinalities |
| `BillingTypeCorrect` | `BillingTypeOK` | `BillingBounds`: a request inserts one invoice of a student at most, so the invoices map into the pairs of request and student and no number exceeds what these allow |
| `RollsNeverMix` | `RollsDoNotMix` | `RollInv`: crossing is mutual; rows belong to rolls that are saved; what is in the day before the insert came since the deletion; while a roll stands none is about to be inserted |
| `ShownAlwaysSelected` | `ShownIsSelected` | `InvoicesInv`: all that is under way for a dialog opened in quiet is for its invoice; a list asked for in tidiness is the only one on its way, and all that a dialog has or asked for belongs to the semester |
| `PlanAlwaysHonoured` | `PlanIsHonoured` | `PlanInv`: what a load has received, what is shown and what was answered with a place is held, or excused; each section the submission took along is asked for, to be asked for, held or excused (`SubmissionCoversPlan`) |
| `NoticesAlwaysKept`, `ConnectedAlwaysOpen`, `InboxTypeCorrect` | `NoticesKept`, `ConnectedAreOpen`, `InboxTypeOK` | `InboxInv`: an event waits once and is handled once, and both only after the channel was lost; an event about to be acknowledged has left its mark; one row for an id; an event without an id has at most one row more than there were losses and crashes, one less while it waits again |
| `TicketsAlwaysHold`, `TicketsTypeCorrect` | `TicketsHold`, `TicketsTypeOK` | `TicketsInv`: what became of a ticket since a request read it (`SinceRead`); tickets being opened have met; without deletions no number exceeds the count, and one that was counted alone is still the next |
| `ServicesTypesHold`, `ServicesPromisesHold` | `ServicesTypeOK` and all properties of `campus_services`, of `ServicesSpec` | a step of the composition is a step of the part in focus and a stuttering one of the others (`PartsMove`), so each part's invariant carries over and the composition needs none of its own |

The history variables in these invariants (`met`, `overlapped`, `crossing`,
`quiet`) are what the exceptions of the properties are stated with. That they
mean what they say, "was in service at the same time", is part of what is
proved (`MetEachOther`, `OverlapIsMutual`, `CrossingIsMutual`, `OpensHaveMet`).

Not proved, only model-checked: `QueuesDrain`, because liveness under fairness
and `ENABLED` are out of TLAPS's reach; and what the violation runs show, which
are counterexamples.

## 7. What is not modelled

Components marked `not_modelled` in `PROJECT.json`, with the reason there:
those with no behaviour beyond single-row edits, reports or I/O (catalogue,
grade items, audit log, analytics, e-mail, deployment). Within the modelled
components: deletion of sections, schedules and lecturer assignments; lecturer
profiles, whose service repeats that of the students, and the events of
auth-service; scholarships and the numbers of payments; the profile of a user,
the deletion of users and the edits of roles and permissions; announcements,
which are pushed and not stored, and notifications of a role; the other pages
of the frontend, which read and show or edit one record by a form; locale and
formatting; controllers' authorisation. That PostgreSQL keeps SERIALIZABLE
transactions apart is assumed, not checked: an operation of `Enrollment` is one
step. Edits of the catalogue (dates, credits,
prerequisites, schedules) while enrollments exist are left out: they are
CONSTANTS.

The map names about 6% of the repository's lines. Most of the others are
pages, messages and mail templates, tests' scaffolding, reports, data transfer
objects and single-row create, read, update and delete repeated for each table:
there is no state machine in them to translate.
