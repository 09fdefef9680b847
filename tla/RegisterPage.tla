----------------------------- MODULE RegisterPage -----------------------------
(***************************************************************************)
(* frontend: the page on which a student plans and registers for sections. *)
(* It shows the sections and the student's places as last loaded, keeps a  *)
(* plan in the browser's storage, and asks academic-service section by     *)
(* section: by the button of one section, or for the whole plan, one       *)
(* request after the other.  After what succeeds it loads everything       *)
(* again, and shows nothing to click on while a load is under way.         *)
(*                                                                         *)
(* The service's answer is any it may give (see Enrollment).  What blocks  *)
(* a button from the outside is left out: a hold, the registration window, *)
(* the state of a section and clashes in the timetable.                    *)
(***************************************************************************)
EXTENDS Naturals, FiniteSets

CONSTANTS
  Wanted,        \* sections
  Load,          \* bound: loads at the same time
  MaxEvents,     \* bound: requests the student makes, and changes made elsewhere
  NoSection

ASSUME PageAssumption == NoSection \notin Wanted /\ MaxEvents \in Nat

VARIABLES
  place,       \* [Wanted -> the student's place in academic-service]
  shown,       \* [Wanted -> the place shown]
  loaded,      \* the sections loaded
  plan,        \* plannedSectionIds
  events,      \* the requests made and the changes elsewhere, so far
  enrolling,   \* isEnrolling: the section clicked last, or NoSection
  asked,       \* [Wanted -> the request of the section's button]
  leaving,     \* [Wanted -> the request to leave the waitlist]
  submission,  \* the submission of the plan: [planned, todo, at, answer]
  load,        \* [Load -> the loads under way: [step, enrolled, waiting, got]]
  view,        \* "closed", "loading", "ready" or "error"
  cleared,     \* history: the sections that the page took out of the plan
  excused      \* history: those that changed elsewhere or were never asked for

callVars == <<enrolling, asked, leaving, submission>>
pageVars == <<shown, loaded, plan, load, view>>
historyVars == <<cleared, excused>>
registerVars == <<place, events, callVars, pageVars, historyVars>>

Place == {"none", "enrolled", "waiting"}
Answer == {"none", "sent", "granted", "refused"}
NotSubmitting == [planned |-> {}, todo |-> {}, at |-> NoSection, answer |-> "none"]
NotLoading == [step |-> "idle", enrolled |-> {}, waiting |-> {}, got |-> {}]
Starting == [NotLoading EXCEPT !.step = "sent"]

RegisterInit ==
  /\ place = [s \in Wanted |-> "none"]
  /\ shown = [s \in Wanted |-> "none"]
  /\ loaded = {}
  /\ plan = {}
  /\ events = 0
  /\ enrolling = NoSection
  /\ asked = [s \in Wanted |-> "none"]
  /\ leaving = [s \in Wanted |-> "none"]
  /\ submission = NotSubmitting
  /\ load = [l \in Load |-> NotLoading]
  /\ view = "closed"
  /\ cleared = {}
  /\ excused = {}

-----------------------------------------------------------------------------
(* fetchBaseData.  Sections, enrollments and waitlist are asked for at     *)
(* once and answered one by one; an error of the waitlist's counts as an   *)
(* empty one.  The sections are the first 150 in the service's order: any  *)
(* of the wanted ones may be missing.                                      *)

Event == events < MaxEvents /\ events' = events + 1

StartLoad ==
  /\ \E l \in Load : load[l].step = "idle" /\ load' = [load EXCEPT ![l] = Starting]
  /\ view' = "loading"

AnswerEnrollments(l) ==
  /\ load[l].step = "sent" /\ "enrollments" \notin load[l].got
  /\ load' = [load EXCEPT ![l].enrolled = {s \in Wanted : place[s] = "enrolled"},
                          ![l].got = @ \cup {"enrollments"}]
  /\ UNCHANGED <<place, events, callVars, shown, loaded, plan, view, historyVars>>

AnswerWaitlist(l, rows) ==
  /\ load[l].step = "sent" /\ "waitlist" \notin load[l].got
  /\ rows \in {{s \in Wanted : place[s] = "waiting"}, {}}
  /\ load' = [load EXCEPT ![l].waiting = rows, ![l].got = @ \cup {"waitlist"}]
  /\ UNCHANGED <<place, events, callVars, shown, loaded, plan, view, historyVars>>

ReceiveLoad(l, sections) ==
  /\ load[l].got = {"enrollments", "waitlist"}
  /\ shown' = [s \in Wanted |-> IF s \in load[l].enrolled THEN "enrolled"
                                ELSE IF s \in load[l].waiting THEN "waiting"
                                ELSE "none"]
  /\ loaded' = sections
  /\ load' = [load EXCEPT ![l] = NotLoading]
  /\ view' = IF view = "error" THEN "error" ELSE "ready"
  /\ UNCHANGED <<place, events, callVars, plan, historyVars>>

FailLoad(l) ==
  /\ load[l].step = "sent"
  /\ load' = [load EXCEPT ![l] = NotLoading]
  /\ view' = "error"
  /\ UNCHANGED <<place, events, callVars, shown, loaded, plan, historyVars>>

(* The page opens; the plan comes from the browser's storage, and the      *)
(* places are what they are by then.                                       *)
OpenPage ==
  /\ view = "closed"
  /\ plan' \in SUBSET Wanted
  /\ place' \in [Wanted -> Place]
  /\ StartLoad
  /\ UNCHANGED <<events, callVars, shown, loaded, historyVars>>

RetryLoad ==
  /\ view = "error"
  /\ Event
  /\ StartLoad
  /\ UNCHANGED <<place, enrolling, asked, leaving, submission, shown, loaded, plan, historyVars>>

-----------------------------------------------------------------------------
(* academic-service takes a request, and the answer, or an error, comes    *)
(* back; an error may hide that the request was granted.                   *)
Granted(s, to) == place[s] = "none" /\ to # "none" /\ place' = [place EXCEPT ![s] = to]
Taken(s, to, answer) ==
  \/ Granted(s, to) /\ answer \in {"granted", "refused"}
  \/ answer = "refused" /\ to = "none" /\ UNCHANGED place

TakeClick(s, to, answer) ==
  /\ asked[s] = "sent"
  /\ Taken(s, to, answer)
  /\ asked' = [asked EXCEPT ![s] = answer]
  /\ UNCHANGED <<events, enrolling, leaving, submission, pageVars, historyVars>>

TakePlanned(to, answer) ==
  /\ submission.answer = "sent"
  /\ Taken(submission.at, to, answer)
  /\ submission' = [submission EXCEPT !.answer = answer]
  /\ UNCHANGED <<events, enrolling, asked, leaving, pageVars, historyVars>>

TakeLeave(s, answer) ==
  /\ leaving[s] = "sent"
  /\ IF place[s] = "waiting"
     THEN /\ answer \in {"granted", "refused"}
          /\ place' = [place EXCEPT ![s] = "none"]
          /\ excused' = excused \cup {s}
     ELSE answer = "refused" /\ UNCHANGED <<place, excused>>
  /\ leaving' = [leaving EXCEPT ![s] = answer]
  /\ UNCHANGED <<events, enrolling, asked, submission, pageVars, cleared>>

(* Another tab, the office or a promotion. *)
ChangeElsewhere(s, to) ==
  /\ view # "closed"
  /\ Event
  /\ to # place[s]
  /\ place' = [place EXCEPT ![s] = to]
  /\ excused' = excused \cup {s}
  /\ UNCHANGED <<callVars, pageVars, cleared>>

-----------------------------------------------------------------------------
(* togglePlannedSection, of a section that is loaded; one shown as enrolled *)
(* cannot be added.                                                         *)
Toggle(s) ==
  /\ view = "ready"
  /\ s \in loaded
  /\ s \in plan \/ shown[s] # "enrolled"
  /\ plan' = (plan \cup {s}) \ (plan \cap {s})
  /\ cleared' = cleared \ {s}
  /\ UNCHANGED <<place, events, callVars, shown, loaded, load, view, excused>>

(* handleEnroll.  One request per section at a time is followed. *)
ClickEnroll(s) ==
  /\ view = "ready"
  /\ Event
  /\ s \in loaded /\ shown[s] # "enrolled"
  /\ s # enrolling /\ asked[s] = "none"
  /\ enrolling' = s
  /\ asked' = [asked EXCEPT ![s] = "sent"]
  /\ UNCHANGED <<place, leaving, submission, pageVars, historyVars>>

ClickGranted(s) ==
  /\ asked[s] = "granted"
  /\ plan' = plan \ {s}
  /\ cleared' = cleared \cup (plan \cap {s})
  /\ StartLoad
  /\ asked' = [asked EXCEPT ![s] = "none"]
  /\ enrolling' = NoSection
  /\ UNCHANGED <<place, events, leaving, submission, shown, loaded, excused>>

ClickRefused(s) ==
  /\ asked[s] = "refused"
  /\ asked' = [asked EXCEPT ![s] = "none"]
  /\ enrolling' = NoSection
  /\ UNCHANGED <<place, events, leaving, submission, pageVars, historyVars>>

(* handleLeaveWaitlist, and what follows it. *)
ClickLeave(s) ==
  /\ view = "ready"
  /\ Event
  /\ shown[s] = "waiting" /\ leaving[s] = "none"
  /\ leaving' = [leaving EXCEPT ![s] = "sent"]
  /\ UNCHANGED <<place, enrolling, asked, submission, pageVars, historyVars>>

LeaveAnswered(s) ==
  /\ leaving[s] \in {"granted", "refused"}
  /\ leaving' = [leaving EXCEPT ![s] = "none"]
  /\ IF leaving[s] = "granted" THEN StartLoad ELSE UNCHANGED <<load, view>>
  /\ UNCHANGED <<place, events, enrolling, asked, submission, shown, loaded, plan, historyVars>>

-----------------------------------------------------------------------------
(* handleSubmitPlan.  It takes what is planned and loaded at the click      *)
(* (plannedSections), and passes over the sections shown as enrolled, but   *)
(* not those shown as waiting.                                              *)
Outstanding == {s \in plan \cap loaded : shown[s] # "enrolled"}

Ask(planned, todo) ==
  \/ \E s \in todo :
       submission' = [planned |-> planned, todo |-> todo \ {s}, at |-> s, answer |-> "sent"]
  \/ todo = {} /\ submission' = [NotSubmitting EXCEPT !.planned = planned, !.answer = "granted"]

SubmitPlan ==
  /\ view = "ready"
  /\ Event
  /\ submission = NotSubmitting
  /\ plan \cap loaded # {}
  /\ Ask(plan \cap loaded, Outstanding)
  /\ UNCHANGED <<place, enrolling, asked, leaving, pageVars, historyVars>>

AskNext ==
  /\ submission.answer = "granted" /\ submission.at # NoSection
  /\ Ask(submission.planned, submission.todo)
  /\ UNCHANGED <<place, events, enrolling, asked, leaving, pageVars, historyVars>>

(* Every request was granted: setPlannedSectionIds([]) empties the plan of  *)
(* by now, with what the loop has not seen.                                 *)
PlanDone ==
  /\ submission.answer = "granted" /\ submission.at = NoSection
  /\ cleared' = cleared \cup plan
  /\ excused' = excused \cup (plan \ submission.planned)
  /\ plan' = {}
  /\ StartLoad
  /\ submission' = NotSubmitting
  /\ UNCHANGED <<place, events, enrolling, asked, leaving, shown, loaded>>

(* Mutant: the plan is cleared after an error, too. *)
ForgetPlan ==
  /\ submission.answer = "refused"
  /\ submission' = NotSubmitting
  /\ cleared' = cleared \cup plan
  /\ plan' = {}
  /\ UNCHANGED <<place, events, enrolling, asked, leaving, shown, loaded, load, view, excused>>

(* An error ends the loop.  The plan stays, and nothing is loaded: the     *)
(* sections already granted are asked for again next time, and refused.    *)
PlanStopped ==
  /\ submission.answer = "refused"
  /\ submission' = NotSubmitting
  /\ UNCHANGED <<place, events, enrolling, asked, leaving, pageVars, historyVars>>

-----------------------------------------------------------------------------
RegisterNext ==
  \/ \E l \in Load :
       \/ AnswerEnrollments(l) \/ \E rows \in SUBSET Wanted : AnswerWaitlist(l, rows)
       \/ \E sections \in SUBSET Wanted : ReceiveLoad(l, sections)
       \/ FailLoad(l)
  \/ OpenPage \/ RetryLoad
  \/ \E s \in Wanted :
       \/ Toggle(s) \/ ClickEnroll(s) \/ ClickGranted(s) \/ ClickRefused(s)
       \/ ClickLeave(s) \/ LeaveAnswered(s)
       \/ \E to \in Place : ChangeElsewhere(s, to)
       \/ \E to \in Place, answer \in Answer : TakeClick(s, to, answer)
       \/ \E answer \in Answer : TakeLeave(s, answer)
  \/ \E to \in Place, answer \in Answer : TakePlanned(to, answer)
  \/ SubmitPlan \/ AskNext \/ PlanDone \/ PlanStopped

RegisterSpec == RegisterInit /\ [][RegisterNext]_registerVars

(***************************************************************************)
(* Properties.                                                             *)
(***************************************************************************)
(* Every variable keeps its shape. *)
RegisterTypeOK ==
  /\ place \in [Wanted -> Place]
  /\ shown \in [Wanted -> Place]
  /\ loaded \subseteq Wanted
  /\ plan \subseteq Wanted
  /\ events \in 0..MaxEvents
  /\ enrolling \in Wanted \cup {NoSection}
  /\ asked \in [Wanted -> Answer]
  /\ leaving \in [Wanted -> Answer]
  /\ submission \in [planned : SUBSET Wanted, todo : SUBSET Wanted, at : Wanted \cup {NoSection},
                     answer : Answer]
  /\ load \in [Load -> [step : {"idle", "sent"}, enrolled : SUBSET Wanted,
                        waiting : SUBSET Wanted, got : SUBSET {"enrollments", "waitlist"}]]
  /\ view \in {"closed", "loading", "ready", "error"}
  /\ cleared \subseteq Wanted
  /\ excused \subseteq Wanted

(* What the page takes out of the plan has a place, through answers that   *)
(* come late, errors and stale loads: except what changed elsewhere, and   *)
(* what was never asked for, though it was thrown away with the plan: what *)
(* the student planned while the plan was being submitted, or a planned    *)
(* section that was not among those loaded when it was.                    *)
PlanIsHonoured == \A s \in cleared \ excused : place[s] # "none"
=============================================================================
