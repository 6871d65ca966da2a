----------------------------- MODULE ClientClock ----------------------------
(***************************************************************************)
(* What the session page knows of the session's time: the answers of the   *)
(* status and detail calls, the countdown (useServerTimer) with what it    *)
(* says aloud (SessionTimer), the missions, and the moment from which the  *)
(* vision events count (sessionElapsedSeedMs).                             *)
(***************************************************************************)
EXTENDS Integers, FiniteSets

CONSTANTS
  Base,        \* ticks until the extension has to be decided
  Extra,       \* what the extension adds
  Lead,        \* ticks from the opening of the room to the scheduled start
  Skew,        \* by how much the browser's clock is ahead
  AnnounceAt   \* DEFAULT_ANNOUNCE_AT

ASSUME ClockAssumption ==
  /\ {Base, Extra, Lead, Skew} \subseteq Nat /\ Base > 0
  /\ AnnounceAt \subseteq Nat

VARIABLES
  meeting,   \* the server's session: [status, elapsed, extended]
  flights,   \* [call -> what the server has answered, until it arrives]
  known,     \* the page: [status, detail, missions]
  anchor,    \* the seed: [value, basis], and of which answer [at, late]
  countdown  \* the countdown: [remaining, pushed, said]

clockVars == <<meeting, flights, known, anchor, countdown>>

Planned == Base + Extra
ClockCalls == {"STATUS", "DETAIL", "TIMER"}
Never == -1
Unanswered == [status |-> "UNKNOWN", remaining |-> Never, at |-> 0, extended |-> FALSE]
Awaited == [Unanswered EXCEPT !.status = "ASKED"]
IsHere(answer) == answer.status \notin {"UNKNOWN", "ASKED"}
NotAnchored == [value |-> Never, at |-> 0, late |-> FALSE, basis |-> "NONE"]
Saturated(n) == IF n < 0 THEN 0 ELSE n

\* The two ways to count: the timer to the deadline, REST to the planned end.
Deadline == Base + (IF meeting.extended THEN Extra ELSE 0)
RestRemaining ==
  IF meeting.status = "READY" THEN Lead
  ELSE Saturated(Planned + (IF meeting.extended THEN Extra ELSE 0) - meeting.elapsed)
RestAnswer == [status |-> meeting.status, remaining |-> RestRemaining,
           at |-> meeting.elapsed, extended |-> meeting.extended]

RestAnswers == [status : {"UNKNOWN", "ASKED", "READY", "IN_PROGRESS", "COMPLETED"},
            remaining : {Never} \cup 0..(Planned + Extra + Lead),
            at : 0..Planned, extended : BOOLEAN]

ClockTypeOK ==
  /\ meeting.status \in {"READY", "IN_PROGRESS", "COMPLETED"}
  /\ meeting.elapsed \in 0..Deadline
  /\ flights \in [ClockCalls -> RestAnswers]
  /\ known.status \in RestAnswers /\ known.detail \in RestAnswers /\ known.missions \in BOOLEAN
  /\ known.missions => known.status.status # "READY"
  /\ anchor.basis \in {"NONE", "SERVER", "BROWSER"}
  /\ anchor.basis = "NONE" <=> anchor.value = Never
  /\ countdown.remaining \in {Never} \cup 0..(Planned + Extra + Lead)
  /\ countdown.said \in {Never} \cup AnnounceAt

----------------------------------------------------------------------------
(* What is computed from the answers. *)

\* Mutant of SeedOf: the time until the start is taken for the time until the end.
SeedOfAnyStatus(status, detail) ==
  LET first == IF IsHere(status) THEN status ELSE detail
      served == IsHere(detail) /\ first.remaining > 0
  IN CASE served -> [value |-> Saturated(Planned - first.remaining), at |-> first.at,
                  late |-> first.extended, basis |-> "SERVER"]
       [] ~served /\ IsHere(first) /\ first.status # "READY" ->
            [value |-> Saturated(meeting.elapsed + Skew), at |-> meeting.elapsed,
             late |-> FALSE, basis |-> "BROWSER"]
       [] OTHER -> NotAnchored

\* Only the detail answer has plannedDurationSec; a remaining time of 0 says nothing.
\* Otherwise the browser's own clock is compared with actualStartAt, once there is one.
SeedOf(status, detail) ==
  LET first == IF IsHere(status) THEN status ELSE detail
      served == first.status = "IN_PROGRESS" /\ IsHere(detail) /\ first.remaining > 0
  IN CASE served -> [value |-> Saturated(Planned - first.remaining), at |-> first.at,
                  late |-> first.extended, basis |-> "SERVER"]
       [] ~served /\ IsHere(first) /\ first.status # "READY" ->
            [value |-> Saturated(meeting.elapsed + Skew), at |-> meeting.elapsed,
             late |-> FALSE, basis |-> "BROWSER"]
       [] OTHER -> NotAnchored

\* useSessionElapsedAnchor: the first value stays.
Anchored == anchor' = IF anchor.basis = "NONE" THEN SeedOf(known'.status, known'.detail) ELSE anchor

\* SessionTimer: the finest threshold that is reached; a page that does not know shows 0.
Reached(remaining) ==
  LET shown == IF remaining = Never THEN 0 ELSE remaining
      passed == {t \in AnnounceAt : shown <= t}
  IN IF passed = {} THEN Never ELSE CHOOSE t \in passed : \A u \in passed : t <= u
Runs(remaining, pushed) ==
  countdown' = [remaining |-> remaining, pushed |-> pushed, said |-> Reached(remaining)]

----------------------------------------------------------------------------
ClockIdle ==
  /\ meeting = [status |-> "COMPLETED", elapsed |-> 0, extended |-> FALSE]
  /\ flights = [c \in ClockCalls |-> Unanswered]
  /\ known = [status |-> [Unanswered EXCEPT !.status = "COMPLETED"], detail |-> Unanswered, missions |-> FALSE]
  /\ anchor = NotAnchored /\ countdown = [remaining |-> Never, pushed |-> FALSE, said |-> Never]

\* The page may open before the start, and be opened again in the middle.
ClockInit ==
  /\ meeting \in [status : {"READY"}, elapsed : {0}, extended : {FALSE}]
       \cup [status : {"IN_PROGRESS"}, elapsed : {0, Base - 1}, extended : BOOLEAN]
  /\ flights = [c \in ClockCalls |-> Awaited]
  /\ known = [status |-> Unanswered, detail |-> Unanswered, missions |-> FALSE]
  /\ anchor = NotAnchored
  /\ countdown = [remaining |-> Never, pushed |-> FALSE, said |-> Reached(Never)]

MeetingStarts ==
  /\ meeting.status = "READY"
  /\ meeting' = [meeting EXCEPT !.status = "IN_PROGRESS"]
  /\ UNCHANGED <<flights, known, anchor, countdown>>

MeetingExtends ==
  /\ meeting.status = "IN_PROGRESS" /\ ~meeting.extended
  /\ meeting' = [meeting EXCEPT !.extended = TRUE]
  /\ UNCHANGED <<flights, known, anchor, countdown>>

\* A second: the timer event may reach the page, which otherwise counts by itself.
SecondPasses ==
  /\ meeting.status = "IN_PROGRESS"
  /\ meeting' = [meeting EXCEPT !.elapsed = @ + 1,
                                !.status = IF meeting.elapsed + 1 = Deadline THEN "COMPLETED" ELSE @]
  /\ \/ Runs(IF countdown.remaining > 0 THEN countdown.remaining - 1 ELSE countdown.remaining, FALSE)
     \/ Runs(Deadline - meeting'.elapsed, TRUE)
  /\ UNCHANGED <<flights, known, anchor>>

ClockAnswers(c) ==
  /\ flights[c] = Awaited
  /\ flights' = [flights EXCEPT ![c] = RestAnswer]
  /\ UNCHANGED <<meeting, known, anchor, countdown>>

ClockCallFails(c) ==
  /\ flights[c] # Unanswered
  /\ flights' = [flights EXCEPT ![c] = Unanswered]
  /\ UNCHANGED <<meeting, known, anchor, countdown>>

\* The status is asked for every few seconds, until it says that the session ended.
PollStatus ==
  /\ flights["STATUS"] = Unanswered /\ known.status.status # "COMPLETED"
  /\ flights' = [flights EXCEPT !["STATUS"] = Awaited]
  /\ UNCHANGED <<meeting, known, anchor, countdown>>

StatusArrives ==
  /\ IsHere(flights["STATUS"])
  /\ flights' = [flights EXCEPT !["STATUS"] = Unanswered]
  /\ known' = [known EXCEPT !.status = flights["STATUS"]]
  /\ Anchored
  /\ UNCHANGED <<meeting, countdown>>

DetailArrives ==
  /\ IsHere(flights["DETAIL"])
  /\ flights' = [flights EXCEPT !["DETAIL"] = Unanswered]
  /\ known' = [known EXCEPT !.detail = flights["DETAIL"]]
  /\ Anchored
  /\ UNCHANGED <<meeting, countdown>>

\* The countdown's own status call: its answer replaces whatever is shown.
TimerArrives ==
  /\ IsHere(flights["TIMER"])
  /\ flights' = [flights EXCEPT !["TIMER"] = Unanswered]
  /\ Runs(flights["TIMER"].remaining, FALSE)
  /\ UNCHANGED <<meeting, known, anchor>>

\* Once the status says IN_PROGRESS; a failure leaves the goals only.
MissionsArrive ==
  /\ known.status.status = "IN_PROGRESS" /\ ~known.missions
  /\ known' = [known EXCEPT !.missions = TRUE]
  /\ UNCHANGED <<meeting, flights, anchor, countdown>>

ClockNext ==
  \/ MeetingStarts \/ MeetingExtends \/ SecondPasses
  \/ \E c \in ClockCalls : ClockAnswers(c) \/ ClockCallFails(c)
  \/ PollStatus \/ StatusArrives \/ DetailArrives \/ TimerArrives \/ MissionsArrive

----------------------------------------------------------------------------
(* Both participants' vision events are laid on one axis: a seed taken from *)
(* the server's numbers, before an extension, is the time that had passed   *)
(* when the server counted, whichever of the answers arrived first, and     *)
(* after an extension less than that by the extension (sessionElapsed.ts).  *)
(* A status that arrives before the detail anchors the axis to the          *)
(* browser's clock: of that basis nothing is claimed.                       *)
SeedIsOnTheAxis ==
  anchor.basis = "SERVER" => anchor.value = Saturated(anchor.at - (IF anchor.late THEN Extra ELSE 0))
=============================================================================
