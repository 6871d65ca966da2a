---------------------------- MODULE ClientReview ----------------------------
(***************************************************************************)
(* After the session: the two pages that read how the mutual evaluation    *)
(* stands (PeerReviewPage, MyFeedbackPage) and fold it into a phase with   *)
(* resolveSessionEndPhase, and the report page, which polls until the      *)
(* report is there.  The evaluation and the report are two requests, one   *)
(* after the other, and anything may happen in between.                    *)
(***************************************************************************)
EXTENDS Naturals, FiniteSets

CONSTANT MaxLooks   \* bound on the report page's requests in flight

ASSUME ReviewAssumption == MaxLooks \in Nat \ {0}

VARIABLES
  result,   \* the server: [mine, peer, closed, report]
  look,     \* the page: [at, view, report, unavailable, detail, retry, sent]
  reading,  \* which of its two requests a page is at
  looks     \* the report page's looks in flight: what each will bring

reviewVars == <<result, look, reading, looks>>

Reports == {"ABSENT", "PENDING", "COMPLETED", "FAILED"}
NotSeen == [seen |-> FALSE, mine |-> FALSE, all |-> FALSE, open |-> FALSE, locked |-> FALSE]
NewLook(at) == [at |-> at, view |-> NotSeen, report |-> "NONE", unavailable |-> FALSE,
                detail |-> FALSE, retry |-> "NONE", sent |-> "NONE"]
Ended == [mine |-> FALSE, peer |-> FALSE, closed |-> FALSE, report |-> "ABSENT"]

ReviewTypeOK ==
  /\ result.report \in Reports /\ {result.mine, result.peer, result.closed} \subseteq BOOLEAN
  /\ look.at \in {"REVIEW", "FEEDBACK", "REPORT"} /\ look.report \in Reports \cup {"NONE"}
  /\ look.detail => result.report = "COMPLETED"
  /\ look.retry \in {"NONE", "SENT", "SERVED"}
  /\ look.sent \in {"NONE", "SENT", "RECORDED", "REFUSED"}
  /\ reading \in {"NONE", "STATUS", "REPORT"}
  /\ reading # "NONE" => look.at # "REPORT"
  /\ looks \subseteq [by : Reports \cup {"ASKED"}] /\ Cardinality(looks) <= MaxLooks

ReviewIdle ==
  result = Ended /\ look = NewLook("REVIEW") /\ reading = "NONE" /\ looks = {}
ReviewInit ==
  result = Ended /\ look = NewLook("REVIEW") /\ reading = "STATUS" /\ looks = {}

----------------------------------------------------------------------------
(* The server. *)

PeerSubmits ==
  /\ ~result.peer /\ ~result.closed
  /\ result' = [result EXCEPT !.peer = TRUE]
  /\ UNCHANGED <<look, reading, looks>>

DeadlinePasses ==
  /\ ~result.closed
  /\ result' = [result EXCEPT !.closed = TRUE]
  /\ UNCHANGED <<look, reading, looks>>

\* prepare() when the session ended, and what the AI delivers afterwards; a
\* completed report stays.
ReportMoves ==
  /\ result.report # "COMPLETED"
  /\ \E report \in IF result.report = "ABSENT" THEN {"PENDING"} ELSE {"COMPLETED", "FAILED"} :
       result' = [result EXCEPT !.report = report]
  /\ UNCHANGED <<look, reading, looks>>

SubmitServed ==
  /\ look.sent = "SENT"
  /\ IF ~result.mine /\ ~result.closed
     THEN /\ result' = [result EXCEPT !.mine = TRUE]
          /\ look' = [look EXCEPT !.sent = "RECORDED"]
     ELSE look' = [look EXCEPT !.sent = "REFUSED"] /\ UNCHANGED result
  /\ UNCHANGED <<reading, looks>>

\* SessionReportCommandService.request() prepares a report that is absent and
\* leaves any other as it is.
RetryServed ==
  /\ look.retry = "SENT"
  /\ result' = [result EXCEPT !.report = IF @ = "ABSENT" THEN "PENDING" ELSE @]
  /\ look' = [look EXCEPT !.retry = "SERVED"]
  /\ UNCHANGED <<reading, looks>>

LookServed(l) ==
  /\ l \in looks /\ l.by = "ASKED"
  /\ looks' = (looks \ {l}) \cup {[by |-> result.report]}
  /\ UNCHANGED <<result, look, reading>>

----------------------------------------------------------------------------
(* The pages of the evaluation. *)

\* getStatus(): PeerEvaluationService.
StatusNow ==
  [seen |-> TRUE, mine |-> result.mine, all |-> result.mine /\ result.peer,
   open |-> ~result.mine /\ ~result.closed, locked |-> ~result.mine /\ result.closed]

\* load() first reads the evaluation, then the report.
StatusAnswers(ok) ==
  /\ reading = "STATUS"
  /\ reading' = IF ok THEN "REPORT" ELSE "NONE"
  /\ look' = IF ok THEN [look EXCEPT !.view = StatusNow] ELSE look
  /\ UNCHANGED <<result, looks>>

\* An error and an absent report are one: there is no report.
ReportAnswers(ok) ==
  /\ reading = "REPORT"
  /\ reading' = "NONE"
  /\ look' = [look EXCEPT !.report = IF ok /\ result.report # "ABSENT" THEN result.report ELSE "NONE"]
  /\ UNCHANGED <<result, looks>>

Reload ==
  /\ look.at # "REPORT" /\ reading = "NONE" /\ ~look.view.seen
  /\ reading' = "STATUS"
  /\ UNCHANGED <<result, look, looks>>

\* Mutant of Phase: a report is opened whoever has evaluated.
PhaseOfReport(view, report) ==
  IF ~view.seen THEN "evaluating"
  ELSE IF report = "NONE" THEN "report-unavailable"
  ELSE IF report = "COMPLETED" THEN "report-ready"
  ELSE IF report = "FAILED" THEN "report-failed"
  ELSE "report-pending"

\* resolveSessionEndPhase(): the order is the rule.
Phase(view, report) ==
  IF ~view.seen THEN "evaluating"
  ELSE IF view.locked THEN "locked"
  ELSE IF ~view.mine THEN "evaluating"
  ELSE IF ~view.all THEN "waiting-peer"
  ELSE IF report = "NONE" THEN "report-unavailable"
  ELSE IF report = "COMPLETED" THEN "report-ready"
  ELSE IF report = "FAILED" THEN "report-failed"
  ELSE "report-pending"

CanOpenReport ==
  Phase(look.view, look.report) \in {"report-ready", "report-pending", "report-failed"}

Submit ==
  /\ look.at = "REVIEW" /\ reading = "NONE" /\ look.view.open /\ look.sent = "NONE"
  /\ look' = [look EXCEPT !.sent = "SENT"]
  /\ UNCHANGED <<result, reading, looks>>

\* A recorded evaluation leads on to the feedback; anything else leaves the form.
SubmitAnswers(arrives) ==
  /\ look.sent \in {"RECORDED", "REFUSED"}
  /\ IF arrives /\ look.sent = "RECORDED"
     THEN look' = NewLook("FEEDBACK") /\ reading' = "STATUS"
     ELSE look' = [look EXCEPT !.sent = "NONE"] /\ UNCHANGED reading
  /\ UNCHANGED <<result, looks>>

----------------------------------------------------------------------------
(* The report page. *)

Asking == [by |-> "ASKED"]

OpenReport ==
  /\ look.at # "REPORT" /\ reading = "NONE" /\ look.sent = "NONE" /\ CanOpenReport
  /\ look' = NewLook("REPORT")
  /\ looks' = {Asking}
  /\ UNCHANGED <<result, reading>>

\* Mutant of BeingMade: only a report that is being written is waited for.
BeingMadeGenerating(report) == report = "GENERATING"

BeingMade(report) == report \in {"PENDING", "GENERATING"}

Poll15s ==
  /\ look.at = "REPORT" /\ BeingMade(look.report) /\ Cardinality(looks) < MaxLooks
  /\ looks' = looks \cup {Asking}
  /\ UNCHANGED <<result, look, reading>>

\* load(): an absent report is told from a failed one; a completed one is read as
\* well.
LookAnswers(l) ==
  /\ l \in looks /\ l.by # "ASKED"
  /\ looks' = looks \ {l}
  /\ \E read \in BOOLEAN :
       look' = IF l.by = "ABSENT" THEN [look EXCEPT !.unavailable = TRUE]
               ELSE [look EXCEPT !.unavailable = FALSE,
                                 !.report = IF l.by = "COMPLETED" /\ ~read THEN "FAILED" ELSE l.by,
                                 !.detail = @ \/ (l.by = "COMPLETED" /\ read)]
  /\ UNCHANGED <<result, reading>>

\* Any error is shown as a failed report, and ends the polling.
LookFails(l) ==
  /\ l \in looks
  /\ looks' = looks \ {l}
  /\ look' = [look EXCEPT !.report = "FAILED"]
  /\ UNCHANGED <<result, reading>>

\* What the page shows: a completed report that could not be read is a failed one.
ReportShown ==
  IF look.unavailable THEN "unavailable"
  ELSE IF look.report = "NONE" THEN "skeleton"
  ELSE IF look.report \in {"PENDING", "GENERATING"} THEN "preparing"
  ELSE IF look.report = "FAILED" \/ ~look.detail THEN "failed"
  ELSE "report"

RetryReport ==
  /\ look.at = "REPORT" /\ look.retry = "NONE" /\ ReportShown = "failed"
  /\ look' = [look EXCEPT !.retry = "SENT"]
  /\ UNCHANGED <<result, reading, looks>>

RetryAnswers(arrives) ==
  /\ look.retry # "NONE" /\ (arrives => look.retry = "SERVED")
  /\ look' = [look EXCEPT !.retry = "NONE", !.report = IF arrives THEN "PENDING" ELSE @]
  /\ UNCHANGED <<result, reading, looks>>

ReviewNext ==
  \/ PeerSubmits \/ DeadlinePasses \/ ReportMoves \/ SubmitServed \/ RetryServed
  \/ Reload \/ Submit \/ OpenReport \/ Poll15s \/ RetryReport
  \/ \E ok \in BOOLEAN :
       StatusAnswers(ok) \/ ReportAnswers(ok) \/ SubmitAnswers(ok) \/ RetryAnswers(ok)
  \/ \E l \in looks : LookServed(l) \/ LookAnswers(l) \/ LookFails(l)

\* The page's timer runs, and a look is answered or fails.
ReviewFairness ==
  /\ WF_reviewVars(Poll15s)
  /\ WF_reviewVars(\E l \in looks : LookServed(l))
  /\ WF_reviewVars(\E l \in looks : LookAnswers(l) \/ LookFails(l))

----------------------------------------------------------------------------
(* Properties. *)

\* The way to the report opens when both have evaluated, never before.
ReportAfterBothEvaluations == CanOpenReport => result.mine /\ result.peer

\* The page shows a report as being made, which is complete.
ReportUnseen ==
  look.at = "REPORT" /\ ReportShown = "preparing" /\ result.report = "COMPLETED"
============================================================================
