--------------------------- MODULE SessionReports ---------------------------
(***************************************************************************)
(* The reports of one session on the server: the rows that are prepared    *)
(* when it ends, asked for and deleted by the two participants             *)
(* (SessionReportGenerationService, SessionReportCommandService), and the  *)
(* push of the AI that fills them (AiReportResultService), sent and resent *)
(* by the aggregator's run_report_job.                                     *)
(*                                                                         *)
(* A push brings the texts of both participants or, for both, a failure.   *)
(* What it says is left out, and so is the analysis that is sent before    *)
(* it, since the job goes on whether that one arrived or not.              *)
(***************************************************************************)
EXTENDS Naturals

CONSTANT MaxSends   \* backend_max_attempts of the aggregator

\* The setting is read as a positive number.
ASSUME ReportAssumption == MaxSends \in Nat \ {0}

VARIABLES
  over,      \* the session is over
  unheard,   \* the listener of its end has not run
  rows,      \* session_reports by participant
  sender,    \* the aggregator's job: [at, result, left]
  onWay,     \* copies of the push that may still reach the server
  removed    \* history: who deleted a report

reportVars == <<over, unheard, rows, sender, onWay, removed>>

Sides == {"A", "B"}
RowStatuses == {"ABSENT", "PENDING", "COMPLETED", "FAILED"}
NoJobYet == [at |-> "NONE", result |-> "NONE", left |-> MaxSends]

ReportTypeOK ==
  /\ {over, unheard} \subseteq BOOLEAN /\ removed \subseteq Sides
  /\ rows \in [Sides -> RowStatuses]
  /\ sender \in [at : {"NONE", "READY", "SENT", "EARLY", "REFUSED", "TAKEN", "DONE"},
                 result : {"NONE", "COMPLETED", "FAILED"}, left : 0..MaxSends]
  /\ onWay \in 0..MaxSends

ReportInit ==
  /\ over = FALSE /\ unheard = FALSE /\ rows = [s \in Sides |-> "ABSENT"]
  /\ sender = NoJobYet /\ onWay = 0 /\ removed = {}

----------------------------------------------------------------------------
(* The rows. *)

\* The session ends; the commit has two listeners, and the aggregator hears of it by
\* a call that is tried several times.
EndsSession ==
  /\ ~over
  /\ over' = TRUE /\ unheard' = TRUE
  /\ UNCHANGED <<rows, sender, onWay, removed>>

\* prepare(): whoever has no report gets one.
Prepared == [s \in Sides |-> IF rows[s] = "ABSENT" THEN "PENDING" ELSE rows[s]]

\* The listener of the end prepares; a failure is logged and forgotten.
PreparesAtEnd ==
  /\ unheard
  /\ unheard' = FALSE
  /\ rows' \in {Prepared, rows}
  /\ UNCHANGED <<over, sender, onWay, removed>>

\* request(): refused to who deleted a report while another one is left.
RequestReport(s) ==
  /\ over
  /\ rows[s] # "ABSENT" \/ \A t \in Sides : rows[t] = "ABSENT"
  /\ rows' = Prepared
  /\ UNCHANGED <<over, unheard, sender, onWay, removed>>

\* delete(): not while it is being made.
DeleteReport(s) ==
  /\ rows[s] \in {"COMPLETED", "FAILED"}
  /\ rows' = [rows EXCEPT ![s] = "ABSENT"]
  /\ removed' = removed \cup {s}
  /\ UNCHANGED <<over, unheard, sender, onWay>>

----------------------------------------------------------------------------
(* The aggregator. *)

\* _schedule_report(): once per session, and its narratives or the failure are made.
JobStarts ==
  /\ over /\ sender.at = "NONE"
  /\ \E result \in {"COMPLETED", "FAILED"} :
       sender' = [sender EXCEPT !.at = "READY", !.result = result]
  /\ UNCHANGED <<over, unheard, rows, onWay, removed>>

\* An attempt, the same payload each time.
SendsPush ==
  /\ sender.at = "READY"
  /\ sender' = [sender EXCEPT !.at = "SENT", !.left = @ - 1]
  /\ onWay' = onWay + 1
  /\ UNCHANGED <<over, unheard, rows, removed>>

\* The job's next state after an attempt that is worth another.
Retried == [sender EXCEPT !.at = IF sender.left > 0 THEN "READY" ELSE "DONE"]

\* The attempt times out; what was sent may still arrive.
PushTimesOut ==
  /\ sender.at \in {"SENT", "TAKEN", "EARLY", "REFUSED"}
  /\ sender' = Retried
  /\ UNCHANGED <<over, unheard, rows, onWay, removed>>

PushLost ==
  /\ onWay > 0
  /\ onWay' = onWay - 1
  /\ UNCHANGED <<over, unheard, rows, sender, removed>>

\* The aggregator is stopped, and its report tasks after a grace period with it.
JobCancelled ==
  /\ sender.at \notin {"NONE", "DONE"}
  /\ sender' = [sender EXCEPT !.at = "DONE"]
  /\ UNCHANGED <<over, unheard, rows, onWay, removed>>

\* REPORT_NOT_PREPARED is tried again, the other conflict is not.
PushAnswered ==
  /\ sender.at \in {"TAKEN", "EARLY", "REFUSED"}
  /\ sender' = IF sender.at = "EARLY" THEN Retried ELSE [sender EXCEPT !.at = "DONE"]
  /\ UNCHANGED <<over, unheard, rows, onWay, removed>>

\* complete() and fail(): a completed report takes the same result again, as a
\* duplicate, and no other; with one job per session there is no other.
Contradicts(status) == status = "COMPLETED" /\ sender.result = "FAILED"

\* What receive() makes of a push: the first row that is missing or refuses undoes all.
Verdict ==
  IF \E s \in Sides : rows[s] = "ABSENT" THEN "EARLY"
  ELSE IF \E s \in Sides : Contradicts(rows[s]) THEN "REFUSED"
  ELSE "TAKEN"

\* receive(), under the lock of the session; who still waits for an answer may be
\* waiting for this one or for a later copy's.
Receive ==
  /\ onWay > 0
  /\ onWay' = onWay - 1
  /\ rows' = IF Verdict = "TAKEN" THEN [s \in Sides |-> sender.result] ELSE rows
  /\ sender' \in {sender} \cup
       (IF sender.at = "SENT" THEN {[sender EXCEPT !.at = Verdict]} ELSE {})
  /\ UNCHANGED <<over, unheard, removed>>

ReportNext ==
  \/ EndsSession \/ PreparesAtEnd
  \/ \E s \in Sides : RequestReport(s) \/ DeleteReport(s)
  \/ JobStarts \/ SendsPush \/ PushTimesOut \/ PushLost \/ PushAnswered
  \/ JobCancelled \/ Receive

----------------------------------------------------------------------------
(* Properties. *)

\* As long as nobody deletes, both participants find the same: rows are prepared
\* together and a push that one row refuses changes neither, in whatever order it
\* meets the end of the session, the requests and its own repetitions.
SameFate == removed = {} => rows["A"] = rows["B"]

\* A report that was made or given up changes no more until its owner deletes it:
\* no request of the other participant and no late copy of the push touches it.
MadeIsFinal ==
  [][\A s \in Sides :
       rows[s] \in {"COMPLETED", "FAILED"} /\ rows'[s] # rows[s] =>
         rows'[s] = "ABSENT" /\ s \in removed']_reportVars
============================================================================
