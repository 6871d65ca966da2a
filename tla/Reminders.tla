----------------------------- MODULE Reminders ------------------------------
(***************************************************************************)
(* The reminders of one couple's match on the server: the listeners that   *)
(* write, skip and cancel notification jobs when a match is found,         *)
(* confirmed or over (MatchNotificationJobEventListener), and the          *)
(* dispatchers, one per server process, that recover stale jobs, claim     *)
(* what is due and turn each job into a notification                       *)
(* (NotificationJobWorker).                                                *)
(*                                                                         *)
(* Of the reminders of a match two are kept: the one of the deadline, which*)
(* a confirmation cancels, and one of the session, which it writes.  When  *)
(* a job is due, stale or out of its retry delay is left open.             *)
(***************************************************************************)
EXTENDS Naturals

CONSTANTS
  Dispatchers,     \* the workers of the server processes
  ReminderLimit    \* notification.worker.max-attempts

\* The worker's settings are positive, and the ids of workers are their own.
ASSUME ReminderAssumption ==
  /\ ReminderLimit \in Nat \ {0}
  /\ {"VACANT", "GONE"} \cap Dispatchers = {}

VARIABLES
  couple,    \* the match: found, confirmed or over
  hearing,   \* its commits whose listener has not run yet
  jobs,      \* notification_jobs, by reminder: [status, attempts, by]
  desk,      \* per dispatcher the jobs it claimed and how far the one in hand is
  reminded,  \* notifications created, by reminder
  spared     \* history: the reminders whose job did not wait when the end was heard

reminderVars == <<couple, hearing, jobs, desk, reminded, spared>>

ReminderKinds == {"DEADLINE", "SESSION"}
JobStatuses == {"NONE", "PENDING", "PROCESSING", "COMPLETED", "FAILED", "CANCELLED"}
Vacant == "VACANT"   \* no dispatcher, no job in hand
Gone == "GONE"       \* the id of a process that is no more
NoReminder == [status |-> "NONE", attempts |-> 0, by |-> Vacant]
FreeDesk == [list |-> {}, hand |-> Vacant, at |-> "FREE"]

ReminderTypeOK ==
  /\ couple \in {"FOUND", "CONFIRMED", "OVER"}
  /\ hearing \subseteq {"FOUND", "CONFIRMED", "OVER"}
  /\ jobs \in [ReminderKinds -> [status : JobStatuses, attempts : 0..ReminderLimit,
                                 by : Dispatchers \cup {Vacant, Gone}]]
  /\ desk \in [Dispatchers -> [list : SUBSET ReminderKinds, hand : ReminderKinds \cup {Vacant},
                               at : {"FREE", "LOCKED", "CREATED", "THROWN"}]]
  /\ reminded \in [ReminderKinds -> Nat] /\ spared \subseteq ReminderKinds

\* A match was found; its listener has not run.
ReminderInit ==
  /\ couple = "FOUND" /\ hearing = {"FOUND"}
  /\ jobs = [k \in ReminderKinds |-> NoReminder] /\ desk = [d \in Dispatchers |-> FreeDesk]
  /\ reminded = [k \in ReminderKinds |-> 0] /\ spared = ReminderKinds

----------------------------------------------------------------------------
(* The match and its listeners. *)

CoupleConfirmed ==
  /\ couple = "FOUND"
  /\ couple' = "CONFIRMED" /\ hearing' = hearing \cup {"CONFIRMED"}
  /\ UNCHANGED <<jobs, desk, reminded, spared>>

\* Rejected, cancelled or expired.
CoupleEnds ==
  /\ couple # "OVER"
  /\ couple' = "OVER" /\ hearing' = hearing \cup {"OVER"}
  /\ UNCHANGED <<jobs, desk, reminded, spared>>

\* schedule(): a job is written once, whatever became of it.
Scheduled(table, kinds) ==
  [k \in ReminderKinds |->
    IF k \in kinds /\ table[k].status = "NONE" THEN [table[k] EXCEPT !.status = "PENDING"]
    ELSE table[k]]

Waiting(kinds) == {k \in kinds : jobs[k].status = "PENDING"}

\* cancelPending(): only what waits.
CancelledOf(kinds) ==
  [k \in ReminderKinds |->
    IF k \in Waiting(kinds) THEN [jobs[k] EXCEPT !.status = "CANCELLED"] ELSE jobs[k]]

\* The types that an event cancels, and the reminder it writes.
CancelledBy(event) ==
  IF event = "FOUND" THEN {} ELSE IF event = "CONFIRMED" THEN {"DEADLINE"} ELSE ReminderKinds
WrittenBy(event) ==
  IF event = "FOUND" THEN {"DEADLINE"} ELSE IF event = "CONFIRMED" THEN {"SESSION"} ELSE {}

\* A listener runs after its commit, when other commits may have been heard.  No
\* reminder is written whose time has passed, and what the listener would do is lost
\* when the process dies before it or the database refuses: `cancels` and `writes`.
Hear(event) ==
  /\ event \in hearing
  /\ hearing' = hearing \ {event}
  /\ \E cancels \in {CancelledBy(event), {}}, writes \in {WrittenBy(event), {}} :
       /\ jobs' = Scheduled(CancelledOf(cancels), writes)
       /\ spared' = IF event = "OVER" /\ cancels # {}
                    THEN spared \ Waiting(ReminderKinds) ELSE spared
  /\ UNCHANGED <<couple, desk, reminded>>

----------------------------------------------------------------------------
(* The dispatchers. *)

DeskEmpty(d) == desk[d].list = {}
Locked(k) == \E d \in Dispatchers : desk[d].hand = k /\ desk[d].at \in {"LOCKED", "CREATED"}
Owned(d, k) == jobs[k].status = "PROCESSING" /\ jobs[k].by = d

\* reschedule() or fail(): a job that was tried often enough is given up.
Returned(job) ==
  IF job.attempts >= ReminderLimit THEN [job EXCEPT !.status = "FAILED"]
  ELSE [job EXCEPT !.status = "PENDING", !.by = Vacant]

\* recoverStale(): whatever is in processing may have been for too long, a living
\* dispatcher's job too; it waits for the row of one that is being processed.
RecoverStale(d) ==
  /\ DeskEmpty(d)
  /\ \E stale \in SUBSET {k \in ReminderKinds : jobs[k].status = "PROCESSING"} \ {{}} :
       /\ \A k \in stale : ~Locked(k)
       /\ jobs' = [k \in ReminderKinds |-> IF k \in stale THEN Returned(jobs[k]) ELSE jobs[k]]
  /\ UNCHANGED <<couple, hearing, desk, reminded, spared>>

\* claim(): of the jobs that wait those that are due.
ClaimDue(d) ==
  /\ DeskEmpty(d)
  /\ \E due \in SUBSET Waiting(ReminderKinds) \ {{}} :
       /\ jobs' = [k \in ReminderKinds |->
            IF k \in due
            THEN [status |-> "PROCESSING", attempts |-> jobs[k].attempts + 1, by |-> d]
            ELSE jobs[k]]
       /\ desk' = [desk EXCEPT ![d].list = due]
  /\ UNCHANGED <<couple, hearing, reminded, spared>>

\* process() takes the row; a job that is no longer this dispatcher's is refused.
Begin(d) ==
  /\ desk[d].at = "FREE"
  /\ \E k \in desk[d].list :
       /\ ~Locked(k)
       /\ desk' = [desk EXCEPT ![d].hand = k,
                               ![d].at = IF Owned(d, k) THEN "LOCKED" ELSE "THROWN"]
  /\ UNCHANGED <<couple, hearing, jobs, reminded, spared>>

\* create() in a transaction of its own: once per deduplication key.
CreateNotification(d) ==
  /\ desk[d].at = "LOCKED"
  /\ desk' = [desk EXCEPT ![d].at = "CREATED"]
  /\ reminded' = [reminded EXCEPT ![desk[d].hand] = IF @ = 0 THEN 1 ELSE @]
  /\ UNCHANGED <<couple, hearing, jobs, spared>>

HandEmptied(d) ==
  [desk EXCEPT ![d].list = @ \ {desk[d].hand}, ![d].hand = Vacant, ![d].at = "FREE"]

\* complete() and the commit of process().
CompleteJob(d) ==
  /\ desk[d].at = "CREATED"
  /\ jobs' = [jobs EXCEPT ![desk[d].hand].status = "COMPLETED"]
  /\ desk' = HandEmptied(d)
  /\ UNCHANGED <<couple, hearing, reminded, spared>>

\* create() or the commit fails: the row is released as it was.
Throws(d) ==
  /\ desk[d].at \in {"LOCKED", "CREATED"}
  /\ desk' = [desk EXCEPT ![d].at = "THROWN"]
  /\ UNCHANGED <<couple, hearing, jobs, reminded, spared>>

\* handle() of the failure service, which may fail itself.
RecordFailure(d) ==
  /\ desk[d].at = "THROWN"
  /\ LET k == desk[d].hand IN
     \/ ~Locked(k) /\ Owned(d, k) /\ jobs' = [jobs EXCEPT ![k] = Returned(@)]
     \/ UNCHANGED jobs
  /\ desk' = HandEmptied(d)
  /\ UNCHANGED <<couple, hearing, reminded, spared>>

\* The process dies at its work; the one that replaces it has another id.
DispatcherDies(d) ==
  /\ ~DeskEmpty(d)
  /\ desk' = [desk EXCEPT ![d] = FreeDesk]
  /\ jobs' = [k \in ReminderKinds |->
       IF Owned(d, k) THEN [jobs[k] EXCEPT !.by = Gone] ELSE jobs[k]]
  /\ UNCHANGED <<couple, hearing, reminded, spared>>

Dispatches(d) ==
  \/ RecoverStale(d) \/ ClaimDue(d) \/ Begin(d) \/ CreateNotification(d) \/ CompleteJob(d)
  \/ Throws(d) \/ RecordFailure(d)

ReminderNext ==
  \/ CoupleConfirmed \/ CoupleEnds
  \/ \E event \in hearing : Hear(event)
  \/ \E d \in Dispatchers : Dispatches(d) \/ DispatcherDies(d)

\* Each process' scheduled method runs again and again.
ReminderFairness == \A d \in Dispatchers : WF_reminderVars(Dispatches(d))

----------------------------------------------------------------------------
(* Properties. *)

\* A reminder is told once, through crashes and jobs recovered under a slow process,
\* never when its job still waited as the end of the match was heard, and a job that
\* counts as completed was told.
TellsOnce ==
  [][\A k \in ReminderKinds :
       /\ reminded'[k] # reminded[k] => reminded[k] = 0 /\ k \in spared
       /\ jobs'[k].status = "COMPLETED" => reminded'[k] > 0]_reminderVars

\* A job that waits or is being processed.
ReminderOpen == \E k \in ReminderKinds : jobs[k].status \in {"PENDING", "PROCESSING"}
============================================================================
