------------------------------ MODULE Matching ------------------------------
(***************************************************************************)
(* The matching core of the backend (domain/match): match requests, the    *)
(* one reservation row a user may hold, the pairs the worker proposes, the *)
(* two answers of a pair, the waiting room of a confirmed pair, and the    *)
(* job rows that make a worker look at a request.                          *)
(*                                                                         *)
(* Every service method runs in one database transaction.  A transaction   *)
(* whose first statement locks the rows it decides on is one action.  A    *)
(* transaction that reads rows without a lock and locks them later is two  *)
(* actions: the read records what was seen, the commit locks and writes.   *)
(* There are two such transactions: a worker processing a job (Search,     *)
(* then CreatePair, SkipPair or InsertFails) and the expiry scheduler      *)
(* (SelectOverdue, then ExpireSelected).                                   *)
(*                                                                         *)
(* StaleReads says what a locking query returns for a row the transaction  *)
(* has already read: FALSE, the row as it is now; TRUE, what was read      *)
(* first (a persistence context does not refresh a loaded entity, and a    *)
(* REPEATABLE READ snapshot answers the non-locking checks).               *)
(*                                                                         *)
(* Data that only steers a choice is abstracted: preferences and time      *)
(* slots are the set wants[r] of users a request would accept, scores are  *)
(* the free choice among candidates, and time is counted in coarse ticks.  *)
(***************************************************************************)
EXTENDS Integers, FiniteSets

CONSTANTS
    Users, Requests,
    Owner,              \* the user who files each request
    Workers,            \* worker identities, one per process start
    NoRequest, NoWorker, NoJob,
    Wants,              \* the preferences a request may be saved with
    MayBlock,           \* couples of users that may block each other
    MayRestrict,        \* users a sanction may restrict
    Faults,             \* may a job fail for an external reason?
    StaleReads,         \* does a locking query return an earlier read?
    MaxAttempts, BatchSize,
    AcceptTimeout, MinWindow, MinPrep, Horizon, SessionDuration,
    RecentExclusion, ExpiredExclusion,
    MaxJobs,            \* bound: active job rows per request
    MaxLag,             \* bound: ticks between a call's clock read and its lock
    MaxTime             \* bound: the last tick

ASSUME MatchingAssumption ==
    /\ Owner \in [Requests -> Users]
    /\ NoRequest \notin Requests /\ NoWorker \notin Workers
    /\ NoJob \notin Requests \X (1..MaxJobs)
    /\ Wants \subseteq SUBSET Users
    /\ MayBlock \subseteq SUBSET Users /\ MayRestrict \subseteq Users
    /\ Faults \in BOOLEAN /\ StaleReads \in BOOLEAN
    /\ MaxAttempts \in Nat \ {0} /\ BatchSize \in Nat \ {0}
    /\ AcceptTimeout \in Nat /\ MinWindow \in Nat /\ MinPrep \in Nat \ {0}
    /\ Horizon \in Nat /\ SessionDuration \in Nat
    /\ RecentExclusion \in Nat /\ ExpiredExclusion \in Nat
    /\ MaxJobs \in Nat /\ MaxLag \in Nat /\ MaxTime \in Nat

-----------------------------------------------------------------------------
Time == 0..MaxTime

RequestStatus == {"NONE", "WAITING", "MATCH_FOUND", "CONFIRMED",
                  "COMPLETED", "REJECTED", "CANCELLED"}
LiveStatus == {"WAITING", "MATCH_FOUND", "CONFIRMED"}

PairStatus == {"NONE", "PENDING_ACCEPTANCE", "CONFIRMED",
               "COMPLETED", "REJECTED", "CANCELLED", "EXPIRED"}
ActiveMatch == {"PENDING_ACCEPTANCE", "CONFIRMED"}

ResponseStatus == {"PENDING", "ACCEPTED", "REJECTED"}

JobStatus == {"NONE", "PENDING", "PROCESSING", "COMPLETED", "FAILED"}
ActiveJob == {"PENDING", "PROCESSING"}
Job == [status : JobStatus, attempts : 0..MaxAttempts,
        worker : Workers \cup {NoWorker}]

\* A job row is named by its request and a rank among its active jobs.
JobIds == Requests \X (1..MaxJobs)

\* A pair row is named by its two requests: match_pairs has a unique key on
\* them, so a couple of requests is paired at most once in its life.
Couples == {c \in SUBSET Requests :
              \E r, s \in Requests : Owner[r] # Owner[s] /\ c = {r, s}}

UsersOf(c) == {Owner[r] : r \in c}

VARIABLES
    clock,
    reqStatus,  \* match_requests.status
    wants,      \* the preferences and slots saved with a request
    active,     \* active_match_requests, keyed by user
    pairStatus, \* match_pairs.status, "NONE" when there is no row
    schedule,   \* the times of a pair row
    answer,     \* match_responses
    rooms,      \* couples whose waiting room has been provisioned
    job,        \* match_jobs
    up,         \* the worker processes still running
    batch,      \* the claimed jobs a worker has not come to yet
    tx,         \* the job a worker is processing
    overdue,    \* what the expiry transaction in progress has read
    blocked, restricted

requestVars == <<reqStatus, wants, active>>
pairVars    == <<pairStatus, schedule, answer, rooms>>
workerVars  == <<up, batch, tx>>
policyVars  == <<blocked, restricted>>
vars == <<clock, requestVars, pairVars, job, workerVars, overdue,
          policyVars>>

Idle == [stage |-> "idle", job |-> NoJob, cand |-> NoRequest,
         at |-> 0, start |-> 0]
NothingOverdue == [now |-> 0, pairs |-> {}, found |-> {}]

Schedule == [matchedAt : Time, deadline : Int, start : Time, closedAt : Time]
Transaction == [stage : {"idle", "searched", "failing"},
                job : JobIds \cup {NoJob}, cand : Requests \cup {NoRequest},
                at : Time, start : Time]
Overdue == [now : Time, pairs : SUBSET Couples, found : SUBSET Requests]

TypeOK ==
    /\ clock \in Time
    /\ reqStatus \in [Requests -> RequestStatus]
    /\ wants \in [Requests -> SUBSET Users]
    /\ active \in [Users -> Requests \cup {NoRequest}]
    /\ pairStatus \in [Couples -> PairStatus]
    /\ schedule \in [Couples -> Schedule]
    /\ answer \in [Couples -> [Requests -> ResponseStatus]]
    /\ rooms \subseteq Couples
    /\ job \in [JobIds -> Job]
    /\ up \subseteq Workers
    /\ batch \in [Workers -> SUBSET JobIds]
    /\ tx \in [Workers -> Transaction]
    /\ overdue \in Overdue
    /\ blocked \subseteq MayBlock
    /\ restricted \subseteq MayRestrict

Init ==
    /\ clock = 0
    /\ reqStatus = [r \in Requests |-> "NONE"]
    /\ wants = [r \in Requests |-> {}]
    /\ active = [u \in Users |-> NoRequest]
    /\ pairStatus = [c \in Couples |-> "NONE"]
    /\ schedule = [c \in Couples |-> [matchedAt |-> 0, deadline |-> 0,
                                      start |-> 0, closedAt |-> 0]]
    /\ answer = [c \in Couples |-> [r \in Requests |-> "PENDING"]]
    /\ rooms = {}
    /\ job = [j \in JobIds |-> [status |-> "NONE", attempts |-> 0,
                                worker |-> NoWorker]]
    /\ up = Workers
    /\ batch = [w \in Workers |-> {}]
    /\ tx = [w \in Workers |-> Idle]
    /\ overdue = NothingOverdue
    /\ blocked = {}
    /\ restricted = {}

-----------------------------------------------------------------------------
(* The job rows of a request.                                              *)

HasActiveJob(r) == \E n \in 1..MaxJobs : job[<<r, n>>].status \in ActiveJob

\* Where the next job of a request is stored: a finished job is never read
\* again, so its place is used again and the table stays finite.
IsNextRow(j) ==
    /\ job[j].status \notin ActiveJob
    /\ \A n \in 1..MaxJobs : n < j[2] => job[<<j[1], n>>].status \in ActiveJob

\* The requests of R for which enqueue finds no PENDING or PROCESSING job.  A
\* stale read may miss a job that another transaction has just inserted.
MissingJobs(R) ==
    LET missing == {r \in R : ~HasActiveJob(r)} IN
    IF StaleReads THEN {M \in SUBSET R : missing \subseteq M} ELSE {missing}

\* enqueue, for each request of R: a fresh PENDING row for those that have no
\* active job.  Bound: a call that needs more than MaxJobs active jobs of one
\* request is not made.
Enqueue(R) ==
    \E M \in MissingJobs(R) :
        LET fresh == {j \in JobIds : j[1] \in M /\ IsNextRow(j)} IN
        /\ M \subseteq {j[1] : j \in fresh}
        /\ job' = [j \in JobIds |->
                     IF j \in fresh
                     THEN [status |-> "PENDING", attempts |-> 0, worker |-> NoWorker]
                     ELSE job[j]]

IsOwnedBy(j, w) == job[j].status = "PROCESSING" /\ job[j].worker = w

\* Mutant of Locked: recovery does not wait for row locks.
MutantLocked(j) == FALSE

\* The row lock a worker holds on the job it is processing.
Locked(j) == \E w \in Workers : tx[w].stage = "searched" /\ tx[w].job = j

\* A job at its end; nothing reads its attempts and worker again.
Finished(status) == [status |-> status, attempts |-> 0, worker |-> NoWorker]

\* Mutants of Retried: one attempt too many, and attempts that start afresh.
MutantRetriedOnceMore(j) ==
    IF job[j].attempts <= MaxAttempts
    THEN [job[j] EXCEPT !.status = "PENDING", !.worker = NoWorker]
    ELSE Finished("FAILED")

MutantRetriedForEver(j) == [status |-> "PENDING", attempts |-> 0, worker |-> NoWorker]

\* A failed or stale job goes back to the queue until its attempts run out.
Retried(j) ==
    IF job[j].attempts < MaxAttempts
    THEN [job[j] EXCEPT !.status = "PENDING", !.worker = NoWorker]
    ELSE Finished("FAILED")

-----------------------------------------------------------------------------
(* A user's own request: MatchRequestService.                              *)

\* create: no reservation may exist; the request, the reservation and a job
\* are inserted together.
Create(r) ==
    /\ reqStatus[r] = "NONE"
    /\ Owner[r] \notin restricted
    /\ active[Owner[r]] = NoRequest
    /\ reqStatus' = [reqStatus EXCEPT ![r] = "WAITING"]
    /\ \E users \in Wants : wants' = [wants EXCEPT ![r] = users]
    /\ active' = [active EXCEPT ![Owner[r]] = r]
    /\ Enqueue({r})
    /\ UNCHANGED <<clock, pairVars, workerVars, overdue, policyVars>>

\* The reservation table when the rows of the users in U are deleted.
Freed(U) == [u \in Users |-> IF u \in U THEN NoRequest ELSE active[u]]

\* Mutant of SeenWaiting: validateWaiting is dropped.
MutantSeenWaiting(r) == active[Owner[r]] = r

\* getActiveRequestForUpdate and validateWaiting: the reservation row is
\* locked, then the request; a stale read may still show it WAITING.
SeenWaiting(r) ==
    /\ active[Owner[r]] = r
    /\ \/ reqStatus[r] = "WAITING"
       \/ StaleReads /\ reqStatus[r] = "MATCH_FOUND"

\* update: the conditions are replaced, the waiting period restarts and a
\* job is enqueued.  A stale entity writes its old status back.
Update(r) ==
    /\ SeenWaiting(r)
    /\ reqStatus' = [reqStatus EXCEPT ![r] = "WAITING"]
    /\ \E users \in Wants : wants' = [wants EXCEPT ![r] = users]
    /\ Enqueue({r})
    /\ UNCHANGED <<clock, active, pairVars, workerVars, overdue, policyVars>>

\* cancel: a waiting request is closed and its reservation deleted.
CancelRequest(r) ==
    /\ SeenWaiting(r)
    /\ reqStatus' = [reqStatus EXCEPT ![r] = "CANCELLED"]
    /\ active' = Freed({Owner[r]})
    /\ UNCHANGED <<clock, wants, pairVars, job, workerVars, overdue,
                   policyVars>>

-----------------------------------------------------------------------------
(* The worker loop: recover stale jobs, claim a batch, process each job.   *)

WorkerFree(w) == w \in up /\ batch[w] = {} /\ tx[w].stage = "idle"

\* recoverStale: jobs a worker claimed and has not finished for longer than
\* the processing timeout.  Any time may pass between two steps of a slow or
\* dead worker, so any PROCESSING job nobody holds the lock of may be stale.
RecoverStale(w, S) ==
    /\ WorkerFree(w)
    /\ S # {} /\ Cardinality(S) <= BatchSize
    /\ \A j \in S : job[j].status = "PROCESSING" /\ ~Locked(j)
    /\ job' = [j \in JobIds |-> IF j \in S THEN Retried(j) ELSE job[j]]
    /\ UNCHANGED <<clock, requestVars, pairVars, workerVars, overdue,
                   policyVars>>

\* claim: pending jobs become the worker's, and count one more attempt.
Claim(w, S) ==
    /\ WorkerFree(w)
    /\ S # {} /\ Cardinality(S) <= BatchSize
    /\ \A j \in S : job[j].status = "PENDING"
    /\ job' = [j \in JobIds |->
                 IF j \in S THEN [status |-> "PROCESSING", worker |-> w,
                                  attempts |-> job[j].attempts + 1]
                            ELSE job[j]]
    /\ batch' = [batch EXCEPT ![w] = S]
    /\ UNCHANGED <<clock, requestVars, pairVars, up, tx, overdue, policyVars>>

\* A job the worker no longer owns: process throws, fail finds the same and
\* leaves the job alone.
DropForeign(w, j) ==
    /\ w \in up /\ tx[w].stage = "idle" /\ j \in batch[w]
    /\ ~IsOwnedBy(j, w)
    /\ batch' = [batch EXCEPT ![w] = @ \ {j}]
    /\ UNCHANGED <<clock, requestVars, pairVars, job, up, tx, overdue,
                   policyVars>>

-----------------------------------------------------------------------------
(* What makes two requests a possible match.                               *)

HasActiveMatch(u) ==
    \E c \in Couples : pairStatus[c] \in ActiveMatch /\ u \in UsersOf(c)

\* Two users met recently: closed pairs keep them apart for a while.
InCooldown(c, now) ==
    \E d \in Couples :
        /\ UsersOf(d) = UsersOf(c)
        /\ schedule[d].closedAt <= now
        /\ \/ /\ pairStatus[d] \in {"COMPLETED", "CANCELLED", "REJECTED"}
              /\ schedule[d].closedAt + RecentExclusion > now
           \/ /\ pairStatus[d] = "EXPIRED"
              /\ schedule[d].closedAt + ExpiredExclusion > now

Eligible(c) == \A r \in c : UsersOf(c) \ {Owner[r]} \subseteq wants[r]

\* findBestCandidate: the requests a search may pick for r.
Candidates(r, now) ==
    {s \in Requests :
        /\ Owner[s] # Owner[r]
        /\ \A x \in {r, s} :
              /\ reqStatus[x] = "WAITING"
              /\ ~HasActiveMatch(Owner[x])
              /\ Owner[x] \notin restricted
        /\ UsersOf({r, s}) \notin blocked
        /\ ~InCooldown({r, s}, now)
        /\ Eligible({r, s})}

\* The session starts the scheduler may propose at now, within the bound.
Starts(now) ==
    {t \in Time : /\ now + MinWindow + MinPrep <= t
                  /\ t <= now + MinWindow + MinPrep + Horizon
                  /\ t + SessionDuration < MaxTime}

AcceptDeadline(now, start) ==
    IF start - MinPrep < now + AcceptTimeout THEN start - MinPrep
                                             ELSE now + AcceptTimeout

\* What a search leaves for the second half of process.
Searched(j, s, at, start) ==
    [stage |-> "searched", job |-> j, cand |-> s, at |-> at, start |-> start]

\* process, first half: the job row is locked and a candidate is chosen from
\* rows read without a lock.
Search(w, j) ==
    /\ w \in up /\ tx[w].stage = "idle" /\ j \in batch[w]
    /\ IsOwnedBy(j, w)
    /\ batch' = [batch EXCEPT ![w] = @ \ {j}]
    /\ \/ /\ Candidates(j[1], clock) = {} \/ Starts(clock) = {}
          /\ tx' = [tx EXCEPT ![w] = Searched(j, NoRequest, 0, 0)]
       \/ \E s \in Candidates(j[1], clock), t \in Starts(clock) :
             tx' = [tx EXCEPT ![w] = Searched(j, s, clock, t)]
    /\ UNCHANGED <<clock, requestVars, pairVars, job, up, overdue, policyVars>>

\* createMatch re-checks under the locks of both requests and both
\* reservations.  Checks on rows the search has read see them as it did when
\* reads are stale; the reservations are read here for the first time.
Reserved(c) == \A r \in c : active[Owner[r]] = r

\* Mutants of Revalidated: the search's view of the two users is trusted, and
\* blocks made since the search are missed.
MutantRevalidatedTrustsSearch(c, now) ==
    UsersOf(c) \notin blocked /\ ~InCooldown(c, now) /\ Eligible(c)

MutantRevalidatedUnblocked(c, now) ==
    /\ \A r \in c : reqStatus[r] = "WAITING" /\ ~HasActiveMatch(Owner[r])
    /\ ~InCooldown(c, now)
    /\ Eligible(c)

Revalidated(c, now) ==
    /\ \A r \in c : reqStatus[r] = "WAITING" /\ ~HasActiveMatch(Owner[r])
    /\ UsersOf(c) \notin blocked
    /\ ~InCooldown(c, now)
    /\ Eligible(c)

ChosenCouple(w) == {tx[w].job[1], tx[w].cand}

ChecksPass(w) ==
    /\ tx[w].cand # NoRequest
    /\ Reserved(ChosenCouple(w))
    /\ StaleReads \/ Revalidated(ChosenCouple(w), tx[w].at)

\* process, second half, when the pair is created: pair, answers, both
\* requests and the job are written in one transaction.
CreatePair(w) ==
    LET c == ChosenCouple(w) IN
    /\ tx[w].stage = "searched"
    /\ ChecksPass(w)
    /\ pairStatus[c] = "NONE"
    /\ pairStatus' = [pairStatus EXCEPT ![c] = "PENDING_ACCEPTANCE"]
    /\ schedule' = [schedule EXCEPT ![c] =
                      [matchedAt |-> tx[w].at, start |-> tx[w].start, closedAt |-> 0,
                       deadline |-> AcceptDeadline(tx[w].at, tx[w].start)]]
    /\ answer' = [answer EXCEPT ![c] = [r \in Requests |-> "PENDING"]]
    /\ reqStatus' = [r \in Requests |-> IF r \in c THEN "MATCH_FOUND" ELSE reqStatus[r]]
    /\ job' = [job EXCEPT ![tx[w].job] = Finished("COMPLETED")]
    /\ tx' = [tx EXCEPT ![w] = Idle]
    /\ UNCHANGED <<clock, wants, active, rooms, up, batch, overdue,
                   policyVars>>

\* No candidate, or createMatch returned false: the result is ignored and
\* the job is completed all the same.
SkipPair(w) ==
    /\ tx[w].stage = "searched"
    /\ ~ChecksPass(w)
    /\ job' = [job EXCEPT ![tx[w].job] = Finished("COMPLETED")]
    /\ tx' = [tx EXCEPT ![w] = Idle]
    /\ UNCHANGED <<clock, requestVars, pairVars, up, batch, overdue,
                   policyVars>>

\* The insert violates the unique key of match_pairs: the transaction rolls
\* back and the worker goes on to record the failure.
InsertFails(w) ==
    /\ tx[w].stage = "searched"
    /\ ChecksPass(w)
    /\ pairStatus[ChosenCouple(w)] # "NONE"
    /\ tx' = [tx EXCEPT ![w] = [tx[w] EXCEPT !.stage = "failing"]]
    /\ UNCHANGED <<clock, requestVars, pairVars, job, up, batch, overdue,
                   policyVars>>

\* Any other exception of process: a deadlock victim, a lost connection.
ProcessFault(w) ==
    /\ Faults
    /\ tx[w].stage = "searched"
    /\ tx' = [tx EXCEPT ![w] = [tx[w] EXCEPT !.stage = "failing"]]
    /\ UNCHANGED <<clock, requestVars, pairVars, job, up, batch, overdue,
                   policyVars>>

\* fail runs in its own transaction; when it throws too, the error is logged
\* and the job stays PROCESSING for recoverStale to find.
RecordFailure(w) ==
    /\ tx[w].stage = "failing"
    /\ tx' = [tx EXCEPT ![w] = Idle]
    /\ \/ /\ IsOwnedBy(tx[w].job, w)
          /\ job' = [job EXCEPT ![tx[w].job] = Retried(tx[w].job)]
       \/ /\ ~IsOwnedBy(tx[w].job, w) \/ Faults
          /\ UNCHANGED job
    /\ UNCHANGED <<clock, requestVars, pairVars, up, batch, overdue,
                   policyVars>>

\* A process dies: its transaction rolls back, its claimed jobs stay
\* PROCESSING, and a restart takes a new random worker identity.  Bound: the
\* identities are finite, so the last one stays up.
Crash(w) ==
    /\ Faults
    /\ w \in up /\ up # {w}
    /\ up' = up \ {w}
    /\ batch' = [batch EXCEPT ![w] = {}]
    /\ tx' = [tx EXCEPT ![w] = Idle]
    /\ UNCHANGED <<clock, requestVars, pairVars, job, overdue, policyVars>>

-----------------------------------------------------------------------------
(* The answers to a proposed pair: MatchResultService.                     *)

\* The clock is read before the pair row is locked, so a call may act on a
\* time up to MaxLag ticks old.
CallTimes(c) == {t \in Time : /\ schedule[c].matchedAt <= t /\ t <= clock
                              /\ clock - MaxLag <= t}

\* The schedule of a pair that is closed at t.
ClosedAt(c, t) == [schedule[c] EXCEPT !.closedAt = t]

Respondable(c, r, now) ==
    /\ r \in c
    /\ pairStatus[c] = "PENDING_ACCEPTANCE"
    /\ now < schedule[c].deadline
    /\ answer[c][r] = "PENDING"

AllOthersAccepted(c, r) == \A s \in c \ {r} : answer[c][s] = "ACCEPTED"

\* accept, while the partner has not accepted.
AcceptFirst(c, r) ==
    /\ \E now \in CallTimes(c) : Respondable(c, r, now)
    /\ ~AllOthersAccepted(c, r)
    /\ answer' = [answer EXCEPT ![c][r] = "ACCEPTED"]
    /\ UNCHANGED <<clock, requestVars, pairStatus, schedule, rooms, job,
                   workerVars, overdue, policyVars>>

\* accept, as the second of the two: the pair and both requests are
\* confirmed and the waiting room is provisioned in the same transaction.
AcceptLast(c, r) ==
    /\ \E now \in CallTimes(c) : Respondable(c, r, now) /\ now < schedule[c].start
    /\ AllOthersAccepted(c, r)
    /\ \A s \in c : reqStatus[s] = "MATCH_FOUND"
    /\ answer' = [answer EXCEPT ![c][r] = "ACCEPTED"]
    /\ pairStatus' = [pairStatus EXCEPT ![c] = "CONFIRMED"]
    /\ reqStatus' = [s \in Requests |-> IF s \in c THEN "CONFIRMED" ELSE reqStatus[s]]
    /\ rooms' = rooms \cup {c}
    /\ UNCHANGED <<clock, wants, active, schedule, job, workerVars, overdue,
                   policyVars>>

\* reject: the pair and the rejecting user's request close, the partner's
\* request returns to the queue with a job.
Reject(c, r) ==
    /\ \E now \in CallTimes(c) :
          /\ Respondable(c, r, now)
          /\ schedule' = [schedule EXCEPT ![c] = ClosedAt(c, now)]
    /\ \A s \in c : reqStatus[s] = "MATCH_FOUND"
    /\ answer' = [answer EXCEPT ![c][r] = "REJECTED"]
    /\ pairStatus' = [pairStatus EXCEPT ![c] = "REJECTED"]
    /\ reqStatus' = [s \in Requests |-> IF s = r THEN "REJECTED"
                                        ELSE IF s \in c THEN "WAITING"
                                        ELSE reqStatus[s]]
    /\ active' = Freed({Owner[r]})
    /\ Enqueue(c \ {r})
    /\ UNCHANGED <<clock, wants, rooms, workerVars, overdue, policyVars>>

-----------------------------------------------------------------------------
(* The end of a pair: cancellation and the two schedulers.                 *)

\* MatchCancellationService.cancel: both requests end, both reservations go.
CancelPair(c) ==
    /\ pairStatus[c] = "CONFIRMED"
    /\ clock < schedule[c].start
    /\ \A r \in c : reqStatus[r] # "CANCELLED"
    /\ pairStatus' = [pairStatus EXCEPT ![c] = "CANCELLED"]
    /\ schedule' = [schedule EXCEPT ![c] = ClosedAt(c, clock)]
    /\ reqStatus' = [r \in Requests |-> IF r \in c THEN "CANCELLED" ELSE reqStatus[r]]
    /\ active' = Freed(UsersOf(c))
    /\ UNCHANGED <<clock, wants, answer, rooms, job, workerVars, overdue,
                   policyVars>>

\* expireOverdue, first half: the overdue pairs are read without a lock.
SelectOverdue ==
    LET late == {c \in Couples : /\ pairStatus[c] = "PENDING_ACCEPTANCE"
                                 /\ schedule[c].deadline < clock} IN
    /\ overdue.pairs = {}
    /\ late # {}
    /\ overdue' = [now |-> clock, pairs |-> late,
                   found |-> {r \in UNION late : reqStatus[r] = "MATCH_FOUND"}]
    /\ UNCHANGED <<clock, requestVars, pairVars, job, workerVars, policyVars>>

\* Mutant of StillOverdue: the second look compares the wrong way round.
MutantStillOverdueReversed ==
    {c \in overdue.pairs : /\ pairStatus[c] = "PENDING_ACCEPTANCE"
                           /\ schedule[c].deadline > overdue.now}

\* The selected pairs that the second look, under their locks, still finds
\* pending and past their deadline.
StillOverdue ==
    IF StaleReads THEN overdue.pairs
    ELSE {c \in overdue.pairs : /\ pairStatus[c] = "PENDING_ACCEPTANCE"
                                /\ schedule[c].deadline <= overdue.now}

\* expireOverdue, second half: each pair is locked, re-checked and expired;
\* its requests that are MATCH_FOUND return to the queue, any other is left.
ExpireSelected ==
    LET expired == StillOverdue
        back    == IF StaleReads THEN overdue.found
                   ELSE {r \in UNION expired : reqStatus[r] = "MATCH_FOUND"} IN
    /\ overdue.pairs # {}
    /\ pairStatus' = [c \in Couples |-> IF c \in expired THEN "EXPIRED" ELSE pairStatus[c]]
    /\ schedule' = [c \in Couples |->
                      IF c \in expired THEN ClosedAt(c, overdue.now) ELSE schedule[c]]
    /\ reqStatus' = [r \in Requests |-> IF r \in back THEN "WAITING" ELSE reqStatus[r]]
    /\ Enqueue(back)
    /\ overdue' = NothingOverdue
    /\ UNCHANGED <<clock, wants, active, answer, rooms, workerVars, policyVars>>

\* completeFinishedSessions: every confirmed pair whose session length has
\* passed is completed in one transaction; one bad pair fails them all.  The
\* list is read without locks, but nobody else changes a confirmed pair once
\* its session has started, so the read and the locked re-check are one step.
CompleteFinished ==
    LET done == {c \in Couples : /\ pairStatus[c] = "CONFIRMED"
                                 /\ schedule[c].start + SessionDuration < clock} IN
    /\ done # {}
    /\ \A r \in UNION done : reqStatus[r] = "CONFIRMED"
    /\ pairStatus' = [c \in Couples |-> IF c \in done THEN "COMPLETED" ELSE pairStatus[c]]
    /\ schedule' = [c \in Couples |->
                      IF c \in done THEN ClosedAt(c, schedule[c].start + SessionDuration)
                                    ELSE schedule[c]]
    /\ reqStatus' = [r \in Requests |-> IF r \in UNION done THEN "COMPLETED" ELSE reqStatus[r]]
    /\ active' = Freed(UNION {UsersOf(c) : c \in done})
    /\ UNCHANGED <<clock, wants, answer, rooms, job, workerVars, overdue,
                   policyVars>>

-----------------------------------------------------------------------------
(* The environment.                                                        *)

Block(couple) ==
    /\ blocked' = blocked \cup {couple}
    /\ UNCHANGED <<clock, requestVars, pairVars, job, workerVars, overdue,
                   restricted>>

Restrict(u) ==
    /\ restricted' = restricted \cup {u}
    /\ UNCHANGED <<clock, requestVars, pairVars, job, workerVars, overdue,
                   blocked>>

Tick ==
    /\ clock < MaxTime
    /\ clock' = clock + 1
    /\ UNCHANGED <<requestVars, pairVars, job, workerVars, overdue,
                   policyVars>>

Next ==
    \/ \E r \in Requests : Create(r) \/ Update(r) \/ CancelRequest(r)
    \/ \E w \in Workers : \/ \E S \in SUBSET JobIds : RecoverStale(w, S) \/ Claim(w, S)
                          \/ \E j \in JobIds : DropForeign(w, j) \/ Search(w, j)
                          \/ CreatePair(w) \/ SkipPair(w) \/ InsertFails(w)
                          \/ ProcessFault(w) \/ RecordFailure(w) \/ Crash(w)
    \/ \E c \in Couples : \/ \E r \in c : AcceptFirst(c, r) \/ AcceptLast(c, r) \/ Reject(c, r)
                          \/ CancelPair(c)
    \/ SelectOverdue \/ ExpireSelected \/ CompleteFinished
    \/ \E couple \in MayBlock : Block(couple)
    \/ \E u \in MayRestrict : Restrict(u)
    \/ Tick

Spec == Init /\ [][Next]_vars

\* The schedulers run for ever and the clock advances.  A worker process that
\* is up keeps going; users, sanctions and faults owe nothing.
SchedulerFairness ==
    /\ WF_vars(Tick)
    /\ WF_vars(SelectOverdue) /\ WF_vars(ExpireSelected)
    /\ WF_vars(CompleteFinished)

WorkerFairness ==
    \A w \in Workers :
        /\ WF_vars(CreatePair(w) \/ SkipPair(w) \/ InsertFails(w))
        /\ WF_vars(RecordFailure(w))
        /\ \A j \in JobIds : WF_vars(DropForeign(w, j) \/ Search(w, j))

\* A worker that is up comes back to the queue after every batch.  It recovers
\* the oldest stale claims first and claims the job that has been available
\* longest first, so no job is passed over for ever.
QueueFairness ==
    \A w \in Workers, j \in JobIds :
        /\ SF_vars(\E S \in SUBSET JobIds : j \in S /\ RecoverStale(w, S))
        /\ SF_vars(\E S \in SUBSET JobIds : j \in S /\ Claim(w, S))

\* Each liveness property is checked under the fairness it needs and no more.
ScheduledSpec == Spec /\ SchedulerFairness
WorkedSpec == Spec /\ WorkerFairness /\ QueueFairness

-----------------------------------------------------------------------------
(* Safety.                                                                 *)

\* No user is in two matches at once: two workers that pick the same person
\* for different partners cannot both succeed (MatchCreationService).
OneActiveMatchPerUser ==
    \A c, d \in Couples :
        /\ pairStatus[c] \in ActiveMatch /\ pairStatus[d] \in ActiveMatch
        /\ UsersOf(c) \cap UsersOf(d) # {}
        => c = d

\* The reservation row of a user names exactly the request that is still in
\* play: whatever ends a request frees the user, and nothing else does.
ReservationHoldsLiveRequest ==
    /\ \A r \in Requests : reqStatus[r] \in LiveStatus <=> active[Owner[r]] = r
    /\ \A u \in Users : active[u] # NoRequest => Owner[active[u]] = u

\* A pair and its two requests move together through proposal, confirmation
\* and end: no request waits on a pair that is gone and no pair holds a
\* request that has left it.
PairMirrorsRequests ==
    /\ \A c \in Couples : \A r \in c :
          /\ pairStatus[c] = "PENDING_ACCEPTANCE" => reqStatus[r] = "MATCH_FOUND"
          /\ pairStatus[c] = "CONFIRMED" => reqStatus[r] = "CONFIRMED"
    /\ \A r \in Requests :
          /\ reqStatus[r] = "MATCH_FOUND" =>
                \E c \in Couples : r \in c /\ pairStatus[c] = "PENDING_ACCEPTANCE"
          /\ reqStatus[r] = "CONFIRMED" =>
                \E c \in Couples : r \in c /\ pairStatus[c] = "CONFIRMED"

\* The two answers decide the pair: it is confirmed, with a waiting room,
\* exactly when both accepted, rejected only by an answer, and never expired
\* over the heads of two people who accepted.
AnswersDecidePair ==
    \A c \in Couples :
        /\ pairStatus[c] \in {"CONFIRMED", "COMPLETED", "CANCELLED"} =>
              (\A r \in c : answer[c][r] = "ACCEPTED") /\ c \in rooms
        /\ pairStatus[c] \in {"PENDING_ACCEPTANCE", "EXPIRED"} =>
              /\ \E r \in c : answer[c][r] = "PENDING"
              /\ \A r \in c : answer[c][r] # "REJECTED"
        /\ pairStatus[c] = "REJECTED" => \E r \in c : answer[c][r] = "REJECTED"

\* A request never has two jobs in the queue, although enqueue only looks
\* before it inserts and no key forbids a second row.
OneActiveJobPerRequest ==
    \A i, j \in JobIds :
        i[1] = j[1] /\ job[i].status \in ActiveJob /\ job[j].status \in ActiveJob
        => i = j

\* While a worker searches and pairs for a job, the job is still its own: no
\* recovery pass of another worker gives the job away under its lock, so no two
\* workers ever act for the same job (MatchJobProcessor, MatchJobRecoveryService).
LockHolderOwnsJob ==
    \A w \in Workers : tx[w].stage = "searched" => IsOwnedBy(tx[w].job, w)

\* The tables never tell two stories: reservations, requests, answers and pairs
\* agree between any two transactions.
BookkeepingAgrees ==
    ReservationHoldsLiveRequest /\ PairMirrorsRequests /\ AnswersDecidePair

\* One job acts for a request, and one worker for a job, through recoveries of
\* slow workers' jobs and wake-ups by several transactions.
QueueIsExclusive == OneActiveJobPerRequest /\ LockHolderOwnsJob

\* A pair is only ever proposed to two waiting users who, at that moment,
\* have not blocked each other, still fit each other's conditions and are not
\* kept apart by a recent match, whatever changed since the search.
ProposalsRespectConstraints ==
    [][\A c \in Couples :
          pairStatus[c] # pairStatus'[c] /\ pairStatus'[c] = "PENDING_ACCEPTANCE" =>
             /\ UsersOf(c) \notin blocked
             /\ Eligible(c)
             /\ \A r \in c : reqStatus[r] = "WAITING"
             /\ ~InCooldown(c, schedule'[c].matchedAt)]_vars

-----------------------------------------------------------------------------
(* Liveness.                                                               *)

\* A proposed pair is answered or expired, and a confirmed one is cancelled
\* or completed: no user stays reserved for ever.
PairsEnd ==
    \A c \in Couples : pairStatus[c] \in ActiveMatch ~> pairStatus[c] \notin ActiveMatch

\* Every queued job is finished: crashes, slow workers whose job is taken from
\* them and failures that repeat use up its attempts, they never loop.
JobsEnd ==
    \A j \in JobIds : job[j].status \in ActiveJob ~> job[j].status \notin ActiveJob

-----------------------------------------------------------------------------
(* The promise the matching core implements.                               *)

\* The couple a user is committed to, as the reservation and request tables
\* tell it; the stage of a couple, as the pair table tells it.
SeatOf(u) ==
    {c \in Couples : /\ active[u] \in c
                     /\ reqStatus[active[u]] \in {"MATCH_FOUND", "CONFIRMED"}
                     /\ pairStatus[c] \in ActiveMatch}

StageOf(c) ==
    CASE pairStatus[c] = "NONE"               -> "free"
      [] pairStatus[c] = "PENDING_ACCEPTANCE" -> "proposed"
      [] pairStatus[c] = "CONFIRMED"          -> "confirmed"
      [] OTHER                                -> "closed"

Ledger == INSTANCE MatchLedger
            WITH Members <- [c \in Couples |-> UsersOf(c)],
                 stage <- [c \in Couples |-> StageOf(c)],
                 seat <- [u \in Users |-> SeatOf(u)]

\* Whatever the interleaving of workers, users and schedulers, the three
\* tables move in step with the ledger: a pair is proposed only to free users,
\* and the step that closes it frees them.
ImplementsLedger == Ledger!Spec

-----------------------------------------------------------------------------
(* What the tests say of the matching core.                                *)

\* Once an expired pair is a day old its users are matchable again: nothing
\* stands between two waiting requests that pass every check and a new pair.
ExpiredPartnersMayMeetAgain ==
    \A c \in Couples : Reserved(c) /\ Revalidated(c, clock) => pairStatus[c] = "NONE"
=============================================================================
