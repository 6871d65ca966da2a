--------------------------- MODULE MatchingProofs ---------------------------
(***************************************************************************)
(* Proofs about the matching core, for every number of users, requests,    *)
(* workers, jobs and ticks.                                                *)
(***************************************************************************)
EXTENDS Matching, TLAPS

-----------------------------------------------------------------------------
(* Type correctness.  attempts never passes MaxAttempts because a job only *)
(* waits in the queue while it has an attempt left.                        *)

PendingHasAttempt ==
    \A j \in JobIds : job[j].status = "PENDING" => job[j].attempts < MaxAttempts

JobsOK == job \in [JobIds -> Job] /\ PendingHasAttempt

TypeInv == TypeOK /\ PendingHasAttempt

LEMMA FinishedType ==
    ASSUME NEW s \in {"COMPLETED", "FAILED"}
    PROVE  Finished(s) \in Job /\ Finished(s).status = s
BY MatchingAssumption, SMT DEF Finished, Job, JobStatus

LEMMA RetriedType ==
    ASSUME JobsOK, NEW j \in JobIds
    PROVE  /\ Retried(j) \in Job
           /\ Retried(j).status = "PENDING" => Retried(j).attempts < MaxAttempts
           /\ Retried(j).status \in {"PENDING", "FAILED"}
<1>1. job[j] \in Job
  BY DEF JobsOK
<1>2. CASE job[j].attempts < MaxAttempts
  BY <1>1, <1>2, MatchingAssumption DEF Retried, Job, JobStatus
<1>3. CASE ~(job[j].attempts < MaxAttempts)
  BY <1>3, FinishedType DEF Retried
<1> QED BY <1>2, <1>3

LEMMA EnqueueType ==
    ASSUME JobsOK, NEW R, Enqueue(R)
    PROVE  JobsOK'
<1>1. PICK M \in MissingJobs(R) :
         job' = [j \in JobIds |->
                   IF j \in {i \in JobIds : i[1] \in M /\ IsNextRow(i)}
                   THEN [status |-> "PENDING", attempts |-> 0, worker |-> NoWorker]
                   ELSE job[j]]
  BY DEF Enqueue
<1>2. [status |-> "PENDING", attempts |-> 0, worker |-> NoWorker] \in Job
  BY MatchingAssumption DEF Job, JobStatus
<1> QED BY <1>1, <1>2, MatchingAssumption DEF JobsOK, PendingHasAttempt

LEMMA ClosedAtType ==
    ASSUME schedule \in [Couples -> Schedule], NEW c \in Couples, NEW t \in Time
    PROVE  ClosedAt(c, t) \in Schedule
BY DEF ClosedAt, Schedule

LEMMA InitType == Init => TypeInv
<1> SUFFICES ASSUME Init PROVE TypeInv
  OBVIOUS
<1>1. job \in [JobIds -> Job] /\ PendingHasAttempt
  BY MatchingAssumption DEF Init, Job, JobStatus, PendingHasAttempt
<1>2. schedule \in [Couples -> Schedule]
  BY MatchingAssumption DEF Init, Time, Schedule
<1>3. tx \in [Workers -> Transaction]
  BY MatchingAssumption DEF Init, Idle, Time, Transaction
<1>4. overdue \in Overdue
  BY MatchingAssumption DEF Init, NothingOverdue, Time, Overdue
<1> QED BY <1>1, <1>2, <1>3, <1>4, MatchingAssumption
        DEF Init, TypeInv, TypeOK, Time, RequestStatus, PairStatus, ResponseStatus

\* The actions leave most tables alone: a table that does not change keeps its
\* type, so each step below names the tables its action writes.
LEMMA NextType == TypeInv /\ [Next]_vars => TypeInv'
<1> SUFFICES ASSUME TypeInv, [Next]_vars PROVE TypeInv'
  OBVIOUS
<1> USE DEF TypeInv, TypeOK
<1>0. JobsOK
  BY DEF JobsOK
<1>J. ASSUME JobsOK' PROVE job' \in [JobIds -> Job] /\ PendingHasAttempt'
  BY <1>J DEF JobsOK
<1>1. ASSUME NEW r \in Requests, Create(r) PROVE TypeInv'
  <2>1. JobsOK'
    BY <1>0, <1>1, EnqueueType DEF Create
  <2>2. reqStatus' \in [Requests -> RequestStatus]
    BY <1>1 DEF Create, RequestStatus
  <2>3. wants' \in [Requests -> SUBSET Users]
    BY <1>1, MatchingAssumption DEF Create
  <2>4. active' \in [Users -> Requests \cup {NoRequest}]
    BY <1>1 DEF Create
  <2> QED BY <1>1, <1>J, <2>1, <2>2, <2>3, <2>4 DEF Create, pairVars, workerVars, policyVars
<1>2. ASSUME NEW r \in Requests, Update(r) PROVE TypeInv'
  <2>1. JobsOK'
    BY <1>0, <1>2, EnqueueType DEF Update
  <2> QED BY <1>2, <1>J, <2>1, MatchingAssumption
          DEF Update, pairVars, workerVars, policyVars, RequestStatus
<1>3. ASSUME NEW r \in Requests, CancelRequest(r) PROVE TypeInv'
  BY <1>3 DEF CancelRequest, Freed, pairVars, workerVars, policyVars,
              RequestStatus, PendingHasAttempt
<1>4. ASSUME NEW w \in Workers, NEW S \in SUBSET JobIds, RecoverStale(w, S)
      PROVE  TypeInv'
  <2>1. JobsOK'
    BY <1>0, <1>4, RetriedType DEF RecoverStale, JobsOK, PendingHasAttempt
  <2> QED BY <1>4, <1>J, <2>1
          DEF RecoverStale, requestVars, pairVars, workerVars, policyVars
<1>5. ASSUME NEW w \in Workers, NEW S \in SUBSET JobIds, Claim(w, S)
      PROVE  TypeInv'
  <2>1. \A j \in S : job[j].attempts + 1 \in 0..MaxAttempts
    BY <1>5, MatchingAssumption DEF Claim, PendingHasAttempt, Job
  <2>2. job' \in [JobIds -> Job]
    BY <1>5, <2>1 DEF Claim, Job, JobStatus
  <2>3. PendingHasAttempt'
    BY <1>5 DEF Claim, PendingHasAttempt
  <2> QED BY <1>5, <2>2, <2>3 DEF Claim, requestVars, pairVars, policyVars
<1>6. ASSUME NEW w \in Workers, NEW j \in JobIds, DropForeign(w, j)
      PROVE  TypeInv'
  BY <1>6 DEF DropForeign, requestVars, pairVars, policyVars, PendingHasAttempt
<1>7. ASSUME NEW w \in Workers, NEW j \in JobIds, Search(w, j) PROVE TypeInv'
  <2>1. ASSUME NEW t \in Transaction,
               tx' = [tx EXCEPT ![w] = t]
        PROVE  TypeInv'
    BY <1>7, <2>1 DEF Search, requestVars, pairVars, policyVars, PendingHasAttempt
  <2>2. 0 \in Time
    BY MatchingAssumption DEF Time
  <2>3. CASE tx' = [tx EXCEPT ![w] = Searched(j, NoRequest, 0, 0)]
    BY <2>1, <2>2, <2>3 DEF Searched, Transaction
  <2>4. ASSUME NEW s \in Candidates(j[1], clock), NEW t \in Starts(clock),
               tx' = [tx EXCEPT ![w] = Searched(j, s, clock, t)]
        PROVE  TypeInv'
    BY <2>1, <2>4 DEF Candidates, Starts, Searched, Transaction
  <2> QED BY <1>7, <2>3, <2>4 DEF Search
<1>8. ASSUME NEW w \in Workers, CreatePair(w) PROVE TypeInv'
  <2>1. job' \in [JobIds -> Job] /\ PendingHasAttempt'
    BY <1>8, FinishedType DEF CreatePair, PendingHasAttempt
  <2>2. tx[w].at \in Time /\ tx[w].start \in Time /\ 0 \in Time
    BY MatchingAssumption DEF Time, Transaction
  <2>3. AcceptDeadline(tx[w].at, tx[w].start) \in Int
    BY <2>2, MatchingAssumption DEF AcceptDeadline, Time
  <2>4. schedule' \in [Couples -> Schedule]
    BY <1>8, <2>2, <2>3 DEF CreatePair, Schedule
  <2>5. pairStatus' \in [Couples -> PairStatus] /\ reqStatus' \in [Requests -> RequestStatus]
    BY <1>8 DEF CreatePair, PairStatus, RequestStatus
  <2>6. answer' \in [Couples -> [Requests -> ResponseStatus]]
    BY <1>8 DEF CreatePair, ResponseStatus
  <2>7. tx' \in [Workers -> Transaction]
    BY <1>8, <2>2 DEF CreatePair, Idle, Transaction
  <2> QED BY <1>8, <2>1, <2>4, <2>5, <2>6, <2>7 DEF CreatePair, policyVars
<1>9. ASSUME NEW w \in Workers, SkipPair(w) PROVE TypeInv'
  <2>1. job' \in [JobIds -> Job] /\ PendingHasAttempt'
    BY <1>9, FinishedType DEF SkipPair, PendingHasAttempt
  <2>2. 0 \in Time
    BY MatchingAssumption DEF Time
  <2> QED BY <1>9, <2>1, <2>2 DEF SkipPair, Idle, Transaction, requestVars, pairVars, policyVars
<1>10. ASSUME NEW w \in Workers, InsertFails(w) \/ ProcessFault(w) PROVE TypeInv'
  <2>1. ASSUME NEW t \in Transaction PROVE [t EXCEPT !.stage = "failing"] \in Transaction
    BY DEF Transaction
  <2>2. tx' \in [Workers -> Transaction]
    BY <1>10, <2>1 DEF InsertFails, ProcessFault
  <2> QED BY <1>10, <2>2
          DEF InsertFails, ProcessFault, requestVars, pairVars, policyVars, PendingHasAttempt
<1>11. ASSUME NEW w \in Workers, RecordFailure(w) PROVE TypeInv'
  <2>1. JobsOK'
    BY <1>0, <1>11, RetriedType DEF RecordFailure, JobsOK, PendingHasAttempt
  <2>2. 0 \in Time
    BY MatchingAssumption DEF Time
  <2> QED BY <1>11, <1>J, <2>1, <2>2
          DEF RecordFailure, Idle, Transaction, requestVars, pairVars, policyVars
<1>12. ASSUME NEW w \in Workers, Crash(w) PROVE TypeInv'
  <2>1. 0 \in Time
    BY MatchingAssumption DEF Time
  <2> QED BY <1>12, <2>1
          DEF Crash, Idle, Transaction, requestVars, pairVars, policyVars, PendingHasAttempt
<1>13. ASSUME NEW c \in Couples, NEW r \in c, AcceptFirst(c, r) PROVE TypeInv'
  BY <1>13 DEF AcceptFirst, requestVars, workerVars, policyVars, ResponseStatus,
               PendingHasAttempt
<1>14. ASSUME NEW c \in Couples, NEW r \in c, AcceptLast(c, r) PROVE TypeInv'
  BY <1>14 DEF AcceptLast, workerVars, policyVars, ResponseStatus, PairStatus,
               RequestStatus, PendingHasAttempt
<1>15. ASSUME NEW c \in Couples, NEW r \in c, Reject(c, r) PROVE TypeInv'
  <2>1. JobsOK'
    BY <1>0, <1>15, EnqueueType DEF Reject
  <2>2. schedule' \in [Couples -> Schedule]
    BY <1>15, ClosedAtType DEF Reject, CallTimes
  <2> QED BY <1>15, <1>J, <2>1, <2>2
          DEF Reject, Freed, workerVars, policyVars, ResponseStatus, PairStatus,
              RequestStatus
<1>16. ASSUME NEW c \in Couples, CancelPair(c) PROVE TypeInv'
  <2>1. schedule' \in [Couples -> Schedule]
    BY <1>16, ClosedAtType DEF CancelPair
  <2> QED BY <1>16, <2>1
          DEF CancelPair, Freed, workerVars, policyVars, PairStatus, RequestStatus,
              PendingHasAttempt
<1>17. CASE SelectOverdue
  BY <1>17, MatchingAssumption
     DEF SelectOverdue, Overdue, requestVars, pairVars, workerVars, policyVars, Couples,
         PendingHasAttempt
<1>18. CASE ExpireSelected
  <2>1. JobsOK'
    BY <1>0, <1>18, EnqueueType DEF ExpireSelected
  <2>2. schedule' \in [Couples -> Schedule]
    BY <1>18, ClosedAtType DEF ExpireSelected, Overdue
  <2>3. overdue' \in Overdue
    BY <1>18, MatchingAssumption DEF ExpireSelected, NothingOverdue, Time, Overdue
  <2> QED BY <1>18, <1>J, <2>1, <2>2, <2>3
          DEF ExpireSelected, workerVars, policyVars, PairStatus, RequestStatus
<1>19. CASE CompleteFinished
  <2> DEFINE done == {c \in Couples : /\ pairStatus[c] = "CONFIRMED"
                                      /\ schedule[c].start + SessionDuration < clock}
  <2>1. \A c \in done : schedule[c].start + SessionDuration \in Time
    BY MatchingAssumption DEF Time, Schedule
  <2>2. schedule' \in [Couples -> Schedule]
    BY <1>19, <2>1, ClosedAtType DEF CompleteFinished
  <2> QED BY <1>19, <2>2
          DEF CompleteFinished, Freed, workerVars, policyVars, PairStatus,
              RequestStatus, PendingHasAttempt
<1>20. CASE (\E couple \in MayBlock : Block(couple)) \/ (\E u \in MayRestrict : Restrict(u))
  BY <1>20 DEF Block, Restrict, requestVars, pairVars, workerVars, PendingHasAttempt
<1>21. CASE Tick
  BY <1>21, MatchingAssumption
     DEF Tick, Time, requestVars, pairVars, workerVars, policyVars, PendingHasAttempt
<1>22. CASE UNCHANGED vars
  BY <1>22 DEF vars, requestVars, pairVars, workerVars, policyVars, PendingHasAttempt
<1> QED BY <1>1, <1>2, <1>3, <1>4, <1>5, <1>6, <1>7, <1>8, <1>9, <1>10, <1>11,
           <1>12, <1>13, <1>14, <1>15, <1>16, <1>17, <1>18, <1>19, <1>20, <1>21,
           <1>22 DEF Next

\* Every table keeps its type and no job is attempted more than MaxAttempts
\* times, whatever isolation the database gives (MatchJobRetryPolicy.canRetry).
THEOREM TypeCorrect == Spec => []TypeOK
<1>1. TypeInv => TypeOK
  BY DEF TypeInv
<1> QED BY <1>1, InitType, NextType, PTL DEF Spec

-----------------------------------------------------------------------------
(* Pairs, requests and reservations.  OneActiveMatchPerUser alone is not   *)
(* inductive: what keeps a user out of a second pair is that the request   *)
(* of the first is no longer WAITING, so the invariant ties the statuses   *)
(* of the pair and request tables and the reservation rows together.  The  *)
(* argument needs locking reads to return current rows: StaleReads = FALSE *)

PairsAreDisjoint ==
    \A c, d \in Couples :
        pairStatus[c] \in ActiveMatch /\ pairStatus[d] \in ActiveMatch /\ c \cap d # {}
        => c = d

SearchedCouples ==
    \A w \in Workers : tx[w].stage = "searched" /\ tx[w].cand # NoRequest =>
                          ChosenCouple(w) \in Couples

PairInv ==
    /\ SearchedCouples
    /\ ReservationHoldsLiveRequest
    /\ PairMirrorsRequests
    /\ PairsAreDisjoint

LEMMA CouplesAreRequests ==
    \A c \in Couples : c \subseteq Requests /\ c # {}
BY DEF Couples

LEMMA InitPairs == Init => PairInv
BY MatchingAssumption, CouplesAreRequests
   DEF Init, PairInv, SearchedCouples, ReservationHoldsLiveRequest, LiveStatus,
       PairMirrorsRequests, PairsAreDisjoint, ActiveMatch, Idle

\* A user is in at most one active pair because a request is, and because two
\* live requests of one user would both be the request of its reservation.
LEMMA DisjointPairsSeparateUsers == TypeOK /\ PairInv => OneActiveMatchPerUser
<1> SUFFICES ASSUME TypeOK, PairInv,
                    NEW c \in Couples, NEW d \in Couples,
                    pairStatus[c] \in ActiveMatch, pairStatus[d] \in ActiveMatch,
                    UsersOf(c) \cap UsersOf(d) # {}
             PROVE  c = d
  BY DEF OneActiveMatchPerUser
<1>1. PICK r \in c, s \in d : Owner[r] = Owner[s]
  BY DEF UsersOf
<1>2. reqStatus[r] \in LiveStatus /\ reqStatus[s] \in LiveStatus
  BY DEF PairInv, PairMirrorsRequests, ActiveMatch, LiveStatus
<1>3. r = active[Owner[r]] /\ s = active[Owner[s]]
  BY <1>2, CouplesAreRequests DEF PairInv, ReservationHoldsLiveRequest
<1> QED BY <1>1, <1>3 DEF PairInv, PairsAreDisjoint

\* The steps that touch neither table nor any worker's search.
LEMMA QuietStep ==
    ASSUME PairInv, UNCHANGED <<reqStatus, active, pairStatus>>, SearchedCouples'
    PROVE  PairInv'
BY DEF PairInv, ReservationHoldsLiveRequest, PairMirrorsRequests, PairsAreDisjoint

\* A search only ever chooses a request of another user.
LEMMA SearchStep ==
    ASSUME TypeOK, PairInv, NEW w \in Workers, NEW j \in JobIds, Search(w, j)
    PROVE  PairInv'
<1>1. \A v \in Workers \ {w} : tx'[v] = tx[v]
  BY DEF Search, TypeOK
<1>2. CASE tx' = [tx EXCEPT ![w] = Searched(j, NoRequest, 0, 0)]
  <2>1. tx'[w].cand = NoRequest
    BY <1>2 DEF TypeOK, Searched
  <2> QED BY <1>1, <2>1, QuietStep
          DEF Search, requestVars, pairVars, PairInv, SearchedCouples, ChosenCouple
<1>3. ASSUME NEW s \in Candidates(j[1], clock), NEW t \in Starts(clock),
             tx' = [tx EXCEPT ![w] = Searched(j, s, clock, t)]
      PROVE  PairInv'
  <2>1. tx'[w].cand = s /\ tx'[w].job = j
    BY <1>3 DEF TypeOK, Searched
  <2>2. j[1] \in Requests /\ s \in Requests /\ Owner[j[1]] # Owner[s]
    BY DEF JobIds, Candidates
  <2>3. {j[1], s} \in Couples
    BY <2>2 DEF Couples
  <2> QED BY <1>1, <2>1, <2>3, QuietStep
          DEF Search, requestVars, pairVars, PairInv, SearchedCouples, ChosenCouple
<1> QED BY <1>2, <1>3 DEF Search

LEMMA NextPairs ==
    ASSUME StaleReads = FALSE, TypeOK, PairInv, [Next]_vars
    PROVE  PairInv'
<1> USE CouplesAreRequests
<1> USE DEF TypeOK, PairInv
<1>1. ASSUME NEW r \in Requests, Create(r) PROVE PairInv'
  <2>1. SearchedCouples'
    BY <1>1 DEF Create, workerVars, SearchedCouples, ChosenCouple
  <2>2. ReservationHoldsLiveRequest'
    <3>1. /\ reqStatus[r] = "NONE" /\ active[Owner[r]] = NoRequest
          /\ reqStatus' = [reqStatus EXCEPT ![r] = "WAITING"]
          /\ active' = [active EXCEPT ![Owner[r]] = r]
      BY <1>1 DEF Create
    <3>2. Owner \in [Requests -> Users] /\ NoRequest \notin Requests
      BY MatchingAssumption
    <3>3. ASSUME NEW s \in Requests
          PROVE  reqStatus'[s] \in LiveStatus <=> active'[Owner[s]] = s
      <4>1. CASE s = r
        <5>1. reqStatus'[s] = "WAITING" /\ active'[Owner[s]] = s
          BY <3>1, <3>2, <4>1
        <5> QED BY <5>1 DEF LiveStatus
      <4>2. CASE s # r /\ Owner[s] = Owner[r]
        <5>1. reqStatus'[s] = reqStatus[s] /\ active'[Owner[s]] = r
          BY <3>1, <3>2, <4>2
        <5> QED BY <3>1, <3>2, <4>2, <5>1 DEF ReservationHoldsLiveRequest
      <4>3. CASE Owner[s] # Owner[r]
        <5>1. reqStatus'[s] = reqStatus[s] /\ active'[Owner[s]] = active[Owner[s]]
          BY <3>1, <3>2, <4>3
        <5> QED BY <5>1 DEF ReservationHoldsLiveRequest
      <4> QED BY <4>1, <4>2, <4>3
    <3>4. \A u \in Users : active'[u] # NoRequest => Owner[active'[u]] = u
      BY <3>1, <3>2 DEF ReservationHoldsLiveRequest
    <3> QED BY <3>3, <3>4 DEF ReservationHoldsLiveRequest
  <2>3. PairMirrorsRequests' /\ PairsAreDisjoint'
    BY <1>1 DEF Create, pairVars, PairMirrorsRequests, PairsAreDisjoint
  <2> QED BY <2>1, <2>2, <2>3
<1>2. ASSUME NEW r \in Requests, Update(r) PROVE PairInv'
  <2>1. SearchedCouples'
    BY <1>2 DEF Update, workerVars, SearchedCouples, ChosenCouple
  <2>2. reqStatus' = reqStatus
    BY <1>2 DEF Update, SeenWaiting
  <2> QED BY <1>2, <2>1, <2>2, QuietStep DEF Update, pairVars
<1>3. ASSUME NEW r \in Requests, CancelRequest(r) PROVE PairInv'
  <2>1. SearchedCouples'
    BY <1>3 DEF CancelRequest, workerVars, SearchedCouples, ChosenCouple
  <2>2. ReservationHoldsLiveRequest'
    <3>1. /\ active[Owner[r]] = r
          /\ reqStatus' = [reqStatus EXCEPT ![r] = "CANCELLED"]
          /\ active' = [u \in Users |-> IF u \in {Owner[r]} THEN NoRequest ELSE active[u]]
      BY <1>3 DEF CancelRequest, SeenWaiting, Freed
    <3>2. Owner \in [Requests -> Users] /\ NoRequest \notin Requests
      BY MatchingAssumption
    <3>3. \A s \in Requests : reqStatus'[s] \in LiveStatus <=> active'[Owner[s]] = s
      BY <3>1, <3>2 DEF ReservationHoldsLiveRequest, LiveStatus
    <3>4. \A u \in Users : active'[u] # NoRequest => Owner[active'[u]] = u
      BY <3>1, <3>2 DEF ReservationHoldsLiveRequest
    <3> QED BY <3>3, <3>4 DEF ReservationHoldsLiveRequest
  <2>3. PairMirrorsRequests' /\ PairsAreDisjoint'
    BY <1>3 DEF CancelRequest, SeenWaiting, pairVars, PairMirrorsRequests, PairsAreDisjoint
  <2> QED BY <2>1, <2>2, <2>3
<1>4. ASSUME NEW w \in Workers, NEW S \in SUBSET JobIds,
             RecoverStale(w, S) \/ Claim(w, S)
      PROVE  PairInv'
  BY <1>4, QuietStep
     DEF RecoverStale, Claim, requestVars, pairVars, workerVars, SearchedCouples,
         ChosenCouple
<1>5. ASSUME NEW w \in Workers, NEW j \in JobIds, DropForeign(w, j) PROVE PairInv'
  BY <1>5, QuietStep
     DEF DropForeign, requestVars, pairVars, SearchedCouples, ChosenCouple
<1>6. ASSUME NEW w \in Workers, NEW j \in JobIds, Search(w, j) PROVE PairInv'
  BY <1>6, SearchStep
<1>7. ASSUME NEW w \in Workers, CreatePair(w) PROVE PairInv'
  <2> DEFINE c == ChosenCouple(w)
  <2>1. c \in Couples
    BY <1>7 DEF CreatePair, ChecksPass, SearchedCouples
  <2>2. \A r \in c : reqStatus[r] = "WAITING"
    BY <1>7 DEF CreatePair, ChecksPass, Revalidated
  <2>3. /\ pairStatus' = [pairStatus EXCEPT ![c] = "PENDING_ACCEPTANCE"]
        /\ reqStatus' = [r \in Requests |-> IF r \in c THEN "MATCH_FOUND" ELSE reqStatus[r]]
        /\ active' = active
        /\ tx' = [tx EXCEPT ![w] = Idle]
    BY <1>7 DEF CreatePair
  <2> HIDE DEF c
  <2>4. \A d \in Couples : pairStatus[d] \in ActiveMatch => d \cap c = {}
    BY <2>2 DEF PairMirrorsRequests, ActiveMatch
  <2>5. SearchedCouples'
    BY <2>3 DEF SearchedCouples, ChosenCouple, Idle
  <2>6. ReservationHoldsLiveRequest'
    BY <2>2, <2>3 DEF ReservationHoldsLiveRequest, LiveStatus
  <2>7. PairMirrorsRequests'
    BY <2>1, <2>2, <2>3, <2>4 DEF PairMirrorsRequests, ActiveMatch
  <2>8. PairsAreDisjoint'
    BY <2>1, <2>3, <2>4 DEF PairsAreDisjoint, ActiveMatch
  <2> QED BY <2>5, <2>6, <2>7, <2>8
<1>8. ASSUME NEW w \in Workers,
             SkipPair(w) \/ InsertFails(w) \/ ProcessFault(w) \/ RecordFailure(w) \/ Crash(w)
      PROVE  PairInv'
  <2>1. \A v \in Workers : tx'[v] = tx[v] \/ tx'[v].stage # "searched"
    BY <1>8 DEF SkipPair, InsertFails, ProcessFault, RecordFailure, Crash, Idle, Transaction
  <2>2. SearchedCouples'
    BY <2>1 DEF SearchedCouples, ChosenCouple
  <2> QED BY <1>8, <2>2, QuietStep
          DEF SkipPair, InsertFails, ProcessFault, RecordFailure, Crash,
              requestVars, pairVars
<1>9. ASSUME NEW c \in Couples, NEW r \in c, AcceptFirst(c, r) PROVE PairInv'
  BY <1>9, QuietStep
     DEF AcceptFirst, requestVars, workerVars, SearchedCouples, ChosenCouple
<1>10. ASSUME NEW c \in Couples, NEW r \in c, AcceptLast(c, r) PROVE PairInv'
  <2>1. SearchedCouples'
    BY <1>10 DEF AcceptLast, workerVars, SearchedCouples, ChosenCouple
  <2>2. pairStatus[c] = "PENDING_ACCEPTANCE" /\ \A s \in c : reqStatus[s] = "MATCH_FOUND"
    BY <1>10 DEF AcceptLast, Respondable
  <2>3. /\ pairStatus' = [pairStatus EXCEPT ![c] = "CONFIRMED"]
        /\ reqStatus' = [s \in Requests |-> IF s \in c THEN "CONFIRMED" ELSE reqStatus[s]]
        /\ active' = active
    BY <1>10 DEF AcceptLast
  <2>4. ReservationHoldsLiveRequest'
    BY <2>2, <2>3 DEF ReservationHoldsLiveRequest, LiveStatus
  <2>5. PairMirrorsRequests'
    BY <2>2, <2>3 DEF PairMirrorsRequests, PairsAreDisjoint, ActiveMatch
  <2>6. PairsAreDisjoint'
    BY <2>2, <2>3 DEF PairsAreDisjoint, ActiveMatch
  <2> QED BY <2>1, <2>4, <2>5, <2>6
<1>11. ASSUME NEW c \in Couples, NEW r \in c, Reject(c, r) PROVE PairInv'
  <2>1. SearchedCouples'
    BY <1>11 DEF Reject, workerVars, SearchedCouples, ChosenCouple
  <2>2. pairStatus[c] = "PENDING_ACCEPTANCE" /\ \A s \in c : reqStatus[s] = "MATCH_FOUND"
    BY <1>11 DEF Reject, Respondable
  <2>3. /\ pairStatus' = [pairStatus EXCEPT ![c] = "REJECTED"]
        /\ reqStatus' = [s \in Requests |-> IF s = r THEN "REJECTED"
                                            ELSE IF s \in c THEN "WAITING"
                                            ELSE reqStatus[s]]
        /\ active' = [u \in Users |-> IF u \in {Owner[r]} THEN NoRequest ELSE active[u]]
    BY <1>11 DEF Reject, Freed
  <2>4. ReservationHoldsLiveRequest'
    BY <2>2, <2>3, MatchingAssumption DEF ReservationHoldsLiveRequest, LiveStatus
  <2>5. PairMirrorsRequests'
    BY <2>2, <2>3 DEF PairMirrorsRequests, PairsAreDisjoint, ActiveMatch
  <2>6. PairsAreDisjoint'
    BY <2>3 DEF PairsAreDisjoint, ActiveMatch
  <2> QED BY <2>1, <2>4, <2>5, <2>6
<1>12. ASSUME NEW c \in Couples, CancelPair(c) PROVE PairInv'
  <2>1. SearchedCouples'
    BY <1>12 DEF CancelPair, workerVars, SearchedCouples, ChosenCouple
  <2>2. pairStatus[c] = "CONFIRMED" /\ \A s \in c : reqStatus[s] = "CONFIRMED"
    BY <1>12 DEF CancelPair, PairMirrorsRequests
  <2>3. /\ pairStatus' = [pairStatus EXCEPT ![c] = "CANCELLED"]
        /\ reqStatus' = [s \in Requests |-> IF s \in c THEN "CANCELLED" ELSE reqStatus[s]]
        /\ active' = [u \in Users |-> IF u \in UsersOf(c) THEN NoRequest ELSE active[u]]
    BY <1>12 DEF CancelPair, Freed
  <2>4. ReservationHoldsLiveRequest'
    BY <2>2, <2>3, MatchingAssumption DEF ReservationHoldsLiveRequest, LiveStatus, UsersOf
  <2>5. PairMirrorsRequests'
    BY <2>2, <2>3 DEF PairMirrorsRequests, PairsAreDisjoint, ActiveMatch
  <2>6. PairsAreDisjoint'
    BY <2>3 DEF PairsAreDisjoint, ActiveMatch
  <2> QED BY <2>1, <2>4, <2>5, <2>6
<1>13. CASE SelectOverdue
  BY <1>13, QuietStep
     DEF SelectOverdue, requestVars, pairVars, workerVars, SearchedCouples, ChosenCouple
<1>14. CASE ExpireSelected
  <2> DEFINE back == {r \in UNION StillOverdue : reqStatus[r] = "MATCH_FOUND"}
  <2>1. SearchedCouples'
    BY <1>14 DEF ExpireSelected, workerVars, SearchedCouples, ChosenCouple
  <2>2. \A c \in StillOverdue : c \in Couples /\ pairStatus[c] = "PENDING_ACCEPTANCE"
    BY DEF StillOverdue, Overdue
  <2>3. /\ pairStatus' = [c \in Couples |-> IF c \in StillOverdue THEN "EXPIRED"
                                                                ELSE pairStatus[c]]
        /\ reqStatus' = [r \in Requests |-> IF r \in back THEN "WAITING" ELSE reqStatus[r]]
        /\ active' = active
    BY <1>14 DEF ExpireSelected
  <2>4. ReservationHoldsLiveRequest'
    BY <2>3 DEF ReservationHoldsLiveRequest, LiveStatus
  <2>5. PairMirrorsRequests'
    <3>1. \A d \in Couples \ StillOverdue : pairStatus[d] \in ActiveMatch =>
             \A r \in d : r \notin UNION StillOverdue
      BY <2>2 DEF PairsAreDisjoint, ActiveMatch
    <3>2. \A d \in Couples : pairStatus'[d] \in ActiveMatch =>
             d \notin StillOverdue /\ pairStatus'[d] = pairStatus[d]
      BY <2>3 DEF ActiveMatch
    <3>3. \A d \in Couples : pairStatus'[d] \in ActiveMatch =>
             \A r \in d : reqStatus'[r] = reqStatus[r]
      BY <2>3, <3>1, <3>2
    <3>4. \A r \in Requests : reqStatus'[r] \in {"MATCH_FOUND", "CONFIRMED"} =>
             /\ reqStatus'[r] = reqStatus[r]
             /\ reqStatus[r] = "MATCH_FOUND" => r \notin UNION StillOverdue
      BY <2>3
    <3>5. \A d \in Couples : \A r \in d :
             /\ pairStatus'[d] = "PENDING_ACCEPTANCE" => reqStatus'[r] = "MATCH_FOUND"
             /\ pairStatus'[d] = "CONFIRMED" => reqStatus'[r] = "CONFIRMED"
      BY <3>2, <3>3 DEF PairMirrorsRequests, ActiveMatch
    <3>6. ASSUME NEW r \in Requests, reqStatus'[r] = "MATCH_FOUND"
          PROVE  \E d \in Couples : r \in d /\ pairStatus'[d] = "PENDING_ACCEPTANCE"
      <4>1. PICK d \in Couples : r \in d /\ pairStatus[d] = "PENDING_ACCEPTANCE"
        BY <3>4, <3>6 DEF PairMirrorsRequests
      <4>2. d \notin StillOverdue
        BY <3>4, <3>6, <4>1
      <4> QED BY <2>3, <4>1, <4>2
    <3>7. ASSUME NEW r \in Requests, reqStatus'[r] = "CONFIRMED"
          PROVE  \E d \in Couples : r \in d /\ pairStatus'[d] = "CONFIRMED"
      <4>1. PICK d \in Couples : r \in d /\ pairStatus[d] = "CONFIRMED"
        BY <3>4, <3>7 DEF PairMirrorsRequests
      <4> QED BY <2>2, <2>3, <4>1
    <3> QED BY <3>5, <3>6, <3>7 DEF PairMirrorsRequests
  <2>6. PairsAreDisjoint'
    BY <2>3 DEF PairsAreDisjoint, ActiveMatch
  <2> QED BY <2>1, <2>4, <2>5, <2>6
<1>15. CASE CompleteFinished
  <2> DEFINE done == {c \in Couples : /\ pairStatus[c] = "CONFIRMED"
                                      /\ schedule[c].start + SessionDuration < clock}
             gone == UNION {UsersOf(c) : c \in done}
  <2>1. SearchedCouples'
    BY <1>15 DEF CompleteFinished, workerVars, SearchedCouples, ChosenCouple
  <2>2. \A c \in done : c \in Couples /\ pairStatus[c] = "CONFIRMED"
    OBVIOUS
  <2>3. /\ pairStatus' = [c \in Couples |-> IF c \in done THEN "COMPLETED" ELSE pairStatus[c]]
        /\ reqStatus' = [r \in Requests |-> IF r \in UNION done THEN "COMPLETED"
                                                                ELSE reqStatus[r]]
        /\ active' = [u \in Users |-> IF u \in gone THEN NoRequest ELSE active[u]]
        /\ \A r \in UNION done : reqStatus[r] = "CONFIRMED"
    BY <1>15 DEF CompleteFinished, Freed
  <2>4. \A u \in gone : \E r \in UNION done : Owner[r] = u
    BY DEF UsersOf
  <2>5. \A r \in UNION done : Owner[r] \in gone
    BY DEF UsersOf
  <2> HIDE DEF done, gone
  <2>6. ReservationHoldsLiveRequest'
    <3>1. Owner \in [Requests -> Users] /\ NoRequest \notin Requests
      BY MatchingAssumption
    <3>2. \A r \in UNION done : r \in Requests
      BY <2>2
    <3>3. ASSUME NEW r \in Requests, Owner[r] \in gone, active[Owner[r]] = r
          PROVE  r \in UNION done
      <4>1. PICK s \in UNION done : Owner[s] = Owner[r]
        BY <2>4, <3>3
      <4>2. reqStatus[s] \in LiveStatus
        BY <2>3 DEF LiveStatus
      <4>3. active[Owner[s]] = s
        BY <3>2, <4>2 DEF ReservationHoldsLiveRequest
      <4> QED BY <3>3, <4>1, <4>3
    <3>4. \A r \in Requests : reqStatus'[r] \in LiveStatus <=> active'[Owner[r]] = r
      BY <2>3, <2>5, <3>1, <3>3 DEF ReservationHoldsLiveRequest, LiveStatus
    <3>5. \A u \in Users : active'[u] # NoRequest => Owner[active'[u]] = u
      BY <2>3, <3>1 DEF ReservationHoldsLiveRequest
    <3> QED BY <3>4, <3>5 DEF ReservationHoldsLiveRequest
  <2>7. PairMirrorsRequests'
    <3>1. \A d \in Couples : pairStatus'[d] \in ActiveMatch =>
             /\ pairStatus'[d] = pairStatus[d]
             /\ d \notin done
             /\ \A r \in d : r \notin UNION done
      BY <2>2, <2>3 DEF PairsAreDisjoint, ActiveMatch
    <3>2. \A d \in Couples : \A r \in d :
             /\ pairStatus'[d] = "PENDING_ACCEPTANCE" => reqStatus'[r] = "MATCH_FOUND"
             /\ pairStatus'[d] = "CONFIRMED" => reqStatus'[r] = "CONFIRMED"
      BY <2>3, <3>1 DEF PairMirrorsRequests, ActiveMatch
    <3>3. \A r \in Requests : reqStatus'[r] \in {"MATCH_FOUND", "CONFIRMED"} =>
             reqStatus'[r] = reqStatus[r] /\ r \notin UNION done
      BY <2>3
    <3>4. \A r \in Requests : \A d \in Couples : r \in d /\ r \notin UNION done =>
             pairStatus'[d] = pairStatus[d]
      BY <2>3
    <3>5. ASSUME NEW r \in Requests, reqStatus'[r] = "MATCH_FOUND"
          PROVE  \E d \in Couples : r \in d /\ pairStatus'[d] = "PENDING_ACCEPTANCE"
      <4>1. PICK d \in Couples : r \in d /\ pairStatus[d] = "PENDING_ACCEPTANCE"
        BY <3>3, <3>5 DEF PairMirrorsRequests
      <4> QED BY <3>3, <3>4, <3>5, <4>1
    <3>6. ASSUME NEW r \in Requests, reqStatus'[r] = "CONFIRMED"
          PROVE  \E d \in Couples : r \in d /\ pairStatus'[d] = "CONFIRMED"
      <4>1. PICK d \in Couples : r \in d /\ pairStatus[d] = "CONFIRMED"
        BY <3>3, <3>6 DEF PairMirrorsRequests
      <4> QED BY <3>3, <3>4, <3>6, <4>1
    <3> QED BY <3>2, <3>5, <3>6 DEF PairMirrorsRequests
  <2>8. PairsAreDisjoint'
    BY <2>3 DEF PairsAreDisjoint, ActiveMatch
  <2> QED BY <2>1, <2>6, <2>7, <2>8
<1>16. CASE (\E couple \in MayBlock : Block(couple)) \/ (\E u \in MayRestrict : Restrict(u))
             \/ Tick
  BY <1>16, QuietStep
     DEF Block, Restrict, Tick, requestVars, pairVars, workerVars, SearchedCouples,
         ChosenCouple
<1>17. CASE UNCHANGED vars
  BY <1>17, QuietStep
     DEF vars, requestVars, pairVars, workerVars, SearchedCouples, ChosenCouple
<1> QED BY <1>1, <1>2, <1>3, <1>4, <1>5, <1>6, <1>7, <1>8, <1>9, <1>10, <1>11,
           <1>12, <1>13, <1>14, <1>15, <1>16, <1>17 DEF Next

\* With current reads, no user is ever in two matches, a reservation names
\* exactly the live request of its user, and pairs and requests move together
\* (MatchCreationService, MatchResultService, the cancellation and expiry).
THEOREM PairsAndRequestsAgree ==
    ASSUME StaleReads = FALSE
    PROVE  Spec => [](OneActiveMatchPerUser /\ ReservationHoldsLiveRequest /\ PairMirrorsRequests)
<1>1. Init => TypeInv /\ PairInv
  BY InitType, InitPairs
<1>2. TypeInv /\ PairInv /\ [Next]_vars => (TypeInv /\ PairInv)'
  BY NextType, NextPairs DEF TypeInv
<1>3. TypeInv /\ PairInv =>
        OneActiveMatchPerUser /\ ReservationHoldsLiveRequest /\ PairMirrorsRequests
  BY DisjointPairsSeparateUsers DEF TypeInv, PairInv
<1> QED BY <1>1, <1>2, <1>3, PTL DEF Spec
-----------------------------------------------------------------------------
(* The answers and the pair.  A proposed pair always has somebody who has  *)
(* not answered: the last of the two to accept confirms it in the same     *)
(* step, so expiry never finds two acceptances.                            *)

LEMMA NextAnswers ==
    ASSUME StaleReads = FALSE, TypeOK, PairInv, AnswersDecidePair, [Next]_vars
    PROVE  AnswersDecidePair'
<1> USE CouplesAreRequests
<1> USE DEF AnswersDecidePair
<1>1. CASE UNCHANGED <<pairStatus, answer, rooms>>
  BY <1>1
<1>2. ASSUME NEW r \in Requests, Create(r) \/ Update(r) \/ CancelRequest(r)
      PROVE  AnswersDecidePair'
  BY <1>1, <1>2 DEF Create, Update, CancelRequest, pairVars
<1>3. ASSUME NEW w \in Workers, NEW S \in SUBSET JobIds, RecoverStale(w, S) \/ Claim(w, S)
      PROVE  AnswersDecidePair'
  BY <1>1, <1>3 DEF RecoverStale, Claim, pairVars
<1>4. ASSUME NEW w \in Workers, NEW j \in JobIds, DropForeign(w, j) \/ Search(w, j)
      PROVE  AnswersDecidePair'
  BY <1>1, <1>4 DEF DropForeign, Search, pairVars
<1>5. ASSUME NEW w \in Workers, CreatePair(w) PROVE AnswersDecidePair'
  <2> DEFINE c == ChosenCouple(w)
  <2>1. c \in Couples
    BY <1>5 DEF CreatePair, ChecksPass, PairInv, SearchedCouples, TypeOK
  <2>2. /\ pairStatus' = [pairStatus EXCEPT ![c] = "PENDING_ACCEPTANCE"]
        /\ answer' = [answer EXCEPT ![c] = [r \in Requests |-> "PENDING"]]
        /\ rooms' = rooms
    BY <1>5 DEF CreatePair
  <2> HIDE DEF c
  <2> QED BY <2>1, <2>2 DEF TypeOK
<1>6. ASSUME NEW w \in Workers,
             SkipPair(w) \/ InsertFails(w) \/ ProcessFault(w) \/ RecordFailure(w) \/ Crash(w)
      PROVE  AnswersDecidePair'
  BY <1>1, <1>6 DEF SkipPair, InsertFails, ProcessFault, RecordFailure, Crash, pairVars
<1>7. ASSUME NEW c \in Couples, NEW r \in c, AcceptFirst(c, r) PROVE AnswersDecidePair'
  <2>1. /\ pairStatus[c] = "PENDING_ACCEPTANCE"
        /\ answer' = [answer EXCEPT ![c][r] = "ACCEPTED"]
        /\ UNCHANGED <<pairStatus, rooms>>
    BY <1>7 DEF AcceptFirst, Respondable
  <2>2. PICK s \in c \ {r} : answer[c][s] # "ACCEPTED"
    BY <1>7 DEF AcceptFirst, AllOthersAccepted
  <2>3. answer[c][s] = "PENDING"
    BY <2>1, <2>2 DEF TypeOK, ResponseStatus
  <2>4. answer'[c][s] = "PENDING" /\ \A x \in c : answer'[c][x] # "REJECTED"
    BY <2>1, <2>2, <2>3 DEF TypeOK
  <2>5. \A d \in Couples \ {c} : answer'[d] = answer[d]
    BY <2>1 DEF TypeOK
  <2> QED BY <2>1, <2>2, <2>4, <2>5
<1>8. ASSUME NEW c \in Couples, NEW r \in c, AcceptLast(c, r) PROVE AnswersDecidePair'
  <2>1. /\ pairStatus' = [pairStatus EXCEPT ![c] = "CONFIRMED"]
        /\ answer' = [answer EXCEPT ![c][r] = "ACCEPTED"]
        /\ rooms' = rooms \cup {c}
    BY <1>8 DEF AcceptLast
  <2>2. \A s \in c : answer'[c][s] = "ACCEPTED"
    BY <1>8, <2>1 DEF AcceptLast, AllOthersAccepted, TypeOK
  <2>3. \A d \in Couples \ {c} : answer'[d] = answer[d] /\ pairStatus'[d] = pairStatus[d]
    BY <2>1 DEF TypeOK
  <2>4. pairStatus'[c] = "CONFIRMED"
    BY <2>1 DEF TypeOK
  <2> QED BY <2>1, <2>2, <2>3, <2>4
<1>9. ASSUME NEW c \in Couples, NEW r \in c, Reject(c, r) PROVE AnswersDecidePair'
  <2>1. /\ pairStatus' = [pairStatus EXCEPT ![c] = "REJECTED"]
        /\ answer' = [answer EXCEPT ![c][r] = "REJECTED"]
        /\ rooms' = rooms
    BY <1>9 DEF Reject
  <2>2. answer'[c][r] = "REJECTED" /\ pairStatus'[c] = "REJECTED"
    BY <2>1 DEF TypeOK
  <2>3. \A d \in Couples \ {c} : answer'[d] = answer[d] /\ pairStatus'[d] = pairStatus[d]
    BY <2>1 DEF TypeOK
  <2> QED BY <2>1, <2>2, <2>3
<1>10. ASSUME NEW c \in Couples, CancelPair(c) PROVE AnswersDecidePair'
  BY <1>10 DEF CancelPair, TypeOK
<1>11. CASE SelectOverdue
  BY <1>1, <1>11 DEF SelectOverdue, pairVars
<1>12. CASE ExpireSelected
  <2>1. \A c \in StillOverdue : pairStatus[c] = "PENDING_ACCEPTANCE"
    BY DEF StillOverdue
  <2>2. /\ pairStatus' = [c \in Couples |-> IF c \in StillOverdue THEN "EXPIRED"
                                                                ELSE pairStatus[c]]
        /\ UNCHANGED <<answer, rooms>>
    BY <1>12 DEF ExpireSelected
  <2> QED BY <2>1, <2>2
<1>13. CASE CompleteFinished
  <2> DEFINE done == {c \in Couples : /\ pairStatus[c] = "CONFIRMED"
                                      /\ schedule[c].start + SessionDuration < clock}
  <2>1. \A c \in done : pairStatus[c] = "CONFIRMED"
    OBVIOUS
  <2>2. /\ pairStatus' = [c \in Couples |-> IF c \in done THEN "COMPLETED" ELSE pairStatus[c]]
        /\ UNCHANGED <<answer, rooms>>
    BY <1>13 DEF CompleteFinished
  <2> HIDE DEF done
  <2> QED BY <2>1, <2>2
<1>14. CASE (\E couple \in MayBlock : Block(couple)) \/ (\E u \in MayRestrict : Restrict(u))
             \/ Tick
  BY <1>1, <1>14 DEF Block, Restrict, Tick, pairVars
<1>15. CASE UNCHANGED vars
  BY <1>1, <1>15 DEF vars, pairVars
<1> QED BY <1>2, <1>3, <1>4, <1>5, <1>6, <1>7, <1>8, <1>9, <1>10, <1>11, <1>12,
           <1>13, <1>14, <1>15 DEF Next

LEMMA InitAnswers == Init => AnswersDecidePair
BY CouplesAreRequests DEF Init, AnswersDecidePair

\* With current reads the four tables tell one story between any two
\* transactions: a reservation names the live request of its user, requests
\* move with their pair, and the pair is what its two answers decided.
THEOREM TablesAgree ==
    ASSUME StaleReads = FALSE
    PROVE  Spec => []BookkeepingAgrees
<1> DEFINE Inv == TypeInv /\ PairInv /\ AnswersDecidePair
<1>1. Init => Inv
  BY InitType, InitPairs, InitAnswers
<1>2. Inv /\ [Next]_vars => Inv'
  BY NextType, NextPairs, NextAnswers DEF TypeInv
<1>3. Inv => BookkeepingAgrees
  BY DEF PairInv, BookkeepingAgrees
<1> QED BY <1>1, <1>2, <1>3, PTL DEF Spec

-----------------------------------------------------------------------------
(* The job queue.  A worker in a search holds the lock of a job that is    *)
(* its own, so whoever else changes job rows, recovering, claiming or      *)
(* enqueueing, changes others; and a wake-up adds a row only to a request  *)
(* that has none, at its first place.                                      *)

WorkersJob == \A w \in Workers : tx[w].stage # "idle" => tx[w].job \in JobIds

QueueInv == WorkersJob /\ LockHolderOwnsJob /\ OneActiveJobPerRequest

LEMMA InitQueue == Init => QueueInv
BY DEF Init, QueueInv, WorkersJob, LockHolderOwnsJob, OneActiveJobPerRequest, Idle, ActiveJob

\* A step that activates no job and leaves every worker's search and the rows
\* the searches own as they are.
LEMMA JobsStep ==
    ASSUME QueueInv, WorkersJob',
           \A w \in Workers : tx'[w].stage = "searched" => IsOwnedBy(tx[w].job, w)',
           \A j \in JobIds : job'[j].status \in ActiveJob => job[j].status \in ActiveJob
    PROVE  QueueInv'
BY DEF QueueInv, LockHolderOwnsJob, OneActiveJobPerRequest

\* enqueue gives a request its first row, and only when it has none.
LEMMA EnqueueStep ==
    ASSUME StaleReads = FALSE, QueueInv, NEW R, Enqueue(R), UNCHANGED tx
    PROVE  QueueInv'
<1> DEFINE missing == {r \in R : ~HasActiveJob(r)}
           fresh == {j \in JobIds : j[1] \in missing /\ IsNextRow(j)}
<1>1. job' = [j \in JobIds |->
                IF j \in fresh
                THEN [status |-> "PENDING", attempts |-> 0, worker |-> NoWorker]
                ELSE job[j]]
  BY DEF Enqueue, MissingJobs
<1>2. \A j \in JobIds : j[2] \in 1..MaxJobs /\ j = <<j[1], j[2]>>
  BY DEF JobIds
<1>3. \A j \in fresh : job[j].status \notin ActiveJob
  BY DEF IsNextRow
<1>4. \A j \in fresh : j[2] = 1
  <2> SUFFICES ASSUME NEW j \in fresh, j[2] # 1 PROVE FALSE
    OBVIOUS
  <2>1. 1 \in 1..MaxJobs /\ 1 < j[2]
    BY <1>2, MatchingAssumption
  <2>2. job[<<j[1], 1>>].status \in ActiveJob
    BY <2>1 DEF IsNextRow
  <2> QED BY <2>1, <2>2 DEF HasActiveJob
<1>5. \A i \in fresh, j \in JobIds : i[1] = j[1] => job[j].status \notin ActiveJob
  BY <1>2 DEF HasActiveJob
<1> HIDE DEF missing, fresh
<1>6. ASSUME NEW i \in JobIds, NEW j \in JobIds, i[1] = j[1],
             job'[i].status \in ActiveJob, job'[j].status \in ActiveJob
      PROVE  i = j
  <2>1. CASE i \in fresh /\ j \in fresh
    BY <1>2, <1>4, <1>6, <2>1
  <2>2. CASE i \in fresh /\ j \notin fresh
    BY <1>1, <1>5, <1>6, <2>2
  <2>3. CASE i \notin fresh /\ j \in fresh
    BY <1>1, <1>5, <1>6, <2>3
  <2>4. CASE i \notin fresh /\ j \notin fresh
    BY <1>1, <1>6, <2>4 DEF QueueInv, OneActiveJobPerRequest
  <2> QED BY <2>1, <2>2, <2>3, <2>4
<1>7. LockHolderOwnsJob'
  <2> SUFFICES ASSUME NEW w \in Workers, tx[w].stage = "searched"
               PROVE  IsOwnedBy(tx[w].job, w)'
    BY DEF LockHolderOwnsJob
  <2>1. tx[w].job \in JobIds /\ IsOwnedBy(tx[w].job, w)
    BY DEF QueueInv, WorkersJob, LockHolderOwnsJob
  <2>2. tx[w].job \notin fresh
    BY <1>3, <2>1 DEF IsOwnedBy, ActiveJob
  <2> QED BY <1>1, <2>1, <2>2 DEF IsOwnedBy
<1>8. WorkersJob'
  BY DEF QueueInv, WorkersJob
<1> QED BY <1>6, <1>7, <1>8 DEF QueueInv, OneActiveJobPerRequest

LEMMA NextQueue ==
    ASSUME StaleReads = FALSE, TypeOK, QueueInv, [Next]_vars
    PROVE  QueueInv'
<1>1. CASE UNCHANGED <<job, tx>>
  BY <1>1 DEF QueueInv, WorkersJob, LockHolderOwnsJob, OneActiveJobPerRequest, IsOwnedBy
<1>2. ASSUME NEW r \in Requests, Create(r) \/ Update(r) PROVE QueueInv'
  BY <1>2, EnqueueStep DEF Create, Update, workerVars
<1>3. ASSUME NEW r \in Requests, CancelRequest(r) PROVE QueueInv'
  BY <1>1, <1>3 DEF CancelRequest, workerVars
<1>4. ASSUME NEW w \in Workers, NEW S \in SUBSET JobIds, RecoverStale(w, S) PROVE QueueInv'
  <2>1. /\ \A j \in S : job[j].status = "PROCESSING" /\ ~Locked(j)
        /\ job' = [j \in JobIds |-> IF j \in S THEN Retried(j) ELSE job[j]]
        /\ tx' = tx
    BY <1>4 DEF RecoverStale, workerVars
  <2>2. \A v \in Workers : tx[v].stage = "searched" =>
           tx[v].job \in JobIds /\ IsOwnedBy(tx[v].job, v) /\ tx[v].job \notin S
    BY <2>1 DEF QueueInv, WorkersJob, LockHolderOwnsJob, Locked
  <2>3. \A v \in Workers : tx'[v].stage = "searched" => IsOwnedBy(tx[v].job, v)'
    BY <2>1, <2>2 DEF IsOwnedBy
  <2>4. WorkersJob'
    BY <2>1 DEF QueueInv, WorkersJob
  <2>5. \A j \in JobIds : job'[j].status \in ActiveJob => job[j].status \in ActiveJob
    BY <2>1 DEF ActiveJob
  <2> QED BY <2>3, <2>4, <2>5, JobsStep
<1>5. ASSUME NEW w \in Workers, NEW S \in SUBSET JobIds, Claim(w, S) PROVE QueueInv'
  <2>1. /\ \A j \in S : job[j].status = "PENDING"
        /\ \A j \in JobIds \ S : job'[j] = job[j]
        /\ tx' = tx
    BY <1>5 DEF Claim
  <2>2. \A v \in Workers : tx[v].stage = "searched" =>
           tx[v].job \in JobIds /\ IsOwnedBy(tx[v].job, v) /\ tx[v].job \notin S
    BY <2>1 DEF QueueInv, WorkersJob, LockHolderOwnsJob, IsOwnedBy
  <2>3. \A v \in Workers : tx'[v].stage = "searched" => IsOwnedBy(tx[v].job, v)'
    BY <2>1, <2>2 DEF IsOwnedBy
  <2>4. WorkersJob'
    BY <2>1 DEF QueueInv, WorkersJob
  <2>5. \A j \in JobIds : job'[j].status \in ActiveJob => job[j].status \in ActiveJob
    BY <2>1 DEF ActiveJob
  <2> QED BY <2>3, <2>4, <2>5, JobsStep
<1>6. ASSUME NEW w \in Workers, NEW j \in JobIds, DropForeign(w, j) PROVE QueueInv'
  BY <1>1, <1>6 DEF DropForeign
<1>7. ASSUME NEW w \in Workers, NEW j \in JobIds, Search(w, j) PROVE QueueInv'
  <2>1. IsOwnedBy(j, w) /\ job' = job
    BY <1>7 DEF Search
  <2>2. \A v \in Workers \ {w} : tx'[v] = tx[v]
    BY <1>7 DEF Search, TypeOK
  <2>3. tx'[w].job = j
    BY <1>7 DEF Search, Searched, TypeOK
  <2>4. \A v \in Workers : tx'[v].stage = "searched" => IsOwnedBy(tx[v].job, v)'
    BY <2>1, <2>2, <2>3 DEF IsOwnedBy, QueueInv, LockHolderOwnsJob
  <2>5. WorkersJob'
    BY <2>2, <2>3 DEF QueueInv, WorkersJob
  <2> QED BY <2>1, <2>4, <2>5, JobsStep
<1>8. ASSUME NEW w \in Workers, CreatePair(w) \/ SkipPair(w) PROVE QueueInv'
  <2>1. /\ tx[w].stage = "searched"
        /\ job' = [job EXCEPT ![tx[w].job] = Finished("COMPLETED")]
        /\ tx' = [tx EXCEPT ![w] = Idle]
    BY <1>8 DEF CreatePair, SkipPair
  <2>2. tx'[w].stage = "idle" /\ \A v \in Workers \ {w} : tx'[v] = tx[v]
    BY <2>1 DEF TypeOK, Idle
  <2>3. \A v \in Workers \ {w} : tx[v].stage = "searched" =>
           tx[v].job \in JobIds /\ IsOwnedBy(tx[v].job, v) /\ tx[v].job # tx[w].job
    BY <2>1 DEF QueueInv, WorkersJob, LockHolderOwnsJob, IsOwnedBy
  <2>4. \A v \in Workers : tx'[v].stage = "searched" => IsOwnedBy(tx[v].job, v)'
    BY <2>1, <2>2, <2>3 DEF IsOwnedBy, TypeOK
  <2>5. WorkersJob'
    BY <2>2 DEF QueueInv, WorkersJob
  <2>6. \A j \in JobIds : job'[j].status \in ActiveJob => job[j].status \in ActiveJob
    BY <2>1 DEF Finished, ActiveJob, TypeOK
  <2> QED BY <2>4, <2>5, <2>6, JobsStep
<1>9. ASSUME NEW w \in Workers, InsertFails(w) \/ ProcessFault(w) \/ Crash(w) PROVE QueueInv'
  <2>1. job' = job /\ \A v \in Workers : \/ tx'[v] = tx[v]
                                         \/ tx'[v].stage = "failing" /\ tx'[v].job = tx[v].job
                                                /\ tx[v].stage = "searched"
                                         \/ tx'[v].stage = "idle"
    BY <1>9 DEF InsertFails, ProcessFault, Crash, Idle, TypeOK, Transaction
  <2>2. WorkersJob'
    BY <2>1 DEF QueueInv, WorkersJob
  <2>3. \A v \in Workers : tx'[v].stage = "searched" => IsOwnedBy(tx[v].job, v)'
    BY <2>1 DEF IsOwnedBy, QueueInv, LockHolderOwnsJob
  <2> QED BY <2>1, <2>2, <2>3, JobsStep
<1>10. ASSUME NEW w \in Workers, RecordFailure(w) PROVE QueueInv'
  <2>1. /\ tx[w].stage = "failing"
        /\ tx' = [tx EXCEPT ![w] = Idle]
        /\ \/ IsOwnedBy(tx[w].job, w)
              /\ job' = [job EXCEPT ![tx[w].job] = Retried(tx[w].job)]
           \/ job' = job
    BY <1>10 DEF RecordFailure
  <2>2. tx'[w].stage = "idle" /\ \A v \in Workers \ {w} : tx'[v] = tx[v]
    BY <2>1 DEF TypeOK, Idle
  <2>3. \A v \in Workers \ {w} : tx[v].stage = "searched" =>
           tx[v].job \in JobIds /\ IsOwnedBy(tx[v].job, v) /\ job'[tx[v].job] = job[tx[v].job]
    BY <2>1 DEF QueueInv, WorkersJob, LockHolderOwnsJob, IsOwnedBy, TypeOK
  <2>4. \A v \in Workers : tx'[v].stage = "searched" => IsOwnedBy(tx[v].job, v)'
    BY <2>2, <2>3 DEF IsOwnedBy
  <2>5. WorkersJob'
    BY <2>2 DEF QueueInv, WorkersJob
  <2>6. \A j \in JobIds : job'[j].status \in ActiveJob => job[j].status \in ActiveJob
    BY <2>1 DEF IsOwnedBy, ActiveJob, TypeOK
  <2> QED BY <2>4, <2>5, <2>6, JobsStep
<1>11. ASSUME NEW c \in Couples, NEW r \in c, AcceptFirst(c, r) \/ AcceptLast(c, r)
       PROVE  QueueInv'
  BY <1>1, <1>11 DEF AcceptFirst, AcceptLast, workerVars
<1>12. ASSUME NEW c \in Couples, NEW r \in c, Reject(c, r) PROVE QueueInv'
  BY <1>12, EnqueueStep DEF Reject, workerVars
<1>13. ASSUME NEW c \in Couples, CancelPair(c) PROVE QueueInv'
  BY <1>1, <1>13 DEF CancelPair, workerVars
<1>14. CASE ExpireSelected
  BY <1>14, EnqueueStep DEF ExpireSelected, workerVars
<1>15. CASE SelectOverdue \/ CompleteFinished \/ Tick
            \/ (\E couple \in MayBlock : Block(couple)) \/ (\E u \in MayRestrict : Restrict(u))
  BY <1>1, <1>15 DEF SelectOverdue, CompleteFinished, Tick, Block, Restrict, workerVars
<1>16. CASE UNCHANGED vars
  BY <1>1, <1>16 DEF vars, workerVars
<1> QED BY <1>2, <1>3, <1>4, <1>5, <1>6, <1>7, <1>8, <1>9, <1>10, <1>11, <1>12,
           <1>13, <1>14, <1>15, <1>16 DEF Next

\* With current reads a request never has two jobs in the queue and no job is
\* ever taken from the worker that is searching for it (MatchJobService,
\* MatchJobRecoveryService).
THEOREM QueueStaysExclusive ==
    ASSUME StaleReads = FALSE
    PROVE  Spec => []QueueIsExclusive
<1>1. Init => TypeInv /\ QueueInv
  BY InitType, InitQueue
<1>2. TypeInv /\ QueueInv /\ [Next]_vars => (TypeInv /\ QueueInv)'
  BY NextType, NextQueue DEF TypeInv
<1>3. TypeInv /\ QueueInv => QueueIsExclusive
  BY DEF QueueInv, QueueIsExclusive
<1> QED BY <1>1, <1>2, <1>3, PTL DEF Spec
-----------------------------------------------------------------------------
(* The ledger.  With the tables in agreement the seats of a user are the   *)
(* active couples the user belongs to: the ledger moves exactly when a     *)
(* pair changes its status.                                                *)

ActiveCouplesOf(u) == {c \in Couples : u \in UsersOf(c) /\ pairStatus[c] \in ActiveMatch}

SeatsAreActiveCouples == \A u \in Users : SeatOf(u) = ActiveCouplesOf(u)

LEMMA SeatsFollowPairs == PairInv => SeatsAreActiveCouples
<1> SUFFICES ASSUME PairInv, NEW u \in Users, NEW c \in Couples, pairStatus[c] \in ActiveMatch
             PROVE  /\ active[u] \in c /\ reqStatus[active[u]] \in {"MATCH_FOUND", "CONFIRMED"}
                         => u \in UsersOf(c)
                    /\ u \in UsersOf(c)
                         => active[u] \in c /\ reqStatus[active[u]] \in {"MATCH_FOUND", "CONFIRMED"}
  BY DEF SeatsAreActiveCouples, SeatOf, ActiveCouplesOf
<1>1. ASSUME active[u] \in c PROVE u \in UsersOf(c)
  <2>1. active[u] # NoRequest
    BY <1>1, CouplesAreRequests, MatchingAssumption
  <2>2. Owner[active[u]] = u
    BY <2>1 DEF PairInv, ReservationHoldsLiveRequest
  <2> QED BY <1>1, <2>2 DEF UsersOf
<1>2. ASSUME u \in UsersOf(c)
      PROVE  active[u] \in c /\ reqStatus[active[u]] \in {"MATCH_FOUND", "CONFIRMED"}
  <2>1. PICK r \in c : Owner[r] = u
    BY <1>2 DEF UsersOf
  <2>2. r \in Requests
    BY CouplesAreRequests
  <2>3. reqStatus[r] \in {"MATCH_FOUND", "CONFIRMED"}
    BY DEF PairInv, PairMirrorsRequests, ActiveMatch
  <2>4. active[Owner[r]] = r
    BY <2>2, <2>3 DEF PairInv, ReservationHoldsLiveRequest, LiveStatus
  <2> QED BY <2>1, <2>3, <2>4
<1> QED BY <1>1, <1>2

MembersOf == [c \in Couples |-> UsersOf(c)]
Stages == [c \in Couples |-> StageOf(c)]
Seats == [u \in Users |-> SeatOf(u)]

LEMMA SeatValues ==
    ASSUME SeatsAreActiveCouples, NEW u \in Users
    PROVE  Seats[u] = ActiveCouplesOf(u)
BY DEF Seats, SeatsAreActiveCouples

LEMMA StageValues ==
    ASSUME NEW c \in Couples
    PROVE  /\ pairStatus[c] = "NONE" => Stages[c] = "free"
           /\ pairStatus[c] = "PENDING_ACCEPTANCE" => Stages[c] = "proposed"
           /\ pairStatus[c] = "CONFIRMED" => Stages[c] = "confirmed"
           /\ pairStatus[c] \in PairStatus \ (ActiveMatch \cup {"NONE"}) => Stages[c] = "closed"
BY DEF Stages, StageOf, PairStatus, ActiveMatch

LEMMA InitLedger ==
    ASSUME Init PROVE Ledger!Init
<1>1. \A c \in Couples : pairStatus[c] = "NONE"
  BY DEF Init
<1>2. Stages = [c \in Couples |-> "free"]
  BY <1>1, StageValues DEF Stages
<1>3. \A u \in Users : SeatOf(u) = {}
  BY <1>1 DEF SeatOf, ActiveMatch
<1> QED BY <1>2, <1>3 DEF Ledger!Init, Stages

\* No pair moves, the ledger stands still.
LEMMA LedgerStandsStill ==
    ASSUME SeatsAreActiveCouples, SeatsAreActiveCouples', UNCHANGED pairStatus
    PROVE  UNCHANGED Ledger!vars
<1>1. \A c \in Couples : StageOf(c)' = StageOf(c)
  BY DEF StageOf
<1>2. \A u \in Users : SeatOf(u)' = SeatOf(u)
  BY DEF SeatsAreActiveCouples, ActiveCouplesOf
<1> QED BY <1>1, <1>2 DEF Ledger!vars

\* A step that moves active couples to a closed status closes them at once.
LEMMA LedgerCloses ==
    ASSUME TypeOK, SeatsAreActiveCouples, SeatsAreActiveCouples',
           NEW S \in SUBSET Couples, \A c \in S : pairStatus[c] \in ActiveMatch,
           NEW closed \in PairStatus \ (ActiveMatch \cup {"NONE"}),
           pairStatus' = [c \in Couples |-> IF c \in S THEN closed ELSE pairStatus[c]]
    PROVE  [Ledger!Next]_(Ledger!vars)
<1>1. CASE S = {}
  <2>1. pairStatus' = pairStatus
    BY <1>1 DEF TypeOK
  <2> QED BY <2>1, LedgerStandsStill
<1>2. CASE S # {}
  <2>1. \A c \in S : Stages[c] \in {"proposed", "confirmed"}
    BY StageValues DEF ActiveMatch
  <2>2. \A c \in Couples : StageOf(c)' = IF c \in S THEN "closed" ELSE StageOf(c)
    BY DEF StageOf, PairStatus, ActiveMatch
  <2>3. \A u \in Users : SeatOf(u)' = SeatOf(u) \ S
    <3> SUFFICES ASSUME NEW u \in Users PROVE ActiveCouplesOf(u)' = ActiveCouplesOf(u) \ S
      BY DEF SeatsAreActiveCouples
    <3> QED BY DEF ActiveCouplesOf
  <2>4. Stages' = [c \in Couples |-> IF c \in S THEN "closed" ELSE Stages[c]]
    BY <2>2 DEF Stages
  <2>5. Seats' = [u \in Users |-> Seats[u] \ S]
    BY <2>3 DEF Seats
  <2>6. Ledger!Close(S)
    BY <1>2, <2>1, <2>4, <2>5 DEF Ledger!Close, Ledger!Open, Stages, Seats
  <2> QED BY <2>6 DEF Ledger!Next
<1> QED BY <1>1, <1>2

LEMMA NextLedger ==
    ASSUME StaleReads = FALSE, TypeOK, PairInv, PairInv', [Next]_vars
    PROVE  [Ledger!Next]_(Ledger!vars)
<1>0. SeatsAreActiveCouples /\ SeatsAreActiveCouples'
  BY SeatsFollowPairs, PTL
<1>1. CASE UNCHANGED pairStatus
  BY <1>0, <1>1, LedgerStandsStill
<1>2. ASSUME NEW r \in Requests, Create(r) \/ Update(r) \/ CancelRequest(r)
      PROVE  UNCHANGED pairStatus
  BY <1>2 DEF Create, Update, CancelRequest, pairVars
<1>3. ASSUME NEW w \in Workers, NEW S \in SUBSET JobIds, RecoverStale(w, S) \/ Claim(w, S)
      PROVE  UNCHANGED pairStatus
  BY <1>3 DEF RecoverStale, Claim, pairVars
<1>4. ASSUME NEW w \in Workers, NEW j \in JobIds, DropForeign(w, j) \/ Search(w, j)
      PROVE  UNCHANGED pairStatus
  BY <1>4 DEF DropForeign, Search, pairVars
<1>5. ASSUME NEW w \in Workers, CreatePair(w) PROVE [Ledger!Next]_(Ledger!vars)
  <2> DEFINE c == ChosenCouple(w)
  <2>1. c \in Couples
    BY <1>5 DEF CreatePair, ChecksPass, PairInv, SearchedCouples, TypeOK
  <2>2. /\ pairStatus[c] = "NONE"
        /\ pairStatus' = [pairStatus EXCEPT ![c] = "PENDING_ACCEPTANCE"]
        /\ \A r \in c : ~HasActiveMatch(Owner[r])
    BY <1>5 DEF CreatePair, ChecksPass, Revalidated
  <2> HIDE DEF c
  <2>3. \A u \in UsersOf(c) : u \in Users /\ ActiveCouplesOf(u) = {}
    BY <2>1, <2>2, CouplesAreRequests, MatchingAssumption
       DEF UsersOf, HasActiveMatch, ActiveCouplesOf
  <2>4. \A u \in Users : SeatOf(u)' = IF u \in UsersOf(c) THEN {c} ELSE SeatOf(u)
    <3> SUFFICES ASSUME NEW u \in Users
                 PROVE  ActiveCouplesOf(u)' = IF u \in UsersOf(c) THEN {c} ELSE ActiveCouplesOf(u)
      BY <1>0 DEF SeatsAreActiveCouples
    <3>1. \A d \in Couples : pairStatus'[d] \in ActiveMatch <=> d = c \/ pairStatus[d] \in ActiveMatch
      BY <2>1, <2>2 DEF TypeOK, ActiveMatch
    <3>2. ActiveCouplesOf(u)' = {d \in Couples : u \in UsersOf(d) /\ pairStatus'[d] \in ActiveMatch}
      BY DEF ActiveCouplesOf, UsersOf
    <3>3. CASE u \in UsersOf(c)
      BY <2>1, <2>3, <3>1, <3>2, <3>3 DEF ActiveCouplesOf
    <3>4. CASE u \notin UsersOf(c)
      BY <3>1, <3>2, <3>4 DEF ActiveCouplesOf
    <3> QED BY <3>3, <3>4
  <2>5. \A d \in Couples : StageOf(d)' = IF d = c THEN "proposed" ELSE StageOf(d)
    BY <2>1, <2>2 DEF StageOf, TypeOK
  <2>6. Stages[c] = "free" /\ Stages' = [Stages EXCEPT ![c] = "proposed"]
    BY <2>1, <2>2, <2>5, StageValues DEF Stages
  <2>7. Seats' = [u \in Users |-> IF u \in UsersOf(c) THEN {c} ELSE Seats[u]]
    BY <2>4 DEF Seats
  <2>8. \A u \in UsersOf(c) : Seats[u] = {}
    BY <1>0, <2>3, SeatValues
  <2>9. MembersOf[c] = UsersOf(c)
    BY <2>1 DEF MembersOf
  <2>10. Ledger!Propose(c)
    BY <2>6, <2>7, <2>8, <2>9 DEF Ledger!Propose, Stages, Seats, MembersOf
  <2> QED BY <2>1, <2>10 DEF Ledger!Next
<1>6. ASSUME NEW w \in Workers,
             SkipPair(w) \/ InsertFails(w) \/ ProcessFault(w) \/ RecordFailure(w) \/ Crash(w)
      PROVE  UNCHANGED pairStatus
  BY <1>6 DEF SkipPair, InsertFails, ProcessFault, RecordFailure, Crash, pairVars
<1>7. ASSUME NEW c \in Couples, NEW r \in c, AcceptFirst(c, r) PROVE UNCHANGED pairStatus
  BY <1>7 DEF AcceptFirst
<1>8. ASSUME NEW c \in Couples, NEW r \in c, AcceptLast(c, r)
      PROVE  [Ledger!Next]_(Ledger!vars)
  <2>1. /\ pairStatus[c] = "PENDING_ACCEPTANCE"
        /\ pairStatus' = [pairStatus EXCEPT ![c] = "CONFIRMED"]
    BY <1>8 DEF AcceptLast, Respondable
  <2>2. \A u \in Users : SeatOf(u)' = SeatOf(u)
    <3>1. \A d \in Couples : pairStatus'[d] \in ActiveMatch <=> pairStatus[d] \in ActiveMatch
      BY <2>1 DEF TypeOK, ActiveMatch
    <3> QED BY <1>0, <3>1 DEF SeatsAreActiveCouples, ActiveCouplesOf, UsersOf
  <2>3. \A d \in Couples : StageOf(d)' = IF d = c THEN "confirmed" ELSE StageOf(d)
    BY <2>1 DEF StageOf, TypeOK
  <2>4. Stages[c] = "proposed" /\ Stages' = [Stages EXCEPT ![c] = "confirmed"]
    BY <2>1, <2>3, StageValues DEF Stages
  <2>5. Seats' = Seats
    BY <2>2 DEF Seats
  <2>6. Ledger!Confirm(c)
    BY <2>4, <2>5 DEF Ledger!Confirm, Stages, Seats
  <2> QED BY <2>6 DEF Ledger!Next
<1>9. ASSUME NEW c \in Couples, NEW r \in c, Reject(c, r) PROVE [Ledger!Next]_(Ledger!vars)
  <2>1. /\ pairStatus[c] \in ActiveMatch
        /\ pairStatus' = [d \in Couples |-> IF d \in {c} THEN "REJECTED" ELSE pairStatus[d]]
    BY <1>9 DEF Reject, Respondable, ActiveMatch, TypeOK
  <2>2. "REJECTED" \in PairStatus \ (ActiveMatch \cup {"NONE"})
    BY DEF PairStatus, ActiveMatch
  <2> QED BY <1>0, <2>1, <2>2, LedgerCloses
<1>10. ASSUME NEW c \in Couples, CancelPair(c) PROVE [Ledger!Next]_(Ledger!vars)
  <2>1. /\ pairStatus[c] \in ActiveMatch
        /\ pairStatus' = [d \in Couples |-> IF d \in {c} THEN "CANCELLED" ELSE pairStatus[d]]
    BY <1>10 DEF CancelPair, ActiveMatch, TypeOK
  <2>2. "CANCELLED" \in PairStatus \ (ActiveMatch \cup {"NONE"})
    BY DEF PairStatus, ActiveMatch
  <2> QED BY <1>0, <2>1, <2>2, LedgerCloses
<1>11. CASE ExpireSelected
  <2>1. /\ StillOverdue \in SUBSET Couples
        /\ \A c \in StillOverdue : pairStatus[c] \in ActiveMatch
    BY DEF StillOverdue, ActiveMatch, TypeOK, Overdue
  <2>2. pairStatus' = [c \in Couples |-> IF c \in StillOverdue THEN "EXPIRED" ELSE pairStatus[c]]
    BY <1>11 DEF ExpireSelected
  <2>3. "EXPIRED" \in PairStatus \ (ActiveMatch \cup {"NONE"})
    BY DEF PairStatus, ActiveMatch
  <2> QED BY <1>0, <2>1, <2>2, <2>3, LedgerCloses
<1>12. CASE CompleteFinished
  <2> DEFINE done == {c \in Couples : /\ pairStatus[c] = "CONFIRMED"
                                      /\ schedule[c].start + SessionDuration < clock}
  <2>1. done \in SUBSET Couples /\ \A c \in done : pairStatus[c] \in ActiveMatch
    BY DEF ActiveMatch
  <2>2. pairStatus' = [c \in Couples |-> IF c \in done THEN "COMPLETED" ELSE pairStatus[c]]
    BY <1>12 DEF CompleteFinished
  <2>3. "COMPLETED" \in PairStatus \ (ActiveMatch \cup {"NONE"})
    BY DEF PairStatus, ActiveMatch
  <2> HIDE DEF done
  <2> QED BY <1>0, <2>1, <2>2, <2>3, LedgerCloses
<1>13. CASE SelectOverdue \/ Tick \/ (\E couple \in MayBlock : Block(couple))
            \/ (\E u \in MayRestrict : Restrict(u)) \/ UNCHANGED vars
  BY <1>1, <1>13 DEF SelectOverdue, Tick, Block, Restrict, vars, pairVars
<1> QED BY <1>1, <1>2, <1>3, <1>4, <1>5, <1>6, <1>7, <1>8, <1>9, <1>10, <1>11, <1>12,
           <1>13 DEF Next

\* With current reads the three tables implement the ledger: a couple is
\* proposed at most once and only to free users, and the step that closes a
\* pair frees both of them (MatchCreationService, MatchResultService,
\* MatchCancellationService and the two schedulers).
THEOREM LedgerIsImplemented ==
    ASSUME StaleReads = FALSE
    PROVE  Spec => ImplementsLedger
<1>1. Init => TypeInv /\ PairInv /\ Ledger!Init
  BY InitType, InitPairs, InitLedger
<1>2. TypeInv /\ PairInv /\ [Next]_vars => (TypeInv /\ PairInv)'
  BY NextType, NextPairs DEF TypeInv
<1>3. TypeInv /\ PairInv /\ PairInv' /\ [Next]_vars => [Ledger!Next]_(Ledger!vars)
  BY NextLedger DEF TypeInv
<1> QED BY <1>1, <1>2, <1>3, PTL DEF Spec, ImplementsLedger, Ledger!Spec

-----------------------------------------------------------------------------
(* What a proposal is checked against.                                     *)

\* Only the second half of a search proposes a pair, and only the couple it chose.
LEMMA OnlySearchesPropose ==
    ASSUME TypeOK, [Next]_vars, NEW c \in Couples,
           pairStatus'[c] # pairStatus[c], pairStatus'[c] = "PENDING_ACCEPTANCE"
    PROVE  \E w \in Workers : CreatePair(w) /\ c = ChosenCouple(w)
<1> SUFFICES ASSUME pairStatus' # pairStatus
             PROVE  \E w \in Workers : CreatePair(w) /\ c = ChosenCouple(w)
  OBVIOUS
<1>1. ASSUME NEW r \in Requests, Create(r) \/ Update(r) \/ CancelRequest(r) PROVE FALSE
  BY <1>1 DEF Create, Update, CancelRequest, pairVars
<1>2. ASSUME NEW w \in Workers, NEW S \in SUBSET JobIds, RecoverStale(w, S) \/ Claim(w, S)
      PROVE  FALSE
  BY <1>2 DEF RecoverStale, Claim, pairVars
<1>3. ASSUME NEW w \in Workers, NEW j \in JobIds, DropForeign(w, j) \/ Search(w, j)
      PROVE  FALSE
  BY <1>3 DEF DropForeign, Search, pairVars
<1>4. ASSUME NEW w \in Workers,
             SkipPair(w) \/ InsertFails(w) \/ ProcessFault(w) \/ RecordFailure(w) \/ Crash(w)
      PROVE  FALSE
  BY <1>4 DEF SkipPair, InsertFails, ProcessFault, RecordFailure, Crash, pairVars
<1>5. ASSUME NEW w \in Workers, CreatePair(w) PROVE c = ChosenCouple(w)
  BY <1>5 DEF CreatePair, TypeOK
<1>6. ASSUME NEW d \in Couples, NEW r \in d, AcceptFirst(d, r) PROVE FALSE
  BY <1>6 DEF AcceptFirst
<1>7. ASSUME NEW d \in Couples, NEW r, AcceptLast(d, r) \/ Reject(d, r) \/ CancelPair(d)
      PROVE  FALSE
  <2>1. \/ pairStatus' = [pairStatus EXCEPT ![d] = "CONFIRMED"]
        \/ pairStatus' = [pairStatus EXCEPT ![d] = "REJECTED"]
        \/ pairStatus' = [pairStatus EXCEPT ![d] = "CANCELLED"]
    BY <1>7 DEF AcceptLast, Reject, CancelPair
  <2> QED BY <2>1 DEF TypeOK
<1>8. CASE SelectOverdue
  BY <1>8 DEF SelectOverdue, pairVars
<1>9. CASE ExpireSelected
  BY <1>9 DEF ExpireSelected
<1>10. CASE CompleteFinished
  BY <1>10 DEF CompleteFinished
<1>11. ASSUME NEW couple \in MayBlock, Block(couple) PROVE FALSE
  BY <1>11 DEF Block, pairVars
<1>12. ASSUME NEW u \in MayRestrict, Restrict(u) PROVE FALSE
  BY <1>12 DEF Restrict, pairVars
<1>13. CASE Tick \/ UNCHANGED vars
  BY <1>13 DEF Tick, vars, pairVars
<1> QED BY <1>1, <1>2, <1>3, <1>4, <1>5, <1>6, <1>7, <1>8, <1>9, <1>10, <1>11, <1>12,
           <1>13 DEF Next

\* The couple was chosen from rows read without a lock, but with current reads the
\* checks under the locks see what everybody else has done since: a pair is proposed
\* only to two waiting users who have not blocked each other, still fit each other's
\* conditions and are not kept apart by a recent match (ProposalsRespectConstraints).
THEOREM ProposalsAreChecked ==
    ASSUME StaleReads = FALSE
    PROVE  Spec => ProposalsRespectConstraints
<1> DEFINE Checked(c) == /\ UsersOf(c) \notin blocked
                         /\ Eligible(c)
                         /\ \A r \in c : reqStatus[r] = "WAITING"
                         /\ ~InCooldown(c, schedule'[c].matchedAt)
<1>1. ASSUME TypeOK, NEW c \in Couples, NEW w \in Workers, CreatePair(w), c = ChosenCouple(w)
      PROVE  Checked(c)
  <2>1. Revalidated(c, tx[w].at)
    BY <1>1 DEF CreatePair, ChecksPass
  <2>2. schedule'[c].matchedAt = tx[w].at
    BY <1>1 DEF CreatePair, TypeOK
  <2> QED BY <2>1, <2>2 DEF Revalidated
<1>2. TypeOK /\ [Next]_vars =>
        [\A c \in Couples :
            pairStatus[c] # pairStatus'[c] /\ pairStatus'[c] = "PENDING_ACCEPTANCE" => Checked(c)]_vars
  BY <1>1, OnlySearchesPropose
<1> QED BY <1>2, TypeCorrect, PTL DEF Spec, ProposalsRespectConstraints
=============================================================================
