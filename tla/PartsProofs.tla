---------------------------- MODULE PartsProofs -----------------------------
(***************************************************************************)
(* Proofs about the parts of the system that share no state.  Every part   *)
(* has an invariant of its own, which its steps keep and the steps of the  *)
(* others do not touch; what holds of the parts together follows.          *)
(***************************************************************************)
EXTENDS Parts, SequenceTheorems, FiniteSetTheorems, WellFoundedInduction, TLAPS

----------------------------------------------------------------------------
(* Reminders: for any number of server processes and any number of attempts *)
(* a reminder is told once, and never when the end of the match found its  *)
(* job waiting.                                                            *)

ReminderSpec == ReminderInit /\ [][ReminderNext]_reminderVars

\* The dispatcher holds the row of the job in its hand.
Holds(d) == desk[d].at \in {"LOCKED", "CREATED"}

\* The rows of the table: what was called off stays so, what is completed was told,
\* and what may still be claimed has an attempt left.
RowsFit ==
  \A k \in ReminderKinds :
    /\ k \notin spared => jobs[k].status = "CANCELLED"
    /\ jobs[k].status = "COMPLETED" => reminded[k] > 0
    /\ jobs[k].status \in {"NONE", "PENDING"} => jobs[k].attempts < ReminderLimit

\* The desks: a held row is in processing, each by one dispatcher, and told once the
\* notification is created.
DesksFit ==
  /\ \A d \in Dispatchers :
       /\ desk[d].at # "FREE" => desk[d].hand \in ReminderKinds
       /\ Holds(d) => jobs[desk[d].hand].status = "PROCESSING"
       /\ desk[d].at = "CREATED" => reminded[desk[d].hand] > 0
  /\ \A d, e \in Dispatchers :
       Holds(d) /\ Holds(e) /\ desk[d].hand = desk[e].hand => d = e

RemindersInv == ReminderTypeOK /\ RowsFit /\ DesksFit

----------------------------------------------------------------------------
(* What a job and a desk are. *)

JobRecord == [status : JobStatuses, attempts : 0..ReminderLimit,
              by : Dispatchers \cup {Vacant, Gone}]
DeskRecord == [list : SUBSET ReminderKinds, hand : ReminderKinds \cup {Vacant},
               at : {"FREE", "LOCKED", "CREATED", "THROWN"}]

LEMMA LimitPositive == ReminderLimit \in Nat /\ ReminderLimit > 0
  BY ReminderAssumption

\* A job that is given back is a job, and has an attempt left or is given up.
LEMMA ReturnedFits ==
  ASSUME NEW job \in JobRecord
  PROVE  /\ Returned(job) \in JobRecord
         /\ Returned(job).status \in {"PENDING", "FAILED"}
         /\ Returned(job).status = "PENDING" => Returned(job).attempts < ReminderLimit
<1>1. job.attempts \in 0..ReminderLimit /\ job.status \in JobStatuses
      /\ job.by \in Dispatchers \cup {Vacant, Gone}
  BY DEF JobRecord
<1>2. CASE job.attempts >= ReminderLimit
  <2>1. Returned(job) = [job EXCEPT !.status = "FAILED"]
    BY <1>2 DEF Returned
  <2> QED BY <2>1, <1>1 DEF JobRecord, JobStatuses
<1>3. CASE ~(job.attempts >= ReminderLimit)
  <2>1. Returned(job) = [job EXCEPT !.status = "PENDING", !.by = Vacant]
    BY <1>3 DEF Returned
  <2>2. job.attempts < ReminderLimit
    BY <1>1, <1>3, LimitPositive
  <2> QED BY <2>1, <2>2, <1>1 DEF JobRecord, JobStatuses
<1> QED BY <1>2, <1>3

----------------------------------------------------------------------------
(* Every step keeps the invariant. *)

LEMMA InitFits == ReminderInit => RemindersInv
<1> SUFFICES ASSUME ReminderInit PROVE RemindersInv
  OBVIOUS
<1> USE DEF ReminderInit, NoReminder, FreeDesk
<1>1. ReminderTypeOK
  BY LimitPositive DEF ReminderTypeOK, JobStatuses
<1>2. RowsFit
  BY LimitPositive DEF RowsFit
<1>3. DesksFit
  BY DEF DesksFit, Holds
<1> QED BY <1>1, <1>2, <1>3 DEF RemindersInv

\* A match that moves on leaves jobs and desks alone.
LEMMA CoupleFits ==
  ASSUME RemindersInv, CoupleConfirmed \/ CoupleEnds
  PROVE  RemindersInv'
<1> USE DEF RemindersInv, CoupleConfirmed, CoupleEnds
<1>1. ReminderTypeOK'
  BY DEF ReminderTypeOK
<1>2. RowsFit'
  BY DEF RowsFit
<1>3. DesksFit'
  BY DEF DesksFit, Holds
<1> QED BY <1>1, <1>2, <1>3

\* A listener touches jobs that wait or do not exist yet.
LEMMA HearFits ==
  ASSUME RemindersInv, NEW event \in hearing, Hear(event)
  PROVE  RemindersInv'
<1> USE DEF RemindersInv
<1>1. PICK cancels \in {CancelledBy(event), {}}, writes \in {WrittenBy(event), {}} :
        /\ jobs' = Scheduled(CancelledOf(cancels), writes)
        /\ spared' = IF event = "OVER" /\ cancels # {}
                     THEN spared \ Waiting(ReminderKinds) ELSE spared
  BY DEF Hear
<1>2. UNCHANGED <<couple, desk, reminded>> /\ hearing' = hearing \ {event}
  BY DEF Hear
<1>3. jobs \in [ReminderKinds -> JobRecord]
  BY DEF ReminderTypeOK, JobRecord
<1>4. cancels \subseteq ReminderKinds /\ writes \subseteq ReminderKinds
  BY DEF CancelledBy, WrittenBy, ReminderKinds
<1>5. ASSUME NEW k \in ReminderKinds
      PROVE  /\ jobs'[k] \in JobRecord
             /\ jobs'[k].attempts = jobs[k].attempts
             /\ \/ jobs'[k] = jobs[k] /\ ~(k \in cancels /\ jobs[k].status = "PENDING")
                \/ /\ jobs[k].status = "PENDING" /\ k \in cancels
                   /\ jobs'[k].status = "CANCELLED"
                \/ jobs[k].status = "NONE" /\ jobs'[k].status = "PENDING"
  BY <1>1, <1>3, <1>4 DEF Scheduled, CancelledOf, Waiting, JobRecord, JobStatuses
<1>6. jobs' \in [ReminderKinds -> JobRecord]
  <2>1. DOMAIN jobs' = ReminderKinds /\ jobs' = [k \in ReminderKinds |-> jobs'[k]]
    BY <1>1 DEF Scheduled
  <2> QED BY <2>1, <1>5
<1>7. event = "OVER" /\ cancels # {} => cancels = ReminderKinds
  BY DEF CancelledBy
<1>8. ReminderTypeOK'
  BY <1>1, <1>2, <1>6 DEF ReminderTypeOK, JobRecord
<1>9. RowsFit'
  <2> SUFFICES ASSUME NEW k \in ReminderKinds
               PROVE  /\ k \notin spared' => jobs'[k].status = "CANCELLED"
                      /\ jobs'[k].status = "COMPLETED" => reminded'[k] > 0
                      /\ jobs'[k].status \in {"NONE", "PENDING"} =>
                           jobs'[k].attempts < ReminderLimit
    BY DEF RowsFit
  <2>1. k \notin spared' => jobs'[k].status = "CANCELLED"
    BY <1>1, <1>5, <1>7 DEF RowsFit, Waiting
  <2>2. jobs'[k].status = "COMPLETED" => reminded'[k] > 0
    BY <1>2, <1>5 DEF RowsFit
  <2>3. jobs'[k].status \in {"NONE", "PENDING"} => jobs'[k].attempts < ReminderLimit
    BY <1>5 DEF RowsFit
  <2> QED BY <2>1, <2>2, <2>3
<1>10. DesksFit'
  <2>1. \A k \in ReminderKinds : jobs[k].status = "PROCESSING" => jobs'[k].status = "PROCESSING"
    BY <1>5
  <2> QED BY <2>1, <1>2 DEF DesksFit, Holds
<1> QED BY <1>8, <1>9, <1>10

\* A stale job that nobody holds goes back, or is given up.
LEMMA RecoverFits ==
  ASSUME RemindersInv, NEW d \in Dispatchers, RecoverStale(d)
  PROVE  RemindersInv'
<1> USE DEF RemindersInv
<1>1. PICK overdue \in SUBSET {k \in ReminderKinds : jobs[k].status = "PROCESSING"} \ {{}} :
        /\ \A k \in overdue : ~Locked(k)
        /\ jobs' = [k \in ReminderKinds |-> IF k \in overdue THEN Returned(jobs[k]) ELSE jobs[k]]
  BY DEF RecoverStale
<1>2. UNCHANGED <<couple, hearing, desk, reminded, spared>>
  BY DEF RecoverStale
<1>3. jobs \in [ReminderKinds -> JobRecord]
  BY DEF ReminderTypeOK, JobRecord
<1>4. ASSUME NEW k \in overdue
      PROVE  /\ jobs'[k] \in JobRecord /\ jobs'[k].status \in {"PENDING", "FAILED"}
             /\ jobs'[k].status = "PENDING" => jobs'[k].attempts < ReminderLimit
  <2>1. k \in ReminderKinds /\ jobs[k].status = "PROCESSING" /\ jobs'[k] = Returned(jobs[k])
    BY <1>1
  <2> QED BY <2>1, <1>3, ReturnedFits
<1>5. \A j \in ReminderKinds \ overdue : jobs'[j] = jobs[j]
  BY <1>1
<1>6. ReminderTypeOK'
  <2>1. jobs' \in [ReminderKinds -> JobRecord]
    BY <1>1, <1>3, <1>4, <1>5
  <2> QED BY <2>1, <1>2 DEF ReminderTypeOK, JobRecord
<1>7. RowsFit'
  BY <1>1, <1>2, <1>4, <1>5 DEF RowsFit
<1>8. DesksFit'
  <2>1. \A e \in Dispatchers : Holds(e) => desk[e].hand \notin overdue
    BY <1>1 DEF Locked, Holds
  <2> QED BY <2>1, <1>2, <1>5 DEF DesksFit, Holds
<1> QED BY <1>6, <1>7, <1>8

\* Claimed jobs waited, and had an attempt left.
LEMMA ClaimFits ==
  ASSUME RemindersInv, NEW d \in Dispatchers, ClaimDue(d)
  PROVE  RemindersInv'
<1> USE DEF RemindersInv
<1>1. PICK due \in SUBSET Waiting(ReminderKinds) \ {{}} :
        /\ jobs' = [k \in ReminderKinds |->
             IF k \in due
             THEN [status |-> "PROCESSING", attempts |-> jobs[k].attempts + 1, by |-> d]
             ELSE jobs[k]]
        /\ desk' = [desk EXCEPT ![d].list = due]
  BY DEF ClaimDue
<1>2. UNCHANGED <<couple, hearing, reminded, spared>>
  BY DEF ClaimDue
<1>3. jobs \in [ReminderKinds -> JobRecord] /\ desk \in [Dispatchers -> DeskRecord]
  BY DEF ReminderTypeOK, JobRecord, DeskRecord
<1>4. ASSUME NEW k \in ReminderKinds, k \in due
      PROVE  /\ jobs[k].status = "PENDING" /\ jobs'[k].status = "PROCESSING"
             /\ jobs'[k] \in JobRecord
  <2>1. jobs[k].status = "PENDING" /\ jobs[k] \in JobRecord
    BY <1>3, <1>4 DEF Waiting
  <2>2. jobs[k].attempts \in 0..ReminderLimit /\ jobs[k].attempts < ReminderLimit
    BY <2>1 DEF RowsFit, JobRecord
  <2>3. jobs[k].attempts + 1 \in 0..ReminderLimit
    BY <2>2, LimitPositive
  <2>4. jobs'[k] = [status |-> "PROCESSING", attempts |-> jobs[k].attempts + 1, by |-> d]
    BY <1>1, <1>4
  <2> QED BY <2>1, <2>3, <2>4 DEF JobRecord, JobStatuses
<1>5. \A k \in ReminderKinds \ due : jobs'[k] = jobs[k]
  BY <1>1
<1>6. ReminderTypeOK'
  <2>1. jobs' \in [ReminderKinds -> JobRecord]
    <3>1. \A k \in ReminderKinds : jobs'[k] \in JobRecord
      BY <1>3, <1>4, <1>5
    <3>2. jobs' = [k \in ReminderKinds |-> jobs'[k]]
      BY <1>1
    <3> QED BY <3>1, <3>2
  <2>2. desk' \in [Dispatchers -> DeskRecord]
    BY <1>1, <1>3 DEF DeskRecord, Waiting
  <2> QED BY <2>1, <2>2, <1>2 DEF ReminderTypeOK, JobRecord, DeskRecord
<1>7. RowsFit'
  BY <1>2, <1>4, <1>5 DEF RowsFit
<1>8. DesksFit'
  <2>1. \A e \in Dispatchers : desk'[e].at = desk[e].at /\ desk'[e].hand = desk[e].hand
    BY <1>1, <1>3 DEF DeskRecord
  <2>2. \A k \in ReminderKinds : jobs[k].status = "PROCESSING" => jobs'[k].status = "PROCESSING"
    BY <1>4, <1>5
  <2> QED BY <2>1, <2>2, <1>2 DEF DesksFit, Holds
<1> QED BY <1>6, <1>7, <1>8

\* A desk takes a row that nobody holds and that is its own, or is refused.
LEMMA BeginFits ==
  ASSUME RemindersInv, NEW d \in Dispatchers, Begin(d)
  PROVE  RemindersInv'
<1> USE DEF RemindersInv
<1>1. PICK k \in desk[d].list :
        /\ ~Locked(k)
        /\ desk' = [desk EXCEPT ![d].hand = k,
                                ![d].at = IF Owned(d, k) THEN "LOCKED" ELSE "THROWN"]
  BY DEF Begin
<1>2. UNCHANGED <<couple, hearing, jobs, reminded, spared>>
  BY DEF Begin
<1>3. desk \in [Dispatchers -> DeskRecord] /\ k \in ReminderKinds
  BY <1>1 DEF ReminderTypeOK, DeskRecord
<1> DEFINE at == IF Owned(d, k) THEN "LOCKED" ELSE "THROWN"
           taken == [desk[d] EXCEPT !.hand = k, !.at = at]
<1>4. desk' = [desk EXCEPT ![d] = taken]
  BY <1>1, <1>3
<1>5. taken \in DeskRecord /\ taken.hand = k /\ taken.list = desk[d].list /\ taken.at = at
  <2>1. desk[d] \in DeskRecord /\ at \in {"LOCKED", "THROWN"}
    BY <1>3
  <2> HIDE DEF at
  <2> QED BY ONLY <2>1, <1>3 DEF DeskRecord
<1> HIDE DEF taken
<1>6. /\ desk'[d].hand = k /\ desk'[d].list = desk[d].list
      /\ desk'[d].at = IF Owned(d, k) THEN "LOCKED" ELSE "THROWN"
      /\ \A e \in Dispatchers \ {d} : desk'[e] = desk[e]
  <2>1. desk'[d] = taken /\ \A e \in Dispatchers \ {d} : desk'[e] = desk[e]
    BY ONLY <1>4, <1>3
  <2> QED BY ONLY <1>5, <2>1 DEF at
<1> HIDE DEF at
<1>7. ReminderTypeOK'
  <2>1. desk' \in [Dispatchers -> DeskRecord]
    BY ONLY <1>4, <1>5, <1>3
  <2> QED BY <2>1, <1>2 DEF ReminderTypeOK, DeskRecord
<1>8. RowsFit'
  BY <1>2 DEF RowsFit
<1>9. DesksFit'
  <2>1. \A e \in Dispatchers : Holds(e) => desk[e].hand # k
    BY <1>1 DEF Locked, Holds
  <2> QED BY <2>1, <1>2, <1>3, <1>6 DEF DesksFit, Holds, Owned
<1> QED BY <1>7, <1>8, <1>9

LEMMA CreateFits ==
  ASSUME RemindersInv, NEW d \in Dispatchers, CreateNotification(d)
  PROVE  RemindersInv'
<1> USE DEF RemindersInv
<1>1. /\ desk[d].at = "LOCKED" /\ desk' = [desk EXCEPT ![d].at = "CREATED"]
      /\ reminded' = [reminded EXCEPT ![desk[d].hand] = IF @ = 0 THEN 1 ELSE @]
      /\ UNCHANGED <<couple, hearing, jobs, spared>>
  BY DEF CreateNotification
<1>2. desk \in [Dispatchers -> DeskRecord] /\ reminded \in [ReminderKinds -> Nat]
  BY DEF ReminderTypeOK, DeskRecord
<1>3. /\ desk'[d].at = "CREATED" /\ desk'[d].hand = desk[d].hand
      /\ \A e \in Dispatchers \ {d} : desk'[e] = desk[e]
  BY <1>1, <1>2 DEF DeskRecord
<1>4. desk[d].hand \in ReminderKinds
  BY <1>1 DEF DesksFit
<1>5. /\ reminded' \in [ReminderKinds -> Nat] /\ reminded'[desk[d].hand] > 0
      /\ \A k \in ReminderKinds : reminded[k] > 0 => reminded'[k] > 0
  BY <1>1, <1>2, <1>4
<1>6. ReminderTypeOK'
  <2>1. desk' \in [Dispatchers -> DeskRecord]
    BY <1>1, <1>2 DEF DeskRecord
  <2> QED BY <2>1, <1>1, <1>5 DEF ReminderTypeOK, DeskRecord
<1>7. RowsFit'
  BY <1>1, <1>5 DEF RowsFit
<1>8. DesksFit'
  BY <1>1, <1>3, <1>4, <1>5 DEF DesksFit, Holds
<1> QED BY <1>6, <1>7, <1>8

LEMMA HandEmptiedFits ==
  ASSUME RemindersInv, NEW d \in Dispatchers
  PROVE  /\ HandEmptied(d) \in [Dispatchers -> DeskRecord]
         /\ HandEmptied(d)[d].at = "FREE"
         /\ \A e \in Dispatchers \ {d} : HandEmptied(d)[e] = desk[e]
<1>1. desk \in [Dispatchers -> DeskRecord]
  BY DEF RemindersInv, ReminderTypeOK, DeskRecord
<1> QED BY <1>1 DEF HandEmptied, DeskRecord

LEMMA CompleteFits ==
  ASSUME RemindersInv, NEW d \in Dispatchers, CompleteJob(d)
  PROVE  RemindersInv'
<1> USE DEF RemindersInv
<1> DEFINE k == desk[d].hand
<1>1. /\ desk[d].at = "CREATED" /\ desk' = HandEmptied(d)
      /\ jobs' = [jobs EXCEPT ![k].status = "COMPLETED"]
      /\ UNCHANGED <<couple, hearing, reminded, spared>>
  BY DEF CompleteJob
<1>2. /\ k \in ReminderKinds /\ Holds(d) /\ reminded[k] > 0
      /\ jobs[k].status = "PROCESSING" /\ jobs \in [ReminderKinds -> JobRecord]
  BY <1>1 DEF DesksFit, Holds, ReminderTypeOK, JobRecord
<1>3. /\ jobs'[k].status = "COMPLETED" /\ jobs' \in [ReminderKinds -> JobRecord]
      /\ \A j \in ReminderKinds \ {k} : jobs'[j] = jobs[j]
  BY <1>1, <1>2 DEF JobRecord, JobStatuses
<1>4. ReminderTypeOK'
  BY <1>1, <1>3, HandEmptiedFits DEF ReminderTypeOK, JobRecord, DeskRecord
<1>5. RowsFit'
  BY <1>1, <1>2, <1>3 DEF RowsFit
<1>6. DesksFit'
  <2>1. \A e \in Dispatchers \ {d} : Holds(e) => desk[e].hand # k
    BY <1>2 DEF DesksFit
  <2>2. desk'[d].at = "FREE" /\ \A e \in Dispatchers \ {d} : desk'[e] = desk[e]
    BY <1>1, HandEmptiedFits
  <2>3. ~Holds(d)' /\ \A e \in Dispatchers \ {d} : Holds(e)' = Holds(e)
    BY <2>2 DEF Holds
  <2>4. reminded' = reminded
    BY <1>1
  <2>5. \A e \in Dispatchers :
          /\ desk'[e].at # "FREE" => desk'[e].hand \in ReminderKinds
          /\ Holds(e)' => jobs'[desk'[e].hand].status = "PROCESSING"
          /\ desk'[e].at = "CREATED" => reminded'[desk'[e].hand] > 0
    BY <1>3, <2>1, <2>2, <2>3, <2>4 DEF DesksFit, Holds
  <2>6. \A e, f \in Dispatchers :
          Holds(e)' /\ Holds(f)' /\ desk'[e].hand = desk'[f].hand => e = f
    BY <2>2, <2>3 DEF DesksFit
  <2> QED BY <2>5, <2>6 DEF DesksFit
<1> QED BY <1>4, <1>5, <1>6

LEMMA ThrowsFits ==
  ASSUME RemindersInv, NEW d \in Dispatchers, Throws(d)
  PROVE  RemindersInv'
<1> USE DEF RemindersInv
<1>1. /\ Holds(d) /\ desk' = [desk EXCEPT ![d].at = "THROWN"]
      /\ UNCHANGED <<couple, hearing, jobs, reminded, spared>>
  BY DEF Throws, Holds
<1>2. desk \in [Dispatchers -> DeskRecord]
  BY DEF ReminderTypeOK, DeskRecord
<1>3. /\ desk' \in [Dispatchers -> DeskRecord]
      /\ desk'[d].at = "THROWN" /\ desk'[d].hand = desk[d].hand
      /\ \A e \in Dispatchers \ {d} : desk'[e] = desk[e]
  BY <1>1, <1>2 DEF DeskRecord
<1>4. ReminderTypeOK'
  BY <1>1, <1>3 DEF ReminderTypeOK, DeskRecord
<1>5. RowsFit'
  BY <1>1 DEF RowsFit
<1>6. DesksFit'
  BY <1>1, <1>3 DEF DesksFit, Holds
<1> QED BY <1>4, <1>5, <1>6

LEMMA RecordFits ==
  ASSUME RemindersInv, NEW d \in Dispatchers, RecordFailure(d)
  PROVE  RemindersInv'
<1> USE DEF RemindersInv
<1> DEFINE k == desk[d].hand
<1>1. /\ desk[d].at = "THROWN" /\ desk' = HandEmptied(d)
      /\ UNCHANGED <<couple, hearing, reminded, spared>>
      /\ \/ /\ ~Locked(k) /\ Owned(d, k)
            /\ jobs' = [jobs EXCEPT ![k] = Returned(@)]
         \/ UNCHANGED jobs
  BY DEF RecordFailure
<1>2. k \in ReminderKinds /\ jobs \in [ReminderKinds -> JobRecord]
  BY <1>1 DEF DesksFit, ReminderTypeOK, JobRecord
<1>3. CASE UNCHANGED jobs
  <2>1. ReminderTypeOK'
    BY <1>1, <1>3, HandEmptiedFits DEF ReminderTypeOK, DeskRecord
  <2>2. RowsFit'
    BY <1>1, <1>3 DEF RowsFit
  <2>3. DesksFit'
    BY <1>1, <1>3, HandEmptiedFits DEF DesksFit, Holds
  <2> QED BY <2>1, <2>2, <2>3
<1>4. CASE ~Locked(k) /\ Owned(d, k) /\ jobs' = [jobs EXCEPT ![k] = Returned(@)]
  <2>1. /\ jobs'[k] \in JobRecord /\ jobs'[k].status \in {"PENDING", "FAILED"}
        /\ jobs'[k].status = "PENDING" => jobs'[k].attempts < ReminderLimit
    BY <1>2, <1>4, ReturnedFits
  <2>2. /\ jobs' \in [ReminderKinds -> JobRecord]
        /\ \A j \in ReminderKinds \ {k} : jobs'[j] = jobs[j]
    BY <1>2, <1>4, <2>1
  <2>3. jobs[k].status = "PROCESSING" /\ \A e \in Dispatchers : Holds(e) => desk[e].hand # k
    BY <1>4 DEF Owned, Locked, Holds
  <2>4. ReminderTypeOK'
    BY <1>1, <2>2, HandEmptiedFits DEF ReminderTypeOK, JobRecord, DeskRecord
  <2>5. RowsFit'
    BY <1>1, <2>1, <2>2, <2>3 DEF RowsFit
  <2>6. DesksFit'
    BY <1>1, <2>2, <2>3, HandEmptiedFits DEF DesksFit, Holds
  <2> QED BY <2>4, <2>5, <2>6
<1> QED BY <1>1, <1>3, <1>4

\* A process that dies lets its row go; its jobs keep their status.
LEMMA DiesFits ==
  ASSUME RemindersInv, NEW d \in Dispatchers, DispatcherDies(d)
  PROVE  RemindersInv'
<1> USE DEF RemindersInv
<1>1. /\ desk' = [desk EXCEPT ![d] = FreeDesk]
      /\ jobs' = [k \in ReminderKinds |->
           IF Owned(d, k) THEN [jobs[k] EXCEPT !.by = Gone] ELSE jobs[k]]
      /\ UNCHANGED <<couple, hearing, reminded, spared>>
  BY DEF DispatcherDies
<1>2. jobs \in [ReminderKinds -> JobRecord] /\ desk \in [Dispatchers -> DeskRecord]
  BY DEF ReminderTypeOK, JobRecord, DeskRecord
<1>3. \A k \in ReminderKinds :
        /\ jobs'[k] \in JobRecord /\ jobs'[k].status = jobs[k].status
        /\ jobs'[k].attempts = jobs[k].attempts
  BY <1>1, <1>2 DEF JobRecord
<1>4. jobs' \in [ReminderKinds -> JobRecord]
  <2>1. jobs' = [k \in ReminderKinds |-> jobs'[k]]
    BY <1>1
  <2> QED BY <2>1, <1>3
<1>5. /\ desk' \in [Dispatchers -> DeskRecord] /\ desk'[d].at = "FREE"
      /\ \A e \in Dispatchers \ {d} : desk'[e] = desk[e]
  BY <1>1, <1>2 DEF FreeDesk, DeskRecord
<1>6. ReminderTypeOK'
  BY <1>1, <1>4, <1>5 DEF ReminderTypeOK, JobRecord, DeskRecord
<1>7. RowsFit'
  BY <1>1, <1>3 DEF RowsFit
<1>8. DesksFit'
  BY <1>1, <1>3, <1>5 DEF DesksFit, Holds
<1> QED BY <1>6, <1>7, <1>8

LEMMA StepFits ==
  ASSUME RemindersInv, [ReminderNext]_reminderVars
  PROVE  RemindersInv'
<1>1. CASE UNCHANGED reminderVars
  BY <1>1 DEF reminderVars, RemindersInv, ReminderTypeOK, RowsFit, DesksFit, Holds
<1>2. CASE CoupleConfirmed \/ CoupleEnds
  BY <1>2, CoupleFits
<1>3. CASE \E event \in hearing : Hear(event)
  BY <1>3, HearFits
<1>4. ASSUME NEW d \in Dispatchers, Dispatches(d) \/ DispatcherDies(d)
      PROVE  RemindersInv'
  BY <1>4, RecoverFits, ClaimFits, BeginFits, CreateFits, CompleteFits, ThrowsFits,
     RecordFits, DiesFits DEF Dispatches
<1> QED BY <1>1, <1>2, <1>3, <1>4 DEF ReminderNext

----------------------------------------------------------------------------
(* The theorems. *)

\* The jobs' records are what the table holds, their attempts within the limit, with
\* any number of server processes.
THEOREM RemindersTyped == ReminderSpec => []ReminderTypeOK
<1>1. RemindersInv => ReminderTypeOK
  BY DEF RemindersInv
<1> QED BY <1>1, InitFits, StepFits, PTL DEF ReminderSpec

RemindsOnce(k) ==
  /\ reminded'[k] # reminded[k] => reminded[k] = 0 /\ k \in spared
  /\ jobs'[k].status = "COMPLETED" => reminded'[k] > 0

LEMMA RemindersTell ==
  ASSUME RemindersInv, RemindersInv', ReminderNext \/ UNCHANGED reminderVars
  PROVE  [\A k \in ReminderKinds : RemindsOnce(k)]_reminderVars
<1>1. ASSUME RemindersInv, RemindersInv', ReminderNext, NEW k \in ReminderKinds
      PROVE  RemindsOnce(k)
  <2>1. jobs'[k].status = "COMPLETED" => reminded'[k] > 0
    BY <1>1 DEF RemindersInv, RowsFit
  <2>2. CASE UNCHANGED reminded
    BY <2>1, <2>2 DEF RemindsOnce
  <2>3. ASSUME NEW d \in Dispatchers, CreateNotification(d)
        PROVE  RemindsOnce(k)
    <3>1. /\ desk[d].at = "LOCKED"
          /\ reminded' = [reminded EXCEPT ![desk[d].hand] = IF @ = 0 THEN 1 ELSE @]
      BY <2>3 DEF CreateNotification
    <3>2. desk[d].hand \in ReminderKinds /\ jobs[desk[d].hand].status = "PROCESSING"
      BY <1>1, <3>1 DEF RemindersInv, DesksFit, Holds
    <3>3. desk[d].hand \in spared
      BY <1>1, <3>2 DEF RemindersInv, RowsFit
    <3>4. reminded \in [ReminderKinds -> Nat]
      BY <1>1 DEF RemindersInv, ReminderTypeOK
    <3> QED BY <2>1, <3>1, <3>3, <3>4 DEF RemindsOnce
  <2>4. UNCHANGED reminded \/ \E d \in Dispatchers : CreateNotification(d)
    BY <1>1 DEF ReminderNext, CoupleConfirmed, CoupleEnds, Hear, Dispatches, RecoverStale,
       ClaimDue, Begin, CompleteJob, Throws, RecordFailure, DispatcherDies
  <2> QED BY <2>2, <2>3, <2>4
<1> QED BY <1>1

\* Through crashes, failures and jobs recovered under a slow process no reminder is
\* told twice or after the end of the match found its job waiting, and a completed job
\* was told.
THEOREM RemindersTellOnce == ReminderSpec => TellsOnce
<1>1. RemindersInv /\ RemindersInv' /\ [ReminderNext]_reminderVars =>
        [\A k \in ReminderKinds : RemindsOnce(k)]_reminderVars
  BY RemindersTell
<1>2. RemindersInv /\ RemindersInv' /\ [ReminderNext]_reminderVars =>
        [\A k \in ReminderKinds :
           /\ reminded'[k] # reminded[k] => reminded[k] = 0 /\ k \in spared
           /\ jobs'[k].status = "COMPLETED" => reminded'[k] > 0]_reminderVars
  BY <1>1 DEF RemindsOnce
<1> QED BY <1>2, InitFits, StepFits, PTL DEF ReminderSpec, TellsOnce

----------------------------------------------------------------------------
(* A step of the system is a step of one part, and the others rest. *)

LEMMA PartsMoveAlone ==
  ASSUME [Next]_vars
  PROVE  /\ AccessNext \/ UNCHANGED accessVars
         /\ NotesNext \/ UNCHANGED notesVars
         /\ CoachNext \/ UNCHANGED coachVars
         /\ ChatNext \/ UNCHANGED chatVars
         /\ MatchNext \/ UNCHANGED matchVars
         /\ ReviewNext \/ UNCHANGED reviewVars
         /\ FaceNext \/ UNCHANGED faceVars
         /\ PracticeNext \/ UNCHANGED practiceVars
         /\ AccountNext \/ UNCHANGED accountVars
         /\ ClockNext \/ UNCHANGED clockVars
         /\ PictureNext \/ UNCHANGED pictureVars
         /\ CueNext \/ UNCHANGED cueVars
         /\ TalkNext \/ UNCHANGED talkVars
         /\ DeviceNext \/ UNCHANGED deviceVars
         /\ GovernorNext \/ UNCHANGED governor
         /\ MetricsNext \/ UNCHANGED metricsVars
         /\ NodNext \/ UNCHANGED nodVars
         /\ ReminderNext \/ UNCHANGED reminderVars
         /\ ReportNext \/ UNCHANGED reportVars
<1>1. CASE UNCHANGED vars
  BY <1>1 DEF vars, partVars
<1>2. CASE Next
  BY <1>2 DEF Next, Apart
<1> QED BY <1>1, <1>2

LEMMA PartsBegin ==
  ASSUME Init
  PROVE  /\ AccessInit \/ AccessIdle
         /\ NotesInit \/ NotesIdle
         /\ CoachInit \/ CoachIdle
         /\ ChatInit \/ ChatIdle
         /\ MatchInit \/ MatchIdle
         /\ ReviewInit \/ ReviewIdle
         /\ FaceInit \/ FaceIdle
         /\ PracticeInit \/ PracticeIdle
         /\ AccountInit \/ AccountIdle
         /\ ClockInit \/ ClockIdle
         /\ PictureInit \/ PictureIdle
         /\ CueInit \/ CueIdle
         /\ TalkInit \/ TalkIdle
         /\ DeviceInit \/ DeviceIdle
         /\ GovernorInit
         /\ MetricsInit \/ MetricsIdle
         /\ NodInit \/ NodIdle
         /\ ReminderInit /\ ReportInit
BY DEF Init, Start

----------------------------------------------------------------------------
(* Practice: no camera stays on when its page is left, for any length of a *)
(* practice.  A page asks only while it holds nothing, so the stream that  *)
(* arrives late finds either its own page or none.                         *)

Lenses == [state : {"IDLE", "REQUESTING", "READY", "DENIED"}, held : BOOLEAN, asking : BOOLEAN]
Practices == [at : Studios \cup {"LEFT"}, elapsed : 0..Duration, finished : BOOLEAN]
Analyses == [state : {"IDLE", "STARTING", "RUNNING", "UNAVAILABLE"}, loading : BOOLEAN]
Tallies == [smiles : 0..MaxSmiles, smiling : BOOLEAN, away : 0..MaxSmiles]

PracticeRecords ==
  /\ lens \in [Studios -> Lenses] /\ practice \in Practices
  /\ solo \in Analyses /\ tally \in Tallies /\ hint \in 0..HintTtl

\* A camera that is held is ready and on the page that is shown; who asks holds none.
LensesFit ==
  \A p \in Studios : /\ lens[p].held => lens[p].state = "READY" /\ practice.at = p
                     /\ lens[p].asking => ~lens[p].held

\* The analysis runs on the practice page, with its camera.
AnalysisFits == solo.state # "IDLE" => practice.at = "PRACTICE" /\ lens["PRACTICE"].held

CountsFit ==
  /\ practice.elapsed = Duration => practice.finished
  /\ tally.smiling => tally.smiles > 0

PracticeInv == PracticeRecords /\ LensesFit /\ AnalysisFits /\ CountsFit

LEMMA PracticeNumbers == Duration \in Nat /\ Duration > 0 /\ HintTtl \in Nat /\ MaxSmiles \in Nat
BY PracticeAssumption

LEMMA PracticeGives == PracticeInv => PracticeTypeOK /\ NoCameraLeftOn
BY DEF PracticeInv, PracticeRecords, Lenses, Practices, Analyses, Tallies, LensesFit,
       AnalysisFits, CountsFit, PracticeTypeOK, NoCameraLeftOn

LEMMA PracticeBegins == PracticeInit \/ PracticeIdle => PracticeInv
<1> SUFFICES ASSUME PracticeInit \/ PracticeIdle PROVE PracticeInv
  OBVIOUS
<1>1. /\ practice \in {[at |-> p, elapsed |-> 0, finished |-> FALSE] : p \in {"SETUP", "LEFT"}}
      /\ solo = NoAnalysis /\ tally = Silent0 /\ hint = 0
  BY DEF PracticeInit, PracticeIdle
<1>2. practice \in Practices /\ practice.elapsed = 0
  <2>1. PICK p \in {"SETUP", "LEFT"} : practice = [at |-> p, elapsed |-> 0, finished |-> FALSE]
    BY <1>1
  <2>2. p \in Studios \cup {"LEFT"} /\ 0 \in 0..Duration
    BY PracticeNumbers DEF Studios
  <2> QED BY <2>1, <2>2 DEF Practices
<1>3. solo \in Analyses /\ solo.state = "IDLE"
  BY <1>1 DEF Analyses, NoAnalysis
<1>4. tally \in Tallies /\ ~tally.smiling /\ hint \in 0..HintTtl
  BY <1>1, PracticeNumbers DEF Tallies, Silent0
<1>5. Dark \in Lenses /\ ~Dark.held /\ Requested(Dark) \in Lenses /\ ~Requested(Dark).held
  BY DEF Lenses, Dark, Requested
<1>6. lens \in [Studios -> Lenses] /\ \A p \in Studios : ~lens[p].held
  BY <1>5 DEF PracticeInit, PracticeIdle
<1>7. LensesFit /\ AnalysisFits
  BY <1>3, <1>6 DEF LensesFit, AnalysisFits
<1>8. CountsFit
  BY <1>2, <1>4, PracticeNumbers DEF CountsFit
<1> QED BY <1>2, <1>3, <1>4, <1>6, <1>7, <1>8 DEF PracticeInv, PracticeRecords

LEMMA PracticeSteps ==
  ASSUME PracticeInv, PracticeNext \/ UNCHANGED practiceVars
  PROVE  PracticeInv'
<1> USE DEF PracticeInv
<1>0. {"SETUP", "PRACTICE"} = Studios
  BY DEF Studios
<1>1. ASSUME NEW p \in Studios, CameraArrives(p), Watches(p)
      PROVE  PracticeInv'
  <2> DEFINE l == IF practice.at = p THEN [state |-> "READY", held |-> TRUE, asking |-> FALSE]
                                     ELSE [lens[p] EXCEPT !.asking = FALSE]
  <2>1. /\ lens[p].asking /\ lens' = [lens EXCEPT ![p] = l]
        /\ UNCHANGED <<practice, tally, hint>>
    BY <1>1 DEF CameraArrives
  <2>2. /\ lens[p] \in Lenses /\ l \in Lenses /\ ~l.asking
        /\ l.held => practice.at = p /\ l.state = "READY"
        /\ practice.at = p => l.held
    BY <2>1 DEF PracticeRecords, LensesFit, Lenses
  <2>3. /\ lens' \in [Studios -> Lenses] /\ lens'[p] = l
        /\ \A q \in Studios \ {p} : lens'[q] = lens[q]
    BY <2>1, <2>2 DEF PracticeRecords
  <2> HIDE DEF l
  <2>4. solo' \in {solo, Starting} /\ (solo' # solo => p = "PRACTICE" /\ l.held)
    BY <1>1, <2>3 DEF Watches
  <2>5. PracticeRecords'
    <3>1. Starting \in Analyses
      BY DEF Starting, Analyses
    <3> QED BY <3>1, <2>1, <2>3, <2>4 DEF PracticeRecords
  <2>6. LensesFit'
    BY <2>1, <2>2, <2>3 DEF LensesFit
  <2>7. AnalysisFits'
    BY <1>0, <2>1, <2>2, <2>3, <2>4 DEF AnalysisFits, LensesFit
  <2> QED BY <2>1, <2>5, <2>6, <2>7 DEF CountsFit
<1>2. ASSUME NEW p \in Studios, CameraDenied(p)
      PROVE  PracticeInv'
  <2> DEFINE l == [lens[p] EXCEPT !.asking = FALSE,
                                  !.state = IF practice.at = p THEN "DENIED" ELSE lens[p].state]
  <2>1. /\ lens[p].asking /\ lens' = [lens EXCEPT ![p] = l]
        /\ UNCHANGED <<practice, solo, tally, hint>>
    BY <1>2 DEF CameraDenied
  <2>2. lens[p] \in Lenses /\ l \in Lenses /\ ~l.held /\ ~lens[p].held
    BY <2>1 DEF PracticeRecords, LensesFit, Lenses
  <2>3. /\ lens' \in [Studios -> Lenses] /\ lens'[p] = l
        /\ \A q \in Studios \ {p} : lens'[q] = lens[q]
    BY <2>1, <2>2 DEF PracticeRecords
  <2> HIDE DEF l
  <2>4. PracticeRecords'
    BY <2>1, <2>3 DEF PracticeRecords
  <2>5. LensesFit' /\ AnalysisFits'
    BY <1>0, <2>1, <2>2, <2>3 DEF LensesFit, AnalysisFits
  <2> QED BY <2>1, <2>4, <2>5 DEF CountsFit
<1>3. CASE CameraRetry
  <2> DEFINE l == Requested(lens["SETUP"])
  <2>1. /\ lens["SETUP"].state = "DENIED" /\ practice.at = "SETUP"
        /\ lens' = [lens EXCEPT !["SETUP"] = l]
        /\ UNCHANGED <<practice, solo, tally, hint>>
    BY <1>3 DEF CameraRetry
  <2>2. l \in Lenses /\ ~l.held
    BY <1>0, <2>1 DEF PracticeRecords, LensesFit, Lenses, Requested
  <2>3. /\ lens' \in [Studios -> Lenses] /\ lens'["SETUP"] = l
        /\ \A q \in Studios \ {"SETUP"} : lens'[q] = lens[q]
    BY <1>0, <2>1, <2>2 DEF PracticeRecords
  <2> HIDE DEF l
  <2>4. PracticeRecords'
    BY <2>1, <2>3 DEF PracticeRecords
  <2>5. LensesFit' /\ AnalysisFits'
    BY <1>0, <2>1, <2>2, <2>3 DEF LensesFit, AnalysisFits
  <2> QED BY <2>1, <2>4, <2>5 DEF CountsFit
<1>4. CASE WorkerReady
  <2>1. PICK s \in IF solo.state = "STARTING" THEN {"RUNNING", "UNAVAILABLE"} ELSE {solo.state} :
          solo' = [state |-> s, loading |-> FALSE]
    BY <1>4 DEF WorkerReady
  <2>2. solo' \in Analyses /\ (solo'.state # "IDLE" => solo.state # "IDLE")
    BY <2>1 DEF PracticeRecords, Analyses
  <2>3. UNCHANGED <<lens, practice, tally, hint>>
    BY <1>4 DEF WorkerReady
  <2>4. PracticeRecords'
    BY <2>2, <2>3 DEF PracticeRecords
  <2> QED BY <2>2, <2>3, <2>4 DEF LensesFit, AnalysisFits, CountsFit
<1>5. CASE WorkerLost
  <2>1. solo' \in Analyses /\ (solo'.state # "IDLE" => solo.state # "IDLE")
    BY <1>5 DEF WorkerLost, PracticeRecords, Analyses
  <2>2. UNCHANGED <<lens, practice, tally, hint>>
    BY <1>5 DEF WorkerLost
  <2>3. PracticeRecords'
    BY <2>1, <2>2 DEF PracticeRecords
  <2> QED BY <2>1, <2>2, <2>3 DEF LensesFit, AnalysisFits, CountsFit
<1>6. CASE Smiles \/ StopsSmiling \/ LooksAway
  <2>1. UNCHANGED <<lens, practice, solo>>
    BY <1>6 DEF Smiles, StopsSmiling, LooksAway
  <2>2. hint' \in 0..HintTtl
    BY <1>6, PracticeNumbers DEF Smiles, StopsSmiling, LooksAway, PracticeRecords
  <2>3. tally' \in Tallies /\ (tally'.smiling => tally'.smiles > 0)
    <3>1. tally \in Tallies
      BY DEF PracticeRecords
    <3>2. CASE Smiles
      <4>1. tally' = [tally EXCEPT !.smiles = tally.smiles + 1, !.smiling = TRUE]
        BY <3>2 DEF Smiles
      <4>2. tally.smiles + 1 \in 0..MaxSmiles /\ tally.smiles + 1 > 0
        BY <3>1, <3>2, PracticeNumbers DEF Smiles, Tallies
      <4> QED BY <3>1, <4>1, <4>2 DEF Tallies
    <3>3. CASE StopsSmiling
      BY <3>1, <3>3 DEF StopsSmiling, Tallies
    <3>4. CASE LooksAway
      BY <3>1, <3>4, PracticeNumbers DEF LooksAway, Tallies, CountsFit
    <3> QED BY <1>6, <3>2, <3>3, <3>4
  <2>4. PracticeRecords'
    BY <2>1, <2>2, <2>3 DEF PracticeRecords
  <2> QED BY <2>1, <2>3, <2>4 DEF LensesFit, AnalysisFits, CountsFit
<1>7. CASE PracticeTick
  <2> DEFINE next == practice.elapsed + 1
  <2>1. /\ practice.at = "PRACTICE" /\ ~practice.finished /\ UNCHANGED <<lens, tally>>
        /\ practice' = [practice EXCEPT !.elapsed = next, !.finished = next >= Duration]
        /\ solo' = IF next >= Duration THEN [solo EXCEPT !.state = "IDLE"] ELSE solo
        /\ hint' = IF hint = 0 THEN 0 ELSE hint - 1
    BY <1>7 DEF PracticeTick
  <2>2. practice \in Practices /\ solo \in Analyses /\ hint \in 0..HintTtl
    BY DEF PracticeRecords
  <2>3. next \in 0..Duration /\ (next >= Duration) \in BOOLEAN
    BY <2>1, <2>2, PracticeNumbers DEF Practices, CountsFit
  <2>4. next = Duration => next >= Duration
    BY <2>3, PracticeNumbers
  <2> HIDE DEF next
  <2>5. /\ practice' \in Practices /\ practice'.at = practice.at
        /\ practice'.elapsed = next /\ practice'.finished = (next >= Duration)
    BY <2>1, <2>2, <2>3 DEF Practices
  <2>6. solo' \in Analyses /\ (solo'.state # "IDLE" => solo.state # "IDLE")
    BY <2>1, <2>2 DEF Analyses
  <2>7. hint' \in 0..HintTtl
    BY <2>1, <2>2, PracticeNumbers
  <2>8. CountsFit'
    BY <2>1, <2>4, <2>5 DEF CountsFit
  <2>9. PracticeRecords'
    BY <2>1, <2>5, <2>6, <2>7 DEF PracticeRecords
  <2> QED BY <2>1, <2>5, <2>6, <2>8, <2>9 DEF LensesFit, AnalysisFits
<1>8. CASE FinishPractice
  <2>1. /\ practice' = [practice EXCEPT !.finished = TRUE] /\ solo' = [solo EXCEPT !.state = "IDLE"]
        /\ UNCHANGED <<lens, tally, hint>>
    BY <1>8 DEF FinishPractice, Finishing
  <2>2. practice' \in Practices /\ practice'.at = practice.at /\ practice'.finished
    BY <2>1 DEF PracticeRecords, Practices
  <2>3. solo' \in Analyses /\ solo'.state = "IDLE"
    BY <2>1 DEF PracticeRecords, Analyses
  <2>4. PracticeRecords'
    BY <2>1, <2>2, <2>3 DEF PracticeRecords
  <2> QED BY <2>1, <2>2, <2>3, <2>4 DEF LensesFit, AnalysisFits, CountsFit
<1>9. CASE StartPractice
  <2> DEFINE d == [Dark EXCEPT !.asking = lens["SETUP"].asking]
             r == Requested(Dark)
  <2>1. /\ practice.at = "SETUP"
        /\ practice' = [at |-> "PRACTICE", elapsed |-> 0, finished |-> FALSE]
        /\ lens' = [lens EXCEPT !["SETUP"] = d, !["PRACTICE"] = r]
        /\ tally' = Silent0 /\ hint' = 0 /\ UNCHANGED solo
    BY <1>9 DEF StartPractice, Darkened
  <2>2. d \in Lenses /\ r \in Lenses /\ ~d.held /\ ~r.held
    BY <1>0 DEF PracticeRecords, Lenses, Dark, Requested
  <2> HIDE DEF d, r
  <2>3. lens' \in [Studios -> Lenses] /\ lens'["SETUP"] = d /\ lens'["PRACTICE"] = r
    BY <1>0, <2>1, <2>2 DEF PracticeRecords
  <2>4. \A p \in Studios : ~lens'[p].held
    BY <2>2, <2>3 DEF Studios
  <2>5. solo.state = "IDLE"
    BY <2>1 DEF AnalysisFits
  <2>6. practice' \in Practices
    BY <2>1, PracticeNumbers DEF Practices, Studios
  <2>7. tally' \in Tallies /\ hint' \in 0..HintTtl
    BY <2>1, PracticeNumbers DEF Tallies, Silent0
  <2>8. PracticeRecords'
    BY <2>1, <2>3, <2>6, <2>7 DEF PracticeRecords
  <2>9. LensesFit' /\ AnalysisFits'
    BY <2>1, <2>4, <2>5 DEF LensesFit, AnalysisFits
  <2>10. CountsFit'
    BY <2>1, PracticeNumbers DEF CountsFit, Silent0
  <2> QED BY <2>8, <2>9, <2>10
<1>10. ASSUME NEW to \in {"SETUP", "LEFT"}, LeavePractice(to)
       PROVE  PracticeInv'
  <2>1. /\ practice.at \in Studios /\ to # practice.at
        /\ practice' = [practice EXCEPT !.at = to]
        /\ lens' = [p \in Studios |-> IF p = to THEN Requested(lens[p])
                                                ELSE Darkened(practice.at)[p]]
        /\ solo' = [solo EXCEPT !.state = "IDLE"] /\ UNCHANGED <<tally, hint>>
    BY <1>10 DEF LeavePractice
  <2>2. ASSUME NEW p \in Studios
        PROVE  lens'[p] \in Lenses /\ ~lens'[p].held
    <3>1. CASE p = to
      <4>1. lens'[p] = Requested(lens[p]) /\ ~lens[p].held
        BY <2>1, <3>1 DEF LensesFit
      <4> QED BY <4>1 DEF PracticeRecords, Lenses, Requested
    <3>2. CASE p # to /\ p = practice.at
      <4>1. lens'[p] = [Dark EXCEPT !.asking = lens[p].asking]
        BY <2>1, <3>2 DEF Darkened, PracticeRecords
      <4> QED BY <4>1 DEF PracticeRecords, Lenses, Dark
    <3>3. CASE p # to /\ p # practice.at
      <4>1. lens'[p] = lens[p] /\ ~lens[p].held
        BY <2>1, <3>3 DEF Darkened, PracticeRecords, LensesFit
      <4> QED BY <4>1 DEF PracticeRecords
    <3> QED BY <3>1, <3>2, <3>3
  <2>3. lens' \in [Studios -> Lenses]
    <3>1. lens' = [p \in Studios |-> lens'[p]]
      BY <2>1
    <3> QED BY <2>2, <3>1
  <2>4. /\ practice' \in Practices /\ practice'.elapsed = practice.elapsed
        /\ practice'.finished = practice.finished
        /\ solo' \in Analyses /\ solo'.state = "IDLE"
    BY <2>1 DEF PracticeRecords, Practices, Analyses, Studios
  <2> QED BY <2>1, <2>2, <2>3, <2>4 DEF PracticeRecords, LensesFit, AnalysisFits, CountsFit
<1>11. CASE UNCHANGED practiceVars
  BY <1>11 DEF practiceVars, PracticeRecords, LensesFit, AnalysisFits, CountsFit
<1> QED BY <1>1, <1>2, <1>3, <1>4, <1>5, <1>6, <1>7, <1>8, <1>9, <1>10, <1>11 DEF PracticeNext

----------------------------------------------------------------------------
(* The face picture: who is told that the picture was taken has a result,  *)
(* for any number of requests and of attempts.  What the result page shows *)
(* is only read while the page before it is done, and it is done only when *)
(* the request was completed.                                              *)

Phases == {"intro", "live", "analyzing", "retake", "done", "left"}
FaceServers == [requests : Seq(RequestStates), saved : 0..MaxRequests]
FaceCameras == [status : {"idle", "ready", "denied"}, held : BOOLEAN, asking : BOOLEAN]
Captures == [phase : Phases, agreed : BOOLEAN, grouped : BOOLEAN, attempts : 0..RetakeLimit + 1,
             poor : BOOLEAN, request : Nat, skipping : BOOLEAN]
Animals == [cached : {NotKept} \cup 0..MaxRequests, shown : 0..MaxRequests]

FaceRecords ==
  /\ analysis \in FaceServers /\ camera \in FaceCameras /\ capture \in Captures /\ animal \in Animals
  /\ shot \in {"NONE", "ANALYSING", "CREATING", "SAVING"}
  /\ skipped \in {"NONE", "CREATING", "REPORTING"}
  /\ shown \in {"READING", "RESULT", "NOTHING", "ERROR"}

\* The page knows a request the server has; the preview is of a camera that is held.
RequestFits == Len(analysis.requests) <= MaxRequests /\ capture.request <= Len(analysis.requests)
PreviewFits == camera.status = "ready" => camera.held
PictureFits == capture.phase = "analyzing" => shot # "NONE"
ResultFits == shown # "READING" => capture.phase = "done"

FaceInv ==
  FaceRecords /\ RequestFits /\ PreviewFits /\ PictureFits /\ ResultFits /\ FaceResultIsStored

LEMMA FaceNumbers == MaxRequests \in Nat /\ RetakeLimit \in Nat
BY FaceAssumption

LEMMA FaceGives == FaceInv => FaceTypeOK /\ FaceResultIsStored
<1> SUFFICES ASSUME FaceInv PROVE FaceTypeOK
  BY DEF FaceInv
<1> USE DEF FaceInv, FaceRecords
<1>1. /\ analysis.requests \in Seq(RequestStates) /\ analysis.saved \in 0..MaxRequests
      /\ Len(analysis.requests) \in Nat
  BY DEF FaceServers
<1>2. /\ camera.status \in {"idle", "ready", "denied"} /\ {camera.held, camera.asking} \subseteq BOOLEAN
  BY DEF FaceCameras
<1>3. capture.phase \in Phases /\ capture.attempts \in 0..RetakeLimit + 1 /\ capture.request \in Nat
  BY DEF Captures
<1>4. capture.request \in 0..Len(analysis.requests) /\ Len(analysis.requests) <= MaxRequests
  BY <1>1, <1>3 DEF RequestFits
<1>5. animal.cached \in {NotKept} \cup 0..MaxRequests /\ animal.shown \in 0..MaxRequests
  BY DEF Animals
<1> QED BY <1>1, <1>2, <1>3, <1>4, <1>5
        DEF FaceTypeOK, Phases, PreviewFits, PictureFits, ResultFits

LEMMA FaceBegins == FaceInit \/ FaceIdle => FaceInv
<1> SUFFICES ASSUME FaceIdle PROVE FaceInv
  BY DEF FaceInit
<1>1. /\ analysis = [requests |-> <<>>, saved |-> 0]
      /\ camera = [status |-> "idle", held |-> FALSE, asking |-> FALSE]
      /\ capture = NewCapture /\ shot = "NONE" /\ skipped = "NONE"
      /\ animal = [cached |-> NotKept, shown |-> 0] /\ shown = "READING"
  BY DEF FaceIdle
<1>2. analysis \in FaceServers /\ Len(analysis.requests) = 0
  BY <1>1, FaceNumbers DEF FaceServers
<1>3. camera \in FaceCameras /\ PreviewFits
  BY <1>1 DEF FaceCameras, PreviewFits
<1>4. capture \in Captures /\ capture.phase = "intro" /\ capture.request = 0
  BY <1>1, FaceNumbers DEF Captures, NewCapture, Phases, NoRequestYet
<1>5. animal \in Animals
  BY <1>1, FaceNumbers DEF Animals
<1>6. RequestFits
  BY <1>2, <1>4, FaceNumbers DEF RequestFits
<1>7. PictureFits /\ ResultFits /\ FaceResultIsStored
  BY <1>1, <1>4 DEF PictureFits, ResultFits, FaceResultIsStored
<1> QED BY <1>1, <1>2, <1>3, <1>4, <1>5, <1>6, <1>7 DEF FaceInv, FaceRecords

\* The server's records: a request more, and a request answered.
LEMMA RequestsStay ==
  ASSUME analysis \in FaceServers
  PROVE  /\ Created \in FaceServers /\ Created.saved = analysis.saved
         /\ Len(Created.requests) = Len(analysis.requests) + 1
         /\ \A r, state : state \in RequestStates =>
              /\ Answered(r, state) \in FaceServers /\ Answered(r, state).saved = analysis.saved
              /\ Len(Answered(r, state).requests) = Len(analysis.requests)
<1>1. analysis.requests \in Seq(RequestStates) /\ "PENDING" \in RequestStates
  BY DEF FaceServers, RequestStates
<1>2. /\ Append(analysis.requests, "PENDING") \in Seq(RequestStates)
      /\ Len(Append(analysis.requests, "PENDING")) = Len(analysis.requests) + 1
  BY <1>1
<1>3. Created = [analysis EXCEPT !.requests = Append(analysis.requests, "PENDING")]
  BY DEF Created
<1>4. ASSUME NEW r, NEW state \in RequestStates
      PROVE  /\ Answered(r, state) \in FaceServers /\ Answered(r, state).saved = analysis.saved
             /\ Len(Answered(r, state).requests) = Len(analysis.requests)
  <2> DEFINE s == [analysis.requests EXCEPT ![r] = state]
  <2>1. s \in Seq(RequestStates) /\ Len(s) = Len(analysis.requests)
    <3>1. CASE r \in 1..Len(analysis.requests)
      BY <1>1, <3>1, ExceptSeq
    <3>2. CASE r \notin 1..Len(analysis.requests)
      <4>1. analysis.requests \in [1..Len(analysis.requests) -> RequestStates]
        BY <1>1
      <4>2. s = analysis.requests
        BY <3>2, <4>1
      <4> QED BY <1>1, <4>2
    <3> QED BY <3>1, <3>2
  <2>2. Answered(r, state) = [analysis EXCEPT !.requests = s]
    BY DEF Answered
  <2> HIDE DEF s
  <2> QED BY <2>1, <2>2 DEF FaceServers
<1> QED BY <1>2, <1>3, <1>4 DEF FaceServers

\* The page takes the picture again, if it is still shown.
LEMMA RetakenStays ==
  ASSUME capture \in Captures, NEW poor \in BOOLEAN
  PROVE  /\ Retaken(poor) \in Captures /\ Retaken(poor).request = capture.request
         /\ Retaken(poor).phase # "analyzing"
         /\ (Retaken(poor).phase = "done") = (capture.phase = "done")
BY DEF Retaken, Here, Captures, Phases

LEMMA FaceSteps ==
  ASSUME FaceInv, FaceNext \/ UNCHANGED faceVars
  PROVE  FaceInv'
<1> USE DEF FaceInv
<1>0. /\ analysis \in FaceServers /\ camera \in FaceCameras /\ capture \in Captures /\ animal \in Animals
  BY DEF FaceRecords
<1>a. Stopped \in FaceCameras /\ Stopped.status = "idle"
  BY <1>0 DEF Stopped, FaceCameras
<1>1. CASE StartCamera
  <2>1. UNCHANGED <<analysis, capture, shot, skipped, animal, shown>>
    BY <1>1 DEF StartCamera
  <2>2. camera' \in FaceCameras /\ camera'.status = camera.status /\ camera'.held = camera.held
    BY <1>0, <1>1 DEF StartCamera, FaceCameras
  <2>3. FaceRecords'
    BY <2>1, <2>2 DEF FaceRecords
  <2> QED BY <2>1, <2>2, <2>3 DEF RequestFits, PreviewFits, PictureFits, ResultFits,
                                 FaceResultIsStored
<1>2. CASE CameraAnswers
  <2>1. UNCHANGED <<analysis, shot, skipped, animal, shown>>
    BY <1>2 DEF CameraAnswers
  <2>2. camera' \in FaceCameras /\ PreviewFits'
    <3>1. /\ Opened \in FaceCameras /\ Opened.held
          /\ Refused \in FaceCameras /\ Refused.status = "denied"
      BY DEF Opened, Refused, FaceCameras
    <3>2. camera' \in {Opened, Refused}
      BY <1>2 DEF CameraAnswers
    <3> QED BY <3>1, <3>2 DEF PreviewFits
  <2>3. /\ capture' \in Captures /\ capture'.request = capture.request
        /\ capture'.phase = "analyzing" => capture.phase = "analyzing"
        /\ capture'.phase = "done" <=> capture.phase = "done"
    BY <1>0, <1>2 DEF CameraAnswers, Here, Captures, Phases
  <2>4. FaceRecords'
    BY <2>1, <2>2, <2>3 DEF FaceRecords
  <2> QED BY <2>1, <2>2, <2>3, <2>4 DEF RequestFits, PictureFits, ResultFits, FaceResultIsStored
<1>3. CASE ProfileArrives \/ Agree
  <2>1. UNCHANGED <<analysis, camera, shot, skipped, animal, shown>>
    BY <1>3 DEF ProfileArrives, Agree
  <2>2. /\ capture' \in Captures /\ capture'.request = capture.request
        /\ capture'.phase = capture.phase
    BY <1>0, <1>3 DEF ProfileArrives, Agree, Captures
  <2>3. FaceRecords'
    BY <2>1, <2>2 DEF FaceRecords
  <2> QED BY <2>1, <2>2, <2>3 DEF RequestFits, PreviewFits, PictureFits, ResultFits,
                                 FaceResultIsStored
<1>4. CASE HandleCapture
  <2>1. /\ "CAPTURE" \in FaceOffers /\ shot' = "ANALYSING"
        /\ UNCHANGED <<analysis, camera, skipped, animal, shown>>
    BY <1>4 DEF HandleCapture
  <2>2. capture.phase # "done"
    BY <2>1 DEF FaceOffers
  <2>3. capture' \in Captures /\ capture'.request = capture.request /\ capture'.phase = "analyzing"
    <3> DEFINE n == IF capture.attempts > RetakeLimit THEN capture.attempts ELSE capture.attempts + 1
    <3>1. capture' = [capture EXCEPT !.phase = "analyzing", !.poor = FALSE, !.attempts = n]
      BY <1>4 DEF HandleCapture
    <3>2. n \in 0..RetakeLimit + 1
      BY <1>0, FaceNumbers DEF Captures
    <3> HIDE DEF n
    <3> QED BY <1>0, <3>1, <3>2 DEF Captures, Phases
  <2>4. FaceRecords'
    BY <2>1, <2>3 DEF FaceRecords
  <2> QED BY <2>1, <2>2, <2>3, <2>4 DEF RequestFits, PreviewFits, PictureFits, ResultFits,
                                       FaceResultIsStored
<1>5. ASSUME NEW response \in Responses, Analysed(response)
      PROVE  FaceInv'
  <2>1. UNCHANGED <<analysis, camera, skipped, animal, shown>>
    BY <1>5 DEF Analysed
  <2>2. \/ shot' \in {"CREATING", "SAVING"} /\ UNCHANGED capture
        \/ shot' = "NONE" /\ capture' = Retaken(IsAnalysis(response))
    BY <1>5 DEF Analysed
  <2>3. IsAnalysis(response) \in BOOLEAN
    BY DEF IsAnalysis, Responses
  <2>4. /\ capture' \in Captures /\ capture'.request = capture.request /\ PictureFits'
        /\ (capture'.phase = "done") = (capture.phase = "done")
    BY <1>0, <2>2, <2>3, RetakenStays DEF PictureFits
  <2>5. FaceRecords'
    BY <2>1, <2>2, <2>4 DEF FaceRecords
  <2> QED BY <2>1, <2>4, <2>5 DEF RequestFits, PreviewFits, ResultFits, FaceResultIsStored
<1>6. ASSUME NEW heard \in BOOLEAN, ShotCreates(heard)
      PROVE  FaceInv'
  <2>1. /\ Len(analysis.requests) < MaxRequests /\ analysis' = Created
        /\ shot' = IF heard THEN "SAVING" ELSE "NONE"
        /\ heard => capture' = [capture EXCEPT !.request = Len(analysis.requests) + 1]
        /\ ~heard => capture' = Retaken(FALSE)
        /\ UNCHANGED <<camera, skipped, animal, shown>>
    BY <1>6 DEF ShotCreates, MakesRequest
  <2>2. /\ analysis' \in FaceServers /\ analysis'.saved = analysis.saved
        /\ Len(analysis'.requests) = Len(analysis.requests) + 1
        /\ Len(analysis.requests) \in Nat
    BY <1>0, <2>1, RequestsStay DEF FaceServers
  <2>3. /\ capture' \in Captures /\ (capture'.phase = "done") = (capture.phase = "done")
        /\ capture'.request \in {capture.request, Len(analysis.requests) + 1}
        /\ ~heard => capture'.phase # "analyzing"
    <3>1. CASE heard
      BY <1>0, <2>1, <2>2, <3>1 DEF Captures
    <3>2. CASE ~heard
      BY <1>0, <2>1, <3>2, RetakenStays
    <3> QED BY <3>1, <3>2
  <2>4. FaceRecords'
    BY <2>1, <2>2, <2>3 DEF FaceRecords
  <2>5. RequestFits'
    BY <1>0, <2>1, <2>2, <2>3, FaceNumbers DEF RequestFits, Captures
  <2>6. PictureFits'
    BY <2>1, <2>3 DEF PictureFits
  <2> QED BY <2>1, <2>2, <2>3, <2>4, <2>5, <2>6 DEF PreviewFits, ResultFits, FaceResultIsStored
<1>7. ASSUME NEW heard \in BOOLEAN, ShotSaves(heard)
      PROVE  FaceInv'
  <2> DEFINE r == capture.request
             put == Answered(r, "COMPLETED")
  <2>1. /\ r # NoRequestYet /\ shot' = "NONE" /\ UNCHANGED <<skipped, shown>>
        /\ analysis' = IF IsPending(r) THEN [put EXCEPT !.saved = r] ELSE analysis
        /\ IF heard /\ IsPending(r)
           THEN /\ capture' = [capture EXCEPT !.phase = "done"]
                /\ camera' = Stopped
                /\ animal' = [animal EXCEPT !.cached = NotKept]
           ELSE capture' = Retaken(FALSE) /\ UNCHANGED <<camera, animal>>
    BY <1>7 DEF ShotSaves
  <2>2. /\ put \in FaceServers /\ put.saved = analysis.saved
        /\ Len(put.requests) = Len(analysis.requests)
    BY <1>0, RequestsStay DEF RequestStates
  <2> HIDE DEF put
  <2>3. r \in 0..MaxRequests /\ r # 0
    <3>1. r \in Nat /\ Len(analysis.requests) \in Nat
      BY <1>0 DEF Captures, FaceServers
    <3> QED BY <2>1, <3>1, FaceNumbers DEF RequestFits, NoRequestYet
  <2> HIDE DEF r
  <2>4. /\ analysis' \in FaceServers /\ Len(analysis'.requests) = Len(analysis.requests)
        /\ analysis'.saved = IF IsPending(r) THEN r ELSE analysis.saved
    BY <1>0, <2>1, <2>2, <2>3 DEF FaceServers
  <2>5. /\ capture' \in Captures /\ capture'.request = capture.request
        /\ capture'.phase # "analyzing"
        /\ capture.phase = "done" => capture'.phase = "done"
        /\ capture'.phase = "done" => capture.phase = "done" \/ IsPending(r)
    <3>1. CASE heard /\ IsPending(r)
      <4>1. capture' = [capture EXCEPT !.phase = "done"]
        BY <2>1, <3>1
      <4>2. capture' \in Captures /\ capture'.request = capture.request /\ capture'.phase = "done"
        BY <1>0, <4>1 DEF Captures, Phases
      <4> QED BY <3>1, <4>2
    <3>2. CASE ~(heard /\ IsPending(r))
      <4>1. capture' = Retaken(FALSE)
        BY <2>1, <3>2
      <4> QED BY <1>0, <4>1, RetakenStays
    <3> QED BY <3>1, <3>2
  <2>6. camera' \in FaceCameras /\ PreviewFits'
    BY <1>0, <1>a, <2>1 DEF PreviewFits
  <2>7. animal' \in Animals
    BY <1>0, <2>1 DEF Animals
  <2>8. FaceRecords'
    BY <2>1, <2>4, <2>5, <2>6, <2>7 DEF FaceRecords
  <2>9. FaceResultIsStored'
    BY <2>1, <2>3, <2>4, <2>5 DEF FaceResultIsStored, ResultFits
  <2> QED BY <2>1, <2>4, <2>5, <2>6, <2>8, <2>9 DEF RequestFits, PictureFits, ResultFits
<1>8. ASSUME Leaves, shown' = "READING", UNCHANGED <<shot, animal>>,
             skipped' \in {"NONE", "CREATING", "REPORTING"},
             analysis' \in FaceServers, Len(analysis'.requests) = Len(analysis.requests)
      PROVE  FaceInv'
  <2>1. capture' \in Captures /\ capture'.request = capture.request /\ capture'.phase = "left"
    BY <1>0, <1>8 DEF Leaves, Captures, Phases
  <2>2. camera' \in FaceCameras /\ PreviewFits'
    BY <1>a, <1>8 DEF Leaves, PreviewFits
  <2>3. FaceRecords'
    BY <1>8, <2>1, <2>2 DEF FaceRecords
  <2> QED BY <1>8, <2>1, <2>2, <2>3 DEF RequestFits, PictureFits, ResultFits, FaceResultIsStored
<1>9. CASE GoOn
  <2>1. "BACK" \in FaceOffers /\ Leaves /\ UNCHANGED <<analysis, shot, skipped, animal, shown>>
    BY <1>9 DEF GoOn
  <2>2. shown = "READING"
    BY <2>1 DEF FaceOffers, ResultFits
  <2> QED BY <1>0, <1>8, <2>1, <2>2 DEF FaceRecords
<1>10. CASE HandleSkip
  <2>1. "SKIP" \in FaceOffers /\ UNCHANGED <<analysis, shot, animal, shown>>
    BY <1>10 DEF HandleSkip
  <2>2. shown = "READING"
    BY <2>1 DEF FaceOffers, ResultFits
  <2>3. CASE ~capture.poor
    <3>1. Leaves /\ UNCHANGED skipped
      BY <1>10, <2>3 DEF HandleSkip
    <3> QED BY <1>0, <1>8, <2>1, <2>2, <3>1 DEF FaceRecords
  <2>4. CASE capture.poor
    <3>1. /\ skipped' \in {"CREATING", "REPORTING"} /\ UNCHANGED camera
          /\ capture' = [capture EXCEPT !.skipping = TRUE]
      BY <1>10, <2>4 DEF HandleSkip
    <3>2. /\ capture' \in Captures /\ capture'.request = capture.request
          /\ capture'.phase = capture.phase
      BY <1>0, <3>1 DEF Captures
    <3>3. FaceRecords'
      BY <2>1, <3>1, <3>2 DEF FaceRecords
    <3> QED BY <2>1, <3>1, <3>2, <3>3 DEF RequestFits, PreviewFits, PictureFits, ResultFits,
                                         FaceResultIsStored
  <2> QED BY <2>3, <2>4
<1>11. CASE SkipCreates
  <2>1. /\ Len(analysis.requests) < MaxRequests /\ analysis' = Created
        /\ capture' = [capture EXCEPT !.request = Len(analysis.requests) + 1]
        /\ skipped' = "REPORTING" /\ UNCHANGED <<camera, shot, animal, shown>>
    BY <1>11 DEF SkipCreates, MakesRequest
  <2>2. /\ analysis' \in FaceServers /\ analysis'.saved = analysis.saved
        /\ Len(analysis'.requests) = Len(analysis.requests) + 1
        /\ Len(analysis.requests) \in Nat
    BY <1>0, <2>1, RequestsStay DEF FaceServers
  <2>3. /\ capture' \in Captures /\ capture'.phase = capture.phase
        /\ capture'.request = Len(analysis.requests) + 1
    BY <1>0, <2>1, <2>2 DEF Captures
  <2>4. FaceRecords'
    BY <2>1, <2>2, <2>3 DEF FaceRecords
  <2>5. RequestFits'
    BY <2>1, <2>2, <2>3, FaceNumbers DEF RequestFits
  <2> QED BY <2>1, <2>2, <2>3, <2>4, <2>5 DEF PreviewFits, PictureFits, ResultFits,
                                             FaceResultIsStored
<1>12. ASSUME NEW served \in BOOLEAN, SkipEnds(served)
       PROVE  FaceInv'
  <2>1. /\ skipped' = "NONE" /\ Leaves /\ shown' = "READING" /\ UNCHANGED <<shot, animal>>
        /\ analysis' \in {analysis, Answered(capture.request, "FAILED")}
    BY <1>12 DEF SkipEnds
  <2>2. analysis' \in FaceServers /\ Len(analysis'.requests) = Len(analysis.requests)
    BY <1>0, <2>1, RequestsStay DEF RequestStates
  <2> QED BY <1>8, <2>1, <2>2
<1>13. CASE RequestExpires
  <2>1. PICK r \in DOMAIN analysis.requests : analysis' = Answered(r, "EXPIRED")
    BY <1>13 DEF RequestExpires
  <2>2. UNCHANGED <<camera, capture, shot, skipped, animal, shown>>
    BY <1>13 DEF RequestExpires
  <2>3. /\ analysis' \in FaceServers /\ analysis'.saved = analysis.saved
        /\ Len(analysis'.requests) = Len(analysis.requests)
    BY <1>0, <2>1, RequestsStay DEF RequestStates
  <2>4. FaceRecords'
    BY <2>2, <2>3 DEF FaceRecords
  <2> QED BY <2>2, <2>3, <2>4 DEF RequestFits, PreviewFits, PictureFits, ResultFits,
                                 FaceResultIsStored
<1>14. ASSUME NEW ok \in BOOLEAN, AnimalIsRead(ok)
       PROVE  FaceInv'
  <2> DEFINE read == IF animal.cached # NotKept THEN animal.cached
                     ELSE IF ok THEN analysis.saved ELSE 0
  <2>1. /\ animal' = [cached |-> read, shown |-> read]
        /\ UNCHANGED <<analysis, camera, capture, shot, skipped, shown>>
    BY <1>14 DEF AnimalIsRead
  <2>2. read \in 0..MaxRequests
    BY <1>0, FaceNumbers DEF Animals, FaceServers
  <2> HIDE DEF read
  <2>3. animal' \in Animals
    BY <2>1, <2>2 DEF Animals
  <2>4. FaceRecords'
    BY <2>1, <2>3 DEF FaceRecords
  <2> QED BY <2>1, <2>4 DEF RequestFits, PreviewFits, PictureFits, ResultFits, FaceResultIsStored
<1>15. CASE ResultReload \/ \E ok \in BOOLEAN : ResultArrives(ok)
  <2>1. /\ UNCHANGED <<analysis, camera, capture, shot, skipped, animal>>
        /\ shown' \in {"READING", "RESULT", "NOTHING", "ERROR"}
        /\ shown' # "READING" => capture.phase = "done"
        /\ shown' = "NOTHING" => analysis.saved = 0
    BY <1>15 DEF ResultReload, ResultArrives
  <2>2. FaceRecords'
    BY <2>1 DEF FaceRecords
  <2> QED BY <2>1, <2>2 DEF RequestFits, PreviewFits, PictureFits, ResultFits, FaceResultIsStored
<1>16. CASE UNCHANGED faceVars
  BY <1>16 DEF faceVars, FaceRecords, RequestFits, PreviewFits, PictureFits, ResultFits,
               FaceResultIsStored
<1> QED BY <1>1, <1>2, <1>3, <1>4, <1>5, <1>6, <1>7, <1>9, <1>10, <1>11, <1>12, <1>13, <1>14,
           <1>15, <1>16 DEF FaceNext

----------------------------------------------------------------------------
(* The account: no user sees the animal of another, a session analyses     *)
(* faces only after the consents said yes, and saving leaves alone what    *)
(* was not changed, for any number of changes.  The module's animal is     *)
(* asked for by who is signed in and forgotten with the session; what a    *)
(* form sends stays what was changed in it while it is being saved.        *)

People == [gone : BOOLEAN, agreed : BOOLEAN, profile : Profiles]
Portraits == [kept : Users \cup {Nobody}, asked : Users \cup {Nobody}, shown : Users \cup {Nobody}]
Dialogs == [open : BOOLEAN, typed : BOOLEAN, failed : BOOLEAN, pending : {"NO", "SIGN_OUT", "WITHDRAW"}]
Forms == [phase : {"NONE", "LOADING", "READY", "FAILED", "SAVING"}, initial : Profiles, now : Profiles]
Savings == [of : {"NONE"} \cup Edits, sent : [Fields -> 0..Unsent]]
Agreements == [phase : {"NONE", "LOADING", "READY", "FAILED"}, shown : BOOLEAN,
               confirming : BOOLEAN, busy : {"NO", "GRANT", "WITHDRAW"}]
Entries == [phase : {"OUT", "READING", "WRITING"}, read : BOOLEAN]
Snapshots == [flag : BOOLEAN, agreed : BOOLEAN]
Loading == Edits \cup {"MY", "HUB"}

AccountRecords ==
  /\ people \in [Users -> People] /\ edits \in 0..MaxEdits
  /\ who \in Users \cup {Nobody} /\ place \in Places
  /\ portrait \in Portraits /\ leaving \in Dialogs /\ form \in Forms /\ saving \in Savings
  /\ agreement \in Agreements /\ entry \in Entries /\ snapshot \in Snapshots

\* Only the login page is shown to nobody, and what a page keeps is kept on its page.
SignedFits == who = Nobody <=> place = "LOGIN"
FormFits == form.phase # "NONE" <=> place \in Loading
AgreementFits == place # "CONSENTS" => agreement = NoAgreement
LeavingFits == leaving.open \/ leaving.pending # "NO" => place = "MY"
PagesFit == SignedFits /\ FormFits /\ AgreementFits /\ LeavingFits

\* What was read of the consents waits for who is signed in, and the snapshot says so.
EntryFits == (entry.phase # "OUT" => who # Nobody) /\ (entry.read => snapshot.agreed)

\* While a form is being saved, what was not changed in it is not on its way.
SentFits ==
  form.phase = "SAVING" =>
    saving.of # "NONE" /\ \A f \in Fields : form.now[f] = form.initial[f] => saving.sent[f] = Unsent

AccountInv ==
  AccountRecords /\ PagesFit /\ EntryFits /\ SentFits /\ NoForeignAnimal /\ AnalysedByAgreement

LEMMA AccountGives == AccountInv => AccountTypeOK
<1> SUFFICES ASSUME AccountInv PROVE AccountTypeOK
  OBVIOUS
<1> USE DEF AccountInv, AccountRecords
<1>1. /\ people \in [Users -> [gone : BOOLEAN, agreed : BOOLEAN, profile : Profiles]]
      /\ edits \in 0..MaxEdits /\ who \in Users \cup {Nobody} /\ place \in Places
      /\ portrait \in [kept : Users \cup {Nobody}, asked : Users \cup {Nobody},
                       shown : Users \cup {Nobody}]
      /\ snapshot \in [flag : BOOLEAN, agreed : BOOLEAN]
  BY DEF People, Portraits, Snapshots
<1>2. leaving \in [open : BOOLEAN, typed : BOOLEAN, failed : BOOLEAN,
                   pending : {"NO", "SIGN_OUT", "WITHDRAW"}]
  BY DEF Dialogs
<1>3. /\ form.phase \in {"NONE", "LOADING", "READY", "FAILED", "SAVING"}
      /\ {form.initial, form.now} \subseteq Profiles
  BY DEF Forms
<1>4. saving.of \in {"NONE"} \cup Edits /\ saving.sent \in [Fields -> 0..Unsent]
  BY DEF Savings
<1>5. agreement.phase \in {"NONE", "LOADING", "READY", "FAILED"}
      /\ agreement.busy \in {"NO", "GRANT", "WITHDRAW"}
  BY DEF Agreements
<1>6. entry.phase \in {"OUT", "READING", "WRITING"} /\ entry.read \in BOOLEAN
  BY DEF Entries
<1>7. (who = Nobody <=> place = "LOGIN") /\ (form.phase # "NONE" <=> place \in Edits \cup {"MY", "HUB"})
      /\ (form.phase = "SAVING" => saving.of # "NONE")
  BY DEF PagesFit, SignedFits, FormFits, SentFits, Loading
<1> QED BY <1>1, <1>2, <1>3, <1>4, <1>5, <1>6, <1>7 DEF AccountTypeOK

LEMMA PlainIsAProfile == Plain \in Profiles
BY DEF Plain, Profiles

LEMMA AccountBegins == AccountInit \/ AccountIdle => AccountInv
<1> SUFFICES ASSUME AccountIdle PROVE AccountInv
  BY DEF AccountInit
<1>1. people \in [Users -> People]
  BY PlainIsAProfile DEF AccountIdle, People
<1>2. edits \in 0..MaxEdits /\ who = Nobody /\ place = "LOGIN" /\ place \in Places
  BY AccountAssumption DEF AccountIdle, Places
<1>3. portrait \in Portraits /\ leaving \in Dialogs /\ ~leaving.open /\ leaving.pending = "NO"
  BY DEF AccountIdle, NoPortrait, Portraits, ClosedDialog, Dialogs
<1>4. form \in Forms /\ form.phase = "NONE"
  BY PlainIsAProfile DEF AccountIdle, NoForm, Forms
<1>5. saving \in Savings
  BY DEF AccountIdle, NotSaving, Savings, Unsent
<1>6. agreement \in Agreements /\ agreement = NoAgreement
  BY DEF AccountIdle, NoAgreement, Agreements
<1>7. entry \in Entries /\ snapshot \in Snapshots /\ EntryFits /\ AnalysedByAgreement
  BY DEF AccountIdle, Entries, Snapshots, EntryFits, AnalysedByAgreement
<1>8. NoForeignAnimal
  BY DEF AccountIdle, NoPortrait, NoForeignAnimal
<1>9. PagesFit /\ SentFits
  BY <1>2, <1>3, <1>4, <1>6
     DEF PagesFit, SignedFits, FormFits, AgreementFits, LeavingFits, Loading, Edits, SentFits
<1>10. AccountRecords
  BY <1>1, <1>2, <1>3, <1>4, <1>5, <1>6, <1>7 DEF AccountRecords
<1> QED BY <1>7, <1>8, <1>9, <1>10 DEF AccountInv

\* The page that opens.
LEMMA GoesFits ==
  ASSUME NEW p \in Places, Goes(p)
  PROVE  /\ place' = p /\ form' \in Forms /\ form'.phase # "SAVING" /\ agreement' \in Agreements
         /\ FormFits' /\ AgreementFits'
<1>1. LoadingForm \in Forms /\ NoForm \in Forms /\ LoadingForm.phase = "LOADING" /\ NoForm.phase = "NONE"
  BY PlainIsAProfile DEF LoadingForm, NoForm, Forms
<1>2. form' = (IF p \in Loading THEN LoadingForm ELSE NoForm) /\ place' = p
  BY DEF Goes, Loading
<1>3. NoAgreement \in Agreements /\ [NoAgreement EXCEPT !.phase = "LOADING"] \in Agreements
  BY DEF NoAgreement, Agreements
<1>4. agreement' = IF p = "CONSENTS" THEN [NoAgreement EXCEPT !.phase = "LOADING"] ELSE NoAgreement
  BY DEF Goes
<1>5. form' \in Forms /\ form'.phase # "SAVING" /\ FormFits'
  BY <1>1, <1>2 DEF FormFits
<1>6. agreement' \in Agreements /\ AgreementFits'
  BY <1>2, <1>3, <1>4 DEF AgreementFits
<1> QED BY <1>2, <1>5, <1>6

\* Who is signed out leaves nothing behind.
LEMMA SignedOutFits ==
  ASSUME AccountInv, SignedOut, people' \in [Users -> People], UNCHANGED <<edits, saving, snapshot>>
  PROVE  AccountInv'
<1> USE DEF AccountInv
<1>1. /\ who' = Nobody /\ place' = "LOGIN" /\ form' \in Forms /\ form'.phase # "SAVING"
      /\ agreement' \in Agreements /\ FormFits' /\ AgreementFits'
  BY GoesFits DEF SignedOut, Places
<1>2. portrait' \in Portraits /\ NoForeignAnimal'
  BY <1>1 DEF SignedOut, NoPortrait, Portraits, NoForeignAnimal
<1>3. leaving' \in Dialogs /\ ~leaving'.open /\ leaving'.pending = "NO"
  BY DEF SignedOut, ClosedDialog, Dialogs
<1>4. entry' \in Entries /\ entry'.phase = "OUT" /\ entry'.read = entry.read
  BY DEF SignedOut, AccountRecords, Entries
<1>5. AccountRecords'
  BY <1>1, <1>2, <1>3, <1>4 DEF AccountRecords, Places
<1>6. PagesFit'
  BY <1>1, <1>3 DEF PagesFit, SignedFits, LeavingFits
<1>7. EntryFits' /\ SentFits' /\ AnalysedByAgreement'
  BY <1>1, <1>4 DEF EntryFits, SentFits, AnalysedByAgreement
<1> QED BY <1>2, <1>5, <1>6, <1>7

LEMMA AccountSteps ==
  ASSUME AccountInv, AccountNext \/ UNCHANGED accountVars
  PROVE  AccountInv'
<1> USE DEF AccountInv
<1>1. ASSUME NEW u \in Users, EnterAccount(u)
      PROVE  AccountInv'
  <2>1. /\ place = "LOGIN" /\ who' = u /\ Goes("HOME") /\ AsksForAnimal(u)
        /\ UNCHANGED <<people, edits, leaving, saving, entry, snapshot>>
    BY <1>1 DEF EnterAccount
  <2>2. /\ place' = "HOME" /\ form' \in Forms /\ form'.phase # "SAVING"
        /\ agreement' \in Agreements /\ FormFits' /\ AgreementFits'
    BY <2>1, GoesFits DEF Places
  <2>3. who = Nobody /\ u # Nobody
    BY <2>1 DEF PagesFit, SignedFits, Users, Nobody
  <2>4. portrait' = [kept |-> u, asked |-> u, shown |-> Nobody]
    BY <2>1, <2>3 DEF AsksForAnimal, NoForeignAnimal
  <2>5. portrait' \in Portraits /\ NoForeignAnimal'
    BY <2>1, <2>4 DEF Portraits, NoForeignAnimal
  <2>6. AccountRecords'
    BY <2>1, <2>2, <2>5 DEF AccountRecords, Places
  <2>7. PagesFit'
    BY <2>1, <2>2, <2>3 DEF PagesFit, SignedFits, LeavingFits
  <2>8. EntryFits' /\ SentFits' /\ AnalysedByAgreement'
    BY <2>1, <2>2, <2>3 DEF EntryFits, SentFits, AnalysedByAgreement
  <2> QED BY <2>5, <2>6, <2>7, <2>8
<1>2. CASE AnimalArrives
  <2>1. /\ portrait' = [portrait EXCEPT !.asked = Nobody, !.shown = portrait.asked]
        /\ UNCHANGED <<people, edits, who, place, leaving, form, saving, agreement, entry, snapshot>>
    BY <1>2 DEF AnimalArrives, pages
  <2>2. portrait' \in Portraits /\ NoForeignAnimal'
    BY <2>1 DEF AccountRecords, Portraits, NoForeignAnimal
  <2>3. AccountRecords'
    BY <2>1, <2>2 DEF AccountRecords
  <2> QED BY <2>1, <2>2, <2>3 DEF PagesFit, SignedFits, FormFits, AgreementFits, LeavingFits,
                                 EntryFits, SentFits, AnalysedByAgreement
<1>3. CASE OnSignOut \/ OpenWithdraw \/ CloseWithdraw \/ TypePassword \/ OnWithdraw
  <2>1. UNCHANGED <<people, edits, who, place, portrait, form, saving, agreement, entry, snapshot>>
    BY <1>3 DEF OnSignOut, OpenWithdraw, CloseWithdraw, TypePassword, OnWithdraw, pages
  <2>2. place = "MY"
    BY <1>3 DEF OnSignOut, OpenWithdraw, CloseWithdraw, TypePassword, OnWithdraw, PagesFit, LeavingFits
  <2>3. leaving' \in Dialogs
    <3>1. leaving \in Dialogs
      BY DEF AccountRecords
    <3> QED BY <1>3, <3>1 DEF OnSignOut, OpenWithdraw, CloseWithdraw, TypePassword, OnWithdraw,
                              Dialogs, ClosedDialog
  <2>4. AccountRecords'
    BY <2>1, <2>3 DEF AccountRecords
  <2> QED BY <2>1, <2>2, <2>4 DEF PagesFit, SignedFits, FormFits, AgreementFits, LeavingFits,
                                 EntryFits, SentFits, NoForeignAnimal, AnalysedByAgreement
<1>4. CASE SignOutAnswers \/ SessionLost
  <2>1. SignedOut /\ UNCHANGED <<people, edits, saving, snapshot>>
    BY <1>4 DEF SignOutAnswers, SessionLost
  <2> QED BY <2>1, SignedOutFits DEF AccountRecords
<1>5. ASSUME NEW served \in BOOLEAN, NEW heard \in BOOLEAN, WithdrawAnswers(served, heard)
      PROVE  AccountInv'
  <2>1. /\ leaving.pending = "WITHDRAW" /\ UNCHANGED <<edits, saving, snapshot>>
        /\ people' \in {people, [people EXCEPT ![who].gone = TRUE]}
    BY <1>5 DEF WithdrawAnswers
  <2>2. who \in Users
    BY <2>1 DEF AccountRecords, PagesFit, LeavingFits, SignedFits
  <2>3. people' \in [Users -> People]
    BY <2>1, <2>2 DEF AccountRecords, People
  <2>4. CASE served /\ heard
    BY <1>5, <2>1, <2>3, <2>4, SignedOutFits DEF WithdrawAnswers
  <2>5. CASE ~(served /\ heard)
    <3>1. /\ leaving' = [leaving EXCEPT !.pending = "NO", !.failed = TRUE]
          /\ UNCHANGED <<who, place, portrait, form, agreement, entry>>
      BY <1>5, <2>5 DEF WithdrawAnswers
    <3>2. leaving' \in Dialogs /\ place = "MY"
      BY <2>1, <3>1 DEF AccountRecords, Dialogs, PagesFit, LeavingFits
    <3>3. AccountRecords'
      BY <2>1, <2>3, <3>1, <3>2 DEF AccountRecords
    <3> QED BY <2>1, <3>1, <3>2, <3>3 DEF PagesFit, SignedFits, FormFits, AgreementFits,
                  LeavingFits, EntryFits, SentFits, NoForeignAnimal, AnalysedByAgreement
  <2> QED BY <2>4, <2>5
<1>6. ASSUME NEW p \in Places, Browse(p)
      PROVE  AccountInv'
  <2>1. /\ who # Nobody /\ p # "LOGIN" /\ Goes(p) /\ leaving' = ClosedDialog
        /\ UNCHANGED <<people, edits, who, portrait, saving, entry, snapshot>>
    BY <1>6 DEF Browse
  <2>2. /\ place' = p /\ form' \in Forms /\ form'.phase # "SAVING"
        /\ agreement' \in Agreements /\ FormFits' /\ AgreementFits'
    BY <2>1, GoesFits
  <2>3. leaving' \in Dialogs /\ ~leaving'.open /\ leaving'.pending = "NO"
    BY <2>1 DEF ClosedDialog, Dialogs
  <2>4. AccountRecords'
    BY <2>1, <2>2, <2>3 DEF AccountRecords
  <2>5. PagesFit'
    BY <2>1, <2>2, <2>3 DEF PagesFit, SignedFits, LeavingFits
  <2> QED BY <2>1, <2>2, <2>4, <2>5 DEF EntryFits, SentFits, NoForeignAnimal, AnalysedByAgreement
<1>7. ASSUME form' \in Forms, form'.phase \notin {"NONE", "SAVING"}, form.phase # "NONE",
             UNCHANGED <<people, edits, who, place, portrait, leaving, saving, agreement, entry,
                         snapshot>>
      PROVE  AccountInv'
  <2>1. AccountRecords'
    BY <1>7 DEF AccountRecords
  <2>2. PagesFit'
    BY <1>7 DEF PagesFit, SignedFits, FormFits, AgreementFits, LeavingFits
  <2> QED BY <1>7, <2>1, <2>2 DEF EntryFits, SentFits, NoForeignAnimal, AnalysedByAgreement
<1>8. ASSUME NEW ok \in BOOLEAN, FormLoads(ok) \/ HubLoads(ok)
      PROVE  AccountInv'
  <2>1. who \in Users
    BY <1>8 DEF FormLoads, HubLoads, AccountRecords, PagesFit, SignedFits, Edits
  <2>2. people[who].profile \in Profiles /\ form \in Forms
    BY <2>1 DEF AccountRecords, People
  <2>3. form' \in Forms /\ form'.phase \in {"READY", "FAILED"}
    <3>1. CASE FormLoads(ok)
      BY <2>2, <3>1 DEF FormLoads, Forms
    <3>2. CASE HubLoads(ok)
      BY <2>2, <3>2 DEF HubLoads, Loaded, Forms
    <3> QED BY <1>8, <3>1, <3>2
  <2> QED BY <1>7, <1>8, <2>3 DEF FormLoads, HubLoads
<1>9. ASSUME NEW profile \in BOOLEAN, NEW rest \in BOOLEAN, SummaryLoads(profile, rest)
      PROVE  AccountInv'
  <2>1. who \in Users
    BY <1>9 DEF SummaryLoads, AccountRecords, PagesFit, SignedFits
  <2>2. people[who].profile \in Profiles /\ form \in Forms
    BY <2>1 DEF AccountRecords, People
  <2>3. form' \in Forms /\ form'.phase \in {"READY", "FAILED"}
    BY <1>9, <2>2 DEF SummaryLoads, Loaded, Forms
  <2> QED BY <1>7, <1>9, <2>3 DEF SummaryLoads
<1>10. CASE FormReload
  <2>1. LoadingForm \in Forms /\ LoadingForm.phase = "LOADING"
    BY PlainIsAProfile DEF LoadingForm, NoForm, Forms
  <2> QED BY <1>7, <1>10, <2>1 DEF FormReload
<1>11. ASSUME NEW f \in Fields, Edit(f)
       PROVE  AccountInv'
  <2>1. form \in Forms /\ form.phase = "READY"
    BY <1>11 DEF Edit, AccountRecords
  <2>2. form' = [form EXCEPT !.now[f] = 1 - form.now[f]]
    BY <1>11 DEF Edit
  <2>3. form.now \in [Fields -> 0..1]
    BY <2>1 DEF Forms, Profiles
  <2>4. [form.now EXCEPT ![f] = 1 - form.now[f]] \in Profiles
    BY <2>3 DEF Profiles
  <2>5. form' \in Forms /\ form'.phase = "READY"
    BY <2>1, <2>2, <2>4 DEF Forms
  <2> QED BY <1>7, <1>11, <2>1, <2>5 DEF Edit
<1>12. CASE HandleSubmit
  <2>1. /\ edits < MaxEdits /\ edits' = edits + 1 /\ form.phase = "READY" /\ place \in Edits
        /\ saving' = [of |-> place, sent |-> [f \in Fields |-> IF f \in Changed(place) THEN form.now[f]
                                                                                     ELSE Unsent]]
        /\ form' = [form EXCEPT !.phase = "SAVING"]
        /\ UNCHANGED <<people, who, place, portrait, leaving, agreement, entry, snapshot>>
    BY <1>12 DEF HandleSubmit
  <2>2. form \in Forms /\ form.now \in [Fields -> 0..1]
    BY DEF AccountRecords, Forms, Profiles
  <2>3. /\ form' \in Forms /\ form'.phase = "SAVING" /\ form'.now = form.now
        /\ form'.initial = form.initial
    BY <2>1, <2>2 DEF Forms
  <2>4. saving' \in Savings
    BY <2>1, <2>2 DEF Savings, Unsent
  <2>5. SentFits'
    <3>1. saving'.of # "NONE"
      BY <2>1 DEF Edits
    <3>2. \A f \in Fields : form.now[f] = form.initial[f] => saving'.sent[f] = Unsent
      BY <2>1 DEF Changed
    <3> QED BY <2>3, <3>1, <3>2 DEF SentFits
  <2>6. edits' \in 0..MaxEdits
    BY <2>1, AccountAssumption DEF AccountRecords
  <2>7. AccountRecords'
    BY <2>1, <2>3, <2>4, <2>6 DEF AccountRecords
  <2>8. PagesFit'
    BY <2>1, <2>3 DEF PagesFit, SignedFits, FormFits, AgreementFits, LeavingFits
  <2> QED BY <2>1, <2>5, <2>7, <2>8 DEF EntryFits, NoForeignAnimal, AnalysedByAgreement
<1>13. ASSUME NEW served \in BOOLEAN, NEW heard \in BOOLEAN, SaveAnswers(served, heard)
       PROVE  AccountInv'
  <2>1. /\ who # Nobody /\ saving' = NotSaving /\ UNCHANGED <<edits, who, portrait, entry, snapshot>>
        /\ people' \in {people, [people EXCEPT ![who].profile = [f \in Fields |->
                          IF saving.sent[f] = Unsent THEN @[f] ELSE saving.sent[f]]]}
    BY <1>13 DEF SaveAnswers
  <2>2. who \in Users
    BY <2>1 DEF AccountRecords
  <2>3. people' \in [Users -> People]
    <3> DEFINE to == [f \in Fields |-> IF saving.sent[f] = Unsent THEN people[who].profile[f]
                                                                 ELSE saving.sent[f]]
    <3>1. people[who].profile \in [Fields -> 0..1] /\ saving.sent \in [Fields -> 0..2]
      BY <2>2 DEF AccountRecords, People, Profiles, Savings, Unsent
    <3>2. to \in Profiles
      BY <3>1 DEF Profiles, Unsent
    <3>3. people' \in {people, [people EXCEPT ![who].profile = to]}
      BY <2>1
    <3> HIDE DEF to
    <3> QED BY <2>2, <3>2, <3>3 DEF AccountRecords, People
  <2>4. saving' \in Savings
    BY <2>1 DEF NotSaving, Savings, Unsent
  <2>5. CASE served /\ heard
    <3>1. Goes("HUB") /\ leaving' = ClosedDialog
      BY <1>13, <2>5 DEF SaveAnswers
    <3>2. /\ place' = "HUB" /\ form' \in Forms /\ form'.phase # "SAVING"
          /\ agreement' \in Agreements /\ FormFits' /\ AgreementFits'
      BY <3>1, GoesFits DEF Places
    <3>3. leaving' \in Dialogs /\ ~leaving'.open /\ leaving'.pending = "NO"
      BY <3>1 DEF ClosedDialog, Dialogs
    <3>4. AccountRecords'
      BY <2>1, <2>3, <2>4, <3>2, <3>3 DEF AccountRecords, Places
    <3>5. PagesFit'
      BY <2>1, <3>2, <3>3 DEF PagesFit, SignedFits, LeavingFits
    <3> QED BY <2>1, <3>2, <3>4, <3>5 DEF EntryFits, SentFits, NoForeignAnimal, AnalysedByAgreement
  <2>6. CASE ~(served /\ heard)
    <3>1. /\ form' = IF form.phase = "SAVING" THEN [form EXCEPT !.phase = "READY"] ELSE form
          /\ UNCHANGED <<place, agreement, leaving>>
      BY <1>13, <2>6 DEF SaveAnswers
    <3>2. form' \in Forms /\ form'.phase # "SAVING" /\ (form'.phase = "NONE" <=> form.phase = "NONE")
      BY <3>1 DEF AccountRecords, Forms
    <3>3. AccountRecords'
      BY <2>1, <2>3, <2>4, <3>1, <3>2 DEF AccountRecords
    <3>4. PagesFit'
      BY <2>1, <3>1, <3>2 DEF PagesFit, SignedFits, FormFits, AgreementFits, LeavingFits
    <3> QED BY <2>1, <3>2, <3>3, <3>4 DEF EntryFits, SentFits, NoForeignAnimal, AnalysedByAgreement
  <2> QED BY <2>5, <2>6
<1>14. ASSUME agreement' \in Agreements, place = "CONSENTS", edits' \in 0..MaxEdits,
              people' \in [Users -> People],
              UNCHANGED <<who, place, portrait, leaving, form, saving, entry, snapshot>>
       PROVE  AccountInv'
  <2>1. AccountRecords'
    BY <1>14 DEF AccountRecords
  <2>2. PagesFit'
    BY <1>14 DEF PagesFit, SignedFits, FormFits, AgreementFits, LeavingFits
  <2> QED BY <1>14, <2>1, <2>2 DEF EntryFits, SentFits, NoForeignAnimal, AnalysedByAgreement
<1>15. ASSUME agreement.phase # "NONE" \/ agreement.confirming \/ agreement.busy # "NO"
       PROVE  place = "CONSENTS" /\ who \in Users
  BY <1>15 DEF AccountRecords, PagesFit, AgreementFits, NoAgreement, SignedFits
<1>16. ASSUME NEW ok \in BOOLEAN, ConsentsLoad(ok) \/ ConfirmWithdraw(ok)
       PROVE  AccountInv'
  <2>1. place = "CONSENTS" /\ who \in Users
    BY <1>15, <1>16 DEF ConsentsLoad, ConfirmWithdraw
  <2>2. agreement \in Agreements /\ people[who].agreed \in BOOLEAN
    BY <2>1 DEF AccountRecords, People
  <2>3. agreement' \in Agreements
    BY <1>16, <2>2 DEF ConsentsLoad, ConfirmWithdraw, Agreements
  <2> QED BY <1>14, <1>16, <2>1, <2>3 DEF ConsentsLoad, ConfirmWithdraw, AccountRecords
<1>17. CASE ToggleConsent
  <2>1. place = "CONSENTS"
    BY <1>15, <1>17 DEF ToggleConsent
  <2>2. agreement' \in Agreements
    BY <1>17 DEF ToggleConsent, AccountRecords, Agreements
  <2>3. edits' \in 0..MaxEdits
    BY <1>17, AccountAssumption DEF ToggleConsent, AccountRecords
  <2> QED BY <1>14, <1>17, <2>1, <2>2, <2>3 DEF ToggleConsent, AccountRecords
<1>18. ASSUME NEW served \in BOOLEAN, NEW heard \in BOOLEAN, ConsentAnswers(served, heard)
       PROVE  AccountInv'
  <2> DEFINE agreed == IF served THEN agreement.busy = "GRANT" ELSE people[who].agreed
  <2>1. /\ agreement.busy # "NO" /\ people' = [people EXCEPT ![who].agreed = agreed]
        /\ agreement' = [agreement EXCEPT !.busy = "NO",
                                          !.shown = IF served /\ heard THEN agreed ELSE @]
        /\ UNCHANGED <<edits, who, place, portrait, leaving, form, saving, entry, snapshot>>
    BY <1>18 DEF ConsentAnswers
  <2>2. place = "CONSENTS" /\ who \in Users
    BY <1>15, <2>1
  <2>3. agreed \in BOOLEAN
    BY <2>2 DEF AccountRecords, People
  <2> HIDE DEF agreed
  <2>4. agreement' \in Agreements
    BY <2>1, <2>3 DEF AccountRecords, Agreements
  <2>5. people' \in [Users -> People]
    BY <2>1, <2>2, <2>3 DEF AccountRecords, People
  <2> QED BY <1>14, <2>1, <2>2, <2>4, <2>5 DEF AccountRecords
<1>19. ASSUME entry' \in Entries, snapshot' \in Snapshots, EntryFits', AnalysedByAgreement',
              UNCHANGED <<people, edits, who, place, portrait, leaving, form, saving, agreement>>
       PROVE  AccountInv'
  <2>1. AccountRecords'
    BY <1>19 DEF AccountRecords
  <2>2. PagesFit'
    BY <1>19 DEF PagesFit, SignedFits, FormFits, AgreementFits, LeavingFits
  <2> QED BY <1>19, <2>1, <2>2 DEF SentFits, NoForeignAnimal
<1>20. CASE EnterSession
  <2>1. /\ place = "HOME" /\ entry' = [entry EXCEPT !.phase = "READING"]
        /\ UNCHANGED <<people, edits, who, place, portrait, leaving, form, saving, agreement, snapshot>>
    BY <1>20 DEF EnterSession
  <2>2. who # Nobody
    BY <2>1 DEF PagesFit, SignedFits
  <2>3. entry' \in Entries /\ entry'.read = entry.read
    BY <2>1 DEF AccountRecords, Entries
  <2>4. EntryFits' /\ AnalysedByAgreement'
    BY <2>1, <2>2, <2>3 DEF EntryFits, AnalysedByAgreement
  <2> QED BY <1>19, <2>1, <2>3, <2>4 DEF AccountRecords
<1>21. ASSUME NEW ok \in BOOLEAN, ConsentIsRead(ok)
       PROVE  AccountInv'
  <2> DEFINE said == ok /\ people[who].agreed
  <2>1. /\ entry.phase = "READING" /\ entry' = [phase |-> "WRITING", read |-> said]
        /\ snapshot' = [snapshot EXCEPT !.agreed = snapshot.agreed \/ said]
        /\ UNCHANGED <<people, edits, who, place, portrait, leaving, form, saving, agreement>>
    BY <1>21 DEF ConsentIsRead, HasFaceConsent
  <2>2. who # Nobody /\ who \in Users
    BY <2>1 DEF EntryFits, AccountRecords
  <2>3. said \in BOOLEAN
    OBVIOUS
  <2> HIDE DEF said
  <2>4. entry' \in Entries /\ entry'.read = said
    BY <2>1, <2>3 DEF Entries
  <2>5. /\ snapshot' \in Snapshots /\ snapshot'.flag = snapshot.flag
        /\ snapshot'.agreed = (snapshot.agreed \/ said)
    BY <2>1, <2>3 DEF AccountRecords, Snapshots
  <2>6. EntryFits' /\ AnalysedByAgreement'
    BY <2>1, <2>2, <2>4, <2>5 DEF EntryFits, AnalysedByAgreement
  <2> QED BY <1>19, <2>1, <2>4, <2>5, <2>6
<1>22. ASSUME NEW ok \in BOOLEAN, SettingsAnswer(ok)
       PROVE  AccountInv'
  <2>1. /\ entry' = [phase |-> "OUT", read |-> FALSE]
        /\ snapshot' = IF ok THEN [snapshot EXCEPT !.flag = entry.read] ELSE snapshot
        /\ UNCHANGED <<people, edits, who, place, portrait, leaving, form, saving, agreement>>
    BY <1>22 DEF SettingsAnswer
  <2>2. entry' \in Entries /\ entry'.phase = "OUT" /\ ~entry'.read
    BY <2>1 DEF Entries
  <2>3. /\ snapshot' \in Snapshots /\ snapshot'.agreed = snapshot.agreed
        /\ snapshot'.flag => snapshot.flag \/ entry.read
    BY <2>1 DEF AccountRecords, Entries, Snapshots
  <2>4. EntryFits' /\ AnalysedByAgreement'
    BY <2>2, <2>3 DEF EntryFits, AnalysedByAgreement
  <2> QED BY <1>19, <2>1, <2>2, <2>3, <2>4
<1>23. CASE ChangedElsewhere
  <2>1. /\ who # Nobody /\ edits < MaxEdits /\ edits' = edits + 1
        /\ UNCHANGED <<who, place, portrait, leaving, form, saving, agreement, entry, snapshot>>
        /\ \/ people' = [people EXCEPT ![who].agreed = ~people[who].agreed]
           \/ \E f \in Fields : people' = [people EXCEPT ![who].profile[f] = 1 - people[who].profile[f]]
    BY <1>23 DEF ChangedElsewhere, pages
  <2>2. who \in Users /\ people \in [Users -> People]
    BY <2>1 DEF AccountRecords
  <2>3. people' \in [Users -> People]
    <3>1. CASE people' = [people EXCEPT ![who].agreed = ~people[who].agreed]
      BY <2>2, <3>1 DEF People
    <3>2. ASSUME NEW f \in Fields,
                 people' = [people EXCEPT ![who].profile[f] = 1 - people[who].profile[f]]
          PROVE  people' \in [Users -> People]
      <4>1. people[who].profile \in [Fields -> 0..1]
        BY <2>2 DEF People, Profiles
      <4>2. [people[who].profile EXCEPT ![f] = 1 - people[who].profile[f]] \in Profiles
        BY <4>1 DEF Profiles
      <4> QED BY <2>2, <3>2, <4>2 DEF People
    <3> QED BY <2>1, <3>1, <3>2
  <2>4. edits' \in 0..MaxEdits
    BY <2>1, AccountAssumption DEF AccountRecords
  <2>5. AccountRecords'
    BY <2>1, <2>3, <2>4 DEF AccountRecords
  <2> QED BY <2>1, <2>5 DEF PagesFit, SignedFits, FormFits, AgreementFits, LeavingFits,
                           EntryFits, SentFits, NoForeignAnimal, AnalysedByAgreement
<1>24. CASE UNCHANGED accountVars
  BY <1>24 DEF accountVars, AccountRecords, PagesFit, SignedFits, FormFits, AgreementFits,
               LeavingFits, EntryFits, SentFits, NoForeignAnimal, AnalysedByAgreement
<1> QED BY <1>1, <1>2, <1>3, <1>4, <1>5, <1>6, <1>8, <1>9, <1>10, <1>11, <1>12, <1>13, <1>16,
           <1>17, <1>18, <1>20, <1>21, <1>22, <1>23, <1>24 DEF AccountNext

----------------------------------------------------------------------------
(* The camera and what is made of a face, in all parts together. *)

\* For any bound on requests, attempts and changes and any length of a practice: no
\* camera is held by a page that was left, a result that is announced is stored, a
\* session that analyses faces was agreed to, and no user sees another's animal.
THEOREM FacesArePrivate == Spec => []FaceIsPrivate
<1> DEFINE Inv == PracticeInv /\ FaceInv /\ AccountInv
<1>1. Init => Inv
  BY PartsBegin, PracticeBegins, FaceBegins, AccountBegins
<1>2. Inv /\ [Next]_vars => Inv'
  BY PartsMoveAlone, PracticeSteps, FaceSteps, AccountSteps
<1>3. Inv => FaceIsPrivate
  BY PracticeGives, FaceGives DEF FaceIsPrivate, AccountInv
<1> QED BY <1>1, <1>2, <1>3, PTL DEF Spec

----------------------------------------------------------------------------
(* The conversation with the chatbot: a closed one is final, for any       *)
(* number of requests.  An answer is produced only while the conversation  *)
(* is open, and every message is paid for by a request of the page.        *)

Bots == [active : BOOLEAN, state : {"IDLE", "PROCESSING", "FAILED", "CANCELLED"}, pending : Nat,
         log : Seq({"USER", "AI"}), worker : [of : Nat, heard : BOOLEAN]]
ChatAsks == [kind : {"NONE", "SEND", "RETRY"}, of : Nat]

\* The server works on an answer while the turn is processed, for a message it has.
BotFits(b) ==
  /\ b \in Bots
  /\ b.pending <= Len(b.log) /\ b.worker.of <= Len(b.log)
  /\ b.worker.of # 0 <=> b.state = "PROCESSING"
  /\ b.state # "IDLE" => b.pending # 0
  /\ b.state = "PROCESSING" => b.active

AskFits(ask, b) == ask \in ChatAsks /\ ask.of <= Len(b.log)

TalkFits ==
  /\ DOMAIN talk = {"list", "draft", "busy", "state", "pending", "ended", "loaded", "asks"}
  /\ talk.busy \in BOOLEAN /\ talk.asks \in 0..MaxAsks
  /\ talk.pending \in Nat /\ talk.pending <= Len(bot.log)
  /\ talk.ended => ~bot.active

StreamFits ==
  /\ DOMAIN stream = {"ask", "served", "wire"} /\ stream.served \in BOOLEAN
  /\ AskFits(stream.ask, bot) /\ AskFits(astray, bot)
  /\ stream.ask # NoRequest <=> talk.busy
  /\ orders \subseteq {"CANCEL", "CLOSE"}

\* The messages that are there and may still come: two of a request that was not
\* served, one of an answer in the making.
Messages(b) == Len(b.log)
Work(b) == IF b.worker.of # 0 THEN 1 ELSE 0
Due(ask) == IF ask = NoRequest THEN 0 ELSE 2
AwaitedOf(s) == IF s.served THEN 0 ELSE Due(s.ask)
LogFits == Messages(bot) + Work(bot) + AwaitedOf(stream) + Due(astray) <= 2 * talk.asks + 1

ChatInv == BotFits(bot) /\ TalkFits /\ StreamFits /\ LogFits

LEMMA ChatGives == ChatInv => ChatTypeOK
<1> SUFFICES ASSUME ChatInv PROVE ChatTypeOK
  OBVIOUS
<1>1. bot \in Bots /\ Len(bot.log) \in Nat /\ Messages(bot) \in Nat /\ Work(bot) \in 0..1
  BY DEF ChatInv, BotFits, Bots, Work, Messages
<1>2. talk.asks \in 0..MaxAsks /\ AwaitedOf(stream) \in 0..2 /\ Due(astray) \in 0..2
  BY DEF ChatInv, TalkFits, AwaitedOf, Due
<1>3. Len(bot.log) <= 2 * MaxAsks + 1
  <2>1. Messages(bot) + Work(bot) + AwaitedOf(stream) + Due(astray) <= 2 * talk.asks + 1
    BY DEF ChatInv, LogFits
  <2>2. Messages(bot) <= 2 * MaxAsks + 1
    BY <1>1, <1>2, <2>1, ChatAssumption
  <2> QED BY <2>2 DEF Messages
<1>4. /\ bot.log \in Seq({"USER", "AI"}) /\ bot.state \in {"IDLE", "PROCESSING", "FAILED", "CANCELLED"}
      /\ bot.pending \in Nat /\ bot.worker.of \in Nat
  BY <1>1 DEF Bots
<1>5. \A ask \in {stream.ask, astray} :
        ask.kind \in {"NONE", "SEND", "RETRY"} /\ ask.of \in 0..Len(bot.log)
  BY <1>1 DEF ChatInv, StreamFits, AskFits, ChatAsks
<1> QED BY <1>1, <1>3, <1>4, <1>5 DEF ChatTypeOK, ChatInv, BotFits, StreamFits, TalkFits

FailedBot == [NewBot EXCEPT !.log = <<"USER">>, !.state = "FAILED", !.pending = 1]

LEMMA NewBotFits ==
  /\ BotFits(NewBot) /\ Len(NewBot.log) = 0 /\ Work(NewBot) = 0
  /\ BotFits(FailedBot) /\ Len(FailedBot.log) = 1 /\ Work(FailedBot) = 0
<1>1. <<>> \in Seq({"USER", "AI"}) /\ Len(<<>>) = 0
      /\ <<"USER">> \in Seq({"USER", "AI"}) /\ Len(<<"USER">>) = 1
  OBVIOUS
<1>2. NewBot \in Bots
  BY <1>1 DEF NewBot, NoWorker, Bots
<1>3. FailedBot \in Bots
  BY <1>1, <1>2 DEF FailedBot, Bots
<1>4. BotFits(NewBot) /\ Len(NewBot.log) = 0 /\ Work(NewBot) = 0
  BY <1>1, <1>2 DEF BotFits, Work, NewBot, NoWorker
<1> QED BY <1>1, <1>3, <1>4 DEF BotFits, Work, FailedBot, NewBot, NoWorker

LEMMA ChatBegins == ChatInit \/ ChatIdle => ChatInv
<1> SUFFICES ASSUME ChatInit \/ ChatIdle PROVE ChatInv
  OBVIOUS
<1>1. BotFits(bot) /\ Messages(bot) \in 0..1 /\ Work(bot) = 0 /\ Len(bot.log) \in Nat
  <2>1. bot = NewBot \/ bot = FailedBot
    BY DEF ChatInit, ChatIdle, FailedBot
  <2> QED BY <2>1, NewBotFits DEF Messages
<1>2. talk = NewTalk /\ stream = NoStream /\ astray = NoRequest /\ orders = {}
  BY DEF ChatInit, ChatIdle
<1>3. TalkFits
  BY <1>1, <1>2, ChatAssumption DEF TalkFits, NewTalk
<1>4. NoRequest \in ChatAsks /\ NoRequest.of = 0
  BY DEF NoRequest, ChatAsks
<1>5. StreamFits
  BY <1>1, <1>2, <1>4 DEF StreamFits, AskFits, NoStream, NewTalk
<1>6. LogFits
  <2>1. stream.ask = NoRequest /\ talk.asks = 0
    BY <1>2 DEF NoStream, NewTalk
  <2>2. AwaitedOf(stream) = 0 /\ Due(astray) = 0
    BY <1>2, <2>1 DEF AwaitedOf, Due
  <2>3. Messages(bot) + Work(bot) + AwaitedOf(stream) + Due(astray) <= 1 /\ 2 * talk.asks + 1 = 1
    BY <1>1, <2>1, <2>2
  <2> QED BY <2>3 DEF LogFits
<1> QED BY <1>1, <1>3, <1>5, <1>6 DEF ChatInv

----------------------------------------------------------------------------
(* What the server makes of a request and of its work. *)

\* A turn writes at most one message and sets the worker to work where it rested.
LEMMA TurnFits ==
  ASSUME NEW ask, AskFits(ask, bot), BotFits(bot), NEW heard \in BOOLEAN
  PROVE  /\ BotFits(Turned(ask, heard)) /\ Turned(ask, heard).active = bot.active
         /\ Len(Turned(ask, heard).log) \in {Len(bot.log), Len(bot.log) + 1}
         /\ Messages(Turned(ask, heard)) + Work(Turned(ask, heard)) <= Messages(bot) + Work(bot) + 2
         /\ Turned(ask, heard) # bot => bot.active
<1> DEFINE t == Turned(ask, heard)
           w == [of |-> Len(bot.log) + 1, heard |-> heard]
           v == [of |-> bot.pending, heard |-> heard]
<1>1. bot \in Bots /\ bot.log \in Seq({"USER", "AI"}) /\ Len(bot.log) \in Nat /\ bot.pending \in Nat
  BY DEF BotFits, Bots
<1>2. CASE ask.kind = "SEND" /\ bot.active /\ bot.state # "PROCESSING"
  <2>1. t = [bot EXCEPT !.log = Append(bot.log, "USER"), !.state = "PROCESSING",
                        !.pending = Len(bot.log) + 1, !.worker = w]
    BY <1>2 DEF Turned
  <2>2. Append(bot.log, "USER") \in Seq({"USER", "AI"})
        /\ Len(Append(bot.log, "USER")) = Len(bot.log) + 1
    BY <1>1
  <2>3. w \in [of : Nat, heard : BOOLEAN] /\ w.of = Len(bot.log) + 1
    BY <1>1
  <2> HIDE DEF t, w
  <2>4. /\ t \in Bots /\ t.active = bot.active /\ t.state = "PROCESSING"
        /\ t.log = Append(bot.log, "USER") /\ t.pending = Len(bot.log) + 1 /\ t.worker = w
    BY <1>1, <2>1, <2>2, <2>3 DEF Bots
  <2>5. BotFits(t)
    BY <1>1, <1>2, <2>2, <2>3, <2>4 DEF BotFits
  <2>6. Work(t) = 1 /\ Work(bot) = 0
    BY <1>1, <1>2, <2>3, <2>4 DEF Work, BotFits
  <2>7. Messages(t) = Messages(bot) + 1 /\ Messages(bot) \in Nat
    BY <1>1, <2>2, <2>4 DEF Messages
  <2>8. Messages(t) + Work(t) <= Messages(bot) + Work(bot) + 2
    BY <2>6, <2>7
  <2> QED BY <1>1, <1>2, <2>2, <2>4, <2>5, <2>8 DEF t
<1>3. CASE /\ ask.kind = "RETRY" /\ bot.active /\ bot.state \in {"FAILED", "CANCELLED"}
           /\ ask.of = bot.pending
  <2>1. t = [bot EXCEPT !.state = "PROCESSING", !.worker = v]
    BY <1>3 DEF Turned
  <2>2. v \in [of : Nat, heard : BOOLEAN] /\ v.of = bot.pending
    BY <1>1
  <2> HIDE DEF t, v
  <2>3. /\ t \in Bots /\ t.active = bot.active /\ t.state = "PROCESSING"
        /\ t.log = bot.log /\ t.pending = bot.pending /\ t.worker = v
    BY <1>1, <2>1, <2>2 DEF Bots
  <2>4. BotFits(t)
    BY <1>1, <1>3, <2>2, <2>3 DEF BotFits
  <2>5. Work(t) \in 0..1 /\ Work(bot) \in 0..1
    BY DEF Work
  <2>6. Messages(t) = Messages(bot) /\ Messages(bot) \in Nat
    BY <1>1, <2>3 DEF Messages
  <2>7. Messages(t) + Work(t) <= Messages(bot) + Work(bot) + 2
    BY <2>5, <2>6
  <2> QED BY <1>1, <1>3, <2>3, <2>4, <2>7 DEF t
<1>4. CASE t = bot
  <2>1. Work(bot) \in 0..1 /\ Messages(bot) \in Nat
    BY <1>1 DEF Work, Messages
  <2>2. Messages(bot) + Work(bot) <= Messages(bot) + Work(bot) + 2
    BY <2>1
  <2> HIDE DEF t
  <2> QED BY <1>1, <1>4, <2>2 DEF t
<1> QED BY <1>2, <1>3, <1>4 DEF Turned

\* The worker rests, with or without having answered; nobody may listen any more.
LEMMA RestFits ==
  ASSUME BotFits(bot), NEW state \in {"FAILED", "CANCELLED"}, bot.worker.of # 0
  PROVE  /\ BotFits(Rested(state)) /\ Rested(state).log = bot.log /\ Work(Rested(state)) = 0
         /\ Rested(state).active = bot.active
<1>1. bot \in Bots /\ NoWorker \in [of : Nat, heard : BOOLEAN] /\ NoWorker.of = 0
  BY DEF BotFits, Bots, NoWorker
<1>2. Rested(state) = [bot EXCEPT !.state = state, !.worker = NoWorker]
  BY DEF Rested
<1>3. /\ Rested(state) \in Bots /\ Rested(state).state = state /\ Rested(state).worker = NoWorker
      /\ Rested(state).log = bot.log /\ Rested(state).pending = bot.pending
      /\ Rested(state).active = bot.active
  BY <1>1, <1>2 DEF Bots
<1>4. Len(bot.log) \in Nat
  BY <1>1 DEF Bots
<1> QED BY <1>1, <1>3, <1>4 DEF BotFits, Work

LEMMA UnheardFits ==
  ASSUME BotFits(bot)
  PROVE  /\ BotFits(Unheard) /\ Unheard.log = bot.log /\ Work(Unheard) = Work(bot)
         /\ Unheard.active = bot.active
<1> DEFINE w == [bot.worker EXCEPT !.heard = FALSE]
<1>1. bot \in Bots /\ w \in [of : Nat, heard : BOOLEAN] /\ w.of = bot.worker.of
  BY DEF BotFits, Bots
<1>2. Unheard = [bot EXCEPT !.worker = w]
  BY DEF Unheard
<1> HIDE DEF w
<1>3. /\ Unheard \in Bots /\ Unheard.state = bot.state /\ Unheard.worker = w
      /\ Unheard.log = bot.log /\ Unheard.pending = bot.pending /\ Unheard.active = bot.active
  BY <1>1, <1>2 DEF Bots
<1> QED BY <1>1, <1>3 DEF BotFits, Work

LEMMA SaidStays ==
  ASSUME StreamFits, NEW events
  PROVE  /\ DOMAIN Said(events) = DOMAIN stream /\ Said(events).ask = stream.ask
         /\ Said(events).served = stream.served
BY DEF Said, StreamFits

\* The server's part of a step: nothing is taken from the log, and nothing added to
\* the log of a closed conversation.
Grows(b) ==
  /\ BotFits(b) /\ (b.active => bot.active) /\ Len(bot.log) <= Len(b.log)
  /\ ~bot.active => b.log = bot.log

LEMMA BotsGrow ==
  ASSUME BotFits(bot)
  PROVE  /\ Grows(bot) /\ Grows(Unheard) /\ Grows(Closed)
         /\ Len(Closed.log) = Len(bot.log) /\ Work(Closed) = Work(bot)
         /\ \A ask, heard : AskFits(ask, bot) /\ heard \in BOOLEAN => Grows(Turned(ask, heard))
         /\ bot.worker.of # 0 => Grows(Rested("FAILED")) /\ Grows(Rested("CANCELLED"))
<1>1. bot \in Bots /\ Len(bot.log) \in Nat
  BY DEF BotFits, Bots
<1>2. Grows(bot) /\ Grows(Unheard)
  BY <1>1, UnheardFits DEF Grows
<1>3. Grows(Closed) /\ Len(Closed.log) = Len(bot.log) /\ Work(Closed) = Work(bot)
  <2>1. CASE bot.state = "PROCESSING"
    BY <1>2, <2>1 DEF Closed
  <2>2. CASE bot.state # "PROCESSING"
    <3>1. Closed = [bot EXCEPT !.active = FALSE]
      BY <2>2 DEF Closed
    <3>2. /\ Closed \in Bots /\ Closed.state = bot.state /\ Closed.worker = bot.worker
          /\ Closed.log = bot.log /\ Closed.pending = bot.pending /\ Closed.active = FALSE
      BY <1>1, <3>1 DEF Bots
    <3> QED BY <1>1, <2>2, <3>2 DEF Grows, BotFits, Work
  <2> QED BY <2>1, <2>2
<1>4. ASSUME NEW ask, NEW heard \in BOOLEAN, AskFits(ask, bot)
      PROVE  Grows(Turned(ask, heard))
  BY <1>1, <1>4, TurnFits DEF Grows
<1>5. bot.worker.of # 0 => Grows(Rested("FAILED")) /\ Grows(Rested("CANCELLED"))
  BY <1>1, RestFits DEF Grows
<1> QED BY <1>2, <1>3, <1>4, <1>5

LEMMA GrownFits ==
  ASSUME BotFits(bot), Grows(bot')
  PROVE  /\ TalkFits /\ UNCHANGED talk => TalkFits'
         /\ \A ask : AskFits(ask, bot) => AskFits(ask, bot')
<1>1. /\ Len(bot.log) \in Nat /\ Len(bot'.log) \in Nat /\ Len(bot.log) <= Len(bot'.log)
      /\ bot'.active => bot.active
  BY DEF Grows, BotFits, Bots
<1>2. ASSUME NEW ask, AskFits(ask, bot) PROVE AskFits(ask, bot')
  <2>1. ask \in ChatAsks /\ ask.of \in Nat /\ ask.of <= Len(bot.log)
    BY <1>2 DEF AskFits, ChatAsks
  <2> QED BY <1>1, <2>1 DEF AskFits
<1>3. ASSUME TalkFits, UNCHANGED talk PROVE TalkFits'
  <2>1. talk.pending \in Nat /\ talk.pending <= Len(bot.log) /\ (talk.ended => ~bot.active)
    BY <1>3 DEF TalkFits
  <2>2. talk'.pending <= Len(bot'.log) /\ (talk'.ended => ~bot'.active)
    BY <1>1, <1>3, <2>1
  <2> QED BY <1>3, <2>2 DEF TalkFits
<1> QED BY <1>2, <1>3

LEMMA LessStays ==
  \A m, w, a, d, n, x, y \in Nat :
    m + w + a + d <= 2 * n + 1 /\ x + y <= m + w => x + y + a + d <= 2 * n + 1
OBVIOUS

LEMMA OneMore == \A n, m \in Nat : n < m => n + 1 \in 0..m
OBVIOUS

\* What a step keeps.
ChatKept == ChatInv' /\ (~bot.active => bot'.log = bot.log)

LEMMA ChatSteps ==
  ASSUME ChatInv, ChatNext \/ UNCHANGED chatVars
  PROVE  ChatKept
<1> USE DEF ChatInv
<1>0. /\ Len(bot.log) \in Nat /\ Messages(bot) \in Nat /\ Work(bot) \in 0..1
      /\ AwaitedOf(stream) \in 0..2 /\ Due(astray) \in 0..2 /\ Due(stream.ask) \in 0..2
      /\ talk.asks \in Nat
      /\ Messages(bot) + Work(bot) + AwaitedOf(stream) + Due(astray) <= 2 * talk.asks + 1
  <2>1. Len(bot.log) \in Nat /\ Messages(bot) \in Nat
    BY DEF BotFits, Bots, Messages
  <2>2. Work(bot) \in 0..1 /\ AwaitedOf(stream) \in 0..2 /\ Due(astray) \in 0..2
        /\ Due(stream.ask) \in 0..2
    BY DEF Work, AwaitedOf, Due
  <2>3. talk.asks \in Nat
    BY DEF TalkFits
  <2> QED BY <2>1, <2>2, <2>3 DEF LogFits
<1>a. AskFits(NoRequest, bot) /\ Due(NoRequest) = 0 /\ Work(bot') \in 0..1
  BY <1>0 DEF AskFits, NoRequest, ChatAsks, Due, Work
\* The server moves, the page waits.
<1>1. ASSUME Grows(bot'), UNCHANGED <<talk, orders>>, DOMAIN stream' = DOMAIN stream,
             stream'.ask = stream.ask, stream'.served \in BOOLEAN, astray' \in {astray, NoRequest},
             Messages(bot') + Work(bot') + AwaitedOf(stream') + Due(astray') <= 2 * talk.asks + 1
      PROVE  ChatKept
  <2>1. TalkFits'
    BY <1>1, GrownFits
  <2>2. AskFits(stream'.ask, bot') /\ AskFits(astray', bot')
    BY <1>1, <1>a, GrownFits DEF StreamFits
  <2>3. StreamFits'
    BY <1>1, <2>2 DEF StreamFits
  <2>4. LogFits'
    BY <1>1 DEF LogFits
  <2> QED BY <1>1, <2>1, <2>3, <2>4 DEF ChatKept, Grows
<1>2. CASE TurnServed
  <2>1. /\ stream.ask # NoRequest /\ ~stream.served /\ bot' = Turned(stream.ask, TRUE)
        /\ UNCHANGED <<talk, astray, orders>>
    BY <1>2 DEF TurnServed
  <2>2. DOMAIN stream' = DOMAIN stream /\ stream'.ask = stream.ask /\ stream'.served = TRUE
    BY <1>2 DEF TurnServed, StreamFits
  <2>3. Grows(bot') /\ Messages(bot') + Work(bot') <= Messages(bot) + Work(bot) + 2
    BY <2>1, BotsGrow, TurnFits DEF StreamFits
  <2>4. AwaitedOf(stream) = 2 /\ AwaitedOf(stream') = 0
    BY <2>1, <2>2 DEF AwaitedOf, Due
  <2>a. Due(astray') = Due(astray)
    BY <2>1
  <2>b. Messages(bot') \in Nat
    BY <2>3 DEF Grows, BotFits, Bots, Messages
  <2>5. Messages(bot) + Work(bot) + 2 + Due(astray) <= 2 * talk.asks + 1
    BY <1>0, <2>4
  <2>6. Messages(bot') + Work(bot') + AwaitedOf(stream') + Due(astray') <= 2 * talk.asks + 1
    <3>1. /\ {Messages(bot), Messages(bot'), Work(bot), Work(bot'), Due(astray)} \subseteq Nat
          /\ 2 * talk.asks + 1 \in Nat
      BY <1>0, <1>a, <2>b
    <3> QED BY ONLY <2>3, <2>4, <2>a, <2>5, <3>1
  <2> QED BY <1>1, <2>1, <2>2, <2>3, <2>6
<1>3. CASE AstrayServed
  <2>1. /\ astray # NoRequest /\ astray' = NoRequest /\ UNCHANGED <<talk, stream, orders>>
        /\ bot' \in {bot, Turned(astray, FALSE)}
    BY <1>3 DEF AstrayServed
  <2>2. Grows(bot') /\ Messages(bot') + Work(bot') <= Messages(bot) + Work(bot) + 2
    <3>1. CASE bot' = bot
      <4>1. Grows(bot')
        BY <3>1, BotsGrow
      <4>2. Messages(bot') = Messages(bot) /\ Work(bot') = Work(bot)
        BY <3>1
      <4> QED BY <1>0, <4>1, <4>2
    <3>2. CASE bot' = Turned(astray, FALSE)
      <4>1. BotFits(bot) /\ AskFits(astray, bot) /\ FALSE \in BOOLEAN
        BY DEF StreamFits
      <4>2. Grows(Turned(astray, FALSE))
        BY <4>1, BotsGrow
      <4>3. Messages(Turned(astray, FALSE)) + Work(Turned(astray, FALSE))
              <= Messages(bot) + Work(bot) + 2
        BY <4>1, TurnFits
      <4> QED BY <3>2, <4>2, <4>3
    <3> QED BY <2>1, <3>1, <3>2
  <2>3. Due(astray) = 2 /\ Due(astray') = 0
    BY <2>1 DEF Due
  <2>4. Messages(bot') \in Nat /\ AwaitedOf(stream') = AwaitedOf(stream)
    BY <2>1, <2>2 DEF Grows, BotFits, Bots, Messages
  <2>5. Messages(bot') + Work(bot') + AwaitedOf(stream') + Due(astray') <= 2 * talk.asks + 1
    <3>1. Messages(bot) + Work(bot) + AwaitedOf(stream) + 2 <= 2 * talk.asks + 1
      BY <1>0, <2>3
    <3>2. /\ {Messages(bot), Messages(bot'), Work(bot), Work(bot'), AwaitedOf(stream)} \subseteq Nat
          /\ 2 * talk.asks + 1 \in Nat
      BY <1>0, <1>a, <2>4
    <3> QED BY ONLY <2>2, <2>3, <2>4, <3>1, <3>2
  <2> QED BY <1>1, <2>1, <2>2, <2>5 DEF StreamFits
\* The worker says something or rests.
<1>4. ASSUME NEW events, stream' \in {stream, Said(events)}, UNCHANGED <<talk, astray, orders>>,
             Grows(bot'), Messages(bot') + Work(bot') <= Messages(bot) + Work(bot)
      PROVE  ChatKept
  <2>1. /\ DOMAIN stream' = DOMAIN stream /\ stream'.ask = stream.ask
        /\ stream'.served = stream.served
    BY <1>4, SaidStays
  <2>2. AwaitedOf(stream') = AwaitedOf(stream) /\ Messages(bot') \in Nat
    BY <1>4, <2>1 DEF AwaitedOf, Grows, BotFits, Bots, Messages
  <2>a. Due(astray') = Due(astray) /\ Messages(bot') + Work(bot') <= Messages(bot) + Work(bot)
    BY <1>4
  <2>b. /\ Messages(bot) \in Nat /\ Work(bot) \in Nat /\ AwaitedOf(stream) \in Nat
        /\ Due(astray) \in Nat /\ talk.asks \in Nat /\ Messages(bot') \in Nat /\ Work(bot') \in Nat
    BY ONLY <1>0, <1>a, <2>2
  <2>c. Messages(bot') + Work(bot') + AwaitedOf(stream) + Due(astray) <= 2 * talk.asks + 1
    BY ONLY <1>0, <2>a, <2>b, LessStays, Zenon
  <2>3. Messages(bot') + Work(bot') + AwaitedOf(stream') + Due(astray') <= 2 * talk.asks + 1
    BY ONLY <2>2, <2>a, <2>c, Zenon
  <2> QED BY <1>1, <1>4, <2>1, <2>3 DEF StreamFits
<1>5. ASSUME NEW state \in {"FAILED", "CANCELLED"}, bot.worker.of # 0, bot' = Rested(state)
      PROVE  Grows(bot') /\ Messages(bot') + Work(bot') <= Messages(bot) + Work(bot)
  <2>1. Grows(bot') /\ bot'.log = bot.log /\ Work(bot') = 0
    BY <1>5, BotsGrow, RestFits
  <2>2. Messages(bot') = Messages(bot)
    BY <2>1 DEF Messages
  <2> QED BY <1>0, <2>1, <2>2
<1>6. CASE WorkerSpeaks
  <2>1. bot.worker.of # 0 /\ UNCHANGED <<talk, astray, orders>>
    BY <1>6 DEF WorkerSpeaks
  <2>2. CASE bot.worker.heard
    <3>1. stream' = Said(<<Event("chunk", 0)>>) /\ UNCHANGED bot
      BY <1>6, <2>2 DEF WorkerSpeaks
    <3> QED BY <1>0, <1>4, <2>1, <3>1, BotsGrow
  <2>3. CASE ~bot.worker.heard
    <3>1. bot' = Rested("CANCELLED") /\ UNCHANGED stream
      BY <1>6, <2>3 DEF WorkerSpeaks
    <3> QED BY <1>4, <1>5, <2>1, <3>1
  <2> QED BY <2>2, <2>3
<1>7. CASE WorkerCompletes
  <2> DEFINE b == [bot EXCEPT !.state = "IDLE", !.worker = NoWorker, !.pending = 0,
                              !.log = Append(bot.log, "AI")]
  <2>1. /\ bot.worker.of # 0 /\ UNCHANGED <<talk, astray, orders>>
        /\ stream' = Said(<<Event("done", Len(bot.log) + 1)>>)
        /\ bot' = [Rested("IDLE") EXCEPT !.log = Append(Rested("IDLE").log, "AI"), !.pending = 0]
    BY <1>7 DEF WorkerCompletes
  <2>2. bot \in Bots /\ bot.state = "PROCESSING" /\ bot.active
    BY <2>1 DEF BotFits
  <2>3. /\ Append(bot.log, "AI") \in Seq({"USER", "AI"})
        /\ Len(Append(bot.log, "AI")) = Len(bot.log) + 1
    BY <2>2 DEF Bots
  <2>4. NoWorker \in [of : Nat, heard : BOOLEAN] /\ NoWorker.of = 0
    BY DEF NoWorker
  <2>5. /\ Rested("IDLE") \in Bots /\ Rested("IDLE").log = bot.log
        /\ Rested("IDLE").active = bot.active /\ Rested("IDLE").state = "IDLE"
        /\ Rested("IDLE").worker = NoWorker
    BY <2>2, <2>4 DEF Rested, Bots
  <2>6. /\ bot' \in Bots /\ bot'.log = Append(bot.log, "AI") /\ bot'.pending = 0
        /\ bot'.state = "IDLE" /\ bot'.worker = NoWorker /\ bot'.active = bot.active
    BY <2>1, <2>3, <2>5 DEF Bots
  <2>7. BotFits(bot')
    BY <1>0, <2>3, <2>4, <2>6 DEF BotFits
  <2>8. Grows(bot')
    BY <1>0, <2>2, <2>3, <2>6, <2>7 DEF Grows
  <2>9. Work(bot') = 0 /\ Work(bot) = 1
    BY <2>1, <2>4, <2>6 DEF Work
  <2>10. Messages(bot') = Messages(bot) + 1
    BY <2>3, <2>6 DEF Messages
  <2>11. Messages(bot') + Work(bot') <= Messages(bot) + Work(bot)
    BY <1>0, <2>9, <2>10
  <2> QED BY <1>4, <2>1, <2>8, <2>11
<1>8. CASE WorkerFails
  BY <1>4, <1>5, <1>8 DEF WorkerFails
<1>9. CASE WorkerTimesOut
  BY <1>4, <1>5, <1>9 DEF WorkerTimesOut
<1>10. CASE CancelServed
  <2>1. orders' = orders \ {"CANCEL"} /\ UNCHANGED <<talk, astray>>
    BY <1>10 DEF CancelServed
  <2>2. /\ Grows(bot') /\ Messages(bot') + Work(bot') <= Messages(bot) + Work(bot)
        /\ stream' \in {stream, Said(<<Event("end", 0)>>)}
    <3>1. CASE bot.worker.of = 0
      <4>1. UNCHANGED <<bot, stream>>
        BY <1>10, <3>1 DEF CancelServed
      <4> QED BY <1>0, <4>1, BotsGrow
    <3>2. CASE bot.worker.of # 0
      BY <1>5, <1>10, <3>2 DEF CancelServed
    <3> QED BY <3>1, <3>2
  <2>3. /\ DOMAIN stream' = DOMAIN stream /\ stream'.ask = stream.ask
        /\ stream'.served = stream.served
    BY <2>2, SaidStays
  <2>4. TalkFits'
    BY <2>1, <2>2, GrownFits
  <2>5. StreamFits'
    BY <2>1, <2>2, <2>3, GrownFits DEF StreamFits
  <2>6. LogFits'
    <3>1. AwaitedOf(stream') = AwaitedOf(stream) /\ Messages(bot') \in Nat
      BY <2>2, <2>3 DEF AwaitedOf, Grows, BotFits, Bots, Messages
    <3>2. /\ Due(astray') = Due(astray) /\ talk' = talk
          /\ Messages(bot') + Work(bot') <= Messages(bot) + Work(bot)
      BY <2>1, <2>2
    <3>a. /\ Messages(bot) \in Nat /\ Work(bot) \in Nat /\ AwaitedOf(stream) \in Nat
          /\ Due(astray) \in Nat /\ talk.asks \in Nat
          /\ Messages(bot') \in Nat /\ Work(bot') \in Nat
      BY ONLY <1>0, <1>a, <3>1
    <3>b. Messages(bot') + Work(bot') + AwaitedOf(stream) + Due(astray) <= 2 * talk.asks + 1
      BY ONLY <1>0, <3>2, <3>a, LessStays, Zenon
    <3>3. Messages(bot') + Work(bot') + AwaitedOf(stream') + Due(astray') <= 2 * talk.asks + 1
      BY ONLY <3>1, <3>2, <3>b, Zenon
    <3> QED BY <3>2, <3>3 DEF LogFits
  <2> QED BY <2>2, <2>4, <2>5, <2>6 DEF ChatKept, Grows
<1>11. ASSUME NEW arrives \in BOOLEAN, CloseServed(arrives)
       PROVE  ChatKept
  <2>1. /\ orders' = orders \ {"CLOSE"} /\ bot' = Closed /\ UNCHANGED <<stream, astray>>
        /\ talk' = [talk EXCEPT !.ended = arrives /\ ~bot'.active,
                                !.state = IF arrives /\ ~bot'.active THEN bot'.state ELSE talk.state,
                                !.pending = IF arrives /\ ~bot'.active THEN bot'.pending ELSE talk.pending]
    BY <1>11 DEF CloseServed
  <2>2. Grows(bot') /\ Len(bot'.log) = Len(bot.log) /\ Work(bot') = Work(bot)
    BY <2>1, BotsGrow
  <2>3. bot'.pending \in Nat /\ bot'.pending <= Len(bot'.log)
    BY <2>2 DEF Grows, BotFits, Bots
  <2>4. /\ DOMAIN talk' = DOMAIN talk /\ talk'.busy = talk.busy /\ talk'.asks = talk.asks
        /\ talk'.pending \in {bot'.pending, talk.pending} /\ (talk'.ended => ~bot'.active)
    BY <2>1 DEF TalkFits
  <2>5. TalkFits'
    BY <2>2, <2>3, <2>4 DEF TalkFits
  <2>6. StreamFits'
    BY <2>1, <2>2, <2>4, GrownFits DEF StreamFits
  <2>7. Messages(bot') = Messages(bot)
    BY <2>2 DEF Messages
  <2>8. LogFits'
    BY <2>1, <2>2, <2>4, <2>7 DEF LogFits
  <2> QED BY <2>2, <2>5, <2>6, <2>8 DEF ChatKept, Grows
\* The page alone.
<1>12. CASE Load \/ Write
  <2>1. UNCHANGED <<bot, stream, astray, orders>>
    BY <1>12 DEF Load, Write
  <2>2. /\ DOMAIN talk' = DOMAIN talk /\ talk'.busy = talk.busy /\ talk'.asks = talk.asks
        /\ talk'.pending \in {bot.pending, talk.pending} /\ talk'.ended = talk.ended
    BY <1>12 DEF Load, Write, TalkFits
  <2>3. bot.pending \in Nat /\ bot.pending <= Len(bot.log)
    BY DEF BotFits, Bots
  <2>4. TalkFits'
    BY <2>1, <2>2, <2>3 DEF TalkFits
  <2> QED BY <2>1, <2>2, <2>4 DEF ChatKept, StreamFits, LogFits
<1>13. ASSUME NEW ask, AskFits(ask, bot), ask # NoRequest, ~talk.busy, talk.asks < MaxAsks,
              stream' = [NoStream EXCEPT !.ask = ask], UNCHANGED <<bot, astray, orders>>,
              DOMAIN talk' = DOMAIN talk, talk'.busy = TRUE, talk'.asks = talk.asks + 1,
              talk'.pending = talk.pending, talk'.ended = talk.ended
       PROVE  ChatKept
  <2>1. DOMAIN stream' = {"ask", "served", "wire"} /\ stream'.ask = ask /\ stream'.served = FALSE
    BY <1>13 DEF NoStream
  <2>2. TalkFits'
    <3>a. talk.asks \in Nat /\ talk.asks < MaxAsks /\ MaxAsks \in Nat
          /\ talk'.asks = talk.asks + 1 /\ talk'.busy = TRUE
      BY <1>13, <1>0, ChatAssumption
    <3>b. talk.asks + 1 \in 0..MaxAsks
      BY ONLY <3>a, OneMore, Zenon
    <3>1. talk'.asks \in 0..MaxAsks /\ talk'.busy \in BOOLEAN
      BY ONLY <3>a, <3>b, Zenon
    <3>2. talk'.pending \in Nat /\ talk'.pending <= Len(bot'.log) /\ (talk'.ended => ~bot'.active)
      BY <1>13 DEF TalkFits
    <3> QED BY <1>13, <3>1, <3>2 DEF TalkFits
  <2>3. StreamFits'
    BY <1>13, <2>1 DEF StreamFits
  <2>4. LogFits'
    <3>1. AwaitedOf(stream') = 2 /\ AwaitedOf(stream) = 0
      BY <1>13, <2>1 DEF AwaitedOf, Due, StreamFits
    <3>2. Messages(bot) + Work(bot) + 2 + Due(astray) <= 2 * (talk.asks + 1) + 1
      BY <1>0, <3>1
    <3> QED BY <1>13, <3>1, <3>2 DEF LogFits
  <2> QED BY <1>13, <2>2, <2>3, <2>4 DEF ChatKept
<1>14. CASE HandleSend
  <2> DEFINE ask == [kind |-> "SEND", of |-> 0]
  <2>1. AskFits(ask, bot) /\ ask # NoRequest
    BY <1>0 DEF AskFits, ChatAsks, NoRequest
  <2> HIDE DEF ask
  <2>2. /\ "WRITE" \in ChatOffers /\ talk.asks < MaxAsks /\ stream' = [NoStream EXCEPT !.ask = ask]
        /\ UNCHANGED <<bot, astray, orders>>
    BY <1>14 DEF HandleSend, ask
  <2>3. ~talk.busy
    BY <2>2 DEF ChatOffers
  <2>4. /\ DOMAIN talk' = DOMAIN talk /\ talk'.busy = TRUE /\ talk'.asks = talk.asks + 1
        /\ talk'.pending = talk.pending /\ talk'.ended = talk.ended
    BY <1>14 DEF HandleSend, TalkFits
  <2> QED BY <1>13, <2>1, <2>2, <2>3, <2>4
<1>15. CASE HandleRetryReply
  <2> DEFINE ask == [kind |-> "RETRY", of |-> talk.pending]
  <2>1. AskFits(ask, bot) /\ ask # NoRequest
    BY <1>0 DEF AskFits, ChatAsks, NoRequest, TalkFits
  <2> HIDE DEF ask
  <2>2. /\ "RETRY" \in ChatOffers /\ talk.asks < MaxAsks /\ stream' = [NoStream EXCEPT !.ask = ask]
        /\ UNCHANGED <<bot, astray, orders>>
    BY <1>15 DEF HandleRetryReply, ask
  <2>3. ~talk.busy
    BY <2>2 DEF ChatOffers
  <2>4. /\ DOMAIN talk' = DOMAIN talk /\ talk'.busy = TRUE /\ talk'.asks = talk.asks + 1
        /\ talk'.pending = talk.pending /\ talk'.ended = talk.ended
    BY <1>15 DEF HandleRetryReply, TalkFits
  <2> QED BY <1>13, <2>1, <2>2, <2>3, <2>4
\* The stream is over.
<1>16. ASSUME stream' = NoStream, DOMAIN talk' = DOMAIN talk, talk'.busy = FALSE,
              talk'.asks = talk.asks, talk'.ended = talk.ended, talk'.pending \in {0, talk.pending},
              bot' \in {bot, Unheard}, orders' \subseteq {"CANCEL", "CLOSE"},
              astray' \in {astray, IF stream.served THEN astray ELSE stream.ask}
       PROVE  ChatKept
  <2>1. DOMAIN stream' = {"ask", "served", "wire"} /\ stream'.ask = NoRequest /\ stream'.served = FALSE
    BY <1>16 DEF NoStream
  <2>2. /\ Grows(bot') /\ bot'.log = bot.log /\ Work(bot') = Work(bot) /\ bot'.active = bot.active
    BY <1>16, BotsGrow, UnheardFits
  <2>3. TalkFits'
    <3>1. talk'.pending \in Nat /\ talk'.pending <= Len(bot.log)
      BY <1>0, <1>16 DEF TalkFits
    <3>2. talk'.ended => ~bot'.active
      BY <1>16, <2>2 DEF TalkFits
    <3> QED BY <1>16, <2>2, <3>1, <3>2 DEF TalkFits
  <2>4. StreamFits'
    <3>1. AskFits(astray', bot') /\ AskFits(NoRequest, bot')
      BY <1>16, <1>a, <2>2, GrownFits DEF StreamFits
    <3> QED BY <1>16, <2>1, <3>1 DEF StreamFits
  <2>5. LogFits'
    <3>1. AwaitedOf(stream') = 0 /\ Due(astray') <= AwaitedOf(stream) + Due(astray)
          /\ Due(astray') \in 0..2
      BY <1>0, <1>16, <1>a, <2>1 DEF AwaitedOf, Due
    <3>2. Messages(bot) + Work(bot) + AwaitedOf(stream') + Due(astray') <= 2 * talk.asks + 1
      BY <1>0, <3>1
    <3>3. Messages(bot') = Messages(bot)
      BY <2>2 DEF Messages
    <3> QED BY <1>16, <2>2, <3>2, <3>3 DEF LogFits
  <2> QED BY <2>2, <2>3, <2>4, <2>5 DEF ChatKept, Grows
<1>17. CASE Read
  <2> DEFINE event == Head(stream.wire).event
             id == Head(stream.wire).id
             rest == [stream EXCEPT !.wire = Tail(stream.wire)]
  <2>1. /\ UNCHANGED <<bot, astray, orders>>
        /\ \/ /\ talk' \in {talk, [talk EXCEPT !.list = Named(talk.list, id)]}
              /\ stream' = rest
           \/ /\ talk' \in {Replied(id), Replied(Local), Over(talk), Failed}
              /\ stream' = IF talk'.busy THEN rest ELSE NoStream
           \/ /\ talk' \in {Replied(id), Failed}
              /\ stream' = NoStream
    BY <1>17 DEF Read, Silence
  <2>2. CASE talk' \in {talk, [talk EXCEPT !.list = Named(talk.list, id)]} /\ stream' = rest
    <3>1. /\ DOMAIN talk' = DOMAIN talk /\ talk'.busy = talk.busy /\ talk'.asks = talk.asks
          /\ talk'.pending = talk.pending /\ talk'.ended = talk.ended
      BY <2>2 DEF TalkFits
    <3>2. /\ DOMAIN stream' = DOMAIN stream /\ stream'.ask = stream.ask
          /\ stream'.served = stream.served
      BY <2>2 DEF StreamFits
    <3>3. TalkFits'
      BY <2>1, <3>1 DEF TalkFits
    <3>4. StreamFits'
      BY <2>1, <3>1, <3>2 DEF StreamFits
    <3>5. LogFits'
      BY <2>1, <3>1, <3>2 DEF LogFits, AwaitedOf
    <3> QED BY <2>1, <3>3, <3>4, <3>5 DEF ChatKept
  <2>3. CASE talk' \in {Replied(id), Replied(Local), Over(talk), Failed}
             /\ stream' \in {IF talk'.busy THEN rest ELSE NoStream, NoStream}
    <3>1. /\ DOMAIN talk' = DOMAIN talk /\ talk'.busy = FALSE /\ talk'.asks = talk.asks
          /\ talk'.pending \in {0, talk.pending} /\ talk'.ended = talk.ended
      BY <2>3 DEF TalkFits, Replied, Over, Failed
    <3>2. stream' = NoStream
      BY <2>3, <3>1
    <3> QED BY <1>16, <2>1, <3>1, <3>2 DEF StreamFits
  <2> QED BY <2>1, <2>2, <2>3
<1>18. CASE StreamBreaks
  <2>1. /\ talk' = Failed /\ stream' = NoStream /\ bot' = Unheard /\ UNCHANGED orders
        /\ astray' \in {astray, IF stream.served THEN astray ELSE stream.ask}
    BY <1>18 DEF StreamBreaks
  <2>2. /\ DOMAIN talk' = DOMAIN talk /\ talk'.busy = FALSE /\ talk'.asks = talk.asks
        /\ talk'.pending = talk.pending /\ talk'.ended = talk.ended
    BY <2>1 DEF TalkFits, Over, Failed
  <2> QED BY <1>16, <2>1, <2>2 DEF StreamFits
<1>19. ASSUME Aborted, orders' \subseteq {"CANCEL", "CLOSE"}
       PROVE  ChatKept
  <2>1. CASE talk.busy
    <3>1. /\ stream' = NoStream /\ bot' = Unheard
          /\ astray' \in {astray, IF stream.served THEN astray ELSE stream.ask}
      BY <1>19, <2>1 DEF Aborted
    <3>2. /\ DOMAIN talk' = DOMAIN talk /\ talk'.busy = FALSE /\ talk'.asks = talk.asks
          /\ talk'.pending = talk.pending /\ talk'.ended = talk.ended
      BY <1>19, <2>1 DEF Aborted, TalkFits, Over
    <3> QED BY <1>16, <1>19, <3>1, <3>2
  <2>2. CASE ~talk.busy
    <3>1. UNCHANGED <<stream, bot, astray, talk>>
      BY <1>19, <2>2 DEF Aborted
    <3>2. TalkFits' /\ StreamFits' /\ LogFits'
      BY <1>19, <3>1 DEF TalkFits, StreamFits, LogFits
    <3> QED BY <3>1, <3>2 DEF ChatKept
  <2> QED BY <2>1, <2>2 DEF TalkFits
<1>20. CASE HandleCancelReply
  BY <1>19, <1>20 DEF HandleCancelReply, StreamFits
<1>21. CASE HandleEnd
  <2>1. Aborted /\ orders' = orders \cup {"CLOSE"} \cup
                              (IF talk.state = "PROCESSING" THEN {"CANCEL"} ELSE {})
    BY <1>21 DEF HandleEnd
  <2> QED BY <1>19, <2>1 DEF StreamFits
<1>22. CASE UNCHANGED chatVars
  <2>1. UNCHANGED <<bot, talk, stream, astray, orders>>
    BY <1>22 DEF chatVars
  <2>2. TalkFits' /\ StreamFits' /\ LogFits'
    BY <2>1 DEF TalkFits, StreamFits, LogFits
  <2> QED BY <2>1, <2>2 DEF ChatKept
<1> QED BY <1>2, <1>3, <1>6, <1>7, <1>8, <1>9, <1>10, <1>11, <1>12, <1>14, <1>15, <1>17, <1>18,
           <1>20, <1>21, <1>22 DEF ChatNext

----------------------------------------------------------------------------
(* The reports of a session: for any number of attempts a report that was  *)
(* made is final, and both participants find the same.  A job has one      *)
(* result, which every copy of its push brings, and a row that was made    *)
(* has it.                                                                 *)

Makers == [at : {"NONE", "READY", "SENT", "EARLY", "REFUSED", "TAKEN", "DONE"},
           result : {"NONE", "COMPLETED", "FAILED"}, left : 0..MaxSends]

\* A push is on its way only of a job with a result, and no more often than it was sent.
SenderFits ==
  /\ sender \in Makers /\ onWay \in Nat /\ onWay + sender.left <= MaxSends
  /\ sender.at = "READY" => sender.left > 0
  /\ sender.at = "NONE" <=> sender.result = "NONE"
  /\ sender.at = "NONE" => onWay = 0 /\ sender.left > 0

ReportRowsFit ==
  /\ rows \in [Sides -> RowStatuses] /\ removed \subseteq Sides
  /\ \A s \in Sides : rows[s] \in {"COMPLETED", "FAILED"} => rows[s] = sender.result

ReportInv == {over, unheard} \subseteq BOOLEAN /\ SenderFits /\ ReportRowsFit /\ SameFate

LEMMA SendsArePositive == MaxSends \in Nat /\ MaxSends > 0
  BY ReportAssumption

LEMMA ReportGives == ReportInv => ReportTypeOK /\ SameFate
<1>1. ASSUME SenderFits PROVE onWay \in 0..MaxSends
  <2>1. sender.left \in Nat /\ onWay \in Nat /\ onWay + sender.left <= MaxSends
    BY <1>1, SendsArePositive DEF SenderFits, Makers
  <2> QED BY <2>1, SendsArePositive
<1> QED BY <1>1 DEF ReportInv, ReportTypeOK, SenderFits, ReportRowsFit, Makers

LEMMA ReportBegins == ReportInit => ReportInv
<1> SUFFICES ASSUME ReportInit PROVE ReportInv
  OBVIOUS
<1>1. NoJobYet \in Makers /\ NoJobYet.at = "NONE" /\ NoJobYet.result = "NONE"
      /\ NoJobYet.left = MaxSends
  BY SendsArePositive DEF NoJobYet, Makers
<1>2. SenderFits
  BY <1>1, SendsArePositive DEF ReportInit, SenderFits
<1> QED BY <1>2 DEF ReportInit, ReportInv, ReportRowsFit, SameFate, Sides, RowStatuses

\* What a step does to a row.
RowMoves(s) == rows[s] \in {"COMPLETED", "FAILED"} /\ rows'[s] # rows[s] =>
                 rows'[s] = "ABSENT" /\ s \in removed'
ReportKept == ReportInv' /\ \A s \in Sides : RowMoves(s)

LEMMA ReportSteps ==
  ASSUME ReportInv, ReportNext \/ UNCHANGED reportVars
  PROVE  ReportKept
<1>0. /\ sender \in Makers /\ sender.left \in Nat /\ onWay \in Nat
      /\ onWay + sender.left <= MaxSends /\ MaxSends \in Nat /\ MaxSends > 0
  BY SendsArePositive DEF ReportInv, SenderFits, Makers
\* Rows that are prepared: whoever has a row keeps it.
<1>1. ASSUME rows' \in {Prepared, rows}, UNCHANGED <<over, sender, onWay, removed>>,
             unheard' \in BOOLEAN
      PROVE  ReportKept
  <2>1. /\ rows' \in [Sides -> RowStatuses]
        /\ \A s \in Sides : rows[s] # "ABSENT" => rows'[s] = rows[s]
        /\ \A s \in Sides : rows'[s] \in {rows[s], "PENDING"}
        /\ rows["A"] = rows["B"] => rows'["A"] = rows'["B"]
    BY <1>1 DEF Prepared, ReportInv, ReportRowsFit, RowStatuses, Sides
  <2>2. ReportRowsFit' /\ SenderFits'
    BY <1>1, <2>1 DEF ReportInv, ReportRowsFit, SenderFits
  <2>3. SameFate'
    BY <1>1, <2>1 DEF ReportInv, SameFate
  <2>4. ASSUME NEW s \in Sides PROVE RowMoves(s)
    BY <2>1, <2>4 DEF RowMoves
  <2> QED BY <1>1, <2>2, <2>3, <2>4 DEF ReportInv, ReportKept
<1>2. CASE PreparesAtEnd
  BY <1>1, <1>2 DEF PreparesAtEnd
<1>3. ASSUME NEW s \in Sides, RequestReport(s) PROVE ReportKept
  BY <1>1, <1>3 DEF RequestReport, ReportInv
<1>4. ASSUME NEW s \in Sides, DeleteReport(s) PROVE ReportKept
  <2>1. /\ rows' = [rows EXCEPT ![s] = "ABSENT"] /\ removed' = removed \cup {s}
        /\ UNCHANGED <<over, unheard, sender, onWay>>
    BY <1>4 DEF DeleteReport
  <2>2. rows' \in [Sides -> RowStatuses] /\ \A t \in Sides : rows'[t] \in {rows[t], "ABSENT"}
    BY <2>1 DEF ReportInv, ReportRowsFit, RowStatuses
  <2>3. ReportRowsFit' /\ SenderFits' /\ SameFate'
    BY <2>1, <2>2 DEF ReportInv, ReportRowsFit, SenderFits, SameFate
  <2>4. ASSUME NEW t \in Sides PROVE RowMoves(t)
    BY <2>1 DEF RowMoves, ReportInv, ReportRowsFit
  <2> QED BY <2>1, <2>3, <2>4 DEF ReportInv, ReportKept
<1>5. CASE EndsSession
  <2>1. over' = TRUE /\ unheard' = TRUE /\ UNCHANGED <<rows, sender, onWay, removed>>
    BY <1>5 DEF EndsSession
  <2> QED BY <2>1 DEF ReportInv, ReportKept, ReportRowsFit, SenderFits, SameFate, RowMoves
\* The job alone.
<1>6. ASSUME SenderFits', sender'.result = sender.result \/ sender.at = "NONE",
             UNCHANGED <<over, unheard, rows, removed>>
      PROVE  ReportKept
  <2>1. ASSUME NEW s \in Sides, rows[s] \in {"COMPLETED", "FAILED"} PROVE rows[s] = sender'.result
    BY <1>6, <2>1 DEF ReportInv, ReportRowsFit, SenderFits
  <2>2. ReportRowsFit' /\ SameFate'
    BY <1>6, <2>1 DEF ReportInv, ReportRowsFit, SameFate
  <2> QED BY <1>6, <2>2 DEF ReportInv, ReportKept, RowMoves
<1>7. CASE JobStarts
  <2>1. PICK outcome \in {"COMPLETED", "FAILED"} :
          sender' = [sender EXCEPT !.at = "READY", !.result = outcome]
    BY <1>7 DEF JobStarts
  <2>2. /\ sender' \in Makers /\ sender'.at = "READY" /\ sender'.result = outcome
        /\ sender'.left = sender.left /\ sender.at = "NONE"
        /\ UNCHANGED <<over, unheard, rows, onWay, removed>>
    BY <1>0, <1>7, <2>1 DEF JobStarts, Makers
  <2>3. SenderFits'
    BY <1>0, <2>2 DEF ReportInv, SenderFits
  <2> QED BY <1>6, <2>2, <2>3
<1>8. CASE SendsPush
  <2>1. /\ sender.at = "READY" /\ sender' = [sender EXCEPT !.at = "SENT", !.left = sender.left - 1]
        /\ onWay' = onWay + 1 /\ UNCHANGED <<over, unheard, rows, removed>>
    BY <1>8 DEF SendsPush
  <2>2. sender.left > 0 /\ sender.left - 1 \in 0..MaxSends
    BY <1>0, <2>1 DEF ReportInv, SenderFits
  <2>3. /\ sender' \in Makers /\ sender'.at = "SENT" /\ sender'.result = sender.result
        /\ sender'.left = sender.left - 1 /\ sender.result # "NONE"
    BY <1>0, <2>1, <2>2 DEF Makers, ReportInv, SenderFits
  <2>4. onWay' \in Nat /\ onWay' + sender'.left <= MaxSends
    BY <1>0, <2>1, <2>2, <2>3
  <2>5. SenderFits'
    BY <2>3, <2>4 DEF SenderFits
  <2> QED BY <1>6, <2>1, <2>3, <2>5
<1>9. ASSUME NEW at \in {"READY", "DONE", "EARLY", "REFUSED", "TAKEN"},
             sender' = [sender EXCEPT !.at = at], at = "READY" => sender.left > 0,
             sender.at # "NONE"
      PROVE  /\ sender' \in Makers /\ sender'.at = at /\ sender'.result = sender.result
             /\ sender'.left = sender.left /\ sender.result # "NONE"
  BY <1>0, <1>9 DEF Makers, ReportInv, SenderFits
<1>10. CASE PushTimesOut \/ PushAnswered \/ JobCancelled
  <2>1. /\ sender.at # "NONE" /\ UNCHANGED <<over, unheard, rows, onWay, removed>>
        /\ sender' \in {Retried, [sender EXCEPT !.at = "DONE"]}
    BY <1>10 DEF PushTimesOut, PushAnswered, JobCancelled
  <2>2. PICK at \in {"READY", "DONE"} :
          sender' = [sender EXCEPT !.at = at] /\ (at = "READY" => sender.left > 0)
    BY <2>1 DEF Retried
  <2>3. SenderFits'
    BY <1>0, <1>9, <2>1, <2>2 DEF SenderFits
  <2> QED BY <1>6, <1>9, <2>1, <2>2, <2>3
<1>11. CASE PushLost
  <2>1. /\ onWay > 0 /\ onWay' = onWay - 1 /\ UNCHANGED <<over, unheard, rows, sender, removed>>
    BY <1>11 DEF PushLost
  <2>2. SenderFits'
    BY <1>0, <2>1 DEF ReportInv, SenderFits
  <2> QED BY <1>6, <2>1, <2>2
<1>12. CASE Receive
  <2>1. /\ onWay > 0 /\ onWay' = onWay - 1 /\ UNCHANGED <<over, unheard, removed>>
        /\ rows' = IF Verdict = "TAKEN" THEN [s \in Sides |-> sender.result] ELSE rows
        /\ sender' \in {sender} \cup
             (IF sender.at = "SENT" THEN {[sender EXCEPT !.at = Verdict]} ELSE {})
    BY <1>12 DEF Receive
  <2>2. sender.at # "NONE" /\ sender.result \in {"COMPLETED", "FAILED"}
    BY <1>0, <2>1 DEF ReportInv, SenderFits, Makers
  <2>3. Verdict \in {"EARLY", "REFUSED", "TAKEN"}
    BY DEF Verdict
  <2>4. /\ sender' \in Makers /\ sender'.result = sender.result /\ sender'.left = sender.left
        /\ sender'.at # "NONE" /\ (sender'.at = "READY" => sender.at = "READY")
    BY <1>0, <1>9, <2>1, <2>2, <2>3
  <2>5. onWay' \in Nat /\ onWay' + sender'.left <= MaxSends
    BY <1>0, <2>1, <2>4
  <2>6. SenderFits'
    BY <2>2, <2>4, <2>5 DEF ReportInv, SenderFits
  <2>7. /\ rows' \in [Sides -> RowStatuses]
        /\ \A s \in Sides : rows'[s] \in {"COMPLETED", "FAILED"} => rows'[s] = sender.result
        /\ \A s \in Sides : rows[s] \in {"COMPLETED", "FAILED"} => rows'[s] = rows[s]
        /\ rows["A"] = rows["B"] => rows'["A"] = rows'["B"]
    BY <2>1, <2>2 DEF ReportInv, ReportRowsFit, RowStatuses, Sides
  <2>8. ReportRowsFit' /\ SameFate'
    BY <2>1, <2>4, <2>7 DEF ReportInv, ReportRowsFit, SameFate
  <2>9. ASSUME NEW s \in Sides PROVE RowMoves(s)
    BY <2>7 DEF RowMoves
  <2> QED BY <2>1, <2>6, <2>8, <2>9 DEF ReportInv, ReportKept
<1>13. CASE UNCHANGED reportVars
  BY <1>13 DEF reportVars, ReportInv, ReportKept, ReportRowsFit, SenderFits, SameFate, RowMoves
<1> QED
  BY <1>2, <1>3, <1>4, <1>5, <1>7, <1>8, <1>10, <1>11, <1>12, <1>13 DEF ReportNext

----------------------------------------------------------------------------
(* The performance governor: it recovers slowly, for any windows and any   *)
(* load.  The samples it keeps were taken since the last change, in order, *)
(* so a mean that covers the longer window began after that change.        *)

LEMMA FirstExists ==
  ASSUME NEW S, S \subseteq Nat, S # {}
  PROVE  \E x \in S : \A y \in S : x <= y
<1> DEFINE R == OpToRel(<, Nat)
<1>1. IsWellFoundedOn(R, Nat)
  BY NatLessThanWellFounded
<1>2. \A x, y \in Nat : x < y => <<x, y>> \in R
  BY DEF OpToRel
<1> HIDE DEF R
<1>3. PICK x \in S : \A y \in S : ~ (<<y, x>> \in R)
  BY <1>1, WFMin
<1>4. \A y \in S : ~(y < x)
  BY <1>2, <1>3
<1> QED BY <1>4

GovSamples == [at : Nat, heavy : BOOLEAN]
Governors == [now : 0..MaxAnalysed, profile : 1..3, samples : Seq(GovSamples), changed : Int]

\* Samples in order of time, none before c nor after t.
Ordered(s, c, t) ==
  /\ s \in Seq(GovSamples)
  /\ \A i \in DOMAIN s : c <= s[i].at /\ s[i].at <= t
  /\ \A i, j \in DOMAIN s : i < j => s[i].at < s[j].at

\* Samples that end with the one just taken.
Tracked(s, c, t) == Ordered(s, c, t) /\ s # <<>> /\ s[Len(s)].at = t

GovernorInv ==
  /\ governor \in Governors
  /\ governor.changed \in NotChanged..governor.now
  /\ governor.changed = NotChanged => governor.profile = 1
  /\ Ordered(governor.samples, governor.changed, governor.now)

LEMMA GovernorNumbers ==
  /\ OverloadWindow \in Nat /\ RecoveryWindow \in Nat /\ ProfileCooldown \in Nat
  /\ MaxAnalysed \in Nat /\ \A step \in BudgetSteps : step \in Nat /\ step > 0
  BY GovernorAssumption DEF GovernorConfig

LEMMA GovernorGives == GovernorInv => GovernorTypeOK
<1> SUFFICES ASSUME GovernorInv PROVE GovernorTypeOK
  OBVIOUS
<1>1. /\ governor.now \in 0..MaxAnalysed /\ governor.profile \in DOMAIN ProfileOrder
      /\ governor.changed \in NotChanged..governor.now
  BY DEF GovernorInv, Governors, ProfileOrder
<1>2. governor.now \in Nat
  BY <1>1, GovernorNumbers
<1>3. ASSUME NEW s \in ToSet(governor.samples) PROVE s.at \in 0..governor.now /\ s.heavy \in BOOLEAN
  <2>1. PICK i \in DOMAIN governor.samples : s = governor.samples[i]
    BY DEF ToSet
  <2>2. s \in GovSamples /\ s.at <= governor.now
    BY <2>1 DEF GovernorInv, Ordered
  <2> QED BY <1>2, <2>2 DEF GovSamples
<1> QED BY <1>1, <1>3 DEF GovernorTypeOK, GovernorInv, Ordered

LEMMA NothingTracked == ASSUME NEW c, NEW t PROVE Ordered(<<>>, c, t)
  BY DEF Ordered

LEMMA GovernorBegins == GovernorInit => GovernorInv
<1> SUFFICES ASSUME GovernorInit PROVE GovernorInv
  OBVIOUS
<1>1. governor \in Governors
  BY GovernorNumbers DEF GovernorInit, NewGovernor, Governors, NotChanged
<1> QED BY <1>1, NothingTracked DEF GovernorInit, NewGovernor, GovernorInv, NotChanged

\* samplesWithin() keeps an end of what it is given, the sample just taken among it.
LEMMA WithinTracks ==
  ASSUME NEW c \in Int, NEW t \in Nat, NEW s, Tracked(s, c, t), NEW from \in Int, from <= t
  PROVE  Tracked(SamplesWithin(s, from), c, t)
<1> DEFINE within == {i \in DOMAIN s : s[i].at >= from}
           first == CHOOSE i \in within : \A j \in within : i <= j
           k == IF first = 1 THEN 1 ELSE first - 1
           r == SubSeq(s, k, Len(s))
<1>1. s \in Seq(GovSamples) /\ Len(s) \in Nat /\ Len(s) >= 1 /\ DOMAIN s = 1..Len(s)
  BY DEF Tracked, Ordered
<1>2. within \subseteq Nat /\ Len(s) \in within
  BY <1>1 DEF Tracked
<1>3. \E i \in within : \A j \in within : i <= j
  BY <1>2, FirstExists
<1>4. first \in within
  BY <1>3
<1>5. first \in 1..Len(s)
  BY <1>1, <1>4
<1> HIDE DEF first, within
<1>6. k \in 1..Len(s)
  BY <1>1, <1>5
<1> HIDE DEF k
<1>7. /\ r \in Seq(GovSamples) /\ Len(r) = Len(s) - k + 1 /\ Len(r) \in Nat /\ Len(r) >= 1
      /\ \A i \in 1..Len(r) : r[i] = s[k + i - 1]
  BY <1>1, <1>6, SubSeqProperties
<1> HIDE DEF r
<1>8. DOMAIN r = 1..Len(r) /\ r # <<>>
  BY <1>7
<1>9. ASSUME NEW i \in DOMAIN r
      PROVE  k + i - 1 \in DOMAIN s /\ r[i] = s[k + i - 1] /\ c <= r[i].at /\ r[i].at <= t
  <2>1. k + i - 1 \in DOMAIN s /\ r[i] = s[k + i - 1]
    BY <1>1, <1>6, <1>7, <1>8
  <2> QED BY <2>1 DEF Tracked, Ordered
<1>10. ASSUME NEW i \in DOMAIN r, NEW j \in DOMAIN r, i < j PROVE r[i].at < r[j].at
  <2>1. k + i - 1 < k + j - 1
    BY <1>1, <1>6, <1>8, <1>10
  <2> QED BY <1>9, <2>1 DEF Tracked, Ordered
<1>11. r[Len(r)].at = t
  <2>1. Len(r) \in 1..Len(r) /\ k + Len(r) - 1 = Len(s)
    BY <1>1, <1>6, <1>7
  <2> QED BY <1>7, <2>1 DEF Tracked
<1>12. Tracked(r, c, t)
  BY <1>7, <1>8, <1>9, <1>10, <1>11 DEF Tracked, Ordered
<1>13. SamplesWithin(s, from) = r
  BY DEF SamplesWithin, r, k, first, within
<1> QED BY <1>12, <1>13

LEMMA NextTracks ==
  ASSUME NEW c \in Int, NEW n \in Nat, NEW t \in Nat, NEW s, Ordered(s, c, n), n < t, c <= n,
         NEW heavy \in BOOLEAN
  PROVE  Tracked(Append(s, [at |-> t, heavy |-> heavy]), c, t)
<1> DEFINE e == [at |-> t, heavy |-> heavy]
           r == Append(s, e)
<1>1. s \in Seq(GovSamples) /\ e \in GovSamples /\ e.at = t
  BY DEF Ordered, GovSamples
<1> HIDE DEF e
<1>2. /\ r \in Seq(GovSamples) /\ Len(r) = Len(s) + 1 /\ Len(s) \in Nat /\ r[Len(s) + 1] = e
      /\ \A i \in 1..Len(s) : r[i] = s[i]
  BY <1>1
<1> HIDE DEF r
<1>3. DOMAIN r = 1..(Len(s) + 1) /\ DOMAIN s = 1..Len(s)
  BY <1>1, <1>2
<1>4. ASSUME NEW i \in DOMAIN s PROVE /\ c <= s[i].at /\ s[i].at <= n /\ s[i].at \in Nat
  <2>1. s[i] \in GovSamples
    BY <1>1
  <2> QED BY <2>1 DEF Ordered, GovSamples
<1>5. ASSUME NEW i \in DOMAIN r PROVE c <= r[i].at /\ r[i].at <= t
  <2>1. CASE i = Len(s) + 1
    BY <1>1, <1>2, <2>1
  <2>2. CASE i \in DOMAIN s
    BY <1>2, <1>3, <1>4, <2>2
  <2> QED BY <1>2, <1>3, <2>1, <2>2
<1>6. ASSUME NEW i \in DOMAIN r, NEW j \in DOMAIN r, i < j PROVE r[i].at < r[j].at
  <2>1. i \in DOMAIN s
    BY <1>2, <1>3, <1>6
  <2>2. CASE j = Len(s) + 1
    BY <1>1, <1>2, <1>3, <1>4, <2>1, <2>2
  <2>3. CASE j \in DOMAIN s
    BY <1>2, <1>3, <1>6, <2>1, <2>3 DEF Ordered
  <2> QED BY <1>2, <1>3, <2>2, <2>3
<1>7. r # <<>> /\ r[Len(r)].at = t
  BY <1>1, <1>2
<1> QED BY <1>2, <1>5, <1>6, <1>7 DEF Tracked, Ordered, r, e

LEMMA CoverageTakesTime ==
  ASSUME NEW c \in Int, NEW t \in Nat, NEW s, Tracked(s, c, t), NEW window \in Nat,
         HasCovered(s, window)
  PROVE  t - c >= window
<1>1. s \in Seq(GovSamples) /\ Len(s) \in Nat /\ 1 \in DOMAIN s /\ Head(s) = s[1]
  BY DEF Tracked, Ordered
<1>2. Last(s).at = t /\ c <= Head(s).at
  BY <1>1 DEF Tracked, Ordered, Last
<1>3. s[1] \in GovSamples
  BY <1>1
<1>4. Head(s).at \in Nat
  BY <1>1, <1>3 DEF GovSamples
<1>5. Last(s).at - Head(s).at >= window
  BY DEF HasCovered
<1> QED BY <1>2, <1>4, <1>5

\* What a step of the governor keeps.
Recovery ==
  governor'.profile < governor.profile /\ governor'.changed # NotChanged
    => governor.changed # NotChanged /\ governor'.changed - governor.changed >= RecoveryWindow
GovernorKept == GovernorInv' /\ Recovery

LEMMA GovernorSteps ==
  ASSUME GovernorInv, GovernorNext \/ UNCHANGED governor
  PROVE  GovernorKept
<1>0. /\ governor \in Governors /\ governor.now \in Nat /\ governor.profile \in 1..3
      /\ governor.changed \in Int /\ governor.changed <= governor.now
      /\ Ordered(governor.samples, governor.changed, governor.now)
  BY GovernorNumbers DEF GovernorInv, Governors, NotChanged
<1>1. CASE UNCHANGED governor
  BY <1>1, <1>0 DEF GovernorKept, GovernorInv, Recovery
<1>2. CASE GovernorReset
  <2>1. governor' = [NewGovernor EXCEPT !.now = governor.now]
    BY <1>2 DEF GovernorReset
  <2>a. governor' = [now |-> governor.now, profile |-> 1, samples |-> <<>>, changed |-> NotChanged]
    BY <2>1 DEF NewGovernor
  <2>b. governor.now \in 0..MaxAnalysed /\ <<>> \in Seq(GovSamples) /\ NotChanged \in Int
    BY <1>0 DEF Governors, NotChanged
  <2>c. governor' \in Governors
    BY <2>a, <2>b DEF Governors
  <2>2. /\ governor' \in Governors /\ governor'.now = governor.now /\ governor'.samples = <<>>
        /\ governor'.changed = NotChanged /\ governor'.profile = 1
    BY <2>a, <2>c
  <2>3. NotChanged \in NotChanged..governor.now
    BY <1>0 DEF NotChanged
  <2> QED BY <2>2, <2>3, NothingTracked DEF GovernorKept, GovernorInv, Recovery
<1>3. ASSUME NEW step \in BudgetSteps, NEW heavy \in BOOLEAN, Govern(step, heavy)
      PROVE  GovernorKept
  <2> DEFINE t == governor.now + step
             longest == IF OverloadWindow > RecoveryWindow THEN OverloadWindow ELSE RecoveryWindow
             kept == SamplesWithin(Append(governor.samples, [at |-> t, heavy |-> heavy]), t - longest)
             g == [governor EXCEPT !.now = t, !.samples = kept]
             window == SelectWindow(g, t)
             relevant == SamplesWithin(kept, t - window)
  <2>1. t \in Nat /\ governor.now < t /\ longest \in Nat /\ window \in {OverloadWindow, RecoveryWindow}
    BY <1>0, GovernorNumbers DEF SelectWindow
  <2>2. Tracked(kept, governor.changed, t)
    <3> HIDE DEF t, longest
    <3>1. Tracked(Append(governor.samples, [at |-> t, heavy |-> heavy]), governor.changed, t)
      BY <1>0, <2>1, NextTracks
    <3>2. t - longest \in Int /\ t - longest <= t
      BY <2>1
    <3> QED BY <1>0, <2>1, <3>1, <3>2, WithinTracks
  <2>3. /\ t <= MaxAnalysed
        /\ \/ governor' = g
           \/ governor' = MoveProfile(g, g.profile + 1, t)
           \/ /\ governor' = MoveProfile(g, g.profile - 1, t)
              /\ HasCovered(SamplesWithin(g.samples, t - window), window)
              /\ g.profile # 1 /\ window = RecoveryWindow
    BY <1>3 DEF Govern
  <2> HIDE DEF t, window, kept, relevant, longest
  <2>a. t \in 0..MaxAnalysed /\ kept \in Seq(GovSamples)
    BY <2>1, <2>2, <2>3, GovernorNumbers DEF Tracked, Ordered
  <2>b. g \in Governors
    BY <1>0, <2>a DEF Governors
  <2>4. /\ g \in Governors /\ g.now = t /\ g.samples = kept /\ g.profile = governor.profile
        /\ g.changed = governor.changed
    BY <1>0, <2>b DEF Governors
  <2> HIDE DEF g
  <2>5. governor.changed \in NotChanged..t /\ t \in NotChanged..t
    BY <1>0, <2>1 DEF GovernorInv, NotChanged
  <2>6. CASE governor' = g
    BY <1>0, <2>2, <2>4, <2>5, <2>6 DEF GovernorKept, GovernorInv, Recovery, Tracked
  <2>7. ASSUME NEW p \in Int, governor' = MoveProfile(g, p, t), p \in 1..3
        PROVE  GovernorInv' /\ governor'.profile = p /\ governor'.changed = t
    <3>1. governor' = [g EXCEPT !.profile = p, !.changed = t, !.samples = <<>>]
      BY <2>7 DEF MoveProfile, ProfileOrder
    <3>a. <<>> \in Seq(GovSamples) /\ t \in Int
      BY <2>1
    <3>b. governor' \in Governors
      BY <2>4, <2>7, <3>1, <3>a DEF Governors
    <3>2. /\ governor' \in Governors /\ governor'.now = t /\ governor'.samples = <<>>
          /\ governor'.profile = p /\ governor'.changed = t
      BY <2>4, <3>1, <3>b DEF Governors
    <3>3. t # NotChanged
      BY <2>1 DEF NotChanged
    <3> QED BY <2>5, <3>2, <3>3, NothingTracked DEF GovernorInv
  <2>8. CASE governor' = MoveProfile(g, g.profile + 1, t)
    <3>1. CASE g.profile + 1 \in 1..3
      <4>1. GovernorInv' /\ governor'.profile = governor.profile + 1
        BY <1>0, <2>4, <2>7, <2>8, <3>1
      <4> QED BY <1>0, <4>1 DEF GovernorKept, Recovery
    <3>2. CASE g.profile + 1 \notin 1..3
      <4>1. governor' = g
        BY <2>8, <3>2 DEF MoveProfile, ProfileOrder
      <4> QED BY <2>6, <4>1
    <3> QED BY <3>1, <3>2
  <2>9. CASE /\ governor' = MoveProfile(g, g.profile - 1, t) /\ g.profile # 1
             /\ HasCovered(SamplesWithin(g.samples, t - window), window)
             /\ window = RecoveryWindow
    <3>1. g.profile - 1 \in 1..3 /\ governor.changed # NotChanged
      BY <1>0, <2>4, <2>9 DEF GovernorInv
    <3>2. GovernorInv' /\ governor'.changed = t
      BY <1>0, <2>4, <2>7, <2>9, <3>1
    <3>3. t - window \in Int /\ t - window <= t
      BY <2>1, GovernorNumbers
    <3>4. Tracked(relevant, governor.changed, t)
      BY <1>0, <2>1, <2>2, <3>3, WithinTracks DEF relevant
    <3>5. HasCovered(relevant, RecoveryWindow)
      BY <2>4, <2>9 DEF relevant
    <3>6. t - governor.changed >= RecoveryWindow
      BY <1>0, <2>1, <3>4, <3>5, CoverageTakesTime, GovernorNumbers
    <3> QED BY <3>1, <3>2, <3>6 DEF GovernorKept, Recovery
  <2> QED BY <2>3, <2>6, <2>8, <2>9
<1> QED BY <1>1, <1>2, <1>3 DEF GovernorNext

----------------------------------------------------------------------------
(* Nods: no two are told of the same movement, for any angles and times.   *)
(* A movement starts at a neutral sample after the last nod was told, and  *)
(* its strokes lie in the order of its states.                             *)

Heads == [state : NodStates, smooth : Int, started : Int, active : Int, returning : Int,
          neutral : Int, cooldown : Nat, peak : Nat]

\* What the movement of h is at time t, when the last nod ended at n.
MovementFits(h, t, n) ==
  /\ Moving(h) => /\ 0 <= h.started /\ n < h.started /\ h.started <= t
                  /\ MinAmplitude <= h.peak /\ h.peak <= MaxAmplitude
  /\ ~Moving(h) => h.started = Unset /\ h.peak = 0
  /\ h.state \in {"DOWN_ACTIVE", "RETURNING"} => h.started + MinDown <= h.active /\ h.active <= t
  /\ h.state \notin {"DOWN_ACTIVE", "RETURNING"} => h.active = Unset
  /\ h.state = "RETURNING" => h.active <= h.returning /\ h.returning <= t
  /\ h.state # "RETURNING" => h.returning = Unset

HeadFits(h, t, n) ==
  /\ h \in Heads
  /\ h.neutral # Unset => 0 <= h.neutral /\ n < h.neutral
  /\ h.neutral <= t
  /\ MovementFits(h, t, n)

NodInv ==
  /\ HeadFits(head, time, nod.to) /\ head.smooth \in Angles \cup {Unfiltered}
  /\ time \in 0..MaxNodTime /\ nod.to \in Int /\ nod.to <= time

LEMMA NodNumbers ==
  /\ {Tolerance, MinAmplitude, MaxAmplitude, Reversal, MinDown, MinUp, MaxHold, MinNod, MaxNod,
      NodCooldown, MaxNodTime} \subseteq Nat
  /\ MinAmplitude > 0 /\ MinAmplitude < MaxAmplitude /\ MinDown > 0 /\ MinNod < MaxNod
  /\ \A gap \in FrameGaps : gap \in Nat /\ gap > 0
  BY NodAssumption DEF NodAssumption

LEMMA NodGives == NodInv => NodTypeOK
<1> SUFFICES ASSUME NodInv PROVE NodTypeOK
  OBVIOUS
<1>0. MinDown \in Nat /\ MaxAmplitude \in Nat /\ MinAmplitude \in Nat
  BY NodNumbers
<1>1. head \in Heads /\ head.neutral <= time /\ MovementFits(head, time, nod.to) /\ time \in Nat
  BY NodNumbers DEF NodInv, HeadFits
<1>2. head.state \in NodStates /\ head.peak \in Nat /\ head.active \in Int /\ head.returning \in Int
      /\ head.started \in Int
  BY <1>1 DEF Heads
<1>3. (Moving(head) <=> head.started # Unset) /\ head.peak <= MaxAmplitude
      /\ (Moving(head) => head.peak >= MinAmplitude /\ head.started <= time)
  BY <1>0, <1>1, <1>2 DEF MovementFits, Unset
<1>4. head.state \in {"DOWN_ACTIVE", "RETURNING"} <=> head.active # Unset
  BY <1>0, <1>1, <1>2 DEF MovementFits, Moving, Unset
<1>5. head.state = "RETURNING" <=> head.returning # Unset
  BY <1>0, <1>1, <1>2 DEF MovementFits, Moving, Unset
<1>6. head.peak \in 0..(MaxAmplitude + 1)
  BY <1>0, <1>2, <1>3
<1> QED BY <1>1, <1>2, <1>3, <1>4, <1>5, <1>6 DEF NodTypeOK, NodInv

LEMMA NodBegins == NodInit \/ NodIdle => NodInv
<1> SUFFICES ASSUME NodInit \/ NodIdle PROVE NodInv
  OBVIOUS
<1>1. head = NewHead /\ time \in 0..MaxNodTime /\ nod = NoNod
  BY NodNumbers DEF NodInit, NodIdle
<1>2. head \in Heads
  BY <1>1, NodNumbers DEF Heads, NewHead, NodStates, Unset
<1>3. MovementFits(head, time, nod.to)
  BY <1>1 DEF MovementFits, Moving, NewHead
<1>4. nod.to = Unset /\ head.neutral = Unset /\ head.smooth = Unfiltered
  BY <1>1 DEF NoNod, NewHead, Unfiltered
<1> QED BY <1>1, <1>2, <1>3, <1>4, NodNumbers DEF NodInv, HeadFits, Unset

\* A head at rest knows of no movement, whenever the last nod was.
LEMMA RestedHead ==
  ASSUME NEW h \in Heads, NEW state \in {"WAITING_FOR_BASELINE", "IDLE", "COOLDOWN"},
         NEW t \in Nat, NEW n \in Int
  PROVE  HeadFits(Rest(h, state), t, n) /\ Rest(h, state).state = state
<1> DEFINE r == Rest(h, state)
<1>1. r = [h EXCEPT !.started = Unset, !.active = Unset, !.returning = Unset, !.peak = 0,
                    !.neutral = Unset, !.state = state]
  BY DEF Rest, Cleared
<1> HIDE DEF r
<1>a. state \in NodStates /\ Unset \in Int /\ 0 \in Nat
  BY DEF NodStates, Unset
<1>b. r \in Heads
  BY <1>1, <1>a DEF Heads
<1>c. /\ r.state = state /\ r.started = Unset /\ r.active = Unset
      /\ r.returning = Unset /\ r.peak = 0 /\ r.neutral = Unset
  BY <1>1 DEF Heads
<1>2. /\ r \in Heads /\ r.state = state /\ r.started = Unset /\ r.active = Unset
      /\ r.returning = Unset /\ r.peak = 0 /\ r.neutral = Unset
  BY <1>b, <1>c
<1>3. HeadFits(r, t, n)
  BY <1>2 DEF HeadFits, MovementFits, Moving, Unset
<1> QED BY <1>2, <1>3 DEF r

LEMMA LaterFits ==
  ASSUME NEW h, NEW t \in Nat, NEW u \in Nat, t <= u, NEW n \in Int, HeadFits(h, t, n)
  PROVE  HeadFits(h, u, n)
<1>1. h.started \in Int /\ h.active \in Int /\ h.returning \in Int /\ h.neutral \in Int
  BY DEF HeadFits, Heads
<1> QED BY <1>1 DEF HeadFits, MovementFits

\* A filter's value is an angle.
LEMMA SmoothedFits ==
  ASSUME NEW p \in Angles \cup {Unfiltered}, NEW raw \in Angles
  PROVE  Smoothed(p, raw) \in Angles
<1>1. Tolerance \in Nat /\ MaxAmplitude \in Nat
  BY NodNumbers
<1>2. CASE p = Unfiltered
  BY <1>2 DEF Smoothed
<1>3. CASE p # Unfiltered
  <2>1. /\ p \in Int /\ raw \in Int /\ p >= -Tolerance - 1 /\ raw >= -Tolerance - 1
        /\ p <= MaxAmplitude + 1 /\ raw <= MaxAmplitude + 1
    BY <1>1, <1>3 DEF Angles
  <2>2. (raw + p) \div 2 \in Int /\ 2 * ((raw + p) \div 2) <= raw + p
        /\ raw + p < 2 * ((raw + p) \div 2) + 2
    BY <2>1
  <2>3. (raw + p) \div 2 \in Angles
    BY <1>1, <2>1, <2>2 DEF Angles
  <2> QED BY <1>3, <2>3 DEF Smoothed
<1> QED BY <1>2, <1>3

\* The first frame after a rest finds it idle.
LEMMA AwakeFits ==
  ASSUME NEW h, NEW t \in Nat, NEW n \in Int, HeadFits(h, t, n)
  PROVE  /\ HeadFits(Awake(h, t), t, n)
         /\ Awake(h, t).state \in NodStates \ {"WAITING_FOR_BASELINE"}
         /\ Awake(h, t).state = "RETURNING" => Awake(h, t) = h
<1>1. h \in Heads
  BY DEF HeadFits
<1>2. CASE Awake(h, t) = h
  BY <1>1, <1>2 DEF Awake, Heads, NodStates
<1>3. CASE h.state \in {"WAITING_FOR_BASELINE", "COOLDOWN"} /\ Awake(h, t) = [h EXCEPT !.state = "IDLE"]
  <2> DEFINE r == [h EXCEPT !.state = "IDLE"]
  <2>1. r \in Heads /\ r.state = "IDLE" /\ r.neutral = h.neutral /\ r.started = h.started
        /\ r.active = h.active /\ r.returning = h.returning /\ r.peak = h.peak
    BY <1>1 DEF Heads, NodStates
  <2> HIDE DEF r
  <2>2. HeadFits(r, t, n)
    BY <1>3, <2>1 DEF HeadFits, MovementFits, Moving
  <2> QED BY <1>3, <2>1, <2>2 DEF r, NodStates
<1> QED BY <1>2, <1>3 DEF Awake

LEMMA IdleFits ==
  ASSUME NEW h, NEW d \in Angles, NEW t \in Nat, NEW n \in Int, n < t, HeadFits(h, t, n),
         h.state = "IDLE"
  PROVE  HeadFits(Idle(h, d, t), t, n) /\ Idle(h, d, t).state # "COOLDOWN"
<1>0. h \in Heads /\ d \in Int /\ MinAmplitude \in Nat /\ MaxAmplitude \in Nat
  BY NodNumbers DEF HeadFits, Angles
<1>1. CASE Idle(h, d, t) = h
  BY <1>1
<1>2. CASE Idle(h, d, t) = [h EXCEPT !.neutral = t]
  <2> DEFINE r == [h EXCEPT !.neutral = t]
  <2>1. r \in Heads /\ r.state = "IDLE" /\ r.neutral = t /\ r.started = h.started
        /\ r.active = h.active /\ r.returning = h.returning /\ r.peak = h.peak
    BY <1>0 DEF Heads
  <2> HIDE DEF r
  <2>2. HeadFits(r, t, n)
    BY <2>1 DEF HeadFits, MovementFits, Moving
  <2> QED BY <1>2, <2>1, <2>2 DEF r
<1>3. CASE /\ d \in MinAmplitude..MaxAmplitude /\ h.neutral # Unset
           /\ Idle(h, d, t) = [h EXCEPT !.state = "DOWN_CANDIDATE", !.started = h.neutral, !.peak = d]
  <2> DEFINE r == [h EXCEPT !.state = "DOWN_CANDIDATE", !.started = h.neutral, !.peak = d]
  <2>0. d \in Nat /\ MinAmplitude <= d /\ d <= MaxAmplitude /\ h.neutral \in Int
    BY <1>0, <1>3 DEF Heads
  <2>1. r \in Heads /\ r.state = "DOWN_CANDIDATE" /\ r.neutral = h.neutral
        /\ r.started = h.neutral /\ r.active = h.active /\ r.returning = h.returning /\ r.peak = d
    BY <1>0, <2>0 DEF Heads, NodStates
  <2> HIDE DEF r
  <2>2. HeadFits(r, t, n)
    BY <1>3, <2>0, <2>1 DEF HeadFits, MovementFits, Moving
  <2> QED BY <1>3, <2>1, <2>2 DEF r
<1> QED BY <1>1, <1>2, <1>3 DEF Idle

LEMMA GoesDownFits ==
  ASSUME NEW h, NEW d \in Angles, NEW t \in Nat, NEW n \in Int, n < t, HeadFits(h, t, n),
         h.state = "DOWN_CANDIDATE"
  PROVE  HeadFits(GoesDown(h, d, t), t, n) /\ GoesDown(h, d, t).state # "COOLDOWN"
<1> DEFINE p == Longer(h.peak, d)
<1>0. h \in Heads /\ d \in Int /\ MaxAmplitude \in Nat /\ MinDown \in Nat /\ h.peak \in Nat
      /\ h.started \in Int
  BY NodNumbers DEF HeadFits, Angles, Heads
<1>1. CASE GoesDown(h, d, t) = Rest(h, "IDLE")
  BY <1>0, <1>1, RestedHead
<1>2. CASE d <= MaxAmplitude
           /\ \/ GoesDown(h, d, t) = [h EXCEPT !.peak = p]
              \/ /\ GoesDown(h, d, t) = [[h EXCEPT !.peak = p] EXCEPT !.state = "DOWN_ACTIVE", !.active = t]
                 /\ t - h.started >= MinDown
  <2>1. p \in Nat /\ h.peak <= p /\ (h.peak <= MaxAmplitude => p <= MaxAmplitude)
    BY <1>0, <1>2 DEF Longer
  <2> HIDE DEF p
  <2>2. CASE GoesDown(h, d, t) = [h EXCEPT !.peak = p]
    <3> DEFINE r == [h EXCEPT !.peak = p]
    <3>1. r \in Heads /\ r.state = h.state /\ r.neutral = h.neutral /\ r.started = h.started
          /\ r.active = h.active /\ r.returning = h.returning /\ r.peak = p
      BY <1>0, <2>1 DEF Heads
    <3> HIDE DEF r
    <3>2. HeadFits(r, t, n)
      BY <1>0, <2>1, <3>1, NodNumbers DEF HeadFits, MovementFits, Moving
    <3> QED BY <2>2, <3>1, <3>2 DEF r
  <2>3. CASE /\ GoesDown(h, d, t) = [[h EXCEPT !.peak = p] EXCEPT !.state = "DOWN_ACTIVE", !.active = t]
             /\ t - h.started >= MinDown
    <3> DEFINE g == [h EXCEPT !.peak = p]
               r == [g EXCEPT !.state = "DOWN_ACTIVE", !.active = t]
    <3>a. g \in Heads /\ t \in Int
      BY <1>0, <2>1 DEF Heads
    <3> HIDE DEF g
    <3>b. "DOWN_ACTIVE" \in NodStates
      BY DEF NodStates
    <3>1. r \in Heads
      BY <3>a, <3>b DEF Heads
    <3> USE DEF g
    <3>2. r.state = "DOWN_ACTIVE" /\ r.neutral = h.neutral /\ r.started = h.started
          /\ r.active = t /\ r.returning = h.returning /\ r.peak = p
      BY <1>0 DEF Heads
    <3>3. GoesDown(h, d, t) = r
      BY <2>3
    <3> HIDE DEF r
    <3>4. HeadFits(r, t, n)
      BY <1>0, <2>1, <2>3, <3>1, <3>2, NodNumbers DEF HeadFits, MovementFits, Moving
    <3> QED BY <3>2, <3>3, <3>4
  <2> QED BY <1>2, <2>2, <2>3
<1> QED BY <1>0, <1>1, <1>2 DEF GoesDown

LEMMA StaysDownFits ==
  ASSUME NEW h, NEW d \in Angles, NEW t \in Nat, NEW n \in Int, n < t, HeadFits(h, t, n),
         h.state = "DOWN_ACTIVE"
  PROVE  HeadFits(StaysDown(h, d, t), t, n) /\ StaysDown(h, d, t).state # "COOLDOWN"
<1> DEFINE p == Longer(h.peak, d)
<1>0. h \in Heads /\ d \in Int /\ MaxAmplitude \in Nat /\ MinDown \in Nat /\ h.peak \in Nat
      /\ h.started \in Int /\ h.active \in Int
  BY NodNumbers DEF HeadFits, Angles, Heads
<1>1. CASE StaysDown(h, d, t) = Rest(h, "IDLE")
  BY <1>0, <1>1, RestedHead
<1>2. CASE d <= MaxAmplitude
           /\ \/ StaysDown(h, d, t) = [h EXCEPT !.peak = p]
              \/ StaysDown(h, d, t) = [[h EXCEPT !.peak = p] EXCEPT !.state = "RETURNING", !.returning = t]
  <2>1. p \in Nat /\ h.peak <= p /\ (h.peak <= MaxAmplitude => p <= MaxAmplitude)
    BY <1>0, <1>2 DEF Longer
  <2> HIDE DEF p
  <2>2. CASE StaysDown(h, d, t) = [h EXCEPT !.peak = p]
    <3> DEFINE r == [h EXCEPT !.peak = p]
    <3>1. r \in Heads /\ r.state = h.state /\ r.neutral = h.neutral /\ r.started = h.started
          /\ r.active = h.active /\ r.returning = h.returning /\ r.peak = p
      BY <1>0, <2>1 DEF Heads
    <3> HIDE DEF r
    <3>2. HeadFits(r, t, n)
      BY <1>0, <2>1, <3>1, NodNumbers DEF HeadFits, MovementFits, Moving
    <3> QED BY <2>2, <3>1, <3>2 DEF r
  <2>3. CASE StaysDown(h, d, t) = [[h EXCEPT !.peak = p] EXCEPT !.state = "RETURNING", !.returning = t]
    <3> DEFINE g == [h EXCEPT !.peak = p]
               r == [g EXCEPT !.state = "RETURNING", !.returning = t]
    <3>a. g \in Heads /\ t \in Int
      BY <1>0, <2>1 DEF Heads
    <3> HIDE DEF g
    <3>b. "RETURNING" \in NodStates
      BY DEF NodStates
    <3>1. r \in Heads
      BY <3>a, <3>b DEF Heads
    <3> USE DEF g
    <3>2. r.state = "RETURNING" /\ r.neutral = h.neutral /\ r.started = h.started
          /\ r.active = h.active /\ r.returning = t /\ r.peak = p
      BY <1>0 DEF Heads
    <3>3. StaysDown(h, d, t) = r
      BY <2>3
    <3> HIDE DEF r
    <3>4. HeadFits(r, t, n)
      BY <1>0, <2>1, <3>1, <3>2, NodNumbers DEF HeadFits, MovementFits, Moving
    <3> QED BY <3>2, <3>3, <3>4
  <2> QED BY <1>2, <2>2, <2>3
<1>3. ASSUME d <= p - Reversal PROVE d <= MaxAmplitude
  <2>1. Reversal \in Nat /\ Reversal > 0 /\ h.peak <= MaxAmplitude
    BY NodAssumption DEF NodAssumption, HeadFits, MovementFits, Moving
  <2> QED BY <1>0, <1>3, <2>1 DEF Longer
<1>4. [h EXCEPT !.peak = Longer(@, d)].peak = p
  BY <1>0 DEF Heads
<1> QED BY <1>0, <1>1, <1>2, <1>3, <1>4 DEF StaysDown

\* A movement that comes back is told if it is complete, at most once and as it was.
LEMMA ComesBackFits ==
  ASSUME NEW h, NEW d \in Angles, NEW t \in Nat, NEW n \in Int, n < t, HeadFits(h, t, n),
         h.state = "RETURNING"
  PROVE  /\ HeadFits(ComesBack(h, d, t), t, n)
         /\ ComesBack(h, d, t).state = "COOLDOWN" =>
              Complete(h, t) /\ HeadFits(ComesBack(h, d, t), t, t)
<1>0. h \in Heads /\ NodCooldown \in Nat /\ t \in Int
  BY NodNumbers DEF HeadFits
<1>1. CASE ComesBack(h, d, t) = Rest(h, "IDLE")
  BY <1>0, <1>1, RestedHead
<1>2. CASE ComesBack(h, d, t) = h
  BY <1>2
<1>3. CASE /\ ComesBack(h, d, t) = [Rest(h, "COOLDOWN") EXCEPT !.cooldown = t + NodCooldown]
           /\ Complete(h, t)
  <2> DEFINE q == Rest(h, "COOLDOWN")
             r == [q EXCEPT !.cooldown = t + NodCooldown]
  <2>1. HeadFits(q, t, n) /\ HeadFits(q, t, t) /\ q.state = "COOLDOWN"
    BY <1>0, RestedHead
  <2> HIDE DEF q
  <2>2. r \in Heads /\ r.state = q.state /\ r.neutral = q.neutral /\ r.started = q.started
        /\ r.active = q.active /\ r.returning = q.returning /\ r.peak = q.peak
    BY <1>0, <2>1 DEF HeadFits, Heads
  <2> HIDE DEF r
  <2>3. HeadFits(r, t, n) /\ HeadFits(r, t, t)
    BY <2>1, <2>2 DEF HeadFits, MovementFits, Moving
  <2> QED BY <1>3, <2>3 DEF r, q
<1> QED BY <1>1, <1>2, <1>3 DEF ComesBack

\* An event is of a whole cycle.
Separate ==
  /\ nod'.from > nod.to
  /\ nod'.down >= MinDown /\ nod'.up >= MinUp
  /\ nod'.down + nod'.up <= nod'.to - nod'.from
  /\ nod'.to - nod'.from \in MinNod..MaxNod
  /\ nod'.peak \in MinAmplitude..MaxAmplitude
NodKept == NodInv' /\ (nod' # nod => Separate)

LEMMA FrameKeeps ==
  ASSUME NodInv, NEW t \in 0..MaxNodTime, time < t, NEW raw \in Angles, NodFrame(raw, t)
  PROVE  NodKept
<1> DEFINE awake == Awake(head, t)
           smooth == Smoothed(head.smooth, raw)
           next == Followed(awake, smooth, t)
           n == nod.to
<1>0. /\ t \in Nat /\ time \in Nat /\ n \in Int /\ n < t /\ HeadFits(head, time, n)
      /\ head.smooth \in Angles \cup {Unfiltered}
  BY NodNumbers DEF NodInv
<1>1. HeadFits(head, t, n)
  BY <1>0, LaterFits
<1>2. smooth \in Angles
  BY <1>0, SmoothedFits
<1>3. /\ HeadFits(awake, t, n) /\ awake.state \in NodStates \ {"WAITING_FOR_BASELINE"}
      /\ awake.state = "RETURNING" => awake = head
  BY <1>0, <1>1, AwakeFits
<1>4. /\ head' = [next EXCEPT !.smooth = smooth] /\ time' = t
      /\ nod' = IF awake.state = "RETURNING" /\ next.state = "COOLDOWN"
                THEN [from |-> head.started, to |-> t, down |-> head.active - head.started,
                      up |-> t - head.returning, peak |-> head.peak]
                ELSE nod
  BY DEF NodFrame
<1> HIDE DEF awake, smooth
<1>5. /\ HeadFits(next, t, n)
      /\ next.state = "COOLDOWN" /\ awake.state = "RETURNING" =>
           Complete(awake, t) /\ HeadFits(next, t, t)
  <2>1. CASE awake.state = "IDLE"
    BY <1>0, <1>2, <1>3, <2>1, IdleFits DEF Followed
  <2>2. CASE awake.state = "DOWN_CANDIDATE"
    BY <1>0, <1>2, <1>3, <2>2, GoesDownFits DEF Followed
  <2>3. CASE awake.state = "DOWN_ACTIVE"
    BY <1>0, <1>2, <1>3, <2>3, StaysDownFits DEF Followed
  <2>4. CASE awake.state = "RETURNING"
    BY <1>0, <1>2, <1>3, <2>4, ComesBackFits DEF Followed
  <2>5. CASE awake.state = "COOLDOWN"
    BY <1>3, <2>5 DEF Followed
  <2> QED BY <1>3, <2>1, <2>2, <2>3, <2>4, <2>5 DEF NodStates
<1> HIDE DEF next
<1>6. smooth \in Int
  BY <1>2, NodNumbers DEF Angles
<1>7. ASSUME NEW m \in Int, HeadFits(next, t, m)
      PROVE  HeadFits(head', t, m) /\ head'.smooth = smooth
  <2>1. next \in Heads
    BY <1>7 DEF HeadFits
  <2>2. /\ head' \in Heads /\ head'.smooth = smooth
        /\ head'.state = next.state /\ head'.neutral = next.neutral
        /\ head'.started = next.started /\ head'.active = next.active
        /\ head'.returning = next.returning /\ head'.peak = next.peak
    BY <1>4, <1>6, <2>1 DEF Heads
  <2> QED BY <1>7, <2>2 DEF HeadFits, MovementFits, Moving
<1>8. CASE awake.state = "RETURNING" /\ next.state = "COOLDOWN"
  <2>1. nod' = [from |-> head.started, to |-> t, down |-> head.active - head.started,
                up |-> t - head.returning, peak |-> head.peak]
    BY <1>4, <1>8
  <2>2. /\ Complete(head, t) /\ HeadFits(head, t, n) /\ head.state = "RETURNING"
        /\ HeadFits(head', t, t) /\ head'.smooth = smooth
    BY <1>0, <1>1, <1>3, <1>5, <1>7, <1>8
  <2>3. NodInv'
    BY <1>0, <1>2, <1>4, <2>1, <2>2 DEF NodInv
  <2>4. /\ head.started \in Int /\ head.active \in Int /\ head.returning \in Int
        /\ head.peak \in Nat /\ MinDown \in Nat /\ MinUp \in Nat
    BY <2>2, NodNumbers DEF HeadFits, Heads
  <2>5. /\ n < head.started /\ head.started + MinDown <= head.active
        /\ head.active <= head.returning /\ head.returning <= t
        /\ MinAmplitude <= head.peak /\ head.peak <= MaxAmplitude
    BY <2>2 DEF HeadFits, MovementFits, Moving
  <2>6. t - head.started \in MinNod..MaxNod /\ t - head.returning >= MinUp
    BY <2>2 DEF Complete
  <2>7. /\ head.started > nod.to /\ head.active - head.started >= MinDown
        /\ (head.active - head.started) + (t - head.returning) <= t - head.started
        /\ head.peak \in MinAmplitude..MaxAmplitude
    BY <1>0, <2>4, <2>5, NodNumbers
  <2> QED BY <2>1, <2>3, <2>6, <2>7 DEF NodKept, Separate
<1>9. CASE ~(awake.state = "RETURNING" /\ next.state = "COOLDOWN")
  <2>1. nod' = nod
    BY <1>4, <1>9
  <2>2. HeadFits(head', t, n) /\ head'.smooth = smooth
    BY <1>0, <1>5, <1>7
  <2> QED BY <1>0, <1>2, <1>4, <2>1, <2>2 DEF NodKept, NodInv
<1> QED BY <1>8, <1>9

LEMMA NodSteps ==
  ASSUME NodInv, NodNext \/ UNCHANGED nodVars
  PROVE  NodKept
<1>1. CASE UNCHANGED nodVars
  BY <1>1 DEF nodVars, NodKept, NodInv, HeadFits, MovementFits, Moving
<1>2. ASSUME NEW gap \in FrameGaps, time + gap <= MaxNodTime,
             \/ \E raw \in Angles : NodFrame(raw, time + gap)
             \/ NodSuspend(time + gap) \/ NodUnready(time + gap)
      PROVE  NodKept
  <2> DEFINE t == time + gap
  <2>1. t \in 0..MaxNodTime /\ time < t /\ t \in Nat /\ nod.to <= t /\ nod.to \in Int
    BY <1>2, NodNumbers DEF NodInv
  <2>2. ASSUME NEW raw \in Angles, NodFrame(raw, t) PROVE NodKept
    <3> HIDE DEF t
    <3> QED BY <2>1, <2>2, FrameKeeps
  <2> DEFINE r == Rest(head, "WAITING_FOR_BASELINE")
  <2>3. HeadFits(r, t, nod.to) /\ r.smooth = head.smooth
    <3>1. head \in Heads
      BY DEF NodInv, HeadFits
    <3>2. HeadFits(r, t, nod.to)
      BY <2>1, <3>1, RestedHead
    <3>3. r.smooth = head.smooth
      BY <3>1 DEF Rest, Cleared, Heads
    <3> QED BY <3>2, <3>3
  <2>4. CASE NodUnready(t)
    <3>1. head' = r /\ time' = t /\ nod' = nod
      BY <2>4 DEF NodUnready
    <3> HIDE DEF r, t
    <3> QED BY <2>1, <2>3, <3>1 DEF NodKept, NodInv
  <2>5. CASE NodSuspend(t)
    <3>1. head' = [r EXCEPT !.smooth = Unfiltered] /\ time' = t /\ nod' = nod
      BY <2>5 DEF NodSuspend, Suspended
    <3> HIDE DEF r, t
    <3>2. Unfiltered \in Int
      BY NodNumbers DEF Unfiltered, NewHead, Unset
    <3>3. /\ head' \in Heads /\ head'.smooth = Unfiltered
          /\ head'.state = r.state /\ head'.neutral = r.neutral /\ head'.started = r.started
          /\ head'.active = r.active /\ head'.returning = r.returning /\ head'.peak = r.peak
      BY <2>3, <3>1, <3>2 DEF HeadFits, Heads
    <3>4. HeadFits(head', t, nod.to)
      BY <2>3, <3>3 DEF HeadFits, MovementFits, Moving
    <3> QED BY <2>1, <3>1, <3>3, <3>4 DEF NodKept, NodInv
  <2> QED BY <1>2, <2>2, <2>4, <2>5
<1> QED BY <1>1, <1>2 DEF NodNext

----------------------------------------------------------------------------
(* What is laid over the conversation: a card stays until it is outranked, *)
(* for any priorities and any times, and an answer that is shown is one    *)
(* that the server has.                                                    *)

Cards == [id : Nat, rank : Ranks, expires : Nat]
Offers == [ticked : BOOLEAN, closed : BOOLEAN, choice : {"pending", "accepted", "declined"},
           asked : {"NONE", "SENT", "RECORDED", "REFUSED"}]
Extensions == [window : Windows, answer : {"NONE", "AGREE", "DECLINE"}, agreed : BOOLEAN]

\* Cards with numbers of their own.
Numbered(q) == q \subseteq Cards /\ \A c, d \in q : c.id = d.id => c = d

QueueFits ==
  /\ Numbered(cards) /\ \A c \in cards : 1 <= c.id /\ c.id <= Len(history)
  /\ IsFiniteSet(cards) /\ Cardinality(cards) <= QueueLimit
  /\ history \in Seq(1..MaxCards) /\ clock \in 0..MaxClock

\* What is shown as given and is not on its way was recorded.
OfferFits ==
  /\ offer \in Offers /\ server \in Extensions
  /\ offer.choice = "pending" => offer.asked = "NONE"
  /\ offer.asked \in {"NONE", "RECORDED"} =>
       /\ offer.choice = "accepted" => server.answer = "AGREE"
       /\ offer.choice = "declined" => server.answer = "DECLINE"

CoachInv == QueueFits /\ OfferFits

LEMMA CoachNumbers ==
  /\ QueueLimit \in Nat /\ QueueLimit > 0 /\ MaxCards \in Nat /\ MaxClock \in Nat
  /\ Ranks \subseteq 1..3 /\ Ttls \subseteq Nat
  BY CoachAssumption

LEMMA CoachGives == CoachInv => CoachTypeOK /\ ShownAnswerIsRecorded
<1> SUFFICES ASSUME CoachInv PROVE CoachTypeOK /\ ShownAnswerIsRecorded
  OBVIOUS
<1>1. ASSUME NEW c \in cards PROVE c \in [id : 1..Len(history), rank : Ranks, expires : Nat]
  <2>1. c \in Cards /\ 1 <= c.id /\ c.id <= Len(history) /\ Len(history) \in Nat
    BY DEF CoachInv, QueueFits, Numbered
  <2>2. c = [id |-> c.id, rank |-> c.rank, expires |-> c.expires] /\ c.id \in 1..Len(history)
        /\ c.rank \in Ranks /\ c.expires \in Nat
    BY <2>1 DEF Cards
  <2> QED BY <2>2
<1>2. cards \subseteq [id : 1..Len(history), rank : Ranks, expires : Nat]
  BY <1>1
<1>3. CoachTypeOK
  BY <1>2 DEF CoachInv, QueueFits, OfferFits, Offers, Extensions, CoachTypeOK
<1> QED BY <1>3 DEF CoachInv, OfferFits, ShownAnswerIsRecorded

LEMMA CoachBegins == CoachInit \/ CoachIdle => CoachInv
<1> SUFFICES ASSUME CoachInit \/ CoachIdle PROVE CoachInv
  OBVIOUS
<1>1. clock = 0 /\ cards = {} /\ history = <<>>
  BY DEF CoachInit, CoachIdle
<1>2. IsFiniteSet({}) /\ Cardinality({}) = 0
  BY FS_EmptySet
<1>3. QueueFits
  BY <1>1, <1>2, CoachNumbers DEF QueueFits, Numbered
<1>a. /\ offer = [ticked |-> FALSE, closed |-> FALSE, choice |-> "pending", asked |-> "NONE"]
      /\ server \in {[window |-> "OVER", answer |-> "NONE", agreed |-> FALSE],
                     [window |-> "EARLY", answer |-> "NONE", agreed |-> FALSE]}
  BY DEF CoachInit, CoachIdle
<1>4. offer \in Offers /\ offer.choice = "pending" /\ offer.asked = "NONE"
  BY <1>a DEF Offers
<1>5. server \in Extensions
  <2>1. CASE server = [window |-> "OVER", answer |-> "NONE", agreed |-> FALSE]
    BY <2>1 DEF Extensions, Windows
  <2>2. CASE server = [window |-> "EARLY", answer |-> "NONE", agreed |-> FALSE]
    BY <2>2 DEF Extensions, Windows
  <2> QED BY <1>a, <2>1, <2>2
<1>6. OfferFits
  BY <1>4, <1>5 DEF OfferFits
<1> QED BY <1>3, <1>6 DEF CoachInv

----------------------------------------------------------------------------
(* The queue. *)

\* Of cards with numbers of their own there is one that is shown.
LEMMA OneIsFirst ==
  ASSUME NEW q, Numbered(q), q # {}
  PROVE  \E c \in q : \A d \in q \ {c} : Before(c, d)
<1> DEFINE top == 3
<1>1. top \in Nat
  OBVIOUS
<1>2. \A c \in q : c.rank \in Nat /\ c.rank <= top /\ c.id \in Nat
  <2>1. ASSUME NEW c \in q PROVE c.rank \in 1..3 /\ c.id \in Nat
    BY CoachNumbers DEF Numbered, Cards
  <2> QED BY <2>1
<1> HIDE DEF top
<1> DEFINE Gaps == {top - c.rank : c \in q}
<1>3. Gaps \subseteq Nat /\ Gaps # {}
  BY <1>1, <1>2
<1>4. PICK gap \in Gaps : \A other \in Gaps : gap <= other
  BY <1>3, FirstExists
<1>5. PICK a \in q : gap = top - a.rank
  BY <1>4
<1>6. \A d \in q : d.rank <= a.rank
  <2>1. ASSUME NEW d \in q PROVE d.rank <= a.rank
    <3>1. top - a.rank <= top - d.rank
      BY <1>4, <1>5, <2>1
    <3> QED BY <1>1, <1>2, <1>5, <2>1, <3>1
  <2> QED BY <2>1
<1> DEFINE Ids == {c.id : c \in {d \in q : d.rank = a.rank}}
<1>7. Ids \subseteq Nat /\ a.id \in Ids
  BY <1>2, <1>5
<1>8. PICK id \in Ids : \A other \in Ids : id <= other
  BY <1>7, FirstExists
<1>9. PICK c \in q : c.rank = a.rank /\ c.id = id
  BY <1>8
<1>10. ASSUME NEW d \in q \ {c} PROVE Before(c, d)
  <2>1. CASE d.rank = a.rank
    <3>1. c.id <= d.id /\ c.id # d.id
      BY <1>8, <1>9, <1>10, <2>1 DEF Numbered
    <3> QED BY <1>2, <1>9, <1>10, <2>1, <3>1 DEF Before
  <2>2. CASE d.rank # a.rank
    BY <1>2, <1>5, <1>6, <1>9, <1>10, <2>2 DEF Before
  <2> QED BY <2>1, <2>2
<1> QED BY <1>9, <1>10

LEMMA VisibleFits ==
  ASSUME NEW q, Numbered(q), NEW t, Live(q, t) # {}
  PROVE  /\ Visible(q, t) \in Live(q, t)
         /\ \A d \in Live(q, t) \ {Visible(q, t)} : Before(Visible(q, t), d)
<1>1. Numbered(Live(q, t))
  BY DEF Numbered, Live
<1>2. \E c \in Live(q, t) : \A d \in Live(q, t) \ {c} : Before(c, d)
  BY <1>1, OneIsFirst
<1> QED BY <1>2 DEF Visible

\* The last cards of a queue are no more than asked for, and the oldest ones go.
LEMMA LastFit ==
  ASSUME NEW q, Numbered(q), IsFiniteSet(q), NEW n \in Nat, n > 0
  PROVE  /\ LastOf(q, n) \subseteq q /\ IsFiniteSet(LastOf(q, n))
         /\ Cardinality(LastOf(q, n)) <= n
         /\ \A c \in q \ LastOf(q, n) : \A d \in LastOf(q, n) : d.id > c.id
<1> DEFINE l == LastOf(q, n)
           Newer(c) == {d \in q : d.id > c.id}
<1>1. l \subseteq q /\ \A c \in q : c \in l <=> Cardinality(Newer(c)) < n
  BY DEF LastOf
<1>2. IsFiniteSet(l) /\ Cardinality(l) \in Nat
  BY <1>1, FS_Subset, FS_CardinalityType
<1>3. \A c \in q : c.id \in Nat
  BY DEF Numbered, Cards
<1>4. ASSUME NEW c \in q PROVE IsFiniteSet(Newer(c)) /\ Cardinality(Newer(c)) \in Nat
  BY FS_Subset, FS_CardinalityType
<1> HIDE DEF l
<1>5. Cardinality(l) <= n
  <2>1. CASE l = {}
    <3>1. Cardinality(l) = 0
      BY <2>1, FS_EmptySet
    <3> QED BY <3>1
  <2>2. CASE l # {}
    <3> DEFINE Ids == {c.id : c \in l}
    <3>1. Ids \subseteq Nat /\ Ids # {}
      BY <1>1, <1>3, <2>2
    <3>2. PICK id \in Ids : \A other \in Ids : id <= other
      BY <3>1, FirstExists
    <3>3. PICK c \in l : c.id = id
      BY <3>2
    <3>4. l \ {c} \subseteq Newer(c)
      <4>1. ASSUME NEW d \in l \ {c} PROVE d \in Newer(c)
        <5>1. c.id <= d.id /\ c.id # d.id
          BY <1>1, <3>2, <3>3, <4>1 DEF Numbered
        <5> QED BY <1>1, <1>3, <3>3, <4>1, <5>1
      <4> QED BY <4>1
    <3>5. c \in q /\ Cardinality(Newer(c)) < n /\ Cardinality(Newer(c)) \in Nat
          /\ IsFiniteSet(Newer(c))
      BY <1>1, <1>4, <3>3
    <3>6. Cardinality(l \ {c}) <= Cardinality(Newer(c))
      <4> HIDE DEF Newer
      <4> QED BY <3>4, <3>5, FS_Subset
    <3>7. Cardinality(l \ {c}) = Cardinality(l) - 1
      BY <1>2, <3>3, FS_RemoveElement
    <3> QED BY <1>2, <3>5, <3>6, <3>7
  <2> QED BY <2>1, <2>2
<1>6. ASSUME NEW c \in q \ l, NEW d \in l PROVE d.id > c.id
  <2>1. CASE d.id <= c.id
    <3>1. Newer(c) \subseteq Newer(d)
      BY <1>1, <1>3, <1>6, <2>1
    <3>2. IsFiniteSet(Newer(d)) /\ Cardinality(Newer(d)) < n /\ Cardinality(Newer(d)) \in Nat
          /\ Cardinality(Newer(c)) \in Nat
      BY <1>1, <1>4, <1>6
    <3>3. Cardinality(Newer(c)) <= Cardinality(Newer(d))
      <4> HIDE DEF Newer
      <4> QED BY <3>1, <3>2, FS_Subset
    <3>4. Cardinality(Newer(c)) < n
      BY <3>2, <3>3
    <3> QED BY <1>1, <1>6, <3>4
  <2> QED BY <1>1, <1>3, <1>6, <2>1
<1> QED BY <1>1, <1>2, <1>5, <1>6 DEF l

----------------------------------------------------------------------------
(* What a step keeps. *)

Undisturbed ==
  LET front == Visible(cards, clock)
      next == Visible(cards', clock')
  IN front # NoCard /\ next # front
       => \/ front.expires <= clock'
          \/ front \notin cards' /\ (history' = history \/ \A c \in cards' : c.id > front.id)
          \/ next \in cards' \ cards /\ next.rank > front.rank
CoachKept == CoachInv' /\ Undisturbed

\* A card that stays is shown unless one that came later outranks it.
LEMMA StaysShown ==
  ASSUME QueueFits, Numbered(cards'), clock' \in Nat, clock <= clock',
         \A c \in cards' : \A d \in cards : c \notin cards => c.id > d.id,
         \A c \in cards' : \A d \in Live(cards, clock) \ cards' : history' = history \/ c.id > d.id
  PROVE  Undisturbed
<1> DEFINE front == Visible(cards, clock)
           next == Visible(cards', clock')
<1>1. SUFFICES ASSUME front # NoCard, next # front, ~(front.expires <= clock'),
                      ~(front \notin cards' /\ (history' = history \/ \A c \in cards' : c.id > front.id))
               PROVE  next \in cards' \ cards /\ next.rank > front.rank
  BY DEF Undisturbed
<1>2. Live(cards, clock) # {} /\ Numbered(cards) /\ clock \in Nat
  BY <1>1 DEF Visible, QueueFits
<1>3. front \in Live(cards, clock) /\ \A d \in Live(cards, clock) \ {front} : Before(front, d)
  BY <1>2, VisibleFits
<1> HIDE DEF front
<1>4. front \in cards'
  BY <1>1, <1>3 DEF Live
<1>5. front.expires \in Nat /\ front.id \in Nat /\ front.rank \in 1..3
  BY <1>2, <1>3, CoachNumbers DEF Live, Numbered, Cards
<1>6. front \in Live(cards', clock')
  BY <1>1, <1>4, <1>5 DEF Live
<1>7. next \in Live(cards', clock') /\ Before(next, front)
  BY <1>1, <1>6, VisibleFits
<1> HIDE DEF next
<1>8. next \in cards' /\ next.expires > clock' /\ next.expires \in Nat /\ next.id \in Nat
      /\ next.rank \in 1..3
  BY <1>7, CoachNumbers DEF Live, Numbered, Cards
<1>9. next \notin cards
  <2>1. CASE next \in cards
    <3>1. next \in Live(cards, clock)
      BY <1>2, <1>8, <2>1 DEF Live
    <3>2. Before(front, next)
      BY <1>1, <1>3, <3>1
    <3> QED BY <1>5, <1>7, <1>8, <3>2 DEF Before
  <2> QED BY <2>1
<1>10. next.id > front.id
  BY <1>3, <1>8, <1>9 DEF Live
<1> QED BY <1>5, <1>7, <1>8, <1>9, <1>10 DEF Before

\* Where the queue and the clock rest, what is shown does.
LEMMA RestsShown ==
  ASSUME CoachInv, OfferFits', UNCHANGED <<cards, clock, history>>
  PROVE  CoachKept
<1>1. QueueFits' /\ OfferFits'
  BY DEF CoachInv, QueueFits
<1>2. Undisturbed
  BY DEF Undisturbed
<1> QED BY <1>1, <1>2 DEF CoachKept, CoachInv

LEMMA CoachSteps ==
  ASSUME CoachInv, CoachNext \/ UNCHANGED coachVars
  PROVE  CoachKept
<1>0. /\ QueueFits /\ OfferFits /\ clock \in Nat /\ IsFiniteSet(cards) /\ Numbered(cards)
      /\ history \in Seq(1..MaxCards) /\ Len(history) \in Nat
      /\ \A c \in cards : c \in Cards /\ c.id \in Nat /\ c.id >= 1 /\ c.id <= Len(history)
  BY CoachNumbers DEF CoachInv, QueueFits, Numbered, Cards
<1>1. CASE UNCHANGED coachVars
  BY <1>0, <1>1, RestsShown DEF coachVars, OfferFits
\* Cards that go.
<1>2. ASSUME cards' \subseteq cards, UNCHANGED <<history, server, offer>>,
             clock' \in 0..MaxClock, clock <= clock'
      PROVE  CoachKept
  <2>1. IsFiniteSet(cards') /\ Cardinality(cards') <= Cardinality(cards)
        /\ Cardinality(cards') \in Nat /\ Cardinality(cards) \in Nat
    BY <1>0, <1>2, FS_Subset, FS_CardinalityType
  <2>2. Numbered(cards')
    BY <1>0, <1>2 DEF Numbered
  <2>3. QueueFits'
    BY <1>0, <1>2, <2>1, <2>2, CoachNumbers DEF QueueFits
  <2>4. OfferFits'
    BY <1>0, <1>2 DEF OfferFits
  <2>5. clock' \in Nat
    BY <1>2, CoachNumbers
  <2>6. Undisturbed
    BY <1>0, <1>2, <2>2, <2>5, StaysShown
  <2> QED BY <2>3, <2>4, <2>6 DEF CoachKept, CoachInv
<1>3. CASE Prune
  <2>1. cards' \subseteq cards /\ clock' = clock + 1 /\ clock < MaxClock
        /\ UNCHANGED <<history, server, offer>>
    BY <1>3 DEF Prune, Live
  <2> QED BY <1>0, <1>2, <2>1, CoachNumbers
<1>4. ASSUME NEW id \in 1..MaxCards, Dismiss(id) PROVE CoachKept
  <2>1. cards' \subseteq cards /\ UNCHANGED <<clock, history, server, offer>>
    BY <1>4 DEF Dismiss
  <2> QED BY <1>0, <1>2, <2>1 DEF QueueFits
\* A card that comes is the newest.
<1>5. ASSUME NEW rank \in Ranks, NEW ttl \in Ttls, Push(rank, ttl) PROVE CoachKept
  <2> DEFINE id == Len(history) + 1
             card == [id |-> id, rank |-> rank, expires |-> clock + ttl]
             q == Live(cards, clock) \cup {card}
  <2>1. /\ id <= MaxCards /\ cards' = LastOf(q, QueueLimit) /\ history' = <<id>> \o history
        /\ UNCHANGED <<clock, server, offer>>
    BY <1>5 DEF Push
  <2>2. card \in Cards /\ card.id = id /\ id \in 1..MaxCards
    BY <1>0, <2>1, CoachNumbers DEF Cards
  <2>3. \A c \in cards : c.id < id
    BY <1>0
  <2>4. Len(history') = id /\ history' \in Seq(1..MaxCards)
    <3> HIDE DEF id
    <3>1. <<id>> \in Seq(1..MaxCards) /\ Len(<<id>>) = 1
      BY <2>2
    <3>2. <<id>> \o history \in Seq(1..MaxCards) /\ Len(<<id>> \o history) = 1 + Len(history)
      BY <1>0, <3>1
    <3> QED BY <1>0, <2>1, <3>2 DEF id
  <2> HIDE DEF card, id
  <2>5. Live(cards, clock) \subseteq cards
    BY DEF Live
  <2>6. Numbered(q)
    <3>1. \A c \in q : c \in cards \/ c = card
      BY <2>5
    <3>2. q \subseteq Cards
      BY <1>0, <2>2, <3>1
    <3>3. id \in Nat
      BY <2>2
    <3>4. ASSUME NEW c \in q, NEW d \in q, c.id = d.id PROVE c = d
      BY <1>0, <2>2, <2>3, <3>1, <3>3, <3>4 DEF Numbered
    <3> QED BY <3>2, <3>4 DEF Numbered
  <2>7. IsFiniteSet(q)
    <3>1. IsFiniteSet(Live(cards, clock))
      BY <1>0, <2>5, FS_Subset
    <3> QED BY <3>1, FS_AddElement
  <2>8. /\ cards' \subseteq q /\ IsFiniteSet(cards') /\ Cardinality(cards') <= QueueLimit
        /\ \A c \in q \ cards' : \A d \in cards' : d.id > c.id
    BY <2>1, <2>6, <2>7, LastFit, CoachNumbers
  <2>9. Numbered(cards') /\ \A c \in cards' : c \in cards \/ c = card
    BY <2>5, <2>6, <2>8 DEF Numbered
  <2>10. \A c \in cards' : 1 <= c.id /\ c.id <= Len(history')
    BY <1>0, <2>2, <2>3, <2>4, <2>9
  <2>11. QueueFits'
    BY <1>0, <2>1, <2>4, <2>8, <2>9, <2>10 DEF QueueFits
  <2>12. Undisturbed
    <3>1. \A c \in cards' : \A d \in cards : c \notin cards => c.id > d.id
      BY <2>2, <2>3, <2>9
    <3>2. \A c \in cards' : \A d \in Live(cards, clock) \ cards' : c.id > d.id
      BY <2>8
    <3>3. clock' = clock
      BY <2>1
    <3> QED BY <1>0, <2>9, <3>1, <3>2, <3>3, StaysShown
  <2>13. OfferFits'
    BY <1>0, <2>1 DEF OfferFits
  <2> QED BY <2>11, <2>12, <2>13 DEF CoachKept, CoachInv
\* The offer to go on.
<1>6. ASSUME OfferFits', UNCHANGED <<cards, clock, history>> PROVE CoachKept
  BY <1>6, RestsShown
<1>7. offer \in Offers /\ server \in Extensions
  BY <1>0 DEF OfferFits
<1>8. CASE Tick
  <2>1. offer' = [offer EXCEPT !.ticked = server.window = "OPEN"]
        /\ UNCHANGED <<clock, cards, history, server>>
    BY <1>8 DEF Tick
  <2>2. (server.window = "OPEN") \in BOOLEAN
    OBVIOUS
  <2>3. offer' \in Offers /\ offer'.choice = offer.choice /\ offer'.asked = offer.asked
    BY <1>7, <2>1, <2>2 DEF Offers
  <2>4. OfferFits'
    BY <1>0, <2>1, <2>3 DEF OfferFits
  <2> QED BY <1>6, <2>1, <2>4
<1>9. CASE WindowMoves
  <2>1. server' = [server EXCEPT !.window = IF server.window = "EARLY" THEN "OPEN" ELSE "OVER"]
        /\ UNCHANGED <<clock, cards, history, offer>>
    BY <1>9 DEF WindowMoves
  <2>2. server' \in Extensions /\ server'.answer = server.answer
    BY <1>7, <2>1 DEF Extensions, Windows
  <2>3. OfferFits'
    BY <1>0, <2>1, <2>2 DEF OfferFits
  <2> QED BY <1>6, <2>1, <2>3
<1>10. ASSUME NEW choice \in {"accepted", "declined"}, Decide(choice) PROVE CoachKept
  <2>1. offer' = [offer EXCEPT !.choice = choice, !.asked = "SENT"]
        /\ UNCHANGED <<clock, cards, history, server>>
    BY <1>10 DEF Decide
  <2>2. offer' \in Offers /\ offer'.choice = choice /\ offer'.asked = "SENT"
    BY <1>7, <2>1 DEF Offers
  <2>3. OfferFits'
    BY <1>0, <2>1, <2>2 DEF OfferFits
  <2> QED BY <1>6, <2>1, <2>3
<1>11. CASE DecideServed
  <2>1. offer.asked = "SENT" /\ UNCHANGED <<clock, cards, history>>
    BY <1>11 DEF DecideServed
  <2>2. CASE server.window = "OPEN"
    <3>1. /\ server' = [server EXCEPT !.answer = IF offer.choice = "accepted"
                                                 THEN "AGREE" ELSE "DECLINE"]
          /\ offer' = [offer EXCEPT !.asked = "RECORDED"]
      BY <1>11, <2>2 DEF DecideServed
    <3>2. /\ server' \in Extensions
          /\ server'.answer = IF offer.choice = "accepted" THEN "AGREE" ELSE "DECLINE"
      BY <1>7, <3>1 DEF Extensions
    <3>3. offer' \in Offers /\ offer'.choice = offer.choice /\ offer'.asked = "RECORDED"
      BY <1>7, <3>1 DEF Offers
    <3>4. OfferFits'
      BY <1>0, <2>1, <3>2, <3>3 DEF OfferFits
    <3> QED BY <1>6, <2>1, <3>4
  <2>3. CASE server.window # "OPEN"
    <3>1. offer' = [offer EXCEPT !.asked = "REFUSED"] /\ UNCHANGED server
      BY <1>11, <2>3 DEF DecideServed
    <3>2. offer' \in Offers /\ offer'.choice = offer.choice /\ offer'.asked = "REFUSED"
      BY <1>7, <3>1 DEF Offers
    <3>3. OfferFits'
      BY <1>0, <2>1, <3>1, <3>2 DEF OfferFits
    <3> QED BY <1>6, <2>1, <3>3
  <2> QED BY <2>2, <2>3
<1>12. ASSUME NEW arrives \in BOOLEAN, DecideAnswers(arrives) PROVE CoachKept
  <2> DEFINE choice == IF arrives /\ offer.asked = "RECORDED" THEN offer.choice ELSE "pending"
             closed == offer.closed \/ (arrives /\ offer.asked = "REFUSED")
  <2>1. /\ offer' = [offer EXCEPT !.asked = "NONE", !.choice = choice, !.closed = closed]
        /\ UNCHANGED <<clock, cards, history, server>>
    BY <1>12 DEF DecideAnswers
  <2>2. choice \in {"pending", "accepted", "declined"} /\ closed \in BOOLEAN
        /\ (choice # "pending" => offer.asked = "RECORDED" /\ choice = offer.choice)
    BY <1>7 DEF Offers
  <2> HIDE DEF choice, closed
  <2>3. offer' \in Offers /\ offer'.choice = choice /\ offer'.asked = "NONE"
    BY <1>7, <2>1, <2>2 DEF Offers
  <2>4. OfferFits'
    BY <1>0, <2>1, <2>2, <2>3 DEF OfferFits
  <2> QED BY <1>6, <2>1, <2>4
<1>13. CASE Agreed
  <2>1. PICK heard \in BOOLEAN : offer' = [offer EXCEPT !.closed = offer.closed \/ heard]
    BY <1>13 DEF Agreed
  <2>2. server' = [server EXCEPT !.agreed = TRUE] /\ UNCHANGED <<clock, cards, history>>
    BY <1>13 DEF Agreed
  <2>3. (offer.closed \/ heard) \in BOOLEAN
    OBVIOUS
  <2>4. offer' \in Offers /\ offer'.choice = offer.choice /\ offer'.asked = offer.asked
    BY <1>7, <2>1, <2>3 DEF Offers
  <2>5. server' \in Extensions /\ server'.answer = server.answer
    BY <1>7, <2>2 DEF Extensions
  <2>6. OfferFits'
    BY <1>0, <2>4, <2>5 DEF OfferFits
  <2> QED BY <1>6, <2>2, <2>6
<1> QED
  BY <1>1, <1>3, <1>4, <1>5, <1>8, <1>9, <1>10, <1>11, <1>12, <1>13 DEF CoachNext

----------------------------------------------------------------------------
(* The way to the home page. *)

Issued == 0..account.issued
CallStages == {"IDLE", "SENT", "WAITING", "RESENT"}
FetchSources == {"NONE", "BOOT", "LOGIN", "OAUTH", "SIGNUP"}
FetchStages == {"NONE", "ME", "PROFILE", "CONSENTS", "SURVEY"}
Accounts == [issued : 0..MaxTokens, expired : 0..MaxTokens,
             used : SUBSET Tokens, revoked : SUBSET Tokens, done : SUBSET Steps]
Fetches == [by : FetchSources, stage : FetchStages, profile : BOOLEAN]
Stores == [authed : BOOLEAN, onboarding : Onboarding]

\* A token that has not been issued yet was not used.
AccountFits == account \in Accounts /\ \A t \in account.used : t <= account.issued

\* The browser's token is used up only while the answer that replaces it is under way,
\* and the token in that answer is new.
TokensFit ==
  /\ tokens \in {NoTokens} \cup {Pair(t) : t \in 1..account.issued}
  /\ renewal \in [stage : {"NONE", "SENT", "ROTATED", "REFUSED"}, token : Issued]
  /\ renewal.stage = "NONE" => renewal = NoRenewal
  /\ renewal.stage \in {"SENT", "ROTATED"} =>
       renewal.token # NoToken /\ renewal.token \notin account.used
  /\ renewal.stage # "ROTATED" => tokens.refresh \notin account.used

\* What the browser concludes of the steps was so when it asked, and steps stay done.
StoreFits ==
  /\ store \in Stores /\ fetch \in Fetches
  /\ fetch.profile => "PROFILE" \in account.done
  /\ fetch.stage = "SURVEY" => fetch.profile
  /\ GateOpensWhenDone

CallsFit == /\ calls \in [Calls -> [stage : CallStages, token : Nat]]
            /\ view \in Views

AccessInv == AccountFits /\ TokensFit /\ StoreFits /\ CallsFit

LEMMA PairTokens == \A t : Pair(t).refresh = t /\ Pair(t).access = t
BY DEF Pair

LEMMA AccessGives == AccessInv => AccessTypeOK /\ RefreshIsFresh /\ GateOpensWhenDone
<1> SUFFICES ASSUME AccessInv PROVE AccessTypeOK /\ RefreshIsFresh
  BY DEF AccessInv, StoreFits
<1>1. Tokens \cup {NoToken} = 0..MaxTokens
  BY AccessAssumption DEF Tokens, NoToken
<1>2. account \in [issued : Tokens \cup {NoToken}, expired : Tokens \cup {NoToken},
                   used : SUBSET Tokens, revoked : SUBSET Tokens, done : SUBSET Steps]
  BY <1>1 DEF AccessInv, AccountFits, Accounts
<1>3. AccessTypeOK
  BY <1>2 DEF AccessInv, TokensFit, StoreFits, CallsFit, AccessTypeOK, Stores, Fetches,
     FetchSources, FetchStages, CallStages
<1>4. RefreshIsFresh
  BY DEF AccessInv, TokensFit, RefreshIsFresh
<1> QED BY <1>3, <1>4

LEMMA NothingFits ==
  /\ NoCalls \in [Calls -> [stage : CallStages, token : Nat]]
  /\ Stranger \in Stores /\ Stranger.onboarding # "ready"
  /\ NoFetch \in Fetches /\ ~NoFetch.profile /\ NoFetch.stage # "SURVEY"
  /\ NoRenewal.stage = "NONE" /\ NoRenewal.token = 0 /\ NoTokens.refresh = 0
<1>1. NoCalls \in [Calls -> [stage : CallStages, token : Nat]]
  BY DEF NoCalls, CallStages, NoToken
<1>2. Stranger \in Stores /\ Stranger.onboarding # "ready"
  BY DEF Stranger, Stores, Onboarding
<1>3. NoFetch \in Fetches /\ ~NoFetch.profile /\ NoFetch.stage # "SURVEY"
  BY DEF NoFetch, Fetches, FetchSources, FetchStages
<1>4. NoRenewal.stage = "NONE" /\ NoRenewal.token = 0 /\ NoTokens.refresh = 0
  BY DEF NoRenewal, NoTokens, NoToken
<1> QED BY <1>1, <1>2, <1>3, <1>4

LEMMA AccessBegins == AccessInit \/ AccessIdle => AccessInv
<1>0. MaxTokens \in Nat /\ MaxTokens > 0
  BY AccessAssumption
<1>1. ASSUME AccessIdle PROVE AccessInv
  <2>1. AccountFits
    BY <1>0, <1>1 DEF AccessIdle, AccountFits, Accounts
  <2>2. tokens = NoTokens /\ renewal = NoRenewal /\ account.issued = 0 /\ account.used = {}
    BY <1>1 DEF AccessIdle
  <2>3. TokensFit
    BY <2>2 DEF TokensFit, NoRenewal, NoToken, Issued
  <2>4. StoreFits
    BY <1>1, NothingFits DEF AccessIdle, StoreFits, GateOpensWhenDone
  <2>5. CallsFit
    BY <1>1, NothingFits DEF AccessIdle, CallsFit, Views
  <2> QED BY <2>1, <2>3, <2>4, <2>5 DEF AccessInv
<1>2. ASSUME AccessInit PROVE AccessInv
  <2>1. PICK stored \in BOOLEAN, done \in {{}, {"CONSENT"}, {"CONSENT", "PROFILE"}, Steps} :
          /\ account = [issued |-> IF stored THEN 1 ELSE 0, expired |-> 0, used |-> {},
                        revoked |-> {}, done |-> done]
          /\ tokens = IF stored THEN Pair(1) ELSE NoTokens
          /\ store = [Stranger EXCEPT !.authed = stored]
          /\ fetch = IF stored THEN Fetching("BOOT", "ME") ELSE NoFetch
    BY <1>2 DEF AccessInit
  <2>2. renewal = NoRenewal /\ calls = NoCalls /\ view = "SPLASH"
    BY <1>2 DEF AccessInit
  <2>3. done \subseteq Steps
    BY DEF Steps
  <2>4. AccountFits /\ account.used = {} /\ account.issued = IF stored THEN 1 ELSE 0
    BY <1>0, <2>1, <2>3 DEF AccountFits, Accounts
  <2>5. TokensFit
    BY <2>1, <2>2, <2>4 DEF TokensFit, NoRenewal, NoToken, Issued
  <2>6. store \in Stores /\ store.onboarding # "ready"
    BY <2>1, NothingFits DEF Stores
  <2>7. fetch \in Fetches /\ ~fetch.profile /\ fetch.stage # "SURVEY"
    BY <2>1, NothingFits DEF Fetching, Fetches, FetchSources, FetchStages
  <2>8. StoreFits
    BY <2>6, <2>7 DEF StoreFits, GateOpensWhenDone
  <2>9. CallsFit
    BY <2>2, NothingFits DEF CallsFit, Views
  <2> QED BY <2>4, <2>5, <2>8, <2>9 DEF AccessInv
<1> QED BY <1>1, <1>2

\* What the server records is not taken back.
Records ==
  /\ account' \in Accounts /\ account.issued <= account'.issued
  /\ \A t \in account'.used : t <= account'.issued
  /\ account.done \subseteq account'.done

LEMMA RecordsStore ==
  ASSUME StoreFits, Records, UNCHANGED <<store, fetch>>
  PROVE  StoreFits'
BY DEF StoreFits, Records, GateOpensWhenDone

LEMMA RecordsTokens ==
  ASSUME AccountFits, TokensFit, Records, account'.used = account.used, UNCHANGED renewal,
         tokens' = tokens \/ tokens' = NoTokens
  PROVE  AccountFits' /\ TokensFit'
<1>1. account.issued \in Nat /\ account'.issued \in Nat /\ account.issued <= account'.issued
  BY DEF AccountFits, Accounts, Records
<1>2. Issued \subseteq Issued' /\ 1..account.issued \subseteq 1..account'.issued
  BY <1>1 DEF Issued
<1>3. NoTokens.refresh \notin account'.used
  BY NothingFits DEF Records, Accounts, Tokens
<1>4. TokensFit'
  BY <1>2, <1>3 DEF TokensFit
<1> QED BY <1>4 DEF AccountFits, Records

LEMMA StandsRecorded ==
  ASSUME AccountFits, UNCHANGED account
  PROVE  Records
BY DEF AccountFits, Records, Accounts

LEMMA RoutedFits == \A s : Routed(s) \in Views
BY DEF Routed, Views, Steps

LEMMA LoadLoginFits ==
  ASSUME AccessInv, LoadLogin, UNCHANGED account
  PROVE  AccessInv'
<1>1. /\ tokens' = NoTokens /\ renewal' = NoRenewal /\ calls' = NoCalls /\ store' = Stranger
      /\ fetch' = NoFetch /\ view' = "LOGIN"
  BY DEF LoadLogin, Believes
<1>2. AccountFits'
  BY DEF AccessInv, AccountFits
<1>3. 0 \notin account'.used /\ 0 \in Issued'
  BY DEF AccessInv, AccountFits, Accounts, Tokens, Issued
<1>4. TokensFit'
  BY <1>1, <1>3, NothingFits DEF TokensFit, NoRenewal, NoToken
<1>5. StoreFits'
  BY <1>1, NothingFits DEF StoreFits, GateOpensWhenDone
<1>6. CallsFit'
  BY <1>1, NothingFits DEF CallsFit, Views
<1> QED BY <1>2, <1>4, <1>5, <1>6 DEF AccessInv

\* An answer that concludes, with a status that is only "ready" where it may be.
LEMMA ConcludesFits ==
  ASSUME AccessInv, NEW status \in Onboarding, Concludes(status),
         status = "ready" => {"PROFILE", "SURVEY"} \subseteq account.done,
         UNCHANGED <<account, tokens, renewal, calls>>
  PROVE  AccessInv'
<1>1. store' = [store EXCEPT !.onboarding = status] /\ fetch' = NoFetch
  BY DEF Concludes, Believes
<1>2. view' \in Views
  BY RoutedFits DEF Concludes, Shown, PageAfter, AfterCallback, AccessInv, CallsFit, Views
<1>3. store' \in Stores /\ store'.onboarding = status
  BY <1>1 DEF AccessInv, StoreFits, Stores
<1>4. StoreFits'
  BY <1>1, <1>3, NothingFits DEF StoreFits, GateOpensWhenDone
<1>5. AccountFits' /\ TokensFit'
  BY StandsRecorded, RecordsTokens DEF AccessInv
<1>6. CallsFit'
  BY <1>2 DEF AccessInv, CallsFit
<1> QED BY <1>4, <1>5, <1>6 DEF AccessInv

\* A step that is stored, with the status of the next.
LEMMA SubmitsFits ==
  ASSUME AccessInv, NEW step \in Steps, NEW status \in Onboarding, NEW next \in Views,
         Submits(step, status, next),
         status = "ready" => {"PROFILE", "SURVEY"} \subseteq account.done \cup {step}
  PROVE  AccessInv'
<1>1. /\ account' = [account EXCEPT !.done = account.done \cup {step}]
      /\ store' = [store EXCEPT !.onboarding = status] /\ view' = next
      /\ UNCHANGED <<tokens, renewal, calls, fetch>>
  BY DEF Submits, Believes, AccessInv, AccountFits, Accounts
<1>2. /\ account' \in Accounts /\ account'.done = account.done \cup {step}
      /\ account'.used = account.used /\ account'.issued = account.issued
  BY <1>1 DEF AccessInv, AccountFits, Accounts
<1>3. Records
  BY <1>2 DEF Records, AccessInv, AccountFits, Accounts
<1>4. store' \in Stores /\ store'.onboarding = status
  BY <1>1 DEF AccessInv, StoreFits, Stores
<1>5. StoreFits'
  BY <1>1, <1>2, <1>4 DEF AccessInv, StoreFits, GateOpensWhenDone
<1>6. AccountFits' /\ TokensFit'
  BY <1>1, <1>2, <1>3, RecordsTokens DEF AccessInv
<1>7. CallsFit'
  BY <1>1 DEF AccessInv, CallsFit
<1> QED BY <1>5, <1>6, <1>7 DEF AccessInv

LEMMA AccessSteps ==
  ASSUME AccessInv, AccessNext \/ UNCHANGED accessVars
  PROVE  AccessInv'
<1>0. AccountFits /\ TokensFit /\ StoreFits /\ CallsFit /\ account \in Accounts
      /\ store \in Stores /\ fetch \in Fetches /\ MaxTokens \in Nat
  BY AccessAssumption DEF AccessInv, AccountFits, StoreFits
<1>1. ASSUME UNCHANGED <<tokens, renewal, store, fetch>>, Records, account'.used = account.used,
             CallsFit'
      PROVE  AccessInv'
  BY <1>0, <1>1, RecordsStore, RecordsTokens DEF AccessInv
<1>2. CASE UNCHANGED accessVars
  BY <1>0, <1>1, <1>2, StandsRecorded DEF accessVars, CallsFit
\* The requests of the pages.
<1>3. ASSUME NEW c \in Calls, Send(c) PROVE AccessInv'
  <2>1. tokens.access \in Nat
    <3>1. PICK t \in 1..account.issued : tokens = Pair(t)
      BY <1>0, <1>3 DEF Send, TokensFit
    <3> QED BY <3>1, PairTokens
  <2>2. CallsFit'
    BY <1>0, <1>3, <2>1 DEF Send, CallsFit, CallStages
  <2> QED BY <1>0, <1>1, <1>3, <2>2, StandsRecorded DEF Send
<1>4. ASSUME NEW c \in Calls, Settles(c) PROVE AccessInv'
  <2>1. CallsFit'
    BY <1>0, <1>4, NothingFits DEF Settles, CallsFit
  <2> QED BY <1>0, <1>1, <1>4, <2>1, StandsRecorded DEF Settles
<1>5. ASSUME NEW c \in Calls, Rejected(c) PROVE AccessInv'
  <2>1. UNCHANGED account
    BY <1>5 DEF Rejected
  <2>2. CASE LoadLogin
    BY <2>1, <2>2, LoadLoginFits
  <2>3. CASE /\ Waits(c) /\ UNCHANGED <<tokens, store, fetch, view>>
             /\ \/ UNCHANGED renewal
                \/ renewal = NoRenewal /\ tokens # NoTokens /\ Renews
    <3>1. CallsFit'
      BY <1>0, <2>3 DEF Waits, CallsFit, CallStages
    <3>2. StoreFits'
      BY <1>0, <2>1, <2>3, StandsRecorded, RecordsStore
    <3>3. CASE UNCHANGED renewal
      BY <1>0, <1>1, <2>1, <2>3, <3>1, <3>3, StandsRecorded
    <3>4. CASE renewal = NoRenewal /\ tokens # NoTokens /\ Renews
      <4>1. PICK t \in 1..account.issued : tokens = Pair(t)
        BY <1>0, <3>4 DEF TokensFit
      <4>2. t \notin account.used
        BY <1>0, <3>4, <4>1, NothingFits, PairTokens DEF TokensFit
      <4>3. renewal' = [stage |-> "SENT", token |-> t]
        BY <3>4, <4>1, PairTokens DEF Renews
      <4>4. t # 0 /\ t \in Issued' /\ account.issued \in Nat
        BY <1>0, <2>1, <4>1 DEF Issued, Accounts
      <4>5. TokensFit'
        BY <1>0, <2>1, <2>3, <4>1, <4>2, <4>3, <4>4, PairTokens DEF TokensFit, NoToken
      <4>6. AccountFits'
        BY <1>0, <2>1 DEF AccountFits
      <4> QED BY <3>1, <3>2, <4>5, <4>6 DEF AccessInv
    <3> QED BY <2>3, <3>3, <3>4
  <2> QED BY <1>5, <2>2, <2>3 DEF Rejected
<1>6. CASE ServerRefreshes
  <2>1. renewal.stage = "SENT" /\ renewal.token \in Issued /\ renewal.token # 0
        /\ renewal.token \notin account.used
    BY <1>0, <1>6 DEF ServerRefreshes, TokensFit, NoToken
  <2>2. UNCHANGED <<tokens, calls, store, fetch, view>>
    BY <1>6 DEF ServerRefreshes
  <2>3. CallsFit'
    BY <1>0, <2>2 DEF CallsFit
  <2>4. CASE renewal' = [renewal EXCEPT !.stage = "REFUSED"] /\ UNCHANGED account
    <3>1. TokensFit'
      BY <1>0, <2>1, <2>2, <2>4 DEF TokensFit, Issued
    <3> QED BY <1>0, <2>2, <2>3, <2>4, <3>1, StandsRecorded, RecordsStore DEF AccessInv, AccountFits
  <2>5. CASE /\ account.issued < MaxTokens
             /\ account' = [account EXCEPT !.issued = @ + 1, !.used = @ \cup {renewal.token}]
             /\ renewal' = [stage |-> "ROTATED", token |-> account.issued + 1]
    <3>1. account.issued \in Nat
      BY <1>0 DEF Accounts
    <3>2. PICK n \in 1..MaxTokens : n = account.issued + 1
      BY <1>0, <2>5, <3>1
    <3>3. account' = [account EXCEPT !.issued = n, !.used = account.used \cup {renewal.token}]
      BY <1>0, <2>5, <3>2 DEF Accounts
    <3>4. renewal.token \in Tokens
      BY <1>0, <2>1 DEF Issued, Tokens, Accounts
    <3>5. /\ account' \in Accounts
          /\ account'.issued = n /\ account'.used = account.used \cup {renewal.token}
          /\ account'.done = account.done
      <4> DEFINE presented == account.used \cup {renewal.token}
      <4>1. presented \in SUBSET Tokens /\ n \in 0..MaxTokens
        BY <1>0, <3>2, <3>4 DEF Accounts
      <4>2. account' = [account EXCEPT !.issued = n, !.used = presented]
        BY <3>3
      <4> HIDE DEF presented
      <4>3. /\ account' \in Accounts
            /\ account'.issued = n /\ account'.used = presented /\ account'.done = account.done
        BY <1>0, <4>1, <4>2 DEF Accounts
      <4> QED BY <4>3 DEF presented
    <3>6. /\ account'.issued = n /\ account'.used = account.used \cup {renewal.token}
          /\ account'.done = account.done
      BY <3>5
    <3>7. \A t \in account'.used : t < n
      BY <1>0, <2>1, <3>1, <3>2, <3>6 DEF AccountFits, Issued, Accounts, Tokens
    <3>8. Records
      BY <3>1, <3>2, <3>5, <3>6, <3>7 DEF Records, Accounts, Tokens
    <3>9. tokens' \in {NoTokens} \cup {Pair(t) : t \in 1..account'.issued}
      BY <1>0, <2>2, <3>1, <3>2, <3>6 DEF TokensFit
    <3>10. renewal' = [stage |-> "ROTATED", token |-> n] /\ n \in Issued' /\ n # 0
      BY <2>5, <3>2, <3>6 DEF Issued
    <3>11. n \notin account'.used
      BY <3>2, <3>7
    <3>12. TokensFit'
      BY <3>9, <3>10, <3>11 DEF TokensFit, NoToken
    <3>13. AccountFits'
      BY <3>8 DEF Records, AccountFits
    <3> QED BY <1>0, <2>2, <2>3, <3>8, <3>12, <3>13, RecordsStore DEF AccessInv
  <2> QED BY <1>6, <2>4, <2>5 DEF ServerRefreshes
<1>7. ASSUME NEW ok \in BOOLEAN, RefreshAnswers(ok) PROVE AccessInv'
  <2>1. UNCHANGED account
    BY <1>7 DEF RefreshAnswers
  <2>2. CASE LoadLogin
    BY <2>1, <2>2, LoadLoginFits
  <2>3. CASE /\ renewal.stage = "ROTATED" /\ tokens' = Pair(renewal.token) /\ renewal' = NoRenewal
             /\ calls' = [c \in Calls |-> IF calls[c].stage = "WAITING"
                                          THEN [stage |-> "RESENT", token |-> renewal.token]
                                          ELSE calls[c]]
             /\ UNCHANGED <<store, fetch, view>>
    <3>1. renewal.token \in Issued /\ renewal.token # 0 /\ renewal.token \notin account.used
      BY <1>0, <2>3 DEF TokensFit, NoToken
    <3>2. renewal.token \in 1..account.issued /\ renewal.token \in Nat /\ 0 \in Issued
      BY <1>0, <3>1 DEF Issued, Accounts
    <3>3. CallsFit'
      BY <1>0, <2>3, <3>2 DEF CallsFit, CallStages
    <3>4. TokensFit'
      BY <2>1, <2>3, <3>1, <3>2, NothingFits, PairTokens DEF TokensFit, NoRenewal, NoToken, Issued
    <3> QED BY <1>0, <2>1, <2>3, <3>3, <3>4, StandsRecorded, RecordsStore DEF AccessInv, AccountFits
  <2> QED BY <1>7, <2>2, <2>3 DEF RefreshAnswers
<1>8. CASE AccessExpires
  <2>1. account' = [account EXCEPT !.expired = account.issued]
        /\ UNCHANGED <<tokens, renewal, calls, store, fetch, view>>
    BY <1>8 DEF AccessExpires
  <2>2. /\ account' \in Accounts /\ account'.done = account.done
        /\ account'.used = account.used /\ account'.issued = account.issued
    BY <1>0, <2>1 DEF Accounts
  <2>3. Records
    BY <1>0, <2>2 DEF Records, AccountFits, Accounts
  <2> QED BY <1>0, <1>1, <2>1, <2>2, <2>3 DEF CallsFit
\* The auth store.
<1>9. ASSUME NEW by \in {"LOGIN", "OAUTH", "SIGNUP"}, LogIn(by) PROVE AccessInv'
  <2>1. /\ account.issued < MaxTokens
        /\ account' = [account EXCEPT !.issued = @ + 1]
        /\ tokens' = Pair(account.issued + 1) /\ fetch' = Fetching(by, "ME")
        /\ UNCHANGED <<renewal, calls, store, view>>
    BY <1>9 DEF LogIn
  <2>2. account.issued \in Nat
    BY <1>0 DEF Accounts
  <2>3. PICK n \in 1..MaxTokens : n = account.issued + 1
    BY <1>0, <2>1, <2>2
  <2>4. account' = [account EXCEPT !.issued = n] /\ tokens' = Pair(n)
    BY <2>1, <2>3
  <2>5. /\ account' \in Accounts /\ account'.issued = n /\ account'.used = account.used
        /\ account'.done = account.done
    BY <1>0, <2>3, <2>4 DEF Accounts
  <2>6. \A t \in account.used : t < n
    BY <1>0, <2>2, <2>3 DEF AccountFits, Accounts, Tokens
  <2>7. Records
    BY <2>2, <2>3, <2>5, <2>6 DEF Records, Accounts, Tokens
  <2>8. n \notin account'.used /\ n \in 1..account'.issued
    BY <2>3, <2>5, <2>6
  <2>9. Issued \subseteq Issued'
    BY <2>2, <2>3, <2>5 DEF Issued
  <2>10. TokensFit'
    BY <1>0, <2>1, <2>4, <2>5, <2>8, <2>9, PairTokens DEF TokensFit
  <2>11. fetch' \in Fetches /\ ~fetch'.profile /\ fetch'.stage = "ME"
    BY <2>1 DEF Fetching, Fetches, FetchSources, FetchStages
  <2>12. StoreFits'
    BY <1>0, <2>1, <2>5, <2>11 DEF StoreFits, GateOpensWhenDone
  <2> QED BY <1>0, <2>1, <2>7, <2>10, <2>12 DEF AccessInv, AccountFits, Records, CallsFit
<1>10. ASSUME NEW ok \in BOOLEAN, MeAnswers(ok) PROVE AccessInv'
  <2>1. UNCHANGED <<account, renewal, calls>>
    BY <1>10 DEF MeAnswers
  <2>2. tokens' = tokens \/ tokens' = NoTokens
    BY <1>10 DEF MeAnswers
  <2>3. AccountFits' /\ TokensFit'
    BY <1>0, <2>1, <2>2, StandsRecorded, RecordsTokens
  <2>4. view' \in Views
    BY <1>0, <1>10, RoutedFits DEF MeAnswers, Shown, CallsFit
  <2>5. StoreFits'
    <3>1. CASE store' = [store EXCEPT !.authed = TRUE] /\ fetch' = [fetch EXCEPT !.stage = "PROFILE"]
      <4>1. store' \in Stores /\ store'.onboarding = store.onboarding
        BY <1>0, <3>1 DEF Stores
      <4>2. fetch' \in Fetches /\ fetch'.profile = fetch.profile /\ fetch'.stage = "PROFILE"
        BY <1>0, <3>1 DEF Fetches, FetchStages
      <4> QED BY <1>0, <2>1, <4>1, <4>2 DEF StoreFits, GateOpensWhenDone
    <3>2. CASE fetch' = NoFetch /\ (store' = Stranger \/ store' = store)
      BY <1>0, <2>1, <3>2, NothingFits DEF StoreFits, GateOpensWhenDone
    <3> QED BY <1>10, <3>1, <3>2 DEF MeAnswers, Believes
  <2> QED BY <1>0, <2>1, <2>3, <2>4, <2>5 DEF AccessInv, CallsFit
\* An answer that leads to the next question.
<1>11. ASSUME NEW stage \in {"CONSENTS", "SURVEY"}, NEW profile \in BOOLEAN,
              fetch' = [fetch EXCEPT !.stage = stage, !.profile = profile],
              profile => "PROFILE" \in account.done, stage = "SURVEY" => profile,
              UNCHANGED <<account, tokens, renewal, calls, store, view>>
       PROVE  AccessInv'
  <2>1. fetch' \in Fetches /\ fetch'.profile = profile /\ fetch'.stage = stage
    BY <1>0, <1>11 DEF Fetches, FetchStages
  <2>2. StoreFits'
    BY <1>0, <1>11, <2>1 DEF StoreFits, GateOpensWhenDone
  <2>3. AccountFits' /\ TokensFit'
    BY <1>0, <1>11, StandsRecorded, RecordsTokens
  <2> QED BY <1>0, <1>11, <2>2, <2>3 DEF AccessInv, CallsFit
<1>12. {"unknown", "needs-consent", "needs-profile", "needs-survey", "ready"} \subseteq Onboarding
  BY DEF Onboarding
<1>13. ASSUME NEW ok \in BOOLEAN, ProfileAnswers(ok) PROVE AccessInv'
  <2>1. UNCHANGED <<account, tokens, renewal, calls>>
    BY <1>13 DEF ProfileAnswers
  <2>2. CASE Concludes("unknown")
    BY <1>12, <2>1, <2>2, ConcludesFits
  <2>3. CASE /\ fetch' = [fetch EXCEPT !.stage = "CONSENTS", !.profile = "PROFILE" \in account.done]
             /\ UNCHANGED <<store, view>>
    <3> DEFINE profile == "PROFILE" \in account.done
    <3>1. profile \in BOOLEAN /\ (profile => "PROFILE" \in account.done)
      OBVIOUS
    <3>2. fetch' = [fetch EXCEPT !.stage = "CONSENTS", !.profile = profile]
      BY <2>3
    <3> HIDE DEF profile
    <3> QED BY <1>11, <2>1, <2>3, <3>1, <3>2
  <2> QED BY <1>13, <2>2, <2>3 DEF ProfileAnswers
<1>14. ASSUME NEW ok \in BOOLEAN, ConsentsAnswer(ok) PROVE AccessInv'
  <2>1. UNCHANGED <<account, tokens, renewal, calls>>
    BY <1>14 DEF ConsentsAnswer
  <2>2. CASE \E status \in {"unknown", "needs-consent", "needs-profile"} : Concludes(status)
    BY <1>12, <2>1, <2>2, ConcludesFits
  <2>3. CASE /\ fetch.profile /\ fetch' = [fetch EXCEPT !.stage = "SURVEY"]
             /\ UNCHANGED <<store, view>>
    <3>1. fetch' = [fetch EXCEPT !.stage = "SURVEY", !.profile = TRUE]
      BY <1>0, <2>3 DEF Fetches
    <3>2. "PROFILE" \in account.done
      BY <1>0, <2>3 DEF StoreFits
    <3> QED BY <1>11, <2>1, <2>3, <3>1, <3>2
  <2>4. ok = TRUE \/ ok = FALSE
    BY <1>14
  <2>5. CASE ok = FALSE
    <3>1. Concludes("unknown")
      BY <1>14, <2>5 DEF ConsentsAnswer
    <3> QED BY <2>2, <3>1
  <2>6. CASE ok = TRUE /\ "CONSENT" \notin account.done
    <3>1. Concludes("needs-consent")
      BY <1>14, <2>6 DEF ConsentsAnswer
    <3> QED BY <2>2, <3>1
  <2>7. CASE ok = TRUE /\ "CONSENT" \in account.done /\ fetch.profile = FALSE
    <3>1. Concludes("needs-profile")
      BY <1>14, <2>7 DEF ConsentsAnswer
    <3> QED BY <2>2, <3>1
  <2>8. CASE ok = TRUE /\ "CONSENT" \in account.done /\ fetch.profile = TRUE
    <3>1. fetch' = [fetch EXCEPT !.stage = "SURVEY"] /\ UNCHANGED <<store, view>>
      BY <1>14, <2>8 DEF ConsentsAnswer
    <3> QED BY <2>3, <2>8, <3>1
  <2>9. fetch.profile = TRUE \/ fetch.profile = FALSE
    BY <1>0 DEF Fetches
  <2> QED BY <2>4, <2>5, <2>6, <2>7, <2>8, <2>9
<1>15. ASSUME NEW ok \in BOOLEAN, SurveyAnswers(ok) PROVE AccessInv'
  <2>1. UNCHANGED <<account, tokens, renewal, calls>> /\ fetch.stage = "SURVEY"
    BY <1>15 DEF SurveyAnswers
  <2>2. "PROFILE" \in account.done
    BY <1>0, <2>1 DEF StoreFits
  <2> DEFINE status == CASE ~ok -> "unknown"
                         [] ok /\ "SURVEY" \in account.done -> "ready"
                         [] OTHER -> "needs-survey"
  <2>3. /\ status \in {"unknown", "ready", "needs-survey"}
        /\ status = "ready" => "SURVEY" \in account.done
    BY <1>15
  <2>4. Concludes(status)
    BY <1>15 DEF SurveyAnswers
  <2>5. status \in Onboarding
    BY <1>12, <2>3
  <2> HIDE DEF status
  <2> QED BY <2>1, <2>2, <2>3, <2>4, <2>5, ConcludesFits
<1>16. ASSUME NEW served \in BOOLEAN, SignOut(served) PROVE AccessInv'
  <2> DEFINE revoked == IF served THEN account.revoked \cup {tokens.refresh} ELSE account.revoked
  <2>1. /\ tokens # NoTokens /\ tokens' = NoTokens /\ store' = Stranger /\ Shown(Stranger)
        /\ account' = [account EXCEPT !.revoked = revoked]
        /\ UNCHANGED <<renewal, calls, fetch>>
    BY <1>0, <1>16 DEF SignOut, Believes, Accounts
  <2>2. tokens.refresh \in Tokens
    <3>1. PICK t \in 1..account.issued : tokens = Pair(t)
      BY <1>0, <2>1 DEF TokensFit
    <3> QED BY <1>0, <3>1, PairTokens DEF Tokens, Accounts
  <2>3. revoked \subseteq Tokens
    BY <1>0, <2>2 DEF Accounts
  <2> HIDE DEF revoked
  <2>4. /\ account' \in Accounts /\ account'.done = account.done
        /\ account'.used = account.used /\ account'.issued = account.issued
    BY <1>0, <2>1, <2>3 DEF Accounts
  <2>5. Records
    BY <1>0, <2>4 DEF Records, AccountFits, Accounts
  <2>6. AccountFits' /\ TokensFit'
    BY <1>0, <2>1, <2>4, <2>5, RecordsTokens
  <2>7. StoreFits'
    BY <1>0, <2>1, <2>4, NothingFits DEF StoreFits, GateOpensWhenDone
  <2>8. view' \in Views
    BY <1>0, <2>1, RoutedFits DEF Shown, CallsFit
  <2> QED BY <1>0, <2>1, <2>6, <2>7, <2>8 DEF AccessInv, CallsFit
\* The pages on the way.
<1>17. CASE SplashAdvances \/ VerifyNext \/ FaceOnward
  <2>1. view' \in Views /\ UNCHANGED <<account, tokens, renewal, calls, store, fetch>>
    BY <1>17, RoutedFits DEF SplashAdvances, VerifyNext, FaceOnward, Walks, Views, Steps
  <2> QED BY <1>0, <1>1, <2>1, StandsRecorded DEF CallsFit
<1>18. {"CONSENT", "PROFILE", "SURVEY"} \subseteq Steps /\ {"PROFILE", "FACE"} \subseteq Views
  BY DEF Steps, Views
<1>19. CASE SubmitConsents
  BY <1>12, <1>18, <1>19, SubmitsFits DEF SubmitConsents
<1>20. CASE SubmitProfile
  BY <1>12, <1>18, <1>20, SubmitsFits DEF SubmitProfile
<1>21. CASE SubmitSurvey
  BY <1>12, <1>18, <1>21, SubmitsFits, RoutedFits DEF SubmitSurvey
<1> QED
  BY <1>2, <1>3, <1>4, <1>5, <1>6, <1>7, <1>8, <1>9, <1>10, <1>13, <1>14, <1>15, <1>16, <1>17,
     <1>19, <1>20, <1>21 DEF AccessNext, SignsIn, SignsUp, CallbackArrives

----------------------------------------------------------------------------
(* The bell. *)

BellItems(items) == items \in [Notes -> Nat] /\ \A n \in Notes \cap Fleeting : items[n] = 0
Inboxes == [items : [Notes -> Nat], seen : SUBSET Notes, cursor : 0..MaxNotes,
            more : BOOLEAN, loading : BOOLEAN]
BellPages == [served : BOOLEAN, ids : SUBSET Notes, next : 0..MaxNotes, more : BOOLEAN]
BellLoads == [kind : {"NONE", "RELOAD", "MORE"}, below : 0..MaxNotes, page : BellPages]
Feeds == [state : {"idle", "connecting", "open", "closed", "refused"}, tried : BOOLEAN,
          subscribed : BOOLEAN, wire : Seq(Notes)]

InboxFits(list) ==
  /\ list \in Inboxes /\ BellItems(list.items) /\ list.seen \subseteq Notes \ Fleeting
  /\ list.more => list.cursor # NoCursor

\* A page goes on from a notification that there is.
LoadFits(load) ==
  /\ load \in BellLoads
  /\ load.page.more => load.page.next # NoCursor
  /\ load.kind = "MORE" => load.below # NoCursor

LoadsFit ==
  /\ loads \in [Loads -> BellLoads] /\ \A l \in Loads : LoadFits(loads[l])
  /\ inbox.loading => \E l \in Loads : loads[l].kind # "NONE"

MarkingFits ==
  /\ marking \in [sent : BOOLEAN, items : [Notes -> Nat]] /\ BellItems(marking.items)
  /\ ~marking.sent => marking.items = Listed({})

FeedFits == feed \in Feeds /\ (feed.wire # <<>> => feed.subscribed)

NotesInv ==
  /\ made \in 0..MaxNotes /\ stale \in BOOLEAN
  /\ InboxFits(inbox) /\ LoadsFit /\ MarkingFits /\ FeedFits /\ ListedOnce

LEMMA NotesGives == NotesInv => NotesTypeOK /\ ListedOnce
<1> SUFFICES ASSUME NotesInv PROVE NotesTypeOK
  BY DEF NotesInv
<1>1. /\ inbox.items \in [Notes -> Nat] /\ \A n \in Notes \cap Fleeting : inbox.items[n] = 0
      /\ inbox.seen \subseteq Notes \ Fleeting
      /\ inbox.cursor \in 0..MaxNotes /\ (inbox.more => inbox.cursor # NoCursor)
  BY DEF NotesInv, InboxFits, Inboxes, BellItems
<1>2. /\ \A l \in Loads : loads[l].kind \in {"NONE", "RELOAD", "MORE"}
      /\ inbox.loading => \E l \in Loads : loads[l].kind # "NONE"
  BY DEF NotesInv, LoadsFit, LoadFits, BellLoads
<1>3. /\ feed.state \in {"idle", "connecting", "open", "closed", "refused"}
      /\ feed.wire \in Seq(Notes) /\ (feed.wire # <<>> => feed.subscribed)
  BY DEF NotesInv, FeedFits, Feeds
<1> QED BY <1>1, <1>2, <1>3 DEF NotesInv, MarkingFits, NotesTypeOK

LEMMA NotesNumbers ==
  /\ MaxNotes \in Nat /\ PageSize \in Nat /\ PageSize > 0 /\ 1 \in Loads
  /\ NoCursor = 0 /\ NoCursor \in 0..MaxNotes
BY NotesAssumption DEF Loads, NoCursor

LEMMA ListedFits ==
  ASSUME NEW ids, ids \subseteq Notes \ Fleeting
  PROVE  BellItems(Listed(ids))
<1>1. Listed(ids) = [n \in Notes |-> IF n \in ids THEN 1 ELSE 0]
  BY DEF Listed
<1>2. Listed(ids) \in [Notes -> Nat]
  BY <1>1
<1>3. \A n \in Notes \cap Fleeting : Listed(ids)[n] = 0
  BY <1>1
<1> QED BY <1>2, <1>3 DEF BellItems

LEMMA EmptyFits ==
  /\ InboxFits(EmptyInbox) /\ EmptyInbox.items = Listed(EmptyInbox.seen) /\ EmptyInbox.loading = FALSE
  /\ InboxFits(ShownInbox) /\ ShownInbox.items = Listed(ShownInbox.seen)
  /\ LoadFits(NoLoad) /\ NoLoad \in BellLoads /\ NoLoad.kind = "NONE"
  /\ LoadFits([NoLoad EXCEPT !.kind = "RELOAD"])
  /\ ShownFeed \in Feeds /\ ShownFeed.wire = <<>> /\ IdleFeed \in Feeds /\ IdleFeed.wire = <<>>
<1> DEFINE none == Listed({})
<1>1. BellItems(none) /\ none \in [Notes -> Nat]
  BY ListedFits DEF BellItems
<1> HIDE DEF none
<1>2. EmptyInbox = [items |-> none, seen |-> {}, cursor |-> NoCursor, more |-> FALSE, loading |-> FALSE]
  BY DEF EmptyInbox, none
<1>3. EmptyInbox \in Inboxes
  BY <1>1, <1>2, NotesNumbers DEF Inboxes
<1>4. /\ EmptyInbox.items = none /\ EmptyInbox.seen = {} /\ EmptyInbox.more = FALSE
      /\ EmptyInbox.loading = FALSE
  BY <1>2
<1>5. ShownInbox \in Inboxes
  BY <1>3 DEF ShownInbox, Inboxes
<1>6. /\ ShownInbox.items = none /\ ShownInbox.seen = {} /\ ShownInbox.more = FALSE
  BY <1>2 DEF ShownInbox
<1>7. InboxFits(EmptyInbox) /\ InboxFits(ShownInbox)
  BY <1>1, <1>3, <1>4, <1>5, <1>6 DEF InboxFits
<1>8. NoPage \in BellPages /\ NoPage.more = FALSE
  BY NotesNumbers DEF NoPage, BellPages
<1>9. NoLoad \in BellLoads /\ NoLoad.kind = "NONE" /\ NoLoad.page = NoPage
  BY <1>8, NotesNumbers DEF NoLoad, BellLoads
<1> DEFINE reload == [NoLoad EXCEPT !.kind = "RELOAD"]
<1>10. reload \in BellLoads /\ reload.kind = "RELOAD" /\ reload.page = NoPage
  BY <1>9 DEF BellLoads
<1>11. LoadFits(NoLoad) /\ LoadFits(reload)
  BY <1>8, <1>9, <1>10 DEF LoadFits
<1>12. <<>> \in Seq(Notes)
  OBVIOUS
<1>13. IdleFeed \in Feeds /\ IdleFeed.wire = <<>>
  BY <1>12 DEF IdleFeed, Feeds
<1>14. ShownFeed \in Feeds /\ ShownFeed.wire = <<>>
  BY <1>12 DEF IdleFeed, ShownFeed, Feeds
<1> QED BY <1>4, <1>6, <1>7, <1>9, <1>11, <1>13, <1>14 DEF none

LEMMA ShownLoadsFit ==
  /\ ShownLoads \in [Loads -> BellLoads] /\ \A l \in Loads : LoadFits(ShownLoads[l])
  /\ \E l \in Loads : ShownLoads[l].kind # "NONE"
<1> DEFINE reload == [NoLoad EXCEPT !.kind = "RELOAD"]
<1>1. reload \in BellLoads /\ LoadFits(reload) /\ reload.kind = "RELOAD"
  BY EmptyFits DEF LoadFits, BellLoads
<1>2. ShownLoads = [l \in Loads |-> IF l = 1 THEN reload ELSE NoLoad]
  BY DEF ShownLoads
<1> HIDE DEF reload
<1> QED BY <1>1, <1>2, EmptyFits, NotesNumbers

LEMMA NotMarkingFits ==
  /\ NotMarking \in [sent : BOOLEAN, items : [Notes -> Nat]] /\ BellItems(NotMarking.items)
  /\ NotMarking.items = Listed({}) /\ NotMarking.sent = FALSE
<1> DEFINE none == Listed({})
<1>1. BellItems(none) /\ none \in [Notes -> Nat]
  BY ListedFits DEF BellItems
<1>2. NotMarking = [sent |-> FALSE, items |-> none]
  BY DEF NotMarking
<1> HIDE DEF none
<1> QED BY <1>1, <1>2 DEF none

LEMMA NotesBegins == NotesInit \/ NotesIdle => NotesInv
<1>1. CASE NotesIdle
  <2>1. LoadsFit
    BY <1>1, EmptyFits DEF NotesIdle, LoadsFit
  <2>2. MarkingFits
    BY <1>1, NotMarkingFits DEF NotesIdle, MarkingFits
  <2> QED BY <1>1, <2>1, <2>2, EmptyFits, NotesNumbers DEF NotesIdle, NotesInv, FeedFits, ListedOnce
<1>2. CASE NotesInit
  <2>1. LoadsFit
    BY <1>2, ShownLoadsFit DEF NotesInit, LoadsFit
  <2>2. MarkingFits
    BY <1>2, NotMarkingFits DEF NotesInit, MarkingFits
  <2> QED BY <1>2, <2>1, <2>2, EmptyFits, NotesNumbers DEF NotesInit, NotesInv, FeedFits, ListedOnce
<1> QED BY <1>1, <1>2

\* The page below a notification.
LEMMA PageBelowFits ==
  ASSUME NEW below \in 1..(MaxNotes + 1)
  PROVE  PageBelow(below) \in BellPages /\ (PageBelow(below).more => PageBelow(below).next # NoCursor)
<1> DEFINE n == IF below - 1 < PageSize THEN below - 1 ELSE PageSize
           ids == (below - n)..(below - 1)
           next == IF below - 1 > PageSize THEN below - n ELSE NoCursor
           more == below - 1 > PageSize
<1>1. n \in Nat /\ n <= below - 1
  BY NotesNumbers
<1>2. ids \in SUBSET Notes
  BY <1>1, NotesNumbers DEF Notes
<1>3. next \in 0..MaxNotes /\ (more => next # NoCursor) /\ more \in BOOLEAN
  BY <1>1, NotesNumbers
<1>4. PageBelow(below) = [served |-> TRUE, ids |-> ids, next |-> next, more |-> more]
  BY DEF PageBelow
<1> HIDE DEF ids, next, more
<1> QED BY <1>2, <1>3, <1>4 DEF BellPages

\* What a list does not know yet is added to it once.
LEMMA WithNewFits ==
  ASSUME NEW list, InboxFits(list), NEW ids, ids \subseteq Notes \ Fleeting
  PROVE  LET r == WithNew(list, ids)
         IN /\ InboxFits(r) /\ r.loading = list.loading
            /\ list.items = Listed(list.seen) => r.items = Listed(r.seen)
<1> DEFINE fresh == ids \ list.seen
           items == [n \in Notes |-> list.items[n] + Listed(fresh)[n]]
           seen == list.seen \cup fresh
           r == WithNew(list, ids)
<1>1. list \in Inboxes /\ BellItems(list.items) /\ list.items \in [Notes -> Nat]
      /\ list.seen \subseteq Notes \ Fleeting /\ fresh \subseteq Notes \ Fleeting
  BY DEF InboxFits, BellItems
<1>2. BellItems(Listed(fresh)) /\ Listed(fresh) \in [Notes -> Nat]
  BY <1>1, ListedFits DEF BellItems
<1>3. items \in [Notes -> Nat] /\ BellItems(items)
  BY <1>1, <1>2 DEF BellItems
<1>4. r = [list EXCEPT !.items = items, !.seen = seen]
  BY <1>1 DEF WithNew, Inboxes
<1>5. seen \subseteq Notes \ Fleeting
  BY <1>1
<1>6. ASSUME list.items = Listed(list.seen) PROVE items = Listed(seen)
  <2>1. ASSUME NEW n \in Notes PROVE items[n] = Listed(seen)[n]
    <3>1. list.items[n] = IF n \in list.seen THEN 1 ELSE 0
      BY <1>6 DEF Listed
    <3>2. Listed(fresh)[n] = IF n \in fresh THEN 1 ELSE 0
      BY DEF Listed
    <3>3. Listed(seen)[n] = IF n \in seen THEN 1 ELSE 0
      BY DEF Listed
    <3> QED BY <3>1, <3>2, <3>3
  <2>2. Listed(seen) = [n \in Notes |-> Listed(seen)[n]]
    BY DEF Listed
  <2> QED BY <2>1, <2>2
<1> HIDE DEF items, seen, r, fresh
<1>7. /\ r \in Inboxes /\ r.items = items /\ r.seen = seen /\ r.more = list.more
      /\ r.cursor = list.cursor /\ r.loading = list.loading
  BY <1>1, <1>3, <1>4, <1>5 DEF Inboxes
<1>8. InboxFits(r)
  BY <1>3, <1>5, <1>7 DEF InboxFits
<1> QED BY <1>6, <1>7, <1>8 DEF r

\* One read of the list changes.
LEMMA LoadChanges ==
  ASSUME LoadsFit, NEW l \in Loads, NEW load, LoadFits(load), loads' = [loads EXCEPT ![l] = load]
  PROVE  /\ loads' \in [Loads -> BellLoads] /\ \A k \in Loads : LoadFits(loads'[k])
         /\ loads'[l] = load
         /\ load.kind # "NONE" => \E k \in Loads : loads'[k].kind # "NONE"
         /\ load.kind = loads[l].kind /\ inbox.loading => \E k \in Loads : loads'[k].kind # "NONE"
<1>1. load \in BellLoads
  BY DEF LoadFits
<1>2. /\ loads' \in [Loads -> BellLoads]
      /\ \A k \in Loads : loads'[k] = IF k = l THEN load ELSE loads[k]
  BY <1>1 DEF LoadsFit
<1> QED BY <1>2 DEF LoadsFit

LEMMA NotesSteps ==
  ASSUME NotesInv, NotesNext \/ UNCHANGED notesVars
  PROVE  NotesInv'
<1>0. /\ made \in 0..MaxNotes /\ stale \in BOOLEAN /\ InboxFits(inbox) /\ inbox \in Inboxes
      /\ LoadsFit /\ MarkingFits /\ FeedFits /\ ListedOnce
  BY DEF NotesInv, InboxFits
<1>1. ASSUME UNCHANGED <<loads, inbox>> PROVE LoadsFit'
  BY <1>0, <1>1 DEF LoadsFit
<1>2. ASSUME UNCHANGED marking PROVE MarkingFits'
  BY <1>0, <1>2 DEF MarkingFits
<1>3. ASSUME UNCHANGED feed PROVE FeedFits'
  BY <1>0, <1>3 DEF FeedFits
<1>4. ASSUME UNCHANGED <<inbox, stale>> PROVE InboxFits(inbox)' /\ stale' \in BOOLEAN /\ ListedOnce'
  BY <1>0, <1>4 DEF ListedOnce, InboxFits
<1>5. CASE UNCHANGED notesVars
  BY <1>0, <1>1, <1>2, <1>3, <1>4, <1>5 DEF notesVars, NotesInv
\* The server.
<1>6. ASSUME UNCHANGED <<made, inbox, loads, marking, stale>>, FeedFits' PROVE NotesInv'
  BY <1>0, <1>1, <1>2, <1>4, <1>6 DEF NotesInv
<1>7. CASE Notify
  <2>1. /\ made < MaxNotes /\ made' = made + 1
        /\ feed' = IF feed.subscribed THEN [feed EXCEPT !.wire = Append(@, made + 1)] ELSE feed
        /\ UNCHANGED <<inbox, loads, marking, stale>>
    BY <1>7 DEF Notify
  <2>2. PICK n \in Notes : n = made + 1
    BY <1>0, <2>1, NotesNumbers DEF Notes
  <2>3. made' \in 0..MaxNotes
    BY <1>0, <2>1, NotesNumbers
  <2>4. FeedFits'
    <3>1. CASE feed' = feed
      BY <1>3, <3>1
    <3>2. CASE feed.subscribed /\ feed' = [feed EXCEPT !.wire = Append(@, made + 1)]
      <4> DEFINE queued == Append(feed.wire, n)
      <4>1. feed \in Feeds /\ queued \in Seq(Notes)
        BY <1>0, <2>2 DEF FeedFits, Feeds
      <4>2. feed' = [feed EXCEPT !.wire = queued]
        BY <1>0, <2>2, <3>2 DEF FeedFits, Feeds
      <4> HIDE DEF queued
      <4>3. feed' \in Feeds /\ feed'.subscribed = feed.subscribed
        BY <4>1, <4>2 DEF Feeds
      <4> QED BY <3>2, <4>3 DEF FeedFits
    <3> QED BY <2>1, <3>1, <3>2
  <2> QED BY <1>1, <1>2, <1>4, <2>1, <2>3, <2>4 DEF NotesInv
<1>8. CASE Subscribe
  <2>1. feed' \in Feeds /\ feed'.subscribed = TRUE
    BY <1>0, <1>8 DEF Subscribe, FeedFits, Feeds
  <2> QED BY <1>6, <1>8, <2>1 DEF Subscribe, FeedFits
<1>9. ASSUME NEW l \in Loads, PageServed(l) PROVE NotesInv'
  <2> DEFINE below == IF loads[l].kind = "MORE" THEN loads[l].below ELSE made + 1
             slice == PageBelow(below)
             load == [loads[l] EXCEPT !.page = slice]
  <2>1. loads' = [loads EXCEPT ![l].page = slice] /\ UNCHANGED <<made, inbox, marking, feed, stale>>
    BY <1>9 DEF PageServed
  <2>2. LoadFits(loads[l]) /\ loads[l] \in BellLoads
    BY <1>0 DEF LoadsFit, LoadFits
  <2>3. below \in 1..(MaxNotes + 1)
    <3>1. loads[l].kind = "MORE" => loads[l].below \in 0..MaxNotes /\ loads[l].below # 0
      BY <2>2 DEF LoadFits, BellLoads, NoCursor
    <3> QED BY <1>0, <3>1, NotesNumbers
  <2>4. slice \in BellPages /\ (slice.more => slice.next # NoCursor)
    BY <2>3, PageBelowFits
  <2>5. loads' = [loads EXCEPT ![l] = load]
    BY <1>0, <2>1 DEF LoadsFit
  <2> HIDE DEF slice
  <2>6. load \in BellLoads /\ load.page = slice /\ load.kind = loads[l].kind /\ load.below = loads[l].below
    BY <2>2, <2>4 DEF BellLoads
  <2> HIDE DEF load
  <2>7. LoadFits(load)
    BY <2>2, <2>4, <2>6 DEF LoadFits
  <2>8. LoadsFit'
    BY <1>0, <2>1, <2>5, <2>6, <2>7, LoadChanges DEF LoadsFit
  <2> QED BY <1>0, <1>2, <1>3, <1>4, <2>1, <2>8 DEF NotesInv
\* The list.
<1>10. ASSUME NEW l \in Loads, NEW list, inbox' = list, InboxFits(list), list.loading = FALSE,
              loads' = [loads EXCEPT ![l] = NoLoad], UNCHANGED <<made, marking, feed>>,
              stale' \in BOOLEAN, stale' = FALSE => list.items = Listed(list.seen)
       PROVE  NotesInv'
  <2>1. LoadsFit'
    BY <1>0, <1>10, EmptyFits, LoadChanges DEF LoadsFit
  <2> QED BY <1>0, <1>2, <1>3, <1>10, <2>1 DEF NotesInv, ListedOnce
<1>11. [inbox EXCEPT !.loading = FALSE] \in Inboxes /\ InboxFits([inbox EXCEPT !.loading = FALSE])
       /\ (inbox.items = Listed(inbox.seen) =>
             [inbox EXCEPT !.loading = FALSE].items = Listed([inbox EXCEPT !.loading = FALSE].seen))
       /\ [inbox EXCEPT !.loading = FALSE].loading = FALSE
  <2> DEFINE list == [inbox EXCEPT !.loading = FALSE]
  <2>1. /\ list \in Inboxes /\ list.items = inbox.items /\ list.seen = inbox.seen
        /\ list.more = inbox.more /\ list.cursor = inbox.cursor /\ list.loading = FALSE
    BY <1>0 DEF Inboxes
  <2> HIDE DEF list
  <2>2. InboxFits(list)
    BY <1>0, <2>1 DEF InboxFits
  <2>3. inbox.items = Listed(inbox.seen) => list.items = Listed(list.seen)
    BY <2>1
  <2> QED BY <2>1, <2>2, <2>3 DEF list
<1>12. ASSUME NEW list \in Inboxes, InboxFits(list), NEW l \in Loads, NEW load, LoadFits(load),
              load.kind # "NONE", inbox' = list, list.items = inbox.items, list.seen = inbox.seen,
              loads' = [loads EXCEPT ![l] = load], UNCHANGED <<made, marking, stale>>, FeedFits'
       PROVE  NotesInv'
  <2>1. LoadsFit'
    BY <1>0, <1>12, LoadChanges DEF LoadsFit
  <2>2. ListedOnce'
    BY <1>0, <1>12 DEF ListedOnce
  <2> QED BY <1>0, <1>2, <1>12, <2>1, <2>2 DEF NotesInv
<1>13. ASSUME NEW p, p \in BellPages PROVE InBell(p.ids) \subseteq Notes \ Fleeting
  BY <1>13 DEF InBell, BellPages
<1>14. ASSUME NEW l \in Loads
       PROVE  loads[l].page \in BellPages /\ (loads[l].page.more => loads[l].page.next # NoCursor)
  BY <1>0 DEF LoadsFit, LoadFits, BellLoads
<1>15. ASSUME NEW l \in Loads, NEW ok \in BOOLEAN, ReloadAnswers(l, ok) PROVE NotesInv'
  <2> DEFINE slice == loads[l].page
             visible == InBell(slice.ids)
             list == [items |-> Listed(visible), seen |-> visible, cursor |-> slice.next,
                      more |-> slice.more, loading |-> FALSE]
  <2>1. /\ loads' = [loads EXCEPT ![l] = NoLoad]
        /\ inbox' = IF ok THEN list ELSE [inbox EXCEPT !.loading = FALSE]
        /\ stale' = (stale /\ ~ok) /\ UNCHANGED <<made, marking, feed>>
    BY <1>15 DEF ReloadAnswers
  <2>2. CASE ok = TRUE
    <3>1. slice \in BellPages /\ (slice.more => slice.next # NoCursor)
          /\ visible \subseteq Notes \ Fleeting
      BY <1>13, <1>14
    <3> HIDE DEF slice, visible
    <3>2. BellItems(Listed(visible)) /\ Listed(visible) \in [Notes -> Nat]
      BY <3>1, ListedFits DEF BellItems
    <3>3. /\ list \in Inboxes /\ list.items = Listed(visible) /\ list.seen = visible
          /\ list.cursor = slice.next /\ list.more = slice.more /\ list.loading = FALSE
      BY <3>1, <3>2 DEF Inboxes, BellPages
    <3> HIDE DEF list
    <3>4. InboxFits(list)
      BY <3>1, <3>2, <3>3 DEF InboxFits
    <3>5. inbox' = list /\ stale' = FALSE
      BY <2>1, <2>2
    <3> QED BY <1>10, <2>1, <3>3, <3>4, <3>5
  <2>3. CASE ok = FALSE
    <3>1. inbox' = [inbox EXCEPT !.loading = FALSE] /\ stale' = stale
      BY <1>0, <2>1, <2>3
    <3> QED BY <1>0, <1>10, <1>11, <2>1, <3>1 DEF ListedOnce
  <2> QED BY <2>2, <2>3
<1>16. ASSUME NEW l \in Loads, NEW ok \in BOOLEAN, MoreAnswers(l, ok) PROVE NotesInv'
  <2> DEFINE slice == loads[l].page
             with == WithNew(inbox, InBell(slice.ids))
             list == [with EXCEPT !.cursor = slice.next, !.more = slice.more, !.loading = FALSE]
  <2>1. /\ loads' = [loads EXCEPT ![l] = NoLoad]
        /\ inbox' = IF ok THEN list ELSE [inbox EXCEPT !.loading = FALSE]
        /\ UNCHANGED <<made, marking, feed, stale>>
    BY <1>16 DEF MoreAnswers
  <2>2. CASE ok = TRUE
    <3>1. slice \in BellPages /\ (slice.more => slice.next # NoCursor)
      BY <1>14
    <3>2. InboxFits(with) /\ (inbox.items = Listed(inbox.seen) => with.items = Listed(with.seen))
      BY <1>0, <1>13, <3>1, WithNewFits
    <3> HIDE DEF slice, with
    <3>3. /\ list \in Inboxes /\ list.items = with.items /\ list.seen = with.seen
          /\ list.cursor = slice.next /\ list.more = slice.more /\ list.loading = FALSE
      BY <3>1, <3>2 DEF InboxFits, Inboxes, BellPages
    <3> HIDE DEF list
    <3>4. InboxFits(list)
      BY <3>1, <3>2, <3>3 DEF InboxFits
    <3>5. inbox' = list
      BY <2>1, <2>2
    <3>6. stale' = FALSE => list.items = Listed(list.seen)
      BY <1>0, <2>1, <3>2, <3>3 DEF ListedOnce
    <3> QED BY <1>0, <1>10, <2>1, <3>3, <3>4, <3>5, <3>6
  <2>3. CASE ok = FALSE
    <3>1. inbox' = [inbox EXCEPT !.loading = FALSE]
      BY <2>1, <2>3
    <3> QED BY <1>0, <1>10, <1>11, <2>1, <3>1 DEF ListedOnce
  <2> QED BY <2>2, <2>3
<1>17. ASSUME NEW flag \in BOOLEAN
       PROVE  LET list == [inbox EXCEPT !.loading = flag]
              IN list \in Inboxes /\ InboxFits(list) /\ list.items = inbox.items /\ list.seen = inbox.seen
  <2> DEFINE list == [inbox EXCEPT !.loading = flag]
  <2>1. /\ list \in Inboxes /\ list.items = inbox.items /\ list.seen = inbox.seen
        /\ list.more = inbox.more /\ list.cursor = inbox.cursor
    BY <1>0 DEF Inboxes
  <2> HIDE DEF list
  <2>2. InboxFits(list)
    BY <1>0, <2>1 DEF InboxFits
  <2> QED BY <2>1, <2>2 DEF list
<1>18. ASSUME NEW l \in Loads, LoadMore(l) PROVE NotesInv'
  <2> DEFINE load == [NoLoad EXCEPT !.kind = "MORE", !.below = inbox.cursor]
             list == [inbox EXCEPT !.loading = TRUE]
  <2>1. /\ inbox.cursor # NoCursor /\ loads' = [loads EXCEPT ![l] = load] /\ inbox' = list
        /\ UNCHANGED <<made, marking, feed, stale>>
    BY <1>18 DEF LoadMore
  <2>2. NoLoad \in BellLoads /\ inbox.cursor \in 0..MaxNotes
    BY <1>0, EmptyFits DEF Inboxes
  <2>3. /\ load \in BellLoads /\ load.kind = "MORE" /\ load.below = inbox.cursor
        /\ load.page = NoLoad.page
    BY <2>2 DEF BellLoads
  <2> HIDE DEF load
  <2>4. LoadFits(load)
    BY <2>1, <2>3, EmptyFits DEF LoadFits
  <2>5. list \in Inboxes /\ InboxFits(list) /\ list.items = inbox.items /\ list.seen = inbox.seen
    BY <1>17
  <2> HIDE DEF list
  <2> QED BY <1>3, <1>12, <2>1, <2>3, <2>4, <2>5
<1>19. ASSUME NEW l \in Loads, StreamOpens(l) PROVE NotesInv'
  <2> DEFINE load == [NoLoad EXCEPT !.kind = "RELOAD"]
             list == [inbox EXCEPT !.loading = TRUE]
  <2>1. feed.subscribed /\ feed' = [feed EXCEPT !.state = "open", !.tried = FALSE]
        /\ UNCHANGED <<made, marking, stale>>
    BY <1>19 DEF StreamOpens
  <2>2. feed' \in Feeds /\ feed'.subscribed = feed.subscribed
    BY <1>0, <2>1 DEF FeedFits, Feeds
  <2>3. FeedFits'
    BY <2>1, <2>2 DEF FeedFits
  <2>4. CASE UNCHANGED <<loads, inbox>>
    BY <1>6, <2>1, <2>3, <2>4
  <2>5. CASE loads' = [loads EXCEPT ![l] = load] /\ inbox' = list
    <3>1. LoadFits(load) /\ load.kind # "NONE"
      BY EmptyFits DEF BellLoads
    <3>2. list \in Inboxes /\ InboxFits(list) /\ list.items = inbox.items /\ list.seen = inbox.seen
      BY <1>17
    <3> HIDE DEF list, load
    <3> QED BY <1>12, <2>1, <2>3, <2>5, <3>1, <3>2
  <2> QED BY <1>19, <2>4, <2>5 DEF StreamOpens
\* "Read all".
<1>20. CASE MarkAll
  <2>1. marking' = [sent |-> TRUE, items |-> inbox.items] /\ UNCHANGED <<made, inbox, loads, feed, stale>>
    BY <1>20 DEF MarkAll
  <2>2. MarkingFits'
    BY <1>0, <2>1 DEF MarkingFits, InboxFits, BellItems
  <2> QED BY <1>0, <1>1, <1>3, <1>4, <2>1, <2>2 DEF NotesInv
<1>21. ASSUME NEW ok \in BOOLEAN, MarkAllAnswers(ok) PROVE NotesInv'
  <2>1. /\ marking' = NotMarking
        /\ inbox' = IF ok THEN inbox ELSE [inbox EXCEPT !.items = marking.items]
        /\ stale' = (stale \/ ~ok) /\ UNCHANGED <<made, loads, feed>>
    BY <1>21 DEF MarkAllAnswers
  <2>2. MarkingFits'
    BY <2>1, NotMarkingFits DEF MarkingFits
  <2>3. CASE ok = TRUE
    <3>1. UNCHANGED <<inbox, stale>>
      BY <1>0, <2>1, <2>3
    <3> QED BY <1>0, <1>1, <1>3, <1>4, <2>1, <2>2, <3>1 DEF NotesInv
  <2>4. CASE ok = FALSE
    <3> DEFINE list == [inbox EXCEPT !.items = marking.items]
    <3>1. inbox' = list /\ stale' = TRUE
      BY <2>1, <2>4
    <3>2. BellItems(marking.items) /\ marking.items \in [Notes -> Nat]
      BY <1>0 DEF MarkingFits, BellItems
    <3>3. /\ list \in Inboxes /\ list.items = marking.items /\ list.seen = inbox.seen
          /\ list.more = inbox.more /\ list.cursor = inbox.cursor /\ list.loading = inbox.loading
      BY <1>0, <3>2 DEF Inboxes
    <3> HIDE DEF list
    <3>4. InboxFits(list)
      BY <1>0, <3>2, <3>3 DEF InboxFits
    <3>5. LoadsFit'
      BY <1>0, <2>1, <3>1, <3>3 DEF LoadsFit
    <3> QED BY <1>0, <1>3, <2>1, <2>2, <3>1, <3>4, <3>5 DEF NotesInv, ListedOnce
  <2> QED BY <2>3, <2>4
\* The bell itself.
<1>22. CASE HideBell
  <2>1. /\ inbox' = EmptyInbox /\ loads' = [l \in Loads |-> NoLoad] /\ marking' = NotMarking
        /\ feed' = IdleFeed /\ stale' = FALSE /\ UNCHANGED made
    BY <1>22 DEF HideBell
  <2>2. LoadsFit'
    BY <2>1, EmptyFits DEF LoadsFit
  <2>3. MarkingFits' /\ FeedFits'
    BY <2>1, NotMarkingFits, EmptyFits DEF MarkingFits, FeedFits
  <2> QED BY <1>0, <2>1, <2>2, <2>3, EmptyFits DEF NotesInv, ListedOnce
<1>23. CASE ShowBell
  <2>1. /\ inbox' = ShownInbox /\ loads' = ShownLoads /\ feed' = ShownFeed
        /\ UNCHANGED <<made, marking, stale>>
    BY <1>23 DEF ShowBell
  <2>2. LoadsFit'
    BY <2>1, ShownLoadsFit DEF LoadsFit
  <2>3. FeedFits'
    BY <2>1, EmptyFits DEF FeedFits
  <2> QED BY <1>0, <1>2, <2>1, <2>2, <2>3, EmptyFits DEF NotesInv, ListedOnce
\* The stream.
<1>24. CASE StreamIsRefused \/ RetryTimer
  <2>1. feed' \in Feeds /\ feed'.wire = feed.wire /\ feed'.subscribed = feed.subscribed
    BY <1>0, <1>24 DEF StreamIsRefused, RetryTimer, FeedFits, Feeds
  <2>2. FeedFits'
    BY <1>0, <2>1 DEF FeedFits
  <2> QED BY <1>6, <1>24, <2>2 DEF StreamIsRefused, RetryTimer
<1>25. CASE FeedBreaks
  <2>1. feed' \in Feeds /\ feed'.wire = <<>>
    BY <1>25 DEF FeedBreaks, Feeds
  <2>2. FeedFits'
    BY <2>1 DEF FeedFits
  <2> QED BY <1>6, <1>25, <2>2 DEF FeedBreaks
<1>26. CASE StreamReceives
  <2> DEFINE n == Head(feed.wire)
             rest == Tail(feed.wire)
             list == WithNew(inbox, InBell({n}))
  <2>1. feed.wire # <<>> /\ inbox' = list /\ feed' = [feed EXCEPT !.wire = rest]
        /\ UNCHANGED <<made, loads, marking, stale>>
    BY <1>0, <1>26 DEF StreamReceives, Incoming, FeedFits, Feeds
  <2>2. feed.wire \in Seq(Notes) /\ feed.subscribed
    BY <1>0, <2>1 DEF FeedFits, Feeds
  <2>3. n \in Notes /\ rest \in Seq(Notes)
    BY <2>1, <2>2
  <2>4. InBell({n}) \subseteq Notes \ Fleeting
    BY <2>3 DEF InBell
  <2>5. /\ InboxFits(list) /\ list.loading = inbox.loading
        /\ inbox.items = Listed(inbox.seen) => list.items = Listed(list.seen)
    BY <1>0, <2>4, WithNewFits
  <2> HIDE DEF list, rest
  <2>6. feed' \in Feeds /\ feed'.subscribed = feed.subscribed
    BY <1>0, <2>1, <2>3 DEF FeedFits, Feeds
  <2>7. FeedFits'
    BY <2>2, <2>6 DEF FeedFits
  <2>8. LoadsFit'
    BY <1>0, <2>1, <2>5 DEF LoadsFit
  <2>9. ListedOnce'
    BY <1>0, <2>1, <2>5 DEF ListedOnce
  <2> QED BY <1>0, <1>2, <2>1, <2>5, <2>7, <2>8, <2>9 DEF NotesInv
<1> QED
  BY <1>5, <1>7, <1>8, <1>9, <1>15, <1>16, <1>18, <1>19, <1>20, <1>21, <1>22, <1>23, <1>24,
     <1>25, <1>26 DEF NotesNext

----------------------------------------------------------------------------
(* Being matched. *)

Kinds == {"NONE", "CREATE", "UPDATE", "LEAVE", "ACCEPT", "REJECT", "CANCEL"}
Requests == Active \cup {"NONE"}
Mines == [request : Requests, pair : Pairs, peer : BOOLEAN]
MatchPages == [at : {"TRACK", "QUEUE", "CARD", "ELSEWHERE"}, pair : Pairs, setup : BOOLEAN]
Asked == [kind : Kinds, pair : 0..MaxPairs, answer : {"NONE", "OK", "REFUSED"}, shown : Pairs]
Polls == [by : {"QUEUE", "CARD"}, served : BOOLEAN, request : Requests, pair : Pairs]

\* A request that was matched has a pair.
MineFits(m) ==
  m \in Mines /\ (m.request \in {"MATCH_FOUND", "CONFIRMED"} => m.pair.status # "NONE")
PlaceFits(p) == p \in MatchPages /\ (p.setup => p.at = "TRACK")
PollsFit(ps) == ps \subseteq Polls /\ IsFiniteSet(ps) /\ Cardinality(ps) <= MaxPolls

MatchInv == MineFits(mine) /\ PlaceFits(page) /\ PollsFit(polls) /\ asked \in Asked

LEMMA MatchNumbers == MaxPairs \in Nat /\ MaxPolls \in Nat
BY MatchAssumption

LEMMA MatchGives == MatchInv => MatchTypeOK
BY DEF MatchInv, MatchTypeOK, MineFits, PlaceFits, PollsFit, Mines, MatchPages, Asked, Polls,
       Requests, Kinds

LEMMA NoPairFits == NoPair \in Pairs /\ NotAsked \in Asked
BY MatchNumbers DEF NoPair, Pairs, NotAsked, Asked, Kinds

LEMMA MatchBegins == MatchInit \/ MatchIdle => MatchInv
<1> SUFFICES ASSUME MatchIdle PROVE MatchInv
  BY DEF MatchInit
<1>1. MineFits(mine)
  BY NoPairFits DEF MatchIdle, Unmatched, MineFits, Mines, Requests
<1>2. PlaceFits(page)
  BY NoPairFits DEF MatchIdle, AtTrack, PlaceFits, MatchPages
<1>3. PollsFit(polls)
  <2>1. polls = {} /\ IsFiniteSet({}) /\ Cardinality({}) = 0
    BY FS_EmptySet DEF MatchIdle
  <2> QED BY <2>1, MatchNumbers DEF PollsFit
<1> QED BY <1>1, <1>2, <1>3, NoPairFits DEF MatchInv, MatchIdle

\* A poll less, one more, or one that was answered.
LEMMA PollsMove ==
  ASSUME PollsFit(polls),
         \/ polls' \subseteq polls
         \/ \E p \in Polls :
              \/ Cardinality(polls) < MaxPolls /\ polls' = polls \cup {p}
              \/ \E q \in polls : polls' = (polls \ {q}) \cup {p}
  PROVE  PollsFit(polls')
<1>1. /\ polls \subseteq Polls /\ IsFiniteSet(polls) /\ Cardinality(polls) \in Nat
      /\ Cardinality(polls) <= MaxPolls /\ MaxPolls \in Nat
  BY MatchNumbers, FS_CardinalityType DEF PollsFit
<1>2. CASE polls' \subseteq polls
  <2>1. IsFiniteSet(polls') /\ Cardinality(polls') <= Cardinality(polls)
    BY <1>1, <1>2, FS_Subset
  <2>2. Cardinality(polls') \in Nat
    BY <2>1, FS_CardinalityType
  <2> QED BY <1>1, <1>2, <2>1, <2>2 DEF PollsFit
<1>3. ASSUME NEW p \in Polls, Cardinality(polls) < MaxPolls, polls' = polls \cup {p}
      PROVE  PollsFit(polls')
  <2>1. /\ IsFiniteSet(polls')
        /\ Cardinality(polls') \in {Cardinality(polls), Cardinality(polls) + 1}
    BY <1>1, <1>3, FS_AddElement
  <2> QED BY <1>1, <1>3, <2>1 DEF PollsFit
<1>4. ASSUME NEW p \in Polls, NEW q \in polls, polls' = (polls \ {q}) \cup {p}
      PROVE  PollsFit(polls')
  <2>1. IsFiniteSet(polls \ {q}) /\ Cardinality(polls \ {q}) = Cardinality(polls) - 1
    BY <1>1, FS_RemoveElement
  <2>2. /\ IsFiniteSet(polls')
        /\ Cardinality(polls') \in {Cardinality(polls \ {q}), Cardinality(polls \ {q}) + 1}
    BY <1>4, <2>1, FS_AddElement
  <2> QED BY <1>1, <1>4, <2>1, <2>2 DEF PollsFit
<1> QED BY <1>2, <1>3, <1>4

\* The user's rows: a pair that is over, confirmed, or accepted by one of the two.
LEMMA PairOverFits ==
  ASSUME NEW m, MineFits(m), NEW r \in {"WAITING", "NONE"}
  PROVE  MineFits(PairOver(m, r))
<1>1. PairOver(m, r) = [m EXCEPT !.request = r, !.pair = [m.pair EXCEPT !.status = "NONE"]]
  BY DEF PairOver, MineFits, Mines
<1>2. [m.pair EXCEPT !.status = "NONE"] \in Pairs
  BY DEF MineFits, Mines, Pairs
<1> QED BY <1>1, <1>2 DEF MineFits, Mines, Requests, Active

LEMMA ConfirmedFits ==
  ASSUME NEW m \in Mines
  PROVE  MineFits(Confirmed(m))
<1> DEFINE p == [m.pair EXCEPT !.status = "CONFIRMED"]
<1>1. Confirmed(m) = [m EXCEPT !.request = "CONFIRMED", !.pair = p]
  BY DEF Confirmed, Mines
<1>2. p \in Pairs /\ p.status = "CONFIRMED"
  BY DEF Mines, Pairs
<1> HIDE DEF p
<1> QED BY <1>1, <1>2 DEF MineFits, Mines, Requests, Active

LEMMA AcceptedFits ==
  ASSUME MineFits(mine)
  PROVE  MineFits(Accepted)
<1> DEFINE p == [mine.pair EXCEPT !.accepted = TRUE]
<1>1. Accepted = [mine EXCEPT !.pair = p]
  BY DEF Accepted, MineFits, Mines
<1>2. p \in Pairs /\ p.status = mine.pair.status
  BY DEF MineFits, Mines, Pairs
<1> HIDE DEF p
<1> QED BY <1>1, <1>2 DEF MineFits, Mines, Requests, Active

\* An answer carries the rows as they are then.
LEMMA ServesFits ==
  ASSUME asked \in Asked, NEW kind, NEW m, MineFits(m), Serves(kind, m)
  PROVE  MineFits(mine') /\ asked' \in Asked
<1>1. asked' = [asked EXCEPT !.answer = "OK", !.shown = IF kind = "ACCEPT" THEN m.pair ELSE @]
      /\ mine' = m
  BY DEF Serves
<1>2. m.pair \in Pairs
  BY DEF MineFits, Mines
<1> QED BY <1>1, <1>2 DEF Asked

\* Where the pages take the user.
LEMMA AtFits ==
  ASSUME PlaceFits(page), NEW where \in {"TRACK", "QUEUE", "CARD", "ELSEWHERE"}, NEW pair \in Pairs
  PROVE  PlaceFits(At(where)) /\ PlaceFits(Card(pair)) /\ PlaceFits([At(where) EXCEPT !.pair = pair])
BY DEF PlaceFits, At, Card, MatchPages

LEMMA MatchSteps ==
  ASSUME MatchInv, MatchNext \/ UNCHANGED matchVars
  PROVE  MatchInv'
<1>0. /\ MineFits(mine) /\ PlaceFits(page) /\ PollsFit(polls) /\ asked \in Asked
      /\ mine \in Mines /\ page \in MatchPages /\ polls \subseteq Polls
  BY DEF MatchInv, MineFits, PlaceFits, PollsFit
<1>1. ASSUME MineFits(mine'), PlaceFits(page'), PollsFit(polls'), asked' \in Asked
      PROVE  MatchInv'
  BY <1>1 DEF MatchInv, PollsFit
<1>2. CASE UNCHANGED matchVars
  BY <1>0, <1>1, <1>2 DEF matchVars
\* The server.
<1>3. CASE MatchFound
  <2>1. PICK n \in 0..MaxPairs : n = mine.pair.pair + 1
    BY <1>0, <1>3, MatchNumbers DEF MatchFound, Mines, Pairs
  <2>2. mine' = [request |-> "MATCH_FOUND", peer |-> FALSE,
                 pair |-> [pair |-> n, status |-> "PENDING_ACCEPTANCE", accepted |-> FALSE]]
    BY <1>3, <2>1 DEF MatchFound
  <2>3. MineFits(mine')
    BY <2>2 DEF MineFits, Mines, Pairs, Requests, Active
  <2> QED BY <1>0, <1>1, <1>3, <2>3 DEF MatchFound
<1>4. CASE PeerAccepts
  <2> DEFINE m == [mine EXCEPT !.peer = TRUE]
  <2>1. m \in Mines /\ MineFits(m)
    BY <1>0 DEF MineFits, Mines
  <2>2. mine' = Confirmed(m) \/ mine' = m
    BY <1>4 DEF PeerAccepts
  <2> HIDE DEF m
  <2>3. MineFits(mine')
    BY <2>1, <2>2, ConfirmedFits
  <2> QED BY <1>0, <1>1, <1>4, <2>3 DEF PeerAccepts
<1>5. CASE PairEnds
  BY <1>0, <1>1, <1>5, PairOverFits DEF PairEnds
<1>6. CASE AskServed
  <2>1. MineFits([mine EXCEPT !.request = "WAITING"]) /\ MineFits([mine EXCEPT !.request = "NONE"])
    BY <1>0 DEF MineFits, Mines, Requests, Active
  <2>2. MineFits(Accepted) /\ MineFits(Confirmed(Accepted)) /\ MineFits(PairOver(mine, "NONE"))
    <3>1. MineFits(Accepted)
      BY <1>0, AcceptedFits
    <3>2. Accepted \in Mines
      BY <3>1 DEF MineFits
    <3> QED BY <1>0, <3>1, <3>2, ConfirmedFits, PairOverFits
  <2>3. PICK kind \in Kinds, m \in {[mine EXCEPT !.request = "WAITING"], mine,
                  [mine EXCEPT !.request = "NONE"], Accepted, Confirmed(Accepted),
                  PairOver(mine, "NONE")} : Serves(kind, m)
    BY <1>6 DEF AskServed, Kinds
  <2>4. MineFits(m)
    BY <1>0, <2>1, <2>2
  <2>5. MineFits(mine') /\ asked' \in Asked
    BY <1>0, <2>3, <2>4, ServesFits
  <2> QED BY <1>0, <1>1, <1>6, <2>5 DEF AskServed
<1>7. CASE AskRefused
  <2>1. asked' \in Asked
    BY <1>0, <1>7 DEF AskRefused, Asked
  <2> QED BY <1>0, <1>1, <1>7, <2>1 DEF AskRefused
<1>8. CASE PollServed
  <2>1. PICK p \in polls :
          polls' = (polls \ {p}) \cup
            {[p EXCEPT !.served = TRUE, !.request = mine.request,
                       !.pair = IF mine.pair.status = "NONE" THEN NoPair ELSE mine.pair]}
    BY <1>8 DEF PollServed
  <2> DEFINE pair == IF mine.pair.status = "NONE" THEN NoPair ELSE mine.pair
             q == [p EXCEPT !.served = TRUE, !.request = mine.request, !.pair = pair]
  <2>2. pair \in Pairs /\ mine.request \in Requests
    BY <1>0, NoPairFits DEF Mines
  <2>3. polls' = (polls \ {p}) \cup {q} /\ p \in Polls
    BY <1>0, <2>1
  <2> HIDE DEF pair
  <2>4. q \in Polls
    BY <2>2, <2>3 DEF Polls
  <2> HIDE DEF q
  <2>5. PollsFit(polls')
    BY <1>0, <2>3, <2>4, PollsMove
  <2> QED BY <1>0, <1>1, <1>8, <2>5 DEF PollServed
\* The pages.
<1>9. ASSUME NEW at \in {"QUEUE", "CARD"} PROVE Asks(at) \in Polls
  BY NoPairFits DEF Asks, Polls, Requests
<1>10. CASE Poll
  <2>1. page.at \in {"QUEUE", "CARD"} /\ Cardinality(polls) < MaxPolls
        /\ polls' = polls \cup {Asks(page.at)}
    BY <1>10 DEF Poll
  <2>2. PollsFit(polls')
    BY <1>0, <1>9, <2>1, PollsMove
  <2> QED BY <1>0, <1>1, <1>10, <2>2 DEF Poll
<1>11. ASSUME NEW p \in polls, PollAnswers(p) PROVE MatchInv'
  <2>1. p.pair \in Pairs
    BY <1>0 DEF Polls
  <2>2. PlaceFits(CardShown(p)) /\ PlaceFits(QueueShown(p))
    BY <1>0, <2>1, AtFits DEF CardShown, QueueShown
  <2>3. PollsFit(polls')
    BY <1>0, <1>11, PollsMove DEF PollAnswers
  <2> QED BY <1>0, <1>1, <1>11, <2>2, <2>3 DEF PollAnswers
<1>12. ASSUME NEW p \in polls, PollFails(p) PROVE MatchInv'
  <2>1. PollsFit(polls')
    BY <1>0, <1>12, PollsMove DEF PollFails
  <2> QED BY <1>0, <1>1, <1>12, <2>1 DEF PollFails
<1>13. ASSUME NEW kind \in Kinds, NEW pair \in 0..MaxPairs, Ask(kind, pair), UNCHANGED page
       PROVE  MatchInv'
  <2>1. asked' \in Asked
    BY <1>13, NoPairFits DEF Ask, Asked
  <2> QED BY <1>0, <1>1, <1>13, <2>1 DEF Ask
<1>14. CASE OpenSetup
  <2>1. PlaceFits(page')
    BY <1>0, <1>14 DEF OpenSetup, PlaceFits, MatchPages
  <2> QED BY <1>0, <1>1, <1>14, <2>1 DEF OpenSetup
<1>15. CASE Press
  <2>1. 0 \in 0..MaxPairs /\ page.pair.pair \in 0..MaxPairs
    BY <1>0, MatchNumbers DEF MatchPages, Pairs
  <2>2. CardOffers \subseteq Kinds
    BY DEF CardOffers, Kinds
  <2>3. PICK kind \in Kinds, pair \in 0..MaxPairs : Ask(kind, pair)
    BY <1>15, <2>1, <2>2 DEF Press, SubmitQueue, HandleRelax, HandleLeave, Respond, HandleCancel,
       Kinds
  <2> QED BY <1>13, <1>15, <2>3 DEF Press
<1>16. CASE AskAnswers
  <2>1. asked' = NotAsked /\ UNCHANGED mine /\ page' \in {page, After(asked.kind)}
    BY <1>16 DEF AskAnswers
  <2>2. PlaceFits(After(asked.kind))
    <3>1. asked.shown \in Pairs
      BY <1>0 DEF Asked
    <3> QED BY <1>0, <3>1, AtFits DEF After
  <2>3. PollsFit(polls')
    <3>1. CASE polls' = polls
      BY <1>0, <3>1
    <3>2. CASE Cardinality(polls) < MaxPolls /\ polls' = polls \cup {Asks("CARD")}
      BY <1>0, <1>9, <3>2, PollsMove
    <3> QED BY <1>16, <3>1, <3>2 DEF AskAnswers
  <2> QED BY <1>0, <1>1, <2>1, <2>2, <2>3, NoPairFits
<1>17. CASE Walk
  <2>1. PlaceFits(page')
    BY <1>0, <1>17, AtFits, NoPairFits DEF Walk
  <2> QED BY <1>0, <1>1, <1>17, <2>1 DEF Walk
<1> QED
  BY <1>2, <1>3, <1>4, <1>5, <1>6, <1>7, <1>8, <1>10, <1>11, <1>12, <1>14, <1>15, <1>16, <1>17
     DEF MatchNext

----------------------------------------------------------------------------
(* The pages after the session. *)

Results == [mine : BOOLEAN, peer : BOOLEAN, closed : BOOLEAN, report : Reports]
ReviewViews == [seen : BOOLEAN, mine : BOOLEAN, all : BOOLEAN, open : BOOLEAN, locked : BOOLEAN]
Lookings == [at : {"REVIEW", "FEEDBACK", "REPORT"}, view : ReviewViews, report : Reports \cup {"NONE"},
             unavailable : BOOLEAN, detail : BOOLEAN, retry : {"NONE", "SENT", "SERVED"},
             sent : {"NONE", "SENT", "RECORDED", "REFUSED"}]

\* What the page has seen of the evaluations and of a completed report is still so.
LookFits(l) ==
  /\ l \in Lookings
  /\ l.view.all => result.mine /\ result.peer
  /\ l.detail => result.report = "COMPLETED"

LooksFit ==
  /\ looks \subseteq [by : Reports \cup {"ASKED"}]
  /\ IsFiniteSet(looks) /\ Cardinality(looks) <= MaxLooks
  /\ \A l \in looks : l.by = "COMPLETED" => result.report = "COMPLETED"

ReviewInv ==
  /\ result \in Results /\ LookFits(look) /\ LooksFit
  /\ reading \in {"NONE", "STATUS", "REPORT"}
  /\ reading # "NONE" => look.at # "REPORT"

LEMMA ReviewGives == ReviewInv => ReviewTypeOK /\ ReportAfterBothEvaluations
<1> SUFFICES ASSUME ReviewInv PROVE ReviewTypeOK /\ ReportAfterBothEvaluations
  OBVIOUS
<1>1. {result.mine, result.peer, result.closed} \subseteq BOOLEAN
  BY DEF ReviewInv, Results
<1>2. ReviewTypeOK
  BY <1>1 DEF ReviewInv, Results, LookFits, Lookings, LooksFit, ReviewTypeOK
<1>3. CanOpenReport => look.view.all
  BY DEF CanOpenReport, Phase
<1> QED BY <1>2, <1>3 DEF ReviewInv, LookFits, ReportAfterBothEvaluations

LEMMA NewLookFits ==
  ASSUME NEW at \in {"REVIEW", "FEEDBACK", "REPORT"}
  PROVE  LookFits(NewLook(at)) /\ NewLook(at).at = at
BY DEF LookFits, NewLook, NotSeen, Lookings, ReviewViews, Reports

\* Nothing that was seen is taken back.
ReviewGrows ==
  /\ result' \in Results
  /\ result.mine => result'.mine
  /\ result.peer => result'.peer
  /\ result.report = "COMPLETED" => result'.report = "COMPLETED"

LEMMA ReviewBegins == ReviewInit \/ ReviewIdle => ReviewInv
<1> SUFFICES ASSUME ReviewInit \/ ReviewIdle PROVE ReviewInv
  OBVIOUS
<1>1. result \in Results
  <2>1. result = Ended
    BY DEF ReviewInit, ReviewIdle
  <2> QED BY <2>1 DEF Ended, Results, Reports
<1>2. LookFits(look) /\ look.at = "REVIEW"
  BY NewLookFits DEF ReviewInit, ReviewIdle
<1>3. looks = {} /\ IsFiniteSet({}) /\ Cardinality({}) = 0
  BY FS_EmptySet DEF ReviewInit, ReviewIdle
<1>4. LooksFit
  BY <1>3, ReviewAssumption DEF LooksFit
<1>5. reading \in {"NONE", "STATUS"}
  BY DEF ReviewInit, ReviewIdle
<1> QED BY <1>1, <1>2, <1>4, <1>5 DEF ReviewInv

\* What the server does leaves the pages and their looks as they are.
LEMMA GrownReview ==
  ASSUME ReviewInv, ReviewGrows, LookFits(look) => look' \in Lookings,
         look'.view = look.view, look'.detail = look.detail, look'.at = look.at,
         UNCHANGED <<reading, looks>>
  PROVE  ReviewInv'
<1>1. LookFits(look)'
  BY DEF ReviewInv, LookFits, ReviewGrows
<1>2. LooksFit'
  BY DEF ReviewInv, LooksFit, ReviewGrows
<1> QED BY <1>1, <1>2 DEF ReviewInv, ReviewGrows

\* A look less, or one that is asked for.
LEMMA LooksMove ==
  ASSUME LooksFit, UNCHANGED result,
         \/ looks' \subseteq looks
         \/ \E l \in [by : Reports \cup {"ASKED"}] :
              /\ l.by = "COMPLETED" => result.report = "COMPLETED"
              /\ \/ Cardinality(looks) < MaxLooks /\ looks' = looks \cup {l}
                 \/ looks' = {l}
                 \/ \E k \in looks : looks' = (looks \ {k}) \cup {l}
  PROVE  LooksFit'
<1>1. IsFiniteSet(looks) /\ Cardinality(looks) \in Nat /\ MaxLooks \in Nat /\ MaxLooks > 0
      /\ Cardinality(looks) <= MaxLooks
  BY ReviewAssumption, FS_CardinalityType DEF LooksFit
<1>2. CASE looks' \subseteq looks
  <2>1. IsFiniteSet(looks') /\ Cardinality(looks') <= Cardinality(looks)
    BY <1>1, <1>2, FS_Subset
  <2>2. Cardinality(looks') \in Nat
    BY <2>1, FS_CardinalityType
  <2> QED BY <1>1, <1>2, <2>1, <2>2 DEF LooksFit
<1>3. ASSUME NEW l \in [by : Reports \cup {"ASKED"}],
             l.by = "COMPLETED" => result.report = "COMPLETED",
             looks' \subseteq looks \cup {l}, IsFiniteSet(looks'), Cardinality(looks') <= MaxLooks
      PROVE  LooksFit'
  BY <1>3 DEF LooksFit
<1>4. ASSUME NEW l, looks' = looks \cup {l}, Cardinality(looks) < MaxLooks
      PROVE  IsFiniteSet(looks') /\ Cardinality(looks') <= MaxLooks
  <2>1. IsFiniteSet(looks') /\ Cardinality(looks') \in {Cardinality(looks), Cardinality(looks) + 1}
    BY <1>1, <1>4, FS_AddElement
  <2> QED BY <1>1, <1>4, <2>1
<1>5. ASSUME NEW l, looks' = {l}
      PROVE  IsFiniteSet(looks') /\ Cardinality(looks') <= MaxLooks
  <2>1. IsFiniteSet(looks') /\ Cardinality(looks') = 1
    BY <1>5, FS_Singleton
  <2> QED BY <1>1, <2>1
<1>6. ASSUME NEW l, NEW k \in looks, looks' = (looks \ {k}) \cup {l}
      PROVE  IsFiniteSet(looks') /\ Cardinality(looks') <= MaxLooks
  <2>1. IsFiniteSet(looks \ {k}) /\ Cardinality(looks \ {k}) = Cardinality(looks) - 1
    BY <1>1, FS_RemoveElement
  <2>2. /\ IsFiniteSet(looks')
        /\ Cardinality(looks') \in {Cardinality(looks \ {k}), Cardinality(looks \ {k}) + 1}
    BY <1>6, <2>1, FS_AddElement
  <2> QED BY <1>1, <2>1, <2>2
<1> QED BY <1>2, <1>3, <1>4, <1>5, <1>6

LEMMA ReviewSteps ==
  ASSUME ReviewInv, ReviewNext \/ UNCHANGED reviewVars
  PROVE  ReviewInv'
<1>0. /\ result \in Results /\ LookFits(look) /\ LooksFit /\ look \in Lookings
      /\ reading \in {"NONE", "STATUS", "REPORT"} /\ (reading # "NONE" => look.at # "REPORT")
  BY DEF ReviewInv, LookFits
\* Steps of the page alone.
<1>1. ASSUME UNCHANGED <<result, looks>>, LookFits(look'),
             reading' \in {"NONE", "STATUS", "REPORT"}, reading' # "NONE" => look'.at # "REPORT"
      PROVE  ReviewInv'
  BY <1>0, <1>1 DEF ReviewInv, LooksFit, LookFits
<1>2. CASE UNCHANGED reviewVars
  BY <1>0, <1>1, <1>2 DEF reviewVars
\* The server's steps.
<1>3. CASE PeerSubmits \/ DeadlinePasses \/ ReportMoves
  <2>1. ReviewGrows
    <3>1. CASE PeerSubmits
      BY <1>0, <3>1 DEF PeerSubmits, ReviewGrows, Results
    <3>2. CASE DeadlinePasses
      BY <1>0, <3>2 DEF DeadlinePasses, ReviewGrows, Results
    <3>3. CASE ReportMoves
      <4>1. PICK report \in Reports : result' = [result EXCEPT !.report = report]
        BY <3>3 DEF ReportMoves, Reports
      <4> QED BY <1>0, <3>3, <4>1 DEF ReportMoves, ReviewGrows, Results
    <3> QED BY <1>3, <3>1, <3>2, <3>3
  <2>2. UNCHANGED <<look, reading, looks>>
    BY <1>3 DEF PeerSubmits, DeadlinePasses, ReportMoves
  <2> QED BY <1>0, <2>1, <2>2, GrownReview
<1>4. CASE SubmitServed
  <2>1. PICK sent \in {"RECORDED", "REFUSED"} : look' = [look EXCEPT !.sent = sent]
    BY <1>4 DEF SubmitServed
  <2>2. look' \in Lookings /\ look'.view = look.view /\ look'.detail = look.detail
        /\ look'.at = look.at
    BY <1>0, <2>1 DEF Lookings
  <2>3. ReviewGrows
    BY <1>0, <1>4 DEF SubmitServed, ReviewGrows, Results
  <2>4. UNCHANGED <<reading, looks>>
    BY <1>4 DEF SubmitServed
  <2> QED BY <2>2, <2>3, <2>4, GrownReview
<1>5. CASE RetryServed
  <2>1. look' = [look EXCEPT !.retry = "SERVED"] /\ UNCHANGED <<reading, looks>>
    BY <1>5 DEF RetryServed
  <2>2. look' \in Lookings /\ look'.view = look.view /\ look'.detail = look.detail
        /\ look'.at = look.at
    BY <1>0, <2>1 DEF Lookings
  <2>3. PICK report \in Reports : /\ result' = [result EXCEPT !.report = report]
                                  /\ result.report = "COMPLETED" => report = "COMPLETED"
    BY <1>0, <1>5 DEF RetryServed, Results, Reports
  <2>4. ReviewGrows
    BY <1>0, <2>3 DEF ReviewGrows, Results
  <2> QED BY <2>1, <2>2, <2>4, GrownReview
\* The pages of the evaluation.
<1>6. ASSUME NEW ok \in BOOLEAN, StatusAnswers(ok) PROVE ReviewInv'
  <2>1. StatusNow \in ReviewViews /\ (StatusNow.all => result.mine /\ result.peer)
    BY <1>0, Zenon DEF StatusNow, ReviewViews, Results
  <2> QED BY <1>0, <1>1, <1>6, <2>1 DEF StatusAnswers, LookFits, Lookings
<1>7. ASSUME NEW ok \in BOOLEAN, ReportAnswers(ok) PROVE ReviewInv'
  <2>1. PICK report \in Reports \cup {"NONE"} : look' = [look EXCEPT !.report = report]
    BY <1>0, <1>7 DEF ReportAnswers, Results
  <2>2. LookFits(look') /\ look'.at = look.at
    BY <1>0, <2>1 DEF LookFits, Lookings
  <2> QED BY <1>0, <1>1, <1>7, <2>2 DEF ReportAnswers
<1>8. CASE Reload \/ Submit
  <2>1. LookFits(look') /\ look'.at = look.at
    BY <1>0, <1>8 DEF Reload, Submit, LookFits, Lookings
  <2> QED BY <1>0, <1>1, <1>8, <2>1 DEF Reload, Submit
<1>9. ASSUME NEW arrives \in BOOLEAN, SubmitAnswers(arrives) PROVE ReviewInv'
  <2>1. CASE look' = NewLook("FEEDBACK") /\ reading' = "STATUS"
    BY <1>1, <1>9, <2>1, NewLookFits DEF SubmitAnswers
  <2>2. CASE look' = [look EXCEPT !.sent = "NONE"] /\ UNCHANGED reading
    <3>1. LookFits(look') /\ look'.at = look.at
      BY <1>0, <2>2 DEF LookFits, Lookings
    <3> QED BY <1>0, <1>1, <1>9, <2>2, <3>1 DEF SubmitAnswers
  <2> QED BY <1>9, <2>1, <2>2 DEF SubmitAnswers
\* The report page.
<1>10. CASE OpenReport
  <2>1. look' = NewLook("REPORT") /\ looks' = {Asking} /\ UNCHANGED <<result, reading>>
        /\ reading = "NONE"
    BY <1>10 DEF OpenReport
  <2>2. Asking \in [by : Reports \cup {"ASKED"}] /\ Asking.by # "COMPLETED"
    BY DEF Asking
  <2>3. LooksFit'
    BY <1>0, <2>1, <2>2, LooksMove
  <2>4. LookFits(look)'
    BY <2>1, NewLookFits DEF LookFits
  <2> QED BY <1>0, <2>1, <2>3, <2>4 DEF ReviewInv
<1>11. CASE Poll15s
  <2>1. Cardinality(looks) < MaxLooks /\ looks' = looks \cup {Asking}
        /\ UNCHANGED <<result, look, reading>>
    BY <1>11 DEF Poll15s
  <2>2. Asking \in [by : Reports \cup {"ASKED"}] /\ Asking.by # "COMPLETED"
    BY DEF Asking
  <2>3. LooksFit'
    BY <1>0, <2>1, <2>2, LooksMove
  <2> QED BY <1>0, <2>1, <2>3 DEF ReviewInv, LookFits
<1>12. ASSUME NEW l \in looks, LookServed(l) PROVE ReviewInv'
  <2> DEFINE served == [by |-> result.report]
  <2>1. looks' = (looks \ {l}) \cup {served} /\ UNCHANGED <<result, look, reading>>
    BY <1>12 DEF LookServed
  <2>2. served \in [by : Reports \cup {"ASKED"}] /\ served.by = result.report
    BY <1>0 DEF Results
  <2> HIDE DEF served
  <2>3. LooksFit'
    BY <1>0, <2>1, <2>2, LooksMove
  <2> QED BY <1>0, <2>1, <2>3 DEF ReviewInv, LookFits
<1>13. ASSUME NEW l \in looks, LookAnswers(l) PROVE ReviewInv'
  <2>1. looks' = looks \ {l} /\ UNCHANGED <<result, reading>>
    BY <1>13 DEF LookAnswers
  <2>2. l.by \in Reports /\ (l.by = "COMPLETED" => result.report = "COMPLETED")
    BY <1>0, <1>13 DEF LookAnswers, LooksFit
  <2>3. PICK report \in Reports \cup {"NONE"}, unavailable \in BOOLEAN, detail \in BOOLEAN :
          /\ look' = [look EXCEPT !.unavailable = unavailable, !.report = report,
                                  !.detail = detail]
          /\ detail => look.detail \/ l.by = "COMPLETED"
    <3>1. PICK read \in BOOLEAN :
            look' = IF l.by = "ABSENT" THEN [look EXCEPT !.unavailable = TRUE]
                    ELSE [look EXCEPT !.unavailable = FALSE,
                                      !.report = IF l.by = "COMPLETED" /\ ~read THEN "FAILED" ELSE l.by,
                                      !.detail = @ \/ (l.by = "COMPLETED" /\ read)]
      BY <1>13 DEF LookAnswers
    <3>2. CASE l.by = "ABSENT"
      <4>1. look' = [look EXCEPT !.unavailable = TRUE, !.report = look.report,
                                 !.detail = look.detail]
        BY <1>0, <3>1, <3>2 DEF Lookings
      <4>2. look.report \in Reports \cup {"NONE"} /\ look.detail \in BOOLEAN
        BY <1>0 DEF Lookings
      <4> QED BY <4>1, <4>2
    <3>3. CASE l.by # "ABSENT"
      <4> DEFINE report == IF l.by = "COMPLETED" /\ ~read THEN "FAILED" ELSE l.by
                 detail == look.detail \/ (l.by = "COMPLETED" /\ read)
      <4>1. report \in Reports \cup {"NONE"}
        BY <2>2 DEF Reports
      <4>2. detail \in BOOLEAN /\ (detail => look.detail \/ l.by = "COMPLETED")
        BY Zenon
      <4>3. look' = [look EXCEPT !.unavailable = FALSE, !.report = report, !.detail = detail]
        BY <3>1, <3>3
      <4> HIDE DEF report, detail
      <4> QED BY <4>1, <4>2, <4>3
    <3> QED BY <3>2, <3>3
  <2>4. look' \in Lookings /\ look'.view = look.view /\ look'.detail = detail
        /\ look'.at = look.at
    BY <1>0, <2>3 DEF Lookings
  <2>5. LookFits(look)'
    BY <1>0, <2>1, <2>2, <2>3, <2>4 DEF LookFits
  <2>6. LooksFit'
    BY <1>0, <2>1, LooksMove
  <2> QED BY <1>0, <2>1, <2>4, <2>5, <2>6 DEF ReviewInv
<1>14. ASSUME NEW l \in looks, LookFails(l) PROVE ReviewInv'
  <2>1. looks' = looks \ {l} /\ UNCHANGED <<result, reading>>
        /\ look' = [look EXCEPT !.report = "FAILED"]
    BY <1>14 DEF LookFails
  <2>2. look' \in Lookings /\ look'.view = look.view /\ look'.detail = look.detail
        /\ look'.at = look.at
    BY <1>0, <2>1 DEF Lookings, Reports
  <2>3. LookFits(look)'
    BY <1>0, <2>1, <2>2 DEF LookFits
  <2>4. LooksFit'
    BY <1>0, <2>1, LooksMove
  <2> QED BY <1>0, <2>1, <2>2, <2>3, <2>4 DEF ReviewInv
<1>15. ASSUME NEW retry \in {"NONE", "SENT"}, NEW report \in Reports \cup {"NONE"},
              look' = [look EXCEPT !.retry = retry, !.report = report],
              UNCHANGED <<result, reading, looks>>
       PROVE  ReviewInv'
  <2>1. LookFits(look') /\ look'.at = look.at
    BY <1>0, <1>15 DEF LookFits, Lookings
  <2> QED BY <1>0, <1>1, <1>15, <2>1
<1>16. look.report \in Reports \cup {"NONE"}
  BY <1>0 DEF Lookings
<1>17. CASE RetryReport
  <2>1. look' = [look EXCEPT !.retry = "SENT", !.report = look.report]
    BY <1>0, <1>17 DEF RetryReport, Lookings
  <2> QED BY <1>15, <1>16, <1>17, <2>1 DEF RetryReport
<1>18. ASSUME NEW arrives \in BOOLEAN, RetryAnswers(arrives) PROVE ReviewInv'
  <2>1. PICK report \in Reports \cup {"NONE"} :
          look' = [look EXCEPT !.retry = "NONE", !.report = report]
    BY <1>16, <1>18 DEF RetryAnswers, Reports
  <2> QED BY <1>15, <1>18, <2>1 DEF RetryAnswers
<1> QED
  BY <1>2, <1>3, <1>4, <1>5, <1>6, <1>7, <1>8, <1>9, <1>10, <1>11, <1>12, <1>13, <1>14,
     <1>17, <1>18 DEF ReviewNext

----------------------------------------------------------------------------
(* The session's time. *)

LongestLeft == Planned + Extra + Lead
AddedTo(extended) == IF extended THEN Extra ELSE 0

\* An answer of a session that runs says how long it was going to take then.
TimeAnswerFits(answer) ==
  /\ answer \in RestAnswers
  /\ answer.status = "IN_PROGRESS" =>
       answer.remaining = Saturated(Planned + AddedTo(answer.extended) - answer.at)

Began(status) == status \in {"IN_PROGRESS", "COMPLETED"}

MeetingFits ==
  /\ meeting \in [status : {"READY", "IN_PROGRESS", "COMPLETED"}, elapsed : Nat, extended : BOOLEAN]
  /\ meeting.elapsed <= Deadline
  /\ meeting.status # "COMPLETED" => meeting.elapsed < Deadline

\* What the page has read stays true: a session that began is not before its start
\* in an answer that has yet to arrive.
AnswersFit ==
  /\ flights \in [ClockCalls -> RestAnswers] /\ \A c \in ClockCalls : TimeAnswerFits(flights[c])
  /\ known \in [status : RestAnswers, detail : RestAnswers, missions : BOOLEAN]
  /\ TimeAnswerFits(known.status) /\ TimeAnswerFits(known.detail)
  /\ known.missions => Began(known.status.status)
  /\ Began(flights["STATUS"].status) => meeting.status # "READY"
  /\ Began(known.status.status) => meeting.status # "READY" /\ flights["STATUS"].status # "READY"

Anchors == [value : {Never} \cup Nat, at : Int, late : BOOLEAN, basis : {"NONE", "SERVER", "BROWSER"}]
SeedFits(seed) ==
  /\ seed \in Anchors /\ (seed.basis = "NONE" <=> seed.value = Never)
  /\ seed.basis = "SERVER" => seed.value = Saturated(seed.at - AddedTo(seed.late))

CountdownFits ==
  /\ countdown.remaining \in {Never} \cup 0..LongestLeft
  /\ countdown.said \in {Never} \cup AnnounceAt

ClockInv == MeetingFits /\ AnswersFit /\ SeedFits(anchor) /\ CountdownFits

LEMMA ClockNumbers ==
  /\ Base \in Nat /\ Extra \in Nat /\ Lead \in Nat /\ Skew \in Nat /\ Base > 0
  /\ Planned \in Nat /\ Planned = Base + Extra /\ LongestLeft \in Nat
  /\ LongestLeft = Base + Extra + Extra + Lead
BY ClockAssumption DEF Planned, LongestLeft

LEMMA ClockGives == ClockInv => ClockTypeOK /\ SeedIsOnTheAxis
<1> SUFFICES ASSUME ClockInv PROVE ClockTypeOK /\ SeedIsOnTheAxis
  OBVIOUS
<1>1. meeting.elapsed \in 0..Deadline
  BY ClockNumbers DEF ClockInv, MeetingFits, Deadline
<1>2. /\ meeting.status \in {"READY", "IN_PROGRESS", "COMPLETED"}
      /\ flights \in [ClockCalls -> RestAnswers]
      /\ known.status \in RestAnswers /\ known.detail \in RestAnswers /\ known.missions \in BOOLEAN
      /\ known.missions => known.status.status # "READY"
  BY DEF ClockInv, MeetingFits, AnswersFit, Began
<1>3. /\ anchor.basis \in {"NONE", "SERVER", "BROWSER"}
      /\ anchor.basis = "NONE" <=> anchor.value = Never
  BY DEF ClockInv, SeedFits, Anchors
<1>4. /\ countdown.remaining \in {Never} \cup 0..(Planned + Extra + Lead)
      /\ countdown.said \in {Never} \cup AnnounceAt
  BY DEF ClockInv, CountdownFits, LongestLeft
<1>5. SeedIsOnTheAxis
  BY DEF ClockInv, SeedFits, SeedIsOnTheAxis, AddedTo
<1> QED BY <1>1, <1>2, <1>3, <1>4, <1>5 DEF ClockTypeOK

\* What is said aloud is one of the thresholds.
LEMMA ReachedFits ==
  ASSUME NEW remaining \in {Never} \cup Nat
  PROVE  Reached(remaining) \in {Never} \cup AnnounceAt
<1> DEFINE counted == IF remaining = Never THEN 0 ELSE remaining
           passed == {t \in AnnounceAt : counted <= t}
<1>1. passed \subseteq Nat /\ passed \subseteq AnnounceAt
  BY ClockAssumption
<1>2. CASE passed = {}
  BY <1>2 DEF Reached
<1>3. CASE passed # {}
  <2>1. \E t \in passed : \A u \in passed : t <= u
    BY <1>1, <1>3, FirstExists
  <2>2. (CHOOSE t \in passed : \A u \in passed : t <= u) \in passed
    BY <2>1
  <2> QED BY <1>1, <1>3, <2>2 DEF Reached
<1> QED BY <1>2, <1>3

LEMMA RunsFit ==
  ASSUME NEW remaining \in {Never} \cup 0..LongestLeft, NEW pushed, Runs(remaining, pushed)
  PROVE  CountdownFits'
<1>1. remaining \in {Never} \cup Nat
  BY ClockNumbers
<1>2. Reached(remaining) \in {Never} \cup AnnounceAt
  BY <1>1, ReachedFits
<1> QED BY <1>2 DEF Runs, CountdownFits

LEMMA UnansweredFits ==
  /\ TimeAnswerFits(Unanswered) /\ Unanswered.status = "UNKNOWN" /\ ~IsHere(Unanswered)
  /\ TimeAnswerFits(Awaited) /\ Awaited.status = "ASKED" /\ ~IsHere(Awaited)
  /\ ~Began("UNKNOWN") /\ ~Began("ASKED") /\ ~Began("READY")
<1>1. Unanswered \in RestAnswers /\ Unanswered.status = "UNKNOWN"
  BY ClockNumbers DEF Unanswered, RestAnswers
<1>2. Awaited \in RestAnswers /\ Awaited.status = "ASKED"
  BY <1>1 DEF Awaited, RestAnswers
<1> QED BY <1>1, <1>2 DEF TimeAnswerFits, IsHere, Began

\* What the server answers.
LEMMA AnswerFits ==
  ASSUME MeetingFits
  PROVE  TimeAnswerFits(RestAnswer) /\ RestAnswer.status = meeting.status
<1>1. /\ RestAnswer.status = meeting.status /\ RestAnswer.at = meeting.elapsed
      /\ RestAnswer.extended = meeting.extended /\ RestAnswer.remaining = RestRemaining
  BY DEF RestAnswer
<1>2. meeting.elapsed \in 0..Planned
  BY ClockNumbers DEF MeetingFits, Deadline
<1>3. RestRemaining \in 0..(Planned + Extra + Lead)
  BY <1>2, ClockNumbers DEF RestRemaining, Saturated
<1>4. RestAnswer \in RestAnswers
  BY <1>2, <1>3 DEF RestAnswer, RestAnswers, MeetingFits
<1>5. meeting.status = "IN_PROGRESS" =>
        RestRemaining = Saturated(Planned + AddedTo(meeting.extended) - meeting.elapsed)
  BY DEF RestRemaining, AddedTo
<1> QED BY <1>1, <1>4, <1>5 DEF TimeAnswerFits

\* The seed of two answers that fit.
LEMMA SeedOfFits ==
  ASSUME MeetingFits, NEW status, NEW detail, TimeAnswerFits(status), TimeAnswerFits(detail)
  PROVE  SeedFits(SeedOf(status, detail))
<1> DEFINE first == IF IsHere(status) THEN status ELSE detail
           served == first.status = "IN_PROGRESS" /\ IsHere(detail) /\ first.remaining > 0
           seed == [value |-> Saturated(Planned - first.remaining), at |-> first.at,
                    late |-> first.extended, basis |-> "SERVER"]
           guessed == [value |-> Saturated(meeting.elapsed + Skew), at |-> meeting.elapsed,
                   late |-> FALSE, basis |-> "BROWSER"]
<1>1. TimeAnswerFits(first)
  OBVIOUS
<1>2. SeedOf(status, detail) \in {seed, guessed, NotAnchored} /\ (SeedOf(status, detail) = seed => served \/ seed \in {guessed, NotAnchored})
  <2>1. CASE served
    BY <2>1 DEF SeedOf
  <2>2. CASE ~served /\ IsHere(first) /\ first.status # "READY"
    BY <2>2 DEF SeedOf
  <2>3. CASE ~served /\ ~(IsHere(first) /\ first.status # "READY")
    BY <2>3 DEF SeedOf
  <2> QED BY <2>1, <2>2, <2>3
<1>3. SeedFits(NotAnchored)
  BY DEF SeedFits, NotAnchored, Anchors, Never
<1>4. SeedFits(guessed)
  <2>1. Saturated(meeting.elapsed + Skew) \in Nat /\ meeting.elapsed \in Nat
    BY ClockNumbers DEF MeetingFits, Saturated
  <2> QED BY <2>1 DEF SeedFits, Anchors, Never
<1>5. ASSUME served PROVE SeedFits(seed)
  <2> DEFINE added == AddedTo(first.extended)
  <2>1. /\ first.remaining \in {Never} \cup 0..LongestLeft /\ first.at \in 0..Planned
        /\ first.extended \in BOOLEAN
    BY <1>1 DEF TimeAnswerFits, RestAnswers, LongestLeft
  <2>2. first.remaining = Saturated(Planned + added - first.at) /\ first.remaining > 0
    BY <1>1, <1>5 DEF TimeAnswerFits
  <2>3. added \in Nat
    BY ClockNumbers DEF AddedTo
  <2> HIDE DEF added, first
  <2>4. first.remaining = Planned + added - first.at /\ first.at \in Nat
    BY <2>1, <2>2, <2>3, ClockNumbers DEF Saturated
  <2>5. Planned - first.remaining = first.at - added
    BY <2>3, <2>4, ClockNumbers
  <2>6. Saturated(Planned - first.remaining) = Saturated(first.at - added)
    BY <2>5
  <2>7. Saturated(first.at - added) \in Nat
    BY <2>3, <2>4 DEF Saturated
  <2>8. seed \in Anchors
    BY <2>1, <2>4, <2>6, <2>7 DEF Anchors
  <2> QED BY <2>6, <2>7, <2>8 DEF SeedFits, added, Never
<1> QED BY <1>2, <1>3, <1>4, <1>5

LEMMA ClockBegins == ClockInit \/ ClockIdle => ClockInv
<1>1. CASE ClockIdle
  <2>1. MeetingFits
    BY <1>1, ClockNumbers DEF ClockIdle, MeetingFits, Deadline
  <2>2. [Unanswered EXCEPT !.status = "COMPLETED"] \in RestAnswers
    BY UnansweredFits DEF TimeAnswerFits, RestAnswers
  <2>3. TimeAnswerFits([Unanswered EXCEPT !.status = "COMPLETED"])
    BY <2>2, UnansweredFits DEF TimeAnswerFits, RestAnswers
  <2>4. AnswersFit
    BY <1>1, <2>2, <2>3, UnansweredFits DEF ClockIdle, AnswersFit, TimeAnswerFits, ClockCalls
  <2>5. SeedFits(anchor) /\ CountdownFits
    BY <1>1 DEF ClockIdle, SeedFits, NotAnchored, Anchors, Never, CountdownFits
  <2> QED BY <2>1, <2>4, <2>5 DEF ClockInv
<1>2. CASE ClockInit
  <2>1. MeetingFits
    <3>1. meeting.status \in {"READY", "IN_PROGRESS"} /\ meeting.elapsed \in {0, Base - 1}
          /\ meeting.extended \in BOOLEAN
          /\ meeting = [status |-> meeting.status, elapsed |-> meeting.elapsed, extended |-> meeting.extended]
      BY <1>2 DEF ClockInit
    <3>2. meeting.elapsed \in Nat /\ meeting.elapsed < Base
      BY <3>1, ClockNumbers
    <3>3. meeting.elapsed < Deadline
      BY <3>2, ClockNumbers DEF Deadline
    <3>4. meeting.elapsed <= Deadline
      BY <3>2, <3>3, ClockNumbers DEF Deadline
    <3> QED BY <3>1, <3>2, <3>3, <3>4 DEF MeetingFits
  <2>2. AnswersFit
    BY <1>2, UnansweredFits DEF ClockInit, AnswersFit, TimeAnswerFits, ClockCalls
  <2>3. SeedFits(anchor)
    BY <1>2 DEF ClockInit, SeedFits, NotAnchored, Anchors, Never
  <2>4. CountdownFits
    BY <1>2, ReachedFits DEF ClockInit, CountdownFits
  <2> QED BY <2>1, <2>2, <2>3, <2>4 DEF ClockInv
<1> QED BY <1>1, <1>2

\* An answer that arrives, or is lost, or is asked for.
LEMMA FlightsFit ==
  ASSUME ClockInv, NEW c \in ClockCalls, NEW answer, flights' = [flights EXCEPT ![c] = answer],
         answer \in {Unanswered, Awaited, RestAnswer}, UNCHANGED <<meeting, known>>
  PROVE  AnswersFit'
<1>1. TimeAnswerFits(answer) /\ answer \in RestAnswers
  BY UnansweredFits, AnswerFits DEF ClockInv, TimeAnswerFits
<1>2. Began(answer.status) => meeting.status # "READY"
  BY UnansweredFits, AnswerFits DEF ClockInv
<1>3. meeting.status # "READY" => answer.status # "READY"
  BY UnansweredFits, AnswerFits DEF ClockInv
<1>4. /\ flights' \in [ClockCalls -> RestAnswers]
      /\ \A d \in ClockCalls : flights'[d] = answer \/ flights'[d] = flights[d]
  BY <1>1 DEF ClockInv, AnswersFit
<1>5. "STATUS" \in ClockCalls
  BY DEF ClockCalls
<1> QED BY <1>1, <1>2, <1>3, <1>4, <1>5 DEF ClockInv, AnswersFit

LEMMA ClockSteps ==
  ASSUME ClockInv, ClockNext \/ UNCHANGED clockVars
  PROVE  ClockInv'
<1>0. MeetingFits /\ AnswersFit /\ SeedFits(anchor) /\ CountdownFits
  BY DEF ClockInv
<1>1. CASE UNCHANGED clockVars
  BY <1>0, <1>1 DEF clockVars, MeetingFits, Deadline, AnswersFit, CountdownFits, ClockInv
\* The server's session.
<1>2. ASSUME MeetingFits', UNCHANGED <<flights, known, anchor>>,
             meeting.status # "READY" => meeting'.status # "READY"
      PROVE  AnswersFit' /\ SeedFits(anchor)'
  BY <1>0, <1>2 DEF AnswersFit
<1>3. CASE MeetingStarts
  <2>1. MeetingFits'
    <3>1. /\ meeting' \in [status : {"READY", "IN_PROGRESS", "COMPLETED"}, elapsed : Nat, extended : BOOLEAN]
          /\ meeting'.status = "IN_PROGRESS" /\ meeting'.elapsed = meeting.elapsed
          /\ meeting'.extended = meeting.extended /\ meeting.status = "READY"
      BY <1>0, <1>3 DEF MeetingStarts, MeetingFits
    <3> QED BY <1>0, <3>1 DEF MeetingFits, Deadline
  <2> QED BY <1>0, <1>2, <1>3, <2>1 DEF MeetingStarts, ClockInv, CountdownFits
<1>4. CASE MeetingExtends
  <2>1. /\ meeting' \in [status : {"READY", "IN_PROGRESS", "COMPLETED"}, elapsed : Nat, extended : BOOLEAN]
        /\ meeting'.status = meeting.status /\ meeting'.elapsed = meeting.elapsed
        /\ meeting'.extended = TRUE
    BY <1>0, <1>4 DEF MeetingExtends, MeetingFits
  <2>2. MeetingFits'
    BY <1>0, <2>1, ClockNumbers DEF MeetingFits, Deadline
  <2> QED BY <1>0, <1>2, <1>4, <2>1, <2>2 DEF MeetingExtends, ClockInv, CountdownFits
<1>5. CASE SecondPasses
  <2> DEFINE ended == meeting.elapsed + 1 = Deadline
  <2>1. PICK n \in Nat : n = meeting.elapsed + 1
    BY <1>0 DEF MeetingFits
  <2>2. PICK s \in {"IN_PROGRESS", "COMPLETED"} : s = IF n = Deadline THEN "COMPLETED" ELSE meeting.status
    BY <1>5 DEF SecondPasses
  <2>3. meeting' = [meeting EXCEPT !.elapsed = n, !.status = s]
    BY <1>0, <1>5, <2>1, <2>2 DEF SecondPasses, MeetingFits
  <2>4. /\ meeting' \in [status : {"READY", "IN_PROGRESS", "COMPLETED"}, elapsed : Nat, extended : BOOLEAN]
        /\ meeting'.elapsed = n /\ meeting'.status = s /\ meeting'.extended = meeting.extended
    BY <1>0, <2>3 DEF MeetingFits
  <2>5. n <= Deadline /\ Deadline \in Nat /\ Deadline <= LongestLeft
    BY <1>0, <1>5, <2>1, ClockNumbers DEF SecondPasses, MeetingFits, Deadline
  <2>6. MeetingFits'
    <3>1. Deadline' = Deadline
      BY <2>4 DEF Deadline
    <3>2. s = "IN_PROGRESS" => n # Deadline
      BY <2>2
    <3>3. s = "IN_PROGRESS" => n < Deadline
      BY <2>5, <3>2
    <3>4. meeting'.elapsed <= Deadline' /\ (meeting'.status # "COMPLETED" => meeting'.elapsed < Deadline')
      BY <2>4, <2>5, <3>1, <3>3
    <3> QED BY <2>4, <3>4 DEF MeetingFits
  <2>7. CountdownFits'
    <3>1. CASE Runs(IF countdown.remaining > 0 THEN countdown.remaining - 1 ELSE countdown.remaining, FALSE)
      <4>1. (IF countdown.remaining > 0 THEN countdown.remaining - 1 ELSE countdown.remaining)
              \in {Never} \cup 0..LongestLeft
        BY <1>0, ClockNumbers DEF CountdownFits, Never
      <4> QED BY <3>1, <4>1, RunsFit
    <3>2. CASE Runs(Deadline - n, TRUE)
      <4>1. Deadline - n \in {Never} \cup 0..LongestLeft
        BY <2>1, <2>5, ClockNumbers
      <4> QED BY <3>2, <4>1, RunsFit
    <3> QED BY <1>5, <2>4, <3>1, <3>2 DEF SecondPasses
  <2> QED BY <1>2, <1>5, <2>2, <2>4, <2>6, <2>7 DEF SecondPasses, ClockInv
\* The calls.
<1>6. ASSUME AnswersFit', SeedFits(anchor)', CountdownFits', UNCHANGED meeting
      PROVE  ClockInv'
  BY <1>0, <1>6 DEF MeetingFits, Deadline, ClockInv
<1>7. ASSUME NEW c \in ClockCalls, NEW answer \in {Unanswered, Awaited, RestAnswer},
             flights' = [flights EXCEPT ![c] = answer], UNCHANGED <<meeting, known, anchor, countdown>>
      PROVE  ClockInv'
  <2>1. AnswersFit'
    BY <1>7, FlightsFit
  <2> QED BY <1>0, <1>6, <1>7, <2>1 DEF CountdownFits
<1>8. ASSUME NEW c \in ClockCalls, ClockAnswers(c) \/ ClockCallFails(c) PROVE ClockInv'
  BY <1>7, <1>8 DEF ClockAnswers, ClockCallFails
<1>9. CASE PollStatus
  <2>1. "STATUS" \in ClockCalls
    BY DEF ClockCalls
  <2> QED BY <1>7, <1>9, <2>1 DEF PollStatus
<1>10. ASSUME AnswersFit', Anchored, UNCHANGED <<meeting, countdown>> PROVE ClockInv'
  <2>1. SeedFits(SeedOf(known'.status, known'.detail))
    BY <1>0, <1>10, SeedOfFits DEF AnswersFit
  <2>2. SeedFits(anchor')
    BY <1>0, <1>10, <2>1 DEF Anchored
  <2>3. SeedFits(anchor)'
    BY <2>2 DEF SeedFits
  <2> QED BY <1>0, <1>6, <1>10, <2>3 DEF CountdownFits
<1>11. CASE StatusArrives
  <2>1. /\ flights' = [flights EXCEPT !["STATUS"] = Unanswered]
        /\ known' = [known EXCEPT !.status = flights["STATUS"]]
        /\ Anchored /\ UNCHANGED <<meeting, countdown>>
    BY <1>11 DEF StatusArrives
  <2>2. "STATUS" \in ClockCalls /\ flights["STATUS"] \in RestAnswers /\ Unanswered \in RestAnswers
    BY <1>0, UnansweredFits DEF ClockCalls, AnswersFit, TimeAnswerFits
  <2>3. /\ flights' \in [ClockCalls -> RestAnswers] /\ flights'["STATUS"] = Unanswered
        /\ \A d \in ClockCalls : flights'[d] = Unanswered \/ flights'[d] = flights[d]
    BY <1>0, <2>1, <2>2 DEF AnswersFit
  <2>4. /\ known' \in [status : RestAnswers, detail : RestAnswers, missions : BOOLEAN]
        /\ known'.status = flights["STATUS"] /\ known'.detail = known.detail
        /\ known'.missions = known.missions
    BY <1>0, <2>1, <2>2 DEF AnswersFit
  <2>5. IsHere(flights["STATUS"])
    BY <1>11 DEF StatusArrives
  <2>6. flights["STATUS"].status \in {"UNKNOWN", "ASKED", "READY", "IN_PROGRESS", "COMPLETED"}
    BY <2>2 DEF RestAnswers
  <2>7. known.missions => Began(flights["STATUS"].status)
    BY <1>0, <2>5, <2>6 DEF AnswersFit, IsHere, Began
  <2>8. AnswersFit'
    BY <1>0, <2>1, <2>2, <2>3, <2>4, <2>7, UnansweredFits DEF AnswersFit
  <2> QED BY <1>10, <2>1, <2>8
<1>12. CASE DetailArrives
  <2>1. /\ flights' = [flights EXCEPT !["DETAIL"] = Unanswered]
        /\ known' = [known EXCEPT !.detail = flights["DETAIL"]]
        /\ Anchored /\ UNCHANGED <<meeting, countdown>>
    BY <1>12 DEF DetailArrives
  <2>2. {"STATUS", "DETAIL"} \subseteq ClockCalls /\ flights["DETAIL"] \in RestAnswers
        /\ Unanswered \in RestAnswers
    BY <1>0, UnansweredFits DEF ClockCalls, AnswersFit, TimeAnswerFits
  <2>3. /\ flights' \in [ClockCalls -> RestAnswers] /\ flights'["STATUS"] = flights["STATUS"]
        /\ \A d \in ClockCalls : flights'[d] = Unanswered \/ flights'[d] = flights[d]
    BY <1>0, <2>1, <2>2 DEF AnswersFit
  <2>4. /\ known' \in [status : RestAnswers, detail : RestAnswers, missions : BOOLEAN]
        /\ known'.detail = flights["DETAIL"] /\ known'.status = known.status
        /\ known'.missions = known.missions
    BY <1>0, <2>1, <2>2 DEF AnswersFit
  <2>5. AnswersFit'
    BY <1>0, <2>1, <2>2, <2>3, <2>4, UnansweredFits DEF AnswersFit
  <2> QED BY <1>10, <2>1, <2>5
<1>13. CASE TimerArrives
  <2>1. /\ flights' = [flights EXCEPT !["TIMER"] = Unanswered]
        /\ Runs(flights["TIMER"].remaining, FALSE) /\ UNCHANGED <<meeting, known, anchor>>
    BY <1>13 DEF TimerArrives
  <2>2. "TIMER" \in ClockCalls
    BY DEF ClockCalls
  <2>3. flights["TIMER"].remaining \in {Never} \cup 0..LongestLeft
    BY <1>0, <2>2 DEF AnswersFit, RestAnswers, LongestLeft
  <2>4. CountdownFits'
    BY <2>1, <2>3, RunsFit
  <2>5. AnswersFit'
    BY <2>1, <2>2, FlightsFit
  <2> QED BY <1>0, <1>6, <2>1, <2>4, <2>5
<1>14. CASE MissionsArrive
  <2>1. /\ known.status.status = "IN_PROGRESS" /\ known' = [known EXCEPT !.missions = TRUE]
        /\ UNCHANGED <<meeting, flights, anchor, countdown>>
    BY <1>14 DEF MissionsArrive
  <2>2. /\ known' \in [status : RestAnswers, detail : RestAnswers, missions : BOOLEAN]
        /\ known'.detail = known.detail /\ known'.status = known.status
    BY <1>0, <2>1 DEF AnswersFit
  <2>3. AnswersFit'
    BY <1>0, <2>1, <2>2 DEF AnswersFit, Began
  <2> QED BY <1>0, <1>6, <2>1, <2>3 DEF CountdownFits
<1> QED BY <1>1, <1>3, <1>4, <1>5, <1>8, <1>9, <1>11, <1>12, <1>13, <1>14 DEF ClockNext

----------------------------------------------------------------------------
(* The picture of the peer. *)

Peers == [link : PeerLinks, camera : Cameras]
Pictures == [link : PeerLinks \cup {"UNSEEN"}, camera : Cameras \cup {"UNSEEN"}]
PeerEvents == {[f \in kind |-> now[f]] : kind \in {ConnectionEvent, MediaEvent}, now \in Peers}

\* What was said last of a field, by an event under way or else by one that has arrived,
\* is what the server has.
LastSaid(f) ==
  \/ picture[f] = peer[f] /\ \A j \in 1..Len(news) : f \notin DOMAIN news[j]
  \/ \E i \in 1..Len(news) :
        /\ f \in DOMAIN news[i] /\ news[i][f] = peer[f]
        /\ \A j \in 1..Len(news) : i < j => f \notin DOMAIN news[j]

NewsFit ==
  /\ news \in Seq(PeerEvents) /\ Len(news) <= MaxNews /\ (news # <<>> => wire.up)
  /\ wire \in [up : BOOLEAN, sid : BOOLEAN]
  /\ peer \in Peers /\ picture \in Pictures /\ current \subseteq PeerFields
  /\ \A f \in current : LastSaid(f)

OwnFits ==
  /\ own \in [link : MyLinks, camera : Cameras] /\ beat \in 0..BeatInterval
  /\ ReportsAreCurrent

PictureInv == NewsFit /\ OwnFits

LEMMA PictureGives == PictureInv => PictureTypeOK /\ PictureAgrees /\ ReportsAreCurrent
<1> SUFFICES ASSUME PictureInv PROVE PictureTypeOK /\ PictureAgrees
  BY DEF PictureInv, OwnFits
<1>1. PictureTypeOK
  BY DEF PictureInv, NewsFit, OwnFits, PictureTypeOK, Peers, Pictures
<1>2. PictureAgrees
  BY DEF PictureInv, NewsFit, LastSaid, PictureAgrees
<1> QED BY <1>1, <1>2

LEMMA PictureBegins == PictureInit \/ PictureIdle => PictureInv
<1> SUFFICES ASSUME PictureIdle PROVE PictureInv
  BY DEF PictureInit
<1>1. /\ wire = [up |-> FALSE, sid |-> FALSE] /\ news = <<>>
      /\ peer = [link |-> "CONNECTED", camera |-> "on"]
      /\ picture = [link |-> "UNSEEN", camera |-> "UNSEEN"] /\ current = {}
      /\ own = [link |-> "connected", camera |-> "on"] /\ beat = 0
  BY DEF PictureIdle
<1>2. NewsFit
  BY <1>1, PictureAssumption DEF NewsFit, Peers, Pictures, PeerLinks, Cameras
<1>3. ~CanReport(wire)
  BY <1>1 DEF CanReport
<1>4. OwnFits
  BY <1>1, <1>3, PictureAssumption DEF OwnFits, ReportsAreCurrent, MyLinks, Cameras
<1> QED BY <1>2, <1>4 DEF PictureInv

\* An event has the fields of its kind.
LEMMA EventFields ==
  ASSUME NEW e \in PeerEvents
  PROVE  /\ DOMAIN e \subseteq PeerFields
         /\ "link" \in DOMAIN e => e["link"] \in PeerLinks
         /\ "camera" \in DOMAIN e => e["camera"] \in Cameras
<1>1. PICK kind \in {ConnectionEvent, MediaEvent}, now \in Peers : e = [f \in kind |-> now[f]]
  BY DEF PeerEvents
<1>2. now["link"] \in PeerLinks /\ now["camera"] \in Cameras
  BY DEF Peers
<1>3. kind \subseteq PeerFields
  BY DEF ConnectionEvent, MediaEvent, PeerFields
<1> QED BY <1>1, <1>2, <1>3

LEMMA LaidOver ==
  ASSUME NEW e \in PeerEvents, NEW p \in Pictures
  PROVE  [f \in PeerFields |-> IF f \in DOMAIN e THEN e[f] ELSE p[f]] \in Pictures
<1> DEFINE q == [f \in PeerFields |-> IF f \in DOMAIN e THEN e[f] ELSE p[f]]
<1>1. q["link"] \in PeerLinks \cup {"UNSEEN"} /\ q["camera"] \in Cameras \cup {"UNSEEN"}
  BY EventFields DEF PeerFields, Pictures
<1>2. q = [link |-> q["link"], camera |-> q["camera"]]
  BY DEF PeerFields
<1> HIDE DEF q
<1>3. q \in Pictures
  BY <1>1, <1>2 DEF Pictures
<1> QED BY <1>3 DEF q

\* A report is made of everything, whatever made it possible or necessary.
LEMMA ReportingFits ==
  ASSUME own' \in [link : MyLinks, camera : Cameras], beat \in 0..BeatInterval, Reporting
  PROVE  OwnFits'
<1>1. beat' \in 0..BeatInterval
  BY PictureAssumption DEF Reporting
<1>2. ReportsAreCurrent'
  BY DEF Reporting, Report, ReportsAreCurrent
<1> QED BY <1>1, <1>2 DEF OwnFits

\* Another event is appended, or missed.
LEMMA PeerTold ==
  ASSUME NewsFit, NEW kind \in {ConnectionEvent, MediaEvent}, PeerChanges(kind)
  PROVE  NewsFit'
<1>1. PICK now \in Peers :
        /\ kind = MediaEvent => now.link = peer.link
        /\ peer' = now
        /\ news' = IF wire.up THEN Append(news, [f \in kind |-> now[f]]) ELSE news
  BY DEF PeerChanges, Peers
<1>2. /\ current' = IF wire.up THEN current \cup kind ELSE current \ kind
      /\ UNCHANGED <<wire, picture>> /\ Len(news) < MaxNews
  BY DEF PeerChanges
<1>3. kind \subseteq PeerFields /\ "camera" \in kind
  BY DEF ConnectionEvent, MediaEvent, PeerFields
<1>4. \A f \in PeerFields \ kind : now[f] = peer[f]
  BY <1>1 DEF ConnectionEvent, MediaEvent, PeerFields
<1>5. news \in Seq(PeerEvents) /\ Len(news) \in Nat
  BY LenProperties DEF NewsFit
<1>6. CASE wire.up
  <2> DEFINE e == [f \in kind |-> now[f]]
  <2>1. e \in PeerEvents
    BY DEF PeerEvents
  <2>2. DOMAIN e = kind /\ \A f \in kind : e[f] = now[f]
    OBVIOUS
  <2>3. news' = Append(news, e) /\ current' = current \cup kind
    BY <1>1, <1>2, <1>6
  <2> HIDE DEF e
  <2>4. /\ news' \in Seq(PeerEvents) /\ Len(news') = Len(news) + 1
        /\ \A i \in 1..Len(news) : news'[i] = news[i]
        /\ news'[Len(news) + 1] = e
    BY <1>5, <2>1, <2>3, AppendProperties
  <2>5. ASSUME NEW f \in current' PROVE LastSaid(f)'
    <3>1. CASE f \in kind
      <4>1. /\ Len(news) + 1 \in 1..Len(news')
            /\ \A j \in 1..Len(news') : ~(Len(news) + 1 < j)
        BY <1>5, <2>4
      <4>2. f \in DOMAIN news'[Len(news) + 1] /\ news'[Len(news) + 1][f] = peer'[f]
        BY <1>1, <2>2, <2>4, <3>1
      <4> QED BY <4>1, <4>2 DEF LastSaid
    <3>2. CASE f \notin kind
      <4>1. LastSaid(f) /\ f \in current /\ peer'[f] = peer[f] /\ picture'[f] = picture[f]
        BY <1>1, <1>2, <1>4, <2>3, <3>2 DEF NewsFit
      <4>2. ASSUME NEW j \in 1..Len(news')
            PROVE  j \in 1..Len(news) \/ f \notin DOMAIN news'[j]
        BY <1>5, <2>2, <2>4, <3>2
      <4>3. CASE picture[f] = peer[f] /\ \A j \in 1..Len(news) : f \notin DOMAIN news[j]
        BY <2>4, <4>1, <4>2, <4>3 DEF LastSaid
      <4>4. ASSUME NEW i \in 1..Len(news), f \in DOMAIN news[i], news[i][f] = peer[f],
                   \A j \in 1..Len(news) : i < j => f \notin DOMAIN news[j]
            PROVE  LastSaid(f)'
        <5>1. i \in 1..Len(news')
          BY <1>5, <2>4
        <5> QED BY <2>4, <4>1, <4>2, <4>4, <5>1 DEF LastSaid
      <4> QED BY <4>1, <4>3, <4>4 DEF LastSaid
    <3> QED BY <3>1, <3>2
  <2>6. Len(news') <= MaxNews
    BY <1>2, <1>5, <2>4, PictureAssumption
  <2>7. current' \subseteq PeerFields
    BY <1>3, <2>3 DEF NewsFit
  <2> QED BY <1>1, <1>2, <1>6, <2>4, <2>5, <2>6, <2>7 DEF NewsFit
<1>7. CASE ~wire.up
  <2>1. news' = news /\ current' = current \ kind
    BY <1>1, <1>2, <1>7
  <2>2. ASSUME NEW f \in current' PROVE LastSaid(f)'
    <3>1. LastSaid(f) /\ peer'[f] = peer[f] /\ picture'[f] = picture[f]
      BY <1>1, <1>2, <1>4, <2>1 DEF NewsFit
    <3> QED BY <2>1, <3>1 DEF LastSaid
  <2>3. current' \subseteq PeerFields
    BY <2>1 DEF NewsFit
  <2> QED BY <1>1, <1>2, <2>1, <2>2, <2>3 DEF NewsFit
<1> QED BY <1>6, <1>7

\* An event is laid over the picture.
LEMMA PeerHeard ==
  ASSUME NewsFit, NewsArrives
  PROVE  NewsFit'
<1>1. /\ news # <<>> /\ news' = Tail(news) /\ UNCHANGED <<wire, peer, current>>
      /\ picture' = [f \in PeerFields |-> IF f \in DOMAIN Head(news) THEN Head(news)[f] ELSE picture[f]]
  BY DEF NewsArrives
<1>2. news \in Seq(PeerEvents) /\ Len(news) \in Nat /\ Len(news) <= MaxNews /\ wire.up
  BY <1>1, LenProperties DEF NewsFit
<1>3. /\ Head(news) \in PeerEvents /\ Head(news) = news[1] /\ Len(news) > 0
      /\ news' \in Seq(PeerEvents) /\ Len(news') = Len(news) - 1
      /\ \A i \in 1..Len(news') : news'[i] = news[i + 1]
  BY <1>1, <1>2, HeadTailProperties
<1>4. picture' \in Pictures
  BY <1>1, <1>3, LaidOver DEF NewsFit
<1>5. ASSUME NEW f \in current PROVE LastSaid(f)'
  <2>1. LastSaid(f) /\ f \in PeerFields
    BY DEF NewsFit
  <2>2. picture'[f] = IF f \in DOMAIN news[1] THEN news[1][f] ELSE picture[f]
    BY <1>1, <1>3, <2>1
  <2>3. \A j \in 1..Len(news') : j + 1 \in 1..Len(news) /\ 1 < j + 1
    BY <1>2, <1>3
  <2>4. CASE picture[f] = peer[f] /\ \A j \in 1..Len(news) : f \notin DOMAIN news[j]
    <3>1. 1 \in 1..Len(news)
      BY <1>2, <1>3
    <3> QED BY <1>1, <1>3, <2>2, <2>3, <2>4, <3>1 DEF LastSaid
  <2>5. ASSUME NEW i \in 1..Len(news), f \in DOMAIN news[i], news[i][f] = peer[f],
               \A j \in 1..Len(news) : i < j => f \notin DOMAIN news[j]
        PROVE  LastSaid(f)'
    <3>1. CASE i = 1
      BY <1>1, <1>3, <2>2, <2>3, <2>5, <3>1 DEF LastSaid
    <3>2. CASE i # 1
      <4>1. PICK h \in 1..Len(news') : h + 1 = i
        <5>1. i - 1 \in 1..Len(news') /\ (i - 1) + 1 = i
          BY <1>2, <1>3, <3>2
        <5> QED BY <5>1
      <4>2. news'[h] = news[i]
        BY <1>3, <4>1
      <4>3. \A j \in 1..Len(news') : h < j => f \notin DOMAIN news'[j]
        <5> SUFFICES ASSUME NEW j \in 1..Len(news'), h < j PROVE f \notin DOMAIN news'[j]
          OBVIOUS
        <5>1. i < j + 1 /\ j + 1 \in 1..Len(news) /\ news'[j] = news[j + 1]
          BY <1>2, <1>3, <2>3, <4>1
        <5> QED BY <2>5, <5>1
      <4> QED BY <1>1, <2>5, <4>2, <4>3 DEF LastSaid
    <3> QED BY <3>1, <3>2
  <2> QED BY <2>1, <2>4, <2>5 DEF LastSaid
<1>6. Len(news') <= MaxNews
  BY <1>2, <1>3, PictureAssumption
<1> QED BY <1>1, <1>2, <1>3, <1>4, <1>5, <1>6 DEF NewsFit

LEMMA PictureSteps ==
  ASSUME PictureInv, PictureNext \/ UNCHANGED pictureVars
  PROVE  PictureInv'
<1>0. NewsFit /\ OwnFits
  BY DEF PictureInv
<1>1. ASSUME UNCHANGED <<news, peer, picture, current>>, wire'.up = wire.up \/ news = <<>>,
             wire' \in [up : BOOLEAN, sid : BOOLEAN]
      PROVE  NewsFit'
  BY <1>0, <1>1 DEF NewsFit, LastSaid
<1>2. ASSUME UNCHANGED <<wire, own, reported, beat>> PROVE OwnFits'
  BY <1>0, <1>2 DEF OwnFits, ReportsAreCurrent
<1>3. CASE UNCHANGED pictureVars
  BY <1>0, <1>1, <1>2, <1>3 DEF pictureVars, PictureInv, NewsFit
<1>4. CASE Heartbeat
  <2>1. beat' \in 0..BeatInterval
    BY <1>0, <1>4, PictureAssumption DEF Heartbeat, OwnFits
  <2> QED BY <1>0, <1>1, <1>4, <2>1 DEF Heartbeat, PictureInv, OwnFits, ReportsAreCurrent, NewsFit
<1>5. CASE MyLinkChanges \/ MyCameraToggles
  <2>1. own' \in [link : MyLinks, camera : Cameras]
    BY <1>0, <1>5 DEF MyLinkChanges, MyCameraToggles, OwnFits, Cameras
  <2>2. OwnFits'
    BY <1>0, <1>5, <2>1, ReportingFits DEF MyLinkChanges, MyCameraToggles, OwnFits
  <2> QED BY <1>0, <1>1, <1>5, <2>2 DEF MyLinkChanges, MyCameraToggles, PictureInv, NewsFit
<1>6. CASE SidChanges \/ WireRises
  <2>1. OwnFits'
    BY <1>0, <1>6, ReportingFits DEF SidChanges, WireRises, OwnFits
  <2>2. wire' \in [up : BOOLEAN, sid : BOOLEAN] /\ (wire'.up = wire.up \/ ~wire.up)
    BY <1>0, <1>6 DEF SidChanges, WireRises, NewsFit
  <2>3. NewsFit'
    BY <1>0, <1>1, <1>6, <2>2 DEF SidChanges, WireRises, NewsFit
  <2> QED BY <2>1, <2>3 DEF PictureInv
<1>7. CASE WireFalls
  <2>1. /\ wire' = [wire EXCEPT !.up = FALSE] /\ news' = <<>> /\ beat' = 0
        /\ current' = current \ UNION {DOMAIN news[i] : i \in DOMAIN news}
        /\ UNCHANGED <<peer, picture, own>>
    BY <1>7 DEF WireFalls
  <2>2. wire' \in [up : BOOLEAN, sid : BOOLEAN] /\ ~wire'.up
    BY <1>0, <2>1 DEF NewsFit
  <2>3. OwnFits'
    BY <1>0, <2>1, <2>2, PictureAssumption DEF OwnFits, ReportsAreCurrent, CanReport
  <2>4. ASSUME NEW f \in current' PROVE LastSaid(f)'
    <3>1. f \in current /\ LastSaid(f) /\ \A j \in DOMAIN news : f \notin DOMAIN news[j]
      BY <1>0, <2>1 DEF NewsFit
    <3>2. DOMAIN news = 1..Len(news)
      BY <1>0, LenProperties DEF NewsFit
    <3>3. picture[f] = peer[f]
      BY <3>1, <3>2 DEF LastSaid
    <3> QED BY <2>1, <3>3 DEF LastSaid
  <2>5. news' \in Seq(PeerEvents) /\ Len(news') <= MaxNews /\ current' \subseteq PeerFields
    BY <1>0, <2>1, PictureAssumption DEF NewsFit
  <2> QED BY <1>0, <2>1, <2>2, <2>3, <2>4, <2>5 DEF NewsFit, PictureInv
<1>8. CASE \E kind \in {ConnectionEvent, MediaEvent} : PeerChanges(kind)
  BY <1>0, <1>2, <1>8, PeerTold DEF PeerChanges, PictureInv
<1>9. CASE NewsArrives
  BY <1>0, <1>2, <1>9, PeerHeard DEF NewsArrives, PictureInv
<1> QED
  BY <1>3, <1>4, <1>5, <1>6, <1>7, <1>8, <1>9 DEF PictureNext

----------------------------------------------------------------------------
(* The cues of a session. *)

CueInv == CueTypeOK

LEMMA CueBegins == CueInit \/ CueIdle => CueInv
<1> SUFFICES ASSUME CueIdle PROVE CueTypeOK
  BY DEF CueInit, CueInv
<1>1. silence = [stage |-> 1, number |-> 0] /\ cue = NoCue /\ context = 0
      /\ wired = TRUE /\ warning = FALSE
      /\ suggesting = [pending |-> FALSE, failed |-> FALSE, calls |-> 0]
  BY DEF CueIdle
<1>2. silence \in [stage : 1..4, number : 0..MaxSilences]
      /\ cue \in [stage : 1..4, cards : BOOLEAN, number : 0..MaxSilences]
  BY <1>1, CueAssumption DEF NoCue
<1>3. cue.number = 0 /\ ~cue.cards /\ silence.stage = 1 /\ silence.number = 0
  BY <1>1 DEF NoCue
<1>4. suggesting \in [pending : BOOLEAN, failed : BOOLEAN, calls : 0..1]
      /\ ~suggesting.pending /\ suggesting.calls # 1
  BY <1>1
<1>5. suggesting.pending <=> suggesting.calls = 1
  BY <1>4, Zenon
<1>6. cue.number <= silence.number /\ context \in 0..silence.number
  BY <1>1, <1>3
<1>7. /\ (cue.cards => cue.stage = 3) /\ wired \in BOOLEAN /\ warning \in BOOLEAN
      /\ (cue.number = silence.number => cue.stage <= silence.stage \/ silence.stage = 1)
  BY <1>1, <1>3, Zenon
<1> QED BY <1>2, <1>4, <1>5, <1>6, <1>7, Zenon DEF CueTypeOK

LEMMA CueSteps ==
  ASSUME CueInv, CueNext \/ UNCHANGED cueVars
  PROVE  CueInv'
<1> DEFINE SilenceFits == /\ silence \in [stage : 1..4, number : 0..MaxSilences]
                          /\ cue \in [stage : 1..4, cards : BOOLEAN, number : 0..MaxSilences]
                          /\ cue.number <= silence.number /\ (cue.cards => cue.stage = 3)
                          /\ (cue.number = silence.number
                                => cue.stage <= silence.stage \/ silence.stage = 1)
                          /\ context \in 0..silence.number
           OthersFit == /\ wired \in BOOLEAN /\ warning \in BOOLEAN
                        /\ suggesting \in [pending : BOOLEAN, failed : BOOLEAN, calls : 0..1]
                        /\ suggesting.pending <=> suggesting.calls = 1
<1>0. SilenceFits /\ OthersFit /\ MaxSilences \in Nat
  BY CueAssumption DEF CueInv, CueTypeOK
<1>1. ASSUME SilenceFits', OthersFit' PROVE CueInv'
  BY <1>1 DEF CueInv, CueTypeOK
<1> DEFINE s == silence.stage
           n == silence.number
<1>2. s \in 1..4 /\ n \in 0..MaxSilences
  BY <1>0
<1>3. ASSUME UNCHANGED <<silence, cue>>, context' = context \/ context' = silence.number,
             OthersFit'
      PROVE  CueInv'
  <2>1. SilenceFits'
    BY <1>0, <1>2, <1>3
  <2> QED BY <1>1, <1>3, <2>1
<1>4. CASE UNCHANGED cueVars
  BY <1>0, <1>3, <1>4 DEF cueVars
<1>5. CASE SilenceGrows
  <2>1. PICK m \in 0..MaxSilences : m = IF s = 1 THEN n + 1 ELSE n
    BY <1>2, <1>0, <1>5 DEF SilenceGrows
  <2>2. PICK u \in 2..4 : u = s + 1
    BY <1>2, <1>5 DEF SilenceGrows
  <2>3. silence' = [stage |-> u, number |-> m]
    BY <1>5, <2>1, <2>2 DEF SilenceGrows
  <2>4. cue' = cue \/ cue' = [stage |-> u, cards |-> u = 3, number |-> m]
    BY <1>5, <2>1, <2>2 DEF SilenceGrows
  <2>5. n <= m /\ (s = 1 => n < m)
    BY <1>2, <2>1
  <2>6. UNCHANGED <<wired, context, warning, suggesting>>
    BY <1>5 DEF SilenceGrows
  <2> HIDE DEF s, n
  <2>7. CASE cue' = cue
    <3>1. cue.number = n => cue.stage <= s \/ s = 1
      BY <1>0 DEF s, n
    <3>2. cue.number <= n /\ context \in 0..n
      BY <1>0 DEF n
    <3>3. cue.number = m => cue.stage <= u
      BY <1>0, <1>2, <2>2, <2>5, <3>1, <3>2
    <3>4. SilenceFits'
      BY <1>0, <1>2, <2>3, <2>5, <2>6, <2>7, <3>2, <3>3
    <3> QED BY <1>0, <1>1, <2>6, <3>4
  <2>8. CASE cue' = [stage |-> u, cards |-> u = 3, number |-> m]
    <3>1. context \in 0..n
      BY <1>0 DEF n
    <3>2. /\ cue' \in [stage : 1..4, cards : BOOLEAN, number : 0..MaxSilences]
          /\ silence' \in [stage : 1..4, number : 0..MaxSilences]
      BY <2>3, <2>8
    <3>3. /\ cue'.number = m /\ cue'.stage = u /\ (cue'.cards => u = 3)
          /\ silence'.number = m /\ silence'.stage = u
      BY <2>3, <2>8
    <3>4. context' \in 0..m
      BY <1>2, <2>5, <2>6, <3>1
    <3>5. SilenceFits'
      BY <3>2, <3>3, <3>4
    <3> QED BY <1>0, <1>1, <2>6, <3>5
  <2> QED BY <2>4, <2>7, <2>8
<1>6. CASE SilenceEnds
  <2>1. silence' = [silence EXCEPT !.stage = 1] /\ UNCHANGED <<wired, cue, context, warning, suggesting>>
    BY <1>6 DEF SilenceEnds
  <2>2. silence' \in [stage : 1..4, number : 0..MaxSilences] /\ silence'.stage = 1 /\ silence'.number = n
    BY <1>0, <2>1
  <2>3. SilenceFits'
    BY <1>0, <2>1, <2>2
  <2> QED BY <1>0, <1>1, <2>1, <2>3
<1>7. CASE QuestionsArrive \/ WireToggles \/ Warned \/ DismissSafety
  BY <1>0, <1>3, <1>7 DEF QuestionsArrive, WireToggles, Warned, DismissSafety
<1>8. CASE RequestSuggestion \/ SuggestionAnswers
  <2>1. suggesting' \in [pending : BOOLEAN, failed : BOOLEAN, calls : 0..1]
        /\ (suggesting'.pending <=> suggesting'.calls = 1)
    <3>1. CASE RequestSuggestion
      BY <3>1 DEF RequestSuggestion
    <3>2. CASE SuggestionAnswers
      <4>1. suggesting' \in [pending : {FALSE}, failed : BOOLEAN, calls : {0}]
        BY <3>2 DEF SuggestionAnswers
      <4>2. PICK failed \in BOOLEAN :
              suggesting' = [pending |-> FALSE, failed |-> failed, calls |-> 0]
        BY <4>1
      <4>3. ~suggesting'.pending /\ suggesting'.calls # 1
        BY <4>2
      <4>4. suggesting'.pending <=> suggesting'.calls = 1
        BY <4>3, Zenon
      <4>5. suggesting' \in [pending : BOOLEAN, failed : BOOLEAN, calls : 0..1]
        BY <4>2
      <4> QED BY <4>4, <4>5, Zenon
    <3> QED BY <1>8, <3>1, <3>2
  <2> QED BY <1>0, <1>3, <1>8, <2>1 DEF RequestSuggestion, SuggestionAnswers
<1>9. CASE DismissSilence
  <2>1. cue' = NoCue /\ context' = 0 /\ UNCHANGED <<silence, wired, warning, suggesting>>
    BY <1>9 DEF DismissSilence
  <2>2. SilenceFits'
    BY <1>0, <1>2, <2>1 DEF NoCue
  <2> QED BY <1>0, <1>1, <2>1, <2>2
<1> QED
  BY <1>4, <1>5, <1>6, <1>7, <1>8, <1>9 DEF CueNext

----------------------------------------------------------------------------
(* The way into a talk. *)

Talks == [stage : Stages \cup {Legacy}, open : BOOLEAN]
TalkSetups == [loaded : BOOLEAN, needs : BOOLEAN, picked : BOOLEAN, stage : Stages, error : BOOLEAN]
TalkStarts == [step : {"NONE", "REGION", "CREATE", "CURRENT"}, stage : Stages]
TalkPages == [at : {"HOME", "SETUP", "TALK", "REPORT"}, number : Nat, stage : Stages \cup {"NONE"}]

TalksFit ==
  /\ talks \in Seq(Talks) /\ Len(talks) <= MaxTalks
  /\ \A m, n \in Open : m = n

\* The page is about a talk that there is, and shows the talk's own stage.
PageFits ==
  /\ opened \in TalkPages
  /\ opened.at \in {"HOME", "SETUP"} => opened.number = 0
  /\ opened.at \in {"TALK", "REPORT"} => opened.number \in DOMAIN talks
  /\ TalkIsShownAsItIs

WayInFits ==
  /\ preference \in [1..MaxTalks -> Stages] /\ region \in BOOLEAN
  /\ setup \in TalkSetups /\ entering \in BOOLEAN /\ starting \in TalkStarts

TalkInv == TalksFit /\ PageFits /\ WayInFits

LEMMA OpenTalks ==
  ASSUME TalksFit
  PROVE  /\ DOMAIN talks = 1..Len(talks) /\ Len(talks) \in 0..MaxTalks /\ MaxTalks \in Nat
         /\ \A n \in DOMAIN talks : talks[n] \in Talks /\ talks[n].stage \in Stages \cup {Legacy}
                                    /\ talks[n].open \in BOOLEAN
         /\ Open \subseteq DOMAIN talks
<1>1. talks \in Seq(Talks) /\ Len(talks) <= MaxTalks
  BY DEF TalksFit
<1>2. DOMAIN talks = 1..Len(talks) /\ Len(talks) \in 0..MaxTalks /\ MaxTalks \in Nat
  BY <1>1, TalkAssumption
<1>3. \A n \in DOMAIN talks : talks[n] \in Talks
  BY <1>1
<1> QED BY <1>2, <1>3 DEF Talks, Open

LEMMA TalkGives == TalkInv => TalkTypeOK /\ TalkIsShownAsItIs
<1> SUFFICES ASSUME TalkInv PROVE TalkTypeOK /\ TalkIsShownAsItIs
  OBVIOUS
<1>1. \A n \in DOMAIN talks : talks[n] \in [stage : Stages \cup {Legacy}, open : BOOLEAN]
  BY OpenTalks DEF TalkInv, Talks
<1>2. opened.at \in {"TALK", "REPORT"} <=> opened.number \in DOMAIN talks
  BY OpenTalks DEF TalkInv, PageFits, TalkPages
<1>3. /\ opened.at \in {"HOME", "SETUP", "TALK", "REPORT"}
      /\ setup \in [loaded : BOOLEAN, needs : BOOLEAN, picked : BOOLEAN, stage : Stages, error : BOOLEAN]
      /\ starting \in [step : {"NONE", "REGION", "CREATE", "CURRENT"}, stage : Stages]
  BY DEF TalkInv, PageFits, WayInFits, TalkPages, TalkSetups, TalkStarts
<1> QED BY <1>1, <1>2, <1>3 DEF TalkInv, TalksFit, PageFits, WayInFits, TalkTypeOK

LEMMA TalkRecords ==
  /\ Legacy \notin Stages /\ {"BEFORE_DATE", "AFTER_DATE"} = Stages
  /\ NewSetup \in TalkSetups /\ NoStart \in TalkStarts
  /\ \A where \in {"HOME", "SETUP"} :
       Nowhere(where) \in TalkPages /\ Nowhere(where).at = where /\ Nowhere(where).number = 0
BY DEF Legacy, Stages, NewSetup, TalkSetups, NoStart, TalkStarts, Nowhere, TalkPages

LEMMA NowhereFits ==
  ASSUME NEW where \in {"HOME", "SETUP"}, opened' = Nowhere(where)
  PROVE  PageFits'
BY TalkRecords DEF PageFits, TalkIsShownAsItIs

LEMMA TalkBegins == TalkInit \/ TalkIdle => TalkInv
<1>1. CASE TalkIdle
  <2>1. TalksFit
    BY <1>1, TalkAssumption DEF TalkIdle, TalksFit, Open
  <2>2. PageFits
    BY <1>1, TalkRecords DEF TalkIdle, PageFits, TalkIsShownAsItIs
  <2>3. WayInFits
    BY <1>1, TalkRecords DEF TalkIdle, WayInFits
  <2> QED BY <2>1, <2>2, <2>3 DEF TalkInv
<1>2. CASE TalkInit
  <2>1. TalksFit
    <3>1. CASE talks = <<>>
      BY <3>1, TalkAssumption DEF TalksFit, Open
    <3>2. ASSUME NEW o \in BOOLEAN, talks = <<[stage |-> Legacy, open |-> o]>> PROVE TalksFit
      <4>1. [stage |-> Legacy, open |-> o] \in Talks
        BY DEF Talks
      <4>2. talks \in Seq(Talks) /\ Len(talks) = 1 /\ DOMAIN talks = 1..1
        BY <3>2, <4>1
      <4>3. \A m, n \in Open : m = n
        BY <4>2 DEF Open
      <4> QED BY <4>2, <4>3, TalkAssumption DEF TalksFit
    <3> QED BY <1>2, <3>1, <3>2 DEF TalkInit
  <2>2. PageFits
    BY <1>2, TalkRecords DEF TalkInit, PageFits, TalkIsShownAsItIs
  <2>3. WayInFits
    BY <1>2, TalkRecords DEF TalkInit, WayInFits
  <2> QED BY <2>1, <2>2, <2>3 DEF TalkInv
<1> QED BY <1>1, <1>2

\* The talks stay in their places, with their stages.
Kept == /\ DOMAIN talks \subseteq DOMAIN talks'
        /\ \A n \in DOMAIN talks : talks'[n].stage = talks[n].stage

LEMMA TalkOpens ==
  ASSUME TalksFit, NEW stage \in Stages, Open = {}, Len(talks) < MaxTalks,
         talks' = Append(talks, [stage |-> stage, open |-> TRUE])
  PROVE  /\ TalksFit' /\ Kept
         /\ Len(talks') = Len(talks) + 1 /\ Len(talks') \in DOMAIN talks'
         /\ talks'[Len(talks')].stage = stage
<1> DEFINE one == [stage |-> stage, open |-> TRUE]
<1>1. one \in Talks /\ one.stage = stage
  BY DEF Talks
<1> HIDE DEF one
<1>2. talks \in Seq(Talks) /\ talks' = Append(talks, one) /\ Len(talks) \in Nat
  BY OpenTalks DEF TalksFit, one
<1>3. /\ talks' \in Seq(Talks) /\ Len(talks') = Len(talks) + 1
      /\ DOMAIN talks' = 1..(Len(talks) + 1) /\ DOMAIN talks = 1..Len(talks)
      /\ \A n \in 1..Len(talks) : talks'[n] = talks[n]
      /\ talks'[Len(talks) + 1] = one
  BY <1>1, <1>2
<1>4. ASSUME NEW n \in Open' PROVE n = Len(talks) + 1
  <2>1. n \in DOMAIN talks' /\ talks'[n].open
    BY <1>4 DEF Open
  <2>2. n \notin DOMAIN talks
    BY <1>3, <2>1 DEF Open
  <2> QED BY <1>2, <1>3, <2>1, <2>2
<1>5. TalksFit'
  BY <1>2, <1>3, <1>4, TalkAssumption DEF TalksFit
<1>6. Kept
  BY <1>2, <1>3 DEF Kept
<1> QED BY <1>1, <1>2, <1>3, <1>5, <1>6

LEMMA TalkCloses ==
  ASSUME TalksFit, NEW n \in Open, talks' = [talks EXCEPT ![n].open = FALSE]
  PROVE  TalksFit' /\ Kept
<1>1. n \in DOMAIN talks /\ talks[n] \in Talks /\ talks \in Seq(Talks)
  BY OpenTalks DEF TalksFit
<1> DEFINE closed == [talks[n] EXCEPT !.open = FALSE]
<1>2. closed \in Talks /\ closed.stage = talks[n].stage /\ ~closed.open
  BY <1>1 DEF Talks
<1>3. talks' = [talks EXCEPT ![n] = closed]
  OBVIOUS
<1> HIDE DEF closed
<1>4. /\ talks' \in Seq(Talks) /\ Len(talks') = Len(talks) /\ DOMAIN talks' = DOMAIN talks
      /\ \A m \in DOMAIN talks : talks'[m] = IF m = n THEN closed ELSE talks[m]
  <2>1. talks \in Seq(Talks) /\ n \in 1..Len(talks) /\ DOMAIN talks = 1..Len(talks)
    BY <1>1, OpenTalks
  <2>2. /\ [talks EXCEPT ![n] = closed] \in Seq(Talks)
        /\ Len([talks EXCEPT ![n] = closed]) = Len(talks)
        /\ \A m \in 1..Len(talks) : [talks EXCEPT ![n] = closed][m] = IF m = n THEN closed ELSE talks[m]
    BY <1>2, <2>1, ExceptSeq
  <2>3. DOMAIN talks' = 1..Len(talks')
    BY <1>3, <2>2
  <2> QED BY <1>3, <2>1, <2>2, <2>3
<1>5. Open' \subseteq Open
  BY <1>2, <1>4 DEF Open
<1>6. TalksFit'
  BY <1>4, <1>5 DEF TalksFit
<1> QED BY <1>2, <1>4, <1>6 DEF Kept

LEMMA PageStays ==
  ASSUME TalksFit, PageFits, Kept, UNCHANGED opened
  PROVE  PageFits'
<1>1. opened.number \in DOMAIN talks =>
        opened.number \in DOMAIN talks' /\ talks'[opened.number].stage = talks[opened.number].stage
  BY DEF Kept
<1> QED BY <1>1 DEF PageFits, TalkIsShownAsItIs, TalkPages

\* A talk under way is entered.
LEMMA EntersFits ==
  ASSUME TalksFit, WayInFits, NEW n \in Open, opened' = Enters(n), UNCHANGED talks
  PROVE  PageFits'
<1>1. n \in DOMAIN talks /\ n \in 1..MaxTalks /\ n \in Nat
      /\ talks[n].stage \in Stages \cup {Legacy}
  BY OpenTalks
<1>2. ToStage(n) \in Stages /\ (talks[n].stage # Legacy => ToStage(n) = talks[n].stage)
  BY <1>1 DEF ToStage, WayInFits
<1>3. /\ opened' \in TalkPages /\ opened'.at = "TALK" /\ opened'.number = n
      /\ opened'.stage = ToStage(n)
  BY <1>1, <1>2 DEF Enters, TalkPages
<1> QED BY <1>1, <1>2, <1>3 DEF PageFits, TalkIsShownAsItIs

LEMMA TalkSteps ==
  ASSUME TalkInv, TalkNext \/ UNCHANGED talkVars
  PROVE  TalkInv'
<1>0. TalksFit /\ PageFits /\ WayInFits
  BY DEF TalkInv
<1>1. ASSUME UNCHANGED talks PROVE TalksFit' /\ Kept
  BY <1>0, <1>1 DEF TalksFit, Open, Kept
<1>2. ASSUME UNCHANGED <<talks, opened>>, WayInFits' PROVE TalkInv'
  BY <1>0, <1>1, <1>2, PageStays DEF TalkInv
<1>3. ASSUME UNCHANGED <<preference, region>>, setup' \in TalkSetups, entering' \in BOOLEAN,
             starting' \in TalkStarts
      PROVE  WayInFits'
  BY <1>0, <1>3 DEF WayInFits
<1>4. setup \in TalkSetups /\ starting \in TalkStarts /\ entering \in BOOLEAN /\ starting.stage \in Stages
  BY <1>0 DEF WayInFits, TalkStarts
<1>5. NewSetup \in TalkSetups /\ NoStart \in TalkStarts
  BY TalkRecords
<1>6. CASE UNCHANGED talkVars
  BY <1>2, <1>3, <1>4, <1>6 DEF talkVars
\* The entry.
<1>7. CASE OpenEntry
  BY <1>2, <1>3, <1>4, <1>7 DEF OpenEntry
<1>8. CASE EntryAnswers
  <2>1. UNCHANGED <<talks, preference, region, starting>> /\ entering' = FALSE
    BY <1>8 DEF EntryAnswers
  <2>2. CASE \E n \in Open : opened' = Enters(n) /\ UNCHANGED setup
    <3>1. PICK n \in Open : opened' = Enters(n) /\ UNCHANGED setup
      BY <2>2
    <3> QED BY <1>0, <1>1, <1>3, <1>4, <2>1, <3>1, EntersFits DEF TalkInv
  <2>3. CASE opened' = Nowhere("SETUP") /\ setup' = NewSetup
    BY <1>1, <1>3, <1>4, <1>5, <2>1, <2>3, NowhereFits DEF TalkInv
  <2> QED BY <1>8, <2>2, <2>3 DEF EntryAnswers
<1>9. CASE Leave
  BY <1>1, <1>3, <1>4, <1>9, NowhereFits DEF Leave, TalkInv
\* The setup.
<1>10. ASSUME UNCHANGED <<talks, preference, region, opened, entering, starting>>,
              setup' \in TalkSetups
       PROVE  TalkInv'
  BY <1>2, <1>3, <1>4, <1>10
<1>11. CASE SetupLoads
  <2>1. PICK needs \in BOOLEAN : setup' = [setup EXCEPT !.loaded = TRUE, !.needs = needs]
    BY <1>0, <1>11 DEF SetupLoads, WayInFits
  <2>2. setup' \in TalkSetups
    BY <1>4, <2>1 DEF TalkSetups
  <2> QED BY <1>10, <1>11, <2>2 DEF SetupLoads
<1>12. CASE PickRegion
  <2>1. setup' \in TalkSetups
    BY <1>4, <1>12 DEF PickRegion, TalkSetups
  <2> QED BY <1>10, <1>12, <2>1 DEF PickRegion
<1>13. CASE PickStage
  <2>1. PICK s \in Stages : setup' = [setup EXCEPT !.stage = s]
    BY <1>13 DEF PickStage
  <2>2. setup' \in TalkSetups
    BY <1>4, <2>1 DEF TalkSetups
  <2> QED BY <1>10, <1>13, <2>2 DEF PickStage
<1>14. CASE HandleStart
  <2>1. setup.stage \in Stages /\ setup' \in TalkSetups
    BY <1>4, <1>14 DEF HandleStart, TalkSetups
  <2>2. starting' \in TalkStarts
    BY <1>14, <2>1 DEF HandleStart, TalkStarts
  <2> QED BY <1>2, <1>3, <1>4, <1>14, <2>1, <2>2 DEF HandleStart
<1>15. CASE SaveRegion
  <2>1. starting' \in TalkStarts
    BY <1>4, <1>15 DEF SaveRegion, TalkStarts
  <2>2. WayInFits'
    BY <1>0, <1>15, <2>1 DEF SaveRegion, WayInFits
  <2> QED BY <1>2, <1>15, <2>2 DEF SaveRegion
\* The start.
<1>16. CASE StartFails
  <2>1. UNCHANGED <<preference, region, opened, entering>> /\ starting' = NoStart
    BY <1>16 DEF StartFails
  <2>2. setup' \in TalkSetups
    BY <1>4, <1>16 DEF StartFails, TalkSetups
  <2>3. TalksFit' /\ Kept
    <3>1. CASE UNCHANGED talks
      BY <1>1, <3>1
    <3>2. CASE /\ Open = {} /\ Len(talks) < MaxTalks
               /\ talks' = Append(talks, [stage |-> starting.stage, open |-> TRUE])
      BY <1>0, <1>4, <3>2, TalkOpens
    <3> QED BY <1>16, <3>1, <3>2 DEF StartFails
  <2>4. PageFits'
    BY <1>0, <2>1, <2>3, PageStays
  <2> QED BY <1>3, <1>4, <1>5, <2>1, <2>2, <2>3, <2>4 DEF TalkInv
<1>17. CASE CreateTalk
  <2> DEFINE n == Len(talks')
  <2>1. /\ Open = {} /\ Len(talks) < MaxTalks
        /\ talks' = Append(talks, [stage |-> starting.stage, open |-> TRUE])
        /\ opened' = [at |-> "TALK", number |-> n, stage |-> starting.stage]
        /\ starting' = NoStart /\ UNCHANGED <<preference, region, setup, entering>>
    BY <1>17 DEF CreateTalk
  <2>2. /\ TalksFit' /\ n = Len(talks) + 1 /\ n \in DOMAIN talks'
        /\ talks'[n].stage = starting.stage
    BY <1>0, <1>4, <2>1, TalkOpens
  <2>3. n \in Nat
    BY <1>0, <2>2, OpenTalks
  <2> HIDE DEF n
  <2>4. /\ opened' \in TalkPages /\ opened'.at = "TALK" /\ opened'.number = n
        /\ opened'.stage = starting.stage
    BY <1>4, <2>1, <2>3 DEF TalkPages
  <2>5. PageFits'
    BY <2>2, <2>4 DEF PageFits, TalkIsShownAsItIs
  <2> QED BY <1>3, <1>4, <1>5, <2>1, <2>2, <2>5 DEF TalkInv
<1>18. CASE CreateRefused
  <2>1. starting' \in TalkStarts
    BY <1>4, <1>18 DEF CreateRefused, TalkStarts
  <2> QED BY <1>2, <1>3, <1>4, <1>18, <2>1 DEF CreateRefused
<1>19. CASE CurrentAnswers
  <2>1. PICK n \in Open : opened' = Enters(n)
    BY <1>19 DEF CurrentAnswers
  <2>2. PageFits'
    BY <1>0, <1>19, <2>1, EntersFits DEF CurrentAnswers
  <2> QED BY <1>1, <1>3, <1>4, <1>5, <1>19, <2>2 DEF CurrentAnswers, TalkInv
\* The talks.
<1>20. CASE CloseTalk
  <2>1. /\ opened.at = "TALK" /\ opened.number \in Open
        /\ talks' = [talks EXCEPT ![opened.number].open = FALSE]
        /\ opened' = [opened EXCEPT !.at = "REPORT", !.stage = preference[opened.number]]
        /\ UNCHANGED <<preference, region, setup, entering, starting>>
    BY <1>20 DEF CloseTalk
  <2>2. TalksFit' /\ Kept
    BY <1>0, <2>1, TalkCloses
  <2>3. opened.number \in DOMAIN talks /\ preference[opened.number] \in Stages
    BY <1>0, <2>1, OpenTalks DEF WayInFits
  <2>4. /\ opened' \in TalkPages /\ opened'.at = "REPORT" /\ opened'.number = opened.number
    BY <1>0, <2>1, <2>3 DEF PageFits, TalkPages
  <2>5. PageFits'
    BY <2>2, <2>3, <2>4 DEF PageFits, TalkIsShownAsItIs, Kept
  <2> QED BY <1>3, <1>4, <2>1, <2>2, <2>5 DEF TalkInv
<1>21. CASE Elsewhere
  <2>1. TalksFit' /\ Kept
    <3>1. CASE \E n \in Open : talks' = [talks EXCEPT ![n].open = FALSE]
      BY <1>0, <3>1, TalkCloses
    <3>2. CASE /\ Open = {} /\ Len(talks) < MaxTalks
               /\ \E s \in Stages : talks' = Append(talks, [stage |-> s, open |-> TRUE])
      BY <1>0, <3>2, TalkOpens
    <3> QED BY <1>21, <3>1, <3>2 DEF Elsewhere
  <2>2. PageFits'
    BY <1>0, <1>21, <2>1, PageStays DEF Elsewhere
  <2> QED BY <1>3, <1>4, <1>21, <2>1, <2>2 DEF Elsewhere, TalkInv
<1> QED
  BY <1>6, <1>7, <1>8, <1>9, <1>11, <1>12, <1>13, <1>14, <1>15, <1>16, <1>17, <1>18, <1>19,
     <1>20, <1>21 DEF TalkNext

----------------------------------------------------------------------------
(* The device check. *)

Keepings == [flag : BOOLEAN, posts : Nat, failed : Nat, asked : BOOLEAN]

\* A result that was saved or is being saved: as many as failures, and the one that
\* the flag stands for.
KeepingFits ==
  /\ keeping \in Keepings
  /\ keeping.asked => keeping.flag
  /\ keeping.posts <= keeping.failed + (IF keeping.flag THEN 1 ELSE 0)

\* Only the stream of the last try is held.
StreamsFit ==
  /\ check \in Devices /\ (check.playing => check.tone)
  /\ streams \in [1..MaxTries -> {"NONE", "ASKED", "HELD", "STOPPED"}]
  /\ \A n \in 1..MaxTries : streams[n] = "HELD" => check.open /\ n = check.try

DeviceInv == KeepingFits /\ StreamsFit /\ ready \in [available : BOOLEAN, latest : BOOLEAN]

LEMMA DeviceGives == DeviceInv => DeviceTypeOK /\ ChecksAreFrugal
<1> SUFFICES ASSUME DeviceInv PROVE DeviceTypeOK /\ ChecksAreFrugal
  OBVIOUS
<1>1. keeping.posts <= keeping.failed + 1
  BY DEF DeviceInv, KeepingFits, Keepings
<1>2. DOMAIN streams = 1..MaxTries
  BY DEF DeviceInv, StreamsFit
<1> QED
  BY <1>1, <1>2 DEF DeviceInv, KeepingFits, Keepings, StreamsFit, DeviceTypeOK, ChecksAreFrugal

LEMMA DeviceBegins == DeviceInit \/ DeviceIdle => DeviceInv
<1>1. MaxTries \in Nat /\ 1 \in 1..MaxTries
  BY DeviceAssumption
<1>2. ASSUME keeping = [flag |-> FALSE, posts |-> 0, failed |-> 0, asked |-> FALSE]
      PROVE  KeepingFits
  BY <1>2 DEF KeepingFits, Keepings
<1>3. ASSUME DeviceInit PROVE StreamsFit
  BY <1>1, <1>3 DEF DeviceInit, StreamsFit, Devices, DeviceStatus, NoStreams
<1>4. ASSUME DeviceIdle PROVE StreamsFit
  BY <1>1, <1>4 DEF DeviceIdle, StreamsFit, Devices, DeviceStatus, NoStreams
<1>5. ASSUME DeviceInit PROVE DeviceInv
  BY <1>2, <1>3, <1>5 DEF DeviceInv, DeviceInit
<1>6. ASSUME DeviceIdle PROVE DeviceInv
  BY <1>2, <1>4, <1>6 DEF DeviceInv, DeviceIdle
<1> QED BY <1>5, <1>6

LEMMA SavesFits ==
  ASSUME KeepingFits, Saves
  PROVE  KeepingFits'
<1>1. CASE UNCHANGED keeping
  BY <1>1 DEF KeepingFits
<1>2. CASE ~keeping.flag /\ keeping' = [keeping EXCEPT !.flag = TRUE, !.posts = @ + 1, !.asked = TRUE]
  <2>1. keeping.posts \in Nat /\ keeping.failed \in Nat /\ keeping.posts <= keeping.failed
    BY <1>2 DEF KeepingFits, Keepings
  <2>2. PICK p \in Nat : p = keeping.posts + 1
    BY <2>1
  <2>3. keeping' = [keeping EXCEPT !.flag = TRUE, !.posts = p, !.asked = TRUE]
    BY <1>2, <2>2
  <2>4. keeping' \in Keepings /\ keeping'.flag /\ keeping'.posts = keeping.posts + 1
        /\ keeping'.failed = keeping.failed
    <3>1. keeping' \in Keepings
      BY <2>3 DEF KeepingFits, Keepings
    <3>2. keeping'.flag /\ keeping'.posts = p /\ keeping'.failed = keeping.failed
      BY <2>3 DEF KeepingFits, Keepings
    <3> QED BY <2>2, <3>1, <3>2
  <2> QED BY <2>1, <2>4 DEF KeepingFits
<1> QED BY <1>1, <1>2 DEF Saves

\* Streams that are torn down are not held.
LEMMA TeardownFits ==
  ASSUME StreamsFit
  PROVE  /\ Teardown \in [1..MaxTries -> {"NONE", "ASKED", "STOPPED"}]
BY DEF StreamsFit, Teardown

LEMMA DeviceSteps ==
  ASSUME DeviceInv, DeviceNext \/ UNCHANGED deviceVars
  PROVE  DeviceInv'
<1>0. /\ KeepingFits /\ StreamsFit /\ ready \in [available : BOOLEAN, latest : BOOLEAN]
      /\ MaxTries \in Nat
  BY DeviceAssumption DEF DeviceInv
<1>1. CASE UNCHANGED deviceVars
  BY <1>1 DEF deviceVars, DeviceInv, KeepingFits, StreamsFit
\* An answer of the prompt.
<1>2. ASSUME NEW n \in 1..MaxTries, StreamArrives(n) \/ StreamRefused(n) PROVE DeviceInv'
  <2>1. KeepingFits'
    BY <1>0, <1>2, SavesFits DEF StreamArrives, StreamRefused
  <2>2. PICK s \in {"NONE", "HELD", "STOPPED"}, m \in DeviceStatus :
          /\ streams' = [streams EXCEPT ![n] = s]
          /\ s = "HELD" => check.open /\ n = check.try
          /\ check' = check \/ check' = [check EXCEPT !.media = m]
    BY <1>2 DEF StreamArrives, StreamRefused, DeviceStatus
  <2>3. /\ check' \in Devices /\ check'.open = check.open /\ check'.try = check.try
        /\ check'.playing = check.playing /\ check'.tone = check.tone
    BY <1>0, <2>2 DEF StreamsFit, Devices
  <2>4. StreamsFit'
    BY <1>0, <2>2, <2>3 DEF StreamsFit
  <2> QED BY <1>0, <1>2, <2>1, <2>4 DEF DeviceInv, StreamArrives, StreamRefused
<1>3. CASE Retry
  <2>1. KeepingFits'
    BY <1>0, <1>3, SavesFits DEF Retry
  <2>2. check.try \in 1..MaxTries /\ check.try + 1 \in 1..MaxTries
    BY <1>0, <1>3 DEF Retry, StreamsFit, Devices
  <2>3. /\ check' \in Devices /\ check'.try = check.try + 1 /\ check'.open
        /\ check'.playing = check.playing /\ check'.tone = check.tone
    BY <1>0, <1>3, <2>2 DEF Retry, StreamsFit, Devices, DeviceStatus
  <2>4. /\ streams' \in [1..MaxTries -> {"NONE", "ASKED", "STOPPED"}]
    BY <1>0, <1>3, <2>2, TeardownFits DEF Retry
  <2>5. StreamsFit'
    BY <1>0, <2>3, <2>4 DEF StreamsFit
  <2> QED BY <1>0, <1>3, <2>1, <2>5 DEF DeviceInv, Retry
<1>4. CASE ReleaseStream \/ LeavePage
  <2>1. /\ check' \in Devices /\ check'.playing = check.playing /\ check'.tone = check.tone
    BY <1>0, <1>4 DEF ReleaseStream, LeavePage, StreamsFit, Devices
  <2>2. /\ streams' \in [1..MaxTries -> {"NONE", "ASKED", "STOPPED"}]
    BY <1>0, <1>4, TeardownFits DEF ReleaseStream, LeavePage
  <2>3. StreamsFit'
    BY <1>0, <2>1, <2>2 DEF StreamsFit
  <2> QED BY <1>0, <1>4, <2>3 DEF DeviceInv, KeepingFits, ReleaseStream, LeavePage
\* Parts other than the stream.
<1>5. CASE NetworkChanges \/ PlayTestTone \/ ToneEnds
  <2>1. KeepingFits'
    BY <1>0, <1>5, SavesFits DEF NetworkChanges, PlayTestTone, ToneEnds, KeepingFits
  <2>2. /\ check' \in Devices /\ (check'.playing => check'.tone)
        /\ check'.open = check.open /\ check'.try = check.try
    <3>1. check \in Devices /\ (check.playing => check.tone) /\ check.network \in BOOLEAN
      BY <1>0 DEF StreamsFit, Devices
    <3>2. CASE NetworkChanges
      BY <3>1, <3>2 DEF NetworkChanges, Devices
    <3>3. CASE PlayTestTone
      BY <3>1, <3>3 DEF PlayTestTone, Devices
    <3>4. CASE ToneEnds
      BY <3>1, <3>4 DEF ToneEnds, Devices
    <3> QED BY <1>5, <3>2, <3>3, <3>4
  <2>3. StreamsFit'
    BY <1>0, <1>5, <2>2 DEF StreamsFit, NetworkChanges, PlayTestTone, ToneEnds
  <2> QED BY <1>0, <1>5, <2>1, <2>3 DEF DeviceInv, NetworkChanges, PlayTestTone, ToneEnds
<1>6. CASE CheckSaved \/ SaveFails
  <2>1. /\ keeping.posts \in Nat /\ keeping.failed \in Nat /\ keeping.flag
        /\ keeping.posts <= keeping.failed + 1
    BY <1>0, <1>6 DEF KeepingFits, Keepings, CheckSaved, SaveFails
  <2>2. CASE CheckSaved
    <3>1. /\ keeping' \in Keepings /\ keeping'.flag /\ ~keeping'.asked
          /\ keeping'.posts = keeping.posts /\ keeping'.failed = keeping.failed
      BY <1>0, <2>1, <2>2 DEF CheckSaved, KeepingFits, Keepings
    <3> QED BY <1>0, <2>1, <2>2, <3>1 DEF CheckSaved, DeviceInv, KeepingFits, StreamsFit
  <2>3. CASE SaveFails
    <3>1. PICK f \in Nat : f = keeping.failed + 1
      BY <2>1
    <3>2. keeping' = [keeping EXCEPT !.asked = FALSE, !.flag = FALSE, !.failed = f]
      BY <2>3, <3>1 DEF SaveFails
    <3>3. keeping' \in Keepings
      BY <1>0, <3>2 DEF KeepingFits, Keepings
    <3>4. /\ ~keeping'.flag /\ ~keeping'.asked
          /\ keeping'.posts = keeping.posts /\ keeping'.failed = f
      BY <1>0, <3>2 DEF KeepingFits, Keepings
    <3>5. /\ keeping' \in Keepings /\ ~keeping'.flag /\ ~keeping'.asked
          /\ keeping'.posts = keeping.posts /\ keeping'.failed = keeping.failed + 1
      BY <3>1, <3>3, <3>4
    <3> QED BY <1>0, <2>1, <2>3, <3>5 DEF SaveFails, DeviceInv, KeepingFits, StreamsFit
  <2> QED BY <1>6, <2>2, <2>3
<1>7. CASE LatestArrives
  <2>1. ready' \in [available : BOOLEAN, latest : BOOLEAN]
    BY <1>0, <1>7 DEF LatestArrives, StreamsFit, Devices
  <2> QED BY <1>0, <1>7, <2>1 DEF LatestArrives, DeviceInv, KeepingFits, StreamsFit
<1> QED
  BY <1>1, <1>2, <1>3, <1>4, <1>5, <1>6, <1>7 DEF DeviceNext

----------------------------------------------------------------------------
(* The metric snapshots. *)

Meters == [now : Nat, from : Nat \cup {NoTime}, snapped : Nat \cup {NoTime},
           last : Nat \cup {NoTime}, usable : BOOLEAN, observed : Nat, dropped : Nat,
           ended : BOOLEAN]
Tellings == [until : Nat \cup {NoTime}, observed : Nat, dropped : Nat, gap : BOOLEAN,
             final : BOOLEAN]
Samplers == [dropped : Nat, recorded : Nat]

\* What has been observed since the last snapshot lies between it and the last frame.
MeterFits ==
  /\ meter \in Meters /\ meter.now <= MaxMeasured
  /\ meter.from = NoTime <=> meter.last = NoTime
  /\ meter.snapped = meter.from
  /\ meter.from = NoTime => meter.observed = 0
  /\ meter.from # NoTime =>
       meter.last = meter.now /\ meter.from <= meter.now /\ meter.observed <= meter.now - meter.from

\* The interval that is measured begins where the last one that was told ends.
ToldFits ==
  /\ told \in Tellings /\ told.gap = FALSE
  /\ told.until = NoTime => told.observed = 0
  /\ told.until # NoTime => told.observed <= told.until
  /\ told.until # NoTime /\ ~meter.ended => meter.from = told.until
  /\ told.final => meter.ended /\ told.dropped = sampler.dropped

SamplerFits ==
  /\ sampler \in Samplers /\ sampler.recorded <= sampler.dropped
  /\ ~meter.ended => told.dropped + meter.dropped = sampler.recorded

SensorsFit ==
  /\ activity.state \in {"WAITING_FOR_BASELINE", "NORMAL", "SUSPENDED"}
  /\ activity.scored => activity.last # NoTime
  /\ hand.status \in {"UNAVAILABLE", "OCCLUDED", "UNCERTAIN", "CLEAR"}
  /\ hand.status = "OCCLUDED" => Hands!Closed(hand.gate)

MetricsInv == MeterFits /\ ToldFits /\ SamplerFits /\ SensorsFit

LEMMA MetricsGives == MetricsInv => MetricsTypeOK /\ SnapshotsAddUp
<1> SUFFICES ASSUME MetricsInv PROVE MetricsTypeOK /\ SnapshotsAddUp
  OBVIOUS
<1>1. /\ meter.now \in 0..MaxMeasured
      /\ meter.from # NoTime => meter.from \in 0..meter.now
      /\ meter.snapped = meter.from
  BY MetricsAssumption DEF MetricsInv, MeterFits, Meters
<1>2. (meter.from = NoTime) = (meter.last = NoTime)
  BY DEF MetricsInv, MeterFits
<1>3. sampler.recorded \in 0..sampler.dropped
  BY DEF MetricsInv, SamplerFits, Samplers
<1>4. MetricsTypeOK
  BY <1>1, <1>2, <1>3 DEF MetricsInv, SensorsFit, MetricsTypeOK
<1>5. SnapshotsAddUp
  BY DEF MetricsInv, MeterFits, ToldFits, SamplerFits, SnapshotsAddUp
<1> QED BY <1>4, <1>5

LEMMA NewSensors ==
  ASSUME activity' \in {NewActivity, ActivitySuspended}, hand' = NewHand
  PROVE  SensorsFit'
<1>1. NewActivity.state = "WAITING_FOR_BASELINE" /\ NewActivity.scored = FALSE
  BY DEF NewActivity
<1>2. ActivitySuspended.state = "SUSPENDED" /\ ActivitySuspended.scored = FALSE
  BY DEF NewActivity, ActivitySuspended
<1>3. NewHand.status = "UNAVAILABLE"
  BY DEF NewHand
<1> QED BY <1>1, <1>2, <1>3 DEF SensorsFit

LEMMA MetricsBegins == MetricsInit \/ MetricsIdle => MetricsInv
<1> SUFFICES ASSUME NEW running \in BOOLEAN, MetricsBegin(running) PROVE MetricsInv
  BY DEF MetricsInit, MetricsIdle
<1>1. NewMeter \in Meters /\ NewMeter.now = 0 /\ NewMeter.from = NoTime /\ NewMeter.last = NoTime
      /\ NewMeter.snapped = NoTime /\ NewMeter.dropped = 0 /\ NewMeter.observed = 0
  BY DEF NewMeter, Meters
<1>2. /\ meter \in Meters /\ meter.now = 0 /\ meter.from = NoTime /\ meter.last = NoTime
      /\ meter.snapped = NoTime /\ meter.dropped = 0 /\ meter.observed = 0
  BY <1>1 DEF MetricsBegin, Meters
<1>3. MeterFits
  BY <1>2, MetricsAssumption DEF MeterFits
<1>4. /\ told \in Tellings /\ told.until = NoTime /\ told.observed = 0 /\ told.dropped = 0
      /\ told.gap = FALSE /\ told.final = FALSE
  BY DEF MetricsBegin, NothingTold, Tellings
<1>5. ToldFits
  BY <1>4 DEF ToldFits
<1>6. SamplerFits
  BY <1>2, <1>4 DEF MetricsBegin, SamplerFits, Samplers
<1>7. SensorsFit
  BY DEF MetricsBegin, SensorsFit, NewActivity, NewHand
<1> QED BY <1>3, <1>5, <1>6, <1>7 DEF MetricsInv

\* A snapshot claims what was observed in its interval, which follows the last one.
LEMMA ToldSoundly ==
  ASSUME ToldFits, NEW m \in Meters, NEW t \in Nat, NEW final \in BOOLEAN,
         m.from # NoTime, m.from <= t, m.observed <= t - m.from,
         told.until # NoTime => told.until = m.from
  PROVE  /\ Told(m, final, t) \in Tellings
         /\ Told(m, final, t).until = t /\ Told(m, final, t).observed <= t
         /\ Told(m, final, t).dropped = told.dropped + m.dropped
         /\ Told(m, final, t).gap = FALSE /\ Told(m, final, t).final = final
<1> DEFINE observed == told.observed + m.observed
           dropped == told.dropped + m.dropped
<1>1. m.from \in Nat /\ m.observed \in Nat /\ m.dropped \in Nat
  BY DEF Meters
<1>2. told.observed \in Nat /\ told.dropped \in Nat /\ told.gap = FALSE
      /\ told.until \in Nat \cup {NoTime}
  BY DEF ToldFits, Tellings
<1>3. Told(m, final, t) = [until |-> t, observed |-> observed, dropped |-> dropped,
                           gap |-> FALSE, final |-> final]
  BY <1>1, <1>2 DEF Told
<1>4. observed \in Nat /\ dropped \in Nat
  BY <1>1, <1>2
<1>5. observed <= t
  <2>1. CASE told.until = NoTime
    BY <1>1, <2>1 DEF ToldFits
  <2>2. CASE told.until # NoTime
    <3>1. told.observed <= m.from
      BY <2>2 DEF ToldFits
    <3> QED BY <1>1, <1>2, <3>1
  <2> QED BY <2>1, <2>2
<1>6. dropped = told.dropped + m.dropped
  OBVIOUS
<1> HIDE DEF observed, dropped
<1> QED BY <1>3, <1>4, <1>5, <1>6 DEF Tellings

\* What the sampler dropped since it was last looked at.
LEMMA RecordedDropped ==
  ASSUME MeterFits, SamplerFits, told.dropped \in Nat, NEW t \in Nat
  PROVE  LET m == [RecordDropped(meter) EXCEPT !.now = t]
         IN /\ m \in Meters /\ m.now = t /\ m.from = meter.from /\ m.snapped = meter.snapped
            /\ m.last = meter.last /\ m.usable = meter.usable /\ m.observed = meter.observed
            /\ m.ended = meter.ended
            /\ ~meter.ended => told.dropped + m.dropped = sampler.dropped
<1> DEFINE dropped == meter.dropped + NewlyDropped
           m == [RecordDropped(meter) EXCEPT !.now = t]
<1>1. meter \in Meters /\ meter.dropped \in Nat /\ sampler.dropped \in Nat /\ sampler.recorded \in Nat
      /\ sampler.recorded <= sampler.dropped
  BY DEF MeterFits, Meters, SamplerFits, Samplers
<1>2. NewlyDropped = sampler.dropped - sampler.recorded
  BY <1>1 DEF NewlyDropped
<1>3. dropped \in Nat
  BY <1>1, <1>2
<1>4. ASSUME ~meter.ended PROVE told.dropped + dropped = sampler.dropped
  BY <1>1, <1>2, <1>4 DEF SamplerFits
<1>5. RecordDropped(meter) = [meter EXCEPT !.dropped = dropped]
  BY <1>1 DEF RecordDropped, Meters
<1> HIDE DEF dropped
<1>6. /\ m \in Meters /\ m.now = t /\ m.from = meter.from /\ m.snapped = meter.snapped
      /\ m.last = meter.last /\ m.usable = meter.usable /\ m.observed = meter.observed
      /\ m.ended = meter.ended /\ m.dropped = dropped
  BY <1>1, <1>3, <1>5 DEF Meters
<1> HIDE DEF m
<1>7. ~meter.ended => told.dropped + m.dropped = sampler.dropped
  BY <1>4, <1>6
<1> QED BY <1>6, <1>7 DEF m

\* The interval since the last frame counts only if it is short and both ends are
\* usable, so that what is observed stays within the time that passed.
LEMMA RecordsObservation ==
  ASSUME NEW m \in Meters, NEW t \in Nat, NEW usable \in BOOLEAN, NEW frame,
         frame.usable = usable, m.now = t,
         m.from = NoTime <=> m.last = NoTime,
         m.from # NoTime => m.from <= m.last /\ m.last <= t /\ m.observed <= m.last - m.from,
         m.from = NoTime => m.observed = 0
  PROVE  LET r == RecordObservation(m, frame, t)
         IN /\ r \in Meters /\ r.now = t /\ r.last = t /\ r.dropped = m.dropped
            /\ r.snapped = m.snapped /\ r.ended = m.ended
            /\ r.from # NoTime /\ r.from <= t /\ r.observed <= t - r.from
            /\ r.from = IF m.from = NoTime THEN t ELSE m.from
<1> DEFINE from == IF m.from = NoTime THEN t ELSE m.from
           observed == IF /\ m.last # NoTime /\ t - m.last \in 0..frame.gap
                          /\ m.usable /\ frame.usable
                       THEN m.observed + (t - m.last) ELSE m.observed
           r == RecordObservation(m, frame, t)
<1>1. m.from \in Nat \cup {NoTime} /\ m.last \in Nat \cup {NoTime} /\ m.observed \in Nat
  BY DEF Meters
<1>2. from \in Nat /\ from <= t
  BY <1>1
<1>3. observed \in {m.observed, m.observed + (t - m.last)}
      /\ (observed = m.observed \/ m.last # NoTime)
  OBVIOUS
<1>4. observed \in Nat /\ observed <= t - from
  <2>1. CASE m.from = NoTime
    BY <1>1, <1>3, <2>1
  <2>2. CASE m.from # NoTime
    <3>1. m.from \in Nat /\ m.last \in Nat /\ from = m.from /\ m.from <= m.last /\ m.last <= t
          /\ m.observed <= m.last - m.from
      BY <1>1, <2>2
    <3> HIDE DEF observed, from
    <3> QED BY <1>1, <1>3, <3>1
  <2> QED BY <2>1, <2>2
<1>5. from # NoTime
  BY <1>2 DEF NoTime
<1>6. r = [m EXCEPT !.from = from, !.observed = observed, !.last = t, !.usable = usable]
  BY <1>1 DEF RecordObservation, Meters
<1>7. from = IF m.from = NoTime THEN t ELSE m.from
  OBVIOUS
<1> HIDE DEF observed, from, r
<1>8. /\ r \in Meters /\ r.now = t /\ r.last = t /\ r.dropped = m.dropped
      /\ r.snapped = m.snapped /\ r.ended = m.ended /\ r.from = from /\ r.observed = observed
  BY <1>2, <1>4, <1>6 DEF Meters
<1> QED BY <1>2, <1>4, <1>5, <1>7, <1>8 DEF r

LEMMA FrameDroppedFits ==
  ASSUME MetricsInv, FrameDropped
  PROVE  MetricsInv'
<1>1. ~meter.ended /\ sampler' = [sampler EXCEPT !.dropped = @ + 1]
      /\ UNCHANGED <<face, hand, activity, meter, told>>
  BY DEF FrameDropped
<1>2. PICK n \in Nat : n = sampler.dropped + 1
  BY DEF MetricsInv, SamplerFits, Samplers
<1>3. sampler' = [sampler EXCEPT !.dropped = n]
  BY <1>1, <1>2 DEF MetricsInv, SamplerFits, Samplers
<1>4. sampler' \in Samplers /\ sampler'.dropped = n /\ sampler'.recorded = sampler.recorded
  BY <1>3 DEF MetricsInv, SamplerFits, Samplers
<1>5. SamplerFits'
  BY <1>1, <1>2, <1>4 DEF MetricsInv, SamplerFits, Samplers
<1>6. MeterFits' /\ SensorsFit'
  BY <1>1 DEF MetricsInv, MeterFits, SensorsFit
<1>7. ToldFits'
  BY <1>1 DEF MetricsInv, ToldFits
<1> QED BY <1>5, <1>6, <1>7 DEF MetricsInv

LEMMA MeasureFits ==
  ASSUME MetricsInv, NEW step \in FrameSteps, NEW frame \in Frames, Measure(step, frame)
  PROVE  MetricsInv'
<1> DEFINE t == meter.now + step
           m == [RecordDropped(meter) EXCEPT !.now = t]
           r == RecordObservation(m, frame, t)
<1>0. MeterFits /\ ToldFits /\ SamplerFits /\ SensorsFit
  BY DEF MetricsInv
<1>1. step \in Nat /\ step > 0 /\ meter.now \in Nat /\ meter \in Meters
  BY <1>0, MetricsAssumption DEF MeterFits, Meters
<1>2. /\ ~meter.ended /\ t <= MaxMeasured
      /\ sampler' = [sampler EXCEPT !.recorded = sampler.dropped]
      /\ hand' = HandUpdate(frame.mouth, t) /\ activity' = ActivityStep(frame, t)
      /\ Snapshot(r, t)
  BY DEF Measure
<1>3. PICK usable \in BOOLEAN : frame.usable = usable
  BY DEF Frames
<1>4. t \in Nat /\ meter.now < t
  BY <1>1
<1>5. told.dropped \in Nat /\ told.gap = FALSE /\ told.final = FALSE
  BY <1>0, <1>2 DEF ToldFits, Tellings
<1>6. /\ m \in Meters /\ m.now = t /\ m.from = meter.from /\ m.snapped = meter.snapped
      /\ m.last = meter.last /\ m.usable = meter.usable /\ m.observed = meter.observed
      /\ m.ended = meter.ended
      /\ told.dropped + m.dropped = sampler.dropped
  BY <1>0, <1>2, <1>4, <1>5, RecordedDropped
<1> HIDE DEF m
<1>7. m.from = NoTime <=> m.last = NoTime
  BY <1>0, <1>6 DEF MeterFits
<1>8. m.from # NoTime => m.from <= m.last /\ m.last <= t /\ m.observed <= m.last - m.from
  <2>1. m.from # NoTime => m.last = meter.now /\ m.from <= meter.now /\ m.observed <= meter.now - m.from
    BY <1>0, <1>6 DEF MeterFits
  <2> QED BY <1>1, <1>4, <2>1
<1>9. m.from = NoTime => m.observed = 0
  BY <1>0, <1>6 DEF MeterFits
<1>10. /\ r \in Meters /\ r.now = t /\ r.last = t /\ r.dropped = m.dropped
       /\ r.snapped = m.snapped /\ r.ended = m.ended
       /\ r.from # NoTime /\ r.from <= t /\ r.observed <= t - r.from
       /\ r.from = IF m.from = NoTime THEN t ELSE m.from
  BY <1>3, <1>4, <1>6, <1>7, <1>8, <1>9, RecordsObservation
<1> HIDE DEF r, t
<1>11. t # NoTime
  BY <1>4 DEF NoTime
<1>12. told.until # NoTime => told.until = meter.from /\ told.until = r.from
  BY <1>0, <1>2, <1>6, <1>10 DEF ToldFits
<1>13. sampler' \in Samplers /\ sampler'.recorded = sampler.dropped /\ sampler'.dropped = sampler.dropped
  BY <1>0, <1>2 DEF SamplerFits, Samplers
<1>14. SensorsFit'
  <2>1. /\ activity'.state \in {"WAITING_FOR_BASELINE", "NORMAL", "SUSPENDED"}
        /\ activity'.scored => activity'.last # NoTime
    <3>1. CASE activity' = ActivitySuspended \/ activity' = NewActivity
      BY <3>1 DEF ActivitySuspended, NewActivity
    <3>2. CASE activity' = ActivityUpdate(frame, t)
      BY <1>11, <3>2 DEF ActivityUpdate, ActivitySuspended, NewActivity
    <3> QED BY <1>2, <3>1, <3>2 DEF ActivityStep
  <2>2. \A gate : HandStatus(gate, frame.mouth) \in {"UNAVAILABLE", "OCCLUDED", "UNCERTAIN", "CLEAR"}
                  /\ (HandStatus(gate, frame.mouth) = "OCCLUDED" => Hands!Closed(gate))
    BY DEF HandStatus
  <2>3. hand'.status = HandStatus(hand'.gate, frame.mouth)
    BY <1>2 DEF HandUpdate
  <2> QED BY <2>1, <2>2, <2>3 DEF SensorsFit
<1>15. CASE meter' = r /\ UNCHANGED told /\ r.snapped # NoTime
  <2>1. meter.from # NoTime /\ r.from = meter.from /\ r.snapped = r.from
    BY <1>0, <1>6, <1>10, <1>15 DEF MeterFits
  <2>2. MeterFits'
    BY <1>2, <1>10, <1>11, <1>15, <2>1 DEF MeterFits, t
  <2>3. ToldFits'
    BY <1>0, <1>2, <1>5, <1>12, <1>15 DEF ToldFits
  <2>4. SamplerFits'
    BY <1>6, <1>10, <1>13, <1>15 DEF SamplerFits, Samplers
  <2> QED BY <1>14, <2>2, <2>3, <2>4 DEF MetricsInv
<1>16. CASE meter' = Emptied(r, t) /\ told' = Told(r, FALSE, t)
  <2>1. /\ meter' \in Meters /\ meter'.from = t /\ meter'.snapped = t /\ meter'.observed = 0
        /\ meter'.dropped = 0 /\ meter'.now = t /\ meter'.last = t /\ meter'.ended = r.ended
    BY <1>4, <1>10, <1>16 DEF Emptied, Meters
  <2>2. MeterFits'
    BY <1>2, <1>4, <1>11, <2>1 DEF MeterFits
  <2>3. /\ told' \in Tellings /\ told'.until = t /\ told'.observed <= t
        /\ told'.dropped = told.dropped + r.dropped /\ told'.gap = FALSE /\ told'.final = FALSE
    BY <1>0, <1>4, <1>10, <1>12, <1>16, ToldSoundly
  <2>4. ToldFits'
    BY <1>11, <2>1, <2>3 DEF ToldFits
  <2>5. SamplerFits'
    BY <1>6, <1>10, <1>13, <2>1, <2>3 DEF SamplerFits, Samplers
  <2> QED BY <1>14, <2>2, <2>4, <2>5 DEF MetricsInv
<1> QED BY <1>2, <1>15, <1>16 DEF Snapshot

LEMMA EndMetricsFits ==
  ASSUME MetricsInv, NEW reason, NEW t \in 0..MaxMeasured, EndMetrics(reason, t)
  PROVE  MetricsInv'
<1> DEFINE m == [RecordDropped(meter) EXCEPT !.now = t]
<1>0. MeterFits /\ ToldFits /\ SamplerFits /\ SensorsFit
  BY DEF MetricsInv
<1>1. /\ ~meter.ended /\ t \in meter.now..MaxMeasured
      /\ told' = IF reason = "SESSION_ENDED" /\ meter.last # NoTime THEN Told(m, TRUE, t) ELSE told
      /\ meter' = [NewMeter EXCEPT !.now = t, !.ended = TRUE]
      /\ hand' = NewHand /\ activity' = NewActivity
      /\ sampler' = [sampler EXCEPT !.recorded = 0]
  BY DEF EndMetrics
<1>2. t \in Nat /\ meter \in Meters /\ meter.now \in Nat /\ meter.now <= t
  BY <1>0, <1>1 DEF MeterFits, Meters
<1>3. told.dropped \in Nat /\ told \in Tellings /\ told.gap = FALSE /\ told.final = FALSE
  BY <1>0, <1>1 DEF ToldFits, Tellings
<1>4. /\ m \in Meters /\ m.now = t /\ m.from = meter.from /\ m.snapped = meter.snapped
      /\ m.last = meter.last /\ m.usable = meter.usable /\ m.observed = meter.observed
      /\ m.ended = meter.ended
      /\ told.dropped + m.dropped = sampler.dropped
  BY <1>0, <1>1, <1>2, <1>3, RecordedDropped
<1> HIDE DEF m
<1>5. /\ meter' \in Meters /\ meter'.now = t /\ meter'.from = NoTime /\ meter'.last = NoTime
      /\ meter'.snapped = NoTime /\ meter'.ended = TRUE /\ meter'.observed = 0
  BY <1>1, <1>2 DEF NewMeter, Meters
<1>6. MeterFits'
  BY <1>1, <1>2, <1>5 DEF MeterFits
<1>7. sampler' \in Samplers /\ sampler'.recorded = 0 /\ sampler'.dropped = sampler.dropped
      /\ sampler.dropped \in Nat
  BY <1>0, <1>1 DEF SamplerFits, Samplers
<1>8. SamplerFits'
  BY <1>5, <1>7 DEF SamplerFits
<1>9. ToldFits'
  <2>1. CASE UNCHANGED told
    BY <1>0, <1>3, <1>5, <2>1 DEF ToldFits
  <2>2. CASE meter.last # NoTime /\ told' = Told(m, TRUE, t)
    <3>1. m.from # NoTime /\ m.from <= t /\ m.observed <= t - m.from
      <4>1. /\ meter.from \in Nat /\ meter.from # NoTime /\ meter.from <= meter.now
            /\ meter.observed <= meter.now - meter.from /\ meter.observed \in Nat
        BY <1>0, <1>2, <2>2 DEF MeterFits, Meters
      <4> QED BY <1>2, <1>4, <4>1
    <3>2. told.until # NoTime => told.until = m.from
      BY <1>0, <1>1, <1>4 DEF ToldFits
    <3>3. /\ told' \in Tellings /\ told'.until = t /\ told'.observed <= t
          /\ told'.dropped = told.dropped + m.dropped /\ told'.gap = FALSE /\ told'.final = TRUE
      BY <1>0, <1>2, <1>4, <2>2, <3>1, <3>2, ToldSoundly
    <3>4. t # NoTime
      BY <1>2 DEF NoTime
    <3> QED BY <1>4, <1>5, <1>7, <3>3, <3>4 DEF ToldFits
  <2> QED BY <1>1, <2>1, <2>2
<1>10. SensorsFit'
  BY <1>1, NewSensors
<1> QED BY <1>6, <1>8, <1>9, <1>10 DEF MetricsInv

LEMMA MetricsSteps ==
  ASSUME MetricsInv, MetricsNext \/ UNCHANGED metricsVars
  PROVE  MetricsInv'
<1>1. CASE UNCHANGED metricsVars
  BY <1>1 DEF metricsVars, MetricsInv, MeterFits, ToldFits, SamplerFits, SensorsFit
<1>2. CASE MetricsNext
  BY <1>2, FrameDroppedFits, MeasureFits, EndMetricsFits DEF MetricsNext
<1> QED BY <1>1, <1>2

----------------------------------------------------------------------------
(* What everyone sees, and what everything is, in all parts together: the  *)
(* invariants of the parts hold side by side, since no step moves two.     *)

PartsInv ==
  /\ AccessInv /\ NotesInv /\ CoachInv /\ ChatInv /\ MatchInv /\ ReviewInv
  /\ FaceInv /\ PracticeInv /\ AccountInv /\ ClockInv /\ PictureInv /\ CueInv
  /\ TalkInv /\ DeviceInv /\ GovernorInv /\ MetricsInv /\ NodInv
  /\ RemindersInv /\ ReportInv

LEMMA PartsInvBegins ==
  ASSUME Init
  PROVE  PartsInv
<1>1. AccessInv /\ NotesInv /\ CoachInv /\ ChatInv /\ MatchInv
  BY PartsBegin, AccessBegins, NotesBegins, CoachBegins, ChatBegins, MatchBegins
<1>2. ReviewInv /\ FaceInv /\ PracticeInv /\ AccountInv /\ ClockInv
  BY PartsBegin, ReviewBegins, FaceBegins, PracticeBegins, AccountBegins, ClockBegins
<1>3. PictureInv /\ CueInv /\ TalkInv /\ DeviceInv /\ GovernorInv
  BY PartsBegin, PictureBegins, CueBegins, TalkBegins, DeviceBegins, GovernorBegins
<1>4. MetricsInv /\ NodInv /\ RemindersInv /\ ReportInv
  BY PartsBegin, MetricsBegins, NodBegins, InitFits, ReportBegins
<1> QED BY <1>1, <1>2, <1>3, <1>4 DEF PartsInv

LEMMA PartsInvSteps ==
  ASSUME PartsInv, [Next]_vars
  PROVE  PartsInv'
<1> USE PartsMoveAlone DEF PartsInv
<1>1. AccessInv' /\ NotesInv'
  BY AccessSteps, NotesSteps
<1>2. CoachInv' /\ ChatInv' /\ NodInv' /\ GovernorInv' /\ ReportInv'
  BY CoachSteps, ChatSteps, NodSteps, GovernorSteps, ReportSteps
     DEF CoachKept, ChatKept, NodKept, GovernorKept, ReportKept
<1>3. MatchInv' /\ ReviewInv' /\ FaceInv'
  BY MatchSteps, ReviewSteps, FaceSteps
<1>4. PracticeInv' /\ AccountInv' /\ ClockInv'
  BY PracticeSteps, AccountSteps, ClockSteps
<1>5. PictureInv' /\ CueInv' /\ TalkInv'
  BY PictureSteps, CueSteps, TalkSteps
<1>6. DeviceInv' /\ MetricsInv' /\ RemindersInv'
  BY DeviceSteps, MetricsSteps, StepFits
<1> QED BY <1>1, <1>2, <1>3, <1>4, <1>5, <1>6

\* For any number of notifications, tokens, talks, polls, answers under way and frames,
\* and any timings: what the pages show is what the server has.  A notification is
\* listed once, an answer that is shown was recorded, a report comes after both
\* evaluations, the gate opens to who passed it, a refreshed token is the newest one,
\* the picture of the peer is the last event's, a talk is shown with its own stage, the
\* countdown's seed is on the server's axis, the effects report the present, checks are
\* not repeated, snapshots add up, and both participants have the same report state.
THEOREM EveryoneIsShownTheTruth == Spec => []EveryoneSeesTheTruth
<1>1. Init => PartsInv
  BY PartsInvBegins
<1>2. PartsInv /\ [Next]_vars => PartsInv'
  BY PartsInvSteps
<1>3. ASSUME PartsInv PROVE EveryoneSeesTheTruth
  <2>1. ListedOnce /\ ShownAnswerIsRecorded /\ ReportAfterBothEvaluations
    BY <1>3, NotesGives, CoachGives, ReviewGives DEF PartsInv
  <2>2. GateOpensWhenDone /\ RefreshIsFresh /\ PictureAgrees /\ ReportsAreCurrent
    BY <1>3, AccessGives, PictureGives DEF PartsInv
  <2>3. TalkIsShownAsItIs /\ SeedIsOnTheAxis /\ ChecksAreFrugal
    BY <1>3, TalkGives, ClockGives, DeviceGives DEF PartsInv
  <2>4. SnapshotsAddUp /\ SameFate
    BY <1>3, MetricsGives, ReportGives DEF PartsInv
  <2> QED BY <2>1, <2>2, <2>3, <2>4 DEF EveryoneSeesTheTruth
<1> QED BY <1>1, <1>2, <1>3, PTL DEF Spec

\* Every variable of every part has its type, for every value of the constants.
THEOREM PartsTypes == Spec => []TypeOK
<1> DEFINE Inv == PartsInv /\ part \in PartNames
<1>1. Init => Inv
  BY PartsInvBegins DEF Init
<1>2. Inv /\ [Next]_vars => Inv'
  <2>1. [Next]_vars => UNCHANGED part
    BY DEF Next, Apart, vars
  <2> QED BY <2>1, PartsInvSteps
<1>3. ASSUME Inv PROVE TypeOK
  <2>1. AccessTypeOK /\ NotesTypeOK /\ CoachTypeOK /\ ChatTypeOK
    BY <1>3, AccessGives, NotesGives, CoachGives, ChatGives DEF PartsInv
  <2>2. MatchTypeOK /\ ReviewTypeOK /\ FaceTypeOK /\ PracticeTypeOK
    BY <1>3, MatchGives, ReviewGives, FaceGives, PracticeGives DEF PartsInv
  <2>3. AccountTypeOK /\ ClockTypeOK /\ PictureTypeOK /\ CueTypeOK
    BY <1>3, AccountGives, ClockGives, PictureGives DEF PartsInv, CueInv
  <2>4. TalkTypeOK /\ DeviceTypeOK /\ GovernorTypeOK /\ MetricsTypeOK
    BY <1>3, TalkGives, DeviceGives, GovernorGives, MetricsGives DEF PartsInv
  <2>5. NodTypeOK /\ ReminderTypeOK /\ ReportTypeOK
    BY <1>3, NodGives, ReportGives DEF PartsInv, RemindersInv
  <2> QED BY <1>3, <2>1, <2>2, <2>3, <2>4, <2>5 DEF TypeOK
<1> QED BY <1>1, <1>2, <1>3, PTL DEF Spec

----------------------------------------------------------------------------
(* What a step may never do, in all parts together. *)

\* A saving that ends was answered.
LEMMA SavingsEnd ==
  ASSUME AccountNext, saving # NotSaving, saving' = NotSaving
  PROVE  \E served, heard \in BOOLEAN : SaveAnswers(served, heard)
BY DEF AccountNext, EnterAccount, AnimalArrives, OnSignOut, SignOutAnswers, SessionLost, OpenWithdraw,
       CloseWithdraw, TypePassword, OnWithdraw, Browse, FormReload, HandleSubmit, ToggleConsent,
       EnterSession, ChangedElsewhere, Edit, FormLoads, HubLoads, ConsentsLoad, ConfirmWithdraw,
       ConsentIsRead, SettingsAnswer, WithdrawAnswers, SummaryLoads, ConsentAnswers, pages

Untouched(f) ==
  saving # NotSaving /\ saving' = NotSaving /\ form.phase = "SAVING" /\ form.now[f] = form.initial[f]
    => people'[who].profile[f] = people[who].profile[f]

LEMMA SavingsFit ==
  ASSUME AccountInv, AccountNext, NEW f \in Fields
  PROVE  Untouched(f)
<1>1. SUFFICES ASSUME saving # NotSaving, saving' = NotSaving, form.phase = "SAVING",
                      form.now[f] = form.initial[f]
               PROVE  people'[who].profile[f] = people[who].profile[f]
  BY DEF Untouched
<1>2. PICK served \in BOOLEAN, heard \in BOOLEAN : SaveAnswers(served, heard)
  BY <1>1, SavingsEnd
<1> DEFINE to == [g \in Fields |-> IF saving.sent[g] = Unsent THEN people[who].profile[g]
                                                             ELSE saving.sent[g]]
<1>3. people' \in {people, [people EXCEPT ![who].profile = to]} /\ who # Nobody
  BY <1>2 DEF SaveAnswers
<1>4. saving.sent[f] = Unsent
  BY <1>1 DEF AccountInv, SentFits
<1>5. to[f] = people[who].profile[f]
  BY <1>4
<1>6. who \in Users /\ people \in [Users -> People]
  BY <1>3 DEF AccountInv, AccountRecords
<1> HIDE DEF to
<1>7. CASE people' = [people EXCEPT ![who].profile = to]
  <2>1. people'[who].profile = to
    BY <1>6, <1>7 DEF People
  <2> QED BY <1>5, <2>1
<1> QED BY <1>3, <1>7

\* For every value of the constants: a closed conversation does not change, a card stays
\* until it is outranked, a form saves what was changed in it, the analysis recovers
\* slowly, nods are separate, a reminder is told once, and a made report is final.
THEOREM PartsStepSoundly == Spec => StepsAreSound
<1> DEFINE Inv == ChatInv /\ CoachInv /\ AccountInv /\ GovernorInv /\ NodInv /\ RemindersInv
                    /\ ReportInv
           Sound == /\ [~bot.active => bot'.log = bot.log]_chatVars
                    /\ [Undisturbed]_coachVars
                    /\ [\A f \in Fields : Untouched(f)]_accountVars
                    /\ [Recovery]_governor
                    /\ [nod' # nod => Separate]_nodVars
                    /\ [\A k \in ReminderKinds : RemindsOnce(k)]_reminderVars
                    /\ [\A s \in Sides : RowMoves(s)]_reportVars
<1>1. Init => Inv
  BY PartsBegin, ChatBegins, CoachBegins, AccountBegins, GovernorBegins, NodBegins, InitFits,
     ReportBegins
<1>2. ASSUME Inv, [Next]_vars PROVE Inv' /\ Sound
  <2>1. /\ ChatNext \/ UNCHANGED chatVars
        /\ CoachNext \/ UNCHANGED coachVars
        /\ AccountNext \/ UNCHANGED accountVars
        /\ GovernorNext \/ UNCHANGED governor
        /\ NodNext \/ UNCHANGED nodVars
        /\ ReminderNext \/ UNCHANGED reminderVars
        /\ ReportNext \/ UNCHANGED reportVars
    BY <1>2, PartsMoveAlone
  <2>2. ChatKept /\ CoachKept
    BY <1>2, <2>1, ChatSteps, CoachSteps
  <2>3. AccountInv' /\ [\A f \in Fields : Untouched(f)]_accountVars
    BY <1>2, <2>1, AccountSteps, SavingsFit
  <2>4. GovernorKept /\ NodKept /\ ReportKept
    BY <1>2, <2>1, GovernorSteps, NodSteps, ReportSteps
  <2>5. RemindersInv'
    BY <1>2, <2>1, StepFits
  <2>6. [\A k \in ReminderKinds : RemindsOnce(k)]_reminderVars
    BY <1>2, <2>1, <2>5, RemindersTell
  <2>7. Inv'
    BY <2>2, <2>3, <2>4, <2>5 DEF ChatKept, CoachKept, GovernorKept, NodKept, ReportKept
  <2> QED BY <2>2, <2>3, <2>4, <2>6, <2>7 DEF ChatKept, CoachKept, GovernorKept, NodKept, ReportKept
<1>3. Inv /\ [Next]_vars => Inv'
  BY <1>2
<1>4. Spec => ClosedIsFinal
  <2>1. Inv /\ [Next]_vars => [~bot.active => bot'.log = bot.log]_chatVars
    BY <1>2
  <2> QED BY <1>1, <1>3, <2>1, PTL DEF Spec, ClosedIsFinal
<1>5. Spec => ShownUntilOutranked
  <2>1. Inv /\ [Next]_vars => [Undisturbed]_coachVars
    BY <1>2
  <2> QED BY <1>1, <1>3, <2>1, PTL DEF Spec, ShownUntilOutranked, Undisturbed
<1>6. Spec => SavesOnlyChanges
  <2>1. Inv /\ [Next]_vars => [\A f \in Fields : Untouched(f)]_accountVars
    BY <1>2
  <2> QED BY <1>1, <1>3, <2>1, PTL DEF Spec, SavesOnlyChanges, Untouched
<1>7. Spec => RecoversSlowly
  <2>1. Inv /\ [Next]_vars => [Recovery]_governor
    BY <1>2
  <2> QED BY <1>1, <1>3, <2>1, PTL DEF Spec, RecoversSlowly, Recovery
<1>8. Spec => NodsAreSeparate
  <2>1. Inv /\ [Next]_vars => [nod' # nod => Separate]_nodVars
    BY <1>2
  <2> QED BY <1>1, <1>3, <2>1, PTL DEF Spec, NodsAreSeparate, Separate
<1>9. Spec => TellsOnce
  <2>1. Inv /\ [Next]_vars => [\A k \in ReminderKinds : RemindsOnce(k)]_reminderVars
    BY <1>2
  <2> QED BY <1>1, <1>3, <2>1, PTL DEF Spec, TellsOnce, RemindsOnce
<1>10. Spec => MadeIsFinal
  <2>1. Inv /\ [Next]_vars => [\A s \in Sides : RowMoves(s)]_reportVars
    BY <1>2
  <2> QED BY <1>1, <1>3, <2>1, PTL DEF Spec, MadeIsFinal, RowMoves
<1> QED BY <1>4, <1>5, <1>6, <1>7, <1>8, <1>9, <1>10 DEF StepsAreSound
============================================================================
