------------------------------ MODULE Session -------------------------------
(***************************************************************************)
(* The waiting room of a confirmed match and the conversation held in it   *)
(* (domain/room, the extension decision of domain/contact and the no-show  *)
(* penalties of domain/moderation), for one room and its two participants. *)
(*                                                                         *)
(* A service method whose first statement locks the session row is one     *)
(* action.  Three transactions read before they wait for that row and are  *)
(* two actions each: join and the two changes of readiness (the            *)
(* restriction check comes first: Call, then the change), and the          *)
(* connection monitor (SelectExpired, then FailRecovery).  Methods that    *)
(* take the time of day before the lock act on a time up to MaxLag old.    *)
(*                                                                         *)
(* StaleReads is TRUE when a row that is read without a lock after the     *)
(* wait is the row as the transaction's first read found it (REPEATABLE    *)
(* READ), and an entity loaded before the wait is not refreshed; FALSE     *)
(* when both are the current row.                                          *)
(*                                                                         *)
(* A participant's connection is abstract here: its three states and the   *)
(* changes between them, without webhooks, heartbeats and grace periods.   *)
(* A device check passes or not as the environment likes.                  *)
(***************************************************************************)
EXTENDS Integers

CONSTANTS
    UserA, UserB, NoUser,
    StaleReads,         \* is a read after the wait answered from before it?
    ScheduledStart,
    OpenBefore, CloseAfter,     \* the entry window around ScheduledStart
    Base, Extension,            \* durations without and with consent
    DecisionWindow,             \* the last part of Base, to consent in
    SoonBefore, ImminentBefore, \* when the end is announced
    NoShowGrace,
    MaxLag,             \* bound: ticks between a call's clock read and its lock
    MaxTime             \* bound: the last tick

ASSUME SessionAssumption ==
    /\ UserA # UserB
    /\ NoUser \notin {UserA, UserB}
    /\ StaleReads \in BOOLEAN
    /\ ScheduledStart \in Nat /\ OpenBefore \in Nat /\ CloseAfter \in Nat
    /\ Base \in Nat \ {0} /\ Extension \in Nat \ {0}
    /\ DecisionWindow \in Nat
    /\ SoonBefore \in Nat /\ ImminentBefore \in 1..SoonBefore
    /\ NoShowGrace \in Nat
    /\ MaxLag \in Nat /\ MaxTime \in Nat

-----------------------------------------------------------------------------
\* The participants of the room, in its roles A and B.
Users == {UserA, UserB}

Time == 0..MaxTime
Never == -1

SessionStatus == {"CREATED", "WAITING", "READY", "IN_PROGRESS",
                  "COMPLETED", "CANCELLED"}
Upcoming == {"CREATED", "WAITING", "READY"}
IsEnded == {"COMPLETED", "CANCELLED"}

\* USER_REQUEST stands for the four reasons a participant may give.
TerminationReason == {"TIME_EXPIRED", "NORMAL_COMPLETION", "USER_REQUEST",
                      "RECONNECT_TIMEOUT"}
Completing == {"TIME_EXPIRED", "NORMAL_COMPLETION"}

ConnectionStatus == {"CONNECTED", "RECONNECTING", "DISCONNECTED"}
Notice == {"soon", "imminent", "expired"}
Decision == {"AGREE", "DECLINE"}
DecisionStatus == {"NONE", "PENDING", "DECLINED", "AGREED"}

VARIABLES
    clock,
    cancelled,      \* the match has been cancelled
    status, startedAt, endedAt, reason, endedBy,
    extended,       \* extensionDurationSec is not 0
    announced,      \* the *_notified_at columns that are not null
    joined, ready,  \* participants with joinedAt; with status READY
    connection,     \* connection_status
    choice,         \* the answers of the decision row
    agreement,      \* its status, "NONE" when there is no row
    penalised,      \* participants with a no-show penalty and its sanction
    call,           \* a participant's request waiting for the session row
    recovering      \* participants the monitor's transaction has selected

roomVars    == <<status, startedAt, endedAt, reason, endedBy>>
timerVars   == <<extended, announced>>
consentVars == <<choice, agreement>>
vars == <<clock, cancelled, roomVars, timerVars, joined, ready, connection,
          consentVars, penalised, call, recovering>>

NoCall == [op |-> "none", ready |-> {}, cancelled |-> FALSE]
Call == [op : {"none", "join", "ready", "unready"},
         ready : SUBSET Users, cancelled : BOOLEAN]

TypeOK ==
    /\ clock \in Time
    /\ cancelled \in BOOLEAN
    /\ status \in SessionStatus
    /\ startedAt \in Time \cup {Never} /\ endedAt \in Time \cup {Never}
    /\ reason \in TerminationReason \cup {"NONE"}
    /\ endedBy \in Users \cup {NoUser}
    /\ extended \in BOOLEAN
    /\ announced \subseteq Notice
    /\ joined \subseteq Users /\ ready \subseteq Users
    /\ connection \in [Users -> ConnectionStatus]
    /\ choice \in [Users -> Decision \cup {"NONE"}]
    /\ agreement \in DecisionStatus
    /\ penalised \subseteq Users
    /\ call \in [Users -> Call]
    /\ recovering \subseteq Users

\* The room as the second acceptance of its match provisions it.
Init ==
    /\ clock = 0 /\ cancelled = FALSE
    /\ status = "CREATED"
    /\ startedAt = Never /\ endedAt = Never
    /\ reason = "NONE" /\ endedBy = NoUser
    /\ extended = FALSE /\ announced = {}
    /\ joined = {} /\ ready = {}
    /\ connection = [u \in Users |-> "DISCONNECTED"]
    /\ choice = [u \in Users |-> "NONE"] /\ agreement = "NONE"
    /\ penalised = {}
    /\ call = [u \in Users |-> NoCall]
    /\ recovering = {}

-----------------------------------------------------------------------------
(* The environment: time, the match, the other requests of a participant.  *)

Tick ==
    /\ clock < MaxTime
    /\ clock' = clock + 1
    /\ UNCHANGED <<cancelled, roomVars, timerVars, joined, ready, connection,
                   consentVars, penalised, call, recovering>>

\* A time of day read up to MaxLag ticks before the lock was obtained.
CallTimes == {t \in Time : clock - MaxLag <= t /\ t <= clock}

CancelMatch ==
    /\ ~cancelled /\ clock < ScheduledStart
    /\ cancelled' = TRUE
    /\ UNCHANGED <<clock, roomVars, timerVars, joined, ready, connection,
                   consentVars, penalised, call, recovering>>

\* A participant sends a request; its first statement finds no sanction.  What
\* else the transaction would read from before its wait is remembered.
SendCall(u, op) ==
    /\ call[u] = NoCall
    /\ u \notin penalised
    /\ call' = [call EXCEPT ![u] =
                  [op |-> op,
                   ready |-> IF StaleReads THEN ready ELSE {},
                   cancelled |-> StaleReads /\ cancelled]]
    /\ UNCHANGED <<clock, cancelled, roomVars, timerVars, joined, ready,
                   connection, consentVars, penalised, recovering>>

Answered(u) == call' = [call EXCEPT ![u] = NoCall]

\* The request is refused, rolled back, or its process dies.
CallFails(u) ==
    /\ call[u] # NoCall
    /\ Answered(u)
    /\ UNCHANGED <<clock, cancelled, roomVars, timerVars, joined, ready,
                   connection, consentVars, penalised, recovering>>

-----------------------------------------------------------------------------
(* Entering the room and getting ready.                                    *)

EntryOpen == /\ ScheduledStart - OpenBefore <= clock
             /\ clock <= ScheduledStart + CloseAfter

Join(u) ==
    /\ call[u].op = "join" /\ u \notin recovering
    /\ status \notin IsEnded
    /\ \/ u \in joined /\ status = "IN_PROGRESS"
       \/ EntryOpen
    /\ joined' = joined \cup {u}
    /\ status' = IF status = "CREATED" THEN "WAITING" ELSE status
    /\ Answered(u)
    /\ UNCHANGED <<clock, cancelled, startedAt, endedAt, reason, endedBy,
                   timerVars, ready, connection, consentVars, penalised,
                   recovering>>

SeenCancelled(u) == IF StaleReads THEN call[u].cancelled ELSE cancelled

\* Whom the transaction of u finds ready among the others.
SeenReady(u) == (IF StaleReads THEN call[u].ready ELSE ready) \ {u}

\* Mutant of Changeable: readiness may change during the conversation.
MutantChangeable(u) == ~SeenCancelled(u) /\ status \notin IsEnded

Changeable(u) == ~SeenCancelled(u) /\ status \in Upcoming

MarkReady(u) ==
    /\ call[u].op = "ready"
    /\ Changeable(u)
    /\ ready' = ready \cup {u}
    /\ status' = IF SeenReady(u) \cup {u} = Users THEN "READY"
                 ELSE IF status = "READY" THEN "WAITING" ELSE status
    /\ Answered(u)
    /\ UNCHANGED <<clock, cancelled, startedAt, endedAt, reason, endedBy,
                   timerVars, joined, connection, consentVars, penalised,
                   recovering>>

\* Mutants of Reopened: the room stays READY, or falls back to the status
\* SCHEDULED that nothing sets.
MutantReopened == status

MutantReopenedScheduled == IF status = "READY" THEN "SCHEDULED" ELSE status

Reopened == IF status = "READY" THEN "WAITING" ELSE status

CancelReady(u) ==
    /\ call[u].op = "unready"
    /\ Changeable(u)
    /\ ready' = ready \ {u}
    /\ status' = Reopened
    /\ Answered(u)
    /\ UNCHANGED <<clock, cancelled, startedAt, endedAt, reason, endedBy,
                   timerVars, joined, connection, consentVars, penalised,
                   recovering>>

Startable ==
    /\ status = "READY"
    /\ ScheduledStart <= clock /\ clock <= ScheduledStart + CloseAfter
    /\ joined = Users /\ ready = Users
    /\ \A u \in Users : connection[u] = "CONNECTED"

Start ==
    /\ Startable
    /\ status' = "IN_PROGRESS"
    /\ startedAt' = clock
    /\ UNCHANGED <<clock, cancelled, endedAt, reason, endedBy, timerVars,
                   joined, ready, connection, consentVars, penalised, call,
                   recovering>>

-----------------------------------------------------------------------------
(* The connection of a participant, in outline.                            *)

SetConnection(u, s) ==
    /\ u \notin recovering
    /\ connection' = [connection EXCEPT ![u] = s]
    /\ UNCHANGED <<clock, cancelled, roomVars, timerVars, joined, ready,
                   consentVars, penalised, call, recovering>>

\* LiveKit admits those who hold the token that join returns.
RecordConnected(u) == u \in joined /\ SetConnection(u, "CONNECTED")

\* The webhook asks whether the session is in progress without locking it, so its
\* transaction may commit after a start that still saw the participant connected.
RecordDisconnected(u) ==
    /\ connection[u] # "DISCONNECTED"
    /\ SetConnection(u, "DISCONNECTED")

StartReconnecting(u) ==
    /\ connection[u] = "CONNECTED"
    /\ SetConnection(u, "RECONNECTING")

RecordReconnected(u) ==
    /\ connection[u] = "RECONNECTING"
    /\ SetConnection(u, "CONNECTED")

-----------------------------------------------------------------------------
(* The ways a conversation ends.                                           *)

Close(r, by, now) ==
    /\ status' = IF r \in Completing THEN "COMPLETED" ELSE "CANCELLED"
    /\ endedAt' = now /\ reason' = r /\ endedBy' = by
    /\ UNCHANGED startedAt

EndByUser(u, r) ==
    /\ status = "IN_PROGRESS"
    /\ \E now \in CallTimes : Close(r, u, now)
    /\ UNCHANGED <<clock, cancelled, timerVars, joined, ready, connection,
                   consentVars, penalised, call, recovering>>

BaseEnd == startedAt + Base

\* Mutant of EndsAt: the timer does not ask whether both agreed.
MutantEndsAt == BaseEnd

EndsAt == IF agreement = "AGREED" THEN BaseEnd + Extension ELSE BaseEnd

TimerExpires ==
    /\ status = "IN_PROGRESS" /\ "expired" \notin announced
    /\ \E now \in CallTimes :
         /\ EndsAt <= now
         /\ Close("TIME_EXPIRED", NoUser, now)
    /\ announced' = Notice
    /\ UNCHANGED <<clock, cancelled, extended, joined, ready, connection,
                   consentVars, penalised, call, recovering>>

\* Mutant of Due: the last warning claims the expiry as well.
MutantDue(now) == IF EndsAt - ImminentBefore <= now THEN Notice
                  ELSE IF EndsAt - SoonBefore <= now THEN {"soon"} ELSE {}

\* The warnings that are due; the more urgent one covers the other.
Due(now) == IF EndsAt - ImminentBefore <= now THEN {"soon", "imminent"}
            ELSE IF EndsAt - SoonBefore <= now THEN {"soon"} ELSE {}

TimerWarns ==
    /\ status = "IN_PROGRESS" /\ "expired" \notin announced
    /\ \E now \in CallTimes :
         /\ now < EndsAt
         /\ announced' = announced \cup Due(now)
    /\ UNCHANGED <<clock, cancelled, roomVars, extended, joined, ready,
                   connection, consentVars, penalised, call, recovering>>

\* The monitor reads and locks a participant whose grace period is over.
SelectExpired(u) ==
    /\ status = "IN_PROGRESS"
    /\ connection[u] = "RECONNECTING" /\ u \notin recovering
    /\ recovering' = recovering \cup {u}
    /\ UNCHANGED <<clock, cancelled, roomVars, timerVars, joined, ready,
                   connection, consentVars, penalised, call>>

\* Mutant of StillInProgress: what the monitor's query selected is trusted.
MutantStillInProgress == TRUE

StillInProgress == StaleReads \/ status = "IN_PROGRESS"

\* Its commit, once it has the session row too.
FailRecovery(u) ==
    /\ u \in recovering
    /\ recovering' = recovering \ {u}
    /\ connection' = [connection EXCEPT ![u] = "DISCONNECTED"]
    /\ IF StillInProgress
       THEN \E now \in CallTimes : Close("RECONNECT_TIMEOUT", NoUser, now)
       ELSE UNCHANGED roomVars
    /\ UNCHANGED <<clock, cancelled, timerVars, joined, ready, consentVars,
                   penalised, call>>

\* join locks the session and then the participant, the monitor the other way
\* round; the database aborts one of the two (CallFails is the other choice).
AbortRecovery(u) ==
    /\ u \in recovering /\ call[u] # NoCall
    /\ recovering' = recovering \ {u}
    /\ UNCHANGED <<clock, cancelled, roomVars, timerVars, joined, ready,
                   connection, consentVars, penalised, call>>

-----------------------------------------------------------------------------
(* The decision to go on for the extension.                                *)

DecisionOpen(now) == BaseEnd - DecisionWindow <= now /\ now < BaseEnd

\* The status of the decision row once another participant has answered d.
StatusAfter(d) ==
    IF d = "DECLINE" \/ agreement = "DECLINED" THEN "DECLINED"
    ELSE IF agreement = "NONE" THEN "PENDING" ELSE "AGREED"

\* Agreement lengthens the session once and lets its end be announced anew.
GrantExtension(agreed) ==
    IF agreed /\ ~extended
    THEN extended' = TRUE /\ announced' = {}
    ELSE UNCHANGED timerVars

Decide(u, d) ==
    /\ status = "IN_PROGRESS"
    /\ \E now \in CallTimes : DecisionOpen(now)
    /\ choice[u] = "NONE"
    /\ choice' = [choice EXCEPT ![u] = d]
    /\ agreement' = StatusAfter(d)
    /\ GrantExtension(agreement' = "AGREED")
    /\ UNCHANGED <<clock, cancelled, roomVars, joined, ready, connection,
                   penalised, call, recovering>>

-----------------------------------------------------------------------------
(* No-show penalties, each with a sanction that outlasts the session.      *)

Penalise(absent) ==
    /\ absent # {}
    /\ penalised' = penalised \cup absent
    /\ UNCHANGED <<clock, cancelled, roomVars, timerVars, joined, ready,
                   connection, consentVars, call, recovering>>

GraceElapsed == ScheduledStart + NoShowGrace <= clock

RecordNoShow(u) ==
    /\ u \in joined
    /\ GraceElapsed
    /\ Penalise((Users \ {u}) \ (joined \cup penalised))

\* Mutant of RecordAutomatically: it does not matter whether anyone came.
MutantRecordAutomatically ==
    /\ status \in Upcoming
    /\ GraceElapsed
    /\ Penalise(Users \ (joined \cup penalised))

RecordAutomatically ==
    /\ status \in Upcoming
    /\ GraceElapsed
    /\ joined # {}
    /\ Penalise(Users \ (joined \cup penalised))

-----------------------------------------------------------------------------
ParticipantNext(u) ==
    \/ \E op \in {"join", "ready", "unready"} : SendCall(u, op)
    \/ CallFails(u)
    \/ Join(u)
    \/ MarkReady(u)
    \/ CancelReady(u)
    \/ RecordConnected(u)
    \/ RecordDisconnected(u)
    \/ StartReconnecting(u)
    \/ RecordReconnected(u)
    \/ \E r \in {"NORMAL_COMPLETION", "USER_REQUEST"} : EndByUser(u, r)
    \/ \E d \in Decision : Decide(u, d)
    \/ RecordNoShow(u)

SchedulerNext ==
    \/ TimerExpires
    \/ TimerWarns
    \/ \E u \in Users : SelectExpired(u) \/ FailRecovery(u) \/ AbortRecovery(u)
    \/ RecordAutomatically

Next ==
    \/ Tick
    \/ CancelMatch
    \/ Start
    \/ \E u \in Users : ParticipantNext(u)
    \/ SchedulerNext

Spec == Init /\ [][Next]_vars

\* Time passes, and Spring calls the session timer at a fixed delay.
FairSpec == Spec /\ WF_vars(Tick) /\ WF_vars(TimerExpires)

-----------------------------------------------------------------------------
(* What must hold.                                                         *)

\* Until the conversation starts, the room is READY exactly when both
\* participants are: markReady and cancelReady each decide the room's status
\* from the readiness of both, and start relies on it.
RoomReadyIffBothReady ==
    status \in Upcoming => (status = "READY" <=> ready = Users)

\* Whoever started the conversation, both participants were in the room and
\* ready, within the entry window, and neither stops being so afterwards.
StartsOnlyTogether ==
    startedAt # Never =>
        /\ joined = Users /\ ready = Users
        /\ ScheduledStart <= startedAt
        /\ startedAt <= ScheduledStart + CloseAfter

\* The extension is granted exactly when both participants agreed, and the timer
\* ends no conversation before the end they decided on, whatever the order in
\* which the last consent and the timer obtain the session row.
AgreementDecidesLength ==
    /\ extended <=> agreement = "AGREED"
    /\ agreement = "AGREED" <=> \A u \in Users : choice[u] = "AGREE"
    /\ reason = "TIME_EXPIRED" =>
          startedAt + Base + (IF extended THEN Extension ELSE 0) <= endedAt

\* A no-show penalty has a witness who came, and is never given to both: not by
\* a participant's report, not by the scheduler, not when the absent one enters
\* while the penalty is being recorded.
PenaltyHasWitness ==
    \A u \in penalised : \E w \in joined \ {u} : w \notin penalised

\* The room keeps the promise of Conversation: it starts once, is lengthened at
\* most once, ends once, and the end that the first of timer, participants and
\* monitor recorded is never overwritten by another.
Promise == INSTANCE Conversation WITH
    Results <- [status : IsEnded, at : Time, reason : TerminationReason,
                by : Users \cup {NoUser}],
    NoResult <- [status |-> "NONE", at |-> Never, reason |-> "NONE",
                 by |-> NoUser],
    phase <- IF startedAt = Never THEN "scheduled"
             ELSE IF endedAt = Never THEN "talking" ELSE "over",
    extended <- extended,
    result <- IF endedAt = Never
              THEN [status |-> "NONE", at |-> Never, reason |-> "NONE",
                    by |-> NoUser]
              ELSE [status |-> status, at |-> endedAt, reason |-> reason,
                    by |-> endedBy]

ImplementsConversation == Promise!Spec

\* A conversation that started ends, though no participant does anything: the
\* timer must neither miss the end nor be held up by what happens before it.
StartedSessionEnds ==
    (startedAt # Never) ~> (status \in IsEnded)

\* Once the match is cancelled its room neither starts a conversation nor costs
\* anybody a no-show penalty (the room is shown as CANCELLED, and cannot be
\* entered, from then on).
CancelledMatchIsInert ==
    [][cancelled => /\ startedAt' = startedAt
                    /\ penalised' = penalised]_vars
=============================================================================
