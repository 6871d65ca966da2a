--------------------------- MODULE SessionProofs ----------------------------
(***************************************************************************)
(* Proofs about the room and its conversation, for every schedule, entry   *)
(* window, duration and lag.                                               *)
(***************************************************************************)
EXTENDS Session, TLAPS

-----------------------------------------------------------------------------
(* Type correctness.                                                       *)

LEMMA CallTimesType == CallTimes \subseteq Time
BY DEF CallTimes

LEMMA CloseType ==
    ASSUME NEW r \in TerminationReason, NEW by \in Users \cup {NoUser},
           NEW now \in Time, Close(r, by, now), TypeOK
    PROVE  /\ status' \in IsEnded
           /\ startedAt' \in Time \cup {Never} /\ endedAt' \in Time
           /\ reason' \in TerminationReason \cup {"NONE"}
           /\ endedBy' \in Users \cup {NoUser}
BY DEF Close, TypeOK, IsEnded

LEMMA InitType == Init => TypeOK
<1> SUFFICES ASSUME Init PROVE TypeOK
  OBVIOUS
<1>1. clock \in Time
  BY SessionAssumption DEF Init, Time
<1>2. call \in [Users -> Call]
  BY DEF Init, NoCall, Call
<1>3. connection \in [Users -> ConnectionStatus]
  BY DEF Init, ConnectionStatus
<1>4. choice \in [Users -> Decision \cup {"NONE"}]
  BY DEF Init
<1> QED BY <1>1, <1>2, <1>3, <1>4 DEF Init, TypeOK, SessionStatus, DecisionStatus

LEMMA NextType == TypeOK /\ [Next]_vars => TypeOK'
<1> SUFFICES ASSUME TypeOK, [Next]_vars PROVE TypeOK'
  OBVIOUS
<1> USE DEF roomVars, timerVars, consentVars
<1>1. CASE Tick
  BY <1>1, SessionAssumption DEF Tick, TypeOK, Time
<1>2. CASE CancelMatch
  BY <1>2 DEF CancelMatch, TypeOK
<1>3. CASE Start
  BY <1>3 DEF Start, TypeOK, SessionStatus
<1>4. ASSUME NEW u \in Users, NEW op \in {"join", "ready", "unready"},
             SendCall(u, op)
      PROVE  TypeOK'
  <2>1. [op |-> op, ready |-> IF StaleReads THEN ready ELSE {},
         cancelled |-> StaleReads /\ cancelled] \in Call
    BY SessionAssumption DEF TypeOK, Call
  <2> QED BY <1>4, <2>1 DEF SendCall, TypeOK
<1>5. NoCall \in Call
  BY DEF NoCall, Call
<1>6. ASSUME NEW u \in Users, CallFails(u)
      PROVE  TypeOK'
  BY <1>5, <1>6 DEF CallFails, Answered, TypeOK
<1>7. ASSUME NEW u \in Users, Join(u)
      PROVE  TypeOK'
  BY <1>5, <1>7 DEF Join, Answered, TypeOK, SessionStatus
<1>8. ASSUME NEW u \in Users, MarkReady(u)
      PROVE  TypeOK'
  BY <1>5, <1>8 DEF MarkReady, Answered, TypeOK, SessionStatus
<1>9. ASSUME NEW u \in Users, CancelReady(u)
      PROVE  TypeOK'
  BY <1>5, <1>9 DEF CancelReady, Reopened, Answered, TypeOK, SessionStatus
<1>10. ASSUME NEW u \in Users, NEW s \in ConnectionStatus, SetConnection(u, s)
       PROVE  TypeOK'
  BY <1>10 DEF SetConnection, TypeOK
<1>11. ASSUME NEW u \in Users, NEW r \in {"NORMAL_COMPLETION", "USER_REQUEST"},
              EndByUser(u, r)
       PROVE  TypeOK'
  <2>1. PICK now \in Time : Close(r, u, now)
    BY <1>11, CallTimesType DEF EndByUser
  <2>2. r \in TerminationReason
    BY DEF TerminationReason
  <2>3. /\ status' \in IsEnded
        /\ startedAt' \in Time \cup {Never} /\ endedAt' \in Time
        /\ reason' \in TerminationReason \cup {"NONE"}
        /\ endedBy' \in Users \cup {NoUser}
    BY <2>1, <2>2, CloseType
  <2> QED BY <1>11, <2>3 DEF EndByUser, TypeOK, IsEnded, SessionStatus
<1>12. CASE TimerExpires
  <2>1. PICK now \in Time : Close("TIME_EXPIRED", NoUser, now)
    BY <1>12, CallTimesType DEF TimerExpires
  <2>2. /\ status' \in IsEnded
        /\ startedAt' \in Time \cup {Never} /\ endedAt' \in Time
        /\ reason' \in TerminationReason \cup {"NONE"}
        /\ endedBy' \in Users \cup {NoUser}
    BY <2>1, CloseType DEF TerminationReason
  <2> QED BY <1>12, <2>2 DEF TimerExpires, TypeOK, IsEnded, SessionStatus, Notice
<1>13. CASE TimerWarns
  BY <1>13 DEF TimerWarns, Due, Notice, TypeOK
<1>14. ASSUME NEW u \in Users, SelectExpired(u)
       PROVE  TypeOK'
  BY <1>14 DEF SelectExpired, TypeOK
<1>15. ASSUME NEW u \in Users, FailRecovery(u)
       PROVE  TypeOK'
  <2>1. connection' \in [Users -> ConnectionStatus] /\ recovering' \subseteq Users
    BY <1>15 DEF FailRecovery, TypeOK, ConnectionStatus
  <2>2. CASE StillInProgress
    <3>1. PICK now \in Time : Close("RECONNECT_TIMEOUT", NoUser, now)
      BY <1>15, <2>2, CallTimesType DEF FailRecovery
    <3>2. /\ status' \in IsEnded
          /\ startedAt' \in Time \cup {Never} /\ endedAt' \in Time
          /\ reason' \in TerminationReason \cup {"NONE"}
          /\ endedBy' \in Users \cup {NoUser}
      BY <3>1, CloseType DEF TerminationReason
    <3> QED BY <1>15, <2>1, <3>2 DEF FailRecovery, TypeOK, IsEnded, SessionStatus
  <2>3. CASE ~StillInProgress
    BY <1>15, <2>1, <2>3 DEF FailRecovery, TypeOK
  <2> QED BY <2>2, <2>3
<1>16. ASSUME NEW u \in Users, AbortRecovery(u)
       PROVE  TypeOK'
  BY <1>16 DEF AbortRecovery, TypeOK
<1>17. ASSUME NEW u \in Users, NEW d \in Decision, Decide(u, d)
       PROVE  TypeOK'
  <2>1. agreement' \in DecisionStatus
    BY <1>17 DEF Decide, StatusAfter, DecisionStatus
  <2>2. extended' \in BOOLEAN /\ announced' \subseteq Notice
    BY <1>17 DEF Decide, GrantExtension, TypeOK
  <2> QED BY <1>17, <2>1, <2>2 DEF Decide, TypeOK
<1>18. ASSUME NEW absent \in SUBSET Users, Penalise(absent)
       PROVE  TypeOK'
  BY <1>18 DEF Penalise, TypeOK
<1>19. ASSUME NEW u \in Users, ParticipantNext(u)
       PROVE  TypeOK'
  BY <1>19, <1>4, <1>6, <1>7, <1>8, <1>9, <1>10, <1>11, <1>17, <1>18
  DEF ParticipantNext, RecordConnected, RecordDisconnected, StartReconnecting,
      RecordReconnected, RecordNoShow, ConnectionStatus
<1>20. CASE SchedulerNext
  BY <1>20, <1>12, <1>13, <1>14, <1>15, <1>16, <1>18
  DEF SchedulerNext, RecordAutomatically
<1>21. CASE UNCHANGED vars
  BY <1>21 DEF vars, TypeOK
<1> QED BY <1>1, <1>2, <1>3, <1>19, <1>20, <1>21 DEF Next

\* Every reachable state of the room has its types, whatever a stale read returns.
THEOREM TypeCorrect == Spec => []TypeOK
<1>1. Init => TypeOK
  BY InitType
<1>2. TypeOK /\ [Next]_vars => TypeOK'
  BY NextType
<1> QED BY <1>1, <1>2, PTL DEF Spec

-----------------------------------------------------------------------------
(* The course of a room: its status, its times and the reason of its end   *)
(* tell the same story.  Every later proof rests on it.                    *)

Phases ==
    /\ status \in Upcoming <=> startedAt = Never
    /\ status \in IsEnded <=> endedAt # Never
    /\ reason = "NONE" <=> endedAt = Never
    /\ recovering # {} => startedAt # Never

LEMMA NeverIsNoTime == Never \notin Time
BY DEF Never, Time

\* The room is closed only once the conversation has started.
LEMMA ClosePhases ==
    ASSUME NEW r \in TerminationReason, NEW by, NEW now \in Time,
           Close(r, by, now), TypeOK, Phases, startedAt # Never,
           recovering' \subseteq Users
    PROVE  Phases'
BY NeverIsNoTime
DEF Close, Phases, TypeOK, IsEnded, Upcoming, TerminationReason, SessionStatus

LEMMA InitPhases == Init => Phases
BY DEF Init, Phases, Upcoming, IsEnded

LEMMA NextPhases == TypeOK /\ Phases /\ [Next]_vars => Phases'
<1> SUFFICES ASSUME TypeOK, Phases, [Next]_vars PROVE Phases'
  OBVIOUS
<1>0. TypeOK'
  BY NextType
<1>1. CASE UNCHANGED roomVars /\ recovering' \subseteq recovering
  BY <1>1 DEF Phases, roomVars
<1>2. CASE Tick \/ CancelMatch \/ TimerWarns \/ UNCHANGED vars
  BY <1>1, <1>2 DEF Tick, CancelMatch, TimerWarns, vars
<1>3. CASE Start
  BY <1>3, NeverIsNoTime
  DEF Start, Startable, Phases, TypeOK, Upcoming, IsEnded
<1>4. ASSUME NEW u \in Users, Join(u) \/ MarkReady(u) \/ CancelReady(u)
      PROVE  Phases'
  <2>1. UNCHANGED <<startedAt, endedAt, reason, recovering>>
    BY <1>4 DEF Join, MarkReady, CancelReady
  <2>2. /\ status' \in Upcoming <=> status \in Upcoming
        /\ status' \in IsEnded <=> status \in IsEnded
    BY <1>4
    DEF Join, MarkReady, CancelReady, Changeable, Reopened, Upcoming, IsEnded
  <2> QED BY <2>1, <2>2 DEF Phases
<1>5. ASSUME NEW u \in Users, NEW r \in {"NORMAL_COMPLETION", "USER_REQUEST"},
             EndByUser(u, r)
      PROVE  Phases'
  <2>1. PICK now \in Time : Close(r, u, now)
    BY <1>5, CallTimesType DEF EndByUser
  <2>2. startedAt # Never /\ recovering' \subseteq Users
    BY <1>5 DEF EndByUser, Phases, Upcoming, TypeOK
  <2> QED BY <2>1, <2>2, ClosePhases DEF TerminationReason
<1>6. CASE TimerExpires
  <2>1. PICK now \in Time : Close("TIME_EXPIRED", NoUser, now)
    BY <1>6, CallTimesType DEF TimerExpires
  <2>2. startedAt # Never /\ recovering' \subseteq Users
    BY <1>6 DEF TimerExpires, Phases, Upcoming, TypeOK
  <2> QED BY <2>1, <2>2, ClosePhases DEF TerminationReason
<1>7. ASSUME NEW u \in Users, SelectExpired(u)
      PROVE  Phases'
  BY <1>7 DEF SelectExpired, Phases, roomVars, Upcoming
<1>8. ASSUME NEW u \in Users, FailRecovery(u)
      PROVE  Phases'
  <2>1. startedAt # Never /\ recovering' \subseteq recovering
    BY <1>8 DEF FailRecovery, Phases
  <2>2. CASE StillInProgress
    <3>1. PICK now \in Time : Close("RECONNECT_TIMEOUT", NoUser, now)
      BY <1>8, <2>2, CallTimesType DEF FailRecovery
    <3> QED BY <2>1, <3>1, ClosePhases DEF TerminationReason, TypeOK
  <2>3. CASE ~StillInProgress
    BY <1>8, <1>1, <2>1, <2>3 DEF FailRecovery
  <2> QED BY <2>2, <2>3
<1>9. ASSUME NEW u \in Users, AbortRecovery(u)
      PROVE  Phases'
  BY <1>9, <1>1 DEF AbortRecovery
<1>10. ASSUME NEW u \in Users, ParticipantNext(u)
       PROVE  Phases'
  BY <1>10, <1>1, <1>4, <1>5
  DEF ParticipantNext, SendCall, CallFails, RecordConnected, RecordDisconnected,
      StartReconnecting, RecordReconnected, SetConnection, Decide,
      RecordNoShow, Penalise
<1>11. CASE SchedulerNext
  BY <1>11, <1>1, <1>2, <1>6, <1>7, <1>8, <1>9
  DEF SchedulerNext, RecordAutomatically, Penalise
<1> QED BY <1>2, <1>3, <1>10, <1>11 DEF Next

LEMMA Course == Spec => [](TypeOK /\ Phases)
<1>1. Init => TypeOK /\ Phases
  BY InitType, InitPhases
<1>2. (TypeOK /\ Phases) /\ [Next]_vars => (TypeOK /\ Phases)'
  BY NextType, NextPhases
<1> QED BY <1>1, <1>2, PTL DEF Spec

-----------------------------------------------------------------------------
(* Readiness.  The room's status and the readiness of both change together *)
(* only in three actions.                                                  *)

LEMMA ReadinessUntouched ==
    ASSUME UNCHANGED <<status, ready>>, RoomReadyIffBothReady
    PROVE  RoomReadyIffBothReady'
BY DEF RoomReadyIffBothReady

\* A conversation never comes back to a status in which readiness counts.
LEMMA LeavesUpcoming ==
    ASSUME status' \notin Upcoming
    PROVE  RoomReadyIffBothReady'
BY DEF RoomReadyIffBothReady

LEMMA NextReadiness ==
    ASSUME StaleReads = FALSE, TypeOK, RoomReadyIffBothReady, [Next]_vars
    PROVE  RoomReadyIffBothReady'
<1>1. CASE UNCHANGED <<status, ready>>
  BY <1>1, ReadinessUntouched
<1>2. CASE status' \notin Upcoming
  BY <1>2, LeavesUpcoming
<1>3. ASSUME NEW u \in Users, Join(u)
      PROVE  RoomReadyIffBothReady'
  BY <1>3 DEF Join, RoomReadyIffBothReady, Upcoming
<1>4. ASSUME NEW u \in Users, MarkReady(u)
      PROVE  RoomReadyIffBothReady'
  <2>1. SeenReady(u) \cup {u} = ready'
    BY <1>4 DEF MarkReady, SeenReady
  <2> QED BY <1>4, <2>1 DEF MarkReady, RoomReadyIffBothReady, Changeable, Upcoming
<1>5. ASSUME NEW u \in Users, CancelReady(u)
      PROVE  RoomReadyIffBothReady'
  <2>1. ready' # Users /\ status' # "READY"
    BY <1>5 DEF CancelReady, Reopened
  <2> QED BY <2>1 DEF RoomReadyIffBothReady
<1>6. ASSUME NEW r, NEW by, NEW now, Close(r, by, now)
      PROVE  status' \notin Upcoming
  BY <1>6 DEF Close, Upcoming
<1>7. ASSUME NEW u \in Users, FailRecovery(u)
      PROVE  RoomReadyIffBothReady'
  <2>1. CASE StillInProgress
    BY <1>2, <1>6, <1>7, <2>1 DEF FailRecovery
  <2>2. CASE ~StillInProgress
    BY <1>1, <1>7, <2>2 DEF FailRecovery, roomVars
  <2> QED BY <2>1, <2>2
<1>8. ASSUME NEW u \in Users, ParticipantNext(u)
      PROVE  RoomReadyIffBothReady'
  BY <1>8, <1>1, <1>2, <1>3, <1>4, <1>5, <1>6
  DEF ParticipantNext, SendCall, CallFails, RecordConnected, RecordDisconnected,
      StartReconnecting, RecordReconnected, SetConnection, EndByUser, Decide,
      RecordNoShow, Penalise, roomVars
<1>9. CASE SchedulerNext
  BY <1>9, <1>1, <1>2, <1>6, <1>7
  DEF SchedulerNext, TimerExpires, TimerWarns, SelectExpired, AbortRecovery,
      RecordAutomatically, Penalise, roomVars
<1>10. CASE Tick \/ CancelMatch \/ UNCHANGED vars
  BY <1>10, <1>1 DEF Tick, CancelMatch, vars, roomVars
<1>11. CASE Start
  BY <1>11, <1>2 DEF Start, Upcoming
<1> QED BY <1>8, <1>9, <1>10, <1>11 DEF Next

\* When reads after the wait are current, two participants who get ready, or one
\* who gets ready while the other withdraws, always leave the room in the status
\* that matches them.
THEOREM RoomFollowsReadiness ==
    ASSUME StaleReads = FALSE
    PROVE  Spec => []RoomReadyIffBothReady
<1>1. Init => RoomReadyIffBothReady
  BY DEF Init, RoomReadyIffBothReady, Users
<1>2. TypeOK /\ RoomReadyIffBothReady /\ [Next]_vars => RoomReadyIffBothReady'
  BY NextReadiness
<1> QED BY <1>1, <1>2, TypeCorrect, PTL DEF Spec

-----------------------------------------------------------------------------
(* Starting together.                                                      *)

LEMMA NextTogether ==
    TypeOK /\ Phases /\ StartsOnlyTogether /\ [Next]_vars => StartsOnlyTogether'
<1> SUFFICES ASSUME TypeOK, Phases, StartsOnlyTogether, [Next]_vars
             PROVE  StartsOnlyTogether'
  OBVIOUS
<1>1. CASE UNCHANGED <<startedAt, joined, ready>>
  BY <1>1 DEF StartsOnlyTogether
<1>2. CASE Start
  BY <1>2 DEF Start, Startable, StartsOnlyTogether
<1>3. ASSUME NEW u \in Users, Join(u)
      PROVE  StartsOnlyTogether'
  BY <1>3 DEF Join, StartsOnlyTogether, TypeOK
<1>4. ASSUME NEW u \in Users, MarkReady(u) \/ CancelReady(u)
      PROVE  StartsOnlyTogether'
  <2>1. startedAt' = Never
    BY <1>4 DEF MarkReady, CancelReady, Changeable, Phases
  <2> QED BY <2>1 DEF StartsOnlyTogether
<1>5. ASSUME NEW u \in Users, FailRecovery(u)
      PROVE  StartsOnlyTogether'
  <2>1. UNCHANGED startedAt
    BY <1>5 DEF FailRecovery, Close, roomVars
  <2> QED BY <1>1, <1>5, <2>1 DEF FailRecovery
<1>6. ASSUME NEW u \in Users, ParticipantNext(u)
      PROVE  StartsOnlyTogether'
  BY <1>6, <1>1, <1>3, <1>4
  DEF ParticipantNext, SendCall, CallFails, RecordConnected, RecordDisconnected,
      StartReconnecting, RecordReconnected, SetConnection, EndByUser, Close,
      Decide, RecordNoShow, Penalise, roomVars
<1>7. CASE SchedulerNext
  BY <1>7, <1>1, <1>5
  DEF SchedulerNext, TimerExpires, Close, TimerWarns, SelectExpired,
      AbortRecovery, RecordAutomatically, Penalise, roomVars
<1>8. CASE Tick \/ CancelMatch \/ UNCHANGED vars
  BY <1>8, <1>1 DEF Tick, CancelMatch, vars, roomVars
<1> QED BY <1>2, <1>6, <1>7, <1>8 DEF Next

\* No conversation starts, or goes on, without both participants in the room and
\* ready, nor starts outside the entry window.
THEOREM ConversationsStartTogether == Spec => []StartsOnlyTogether
<1>1. Init => StartsOnlyTogether
  BY DEF Init, StartsOnlyTogether
<1>2. TypeOK /\ Phases /\ StartsOnlyTogether /\ [Next]_vars => StartsOnlyTogether'
  BY NextTogether
<1> QED BY <1>1, <1>2, Course, PTL DEF Spec

-----------------------------------------------------------------------------
(* The extension.  AgreementDecidesLength says nothing of a row with one   *)
(* answer; Answers does.                                                   *)

Answers ==
    /\ agreement = "NONE" => \A u \in Users : choice[u] = "NONE"
    /\ agreement = "PENDING" =>
          \E u \in Users : /\ choice[u] = "AGREE"
                          /\ \A v \in Users \ {u} : choice[v] = "NONE"
    /\ agreement = "DECLINED" => \E u \in Users : choice[u] = "DECLINE"
    /\ agreement = "AGREED" => \A u \in Users : choice[u] = "AGREE"

ConsentInv == Answers /\ AgreementDecidesLength

\* What one more answer makes of the row.
LEMMA DecideAnswers ==
    ASSUME TypeOK, Answers, NEW u \in Users, NEW d \in Decision, Decide(u, d)
    PROVE  Answers'
<1>1. choice' = [choice EXCEPT ![u] = d] /\ choice[u] = "NONE"
  BY DEF Decide
<1>2. choice'[u] = d /\ \A v \in Users \ {u} : choice'[v] = choice[v]
  BY <1>1 DEF TypeOK
<1>3. agreement' = StatusAfter(d)
  BY DEF Decide
<1>4. CASE d = "DECLINE"
  BY <1>2, <1>3, <1>4 DEF StatusAfter, Answers
<1>5. CASE d = "AGREE" /\ agreement = "NONE"
  <2>1. agreement' = "PENDING"
    BY <1>3, <1>5 DEF StatusAfter
  <2>2. choice'[u] = "AGREE" /\ \A v \in Users \ {u} : choice'[v] = "NONE"
    BY <1>2, <1>5 DEF Answers
  <2> QED BY <2>1, <2>2 DEF Answers
<1>6. CASE d = "AGREE" /\ agreement = "PENDING"
  <2>1. agreement' = "AGREED"
    BY <1>3, <1>6 DEF StatusAfter
  <2>2. PICK w \in Users : choice[w] = "AGREE"
    BY <1>6 DEF Answers
  <2>3. w # u
    BY <1>1, <2>2
  <2>4. \A v \in Users : v = u \/ v = w
    BY <2>3 DEF Users
  <2>5. \A v \in Users : choice'[v] = "AGREE"
    BY <1>2, <1>6, <2>2, <2>3, <2>4
  <2> QED BY <2>1, <2>5 DEF Answers
<1>7. CASE d = "AGREE" /\ agreement = "DECLINED"
  <2>1. PICK w \in Users : choice[w] = "DECLINE"
    BY <1>7 DEF Answers
  <2>2. choice'[w] = "DECLINE" /\ agreement' = "DECLINED"
    BY <1>1, <1>2, <1>3, <1>7, <2>1 DEF StatusAfter
  <2> QED BY <2>2 DEF Answers
<1>8. agreement # "AGREED"
  BY <1>1 DEF Answers
<1> QED BY <1>4, <1>5, <1>6, <1>7, <1>8 DEF TypeOK, Decision, DecisionStatus

LEMMA NextConsent ==
    TypeOK /\ Phases /\ ConsentInv /\ [Next]_vars => ConsentInv'
<1> SUFFICES ASSUME TypeOK, Phases, ConsentInv, [Next]_vars
             PROVE  ConsentInv'
  OBVIOUS
<1>1. CASE UNCHANGED <<extended, consentVars>> /\ reason' # "TIME_EXPIRED"
  BY <1>1 DEF ConsentInv, Answers, AgreementDecidesLength, consentVars
<1>2. CASE UNCHANGED <<extended, consentVars, startedAt, endedAt, reason>>
  BY <1>2 DEF ConsentInv, Answers, AgreementDecidesLength, consentVars
<1>3. CASE Start
  <2>1. reason' # "TIME_EXPIRED"
    BY <1>3 DEF Start, Startable, Phases, IsEnded
  <2> QED BY <1>1, <1>3, <2>1 DEF Start, timerVars
<1>4. CASE TimerExpires
  <2>1. PICK now \in Time : EndsAt <= now /\ Close("TIME_EXPIRED", NoUser, now)
    BY <1>4, CallTimesType DEF TimerExpires
  <2>2. startedAt' = startedAt /\ endedAt' = now
    BY <2>1 DEF Close
  <2>3. startedAt \in Int /\ Base \in Int /\ Extension \in Int
    BY SessionAssumption DEF TypeOK, Time, Never
  <2>4. startedAt + Base + (IF extended THEN Extension ELSE 0) <= now
    BY <2>1, <2>3 DEF EndsAt, BaseEnd, ConsentInv, AgreementDecidesLength
  <2>5. UNCHANGED <<extended, choice, agreement>>
    BY <1>4 DEF TimerExpires, consentVars
  <2> QED BY <2>2, <2>4, <2>5 DEF ConsentInv, Answers, AgreementDecidesLength
<1>5. ASSUME NEW u \in Users, NEW r \in {"NORMAL_COMPLETION", "USER_REQUEST"},
             EndByUser(u, r)
      PROVE  ConsentInv'
  BY <1>1, <1>5 DEF EndByUser, Close, timerVars
<1>6. ASSUME NEW u \in Users, FailRecovery(u)
      PROVE  ConsentInv'
  <2>1. CASE StillInProgress
    BY <1>1, <1>6, <2>1 DEF FailRecovery, Close, timerVars
  <2>2. CASE ~StillInProgress
    BY <1>2, <1>6, <2>2 DEF FailRecovery, roomVars, timerVars
  <2> QED BY <2>1, <2>2
<1>7. ASSUME NEW u \in Users, NEW d \in Decision, Decide(u, d)
      PROVE  ConsentInv'
  <2>1. Answers'
    BY <1>7, DecideAnswers DEF ConsentInv
  <2>2. choice[u] = "NONE" /\ reason' = "NONE"
    BY <1>7 DEF Decide, Phases, IsEnded, roomVars
  <2>3. ~extended
    BY <2>2 DEF ConsentInv, AgreementDecidesLength
  <2>4. extended' <=> agreement' = "AGREED"
    BY <1>7, <2>3 DEF Decide, GrantExtension, timerVars
  <2>5. agreement' \in DecisionStatus /\ choice' \in [Users -> Decision \cup {"NONE"}]
    BY NextType DEF TypeOK
  <2>6. agreement' = "AGREED" <=> \A v \in Users : choice'[v] = "AGREE"
    <3>1. agreement' = "AGREED" => \A v \in Users : choice'[v] = "AGREE"
      BY <2>1 DEF Answers
    <3>2. agreement' \in {"NONE", "PENDING"} =>
             \E v \in Users : choice'[v] = "NONE"
      BY <2>1, SessionAssumption DEF Answers, Users
    <3>3. agreement' = "DECLINED" => \E v \in Users : choice'[v] = "DECLINE"
      BY <2>1 DEF Answers
    <3>4. agreement' \in {"NONE", "PENDING", "DECLINED", "AGREED"}
      BY <2>5 DEF DecisionStatus
    <3> QED BY <3>1, <3>2, <3>3, <3>4
  <2> QED BY <2>1, <2>2, <2>4, <2>6 DEF ConsentInv, AgreementDecidesLength
<1>8. ASSUME NEW u \in Users, ParticipantNext(u)
      PROVE  ConsentInv'
  BY <1>8, <1>2, <1>5, <1>7
  DEF ParticipantNext, SendCall, CallFails, Join, MarkReady, CancelReady,
      RecordConnected, RecordDisconnected, StartReconnecting,
      RecordReconnected, SetConnection, RecordNoShow, Penalise, roomVars,
      timerVars
<1>9. CASE SchedulerNext
  BY <1>9, <1>2, <1>4, <1>6
  DEF SchedulerNext, TimerWarns, SelectExpired, AbortRecovery,
      RecordAutomatically, Penalise, roomVars, timerVars
<1>10. CASE Tick \/ CancelMatch \/ UNCHANGED vars
  BY <1>10, <1>2 DEF Tick, CancelMatch, vars, roomVars, timerVars
<1> QED BY <1>3, <1>8, <1>9, <1>10 DEF Next

\* The extension is granted exactly when both agreed, and the timer never ends a
\* conversation before the end that the two decided on.
THEOREM AgreementIsKept == Spec => []AgreementDecidesLength
<1>1. Init => ConsentInv
  BY DEF Init, ConsentInv, Answers, AgreementDecidesLength, Users
<1>2. TypeOK /\ Phases /\ ConsentInv /\ [Next]_vars => ConsentInv'
  BY NextConsent
<1>3. ConsentInv => AgreementDecidesLength
  BY DEF ConsentInv
<1> QED BY <1>1, <1>2, <1>3, Course, PTL DEF Spec

-----------------------------------------------------------------------------
(* No-show penalties: one for whom the other is a witness leaves nobody    *)
(* for the other to be missed by.                                          *)

LEMMA NextWitness ==
    TypeOK /\ PenaltyHasWitness /\ [Next]_vars => PenaltyHasWitness'
<1> SUFFICES ASSUME TypeOK, PenaltyHasWitness, [Next]_vars
             PROVE  PenaltyHasWitness'
  OBVIOUS
<1>1. CASE joined \subseteq joined' /\ UNCHANGED penalised
  BY <1>1 DEF PenaltyHasWitness
<1>2. ASSUME NEW absent \in SUBSET Users, Penalise(absent), joined # {},
             absent = Users \ (joined \cup penalised)
      PROVE  PenaltyHasWitness'
  <2>1. PICK v \in Users : v \notin joined /\ v \notin penalised
    BY <1>2 DEF Penalise
  <2>2. penalised = {}
    <3>1. SUFFICES ASSUME NEW p \in penalised PROVE FALSE
      OBVIOUS
    <3>2. PICK w \in joined \ {p} : w \notin penalised
      BY <3>1 DEF PenaltyHasWitness
    <3>3. p \in Users /\ w \in Users /\ p # w /\ p # v /\ w # v
      BY <2>1, <3>1, <3>2 DEF TypeOK
    <3> QED BY <3>3 DEF Users
  <2>3. penalised' = Users \ joined /\ joined' = joined
    BY <1>2, <2>2 DEF Penalise
  <2>4. PICK w \in joined : TRUE
    BY <1>2
  <2> QED BY <2>3, <2>4 DEF PenaltyHasWitness
<1>3. ASSUME NEW u \in Users, RecordNoShow(u)
      PROVE  PenaltyHasWitness'
  <2>1. u \in joined
    BY <1>3 DEF RecordNoShow
  <2>2. (Users \ {u}) \ (joined \cup penalised) = Users \ (joined \cup penalised)
    BY <2>1
  <2> QED BY <1>2, <1>3, <2>1, <2>2 DEF RecordNoShow
<1>4. CASE RecordAutomatically
  BY <1>2, <1>4 DEF RecordAutomatically
<1>5. ASSUME NEW u \in Users, ParticipantNext(u)
      PROVE  PenaltyHasWitness'
  BY <1>5, <1>1, <1>3
  DEF ParticipantNext, SendCall, CallFails, Join, MarkReady, CancelReady,
      RecordConnected, RecordDisconnected, StartReconnecting,
      RecordReconnected, SetConnection, EndByUser, Decide
<1>6. CASE SchedulerNext
  BY <1>6, <1>1, <1>4
  DEF SchedulerNext, TimerExpires, TimerWarns, SelectExpired, FailRecovery,
      AbortRecovery
<1>7. CASE Tick \/ CancelMatch \/ Start \/ UNCHANGED vars
  BY <1>7, <1>1 DEF Tick, CancelMatch, Start, vars
<1> QED BY <1>5, <1>6, <1>7 DEF Next

\* Nobody is penalised without somebody who came, and the two are never both
\* penalised, even when one enters the room after the penalty.
THEOREM PenaltiesHaveWitnesses == Spec => []PenaltyHasWitness
<1>1. Init => PenaltyHasWitness
  BY DEF Init, PenaltyHasWitness
<1>2. TypeOK /\ PenaltyHasWitness /\ [Next]_vars => PenaltyHasWitness'
  BY NextWitness
<1> QED BY <1>1, <1>2, TypeCorrect, PTL DEF Spec

-----------------------------------------------------------------------------
(* The room implements Conversation.                                       *)

Phase == IF startedAt = Never THEN "scheduled"
         ELSE IF endedAt = Never THEN "talking" ELSE "over"

Outcome == IF endedAt = Never
           THEN [status |-> "NONE", at |-> Never, reason |-> "NONE",
                 by |-> NoUser]
           ELSE [status |-> status, at |-> endedAt, reason |-> reason,
                 by |-> endedBy]

\* A step that leaves the times alone, and what is recorded of the end.
LEMMA PromiseUntouched ==
    ASSUME UNCHANGED <<startedAt, endedAt, reason, endedBy, extended>>,
           endedAt = Never \/ UNCHANGED status
    PROVE  UNCHANGED <<Phase, extended, Outcome>>
BY DEF Phase, Outcome

\* Every way to close a running conversation is a Finish.
LEMMA CloseFinishes ==
    ASSUME NEW r \in TerminationReason, NEW by \in Users \cup {NoUser},
           NEW now \in Time, Close(r, by, now), TypeOK, Phases,
           status = "IN_PROGRESS", UNCHANGED extended
    PROVE  Promise!Finish
<1>1. startedAt # Never /\ endedAt = Never
  BY DEF Phases, Upcoming, IsEnded
<1>2. endedAt' = now /\ endedAt' # Never /\ startedAt' = startedAt
  BY NeverIsNoTime DEF Close
<1>3. status' \in IsEnded /\ reason' = r /\ endedBy' = by
  BY DEF Close, IsEnded
<1> QED BY <1>1, <1>2, <1>3 DEF Promise!Finish

LEMMA NextRefines ==
    ASSUME StaleReads = FALSE, TypeOK, Phases, [Next]_vars
    PROVE  Promise!Next \/ UNCHANGED <<Phase, extended, Outcome>>
<1> DEFINE Goal == Promise!Next \/ UNCHANGED <<Phase, extended, Outcome>>
<1>1. CASE UNCHANGED <<roomVars, extended>>
  BY <1>1, PromiseUntouched DEF roomVars
<1>2. CASE Start
  <2>1. startedAt = Never /\ endedAt = Never
    BY <1>2 DEF Start, Startable, Phases, Upcoming, IsEnded
  <2>2. startedAt' # Never /\ endedAt' = Never
    BY <1>2, <2>1, NeverIsNoTime DEF Start, TypeOK
  <2> QED BY <1>2, <2>1, <2>2 DEF Promise!Next, Promise!Begin, Start, timerVars
<1>3. ASSUME NEW u \in Users, Join(u) \/ MarkReady(u) \/ CancelReady(u)
      PROVE  Goal
  <2>1. endedAt = Never
    BY <1>3
    DEF Join, MarkReady, CancelReady, Changeable, Phases, Upcoming, IsEnded
  <2>2. UNCHANGED <<startedAt, endedAt, reason, endedBy, extended>>
    BY <1>3 DEF Join, MarkReady, CancelReady, timerVars
  <2> QED BY <2>1, <2>2, PromiseUntouched
<1>4. ASSUME NEW u \in Users, NEW r \in {"NORMAL_COMPLETION", "USER_REQUEST"},
             EndByUser(u, r)
      PROVE  Goal
  <2>1. PICK now \in Time : Close(r, u, now)
    BY <1>4, CallTimesType DEF EndByUser
  <2>2. status = "IN_PROGRESS" /\ UNCHANGED extended /\ r \in TerminationReason
    BY <1>4 DEF EndByUser, timerVars, TerminationReason
  <2> QED BY <2>1, <2>2, CloseFinishes DEF Promise!Next
<1>5. CASE TimerExpires
  <2>1. PICK now \in Time : Close("TIME_EXPIRED", NoUser, now)
    BY <1>5, CallTimesType DEF TimerExpires
  <2>2. status = "IN_PROGRESS" /\ UNCHANGED extended
    BY <1>5 DEF TimerExpires
  <2> QED BY <2>1, <2>2, CloseFinishes DEF Promise!Next, TerminationReason
<1>6. ASSUME NEW u \in Users, FailRecovery(u)
      PROVE  Goal
  <2>1. CASE status = "IN_PROGRESS"
    <3>1. PICK now \in Time : Close("RECONNECT_TIMEOUT", NoUser, now)
      BY <1>6, <2>1, CallTimesType DEF FailRecovery, StillInProgress
    <3> QED BY <1>6, <2>1, <3>1, CloseFinishes
            DEF Promise!Next, TerminationReason, FailRecovery, timerVars
  <2>2. CASE status # "IN_PROGRESS"
    BY <1>1, <1>6, <2>2 DEF FailRecovery, StillInProgress, timerVars
  <2> QED BY <2>1, <2>2
<1>7. ASSUME NEW u \in Users, NEW d \in Decision, Decide(u, d)
      PROVE  Goal
  <2>1. startedAt # Never /\ endedAt = Never /\ UNCHANGED roomVars
    BY <1>7 DEF Decide, Phases, Upcoming, IsEnded
  <2>2. UNCHANGED <<Phase, Outcome>> /\ Phase = "talking"
    BY <2>1 DEF Phase, Outcome, roomVars
  <2>3. extended' = extended \/ (~extended /\ extended' = TRUE)
    BY <1>7 DEF Decide, GrantExtension, timerVars
  <2> QED BY <2>2, <2>3 DEF Phase, Outcome, Promise!Next, Promise!Lengthen
<1>8. ASSUME NEW u \in Users, ParticipantNext(u)
      PROVE  Goal
  BY <1>8, <1>1, <1>3, <1>4, <1>7
  DEF ParticipantNext, SendCall, CallFails, RecordConnected, RecordDisconnected,
      StartReconnecting, RecordReconnected, SetConnection, RecordNoShow,
      Penalise, timerVars
<1>9. CASE SchedulerNext
  BY <1>9, <1>1, <1>5, <1>6
  DEF SchedulerNext, TimerWarns, SelectExpired, AbortRecovery,
      RecordAutomatically, Penalise, timerVars
<1>10. CASE Tick \/ CancelMatch \/ UNCHANGED vars
  BY <1>10, <1>1 DEF Tick, CancelMatch, vars, timerVars
<1> QED BY <1>2, <1>8, <1>9, <1>10 DEF Next

\* When the monitor sees the current session row, the first recorded end of a
\* conversation is its only one, whichever of the timer, the participants and the
\* monitor come next.
THEOREM RoomKeepsPromise ==
    ASSUME StaleReads = FALSE
    PROVE  Spec => ImplementsConversation
<1>1. Init => Promise!Init
  BY DEF Init, Promise!Init
<1>2. TypeOK /\ Phases /\ [Next]_vars =>
         [Promise!Next]_<<Phase, extended, Outcome>>
  BY NextRefines
<1> QED BY <1>1, <1>2, Course, PTL
        DEF Spec, ImplementsConversation, Promise!Spec, Phase, Outcome
=============================================================================
