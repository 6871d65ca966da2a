------------------------ MODULE VisionPipelineProofs ------------------------
(***************************************************************************)
(* What holds of the pipeline for any configuration and any frames: the    *)
(* consumer of the events has the episodes that are open, the calibration  *)
(* ends in time, unavailable episodes do not overlap, and a behaviour is   *)
(* reported with the times at which it was really seen, against one        *)
(* baseline.                                                               *)
(***************************************************************************)
EXTENDS VisionPipeline, WellFoundedInduction, TLAPS

----------------------------------------------------------------------------
(* Episodes. *)

Fields == {"state", "since", "rule", "seen", "back", "last", "warmup", "cooldown",
           "start", "observedAt", "paused", "observed", "prolonged", "event"}

\* A detector before a frame says nothing; Kept: an operation that neither
\* starts nor ends an episode; Told: one whose event says what it did.
Quiet(d) == DOMAIN d = Fields /\ d.event = Silent
Kept(d, e) == DOMAIN e = Fields /\ e.start = d.start /\ e.event = d.event
Told(d, e) == DOMAIN e = Fields /\ e.start = Heard(e.event, d.start)
Ends(e) == DOMAIN e = Fields /\ e.start = Never /\ e.event.type = "ENDED"

LEMMA KeptIsTold ==
  ASSUME NEW d, Quiet(d), NEW e, Kept(d, e)
  PROVE  Told(d, e)
  BY DEF Quiet, Kept, Told, Heard, Silent

LEMMA EndsIsTold ==
  ASSUME NEW d, NEW e, Ends(e)
  PROVE  Told(d, e)
  BY DEF Ends, Told, Heard

LEMMA PauseKeeps ==
  ASSUME NEW d, DOMAIN d = Fields, NEW t
  PROVE  Kept(d, Pause(d, t))
  BY DEF Kept, Pause, Fields, InEpisode

LEMMA ResumeKeeps ==
  ASSUME NEW d, DOMAIN d = Fields, NEW t
  PROVE  Kept(d, Resume(d, t))
  BY DEF Kept, Resume, Fields

LEMMA EnterKeeps ==
  ASSUME NEW d, DOMAIN d = Fields, NEW s, NEW t
  PROVE  Kept(d, Enter(d, s, t)) /\ Enter(d, s, t).state = s
  BY DEF Kept, Enter, Fields

LEMMA EnterAfter ==
  ASSUME NEW d, NEW e, NEW s, NEW t
  PROVE  /\ DOMAIN d = Fields /\ Kept(d, e) => Kept(d, Enter(e, s, t))
         /\ Told(d, e) => Told(d, Enter(e, s, t))
         /\ Ends(e) => Ends(Enter(e, s, t))
<1>1. DOMAIN e = Fields => Kept(e, Enter(e, s, t))
  BY EnterKeeps
<1> QED BY <1>1 DEF Kept, Told, Ends

LEMMA EndEpisodeEnds ==
  ASSUME NEW d, DOMAIN d = Fields, NEW t
  PROVE  Ends(EndEpisode(d, t))
  BY DEF EndEpisode, Fields, Ends

LEMMA ObserveKeeps ==
  ASSUME NEW d, DOMAIN d = Fields, NEW name, NEW t
  PROVE  Kept(d, Observe(d, name, t))
  BY DEF Kept, Observe, Fields, GapTooLong

\* Suspending a detector ends its episode or keeps it; at once, it ends it.
LEMMA SuspendTells ==
  ASSUME NEW d, Quiet(d), NEW name, NEW immediate \in BOOLEAN, NEW since, NEW t
  PROVE  LET e == Suspend(d, name, immediate, since, t)
         IN Told(d, e) /\ (immediate => e.start = Never)
<1> DEFINE paused == Pause(d, since)
           ended == IF ~InEpisode(d) THEN d
                    ELSE IF immediate THEN EndEpisode(paused, t)
                    ELSE IF PausedFor(paused, t) > SuspensionGrace
                         THEN EndEpisode(paused, PausedAt(paused, t))
                         ELSE paused
           end == Suspend(d, name, immediate, since, t)
<1>1. DOMAIN d = Fields
  BY DEF Quiet
<1>2. Kept(d, paused) /\ Kept(d, d)
  BY <1>1, PauseKeeps DEF Kept
<1>3. Kept(d, ended) \/ Ends(ended)
  <2> HIDE DEF paused
  <2>1. DOMAIN paused = Fields
    BY <1>2 DEF Kept
  <2>2. ended \in {d, paused, EndEpisode(paused, t), EndEpisode(paused, PausedAt(paused, t))}
    OBVIOUS
  <2>3. Ends(EndEpisode(paused, t)) /\ Ends(EndEpisode(paused, PausedAt(paused, t)))
    BY <2>1, EndEpisodeEnds
  <2> HIDE DEF ended
  <2> QED BY <1>2, <2>2, <2>3
<1>8. immediate => ended.start = Never
  <2>1. Ends(EndEpisode(paused, t))
    BY <1>2, EndEpisodeEnds DEF Kept
  <2> HIDE DEF paused
  <2>2. immediate => ended = IF InEpisode(d) THEN EndEpisode(paused, t) ELSE d
    OBVIOUS
  <2> HIDE DEF ended
  <2> QED BY <2>1, <2>2 DEF Ends, InEpisode
<1>4. end = [ended EXCEPT !.state = IF immediate THEN "WAITING_FOR_BASELINE" ELSE "SUSPENDED",
                   !.since = t, !.rule = "NONE", !.seen = 0, !.back = 0,
                   !.warmup = Never,
                   !.last = IF name = "SMILE_EXPRESSION" THEN Never ELSE @]
  BY DEF Suspend
<1> HIDE DEF ended, end
<1>5. Kept(ended, end)
  <2>1. DOMAIN ended = Fields
    BY <1>3 DEF Kept, Ends
  <2> QED BY <1>4, <2>1 DEF Kept, Fields
<1>6. Kept(d, end) \/ Ends(end)
  BY <1>3, <1>5 DEF Kept, Ends
<1>7. Told(d, end)
  BY <1>6, KeptIsTold, EndsIsTold
<1> QED BY <1>5, <1>7, <1>8 DEF end, Kept

LEMMA AfterGapKeeps ==
  ASSUME NEW d, DOMAIN d = Fields, NEW name, NEW t
  PROVE  Kept(d, AfterGap(d, name, t))
<1>1. Kept(d, Enter(Pause(d, d.last), "SUSPENDED", d.last))
  BY PauseKeeps, EnterKeeps DEF Kept
<1>2. Kept(d, Enter([d EXCEPT !.seen = 0, !.rule = "NONE"], "NORMAL", t))
  <2>1. Kept(d, [d EXCEPT !.seen = 0, !.rule = "NONE"])
    BY DEF Kept, Fields
  <2> QED BY <2>1, EnterAfter
<1>3. Kept(d, d)
  BY DEF Kept
<1> QED BY <1>1, <1>2, <1>3 DEF AfterGap

\* A suspended episode goes on, or it has ended and the detector cools down.
LEMMA AfterSuspensionTells ==
  ASSUME NEW d, DOMAIN d = Fields, NEW name \in Detectors, NEW t \in Nat
  PROVE  LET e == AfterSuspension(d, name, t) IN
         \/ Kept(d, e)
         \/ Ends(e) /\ e.state = "COOLDOWN" /\ ~(t >= e.cooldown)
<1> DEFINE e == AfterSuspension(d, name, t)
           ended == EndEpisode(d, PausedAt(d, t))
           warm == [d EXCEPT !.warmup = IF @ = Never THEN t + RecoveryWarmup ELSE @]
           cold == Enter([ended EXCEPT !.cooldown = t + Cooldown[name]], "COOLDOWN", t)
<1>1. Ends(cold) /\ cold.state = "COOLDOWN" /\ ~(t >= cold.cooldown)
  <2> DEFINE cooled == [ended EXCEPT !.cooldown = t + Cooldown[name]]
  <2>1. Ends(ended)
    BY EndEpisodeEnds
  <2> HIDE DEF ended
  <2>2. Ends(cooled) /\ cooled.cooldown = t + Cooldown[name]
    BY <2>1 DEF Ends, Fields
  <2> HIDE DEF cooled
  <2>3. /\ Ends(Enter(cooled, "COOLDOWN", t))
        /\ Enter(cooled, "COOLDOWN", t).cooldown = t + Cooldown[name]
        /\ Enter(cooled, "COOLDOWN", t).state = "COOLDOWN"
    BY <2>2 DEF Ends, Enter, Fields
  <2>4. ~(t >= t + Cooldown[name])
    BY BehaviorAssumption DEF DetectorConfig
  <2> QED BY <2>3, <2>4 DEF cooled, ended
<1>2. Kept(d, Enter([Resume(d, t) EXCEPT !.warmup = Never], "ACTIVE", t))
  <2> DEFINE resumed == Resume(d, t)
  <2>1. Kept(d, resumed)
    BY ResumeKeeps
  <2> HIDE DEF resumed
  <2>2. Kept(d, [resumed EXCEPT !.warmup = Never])
    BY <2>1 DEF Kept, Fields
  <2> QED BY <2>2, EnterAfter DEF resumed
<1>3. Kept(d, warm)
  BY DEF Kept, Fields
<1>4. Kept(d, Enter([warm EXCEPT !.warmup = Never], "NORMAL", t))
  <2> HIDE DEF warm
  <2>1. Kept(d, [warm EXCEPT !.warmup = Never])
    BY <1>3 DEF Kept, Fields
  <2> QED BY <2>1, EnterAfter
<1>5. Kept(d, d)
  BY DEF Kept
<1>6. \/ e = d
      \/ e = cold
      \/ e = Enter([Resume(d, t) EXCEPT !.warmup = Never], "ACTIVE", t)
      \/ e = Enter([warm EXCEPT !.warmup = Never], "NORMAL", t)
      \/ e = warm
  BY DEF AfterSuspension
<1> HIDE DEF e, warm, ended, cold
<1>7. \/ Kept(d, e)
      \/ Ends(e) /\ e.state = "COOLDOWN" /\ ~(t >= e.cooldown)
  BY <1>1, <1>2, <1>3, <1>4, <1>5, <1>6
<1> QED BY <1>7 DEF e

LEMMA CandidateKeeps ==
  ASSUME NEW d, DOMAIN d = Fields, NEW rule, NEW t
  PROVE  Kept(d, Candidate(d, rule, t))
<1>1. Kept(d, [d EXCEPT !.seen = 1, !.rule = rule])
  BY DEF Kept, Fields
<1> QED BY <1>1, EnterAfter DEF Candidate

\* The event that starts an episode and the clock of the episode agree.
LEMMA ConfirmTells ==
  ASSUME NEW d, Quiet(d), NEW rule, NEW t
  PROVE  Told(d, Confirm(d, rule, t))
<1> DEFINE counted == [d EXCEPT !.seen = Lesser(@ + 1, EntryFrames[rule])]
           started == StartEpisode(counted, t)
           event == [type |-> "STARTED", from |-> d.since, to |-> t,
                     observed |-> t - d.since]
           told == [started EXCEPT !.event = event]
<1>1. Kept(d, counted) /\ counted.since = d.since
  BY DEF Kept, Fields, Quiet
<1>2. DOMAIN started = Fields /\ started.start = d.since
  <2> HIDE DEF counted
  <2>1. DOMAIN counted = Fields
    BY <1>1 DEF Kept
  <2> QED BY <1>1, <2>1 DEF StartEpisode, Fields
<1>3. Told(d, Enter(told, "ACTIVE", t))
  <2> HIDE DEF started
  <2>1. event.type = "STARTED" /\ event.from = d.since
    OBVIOUS
  <2> HIDE DEF event
  <2>2. DOMAIN told = Fields /\ told.start = d.since /\ told.event = event
    BY <1>2 DEF Fields
  <2> HIDE DEF told
  <2>3. Kept(told, Enter(told, "ACTIVE", t))
    BY <2>2, EnterKeeps
  <2> QED BY <2>1, <2>2, <2>3 DEF Kept, Told, Heard
<1>4. Told(d, counted) /\ Told(d, Candidate(d, rule, t))
  BY <1>1, CandidateKeeps, KeptIsTold DEF Quiet
<1>5. Confirm(d, rule, t) \in {Candidate(d, rule, t), Enter(told, "ACTIVE", t), counted}
  BY DEF Confirm
<1> HIDE DEF counted, told
<1> QED BY <1>3, <1>4, <1>5

LEMMA WhileActiveTells ==
  ASSUME NEW d, Quiet(d), NEW name, NEW evidence, NEW t
  PROVE  Told(d, WhileActive(d, name, evidence, t))
<1> DEFINE observed == Observe(d, name, t)
           prolonged == Prolong(observed, name, t)
<1>1. Kept(d, observed)
  BY ObserveKeeps DEF Quiet
<1> HIDE DEF observed
<1>2. Told(d, observed) /\ DOMAIN observed = Fields
  BY <1>1, KeptIsTold DEF Kept, Quiet
<1>3. Told(d, prolonged)
  <2> DEFINE event == [type |-> "PROLONGED", from |-> observed.start, to |-> t,
                       observed |-> Lesser(observed.observed, t - observed.start)]
             told == [observed EXCEPT !.prolonged = TRUE, !.event = event]
  <2>1. prolonged \in {observed, told}
    BY DEF Prolong
  <2>2. event.type = "PROLONGED"
    OBVIOUS
  <2> HIDE DEF event
  <2>3. DOMAIN told = Fields /\ told.start = observed.start /\ told.event = event
    BY <1>2 DEF Fields
  <2> HIDE DEF told, prolonged
  <2>4. Told(d, told)
    BY <1>1, <2>2, <2>3 DEF Told, Kept, Heard
  <2> QED BY <1>2, <2>1, <2>4
<1> HIDE DEF prolonged
<1>4. \A e \in {prolonged, observed} : \A s, at : Told(d, e) => Told(d, Enter(e, s, at))
  BY EnterAfter
<1>5. Told(d, [prolonged EXCEPT !.back = 1])
  BY <1>3 DEF Told, Fields
<1>6. Told(d, Enter([prolonged EXCEPT !.back = 1], "RECOVERY_CANDIDATE", t))
  BY <1>5, EnterAfter
<1>7. \/ WhileActive(d, name, evidence, t)
           = Enter(observed, "SUSPENDED", PausedAt(observed, t))
      \/ WhileActive(d, name, evidence, t)
           = Enter([prolonged EXCEPT !.back = 1], "RECOVERY_CANDIDATE", t)
      \/ WhileActive(d, name, evidence, t) = prolonged
  BY DEF WhileActive, observed, prolonged
<1> QED BY <1>2, <1>3, <1>4, <1>6, <1>7

LEMMA WhileRecoveringTells ==
  ASSUME NEW d, Quiet(d), NEW name, NEW evidence, NEW t
  PROVE  Told(d, WhileRecovering(d, name, evidence, t))
<1> DEFINE seen == Observe(d, name, t)
           observed == [seen EXCEPT !.back = Lesser(@ + 1, RecoveryFrames[name])]
           ended == EndEpisode(observed, t)
<1>1. Kept(d, seen)
  BY ObserveKeeps DEF Quiet
<1> HIDE DEF seen
<1>2. Kept(d, observed)
  BY <1>1 DEF Kept, Fields, Quiet
<1>3. Kept(d, [d EXCEPT !.back = 0])
  BY DEF Kept, Fields, Quiet
<1>4. Kept(d, Enter([d EXCEPT !.back = 0], "ACTIVE", t)) /\ Kept(d, Enter(seen, "ACTIVE", t))
  BY <1>1, <1>3, EnterAfter DEF Quiet
<1> HIDE DEF observed
<1>5. Ends(ended)
  BY <1>2, EndEpisodeEnds DEF Kept, Quiet
<1> HIDE DEF ended
<1>6. Ends(Enter([ended EXCEPT !.cooldown = t + Cooldown[name]], "COOLDOWN", t))
  <2>1. Ends([ended EXCEPT !.cooldown = t + Cooldown[name]])
    BY <1>5 DEF Ends, Fields
  <2> QED BY <2>1, EnterAfter
<1>7. \/ WhileRecovering(d, name, evidence, t) = Enter([d EXCEPT !.back = 0], "ACTIVE", t)
      \/ WhileRecovering(d, name, evidence, t) = Enter(seen, "ACTIVE", t)
      \/ WhileRecovering(d, name, evidence, t)
           = Enter([ended EXCEPT !.cooldown = t + Cooldown[name]], "COOLDOWN", t)
      \/ WhileRecovering(d, name, evidence, t) = observed
  BY DEF WhileRecovering, seen, observed, ended
<1> QED BY <1>2, <1>4, <1>6, <1>7, KeptIsTold, EndsIsTold

LEMMA JudgeTells ==
  ASSUME NEW d, Quiet(d), NEW name, NEW evidence, NEW canStart, NEW t
  PROVE  Told(d, Judge(d, name, evidence, canStart, t))
<1>1. /\ Told(d, Candidate(d, evidence, t))
      /\ Told(d, Confirm(d, evidence, t))
      /\ Told(d, WhileActive(d, name, evidence, t))
      /\ Told(d, WhileRecovering(d, name, evidence, t))
  BY CandidateKeeps, KeptIsTold, ConfirmTells, WhileActiveTells, WhileRecoveringTells
     DEF Quiet
<1>2. Told(d, Enter([d EXCEPT !.seen = 0, !.rule = "NONE"], "NORMAL", t))
  <2>1. Kept(d, [d EXCEPT !.seen = 0, !.rule = "NONE"])
    BY DEF Kept, Fields, Quiet
  <2> QED BY <2>1, EnterAfter, KeptIsTold DEF Quiet
<1>3. Told(d, d)
  BY KeptIsTold DEF Kept, Quiet
<1>4. Judge(d, name, evidence, canStart, t) \in
        {Candidate(d, evidence, t), Confirm(d, evidence, t),
         WhileActive(d, name, evidence, t), WhileRecovering(d, name, evidence, t),
         Enter([d EXCEPT !.seen = 0, !.rule = "NONE"], "NORMAL", t), d}
  BY DEF Judge
<1> QED BY <1>1, <1>2, <1>3, <1>4

LEMMA UpdateTells ==
  ASSUME NEW d, Quiet(d), NEW name \in Detectors, NEW evidence, NEW canStart, NEW ready,
         NEW t \in Nat
  PROVE  Told(d, Update(d, name, evidence, canStart, ready, t))
<1> DEFINE gapless == AfterGap(d, name, t)
           seen == [gapless EXCEPT !.last = t]
           awake == AfterSuspension(seen, name, t)
           waited == AfterWaiting(awake, t)
           judged == Judge(waited, name, evidence, canStart, t)
<1>1. Kept(d, gapless)
  BY AfterGapKeeps DEF Quiet
<1> HIDE DEF gapless
<1>2. Kept(d, seen) /\ Quiet(seen)
  BY <1>1 DEF Kept, Quiet, Fields
<1> HIDE DEF seen
<1>3. \/ Kept(seen, awake)
      \/ Ends(awake) /\ awake.state = "COOLDOWN" /\ ~(t >= awake.cooldown)
  BY <1>2, AfterSuspensionTells DEF Quiet
<1> HIDE DEF awake
<1>4. ASSUME Kept(seen, awake) PROVE Told(d, judged)
  <2>1. Quiet(awake) /\ Kept(d, awake)
    BY <1>2, <1>4 DEF Kept, Quiet
  <2>2. Kept(d, waited)
    <3>1. waited \in {awake, Enter(awake, "NORMAL", t)}
      BY DEF AfterWaiting
    <3> HIDE DEF waited
    <3> QED BY <2>1, <3>1, EnterAfter DEF Quiet
  <2> HIDE DEF waited
  <2>3. Quiet(waited)
    BY <2>2 DEF Kept, Quiet
  <2>4. Told(waited, judged)
    BY <2>3, JudgeTells
  <2> HIDE DEF judged
  <2> QED BY <2>2, <2>4 DEF Kept, Told
<1>5. ASSUME Ends(awake), awake.state = "COOLDOWN", ~(t >= awake.cooldown)
      PROVE  Told(d, judged)
  <2>1. waited = awake
    BY <1>5 DEF AfterWaiting
  <2> HIDE DEF waited
  <2>2. judged = awake
    BY <1>5, <2>1 DEF Judge
  <2> QED BY <1>5, <2>2, EndsIsTold
<1>6. Told(d, judged)
  BY <1>3, <1>4, <1>5
<1>7. Told(d, Suspend(d, name, FALSE, t, t)) /\ Told(d, Suspend(seen, name, FALSE, t, t))
  <2> DEFINE e == Suspend(seen, name, FALSE, t, t)
  <2>1. Told(seen, e)
    BY <1>2, SuspendTells
  <2> HIDE DEF e
  <2>2. Told(d, e)
    BY <1>2, <2>1 DEF Kept, Told
  <2> QED BY <2>2, SuspendTells DEF e
<1>8. Update(d, name, evidence, canStart, ready, t) \in
        {Suspend(d, name, FALSE, t, t), Suspend(seen, name, FALSE, t, t), judged}
  BY DEF Update, seen, gapless, awake
<1> HIDE DEF judged
<1> QED BY <1>6, <1>7, <1>8

----------------------------------------------------------------------------
(* The consumer's view. *)

ViewInv ==
  \A n \in Detectors : DOMAIN detectors[n] = Fields /\ open[n] = detectors[n].start

\* A detector that does not throw tells what it did, whatever the frame shows.
LEMMA DetectTells ==
  ASSUME NEW name \in Detectors, DOMAIN detectors[name] = Fields,
         NEW q, NEW c, NEW evidence, evidence # "THROWS", NEW t \in Nat
  PROVE  Told(detectors[name], Detect(name, q, c, evidence, t))
<1> DEFINE d == [detectors[name] EXCEPT !.event = Silent]
<1>1. Quiet(d) /\ d.start = detectors[name].start
  BY DEF Quiet, Fields
<1>2. Detect(name, q, c, evidence, t) \in
        {Suspend(d, name, FALSE, q.since, t), Suspend(d, name, FALSE, t, t),
         Update(d, name, evidence, CanStartBehavior(q), BaselineReady(name, c), t)}
  BY DEF Detect
<1> HIDE DEF d
<1>3. Told(d, Detect(name, q, c, evidence, t))
  BY <1>1, <1>2, SuspendTells, UpdateTells
<1> QED BY <1>1, <1>3 DEF Told

LEMMA NothingThrows ==
  ASSUME DetectorsFail = FALSE, NEW stopped, NEW scene \in Scenes(stopped),
         NEW n \in Detectors
  PROVE  scene.evidence[n] # "THROWS"
<1>1. \A e \in Evidences : e[n] # "THROWS"
  BY DEF Evidences, Unseen, Disabled, Evidence, SmileEvidence, AttentionEvidence,
         AttentionRules
<1>2. Unseen[n] # "THROWS"
  BY DEF Unseen
<1> QED BY <1>1, <1>2 DEF Scenes

TimeInv == now \in Nat

LEMMA TimeGoesOn == Spec => []TimeInv
<1>1. Init => TimeInv
  BY DEF Init, TimeInv
<1>2. TimeInv /\ [Next]_vars => TimeInv'
  <2> SUFFICES ASSUME TimeInv, [Next]_vars PROVE TimeInv'
    OBVIOUS
  <2>1. CASE Next
    <3> USE PipelineAssumption DEF TimeInv
    <3>1. ASSUME NEW step \in 1..MaxStep, NEW sides, NEW stopped, NEW scene,
                 Frame(step, sides, stopped, scene)
          PROVE  now' \in Nat
      BY <3>1 DEF Frame
    <3>2. ASSUME NEW t \in 0..MaxTime, EndSession(t) PROVE now' \in Nat
      BY <3>2 DEF EndSession
    <3>3. CASE UseGlobalBaselineFallback
      BY <3>3 DEF UseGlobalBaselineFallback
    <3> QED BY <2>1, <3>1, <3>2, <3>3 DEF Next
  <2>2. CASE UNCHANGED vars
    BY <2>2 DEF vars, pipelineVars, TimeInv
  <2> QED BY <2>1, <2>2
<1> QED BY <1>1, <1>2, PTL DEF Spec

\* A frame, and the end of the session: what the consumer hears is what the
\* detectors did.
LEMMA FrameView ==
  ASSUME DetectorsFail = FALSE, ViewInv, TimeInv, NEW step \in 1..MaxStep, NEW sides,
         NEW stopped, NEW scene \in Scenes(stopped), Frame(step, sides, stopped, scene)
  PROVE  ViewInv'
<1> SUFFICES ASSUME NEW n \in Detectors
             PROVE  DOMAIN detectors'[n] = Fields /\ open'[n] = detectors'[n].start
  BY DEF ViewInv
<1> DEFINE t == now + step
           q == QualityUpdate(quality, sides, stopped # "NO", t)
           c == CalibratorUpdate(calibration, q.state = "USABLE" /\ scene.posed,
                                 scene.mouth, t)
           d == [detectors[n] EXCEPT !.event = Silent]
<1>1. t \in Nat
  BY PipelineAssumption DEF TimeInv
<1>2. DOMAIN detectors[n] = Fields /\ open[n] = detectors[n].start
  BY DEF ViewInv
<1>3. detectors'[n] = IF stopped = "CAMERA" THEN Suspend(d, n, TRUE, q.since, t)
                      ELSE Detect(n, q, c, scene.evidence[n], t)
  BY DEF Frame
<1>4. open'[n] = Heard(detectors'[n].event, open[n])
  BY DEF Frame, Follow
<1> HIDE DEF t, q, c
<1>5. Told(detectors[n], Suspend(d, n, TRUE, q.since, t))
  <2>1. Quiet(d) /\ d.start = detectors[n].start
    BY <1>2 DEF Quiet, Fields
  <2> HIDE DEF d
  <2> DEFINE e == Suspend(d, n, TRUE, q.since, t)
  <2>2. Told(d, e)
    BY <2>1, SuspendTells
  <2> HIDE DEF e
  <2> QED BY <2>1, <2>2 DEF Told, e
<1>6. Told(detectors[n], Detect(n, q, c, scene.evidence[n], t))
  BY <1>1, <1>2, DetectTells, NothingThrows
<1> HIDE DEF d
<1>7. Told(detectors[n], detectors'[n])
  BY <1>3, <1>5, <1>6
<1> QED BY <1>2, <1>4, <1>7 DEF Told

LEMMA EndView ==
  ASSUME ViewInv, NEW t, EndSession(t)
  PROVE  ViewInv'
<1> SUFFICES ASSUME NEW n \in Detectors
             PROVE  DOMAIN detectors'[n] = Fields /\ open'[n] = detectors'[n].start
  BY DEF ViewInv
<1> DEFINE d == [detectors[n] EXCEPT !.event = Silent]
           e == Suspend(d, n, TRUE, t, t)
<1>1. Quiet(d) /\ d.start = detectors[n].start /\ open[n] = d.start
  BY DEF Quiet, Fields, ViewInv
<1>2. open'[n] = Heard(e.event, open[n]) /\ detectors'[n] = [NewDetector EXCEPT !.event = e.event]
  BY DEF EndSession
<1>3. DOMAIN detectors'[n] = Fields /\ detectors'[n].start = Never
  BY <1>2 DEF NewDetector, Fields
<1> HIDE DEF d
<1>4. Told(d, e) /\ e.start = Never
  BY <1>1, SuspendTells
<1> HIDE DEF e
<1> QED BY <1>1, <1>2, <1>3, <1>4 DEF Told

\* The consumer of the events believes exactly the episodes to be open that are,
\* whatever the frames, their gaps, the calibration and the end of the session do,
\* as long as no detector throws (ConsumerViewAgrees).
THEOREM EpisodesAreReported ==
  ASSUME DetectorsFail = FALSE PROVE Spec => []ConsumerViewAgrees
<1>1. Init => ViewInv
  BY DEF Init, ViewInv, NewDetector, Fields
<1>2. TimeInv /\ ViewInv /\ [Next]_vars => ViewInv'
  <2> SUFFICES ASSUME TimeInv, ViewInv, [Next]_vars PROVE ViewInv'
    OBVIOUS
  <2>1. CASE UseGlobalBaselineFallback
    BY <2>1 DEF UseGlobalBaselineFallback, historyVars, ViewInv, Fields
  <2>2. CASE UNCHANGED vars
    BY <2>2 DEF vars, pipelineVars, historyVars, ViewInv
  <2> QED BY <2>1, <2>2, FrameView, EndView DEF Next
<1>3. ViewInv => ConsumerViewAgrees
  BY DEF ViewInv, ConsumerViewAgrees
<1> QED BY <1>1, <1>2, <1>3, TimeGoesOn, PTL DEF Spec

----------------------------------------------------------------------------
(* The end of the calibration. *)

CalibrationFields == {"status", "setup", "collecting", "stabilizing", "frames",
                      "lastUsable", "usable", "samples", "finished", "smile"}

Calibrates(c) == DOMAIN c = CalibrationFields /\ c.setup \in Int

\* An operation that leaves the time alone at which the calibration was begun.
SameSetup(c, e) == DOMAIN e = DOMAIN c /\ e.setup = c.setup

LEMMA SampleKeepsSetup ==
  ASSUME NEW c, Calibrates(c), NEW t
  PROVE  SameSetup(c, CollectSample(c, t))
  BY DEF SameSetup, CollectSample, Calibrates, CalibrationFields

LEMMA StabilizedKeepsSetup ==
  ASSUME NEW c, Calibrates(c), NEW t
  PROVE  SameSetup(c, Stabilized(c, t))
<1> DEFINE counted == [c EXCEPT !.frames = Lesser(@ + 1, StableFrames)]
           started == StartCollecting(counted, t)
<1>1. SameSetup(c, counted)
  BY DEF SameSetup, Calibrates, CalibrationFields
<1> HIDE DEF counted
<1>2. SameSetup(c, started)
  BY <1>1 DEF SameSetup, Calibrates, CalibrationFields, StartCollecting
<1> HIDE DEF started
<1>3. SameSetup(c, CollectSample(started, t))
  BY <1>2, SampleKeepsSetup DEF SameSetup, Calibrates
<1>4. Stabilized(c, t) \in {counted, CollectSample(started, t)}
  BY DEF Stabilized, counted, started
<1> QED BY <1>1, <1>3, <1>4

LEMMA FinishEnds ==
  ASSUME NEW c, Calibrates(c), NEW status, NEW mouth, NEW t
  PROVE  SameSetup(c, Finish(c, status, mouth, t)) /\ Finish(c, status, mouth, t).status = status
  BY DEF Finish, SameSetup, Calibrates, CalibrationFields

LEMMA SkipEnds ==
  ASSUME NEW c, Calibrates(c), NEW t
  PROVE  /\ SameSetup(c, SkipCalibration(c, t))
         /\ SkipCalibration(c, t).status = "GLOBAL_FALLBACK"
  BY DEF SkipCalibration, Finish, SameSetup, Calibrates, CalibrationFields

\* Whatever the calibration has seen, looking at its timers ends it in time.
LEMMA MaybeFinishEnds ==
  ASSUME NEW c, Calibrates(c), NEW mouth, NEW t \in Nat
  PROVE  LET e == MaybeFinish(c, mouth, t)
         IN /\ SameSetup(c, e)
            /\ \/ e.status \in Calibrated
               \/ e.setup = Never
               \/ t - e.setup < SetupTimeout
<1> DEFINE e == MaybeFinish(c, mouth, t)
<1>1. CASE e = c /\ ~Expired(c, t)
  <2>1. c.setup = Never \/ ~(t - c.setup >= SetupTimeout)
    BY <1>1 DEF Expired
  <2>2. c.setup = Never \/ t - c.setup < SetupTimeout
    BY <2>1, BaselineAssumption DEF CalibrationConfig, Calibrates
  <2> HIDE DEF e
  <2>3. SameSetup(c, e) /\ (e.setup = Never \/ t - e.setup < SetupTimeout)
    BY <1>1, <2>2 DEF SameSetup
  <2> QED BY <2>3 DEF e
<1>2. ASSUME NEW status \in Calibrated, e = Finish(c, status, mouth, t)
      PROVE  SameSetup(c, e) /\ e.status \in Calibrated
  <2> HIDE DEF e
  <2> QED BY <1>2, FinishEnds
<1>3. \/ e = c /\ ~Expired(c, t)
      \/ \E status \in Calibrated : e = Finish(c, status, mouth, t)
  BY DEF MaybeFinish, Calibrated
<1> QED BY <1>1, <1>2, <1>3

LEMMA CalibratorEnds ==
  ASSUME NEW c, Calibrates(c), NEW eligible, NEW mouth, NEW t \in Nat
  PROVE  LET e == CalibratorUpdate(c, eligible, mouth, t)
         IN /\ Calibrates(e)
            /\ \/ e.status \in Calibrated
               \/ e.setup = Never
               \/ t - e.setup < SetupTimeout
<1> DEFINE begun == [c EXCEPT !.setup = IF @ = Never THEN t ELSE @,
                              !.status = IF @ = "NOT_STARTED" THEN "PRECHECK" ELSE @]
           stabilizing == [begun EXCEPT !.status = "STABILIZING", !.stabilizing = t,
                                        !.frames = 1]
           next == IF ~eligible THEN Excluded(begun)
                   ELSE IF begun.status \in {"PRECHECK", "PAUSED"} THEN stabilizing
                   ELSE IF begun.status = "STABILIZING" THEN Stabilized(begun, t)
                   ELSE CollectSample(begun, t)
<1>1. Calibrates(begun)
  BY DEF Calibrates, CalibrationFields
<1> HIDE DEF begun
<1>2. SameSetup(begun, Excluded(begun)) /\ SameSetup(begun, stabilizing)
  BY <1>1 DEF SameSetup, Excluded, Calibrates, CalibrationFields
<1> HIDE DEF stabilizing
<1>3. SameSetup(begun, next)
  <2>1. next \in {Excluded(begun), stabilizing, Stabilized(begun, t), CollectSample(begun, t)}
    OBVIOUS
  <2> HIDE DEF next
  <2> QED BY <1>1, <1>2, <2>1, StabilizedKeepsSetup, SampleKeepsSetup
<1>4. Calibrates(next)
  BY <1>1, <1>3 DEF SameSetup, Calibrates
<1>5. CalibratorUpdate(c, eligible, mouth, t)
        = IF c.status \in Calibrated THEN c ELSE MaybeFinish(next, mouth, t)
  BY DEF CalibratorUpdate, begun, stabilizing
<1> HIDE DEF next
<1> DEFINE e == MaybeFinish(next, mouth, t)
<1>6. /\ SameSetup(next, e)
      /\ e.status \in Calibrated \/ e.setup = Never \/ t - e.setup < SetupTimeout
  BY <1>4, MaybeFinishEnds
<1> HIDE DEF e
<1>7. Calibrates(e)
  BY <1>4, <1>6 DEF SameSetup, Calibrates
<1> QED BY <1>5, <1>6, <1>7 DEF e

CalibrationInv == Calibrates(calibration) /\ CalibrationEnds

\* The calibration of a session is over before its setup timeout is, however the
\* frames come and whether or not any of them is usable (CalibrationEnds).
THEOREM CalibrationIsBounded == Spec => []CalibrationEnds
<1>1. Init => CalibrationInv
  BY DEF Init, CalibrationInv, Calibrates, CalibrationEnds, NoCalibration,
         CalibrationFields, Never
<1>2. TimeInv /\ CalibrationInv /\ [Next]_vars => CalibrationInv'
  <2> SUFFICES ASSUME TimeInv, CalibrationInv, [Next]_vars PROVE CalibrationInv'
    OBVIOUS
  <2>1. ASSUME NEW step \in 1..MaxStep, NEW sides, NEW stopped, NEW scene,
               Frame(step, sides, stopped, scene)
        PROVE  CalibrationInv'
    <3> DEFINE t == now + step
               q == QualityUpdate(quality, sides, stopped # "NO", t)
               eligible == q.state = "USABLE" /\ scene.posed
    <3>1. t \in Nat
      BY PipelineAssumption DEF TimeInv
    <3>2. now' = t /\ calibration' = CalibratorUpdate(calibration, eligible, scene.mouth, t)
      BY <2>1 DEF Frame
    <3> HIDE DEF t, eligible
    <3>3. /\ Calibrates(calibration')
          /\ \/ calibration'.status \in Calibrated
             \/ calibration'.setup = Never
             \/ t - calibration'.setup < SetupTimeout
      BY <3>1, <3>2, CalibratorEnds DEF CalibrationInv
    <3> QED BY <3>2, <3>3 DEF CalibrationInv, CalibrationEnds, Calibrates
  <2>2. ASSUME NEW t, EndSession(t) PROVE CalibrationInv'
    BY <2>2 DEF EndSession, CalibrationInv, Calibrates, CalibrationEnds, NoCalibration,
         CalibrationFields, Never
  <2>3. CASE UseGlobalBaselineFallback
    <3>1. /\ SameSetup(calibration, SkipCalibration(calibration, now))
          /\ SkipCalibration(calibration, now).status = "GLOBAL_FALLBACK"
      <4>1. Calibrates(calibration)
        BY DEF CalibrationInv
      <4> QED BY ONLY <4>1, SkipEnds
    <3>2. calibration' = SkipCalibration(calibration, now)
      BY <2>3 DEF UseGlobalBaselineFallback
    <3>3. SameSetup(calibration, calibration') /\ calibration'.status = "GLOBAL_FALLBACK"
      BY ONLY <3>1, <3>2
    <3> QED BY <3>3 DEF CalibrationInv, SameSetup, Calibrates, CalibrationEnds, Calibrated
  <2>4. CASE UNCHANGED vars
    BY <2>4 DEF vars, pipelineVars, CalibrationInv, CalibrationEnds, Calibrates
  <2> QED BY <2>1, <2>2, <2>3, <2>4 DEF Next
<1>3. CalibrationInv => CalibrationEnds
  BY DEF CalibrationInv
<1> QED BY <1>1, <1>2, <1>3, TimeGoesOn, PTL DEF Spec

----------------------------------------------------------------------------
(* Unavailable episodes. *)

LEMMA LeastExists ==
  ASSUME NEW S, S \subseteq Nat, S # {}
  PROVE  \E x \in S : \A y \in S : x <= y
<1> DEFINE R == OpToRel(<, Nat)
<1>1. IsWellFoundedOn(R, Nat)
  BY NatLessThanWellFounded
<1>2. \A x, y \in Nat : x < y => <<x, y>> \in R
  BY DEF OpToRel
<1> HIDE DEF R
<1>3. PICK x \in S : \A y \in S : ~ (<<y, x>> \in R)
  BY <1>1, WFMin
<1>4. \A y \in S : ~(y < x)
  BY <1>2, <1>3
<1>5. \A y \in S : x <= y
  BY <1>4
<1> QED BY <1>5

Gate == [state : {"INACTIVE", "ENTRY_CANDIDATE", "ACTIVE", "RECOVERY_CANDIDATE"},
         candidate : Int, active : Int]
Quality == [state : {"USABLE", "DEGRADED_CANDIDATE", "UNUSABLE", "RECOVERY_CANDIDATE"},
            gates : [Reasons -> Gate], since : Int, recovery : Int]

Pending(gate) == gate.state = "ENTRY_CANDIDATE"

LEMMA GateMoves ==
  ASSUME NEW gate \in Gate, NEW c \in Int,
         NEW s \in {"INACTIVE", "ENTRY_CANDIDATE", "ACTIVE", "RECOVERY_CANDIDATE"}
  PROVE  LET moved == [gate EXCEPT !.state = s, !.candidate = c]
         IN moved \in Gate /\ moved.state = s /\ moved.candidate = c
<1> DEFINE named == [gate EXCEPT !.state = s]
<1>1. named \in Gate
  BY DEF Gate
<1>2. named.state = s
  BY DEF Gate
<1> HIDE DEF named
<1>3. [named EXCEPT !.candidate = c] \in Gate
  BY <1>1 DEF Gate
<1>4. [named EXCEPT !.candidate = c].state = s
  BY <1>1, <1>2 DEF Gate
<1>5. [named EXCEPT !.candidate = c].candidate = c
  BY <1>1 DEF Gate
<1> QED BY <1>3, <1>4, <1>5 DEF named

\* A gate that is about to close has been for less than its entry duration, and
\* one that just closed did so since its candidate or this frame.
LEMMA GateUpdates ==
  ASSUME NEW gate \in Gate, NEW side \in Sides, NEW r \in Reasons, NEW t \in Nat
  PROVE  LET next == GateUpdate(gate, side, r, t)
         IN /\ next \in Gate
            /\ Pending(next) =>
                 /\ t - next.candidate < EntryDuration[r]
                 /\ next.candidate = t \/ (Pending(gate) /\ next.candidate = gate.candidate)
            /\ ~Closed(gate) /\ Closed(next) =>
                 next.active = t \/ (Pending(gate) /\ next.active = gate.candidate)
<1> USE QualityAssumption DEF QualityConfig
<1> DEFINE next == GateUpdate(gate, side, r, t)
           entering == [gate EXCEPT !.state = "ENTRY_CANDIDATE", !.candidate = t]
           leaving == [gate EXCEPT !.state = "RECOVERY_CANDIDATE", !.candidate = t]
           relapsed == [gate EXCEPT !.state = "ACTIVE", !.candidate = Never]
           closed(g) == [state |-> "ACTIVE", candidate |-> Never, active |-> g.candidate]
           Fine(e) == /\ e \in Gate
                      /\ Pending(e) =>
                           /\ t - e.candidate < EntryDuration[r]
                           /\ e.candidate = t \/ (Pending(gate) /\ e.candidate = gate.candidate)
                      /\ ~Closed(gate) /\ Closed(e) =>
                           e.active = t \/ (Pending(gate) /\ e.active = gate.candidate)
<1>0. t \in Int /\ Never \in Int
  BY DEF Never
<1>1. entering \in Gate /\ entering.candidate = t /\ entering.state = "ENTRY_CANDIDATE"
  BY <1>0, GateMoves
<1>6. leaving \in Gate /\ leaving.state = "RECOVERY_CANDIDATE"
  BY <1>0, GateMoves
<1>7. relapsed \in Gate /\ relapsed.state = "ACTIVE"
  BY <1>0, GateMoves
<1>2. CASE gate.state = "INACTIVE" /\ side = "BAD"
  <2>1. next = IF t - entering.candidate < EntryDuration[r] THEN entering ELSE closed(entering)
    BY <1>2 DEF GateUpdate, TryActivate
  <2> DEFINE shut == closed(entering)
  <2>5. shut \in Gate /\ shut.active = t /\ shut.state = "ACTIVE"
    BY <1>1 DEF Gate, Never
  <2> HIDE DEF shut, entering
  <2>3. Fine(shut)
    BY <2>5 DEF Pending
  <2>4. t - entering.candidate < EntryDuration[r] => Fine(entering)
    BY <1>1 DEF Pending, Closed
  <2> USE DEF shut
  <2> QED BY <2>1, <2>3, <2>4
<1>3. CASE gate.state = "ENTRY_CANDIDATE"
  <2>1. next = IF side = "BAD"
               THEN IF t - gate.candidate < EntryDuration[r] THEN gate ELSE closed(gate)
               ELSE OpenGate
    BY <1>3 DEF GateUpdate, TryActivate
  <2>2. t - gate.candidate < EntryDuration[r] => Fine(gate)
    BY <1>3 DEF Gate, Pending, Closed
  <2>3. Fine(closed(gate)) /\ Fine(OpenGate)
    BY <1>3 DEF Gate, Pending, Closed, OpenGate, Never
  <2> QED BY <2>1, <2>2, <2>3
<1>4. CASE gate.state \in {"ACTIVE", "RECOVERY_CANDIDATE"}
  <2>1. next \in {leaving, OpenGate, gate, relapsed}
    BY <1>4 DEF GateUpdate, TryDeactivate
  <2>2. \A e \in {leaving, OpenGate, gate, relapsed} : e \in Gate /\ ~Pending(e)
    <3>1. OpenGate \in Gate /\ ~Pending(OpenGate)
      BY DEF Gate, Pending, OpenGate, Never
    <3> HIDE DEF leaving, relapsed
    <3> QED BY <1>4, <1>6, <1>7, <3>1 DEF Pending
  <2>3. Closed(gate)
    BY <1>4 DEF Closed
  <2> QED BY <2>1, <2>2, <2>3
<1>5. CASE gate.state = "INACTIVE" /\ side # "BAD"
  <2>1. next = gate
    BY <1>5 DEF GateUpdate
  <2> QED BY <1>5, <2>1 DEF Pending, Closed
<1> QED BY <1>2, <1>3, <1>4, <1>5 DEF Gate

\* While the face can be analysed nothing reaches back behind the last recovery (or
\* any other time given); while it cannot, the episode began after it.
Sound(q, recovered, t) ==
  /\ q \in Quality
  /\ recovered \in 0..t
  /\ \A r \in Reasons : Pending(q.gates[r]) => t - q.gates[r].candidate < EntryDuration[r]
  /\ Usable(q) =>
       /\ q.since = Never
       /\ \A r \in Reasons :
            /\ ~Closed(q.gates[r])
            /\ Pending(q.gates[r]) => q.gates[r].candidate >= recovered
  /\ ~Usable(q) => q.since # Never /\ q.since >= recovered
  /\ q.state = "USABLE" => \A r \in Reasons : ~Pending(q.gates[r])
  /\ IF q.state = "RECOVERY_CANDIDATE" THEN q.recovery \in recovered..t
                                      ELSE q.recovery = Never

QualityInv == Sound(quality, recoveredAt, now)

LEMMA ObservedStartIsLate ==
  ASSUME NEW gates \in [Reasons -> Gate], NEW t \in Nat, NEW bound \in 0..t,
         \A r \in Reasons : Closed(gates[r]) => gates[r].active >= bound
  PROVE  ObservedStart(gates, t) \in Nat /\ ObservedStart(gates, t) >= bound
<1> DEFINE S == {t} \cup {gates[r].active : r \in {x \in Reasons : Closed(gates[x])}}
<1>1. \A s \in S : s \in Nat /\ s >= bound
  BY DEF Gate
<1>2. \E s \in S : \A r \in Reasons : Closed(gates[r]) => s <= gates[r].active
  <2>1. PICK s \in S : \A y \in S : s <= y
    <3> HIDE DEF S
    <3>1. S \subseteq Nat
      BY <1>1
    <3>2. S # {}
      BY DEF S
    <3> QED BY <3>1, <3>2, LeastExists
  <2>2. \A r \in Reasons : Closed(gates[r]) => gates[r].active \in S
    OBVIOUS
  <2> HIDE DEF S
  <2> QED BY <2>1, <2>2
<1>3. ObservedStart(gates, t) \in S
  BY <1>2 DEF ObservedStart
<1> QED BY <1>1, <1>3

States == {"USABLE", "DEGRADED_CANDIDATE", "UNUSABLE", "RECOVERY_CANDIDATE"}

LEMMA StateMoves ==
  ASSUME NEW q \in Quality, NEW s \in States, NEW e, e = [q EXCEPT !.state = s]
  PROVE  e \in Quality /\ e.state = s /\ e.gates = q.gates /\ e.since = q.since /\ e.recovery = q.recovery
  BY DEF Quality, States

LEMMA GatesMove ==
  ASSUME NEW q \in Quality, NEW g \in [Reasons -> Gate], NEW e, e = [q EXCEPT !.gates = g]
  PROVE  e \in Quality /\ e.state = q.state /\ e.gates = g /\ e.since = q.since /\ e.recovery = q.recovery
  BY DEF Quality

LEMMA SinceMoves ==
  ASSUME NEW q \in Quality, NEW c \in Int, NEW e, e = [q EXCEPT !.since = c]
  PROVE  e \in Quality /\ e.state = q.state /\ e.gates = q.gates /\ e.since = c /\ e.recovery = q.recovery
  BY DEF Quality

LEMMA RecoveryMoves ==
  ASSUME NEW q \in Quality, NEW c \in Int, NEW e, e = [q EXCEPT !.recovery = c]
  PROVE  e \in Quality /\ e.state = q.state /\ e.gates = q.gates /\ e.since = q.since /\ e.recovery = c
  BY DEF Quality

\* The two ways a frame changes the analysis, after its gates.
LEMMA Unavailable ==
  ASSUME NEW q \in Quality, NEW t \in Nat, NEW bound \in 0..t,
         Usable(q) => \A r \in Reasons : Closed(q.gates[r]) => q.gates[r].active >= bound,
         ~Usable(q) => q.since # Never /\ q.since >= bound,
         q.state # "RECOVERY_CANDIDATE" => q.recovery = Never
  PROVE  LET e == EnterUnavailable(q, t)
         IN /\ e \in Quality /\ e.gates = q.gates /\ e.state = "UNUSABLE" /\ e.recovery = Never
            /\ e.since # Never /\ e.since >= bound
<1> DEFINE e == EnterUnavailable(q, t)
           unusable == [q EXCEPT !.state = "UNUSABLE"]
<1>0. /\ "UNUSABLE" \in States /\ Never \in Int /\ q.gates \in [Reasons -> Gate]
      /\ q.since \in Int
  BY DEF States, Never, Quality
<1>1. CASE q.state = "UNUSABLE"
  BY <1>1 DEF EnterUnavailable, Usable
<1>2. /\ unusable \in Quality /\ unusable.gates = q.gates /\ unusable.state = "UNUSABLE"
      /\ unusable.since = q.since
  BY <1>0, StateMoves
<1>3. CASE q.state = "RECOVERY_CANDIDATE"
  <2>1. e = [unusable EXCEPT !.recovery = Never]
    BY <1>3 DEF EnterUnavailable
  <2> HIDE DEF e, unusable
  <2>2. e \in Quality /\ e.gates = q.gates /\ e.state = "UNUSABLE" /\ e.since = q.since
        /\ e.recovery = Never
    BY <1>0, <1>2, <2>1, RecoveryMoves
  <2> QED BY <1>3, <2>2 DEF e, Usable
<1>4. CASE Usable(q)
  <2> DEFINE start == ObservedStart(q.gates, t)
             dated == [unusable EXCEPT !.since = start]
  <2>1. e = [dated EXCEPT !.recovery = Never]
    BY <1>4 DEF EnterUnavailable, Usable
  <2>2. start \in Nat /\ start >= bound
    BY <1>0, <1>4, ObservedStartIsLate
  <2> HIDE DEF start, e, unusable
  <2>3. start \in Int /\ start # Never
    BY <2>2 DEF Never
  <2>4. /\ dated \in Quality /\ dated.gates = q.gates /\ dated.state = "UNUSABLE"
        /\ dated.since = start
    BY <1>2, <2>3, SinceMoves DEF States
  <2> HIDE DEF dated
  <2>5. e \in Quality /\ e.gates = q.gates /\ e.state = "UNUSABLE" /\ e.since = start
        /\ e.recovery = Never
    BY <1>0, <2>1, <2>4, RecoveryMoves
  <2> QED BY <2>2, <2>3, <2>5 DEF e
<1> QED BY <1>1, <1>3, <1>4 DEF Quality, Usable

LEMMA Recovering ==
  ASSUME NEW q \in Quality, NEW t \in Nat
  PROVE  LET e == AdvanceRecovery(q, t)
         IN /\ e \in Quality /\ e.gates = q.gates
            /\ q.state = "UNUSABLE" =>
                 e.state = "RECOVERY_CANDIDATE" /\ e.recovery = t /\ e.since = q.since
            /\ q.state = "RECOVERY_CANDIDATE" =>
                 \/ e = q
                 \/ /\ e.state = "USABLE" /\ e.since = Never /\ e.recovery = Never
                    /\ t - q.recovery >= AnalysisWarmup
            /\ Usable(q) => e = q
<1> DEFINE e == AdvanceRecovery(q, t)
<1>0. Never \in Int /\ t \in Int /\ q.gates \in [Reasons -> Gate]
  BY DEF Never, Quality
<1>1. CASE q.state = "UNUSABLE"
  <2> DEFINE recovering == [q EXCEPT !.state = "RECOVERY_CANDIDATE"]
  <2>1. e = [recovering EXCEPT !.recovery = t]
    BY <1>1 DEF AdvanceRecovery
  <2>2. /\ recovering \in Quality /\ recovering.gates = q.gates
        /\ recovering.state = "RECOVERY_CANDIDATE" /\ recovering.since = q.since
    BY <1>0, StateMoves DEF States
  <2> HIDE DEF e, recovering
  <2>3. /\ e \in Quality /\ e.gates = q.gates /\ e.state = "RECOVERY_CANDIDATE"
        /\ e.recovery = t /\ e.since = q.since
    BY <1>0, <2>1, <2>2, RecoveryMoves DEF States
  <2> QED BY <1>1, <2>3 DEF e, Usable
<1>2. CASE q.state = "RECOVERY_CANDIDATE" /\ t - q.recovery >= AnalysisWarmup
  <2> DEFINE usable == [q EXCEPT !.state = "USABLE"]
             fresh == [usable EXCEPT !.since = Never]
  <2>1. e = [fresh EXCEPT !.recovery = Never]
    BY <1>2 DEF AdvanceRecovery
  <2>2. usable \in Quality /\ usable.gates = q.gates /\ usable.state = "USABLE"
    BY <1>0, StateMoves DEF States
  <2> HIDE DEF e, usable
  <2>3. /\ fresh \in Quality /\ fresh.gates = q.gates /\ fresh.state = "USABLE"
        /\ fresh.since = Never
    BY <1>0, <2>2, SinceMoves DEF States
  <2> HIDE DEF fresh
  <2>4. e \in Quality /\ e.gates = q.gates /\ e.state = "USABLE" /\ e.since = Never
        /\ e.recovery = Never
    BY <1>0, <2>1, <2>3, RecoveryMoves DEF States
  <2> QED BY <1>2, <2>4 DEF e, Usable
<1>3. CASE q.state # "UNUSABLE" /\ ~(q.state = "RECOVERY_CANDIDATE" /\ t - q.recovery >= AnalysisWarmup)
  <2>1. e = q
    BY <1>3 DEF AdvanceRecovery
  <2> HIDE DEF e
  <2> QED BY <1>3, <2>1 DEF e
<1> QED BY <1>1, <1>2, <1>3

LEMMA QualityUpdates ==
  ASSUME NEW q, NEW bound, NEW before \in Nat, Sound(q, bound, before),
         NEW t \in Nat, before <= t, NEW sides \in [Reasons -> Sides], NEW stopped \in BOOLEAN
  PROVE  LET new == QualityUpdate(q, sides, stopped, t)
         IN /\ Sound(new, IF Recovered(q, new) THEN q.recovery ELSE bound, t)
            /\ Recovered(q, new) => q.recovery \in bound..t
            /\ stopped => ~Usable(new)
<1> DEFINE gates == [r \in Reasons |-> GateUpdate(q.gates[r], sides[r], r, t)]
           seen == [q EXCEPT !.gates = gates]
           closed == \E r \in Reasons : Closed(gates[r])
           next == IF stopped \/ closed THEN EnterUnavailable(seen, t)
                   ELSE AdvanceRecovery(seen, t)
           pending == \E r \in Reasons : gates[r].state = "ENTRY_CANDIDATE"
           shown == [next EXCEPT !.state = IF pending THEN "DEGRADED_CANDIDATE" ELSE "USABLE"]
           new == IF ~Usable(next) THEN next ELSE shown
           later == IF Recovered(q, new) THEN q.recovery ELSE bound
<1>1. /\ q \in Quality /\ q.gates \in [Reasons -> Gate] /\ q.state \in States
      /\ bound \in 0..before /\ bound \in 0..t
  BY DEF Sound, Quality, States
<1>2. gates \in [Reasons -> Gate]
  BY <1>1, GateUpdates
<1>3. \A r \in Reasons :
        /\ Pending(gates[r]) =>
             /\ t - gates[r].candidate < EntryDuration[r]
             /\ \/ gates[r].candidate = t
                \/ Pending(q.gates[r]) /\ gates[r].candidate = q.gates[r].candidate
        /\ ~Closed(q.gates[r]) /\ Closed(gates[r]) =>
             \/ gates[r].active = t
             \/ Pending(q.gates[r]) /\ gates[r].active = q.gates[r].candidate
  <2> SUFFICES ASSUME NEW r \in Reasons
               PROVE  /\ Pending(gates[r]) =>
                           /\ t - gates[r].candidate < EntryDuration[r]
                           /\ \/ gates[r].candidate = t
                              \/ Pending(q.gates[r]) /\ gates[r].candidate = q.gates[r].candidate
                      /\ ~Closed(q.gates[r]) /\ Closed(gates[r]) =>
                           \/ gates[r].active = t
                           \/ Pending(q.gates[r]) /\ gates[r].active = q.gates[r].candidate
    OBVIOUS
  <2>1. gates[r] = GateUpdate(q.gates[r], sides[r], r, t)
    OBVIOUS
  <2>2. q.gates[r] \in Gate /\ sides[r] \in Sides
    BY <1>1
  <2> HIDE DEF gates
  <2> QED BY <2>1, <2>2, GateUpdates
<1> HIDE DEF gates
<1>4. /\ seen \in Quality /\ seen.gates = gates /\ seen.state = q.state
      /\ seen.since = q.since /\ seen.recovery = q.recovery
  BY <1>1, <1>2, GatesMove
<1>5. Usable(seen) = Usable(q)
  BY <1>4 DEF Usable
<1> HIDE DEF seen
<1>6. CASE stopped \/ closed
  <2>1. Usable(seen) => \A r \in Reasons : Closed(gates[r]) => gates[r].active >= bound
    BY <1>1, <1>3, <1>5 DEF Sound, Pending
  <2>2. ~Usable(seen) => seen.since # Never /\ seen.since >= bound
    BY <1>4, <1>5 DEF Sound
  <2>0. seen.state # "RECOVERY_CANDIDATE" => seen.recovery = Never
    BY <1>4 DEF Sound
  <2>3. /\ next \in Quality /\ next.gates = gates /\ next.state = "UNUSABLE"
        /\ next.since # Never /\ next.since >= bound /\ next.recovery = Never
    <3>1. next = EnterUnavailable(seen, t)
      BY <1>6
    <3> HIDE DEF next
    <3> QED BY <1>1, <1>4, <2>0, <2>1, <2>2, <3>1, Unavailable
  <2> HIDE DEF next
  <2>4. ~Usable(next)
    BY <2>3 DEF Usable
  <2>5. new = next /\ later = bound /\ ~Recovered(q, new) /\ ~Usable(new)
    BY <2>3, <2>4 DEF Recovered
  <2> HIDE DEF new, later
  <2>6. Sound(new, later, t)
    BY <1>1, <1>3, <2>3, <2>4, <2>5 DEF Sound, Pending
  <2> QED BY <2>5, <2>6 DEF new, later, next, shown, pending, closed, seen, gates, QualityUpdate
<1>7. CASE ~(stopped \/ closed)
  <2>1. next = AdvanceRecovery(seen, t)
    BY <1>7
  <2> HIDE DEF next
  <2>2. /\ next \in Quality /\ next.gates = gates
        /\ q.state = "UNUSABLE" =>
             next.state = "RECOVERY_CANDIDATE" /\ next.recovery = t /\ next.since = q.since
        /\ q.state = "RECOVERY_CANDIDATE" =>
             \/ next.state = q.state /\ next.since = q.since /\ next.recovery = q.recovery
             \/ /\ next.state = "USABLE" /\ next.since = Never /\ next.recovery = Never
                /\ t - q.recovery >= AnalysisWarmup
        /\ Usable(q) => next.state = q.state /\ next.since = q.since /\ next.recovery = q.recovery
    BY <1>4, <1>5, <2>1, Recovering
  <2>3. CASE ~Usable(next)
    <3>1. new = next /\ ~Usable(q) /\ next.since = q.since
      BY <1>1, <2>2, <2>3 DEF Usable, States
    <3>2. later = bound /\ ~Recovered(q, new)
      BY <3>1 DEF Recovered, Sound
    <3>3. next.state = "RECOVERY_CANDIDATE" /\ next.recovery \in bound..t
      BY <1>1, <2>2, <2>3, <3>1 DEF Sound, Usable, States
    <3> HIDE DEF new, later
    <3>4. Sound(new, later, t)
      BY <1>1, <1>3, <2>2, <2>3, <3>1, <3>2, <3>3 DEF Sound
    <3> QED BY <1>7, <3>2, <3>4 DEF new, later, next, shown, pending, closed, seen, gates, QualityUpdate
  <2>4. CASE Usable(next)
    <3>1. new = shown
      BY <2>4
    <3>2. /\ new \in Quality /\ new.gates = gates /\ new.since = next.since
          /\ new.state \in {"DEGRADED_CANDIDATE", "USABLE"} /\ new.recovery = next.recovery
          /\ new.state = "USABLE" => ~pending
      <4> DEFINE s == IF pending THEN "DEGRADED_CANDIDATE" ELSE "USABLE"
      <4>1. s \in States /\ s \in {"DEGRADED_CANDIDATE", "USABLE"} /\ (s = "USABLE" => ~pending)
        BY DEF States
      <4> HIDE DEF s
      <4>2. shown = [next EXCEPT !.state = s]
        BY DEF s
      <4> HIDE DEF new, shown
      <4> QED BY <2>2, <3>1, <4>1, <4>2, StateMoves
    <3> HIDE DEF new, shown
    <3>3. \A r \in Reasons : ~Closed(gates[r])
      BY <1>7
    <3>4. new.since = Never /\ later \in 0..t /\ new.recovery = Never
          /\ (Recovered(q, new) => q.recovery \in bound..t)
          /\ \A r \in Reasons : Pending(gates[r]) => gates[r].candidate >= later
      <4>1. CASE Usable(q)
        <5>1. new.since = Never /\ later = bound /\ new.recovery = Never /\ ~Recovered(q, new)
          BY <2>2, <3>2, <4>1 DEF Sound, Recovered, Usable
        <5> HIDE DEF later
        <5>2. \A r \in Reasons : Pending(gates[r]) => gates[r].candidate >= bound
          BY <1>1, <1>3, <4>1 DEF Sound
        <5> QED BY <1>1, <5>1, <5>2
      <4>2. CASE ~Usable(q)
        <5>1. /\ q.state = "RECOVERY_CANDIDATE" /\ next.since = Never /\ next.recovery = Never
              /\ t - q.recovery >= AnalysisWarmup
          BY <1>1, <2>2, <2>4, <4>2 DEF Usable, States
        <5>2. /\ new.since = Never /\ later = q.recovery /\ q.recovery \in 0..t
              /\ new.recovery = Never /\ q.recovery \in bound..t
          BY <1>1, <3>2, <4>2, <5>1 DEF Sound, Recovered
        <5> HIDE DEF later
        <5>3. ASSUME NEW r \in Reasons, Pending(gates[r])
              PROVE  gates[r].candidate >= q.recovery
          <6>1. t - gates[r].candidate < EntryDuration[r]
            BY <1>3, <5>3
          <6>2. EntryDuration[r] <= AnalysisWarmup /\ EntryDuration[r] \in Nat
                /\ AnalysisWarmup \in Nat /\ gates[r].candidate \in Int
            BY <1>2, QualityAssumption DEF QualityConfig, Gate
          <6> QED BY <5>1, <5>2, <6>1, <6>2
        <5> QED BY <5>2, <5>3
      <4> QED BY <4>1, <4>2
    <3> HIDE DEF later
    <3>6. new.state = "USABLE" => \A r \in Reasons : ~Pending(gates[r])
      BY <3>2 DEF Pending
    <3>5. Sound(new, later, t)
      BY <1>3, <3>2, <3>3, <3>4, <3>6 DEF Sound, Usable
    <3> QED BY <1>7, <3>4, <3>5 DEF new, later, next, shown, pending, closed, seen, gates, QualityUpdate
  <2> QED BY <2>3, <2>4
<1> QED BY <1>6, <1>7

LEMMA NewQualityIsSound ==
  \A t \in Nat : \A bound \in 0..t : Sound(NewQuality, bound, t)
<1>1. OpenGate \in Gate
  BY DEF Gate, OpenGate, Never
<1>2. [r \in Reasons |-> OpenGate] \in [Reasons -> Gate]
  BY <1>1
<1>3. NewQuality \in Quality
  BY <1>2 DEF NewQuality, Quality, Never
<1>4. \A r \in Reasons : ~Pending(NewQuality.gates[r]) /\ ~Closed(NewQuality.gates[r])
  BY DEF NewQuality, OpenGate, Pending, Closed
<1>5. NewQuality.state = "USABLE" /\ NewQuality.since = Never /\ NewQuality.recovery = Never
  BY DEF NewQuality
<1> QED BY <1>3, <1>4, <1>5 DEF Sound, Usable

LEMMA NextQuality == TimeInv /\ QualityInv /\ [Next]_vars => QualityInv'
<1> SUFFICES ASSUME TimeInv, QualityInv, [Next]_vars PROVE QualityInv'
  OBVIOUS
<1>1. ASSUME NEW step \in 1..MaxStep, NEW sides \in Measured, NEW stopped, NEW scene,
             Frame(step, sides, stopped, scene)
      PROVE  QualityInv'
  <2> DEFINE t == now + step
             q == QualityUpdate(quality, sides, stopped # "NO", t)
  <2>1. t \in Nat /\ now \in Nat /\ now <= t /\ sides \in [Reasons -> Sides]
        /\ (stopped # "NO") \in BOOLEAN
    BY PipelineAssumption DEF TimeInv, Measured
  <2>2. /\ now' = t /\ quality' = q
        /\ recoveredAt' = IF Recovered(quality, q) THEN quality.recovery ELSE recoveredAt
    BY <1>1 DEF Frame, Follow
  <2> HIDE DEF t
  <2>3. Sound(q, IF Recovered(quality, q) THEN quality.recovery ELSE recoveredAt, t)
    BY <2>1, QualityUpdates DEF QualityInv
  <2> HIDE DEF q
  <2> QED BY <2>2, <2>3 DEF QualityInv
<1>2. ASSUME NEW t \in 0..MaxTime, EndSession(t) PROVE QualityInv'
  <2>1. /\ quality' = NewQuality /\ recoveredAt' = recoveredAt /\ now' = t
        /\ t \in now..MaxTime
    BY <1>2 DEF EndSession
  <2>2. recoveredAt \in 0..t
    BY <2>1, PipelineAssumption DEF QualityInv, Sound, TimeInv
  <2> QED BY <2>1, <2>2, NewQualityIsSound DEF QualityInv
<1>3. CASE UseGlobalBaselineFallback \/ UNCHANGED vars
  <2>1. quality' = quality /\ recoveredAt' = recoveredAt /\ now' = now
    BY <1>3 DEF UseGlobalBaselineFallback, historyVars, vars, pipelineVars
  <2> QED BY <2>1 DEF QualityInv
<1> QED BY <1>1, <1>2, <1>3 DEF Next

LEMMA QualityIsSound == Spec => []QualityInv
<1>1. Init => QualityInv
  BY NewQualityIsSound DEF Init, QualityInv
<1> QED BY <1>1, NextQuality, TimeGoesOn, PTL DEF Spec

\* An unavailable episode never reaches back into the one before, whatever the
\* gates are and however they close and open together (UnavailabilityDisjoint).
THEOREM UnavailableEpisodesAreDisjoint == Spec => []UnavailabilityDisjoint
<1>1. QualityInv => UnavailabilityDisjoint
  BY DEF QualityInv, Sound, UnavailabilityDisjoint
<1> QED BY <1>1, QualityIsSound, PTL
----------------------------------------------------------------------------
(* The states of a detector and the clock of its episode. *)

DetectorStates == {"WAITING_FOR_BASELINE", "NORMAL", "CANDIDATE", "ACTIVE",
                   "RECOVERY_CANDIDATE", "COOLDOWN", "SUSPENDED"}
Running(d) == d.state \in {"ACTIVE", "RECOVERY_CANDIDATE"}
Idle(d) == d.state \in {"WAITING_FOR_BASELINE", "NORMAL", "CANDIDATE", "COOLDOWN"}

\* The times of the open episode at time t, and that at most k of it was observed.
Clocked(d, t, k) ==
  /\ d.start \in Nat /\ d.observedAt \in Int /\ d.start <= d.observedAt /\ d.observedAt <= t
  /\ d.paused \in Int /\ (d.paused = Never \/ d.paused >= d.start)
  /\ d.last = Never \/ d.last >= d.start
  /\ d.observed \in Nat /\ d.observed <= d.observedAt - d.start /\ d.observed <= k

Timed(d, t, k) ==
  /\ DOMAIN d = Fields /\ d.last \in Int /\ d.last <= t
  /\ InEpisode(d) => Clocked(d, t, k)

Placed(d, t) ==
  /\ d.state \in DetectorStates
  /\ Running(d) => InEpisode(d)
  /\ Idle(d) => ~InEpisode(d)
  /\ d.state = "CANDIDATE" => d.since \in 0..t

\* Observing up to t would stay within k, as long as the episode is looked at.
Observing(d, t, k) == Running(d) => d.observed + (t - d.observedAt) <= k

Sane(d, t, k) == Timed(d, t, k) /\ Placed(d, t) /\ Observing(d, t, k)

Reports(d, k) == Valid(d.event) /\ (d.event.type = "ENDED" => d.event.observed <= k)

\* An operation that leaves the episode, its clock and the event alone.
Carried(d, e) ==
  /\ DOMAIN e = Fields /\ e.start = d.start /\ e.observedAt = d.observedAt
  /\ e.paused = d.paused /\ e.observed = d.observed /\ e.event = d.event /\ e.last = d.last

LEMMA EnterCarries ==
  ASSUME NEW d, NEW e, Carried(d, e), NEW s, NEW t
  PROVE  LET f == Enter(e, s, t) IN Carried(d, f) /\ f.state = s /\ f.since = t
<1>1. DOMAIN e = Fields
  BY DEF Carried
<1> DEFINE f == Enter(e, s, t)
<1>2. Carried(e, f) /\ f.state = s /\ f.since = t
  BY <1>1 DEF Carried, Enter, Fields
<1> HIDE DEF f
<1> QED BY <1>2 DEF Carried, f

LEMMA CarriedSelf ==
  ASSUME NEW d, DOMAIN d = Fields
  PROVE  Carried(d, d)
  BY DEF Carried

\* The counters, the rule and the warm-up are not part of the clock.
LEMMA CountersCarry ==
  ASSUME NEW d, DOMAIN d = Fields, NEW seen, NEW rule, NEW back, NEW warmup
  PROVE  /\ \A e \in {[d EXCEPT !.seen = seen], [d EXCEPT !.back = back],
                      [d EXCEPT !.seen = seen, !.rule = rule], [d EXCEPT !.warmup = warmup]} :
              Carried(d, e) /\ e.state = d.state /\ e.since = d.since
<1>1. LET e == [d EXCEPT !.seen = seen]
      IN Carried(d, e) /\ e.state = d.state /\ e.since = d.since
  BY DEF Carried, Fields
<1>2. LET e == [d EXCEPT !.back = back]
      IN Carried(d, e) /\ e.state = d.state /\ e.since = d.since
  BY DEF Carried, Fields
<1>3. LET e == [d EXCEPT !.seen = seen, !.rule = rule]
      IN Carried(d, e) /\ e.state = d.state /\ e.since = d.since
  BY DEF Carried, Fields
<1>4. LET e == [d EXCEPT !.warmup = warmup]
      IN Carried(d, e) /\ e.state = d.state /\ e.since = d.since
  BY DEF Carried, Fields
<1> QED BY <1>1, <1>2, <1>3, <1>4

LEMMA CarriedTimes ==
  ASSUME NEW d, NEW e, Carried(d, e), NEW t, NEW k, Timed(d, t, k)
  PROVE  Timed(e, t, k) /\ InEpisode(e) = InEpisode(d)
  BY DEF Timed, Carried, InEpisode, Clocked

LEMMA LaterTimes ==
  ASSUME NEW d, NEW t \in Int, NEW u \in Int, t <= u, NEW k \in Int, NEW m \in Int, k <= m,
         Timed(d, t, k)
  PROVE  Timed(d, u, m)
  BY DEF Timed, Clocked

LEMMA SilentReports ==
  ASSUME NEW d, NEW k, d.event = Silent
  PROVE  Reports(d, k)
  BY DEF Reports, Valid, Silent

\* An episode that is closed after it started is told as one that lasted no longer
\* than it was open and was observed no longer than that.
LEMMA EndEpisodeReports ==
  ASSUME NEW d, NEW t \in Nat, NEW k \in Int, Timed(d, t, k), InEpisode(d),
         NEW at \in Int, at >= d.start
  PROVE  LET e == EndEpisode(d, at)
         IN /\ Timed(e, t, k) /\ ~InEpisode(e) /\ e.event.type = "ENDED" /\ Reports(e, k)
            /\ e.last = d.last /\ e.state = d.state
<1> DEFINE event == [type |-> "ENDED", from |-> d.start, to |-> at,
                     observed |-> Lesser(d.observed, Greater(0, at - d.start))]
           e == EndEpisode(d, at)
<1>1. DOMAIN d = Fields /\ Clocked(d, t, k) /\ d.last \in Int /\ d.last <= t
  BY DEF Timed
<1>2. Lesser(d.observed, Greater(0, at - d.start)) \in 0..(at - d.start)
  BY <1>1 DEF Clocked, Lesser, Greater
<1>3. Lesser(d.observed, Greater(0, at - d.start)) <= k
  BY <1>1 DEF Clocked, Lesser, Greater
<1>4. Valid(event) /\ event.type = "ENDED" /\ event.observed <= k
  BY <1>1, <1>2, <1>3 DEF Valid, Clocked
<1>5. DOMAIN e = Fields /\ e.start = Never /\ e.last = d.last /\ e.state = d.state /\ e.event = event
  BY <1>1 DEF EndEpisode, Fields
<1> HIDE DEF e, event
<1>6. Timed(e, t, k) /\ ~InEpisode(e) /\ Reports(e, k)
  BY <1>1, <1>4, <1>5 DEF Timed, InEpisode, Reports
<1> QED BY <1>4, <1>5, <1>6 DEF e

LEMMA PauseTimes ==
  ASSUME NEW d, NEW t \in Int, NEW k \in Int, Timed(d, t, k),
         NEW since \in Int, InEpisode(d) => since >= d.start
  PROVE  LET e == Pause(d, since)
         IN /\ Timed(e, t, k) /\ e.start = d.start /\ e.event = d.event /\ e.last = d.last
            /\ e.state = d.state
<1> DEFINE e == [d EXCEPT !.paused = since]
<1>1. CASE InEpisode(d) /\ d.paused = Never
  <2>1. DOMAIN d = Fields /\ Clocked(d, t, k)
    BY <1>1 DEF Timed
  <2>2. /\ DOMAIN e = Fields /\ e.start = d.start /\ e.observedAt = d.observedAt
        /\ e.paused = since /\ e.observed = d.observed /\ e.event = d.event /\ e.last = d.last
        /\ e.state = d.state
    BY <2>1 DEF Fields
  <2>3. Pause(d, since) = e
    BY <1>1 DEF Pause
  <2> HIDE DEF e
  <2>4. Timed(e, t, k)
    BY <1>1, <2>1, <2>2 DEF Timed, Clocked
  <2> QED BY <2>2, <2>3, <2>4
<1>2. CASE ~(InEpisode(d) /\ d.paused = Never)
  BY <1>2 DEF Pause
<1> QED BY <1>1, <1>2

Halted(e, t, k) ==
  /\ Sane(e, t, k) /\ Reports(e, k)
  /\ e.state \in {"SUSPENDED", "WAITING_FOR_BASELINE"} /\ e.event.type # "STARTED"

\* Suspending a detector keeps its clock in order, and an episode it ends is told
\* rightly, provided the suspension does not begin before the episode.
LEMMA SuspendReports ==
  ASSUME NEW d, NEW t \in Nat, NEW k \in Int, Timed(d, t, k), d.event = Silent,
         NEW name, NEW immediate \in BOOLEAN, NEW since \in Int,
         InEpisode(d) => since >= d.start
  PROVE  Halted(Suspend(d, name, immediate, since, t), t, k)
<1> DEFINE paused == Pause(d, since)
           ended == IF ~InEpisode(d) THEN d
                    ELSE IF immediate THEN EndEpisode(paused, t)
                    ELSE IF PausedFor(paused, t) > SuspensionGrace
                         THEN EndEpisode(paused, PausedAt(paused, t))
                         ELSE paused
           e == Suspend(d, name, immediate, since, t)
<1>1. /\ Timed(paused, t, k) /\ paused.start = d.start /\ paused.event = Silent
  BY PauseTimes
<1> HIDE DEF paused
<1>2. /\ Timed(ended, t, k) /\ Reports(ended, k) /\ ended.event.type # "STARTED"
      /\ immediate => ~InEpisode(ended)
  <2>1. CASE ~InEpisode(d)
    BY <2>1, SilentReports DEF Silent
  <2>2. CASE InEpisode(d)
    <3>1. InEpisode(paused) /\ Clocked(paused, t, k)
      BY <1>1, <2>2 DEF InEpisode, Timed
    <3>2. t \in Int /\ t >= paused.start
      BY <3>1 DEF Clocked
    <3>3. PausedAt(paused, t) \in Int /\ PausedAt(paused, t) >= paused.start
      BY <3>1, <3>2 DEF PausedAt, Clocked
    <3>4. ASSUME NEW at \in Int, at >= paused.start
          PROVE  LET f == EndEpisode(paused, at)
                 IN Timed(f, t, k) /\ ~InEpisode(f) /\ f.event.type = "ENDED" /\ Reports(f, k)
      BY <1>1, <3>1, <3>4, EndEpisodeReports
    <3>5. CASE immediate
      <4> DEFINE f == EndEpisode(paused, t)
      <4>1. ended = f
        BY <2>2, <3>5
      <4>2. Timed(f, t, k) /\ ~InEpisode(f) /\ f.event.type = "ENDED" /\ Reports(f, k)
        BY <3>2, <3>4
      <4> HIDE DEF f, ended
      <4> QED BY <4>1, <4>2
    <3>6. CASE ~immediate /\ PausedFor(paused, t) > SuspensionGrace
      <4> DEFINE f == EndEpisode(paused, PausedAt(paused, t))
      <4>1. ended = f
        BY <2>2, <3>6
      <4>2. Timed(f, t, k) /\ ~InEpisode(f) /\ f.event.type = "ENDED" /\ Reports(f, k)
        BY <3>3, <3>4
      <4> HIDE DEF f, ended
      <4> QED BY <3>6, <4>1, <4>2
    <3>7. CASE ~immediate /\ ~(PausedFor(paused, t) > SuspensionGrace)
      BY <1>1, <2>2, <3>7, SilentReports DEF Silent
    <3> QED BY <3>5, <3>6, <3>7
  <2> QED BY <2>1, <2>2
<1>3. e = [ended EXCEPT !.state = IF immediate THEN "WAITING_FOR_BASELINE" ELSE "SUSPENDED",
                   !.since = t, !.rule = "NONE", !.seen = 0, !.back = 0,
                   !.warmup = Never,
                   !.last = IF name = "SMILE_EXPRESSION" THEN Never ELSE @]
  BY DEF Suspend, paused
<1> HIDE DEF ended, e
<1>4. /\ DOMAIN e = Fields /\ e.start = ended.start /\ e.observedAt = ended.observedAt
      /\ e.paused = ended.paused /\ e.observed = ended.observed /\ e.event = ended.event
      /\ e.last \in {Never, ended.last}
      /\ e.state = IF immediate THEN "WAITING_FOR_BASELINE" ELSE "SUSPENDED"
  BY <1>2, <1>3 DEF Timed, Fields
<1>5. Timed(e, t, k)
  BY <1>2, <1>4 DEF Timed, InEpisode, Clocked, Never
<1>6. Placed(e, t) /\ Observing(e, t, k)
  BY <1>2, <1>4 DEF Placed, Observing, Running, Idle, InEpisode, DetectorStates
<1>7. Halted(e, t, k)
  BY <1>2, <1>4, <1>5, <1>6 DEF Sane, Reports, Halted
<1> QED BY <1>7 DEF e

\* After a frame gap an episode is suspended and a candidate dropped; without one,
\* the time since the last frame is time that may be observed.
LEMMA AfterGapTimes ==
  ASSUME NEW d, NEW u \in Nat, NEW t \in Nat, u <= t, NEW k \in Int, Sane(d, u, k),
         d.event = Silent, NEW name \in Detectors,
         Running(d) \/ d.state = "CANDIDATE" => d.last = u
  PROVE  LET e == [AfterGap(d, name, t) EXCEPT !.last = t]
         IN /\ Timed(e, t, k) /\ Placed(e, t) /\ e.event = Silent /\ e.last = t
            /\ e.start = d.start
            /\ Observing(e, t, IF t - u <= MaximumGap[name] THEN k + (t - u) ELSE k)
            /\ Running(e) \/ e.state = "CANDIDATE" =>
                 e.state = d.state /\ e.since = d.since /\ t - u <= MaximumGap[name]
<1> DEFINE g == AfterGap(d, name, t)
           m == IF t - u <= MaximumGap[name] THEN k + (t - u) ELSE k
<1>1. MaximumGap[name] \in Nat /\ m \in Int /\ k <= m
  BY BehaviorAssumption DEF DetectorConfig
<1>2. DOMAIN d = Fields /\ d.last \in Int /\ d.last <= t /\ Timed(d, t, k)
  <2>1. Timed(d, u, k) /\ u \in Int /\ t \in Int
    BY DEF Sane
  <2>2. Timed(d, t, k)
    BY <2>1, LaterTimes
  <2> QED BY <2>2 DEF Timed
<1>3. /\ Timed(g, t, k) /\ Placed(g, t) /\ g.event = Silent /\ g.start = d.start
      /\ Observing(g, t, m)
      /\ Running(g) \/ g.state = "CANDIDATE" =>
           g.state = d.state /\ g.since = d.since /\ t - u <= MaximumGap[name]
  <2>1. CASE d.last = Never \/ t - d.last <= MaximumGap[name]
    <3>1. g = d
      BY <2>1 DEF AfterGap
    <3>2. Running(d) \/ d.state = "CANDIDATE" => t - u <= MaximumGap[name]
      BY <2>1 DEF Never
    <3>3. Observing(d, t, m)
      <4> SUFFICES ASSUME Running(d) PROVE d.observed + (t - d.observedAt) <= m
        BY DEF Observing
      <4>1. d.observed \in Int /\ d.observedAt \in Int /\ d.observed + (u - d.observedAt) <= k
        BY DEF Sane, Observing, Placed, Timed, Clocked
      <4>2. m = k + (t - u)
        BY <3>2
      <4> HIDE DEF m
      <4> QED BY <4>1, <4>2
    <3>4. Placed(d, t)
      BY DEF Sane, Placed
    <3> HIDE DEF g, m
    <3> QED BY <1>2, <3>1, <3>2, <3>3, <3>4
  <2>2. CASE ~(d.last = Never \/ t - d.last <= MaximumGap[name]) /\ InEpisode(d)
    <3> DEFINE p == Pause(d, d.last)
    <3>1. g = Enter(p, "SUSPENDED", d.last)
      BY <2>2 DEF AfterGap
    <3>2. d.last >= d.start
      BY <1>2, <2>2 DEF Timed, Clocked
    <3>3. /\ Timed(p, t, k) /\ p.start = d.start /\ p.event = Silent /\ InEpisode(p)
      BY <1>2, <2>2, <3>2, PauseTimes DEF InEpisode
    <3> HIDE DEF p, g
    <3>4. Carried(p, g) /\ g.state = "SUSPENDED"
      BY <3>1, <3>3, CarriedSelf, EnterCarries DEF Timed
    <3>5. Timed(g, t, k)
      BY <3>3, <3>4, CarriedTimes
    <3>6. g.start = d.start /\ g.event = Silent
      BY <3>3, <3>4 DEF Carried
    <3>7. Placed(g, t) /\ Observing(g, t, m)
      BY <3>4 DEF Placed, Observing, Running, Idle, DetectorStates
    <3> QED BY <3>4, <3>5, <3>6, <3>7 DEF Running
  <2>3. CASE ~(d.last = Never \/ t - d.last <= MaximumGap[name]) /\ ~InEpisode(d)
    <3> DEFINE p == [d EXCEPT !.seen = 0, !.rule = "NONE"]
    <3>1. g = Enter(p, "NORMAL", t)
      BY <2>3 DEF AfterGap
    <3>2. Carried(d, p)
      BY <1>2, CountersCarry
    <3> HIDE DEF p, g
    <3>3. Carried(d, g) /\ g.state = "NORMAL"
      BY <3>1, <3>2, EnterCarries
    <3>4. Timed(g, t, k) /\ ~InEpisode(g)
      BY <1>2, <2>3, <3>3, CarriedTimes
    <3>5. g.start = d.start /\ g.event = Silent
      BY <3>3 DEF Carried
    <3>6. Placed(g, t) /\ Observing(g, t, m)
      BY <3>3, <3>4 DEF Placed, Observing, Running, Idle, DetectorStates
    <3> QED BY <3>3, <3>4, <3>5, <3>6 DEF Running
  <2> QED BY <2>1, <2>2, <2>3
<1> HIDE DEF g
<1> DEFINE e == [g EXCEPT !.last = t]
<1>4. DOMAIN g = Fields
  BY <1>3 DEF Timed
<1>5. /\ DOMAIN e = Fields /\ e.start = g.start /\ e.observedAt = g.observedAt
      /\ e.paused = g.paused /\ e.observed = g.observed /\ e.event = g.event /\ e.last = t
      /\ e.state = g.state /\ e.since = g.since
  BY <1>4 DEF Fields
<1> HIDE DEF e
<1>6. Timed(e, t, k)
  BY <1>3, <1>5 DEF Timed, InEpisode, Clocked
<1>7. Placed(e, t) /\ Observing(e, t, m) /\ Running(e) = Running(g)
  BY <1>3, <1>5 DEF Placed, Observing, Running, Idle, InEpisode
<1> HIDE DEF m
<1> QED BY <1>3, <1>5, <1>6, <1>7 DEF e, g, m

\* What follows a suspension: the episode goes on from this frame, or it ended where
\* the suspension began, or a detector without one waits for its warm-up.
LEMMA AfterSuspensionReports ==
  ASSUME NEW d, NEW t \in Nat, NEW k \in Int, Sane(d, t, k), d.event = Silent,
         NEW name \in Detectors
  PROVE  LET e == AfterSuspension(d, name, t)
         IN /\ Sane(e, t, k) /\ Reports(e, k) /\ e.last = d.last
            /\ \/ e.event = Silent
               \/ e.event.type = "ENDED" /\ e.state = "COOLDOWN" /\ ~(t >= e.cooldown)
            /\ e.state = "CANDIDATE" => e = d
<1> DEFINE e == AfterSuspension(d, name, t)
           warm == [d EXCEPT !.warmup = IF @ = Never THEN t + RecoveryWarmup ELSE @]
<1>1. DOMAIN d = Fields /\ Timed(d, t, k) /\ Placed(d, t)
  BY DEF Sane, Timed
<1>2. CASE d.state # "SUSPENDED"
  <2>1. e = d
    BY <1>2 DEF AfterSuspension
  <2> HIDE DEF e
  <2>2. Sane(e, t, k) /\ Reports(e, k) /\ e.last = d.last /\ e.event = Silent
    BY <2>1, SilentReports
  <2> QED BY <2>1, <2>2 DEF e
<1>3. CASE d.state = "SUSPENDED" /\ InEpisode(d) /\ PausedFor(d, t) > SuspensionGrace
  <2> DEFINE ended == EndEpisode(d, PausedAt(d, t))
             cooled == [ended EXCEPT !.cooldown = t + Cooldown[name]]
  <2>1. e = Enter(cooled, "COOLDOWN", t)
    BY <1>3 DEF AfterSuspension
  <2>2. PausedAt(d, t) \in Int /\ PausedAt(d, t) >= d.start
    BY <1>1, <1>3 DEF PausedAt, Timed, Clocked
  <2>3. /\ Timed(ended, t, k) /\ ~InEpisode(ended) /\ ended.event.type = "ENDED"
        /\ Reports(ended, k) /\ ended.last = d.last
    BY <1>1, <1>3, <2>2, EndEpisodeReports
  <2> HIDE DEF ended
  <2>4. DOMAIN ended = Fields
    BY <2>3 DEF Timed
  <2>5. Carried(ended, cooled) /\ cooled.cooldown = t + Cooldown[name]
    BY <2>4 DEF Carried, Fields
  <2> HIDE DEF cooled, e
  <2>6. Carried(ended, e) /\ e.state = "COOLDOWN"
    BY <2>1, <2>5, EnterCarries
  <2>7. e.cooldown = t + Cooldown[name]
    BY <2>1, <2>5 DEF Enter, Carried, Fields
  <2>8. ~(t >= e.cooldown)
    BY <2>7, BehaviorAssumption DEF DetectorConfig
  <2>9. Timed(e, t, k) /\ ~InEpisode(e) /\ e.event = ended.event /\ e.last = d.last
    BY <2>3, <2>6, CarriedTimes DEF Carried
  <2>10. Sane(e, t, k) /\ Reports(e, k)
    BY <2>3, <2>6, <2>9 DEF Sane, Placed, Observing, Running, Idle, DetectorStates, Reports
  <2> QED BY <2>3, <2>6, <2>8, <2>9, <2>10 DEF e
<1>4. CASE d.state = "SUSPENDED" /\ InEpisode(d) /\ ~(PausedFor(d, t) > SuspensionGrace)
  <2> DEFINE resumed == Resume(d, t)
             cool == [resumed EXCEPT !.warmup = Never]
  <2>1. e = Enter(cool, "ACTIVE", t)
    BY <1>4 DEF AfterSuspension
  <2>2. /\ DOMAIN resumed = Fields /\ resumed.start = d.start /\ resumed.observedAt = t
        /\ resumed.paused = Never /\ resumed.observed = d.observed
        /\ resumed.event = d.event /\ resumed.last = d.last
    BY <1>1 DEF Resume, Fields
  <2> HIDE DEF resumed
  <2>3. Timed(resumed, t, k) /\ InEpisode(resumed)
    BY <1>1, <1>4, <2>2 DEF Timed, InEpisode, Clocked, Never
  <2>4. Carried(resumed, cool)
    BY <2>2, CountersCarry
  <2> HIDE DEF cool, e
  <2>5. Carried(resumed, e) /\ e.state = "ACTIVE"
    BY <2>1, <2>4, EnterCarries
  <2>6. Timed(e, t, k) /\ InEpisode(e)
    BY <2>3, <2>5, CarriedTimes
  <2>7. Observing(e, t, k)
    BY <2>2, <2>5, <2>6 DEF Observing, Timed, Clocked, Carried
  <2>8. Placed(e, t)
    BY <2>5, <2>6 DEF Placed, Running, Idle, DetectorStates
  <2>9. e.event = Silent /\ e.last = d.last
    BY <2>2, <2>5 DEF Carried
  <2> QED BY <2>5, <2>6, <2>7, <2>8, <2>9, SilentReports DEF Sane, e
<1>5. CASE d.state = "SUSPENDED" /\ ~InEpisode(d)
  <2> DEFINE normal == Enter([warm EXCEPT !.warmup = Never], "NORMAL", t)
  <2>0. e = IF t >= warm.warmup THEN normal ELSE warm
    BY <1>5, Zenon DEF AfterSuspension
  <2>1. e \in {normal, warm}
    <3> HIDE DEF e, normal, warm
    <3> QED BY <2>0
  <2>2. Carried(d, warm) /\ warm.state = d.state
    <3>1. PICK w : warm = [d EXCEPT !.warmup = w]
      OBVIOUS
    <3> HIDE DEF warm
    <3> QED BY <1>1, <3>1 DEF Carried, Fields
  <2> HIDE DEF warm
  <2>3. Carried(d, normal) /\ normal.state = "NORMAL"
    <3>1. Carried(warm, [warm EXCEPT !.warmup = Never])
      BY <2>2, CountersCarry DEF Carried
    <3>2. Carried(d, [warm EXCEPT !.warmup = Never])
      BY <2>2, <3>1 DEF Carried
    <3> QED BY <3>2, EnterCarries
  <2> HIDE DEF normal, e
  <2>4. Carried(d, e) /\ e.state \in {"NORMAL", "SUSPENDED"}
    BY <1>5, <2>1, <2>2, <2>3
  <2>5. Timed(e, t, k) /\ ~InEpisode(e)
    BY <1>1, <1>5, <2>4, CarriedTimes
  <2>6. Placed(e, t) /\ Observing(e, t, k)
    BY <2>4, <2>5 DEF Placed, Observing, Running, Idle, DetectorStates
  <2>7. e.event = Silent /\ e.last = d.last
    BY <2>4 DEF Carried
  <2> QED BY <2>4, <2>5, <2>6, <2>7, SilentReports DEF Sane, e
<1> QED BY <1>2, <1>3, <1>4, <1>5

\* What update() makes of a detector by time t: an episode that starts does so at its
\* candidate's time, a candidate was let in by the frame, and the event is right.
Outcome(d, e, entry, t, k) ==
  /\ Sane(e, t, IF e.event.type = "STARTED" THEN t - e.event.from ELSE k)
  /\ Reports(e, k)
  /\ e.last = d.last
  /\ e.event.type = "STARTED" =>
       entry /\ d.state = "CANDIDATE" /\ e.event.from = d.since /\ e.start = d.since
  /\ e.state = "CANDIDATE" =>
       entry /\ (e.since = t \/ (d.state = "CANDIDATE" /\ e.since = d.since))

LEMMA CarriedOutcome ==
  ASSUME NEW d, NEW e, NEW t \in Nat, NEW k \in Int, NEW entry \in BOOLEAN, Timed(d, t, k),
         d.event = Silent, Carried(d, e), Placed(e, t), Observing(e, t, k),
         e.state = "CANDIDATE" =>
           entry /\ (e.since = t \/ (d.state = "CANDIDATE" /\ e.since = d.since))
  PROVE  Outcome(d, e, entry, t, k)
<1>1. Timed(e, t, k) /\ e.event = Silent /\ e.last = d.last
  BY CarriedTimes DEF Carried
<1>2. e.event.type # "STARTED"
  BY <1>1 DEF Silent
<1> QED BY <1>1, <1>2, SilentReports DEF Outcome, Sane

\* A candidate that is confirmed opens its episode where it began.
LEMMA ConfirmReports ==
  ASSUME NEW d, NEW t \in Nat, NEW k \in Int, Sane(d, t, k), d.event = Silent,
         d.last = t, d.state = "CANDIDATE", NEW rule, NEW entry \in BOOLEAN, entry
  PROVE  Outcome(d, Confirm(d, rule, t), entry, t, k)
<1> DEFINE e == Confirm(d, rule, t)
           counted == [d EXCEPT !.seen = Lesser(@ + 1, EntryFrames[rule])]
           event == [type |-> "STARTED", from |-> d.since, to |-> t, observed |-> t - d.since]
           started == StartEpisode(counted, t)
           told == [started EXCEPT !.event = event]
           renewed == [d EXCEPT !.seen = 1, !.rule = rule]
<1>1. /\ DOMAIN d = Fields /\ Timed(d, t, k) /\ Placed(d, t) /\ ~InEpisode(d)
      /\ d.since \in 0..t
  BY DEF Sane, Timed, Placed, Idle
<1>2. e \in {Enter(renewed, "CANDIDATE", t), Enter(told, "ACTIVE", t), counted}
  BY DEF Confirm, Candidate
<1>3. Carried(d, counted) /\ counted.state = "CANDIDATE" /\ counted.since = d.since
  BY <1>1, CountersCarry
<1>4. CASE e = counted
  <2> HIDE DEF counted, e
  <2>1. InEpisode(e) = InEpisode(d)
    BY <1>1, <1>3, <1>4, CarriedTimes
  <2>2. Placed(e, t) /\ Observing(e, t, k)
    BY <1>1, <1>3, <1>4, <2>1 DEF Placed, Observing, Running, Idle
  <2>3. Outcome(d, e, entry, t, k)
    BY <1>1, <1>3, <1>4, <2>2, CarriedOutcome
  <2> QED BY <2>3 DEF e
<1>5. CASE e = Enter(renewed, "CANDIDATE", t)
  <2>1. Carried(d, renewed)
    BY <1>1, CountersCarry
  <2> HIDE DEF renewed, e
  <2>2. Carried(d, e) /\ e.state = "CANDIDATE" /\ e.since = t
    BY <1>5, <2>1, EnterCarries
  <2>3. InEpisode(e) = InEpisode(d)
    BY <1>1, <2>2, CarriedTimes
  <2>4. Placed(e, t) /\ Observing(e, t, k)
    BY <1>1, <2>2, <2>3 DEF Placed, Observing, Running, Idle, DetectorStates
  <2>5. Outcome(d, e, entry, t, k)
    BY <1>1, <2>2, <2>4, CarriedOutcome
  <2> QED BY <2>5 DEF e
<1>6. CASE e = Enter(told, "ACTIVE", t)
  <2> HIDE DEF counted
  <2>1. DOMAIN counted = Fields
    BY <1>3 DEF Carried
  <2>2. /\ DOMAIN started = Fields /\ started.start = d.since /\ started.observedAt = t
        /\ started.paused = Never /\ started.observed = t - d.since /\ started.last = d.last
    BY <1>3, <2>1 DEF StartEpisode, Fields, Carried
  <2> HIDE DEF started, event
  <2>3. /\ DOMAIN told = Fields /\ told.start = d.since /\ told.observedAt = t
        /\ told.paused = Never /\ told.observed = t - d.since /\ told.last = d.last
        /\ told.event = event
    BY <2>2 DEF Fields
  <2> HIDE DEF told, e
  <2>4. Carried(told, e) /\ e.state = "ACTIVE"
    BY <1>6, <2>3, CarriedSelf, EnterCarries
  <2>5. /\ DOMAIN e = Fields /\ e.start = d.since /\ e.observedAt = t /\ e.paused = Never
        /\ e.observed = t - d.since /\ e.last = t /\ e.event = event
    BY <2>3, <2>4 DEF Carried
  <2>6. Clocked(e, t, t - d.since) /\ InEpisode(e)
    BY <1>1, <2>5 DEF Clocked, InEpisode, Never
  <2>7. Sane(e, t, t - d.since)
    <3>1. Timed(e, t, t - d.since)
      BY <2>5, <2>6 DEF Timed
    <3>2. Placed(e, t)
      BY <2>4, <2>6 DEF Placed, Running, Idle, DetectorStates
    <3>3. Observing(e, t, t - d.since)
      BY <1>1, <2>5 DEF Observing
    <3> QED BY <3>1, <3>2, <3>3 DEF Sane
  <2>8. event.type = "STARTED" /\ event.from = d.since /\ Valid(event)
    BY <1>1 DEF event, Valid
  <2>9. Reports(e, k)
    BY <2>5, <2>8 DEF Reports
  <2>10. e.event.type = "STARTED" /\ e.event.from = d.since /\ e.start = d.since
    BY <2>5, <2>8
  <2>11. Sane(e, t, IF e.event.type = "STARTED" THEN t - e.event.from ELSE k)
    BY ONLY <2>7, <2>10
  <2>12. e.last = d.last /\ e.state # "CANDIDATE"
    BY <2>4, <2>5
  <2>13. Outcome(d, e, entry, t, k)
    BY <2>9, <2>10, <2>11, <2>12 DEF Outcome
  <2> QED BY <2>13 DEF e
<1> HIDE DEF counted, renewed, told
<1> QED BY <1>2, <1>4, <1>5, <1>6

\* One more frame of an open episode is observed up to it, or not at all after a gap.
LEMMA ObserveTimes ==
  ASSUME NEW d, NEW t \in Nat, NEW k \in Int, Sane(d, t, k), Running(d), NEW name \in Detectors
  PROVE  LET e == Observe(d, name, t)
         IN /\ Timed(e, t, k) /\ InEpisode(e) /\ e.event = d.event /\ e.last = d.last
            /\ e.observed + (t - e.observedAt) <= k /\ e.state = d.state
            /\ e.start = d.start /\ e.since = d.since
<1> DEFINE e == Observe(d, name, t)
           gone == [d EXCEPT !.paused = IF @ = Never THEN d.observedAt ELSE @]
           seen == [d EXCEPT !.observed = @ + (t - d.observedAt), !.observedAt = t]
<1>1. /\ DOMAIN d = Fields /\ Timed(d, t, k) /\ InEpisode(d) /\ Clocked(d, t, k)
      /\ d.observed + (t - d.observedAt) <= k
  BY DEF Sane, Timed, Placed, Observing
<1>2. CASE e = gone
  <2>1. /\ DOMAIN e = Fields /\ e.start = d.start /\ e.observedAt = d.observedAt
        /\ e.paused \in {d.paused, d.observedAt} /\ e.observed = d.observed
        /\ e.event = d.event /\ e.last = d.last /\ e.state = d.state /\ e.since = d.since
        /\ (e.paused = d.observedAt \/ d.paused # Never)
    BY <1>1, <1>2 DEF Fields
  <2> HIDE DEF e
  <2>2. Clocked(e, t, k)
    BY <1>1, <2>1 DEF Clocked
  <2>3. Timed(e, t, k) /\ InEpisode(e)
    BY <1>1, <2>1, <2>2 DEF Timed, InEpisode
  <2> QED BY <1>1, <2>1, <2>3 DEF e
<1>3. CASE e = seen
  <2>1. /\ DOMAIN e = Fields /\ e.start = d.start /\ e.observedAt = t
        /\ e.paused = d.paused /\ e.observed = d.observed + (t - d.observedAt)
        /\ e.event = d.event /\ e.last = d.last /\ e.state = d.state /\ e.since = d.since
    BY <1>1, <1>3 DEF Fields
  <2> HIDE DEF e
  <2>2. Clocked(e, t, k)
    BY <1>1, <2>1 DEF Clocked
  <2>3. Timed(e, t, k) /\ InEpisode(e)
    BY <1>1, <2>1, <2>2 DEF Timed, InEpisode
  <2>4. e.observed + (t - e.observedAt) <= k
    BY <1>1, <2>1 DEF Clocked
  <2> QED BY <1>1, <2>1, <2>3, <2>4 DEF e
<1>4. e \in {gone, seen}
  BY DEF Observe
<1> QED BY <1>2, <1>3, <1>4

LEMMA WhileActiveReports ==
  ASSUME NEW d, NEW t \in Nat, NEW k \in Int, Sane(d, t, k), d.event = Silent,
         d.state = "ACTIVE", NEW name \in Detectors, NEW evidence, NEW entry \in BOOLEAN
  PROVE  Outcome(d, WhileActive(d, name, evidence, t), entry, t, k)
<1> DEFINE e == WhileActive(d, name, evidence, t)
           observed == Observe(d, name, t)
           prolonged == Prolong(observed, name, t)
           back == [prolonged EXCEPT !.back = 1]
<1>1. Running(d)
  BY DEF Running
<1>2. /\ Timed(observed, t, k) /\ InEpisode(observed) /\ observed.event = Silent
      /\ observed.last = d.last /\ observed.observed + (t - observed.observedAt) <= k
      /\ observed.state = "ACTIVE"
  BY <1>1, ObserveTimes
<1> HIDE DEF observed
<1>3. /\ Timed(prolonged, t, k) /\ InEpisode(prolonged) /\ Reports(prolonged, k)
      /\ prolonged.event.type # "STARTED" /\ prolonged.last = d.last
      /\ prolonged.observed + (t - prolonged.observedAt) <= k /\ prolonged.state = "ACTIVE"
  <2> DEFINE event == [type |-> "PROLONGED", from |-> observed.start, to |-> t,
                       observed |-> Lesser(observed.observed, t - observed.start)]
             told == [observed EXCEPT !.prolonged = TRUE, !.event = event]
  <2>1. prolonged \in {observed, told}
    BY DEF Prolong
  <2>2. DOMAIN observed = Fields /\ Clocked(observed, t, k)
    BY <1>2 DEF Timed
  <2>3. Lesser(observed.observed, t - observed.start) \in 0..(t - observed.start)
    BY <2>2 DEF Clocked, Lesser
  <2>4. Valid(event) /\ event.type = "PROLONGED"
    BY <2>2, <2>3 DEF Valid, Clocked
  <2> HIDE DEF event
  <2>5. /\ DOMAIN told = Fields /\ told.start = observed.start
        /\ told.observedAt = observed.observedAt /\ told.paused = observed.paused
        /\ told.observed = observed.observed /\ told.last = observed.last
        /\ told.event = event /\ told.state = observed.state
    BY <2>2 DEF Fields
  <2> HIDE DEF told, prolonged
  <2>6. Timed(told, t, k) /\ InEpisode(told)
    BY <1>2, <2>2, <2>5 DEF Timed, InEpisode, Clocked
  <2>7. Reports(told, k) /\ told.event.type # "STARTED"
    BY <2>4, <2>5 DEF Reports
  <2>8. Reports(observed, k) /\ observed.event.type # "STARTED"
    BY <1>2, SilentReports DEF Silent
  <2> QED BY <1>2, <2>1, <2>5, <2>6, <2>7, <2>8
<1> HIDE DEF prolonged
<1>4. /\ \/ e = Enter(observed, "SUSPENDED", PausedAt(observed, t))
         \/ e = Enter(back, "RECOVERY_CANDIDATE", t)
         \/ e = prolonged
  BY DEF WhileActive, observed, prolonged
<1>5. CASE e = Enter(observed, "SUSPENDED", PausedAt(observed, t))
  <2> HIDE DEF e
  <2>1. Carried(observed, e) /\ e.state = "SUSPENDED"
    BY <1>2, <1>5, CarriedSelf, EnterCarries DEF Timed
  <2>2. Timed(e, t, k) /\ e.event = Silent /\ e.last = d.last
    BY <1>2, <2>1, CarriedTimes DEF Carried
  <2>3. Placed(e, t) /\ Observing(e, t, k)
    BY <2>1 DEF Placed, Observing, Running, Idle, DetectorStates
  <2>4. e.event.type # "STARTED" /\ e.state # "CANDIDATE"
    BY <2>1, <2>2 DEF Silent
  <2>5. Outcome(d, e, entry, t, k)
    BY <2>2, <2>3, <2>4, SilentReports DEF Outcome, Sane
  <2> QED BY <2>5 DEF e
<1>6. CASE e \in {Enter(back, "RECOVERY_CANDIDATE", t), prolonged}
  <2>1. Carried(prolonged, back) /\ Carried(prolonged, prolonged)
    BY <1>3, CountersCarry, CarriedSelf DEF Timed
  <2> HIDE DEF e, back
  <2>2. Carried(prolonged, e) /\ e.state \in {"ACTIVE", "RECOVERY_CANDIDATE"}
    BY <1>3, <1>6, <2>1, EnterCarries
  <2>3. Timed(e, t, k) /\ InEpisode(e)
    BY <1>3, <2>2, CarriedTimes
  <2>4. e.event = prolonged.event /\ e.last = d.last
        /\ e.observed + (t - e.observedAt) <= k
    BY <1>3, <2>2 DEF Carried
  <2>5. Placed(e, t) /\ Observing(e, t, k)
    BY <2>2, <2>3, <2>4 DEF Placed, Observing, Running, Idle, DetectorStates
  <2>6. Reports(e, k) /\ e.event.type # "STARTED" /\ e.state # "CANDIDATE"
    BY <1>3, <2>2, <2>4 DEF Reports
  <2>7. Outcome(d, e, entry, t, k)
    BY <2>3, <2>4, <2>5, <2>6 DEF Outcome, Sane
  <2> QED BY <2>7 DEF e
<1> HIDE DEF e, back
<1> QED BY <1>4, <1>5, <1>6 DEF e

LEMMA WhileRecoveringReports ==
  ASSUME NEW d, NEW t \in Nat, NEW k \in Int, Sane(d, t, k), d.event = Silent,
         d.state = "RECOVERY_CANDIDATE", NEW name \in Detectors, NEW evidence,
         NEW entry \in BOOLEAN
  PROVE  Outcome(d, WhileRecovering(d, name, evidence, t), entry, t, k)
<1> DEFINE e == WhileRecovering(d, name, evidence, t)
           seen == Observe(d, name, t)
           observed == [seen EXCEPT !.back = Lesser(@ + 1, RecoveryFrames[name])]
           ended == EndEpisode(observed, t)
           cooled == [ended EXCEPT !.cooldown = t + Cooldown[name]]
           again == [d EXCEPT !.back = 0]
<1>1. /\ Running(d) /\ DOMAIN d = Fields /\ Timed(d, t, k) /\ InEpisode(d)
      /\ d.observed + (t - d.observedAt) <= k
  BY DEF Running, Sane, Timed, Placed, Observing
<1>2. /\ Timed(seen, t, k) /\ InEpisode(seen) /\ seen.event = Silent
      /\ seen.last = d.last /\ seen.observed + (t - seen.observedAt) <= k
      /\ seen.state = "RECOVERY_CANDIDATE" /\ DOMAIN seen = Fields
  BY <1>1, ObserveTimes DEF Timed
<1> HIDE DEF seen
<1>3. Carried(seen, observed) /\ observed.state = "RECOVERY_CANDIDATE"
  BY <1>2, CountersCarry
<1>4. Timed(observed, t, k) /\ InEpisode(observed)
  BY <1>2, <1>3, CarriedTimes
<1>5. Carried(d, again)
  BY <1>1, CountersCarry
<1>6. \/ e = Enter(again, "ACTIVE", t)
      \/ e = Enter(seen, "ACTIVE", t)
      \/ e = Enter(cooled, "COOLDOWN", t)
      \/ e = observed
  BY DEF WhileRecovering, seen
\* The episode goes on, whether this frame was observed or not.
<1>7. ASSUME NEW f \in {d, seen}, Carried(f, e), Running(e) PROVE Outcome(d, e, entry, t, k)
  <2> HIDE DEF e
  <2>1. /\ Timed(f, t, k) /\ InEpisode(f) /\ f.event = Silent /\ f.last = d.last
        /\ f.observed + (t - f.observedAt) <= k
    BY <1>1, <1>2, <1>7
  <2>2. Timed(e, t, k) /\ InEpisode(e) /\ e.event = Silent /\ e.last = d.last
        /\ e.observed + (t - e.observedAt) <= k
    BY <1>7, <2>1, CarriedTimes DEF Carried
  <2>3. Placed(e, t) /\ Observing(e, t, k)
    BY <1>7, <2>2 DEF Placed, Observing, Running, Idle, DetectorStates
  <2>4. e.event.type # "STARTED" /\ e.state # "CANDIDATE"
    BY <1>7, <2>2 DEF Silent, Running
  <2> QED BY <2>2, <2>3, <2>4, SilentReports DEF Outcome, Sane
<1>8. CASE e = Enter(again, "ACTIVE", t)
  <2> HIDE DEF again, e
  <2>1. Carried(d, e) /\ Running(e)
    BY <1>5, <1>8, EnterCarries DEF Running
  <2> QED BY <1>7, <2>1 DEF e
<1>9. CASE e = Enter(seen, "ACTIVE", t)
  <2> HIDE DEF e
  <2>1. Carried(seen, e) /\ Running(e)
    BY <1>2, <1>9, CarriedSelf, EnterCarries DEF Running
  <2> QED BY <1>7, <2>1 DEF e
<1>10. CASE e = observed
  <2> HIDE DEF e, observed
  <2>1. Carried(seen, e) /\ Running(e)
    BY <1>3, <1>10 DEF Running
  <2> QED BY <1>7, <2>1 DEF e
<1>11. CASE e = Enter(cooled, "COOLDOWN", t)
  <2> HIDE DEF observed
  <2>1. t >= observed.start /\ t \in Int
    BY <1>4 DEF Timed, Clocked
  <2>2. /\ Timed(ended, t, k) /\ ~InEpisode(ended) /\ ended.event.type = "ENDED"
        /\ Reports(ended, k) /\ ended.last = observed.last
    BY <1>4, <2>1, EndEpisodeReports
  <2> HIDE DEF ended
  <2>3. Carried(ended, cooled)
    BY <2>2 DEF Timed, Carried, Fields
  <2> HIDE DEF cooled, e
  <2>4. Carried(ended, e) /\ e.state = "COOLDOWN"
    BY <1>11, <2>3, EnterCarries
  <2>5. Timed(e, t, k) /\ ~InEpisode(e) /\ e.event = ended.event /\ e.last = d.last
    BY <1>2, <1>3, <2>2, <2>4, CarriedTimes DEF Carried
  <2>6. Placed(e, t) /\ Observing(e, t, k)
    BY <2>4, <2>5 DEF Placed, Observing, Running, Idle, DetectorStates
  <2>7. Reports(e, k) /\ e.event.type # "STARTED" /\ e.state # "CANDIDATE"
    BY <2>2, <2>4, <2>5 DEF Reports
  <2>8. Outcome(d, e, entry, t, k)
    BY <2>5, <2>6, <2>7 DEF Outcome, Sane
  <2> QED BY <2>8 DEF e
<1> HIDE DEF observed, cooled, again
<1> QED BY <1>6, <1>8, <1>9, <1>10, <1>11

LEMMA JudgeReports ==
  ASSUME NEW d, NEW t \in Nat, NEW k \in Int, Sane(d, t, k), d.event = Silent, d.last = t,
         NEW name \in Detectors, NEW evidence, NEW canStart \in BOOLEAN
  PROVE  Outcome(d, Judge(d, name, evidence, canStart, t), canStart /\ evidence \in Rules, t, k)
<1> DEFINE entry == canStart /\ evidence \in Rules
           e == Judge(d, name, evidence, canStart, t)
           candidate == [d EXCEPT !.seen = 1, !.rule = evidence]
           dropped == [d EXCEPT !.seen = 0, !.rule = "NONE"]
<1>0. entry \in BOOLEAN
  OBVIOUS
<1>1. DOMAIN d = Fields /\ Timed(d, t, k) /\ Placed(d, t) /\ Observing(d, t, k)
  BY DEF Sane, Timed
<1>2. Carried(d, candidate) /\ Carried(d, dropped) /\ Carried(d, d)
  BY <1>1, CountersCarry, CarriedSelf
<1> HIDE DEF entry
<1>3. CASE d.state = "NORMAL" /\ entry
  <2>1. e = Enter(candidate, "CANDIDATE", t)
    BY <1>3 DEF Judge, Candidate, entry
  <2> HIDE DEF e, candidate
  <2>2. Carried(d, e) /\ e.state = "CANDIDATE" /\ e.since = t
    BY <1>2, <2>1, EnterCarries
  <2>3. ~InEpisode(d) /\ InEpisode(e) = InEpisode(d)
    BY <1>1, <1>3, <2>2, CarriedTimes DEF Placed, Idle
  <2>4. Placed(e, t) /\ Observing(e, t, k)
    BY <2>2, <2>3 DEF Placed, Observing, Running, Idle, DetectorStates
  <2>5. Outcome(d, e, entry, t, k)
    BY <1>0, <1>1, <1>3, <2>2, <2>4, CarriedOutcome
  <2> QED BY <2>5 DEF e, entry
<1>4. CASE d.state = "CANDIDATE" /\ entry
  <2>1. e = Confirm(d, evidence, t)
    BY <1>4 DEF Judge, entry
  <2> HIDE DEF e
  <2>2. Outcome(d, e, entry, t, k)
    BY <1>0, <1>4, <2>1, ConfirmReports
  <2> QED BY <2>2 DEF e, entry
<1>5. CASE d.state = "CANDIDATE" /\ ~entry
  <2>1. e = Enter(dropped, "NORMAL", t)
    BY <1>5 DEF Judge, entry
  <2> HIDE DEF e, dropped
  <2>2. Carried(d, e) /\ e.state = "NORMAL"
    BY <1>2, <2>1, EnterCarries
  <2>3. ~InEpisode(d) /\ InEpisode(e) = InEpisode(d)
    BY <1>1, <1>5, <2>2, CarriedTimes DEF Placed, Idle
  <2>4. Placed(e, t) /\ Observing(e, t, k)
    BY <2>2, <2>3 DEF Placed, Observing, Running, Idle, DetectorStates
  <2>5. Outcome(d, e, entry, t, k)
    BY <1>0, <1>1, <2>2, <2>4, CarriedOutcome
  <2> QED BY <2>5 DEF e, entry
<1>6. CASE d.state = "ACTIVE"
  <2>1. e = WhileActive(d, name, evidence, t)
    BY <1>6 DEF Judge
  <2> HIDE DEF e
  <2>2. Outcome(d, e, entry, t, k)
    BY <1>0, <1>6, <2>1, WhileActiveReports
  <2> QED BY <2>2 DEF e, entry
<1>7. CASE d.state = "RECOVERY_CANDIDATE"
  <2>1. e = WhileRecovering(d, name, evidence, t)
    BY <1>7 DEF Judge
  <2> HIDE DEF e
  <2>2. Outcome(d, e, entry, t, k)
    BY <1>0, <1>7, <2>1, WhileRecoveringReports
  <2> QED BY <2>2 DEF e, entry
<1>8. CASE d.state \notin {"CANDIDATE", "ACTIVE", "RECOVERY_CANDIDATE"}
           /\ ~(d.state = "NORMAL" /\ entry)
  <2>1. e = d
    BY <1>8 DEF Judge, entry
  <2> HIDE DEF e
  <2>2. Outcome(d, e, entry, t, k)
    BY <1>0, <1>1, <1>2, <1>8, <2>1, CarriedOutcome
  <2> QED BY <2>2 DEF e, entry
<1> QED BY <1>3, <1>4, <1>5, <1>6, <1>7, <1>8

\* A detector that waited for its baseline or cooled down is ready for a candidate.
LEMMA AfterWaitingTimes ==
  ASSUME NEW d, NEW t \in Nat, NEW k \in Int, Sane(d, t, k)
  PROVE  LET e == AfterWaiting(d, t)
         IN Sane(e, t, k) /\ e.event = d.event /\ e.last = d.last /\ (e.state = "CANDIDATE" => e = d)
<1> DEFINE e == AfterWaiting(d, t)
           n == Enter(d, "NORMAL", t)
<1>1. \/ e = d
      \/ Idle(d) /\ e = n
  BY DEF AfterWaiting, Idle
<1>2. CASE Idle(d) /\ e = n
  <2>1. Timed(d, t, k) /\ ~InEpisode(d) /\ DOMAIN d = Fields
    BY <1>2 DEF Sane, Placed, Timed
  <2>2. Carried(d, n) /\ n.state = "NORMAL"
    BY <2>1, CarriedSelf, EnterCarries
  <2> HIDE DEF n
  <2>3. Timed(n, t, k) /\ ~InEpisode(n)
    BY <2>1, <2>2, CarriedTimes
  <2>4. Placed(n, t) /\ Observing(n, t, k)
    BY <2>2, <2>3 DEF Placed, Observing, Running, Idle, DetectorStates
  <2>5. Sane(n, t, k) /\ n.event = d.event /\ n.last = d.last
    BY <2>2, <2>3, <2>4 DEF Sane, Carried
  <2> QED BY <1>2, <2>2, <2>5
<1> QED BY <1>1, <1>2

\* A whole update: from a frame at u to one at t, of which m bounds what was observed.
Answered(d, e, evidence, canStart, name, ready, u, t, m) ==
  /\ Sane(e, t, IF e.event.type = "STARTED" THEN t - e.event.from ELSE m)
  /\ Reports(e, m)
  /\ e.event.type = "STARTED" =>
       /\ canStart /\ ~Unreliable(evidence) /\ t - u <= MaximumGap[name]
       /\ d.state = "CANDIDATE" /\ e.event.from = d.since /\ e.start = d.since
  /\ Running(e) \/ e.state = "CANDIDATE" => e.last = t /\ ~Unreliable(evidence) /\ ready
  /\ e.state = "CANDIDATE" =>
       /\ canStart
       /\ \/ e.since = t
          \/ d.state = "CANDIDATE" /\ e.since = d.since /\ t - u <= MaximumGap[name]

LEMMA UpdateReports ==
  ASSUME NEW d, NEW u \in Nat, NEW t \in Nat, u <= t, NEW k \in Int, Sane(d, u, k),
         d.event = Silent, NEW name \in Detectors,
         Running(d) \/ d.state = "CANDIDATE" => d.last = u,
         NEW evidence, NEW canStart \in BOOLEAN, NEW ready \in BOOLEAN,
         NEW m \in Int, k <= m,
         Running(d) /\ ~Unreliable(evidence) /\ t - u <= MaximumGap[name] => k + (t - u) <= m
  PROVE  Answered(d, Update(d, name, evidence, canStart, ready, t),
                  evidence, canStart, name, ready, u, t, m)
<1> DEFINE e == Update(d, name, evidence, canStart, ready, t)
           seen == [AfterGap(d, name, t) EXCEPT !.last = t]
           gapped == IF t - u <= MaximumGap[name] THEN k + (t - u) ELSE k
           awake == AfterSuspension(seen, name, t)
           waited == AfterWaiting(awake, t)
           judged == Judge(waited, name, evidence, canStart, t)
           entry == canStart /\ evidence \in Rules
<1>1. /\ Timed(seen, t, k) /\ Placed(seen, t) /\ seen.event = Silent /\ seen.last = t
      /\ Observing(seen, t, gapped)
      /\ Running(seen) \/ seen.state = "CANDIDATE" =>
           seen.state = d.state /\ seen.since = d.since /\ t - u <= MaximumGap[name]
  BY AfterGapTimes
<1> HIDE DEF seen
<1>2. Timed(seen, t, m)
  BY <1>1, LaterTimes
<1>3. \/ e = Suspend(d, name, FALSE, t, t) /\ ~ready
      \/ e = Suspend(seen, name, FALSE, t, t)
      \/ e = judged /\ ready /\ ~Unreliable(evidence)
  BY DEF Update, seen
<1>4. CASE e = Suspend(d, name, FALSE, t, t) \/ e = Suspend(seen, name, FALSE, t, t)
  <2> HIDE DEF e
  <2>1. PICK f : f \in {d, seen} /\ e = Suspend(f, name, FALSE, t, t)
    BY <1>4
  <2>2. Timed(d, t, m)
    <3>1. Timed(d, u, k)
      BY DEF Sane
    <3> QED BY <3>1, LaterTimes
  <2>3. Timed(f, t, m) /\ f.event = Silent
    BY <1>1, <1>2, <2>1, <2>2
  <2>4. t \in Int /\ (InEpisode(f) => t >= f.start)
    BY <2>3 DEF Timed, Clocked
  <2>5. Halted(e, t, m)
    BY <2>1, <2>3, <2>4, SuspendReports
  <2>6. Answered(d, e, evidence, canStart, name, ready, u, t, m)
    BY <2>5 DEF Answered, Halted, Running
  <2> QED BY <2>6 DEF e
<1>5. CASE e = judged /\ ready /\ ~Unreliable(evidence)
  <2>0. gapped \in Int /\ (Running(seen) => gapped <= m)
    <3>1. MaximumGap[name] \in Nat
      BY BehaviorAssumption DEF DetectorConfig
    <3>2. Running(seen) => Running(d)
      BY <1>1 DEF Running
    <3> QED BY <1>1, <1>5, <3>1, <3>2
  <2>1. Observing(seen, t, m)
    <3> SUFFICES ASSUME Running(seen) PROVE seen.observed + (t - seen.observedAt) <= m
      BY DEF Observing
    <3> HIDE DEF gapped
    <3>1. seen.observed \in Int /\ seen.observedAt \in Int
      BY <1>1 DEF Placed, Timed, Clocked
    <3>2. seen.observed + (t - seen.observedAt) <= gapped
      BY <1>1 DEF Observing
    <3> QED BY <2>0, <3>1, <3>2
  <2>2. Sane(seen, t, m)
    BY <1>1, <1>2, <2>1 DEF Sane
  <2>3. /\ Sane(awake, t, m) /\ Reports(awake, m) /\ awake.last = t
        /\ \/ awake.event = Silent
           \/ awake.event.type = "ENDED" /\ awake.state = "COOLDOWN" /\ ~(t >= awake.cooldown)
        /\ awake.state = "CANDIDATE" => awake = seen
    BY <1>1, <2>2, AfterSuspensionReports
  <2> HIDE DEF awake, e
  <2>4. CASE awake.event = Silent
    <3>1. /\ Sane(waited, t, m) /\ waited.event = Silent /\ waited.last = t
          /\ waited.state = "CANDIDATE" => waited = awake
      BY <2>3, <2>4, AfterWaitingTimes
    <3> HIDE DEF waited
    <3>2. Outcome(waited, judged, entry, t, m)
      BY <3>1, JudgeReports
    <3> HIDE DEF judged
    <3>3. waited.state = "CANDIDATE" =>
            d.state = "CANDIDATE" /\ waited.since = d.since /\ t - u <= MaximumGap[name]
      BY <1>1, <2>3, <3>1
    <3>4. Answered(d, judged, evidence, canStart, name, ready, u, t, m)
      <4>1. Sane(judged, t, IF judged.event.type = "STARTED" THEN t - judged.event.from ELSE m)
        BY <3>2 DEF Outcome
      <4>2. Reports(judged, m) /\ judged.last = t
        BY <3>1, <3>2 DEF Outcome
      <4>3. judged.event.type = "STARTED" =>
              /\ canStart /\ t - u <= MaximumGap[name]
              /\ d.state = "CANDIDATE" /\ judged.event.from = d.since /\ judged.start = d.since
        BY <3>2, <3>3 DEF Outcome
      <4>4. judged.state = "CANDIDATE" =>
              /\ canStart
              /\ \/ judged.since = t
                 \/ d.state = "CANDIDATE" /\ judged.since = d.since /\ t - u <= MaximumGap[name]
        BY <3>2, <3>3 DEF Outcome
      <4> QED BY <1>5, <4>1, <4>2, <4>3, <4>4 DEF Answered
    <3> QED BY <1>5, <3>4 DEF e
  <2>5. CASE awake.event.type = "ENDED" /\ awake.state = "COOLDOWN" /\ ~(t >= awake.cooldown)
    <3>1. waited = awake
      BY <2>5 DEF AfterWaiting
    <3> HIDE DEF waited
    <3>2. judged = awake
      BY <2>5, <3>1 DEF Judge
    <3> HIDE DEF judged
    <3>3. Answered(d, judged, evidence, canStart, name, ready, u, t, m)
      BY <2>3, <2>5, <3>2 DEF Answered, Running
    <3> QED BY <1>5, <3>3 DEF e
  <2> QED BY <2>3, <2>4, <2>5
<1> HIDE DEF judged
<1> QED BY <1>3, <1>4, <1>5

----------------------------------------------------------------------------
(* A detector in a frame, and the gates that may suspend it. *)

\* What holds back to some time holds back to any earlier one.
LEMMA SoundEarlier ==
  ASSUME NEW q, NEW t \in Nat, NEW bound \in Int, Sound(q, bound, t), NEW earlier \in 0..bound
  PROVE  Sound(q, earlier, t)
<1>1. \A r \in Reasons : q.gates[r].candidate \in Int
  BY DEF Sound, Quality, Gate
<1>2. q.since \in Int /\ q.recovery \in Int
  BY DEF Sound, Quality
<1> QED BY <1>1, <1>2 DEF Sound, Usable

\* While a face is good enough to start an episode nothing points into the past.
LEMMA SoundWhenGood ==
  ASSUME NEW q, NEW t \in Nat, NEW bound, Sound(q, bound, t), CanStartBehavior(q),
         NEW any \in 0..t
  PROVE  Sound(q, any, t)
  BY DEF Sound, CanStartBehavior, Usable

\* A frame's quality is sound back to the same time as the last one's.
LEMMA SoundStays ==
  ASSUME NEW q, NEW bound, NEW before \in Nat, Sound(q, bound, before),
         NEW t \in Nat, before <= t, NEW sides \in [Reasons -> Sides], NEW stopped \in BOOLEAN
  PROVE  Sound(QualityUpdate(q, sides, stopped, t), bound, t)
<1> DEFINE new == QualityUpdate(q, sides, stopped, t)
<1>1. /\ Sound(new, IF Recovered(q, new) THEN q.recovery ELSE bound, t)
      /\ Recovered(q, new) => q.recovery \in bound..t
  BY QualityUpdates
<1>2. bound \in Nat
  BY DEF Sound
<1> HIDE DEF new
<1>3. CASE Recovered(q, new)
  <2>1. Sound(new, q.recovery, t) /\ q.recovery \in Int /\ bound \in 0..q.recovery
    BY <1>1, <1>2, <1>3
  <2> QED BY <2>1, SoundEarlier DEF new
<1> QED BY <1>1, <1>3 DEF new

\* What a frame makes of a detector; Seen says of its event and state what the
\* histories clear, watched and covered are compared with.
Seen(d, e, q, c, evidence, name, u, t, m) ==
  /\ Sane(e, t, IF e.event.type = "STARTED" THEN t - e.event.from ELSE m)
  /\ Reports(e, m)
  /\ e.event.type = "STARTED" =>
       /\ Judged(q, evidence) /\ t - u <= MaximumGap[name]
       /\ d.state = "CANDIDATE" /\ e.event.from = d.since
  /\ Running(e) \/ e.state = "CANDIDATE" =>
       e.last = t /\ Watched(q, evidence) /\ c.status \in Calibrated
  /\ e.state = "CANDIDATE" =>
       /\ Judged(q, evidence)
       /\ \/ e.since = t
          \/ d.state = "CANDIDATE" /\ e.since = d.since /\ t - u <= MaximumGap[name]
  /\ InEpisode(e) => e.start = Heard(e.event, d.start)

LEMMA HaltedIsSeen ==
  ASSUME NEW d, NEW e, NEW q, NEW c, NEW evidence, NEW name, NEW u, NEW t, NEW m,
         Halted(e, t, m), Told(d, e)
  PROVE  Seen(d, e, q, c, evidence, name, u, t, m)
  BY DEF Halted, Told, Seen, Running

\* A detector that threw starts anew; the event of its suspension is kept.
LEMMA FailReports ==
  ASSUME NEW d, NEW t \in Nat, NEW k \in Int, Timed(d, t, k), d.event = Silent,
         NEW name
  PROVE  LET e == Fail(d, name, t)
         IN Halted(e, t, k) /\ ~InEpisode(e)
<1> DEFINE e == Fail(d, name, t)
           s == Suspend(d, name, FALSE, t, t)
<1>1. t \in Int /\ (InEpisode(d) => t >= d.start)
  BY DEF Timed, Clocked
<1>2. Halted(s, t, k)
  BY <1>1, SuspendReports
<1>3. e = [NewDetector EXCEPT !.event = s.event]
  BY DEF Fail
<1> HIDE DEF s, e
<1>4. /\ DOMAIN e = Fields /\ e.start = Never /\ e.last = Never /\ e.event = s.event
      /\ e.state = "WAITING_FOR_BASELINE"
  BY <1>3 DEF NewDetector, Fields
<1>5. Timed(e, t, k) /\ ~InEpisode(e)
  BY <1>4 DEF Timed, InEpisode, Never
<1>6. Placed(e, t) /\ Observing(e, t, k)
  BY <1>4, <1>5 DEF Placed, Observing, Running, Idle, DetectorStates
<1>7. Halted(e, t, k)
  BY <1>2, <1>4, <1>5, <1>6 DEF Halted, Sane, Reports
<1> QED BY <1>5, <1>7 DEF e

LEMMA DetectReports ==
  ASSUME NEW name \in Detectors, NEW d, d = [detectors[name] EXCEPT !.event = Silent],
         DOMAIN d = Fields, d.event = Silent,
         NEW u \in Nat, NEW t \in Nat, u <= t, NEW k \in Int, Sane(d, u, k),
         Running(d) \/ d.state = "CANDIDATE" => d.last = u,
         NEW q, q.since \in Int, ~Usable(q) /\ InEpisode(d) => q.since >= d.start,
         NEW c, NEW evidence, NEW m \in Int, k <= m,
         Running(d) /\ Watched(q, evidence) /\ t - u <= MaximumGap[name] => k + (t - u) <= m
  PROVE  Seen(d, Detect(name, q, c, evidence, t), q, c, evidence, name, u, t, m)
<1> DEFINE e == Detect(name, q, c, evidence, t)
<1>1. Timed(d, t, m) /\ Quiet(d)
  <2>1. Timed(d, u, k)
    BY DEF Sane
  <2> QED BY <2>1, LaterTimes DEF Quiet
<1>2. t \in Int /\ (InEpisode(d) => t >= d.start)
  BY <1>1 DEF Timed, Clocked
<1>3. CASE ~Usable(q)
  <2> DEFINE s == Suspend(d, name, FALSE, q.since, t)
  <2>1. e = s
    BY <1>3 DEF Detect
  <2>2. Halted(s, t, m) /\ Told(d, s)
    BY <1>1, <1>3, SuspendReports, SuspendTells
  <2> HIDE DEF s
  <2>3. Seen(d, s, q, c, evidence, name, u, t, m)
    BY <2>2, HaltedIsSeen
  <2> QED BY <2>1, <2>3
<1>4. CASE Usable(q) /\ evidence = "DISABLED"
  <2> DEFINE s == Suspend(d, name, FALSE, t, t)
  <2>1. e = s
    BY <1>4 DEF Detect
  <2>2. Halted(s, t, m) /\ Told(d, s)
    BY <1>1, <1>2, SuspendReports, SuspendTells
  <2> HIDE DEF s
  <2>3. Seen(d, s, q, c, evidence, name, u, t, m)
    BY <2>2, HaltedIsSeen
  <2> QED BY <2>1, <2>3
<1>5. CASE Usable(q) /\ evidence = "THROWS"
  <2>1. e = Fail(d, name, t)
    BY <1>5 DEF Detect
  <2> HIDE DEF e
  <2>2. Halted(e, t, m) /\ ~InEpisode(e)
    BY <1>1, <2>1, FailReports
  <2>3. Seen(d, e, q, c, evidence, name, u, t, m)
    BY <2>2 DEF Halted, Seen, Running
  <2> QED BY <2>3 DEF e
<1>6. CASE Usable(q) /\ evidence \notin {"DISABLED", "THROWS"}
  <2> DEFINE can == CanStartBehavior(q)
             ready == BaselineReady(name, c)
  <2>1. e = Update(d, name, evidence, can, ready, t)
    BY <1>6 DEF Detect
  <2>2. can \in BOOLEAN /\ ready \in BOOLEAN
    BY DEF CanStartBehavior, BaselineReady
  <2>3. ready => c.status \in Calibrated
    BY DEF BaselineReady
  <2>4. ~Unreliable(evidence) => Watched(q, evidence) /\ (can => Judged(q, evidence))
    BY <1>6 DEF Watched, Judged
  <2> HIDE DEF e, can, ready
  <2>8. Running(d) /\ ~Unreliable(evidence) /\ t - u <= MaximumGap[name] => k + (t - u) <= m
    BY <2>4
  <2>5. Answered(d, e, evidence, can, name, ready, u, t, m)
    <3> DEFINE f == Update(d, name, evidence, can, ready, t)
    <3>1. Answered(d, f, evidence, can, name, ready, u, t, m)
      BY ONLY <2>2, <2>8, UpdateReports, name \in Detectors, u \in Nat, t \in Nat, u <= t,
              k \in Int, m \in Int, k <= m, Sane(d, u, k), d.event = Silent,
              Running(d) \/ d.state = "CANDIDATE" => d.last = u, Zenon
    <3> QED BY ONLY <2>1, <3>1
  <2>6. Told(d, e)
    BY <1>1, <2>1, UpdateTells
  <2>7. Seen(d, e, q, c, evidence, name, u, t, m)
    BY <2>3, <2>4, <2>5, <2>6 DEF Answered, Seen, Told
  <2> QED BY <2>7 DEF e
<1> QED BY <1>3, <1>4, <1>5, <1>6

----------------------------------------------------------------------------
(* Episodes and what was observed of them. *)

\* A detector n and its histories: the episode is in the order of its times, open as
\* the consumer believes, not older than what the gates may date back to, and
\* observed for no longer than the frames allow.
EpisodeOf(n) ==
  LET d == detectors[n] IN
  /\ clear[n] \in Int /\ covered[n] \in Int
  /\ Sane(d, now, covered[n]) /\ Reports(d, covered[n])
  /\ d.event.type = "STARTED" => d.event.from >= clear[n]
  /\ InEpisode(d) => open[n] = d.start /\ Sound(quality, d.start, now)
  /\ Running(d) \/ d.state = "CANDIDATE" => d.last = now /\ watched[n]
  /\ d.state = "CANDIDATE" => d.since >= clear[n] /\ calibration.status \in Calibrated

EpisodeInv == \A n \in Detectors : EpisodeOf(n)

LEMMA SilencedIsSane ==
  ASSUME NEW d, NEW t, NEW k, Sane(d, t, k), NEW e, e = [d EXCEPT !.event = Silent]
  PROVE  /\ Sane(e, t, k) /\ e.event = Silent /\ DOMAIN e = Fields /\ e.state = d.state
         /\ e.last = d.last /\ e.start = d.start /\ e.since = d.since
         /\ Running(e) = Running(d) /\ InEpisode(e) = InEpisode(d)
<1>1. DOMAIN d = Fields
  BY DEF Sane, Timed
<1>2. /\ DOMAIN e = Fields /\ e.start = d.start /\ e.observedAt = d.observedAt
      /\ e.paused = d.paused /\ e.observed = d.observed /\ e.event = Silent /\ e.last = d.last
      /\ e.state = d.state /\ e.since = d.since
  BY <1>1 DEF Fields
<1>3. Running(e) = Running(d) /\ InEpisode(e) = InEpisode(d) /\ Idle(e) = Idle(d)
  BY <1>2 DEF Running, InEpisode, Idle
<1>4. Timed(e, t, k)
  BY <1>2, <1>3 DEF Sane, Timed, Clocked
<1>5. Placed(e, t) /\ Observing(e, t, k)
  BY <1>2, <1>3 DEF Sane, Placed, Observing
<1> QED BY <1>2, <1>3, <1>4, <1>5 DEF Sane

\* A detector without an episode is as it should be whatever was observed.
LEMMA NothingObserved ==
  ASSUME NEW d, NEW t, NEW k, Sane(d, t, k), ~InEpisode(d), NEW m
  PROVE  Sane(d, t, m)
  BY DEF Sane, Timed, Placed, Observing

\* What a frame makes of a candidate: an episode starts at the time a detector became
\* one, and a candidate has either become one in this frame or was one before.
FromCandidate(n) ==
  LET d == detectors[n]
      e == detectors'[n]
  IN /\ e.event.type = "STARTED" => d.state = "CANDIDATE" /\ e.event.from = d.since
     /\ e.state = "CANDIDATE" =>
          e.since = now' \/ (d.state = "CANDIDATE" /\ e.since = d.since)

LEMMA FrameEpisode ==
  ASSUME TimeInv, QualityInv, QualityInv', EpisodeInv,
         NEW step \in 1..MaxStep, NEW sides \in Measured, NEW stopped, NEW scene,
         Frame(step, sides, stopped, scene)
  PROVE  EpisodeInv' /\ \A n \in Detectors : FromCandidate(n)
<1> SUFFICES ASSUME NEW n \in Detectors PROVE EpisodeOf(n)' /\ FromCandidate(n)
  BY DEF EpisodeInv
<1> DEFINE t == now + step
           q == QualityUpdate(quality, sides, stopped # "NO", t)
           c == CalibratorUpdate(calibration, q.state = "USABLE" /\ scene.posed, scene.mouth, t)
           d == [detectors[n] EXCEPT !.event = Silent]
           evidence == scene.evidence[n]
           e == detectors'[n]
           small == step <= MaximumGap[n]
           m == IF open[n] = Never THEN 0
                ELSE IF watched[n] /\ Watched(q, evidence) /\ small THEN covered[n] + step
                ELSE covered[n]
           k == IF InEpisode(d) THEN covered[n] ELSE m
<1>1. /\ t \in Nat /\ now \in Nat /\ now <= t /\ step \in Nat /\ t - now = step
      /\ sides \in [Reasons -> Sides] /\ (stopped # "NO") \in BOOLEAN
  BY PipelineAssumption DEF TimeInv, Measured
<1>2. EpisodeOf(n)
  BY DEF EpisodeInv
<1>3. /\ now' = t /\ quality' = q /\ calibration' = c
      /\ e = IF stopped = "CAMERA" THEN Suspend(d, n, TRUE, q.since, t)
             ELSE Detect(n, q, c, evidence, t)
      /\ open'[n] = Heard(e.event, open[n])
      /\ clear'[n] = IF ~Judged(q, evidence) THEN t + 1
                     ELSE IF step > MaximumGap[n] THEN t
                     ELSE Lesser(clear[n], t)
      /\ watched'[n] = Watched(q, evidence)
      /\ covered'[n] = IF e.event.type = "STARTED" THEN t - e.event.from ELSE m
  BY DEF Frame, Follow
<1> HIDE DEF t, c, evidence, e
<1>4. /\ Sane(d, now, covered[n]) /\ d.event = Silent /\ DOMAIN d = Fields
      /\ d.state = detectors[n].state /\ d.last = detectors[n].last
      /\ d.start = detectors[n].start /\ d.since = detectors[n].since
      /\ Running(d) = Running(detectors[n]) /\ InEpisode(d) = InEpisode(detectors[n])
  BY <1>2, SilencedIsSane DEF EpisodeOf
<1>5. /\ Running(d) \/ d.state = "CANDIDATE" => d.last = now /\ watched[n]
      /\ d.state = "CANDIDATE" => d.since >= clear[n]
      /\ InEpisode(d) => open[n] = d.start /\ Sound(quality, d.start, now)
      /\ clear[n] \in Int /\ covered[n] \in Int
  BY <1>2, <1>4 DEF EpisodeOf
<1>6. d = [detectors[n] EXCEPT !.event = Silent]
  OBVIOUS
<1> HIDE DEF d
<1>7. Running(d) => InEpisode(d)
  BY <1>4 DEF Sane, Placed
<1>8. InEpisode(d) => d.start \in Nat /\ open[n] # Never
  BY <1>4, <1>5 DEF Sane, Timed, Clocked, Never
<1>9. /\ m \in Int /\ k \in Int /\ k <= m /\ Sane(d, now, k)
      /\ Running(d) /\ Watched(q, evidence) /\ t - now <= MaximumGap[n] => k + (t - now) <= m
  <2>1. m \in Int
    BY <1>1, <1>5
  <2>2. CASE InEpisode(d)
    BY <1>1, <1>4, <1>5, <1>8, <2>1, <2>2
  <2>3. CASE ~InEpisode(d)
    BY <1>4, <1>7, <2>1, <2>3, NothingObserved
  <2> QED BY <2>2, <2>3
<1> HIDE DEF m, k
<1>10. Sound(q, recoveredAt', t)
  BY <1>3 DEF QualityInv
<1>11. InEpisode(d) => Sound(q, d.start, t)
  BY <1>1, <1>5, SoundStays
<1>12. (stopped # "NO") => ~Usable(q)
  BY <1>1, QualityUpdates DEF QualityInv
<1> HIDE DEF q
<1>13. /\ q.since \in Int
       /\ ~Usable(q) /\ InEpisode(d) => q.since >= d.start
  BY <1>10, <1>11 DEF Sound, Quality
<1>14. Seen(d, e, q, c, evidence, n, now, t, m)
  <2>1. CASE stopped = "CAMERA"
    <3> DEFINE s == Suspend(d, n, TRUE, q.since, t)
    <3>1. ~Usable(q)
      BY <1>12, <2>1
    <3>2. Timed(d, t, m)
      <4>1. Timed(d, now, k)
        BY <1>9 DEF Sane
      <4> QED BY <1>1, <1>9, <4>1, LaterTimes
    <3>3. Halted(s, t, m) /\ Told(d, s)
      BY <1>1, <1>4, <1>9, <1>13, <3>1, <3>2, SuspendReports, SuspendTells DEF Quiet
    <3> HIDE DEF s
    <3>4. Seen(d, s, q, c, evidence, n, now, t, m)
      BY <3>3, HaltedIsSeen
    <3> QED BY <1>3, <2>1, <3>4 DEF s
  <2>2. CASE stopped # "CAMERA"
    <3> DEFINE f == Detect(n, q, c, evidence, t)
    <3>0. Running(d) \/ d.state = "CANDIDATE" => d.last = now
      BY <1>5
    <3>1. Seen(d, f, q, c, evidence, n, now, t, m)
      BY ONLY <1>1, <1>4, <1>6, <1>9, <1>13, <3>0, n \in Detectors, DetectReports
    <3> HIDE DEF f
    <3> QED BY <1>3, <2>2, <3>1 DEF f
  <2> QED BY <2>1, <2>2
<1>15. covered'[n] \in Int /\ Sane(e, t, covered'[n]) /\ Reports(e, covered'[n])
  <2>1. CASE e.event.type = "STARTED"
    <3>1. e.event.from \in 0..now
      BY <1>4, <1>14, <2>1 DEF Seen, Sane, Placed
    <3>2. covered'[n] = t - e.event.from /\ Sane(e, t, t - e.event.from)
      BY <1>3, <1>14, <2>1 DEF Seen
    <3> QED BY <1>1, <1>14, <2>1, <3>1, <3>2 DEF Seen, Reports
  <2>2. CASE e.event.type # "STARTED"
    BY <1>3, <1>9, <1>14, <2>2 DEF Seen
  <2> QED BY <2>1, <2>2
<1>16. MaximumGap[n] \in Nat /\ clear'[n] \in Int
       /\ (Judged(q, evidence) => clear'[n] <= t)
       /\ (Judged(q, evidence) /\ t - now <= MaximumGap[n] => clear'[n] <= clear[n])
  <2>1. MaximumGap[n] \in Nat
    BY BehaviorAssumption DEF DetectorConfig
  <2>2. Lesser(clear[n], t) \in Int /\ Lesser(clear[n], t) <= t /\ Lesser(clear[n], t) <= clear[n]
    BY <1>1, <1>5 DEF Lesser
  <2> QED BY <1>1, <1>3, <1>5, <2>1, <2>2
<1>17. d.state = "CANDIDATE" => d.since \in Nat /\ d.since >= clear[n] /\ d.since <= now
  BY <1>1, <1>4, <1>5 DEF Sane, Placed
<1>18. e.event.type = "STARTED" => e.event.from >= clear'[n]
  BY <1>5, <1>14, <1>16, <1>17 DEF Seen
<1>19. e.state = "CANDIDATE" => e.since >= clear'[n] /\ c.status \in Calibrated
  <2> SUFFICES ASSUME e.state = "CANDIDATE"
               PROVE  e.since >= clear'[n] /\ c.status \in Calibrated
    OBVIOUS
  <2>1. c.status \in Calibrated /\ Judged(q, evidence)
    BY <1>14 DEF Seen
  <2>2. CASE e.since = t
    BY <1>1, <1>16, <2>1, <2>2
  <2>3. CASE d.state = "CANDIDATE" /\ e.since = d.since /\ t - now <= MaximumGap[n]
    BY <1>5, <1>16, <1>17, <2>1, <2>3
  <2> QED BY <1>14, <2>1, <2>2, <2>3 DEF Seen
<1>20. InEpisode(e) => open'[n] = e.start /\ Sound(q, e.start, t)
  <2> SUFFICES ASSUME InEpisode(e) PROVE open'[n] = e.start /\ Sound(q, e.start, t)
    OBVIOUS
  <2>1. e.start = Heard(e.event, d.start) /\ e.start # Never
    BY <1>14 DEF Seen, InEpisode
  <2>2. CASE e.event.type = "STARTED"
    <3>1. e.start = d.since /\ d.since \in 0..t /\ CanStartBehavior(q)
      BY <1>1, <1>14, <1>17, <2>1, <2>2 DEF Seen, Heard, Judged
    <3>2. open'[n] = e.start
      BY <1>3, <2>1, <2>2 DEF Heard
    <3> QED BY <1>1, <1>10, <3>1, <3>2, SoundWhenGood
  <2>3. CASE e.event.type # "STARTED"
    <3>1. e.start = d.start /\ e.event.type # "ENDED"
      BY <2>1, <2>3 DEF Heard
    <3>2. open'[n] = open[n]
      BY <1>3, <2>3, <3>1 DEF Heard
    <3>3. InEpisode(d)
      BY <2>1, <3>1 DEF InEpisode
    <3> QED BY <1>5, <1>11, <3>1, <3>2, <3>3
  <2> QED BY <2>2, <2>3
<1>21. Running(e) \/ e.state = "CANDIDATE" => e.last = t /\ watched'[n]
  BY <1>3, <1>14 DEF Seen
<1>22. EpisodeOf(n)'
  BY <1>3, <1>15, <1>16, <1>18, <1>19, <1>20, <1>21 DEF EpisodeOf, e
<1>23. FromCandidate(n)
  BY <1>3, <1>4, <1>14 DEF Seen, FromCandidate, e
<1> QED BY <1>22, <1>23

LEMMA EndEpisodes ==
  ASSUME TimeInv, EpisodeInv, NEW t \in 0..MaxTime, EndSession(t)
  PROVE  EpisodeInv' /\ \A n \in Detectors : FromCandidate(n)
<1> SUFFICES ASSUME NEW n \in Detectors PROVE EpisodeOf(n)' /\ FromCandidate(n)
  BY DEF EpisodeInv
<1> DEFINE d == [detectors[n] EXCEPT !.event = Silent]
           s == Suspend(d, n, TRUE, t, t)
           e == detectors'[n]
           k == covered[n]
<1>1. /\ now' = t /\ t \in Nat /\ now \in Nat /\ now <= t
      /\ e = [NewDetector EXCEPT !.event = s.event]
      /\ clear'[n] = clear[n] /\ covered'[n] = k
  BY PipelineAssumption DEF EndSession, TimeInv
<1>2. EpisodeOf(n)
  BY DEF EpisodeInv
<1>3. Sane(d, now, k) /\ d.event = Silent /\ clear[n] \in Int /\ k \in Int
  BY <1>2, SilencedIsSane DEF EpisodeOf
<1> HIDE DEF d, e, k
<1>4. Timed(d, t, k) /\ t \in Int
  BY <1>1, <1>3, LaterTimes DEF Sane
<1>5. InEpisode(d) => t >= d.start
  BY <1>4 DEF Timed, Clocked
<1>6. Halted(s, t, k)
  BY <1>1, <1>3, <1>4, <1>5, SuspendReports
<1> HIDE DEF s
<1>7. /\ DOMAIN e = Fields /\ e.start = Never /\ e.last = Never /\ e.event = s.event
      /\ e.state = "WAITING_FOR_BASELINE"
  BY <1>1 DEF NewDetector, Fields
<1>8. Timed(e, t, k) /\ ~InEpisode(e)
  BY <1>1, <1>7 DEF Timed, InEpisode, Never
<1>9. Placed(e, t) /\ Observing(e, t, k) /\ ~Running(e)
  BY <1>7, <1>8 DEF Placed, Observing, Running, Idle, DetectorStates
<1>10. Reports(e, k) /\ e.event.type # "STARTED"
  BY <1>6, <1>7 DEF Halted, Reports
<1>11. EpisodeOf(n)'
  BY <1>1, <1>3, <1>7, <1>8, <1>9, <1>10 DEF EpisodeOf, Sane, e, k
<1>12. FromCandidate(n)
  BY <1>7, <1>10 DEF FromCandidate, e
<1> QED BY <1>11, <1>12

LEMMA FallbackEpisodes ==
  ASSUME EpisodeInv, UseGlobalBaselineFallback
  PROVE  EpisodeInv'
<1> SUFFICES ASSUME NEW n \in Detectors PROVE EpisodeOf(n)'
  BY DEF EpisodeInv
<1> DEFINE e == detectors'[n]
<1>1. /\ now' = now /\ quality' = quality /\ calibration.status \notin Calibrated
      /\ e = [detectors[n] EXCEPT !.event = Silent]
      /\ clear'[n] = clear[n] /\ covered'[n] = covered[n] /\ watched'[n] = watched[n]
      /\ open'[n] = open[n]
  BY DEF UseGlobalBaselineFallback, historyVars
<1>2. EpisodeOf(n)
  BY DEF EpisodeInv
<1> HIDE DEF e
<1>3. /\ Sane(e, now, covered[n]) /\ e.event = Silent /\ e.state = detectors[n].state
      /\ e.last = detectors[n].last /\ e.start = detectors[n].start
      /\ Running(e) = Running(detectors[n]) /\ InEpisode(e) = InEpisode(detectors[n])
  BY <1>1, <1>2, SilencedIsSane DEF EpisodeOf
<1>4. e.state # "CANDIDATE"
  BY <1>1, <1>2, <1>3 DEF EpisodeOf
<1>5. Reports(e, covered[n]) /\ e.event.type # "STARTED"
  BY <1>3, SilentReports DEF Silent
<1>6. InEpisode(e) => open[n] = e.start /\ Sound(quality, e.start, now)
  BY <1>2, <1>3 DEF EpisodeOf
<1>7. Running(e) => e.last = now /\ watched[n]
  BY <1>2, <1>3 DEF EpisodeOf
<1>8. clear[n] \in Int /\ covered[n] \in Int
  BY <1>2 DEF EpisodeOf
<1> QED BY <1>1, <1>3, <1>4, <1>5, <1>6, <1>7, <1>8 DEF EpisodeOf, e

LEMMA InitEpisodes == Init => EpisodeInv
<1> SUFFICES ASSUME Init, NEW n \in Detectors PROVE EpisodeOf(n)
  BY DEF EpisodeInv
<1> DEFINE d == detectors[n]
<1>1. d = NewDetector /\ now = 0 /\ clear[n] = 0 /\ covered[n] = 0
  BY DEF Init
<1> HIDE DEF d
<1>2. /\ DOMAIN d = Fields /\ d.start = Never /\ d.last = Never /\ d.event = Silent
      /\ d.state = "WAITING_FOR_BASELINE"
  BY <1>1 DEF NewDetector, Fields
<1>3. Timed(d, 0, 0) /\ ~InEpisode(d)
  BY <1>2 DEF Timed, InEpisode, Never
<1>4. Placed(d, 0) /\ Observing(d, 0, 0) /\ ~Running(d)
  BY <1>2, <1>3 DEF Placed, Observing, Running, Idle, DetectorStates
<1>5. Reports(d, 0) /\ d.event.type # "STARTED"
  BY <1>2, SilentReports DEF Silent
<1> QED BY <1>1, <1>2, <1>3, <1>4, <1>5 DEF EpisodeOf, Sane, d

LEMMA EpisodesAreSound == Spec => []EpisodeInv
<1>1. TimeInv /\ QualityInv /\ QualityInv' /\ EpisodeInv /\ [Next]_vars => EpisodeInv'
  <2> SUFFICES ASSUME TimeInv, QualityInv, QualityInv', EpisodeInv, [Next]_vars
               PROVE  EpisodeInv'
    OBVIOUS
  <2>1. CASE UNCHANGED vars
    BY <2>1 DEF vars, pipelineVars, historyVars, EpisodeInv, EpisodeOf
  <2> QED BY <2>1, FrameEpisode, EndEpisodes, FallbackEpisodes DEF Next
<1> QED BY <1>1, InitEpisodes, QualityIsSound, TimeGoesOn, PTL DEF Spec

\* Every event has the times its schema demands: an episode that is ended where its
\* suspension began does not end before it started, whatever gate dated the
\* suspension back and whatever throws (EventsAreValid).
THEOREM EventsHaveTheirTimes == Spec => []EventsAreValid
<1>1. EpisodeInv => EventsAreValid
  BY DEF EpisodeInv, EpisodeOf, Reports, EventsAreValid
<1> QED BY <1>1, EpisodesAreSound, PTL

\* The start of an episode is dated back over frames that could all be judged, for any
\* thresholds and gaps (EpisodeStartsInClearView).
THEOREM EpisodesStartInClearView == Spec => []EpisodeStartsInClearView
<1>1. EpisodeInv => EpisodeStartsInClearView
  BY DEF EpisodeInv, EpisodeOf, EpisodeStartsInClearView
<1> QED BY <1>1, EpisodesAreSound, PTL

\* The observed duration of an episode leaves out the gaps between frames and the time
\* the face was not usable (NoInventedObservation).
THEOREM ObservationIsReal == Spec => []NoInventedObservation
<1>1. EpisodeInv => NoInventedObservation
  BY DEF EpisodeInv, EpisodeOf, Reports, NoInventedObservation
<1> QED BY <1>1, EpisodesAreSound, PTL

\* Every part of the pipeline keeps its type, and the state of a detector says whether
\* it has an open episode.
THEOREM PipelineTypes == Spec => []TypeOK
<1> DEFINE Clock == now \in 0..MaxTime /\ phase \in {"RUNNING", "ENDED"}
<1>1. Init => Clock
  BY PipelineAssumption DEF Init
<1>2. TimeInv /\ Clock /\ [Next]_vars => Clock'
  <2> SUFFICES ASSUME TimeInv, Clock, [Next]_vars PROVE Clock'
    OBVIOUS
  <2>1. ASSUME NEW step \in 1..MaxStep, NEW sides, NEW stopped, NEW scene,
               Frame(step, sides, stopped, scene)
        PROVE  Clock'
    BY <2>1, PipelineAssumption DEF Frame, TimeInv
  <2>2. ASSUME NEW t \in 0..MaxTime, EndSession(t) PROVE Clock'
    BY <2>2 DEF EndSession
  <2>3. CASE UseGlobalBaselineFallback \/ UNCHANGED vars
    BY <2>3 DEF UseGlobalBaselineFallback, vars, pipelineVars
  <2> QED BY <2>1, <2>2, <2>3 DEF Next
<1>3. Clock /\ QualityInv /\ EpisodeInv => TypeOK
  <2> SUFFICES ASSUME Clock, QualityInv, EpisodeInv PROVE TypeOK
    OBVIOUS
  <2>1. quality.state \in States /\ now \in Nat
    BY PipelineAssumption DEF QualityInv, Sound, Quality, States
  <2>2. (quality.since = Never) = Usable(quality)
    BY DEF QualityInv, Sound, Usable
  <2>3. (quality.recovery # Never) = (quality.state = "RECOVERY_CANDIDATE")
    BY <2>1 DEF QualityInv, Sound, Never
  <2>4. ASSUME NEW n \in Detectors
        PROVE  /\ detectors[n].state \in DetectorStates
               /\ Running(detectors[n]) => InEpisode(detectors[n])
               /\ Idle(detectors[n]) => ~InEpisode(detectors[n])
               /\ detectors[n].state = "CANDIDATE" => detectors[n].since \in 0..now
    BY DEF EpisodeInv, EpisodeOf, Sane, Placed
  <2> QED BY <2>1, <2>2, <2>3, <2>4 DEF TypeOK, States, DetectorStates, Running, Idle
<1> HIDE DEF Clock
<1> QED BY <1>1, <1>2, <1>3, QualityIsSound, EpisodesAreSound, TimeGoesOn, PTL DEF Spec
----------------------------------------------------------------------------
(* The baseline a candidate is measured against. *)

\* An operation of the calibration at time t: it ends at t if it ends at all.
Finishing(c, e, t) ==
  DOMAIN e = CalibrationFields /\ (e.finished = c.finished \/ e.finished = t)

LEMMA FinishFinishes ==
  ASSUME NEW c, DOMAIN c = CalibrationFields, NEW status, NEW mouth, NEW t
  PROVE  Finishing(c, Finish(c, status, mouth, t), t)
  BY DEF Finish, Finishing, CalibrationFields

LEMMA SampleFinishes ==
  ASSUME NEW c, DOMAIN c = CalibrationFields, NEW t
  PROVE  Finishing(c, CollectSample(c, t), t)
  BY DEF CollectSample, Finishing, CalibrationFields

LEMMA StabilizedFinishes ==
  ASSUME NEW c, DOMAIN c = CalibrationFields, NEW t
  PROVE  Finishing(c, Stabilized(c, t), t)
<1> DEFINE counted == [c EXCEPT !.frames = Lesser(@ + 1, StableFrames)]
           started == StartCollecting(counted, t)
<1>1. DOMAIN counted = CalibrationFields /\ counted.finished = c.finished
  BY DEF CalibrationFields
<1> HIDE DEF counted
<1>2. DOMAIN started = CalibrationFields /\ started.finished = c.finished
  BY <1>1 DEF StartCollecting, CalibrationFields
<1> HIDE DEF started
<1>3. Finishing(started, CollectSample(started, t), t)
  BY <1>2, SampleFinishes
<1>4. Stabilized(c, t) \in {counted, CollectSample(started, t)}
  BY DEF Stabilized, counted, started
<1> QED BY <1>1, <1>2, <1>3, <1>4 DEF Finishing

LEMMA MaybeFinishFinishes ==
  ASSUME NEW c, DOMAIN c = CalibrationFields, NEW mouth, NEW t
  PROVE  Finishing(c, MaybeFinish(c, mouth, t), t)
<1>1. \/ MaybeFinish(c, mouth, t) = c
      \/ \E status : MaybeFinish(c, mouth, t) = Finish(c, status, mouth, t)
  BY DEF MaybeFinish
<1>2. Finishing(c, c, t)
  BY DEF Finishing
<1> QED BY <1>1, <1>2, FinishFinishes

\* A frame that ends the calibration ends it at its own time, and one that is over
\* is left alone.
LEMMA CalibratorFinishes ==
  ASSUME NEW c, DOMAIN c = CalibrationFields, NEW eligible, NEW mouth, NEW t
  PROVE  /\ Finishing(c, CalibratorUpdate(c, eligible, mouth, t), t)
         /\ c.status \in Calibrated => CalibratorUpdate(c, eligible, mouth, t) = c
<1> DEFINE begun == [c EXCEPT !.setup = IF @ = Never THEN t ELSE @,
                              !.status = IF @ = "NOT_STARTED" THEN "PRECHECK" ELSE @]
           stabilizing == [begun EXCEPT !.status = "STABILIZING", !.stabilizing = t,
                                        !.frames = 1]
           next == IF ~eligible THEN Excluded(begun)
                   ELSE IF begun.status \in {"PRECHECK", "PAUSED"} THEN stabilizing
                   ELSE IF begun.status = "STABILIZING" THEN Stabilized(begun, t)
                   ELSE CollectSample(begun, t)
           e == MaybeFinish(next, mouth, t)
<1>1. DOMAIN begun = CalibrationFields /\ begun.finished = c.finished
  BY DEF CalibrationFields
<1> HIDE DEF begun
<1>2. Finishing(begun, Excluded(begun), t) /\ Finishing(begun, stabilizing, t)
  BY <1>1 DEF Finishing, Excluded, CalibrationFields
<1> HIDE DEF stabilizing
<1>3. Finishing(begun, next, t)
  <2>1. next \in {Excluded(begun), stabilizing, Stabilized(begun, t), CollectSample(begun, t)}
    OBVIOUS
  <2> HIDE DEF next
  <2> QED BY <1>1, <1>2, <2>1, StabilizedFinishes, SampleFinishes
<1>4. CalibratorUpdate(c, eligible, mouth, t) = IF c.status \in Calibrated THEN c ELSE e
  BY DEF CalibratorUpdate, begun, stabilizing
<1> HIDE DEF next
<1>5. Finishing(next, e, t)
  BY <1>3, MaybeFinishFinishes DEF Finishing
<1> HIDE DEF e
<1> QED BY <1>1, <1>3, <1>4, <1>5 DEF Finishing

BaselineFields == {"anchor", "changed", "last", "warmup"}

\* The baseline b is anchored in the calibration c, and was last changed by time t.
Anchored(b, c, t) ==
  /\ DOMAIN b = BaselineFields /\ b.changed \in Int /\ b.changed <= t
  /\ c.status \in {"READY", "PARTIAL"} => b.anchor = c.finished

\* A frame anchors the baseline in the calibration as it is then.  While the detector
\* measured against it is busy, a calibration that was over leaves it where it was.
LEMMA AdaptiveAnchors ==
  ASSUME NEW b, NEW old, NEW u \in Int, Anchored(b, old, u), NEW t \in Int, u <= t,
         NEW c, c.finished \in Int, c.finished <= t, NEW eligible, NEW frozen, NEW adapts
  PROVE  /\ Anchored(AdaptiveUpdate(b, c, eligible, frozen, adapts, t), c, t)
         /\ frozen /\ c = old =>
              AdaptiveUpdate(b, c, eligible, frozen, adapts, t).changed = b.changed
<1> DEFINE e == AdaptiveUpdate(b, c, eligible, frozen, adapts, t)
           anchored == IF b.anchor = c.finished THEN b
                       ELSE [anchor |-> c.finished, changed |-> c.finished,
                             last |-> Never, warmup |-> 0]
           gap == IF anchored.last = Never THEN 0 ELSE t - anchored.last
           warmed == [anchored EXCEPT !.last = t,
                                      !.warmup = IF gap > LongGap THEN t + AdaptiveWarmup
                                                 ELSE @]
<1>1. CASE c.status \notin {"READY", "PARTIAL"}
  <2>1. e = [b EXCEPT !.last = Never, !.warmup = 0]
    BY <1>1 DEF AdaptiveUpdate
  <2> HIDE DEF e
  <2>2. DOMAIN e = BaselineFields /\ e.changed = b.changed
    BY <2>1 DEF Anchored, BaselineFields
  <2> QED BY <1>1, <2>2 DEF Anchored, e
<1>2. CASE c.status \in {"READY", "PARTIAL"}
  <2>1. e = IF eligible /\ t >= warmed.warmup /\ adapts /\ ~frozen
            THEN [warmed EXCEPT !.changed = t] ELSE warmed
    BY <1>2 DEF AdaptiveUpdate
  <2>2. /\ DOMAIN anchored = BaselineFields /\ anchored.anchor = c.finished
        /\ anchored.changed \in Int /\ anchored.changed <= t
        /\ c = old => anchored.changed = b.changed
    BY <1>2 DEF Anchored, BaselineFields
  <2> HIDE DEF anchored
  <2>3. /\ DOMAIN warmed = BaselineFields /\ warmed.anchor = c.finished
        /\ warmed.changed = anchored.changed
    BY <2>2 DEF BaselineFields
  <2> HIDE DEF warmed, e
  <2>4. DOMAIN e = BaselineFields /\ e.anchor = c.finished
    BY <2>1, <2>3 DEF BaselineFields
  <2>5. e.changed = t \/ e.changed = anchored.changed
    BY <2>1, <2>3 DEF BaselineFields
  <2>6. frozen => e.changed = anchored.changed
    BY <2>1, <2>3
  <2> QED BY <2>2, <2>4, <2>5, <2>6 DEF Anchored, e
<1> QED BY <1>1, <1>2

Attention == detectors["SCREEN_ATTENTION"]

\* The baseline is anchored in the calibration, and what a candidate or a new episode
\* was measured against has not changed since its first frame.
BaselineInv ==
  /\ DOMAIN calibration = CalibrationFields
  /\ calibration.finished \in Int /\ calibration.finished <= now
  /\ Anchored(baseline, calibration, now)
  /\ Attention.state = "CANDIDATE" => baseline.changed <= Attention.since
  /\ OneBaselinePerCandidate

LEMMA FrameBaseline ==
  ASSUME TimeInv, QualityInv, QualityInv', EpisodeInv, EpisodeInv', BaselineInv,
         NEW step \in 1..MaxStep, NEW sides \in Measured, NEW stopped, NEW scene,
         Frame(step, sides, stopped, scene)
  PROVE  BaselineInv'
<1> DEFINE n == "SCREEN_ATTENTION"
           t == now + step
           q == QualityUpdate(quality, sides, stopped # "NO", t)
           eligible == q.state = "USABLE" /\ scene.posed
<1>1. /\ now' = t
      /\ calibration' = CalibratorUpdate(calibration, eligible, scene.mouth, t)
      /\ baseline' = AdaptiveUpdate(baseline, calibration', eligible, Busy(Attention),
                                    scene.adapts, t)
  BY DEF Frame, Attention
<1>2. t \in Nat /\ now \in Nat /\ now <= t
  BY PipelineAssumption DEF TimeInv
<1> HIDE DEF t, q, eligible
<1>3. /\ DOMAIN calibration' = CalibrationFields
      /\ calibration'.finished \in Int /\ calibration'.finished <= t
      /\ calibration.status \in Calibrated => calibration' = calibration
  <2>1. /\ Finishing(calibration, calibration', t)
        /\ calibration.status \in Calibrated => calibration' = calibration
    BY <1>1, CalibratorFinishes DEF BaselineInv
  <2> QED BY <1>2, <2>1 DEF BaselineInv, Finishing
<1>4. /\ Anchored(baseline', calibration', t)
      /\ Busy(Attention) /\ calibration' = calibration => baseline'.changed = baseline.changed
  BY <1>1, <1>2, <1>3, AdaptiveAnchors DEF BaselineInv
<1>5. n \in Detectors /\ EpisodeOf(n) /\ FromCandidate(n) /\ EpisodeOf(n)'
  BY FrameEpisode DEF EpisodeInv, Detectors
<1>6. Attention.state = "CANDIDATE" => baseline'.changed <= Attention.since
  <2> SUFFICES ASSUME Attention.state = "CANDIDATE"
               PROVE  baseline'.changed <= Attention.since
    OBVIOUS
  <2>1. calibration.status \in Calibrated /\ Busy(Attention)
    BY <1>5 DEF EpisodeOf, Attention, Busy
  <2> QED BY <1>3, <1>4, <2>1 DEF BaselineInv
<1>7. Attention'.event.type = "STARTED" => baseline'.changed <= Attention'.event.from
  BY <1>5, <1>6 DEF FromCandidate, Attention
<1>8. Attention'.state = "CANDIDATE" => baseline'.changed <= Attention'.since
  BY <1>1, <1>2, <1>4, <1>5, <1>6 DEF FromCandidate, Attention, Anchored
<1> QED BY <1>1, <1>3, <1>4, <1>7, <1>8 DEF BaselineInv, Attention, OneBaselinePerCandidate

\* An episode of missing screen attention was measured against one baseline from its
\* first frame on, however slowly it is confirmed (OneBaselinePerCandidate).
THEOREM EpisodesKeepTheirBaseline == Spec => []OneBaselinePerCandidate
<1>1. Init => BaselineInv
  <2> SUFFICES ASSUME Init PROVE BaselineInv
    OBVIOUS
  <2>1. calibration = NoCalibration /\ baseline = NoBaseline /\ now = 0
        /\ Attention = NewDetector
    BY DEF Init, Attention, Detectors
  <2>2. Attention.state # "CANDIDATE" /\ Attention.event.type # "STARTED"
    BY <2>1 DEF NewDetector, Silent
  <2> QED BY <2>1, <2>2 DEF BaselineInv, NoCalibration, NoBaseline, CalibrationFields,
             BaselineFields, Anchored, OneBaselinePerCandidate, Attention, Never
<1>2. TimeInv /\ QualityInv /\ QualityInv' /\ EpisodeInv /\ EpisodeInv' /\ BaselineInv
        /\ [Next]_vars => BaselineInv'
  <2> SUFFICES ASSUME TimeInv, QualityInv, QualityInv', EpisodeInv, EpisodeInv', BaselineInv,
                      [Next]_vars
               PROVE  BaselineInv'
    OBVIOUS
  <2>1. CASE UNCHANGED vars
    BY <2>1 DEF vars, pipelineVars, BaselineInv, Anchored, OneBaselinePerCandidate, Attention
  <2>2. CASE UseGlobalBaselineFallback
    <3>1. /\ now' = now /\ baseline' = baseline
          /\ calibration' = SkipCalibration(calibration, now)
          /\ Attention' = [Attention EXCEPT !.event = Silent]
          /\ calibration.status \notin Calibrated
      BY <2>2 DEF UseGlobalBaselineFallback, Attention, Detectors
    <3>2. EpisodeOf("SCREEN_ATTENTION")
      BY DEF EpisodeInv, Detectors
    <3>3. Attention.state # "CANDIDATE" /\ DOMAIN Attention = Fields
      BY <3>1, <3>2 DEF EpisodeOf, Attention, Sane, Timed
    <3>4. Attention'.state # "CANDIDATE" /\ Attention'.event.type # "STARTED"
      BY <3>1, <3>3 DEF Fields, Silent
    <3>5. /\ DOMAIN calibration' = CalibrationFields
          /\ calibration'.status = "GLOBAL_FALLBACK" /\ calibration'.finished = now
      BY <3>1 DEF BaselineInv, SkipCalibration, Finish, CalibrationFields
    <3> QED BY <3>1, <3>4, <3>5 DEF BaselineInv, Anchored, TimeInv, OneBaselinePerCandidate,
               Attention
  <2>3. ASSUME NEW t \in 0..MaxTime, EndSession(t) PROVE BaselineInv'
    <3>1. /\ now' = t /\ baseline' = NoBaseline /\ calibration' = NoCalibration
          /\ FromCandidate("SCREEN_ATTENTION") /\ EpisodeOf("SCREEN_ATTENTION")
      BY <2>3, EndEpisodes DEF EndSession, EpisodeInv, Detectors
    <3>2. Attention.state = "CANDIDATE" => Attention.since \in Nat
      BY <3>1 DEF EpisodeOf, Sane, Placed, Attention
    <3>3. /\ Attention'.state = "CANDIDATE" => Attention'.since \in Nat
          /\ Attention'.event.type = "STARTED" => Attention'.event.from \in Nat
      BY <2>3, <3>1, <3>2 DEF FromCandidate, Attention
    <3> QED BY <3>1, <3>3 DEF BaselineInv, NoCalibration, NoBaseline, CalibrationFields,
               BaselineFields, Anchored, OneBaselinePerCandidate, Attention, Never
  <2> QED BY <2>1, <2>2, <2>3, FrameBaseline DEF Next
<1>3. BaselineInv => OneBaselinePerCandidate
  BY DEF BaselineInv
<1> QED BY <1>1, <1>2, <1>3, TimeGoesOn, QualityIsSound, EpisodesAreSound, PTL DEF Spec
=============================================================================
