--------------------------- MODULE VisionPipeline --------------------------
(***************************************************************************)
(* VisionPipeline: every analysed frame goes through the quality detector, *)
(* the calibrator and the adaptive baseline, and only then to the          *)
(* behaviour detectors, which are suspended while the face is not usable.  *)
(* The end of the session closes what is still open.                       *)
(***************************************************************************)
EXTENDS VisionBehavior

CONSTANTS
  MaxStep,        \* the longest time between two frames
  MaxTime,        \* bound on the session's time
  Stops,          \* among CAMERA and TAB_HIDDEN, reasons that hold at once
  DetectorsFail   \* whether a detector may throw

ASSUME PipelineAssumption == {MaxStep, MaxTime} \subseteq Nat

VARIABLES
  now,          \* the time of the last frame
  phase,        \* RUNNING or ENDED
  quality,      \* FaceQualityDetector
  calibration,  \* BaselineCalibrator
  baseline,     \* AdaptiveBaselineManager
  detectors,    \* [Detectors -> detector]
  open,         \* history: the start of the episode the consumer believes open
  clear,        \* history: since when each frame could be judged
  watched,      \* history: whether the last frame showed what a detector looks for
  covered,      \* history: how long the current episode was really observed
  recoveredAt   \* history: the end of the last ANALYSIS_RECOVERED

pipelineVars == <<now, phase, quality, calibration, baseline, detectors>>
historyVars == <<open, clear, watched, covered, recoveredAt>>
vars == <<pipelineVars, historyVars>>

TypeOK ==
  /\ now \in 0..MaxTime
  /\ phase \in {"RUNNING", "ENDED"}
  /\ quality.state \in {"USABLE", "DEGRADED_CANDIDATE", "UNUSABLE", "RECOVERY_CANDIDATE"}
  /\ (quality.since = Never) = Usable(quality)
  /\ (quality.recovery # Never) = (quality.state = "RECOVERY_CANDIDATE")
  /\ \A n \in Detectors :
       /\ detectors[n].state \in {"WAITING_FOR_BASELINE", "NORMAL", "CANDIDATE", "ACTIVE",
                                  "RECOVERY_CANDIDATE", "COOLDOWN", "SUSPENDED"}
       /\ detectors[n].state \in {"ACTIVE", "RECOVERY_CANDIDATE"} => InEpisode(detectors[n])
       /\ detectors[n].state \in {"WAITING_FOR_BASELINE", "NORMAL", "CANDIDATE", "COOLDOWN"}
            => ~InEpisode(detectors[n])
       /\ detectors[n].state = "CANDIDATE" => detectors[n].since \in 0..now

Init ==
  /\ now = 0
  /\ phase = "RUNNING"
  /\ quality = NewQuality
  /\ calibration = NoCalibration
  /\ baseline = NoBaseline
  /\ detectors = [n \in Detectors |-> NewDetector]
  /\ open = [n \in Detectors |-> Never]
  /\ clear = [n \in Detectors |-> 0]
  /\ watched = [n \in Detectors |-> FALSE]
  /\ covered = [n \in Detectors |-> 0]
  /\ recoveredAt = 0

----------------------------------------------------------------------------
(* process(). *)

\* A detector that throws is suspended, and then reset.
Fail(d, name, t) ==
  [NewDetector EXCEPT !.event = Suspend(d, name, FALSE, t, t).event]

Detect(name, q, c, evidence, t) ==
  LET d == [detectors[name] EXCEPT !.event = Silent]
  IN IF ~Usable(q) THEN Suspend(d, name, FALSE, q.since, t)
     ELSE IF evidence = "DISABLED" THEN Suspend(d, name, FALSE, t, t)
     ELSE IF evidence = "THROWS" THEN Fail(d, name, t)
     ELSE Update(d, name, evidence, CanStartBehavior(q), BaselineReady(name, c), t)

\* What the consumer of the events learns from them.
Heard(event, start) ==
  CASE event.type = "STARTED" -> event.from
    [] event.type = "ENDED" -> Never
    [] OTHER -> start

\* Whether this frame showed what a detector looks for, and could start it.
Watched(q, evidence) ==
  Usable(q) /\ evidence \notin {"DISABLED", "THROWS"} /\ ~Unreliable(evidence)
Judged(q, evidence) == Watched(q, evidence) /\ CanStartBehavior(q)

Follow(q, evidence, step, t) ==
  /\ open' = [n \in Detectors |-> Heard(detectors'[n].event, open[n])]
  /\ clear' = [n \in Detectors |->
                 IF ~Judged(q, evidence[n]) THEN t + 1
                 ELSE IF step > MaximumGap[n] THEN t
                 ELSE Lesser(clear[n], t)]
  /\ watched' = [n \in Detectors |-> Watched(q, evidence[n])]
  /\ covered' = [n \in Detectors |->
                   IF detectors'[n].event.type = "STARTED" THEN t - detectors'[n].event.from
                   ELSE IF open[n] = Never THEN 0
                   ELSE IF watched[n] /\ Watched(q, evidence[n]) /\ step <= MaximumGap[n] THEN
                          covered[n] + step
                   ELSE covered[n]]
  /\ recoveredAt' = IF Recovered(quality, q) THEN quality.recovery ELSE recoveredAt

Frame(step, sides, stopped, scene) ==
  LET t == now + step
      q == QualityUpdate(quality, sides, stopped # "NO", t)
      eligible == q.state = "USABLE" /\ scene.posed
      c == CalibratorUpdate(calibration, eligible, scene.mouth, t)
  IN /\ phase = "RUNNING" /\ t <= MaxTime
     /\ now' = t
     /\ quality' = q
     /\ calibration' = c
     /\ baseline' = AdaptiveUpdate(baseline, c, eligible,
                                   Busy(detectors["SCREEN_ATTENTION"]), scene.adapts, t)
     /\ detectors' = [n \in Detectors |->
                        IF stopped = "CAMERA"
                        THEN Suspend([detectors[n] EXCEPT !.event = Silent], n, TRUE, q.since, t)
                        ELSE Detect(n, q, c, scene.evidence[n], t)]
     /\ Follow(q, scene.evidence, step, t)
     /\ UNCHANGED phase

----------------------------------------------------------------------------
\* The user continues with the default settings instead of calibrating.
UseGlobalBaselineFallback ==
  /\ phase = "RUNNING" /\ calibration.status \notin Calibrated
  /\ calibration' = SkipCalibration(calibration, now)
  /\ detectors' = [n \in Detectors |-> [detectors[n] EXCEPT !.event = Silent]]
  /\ UNCHANGED <<now, phase, quality, baseline, historyVars>>

\* Mutant of EndSession: everything is reset and nothing closed.
EndSessionAbruptly(t) ==
  /\ phase = "RUNNING" /\ t \in now..MaxTime
  /\ phase' = "ENDED"
  /\ now' = t
  /\ detectors' = [n \in Detectors |-> NewDetector]
  /\ quality' = NewQuality
  /\ calibration' = NoCalibration
  /\ baseline' = NoBaseline
  /\ UNCHANGED historyVars

\* endSession(): the open episodes are closed before everything is reset.
EndSession(t) ==
  LET closing == [n \in Detectors |->
                    Suspend([detectors[n] EXCEPT !.event = Silent], n, TRUE, t, t)]
  IN /\ phase = "RUNNING" /\ t \in now..MaxTime
     /\ phase' = "ENDED"
     /\ now' = t
     /\ detectors' = [n \in Detectors |-> [NewDetector EXCEPT !.event = closing[n].event]]
     /\ open' = [n \in Detectors |-> Heard(closing[n].event, open[n])]
     /\ quality' = NewQuality
     /\ calibration' = NoCalibration
     /\ baseline' = NoBaseline
     /\ UNCHANGED <<clear, watched, covered, recoveredAt>>

\* What one detector makes of a frame, while the other sees nothing decisive;
\* a smile is not looked for in the lowest performance profile.
Unseen == [n \in Detectors |-> "BETWEEN"]
Disabled(name) == IF name = "SMILE_EXPRESSION" THEN {"DISABLED"} ELSE {}
Evidences ==
  LET seen(n) == Evidence(n, calibration) \cup Disabled(n)
                   \cup (IF DetectorsFail THEN {"THROWS"} ELSE {})
  IN UNION {{[Unseen EXCEPT ![n] = e] : e \in seen(n)} : n \in Detectors}

\* isCommonUsable(): whether the pose is one to compare with.
Posed == BOOLEAN
\* Whether the mouth was seen in enough of the samples, which matters when the
\* collection ends.
MouthSeen == IF calibration.status \in Calibrated THEN {TRUE} ELSE BOOLEAN
\* Whether enough of the last time was eligible for the baseline to follow.
Adapts == IF calibration.status \in {"READY", "PARTIAL"} THEN BOOLEAN ELSE {FALSE}

\* A frame without reasons that hold at once, and what is open in each phase.
Scenes(stopped) ==
  IF stopped # "NO"
  THEN [posed : {FALSE}, mouth : {FALSE}, adapts : {FALSE}, evidence : {Unseen}]
  ELSE [posed : Posed, mouth : MouthSeen, adapts : Adapts, evidence : Evidences]

\* What the frame's analysis measures, gate by gate, and what holds at once.
Measured == [Reasons -> Sides]
Immediate == {"NO"} \cup Stops

Next ==
  \/ \E step \in 1..MaxStep, sides \in Measured, stopped \in Immediate :
       \E scene \in Scenes(stopped) : Frame(step, sides, stopped, scene)
  \/ UseGlobalBaselineFallback
  \/ \E t \in 0..MaxTime : EndSession(t)

Spec == Init /\ [][Next]_vars

----------------------------------------------------------------------------
(* Properties. *)

\* The consumer of the events believes exactly the episodes to be open that
\* are: no episode is dropped without its ENDED event, not even by the end of
\* the session, and none is reported twice.
ConsumerViewAgrees == \A n \in Detectors : open[n] = detectors[n].start

\* Every event has the times its schema demands.  One that is ended where its
\* suspension began does not end before it started, though a gate dates the
\* suspension back to its first bad frame.
EventsAreValid == \A n \in Detectors : Valid(detectors[n].event)

\* The start of an episode is dated back over frames that could all be judged.
EpisodeStartsInClearView ==
  \A n \in Detectors :
    detectors[n].event.type = "STARTED" => detectors[n].event.from >= clear[n]

\* The observed duration of an episode leaves out the gaps and the time the
\* face was not usable.
NoInventedObservation ==
  \A n \in Detectors :
    detectors[n].event.type = "ENDED" => detectors[n].event.observed <= covered[n]

\* An unavailable episode is dated back to a gate's first bad frame, but never
\* into the one before, which was recovered from at recoveredAt.
UnavailabilityDisjoint == quality.since # Never => quality.since >= recoveredAt

\* The calibration ends in time, even when no frame of it is usable.
CalibrationEnds ==
  calibration.setup # Never /\ calibration.status \notin Calibrated
    => now - calibration.setup < SetupTimeout

\* An episode was measured against one baseline from its first frame on.
OneBaselinePerCandidate ==
  LET event == detectors["SCREEN_ATTENTION"].event
  IN event.type = "STARTED" => baseline.changed <= event.from
============================================================================
