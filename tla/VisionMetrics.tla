---------------------------- MODULE VisionMetrics --------------------------
(***************************************************************************)
(* What the pipeline measures beside the episodes, for its metric           *)
(* snapshots: how long the face could be observed and how many frames the  *)
(* sampler dropped since the last one, the activity of the expression, and *)
(* a hand before the mouth.  Nothing of it starts an episode.              *)
(*                                                                         *)
(* A measurement is abstracted to whether there is one.  A frame is a      *)
(* record [faces, mouth, usable, activity, gap]: how many faces with a box *)
(* it shows; how much of the mouth a hand covers, by the two thresholds of *)
(* the hand's gate; the quality decision; whether the profile runs the     *)
(* activity detector, and with what outcome; and the longest interval that *)
(* counts as observed at the profile's pace.                               *)
(***************************************************************************)
EXTENDS Integers

CONSTANTS
  SnapshotInterval,      \* metricSnapshotIntervalMs
  ObservedGaps,          \* the longest interval observed, by profile
  MaximumFrameGap,       \* expressionActivity.maximumFrameGapMs
  HandEntry, HandRecovery,
  FrameSteps,            \* the times between two frames
  MaxMeasured,           \* bound on the time
  MaxDropped             \* bound on the sampler's count

ASSUME MetricsAssumption ==
  /\ {SnapshotInterval, MaximumFrameGap, HandEntry, HandRecovery, MaxMeasured} \subseteq Nat
  /\ ObservedGaps \subseteq Nat /\ FrameSteps \subseteq Nat \ {0}

VARIABLES
  sampler,   \* [dropped, recorded]: FrameSampler's count, and the runtime's copy
  face,      \* FaceFrameNormalizer: whether it keeps the landmarks of a frame
  hand,      \* HandOverMouthDetector: [gate, status]
  activity,  \* ExpressionActivityDetector: [state, last, observable, scored, aligned]
  meter,     \* VisionPipeline: [now, from, snapped, last, usable, observed, dropped, ended]
  told       \* history: [until, observed, dropped, gap, final] of the snapshots made

metricsVars == <<sampler, face, hand, activity, meter, told>>

NoTime == -1
Hands == INSTANCE VisionQuality WITH
  Reasons <- {"HAND"}, AnalysisWarmup <- HandEntry,
  EntryDuration <- [r \in {"HAND"} |-> HandEntry],
  GateRecovery <- [r \in {"HAND"} |-> HandRecovery]

NewHand == [gate |-> Hands!OpenGate, status |-> "UNAVAILABLE"]
NewActivity == [state |-> "WAITING_FOR_BASELINE", last |-> NoTime, observable |-> 0,
                scored |-> FALSE, aligned |-> FALSE]
NewMeter == [now |-> 0, from |-> NoTime, snapped |-> NoTime, last |-> NoTime, usable |-> FALSE,
             observed |-> 0, dropped |-> 0, ended |-> FALSE]
NothingTold == [until |-> NoTime, observed |-> 0, dropped |-> 0, gap |-> FALSE, final |-> FALSE]

MetricsTypeOK ==
  /\ meter.now \in 0..MaxMeasured
  /\ meter.from # NoTime => meter.from \in 0..meter.now
  /\ (meter.from = NoTime) = (meter.last = NoTime)
  /\ meter.snapped = meter.from
  /\ activity.state \in {"WAITING_FOR_BASELINE", "NORMAL", "SUSPENDED"}
  /\ activity.scored => activity.last # NoTime
  /\ hand.status \in {"UNAVAILABLE", "OCCLUDED", "UNCERTAIN", "CLEAR"}
  /\ hand.status = "OCCLUDED" => Hands!Closed(hand.gate)
  /\ sampler.recorded \in 0..sampler.dropped

MetricsBegin(running) ==
  /\ sampler = [dropped |-> 0, recorded |-> 0]
  /\ face = FALSE /\ hand = NewHand /\ activity = NewActivity
  /\ meter = [NewMeter EXCEPT !.ended = ~running] /\ told = NothingTold

MetricsInit == MetricsBegin(TRUE)
MetricsIdle == MetricsBegin(FALSE)

----------------------------------------------------------------------------

\* onFrameAvailable() while a frame is in flight.
FrameDropped ==
  /\ ~meter.ended /\ sampler.dropped < MaxDropped
  /\ sampler' = [sampler EXCEPT !.dropped = @ + 1]
  /\ UNCHANGED <<face, hand, activity, meter, told>>

\* recordNewDroppedFrames(): what was dropped since it was last looked at; a
\* count below the last one is that of a new sampler.
NewlyDropped ==
  IF sampler.dropped >= sampler.recorded
  THEN sampler.dropped - sampler.recorded ELSE sampler.dropped

RecordDropped(m) == [m EXCEPT !.dropped = @ + NewlyDropped]

\* normalize(): only the landmarks of a single face are kept for the next frame,
\* which is compared with them whatever number of faces it shows.
KeepLandmarks(faces) == faces = 1
Displaced(faces) == faces > 0 /\ face

\* calculateHandOverMouthOverlap(), by the thresholds of the gate.
Overlaps(faces) ==
  IF faces > 0 THEN {"UNSEEN", "CLEAR", "BETWEEN", "COVERED"} ELSE {"UNSEEN"}

\* The entry and the recovery condition of the gate: between the thresholds a
\* gate stays as it is, and a mouth that is not seen is not covered.
HandSide(mouth) ==
  IF mouth = "COVERED" \/ (mouth = "BETWEEN" /\ Hands!Closed(hand.gate))
  THEN "BAD" ELSE "GOOD"

\* createState(): what is said of the hand, by the gate and this frame's overlap.
HandStatus(gate, mouth) ==
  CASE mouth = "UNSEEN" -> "UNAVAILABLE"
    [] mouth # "UNSEEN" /\ Hands!Closed(gate) -> "OCCLUDED"
    [] mouth = "COVERED" /\ ~Hands!Closed(gate) -> "UNCERTAIN"
    [] OTHER -> "CLEAR"

HandUpdate(mouth, t) ==
  LET gate == Hands!GateUpdate(hand.gate, HandSide(mouth), "HAND", t)
  IN [gate |-> gate, status |-> HandStatus(gate, mouth)]

\* computeExpressionActivityScores(): the variation since the last frame that was
\* measured, unless that is too long ago.
Comparable(t) ==
  activity.last # NoTime /\ t - activity.last > 0 /\ t - activity.last <= MaximumFrameGap

\* ExpressionActivityDetector.suspend() forgets the window, whoever asks for it.
ActivitySuspended == [NewActivity EXCEPT !.state = "SUSPENDED"]

\* ExpressionActivityDetector.update(): time counts as observable when a score
\* was found in which there is some confidence.
ActivityUpdate(frame, t) ==
  IF frame.faces = 0 THEN ActivitySuspended
  ELSE [state |-> "NORMAL", last |-> t,
        observable |-> IF Comparable(t) /\ frame.activity = "CONFIDENT"
                       THEN activity.observable + (t - activity.last)
                       ELSE activity.observable,
        scored |-> Comparable(t), aligned |-> Comparable(t) /\ Displaced(frame.faces)]

\* What becomes of the detector: a frame that is not usable and a profile that
\* leaves it out suspend it, and one that throws is reset.
ActivityStep(frame, t) ==
  CASE ~frame.usable \/ frame.activity = "DISABLED" -> ActivitySuspended
    [] frame.usable /\ frame.activity = "THROWS" -> NewActivity
    [] OTHER -> ActivityUpdate(frame, t)

Frames ==
  UNION {[faces : {f}, mouth : Overlaps(f), usable : BOOLEAN, gap : ObservedGaps,
          activity : {"DISABLED", "THROWS", "UNSURE", "CONFIDENT"}] : f \in 0..2}

\* recordObservation(): both ends of a short interval must be usable.
RecordObservation(m, frame, t) ==
  [m EXCEPT !.from = IF @ = NoTime THEN t ELSE @,
            !.observed = IF /\ m.last # NoTime /\ t - m.last \in 0..frame.gap
                            /\ m.usable /\ frame.usable
                         THEN @ + (t - m.last) ELSE @,
            !.last = t, !.usable = frame.usable]

\* What is left after a snapshot: every sum starts again.
Emptied(m, t) ==
  [m EXCEPT !.from = t, !.snapped = t, !.observed = 0, !.dropped = 0]

\* The snapshot itself: its interval begins with the last one, and it claims no
\* more time than that interval has.
Told(m, final, t) ==
  LET from == IF m.from = NoTime THEN t ELSE m.from
  IN [until |-> t,
      observed |-> told.observed + (IF m.observed <= t - from THEN m.observed ELSE t - from),
      dropped |-> told.dropped + m.dropped,
      gap |-> told.gap \/ (told.until # NoTime /\ told.until # from),
      final |-> final]

\* createMetricSnapshot(): at most one in an interval.
Snapshot(m, t) ==
  IF m.snapped # NoTime /\ t - m.snapped < SnapshotInterval
  THEN meter' = m /\ UNCHANGED told
  ELSE meter' = Emptied(m, t) /\ told' = Told(m, FALSE, t)

\* A frame is normalised by the worker and processed by the runtime, as far as
\* the metrics go.
Measure(step, frame) ==
  LET t == meter.now + step
      m == [RecordDropped(meter) EXCEPT !.now = t]
  IN /\ ~meter.ended /\ t <= MaxMeasured
     /\ sampler' = [sampler EXCEPT !.recorded = sampler.dropped]
     /\ face' = KeepLandmarks(frame.faces)
     /\ hand' = HandUpdate(frame.mouth, t)
     /\ activity' = ActivityStep(frame, t)
     /\ Snapshot(RecordObservation(m, frame, t), t)

\* end(): the rest is reported if a frame was analysed and consent was not
\* withdrawn, and all of it is forgotten; sampling has stopped before.
EndMetrics(reason, t) ==
  LET m == [RecordDropped(meter) EXCEPT !.now = t]
  IN /\ ~meter.ended /\ t \in meter.now..MaxMeasured
     /\ told' = IF reason = "SESSION_ENDED" /\ meter.last # NoTime
                THEN Told(m, TRUE, t) ELSE told
     /\ meter' = [NewMeter EXCEPT !.now = t, !.ended = TRUE]
     /\ face' = FALSE /\ hand' = NewHand /\ activity' = NewActivity
     /\ sampler' = [sampler EXCEPT !.recorded = 0]

MetricsNext ==
  \/ FrameDropped
  \/ \E step \in FrameSteps, frame \in Frames : Measure(step, frame)
  \/ \E reason \in {"CONSENT_WITHDRAWN", "SESSION_ENDED"}, t \in 0..MaxMeasured :
       EndMetrics(reason, t)

----------------------------------------------------------------------------
(* Properties. *)

\* The snapshots follow one another without a gap; the time they call observed
\* lies within their intervals, and so does what has yet to be reported; and
\* every dropped frame is reported by one of them, unless consent is withdrawn.
SnapshotsAddUp ==
  /\ ~told.gap
  /\ meter.from # NoTime => meter.observed <= meter.now - meter.from
  /\ told.until # NoTime => told.observed <= told.until
  /\ ~meter.ended => told.dropped + meter.dropped = sampler.recorded
  /\ told.final => told.dropped = sampler.dropped
============================================================================
