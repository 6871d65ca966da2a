--------------------------- MODULE VisionBaseline --------------------------
(***************************************************************************)
(* What a face is compared with: BaselineCalibrator collects a session's   *)
(* baseline from frames of good quality, AdaptiveBaselineManager then lets *)
(* it follow the user slowly.  The values themselves are left out: of a    *)
(* baseline the model keeps when it was last changed.                      *)
(***************************************************************************)
EXTENDS VisionQuality

CONSTANTS
  StableDuration, StableFrames,   \* stabilization before samples are taken
  TargetUsable, MinimumFrames,    \* what READY takes
  PartialUsable, PartialFrames,   \* what PARTIAL takes
  SampleGap,                      \* the most one sample adds to the usable time
  MaximumWall, SetupTimeout,      \* the two timers that end the collection
  LongGap, AdaptiveWarmup         \* the adaptive baseline's pause after a gap

\* What visionConfigSchema demands, but for the unit in which time is counted.
CalibrationConfig ==
  /\ {StableDuration, SampleGap, PartialUsable} \subseteq Nat
  /\ TargetUsable \in Nat /\ PartialUsable <= TargetUsable
  /\ MaximumWall \in Nat /\ TargetUsable <= MaximumWall
  /\ SetupTimeout \in Nat /\ MaximumWall < SetupTimeout
  /\ {StableFrames, MinimumFrames, PartialFrames} \subseteq Nat \ {0}
  /\ PartialFrames < MinimumFrames

AdaptiveConfig == {LongGap, AdaptiveWarmup} \subseteq Nat

ASSUME BaselineAssumption == CalibrationConfig /\ AdaptiveConfig

Calibrated == {"READY", "PARTIAL", "GLOBAL_FALLBACK"}

NoCalibration ==
  [status |-> "NOT_STARTED", setup |-> Never, collecting |-> Never,
   stabilizing |-> Never, frames |-> 0, lastUsable |-> Never,
   usable |-> 0, samples |-> 0, finished |-> Never, smile |-> "COLLECTING"]

----------------------------------------------------------------------------
(* BaselineCalibrator. *)

\* A frame that is not usable breaks the stabilization, never the samples.
Excluded(c) ==
  [c EXCEPT !.lastUsable = Never, !.stabilizing = Never, !.frames = 0,
            !.status = IF @ \in {"COLLECTING", "STABILIZING"} THEN "PAUSED" ELSE @]

CollectSample(c, t) ==
  [c EXCEPT !.samples = Lesser(@ + 1, MinimumFrames),
            !.usable = IF c.lastUsable = Never THEN @
                       ELSE Lesser(@ + Lesser(SampleGap, t - c.lastUsable), TargetUsable),
            !.lastUsable = t]

StartCollecting(c, t) ==
  [c EXCEPT !.status = "COLLECTING", !.lastUsable = Never,
            !.collecting = IF @ = Never THEN t ELSE @]

Stabilized(c, t) ==
  LET counted == [c EXCEPT !.frames = Lesser(@ + 1, StableFrames)]
  IN IF t - c.stabilizing < StableDuration \/ counted.frames < StableFrames
     THEN counted
     ELSE CollectSample(StartCollecting(counted, t), t)

Expired(c, t) ==
  \/ c.collecting # Never /\ t - c.collecting >= MaximumWall
  \/ c.setup # Never /\ t - c.setup >= SetupTimeout

\* Whether the mouth was seen often enough is the choice "mouth".
Finish(c, status, mouth, t) ==
  [c EXCEPT !.status = status, !.finished = t,
            !.smile = IF status = "GLOBAL_FALLBACK" THEN "GLOBAL_FALLBACK"
                      ELSE IF mouth THEN "PERSONALIZED"
                      ELSE "UNAVAILABLE"]

MaybeFinish(c, mouth, t) ==
  IF c.samples >= MinimumFrames /\ c.usable >= TargetUsable THEN
         Finish(c, "READY", mouth, t)
  ELSE IF ~Expired(c, t) THEN c
  ELSE IF c.samples >= PartialFrames /\ c.usable >= PartialUsable THEN
         Finish(c, "PARTIAL", mouth, t)
  ELSE Finish(c, "GLOBAL_FALLBACK", mouth, t)

\* Mutant of CalibratorUpdate: an excluded frame does not look at the timers.
CalibratorUpdateWaiting(c, eligible, mouth, t) ==
  LET begun == [c EXCEPT !.setup = IF @ = Never THEN t ELSE @,
                         !.status = IF @ = "NOT_STARTED" THEN "PRECHECK" ELSE @]
  IN IF c.status \in Calibrated THEN c
     ELSE IF ~eligible THEN Excluded(begun)
     ELSE IF begun.status \in {"PRECHECK", "PAUSED"} THEN
            [begun EXCEPT !.status = "STABILIZING", !.stabilizing = t, !.frames = 1]
     ELSE IF begun.status = "STABILIZING" THEN MaybeFinish(Stabilized(begun, t), mouth, t)
     ELSE MaybeFinish(CollectSample(begun, t), mouth, t)

\* update(): every frame before the end of the collection looks at the timers.
CalibratorUpdate(c, eligible, mouth, t) ==
  LET begun == [c EXCEPT !.setup = IF @ = Never THEN t ELSE @,
                         !.status = IF @ = "NOT_STARTED" THEN "PRECHECK" ELSE @]
      next == IF ~eligible THEN Excluded(begun)
              ELSE IF begun.status \in {"PRECHECK", "PAUSED"} THEN
                     [begun EXCEPT !.status = "STABILIZING", !.stabilizing = t,
                                   !.frames = 1]
              ELSE IF begun.status = "STABILIZING" THEN Stabilized(begun, t)
              ELSE CollectSample(begun, t)
  IN IF c.status \in Calibrated THEN c ELSE MaybeFinish(next, mouth, t)

\* useGlobalFallback(): the user skips the calibration.
SkipCalibration(c, t) == Finish(c, "GLOBAL_FALLBACK", FALSE, t)

----------------------------------------------------------------------------
(* AdaptiveBaselineManager.  The share of eligible time in the window, which *)
(* decides whether it adapts, is the choice "adapts"; anchoring anew after a *)
(* long shift changes the same values.                                       *)

NoBaseline == [anchor |-> Never, changed |-> Never, last |-> Never, warmup |-> 0]

\* Mutant of AdaptiveUpdate: a busy detector does not freeze the baseline.
AdaptiveUpdateUnfrozen(b, c, eligible, frozen, adapts, t) ==
  IF c.status \notin {"READY", "PARTIAL"} THEN [b EXCEPT !.last = Never]
  ELSE [anchor |-> c.finished, last |-> t, warmup |-> 0,
        changed |-> IF eligible /\ adapts THEN t
                    ELSE IF b.anchor = c.finished THEN b.changed ELSE c.finished]

AdaptiveUpdate(b, c, eligible, frozen, adapts, t) ==
  LET anchored == IF b.anchor = c.finished THEN b
                  ELSE [anchor |-> c.finished, changed |-> c.finished,
                        last |-> Never, warmup |-> 0]
      gap == IF anchored.last = Never THEN 0 ELSE t - anchored.last
      warmed == [anchored EXCEPT !.last = t,
                                 !.warmup = IF gap > LongGap THEN t + AdaptiveWarmup ELSE @]
  IN IF c.status \notin {"READY", "PARTIAL"} THEN
            [b EXCEPT !.last = Never, !.warmup = 0]
     ELSE IF eligible /\ t >= warmed.warmup /\ adapts /\ ~frozen THEN
            [warmed EXCEPT !.changed = t]
     ELSE warmed
============================================================================
