--------------------------- MODULE VisionBehavior --------------------------
(***************************************************************************)
(* The detectors that report episodes of behaviour: ScreenAttentionDetector *)
(* (GAZE_AWAY) and SmileExpressionDetector (SMILE).  Both follow the states *)
(* of BehaviorStateMachine and time an episode with BehaviorEpisodeClock.  *)
(*                                                                         *)
(* What a detector measures in a frame is abstracted to the evidence it    *)
(* draws from it: too weak to be used, a rule of entry that holds, between *)
(* the thresholds, or recovered.                                           *)
(***************************************************************************)
EXTENDS VisionBaseline

CONSTANTS
  EntryTime, EntryFrames,    \* [Rules -> Nat]: how long, and how often, to hold
  RecoveryTime, RecoveryFrames,
  Cooldown, MaximumGap,      \* [Detectors -> Nat]
  SuspensionGrace, RecoveryWarmup,
  ProlongedTime

Detectors == {"SCREEN_ATTENTION", "SMILE_EXPRESSION"}
Rules == {"AGGREGATE", "IRIS_ONLY", "GLOBAL_FALLBACK", "SMILE"}

DetectorConfig ==
  /\ EntryTime \in [Rules -> Nat] /\ EntryFrames \in [Rules -> Nat]
  /\ RecoveryTime \in [Detectors -> Nat] /\ RecoveryFrames \in [Detectors -> Nat]
  /\ Cooldown \in [Detectors -> Nat \ {0}] /\ MaximumGap \in [Detectors -> Nat]

\* A prolonged episode is longer than it takes to start one.
AttentionConfig == ProlongedTime \in Nat /\ EntryTime["AGGREGATE"] < ProlongedTime

PolicyConfig == SuspensionGrace \in Nat /\ RecoveryWarmup \in Nat \ {0}

ASSUME BehaviorAssumption == DetectorConfig /\ AttentionConfig /\ PolicyConfig

\* The departures from the baseline that may start GAZE_AWAY; only a fallback
\* baseline is judged by its own rule.
AttentionRules(c) ==
  IF c.status = "GLOBAL_FALLBACK" THEN {"GLOBAL_FALLBACK"} ELSE {"AGGREGATE", "IRIS_ONLY"}

\* What pose, position and gaze of a frame amount to, and what the mouth does.
AttentionEvidence(c) == {"WEAK", "BETWEEN", "RECOVERED"} \cup AttentionRules(c)
SmileEvidence == {"WEAK", "BETWEEN", "RECOVERED", "SMILE"}

Evidence(name, c) ==
  IF name = "SMILE_EXPRESSION" THEN SmileEvidence ELSE AttentionEvidence(c)

\* A measurement below the suspended threshold of confidence.
Unreliable(evidence) == evidence = "WEAK"
Returned(evidence) == evidence = "RECOVERED"

\* The statuses a detector accepts, and the mode of its own signal.
BaselineReady(name, c) ==
  /\ c.status \in Calibrated
  /\ name = "SMILE_EXPRESSION" => c.smile \in {"PERSONALIZED", "GLOBAL_FALLBACK"}

Silent == [type |-> "NONE", from |-> Never, to |-> Never, observed |-> 0]

\* What visionBehaviorEventSchema demands of the times of an event: no duration is
\* negative, and what was observed and what was not add up to the whole.
Valid(event) ==
  event.type # "NONE" =>
    /\ event.from >= 0 /\ event.to >= event.from
    /\ event.observed \in 0..(event.to - event.from)

NewDetector ==
  [state |-> "WAITING_FOR_BASELINE", since |-> Never, rule |-> "NONE",
   seen |-> 0, back |-> 0, last |-> Never, warmup |-> Never, cooldown |-> 0,
   start |-> Never, observedAt |-> Never, paused |-> Never, observed |-> 0,
   prolonged |-> FALSE, event |-> Silent]

----------------------------------------------------------------------------
(* BehaviorEpisodeClock, and the event that ends an episode. *)

InEpisode(d) == d.start # Never

StartEpisode(d, t) ==
  [d EXCEPT !.start = d.since, !.observedAt = t, !.paused = Never,
            !.observed = t - d.since]

\* observe(): a gap between two frames is not observed.
GapTooLong(d, name, t) == t - d.observedAt > MaximumGap[name]

Observe(d, name, t) ==
  IF GapTooLong(d, name, t)
  THEN [d EXCEPT !.paused = IF @ = Never THEN d.observedAt ELSE @]
  ELSE [d EXCEPT !.observed = @ + (t - d.observedAt), !.observedAt = t]

Pause(d, t) ==
  IF InEpisode(d) /\ d.paused = Never THEN [d EXCEPT !.paused = t] ELSE d

PausedFor(d, t) == IF d.paused = Never THEN 0 ELSE Greater(0, t - d.paused)

PausedAt(d, t) == IF d.paused = Never THEN t ELSE d.paused

\* Mutant of Resume: the observation goes on from before the suspension.
ResumeObserving(d, t) == [d EXCEPT !.paused = Never]

Resume(d, t) == [d EXCEPT !.paused = Never, !.observedAt = t]

EndEpisode(d, at) ==
  [d EXCEPT !.event = [type |-> "ENDED", from |-> d.start, to |-> at,
                       observed |-> Lesser(d.observed, Greater(0, at - d.start))],
            !.start = Never, !.observedAt = Never, !.paused = Never,
            !.observed = 0, !.prolonged = FALSE]

\* suspend(): a short technical suspension keeps the episode; a longer one ends
\* it where it began, and the three explicit reasons end it at once.
Suspend(d, name, immediate, since, t) ==
  LET paused == Pause(d, since)
      ended == IF ~InEpisode(d) THEN d
               ELSE IF immediate THEN EndEpisode(paused, t)
               ELSE IF PausedFor(paused, t) > SuspensionGrace THEN
                      EndEpisode(paused, PausedAt(paused, t))
               ELSE paused
  IN [ended EXCEPT !.state = IF immediate THEN "WAITING_FOR_BASELINE" ELSE "SUSPENDED",
                   !.since = t, !.rule = "NONE", !.seen = 0, !.back = 0,
                   !.warmup = Never,
                   !.last = IF name = "SMILE_EXPRESSION" THEN Never ELSE @]

----------------------------------------------------------------------------
(* update(), in the order of its code. *)

Enter(d, state, t) == [d EXCEPT !.state = state, !.since = t]

\* Mutant of AfterGap: only an episode, not a candidate, minds the gap.
AfterGapKeeping(d, name, t) ==
  IF d.last = Never \/ t - d.last <= MaximumGap[name] \/ ~InEpisode(d) THEN d
  ELSE Enter(Pause(d, d.last), "SUSPENDED", d.last)

\* The gap since the last frame suspends an episode and drops a candidate.
AfterGap(d, name, t) ==
  IF d.last = Never \/ t - d.last <= MaximumGap[name] THEN d
  ELSE IF InEpisode(d) THEN Enter(Pause(d, d.last), "SUSPENDED", d.last)
  ELSE Enter([d EXCEPT !.seen = 0, !.rule = "NONE"], "NORMAL", t)

AfterSuspension(d, name, t) ==
  LET warm == [d EXCEPT !.warmup = IF @ = Never THEN t + RecoveryWarmup ELSE @]
  IN IF d.state # "SUSPENDED" THEN d
     ELSE IF InEpisode(d) /\ PausedFor(d, t) > SuspensionGrace THEN
            Enter([EndEpisode(d, PausedAt(d, t)) EXCEPT !.cooldown = t + Cooldown[name]],
                  "COOLDOWN", t)
     ELSE IF InEpisode(d) THEN Enter([Resume(d, t) EXCEPT !.warmup = Never], "ACTIVE", t)
     ELSE IF t >= warm.warmup THEN Enter([warm EXCEPT !.warmup = Never], "NORMAL", t)
     ELSE warm

AfterWaiting(d, t) ==
  IF \/ d.state = "WAITING_FOR_BASELINE"
     \/ d.state = "COOLDOWN" /\ t >= d.cooldown
  THEN Enter(d, "NORMAL", t) ELSE d

Candidate(d, rule, t) == Enter([d EXCEPT !.seen = 1, !.rule = rule], "CANDIDATE", t)

\* Another rule that holds the candidate open starts its own budget.
Confirm(d, rule, t) ==
  LET counted == [d EXCEPT !.seen = Lesser(@ + 1, EntryFrames[rule])]
  IN IF rule # d.rule THEN Candidate(d, rule, t)
     ELSE IF t - d.since >= EntryTime[rule] /\ d.seen + 1 >= EntryFrames[rule] THEN
            Enter([StartEpisode(counted, t) EXCEPT
                     !.event = [type |-> "STARTED", from |-> d.since, to |-> t,
                                observed |-> t - d.since]], "ACTIVE", t)
     ELSE counted

Prolong(d, name, t) ==
  IF /\ name = "SCREEN_ATTENTION" /\ ~d.prolonged
     /\ Lesser(d.observed, t - d.start) >= ProlongedTime
  THEN [d EXCEPT !.prolonged = TRUE,
                 !.event = [type |-> "PROLONGED", from |-> d.start, to |-> t,
                            observed |-> Lesser(d.observed, t - d.start)]]
  ELSE d

WhileActive(d, name, evidence, t) ==
  LET observed == Observe(d, name, t)
      prolonged == Prolong(observed, name, t)
  IN IF GapTooLong(d, name, t) THEN Enter(observed, "SUSPENDED", PausedAt(observed, t))
     ELSE IF Returned(evidence) THEN
            Enter([prolonged EXCEPT !.back = 1], "RECOVERY_CANDIDATE", t)
     ELSE prolonged

\* An attention frame that has not recovered is not observed here.
WhileRecovering(d, name, evidence, t) ==
  LET observed == [Observe(d, name, t) EXCEPT
                     !.back = Lesser(@ + 1, RecoveryFrames[name])]
  IN IF ~Returned(evidence) /\ name = "SCREEN_ATTENTION" THEN
            Enter([d EXCEPT !.back = 0], "ACTIVE", t)
     ELSE IF ~Returned(evidence) THEN Enter(Observe(d, name, t), "ACTIVE", t)
     ELSE IF t - d.since >= RecoveryTime[name] /\ d.back + 1 >= RecoveryFrames[name] THEN
            Enter([EndEpisode(observed, t) EXCEPT !.cooldown = t + Cooldown[name]],
                  "COOLDOWN", t)
     ELSE observed

Judge(d, name, evidence, canStart, t) ==
  LET entry == canStart /\ evidence \in Rules
  IN IF d.state = "NORMAL" /\ entry THEN Candidate(d, evidence, t)
     ELSE IF d.state = "CANDIDATE" /\ entry THEN Confirm(d, evidence, t)
     ELSE IF d.state = "CANDIDATE" THEN
            Enter([d EXCEPT !.seen = 0, !.rule = "NONE"], "NORMAL", t)
     ELSE IF d.state = "ACTIVE" THEN WhileActive(d, name, evidence, t)
     ELSE IF d.state = "RECOVERY_CANDIDATE" THEN WhileRecovering(d, name, evidence, t)
     ELSE d

Update(d, name, evidence, canStart, ready, t) ==
  LET seen == [AfterGap(d, name, t) EXCEPT !.last = t]
  IN IF ~ready THEN Suspend(d, name, FALSE, t, t)
     ELSE IF Unreliable(evidence) THEN Suspend(seen, name, FALSE, t, t)
     ELSE Judge(AfterWaiting(AfterSuspension(seen, name, t), t),
                         name, evidence, canStart, t)

\* isDetectorBusy(): what freezes the baseline the detector is measured against.
Busy(d) == d.state \in {"CANDIDATE", "ACTIVE", "RECOVERY_CANDIDATE"}
============================================================================
