------------------------------ MODULE VisionNod -----------------------------
(***************************************************************************)
(* NodDetector: a nod is one movement of the head down and back, told once *)
(* it is complete.  Angles are in steps of some degrees from the pitch of  *)
(* the baseline, downwards positive; the session's time goes on by frames. *)
(* The detector runs only where it was enabled and the frames are dense.   *)
(***************************************************************************)
EXTENDS Integers

CONSTANTS
  Tolerance, MinAmplitude, MaxAmplitude, Reversal,   \* angles
  MinDown, MinUp, MaxHold, MinNod, MaxNod, NodCooldown,   \* times
  FrameGaps,   \* how far apart two frames may be
  MaxNodTime   \* bound on the session's time

VARIABLES
  head,   \* the detector: [state, smooth, started, active, returning, neutral, cooldown, peak]
  time,   \* the frame's session time
  nod     \* the last event: [from, to, down, up, peak]

nodVars == <<head, time, nod>>

NodAssumption ==
  /\ Tolerance \in Nat \ {0} /\ MinAmplitude \in Nat \ {0} /\ Reversal \in Nat \ {0}
  /\ MaxAmplitude \in Nat /\ MinAmplitude < MaxAmplitude
  /\ MinDown \in Nat \ {0} /\ MinUp \in Nat \ {0} /\ MinNod \in Nat \ {0}
  /\ MaxNod \in Nat /\ MinNod < MaxNod /\ MaxHold \in 1..(MaxNod - 1)
  /\ NodCooldown \in Nat \ {0}
  /\ MaxNodTime \in Nat /\ FrameGaps \subseteq Nat \ {0}
ASSUME NodAssumption

NodStates == {"WAITING_FOR_BASELINE", "IDLE", "DOWN_CANDIDATE", "DOWN_ACTIVE", "RETURNING", "COOLDOWN"}
Unset == -1
Angles == (-Tolerance - 1)..(MaxAmplitude + 1)
NewHead == [state |-> "WAITING_FOR_BASELINE", smooth |-> Unset - MaxAmplitude, started |-> Unset,
            active |-> Unset, returning |-> Unset, neutral |-> Unset, cooldown |-> 0, peak |-> 0]
Unfiltered == NewHead.smooth
NoNod == [from |-> Unset, to |-> Unset, down |-> 0, up |-> 0, peak |-> 0]

Moving(h) == h.state \in {"DOWN_CANDIDATE", "DOWN_ACTIVE", "RETURNING"}
NodTypeOK ==
  /\ head.state \in NodStates
  /\ head.smooth \in Angles \cup {Unfiltered} /\ head.peak \in 0..(MaxAmplitude + 1)
  /\ Moving(head) <=> head.started # Unset
  /\ head.state \in {"DOWN_ACTIVE", "RETURNING"} <=> head.active # Unset
  /\ head.state = "RETURNING" <=> head.returning # Unset
  /\ Moving(head) => head.peak >= MinAmplitude /\ head.started <= time
  /\ head.neutral <= time /\ time \in 0..MaxNodTime

----------------------------------------------------------------------------
Smoothed(previous, next) == IF previous = Unfiltered THEN next ELSE (next + previous) \div 2

Cleared(h) == [h EXCEPT !.started = Unset, !.active = Unset, !.returning = Unset, !.peak = 0]

\* Mutant of Rest: the neutral sample before the movement may begin another one.
RestRemembering(h, state) == [Cleared(h) EXCEPT !.state = state]

\* abortMovement, enterCooldown and resetTracking: another movement needs a new neutral sample.
Rest(h, state) == [Cleared(h) EXCEPT !.neutral = Unset, !.state = state]

Longer(a, b) == IF a < b THEN b ELSE a
TooLong(h, t) == t - h.started > MaxNod
Suspended(h) == [Rest(h, "WAITING_FOR_BASELINE") EXCEPT !.smooth = Unfiltered]

\* The first frame with a baseline, and the first after the cooldown, find it idle.
Awake(h, t) ==
  IF h.state = "WAITING_FOR_BASELINE" \/ (h.state = "COOLDOWN" /\ t >= h.cooldown)
  THEN [h EXCEPT !.state = "IDLE"] ELSE h

Idle(h, d, t) ==
  CASE -Tolerance <= d /\ d <= Tolerance -> [h EXCEPT !.neutral = t]
    [] d > Tolerance /\ d \in MinAmplitude..MaxAmplitude /\ h.neutral # Unset ->
         [h EXCEPT !.state = "DOWN_CANDIDATE", !.started = h.neutral, !.peak = d]
    [] OTHER -> h

GoesDown(h, d, t) ==
  LET g == [h EXCEPT !.peak = Longer(@, d)]
  IN CASE d > MaxAmplitude \/ d < 0 \/ TooLong(h, t) -> Rest(h, "IDLE")
       [] d \in 0..Tolerance /\ t - h.started < MinDown /\ ~TooLong(h, t) -> Rest(h, "IDLE")
       [] d \in (Tolerance + 1)..MaxAmplitude /\ d >= MinAmplitude
            /\ t - h.started >= MinDown /\ ~TooLong(h, t) ->
            [g EXCEPT !.state = "DOWN_ACTIVE", !.active = t]
       [] OTHER -> g

StaysDown(h, d, t) ==
  LET g == [h EXCEPT !.peak = Longer(@, d)]
  IN CASE d > MaxAmplitude \/ TooLong(h, t) \/ t - h.active > MaxHold -> Rest(h, "IDLE")
       [] d <= g.peak - Reversal /\ ~TooLong(h, t) /\ t - h.active <= MaxHold ->
            [g EXCEPT !.state = "RETURNING", !.returning = t]
       [] OTHER -> g

\* A cycle counts if it lasted and came back slowly enough; otherwise it is dropped.
Complete(h, t) == t - h.started \in MinNod..MaxNod /\ t - h.returning >= MinUp
ComesBack(h, d, t) ==
  CASE TooLong(h, t) \/ d < -Tolerance -> Rest(h, "IDLE")
    [] d \in -Tolerance..Tolerance /\ ~TooLong(h, t) ->
         IF Complete(h, t) THEN [Rest(h, "COOLDOWN") EXCEPT !.cooldown = t + NodCooldown]
         ELSE Rest(h, "IDLE")
    [] OTHER -> h

Followed(h, d, t) ==
  CASE h.state = "IDLE" -> Idle(h, d, t)
    [] h.state = "DOWN_CANDIDATE" -> GoesDown(h, d, t)
    [] h.state = "DOWN_ACTIVE" -> StaysDown(h, d, t)
    [] h.state = "RETURNING" -> ComesBack(h, d, t)
    [] h.state = "COOLDOWN" -> h

----------------------------------------------------------------------------
NodIdle == head = NewHead /\ time = MaxNodTime /\ nod = NoNod
NodInit == head = NewHead /\ time = 0 /\ nod = NoNod

\* update() of a frame with a pose and a baseline.
NodFrame(raw, t) ==
  LET awake == Awake(head, t)
      smooth == Smoothed(head.smooth, raw)
      next == Followed(awake, smooth, t)
  IN /\ head' = [next EXCEPT !.smooth = smooth]
     /\ nod' = IF awake.state = "RETURNING" /\ next.state = "COOLDOWN"
               THEN [from |-> head.started, to |-> t, down |-> head.active - head.started,
                     up |-> t - head.returning, peak |-> head.peak]
               ELSE nod
     /\ time' = t

\* Without a pose, and when the detector is suspended, the cycle is forgotten.
NodSuspend(t) == head' = Suspended(head) /\ time' = t /\ UNCHANGED nod

\* A frame without a baseline keeps the filter.
NodUnready(t) == head' = Rest(head, "WAITING_FOR_BASELINE") /\ time' = t /\ UNCHANGED nod

NodNext ==
  \E gap \in FrameGaps :
    /\ time + gap <= MaxNodTime
    /\ \/ \E raw \in Angles : NodFrame(raw, time + gap)
       \/ NodSuspend(time + gap) \/ NodUnready(time + gap)

----------------------------------------------------------------------------
(* A nod is told once: an event is of a whole cycle, whose strokes are long *)
(* enough and lie within it, and no two events share a part of a movement,  *)
(* also where the cooldown was forgotten with a suspension (NodDetector.ts).*)
NodsAreSeparate ==
  [][nod' # nod => /\ nod'.from > nod.to
                   /\ nod'.down >= MinDown /\ nod'.up >= MinUp
                   /\ nod'.down + nod'.up <= nod'.to - nod'.from
                   /\ nod'.to - nod'.from \in MinNod..MaxNod
                   /\ nod'.peak \in MinAmplitude..MaxAmplitude]_nodVars
=============================================================================
