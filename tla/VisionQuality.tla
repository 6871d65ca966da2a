--------------------------- MODULE VisionQuality ---------------------------
(***************************************************************************)
(* The quality of an analysed frame: one HysteresisGate for every reason   *)
(* for which a face can be unfit for analysis, and FaceQualityDetector,    *)
(* which turns the gates into the four states of the analysis.  Times are  *)
(* the session's; Never is a field that is null.                           *)
(*                                                                         *)
(* The scores behind a gate's two thresholds are abstracted to the side    *)
(* the frame is on; one between the thresholds is GOOD for an open gate    *)
(* and BAD for a closed one.                                               *)
(***************************************************************************)
EXTENDS Integers

CONSTANTS
  Reasons,          \* the gates: FACE_MISSING, LOW_LIGHT, ...
  EntryDuration,    \* [Reasons -> Nat]: how long a frame must be BAD
  GateRecovery,     \* [Reasons -> Nat]: how long it must be GOOD again
  AnalysisWarmup    \* how long the analysis must be free of reasons

\* No frame is analysed again before every gate that was about to close had
\* the time to: no entry duration of defaultVisionConfig exceeds the warm-up.
QualityConfig ==
  /\ EntryDuration \in [Reasons -> Nat]
  /\ GateRecovery \in [Reasons -> Nat]
  /\ AnalysisWarmup \in Nat
  /\ \A r \in Reasons : EntryDuration[r] <= AnalysisWarmup

ASSUME QualityAssumption == QualityConfig

Never == -1
Lesser(a, b) == IF a <= b THEN a ELSE b
Greater(a, b) == IF a >= b THEN a ELSE b

Sides == {"BAD", "GOOD"}

----------------------------------------------------------------------------
(* HysteresisGate. *)

OpenGate == [state |-> "INACTIVE", candidate |-> Never, active |-> Never]

Closed(gate) == gate.state \in {"ACTIVE", "RECOVERY_CANDIDATE"}

\* The time a gate closes is the time of the first frame that was BAD.
TryActivate(gate, duration, t) ==
  IF t - gate.candidate < duration THEN gate
  ELSE [state |-> "ACTIVE", candidate |-> Never, active |-> gate.candidate]

TryDeactivate(gate, duration, t) ==
  IF t - gate.candidate < duration THEN gate ELSE OpenGate

\* Mutant of GateUpdate: a good frame does not drop the entry candidate.
GateUpdateLingering(gate, side, r, t) ==
  CASE gate.state = "INACTIVE" /\ side = "BAD" ->
         TryActivate([gate EXCEPT !.state = "ENTRY_CANDIDATE", !.candidate = t],
                     EntryDuration[r], t)
    [] gate.state = "ENTRY_CANDIDATE" /\ side = "BAD" ->
         TryActivate(gate, EntryDuration[r], t)
    [] gate.state = "ACTIVE" /\ side = "GOOD" ->
         TryDeactivate([gate EXCEPT !.state = "RECOVERY_CANDIDATE", !.candidate = t],
                       GateRecovery[r], t)
    [] gate.state = "RECOVERY_CANDIDATE" ->
         IF side = "GOOD" THEN TryDeactivate(gate, GateRecovery[r], t)
         ELSE [gate EXCEPT !.state = "ACTIVE", !.candidate = Never]
    [] OTHER -> gate

GateUpdate(gate, side, r, t) ==
  CASE gate.state = "INACTIVE" /\ side = "BAD" ->
         TryActivate([gate EXCEPT !.state = "ENTRY_CANDIDATE", !.candidate = t],
                     EntryDuration[r], t)
    [] gate.state = "ENTRY_CANDIDATE" ->
         IF side = "BAD" THEN TryActivate(gate, EntryDuration[r], t) ELSE OpenGate
    [] gate.state = "ACTIVE" /\ side = "GOOD" ->
         TryDeactivate([gate EXCEPT !.state = "RECOVERY_CANDIDATE", !.candidate = t],
                       GateRecovery[r], t)
    [] gate.state = "RECOVERY_CANDIDATE" ->
         IF side = "GOOD" THEN TryDeactivate(gate, GateRecovery[r], t)
         ELSE [gate EXCEPT !.state = "ACTIVE", !.candidate = Never]
    [] OTHER -> gate

----------------------------------------------------------------------------
(* FaceQualityDetector. *)

NewQuality ==
  [state |-> "USABLE", gates |-> [r \in Reasons |-> OpenGate],
   since |-> Never, recovery |-> Never]

Usable(q) == q.state \in {"USABLE", "DEGRADED_CANDIDATE"}
\* Mutant of CanStartBehavior: a face that is about to be unfit is good enough.
CanStartWhileDegrading(q) == Usable(q)

CanStartBehavior(q) == q.state = "USABLE"

\* The earliest time a closed gate or this frame speaks of.
ObservedStart(gates, t) ==
  CHOOSE s \in {t} \cup {gates[r].active : r \in {x \in Reasons : Closed(gates[x])}} :
    \A r \in Reasons : Closed(gates[r]) => s <= gates[r].active

\* A relapse during the recovery is the same unavailable episode.
EnterUnavailable(q, t) ==
  CASE q.state = "UNUSABLE" -> q
    [] q.state = "RECOVERY_CANDIDATE" ->
         [q EXCEPT !.state = "UNUSABLE", !.recovery = Never]
    [] OTHER -> [q EXCEPT !.state = "UNUSABLE", !.since = ObservedStart(q.gates, t),
                          !.recovery = Never]

\* Mutant of AdvanceRecovery: the end of the recovery forgets unavailableSinceMs.
AdvanceRecoveryKeeping(q, t) ==
  CASE q.state = "UNUSABLE" ->
         [q EXCEPT !.state = "RECOVERY_CANDIDATE", !.recovery = t]
    [] q.state = "RECOVERY_CANDIDATE" /\ t - q.recovery >= AnalysisWarmup ->
         [q EXCEPT !.state = "USABLE", !.recovery = Never]
    [] OTHER -> q

AdvanceRecovery(q, t) ==
  CASE q.state = "UNUSABLE" ->
         [q EXCEPT !.state = "RECOVERY_CANDIDATE", !.recovery = t]
    [] q.state = "RECOVERY_CANDIDATE" /\ t - q.recovery >= AnalysisWarmup ->
         [q EXCEPT !.state = "USABLE", !.since = Never, !.recovery = Never]
    [] OTHER -> q

\* update(): the gates, then the state of the analysis; "stopped" stands for
\* the reasons that hold at once (camera off, track ended, tab hidden).
QualityUpdate(q, sides, stopped, t) ==
  LET gates == [r \in Reasons |-> GateUpdate(q.gates[r], sides[r], r, t)]
      seen == [q EXCEPT !.gates = gates]
      next == IF stopped \/ \E r \in Reasons : Closed(gates[r])
              THEN EnterUnavailable(seen, t)
              ELSE AdvanceRecovery(seen, t)
      pending == \E r \in Reasons : gates[r].state = "ENTRY_CANDIDATE"
  IN IF ~Usable(next) THEN next
     ELSE [next EXCEPT !.state = IF pending THEN "DEGRADED_CANDIDATE" ELSE "USABLE"]

\* The events of one update: ANALYSIS_UNAVAILABLE and ANALYSIS_RECOVERED.
BecameUnavailable(q, next) == q.since = Never /\ next.since # Never
Recovered(q, next) == q.since # Never /\ next.since = Never
============================================================================
