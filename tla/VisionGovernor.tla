--------------------------- MODULE VisionGovernor --------------------------
(***************************************************************************)
(* PerformanceGovernor: the profile in which the camera is analysed, one    *)
(* level down when processing takes too much of a frame's time, one level  *)
(* up after a longer time in which it did not.  A frame is HEAVY, at twice *)
(* the budget it may use, or costs nothing, so that a mean is over budget  *)
(* when more than half of its frames are heavy.                            *)
(***************************************************************************)
EXTENDS Integers, Sequences, FiniteSets, SequencesExt

CONSTANTS
  OverloadWindow, RecoveryWindow,  \* how long a mean is taken over
  ProfileCooldown,                 \* between two changes
  BudgetSteps,                      \* the times between two frames
  MaxAnalysed                      \* bound on the time

\* performanceGovernor of the configuration.
GovernorConfig ==
  {OverloadWindow, RecoveryWindow, ProfileCooldown} \subseteq Nat \ {0}

\* The bounds, and frames that follow one another.
ASSUME GovernorAssumption ==
  GovernorConfig /\ MaxAnalysed \in Nat /\ BudgetSteps \subseteq Nat \ {0}

VARIABLE governor   \* [now, profile, samples, changed]

ProfileOrder == <<"HIGH", "MEDIUM", "LOW">>
NotChanged == -1

NewGovernor == [now |-> 0, profile |-> 1, samples |-> <<>>, changed |-> NotChanged]

GovernorTypeOK ==
  /\ governor.now \in 0..MaxAnalysed /\ governor.profile \in DOMAIN ProfileOrder
  /\ governor.changed \in NotChanged..governor.now
  /\ \A s \in ToSet(governor.samples) : s.at \in 0..governor.now /\ s.heavy \in BOOLEAN
  /\ \A i, j \in DOMAIN governor.samples :
       i < j => governor.samples[i].at < governor.samples[j].at

GovernorInit == governor = NewGovernor

\* samplesWithin(): those of the window, of which the one just taken always is,
\* and one before, to measure all of it.
SamplesWithin(samples, from) ==
  LET within == {i \in DOMAIN samples : samples[i].at >= from}
      first == CHOOSE i \in within : \A j \in within : i <= j
  IN SubSeq(samples, IF first = 1 THEN 1 ELSE first - 1, Len(samples))

HasCovered(samples, window) ==
  samples # <<>> /\ Last(samples).at - Head(samples).at >= window

OverBudget(samples) ==
  2 * Cardinality({i \in DOMAIN samples : samples[i].heavy}) > Len(samples)

CooldownElapsed(g, t) == g.changed = NotChanged \/ t - g.changed >= ProfileCooldown

\* The window that decides: the longer one in a reduced profile, unless the
\* shorter one is over budget already.
SelectWindow(g, t) ==
  LET recent == SamplesWithin(g.samples, t - OverloadWindow)
  IN IF g.profile = 1 \/ (HasCovered(recent, OverloadWindow) /\ OverBudget(recent))
     THEN OverloadWindow ELSE RecoveryWindow

\* Mutant of MoveProfile: the samples of the old profile are kept.
MoveProfileKeeping(g, profile, t) ==
  IF profile \notin DOMAIN ProfileOrder THEN g
  ELSE [g EXCEPT !.profile = profile, !.changed = t]

\* moveProfile(): what was measured at another frame rate is not comparable.
MoveProfile(g, profile, t) ==
  IF profile \notin DOMAIN ProfileOrder THEN g
  ELSE [g EXCEPT !.profile = profile, !.changed = t, !.samples = <<>>]

\* update(): called with every analysed frame.
Govern(step, heavy) ==
  LET t == governor.now + step
      longest == IF OverloadWindow > RecoveryWindow THEN OverloadWindow ELSE RecoveryWindow
      sample == [at |-> t, heavy |-> heavy]
      g == [governor EXCEPT !.now = t,
                            !.samples = SamplesWithin(Append(@, sample), t - longest)]
      window == SelectWindow(g, t)
      relevant == SamplesWithin(g.samples, t - window)
      decides == HasCovered(relevant, window) /\ CooldownElapsed(g, t)
  IN /\ t <= MaxAnalysed
     /\ governor' = CASE decides /\ OverBudget(relevant) -> MoveProfile(g, g.profile + 1, t)
                      [] decides /\ ~OverBudget(relevant) /\ g.profile # 1
                           /\ window = RecoveryWindow -> MoveProfile(g, g.profile - 1, t)
                      [] OTHER -> g

\* finishEnd(): the governor is as new for the next session.
GovernorReset ==
  governor.samples # <<>> /\ governor' = [NewGovernor EXCEPT !.now = governor.now]

GovernorNext == GovernorReset \/ \E step \in BudgetSteps, heavy \in BOOLEAN : Govern(step, heavy)

----------------------------------------------------------------------------
(* Properties. *)

\* "Recovery requires a longer healthy window so camera-analysis load does not
\* oscillate": a profile is raised only when the last change, up or down, lies
\* the longer window back, whatever happened in between.
RecoversSlowly ==
  [][governor'.profile < governor.profile /\ governor'.changed # NotChanged
     => governor.changed # NotChanged
        /\ governor'.changed - governor.changed >= RecoveryWindow]_governor
============================================================================
