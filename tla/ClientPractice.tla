--------------------------- MODULE ClientPractice ---------------------------
(***************************************************************************)
(* Practising alone (AI video): the setup page and the practice page, each *)
(* with a camera of its own (useLocalCamera), the vision analysis that     *)
(* runs in the browser only (useSoloVisionAnalysis), the hints, and the    *)
(* summary at the end.                                                     *)
(***************************************************************************)
EXTENDS Naturals

CONSTANTS
  Duration,    \* PRACTICE_DURATION_SEC, in ticks
  Interval,    \* QUESTION_INTERVAL_SEC
  Questions,   \* how many a scenario has
  HintTtl,     \* how long a hint stands
  MaxSmiles    \* bound on the smiles that are counted

ASSUME PracticeAssumption == Duration \in Nat \ {0} /\ {HintTtl, MaxSmiles} \subseteq Nat

VARIABLES
  lens,       \* [page -> [state, held, asking]]: the cameras
  practice,   \* [at, elapsed, finished]
  solo,       \* [state, loading]: the analysis and what its worker still has to load
  tally,      \* [smiles, smiling, away]: what happened, as the page heard it
  hint        \* ticks left of the hint, 0: none

practiceVars == <<lens, practice, solo, tally, hint>>

Studios == {"SETUP", "PRACTICE"}
Dark == [state |-> "IDLE", held |-> FALSE, asking |-> FALSE]
Requested(c) == [c EXCEPT !.state = "REQUESTING", !.asking = TRUE]
Silent0 == [smiles |-> 0, smiling |-> FALSE, away |-> 0]
NoAnalysis == [state |-> "IDLE", loading |-> FALSE]

PracticeTypeOK ==
  /\ \A p \in Studios : /\ lens[p].state \in {"IDLE", "REQUESTING", "READY", "DENIED"}
                        /\ lens[p].held => lens[p].state = "READY"
                        /\ lens[p].asking \in BOOLEAN
  /\ practice.at \in Studios \cup {"LEFT"} /\ practice.elapsed \in 0..Duration
  /\ practice.elapsed = Duration => practice.finished
  /\ solo.state \in {"IDLE", "STARTING", "RUNNING", "UNAVAILABLE"} /\ solo.loading \in BOOLEAN
  /\ solo.state # "IDLE" => practice.at = "PRACTICE" /\ lens["PRACTICE"].held
  /\ tally.smiles \in 0..MaxSmiles /\ tally.away \in 0..MaxSmiles /\ tally.smiling \in BOOLEAN
  /\ tally.smiling => tally.smiles > 0
  /\ hint \in 0..HintTtl

PracticeIdle ==
  /\ lens = [p \in Studios |-> Dark]
  /\ practice = [at |-> "LEFT", elapsed |-> 0, finished |-> FALSE]
  /\ solo = NoAnalysis /\ tally = Silent0 /\ hint = 0

\* The setup page asks for the camera as it opens.
PracticeInit ==
  /\ lens = [p \in Studios |-> IF p = "SETUP" THEN Requested(Dark) ELSE Dark]
  /\ practice = [at |-> "SETUP", elapsed |-> 0, finished |-> FALSE]
  /\ solo = NoAnalysis /\ tally = Silent0 /\ hint = 0

----------------------------------------------------------------------------
(* useLocalCamera. *)

\* Mutant of CameraArrives: a page that is gone takes the stream as well.
CameraArrivesAnyway(p) ==
  /\ lens[p].asking
  /\ lens' = [lens EXCEPT ![p] = [state |-> "READY", held |-> TRUE, asking |-> FALSE]]
  /\ UNCHANGED <<practice, tally, hint>>

\* A stream that arrives after the page was left is stopped at once.
CameraArrives(p) ==
  /\ lens[p].asking
  /\ lens' = [lens EXCEPT ![p] = IF practice.at = p
                                 THEN [state |-> "READY", held |-> TRUE, asking |-> FALSE]
                                 ELSE [@ EXCEPT !.asking = FALSE]]
  /\ UNCHANGED <<practice, tally, hint>>

CameraDenied(p) ==
  /\ lens[p].asking
  /\ lens' = [lens EXCEPT ![p] = [@ EXCEPT !.asking = FALSE,
                                  !.state = IF practice.at = p THEN "DENIED"
                                                              ELSE lens[p].state]]
  /\ UNCHANGED <<practice, solo, tally, hint>>

\* The setup page offers to try again.
CameraRetry ==
  /\ practice.at = "SETUP" /\ lens["SETUP"].state = "DENIED"
  /\ lens' = [lens EXCEPT !["SETUP"] = Requested(@)]
  /\ UNCHANGED <<practice, solo, tally, hint>>

\* Leaving a page turns off its camera, not what it has asked for.
Darkened(p) == [lens EXCEPT ![p] = [Dark EXCEPT !.asking = lens[p].asking]]

----------------------------------------------------------------------------
(* useSoloVisionAnalysis. *)

\* The analysis begins with the stream, while the practice lasts.
Starting == [state |-> "STARTING", loading |-> TRUE]
Watches(p) == solo' = IF p = "PRACTICE" /\ lens'[p].held /\ ~practice.finished
                      THEN Starting ELSE solo

\* initialize() answers; a worker that was disposed of meanwhile is not heard.
WorkerReady ==
  /\ solo.loading
  /\ solo' \in {[state |-> s, loading |-> FALSE] : s \in
                  IF solo.state = "STARTING" THEN {"RUNNING", "UNAVAILABLE"} ELSE {solo.state}}
  /\ UNCHANGED <<lens, practice, tally, hint>>

WorkerLost ==
  /\ solo.state \in {"STARTING", "RUNNING"}
  /\ solo' = [solo EXCEPT !.state = "UNAVAILABLE"]
  /\ UNCHANGED <<lens, practice, tally, hint>>

----------------------------------------------------------------------------
(* AiVideoPracticePage. *)

\* onBehavior(): what is said while a pipeline is taken down is not heard.
Smiles ==
  /\ solo.state = "RUNNING" /\ ~tally.smiling /\ tally.smiles < MaxSmiles
  /\ tally' = [tally EXCEPT !.smiles = @ + 1, !.smiling = TRUE]
  /\ UNCHANGED <<lens, practice, solo, hint>>

StopsSmiling ==
  /\ solo.state = "RUNNING" /\ tally.smiling
  /\ tally' = [tally EXCEPT !.smiling = FALSE]
  /\ UNCHANGED <<lens, practice, solo, hint>>

LooksAway ==
  /\ solo.state = "RUNNING" /\ tally.away < MaxSmiles
  /\ tally' = [tally EXCEPT !.away = @ + 1]
  /\ hint' = HintTtl
  /\ UNCHANGED <<lens, practice, solo>>

\* Finished, the page takes the analysis down and keeps the camera.
Finishing == practice' = [practice EXCEPT !.finished = TRUE] /\ solo' = [solo EXCEPT !.state = "IDLE"]

\* Once a second.
PracticeTick ==
  /\ practice.at = "PRACTICE" /\ ~practice.finished
  /\ LET now == practice.elapsed + 1
     IN /\ practice' = [practice EXCEPT !.elapsed = now, !.finished = now >= Duration]
        /\ solo' = IF now >= Duration THEN [solo EXCEPT !.state = "IDLE"] ELSE solo
  /\ hint' = IF hint = 0 THEN 0 ELSE hint - 1
  /\ UNCHANGED <<lens, tally>>

FinishPractice ==
  /\ practice.at = "PRACTICE" /\ ~practice.finished
  /\ Finishing
  /\ UNCHANGED <<lens, tally, hint>>

\* Which question is asked, and of which the summary says that they were covered.
Least(a, b) == IF a < b THEN a ELSE b
QuestionIndex == Least(practice.elapsed \div Interval, Questions - 1)
Summary ==
  [practised |-> practice.elapsed,
   covered |-> Least(practice.elapsed \div Interval + 1, Questions),
   smiles |-> tally.smiles, away |-> tally.away,
   unavailable |-> solo.state = "UNAVAILABLE" \/ ~lens["PRACTICE"].held]

----------------------------------------------------------------------------
(* Going from page to page. *)

StartPractice ==
  /\ practice.at = "SETUP"
  /\ practice' = [at |-> "PRACTICE", elapsed |-> 0, finished |-> FALSE]
  /\ lens' = [Darkened("SETUP") EXCEPT !["PRACTICE"] = Requested(Dark)]
  /\ tally' = Silent0 /\ hint' = 0
  /\ UNCHANGED solo

\* Home, or the setup page once more; the next practice waits for this one's camera.
LeavePractice(to) ==
  /\ practice.at \in Studios /\ to # practice.at
  /\ to = "SETUP" => practice.finished /\ \A p \in Studios : ~lens[p].asking
  /\ practice' = [practice EXCEPT !.at = to]
  /\ lens' = [p \in Studios |-> IF p = to THEN Requested(lens[p]) ELSE Darkened(practice.at)[p]]
  /\ solo' = [solo EXCEPT !.state = "IDLE"]
  /\ UNCHANGED <<tally, hint>>

PracticeNext ==
  \/ \E p \in Studios : (CameraArrives(p) /\ Watches(p)) \/ CameraDenied(p)
  \/ CameraRetry \/ WorkerReady \/ WorkerLost
  \/ Smiles \/ StopsSmiling \/ LooksAway
  \/ PracticeTick \/ FinishPractice \/ StartPractice
  \/ \E to \in {"SETUP", "LEFT"} : LeavePractice(to)

----------------------------------------------------------------------------
(* Properties. *)

\* A page that was left films nobody, whenever the stream it asked for arrives
\* ("a camera light that stays on is taken for a recording", useLocalCamera).
NoCameraLeftOn == \A p \in Studios : practice.at # p => ~lens[p].held
============================================================================
