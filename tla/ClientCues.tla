----------------------------- MODULE ClientCues -----------------------------
(***************************************************************************)
(* The hints of the session page for a silence (useSessionRealtime,        *)
(* SilenceHint), the questions that fit the conversation, the safety       *)
(* warning, and the button that asks for a suggestion.  The events come    *)
(* from the server's topics; the server publishes the stages of a silence, *)
(* never its end.                                                          *)
(***************************************************************************)
EXTENDS Naturals

CONSTANT MaxSilences   \* bound on the silences of a session

ASSUME CueAssumption == MaxSilences \in Nat

VARIABLES
  silence,   \* the server: [stage, number], how far the silence of that number went
  wired,     \* the page is subscribed
  cue,       \* the page: [stage, cards, number], the last event of a silence
  context,   \* the number of the silence the fitting questions were made for, 0: none
  warning,   \* the safety warning stands
  suggesting \* [pending, failed, calls]: the coaching button and its calls

cueVars == <<silence, wired, cue, context, warning, suggesting>>

SilenceStages == <<"NONE", "TOPIC_HINT", "QUESTION_CARD", "CONTEXTUAL_QUESTIONS">>
NoCue == [stage |-> 1, cards |-> FALSE, number |-> 0]

CueTypeOK ==
  /\ silence \in [stage : 1..4, number : 0..MaxSilences]
  /\ cue \in [stage : 1..4, cards : BOOLEAN, number : 0..MaxSilences]
  /\ cue.number <= silence.number /\ (cue.cards => cue.stage = 3)
  /\ (cue.number = silence.number => cue.stage <= silence.stage \/ silence.stage = 1)
  /\ context \in 0..silence.number
  /\ wired \in BOOLEAN /\ warning \in BOOLEAN
  /\ suggesting \in [pending : BOOLEAN, failed : BOOLEAN, calls : 0..1]
  /\ suggesting.pending <=> suggesting.calls = 1

CueIdle ==
  /\ silence = [stage |-> 1, number |-> 0] /\ wired = TRUE /\ cue = NoCue
  /\ context = 0 /\ warning = FALSE
  /\ suggesting = [pending |-> FALSE, failed |-> FALSE, calls |-> 0]
CueInit == CueIdle

----------------------------------------------------------------------------
\* A silence begins, and is reported at 15, 30 and 45 seconds; only the middle
\* stage brings question cards.
SilenceGrows ==
  /\ silence.stage < 4
  /\ silence.stage = 1 => silence.number < MaxSilences
  /\ LET next == [stage |-> silence.stage + 1,
                  number |-> IF silence.stage = 1 THEN silence.number + 1 ELSE silence.number]
     IN /\ silence' = next
        /\ cue' = IF wired THEN [stage |-> next.stage, cards |-> next.stage = 3, number |-> next.number]
                  ELSE cue
  /\ UNCHANGED <<wired, context, warning, suggesting>>

\* Of the end the server only takes note.
SilenceEnds ==
  /\ silence.stage > 1
  /\ silence' = [silence EXCEPT !.stage = 1]
  /\ UNCHANGED <<wired, cue, context, warning, suggesting>>

\* The AI's questions come to the user's own queue, some time after the last stage.
QuestionsArrive ==
  /\ wired /\ silence.stage \in {1, 4} /\ silence.number > 0
  /\ context' = silence.number
  /\ UNCHANGED <<silence, wired, cue, warning, suggesting>>

\* silenceQuestions: the fitting questions take the place of the cards.
ShownQuestions ==
  IF context > 0 THEN "CONTEXT" ELSE IF cue.cards THEN "CARDS" ELSE "EMPTY"

\* What the page shows of a silence: nothing, the topics, or a card of questions.
SilenceHint ==
  CASE cue.stage = 1 -> "NONE"
    [] cue.stage = 2 -> "TOPICS"
    [] OTHER -> ShownQuestions

\* The button of the hint.
DismissSilence ==
  /\ SilenceHint # "NONE"
  /\ cue' = NoCue /\ context' = 0
  /\ UNCHANGED <<silence, wired, warning, suggesting>>

WireToggles ==
  /\ wired' = ~wired
  /\ UNCHANGED <<silence, cue, context, warning, suggesting>>

Warned ==
  /\ wired /\ ~warning
  /\ warning' = TRUE
  /\ UNCHANGED <<silence, wired, cue, context, suggesting>>

DismissSafety ==
  /\ warning
  /\ warning' = FALSE
  /\ UNCHANGED <<silence, wired, cue, context, suggesting>>

\* The suggestion itself comes as a coaching card.
RequestSuggestion ==
  /\ ~suggesting.pending
  /\ suggesting' = [pending |-> TRUE, failed |-> FALSE, calls |-> 1]
  /\ UNCHANGED <<silence, wired, cue, context, warning>>

SuggestionAnswers ==
  /\ suggesting.calls = 1
  /\ suggesting' \in [pending : {FALSE}, failed : BOOLEAN, calls : {0}]
  /\ UNCHANGED <<silence, wired, cue, context, warning>>

CueNext ==
  \/ SilenceGrows \/ SilenceEnds \/ QuestionsArrive \/ DismissSilence \/ WireToggles
  \/ Warned \/ DismissSafety \/ RequestSuggestion \/ SuggestionAnswers
=============================================================================
