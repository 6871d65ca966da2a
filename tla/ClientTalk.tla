----------------------------- MODULE ClientTalk -----------------------------
(***************************************************************************)
(* The way into a talk with the AI: the entry that looks for a talk under  *)
(* way, the page that sets a new one up (PersonaSetupPage), and the stage  *)
(* of dating a talk is about, which is the server's except for the talks   *)
(* of before it kept one.  The user has other devices.                     *)
(***************************************************************************)
EXTENDS Naturals, Sequences

CONSTANT MaxTalks   \* bound on the talks of the user

ASSUME TalkAssumption == MaxTalks \in Nat \ {0}

VARIABLES
  talks,      \* the server's sessions, the oldest first: [stage, open]
  preference, \* the stage this browser kept of a talk, as earlier versions did
  region,     \* the server has the user's region
  opened,     \* the page: [at, number, stage]
  setup,      \* PersonaSetupPage: [loaded, needs, picked, stage, error]
  entering,   \* the entry asks for the talk under way
  starting    \* handleStart(): [step, stage]

talkVars == <<talks, preference, region, opened, setup, entering, starting>>

Stages == {"BEFORE_DATE", "AFTER_DATE"}
Legacy == "DATE_PRACTICE"
NoStart == [step |-> "NONE", stage |-> "BEFORE_DATE"]
NewSetup == [loaded |-> FALSE, needs |-> FALSE, picked |-> FALSE, stage |-> "BEFORE_DATE", error |-> FALSE]
Nowhere(place) == [at |-> place, number |-> 0, stage |-> "NONE"]

Open == {n \in DOMAIN talks : talks[n].open}

TalkTypeOK ==
  /\ Len(talks) <= MaxTalks
  /\ \A n \in DOMAIN talks : talks[n] \in [stage : Stages \cup {Legacy}, open : BOOLEAN]
  /\ \A m, n \in Open : m = n
  /\ preference \in [1..MaxTalks -> Stages] /\ region \in BOOLEAN
  /\ opened.at \in {"HOME", "SETUP", "TALK", "REPORT"}
  /\ opened.at \in {"TALK", "REPORT"} <=> opened.number \in DOMAIN talks
  /\ setup \in [loaded : BOOLEAN, needs : BOOLEAN, picked : BOOLEAN, stage : Stages, error : BOOLEAN]
  /\ entering \in BOOLEAN
  /\ starting \in [step : {"NONE", "REGION", "CREATE", "CURRENT"}, stage : Stages]

TalkIdle ==
  /\ talks = <<>> /\ preference = [n \in 1..MaxTalks |-> "BEFORE_DATE"] /\ region = TRUE
  /\ opened = Nowhere("HOME") /\ setup = NewSetup /\ entering = FALSE /\ starting = NoStart

\* A user of an earlier version may have a talk of an unknown stage.
TalkInit ==
  /\ talks \in {<<>>} \cup {<<[stage |-> Legacy, open |-> o]>> : o \in BOOLEAN}
  /\ preference \in {p \in [1..MaxTalks -> Stages] : \A n \in 2..MaxTalks : p[n] = "BEFORE_DATE"}
  /\ talks = <<>> => preference[1] = "BEFORE_DATE"
  /\ region \in BOOLEAN
  /\ opened = Nowhere("HOME") /\ setup = NewSetup /\ entering = FALSE /\ starting = NoStart

\* toStage: what the browser kept counts only where the server does not know.
ToStage(n) == IF talks[n].stage \in Stages THEN talks[n].stage ELSE preference[n]
Enters(n) == [at |-> "TALK", number |-> n, stage |-> ToStage(n)]

----------------------------------------------------------------------------
(* The entry. *)

OpenEntry ==
  /\ opened.at = "HOME" /\ ~entering
  /\ entering' = TRUE
  /\ UNCHANGED <<talks, preference, region, opened, setup, starting>>

\* resolveChatbotEntryPath: the talk under way, else the setup; so if it cannot tell.
EntryAnswers ==
  /\ entering
  /\ entering' = FALSE
  /\ \/ \E n \in Open : opened' = Enters(n) /\ UNCHANGED setup
     \/ opened' = Nowhere("SETUP") /\ setup' = NewSetup
  /\ UNCHANGED <<talks, preference, region, starting>>

Leave ==
  /\ opened.at # "HOME"
  /\ opened' = Nowhere("HOME")
  /\ UNCHANGED <<talks, preference, region, setup, entering, starting>>

----------------------------------------------------------------------------
(* PersonaSetupPage. *)

\* A profile that cannot be read is taken for one without a region.
SetupLoads ==
  /\ opened.at = "SETUP" /\ ~setup.loaded
  /\ setup' \in {[setup EXCEPT !.loaded = TRUE, !.needs = needs] : needs \in {~region, TRUE}}
  /\ UNCHANGED <<talks, preference, region, opened, entering, starting>>

PickRegion ==
  /\ opened.at = "SETUP" /\ setup.loaded /\ setup.needs /\ ~setup.picked
  /\ setup' = [setup EXCEPT !.picked = TRUE]
  /\ UNCHANGED <<talks, preference, region, opened, entering, starting>>

PickStage ==
  /\ opened.at = "SETUP" /\ setup.loaded
  /\ \E s \in Stages \ {setup.stage} : setup' = [setup EXCEPT !.stage = s]
  /\ UNCHANGED <<talks, preference, region, opened, entering, starting>>

HandleStart ==
  /\ opened.at = "SETUP" /\ setup.loaded /\ (setup.needs => setup.picked)
  /\ starting.step = "NONE"
  /\ starting' = [step |-> IF setup.needs THEN "REGION" ELSE "CREATE", stage |-> setup.stage]
  /\ setup' = [setup EXCEPT !.error = FALSE]
  /\ UNCHANGED <<talks, preference, region, opened, entering>>

SaveRegion ==
  /\ starting.step = "REGION"
  /\ region' = TRUE
  /\ starting' = [starting EXCEPT !.step = "CREATE"]
  /\ UNCHANGED <<talks, preference, opened, setup, entering>>

\* A call may fail before or after the server has done it.
StartFails ==
  /\ starting.step # "NONE"
  /\ starting' = NoStart
  /\ setup' = IF opened.at = "SETUP" THEN [setup EXCEPT !.error = TRUE] ELSE setup
  /\ talks' = IF starting.step = "CREATE" /\ Open = {} /\ Len(talks) < MaxTalks
              THEN Append(talks, [stage |-> starting.stage, open |-> TRUE]) ELSE talks
  /\ UNCHANGED <<preference, region, opened, entering>>

\* createChatSession(): the page goes to the new talk wherever the user is by now.
CreateTalk ==
  /\ starting.step = "CREATE" /\ Open = {} /\ Len(talks) < MaxTalks
  /\ talks' = Append(talks, [stage |-> starting.stage, open |-> TRUE])
  /\ opened' = [at |-> "TALK", number |-> Len(talks'), stage |-> starting.stage]
  /\ starting' = NoStart
  /\ UNCHANGED <<preference, region, setup, entering>>

\* ACTIVE_CHAT_SESSION_EXISTS: the talk under way is looked for.
CreateRefused ==
  /\ starting.step = "CREATE" /\ Open # {}
  /\ starting' = [starting EXCEPT !.step = "CURRENT"]
  /\ UNCHANGED <<talks, preference, region, opened, setup, entering>>

\* Mutant of CurrentAnswers: the talk bears the stage that was just chosen.
CurrentRelabelled ==
  /\ starting.step = "CURRENT"
  /\ \E n \in Open : opened' = [Enters(n) EXCEPT !.stage = starting.stage]
  /\ starting' = NoStart
  /\ UNCHANGED <<talks, preference, region, setup, entering>>

\* It is taken as it is; if it was closed meanwhile, the start fails.
CurrentAnswers ==
  /\ starting.step = "CURRENT"
  /\ \E n \in Open : opened' = Enters(n)
  /\ starting' = NoStart
  /\ UNCHANGED <<talks, preference, region, setup, entering>>

----------------------------------------------------------------------------
\* The report of a talk that was closed.
CloseTalk ==
  /\ opened.at = "TALK" /\ opened.number \in Open
  /\ talks' = [talks EXCEPT ![opened.number].open = FALSE]
  /\ opened' = [opened EXCEPT !.at = "REPORT", !.stage = preference[opened.number]]
  /\ UNCHANGED <<preference, region, setup, entering, starting>>

\* Another device of the user.
Elsewhere ==
  /\ \/ \E n \in Open : talks' = [talks EXCEPT ![n].open = FALSE]
     \/ /\ Open = {} /\ Len(talks) < MaxTalks
        /\ \E s \in Stages : talks' = Append(talks, [stage |-> s, open |-> TRUE])
  /\ UNCHANGED <<preference, region, opened, setup, entering, starting>>

TalkNext ==
  \/ OpenEntry \/ EntryAnswers \/ Leave
  \/ SetupLoads \/ PickRegion \/ PickStage \/ HandleStart \/ SaveRegion
  \/ StartFails \/ CreateTalk \/ CreateRefused \/ CurrentAnswers
  \/ CloseTalk \/ Elsewhere

----------------------------------------------------------------------------
(* A talk is shown with the stage it is about, also where a start was       *)
(* refused and led to a talk that began elsewhere with another stage        *)
(* (chatbot/api.ts, createChatSession).  The report of a talk shows what    *)
(* the browser kept instead, which nothing writes any more.                 *)
TalkIsShownAsItIs ==
  opened.at = "TALK" /\ talks[opened.number].stage # Legacy => opened.stage = talks[opened.number].stage
=============================================================================
