------------------------------- MODULE Parts --------------------------------
(***************************************************************************)
(* The parts of the system that share no state with each other: of the     *)
(* browser client the way to the home page, the pages before, during and   *)
(* after a session, the talk with the AI, and three parts of the analysis  *)
(* that only read frames; of the server the reminders of a match and the   *)
(* reports of a session.  A behaviour is one of one part: `part` says      *)
(* which, the others stay idle.                                            *)
(***************************************************************************)
EXTENDS ClientAccess, ClientNotifications, ClientCoaching, ClientChat,
        ClientMatch, ClientReview, ClientFace, ClientPractice, ClientAccount,
        ClientClock, ClientPicture, ClientCues, ClientTalk, ClientDevices,
        VisionGovernor, VisionMetrics, VisionNod, Reminders, SessionReports

VARIABLE part   \* the part whose behaviour this is

partVars ==
  <<accessVars, notesVars, coachVars, chatVars, matchVars,
    reviewVars, faceVars, practiceVars, accountVars, clockVars,
    pictureVars, cueVars, talkVars, deviceVars, governor,
    metricsVars, nodVars, reminderVars, reportVars>>
vars == <<part, partVars>>

PartNames == {"ACCESS", "NOTES", "COACH", "CHAT", "MATCH", "REVIEW",
              "FACE", "PRACTICE", "ACCOUNT", "CLOCK", "PICTURE",
              "CUES", "TALK", "DEVICES", "GOVERNOR", "METRICS", "NOD",
              "REMINDERS", "REPORTS"}

TypeOK ==
  /\ part \in PartNames
  /\ AccessTypeOK /\ NotesTypeOK /\ CoachTypeOK
  /\ ChatTypeOK /\ MatchTypeOK /\ ReviewTypeOK
  /\ FaceTypeOK /\ PracticeTypeOK /\ AccountTypeOK
  /\ ClockTypeOK /\ PictureTypeOK /\ CueTypeOK
  /\ TalkTypeOK /\ DeviceTypeOK /\ GovernorTypeOK
  /\ MetricsTypeOK /\ NodTypeOK /\ ReminderTypeOK /\ ReportTypeOK

Start(p, Begins, Rests) == IF part = p THEN Begins ELSE Rests

Init ==
  /\ part \in PartNames
  /\ Start("ACCESS", AccessInit, AccessIdle)
  /\ Start("NOTES", NotesInit, NotesIdle)
  /\ Start("COACH", CoachInit, CoachIdle)
  /\ Start("CHAT", ChatInit, ChatIdle)
  /\ Start("MATCH", MatchInit, MatchIdle)
  /\ Start("REVIEW", ReviewInit, ReviewIdle)
  /\ Start("FACE", FaceInit, FaceIdle)
  /\ Start("PRACTICE", PracticeInit, PracticeIdle)
  /\ Start("ACCOUNT", AccountInit, AccountIdle)
  /\ Start("CLOCK", ClockInit, ClockIdle)
  /\ Start("PICTURE", PictureInit, PictureIdle)
  /\ Start("CUES", CueInit, CueIdle)
  /\ Start("TALK", TalkInit, TalkIdle)
  /\ Start("DEVICES", DeviceInit, DeviceIdle)
  /\ GovernorInit
  /\ Start("METRICS", MetricsInit, MetricsIdle)
  /\ Start("NOD", NodInit, NodIdle)
  /\ ReminderInit /\ ReportInit

\* What a step of part p leaves alone.
Apart(p) ==
  /\ UNCHANGED part
  /\ IF p = "ACCESS" THEN TRUE ELSE UNCHANGED accessVars
  /\ IF p = "NOTES" THEN TRUE ELSE UNCHANGED notesVars
  /\ IF p = "COACH" THEN TRUE ELSE UNCHANGED coachVars
  /\ IF p = "CHAT" THEN TRUE ELSE UNCHANGED chatVars
  /\ IF p = "MATCH" THEN TRUE ELSE UNCHANGED matchVars
  /\ IF p = "REVIEW" THEN TRUE ELSE UNCHANGED reviewVars
  /\ IF p = "FACE" THEN TRUE ELSE UNCHANGED faceVars
  /\ IF p = "PRACTICE" THEN TRUE ELSE UNCHANGED practiceVars
  /\ IF p = "ACCOUNT" THEN TRUE ELSE UNCHANGED accountVars
  /\ IF p = "CLOCK" THEN TRUE ELSE UNCHANGED clockVars
  /\ IF p = "PICTURE" THEN TRUE ELSE UNCHANGED pictureVars
  /\ IF p = "CUES" THEN TRUE ELSE UNCHANGED cueVars
  /\ IF p = "TALK" THEN TRUE ELSE UNCHANGED talkVars
  /\ IF p = "DEVICES" THEN TRUE ELSE UNCHANGED deviceVars
  /\ IF p = "GOVERNOR" THEN TRUE ELSE UNCHANGED governor
  /\ IF p = "METRICS" THEN TRUE ELSE UNCHANGED metricsVars
  /\ IF p = "NOD" THEN TRUE ELSE UNCHANGED nodVars
  /\ IF p = "REMINDERS" THEN TRUE ELSE UNCHANGED reminderVars
  /\ IF p = "REPORTS" THEN TRUE ELSE UNCHANGED reportVars

Next ==
  \/ part = "ACCESS" /\ AccessNext /\ Apart("ACCESS")
  \/ part = "NOTES" /\ NotesNext /\ Apart("NOTES")
  \/ part = "COACH" /\ CoachNext /\ Apart("COACH")
  \/ part = "CHAT" /\ ChatNext /\ Apart("CHAT")
  \/ part = "MATCH" /\ MatchNext /\ Apart("MATCH")
  \/ part = "REVIEW" /\ ReviewNext /\ Apart("REVIEW")
  \/ part = "FACE" /\ FaceNext /\ Apart("FACE")
  \/ part = "PRACTICE" /\ PracticeNext /\ Apart("PRACTICE")
  \/ part = "ACCOUNT" /\ AccountNext /\ Apart("ACCOUNT")
  \/ part = "CLOCK" /\ ClockNext /\ Apart("CLOCK")
  \/ part = "PICTURE" /\ PictureNext /\ Apart("PICTURE")
  \/ part = "CUES" /\ CueNext /\ Apart("CUES")
  \/ part = "TALK" /\ TalkNext /\ Apart("TALK")
  \/ part = "DEVICES" /\ DeviceNext /\ Apart("DEVICES")
  \/ part = "GOVERNOR" /\ GovernorNext /\ Apart("GOVERNOR")
  \/ part = "METRICS" /\ MetricsNext /\ Apart("METRICS")
  \/ part = "NOD" /\ NodNext /\ Apart("NOD")
  \/ part = "REMINDERS" /\ ReminderNext /\ Apart("REMINDERS")
  \/ part = "REPORTS" /\ ReportNext /\ Apart("REPORTS")

Spec == Init /\ [][Next]_vars
FairSpec == Spec /\ ChatFairness /\ MatchFairness /\ ReviewFairness /\ ReminderFairness

----------------------------------------------------------------------------
(* Properties. *)

\* What the pages show is what the server has: a notification once, an answer
\* that was recorded, a report after both evaluations, a gate that opens to a
\* user who passed it, the peer as the last event told, a talk with its own
\* stage, a timeline that is the server's, the same report state to both
\* participants, and the effects report the present.
EveryoneSeesTheTruth ==
  /\ ListedOnce /\ ShownAnswerIsRecorded /\ ReportAfterBothEvaluations
  /\ GateOpensWhenDone /\ RefreshIsFresh /\ PictureAgrees /\ ReportsAreCurrent
  /\ TalkIsShownAsItIs /\ SeedIsOnTheAxis /\ ChecksAreFrugal /\ SnapshotsAddUp
  /\ SameFate

\* The camera and what is made of a face: no camera stays on when its page is
\* left, nothing is analysed without the agreement, a result is stored by the
\* request it belongs to, and no user sees the animal of another.
FaceIsPrivate ==
  /\ NoCameraLeftOn /\ AnalysedByAgreement /\ FaceResultIsStored /\ NoForeignAnimal

\* What a step may never do: change a closed conversation, push a coaching card
\* away, save what did not change, raise the rate of the analysis in a hurry,
\* report two nods as overlapping, remind a user twice or of a match whose end
\* found the reminder waiting, or change a report that was made.
StepsAreSound ==
  /\ ClosedIsFinal /\ ShownUntilOutranked /\ SavesOnlyChanges
  /\ RecoversSlowly /\ NodsAreSeparate /\ TellsOnce /\ MadeIsFinal

\* Nothing waits for ever: a composer that is locked for an answer is unlocked,
\* whoever stays on the queue page learns that a pair was found unless it is over
\* before, a report that is shown as being made is found to be complete, and every
\* job of a reminder is told, cancelled or given up.
EverythingIsAnswered == []<>~(AnswerAwaited \/ PairUnnoticed \/ ReportUnseen \/ ReminderOpen)
============================================================================
