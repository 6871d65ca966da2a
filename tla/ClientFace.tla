----------------------------- MODULE ClientFace -----------------------------
(***************************************************************************)
(* The face picture: FaceCapturePage with its camera (useFaceCamera), the  *)
(* analysis service that sees the picture, the server that stores the      *)
(* result under a request of the page, and the cached result of which the  *)
(* header shows the animal (useMyFaceAnalysis).                            *)
(* Requests are numbered by the server; a request takes one answer.        *)
(***************************************************************************)
EXTENDS Integers, Sequences

CONSTANTS
  MaxRequests,   \* bound on the analysis requests
  RetakeLimit    \* attempts after which the page recommends to go on without

ASSUME FaceAssumption == {MaxRequests, RetakeLimit} \subseteq Nat

VARIABLES
  analysis,   \* the server: [requests, saved], the states of the requests and the results saved
  camera,     \* [status, held, asking]
  capture,    \* the page: [phase, agreed, grouped, attempts, poor, request, skipping]
  shot,       \* the picture on its way: what its handler waits for
  skipped,    \* the same of handleSkip()
  animal,     \* [cached, shown]: the result the module keeps, and the header's
  shown       \* FaceResultPage: "READING", "RESULT", "NOTHING" or "ERROR"

faceVars == <<analysis, camera, capture, shot, skipped, animal, shown>>

RequestStates == {"PENDING", "COMPLETED", "FAILED", "EXPIRED"}
NoRequestYet == 0
NotKept == -1
NewCapture == [phase |-> "intro", agreed |-> FALSE, grouped |-> FALSE, attempts |-> 0,
               poor |-> FALSE, request |-> NoRequestYet, skipping |-> FALSE]

FaceTypeOK ==
  /\ analysis.requests \in Seq(RequestStates) /\ Len(analysis.requests) <= MaxRequests
  /\ analysis.saved \in 0..MaxRequests
  /\ camera.status \in {"idle", "ready", "denied"} /\ {camera.held, camera.asking} \subseteq BOOLEAN
  /\ camera.status = "ready" => camera.held
  /\ capture.phase \in {"intro", "live", "analyzing", "retake", "done", "left"}
  /\ capture.attempts \in 0..RetakeLimit + 1
  /\ capture.request \in 0..Len(analysis.requests)
  /\ shot \in {"NONE", "ANALYSING", "CREATING", "SAVING"}
  /\ capture.phase = "analyzing" => shot # "NONE"
  /\ skipped \in {"NONE", "CREATING", "REPORTING"}
  /\ animal.cached \in {NotKept} \cup 0..MaxRequests /\ animal.shown \in 0..MaxRequests
  /\ shown \in {"READING", "RESULT", "NOTHING", "ERROR"}
  /\ shown # "READING" => capture.phase = "done"

FaceIdle ==
  /\ analysis = [requests |-> <<>>, saved |-> 0]
  /\ camera = [status |-> "idle", held |-> FALSE, asking |-> FALSE]
  /\ capture = NewCapture /\ shot = "NONE" /\ skipped = "NONE"
  /\ animal = [cached |-> NotKept, shown |-> 0] /\ shown = "READING"
FaceInit == FaceIdle

Here == capture.phase \notin {"done", "left"}

\* The buttons of each phase that are not disabled: there is no way back while a
\* picture is analysed or a skip is reported, but a way on.
FaceOffers ==
  CASE capture.phase = "intro" ->
         {"AGREE", "BACK"} \cup (IF capture.agreed /\ capture.grouped THEN {"START"} ELSE {})
    [] capture.phase \in {"live", "analyzing", "retake"} ->
         {"SKIP"}
           \cup (IF capture.phase = "analyzing" \/ capture.skipping THEN {} ELSE {"BACK"})
           \cup (IF camera.status = "ready" /\ capture.grouped /\ capture.phase # "analyzing"
                 THEN {"CAPTURE"} ELSE {})
    [] OTHER -> {}

----------------------------------------------------------------------------
(* useFaceCamera. *)

Opened == [status |-> "ready", held |-> TRUE, asking |-> FALSE]
Refused == [status |-> "denied", held |-> FALSE, asking |-> FALSE]

\* stop(): what is still being asked for is not called off.
Stopped == [camera EXCEPT !.status = "idle", !.held = FALSE]

\* startCamera() shows the preview when start() is over, permitted or not.
StartCamera ==
  /\ "START" \in FaceOffers /\ ~camera.asking
  /\ camera' = [camera EXCEPT !.asking = TRUE]
  /\ UNCHANGED <<analysis, capture, shot, skipped, animal, shown>>

CameraAnswers ==
  /\ camera.asking
  /\ camera' \in {Opened, Refused}
  /\ capture' = IF Here THEN [capture EXCEPT !.phase = "live"] ELSE capture
  /\ UNCHANGED <<analysis, shot, skipped, animal, shown>>

----------------------------------------------------------------------------
(* The page. *)

\* The profile brings the group under which the picture is analysed.
ProfileArrives ==
  /\ Here /\ ~capture.grouped
  /\ capture' = [capture EXCEPT !.grouped = TRUE]
  /\ UNCHANGED <<analysis, camera, shot, skipped, animal, shown>>

Agree ==
  /\ "AGREE" \in FaceOffers
  /\ capture' = [capture EXCEPT !.agreed = ~@]
  /\ UNCHANGED <<analysis, camera, shot, skipped, animal, shown>>

HandleCapture ==
  /\ "CAPTURE" \in FaceOffers /\ shot = "NONE"
  /\ shot' = "ANALYSING"
  /\ capture' = [capture EXCEPT !.phase = "analyzing", !.poor = FALSE,
                   !.attempts = IF @ > RetakeLimit THEN @ ELSE @ + 1]
  /\ UNCHANGED <<analysis, camera, skipped, animal, shown>>

Retaken(poor) == IF Here THEN [capture EXCEPT !.phase = "retake", !.poor = poor] ELSE capture

\* Responses of the analysis service. Anything may stand in for it, a page of the
\* client's own server with status 200 included.
Responses == [ok : BOOLEAN, json : BOOLEAN, status : {"NONE", "SUCCESS", "UNCERTAIN", "RETAKE_REQUIRED"}]
IsAnalysis(response) == response.ok /\ response.json /\ response.status # "NONE"

\* analyzeFace() throws at whatever is no analysis; a poor picture is taken again,
\* after a failure as well; the rest is to be saved, under the request the page has
\* or a new one.
Analysed(response) ==
  /\ shot = "ANALYSING"
  /\ IF IsAnalysis(response) /\ response.status # "RETAKE_REQUIRED"
     THEN /\ shot' = IF capture.request = NoRequestYet THEN "CREATING" ELSE "SAVING"
          /\ UNCHANGED capture
     ELSE shot' = "NONE" /\ capture' = Retaken(IsAnalysis(response))
  /\ UNCHANGED <<analysis, camera, skipped, animal, shown>>

\* createFaceAnalysisRequest()
Created == [analysis EXCEPT !.requests = Append(@, "PENDING")]
MakesRequest(heard) ==
  /\ Len(analysis.requests) < MaxRequests
  /\ analysis' = Created
  /\ heard => capture' = [capture EXCEPT !.request = Len(analysis.requests) + 1]

ShotCreates(heard) ==
  /\ shot = "CREATING" /\ MakesRequest(heard)
  /\ shot' = IF heard THEN "SAVING" ELSE "NONE"
  /\ ~heard => capture' = Retaken(FALSE)
  /\ UNCHANGED <<camera, skipped, animal, shown>>

IsPending(r) == analysis.requests[r] = "PENDING"
Answered(r, state) == [analysis EXCEPT !.requests[r] = state]

\* Mutant of ShotSaves: a refused save is taken for a saved one.
ShotSavesAnyway(heard) ==
  /\ shot = "SAVING" /\ capture.request # NoRequestYet
  /\ shot' = "NONE"
  /\ capture' = [capture EXCEPT !.phase = "done"]
  /\ camera' = Stopped
  /\ UNCHANGED <<analysis, skipped, animal, shown>>

\* submitFaceAnalysisResult(): a pending request is completed; when the page hears
\* of it, it stops the camera, forgets the cached animal and goes on.
ShotSaves(heard) ==
  LET r == capture.request
  IN /\ shot = "SAVING" /\ r # NoRequestYet
     /\ shot' = "NONE"
     /\ analysis' = IF IsPending(r) THEN [Answered(r, "COMPLETED") EXCEPT !.saved = r]
                                    ELSE analysis
     /\ IF heard /\ IsPending(r)
        THEN /\ capture' = [capture EXCEPT !.phase = "done"]
             /\ camera' = Stopped
             /\ animal' = [animal EXCEPT !.cached = NotKept]
        ELSE capture' = Retaken(FALSE) /\ UNCHANGED <<camera, animal>>
     /\ UNCHANGED <<skipped, shown>>

----------------------------------------------------------------------------
(* Leaving without a picture. *)

Leaves == capture' = [capture EXCEPT !.phase = "left", !.skipping = FALSE] /\ camera' = Stopped

\* goBack(), and the skip of a user who has not tried.
GoOn ==
  /\ "BACK" \in FaceOffers
  /\ Leaves
  /\ UNCHANGED <<analysis, shot, skipped, animal, shown>>

\* A poor picture is reported, under the request the page has or a new one.
HandleSkip ==
  /\ "SKIP" \in FaceOffers /\ skipped = "NONE"
  /\ IF capture.poor
     THEN /\ skipped' = IF capture.request = NoRequestYet THEN "CREATING" ELSE "REPORTING"
          /\ capture' = [capture EXCEPT !.skipping = TRUE]
          /\ UNCHANGED camera
     ELSE Leaves /\ UNCHANGED skipped
  /\ UNCHANGED <<analysis, shot, animal, shown>>

SkipCreates ==
  /\ skipped = "CREATING" /\ MakesRequest(TRUE)
  /\ skipped' = "REPORTING"
  /\ UNCHANGED <<camera, shot, animal, shown>>

\* submitFaceAnalysisFailure(): whatever the answer, the page is left, and the result
\* page as well when the picture was saved meanwhile.
SkipEnds(served) ==
  LET r == capture.request
  IN /\ skipped # "NONE" /\ (served => skipped = "REPORTING")
     /\ skipped' = "NONE"
     /\ analysis' = IF served /\ IsPending(r) THEN Answered(r, "FAILED") ELSE analysis
     /\ Leaves /\ shown' = "READING"
     /\ UNCHANGED <<shot, animal>>

RequestExpires ==
  /\ \E r \in DOMAIN analysis.requests :
       IsPending(r) /\ analysis' = Answered(r, "EXPIRED")
  /\ UNCHANGED <<camera, capture, shot, skipped, animal, shown>>

----------------------------------------------------------------------------
(* useMyFaceAnalysis: one question for all who show the animal. *)

AnimalIsRead(ok) ==
  LET result == IF animal.cached # NotKept THEN animal.cached
                ELSE IF ok THEN analysis.saved ELSE 0
  IN /\ animal' = [cached |-> result, shown |-> result]
     /\ UNCHANGED <<analysis, camera, capture, shot, skipped, shown>>

----------------------------------------------------------------------------
(* FaceResultPage. *)

\* The page reads the latest result from the server; "not found" is no error.
ResultArrives(ok) ==
  /\ capture.phase = "done" /\ shown = "READING"
  /\ shown' = IF ~ok THEN "ERROR" ELSE IF analysis.saved = 0 THEN "NOTHING" ELSE "RESULT"
  /\ UNCHANGED <<analysis, camera, capture, shot, skipped, animal>>

ResultReload ==
  /\ shown = "ERROR"
  /\ shown' = "READING"
  /\ UNCHANGED <<analysis, camera, capture, shot, skipped, animal>>

FaceNext ==
  \/ StartCamera \/ CameraAnswers \/ ProfileArrives \/ Agree \/ HandleCapture
  \/ \E response \in Responses : Analysed(response)
  \/ \E ok \in BOOLEAN : \/ ShotCreates(ok) \/ ShotSaves(ok) \/ SkipEnds(ok)
                         \/ AnimalIsRead(ok) \/ ResultArrives(ok)
  \/ ResultReload
  \/ GoOn \/ HandleSkip \/ SkipCreates \/ RequestExpires

----------------------------------------------------------------------------
(* Properties. *)

\* A user who is told that the picture was taken has a result to look at, even when
\* requests expire, answers are lost and the user skips while a picture is analysed.
FaceResultIsStored == capture.phase = "done" => analysis.saved # 0 /\ shown # "NOTHING"
============================================================================
