---------------------------- MODULE ClientDevices ---------------------------
(***************************************************************************)
(* The device check of the waiting room (useDeviceCheck) and its result at *)
(* the server, without which the user may not be ready.  A check is saved  *)
(* once its four parts have passed together.                               *)
(***************************************************************************)
EXTENDS Naturals

CONSTANTS
  MaxTries,   \* bound on how often the camera is asked for
  MaxSaves    \* bound on how often a result is saved

ASSUME DeviceAssumption == MaxTries \in Nat \ {0}

VARIABLES
  check,    \* the page: [open, try, media, network, tone, playing]
  streams,  \* [try -> the stream it asked for]
  keeping,  \* [flag, posts, failed, asked]: savedRef, and the calls
  ready     \* [available, latest]: readyAvailable, and the call for the last result

deviceVars == <<check, streams, keeping, ready>>

DeviceStatus == {"idle", "checking", "ready", "error"}
NoStreams == [n \in 1..MaxTries |-> "NONE"]
Devices == [open : BOOLEAN, try : 1..MaxTries, media : DeviceStatus,
            network : BOOLEAN, tone : BOOLEAN, playing : BOOLEAN]

DeviceTypeOK ==
  /\ check \in Devices
  /\ streams \in [1..MaxTries -> {"NONE", "ASKED", "HELD", "STOPPED"}]
  /\ keeping.flag \in BOOLEAN /\ keeping.asked \in BOOLEAN
  /\ keeping.asked => keeping.flag
  /\ ready.available \in BOOLEAN /\ ready.latest \in BOOLEAN
  /\ check.playing => check.tone

DeviceIdle ==
  /\ check = [open |-> FALSE, try |-> 1, media |-> "idle", network |-> TRUE, tone |-> FALSE, playing |-> FALSE]
  /\ streams = NoStreams
  /\ keeping = [flag |-> FALSE, posts |-> 0, failed |-> 0, asked |-> FALSE]
  /\ ready = [available |-> FALSE, latest |-> FALSE]

\* The page opens, perhaps once more: it asks for the devices and for the last result.
DeviceInit ==
  /\ check \in [open : {TRUE}, try : {1}, media : {"checking"}, network : BOOLEAN,
                tone : {FALSE}, playing : {FALSE}]
  /\ streams = [NoStreams EXCEPT ![1] = "ASKED"]
  /\ keeping = [flag |-> FALSE, posts |-> 0, failed |-> 0, asked |-> FALSE]
  /\ ready = [available |-> FALSE, latest |-> TRUE]

----------------------------------------------------------------------------
AllPassed(c) == c.open /\ c.media = "ready" /\ c.tone /\ c.network

\* Mutant of Saves: savedRef is not looked at.
SavesEachTime ==
  keeping' = IF AllPassed(check') /\ check' # check /\ keeping.posts < MaxSaves
            THEN [keeping EXCEPT !.flag = TRUE, !.posts = @ + 1, !.asked = TRUE]
            ELSE keeping

\* The effect runs when one of the parts has changed.
Saves ==
  keeping' = IF AllPassed(check') /\ check' # check /\ ~keeping.flag /\ keeping.posts < MaxSaves
            THEN [keeping EXCEPT !.flag = TRUE, !.posts = @ + 1, !.asked = TRUE]
            ELSE keeping

\* A stream of an earlier try, or of a page that was left, is stopped.
StreamArrives(n) ==
  /\ streams[n] = "ASKED"
  /\ streams' = [streams EXCEPT ![n] = IF check.open /\ n = check.try THEN "HELD" ELSE "STOPPED"]
  /\ check' = IF check.open /\ n = check.try THEN [check EXCEPT !.media = "ready"] ELSE check
  /\ Saves /\ UNCHANGED ready

StreamRefused(n) ==
  /\ streams[n] = "ASKED"
  /\ streams' = [streams EXCEPT ![n] = "NONE"]
  /\ check' = IF check.open /\ n = check.try THEN [check EXCEPT !.media = "error"] ELSE check
  /\ Saves /\ UNCHANGED ready

Teardown == [n \in DOMAIN streams |-> IF streams[n] = "HELD" THEN "STOPPED" ELSE streams[n]]

Retry ==
  /\ check.open /\ check.try < MaxTries
  /\ check' = [check EXCEPT !.try = @ + 1, !.media = "checking"]
  /\ streams' = [Teardown EXCEPT ![check.try + 1] = "ASKED"]
  /\ Saves /\ UNCHANGED ready

\* Before the media room is warmed up; what the check said remains.
ReleaseStream ==
  /\ check.open /\ "HELD" \in {streams[n] : n \in DOMAIN streams}
  /\ streams' = Teardown
  /\ UNCHANGED <<check, keeping, ready>>

LeavePage ==
  /\ check.open
  /\ check' = [check EXCEPT !.open = FALSE]
  /\ streams' = Teardown
  /\ UNCHANGED <<keeping, ready>>

NetworkChanges ==
  /\ check.open
  /\ check' = [check EXCEPT !.network = ~@]
  /\ Saves /\ UNCHANGED <<streams, ready>>

PlayTestTone ==
  /\ check.open /\ ~check.playing
  /\ check' = [check EXCEPT !.playing = TRUE, !.tone = TRUE]
  /\ Saves /\ UNCHANGED <<streams, ready>>

ToneEnds ==
  /\ check.playing
  /\ check' = [check EXCEPT !.playing = FALSE]
  /\ UNCHANGED <<streams, keeping, ready>>

----------------------------------------------------------------------------
CheckSaved ==
  /\ keeping.asked
  /\ keeping' = [keeping EXCEPT !.asked = FALSE]
  /\ ready' = [ready EXCEPT !.available = TRUE]
  /\ UNCHANGED <<check, streams>>

\* The next change of a part saves again.
SaveFails ==
  /\ keeping.asked
  /\ keeping' = [keeping EXCEPT !.asked = FALSE, !.flag = FALSE, !.failed = @ + 1]
  /\ UNCHANGED <<check, streams, ready>>

\* The last result of this room; all that this page saves have passed.
LatestArrives ==
  /\ ready.latest
  /\ \E passed \in BOOLEAN :
       ready' = [latest |-> FALSE, available |-> ready.available \/ (passed /\ check.open)]
  /\ UNCHANGED <<check, streams, keeping>>

DeviceNext ==
  \/ \E n \in 1..MaxTries : StreamArrives(n) \/ StreamRefused(n)
  \/ Retry \/ ReleaseStream \/ LeavePage
  \/ NetworkChanges \/ PlayTestTone \/ ToneEnds
  \/ CheckSaved \/ SaveFails \/ LatestArrives

----------------------------------------------------------------------------
(* Parts that come and go do not fill the server with results: a check is   *)
(* saved again only after a failure; and of the streams that were asked for *)
(* only the last is held, by a page that is still there                     *)
(* (WaitingRoomPage.tsx 160-179, useDeviceCheck.ts).                        *)
ChecksAreFrugal ==
  /\ keeping.posts <= keeping.failed + 1
  /\ \A n \in DOMAIN streams : streams[n] = "HELD" => check.open /\ n = check.try
=============================================================================
