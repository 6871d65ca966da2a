--------------------------- MODULE ClientSession ---------------------------
(***************************************************************************)
(* A session in the browser of one user: SessionMediaLayout, which decides *)
(* whether the session may be entered and owns the LiveKit room, and the   *)
(* two pages inside it, WaitingRoomPage and SessionPage with               *)
(* useSessionRealtime.  The server is what its answers and messages say.   *)
(*                                                                         *)
(* A message of the server reaches a connected page at once and is lost    *)
(* otherwise; an HTTP answer may arrive after it is out of date.           *)
(***************************************************************************)
EXTENDS ClientMedia, ClientSocket

CONSTANTS
  MaxLosses,    \* bound on the interruptions of the socket and lost answers
  MaxTurns      \* bound on the peer's changes of mind

VARIABLES
  server,   \* [status, mine, peer, link]: the session
  page,     \* a gate, ROOM, CALL, REVIEW or HOME
  socket,   \* the STOMP connection of the page
  room,     \* the state of WaitingRoomPage
  call,     \* the state of SessionPage
  losses, turns

vars == <<mediaVars, server, page, socket, room, call, losses, turns>>
bounds == <<losses, turns>>

Gates == {"GATE_ROOM", "GATE_CALL"}   \* the check before each of the two pages
Open == {"OPEN", "IN_PROGRESS"}
AllReady == server.mine /\ server.peer
CanStart == server.status = "OPEN" /\ AllReady /\ \E r \in Runs : rooms[r] = "UP"

NewRoom == [poll |-> "NONE", view |-> FALSE, mine |-> FALSE, toggle |-> "NONE",
            entering |-> FALSE]
NewCall == [poll |-> "NONE", running |-> FALSE]

RoomTopics == {"participants"}
CallTopics == {"timer", "lifecycle"}

TypeOK ==
  /\ MediaTypeOK
  /\ SocketOK(socket)
  /\ server.status \in Open \cup {"ENDED"}
  /\ server.link \in {"CONNECTED", "RECONNECTING"}
  /\ server.mine \in BOOLEAN /\ server.peer \in BOOLEAN
  /\ page \in Gates \cup {"ROOM", "CALL", "REVIEW", "HOME"}
  /\ room.poll \in {"NONE", "READY", "NOT_READY"}
  /\ room.toggle \in {"NONE", "MARK", "CANCEL", "LEAVE", "DONE", "DONE_READY", "FAILED"}
  /\ call.poll \in {"NONE", "ENDED", "START", "RUNNING", "OTHER"}
  /\ call.running \in BOOLEAN
  /\ page # "CALL" => call = NewCall
  /\ page # "ROOM" => room \in {NewRoom, [NewRoom EXCEPT !.entering = TRUE]} /\ ~device.held
  /\ room.entering => page \in {"ROOM", "HOME"}
  /\ page \notin {"ROOM", "CALL"} => media.run = NoRun /\ socket = NoSocket

\* A session as a page that is opened or reloaded finds it: the browser has
\* forgotten everything, the server nothing.
Found(status, mine, peer) ==
  [status |-> status, mine |-> mine, peer |-> peer, link |-> "CONNECTED"]

Init ==
  /\ MediaInit
  /\ \/ \E mine, peer \in BOOLEAN : server = Found("OPEN", mine, peer)
     \/ \E status \in {"IN_PROGRESS", "ENDED"} : server = Found(status, TRUE, TRUE)
  /\ page \in Gates
  /\ socket = NoSocket
  /\ room = NewRoom /\ call = NewCall
  /\ losses = 0 /\ turns = 0

----------------------------------------------------------------------------
(* SessionMediaLayout. *)

OpenRoom == page' = "ROOM" /\ socket' = Acquired(RoomTopics) /\ device' = CheckingDevice

\* SessionPage connects the room when the waiting room has not (MaxRuns times).
ConnectMedia ==
  IF media.run = NoRun /\ media.next \in Runs THEN Start(media)
  ELSE UNCHANGED <<media, starts>>

\* The status of the session is read before anything is drawn; an error that
\* does not say the session is somebody else's opens the page.
GateAnswers(answered) ==
  /\ page \in Gates
  /\ IF answered /\ server.status = "ENDED"
     THEN page' = "REVIEW" /\ UNCHANGED <<socket, device, media, starts>>
     ELSE IF page = "GATE_ROOM" THEN OpenRoom /\ UNCHANGED <<media, starts>>
     ELSE page' = "CALL" /\ socket' = Acquired(CallTopics) /\ ConnectMedia /\ UNCHANGED device
  /\ UNCHANGED <<server, rooms, room, call, bounds>>

\* Mutant of Leave: the state of the session page outlives it.
LeaveKeeping(target) ==
  /\ page' = target
  /\ Cleanup
  /\ device' = NoDevice
  /\ socket' = NoSocket
  /\ room' = [NewRoom EXCEPT !.entering = room.entering]
  /\ UNCHANGED <<starts, call>>

\* Both pages are left for one outside the layout, which unmounts everything;
\* a handleEnter() that awaits the server goes on.
Leave(target) ==
  /\ page' = target
  /\ Cleanup
  /\ device' = NoDevice
  /\ socket' = NoSocket
  /\ room' = [NewRoom EXCEPT !.entering = room.entering] /\ call' = NewCall
  /\ UNCHANGED starts

----------------------------------------------------------------------------
(* The socket of the page. *)

SocketConnects ==
  /\ socket.ws = "OPENING"
  /\ socket' = Connected(socket)
  /\ UNCHANGED <<mediaVars, server, page, room, call, bounds>>

SocketDrops ==
  /\ socket.ws # "NONE" /\ losses < MaxLosses
  /\ socket' = Dropped(socket)
  /\ losses' = losses + 1
  /\ UNCHANGED <<mediaVars, server, page, room, call, turns>>

ReconnectTimer ==
  /\ socket.timer
  /\ socket' = Reopened(socket)
  /\ UNCHANGED <<mediaVars, server, page, room, call, bounds>>

----------------------------------------------------------------------------
(* WaitingRoomPage. *)

\* What the page does when it learns who is ready: once both are, the camera
\* under check is released and the room connected ahead of the session.
Sees(r, ready) ==
  LET prewarm == ready /\ media.run = NoRun
  IN /\ room' = [r EXCEPT !.view = ready]
     /\ IF prewarm
        THEN device' = Released(device) /\ ConnectMedia
        ELSE UNCHANGED <<device, media, starts>>

\* The server tells the page of a change; it is lost without a connection.
Announce(ready) ==
  IF page = "ROOM" /\ Hears(socket, "participants") THEN Sees(room, ready)
  ELSE UNCHANGED <<room, device, media, starts>>

\* Mutant of RoomPoll: only while the socket is not connected.
RoomPollOffline ==
  /\ page = "ROOM" /\ room.poll = "NONE" /\ ~room.view /\ socket.state # "connected"
  /\ room' = [room EXCEPT !.poll = IF AllReady THEN "READY" ELSE "NOT_READY"]
  /\ UNCHANGED <<mediaVars, server, page, socket, call, bounds>>

\* The page reads who is ready, until both are; the answer is the server's
\* state of this moment.
RoomPoll ==
  /\ page = "ROOM" /\ room.poll = "NONE" /\ ~room.view
  /\ room' = [room EXCEPT !.poll = IF AllReady THEN "READY" ELSE "NOT_READY"]
  /\ UNCHANGED <<mediaVars, server, page, socket, call, bounds>>

RoomPollAnswers ==
  /\ page = "ROOM" /\ room.poll \in {"READY", "NOT_READY"}
  /\ Sees([room EXCEPT !.poll = "NONE"], room.poll = "READY")
  /\ UNCHANGED <<rooms, server, page, socket, call, bounds>>

\* The one button of the room: to be ready, which takes passed devices, or not any
\* more, until both are and it leads into the session.
RoomOffers ==
  IF room.view THEN "ENTER"
  ELSE IF room.mine THEN "CANCEL" ELSE IF device.passed THEN "MARK" ELSE "NONE"

ToggleReady ==
  /\ page = "ROOM" /\ room.toggle = "NONE" /\ RoomOffers \in {"MARK", "CANCEL"}
  /\ room' = [room EXCEPT !.toggle = RoomOffers]
  /\ UNCHANGED <<mediaVars, server, page, socket, call, bounds>>

\* RoomReadyService.markReady and cancelReady, while the session is not begun.
ToggleServed ==
  LET mine == room.toggle = "MARK"
      ready == mine /\ server.peer
  IN /\ page = "ROOM" /\ room.toggle \in {"MARK", "CANCEL"} /\ server.status = "OPEN"
     /\ server' = [server EXCEPT !.mine = mine]
     /\ LET r == [room EXCEPT !.toggle = IF ready THEN "DONE_READY" ELSE "DONE"]
        IN IF Hears(socket, "participants") /\ server.mine # mine
           THEN Sees(r, ready)
           ELSE room' = r /\ UNCHANGED <<device, media, starts>>
     /\ UNCHANGED <<rooms, page, socket, call, bounds>>

\* The answer, or an error, after which the page only says that it failed.
ToggleAnswers(answered) ==
  LET ok == answered /\ room.toggle \in {"DONE", "DONE_READY"}
  IN /\ page = "ROOM" /\ room.toggle \in {"MARK", "CANCEL", "DONE", "DONE_READY"}
     /\ answered => ok
     /\ IF ok THEN Sees([room EXCEPT !.toggle = "NONE", !.mine = ~@],
                        room.toggle = "DONE_READY")
        ELSE room' = [room EXCEPT !.toggle = "NONE"] /\ UNCHANGED <<device, media, starts>>
     /\ UNCHANGED <<rooms, server, page, socket, call, bounds>>

\* handleLeave(): the readiness the page knows of is withdrawn first.
LeaveRoom ==
  /\ page = "ROOM" /\ room.toggle = "NONE"
  /\ IF room.mine
     THEN /\ room' = [room EXCEPT !.toggle = "LEAVE"]
          /\ UNCHANGED <<mediaVars, page, socket, call>>
     ELSE Leave("HOME")
  /\ UNCHANGED <<server, bounds>>

LeaveRoomAnswers(served) ==
  /\ page = "ROOM" /\ room.toggle = "LEAVE"
  /\ served => server.status = "OPEN"
  /\ server' = [server EXCEPT !.mine = IF served THEN FALSE ELSE @]
  /\ Leave("HOME")
  /\ UNCHANGED bounds

\* handleEnter(): the consent to the analysis and the join, then the session,
\* wherever the user is by then.
Enter ==
  /\ page = "ROOM" /\ RoomOffers = "ENTER" /\ ~room.entering
  /\ room' = [room EXCEPT !.entering = TRUE]
  /\ UNCHANGED <<mediaVars, server, page, socket, call, bounds>>

EnterFails ==
  /\ page \in {"ROOM", "HOME"} /\ room.entering
  /\ room' = [room EXCEPT !.entering = FALSE]
  /\ UNCHANGED <<mediaVars, server, page, socket, call, bounds>>

EnterAnswers ==
  /\ page \in {"ROOM", "HOME"} /\ room.entering
  /\ server.status = "IN_PROGRESS" \/ (server.status = "OPEN" /\ AllReady)
  /\ IF page = "HOME"
     THEN page' = "GATE_CALL" /\ UNCHANGED <<socket, device, media, starts>>
     ELSE page' = "CALL" /\ socket' = Acquired(CallTopics) /\ device' = NoDevice /\ ConnectMedia
  /\ room' = NewRoom
  /\ UNCHANGED <<rooms, server, call, bounds>>

----------------------------------------------------------------------------
(* SessionPage. *)

\* Every three seconds the page reads the status of the session; the answer is
\* the server's state of this moment.
CallPoll ==
  /\ page = "CALL" /\ call.poll = "NONE"
  /\ call' = [call EXCEPT !.poll = CASE server.status = "ENDED" -> "ENDED"
                                     [] server.status = "IN_PROGRESS" -> "RUNNING"
                                     [] CanStart -> "START"
                                     [] OTHER -> "OTHER"]
  /\ UNCHANGED <<mediaVars, server, page, socket, room, bounds>>

\* startSession(), which changes nothing unless the session still may start.
Started == call.poll = "START" /\ CanStart
Answered == [call EXCEPT !.poll = "NONE", !.running = call.poll = "RUNNING" \/ Started]

\* Mutant of CallPollAnswers: only the lifecycle message ends the page.
CallPollAnswersOpen ==
  /\ page = "CALL" /\ call.poll # "NONE"
  /\ call' = Answered
  /\ server' = [server EXCEPT !.status = IF Started THEN "IN_PROGRESS" ELSE @]
  /\ UNCHANGED <<mediaVars, page, socket, room, bounds>>

\* An ended session sends the page to the review, one that may start is started.
CallPollAnswers ==
  /\ page = "CALL" /\ call.poll # "NONE"
  /\ server' = [server EXCEPT !.status = IF Started THEN "IN_PROGRESS" ELSE @]
  /\ IF call.poll = "ENDED" THEN Leave("REVIEW")
     ELSE call' = Answered /\ UNCHANGED <<mediaVars, page, socket, room>>
  /\ UNCHANGED bounds

CallPollFails ==
  /\ page = "CALL" /\ call.poll # "NONE" /\ losses < MaxLosses
  /\ call' = [call EXCEPT !.poll = "NONE"]
  /\ losses' = losses + 1
  /\ UNCHANGED <<mediaVars, server, page, socket, room, turns>>

\* The user ends the session; whatever the server says, the page goes on.
EndCall(served) ==
  /\ page = "CALL"
  /\ server' = [server EXCEPT !.status = IF served THEN "ENDED" ELSE @]
  /\ Leave("REVIEW")
  /\ UNCHANGED bounds

----------------------------------------------------------------------------
(* useLiveKitRoom, and what useSessionRealtime reports of it. *)

CanReport(m) == page = "CALL" /\ socket.state = "connected" /\ m.sid # NoRun

\* A change of the room's state is reported only if it can be at that moment.
\* A room that is joined anew is announced to the server by LiveKit.
Report(old, new) ==
  IF new.sid # old.sid THEN "CONNECTED"
  ELSE IF ~CanReport(new) THEN server.link
  ELSE IF new.state = "reconnecting" /\ old.state # "reconnecting" THEN "RECONNECTING"
  ELSE IF new.state = "connected" /\ old.state = "reconnecting" THEN "CONNECTED"
  ELSE server.link

MediaStep ==
  /\ \/ \E r \in Runs, ok \in BOOLEAN :
          ProbeAnswers(r, ok) \/ TokenArrives(r, ok) \/ ConnectAnswers(r, ok)
            \/ PublishAnswers(r, ok)
     \/ PermissionRevoked
     \/ Retry
     \/ LinkChanges("UP", "RECONNECTING", "reconnecting")
     \/ \E state \in {"connected", "unstable"} :
          LinkChanges("UP", "UP", state) \/ LinkChanges("RECONNECTING", "UP", state)
     \/ LinkChanges("RECONNECTING", "OUT", "disconnected")
  /\ server' = [server EXCEPT !.link = Report(media, media')]
  /\ UNCHANGED <<page, socket, room, call, bounds>>

DeviceStep ==
  /\ page = "ROOM"
  /\ (\E granted \in BOOLEAN : DeviceAnswers(granted)) \/ DeviceRetry
  /\ UNCHANGED <<server, page, socket, room, call, bounds>>

----------------------------------------------------------------------------
(* The server and the peer, while the user is in one of the pages. *)

Watched == page \in {"ROOM", "CALL"}

PeerReadies(ready) ==
  /\ Watched /\ server.status = "OPEN" /\ server.peer # ready /\ turns < MaxTurns
  /\ server' = [server EXCEPT !.peer = ready]
  /\ turns' = turns + 1
  /\ Announce(ready /\ server.mine)
  /\ UNCHANGED <<rooms, page, socket, call, losses>>

\* The session ends: nobody came, the time is over, the peer leaves, or the
\* reconnection of this user took too long.  The lifecycle message ends a connected page.
ServerEnds ==
  /\ Watched /\ server.status \in Open
  /\ server' = [server EXCEPT !.status = "ENDED"]
  /\ IF page = "CALL" /\ Hears(socket, "lifecycle") THEN Leave("REVIEW")
     ELSE UNCHANGED <<mediaVars, page, socket, room, call>>
  /\ UNCHANGED bounds

----------------------------------------------------------------------------
Next ==
  \/ \E answered \in BOOLEAN : GateAnswers(answered)
  \/ SocketConnects \/ SocketDrops \/ ReconnectTimer
  \/ RoomPoll \/ RoomPollAnswers
  \/ ToggleReady \/ ToggleServed
  \/ LeaveRoom \/ Enter \/ EnterFails \/ EnterAnswers
  \/ CallPoll \/ CallPollAnswers \/ CallPollFails
  \/ \E yes \in BOOLEAN :
       \/ ToggleAnswers(yes) \/ LeaveRoomAnswers(yes)
       \/ EndCall(yes) \/ PeerReadies(yes)
  \/ MediaStep \/ DeviceStep
  \/ ServerEnds

Spec == Init /\ [][Next]_vars

\* The browser's timers fire and the server answers what it is asked.
Fairness ==
  /\ WF_vars(RoomPoll) /\ WF_vars(RoomPollAnswers)
  /\ WF_vars(CallPoll) /\ WF_vars(CallPollAnswers)
FairSpec == Spec /\ Fairness

----------------------------------------------------------------------------
(* Properties. *)

\* No room but the one of the current run, on a page inside the layout, is in
\* use: start() installs nothing after its run was cleaned up.
NoOrphanRoom ==
  \A r \in Runs : rooms[r] # "OUT" => r = media.run /\ page \in {"ROOM", "CALL"}

\* A page whose session has ended does not stay, though the socket may be down
\* when the server says so.
DeadSessionIsLeft == server.status = "ENDED" /\ page = "CALL" ~> page # "CALL"

\* The page learns that both are ready, though the socket may be down when the
\* server says so.
ReadinessIsSeen == AllReady /\ page = "ROOM" ~> room.view \/ ~AllReady \/ page # "ROOM"

\* The start and the completion of a reconnection are reported: the server does
\* not believe a user to be reconnecting who can report and is connected.
ReconnectionIsReported ==
  CanReport(media) /\ media.state = "connected" => server.link = "CONNECTED"

============================================================================
