------------------------ MODULE ClientSessionProofs ------------------------
(***************************************************************************)
(* Proofs about a session in the browser: however often the pages run the  *)
(* effect that joins the LiveKit room, no room is left behind.  What the   *)
(* start() of a cleaned-up run still awaits is harmless because its room   *)
(* is out already and every later step asks whether the run is current.    *)
(* And all state keeps its types.                                          *)
(***************************************************************************)
EXTENDS ClientSession, TLAPS

Hook == [run : Runs \cup {NoRun}, next : 1..MaxRuns + 1, state : States,
         denied : BOOLEAN, sid : Runs \cup {NoRun}]

\* Only the current run has a room, and only the two pages have a run.
RoomInv ==
  /\ media \in Hook
  /\ starts \in [Runs -> Stages]
  /\ rooms \in [Runs -> Links]
  /\ \A r \in Runs : rooms[r] # "OUT" => r = media.run
  /\ page \notin {"ROOM", "CALL"} => media.run = NoRun

LEMMA RunsAreNumbers == Runs \subseteq 1..MaxRuns + 1 /\ NoRun \notin Runs
BY MaxRunsAssumption DEF Runs, NoRun

LEMMA HookTypes ==
  ASSUME media \in Hook
  PROVE  /\ WithoutRun \in Hook /\ WithoutRun.run = NoRun /\ WithoutRun.next = media.next
         /\ Blocked \in Hook /\ Blocked.run = media.run
<1> USE DEF Hook, States
<1>1. NewMedia \in Hook
  BY MaxRunsAssumption DEF NewMedia, NoRun
<1>2. WithoutRun = [NewMedia EXCEPT !.next = media.next]
  BY DEF WithoutRun
<1>3. WithoutRun \in Hook /\ WithoutRun.run = NoRun /\ WithoutRun.next = media.next
  BY <1>2 DEF NewMedia, NoRun
<1>4. Blocked \in Hook /\ Blocked.run = media.run
  BY DEF Blocked
<1> QED BY <1>3, <1>4

LEMMA InitRooms == Init => RoomInv
<1> SUFFICES ASSUME Init PROVE RoomInv
  OBVIOUS
<1>1. media = NewMedia /\ rooms = [r \in Runs |-> "OUT"] /\ starts = [r \in Runs |-> "IDLE"]
  BY DEF Init, MediaInit
<1>2. NewMedia \in Hook /\ NewMedia.run = NoRun
  BY MaxRunsAssumption DEF NewMedia, Hook, States, NoRun
<1> QED BY <1>1, <1>2 DEF RoomInv, Stages, Links

\* A run starts with its own number, and no room yet.
LEMMA StartHook ==
  ASSUME RoomInv, NEW m \in Hook, Start(m)
  PROVE  media' \in Hook /\ media'.run = m.next /\ starts' \in [Runs -> Stages]
<1>1. m.next \in Runs /\ m.next + 1 \in 1..MaxRuns + 1
  BY MaxRunsAssumption DEF Start, Runs
<1>2. media' = [m EXCEPT !.run = m.next, !.next = m.next + 1]
  BY DEF Start
<1>3. media' \in Hook /\ media'.run = m.next
  BY <1>1, <1>2 DEF Hook
<1> QED BY <1>1, <1>3 DEF Start, RoomInv, Stages

\* A page inside the layout connects the room, or leaves the hook alone.
LEMMA PageConnects ==
  ASSUME RoomInv, ConnectMedia \/ UNCHANGED <<media, starts>>, UNCHANGED rooms,
         page' \in {"ROOM", "CALL"}
  PROVE  RoomInv'
<1>1. CASE UNCHANGED <<media, starts>>
  BY <1>1 DEF RoomInv
<1>2. CASE media.run = NoRun /\ Start(media)
  <2>1. \A r \in Runs : rooms'[r] = "OUT"
    BY <1>2, RunsAreNumbers DEF RoomInv
  <2> QED BY <1>2, <2>1, StartHook DEF RoomInv
<1> QED BY <1>1, <1>2 DEF ConnectMedia

LEMMA SeesConnects ==
  ASSUME NEW r, NEW ready, Sees(r, ready)
  PROVE  ConnectMedia \/ UNCHANGED <<media, starts>>
BY DEF Sees

\* The cleanup leaves the room of the run, the only one there is.
LEMMA PageLeaves ==
  ASSUME RoomInv, NEW target, Leave(target)
  PROVE  RoomInv'
<1>1. /\ media' = WithoutRun
      /\ rooms' = [r \in Runs |-> IF r = media.run THEN "OUT" ELSE rooms[r]]
      /\ starts' = starts
  BY DEF Leave, Cleanup
<1>2. \A r \in Runs : rooms'[r] = "OUT"
  BY <1>1 DEF RoomInv
<1>3. rooms' \in [Runs -> Links]
  BY <1>1 DEF RoomInv, Links
<1> QED BY <1>1, <1>2, <1>3, HookTypes DEF RoomInv

\* The steps of the hook itself.
LEMMA HookStep ==
  ASSUME RoomInv, MediaStep
  PROVE  RoomInv'
<1> USE DEF RoomInv
<1>0. page' = page
  BY DEF MediaStep
<1>1. ASSUME NEW r \in Runs, NEW ok \in BOOLEAN, ProbeAnswers(r, ok) PROVE RoomInv'
  <2>1. media' \in Hook /\ media'.run = media.run
    BY <1>1, HookTypes DEF ProbeAnswers
  <2>2. starts' \in [Runs -> Stages] /\ rooms' = rooms
    BY <1>1 DEF ProbeAnswers, Moves, Stages
  <2> QED BY <1>0, <2>1, <2>2
<1>2. ASSUME NEW r \in Runs, NEW ok \in BOOLEAN, TokenArrives(r, ok) PROVE RoomInv'
  <2>1. media' \in Hook /\ media'.run = media.run
    BY <1>2 DEF TokenArrives, Hook, States
  <2>2. starts' \in [Runs -> Stages]
    BY <1>2 DEF TokenArrives, Moves, Stages
  <2>3. /\ rooms' \in [Runs -> Links]
        /\ \A q \in Runs : rooms'[q] # "OUT" => q = media.run
    BY <1>2 DEF TokenArrives, Joins, Links, Cancelled
  <2> QED BY <1>0, <2>1, <2>2, <2>3
<1>3. ASSUME NEW r \in Runs, NEW ok \in BOOLEAN, ConnectAnswers(r, ok) PROVE RoomInv'
  <2>1. media' \in Hook /\ media'.run = media.run
    BY <1>3 DEF ConnectAnswers, Hook, States
  <2>2. starts' \in [Runs -> Stages]
    BY <1>3 DEF ConnectAnswers, Moves, Stages
  <2>3. /\ rooms' \in [Runs -> Links]
        /\ \A q \in Runs : rooms'[q] # "OUT" => q = media.run
    BY <1>3 DEF ConnectAnswers, Joins, Links
  <2> QED BY <1>0, <2>1, <2>2, <2>3
<1>4. ASSUME NEW r \in Runs, NEW ok \in BOOLEAN, PublishAnswers(r, ok) PROVE RoomInv'
  <2>1. media' \in Hook /\ media'.run = media.run
    BY <1>4, HookTypes DEF PublishAnswers
  <2>2. starts' \in [Runs -> Stages]
    BY <1>4 DEF PublishAnswers, Moves, Stages
  <2>3. /\ rooms' \in [Runs -> Links]
        /\ \A q \in Runs : rooms'[q] # "OUT" => q = media.run
    BY <1>4 DEF PublishAnswers, Joins, Links
  <2> QED BY <1>0, <2>1, <2>2, <2>3
<1>5. CASE PermissionRevoked
  <2>1. /\ rooms' \in [Runs -> Links]
        /\ \A q \in Runs : rooms'[q] # "OUT" => q = media.run
    BY <1>5 DEF PermissionRevoked, Joins, Links
  <2> QED BY <1>0, <1>5, <2>1, HookTypes DEF PermissionRevoked
<1>6. CASE Retry
  <2>1. media.run # NoRun /\ Start(WithoutRun)
        /\ rooms' = [rooms EXCEPT ![media.run] = "OUT"]
    BY <1>6 DEF Retry, Joins
  <2>2. media' \in Hook /\ starts' \in [Runs -> Stages]
    BY <2>1, HookTypes, StartHook
  <2>3. rooms' \in [Runs -> Links] /\ \A q \in Runs : rooms'[q] = "OUT"
    BY <2>1 DEF Links
  <2> QED BY <1>0, <2>1, <2>2, <2>3
<1>7. ASSUME NEW from \in Links, NEW to \in Links, NEW state \in States,
             LinkChanges(from, to, state)
      PROVE  RoomInv'
  <2>1. media' \in Hook /\ media'.run = media.run
    BY <1>7 DEF LinkChanges, Hook
  <2>2. /\ rooms' \in [Runs -> Links]
        /\ \A q \in Runs : rooms'[q] # "OUT" => q = media.run
    BY <1>7 DEF LinkChanges, Joins
  <2> QED BY <1>0, <1>7, <2>1, <2>2 DEF LinkChanges
<1>8. {"OUT", "UP", "RECONNECTING"} \subseteq Links
      /\ {"connected", "unstable", "reconnecting", "disconnected"} \subseteq States
  BY DEF Links, States
<1> QED BY <1>1, <1>2, <1>3, <1>4, <1>5, <1>6, <1>7, <1>8 DEF MediaStep

LEMMA NextRooms == RoomInv /\ [Next]_vars => RoomInv'
<1> SUFFICES ASSUME RoomInv, [Next]_vars PROVE RoomInv'
  OBVIOUS
<1>1. CASE UNCHANGED <<media, starts, rooms, page>>
  BY <1>1 DEF RoomInv
<1>2. ASSUME NEW answered \in BOOLEAN, GateAnswers(answered) PROVE RoomInv'
  <2>1. CASE page' = "REVIEW" /\ UNCHANGED <<media, starts, rooms>>
    BY <1>2, <2>1 DEF RoomInv, GateAnswers, Gates
  <2>2. CASE page' \in {"ROOM", "CALL"} /\ (ConnectMedia \/ UNCHANGED <<media, starts>>)
    BY <1>2, <2>2, PageConnects DEF GateAnswers
  <2> QED BY <1>2, <2>1, <2>2 DEF GateAnswers, OpenRoom
<1>3. CASE SocketConnects \/ SocketDrops \/ ReconnectTimer \/ RoomPoll \/ ToggleReady
           \/ Enter \/ EnterFails \/ CallPoll \/ CallPollFails
  BY <1>1, <1>3
     DEF SocketConnects, SocketDrops, ReconnectTimer, RoomPoll, ToggleReady, Enter,
         EnterFails, CallPoll, CallPollFails, mediaVars
<1>4. CASE RoomPollAnswers
  BY <1>4, SeesConnects, PageConnects DEF RoomPollAnswers
<1>5. CASE ToggleServed
  <2>1. page' = "ROOM" /\ UNCHANGED rooms /\ (ConnectMedia \/ UNCHANGED <<media, starts>>)
    BY <1>5, SeesConnects DEF ToggleServed
  <2> QED BY <2>1, PageConnects
<1>6. ASSUME NEW yes \in BOOLEAN, ToggleAnswers(yes) PROVE RoomInv'
  <2>1. page' = "ROOM" /\ UNCHANGED rooms /\ (ConnectMedia \/ UNCHANGED <<media, starts>>)
    BY <1>6, SeesConnects DEF ToggleAnswers
  <2> QED BY <2>1, PageConnects
<1>7. CASE LeaveRoom
  BY <1>1, <1>7, PageLeaves DEF LeaveRoom, mediaVars
<1>8. ASSUME NEW yes \in BOOLEAN, LeaveRoomAnswers(yes) \/ EndCall(yes) PROVE RoomInv'
  BY <1>8, PageLeaves DEF LeaveRoomAnswers, EndCall
<1>9. CASE EnterAnswers
  <2>1. CASE page' = "GATE_CALL" /\ page = "HOME" /\ UNCHANGED <<media, starts, rooms>>
    BY <2>1 DEF RoomInv
  <2>2. CASE page' = "CALL" /\ ConnectMedia /\ UNCHANGED rooms
    BY <2>2, PageConnects
  <2> QED BY <1>9, <2>1, <2>2 DEF EnterAnswers
<1>10. CASE CallPollAnswers
  BY <1>1, <1>10, PageLeaves DEF CallPollAnswers, mediaVars
<1>11. ASSUME NEW yes \in BOOLEAN, PeerReadies(yes) PROVE RoomInv'
  <2>1. /\ page' = page /\ page \in {"ROOM", "CALL"} /\ UNCHANGED rooms
        /\ ConnectMedia \/ UNCHANGED <<media, starts>>
    BY <1>11, SeesConnects DEF PeerReadies, Announce, Watched
  <2> QED BY <2>1, PageConnects
<1>12. CASE MediaStep
  BY <1>12, HookStep
<1>13. CASE DeviceStep
  BY <1>1, <1>13 DEF DeviceStep, DeviceAnswers, DeviceRetry
<1>14. CASE ServerEnds
  BY <1>1, <1>14, PageLeaves DEF ServerEnds, mediaVars
<1>15. CASE UNCHANGED vars
  BY <1>1, <1>15 DEF vars, mediaVars
<1> QED BY <1>2, <1>3, <1>4, <1>5, <1>6, <1>7, <1>8, <1>9, <1>10, <1>11, <1>12, <1>13,
           <1>14, <1>15 DEF Next

\* No LiveKit room but the one of the current run is in use, and none outside
\* the two pages: whatever start() awaited when its run was cleaned up, the
\* camera and the microphone of a page that was left are not published
\* (useLiveKitRoom, SessionMediaLayout).
THEOREM NoRoomIsLeftBehind == Spec => []NoOrphanRoom
<1>1. RoomInv => NoOrphanRoom
  BY RunsAreNumbers DEF RoomInv, NoOrphanRoom
<1> QED BY <1>1, InitRooms, NextRooms, PTL DEF Spec

----------------------------------------------------------------------------
(* Types. *)

\* What a step makes of the hook: it stays with its run, whose room may be told its
\* number, starts a run, or is unmounted.
HookMoves ==
  /\ media'.run = media.run /\ media'.next = media.next
  /\ media'.sid \in {media.sid, media.run}
  /\ \A r \in Runs : (starts'[r] = "IDLE") = (starts[r] = "IDLE")
HookStarts == Start(WithoutRun) \/ (media.run = NoRun /\ Start(media))
HookEnds == media' = WithoutRun /\ starts' = starts

\* The start() of exactly the runs there were has begun, and a room that told its
\* number is the current run's.
HookInv ==
  /\ media.run < media.next
  /\ media.sid \in {NoRun, media.run}
  /\ \A r \in Runs : (starts[r] = "IDLE") = (r >= media.next)

LEMMA HookStays ==
  ASSUME RoomInv, HookInv, HookMoves \/ HookStarts \/ HookEnds
  PROVE  HookInv'
<1>1. media \in Hook /\ starts \in [Runs -> Stages] /\ MaxRuns \in Nat /\ Runs = 1..MaxRuns
  BY MaxRunsAssumption DEF RoomInv, Runs
<1>2. CASE HookMoves
  BY <1>2 DEF HookInv, HookMoves
<1>3. CASE HookEnds
  <2>1. media'.run = NoRun /\ media'.next = media.next /\ media'.sid = NoRun
    BY <1>3 DEF HookEnds, WithoutRun, NewMedia
  <2>2. media.next > NoRun
    BY <1>1 DEF Hook, NoRun
  <2> QED BY <1>3, <2>1, <2>2 DEF HookInv, HookEnds
<1>4. CASE HookStarts
  <2>1. WithoutRun.next = media.next /\ WithoutRun.sid = NoRun /\ WithoutRun \in Hook
    BY <1>1, HookTypes DEF WithoutRun, NewMedia
  <2>2. media.run = NoRun => media.sid = NoRun
    BY DEF HookInv
  <2>3. /\ media'.run = media.next /\ media'.next = media.next + 1 /\ media'.sid = NoRun
        /\ starts' = [starts EXCEPT ![media.next] = "PROBING"] /\ media.next \in Runs
    <3>1. CASE media.run = NoRun /\ Start(media)
      BY <1>1, <2>2, <3>1 DEF Start, Hook
    <3>2. CASE Start(WithoutRun)
      BY <2>1, <3>2 DEF Start, Hook
    <3> QED BY <1>4, <3>1, <3>2 DEF HookStarts
  <2>4. media.next \in Int
    BY <1>1 DEF Hook
  <2>5. \A r \in Runs : (starts'[r] = "IDLE") = (r >= media'.next)
    BY <1>1, <2>3, <2>4 DEF HookInv
  <2> QED BY <2>3, <2>4, <2>5 DEF HookInv, NoRun
<1> QED BY <1>2, <1>3, <1>4

\* What the steps of the pages make of the hook and of the camera under check.
DeviceKeeps == device' \in {device, Released(device), NoDevice}

LEMMA SeesHook ==
  ASSUME NEW r, NEW ready, Sees(r, ready)
  PROVE  /\ HookStarts \/ UNCHANGED <<media, starts>>
         /\ DeviceKeeps
         /\ room' = [r EXCEPT !.view = ready]
BY DEF Sees, ConnectMedia, HookStarts, DeviceKeeps

LEMMA LeaveHook ==
  ASSUME NEW target, Leave(target)
  PROVE  HookEnds /\ device' = NoDevice
BY DEF Leave, Cleanup, HookEnds

LEMMA MediaStepHook ==
  ASSUME RoomInv, MediaStep
  PROVE  (HookMoves \/ HookStarts) /\ UNCHANGED device
<1>1. media \in Hook /\ starts \in [Runs -> Stages]
  BY DEF RoomInv
<1>2. Blocked.run = media.run /\ Blocked.next = media.next /\ Blocked.sid = media.sid
  BY <1>1 DEF Blocked, Hook
<1>3. ASSUME NEW r \in Runs, starts[r] # "IDLE", NEW stage, Moves(r, stage), stage # "IDLE"
      PROVE  \A q \in Runs : (starts'[q] = "IDLE") = (starts[q] = "IDLE")
  BY <1>1, <1>3 DEF Moves
<1>4. ASSUME NEW r \in Runs, NEW ok \in BOOLEAN, ProbeAnswers(r, ok)
      PROVE  HookMoves /\ UNCHANGED device
  <2>1. \A q \in Runs : (starts'[q] = "IDLE") = (starts[q] = "IDLE")
    BY <1>3, <1>4 DEF ProbeAnswers
  <2> QED BY <1>2, <1>4, <2>1 DEF ProbeAnswers, HookMoves
<1>5. ASSUME NEW r \in Runs, NEW ok \in BOOLEAN, TokenArrives(r, ok)
      PROVE  HookMoves /\ UNCHANGED device
  <2>1. \A q \in Runs : (starts'[q] = "IDLE") = (starts[q] = "IDLE")
    BY <1>3, <1>5 DEF TokenArrives
  <2> QED BY <1>1, <1>5, <2>1 DEF TokenArrives, HookMoves, Hook
<1>6. ASSUME NEW r \in Runs, NEW ok \in BOOLEAN, ConnectAnswers(r, ok)
      PROVE  HookMoves /\ UNCHANGED device
  <2>1. \A q \in Runs : (starts'[q] = "IDLE") = (starts[q] = "IDLE")
    BY <1>3, <1>6 DEF ConnectAnswers
  <2> QED BY <1>1, <1>6, <2>1 DEF ConnectAnswers, HookMoves, Hook, Cancelled
<1>7. ASSUME NEW r \in Runs, NEW ok \in BOOLEAN, PublishAnswers(r, ok)
      PROVE  HookMoves /\ UNCHANGED device
  <2>1. \A q \in Runs : (starts'[q] = "IDLE") = (starts[q] = "IDLE")
    BY <1>3, <1>7 DEF PublishAnswers
  <2> QED BY <1>2, <1>7, <2>1 DEF PublishAnswers, HookMoves
<1>8. CASE PermissionRevoked
  BY <1>2, <1>8 DEF PermissionRevoked, HookMoves
<1>9. CASE Retry
  BY <1>9 DEF Retry, HookStarts
<1>10. ASSUME NEW from, NEW to, NEW state, LinkChanges(from, to, state)
       PROVE  HookMoves /\ UNCHANGED device
  BY <1>1, <1>10 DEF LinkChanges, HookMoves, Hook
<1> QED BY <1>4, <1>5, <1>6, <1>7, <1>8, <1>9, <1>10 DEF MediaStep

LEMMA InitHook == Init => HookInv
<1> SUFFICES ASSUME Init PROVE HookInv
  OBVIOUS
<1>1. /\ media.run = NoRun /\ media.next = 1 /\ media.sid = NoRun
      /\ starts = [r \in Runs |-> "IDLE"]
  BY DEF Init, MediaInit, NewMedia
<1> QED BY <1>1 DEF HookInv, Runs, NoRun

LEMMA NextHook == RoomInv /\ HookInv /\ [Next]_vars => HookInv'
<1> SUFFICES ASSUME RoomInv, HookInv, [Next]_vars PROVE HookInv'
  OBVIOUS
<1>0. ASSUME UNCHANGED <<media, starts>> PROVE HookInv'
  BY <1>0 DEF HookInv
<1>1. ASSUME ConnectMedia PROVE HookStarts \/ UNCHANGED <<media, starts>>
  BY <1>1 DEF ConnectMedia, HookStarts
<1>2. ASSUME NEW answered \in BOOLEAN, GateAnswers(answered)
      PROVE  HookStarts \/ UNCHANGED <<media, starts>>
  BY <1>1, <1>2 DEF GateAnswers
<1>3. CASE SocketConnects \/ SocketDrops \/ ReconnectTimer \/ RoomPoll \/ ToggleReady
           \/ Enter \/ EnterFails \/ CallPoll \/ CallPollFails
  BY <1>0, <1>3
     DEF SocketConnects, SocketDrops, ReconnectTimer, RoomPoll, ToggleReady, Enter,
         EnterFails, CallPoll, CallPollFails, mediaVars
<1>4. ASSUME NEW yes \in BOOLEAN,
             RoomPollAnswers \/ ToggleServed \/ ToggleAnswers(yes) \/ PeerReadies(yes)
      PROVE  HookStarts \/ UNCHANGED <<media, starts>>
  BY <1>4, SeesHook DEF RoomPollAnswers, ToggleServed, ToggleAnswers, PeerReadies, Announce
<1>5. ASSUME NEW yes \in BOOLEAN,
             LeaveRoom \/ LeaveRoomAnswers(yes) \/ CallPollAnswers \/ EndCall(yes) \/ ServerEnds
      PROVE  HookEnds \/ UNCHANGED <<media, starts>>
  BY <1>5, LeaveHook
     DEF LeaveRoom, LeaveRoomAnswers, CallPollAnswers, EndCall, ServerEnds, mediaVars
<1>6. CASE EnterAnswers
  BY <1>0, <1>1, <1>6, HookStays DEF EnterAnswers
<1>7. CASE MediaStep
  BY <1>7, MediaStepHook, HookStays
<1>8. CASE DeviceStep \/ UNCHANGED vars
  BY <1>0, <1>8 DEF DeviceStep, DeviceAnswers, DeviceRetry, vars, mediaVars
<1> QED BY <1>0, <1>2, <1>3, <1>4, <1>5, <1>6, <1>7, <1>8, HookStays DEF Next

\* The socket of a page, and none without a page.
Topics == RoomTopics \cup CallTopics
Sockets == [state : {"idle", "connecting", "connected", "reconnecting", "closed"},
            ws : {"NONE", "OPENING", "OPEN"}, timer : BOOLEAN,
            wanted : SUBSET Topics, served : SUBSET Topics]
SocketInv ==
  /\ socket \in Sockets /\ SocketOK(socket)
  /\ page \notin {"ROOM", "CALL"} => socket = NoSocket

LEMMA SocketSteps ==
  ASSUME NEW s \in Sockets, SocketOK(s)
  PROVE  /\ NoSocket \in Sockets /\ SocketOK(NoSocket)
         /\ \A topics \in SUBSET Topics : Acquired(topics) \in Sockets /\ SocketOK(Acquired(topics))
         /\ s.ws = "OPENING" => Connected(s) \in Sockets /\ SocketOK(Connected(s))
         /\ Dropped(s) \in Sockets /\ SocketOK(Dropped(s))
         /\ s.ws = "NONE" => Reopened(s) \in Sockets /\ SocketOK(Reopened(s))
<1> USE DEF Sockets, SocketOK
<1>1. NoSocket \in Sockets /\ SocketOK(NoSocket)
  BY DEF NoSocket
<1>2. ASSUME NEW topics \in SUBSET Topics
      PROVE  Acquired(topics) \in Sockets /\ SocketOK(Acquired(topics))
  BY DEF Acquired, NoSocket
<1>3. s.ws = "OPENING" => Connected(s) \in Sockets /\ SocketOK(Connected(s))
  BY DEF Connected
<1>4. Dropped(s) \in Sockets /\ SocketOK(Dropped(s))
  BY DEF Dropped
<1>5. s.ws = "NONE" => Reopened(s) \in Sockets /\ SocketOK(Reopened(s))
  BY DEF Reopened
<1> QED BY <1>1, <1>2, <1>3, <1>4, <1>5

LEMMA NextSocket == SocketInv /\ [Next]_vars => SocketInv'
<1> SUFFICES ASSUME SocketInv, [Next]_vars PROVE SocketInv'
  OBVIOUS
<1>1. socket \in Sockets /\ SocketOK(socket)
  BY DEF SocketInv
<1> DEFINE Kept == socket' = socket /\ page' = page
           Ahead == socket' = socket /\ page \notin {"ROOM", "CALL"}
           Left == socket' = NoSocket
           Opened == /\ page' \in {"ROOM", "CALL"}
                     /\ socket' \in {Acquired(RoomTopics), Acquired(CallTopics)}
<1>2. Kept \/ Ahead \/ Left \/ Opened => SocketInv'
  <2>1. RoomTopics \in SUBSET Topics /\ CallTopics \in SUBSET Topics
    BY DEF Topics
  <2>2. Opened => SocketInv'
    BY <1>1, <2>1, SocketSteps DEF SocketInv
  <2>3. Kept \/ Ahead => SocketInv'
    BY DEF SocketInv
  <2>4. Left => SocketInv'
    BY <1>1, SocketSteps DEF SocketInv
  <2> QED BY <2>2, <2>3, <2>4
<1>3. ASSUME NEW answered \in BOOLEAN, GateAnswers(answered)
      PROVE  Opened \/ Ahead
  BY <1>3 DEF GateAnswers, OpenRoom, Gates
<1>4. CASE SocketConnects \/ SocketDrops \/ ReconnectTimer
  <2>1. page' = page /\ (socket.ws # "NONE" \/ socket.timer)
    BY <1>4 DEF SocketConnects, SocketDrops, ReconnectTimer
  <2>2. page \in {"ROOM", "CALL"}
    BY <2>1 DEF SocketInv, NoSocket
  <2>3. socket' \in Sockets /\ SocketOK(socket')
    BY <1>1, <1>4, SocketSteps DEF SocketConnects, SocketDrops, ReconnectTimer, SocketOK
  <2> QED BY <2>1, <2>2, <2>3 DEF SocketInv
<1>5. ASSUME NEW yes \in BOOLEAN,
             \/ RoomPoll \/ RoomPollAnswers \/ ToggleReady \/ ToggleServed \/ Enter
             \/ EnterFails \/ CallPoll \/ CallPollFails \/ ToggleAnswers(yes)
             \/ PeerReadies(yes) \/ MediaStep \/ DeviceStep \/ UNCHANGED vars
      PROVE  Kept
  BY <1>5 DEF RoomPoll, RoomPollAnswers, ToggleReady, ToggleServed, Enter, EnterFails,
              CallPoll, CallPollFails, ToggleAnswers, PeerReadies, MediaStep, DeviceStep, vars
<1>6. ASSUME NEW target, Leave(target) PROVE Left
  BY <1>6 DEF Leave
<1>7. ASSUME NEW yes \in BOOLEAN,
             LeaveRoom \/ LeaveRoomAnswers(yes) \/ CallPollAnswers \/ EndCall(yes) \/ ServerEnds
      PROVE  Kept \/ Left
  BY <1>6, <1>7 DEF LeaveRoom, LeaveRoomAnswers, CallPollAnswers, EndCall, ServerEnds
<1>8. ASSUME EnterAnswers
      PROVE  Opened \/ Ahead
  BY <1>8 DEF EnterAnswers
<1> HIDE DEF Kept, Ahead, Left, Opened
<1> QED BY <1>2, <1>3, <1>4, <1>5, <1>7, <1>8 DEF Next

----------------------------------------------------------------------------
(* The pages. *)

Servers == [status : Open \cup {"ENDED"}, mine : BOOLEAN, peer : BOOLEAN,
            link : {"CONNECTED", "RECONNECTING"}]
Devices == [pending : BOOLEAN, held : BOOLEAN, passed : BOOLEAN]
Rooms == [poll : {"NONE", "READY", "NOT_READY"}, view : BOOLEAN, mine : BOOLEAN,
          toggle : {"NONE", "MARK", "CANCEL", "LEAVE", "DONE", "DONE_READY", "FAILED"},
          entering : BOOLEAN]
Calls == [poll : {"NONE", "ENDED", "START", "RUNNING", "OTHER"}, running : BOOLEAN]
Waiting == {NewRoom, [NewRoom EXCEPT !.entering = TRUE]}

\* What a page leaves behind: nothing of its own but a handleEnter() of the waiting
\* room, which goes on at home, and no camera that its check has opened.
PageInv ==
  /\ page \in Gates \cup {"ROOM", "CALL", "REVIEW", "HOME"}
  /\ device \in Devices /\ (device.held => device.passed)
  /\ room \in Rooms /\ call \in Calls
  /\ page # "ROOM" => room \in Waiting /\ ~device.held
  /\ room.entering => page \in {"ROOM", "HOME"}
  /\ page # "CALL" => call = NewCall

LEMMA LeavesNothing ==
  ASSUME PageInv, NEW target \in {"REVIEW", "HOME"}, Leave(target),
         target = "HOME" \/ page = "CALL"
  PROVE  PageInv'
<1>1. /\ page' = target /\ device' = NoDevice /\ call' = NewCall
      /\ room' = [NewRoom EXCEPT !.entering = room.entering]
  BY DEF Leave
<1>2. room.entering \in BOOLEAN /\ (page = "CALL" => ~room.entering)
  BY DEF PageInv, Rooms
<1>3. room' \in Waiting /\ room' \in Rooms /\ room'.entering = room.entering
  BY <1>1, <1>2 DEF NewRoom, Waiting, Rooms
<1>4. NoDevice \in Devices /\ ~NoDevice.held /\ NewCall \in Calls
  BY DEF NoDevice, Devices, NewCall, Calls
<1> QED BY <1>1, <1>2, <1>3, <1>4 DEF PageInv

\* The steps inside a page: the room and the camera of the waiting room, the state
\* of the session page.
LEMMA StaysOnPage ==
  ASSUME PageInv, page' = page, device' \in Devices, device'.held => device'.passed,
         room' \in Rooms, call' \in Calls,
         page # "ROOM" => room' = room /\ device' = device,
         page = "ROOM" \/ room'.entering = room.entering,
         page # "CALL" => call' = call
  PROVE  PageInv'
BY DEF PageInv

LEMMA SeesOnPage ==
  ASSUME PageInv, page = "ROOM", page' = page, NEW r \in Rooms, NEW ready \in BOOLEAN,
         Sees(r, ready), call' = call
  PROVE  PageInv'
<1>1. device' \in {device, Released(device)} /\ room' = [r EXCEPT !.view = ready]
  BY DEF Sees
<1>2. device' \in Devices /\ (device'.held => device'.passed)
  BY <1>1 DEF PageInv, Devices, Released
<1>3. room' \in Rooms
  BY <1>1 DEF Rooms
<1> QED BY <1>2, <1>3, StaysOnPage DEF PageInv

LEMMA PageTypes ==
  /\ NewRoom \in Rooms /\ Waiting \subseteq Rooms /\ NewCall \in Calls /\ NoDevice \in Devices
  /\ CheckingDevice \in Devices /\ ~NoDevice.held /\ ~CheckingDevice.held /\ ~NewRoom.entering
  /\ [NewRoom EXCEPT !.entering = TRUE].entering
  /\ NewRoom \in Waiting
<1>1. NewRoom \in Rooms /\ ~NewRoom.entering
  BY DEF NewRoom, Rooms
<1>2. [NewRoom EXCEPT !.entering = TRUE] \in Rooms /\ [NewRoom EXCEPT !.entering = TRUE].entering
  BY DEF NewRoom, Rooms
<1>3. NewCall \in Calls
  BY DEF NewCall, Calls
<1>4. NoDevice \in Devices /\ ~NoDevice.held /\ CheckingDevice \in Devices /\ ~CheckingDevice.held
  BY DEF NoDevice, CheckingDevice, Devices
<1> QED BY <1>1, <1>2, <1>3, <1>4 DEF Waiting

LEMMA NextPage == PageInv /\ server \in Servers /\ RoomInv /\ [Next]_vars => PageInv'
<1> SUFFICES ASSUME PageInv, server \in Servers, RoomInv, [Next]_vars PROVE PageInv'
  OBVIOUS
<1>0. CASE UNCHANGED <<page, device, room, call>>
  BY <1>0 DEF PageInv
<1>1. ASSUME NEW answered \in BOOLEAN, GateAnswers(answered) PROVE PageInv'
  <2>1. page \in Gates /\ room' = room /\ call' = call
    BY <1>1 DEF GateAnswers
  <2>2. room \in Waiting /\ ~room.entering /\ ~device.held /\ call = NewCall
    BY <2>1 DEF PageInv, Gates
  <2>3. \/ page' \in {"REVIEW", "CALL"} /\ device' = device
        \/ page' = "ROOM" /\ device' = CheckingDevice
    BY <1>1 DEF GateAnswers, OpenRoom
  <2> QED BY <2>1, <2>2, <2>3, PageTypes DEF PageInv
<1>2. CASE SocketConnects \/ SocketDrops \/ ReconnectTimer
  BY <1>0, <1>2 DEF SocketConnects, SocketDrops, ReconnectTimer, mediaVars
<1>3. CASE RoomPoll \/ ToggleReady \/ Enter
  <2>1. page = "ROOM" /\ page' = page /\ device' = device /\ call' = call
    BY <1>3 DEF RoomPoll, ToggleReady, Enter, mediaVars
  <2>2. room' \in Rooms
    BY <1>3 DEF RoomPoll, ToggleReady, RoomOffers, Enter, PageInv, Rooms
  <2> QED BY <2>1, <2>2, StaysOnPage DEF PageInv
<1>4. CASE RoomPollAnswers
  <2>1. [room EXCEPT !.poll = "NONE"] \in Rooms
    BY DEF PageInv, Rooms
  <2> QED BY <1>4, <2>1, SeesOnPage DEF RoomPollAnswers
<1>5. CASE ToggleServed
  <2> DEFINE mine == room.toggle = "MARK"
             ready == mine /\ server.peer
             r == [room EXCEPT !.toggle = IF ready THEN "DONE_READY" ELSE "DONE"]
  <2>1. r \in Rooms /\ ready \in BOOLEAN
    BY DEF PageInv, Rooms, Servers
  <2>2. /\ page = "ROOM" /\ page' = page /\ call' = call
        /\ Sees(r, ready) \/ (room' = r /\ device' = device)
    BY <1>5 DEF ToggleServed
  <2> HIDE DEF ready, r
  <2>3. CASE Sees(r, ready)
    BY <2>1, <2>2, <2>3, SeesOnPage
  <2>4. CASE room' = r /\ device' = device
    BY <2>1, <2>2, <2>4, StaysOnPage DEF PageInv
  <2> QED BY <2>2, <2>3, <2>4
<1>6. ASSUME NEW yes \in BOOLEAN, ToggleAnswers(yes) PROVE PageInv'
  <2> DEFINE r == [room EXCEPT !.toggle = "NONE", !.mine = ~@]
             s == [room EXCEPT !.toggle = "NONE"]
             ready == room.toggle = "DONE_READY"
  <2>1. r \in Rooms /\ s \in Rooms /\ ready \in BOOLEAN
    BY DEF PageInv, Rooms
  <2>2. /\ page = "ROOM" /\ page' = page /\ call' = call
        /\ Sees(r, ready) \/ (room' = s /\ device' = device)
    BY <1>6 DEF ToggleAnswers
  <2> HIDE DEF ready, r, s
  <2>3. CASE Sees(r, ready)
    BY <2>1, <2>2, <2>3, SeesOnPage
  <2>4. CASE room' = s /\ device' = device
    BY <2>1, <2>2, <2>4, StaysOnPage DEF PageInv
  <2> QED BY <2>2, <2>3, <2>4
<1>7. CASE LeaveRoom
  <2>1. CASE Leave("HOME")
    BY <2>1, LeavesNothing
  <2>2. CASE /\ page = "ROOM" /\ page' = page /\ device' = device /\ call' = call
             /\ room' = [room EXCEPT !.toggle = "LEAVE"]
    <3>1. room' \in Rooms
      BY <2>2 DEF PageInv, Rooms
    <3> QED BY <2>2, <3>1, StaysOnPage DEF PageInv
  <2> QED BY <1>7, <2>1, <2>2 DEF LeaveRoom, mediaVars
<1>8. ASSUME NEW yes \in BOOLEAN, LeaveRoomAnswers(yes) \/ EndCall(yes) PROVE PageInv'
  BY <1>8, LeavesNothing DEF LeaveRoomAnswers, EndCall
<1>9. CASE EnterFails
  <2>1. /\ page' = page /\ device' = device /\ call' = call /\ page \in {"ROOM", "HOME"}
        /\ room' = [room EXCEPT !.entering = FALSE]
    BY <1>9 DEF EnterFails, mediaVars
  <2>2. room' \in Rooms /\ ~room'.entering
    BY <2>1 DEF PageInv, Rooms
  <2>3. page = "HOME" => room' \in Waiting
    <3>1. page = "HOME" => room \in {NewRoom, [NewRoom EXCEPT !.entering = TRUE]}
      BY DEF PageInv, Waiting
    <3>2. room' = [poll |-> room'.poll, view |-> room'.view, mine |-> room'.mine,
                   toggle |-> room'.toggle, entering |-> room'.entering]
      BY <2>2 DEF Rooms
    <3>3. page = "HOME" => room'.poll = "NONE" /\ ~room'.view /\ ~room'.mine
                           /\ room'.toggle = "NONE" /\ ~room'.entering
      BY <2>1, <3>1 DEF NewRoom
    <3>4. room'.view \in BOOLEAN /\ room'.mine \in BOOLEAN /\ room'.entering \in BOOLEAN
      BY <2>2 DEF Rooms
    <3>5. page = "HOME" => room' = NewRoom
      BY <3>2, <3>3, <3>4 DEF NewRoom
    <3> QED BY <3>5, PageTypes
  <2> QED BY <2>1, <2>2, <2>3 DEF PageInv
<1>10. CASE EnterAnswers
  <2>1. /\ room' = NewRoom /\ call' = call /\ page \in {"ROOM", "HOME"}
        /\ \/ page' = "GATE_CALL" /\ page = "HOME" /\ device' = device
           \/ page' = "CALL" /\ device' = NoDevice
    BY <1>10 DEF EnterAnswers
  <2> QED BY <2>1, PageTypes DEF PageInv, Gates
<1>11. CASE CallPoll \/ CallPollFails
  <2>1. page = "CALL" /\ page' = page /\ device' = device /\ room' = room
    BY <1>11 DEF CallPoll, CallPollFails, mediaVars
  <2>2. call' \in Calls
    BY <1>11 DEF CallPoll, CallPollFails, PageInv, Calls
  <2> QED BY <2>1, <2>2, StaysOnPage DEF PageInv
<1>12. CASE CallPollAnswers
  <2>1. CASE Leave("REVIEW")
    BY <1>12, <2>1, LeavesNothing DEF CallPollAnswers
  <2>2. CASE /\ page = "CALL" /\ page' = page /\ device' = device /\ room' = room
             /\ call' = Answered
    <3>1. call' \in Calls
      BY <2>2 DEF PageInv, Calls, Answered, Started, CanStart, AllReady
    <3> QED BY <2>2, <3>1, StaysOnPage DEF PageInv
  <2> QED BY <1>12, <2>1, <2>2 DEF CallPollAnswers, mediaVars
<1>13. ASSUME NEW yes \in BOOLEAN, PeerReadies(yes) PROVE PageInv'
  <2> DEFINE ready == yes /\ server.mine
  <2>1. /\ page' = page /\ call' = call /\ ready \in BOOLEAN /\ room \in Rooms
        /\ \/ page = "ROOM" /\ Sees(room, ready)
           \/ room' = room /\ device' = device
    BY <1>13 DEF PeerReadies, Announce, Servers, PageInv
  <2> HIDE DEF ready
  <2>2. CASE page = "ROOM" /\ Sees(room, ready)
    BY <2>1, <2>2, SeesOnPage
  <2>3. CASE room' = room /\ device' = device
    BY <1>0, <2>1, <2>3
  <2> QED BY <2>1, <2>2, <2>3
<1>14. CASE MediaStep
  BY <1>0, <1>14, MediaStepHook DEF MediaStep
<1>15. CASE DeviceStep
  <2>1. page = "ROOM" /\ page' = page /\ room' = room /\ call' = call
    BY <1>15 DEF DeviceStep
  <2>2. device' \in Devices /\ (device'.held => device'.passed)
    <3>1. ASSUME NEW granted \in BOOLEAN, DeviceAnswers(granted)
          PROVE  device' \in Devices /\ (device'.held => device'.passed)
      BY <3>1 DEF DeviceAnswers, Devices
    <3>2. ASSUME DeviceRetry
          PROVE  device' \in Devices /\ (device'.held => device'.passed)
      BY <3>2, PageTypes DEF DeviceRetry
    <3> QED BY <1>15, <3>1, <3>2 DEF DeviceStep
  <2> QED BY <2>1, <2>2, StaysOnPage DEF PageInv
<1>16. CASE ServerEnds
  <2>1. CASE page = "CALL" /\ Leave("REVIEW")
    BY <2>1, LeavesNothing
  <2> QED BY <1>0, <1>16, <2>1 DEF ServerEnds, mediaVars
<1>17. CASE UNCHANGED vars
  BY <1>0, <1>17 DEF vars, mediaVars
<1> QED BY <1>1, <1>2, <1>3, <1>4, <1>5, <1>6, <1>7, <1>8, <1>9, <1>10, <1>11, <1>12,
           <1>13, <1>14, <1>15, <1>16, <1>17 DEF Next

\* The server's session is one, whatever order its answers arrive in.
LEMMA NextServer == server \in Servers /\ [Next]_vars => server' \in Servers
<1> SUFFICES ASSUME server \in Servers, [Next]_vars PROVE server' \in Servers
  OBVIOUS
<1>1. CASE UNCHANGED server
  BY <1>1
<1>2. CASE \/ ToggleServed \/ CallPollAnswers \/ ServerEnds
  BY <1>2 DEF ToggleServed, CallPollAnswers, ServerEnds, Servers, Open
<1>3. ASSUME NEW yes \in BOOLEAN, LeaveRoomAnswers(yes) \/ EndCall(yes) \/ PeerReadies(yes)
      PROVE  server' \in Servers
  BY <1>3 DEF LeaveRoomAnswers, EndCall, PeerReadies, Servers
<1>4. CASE MediaStep
  <2>1. Report(media, media') \in {"CONNECTED", "RECONNECTING"}
    BY DEF Report, Servers
  <2>2. server' = [server EXCEPT !.link = Report(media, media')]
    BY <1>4 DEF MediaStep
  <2> QED BY <2>1, <2>2 DEF Servers
<1>5. ASSUME NEW yes \in BOOLEAN,
             \/ GateAnswers(yes) \/ SocketConnects \/ SocketDrops \/ ReconnectTimer
             \/ RoomPoll \/ RoomPollAnswers \/ ToggleReady \/ LeaveRoom \/ Enter \/ EnterFails
             \/ EnterAnswers \/ CallPoll \/ CallPollFails \/ ToggleAnswers(yes)
             \/ DeviceStep \/ UNCHANGED vars
      PROVE  UNCHANGED server
  BY <1>5 DEF GateAnswers, SocketConnects, SocketDrops, ReconnectTimer, RoomPoll,
              RoomPollAnswers, ToggleReady, LeaveRoom, Enter, EnterFails, EnterAnswers,
              CallPoll, CallPollFails, ToggleAnswers, DeviceStep, vars
<1> QED BY <1>1, <1>2, <1>3, <1>4, <1>5 DEF Next

\* Every part of the session keeps its type, whatever answers late: a page that was
\* left has no socket, no run and no camera under check, and only the room that the
\* current run joined has told the session its number.
THEOREM SessionPagesTypes == Spec => []TypeOK
<1> DEFINE Inv == RoomInv /\ HookInv /\ SocketInv /\ PageInv /\ server \in Servers
<1>1. Init => Inv
  <2> SUFFICES ASSUME Init PROVE Inv
    OBVIOUS
  <2>1. SocketInv
    BY DEF Init, SocketInv, Sockets, SocketOK, NoSocket
  <2>2. PageInv
    BY PageTypes DEF Init, MediaInit, PageInv
  <2>3. server \in Servers
    <3>1. ASSUME NEW status \in Open \cup {"ENDED"}, NEW mine \in BOOLEAN, NEW peer \in BOOLEAN
          PROVE  Found(status, mine, peer) \in Servers
      BY DEF Found, Servers
    <3> QED BY <3>1 DEF Init, Open
  <2> QED BY <2>1, <2>2, <2>3, InitRooms, InitHook
<1>2. Inv /\ [Next]_vars => Inv'
  BY NextRooms, NextHook, NextSocket, NextPage, NextServer
<1>3. Inv => TypeOK
  <2> SUFFICES ASSUME Inv PROVE TypeOK
    OBVIOUS
  <2>1. MediaTypeOK
    BY DEF RoomInv, HookInv, Hook, PageInv, Devices, MediaTypeOK
  <2>2. server.status \in Open \cup {"ENDED"} /\ server.link \in {"CONNECTED", "RECONNECTING"}
        /\ server.mine \in BOOLEAN /\ server.peer \in BOOLEAN
    BY DEF Servers
  <2>3. /\ room.poll \in {"NONE", "READY", "NOT_READY"}
        /\ room.toggle \in {"NONE", "MARK", "CANCEL", "LEAVE", "DONE", "DONE_READY", "FAILED"}
        /\ call.poll \in {"NONE", "ENDED", "START", "RUNNING", "OTHER"}
        /\ call.running \in BOOLEAN
    BY DEF PageInv, Rooms, Calls
  <2> QED BY <2>1, <2>2, <2>3 DEF TypeOK, SocketInv, RoomInv, PageInv, Waiting
<1> HIDE DEF Inv
<1> QED BY <1>1, <1>2, <1>3, PTL DEF Spec
============================================================================
