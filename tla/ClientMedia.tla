---------------------------- MODULE ClientMedia ----------------------------
(***************************************************************************)
(* The user's camera and LiveKit room in the browser: useLiveKitRoom, whose *)
(* effect starts a room of its own each time it runs, and useDeviceCheck,  *)
(* which holds the camera while the waiting room checks it.                *)
(*                                                                         *)
(* A run is one execution of the effect.  What its start() awaits goes on  *)
(* after the cleanup of the run, which only sets "cancelled".              *)
(***************************************************************************)
EXTENDS Integers

CONSTANT MaxRuns      \* bound on the executions of the effect

ASSUME MaxRunsAssumption == MaxRuns \in Nat

Runs == 1..MaxRuns
NoRun == 0

Stages == {"IDLE", "PROBING", "TOKEN", "CONNECTING", "PUBLISHING", "IN", "OVER"}
Links == {"OUT", "JOINING", "UP", "RECONNECTING"}
States == {"connecting", "connected", "unstable", "reconnecting", "disconnected"}

VARIABLES
  media,    \* [run, next, state, denied, sid]: the hook's state
  starts,   \* [Runs -> Stages]: what the start() of each run awaits
  rooms,    \* [Runs -> Links]: the LiveKit room of each run
  device    \* [pending, held, passed]: the camera and microphone under check

mediaVars == <<media, starts, rooms, device>>

NewMedia == [run |-> NoRun, next |-> 1, state |-> "connecting", denied |-> FALSE,
             sid |-> NoRun]
NoDevice == [pending |-> FALSE, held |-> FALSE, passed |-> FALSE]

MediaTypeOK ==
  /\ media.run \in Runs \cup {NoRun}
  /\ media.next \in 1..MaxRuns + 1 /\ media.run < media.next
  /\ media.state \in States
  /\ media.denied \in BOOLEAN
  /\ media.sid \in {NoRun, media.run}
  /\ starts \in [Runs -> Stages] /\ rooms \in [Runs -> Links]
  /\ \A r \in Runs : (starts[r] = "IDLE") = (r >= media.next)
  /\ device \in [pending : BOOLEAN, held : BOOLEAN, passed : BOOLEAN]
  /\ device.held => device.passed

MediaInit ==
  /\ media = NewMedia
  /\ starts = [r \in Runs |-> "IDLE"]
  /\ rooms = [r \in Runs |-> "OUT"]
  /\ device = NoDevice

Cancelled(r) == r # media.run

\* The hook is unmounted, which cleans up the current run: its room is left and
\* nothing more is heard.
WithoutRun == [NewMedia EXCEPT !.next = media.next]
Cleanup ==
  /\ media' = WithoutRun
  /\ rooms' = [r \in Runs |-> IF r = media.run THEN "OUT" ELSE rooms[r]]

\* The effect runs: a new room, and start() asks for the camera.
Start(m) ==
  /\ m.next \in Runs
  /\ media' = [m EXCEPT !.run = m.next, !.next = @ + 1]
  /\ starts' = [starts EXCEPT ![m.next] = "PROBING"]

Moves(r, stage) == starts' = [starts EXCEPT ![r] = stage]
Joins(r, link) == rooms' = [rooms EXCEPT ![r] = link]

\* blockForMedia(): without the permission nobody stays in the room.
Blocked == [media EXCEPT !.denied = TRUE, !.state = "disconnected"]

----------------------------------------------------------------------------
(* start(), from one await to the next. *)

ProbeAnswers(r, granted) ==
  /\ starts[r] = "PROBING"
  /\ Moves(r, IF Cancelled(r) \/ ~granted THEN "OVER" ELSE "TOKEN")
  /\ media' = IF Cancelled(r) \/ granted THEN media ELSE Blocked
  /\ UNCHANGED <<rooms, device>>

\* Mutant of TokenArrives: a cancelled run goes on.
TokenArrivesAnyway(r, ok) ==
  /\ starts[r] = "TOKEN"
  /\ Moves(r, IF ok THEN "CONNECTING" ELSE "OVER")
  /\ Joins(r, IF ok THEN "JOINING" ELSE "OUT")
  /\ media' = [media EXCEPT !.state = IF ok THEN "connecting" ELSE "disconnected"]
  /\ UNCHANGED device

TokenArrives(r, ok) ==
  /\ starts[r] = "TOKEN"
  /\ Moves(r, IF Cancelled(r) \/ ~ok THEN "OVER" ELSE "CONNECTING")
  /\ Joins(r, IF Cancelled(r) \/ ~ok THEN "OUT" ELSE "JOINING")
  /\ media' = IF Cancelled(r) THEN media
              ELSE IF ok THEN [media EXCEPT !.state = "connecting"]
              ELSE [media EXCEPT !.state = "disconnected"]
  /\ UNCHANGED device

\* A room that was left in the meantime does not connect any more.
ConnectAnswers(r, ok) ==
  /\ starts[r] = "CONNECTING" /\ (ok => rooms[r] = "JOINING")
  /\ Moves(r, IF ok THEN "PUBLISHING" ELSE "OVER")
  /\ Joins(r, IF ok THEN "UP" ELSE "OUT")
  /\ media' = IF Cancelled(r) THEN media
              ELSE IF ok THEN [media EXCEPT !.state = "connected", !.sid = r]
              ELSE [media EXCEPT !.state = "disconnected"]
  /\ UNCHANGED device

\* The microphone and the camera are switched on.
PublishAnswers(r, ok) ==
  /\ starts[r] = "PUBLISHING" /\ (ok => rooms[r] # "OUT")
  /\ Moves(r, IF ok THEN "IN" ELSE "OVER")
  /\ IF ok \/ Cancelled(r) THEN UNCHANGED <<media, rooms>>
     ELSE media' = Blocked /\ Joins(r, "OUT")
  /\ UNCHANGED device

\* The user revokes the permission in the browser's settings, which start()
\* watches once it was granted.
PermissionRevoked ==
  /\ media.run # NoRun /\ starts[media.run] # "PROBING" /\ ~media.denied
  /\ media' = Blocked
  /\ Joins(media.run, "OUT")
  /\ UNCHANGED <<starts, device>>

\* The room's own events, heard by the current run only.
LinkChanges(from, to, state) ==
  /\ media.run # NoRun /\ rooms[media.run] = from
  /\ Joins(media.run, to)
  /\ media' = [media EXCEPT !.state = state]
  /\ UNCHANGED <<starts, device>>

\* retry(), which the screen offers when the permission was missing.
Retry ==
  /\ media.run # NoRun /\ media.denied
  /\ Start(WithoutRun)
  /\ Joins(media.run, "OUT")
  /\ UNCHANGED device

----------------------------------------------------------------------------
(* useDeviceCheck. *)

CheckingDevice == [NoDevice EXCEPT !.pending = TRUE]
Released(d) == [d EXCEPT !.held = FALSE]

DeviceAnswers(granted) ==
  /\ device.pending
  /\ device' = [pending |-> FALSE, held |-> granted, passed |-> granted]
  /\ UNCHANGED <<media, starts, rooms>>

\* "Check again", offered after an error.
DeviceRetry ==
  /\ ~device.pending /\ ~device.passed
  /\ device' = CheckingDevice
  /\ UNCHANGED <<media, starts, rooms>>
============================================================================
