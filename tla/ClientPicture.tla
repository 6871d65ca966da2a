---------------------------- MODULE ClientPicture ---------------------------
(***************************************************************************)
(* What the two browsers tell each other of their cameras and connections  *)
(* by way of the server's session topic (useSessionRealtime): the picture  *)
(* a page has of the peer, and what it reports of itself.  Nothing is read *)
(* again after the socket was down: an event of that time is lost.         *)
(***************************************************************************)
EXTENDS Naturals, Sequences

CONSTANTS
  MaxNews,   \* bound on the events under way
  BeatInterval  \* HEARTBEAT_INTERVAL_MS, in ticks

ASSUME PictureAssumption == MaxNews \in Nat /\ BeatInterval \in Nat \ {0}

VARIABLES
  wire,      \* [up, sid]: the socket, and whether LiveKit gave a participant SID
  news,      \* the events of the participants topic under way
  peer,      \* the peer as the server knows it: [link, camera]
  picture,   \* the peer as the page has it
  current,   \* the fields whose last event reached the page
  own,       \* [link, camera]: the page's own
  reported,  \* [quality, camera]: what the page sent last
  beat       \* ticks since the last heartbeat

pictureVars == <<wire, news, peer, picture, current, own, reported, beat>>

PeerFields == {"link", "camera"}
Cameras == {"on", "off"}
PeerLinks == {"CONNECTED", "RECONNECTING"}
MyLinks == {"connected", "unstable", "reconnecting", "disconnected"}

\* The two kinds of event: a change of the connection carries the media as well.
ConnectionEvent == PeerFields
MediaEvent == {"camera"}

PictureTypeOK ==
  /\ wire \in [up : BOOLEAN, sid : BOOLEAN]
  /\ peer \in [link : PeerLinks, camera : Cameras]
  /\ picture \in [link : PeerLinks \cup {"UNSEEN"}, camera : Cameras \cup {"UNSEEN"}]
  /\ current \subseteq PeerFields
  /\ own \in [link : MyLinks, camera : Cameras]
  /\ Len(news) <= MaxNews /\ (news # <<>> => wire.up)
  /\ beat \in 0..BeatInterval

PictureIdle ==
  /\ wire = [up |-> FALSE, sid |-> FALSE] /\ news = <<>>
  /\ peer = [link |-> "CONNECTED", camera |-> "on"]
  /\ picture = [link |-> "UNSEEN", camera |-> "UNSEEN"] /\ current = {}
  /\ own = [link |-> "connected", camera |-> "on"]
  /\ reported = [quality |-> "NONE", camera |-> "NONE"] /\ beat = 0
PictureInit == PictureIdle

----------------------------------------------------------------------------
(* Reporting: effects that run when what they read has changed. *)

ToNetworkQuality(link) ==
  CASE link = "connected" -> "GOOD"
    [] link \in {"unstable", "reconnecting"} -> "POOR"
    [] link = "disconnected" -> "LOST"
CanReport(w) == w.up /\ w.sid
Report == [quality |-> ToNetworkQuality(own'.link), camera |-> own'.camera]

\* Mutant of Reporting: the effects follow the values, not the connection.
ReportingChanges ==
  /\ reported' = IF CanReport(wire') /\ own' # own THEN Report ELSE reported
  /\ beat' = 0

\* A connection that can report again is told everything, with a heartbeat.
Reporting ==
  /\ reported' = IF CanReport(wire') THEN Report ELSE reported
  /\ beat' = IF CanReport(wire') /\ CanReport(wire) THEN beat ELSE 0

\* The interval of the heartbeats.
Heartbeat ==
  /\ CanReport(wire)
  /\ beat' = (beat + 1) % BeatInterval
  /\ UNCHANGED <<wire, news, peer, picture, current, own, reported>>

MyLinkChanges ==
  /\ \E link \in MyLinks \ {own.link} : own' = [own EXCEPT !.link = link]
  /\ UNCHANGED wire /\ Reporting
  /\ UNCHANGED <<news, peer, picture, current>>

MyCameraToggles ==
  /\ own' = [own EXCEPT !.camera = IF @ = "on" THEN "off" ELSE "on"]
  /\ UNCHANGED wire /\ Reporting
  /\ UNCHANGED <<news, peer, picture, current>>

\* The SID comes and goes with the media room.
SidChanges ==
  /\ wire' = [wire EXCEPT !.sid = ~@]
  /\ UNCHANGED own /\ Reporting
  /\ UNCHANGED <<news, peer, picture, current>>

WireRises ==
  /\ ~wire.up
  /\ wire' = [wire EXCEPT !.up = TRUE]
  /\ UNCHANGED own /\ Reporting
  /\ UNCHANGED <<news, peer, picture, current>>

\* What was under way in either direction is lost.
WireFalls ==
  /\ wire.up
  /\ wire' = [wire EXCEPT !.up = FALSE]
  /\ news' = <<>>
  /\ current' = current \ UNION {DOMAIN news[i] : i \in DOMAIN news}
  /\ \/ UNCHANGED reported
     \/ reported' = [quality |-> "NONE", camera |-> "NONE"]
  /\ beat' = 0
  /\ UNCHANGED <<peer, picture, own>>

----------------------------------------------------------------------------
(* The picture of the peer. *)

\* The server publishes the change to whoever is subscribed.
PeerChanges(kind) ==
  /\ Len(news) < MaxNews
  /\ \E now \in [link : PeerLinks, camera : Cameras] :
       /\ now # peer /\ (kind = MediaEvent => now.link = peer.link)
       /\ peer' = now
       /\ news' = IF wire.up THEN Append(news, [f \in kind |-> now[f]]) ELSE news
  /\ current' = IF wire.up THEN current \cup kind ELSE current \ kind
  /\ UNCHANGED <<wire, picture, own, reported, beat>>

\* Mutant of NewsArrives: the event is taken for all that is known of the peer.
NewsReplaces ==
  /\ news # <<>>
  /\ news' = Tail(news)
  /\ picture' = [f \in PeerFields |-> IF f \in DOMAIN Head(news) THEN Head(news)[f] ELSE "UNSEEN"]
  /\ UNCHANGED <<wire, peer, current, own, reported, beat>>

\* An event is laid over what is known.
NewsArrives ==
  /\ news # <<>>
  /\ news' = Tail(news)
  /\ picture' = [f \in PeerFields |-> IF f \in DOMAIN Head(news) THEN Head(news)[f] ELSE picture[f]]
  /\ UNCHANGED <<wire, peer, current, own, reported, beat>>

PictureNext ==
  \/ Heartbeat \/ MyLinkChanges \/ MyCameraToggles \/ SidChanges
  \/ WireRises \/ WireFalls
  \/ PeerChanges(ConnectionEvent) \/ PeerChanges(MediaEvent) \/ NewsArrives

----------------------------------------------------------------------------
(* The two kinds of event share a topic, and each carries a part of the     *)
(* peer: once nothing is under way, every field of which no event was lost  *)
(* is as the server has it, whichever kind came last                        *)
(* (useSessionRealtime.ts, participants).                                   *)
PictureAgrees ==
  news = <<>> => \A f \in current : picture[f] = peer[f]

\* A page that can report has told the server its camera and its connection as they
\* are now, also what changed while it could not.
ReportsAreCurrent ==
  CanReport(wire) => reported = [quality |-> ToNetworkQuality(own.link), camera |-> own.camera]
=============================================================================
