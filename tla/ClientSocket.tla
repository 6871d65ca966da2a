---------------------------- MODULE ClientSocket ---------------------------
(***************************************************************************)
(* StompSocket: the one WebSocket a page shares among its subscriptions.   *)
(* The subscriptions outlive a connection; what the server serves does not. *)
(* A page acquires the socket when it is mounted and releases it when it   *)
(* goes, which closes it: no two pages are mounted at once.                *)
(***************************************************************************)
EXTENDS FiniteSets

NoSocket == [state |-> "idle", ws |-> "NONE", timer |-> FALSE, wanted |-> {}, served |-> {}]

SocketOK(s) ==
  /\ s.state \in {"idle", "connecting", "connected", "reconnecting", "closed"}
  /\ s.ws \in {"NONE", "OPENING", "OPEN"}
  /\ s.timer => s.ws = "NONE" /\ s.state = "reconnecting"
  /\ s.state = "connected" => s.ws = "OPEN"
  /\ s.served \subseteq s.wanted

\* acquireStomp() and the page's subscriptions, made before it is connected.
Acquired(topics) ==
  [NoSocket EXCEPT !.state = "connecting", !.ws = "OPENING", !.wanted = topics]

\* The CONNECTED frame: every subscription is sent again.
Connected(s) ==
  [s EXCEPT !.state = "connected", !.ws = "OPEN", !.served = s.wanted]

\* onclose: the server forgets the connection, and a timer opens the next one.
Dropped(s) ==
  [s EXCEPT !.state = "reconnecting", !.ws = "NONE", !.served = {}, !.timer = TRUE]

Reopened(s) == [s EXCEPT !.ws = "OPENING", !.timer = FALSE]

\* Whether a message of the server on a topic arrives.
Hears(s, topic) == s.state = "connected" /\ topic \in s.served
============================================================================
