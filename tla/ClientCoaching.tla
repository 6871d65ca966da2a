--------------------------- MODULE ClientCoaching --------------------------
(***************************************************************************)
(* What the session page lays over the conversation for its user alone: the *)
(* coaching cards of the coaching store, of which one is shown at a time,  *)
(* and the offer to go on for five minutes, whose answer is shown before   *)
(* the server has it.                                                      *)
(***************************************************************************)
EXTENDS Integers, Sequences, FiniteSets

CONSTANTS
  Ranks,        \* the priorities, as PRIORITY_RANK numbers them
  Ttls,         \* how long a card may be shown
  QueueLimit,   \* the cards the store keeps
  MaxCards,     \* bound on the cards that arrive
  MaxClock      \* bound on the clock

\* The queue has room, and there are three priorities.
ASSUME CoachAssumption ==
  /\ QueueLimit \in Nat \ {0} /\ {MaxCards, MaxClock} \subseteq Nat
  /\ Ranks \subseteq 1..3 /\ Ttls \subseteq Nat

VARIABLES
  clock,
  cards,    \* the store's queue, [id, rank, expires] each; the numbers are its order
  history,  \* the numbers of the cards that arrived, the newest first
  server,   \* the session's extension: [window, answer, agreed]
  offer     \* the page: [ticked, closed, choice, asked]

coachVars == <<clock, cards, history, server, offer>>

Windows == {"EARLY", "OPEN", "OVER"}

CoachTypeOK ==
  /\ clock \in 0..MaxClock
  /\ cards \subseteq [id : 1..Len(history), rank : Ranks, expires : Nat]
  /\ Cardinality(cards) <= QueueLimit /\ history \in Seq(1..MaxCards)
  /\ server.window \in Windows /\ server.answer \in {"NONE", "AGREE", "DECLINE"}
  /\ offer.choice \in {"pending", "accepted", "declined"}
  /\ offer.asked \in {"NONE", "SENT", "RECORDED", "REFUSED"}
  /\ offer.choice = "pending" => offer.asked = "NONE"

CoachIdle ==
  /\ clock = 0 /\ cards = {} /\ history = <<>>
  /\ server = [window |-> "OVER", answer |-> "NONE", agreed |-> FALSE]
  /\ offer = [ticked |-> FALSE, closed |-> FALSE, choice |-> "pending", asked |-> "NONE"]

CoachInit ==
  /\ clock = 0 /\ cards = {} /\ history = <<>>
  /\ server = [window |-> "EARLY", answer |-> "NONE", agreed |-> FALSE]
  /\ offer = [ticked |-> FALSE, closed |-> FALSE, choice |-> "pending", asked |-> "NONE"]

----------------------------------------------------------------------------
(* The coaching store. *)

Live(q, t) == {c \in q : c.expires > t}

\* Mutant of LastOf: one card too many is kept.
LastOfOneMore(q, n) == {c \in q : Cardinality({d \in q : d.id > c.id}) <= n}

\* The queue's last n cards.
LastOf(q, n) == {c \in q : Cardinality({d \in q : d.id > c.id}) < n}

\* pushMessage(): expired cards go, the newest are kept.
Push(rank, ttl) ==
  LET id == Len(history) + 1
      card == [id |-> id, rank |-> rank, expires |-> clock + ttl]
  IN /\ id <= MaxCards
     /\ cards' = LastOf(Live(cards, clock) \cup {card}, QueueLimit)
     /\ history' = <<id>> \o history
     /\ UNCHANGED <<clock, server, offer>>

Dismiss(id) ==
  /\ \E c \in cards : c.id = id
  /\ cards' = {c \in cards : c.id # id}
  /\ UNCHANGED <<clock, history, server, offer>>

\* The page prunes once a second.
Prune ==
  /\ clock < MaxClock
  /\ clock' = clock + 1
  /\ cards' = Live(cards, clock + 1)
  /\ UNCHANGED <<history, server, offer>>

NoCard == [id |-> 0, rank |-> 0, expires |-> 0]

\* Mutant of Before: of equally urgent cards the newest.
BeforeNewest(c, d) == c.rank > d.rank \/ (c.rank = d.rank /\ c.id > d.id)

\* Which of two cards is shown: the more urgent, and of equals the one that came first.
Before(c, d) == c.rank > d.rank \/ (c.rank = d.rank /\ c.id < d.id)

\* selectVisibleMessage(), of the live cards.
Visible(q, t) ==
  LET live == Live(q, t)
  IN IF live = {} THEN NoCard ELSE CHOOSE c \in live : \A d \in live \ {c} : Before(c, d)

----------------------------------------------------------------------------
(* The offer to go on. *)

\* SessionTimerService: the last tick the page heard decides what it shows.
Tick ==
  /\ offer' = [offer EXCEPT !.ticked = server.window = "OPEN"]
  /\ UNCHANGED <<clock, cards, history, server>>

WindowMoves ==
  /\ server.window # "OVER"
  /\ server' = [server EXCEPT !.window = IF @ = "EARLY" THEN "OPEN" ELSE "OVER"]
  /\ UNCHANGED <<clock, cards, history, offer>>

\* submitExtension(): the answer is shown before it is sent.
Decide(choice) ==
  /\ offer.ticked /\ ~offer.closed /\ offer.choice = "pending"
  /\ offer' = [offer EXCEPT !.choice = choice, !.asked = "SENT"]
  /\ UNCHANGED <<clock, cards, history, server>>

DecideServed ==
  /\ offer.asked = "SENT"
  /\ IF server.window = "OPEN"
     THEN /\ server' = [server EXCEPT !.answer = IF offer.choice = "accepted"
                                                 THEN "AGREE" ELSE "DECLINE"]
          /\ offer' = [offer EXCEPT !.asked = "RECORDED"]
     ELSE offer' = [offer EXCEPT !.asked = "REFUSED"] /\ UNCHANGED server
  /\ UNCHANGED <<clock, cards, history>>

\* Mutant of DecideAnswers: a failed answer stays on the screen.
DecideAnswersKeeping(arrives) ==
  /\ offer.asked \in {"SENT", "RECORDED", "REFUSED"} /\ (arrives => offer.asked # "SENT")
  /\ offer' = [offer EXCEPT !.asked = "NONE",
                            !.closed = @ \/ (arrives /\ offer.asked = "REFUSED")]
  /\ UNCHANGED <<clock, cards, history, server>>

\* Any error takes the answer back; a window that is not open closes the offer.
\* A request that did not arrive in time is not served any more.
DecideAnswers(arrives) ==
  /\ offer.asked \in {"SENT", "RECORDED", "REFUSED"} /\ (arrives => offer.asked # "SENT")
  /\ offer' = [offer EXCEPT !.asked = "NONE",
                            !.choice = IF arrives /\ offer.asked = "RECORDED" THEN @ ELSE "pending",
                            !.closed = @ \/ (arrives /\ offer.asked = "REFUSED")]
  /\ UNCHANGED <<clock, cards, history, server>>

\* The peer agreed as well: the offer is closed for good.
Agreed ==
  /\ server.answer = "AGREE" /\ ~server.agreed
  /\ server' = [server EXCEPT !.agreed = TRUE]
  /\ \E heard \in BOOLEAN : offer' = [offer EXCEPT !.closed = @ \/ heard]
  /\ UNCHANGED <<clock, cards, history>>

CoachNext ==
  \/ \E rank \in Ranks, ttl \in Ttls : Push(rank, ttl)
  \/ \E id \in 1..MaxCards : Dismiss(id)
  \/ Prune \/ Tick \/ WindowMoves
  \/ \E choice \in {"accepted", "declined"} : Decide(choice)
  \/ DecideServed \/ Agreed
  \/ \E arrives \in BOOLEAN : DecideAnswers(arrives)

----------------------------------------------------------------------------
(* Properties. *)

\* A card that is shown stays until it expires, is dismissed or, as the oldest one, falls
\* out of the queue, or a more urgent one arrives: what waits behind it does not push it
\* away.
ShownUntilOutranked ==
  [][LET shown == Visible(cards, clock)
         next == Visible(cards', clock')
     IN shown # NoCard /\ next # shown
        => \/ shown.expires <= clock'
           \/ shown \notin cards' /\ (history' = history \/ \A c \in cards' : c.id > shown.id)
           \/ next \in cards' \ cards /\ next.rank > shown.rank]_coachVars

\* An answer the page shows as given is one that the server has.
ShownAnswerIsRecorded ==
  offer.asked = "NONE" =>
    /\ offer.choice = "accepted" => server.answer = "AGREE"
    /\ offer.choice = "declined" => server.answer = "DECLINE"
============================================================================
