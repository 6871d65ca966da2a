---------------------------- MODULE ClientMatch ----------------------------
(***************************************************************************)
(* Being matched, as the browser sees it: the track page on which one      *)
(* registers, the queue page and the card page, which both ask the server  *)
(* every few seconds and whose answers overtake one another, and the       *)
(* requests of the buttons.  What the server does with a request and a     *)
(* pair is module Matching; here it is what the user's own rows may do.    *)
(***************************************************************************)
EXTENDS Naturals, FiniteSets

CONSTANTS
  MaxPairs,   \* bound on the pairs the user is in
  MaxPolls    \* bound on the polls in flight

ASSUME MatchAssumption == {MaxPairs, MaxPolls} \subseteq Nat

VARIABLES
  mine,     \* the server: [request, pair, status, accepted, peer]
  page,     \* where the user is: [at, pair, status, accepted, setup]
  polls,    \* the polls in flight: [by, served, request, pair, status, accepted]
  asked     \* the request of a button: [kind, pair, answer, shown]

matchVars == <<mine, page, polls, asked>>

Active == {"WAITING", "MATCH_FOUND", "CONFIRMED"}   \* requests of me/current
NoPair == [pair |-> 0, status |-> "NONE", accepted |-> FALSE]
NotAsked == [kind |-> "NONE", pair |-> 0, answer |-> "NONE", shown |-> NoPair]
Asks(at) == [by |-> at, served |-> FALSE, request |-> "NONE", pair |-> NoPair]
Unmatched == [request |-> "NONE", pair |-> NoPair, peer |-> FALSE]
AtTrack == [at |-> "TRACK", pair |-> NoPair, setup |-> FALSE]

Pairs == [pair : 0..MaxPairs, status : {"NONE", "PENDING_ACCEPTANCE", "CONFIRMED"},
          accepted : BOOLEAN]

MatchTypeOK ==
  /\ mine.request \in Active \cup {"NONE"} /\ mine.pair \in Pairs /\ mine.peer \in BOOLEAN
  /\ mine.request \in {"MATCH_FOUND", "CONFIRMED"} => mine.pair.status # "NONE"
  /\ page.at \in {"TRACK", "QUEUE", "CARD", "ELSEWHERE"} /\ page.pair \in Pairs
  /\ page.setup => page.at = "TRACK"
  /\ \A p \in polls : p.by \in {"QUEUE", "CARD"} /\ p.pair \in Pairs /\ p.served \in BOOLEAN
  /\ Cardinality(polls) <= MaxPolls
  /\ asked.kind \in {"NONE", "CREATE", "UPDATE", "LEAVE", "ACCEPT", "REJECT", "CANCEL"}
  /\ asked.answer \in {"NONE", "OK", "REFUSED"} /\ asked.pair \in 0..MaxPairs

MatchIdle == mine = Unmatched /\ page = AtTrack /\ polls = {} /\ asked = NotAsked
MatchInit == MatchIdle

----------------------------------------------------------------------------
(* The server, as far as the user's own rows go. *)

MatchFound ==
  /\ mine.request = "WAITING" /\ mine.pair.pair < MaxPairs
  /\ mine' = [request |-> "MATCH_FOUND", peer |-> FALSE,
              pair |-> [pair |-> mine.pair.pair + 1, status |-> "PENDING_ACCEPTANCE",
                        accepted |-> FALSE]]
  /\ UNCHANGED <<page, polls, asked>>

Confirmed(m) == [m EXCEPT !.request = "CONFIRMED", !.pair.status = "CONFIRMED"]
PairOver(m, request) == [m EXCEPT !.request = request, !.pair.status = "NONE"]

PeerAccepts ==
  /\ mine.pair.status = "PENDING_ACCEPTANCE" /\ ~mine.peer
  /\ mine' = IF mine.pair.accepted THEN Confirmed([mine EXCEPT !.peer = TRUE])
                                   ELSE [mine EXCEPT !.peer = TRUE]
  /\ UNCHANGED <<page, polls, asked>>

\* The peer rejects or cancels, the deadline passes, or the date is over.
PairEnds ==
  /\ mine.pair.status # "NONE"
  /\ \E request \in {"WAITING", "NONE"} : mine' = PairOver(mine, request)
  /\ UNCHANGED <<page, polls, asked>>

Serves(kind, result) ==
  /\ asked.kind = kind /\ asked.answer = "NONE"
  /\ mine' = result
  /\ asked' = [asked EXCEPT !.answer = "OK",
                            !.shown = IF kind = "ACCEPT" THEN result.pair ELSE @]

Current == asked.pair = mine.pair.pair /\ mine.pair.status = "PENDING_ACCEPTANCE"
Accepted == [mine EXCEPT !.pair.accepted = TRUE]

AskServed ==
  /\ \/ mine.request = "NONE" /\ Serves("CREATE", [mine EXCEPT !.request = "WAITING"])
     \/ mine.request = "WAITING" /\ Serves("UPDATE", mine)
     \/ mine.request = "WAITING" /\ Serves("LEAVE", [mine EXCEPT !.request = "NONE"])
     \/ Current /\ ~mine.pair.accepted
        /\ Serves("ACCEPT", IF mine.peer THEN Confirmed(Accepted) ELSE Accepted)
     \/ Current /\ ~mine.pair.accepted /\ Serves("REJECT", PairOver(mine, "NONE"))
     \/ asked.pair = mine.pair.pair /\ mine.pair.status = "CONFIRMED"
        /\ Serves("CANCEL", PairOver(mine, "NONE"))
  /\ UNCHANGED <<page, polls>>

AskRefused ==
  /\ asked.kind # "NONE" /\ asked.answer = "NONE"
  /\ asked' = [asked EXCEPT !.answer = "REFUSED"]
  /\ UNCHANGED <<mine, page, polls>>

\* getCurrent(): of the requests the active one, of the pairs the live one.
PollServed ==
  /\ \E p \in polls :
       /\ ~p.served
       /\ polls' = (polls \ {p}) \cup
            {[p EXCEPT !.served = TRUE, !.request = mine.request,
                       !.pair = IF mine.pair.status = "NONE" THEN NoPair ELSE mine.pair]}
  /\ UNCHANGED <<mine, page, asked>>

----------------------------------------------------------------------------
(* The pages. *)

\* Both pages ask when they open and every few seconds, whether they were answered
\* or not.
Poll ==
  /\ page.at \in {"QUEUE", "CARD"} /\ Cardinality(polls) < MaxPolls
  /\ polls' = polls \cup {Asks(page.at)}
  /\ UNCHANGED <<mine, page, asked>>

\* Mutant of Matched: a pair that is not confirmed yet is waited out.
MatchedConfirmed(request) == request = "CONFIRMED"

\* QueueStatus.matched
Matched(request) == request \notin {"WAITING", "NONE"}

At(where) == [page EXCEPT !.at = where, !.setup = FALSE]
Card(pair) == [page EXCEPT !.pair = pair]

\* load() of the queue page navigates, whether the page is still open or not.
QueueShown(p) ==
  CASE p.request = "NONE" -> At("TRACK")
    [] Matched(p.request) -> At("CARD")
    [] OTHER -> page

\* load() of the card page shows the pair.
CardShown(p) == IF page.at = "CARD" THEN Card(p.pair) ELSE page

PollAnswers(p) ==
  /\ p \in polls /\ p.served
  /\ polls' = polls \ {p}
  /\ page' = IF p.by = "CARD" THEN CardShown(p) ELSE QueueShown(p)
  /\ UNCHANGED <<mine, asked>>

PollFails(p) ==
  /\ p \in polls
  /\ polls' = polls \ {p}
  /\ UNCHANGED <<mine, page, asked>>

Ask(kind, pair) ==
  /\ asked = NotAsked
  /\ asked' = [NotAsked EXCEPT !.kind = kind, !.pair = pair]
  /\ UNCHANGED <<mine, polls>>

OpenSetup ==
  /\ page.at = "TRACK" /\ ~page.setup
  /\ page' = [page EXCEPT !.setup = TRUE]
  /\ UNCHANGED <<mine, polls, asked>>

\* The card and its buttons: once accepted the answer stands, and only a confirmed
\* pair can be called off.
CardOffers ==
  IF page.at # "CARD" \/ page.pair.status = "NONE" THEN {}
  ELSE IF page.pair.status = "CONFIRMED" THEN {"CANCEL"}
  ELSE IF page.pair.accepted THEN {}
  ELSE {"ACCEPT", "REJECT"}

\* The buttons of the pages.
SubmitQueue == page.at = "TRACK" /\ page.setup /\ Ask("CREATE", 0)
HandleRelax == page.at = "QUEUE" /\ Ask("UPDATE", 0)
HandleLeave == page.at = "QUEUE" /\ Ask("LEAVE", 0)
Respond == \E kind \in CardOffers \ {"CANCEL"} : Ask(kind, page.pair.pair)
HandleCancel == "CANCEL" \in CardOffers /\ Ask("CANCEL", page.pair.pair)
Press ==
  /\ SubmitQueue \/ HandleRelax \/ HandleLeave \/ Respond \/ HandleCancel
  /\ UNCHANGED page

\* Where an answer takes the user, and what the card shows then.
After(kind) ==
  CASE kind = "CREATE" -> At("QUEUE")
    [] kind \in {"LEAVE", "REJECT"} -> At("TRACK")
    [] kind = "CANCEL" -> At("ELSEWHERE")
    [] kind = "ACCEPT" /\ page.at = "CARD" -> Card(asked.shown)
    [] OTHER -> page

\* A refused answer or cancellation is followed by another look.
AskAnswers ==
  /\ asked.answer # "NONE"
  /\ asked' = NotAsked
  /\ page' = IF asked.answer = "OK" THEN After(asked.kind) ELSE page
  /\ polls' = IF asked.answer = "REFUSED" /\ page.at = "CARD" /\ Cardinality(polls) < MaxPolls
              THEN polls \cup {Asks("CARD")}
              ELSE polls
  /\ UNCHANGED mine

\* The user goes elsewhere, or comes back by the link of a notification.
Walk ==
  /\ \E where \in {"TRACK", "QUEUE", "CARD", "ELSEWHERE"} :
       page' = [At(where) EXCEPT !.pair = NoPair]
  /\ UNCHANGED <<mine, polls, asked>>

MatchNext ==
  \/ MatchFound \/ PeerAccepts \/ PairEnds \/ AskServed \/ AskRefused \/ PollServed
  \/ Poll \/ OpenSetup \/ Press \/ AskAnswers \/ Walk
  \/ \E p \in polls : PollAnswers(p) \/ PollFails(p)

\* The pages' timers run, and not every question and not every answer is lost.
MatchFairness ==
  /\ WF_matchVars(Poll) /\ SF_matchVars(PollServed)
  /\ SF_matchVars(\E p \in polls : PollAnswers(p))

----------------------------------------------------------------------------
(* Properties. *)

\* The user stays on the queue page while there is a pair to answer.
PairUnnoticed == page.at = "QUEUE" /\ mine.request \in {"MATCH_FOUND", "CONFIRMED"}
============================================================================
