------------------------ MODULE ClientNotifications ------------------------
(***************************************************************************)
(* The bell: useNotifications, which keeps a list read page by page, and   *)
(* useNotificationStream, which adds what the server sends meanwhile.  The *)
(* list knows by their ids which notifications it has, for both sources    *)
(* may bring the same one.  Notifications are numbered by the server, and  *)
(* read from the newest to the oldest; a TOAST_ONLY one does not stay in   *)
(* the bell.  Of the list it matters how often it shows which              *)
(* notification, not in which order.  Which of them are marked as read, and *)
(* the number of those that are not, are left out, and with them marking a *)
(* single one; what a failing "read all" does to the list is not.          *)
(***************************************************************************)
EXTENDS Integers, Sequences

CONSTANTS
  MaxNotes,     \* bound on the notifications
  Fleeting,     \* those that are TOAST_ONLY
  PageSize,     \* of the list
  MaxLoads      \* bound on the reads of the list in flight

ASSUME NotesAssumption ==
  /\ MaxNotes \in Nat /\ PageSize \in Nat \ {0} /\ MaxLoads \in Nat \ {0}

Notes == 1..MaxNotes
Loads == 1..MaxLoads

VARIABLES
  made,     \* how many notifications the server has
  inbox,    \* [items, seen, cursor, more, loading]: how often the list shows each
            \* notification, the ids it knows, ...
  loads,    \* [Loads -> [kind, below, page]]: the reads of the list in flight
  marking,  \* [sent, items]: what a failure of "read all" puts back
  feed,     \* [state, tried, subscribed, wire]: the stream, and what is on its way
  stale     \* history: a failed "read all" put back a list, which was not read since

notesVars == <<made, inbox, loads, marking, feed, stale>>

NoCursor == 0
NoPage == [served |-> FALSE, ids |-> {}, next |-> NoCursor, more |-> FALSE]
NoLoad == [kind |-> "NONE", below |-> NoCursor, page |-> NoPage]
Listed(ids) == [n \in Notes |-> IF n \in ids THEN 1 ELSE 0]
EmptyInbox == [items |-> Listed({}), seen |-> {}, cursor |-> NoCursor, more |-> FALSE, loading |-> FALSE]
NotMarking == [sent |-> FALSE, items |-> Listed({})]
IdleFeed == [state |-> "idle", tried |-> FALSE, subscribed |-> FALSE, wire |-> <<>>]

NotesTypeOK ==
  /\ made \in 0..MaxNotes
  /\ inbox.items \in [Notes -> Nat] /\ \A n \in Notes \cap Fleeting : inbox.items[n] = 0
  /\ inbox.seen \subseteq Notes \ Fleeting
  /\ inbox.cursor \in 0..MaxNotes /\ (inbox.more => inbox.cursor # NoCursor)
  /\ \A l \in Loads : loads[l].kind \in {"NONE", "RELOAD", "MORE"}
  /\ inbox.loading => \E l \in Loads : loads[l].kind # "NONE"
  /\ ~marking.sent => marking.items = Listed({})
  /\ feed.state \in {"idle", "connecting", "open", "closed", "refused"}
  /\ feed.wire \in Seq(Notes) /\ (feed.wire # <<>> => feed.subscribed)

\* The shell is shown to a user who is signed in: the list is read and the stream
\* opened.
ShownInbox == [EmptyInbox EXCEPT !.loading = TRUE]
ShownLoads ==
  [l \in Loads |-> IF l = 1 THEN [NoLoad EXCEPT !.kind = "RELOAD"] ELSE NoLoad]
ShownFeed == [IdleFeed EXCEPT !.state = "connecting"]

NotesIdle ==
  /\ made = 0 /\ inbox = EmptyInbox /\ loads = [l \in Loads |-> NoLoad]
  /\ marking = NotMarking /\ feed = IdleFeed /\ stale = FALSE

NotesInit ==
  /\ made \in 0..MaxNotes /\ inbox = ShownInbox /\ loads = ShownLoads
  /\ marking = NotMarking /\ feed = ShownFeed /\ stale = FALSE

----------------------------------------------------------------------------
(* The server. *)

\* getNotifications(): the newest ones below the cursor, and whether there are more.
PageBelow(below) ==
  LET n == IF below - 1 < PageSize THEN below - 1 ELSE PageSize
  IN [served |-> TRUE, ids |-> (below - n)..(below - 1),
      next |-> IF below - 1 > PageSize THEN below - n ELSE NoCursor,
      more |-> below - 1 > PageSize]

\* A new notification is sent to the stream, if the user is subscribed to one.
Notify ==
  /\ made < MaxNotes
  /\ made' = made + 1
  /\ feed' = IF feed.subscribed
             THEN [feed EXCEPT !.wire = Append(@, made + 1)] ELSE feed
  /\ UNCHANGED <<inbox, loads, marking, stale>>

Subscribe ==
  /\ feed.state = "connecting" /\ ~feed.subscribed
  /\ feed' = [feed EXCEPT !.subscribed = TRUE]
  /\ UNCHANGED <<made, inbox, loads, marking, stale>>

PageServed(l) ==
  /\ loads[l].kind # "NONE" /\ ~loads[l].page.served
  /\ loads' = [loads EXCEPT ![l].page =
                 PageBelow(IF loads[l].kind = "MORE" THEN loads[l].below ELSE made + 1)]
  /\ UNCHANGED <<made, inbox, marking, feed, stale>>

----------------------------------------------------------------------------
(* useNotifications. *)

InBell(ids) == ids \ Fleeting

\* Both answers of a reload are awaited; its page takes the place of the list.
ReloadAnswers(l, ok) ==
  LET page == loads[l].page
      visible == InBell(page.ids)
  IN /\ loads[l].kind = "RELOAD"
     /\ ok => page.served
     /\ loads' = [loads EXCEPT ![l] = NoLoad]
     /\ inbox' = IF ok
                 THEN [items |-> Listed(visible), seen |-> visible, cursor |-> page.next,
                       more |-> page.more, loading |-> FALSE]
                 ELSE [inbox EXCEPT !.loading = FALSE]
     /\ stale' = (stale /\ ~ok)
     /\ UNCHANGED <<made, marking, feed>>

\* loadMore(); the list counts as loaded after the first of two answers.
LoadMore(l) ==
  /\ inbox.more /\ inbox.cursor # NoCursor /\ ~inbox.loading
  /\ loads[l].kind = "NONE"
  /\ loads' = [loads EXCEPT ![l] = [NoLoad EXCEPT !.kind = "MORE", !.below = inbox.cursor]]
  /\ inbox' = [inbox EXCEPT !.loading = TRUE]
  /\ UNCHANGED <<made, marking, feed, stale>>

\* Those that are not known yet are added to the list, and known from then on.
WithNew(list, ids) ==
  LET fresh == ids \ list.seen
  IN [list EXCEPT !.items = [n \in Notes |-> list.items[n] + Listed(fresh)[n]],
                  !.seen = @ \cup fresh]

MoreAnswers(l, ok) ==
  LET page == loads[l].page
  IN /\ loads[l].kind = "MORE" /\ (ok => page.served)
     /\ loads' = [loads EXCEPT ![l] = NoLoad]
     /\ inbox' = IF ok
                 THEN [WithNew(inbox, InBell(page.ids)) EXCEPT
                         !.cursor = page.next, !.more = page.more, !.loading = FALSE]
                 ELSE [inbox EXCEPT !.loading = FALSE]
     /\ UNCHANGED <<made, marking, feed, stale>>

\* handleIncoming(): a known notification is ignored.
Incoming(list, n) == WithNew(list, InBell({n}))

\* markAll().  Bound: one in flight, and none while an old list is shown.
MarkAll ==
  /\ ~marking.sent /\ ~stale
  /\ marking' = [sent |-> TRUE, items |-> inbox.items]
  /\ UNCHANGED <<made, inbox, loads, feed, stale>>

\* A failure puts back the list of the moment "read all" was asked for, but neither
\* the ids that are known nor where the list goes on.
MarkAllAnswers(ok) ==
  /\ marking.sent
  /\ marking' = NotMarking
  /\ inbox' = IF ok THEN inbox ELSE [inbox EXCEPT !.items = marking.items]
  /\ stale' = (stale \/ ~ok)
  /\ UNCHANGED <<made, loads, feed>>

\* The shell goes, for a page without the bell or because the user signs out: the
\* list is gone, the stream is aborted and no answer is heard any more.
HideBell ==
  /\ feed.state # "idle"
  /\ inbox' = EmptyInbox /\ loads' = [l \in Loads |-> NoLoad] /\ marking' = NotMarking
  /\ feed' = IdleFeed /\ stale' = FALSE
  /\ UNCHANGED <<made>>

ShowBell ==
  /\ feed.state = "idle"
  /\ inbox' = ShownInbox /\ loads' = ShownLoads /\ feed' = ShownFeed
  /\ UNCHANGED <<made, marking, stale>>

----------------------------------------------------------------------------
(* useNotificationStream. *)

\* The stream opens; if it was tried before, the list is read again.
StreamOpens(l) ==
  /\ feed.state = "connecting" /\ feed.subscribed
  /\ feed' = [feed EXCEPT !.state = "open", !.tried = FALSE]
  /\ IF feed.tried
     THEN /\ loads[l].kind = "NONE"
          /\ loads' = [loads EXCEPT ![l] = [NoLoad EXCEPT !.kind = "RELOAD"]]
          /\ inbox' = [inbox EXCEPT !.loading = TRUE]
     ELSE UNCHANGED <<loads, inbox>>
  /\ UNCHANGED <<made, marking, stale>>

\* An unauthorised stream, or one without a token, is not tried again.
StreamIsRefused ==
  /\ feed.state = "connecting" /\ ~feed.subscribed
  /\ feed' = [feed EXCEPT !.state = "refused"]
  /\ UNCHANGED <<made, inbox, loads, marking, stale>>

StreamReceives ==
  /\ feed.state = "open" /\ feed.wire # <<>>
  /\ inbox' = Incoming(inbox, Head(feed.wire))
  /\ feed' = [feed EXCEPT !.wire = Tail(@)]
  /\ UNCHANGED <<made, loads, marking, stale>>

\* A stream that fails or ends is closed, and what was on its way is lost.
FeedBreaks ==
  /\ feed.state \in {"connecting", "open"}
  /\ feed' = [state |-> "closed", tried |-> TRUE, subscribed |-> FALSE, wire |-> <<>>]
  /\ UNCHANGED <<made, inbox, loads, marking, stale>>

RetryTimer ==
  /\ feed.state = "closed"
  /\ feed' = [feed EXCEPT !.state = "connecting"]
  /\ UNCHANGED <<made, inbox, loads, marking, stale>>

NotesNext ==
  \/ Notify \/ Subscribe
  \/ \E l \in Loads :
       \/ PageServed(l) \/ LoadMore(l) \/ StreamOpens(l)
       \/ \E ok \in BOOLEAN : ReloadAnswers(l, ok) \/ MoreAnswers(l, ok)
  \/ MarkAll \/ \E ok \in BOOLEAN : MarkAllAnswers(ok)
  \/ StreamIsRefused \/ StreamReceives \/ FeedBreaks \/ RetryTimer
  \/ HideBell \/ ShowBell

----------------------------------------------------------------------------
(* Properties. *)

\* The list shows no notification twice and knows exactly those it shows, in
\* whichever order pages, the stream and a reload in between bring them, until a
\* failed "read all" puts back an older list.
ListedOnce ==
  ~stale => inbox.items = Listed(inbox.seen)
============================================================================
