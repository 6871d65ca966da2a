----------------------------- MODULE ClientChat -----------------------------
(***************************************************************************)
(* A practice conversation with the chatbot: ChatPage, the stream of one   *)
(* answer it reads (runStream), and the turns of the server behind it.     *)
(* The server numbers the messages.  A message of the user is one turn;    *)
(* its answer is produced by a worker that outlives the page's request     *)
(* until it notices that nobody listens.                                   *)
(***************************************************************************)
EXTENDS Integers, Sequences, SequencesExt

CONSTANT
  MaxAsks   \* bound on the requests for an answer

ASSUME ChatAssumption == MaxAsks \in Nat

VARIABLES
  bot,      \* the server: [active, state, pending, log, worker]
  talk,     \* the page: [list, draft, busy, state, pending, ended, loaded, asks]
  stream,   \* the answer the page waits for: [ask, served, wire]
  astray,   \* a request whose page gave up before it was served
  orders    \* requests without a stream in flight: "CANCEL" and "CLOSE"

chatVars == <<bot, talk, stream, astray, orders>>

Local == 0      \* the number of a message the page shows without the server's
Sending == -1   \* and of the one it is sending
NoWorker == [of |-> 0, heard |-> FALSE]
NoRequest == [kind |-> "NONE", of |-> 0]
NoStream == [ask |-> NoRequest, served |-> FALSE, wire |-> <<>>]
Event(name, id) == [event |-> name, id |-> id]
NewTalk == [list |-> <<>>, draft |-> FALSE, busy |-> FALSE, state |-> "IDLE",
            pending |-> 0, ended |-> FALSE, loaded |-> FALSE, asks |-> 0]
NewBot == [active |-> TRUE, state |-> "IDLE", pending |-> 0, log |-> <<>>, worker |-> NoWorker]

ChatTypeOK ==
  /\ Len(bot.log) <= 2 * MaxAsks + 1 /\ bot.log \in Seq({"USER", "AI"})
  /\ bot.state \in {"IDLE", "PROCESSING", "FAILED", "CANCELLED"}
  /\ bot.pending \in 0..Len(bot.log) /\ bot.worker.of \in 0..Len(bot.log)
  /\ (bot.worker.of # 0) <=> (bot.state = "PROCESSING")
  /\ \A ask \in {stream.ask, astray} :
       ask.kind \in {"NONE", "SEND", "RETRY"} /\ ask.of \in 0..Len(bot.log)
  /\ (stream.ask # NoRequest) <=> talk.busy
  /\ orders \subseteq {"CANCEL", "CLOSE"}
  /\ talk.ended => ~bot.active

ChatIdle ==
  bot = NewBot /\ talk = NewTalk /\ stream = NoStream /\ astray = NoRequest /\ orders = {}

\* The page finds a conversation in which an answer may have failed.
ChatInit ==
  /\ bot \in {NewBot, [NewBot EXCEPT !.log = <<"USER">>, !.state = "FAILED", !.pending = 1]}
  /\ talk = NewTalk /\ stream = NoStream /\ astray = NoRequest /\ orders = {}

----------------------------------------------------------------------------
(* The server. *)

\* startNewTurn() and startRetry(), then startStream().
Turned(ask, heard) ==
  CASE ask.kind = "SEND" /\ bot.active /\ bot.state # "PROCESSING" ->
         [bot EXCEPT !.log = Append(@, "USER"), !.state = "PROCESSING",
                     !.pending = Len(bot.log) + 1,
                     !.worker = [of |-> Len(bot.log) + 1, heard |-> heard]]
    [] ask.kind = "RETRY" /\ bot.active /\ bot.state \in {"FAILED", "CANCELLED"}
         /\ ask.of = bot.pending ->
         [bot EXCEPT !.state = "PROCESSING", !.worker = [of |-> bot.pending, heard |-> heard]]
    [] OTHER -> bot

TurnServed ==
  /\ stream.ask # NoRequest /\ ~stream.served
  /\ bot' = Turned(stream.ask, TRUE)
  /\ stream' = [stream EXCEPT !.served = TRUE,
                              !.wire = <<IF bot' = bot THEN Event("refused", 0)
                                          ELSE Event("connected", bot'.pending)>>]
  /\ UNCHANGED <<talk, astray, orders>>

\* A request the page gave up may still be served, or not.
AstrayServed ==
  /\ astray # NoRequest
  /\ astray' = NoRequest
  /\ bot' \in {bot, Turned(astray, FALSE)}
  /\ UNCHANGED <<talk, stream, orders>>

Said(events) == IF bot.worker.heard THEN [stream EXCEPT !.wire = @ \o events] ELSE stream
Rested(state) == [bot EXCEPT !.state = state, !.worker = NoWorker]

\* processStream(): the pieces of an answer, its record, or its failure.
WorkerSpeaks ==
  /\ bot.worker.of # 0 /\ \A e \in ToSet(stream.wire) : e.event # "chunk"
  /\ IF bot.worker.heard THEN stream' = Said(<<Event("chunk", 0)>>) /\ UNCHANGED bot
                         ELSE bot' = Rested("CANCELLED") /\ UNCHANGED stream
  /\ UNCHANGED <<talk, astray, orders>>

WorkerCompletes ==
  /\ bot.worker.of # 0
  /\ bot' = [Rested("IDLE") EXCEPT !.log = Append(@, "AI"), !.pending = 0]
  /\ stream' = Said(<<Event("done", Len(bot.log) + 1)>>)
  /\ UNCHANGED <<talk, astray, orders>>

WorkerFails ==
  /\ bot.worker.of # 0
  /\ bot' = Rested("FAILED")
  /\ stream' = Said(<<Event("error", 0)>>)
  /\ UNCHANGED <<talk, astray, orders>>

\* timeoutStream(): the stream ends without a word.
WorkerTimesOut ==
  /\ bot.worker.of # 0
  /\ bot' = Rested("CANCELLED")
  /\ stream' = Said(<<Event("end", 0)>>)
  /\ UNCHANGED <<talk, astray, orders>>

\* cancel() takes whichever answer is being produced.
CancelServed ==
  /\ "CANCEL" \in orders
  /\ orders' = orders \ {"CANCEL"}
  /\ IF bot.worker.of = 0 THEN UNCHANGED <<bot, stream>>
     ELSE bot' = Rested("CANCELLED") /\ stream' = Said(<<Event("end", 0)>>)
  /\ UNCHANGED <<talk, astray>>

\* Mutant of Closed: an answer in progress does not keep it open.
ClosedAnyway == [bot EXCEPT !.active = FALSE]

\* close() refuses while an answer is being produced.
Closed == IF bot.state = "PROCESSING" THEN bot ELSE [bot EXCEPT !.active = FALSE]

\* handleEnd() learns from the answer whether the conversation is over.
CloseServed(arrives) ==
  /\ "CLOSE" \in orders
  /\ orders' = orders \ {"CLOSE"}
  /\ bot' = Closed
  /\ talk' = [talk EXCEPT !.ended = arrives /\ ~bot'.active,
                          !.state = IF arrives /\ ~bot'.active THEN bot'.state ELSE @,
                          !.pending = IF arrives /\ ~bot'.active THEN bot'.pending ELSE @]
  /\ UNCHANGED <<stream, astray>>

----------------------------------------------------------------------------
(* ChatPage. *)

Load ==
  /\ ~talk.loaded
  /\ talk' = [talk EXCEPT !.loaded = bot.active, !.state = bot.state, !.pending = bot.pending,
                          !.list = [i \in DOMAIN bot.log |-> i]]
  /\ UNCHANGED <<bot, stream, astray, orders>>

\* What the page offers below the list: to stop an answer that is under way, or to
\* write and, after an answer that failed or was stopped, to try again; nothing
\* once the talk is over.
ChatOffers ==
  IF talk.busy THEN {"STOP"}
  ELSE IF ~talk.loaded \/ talk.ended THEN {}
  ELSE {"WRITE"} \cup (IF talk.pending # 0 /\ talk.state \in {"FAILED", "CANCELLED"}
                       THEN {"RETRY"} ELSE {})

Write ==
  /\ "WRITE" \in ChatOffers
  /\ talk' = [talk EXCEPT !.draft = TRUE]
  /\ UNCHANGED <<bot, stream, astray, orders>>

\* handleSend() shows the message before it is sent.
HandleSend ==
  /\ "WRITE" \in ChatOffers /\ talk.draft /\ talk.asks < MaxAsks
  /\ talk' = [talk EXCEPT !.draft = FALSE, !.busy = TRUE, !.list = Append(@, Sending),
                          !.asks = @ + 1]
  /\ stream' = [NoStream EXCEPT !.ask = [kind |-> "SEND", of |-> 0]]
  /\ UNCHANGED <<bot, astray, orders>>

HandleRetryReply ==
  /\ "RETRY" \in ChatOffers /\ talk.asks < MaxAsks
  /\ talk' = [talk EXCEPT !.busy = TRUE, !.asks = @ + 1]
  /\ stream' = [NoStream EXCEPT !.ask = [kind |-> "RETRY", of |-> talk.pending]]
  /\ UNCHANGED <<bot, astray, orders>>

Named(list, id) == [i \in DOMAIN list |-> IF list[i] = Sending THEN id ELSE list[i]]
Over(page) == [page EXCEPT !.busy = FALSE]

\* The stream is over, with the answer's number or without (Local).
Replied(id) ==
  [Over(talk) EXCEPT !.list = Append(Named(@, Local), id), !.state = "IDLE",
                     !.pending = IF stream.ask.kind = "RETRY" THEN 0 ELSE @]

\* A message the server has not acknowledged is taken back into the draft; so is
\* one whose answer failed, although it stays in the list.
Failed ==
  [Over(talk) EXCEPT !.list = SelectSeq(@, LAMBDA m : m # Sending),
                     !.draft = @ \/ stream.ask.kind = "SEND"]

\* Mutant of Silence: a stream that ends without "done" is waited for.
SilenceUnheard == {talk}

\* A stream that ends without "done" is an answer if something was said.
Silence == {Replied(Local), Over(talk)}

\* runStream() reads the next event.
Read ==
  /\ stream.wire # <<>>
  /\ LET event == Head(stream.wire).event
         id == Head(stream.wire).id
         rest == [stream EXCEPT !.wire = Tail(@)]
     IN CASE event = "connected" ->
               /\ talk' = [talk EXCEPT !.list = Named(@, id)]
               /\ stream' = rest
          [] event = "chunk" -> UNCHANGED talk /\ stream' = rest
          [] event = "done" -> talk' = Replied(id) /\ stream' = NoStream
          [] event = "end" -> /\ talk' \in Silence
                              /\ stream' = IF talk'.busy THEN rest ELSE NoStream
          [] OTHER -> talk' = Failed /\ stream' = NoStream
  /\ UNCHANGED <<bot, astray, orders>>

Unheard == [bot EXCEPT !.worker.heard = FALSE]

\* The connection is lost.
StreamBreaks ==
  /\ talk.busy
  /\ talk' = Failed /\ stream' = NoStream /\ bot' = Unheard
  /\ astray' \in {astray, IF stream.served THEN astray ELSE stream.ask}
  /\ UNCHANGED orders

\* abort(): what was sent stays in the list.
Aborted ==
  IF talk.busy
  THEN /\ stream' = NoStream /\ bot' = Unheard
       /\ astray' \in {astray, IF stream.served THEN astray ELSE stream.ask}
       /\ talk' = [Over(talk) EXCEPT !.list = Named(@, Local),
                                     !.state = IF stream.ask.kind = "SEND" THEN "CANCELLED" ELSE @]
  ELSE UNCHANGED <<stream, bot, astray, talk>>

HandleCancelReply ==
  /\ "STOP" \in ChatOffers /\ Aborted
  /\ orders' = orders \cup {"CANCEL"}

\* The page asks for a cancellation first only if it knows of an answer in progress.
HandleEnd ==
  /\ talk.loaded /\ ~talk.ended /\ "CLOSE" \notin orders
  /\ Aborted
  /\ orders' = orders \cup {"CLOSE"} \cup (IF talk.state = "PROCESSING" THEN {"CANCEL"} ELSE {})

ChatNext ==
  \/ TurnServed \/ AstrayServed
  \/ WorkerSpeaks \/ WorkerCompletes \/ WorkerFails \/ WorkerTimesOut
  \/ CancelServed
  \/ \E arrives \in BOOLEAN : CloseServed(arrives)
  \/ Load \/ Write \/ HandleSend \/ HandleRetryReply \/ Read
  \/ StreamBreaks \/ HandleCancelReply \/ HandleEnd

\* The server answers, its streams time out, and the page reads what arrives.
ChatFairness ==
  WF_chatVars(TurnServed) /\ WF_chatVars(WorkerTimesOut) /\ WF_chatVars(Read)

----------------------------------------------------------------------------
(* Properties. *)

\* The transcript of a conversation that was closed does not change any more: the
\* feedback is made from it.
ClosedIsFinal == [][~bot.active => bot'.log = bot.log]_chatVars

\* A page that waits for an answer: the composer is locked.
AnswerAwaited == talk.busy
============================================================================
