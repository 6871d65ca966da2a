-------------------------- MODULE VisionPublisher --------------------------
(***************************************************************************)
(* BufferedVisionEventPublisher and the LiveKitVisionTransport below it:   *)
(* events wait in a bounded buffer for a timer, leave it as one batch that *)
(* the transport splits into packets, and come back to the front when a    *)
(* packet fails.                                                           *)
(*                                                                         *)
(* An event is its seq, its kind and the time it was buffered; a packet    *)
(* holds PacketSize events, standing for the 12 kB of a data packet.       *)
(* batchIntervalMs is positive, as in the only configuration in use, so    *)
(* that publish() never waits for the network.                             *)
(* delivered and dropped are history: what was handed to publishData, in   *)
(* that order and repetitions included, and what the publisher gave up.    *)
(* Bounds: MaxEvents, MaxTime, MaxFailures.                                *)
(***************************************************************************)
EXTENDS Naturals, SequencesExt

CONSTANTS MaxBufferedEvents, MaxBufferedAge, PacketSize,
          MaxEvents, MaxTime, MaxFailures

TransportConfig == MaxBufferedEvents \in Nat \ {0} /\ MaxBufferedAge \in Nat

ASSUME PublisherAssumption ==
  /\ TransportConfig /\ PacketSize \in Nat \ {0}
  /\ MaxEvents \in Nat /\ MaxTime \in Nat /\ MaxFailures \in Nat

VARIABLES
  now,
  link,       \* room connected, AI worker present, calls of publishData failed
  phase,      \* OPEN, CLOSING, CLOSED
  buffer,     \* events not being sent
  timer,      \* a flush is scheduled
  batch,      \* the batch in flight: its events, how many left, aborted
  lastSeq,
  delivered,
  dropped

publisherVars == <<now, link, phase, buffer, timer, batch, lastSeq, delivered, dropped>>

Kinds == {"behavior", "metric"}
Event == [seq : 1..MaxEvents, kind : Kinds, at : 0..MaxTime]

PublisherTypeOK ==
  /\ now \in 0..MaxTime
  /\ link \in [connected : BOOLEAN, worker : BOOLEAN, failures : 0..MaxFailures]
  /\ phase \in {"OPEN", "CLOSING", "CLOSED"}
  /\ buffer \in Seq(Event)
  /\ timer \in BOOLEAN
  /\ batch \in [events : Seq(Event), sent : Nat, aborted : BOOLEAN]
  /\ lastSeq \in 0..MaxEvents
  /\ delivered \in Seq(1..MaxEvents)
  /\ dropped \in SUBSET (1..MaxEvents)

NoBatch == [events |-> <<>>, sent |-> 0, aborted |-> FALSE]

PublisherInit ==
  /\ now = 0
  /\ link = [connected |-> TRUE, worker |-> FALSE, failures |-> 0]
  /\ phase = "OPEN"
  /\ buffer = <<>>
  /\ timer = FALSE
  /\ batch = NoBatch
  /\ lastSeq = 0
  /\ delivered = <<>>
  /\ dropped = {}

----------------------------------------------------------------------------
(* What is kept of a buffer. *)

Seqs(events) == {events[i].seq : i \in DOMAIN events}

\* InDate[n] is what dropExpired() keeps of the first n events (a recursive
\* function, because SelectSeq cannot be reasoned about).
Unexpired(events) ==
  LET InDate[n \in 0..Len(events)] ==
        IF n = 0 THEN <<>>
        ELSE IF events[n].at + MaxBufferedAge >= now THEN Append(InDate[n - 1], events[n])
        ELSE InDate[n - 1]
  IN  InDate[Len(events)]

\* The position enforceCapacity() gives up first: the oldest metric, or the
\* oldest event when only behaviour is left.
Victim(events) ==
  LET metrics == {i \in DOMAIN events : events[i].kind = "metric"}
  IN  IF metrics = {} THEN 1 ELSE CHOOSE i \in metrics : \A j \in metrics : i <= j

\* Capped[n] takes n events away, one at a time.
WithinCapacity(events) ==
  LET Capped[n \in 0..Len(events)] ==
        IF n = 0 THEN events ELSE RemoveAt(Capped[n - 1], Victim(Capped[n - 1]))
  IN  IF Len(events) <= MaxBufferedEvents THEN events
      ELSE Capped[Len(events) - MaxBufferedEvents]

Kept(events) == WithinCapacity(Unexpired(events))

GivenUp(events) == Seqs(events) \ Seqs(Kept(events))

----------------------------------------------------------------------------
(* The transport. *)

Sending == batch.events # <<>>

Sendable == link.connected /\ link.worker

\* split() sorts by seq and cuts; the batch is in seq order already.
Packet(events, sent) ==
  SubSeq(events, sent + 1, IF sent + PacketSize < Len(events) THEN sent + PacketSize
                                                            ELSE Len(events))

\* The next packet of events is handed to publishData.
HandOver(events, sent) ==
  LET packet == Packet(events, sent) IN
  /\ batch' = [events |-> events, sent |-> sent + Len(packet), aborted |-> FALSE]
  /\ delivered' = delivered \o [i \in 1..Len(packet) |-> packet[i].seq]

----------------------------------------------------------------------------
(* The publisher. *)

\* Mutants of Restored: the batch goes behind what arrived meanwhile, or is lost.
RestoredBehind(events, later) == Kept(later \o events)
RestoredNot(events, later) == Kept(later)

\* The buffer after a batch of events could not be sent: it goes back in front
\* of what arrived meanwhile.
Restored(events, later) == Kept(events \o later)

\* flush() with no batch in flight, on events that are in date: the batch is
\* taken and its first packet handed over, or refused in the same task, put
\* back and scheduled again.
StartBatch(events) ==
  IF events = <<>> THEN /\ buffer' = <<>> /\ timer' = FALSE
                        /\ UNCHANGED <<batch, delivered>>
  ELSE IF Sendable
  THEN /\ HandOver(events, 0)
       /\ buffer' = <<>>
       /\ timer' = FALSE
  ELSE /\ buffer' = events /\ timer' = TRUE
       /\ UNCHANGED <<batch, delivered>>

\* Mutant of NewEvent: the time it may be buffered is added to its own.
NewEventExpiring(kind) == [seq |-> lastSeq + 1, kind |-> kind, at |-> now + MaxBufferedAge]
\* The event as publish() wraps it.
NewEvent(kind) == [seq |-> lastSeq + 1, kind |-> kind, at |-> now]

\* The buffer once publish() has taken one event more.
Extended(kind) == Kept(Append(buffer, NewEvent(kind)))

Publish(kind) ==
  /\ phase = "OPEN"
  /\ lastSeq < MaxEvents
  /\ lastSeq' = lastSeq + 1
  /\ buffer' = Extended(kind)
  /\ dropped' = dropped \cup GivenUp(Append(buffer, NewEvent(kind)))
  /\ timer' = TRUE
  /\ UNCHANGED <<now, link, phase, batch, delivered>>

\* The timer of scheduleFlush(): flush() joins a batch already in flight.
FlushTimer ==
  /\ timer
  /\ UNCHANGED <<now, link, phase, lastSeq>>
  /\ IF Sending THEN /\ timer' = FALSE
                     /\ UNCHANGED <<buffer, batch, delivered, dropped>>
     ELSE /\ StartBatch(Unexpired(buffer))
          /\ dropped' = dropped \cup GivenUp(buffer)

\* Mutant of Settle: what is left is not scheduled again.
SettleForgetting(events) ==
  /\ batch' = NoBatch
  /\ IF phase = "CLOSING"
     THEN /\ phase' = "CLOSED" /\ buffer' = <<>> /\ UNCHANGED timer
     ELSE /\ buffer' = events /\ UNCHANGED <<timer, phase>>

\* The settled flush schedules the next one; a close() that awaited it ends,
\* and keeps nothing.
Settle(events) ==
  /\ batch' = NoBatch
  /\ IF phase = "CLOSING"
     THEN /\ phase' = "CLOSED" /\ buffer' = <<>> /\ UNCHANGED timer
     ELSE /\ buffer' = events /\ timer' = (timer \/ events # <<>>)
          /\ UNCHANGED phase

\* Mutant of PacketSent: the consent is not asked for between two packets.
PacketSentRegardless ==
  /\ Sending
  /\ IF batch.sent = Len(batch.events)
     THEN Settle(buffer) /\ UNCHANGED <<delivered, dropped>>
     ELSE /\ HandOver(batch.events, batch.sent)
          /\ UNCHANGED <<phase, buffer, timer, dropped>>
  /\ UNCHANGED <<now, link, lastSeq>>

\* publishData resolved: the next packet, or the batch is through.
PacketSent ==
  /\ Sending
  /\ IF batch.sent = Len(batch.events)
     THEN Settle(buffer) /\ UNCHANGED <<delivered, dropped>>
     ELSE IF batch.aborted
     THEN Settle(Restored(batch.events, buffer)) /\ UNCHANGED <<delivered, dropped>>
     ELSE /\ HandOver(batch.events, batch.sent)
          /\ UNCHANGED <<phase, buffer, timer, dropped>>
  /\ UNCHANGED <<now, link, lastSeq>>

\* publishData rejected: every event of the batch is kept, the delivered too.
PacketFails ==
  /\ Sending
  /\ link.failures < MaxFailures
  /\ link' = [link EXCEPT !.failures = @ + 1]
  /\ Settle(Restored(batch.events, buffer))
  /\ dropped' = dropped \cup GivenUp(batch.events \o buffer)
  /\ UNCHANGED <<now, lastSeq, delivered>>

\* close({ flush: true }) on what the buffer holds by then: it joins the batch
\* in flight or sends the buffer, and afterwards keeps nothing.
CloseFlushing(events) ==
  IF Sending
  THEN /\ phase' = "CLOSING" /\ buffer' = events /\ timer' = FALSE
       /\ UNCHANGED <<batch, delivered>>
  ELSE IF Unexpired(events) # <<>> /\ Sendable
  THEN /\ phase' = "CLOSING" /\ StartBatch(Unexpired(events))
  ELSE /\ phase' = "CLOSED" /\ buffer' = <<>> /\ timer' = FALSE
       /\ UNCHANGED <<batch, delivered>>

\* close({ flush: false }): aborts the batch in flight and waits for it.
CloseDiscarding ==
  /\ timer' = FALSE
  /\ IF Sending
     THEN /\ phase' = "CLOSING" /\ batch' = [batch EXCEPT !.aborted = TRUE]
          /\ UNCHANGED buffer
     ELSE /\ phase' = "CLOSED" /\ buffer' = <<>> /\ UNCHANGED batch
  /\ UNCHANGED <<now, link, lastSeq, delivered, dropped>>

----------------------------------------------------------------------------
(* What happens around it. *)

Tick == now < MaxTime /\ now' = now + 1
        /\ UNCHANGED <<link, phase, buffer, timer, batch, lastSeq, delivered, dropped>>

\* LiveKit reconnects, the worker leaves and comes back.
LinkChanges ==
  /\ link.failures < MaxFailures
  /\ \E c, w \in BOOLEAN :
       link' = [connected |-> c, worker |-> w, failures |-> link.failures + 1]
  /\ UNCHANGED <<now, phase, buffer, timer, batch, lastSeq, delivered, dropped>>
============================================================================
