--------------------------- MODULE VisionSession ---------------------------
(***************************************************************************)
(* One run of the effect of useVisionAnalysis: VisionSessionRuntime        *)
(* composes the capture of frames (VisionCapture) with the publishing of   *)
(* events (VisionPublisher).  A frame's result goes through the pipeline   *)
(* to the publisher; cleaning up stops the sampler, ends the pipeline,     *)
(* closes the publisher and only then disposes of the worker.              *)
(*                                                                         *)
(* The pipeline is here the choice of the events a frame gives rise to;    *)
(* VisionPipeline says which they are.                                    *)
(***************************************************************************)
EXTENDS VisionCapture, VisionPublisher

VARIABLES
  consent,   \* visionEnabled
  joined,    \* useAiWorkerPresence: the AI worker has been seen in the room
  runtime    \* NONE, ACTIVE, CLOSING (the publisher), DISPOSING, ENDED

hookVars == <<consent, joined, runtime>>
vars == <<captureVars, publisherVars, hookVars>>

\* disposed, in the closure of the effect.
Cleaned == runtime \in {"CLOSING", "DISPOSING", "ENDED"}

TypeOK ==
  /\ CaptureTypeOK
  /\ PublisherTypeOK
  /\ consent \in BOOLEAN
  /\ joined \in BOOLEAN
  /\ runtime \in {"NONE", "ACTIVE", "CLOSING", "DISPOSING", "ENDED"}

Init ==
  /\ CaptureInit
  /\ PublisherInit
  /\ consent = TRUE
  /\ joined = FALSE
  /\ runtime = "NONE"

----------------------------------------------------------------------------
\* The presence is a latch: a worker that leaves does not stop the analysis.
WorkerSeen ==
  /\ link.worker
  /\ ~joined
  /\ joined' = TRUE
  /\ UNCHANGED <<captureVars, publisherVars, consent, runtime>>

Start ==
  /\ consent /\ joined
  /\ Initialize
  /\ runtime' = "ACTIVE"
  /\ UNCHANGED <<publisherVars, consent, joined>>

\* The worker thread and the sampler on their own.
CaptureStep ==
  /\ \/ WorkerInitialize
     \/ \E ok \in BOOLEAN : WorkerLoads(ok)
     \/ WorkerProcess
     \/ WorkerDispose
     \/ FrameAvailable
     \/ BitmapFails
     \/ BitmapReady
     \/ HandleReady(Cleaned)
     \/ HandleFrameAnswer("FRAME_ERROR")
  /\ UNCHANGED <<publisherVars, hookVars>>

\* onFrameResult(): a result that comes too late is dropped, any other is
\* processed and the events it gives rise to are published.
FrameResult ==
  /\ HandleFrameAnswer("FRAME_RESULT")
  /\ \/ UNCHANGED publisherVars
     \/ /\ runtime = "ACTIVE"
        /\ \E kind \in Kinds : Publish(kind)
  /\ UNCHANGED hookVars

\* The thread fails.  A dispose() it left unanswered is rejected, and end()
\* goes on; one the timer overtakes is never settled.
WorkerFails ==
  /\ \/ HandleFatalError(Cleaned)
     \/ HandleWorkerError(Cleaned)
  /\ runtime' = IF client.disposal THEN "ENDED" ELSE runtime
  /\ UNCHANGED <<publisherVars, consent, joined>>

InitializationTimeout ==
  /\ InitializationTimesOut(Cleaned)
  /\ UNCHANGED <<publisherVars, hookVars>>

----------------------------------------------------------------------------
(* Cleaning up. *)

StopSampling ==
  /\ sampler' = [sampler EXCEPT !.running = FALSE]
  /\ status' = "IDLE"

\* What follows the publisher's close(): the worker is disposed of.  A client
\* that has no worker any more ends at once.
DisposeResources ==
  /\ Dispose
  /\ runtime' = IF client.disposed THEN "ENDED" ELSE "DISPOSING"

\* runtime.end("CONSENT_WITHDRAWN"): final events are not published, and what
\* is buffered is discarded.  A run already cleaned up does not look at consent.
WithdrawConsent ==
  /\ consent /\ ~Cleaned
  /\ consent' = FALSE
  /\ IF runtime = "ACTIVE"
     THEN /\ StopSampling
          /\ CloseDiscarding
          /\ IF Sending THEN runtime' = "CLOSING" /\ UNCHANGED <<client, worker>>
             ELSE DisposeResources
     ELSE UNCHANGED <<captureVars, publisherVars, runtime>>
  /\ UNCHANGED joined

\* runtime.end("SESSION_ENDED"), with or without an episode to end: its event
\* is published before the publisher is closed.
LeaveSession ==
  /\ runtime = "ACTIVE"
  /\ StopSampling
  /\ \/ CloseFlushing(buffer) /\ UNCHANGED lastSeq
     \/ /\ lastSeq < MaxEvents
        /\ CloseFlushing(Extended("behavior"))
        /\ lastSeq' = lastSeq + 1
  /\ IF phase' = "CLOSING" THEN runtime' = "CLOSING" /\ UNCHANGED <<client, worker>>
     ELSE DisposeResources
  /\ UNCHANGED <<now, link, dropped, consent, joined>>

\* A flush settles; with it the close() that waits for it.
BatchStep ==
  /\ PacketSent \/ PacketFails
  /\ IF runtime = "CLOSING" /\ phase' = "CLOSED"
     THEN DisposeResources /\ UNCHANGED <<status, sampler>>
     ELSE UNCHANGED <<captureVars, runtime>>
  /\ UNCHANGED <<consent, joined>>

PublisherStep ==
  /\ FlushTimer \/ Tick \/ LinkChanges
  /\ UNCHANGED <<captureVars, hookVars>>

\* dispose() is answered, and end() ends; the hook terminates the worker too.
WorkerDisposed ==
  /\ HandleDisposed
  /\ runtime' = IF client.disposal THEN "ENDED" ELSE runtime
  /\ UNCHANGED <<publisherVars, consent, joined>>

----------------------------------------------------------------------------
Next ==
  \/ WorkerSeen \/ Start \/ CaptureStep \/ FrameResult
  \/ WorkerFails \/ InitializationTimeout
  \/ WithdrawConsent \/ LeaveSession \/ BatchStep \/ PublisherStep \/ WorkerDisposed

Spec == Init /\ [][Next]_vars

\* The event loops of the two threads go on and publishData settles; models
\* need not load, frames need not come.
Fairness ==
  /\ WF_vars(WorkerInitialize /\ UNCHANGED <<publisherVars, hookVars>>)
  /\ WF_vars(WorkerProcess /\ UNCHANGED <<publisherVars, hookVars>>)
  /\ WF_vars(WorkerDispose /\ UNCHANGED <<publisherVars, hookVars>>)
  /\ WF_vars(HandleReady(Cleaned) /\ UNCHANGED <<publisherVars, hookVars>>)
  /\ WF_vars(HandleFrameAnswer("FRAME_ERROR") /\ UNCHANGED <<publisherVars, hookVars>>)
  /\ WF_vars(FrameResult)
  /\ WF_vars(HandleFatalError(Cleaned) /\ WorkerFails)
  /\ WF_vars(WorkerDisposed)
  /\ WF_vars(InitializationTimeout)
  /\ WF_vars(BatchStep)
  /\ WF_vars(FlushTimer /\ PublisherStep)

FairSpec == Spec /\ Fairness

----------------------------------------------------------------------------
(* Properties. *)

\* The hook says it is analysing only while its worker is loaded and alive and
\* the sampler runs, whatever order the worker's answers, its failure and the
\* initialisation timer come in.
RunningMeansAnalysing ==
  status = "RUNNING" => /\ client.initialized /\ ~client.disposed
                        /\ worker.alive /\ sampler.running /\ runtime = "ACTIVE"

FramesIn(queue) == {i \in DOMAIN queue : queue[i].frame # 0}

\* The client matches answers to frames by nothing but being alone in flight:
\* whatever frame message is under way is of the frame it awaits, and it awaits
\* one answer only.
AnswerFitsFrame ==
  LET asked == FramesIn(worker.inbox)  answered == FramesIn(worker.outbox) IN
  /\ \A i \in asked : worker.inbox[i].frame = client.pending
  /\ \A i \in answered : worker.outbox[i].frame = client.pending
  /\ \A i, j \in asked : i = j
  /\ \A i, j \in answered : i = j
  /\ asked = {} \/ answered = {}

Increasing(s) == \A i, j \in DOMAIN s : i < j => s[i] < s[j]

Numbers(events) == [i \in DOMAIN events |-> events[i].seq]

\* A batch that failed goes back in front of what arrived meanwhile: what waits
\* is always in the order of the session's sequence numbers.
EventsStayInOrder == Increasing(Numbers(batch.events \o buffer))

\* While the publisher is open, an event is waiting, in flight, handed over, or
\* was given up for age or capacity.
NoEventVanishes ==
  phase = "OPEN" =>
    1..lastSeq = Seqs(buffer) \cup Seqs(batch.events) \cup Range(delivered) \cup dropped

\* An event that waits is never forgotten: either a batch is in flight, whose
\* end schedules the next, or a flush is scheduled.
WaitingIsScheduled ==
  phase = "OPEN" /\ buffer # <<>> => timer \/ Sending

\* Once consent is withdrawn no packet is started, of the batch in flight
\* neither.
SilentAfterWithdrawal ==
  [][~consent => UNCHANGED delivered]_vars

\* However the worker, its timer and the network behave, a hook that has been
\* cleaned up ends up with its worker thread terminated.
WorkerIsReleased == Cleaned ~> ~worker.alive

\* One frame's failure does not stop sampling: a frame handed to the worker is
\* answered or the hook stops.
CaptureGoesOn == sampler.capture = "CONSUMING" ~> sampler.capture = "NONE" \/ Cleaned

\* On leaving the session the publisher sends the last batch too
\* (useVisionAnalysis.ts:321): with a network that never fails, every event it
\* has not given up is handed over by the time it is closed.
LastBatchIsSent ==
  phase = "CLOSED" /\ consent /\ link.worker /\ link.connected
    => 1..lastSeq = Range(delivered) \cup dropped
============================================================================
