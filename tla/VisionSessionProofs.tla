------------------------- MODULE VisionSessionProofs -------------------------
(***************************************************************************)
(* What holds of a run of useVisionAnalysis for any number of frames,      *)
(* events and failures: the worker's answers fit the frames, what waits is *)
(* scheduled, in order and within the buffer, no event vanishes, and       *)
(* nothing leaves the browser after the consent is withdrawn.              *)
(***************************************************************************)
EXTENDS VisionSession, SequenceTheorems, WellFoundedInduction, TLAPS

Runtimes == {"NONE", "ACTIVE", "CLOSING", "DISPOSING", "ENDED"}

----------------------------------------------------------------------------
(* Events that wait. *)

\* A flush that starts leaves nothing behind that is not scheduled.
LEMMA StartBatchSchedules ==
  ASSUME NEW events, StartBatch(events)
  PROVE  buffer' # <<>> => timer' \/ Sending'
  BY DEF StartBatch, Sending

\* One that settles schedules what it leaves, or the publisher is closed.
LEMMA SettleSchedules ==
  ASSUME NEW events, Settle(events), phase' = "OPEN", buffer' # <<>>
  PROVE  timer'
  BY DEF Settle

\* An event that is not sent has a flush coming, while the publisher is open
\* (scheduleFlush() in VisionEventPublisher).
THEOREM NothingWaitsForEver == Spec => []WaitingIsScheduled
<1>1. Init => WaitingIsScheduled
  BY DEF Init, PublisherInit, WaitingIsScheduled
<1>2. WaitingIsScheduled /\ [Next]_vars => WaitingIsScheduled'
  <2> SUFFICES ASSUME WaitingIsScheduled, [Next]_vars, phase' = "OPEN", buffer' # <<>>
               PROVE  timer' \/ Sending'
    BY DEF WaitingIsScheduled
  <2>0. CASE UNCHANGED publisherVars
    BY <2>0 DEF WaitingIsScheduled, publisherVars, Sending
  <2>1. CASE UNCHANGED vars \/ WorkerSeen \/ Start \/ CaptureStep
             \/ WorkerFails \/ InitializationTimeout \/ WorkerDisposed
    <3> UNCHANGED publisherVars
      BY <2>1 DEF vars, WorkerSeen, Start, CaptureStep, WorkerFails,
                  InitializationTimeout, WorkerDisposed
    <3> QED BY <2>0
  <2>2. CASE FrameResult
    BY <2>0, <2>2 DEF FrameResult, Publish
  <2>3. CASE WithdrawConsent
    <3>1. CASE CloseDiscarding
      BY <3>1 DEF CloseDiscarding
    <3> QED BY <2>0, <2>3, <3>1 DEF WithdrawConsent
  <2>4. CASE LeaveSession
    <3> PICK events : CloseFlushing(events)
      BY <2>4 DEF LeaveSession
    <3> QED BY DEF CloseFlushing
  <2>5. CASE BatchStep
    <3>1. CASE \E events : Settle(events)
      BY <3>1, SettleSchedules
    <3>2. CASE HandOver(batch.events, batch.sent) /\ Sending
      BY <3>2 DEF HandOver, Sending
    <3> QED BY <2>5, <3>1, <3>2 DEF BatchStep, PacketSent, PacketFails
  <2>6. CASE PublisherStep
    <3>1. CASE FlushTimer
      <4>1. CASE Sending
        BY <3>1, <4>1 DEF FlushTimer, Sending
      <4>2. CASE ~Sending
        BY <3>1, <4>2, StartBatchSchedules DEF FlushTimer
      <4> QED BY <4>1, <4>2
    <3>2. CASE Tick \/ LinkChanges
      BY <3>2 DEF Tick, LinkChanges, WaitingIsScheduled, Sending
    <3> QED BY <2>6, <3>1, <3>2 DEF PublisherStep
  <2> QED BY <2>1, <2>2, <2>3, <2>4, <2>5, <2>6 DEF Next
<1> QED BY <1>1, <1>2, PTL DEF Spec

----------------------------------------------------------------------------
(* Consent. *)

\* Without the consent nothing is scheduled, and a batch in flight is one that
\* was aborted; before the runtime starts there is neither.
QuietInv ==
  /\ runtime \in Runtimes
  /\ batch = [events |-> batch.events, sent |-> batch.sent, aborted |-> batch.aborted]
  /\ runtime = "NONE" => ~timer /\ ~Sending
  /\ ~consent => /\ runtime # "ACTIVE"
                 /\ ~timer
                 /\ Sending => batch.aborted /\ phase = "CLOSING"

LEMMA InitQuiet == Init => QuietInv
  BY DEF Init, PublisherInit, NoBatch, QuietInv, Runtimes, Sending

LEMMA NextQuiet ==
  ASSUME QuietInv, [Next]_vars
  PROVE  QuietInv' /\ (~consent => UNCHANGED delivered)
<1>0. CASE UNCHANGED <<publisherVars, hookVars>>
  BY <1>0 DEF QuietInv, Runtimes, Sending, publisherVars, hookVars
<1>1. CASE UNCHANGED vars \/ CaptureStep \/ InitializationTimeout
  BY <1>0, <1>1 DEF vars, CaptureStep, InitializationTimeout
<1>2. CASE WorkerSeen \/ Start \/ WorkerFails \/ WorkerDisposed
  <2> UNCHANGED publisherVars /\ UNCHANGED consent
    BY <1>2 DEF WorkerSeen, Start, WorkerFails, WorkerDisposed
  <2>1. runtime' \in Runtimes /\ (runtime' # "NONE" \/ runtime = "NONE")
    BY <1>2 DEF QuietInv, Runtimes, WorkerSeen, Start, WorkerFails, WorkerDisposed
  <2>2. ~consent /\ runtime # "ACTIVE" => runtime' # "ACTIVE"
    BY <1>2 DEF WorkerSeen, Start, WorkerFails, WorkerDisposed
  <2> QED BY <2>1, <2>2 DEF QuietInv, Runtimes, Sending, publisherVars
<1>3. CASE FrameResult
  <2>1. CASE \E kind \in Kinds : runtime = "ACTIVE" /\ Publish(kind)
    BY <1>3, <2>1 DEF FrameResult, Publish, QuietInv, Runtimes, Sending, hookVars
  <2> QED BY <1>0, <1>3, <2>1 DEF FrameResult
<1>4. CASE WithdrawConsent
  <2>1. CASE runtime = "ACTIVE"
    <3>1. runtime' \in {"CLOSING", "DISPOSING", "ENDED"} /\ CloseDiscarding
      BY <1>4, <2>1 DEF WithdrawConsent, DisposeResources
    <3>2. UNCHANGED delivered /\ ~timer'
      BY <3>1 DEF CloseDiscarding
    <3>3. CASE Sending
      BY <3>1, <3>2, <3>3 DEF CloseDiscarding, QuietInv, Runtimes, Sending
    <3>4. CASE ~Sending
      BY <3>1, <3>2, <3>4 DEF CloseDiscarding, QuietInv, Runtimes, Sending
    <3> QED BY <3>3, <3>4
  <2>2. CASE runtime # "ACTIVE"
    <3> runtime = "NONE"
      BY <1>4, <2>2 DEF WithdrawConsent, Cleaned, QuietInv, Runtimes
    <3> QED BY <1>4, <2>2 DEF WithdrawConsent, QuietInv, Runtimes, Sending, publisherVars
  <2> QED BY <2>1, <2>2
<1>5. CASE LeaveSession
  <2>1. consent /\ consent' /\ runtime' \in {"CLOSING", "DISPOSING", "ENDED"}
    BY <1>5 DEF LeaveSession, DisposeResources, QuietInv
  <2>2. PICK events : CloseFlushing(events)
    BY <1>5 DEF LeaveSession
  <2>3. batch' = batch \/ \E es : HandOver(es, 0)
    BY <2>2 DEF CloseFlushing, StartBatch
  <2> QED BY <2>1, <2>3 DEF QuietInv, Runtimes, HandOver
<1>6. CASE BatchStep
  <2> Sending /\ UNCHANGED consent /\ (runtime' = runtime \/ runtime' \in {"DISPOSING", "ENDED"})
    BY <1>6 DEF BatchStep, PacketSent, PacketFails, DisposeResources
  <2>1. CASE UNCHANGED delivered /\ \E events : Settle(events)
    <3> batch' = NoBatch /\ (phase = "CLOSING" => UNCHANGED timer)
      BY <2>1 DEF Settle
    <3> QED BY <2>1 DEF QuietInv, Runtimes, NoBatch, Sending
  <2>2. CASE ~batch.aborted /\ HandOver(batch.events, batch.sent)
    BY <2>2 DEF QuietInv, Runtimes, HandOver
  <2> QED BY <1>6, <2>1, <2>2 DEF BatchStep, PacketSent, PacketFails
<1>7. CASE PublisherStep
  <2> UNCHANGED hookVars
    BY <1>7 DEF PublisherStep
  <2>1. CASE FlushTimer
    <3> timer /\ UNCHANGED phase
      BY <2>1 DEF FlushTimer
    <3>1. consent /\ runtime # "NONE"
      BY DEF QuietInv
    <3>2. batch' = batch \/ \E es : HandOver(es, 0)
      BY <2>1 DEF FlushTimer, StartBatch
    <3> QED BY <3>1, <3>2 DEF QuietInv, HandOver, hookVars
  <2>2. CASE Tick \/ LinkChanges
    BY <2>2 DEF Tick, LinkChanges, QuietInv, Runtimes, Sending, hookVars
  <2> QED BY <1>7, <2>1, <2>2 DEF PublisherStep
<1> QED BY <1>1, <1>2, <1>3, <1>4, <1>5, <1>6, <1>7 DEF Next

\* Once the consent is withdrawn no packet leaves the browser, those of the
\* batch in flight neither (LiveKitVisionTransport asks before each packet).
THEOREM NothingLeavesAfterWithdrawal == Spec => SilentAfterWithdrawal
<1>1. Init => QuietInv
  BY InitQuiet
<1>2. QuietInv /\ [Next]_vars => QuietInv'
  BY NextQuiet
<1>3. QuietInv /\ [Next]_vars => [~consent => UNCHANGED delivered]_vars
  BY NextQuiet
<1> QED BY <1>1, <1>2, <1>3, PTL DEF Spec, SilentAfterWithdrawal

----------------------------------------------------------------------------
(* Frames and their answers. *)

Samplers == [running : BOOLEAN, capture : {"NONE", "BITMAP", "CONSUMING"}, frameId : 0..MaxFrames]
Clients == [initializing : BOOLEAN, initialized : BOOLEAN, disposed : BOOLEAN,
            disposal : BOOLEAN, pending : 0..MaxFrames]
Threads == [alive : BOOLEAN, loading : BOOLEAN, ready : BOOLEAN,
            inbox : Seq(Request), outbox : Seq(Response)]

\* A bitmap is being made only for a frame that has a number left.
Numbered == sampler.capture = "BITMAP" => sampler.frameId < MaxFrames

CaptureInv ==
  /\ status \in Statuses /\ sampler \in Samplers /\ client \in Clients /\ worker \in Threads
  /\ Numbered

LEMMA CaptureInvTypes == CaptureInv => CaptureTypeOK
  BY DEF CaptureInv, CaptureTypeOK, Samplers, Clients, Threads

LEMMA MessageTypes ==
  /\ Message("INITIALIZE", 0) \in Request
  /\ Message("DISPOSE", 0) \in Request
  /\ \A id \in 0..MaxFrames : Message("PROCESS_FRAME", id) \in Request
  /\ Message("READY", 0) \in Response
  /\ Message("FATAL_ERROR", 0) \in Response
  /\ Message("DISPOSED", 0) \in Response
  /\ \A id \in 0..MaxFrames : /\ Message("FRAME_RESULT", id) \in Response
                              /\ Message("FRAME_ERROR", id) \in Response
  BY MaxFramesAssumption DEF Message, Request, Response

\* One field of a record at a time.
LEMMA ThreadUpdates ==
  ASSUME NEW w \in Threads
  PROVE  /\ \A b \in BOOLEAN : /\ [w EXCEPT !.alive = b] \in Threads
                               /\ [w EXCEPT !.loading = b] \in Threads
                               /\ [w EXCEPT !.ready = b] \in Threads
         /\ \A q \in Seq(Request) : [w EXCEPT !.inbox = q] \in Threads
         /\ \A q \in Seq(Response) : [w EXCEPT !.outbox = q] \in Threads
         /\ w.inbox \in Seq(Request) /\ w.outbox \in Seq(Response)
  BY DEF Threads

LEMMA ClientUpdates ==
  ASSUME NEW c \in Clients
  PROVE  /\ \A b \in BOOLEAN : /\ [c EXCEPT !.initializing = b] \in Clients
                               /\ [c EXCEPT !.initialized = b] \in Clients
                               /\ [c EXCEPT !.disposed = b] \in Clients
                               /\ [c EXCEPT !.disposal = b] \in Clients
         /\ \A id \in 0..MaxFrames : [c EXCEPT !.pending = id] \in Clients
  BY DEF Clients

LEMMA QueueTypes ==
  ASSUME NEW S, NEW q \in Seq(S)
  PROVE  /\ <<>> \in Seq(S)
         /\ \A e \in S : Append(q, e) \in Seq(S)
         /\ q # <<>> => Head(q) \in S /\ Tail(q) \in Seq(S)
  OBVIOUS

LEMMA PostType == ASSUME worker \in Threads, NEW r \in Request PROVE Post(r) \in Threads
  BY ThreadUpdates, QueueTypes DEF Post

LEMMA RespondType ==
  ASSUME NEW w \in Threads, NEW r \in Response PROVE Respond(w, r) \in Threads
  BY ThreadUpdates, QueueTypes DEF Respond

LEMMA TerminatedType == ASSUME worker \in Threads PROVE Terminated \in Threads
<1> DEFINE w1 == [worker EXCEPT !.alive = FALSE]
           w2 == [w1 EXCEPT !.inbox = <<>>]
           w3 == [w2 EXCEPT !.outbox = <<>>]
<1> HIDE DEF w1, w2, w3
<1>0. <<>> \in Seq(Request) /\ <<>> \in Seq(Response)
  OBVIOUS
<1>1. w1 \in Threads
  BY ThreadUpdates DEF w1
<1>2. w2 \in Threads
  BY <1>0, <1>1, ThreadUpdates DEF w2
<1>3. w3 \in Threads
  BY <1>0, <1>2, ThreadUpdates DEF w3
<1>4. Terminated = w3
  BY DEF Terminated, w1, w2, w3
<1> QED BY <1>3, <1>4

\* The thread takes its next message, or the client the next answer.
LEMMA TakenType ==
  ASSUME worker \in Threads
  PROVE  /\ worker.inbox # <<>>
              => Head(worker.inbox) \in Request /\ [worker EXCEPT !.inbox = Tail(@)] \in Threads
         /\ worker.outbox # <<>>
              => Head(worker.outbox) \in Response /\ [worker EXCEPT !.outbox = Tail(@)] \in Threads
  BY ThreadUpdates, QueueTypes

LEMMA DisposeType ==
  ASSUME client \in Clients, worker \in Threads, Dispose
  PROVE  client' \in Clients /\ worker' \in Threads
<1>1. CASE client.disposed
  BY <1>1 DEF Dispose
<1>2. CASE ~client.disposed
  BY <1>2, MessageTypes, PostType, ClientUpdates DEF Dispose
<1> QED BY <1>1, <1>2

LEMMA EndCaptureType ==
  ASSUME sampler \in Samplers, Numbered
  PROVE  /\ EndCapture \in Samplers
         /\ EndCapture.capture = "BITMAP" => EndCapture.frameId < MaxFrames
  BY DEF Samplers, EndCapture, Numbered

\* A sampler that is stopped keeps its frame.
LEMMA StoppedType ==
  ASSUME NEW s \in Samplers, s.capture = "BITMAP" => s.frameId < MaxFrames
  PROVE  /\ [s EXCEPT !.running = FALSE] \in Samplers
         /\ [s EXCEPT !.running = FALSE].capture = "BITMAP"
               => [s EXCEPT !.running = FALSE].frameId < MaxFrames
  BY DEF Samplers

LEMMA FailType ==
  ASSUME CaptureInv, NEW cleaned, Fail(cleaned)
  PROVE  CaptureInv'
<1>1. client' \in Clients
  <2> DEFINE c1 == [client EXCEPT !.initializing = FALSE]
             c2 == [c1 EXCEPT !.initialized = FALSE]
             c3 == [c2 EXCEPT !.disposal = FALSE]
             c4 == [c3 EXCEPT !.pending = 0]
             c5 == [c4 EXCEPT !.disposed = TRUE]
  <2> HIDE DEF c1, c2, c3, c4, c5
  <2>0. 0 \in 0..MaxFrames
    BY MaxFramesAssumption
  <2>1. c1 \in Clients
    BY ClientUpdates DEF c1, CaptureInv
  <2>2. c2 \in Clients
    BY <2>1, ClientUpdates DEF c2
  <2>3. c3 \in Clients
    BY <2>2, ClientUpdates DEF c3
  <2>4. c4 \in Clients
    BY <2>0, <2>3, ClientUpdates DEF c4
  <2>5. c5 \in Clients
    BY <2>4, ClientUpdates DEF c5
  <2>6. client' = c5
    BY DEF Fail, c1, c2, c3, c4, c5
  <2> QED BY <2>5, <2>6
<1>2. worker' \in Threads
  BY TerminatedType DEF Fail, CaptureInv
<1>3. status' \in Statuses
  BY DEF Fail, CaptureInv, Statuses
<1>4. sampler' \in Samplers /\ Numbered'
  <2> DEFINE released == IF client.pending = 0 THEN sampler ELSE EndCapture
  <2>1. released \in Samplers /\ (released.capture = "BITMAP" => released.frameId < MaxFrames)
    BY EndCaptureType DEF CaptureInv, Numbered
  <2>2. sampler' = IF cleaned THEN released ELSE [released EXCEPT !.running = FALSE]
    BY DEF Fail
  <2> HIDE DEF released
  <2> QED BY <2>1, <2>2, StoppedType DEF Numbered
<1> QED BY <1>1, <1>2, <1>3, <1>4 DEF CaptureInv

\* The worker thread, the sampler and the answers that end no effect.
LEMMA CaptureStepType ==
  ASSUME CaptureInv, CaptureStep
  PROVE  CaptureInv'
<1> USE DEF CaptureInv, Numbered
<1>1. CASE WorkerInitialize
  <2> [worker EXCEPT !.inbox = Tail(@)] \in Threads
    BY <1>1, TakenType DEF WorkerInitialize, Received
  <2> [[worker EXCEPT !.inbox = Tail(@)] EXCEPT !.loading = TRUE] \in Threads
    BY ThreadUpdates
  <2> QED BY <1>1 DEF WorkerInitialize
<1>2. CASE \E ok \in BOOLEAN : WorkerLoads(ok)
  <2> PICK ok \in BOOLEAN : WorkerLoads(ok)
    BY <1>2
  <2> [[worker EXCEPT !.loading = FALSE] EXCEPT !.ready = ok] \in Threads
    BY ThreadUpdates
  <2> Message(IF ok THEN "READY" ELSE "FATAL_ERROR", 0) \in Response
    BY MessageTypes
  <2> QED BY RespondType DEF WorkerLoads
<1>3. CASE WorkerProcess
  <2> PICK type \in {"FRAME_RESULT", "FRAME_ERROR"} :
        worker' = Respond([worker EXCEPT !.inbox = Tail(@)], Message(type, Head(worker.inbox).frame))
    BY <1>3 DEF WorkerProcess
  <2>1. Head(worker.inbox) \in Request /\ [worker EXCEPT !.inbox = Tail(@)] \in Threads
    BY <1>3, TakenType DEF WorkerProcess, Received
  <2>2. Head(worker.inbox).frame \in 0..MaxFrames
    BY <2>1 DEF Request
  <2>3. Message(type, Head(worker.inbox).frame) \in Response
    BY <2>2, MessageTypes
  <2>4. worker' \in Threads
    BY <2>1, <2>3, RespondType
  <2> QED BY <1>3, <2>4 DEF WorkerProcess
<1>4. CASE WorkerDispose
  <2>1. [worker EXCEPT !.inbox = Tail(@)] \in Threads
    BY <1>4, TakenType DEF WorkerDispose, Received
  <2>2. [[worker EXCEPT !.inbox = Tail(@)] EXCEPT !.ready = FALSE] \in Threads
    BY <2>1, ThreadUpdates
  <2> QED BY <1>4, <2>2, MessageTypes, RespondType DEF WorkerDispose
<1>5. CASE FrameAvailable \/ BitmapFails
  BY <1>5 DEF FrameAvailable, BitmapFails, Samplers
<1>6. CASE BitmapReady
  <2>1. sampler.frameId + 1 \in 0..MaxFrames
    BY <1>6, MaxFramesAssumption DEF BitmapReady, Samplers
  <2>2. client' = client \/ client' = [client EXCEPT !.pending = sampler.frameId + 1]
    BY <1>6 DEF BitmapReady
  <2>3. worker' = worker \/ worker' = Post(Message("PROCESS_FRAME", sampler.frameId + 1))
    BY <1>6 DEF BitmapReady
  <2>4. sampler' \in Samplers /\ sampler'.capture # "BITMAP" /\ status' = status
    BY <1>6, <2>1 DEF BitmapReady, Samplers
  <2>5. client' \in Clients
    BY <2>1, <2>2, ClientUpdates
  <2>6. worker' \in Threads
    BY <2>1, <2>3, MessageTypes, PostType
  <2> QED BY <2>4, <2>5, <2>6
<1>7. CASE HandleReady(Cleaned)
  <2>1. worker' \in Threads
    BY <1>7, TakenType DEF HandleReady, Incoming
  <2>2. [client EXCEPT !.initializing = FALSE] \in Clients
    BY ClientUpdates
  <2>3. [[client EXCEPT !.initializing = FALSE] EXCEPT !.initialized = TRUE] \in Clients
    BY <2>2, ClientUpdates
  <2>4. sampler' \in Samplers /\ Numbered' /\ status' \in Statuses
    BY <1>7 DEF HandleReady, Samplers, Statuses
  <2> QED BY <1>7, <2>1, <2>3, <2>4 DEF HandleReady
<1>8. CASE HandleFrameAnswer("FRAME_ERROR")
  BY <1>8, TakenType, ClientUpdates, EndCaptureType, MaxFramesAssumption
     DEF HandleFrameAnswer, Incoming
<1> QED BY <1>1, <1>2, <1>3, <1>4, <1>5, <1>6, <1>7, <1>8 DEF CaptureStep

LEMMA InitCapture == Init => CaptureInv
  BY MaxFramesAssumption
     DEF Init, CaptureInit, CaptureInv, Samplers, Clients, Threads, Numbered, Statuses

LEMMA NextCapture == CaptureInv /\ [Next]_vars => CaptureInv'
<1> SUFFICES ASSUME CaptureInv, [Next]_vars PROVE CaptureInv'
  OBVIOUS
<1>1. CASE UNCHANGED captureVars
  BY <1>1 DEF CaptureInv, Numbered, captureVars
<1>2. CASE UNCHANGED vars \/ WorkerSeen \/ PublisherStep
  BY <1>1, <1>2 DEF vars, WorkerSeen, PublisherStep
<1>3. CASE Start
  <2>0. <<Message("INITIALIZE", 0)>> \in Seq(Request)
    BY MessageTypes
  <2>1. [worker EXCEPT !.alive = TRUE] \in Threads
    BY ThreadUpdates DEF CaptureInv
  <2>2. [[worker EXCEPT !.alive = TRUE] EXCEPT !.inbox = <<Message("INITIALIZE", 0)>>] \in Threads
    BY <2>0, <2>1, ThreadUpdates
  <2>3. client' \in Clients
    BY <1>3, ClientUpdates DEF Start, Initialize, CaptureInv
  <2> QED BY <1>3, <2>2, <2>3 DEF Start, Initialize, CaptureInv, Numbered, Statuses
<1>4. CASE CaptureStep
  BY <1>4, CaptureStepType
<1>5. CASE FrameResult
  BY <1>5, TakenType, ClientUpdates, EndCaptureType, MaxFramesAssumption
     DEF FrameResult, HandleFrameAnswer, Incoming, CaptureInv, Numbered
<1>6. CASE WorkerFails
  BY <1>6, FailType DEF WorkerFails, HandleFatalError, HandleWorkerError
<1>7. CASE InitializationTimeout
  <2>1. [client EXCEPT !.initializing = FALSE] \in Clients
    BY ClientUpdates DEF CaptureInv
  <2>2. [[client EXCEPT !.initializing = FALSE] EXCEPT !.disposed = TRUE] \in Clients
    BY <2>1, ClientUpdates
  <2>3. client' \in Clients /\ worker' \in Threads
    BY <1>7, <2>2, TerminatedType DEF InitializationTimeout, InitializationTimesOut, CaptureInv
  <2>4. sampler' \in Samplers /\ Numbered' /\ status' \in Statuses
    BY <1>7, StoppedType DEF InitializationTimeout, InitializationTimesOut, CaptureInv, Numbered, Statuses
  <2> QED BY <2>3, <2>4 DEF CaptureInv
<1>8. CASE WithdrawConsent \/ LeaveSession \/ BatchStep
  <2>1. UNCHANGED <<client, worker>> \/ Dispose
    BY <1>8 DEF WithdrawConsent, LeaveSession, BatchStep, DisposeResources, captureVars
  <2>2. UNCHANGED <<status, sampler>> \/ StopSampling
    BY <1>8 DEF WithdrawConsent, LeaveSession, BatchStep, captureVars
  <2>3. client' \in Clients /\ worker' \in Threads
    BY <2>1, DisposeType DEF CaptureInv
  <2>4. sampler' \in Samplers /\ Numbered' /\ status' \in Statuses
    BY <2>2, StoppedType DEF StopSampling, CaptureInv, Numbered, Statuses
  <2> QED BY <2>3, <2>4 DEF CaptureInv
<1>9. CASE WorkerDisposed
  <2> DEFINE c1 == [client EXCEPT !.disposed = TRUE]
             c2 == [c1 EXCEPT !.initialized = FALSE]
             c3 == [c2 EXCEPT !.disposal = FALSE]
             c4 == [c3 EXCEPT !.initializing = FALSE]
  <2> HIDE DEF c1, c2, c3, c4
  <2>1. c1 \in Clients
    BY ClientUpdates DEF c1, CaptureInv
  <2>2. c2 \in Clients
    BY <2>1, ClientUpdates DEF c2
  <2>3. c3 \in Clients
    BY <2>2, ClientUpdates DEF c3
  <2>4. c4 \in Clients
    BY <2>3, ClientUpdates DEF c4
  <2>5. client' = c4
    BY <1>9 DEF WorkerDisposed, HandleDisposed, c1, c2, c3, c4
  <2> QED BY <1>9, <2>4, <2>5, TerminatedType DEF WorkerDisposed, HandleDisposed, CaptureInv, Numbered
<1> QED BY <1>2, <1>3, <1>4, <1>5, <1>6, <1>7, <1>8, <1>9 DEF Next

\* The types of the capture are not inductive: a frame's number stays within
\* the bound only because no bitmap is made beyond it.
THEOREM CaptureTypes == Spec => []CaptureTypeOK
  BY CaptureInvTypes, InitCapture, NextCapture, PTL DEF Spec

\* Two queues of messages fit the frame p that is awaited: a message carries a
\* frame when its type says so, it is p, and only one does.
Fit(in, out, p) ==
  /\ \A i \in DOMAIN in : /\ in[i].type = "PROCESS_FRAME" <=> in[i].frame # 0
                          /\ in[i].frame \in {0, p}
  /\ \A i \in DOMAIN out : /\ out[i].type \in {"FRAME_RESULT", "FRAME_ERROR"} <=> out[i].frame # 0
                           /\ out[i].frame \in {0, p}
  /\ \A i, j \in DOMAIN in : in[i].frame # 0 /\ in[j].frame # 0 => i = j
  /\ \A i, j \in DOMAIN out : out[i].frame # 0 /\ out[j].frame # 0 => i = j
  /\ \A i \in DOMAIN in, j \in DOMAIN out : in[i].frame = 0 \/ out[j].frame = 0

FitInv == CaptureInv /\ Fit(worker.inbox, worker.outbox, client.pending)

LEMMA FitFits == FitInv => AnswerFitsFrame
  BY DEF FitInv, Fit, AnswerFitsFrame, FramesIn

\* What a queue's end and head look like.
LEMMA Ends ==
  ASSUME NEW S, NEW q \in Seq(S)
  PROVE  /\ \A e \in S : /\ DOMAIN Append(q, e) = 1..Len(q) + 1
                         /\ \A i \in 1..Len(q) : Append(q, e)[i] = q[i]
                         /\ Append(q, e)[Len(q) + 1] = e
         /\ q # <<>> => /\ 1 \in DOMAIN q /\ Head(q) = q[1]
                        /\ DOMAIN Tail(q) = 1..Len(q) - 1
                        /\ \A i \in 1..Len(q) - 1 : Tail(q)[i] = q[i + 1] /\ i + 1 \in DOMAIN q
         /\ DOMAIN q = 1..Len(q) /\ Len(q) \in Nat
  OBVIOUS

LEMMA FitTake ==
  ASSUME NEW in \in Seq(Request), NEW out \in Seq(Response), NEW p, Fit(in, out, p)
  PROVE  /\ in # <<>> => Fit(Tail(in), out, p)
         /\ out # <<>> => Fit(in, Tail(out), p)
         /\ out # <<>> /\ Head(out).frame # 0 => Fit(in, Tail(out), 0)
<1>1. CASE in # <<>>
  <2>1. /\ DOMAIN Tail(in) = 1..Len(in) - 1 /\ Len(in) \in Nat
        /\ \A i \in DOMAIN Tail(in) : Tail(in)[i] = in[i + 1] /\ i + 1 \in DOMAIN in
    BY <1>1, Ends
  <2>2. \A i \in DOMAIN Tail(in) : \E j \in DOMAIN in : j = i + 1 /\ Tail(in)[i] = in[j]
    BY ONLY <2>1
  <2>3. \A i, j \in DOMAIN Tail(in) :
          Tail(in)[i].frame # 0 /\ Tail(in)[j].frame # 0 => i = j
    BY <2>1, <2>2 DEF Fit
  <2> QED BY <2>2, <2>3 DEF Fit
<1>2. ASSUME out # <<>> PROVE Fit(in, Tail(out), p)
  BY <1>2, Ends DEF Fit
<1>3. ASSUME out # <<>>, Head(out).frame # 0 PROVE Fit(in, Tail(out), 0)
  <2>1. \A i \in DOMAIN in : in[i].frame = 0
    BY <1>3, Ends DEF Fit
  <2>2. \A i \in DOMAIN Tail(out) : Tail(out)[i].frame = 0
    BY <1>3, Ends DEF Fit
  <2>3. Fit(in, Tail(out), p)
    BY <1>2, <1>3
  <2> QED BY <2>1, <2>2, <2>3 DEF Fit
<1> QED BY <1>1, <1>2, <1>3

LEMMA FitPlain ==
  ASSUME NEW in \in Seq(Request), NEW out \in Seq(Response), NEW p, Fit(in, out, p)
  PROVE  /\ \A r \in Request : r.frame = 0 /\ r.type # "PROCESS_FRAME" => Fit(Append(in, r), out, p)
         /\ \A r \in Response : r.frame = 0 /\ r.type \notin {"FRAME_RESULT", "FRAME_ERROR"}
                                  => Fit(in, Append(out, r), p)
         /\ \A r \in Request : r.frame = 0 /\ r.type # "PROCESS_FRAME" => Fit(<<r>>, out, p)
<1>1. ASSUME NEW r \in Request, r.frame = 0, r.type # "PROCESS_FRAME"
      PROVE  Fit(Append(in, r), out, p)
  BY <1>1, Ends DEF Fit
<1>2. ASSUME NEW r \in Response, r.frame = 0, r.type \notin {"FRAME_RESULT", "FRAME_ERROR"}
      PROVE  Fit(in, Append(out, r), p)
  BY <1>2, Ends DEF Fit
<1>3. ASSUME NEW r \in Request, r.frame = 0, r.type # "PROCESS_FRAME"
      PROVE  Fit(<<r>>, out, p)
  BY <1>3 DEF Fit
<1> QED BY <1>1, <1>2, <1>3

\* A frame is handed over while none is awaited.
LEMMA FitAsk ==
  ASSUME NEW in \in Seq(Request), NEW out \in Seq(Response), Fit(in, out, 0),
         NEW r \in Request, r.type = "PROCESS_FRAME", r.frame # 0
  PROVE  Fit(Append(in, r), out, r.frame)
<1>1. \A i \in DOMAIN in : in[i].frame = 0
  BY DEF Fit
<1>2. \A i \in DOMAIN out : out[i].frame = 0
  BY DEF Fit
<1> QED BY <1>1, <1>2, Ends DEF Fit

\* The thread answers the frame at the head of its queue.
LEMMA FitAnswer ==
  ASSUME NEW in \in Seq(Request), NEW out \in Seq(Response), NEW p, Fit(in, out, p),
         in # <<>>, Head(in).type = "PROCESS_FRAME",
         NEW r \in Response, r.type \in {"FRAME_RESULT", "FRAME_ERROR"}, r.frame = Head(in).frame
  PROVE  Fit(Tail(in), Append(out, r), p)
<1>1. r.frame # 0 /\ r.frame = p
  BY Ends DEF Fit
<1>2. \A i \in DOMAIN Tail(in) : Tail(in)[i].frame = 0 /\ Tail(in)[i].type # "PROCESS_FRAME"
  BY <1>1, Ends DEF Fit
<1>3. \A i \in DOMAIN out : out[i].frame = 0 /\ out[i].type \notin {"FRAME_RESULT", "FRAME_ERROR"}
  BY <1>1, Ends DEF Fit
<1> QED BY <1>1, <1>2, <1>3, Ends DEF Fit

LEMMA EmptyFits == \A p : Fit(<<>>, <<>>, p)
  BY DEF Fit

LEMMA MessageFields ==
  \A type, frame : Message(type, frame).type = type /\ Message(type, frame).frame = frame
  BY DEF Message

LEMMA ThreadFields ==
  ASSUME CaptureInv
  PROVE  /\ worker.inbox \in Seq(Request) /\ worker.outbox \in Seq(Response)
         /\ Terminated.inbox = <<>> /\ Terminated.outbox = <<>>
         /\ \A r : Post(r).inbox = Append(worker.inbox, r) /\ Post(r).outbox = worker.outbox
         /\ [worker EXCEPT !.outbox = Tail(@)].inbox = worker.inbox
         /\ [worker EXCEPT !.outbox = Tail(@)].outbox = Tail(worker.outbox)
  BY DEF CaptureInv, Threads, Terminated, Post

LEMMA DisposeFits ==
  ASSUME FitInv, Dispose
  PROVE  Fit(worker.inbox, worker.outbox, client.pending)'
<1>1. CASE client.disposed
  BY <1>1 DEF Dispose, FitInv
<1>2. CASE ~client.disposed
  <2>1. client'.pending = client.pending
    BY <1>2 DEF Dispose, FitInv, CaptureInv, Clients
  <2>2. worker'.inbox = Append(worker.inbox, Message("DISPOSE", 0)) /\ worker'.outbox = worker.outbox
    BY <1>2, ThreadFields DEF Dispose, FitInv
  <2> QED BY <2>1, <2>2, ThreadFields, FitPlain, MessageTypes, MessageFields DEF FitInv
<1> QED BY <1>1, <1>2

\* An answer about a frame is the one that was awaited.
LEMMA AnswerFits ==
  ASSUME FitInv, NEW type \in {"FRAME_RESULT", "FRAME_ERROR"}, HandleFrameAnswer(type)
  PROVE  Fit(worker.inbox, worker.outbox, client.pending)'
<1>1. worker.outbox # <<>> /\ Head(worker.outbox).type = type
  BY DEF HandleFrameAnswer, Incoming
<1>2. Head(worker.outbox).frame # 0
  BY <1>1, ThreadFields, Ends DEF FitInv, Fit
<1>3. client'.pending = 0
  BY DEF HandleFrameAnswer, FitInv, CaptureInv, Clients
<1>4. worker'.inbox = worker.inbox /\ worker'.outbox = Tail(worker.outbox)
  BY ThreadFields DEF HandleFrameAnswer, FitInv
<1> QED BY <1>1, <1>2, <1>3, <1>4, ThreadFields, FitTake DEF FitInv

LEMMA CaptureStepFits ==
  ASSUME FitInv, CaptureStep
  PROVE  Fit(worker.inbox, worker.outbox, client.pending)'
<1> USE DEF FitInv
<1>1. CASE WorkerInitialize
  <2> worker.inbox # <<>> /\ worker'.inbox = Tail(worker.inbox) /\ worker'.outbox = worker.outbox
      /\ UNCHANGED client
    BY <1>1 DEF WorkerInitialize, Received, CaptureInv, Threads
  <2> QED BY FitTake, ThreadFields
<1>2. CASE \E ok \in BOOLEAN : WorkerLoads(ok)
  <2> PICK ok \in BOOLEAN : WorkerLoads(ok)
    BY <1>2
  <2> DEFINE answer == Message(IF ok THEN "READY" ELSE "FATAL_ERROR", 0)
  <2>1. worker'.inbox = worker.inbox /\ worker'.outbox = Append(worker.outbox, answer) /\ UNCHANGED client
    BY DEF WorkerLoads, Respond, CaptureInv, Threads
  <2>2. answer \in Response /\ answer.frame = 0 /\ answer.type \notin {"FRAME_RESULT", "FRAME_ERROR"}
    BY MessageTypes, MessageFields
  <2> HIDE DEF answer
  <2> QED BY <2>1, <2>2, FitPlain, ThreadFields
<1>3. CASE WorkerProcess
  <2> PICK type \in {"FRAME_RESULT", "FRAME_ERROR"} :
        worker' = Respond([worker EXCEPT !.inbox = Tail(@)], Message(type, Head(worker.inbox).frame))
    BY <1>3 DEF WorkerProcess
  <2> DEFINE answer == Message(type, Head(worker.inbox).frame)
  <2>1. worker.inbox # <<>> /\ Head(worker.inbox).type = "PROCESS_FRAME" /\ UNCHANGED client
    BY <1>3 DEF WorkerProcess, Received
  <2>2. worker'.inbox = Tail(worker.inbox) /\ worker'.outbox = Append(worker.outbox, answer)
    BY DEF Respond, CaptureInv, Threads
  <2>3. Head(worker.inbox) \in Request
    BY <2>1, ThreadFields, QueueTypes
  <2>4. Head(worker.inbox).frame \in 0..MaxFrames
    BY <2>3 DEF Request
  <2>5. answer \in Response /\ answer.type = type /\ answer.frame = Head(worker.inbox).frame
    BY <2>4, MessageTypes, MessageFields
  <2> HIDE DEF answer
  <2> QED BY <2>1, <2>2, <2>5, FitAnswer, ThreadFields
<1>4. CASE WorkerDispose
  <2> DEFINE answer == Message("DISPOSED", 0)
  <2>1. worker.inbox # <<>> /\ worker'.inbox = Tail(worker.inbox)
        /\ worker'.outbox = Append(worker.outbox, answer) /\ UNCHANGED client
    BY <1>4 DEF WorkerDispose, Received, Respond, CaptureInv, Threads
  <2>2. Fit(Tail(worker.inbox), worker.outbox, client.pending) /\ Tail(worker.inbox) \in Seq(Request)
    BY <2>1, FitTake, ThreadFields, QueueTypes
  <2>3. answer \in Response /\ answer.frame = 0 /\ answer.type \notin {"FRAME_RESULT", "FRAME_ERROR"}
    BY MessageTypes, MessageFields
  <2> HIDE DEF answer
  <2>4. Fit(Tail(worker.inbox), Append(worker.outbox, answer), client.pending)
    BY <2>2, <2>3, FitPlain, ThreadFields
  <2> QED BY <2>1, <2>4
<1>5. CASE FrameAvailable \/ BitmapFails
  BY <1>5 DEF FrameAvailable, BitmapFails
<1>6. CASE BitmapReady
  <2>1. CASE UNCHANGED <<client, worker>>
    BY <2>1
  <2>2. CASE client.pending = 0 /\ client' = [client EXCEPT !.pending = sampler.frameId + 1]
             /\ worker' = Post(Message("PROCESS_FRAME", sampler.frameId + 1))
    <3> DEFINE id == sampler.frameId + 1
               ask == Message("PROCESS_FRAME", id)
    <3>1. id \in 0..MaxFrames /\ id # 0
      BY <1>6, MaxFramesAssumption DEF BitmapReady, CaptureInv, Samplers, Numbered
    <3>2. client'.pending = id
      BY <2>2 DEF CaptureInv, Clients
    <3>3. worker'.inbox = Append(worker.inbox, ask) /\ worker'.outbox = worker.outbox
      BY <2>2, ThreadFields
    <3>4. ask \in Request /\ ask.type = "PROCESS_FRAME" /\ ask.frame = id
      BY <3>1, MessageTypes, MessageFields
    <3>5. Fit(worker.inbox, worker.outbox, 0)
      BY <2>2
    <3> HIDE DEF ask, id
    <3> QED BY <3>1, <3>2, <3>3, <3>4, <3>5, FitAsk, ThreadFields
  <2> QED BY <1>6, <2>1, <2>2 DEF BitmapReady
<1>7. CASE HandleReady(Cleaned)
  <2>1. worker.outbox # <<>> /\ worker'.inbox = worker.inbox /\ worker'.outbox = Tail(worker.outbox)
    BY <1>7, ThreadFields DEF HandleReady, Incoming
  <2>2. client'.pending = client.pending
    BY <1>7 DEF HandleReady, CaptureInv, Clients
  <2> QED BY <2>1, <2>2, FitTake, ThreadFields
<1>8. CASE HandleFrameAnswer("FRAME_ERROR")
  BY <1>8, AnswerFits
<1> QED BY <1>1, <1>2, <1>3, <1>4, <1>5, <1>6, <1>7, <1>8 DEF CaptureStep

LEMMA NextFits == FitInv /\ [Next]_vars => FitInv'
<1> SUFFICES ASSUME FitInv, [Next]_vars PROVE Fit(worker.inbox, worker.outbox, client.pending)'
  BY NextCapture DEF FitInv
<1>1. CASE UNCHANGED <<client, worker>>
  BY <1>1 DEF FitInv
<1>2. CASE UNCHANGED vars \/ WorkerSeen \/ PublisherStep
  BY <1>1, <1>2 DEF vars, captureVars, WorkerSeen, PublisherStep
<1>3. CASE Start
  <2>1. client'.pending = client.pending
    BY <1>3 DEF Start, Initialize, FitInv, CaptureInv, Clients
  <2>2. worker'.inbox = <<Message("INITIALIZE", 0)>> /\ worker'.outbox = worker.outbox
    BY <1>3 DEF Start, Initialize, FitInv, CaptureInv, Threads
  <2> QED BY <2>1, <2>2, ThreadFields, FitPlain, MessageTypes, MessageFields DEF FitInv
<1>4. CASE CaptureStep
  BY <1>4, CaptureStepFits
<1>5. CASE FrameResult
  BY <1>5, AnswerFits DEF FrameResult
<1>6. CASE WorkerFails \/ InitializationTimeout \/ WorkerDisposed
  <2> worker' = Terminated
    BY <1>6 DEF WorkerFails, HandleFatalError, HandleWorkerError, Fail, InitializationTimeout,
                InitializationTimesOut, WorkerDisposed, HandleDisposed
  <2> QED BY EmptyFits, ThreadFields DEF FitInv
<1>7. CASE WithdrawConsent \/ LeaveSession \/ BatchStep
  BY <1>1, <1>7, DisposeFits DEF WithdrawConsent, LeaveSession, BatchStep, DisposeResources, captureVars
<1> QED BY <1>2, <1>3, <1>4, <1>5, <1>6, <1>7 DEF Next

\* The client tells answers apart by nothing but awaiting one at a time
\* (processFrame() in VisionWorkerClient): none is ever taken for another's.
THEOREM AnswersFitFrames == Spec => []AnswerFitsFrame
<1>1. Init => FitInv
  BY InitCapture, EmptyFits DEF Init, CaptureInit, FitInv
<1> QED BY <1>1, NextFits, FitFits, PTL DEF Spec

----------------------------------------------------------------------------
(* The events of a session. *)

LEMMA LeastExists ==
  ASSUME NEW S, S \subseteq Nat, S # {}
  PROVE  \E x \in S : \A y \in S : x <= y
<1> DEFINE R == OpToRel(<, Nat)
<1>1. IsWellFoundedOn(R, Nat)
  BY NatLessThanWellFounded
<1>2. \A x, y \in Nat : x < y => <<x, y>> \in R
  BY DEF OpToRel
<1> HIDE DEF R
<1>3. PICK x \in S : \A y \in S : ~ (<<y, x>> \in R)
  BY <1>1, WFMin
<1>4. \A y \in S : ~(y < x)
  BY <1>2, <1>3
<1> QED BY <1>4

LEMMA Induction ==
  ASSUME NEW S, 0 \in S, \A n \in Nat : n \in S => n + 1 \in S
  PROVE  Nat \subseteq S
<1> DEFINE Missing == Nat \ S
<1>1. CASE Missing # {}
  <2>1. PICK m \in Missing : \A y \in Missing : m <= y
    BY <1>1, LeastExists
  <2>2. m - 1 \in Nat /\ m = (m - 1) + 1
    OBVIOUS
  <2>3. m - 1 \notin Missing
    BY <2>1, <2>2
  <2> QED BY <2>2, <2>3
<1> QED BY <1>1

\* A function defined by its first value and a step exists, and its values stay
\* where the step leads.
Recurses(N, S, e, G) ==
  \E f \in [0..N -> S] : f[0] = e /\ \A n \in 1..N : f[n] = G[n][f[n - 1]]

LEMMA Recursion ==
  ASSUME NEW N \in Nat, NEW S, NEW e \in S, NEW G \in [1..N -> [S -> S]]
  PROVE  Recurses(N, S, e, G)
<1> DEFINE Built(f, n) == f[0] = e /\ \A i \in 1..n : f[i] = G[i][f[i - 1]]
           Reached == {n \in Nat : n <= N => \E f \in [0..n -> S] : Built(f, n)}
<1>1. 0 \in Reached
  <2>1. [i \in 0..0 |-> e] \in [0..0 -> S] /\ Built([i \in 0..0 |-> e], 0)
    OBVIOUS
  <2> QED BY <2>1
<1>2. ASSUME NEW n \in Nat, n \in Reached PROVE n + 1 \in Reached
  <2>1. CASE n + 1 <= N
    <3>1. PICK f \in [0..n -> S] : Built(f, n)
      BY <1>2, <2>1
    <3> DEFINE g == [i \in 0..n + 1 |-> IF i = n + 1 THEN G[n + 1][f[n]] ELSE f[i]]
    <3>2. f[n] \in S /\ G[n + 1] \in [S -> S]
      BY <2>1
    <3>3. G[n + 1][f[n]] \in S
      BY <3>2
    <3>4. g \in [0..n + 1 -> S]
      BY <3>3
    <3>5. \A i \in 0..n : g[i] = f[i]
      OBVIOUS
    <3>6. g[n + 1] = G[n + 1][f[n]]
      OBVIOUS
    <3> HIDE DEF g
    <3>7. Built(g, n + 1)
      <4>1. g[0] = e
        BY <3>1, <3>5
      <4>2. ASSUME NEW i \in 1..n + 1 PROVE g[i] = G[i][g[i - 1]]
        <5>1. CASE i = n + 1
          BY <5>1, <3>5, <3>6
        <5>2. CASE i # n + 1
          BY <5>2, <3>1, <3>5
        <5> QED BY <5>1, <5>2
      <4> QED BY <4>1, <4>2
    <3> QED BY <2>1, <3>4, <3>7
  <2> QED BY <2>1
<1> HIDE DEF Reached
<1>3. N \in Reached
  BY <1>1, <1>2, Induction
<1> QED BY <1>3 DEF Reached, Recurses

\* Some of the events of s in the order they have there.
Ordered(s) == \A i, j \in DOMAIN s : i < j => s[i].seq < s[j].seq
Sublist(t, s) ==
  /\ t \in Seq(Event) /\ Len(t) <= Len(s)
  /\ Seqs(t) \subseteq Seqs(s)
  /\ Ordered(s) => Ordered(t)

LEMMA SublistGoesOn ==
  ASSUME NEW r \in Seq(Event), NEW s \in Seq(Event), NEW t, Sublist(s, r), Sublist(t, s)
  PROVE  Sublist(t, r)
<1>1. t \in Seq(Event) /\ Len(t) <= Len(r)
  BY DEF Sublist
<1>2. Seqs(t) \subseteq Seqs(r) /\ (Ordered(r) => Ordered(t))
  BY DEF Sublist
<1> QED BY <1>1, <1>2 DEF Sublist

\* What filtering by age leaves of the first n events.
LEMMA UnexpiredIsSublist ==
  ASSUME NEW s \in Seq(Event)
  PROVE  Sublist(Unexpired(s), s)
<1> DEFINE N == Len(s)
           Step(n, q) == IF s[n].at + MaxBufferedAge >= now THEN Append(q, s[n]) ELSE q
           Eq(f) == f = [n \in 0..N |-> IF n = 0 THEN <<>>
                                        ELSE IF s[n].at + MaxBufferedAge >= now
                                        THEN Append(f[n - 1], s[n]) ELSE f[n - 1]]
<1> DEFINE Lists == Seq(Event)
<1>1. N \in Nat /\ \A n \in 1..N : s[n] \in Event
  OBVIOUS
<1>2. \A n \in 1..N : \A q \in Lists : Step(n, q) \in Lists
  BY <1>1
<1>3. <<>> \in Lists
  OBVIOUS
<1> HIDE DEF Step, N, Lists
<1>4. PICK f \in [0..N -> Lists] : f[0] = <<>> /\ \A n \in 1..N : f[n] = Step(n, f[n - 1])
  <2> DEFINE none == <<>>
             G == [n \in 1..N |-> [q \in Lists |-> Step(n, q)]]
  <2>1. G \in [1..N -> [Lists -> Lists]]
    BY <1>2
  <2>2. none \in Lists
    BY <1>3
  <2> HIDE DEF none, G
  <2> Recurses(N, Lists, none, G)
    BY ONLY <1>1, <2>1, <2>2, Recursion
  <2>3. PICK f \in [0..N -> Lists] : f[0] = none /\ \A n \in 1..N : f[n] = G[n][f[n - 1]]
    BY DEF Recurses
  <2>4. ASSUME NEW n \in 1..N PROVE f[n] = Step(n, f[n - 1])
    <3>1. n - 1 \in 0..N
      BY <1>1
    <3>2. f[n - 1] \in Lists
      BY <3>1
    <3> QED BY <2>3, <3>2 DEF G
  <2> QED BY <2>3, <2>4 DEF none
<1>5. Eq(f)
  <2>1. \A n \in 0..N : n # 0 => n \in 1..N
    BY <1>1
  <2>2. \A n \in 0..N : f[n] = IF n = 0 THEN <<>>
                               ELSE IF s[n].at + MaxBufferedAge >= now
                               THEN Append(f[n - 1], s[n]) ELSE f[n - 1]
    BY <1>4, <2>1 DEF Step
  <2> QED BY <2>2
<1>6. PICK g : Eq(g) /\ Unexpired(s) = g[N]
  BY <1>5 DEF Unexpired, N
<1>7. g[0] = <<>> /\ \A n \in 1..N : g[n] = Step(n, g[n - 1])
  <2>1. 0 \in 0..N /\ \A n \in 1..N : n \in 0..N /\ n # 0
    BY <1>1
  <2> QED BY <1>6, <2>1 DEF Step
<1> HIDE DEF Eq
<1> DEFINE From(n) == {s[i].seq : i \in 1..n}
           Fine(n) == /\ g[n] \in Seq(Event) /\ Len(g[n]) <= n
                      /\ Seqs(g[n]) \subseteq From(n)
                      /\ Ordered(s) => Ordered(g[n])
           Reached == {n \in Nat : n <= N => Fine(n)}
<1>9. 0 \in Reached
  <2>1. <<>> \in Seq(Event) /\ Len(<<>>) = 0 /\ Seqs(<<>>) = {} /\ Ordered(<<>>)
    BY DEF Seqs, Ordered
  <2>2. g[0] = <<>>
    BY <1>7
  <2>3. Fine(0)
    BY ONLY <2>1, <2>2
  <2> QED BY <2>3
<1>10. ASSUME NEW n \in Nat, n \in Reached PROVE n + 1 \in Reached
  <2> SUFFICES ASSUME n + 1 <= N PROVE Fine(n + 1)
    OBVIOUS
  <2>1. Fine(n) /\ n + 1 \in 1..N /\ s[n + 1] \in Event
    BY <1>1, <1>10
  <2>2. g[n + 1] = Step(n + 1, g[n])
    BY <1>7, <2>1
  <2>3. From(n) \subseteq From(n + 1) /\ s[n + 1].seq \in From(n + 1)
    OBVIOUS
  <2>4. CASE g[n + 1] = g[n]
    BY <2>1, <2>3, <2>4
  <2>5. CASE g[n + 1] = Append(g[n], s[n + 1])
    <3> DEFINE q == g[n]  t == Append(q, s[n + 1])
    <3>1. q \in Seq(Event) /\ Len(q) <= n
      BY <2>1
    <3> HIDE DEF q
    <3>2. /\ t \in Seq(Event) /\ Len(t) = Len(q) + 1
          /\ \A i \in 1..Len(q) : t[i] = q[i]
          /\ t[Len(q) + 1] = s[n + 1]
      BY <2>1, <3>1
    <3> HIDE DEF t
    <3>3. \A i \in 1..Len(q) : q[i].seq \in From(n)
      <4>1. Seqs(q) \subseteq From(n)
        BY <2>1 DEF q
      <4> HIDE DEF From
      <4>2. \A i \in 1..Len(q) : q[i].seq \in Seqs(q)
        BY <3>1 DEF Seqs
      <4> QED BY <4>1, <4>2
    <3>4. Seqs(t) \subseteq From(n + 1)
      <4> HIDE DEF From
      <4>1. \A i \in 1..Len(q) + 1 : t[i].seq \in From(n + 1)
        <5>1. Len(q) \in Nat /\ \A i \in 1..Len(q) + 1 : i \in 1..Len(q) \/ i = Len(q) + 1
          BY <3>1
        <5> QED BY <5>1, <3>2, <3>3, <2>3
      <4>2. DOMAIN t = 1..Len(q) + 1
        BY <3>2
      <4> QED BY <4>1, <4>2 DEF Seqs
    <3>5. ASSUME Ordered(s) PROVE Ordered(t)
      <4>1. \A i \in 1..n : s[i].seq < s[n + 1].seq
        <5>1. DOMAIN s = 1..N /\ \A i \in 1..n : i \in 1..N /\ i < n + 1
          BY <2>1, <1>1 DEF N
        <5> QED BY <5>1, <3>5, <2>1 DEF Ordered
      <4>2. \A i \in 1..Len(q) : q[i].seq < s[n + 1].seq
        BY <3>3, <4>1
      <4>3. Ordered(q)
        BY <3>5, <2>1 DEF q
      <4>4. /\ DOMAIN q = 1..Len(q) /\ DOMAIN t = 1..Len(q) + 1
            /\ \A i \in 1..Len(q) : t[i] = q[i]
            /\ t[Len(q) + 1] = s[n + 1]
        BY <3>1, <3>2
      <4> SUFFICES ASSUME NEW i \in 1..Len(q) + 1, NEW j \in 1..Len(q) + 1, i < j
                   PROVE  t[i].seq < t[j].seq
        BY <4>4 DEF Ordered
      <4>5. i \in 1..Len(q) /\ (j \in 1..Len(q) \/ j = Len(q) + 1)
        BY <3>1
      <4> HIDE DEF t, q
      <4> QED BY <4>2, <4>3, <4>4, <4>5 DEF Ordered
    <3>6. g[n + 1] = t /\ Len(t) <= n + 1
      BY <2>5, <3>1, <3>2 DEF t, q
    <3> QED BY <3>2, <3>4, <3>5, <3>6
  <2> QED BY <2>2, <2>4, <2>5 DEF Step
<1> HIDE DEF Reached
<1>11. N \in Reached
  BY <1>1, <1>9, <1>10, Induction
<1>12. Fine(N)
  BY <1>1, <1>11 DEF Reached
<1>13. From(N) \subseteq Seqs(s)
  BY DEF Seqs, N
<1> QED BY <1>6, <1>12, <1>13 DEF Sublist, N

\* An event of the buffer is removed.
LEMMA RemovedIsSublist ==
  ASSUME NEW q \in Seq(Event), NEW p \in 1..Len(q)
  PROVE  Sublist(RemoveAt(q, p), q) /\ Len(RemoveAt(q, p)) = Len(q) - 1
<1> DEFINE t == RemoveAt(q, p)  M == Len(q)
<1>1. M \in Nat /\ p \in 1..M /\ DOMAIN q = 1..M /\ \A i \in 1..M : q[i] \in Event
  OBVIOUS
<1>2. /\ t \in Seq(Event) /\ Len(t) = M - 1
      /\ \A i \in 1..M - 1 : t[i] = IF i < p THEN q[i] ELSE q[i + 1]
  <2> DEFINE front == SubSeq(q, 1, p - 1)  back == SubSeq(q, p + 1, M)
  <2>1. /\ front \in Seq(Event) /\ Len(front) = p - 1
        /\ \A i \in 1..p - 1 : front[i] = q[i]
    BY <1>1
  <2>2. /\ back \in Seq(Event) /\ Len(back) = M - p
        /\ \A i \in 1..M - p : back[i] = q[i + p]
    <3>1. CASE p = M
      BY <1>1, <3>1
    <3>2. CASE p < M
      <4>1. p + 1 \in 1..M /\ M - (p + 1) + 1 = M - p
        BY <1>1, <3>2
      <4>2. back \in Seq(Event) /\ Len(back) = M - p
        BY <1>1, <4>1
      <4>3. ASSUME NEW i \in 1..M - p PROVE back[i] = q[i + p]
        <5>1. back[i] = q[(p + 1) + i - 1]
          BY <1>1, <4>1, <4>2
        <5>2. (p + 1) + i - 1 = i + p
          BY <1>1
        <5> QED BY <5>1, <5>2
      <4> QED BY <4>2, <4>3
    <3> HIDE DEF back, M
    <3>3. p = M \/ p < M
      BY <1>1
    <3> QED BY ONLY <3>1, <3>2, <3>3
  <2>3. t = front \o back
    BY DEF RemoveAt
  <2> HIDE DEF front, back, t, M
  <2>4. front \o back \in Seq(Event) /\ Len(front \o back) = M - 1
    BY <1>1, <2>1, <2>2
  <2>5. ASSUME NEW i \in 1..M - 1
        PROVE  (front \o back)[i] = IF i < p THEN q[i] ELSE q[i + 1]
    <3>1. CASE i < p
      BY <1>1, <2>1, <2>2, <3>1
    <3>2. CASE ~(i < p)
      <4>1. (front \o back)[i] = back[i - (p - 1)]
        BY <1>1, <2>1, <2>2, <3>2
      <4>2. i - (p - 1) \in 1..M - p /\ i - (p - 1) + p = i + 1
        BY <1>1, <3>2
      <4> QED BY <4>1, <4>2, <2>2, <3>2
    <3> QED BY <3>1, <3>2
  <2> QED BY <2>3, <2>4, <2>5
<1> HIDE DEF t
<1>3. DOMAIN t = 1..M - 1
  BY <1>2
<1> HIDE DEF M
<1>4. Seqs(t) \subseteq Seqs(q)
  <2>1. ASSUME NEW i \in 1..M - 1 PROVE t[i].seq \in Seqs(q)
    <3>1. i \in 1..M /\ i + 1 \in 1..M
      BY <1>1
    <3>2. q[i].seq \in Seqs(q) /\ q[i + 1].seq \in Seqs(q)
      BY <1>1, <3>1 DEF Seqs
    <3> QED BY <1>2, <3>2
  <2> QED BY <1>3, <2>1 DEF Seqs
<1>5. ASSUME Ordered(q) PROVE Ordered(t)
  <2> SUFFICES ASSUME NEW i \in 1..M - 1, NEW j \in 1..M - 1, i < j
               PROVE  t[i].seq < t[j].seq
    BY <1>3 DEF Ordered
  <2> DEFINE a == IF i < p THEN i ELSE i + 1
             b == IF j < p THEN j ELSE j + 1
  <2>1. a \in 1..M /\ b \in 1..M /\ a < b
    BY <1>1
  <2>2. t[i] = q[a] /\ t[j] = q[b]
    BY <1>2
  <2> QED BY <1>1, <1>5, <2>1, <2>2 DEF Ordered
<1>6. M - 1 <= Len(q)
  BY <1>1 DEF M
<1> QED BY <1>2, <1>4, <1>5, <1>6 DEF Sublist, t, M

\* enforceCapacity() gives up an event there is.
LEMMA VictimIsThere ==
  ASSUME NEW q \in Seq(Event), q # <<>>
  PROVE  Victim(q) \in 1..Len(q)
<1> DEFINE metrics == {i \in DOMAIN q : q[i].kind = "metric"}
<1>1. DOMAIN q = 1..Len(q) /\ Len(q) \in Nat /\ Len(q) > 0
  OBVIOUS
<1>2. metrics \subseteq 1..Len(q)
  BY <1>1
<1>3. CASE metrics = {}
  <2>1. Victim(q) = 1
    BY <1>3 DEF Victim
  <2> QED BY <1>1, <2>1
<1>4. CASE metrics # {}
  <2>1. Victim(q) = CHOOSE i \in metrics : \A j \in metrics : i <= j
    BY <1>4 DEF Victim
  <2> HIDE DEF metrics
  <2>2. \E i \in metrics : \A j \in metrics : i <= j
    <3>1. metrics \subseteq Nat
      BY <1>1, <1>2
    <3> QED BY ONLY <3>1, <1>4, LeastExists
  <2> QED BY <1>2, <2>1, <2>2
<1> QED BY <1>3, <1>4

\* What is left of s within the capacity of the buffer.
LEMMA CappedIsSublist ==
  ASSUME NEW s \in Seq(Event)
  PROVE  Sublist(WithinCapacity(s), s) /\ Len(WithinCapacity(s)) <= MaxBufferedEvents
<1> DEFINE N == Len(s)
           Lists == Seq(Event)
           Step(q) == RemoveAt(q, Victim(q))
           Eq(f) == f = [n \in 0..N |-> IF n = 0 THEN s
                                        ELSE RemoveAt(f[n - 1], Victim(f[n - 1]))]
<1>1. N \in Nat /\ MaxBufferedEvents \in Nat /\ MaxBufferedEvents > 0
  BY PublisherAssumption DEF TransportConfig
<1>2. CASE N <= MaxBufferedEvents
  <2>1. WithinCapacity(s) = s
    BY <1>2 DEF WithinCapacity
  <2>2. Sublist(s, s)
    BY <1>1 DEF Sublist
  <2> QED BY <1>2, <2>1, <2>2
<1>3. CASE ~(N <= MaxBufferedEvents)
  <2>1. ASSUME NEW q \in Lists
        PROVE  /\ q # <<>> => Sublist(Step(q), q) /\ Len(Step(q)) = Len(q) - 1
               /\ Step(q) \in Lists
    <3>1. CASE q # <<>>
      <4>1. Sublist(Step(q), q) /\ Len(Step(q)) = Len(q) - 1
        BY <3>1, VictimIsThere, RemovedIsSublist
      <4> QED BY <4>1 DEF Sublist
    <3>2. CASE q = <<>>
      <4>1. Victim(q) = 1
        BY <3>2 DEF Victim
      <4>2. RemoveAt(q, 1) = <<>>
        BY <3>2 DEF RemoveAt
      <4> QED BY <3>2, <4>1, <4>2
    <3> QED BY <3>1, <3>2
  <2>2. s \in Lists /\ Sublist(s, s) /\ Len(s) = N - 0
    BY <1>1 DEF Sublist
  <2> HIDE DEF Step, N, Lists
  <2>3. PICK f \in [0..N -> Lists] : f[0] = s /\ \A n \in 1..N : f[n] = Step(f[n - 1])
    <3> DEFINE G == [n \in 1..N |-> [q \in Lists |-> Step(q)]]
    <3>1. G \in [1..N -> [Lists -> Lists]]
      BY <2>1
    <3> HIDE DEF G
    <3> Recurses(N, Lists, s, G)
      BY ONLY <1>1, <2>2, <3>1, Recursion
    <3>2. PICK f \in [0..N -> Lists] : f[0] = s /\ \A n \in 1..N : f[n] = G[n][f[n - 1]]
      BY DEF Recurses
    <3>3. ASSUME NEW n \in 1..N PROVE f[n] = Step(f[n - 1])
      <4>1. n - 1 \in 0..N
        BY <1>1
      <4>2. f[n - 1] \in Lists
        BY <4>1
      <4> QED BY <3>2, <4>2 DEF G
    <3> QED BY <3>2, <3>3
  <2>4. Eq(f)
    <3>1. \A n \in 0..N : n # 0 => n \in 1..N
      BY <1>1
    <3>2. \A n \in 0..N : f[n] = IF n = 0 THEN s ELSE RemoveAt(f[n - 1], Victim(f[n - 1]))
      BY <2>3, <3>1 DEF Step
    <3> QED BY <3>2
  <2>5. PICK g : Eq(g) /\ WithinCapacity(s) = g[N - MaxBufferedEvents]
    BY <1>3, <2>4 DEF WithinCapacity, N
  <2>6. g[0] = s /\ \A n \in 1..N : g[n] = Step(g[n - 1])
    <3>1. 0 \in 0..N /\ \A n \in 1..N : n \in 0..N /\ n # 0
      BY <1>1
    <3> QED BY <2>5, <3>1 DEF Step
  <2> HIDE DEF Eq
  <2> DEFINE Fine(n) == g[n] \in Lists /\ Sublist(g[n], s) /\ Len(g[n]) = N - n
             Reached == {n \in Nat : n <= N => Fine(n)}
  <2>7. 0 \in Reached
    <3>1. Fine(0)
      BY <2>2, <2>6
    <3> QED BY <3>1
  <2>8. ASSUME NEW n \in Nat, n \in Reached PROVE n + 1 \in Reached
    <3> SUFFICES ASSUME n + 1 <= N PROVE Fine(n + 1)
      OBVIOUS
    <3>1. Fine(n) /\ n + 1 \in 1..N /\ N - n > 0
      BY <1>1, <2>8
    <3> DEFINE q == g[n]  t == g[n + 1]
    <3>2. t = Step(q)
      BY <2>6, <3>1
    <3>3. q \in Lists /\ Sublist(q, s) /\ Len(q) = N - n
      BY <3>1
    <3> HIDE DEF q, t
    <3>4. q # <<>>
      BY <3>1, <3>3
    <3>5. Sublist(t, q) /\ Len(t) = Len(q) - 1 /\ t \in Lists
      BY <2>1, <3>2, <3>3, <3>4
    <3>6. Sublist(t, s)
      BY <2>2, <3>3, <3>5, SublistGoesOn DEF Lists
    <3>7. Len(t) = N - (n + 1)
      BY <1>1, <3>3, <3>5
    <3> QED BY <3>5, <3>6, <3>7 DEF t
  <2> HIDE DEF Reached
  <2>9. N - MaxBufferedEvents \in Nat /\ N - MaxBufferedEvents <= N
    BY <1>1, <1>3
  <2>10. N - MaxBufferedEvents \in Reached
    BY <2>7, <2>8, <2>9, Induction
  <2>11. Fine(N - MaxBufferedEvents)
    BY <2>9, <2>10 DEF Reached
  <2>12. N - (N - MaxBufferedEvents) = MaxBufferedEvents
    BY <1>1
  <2> QED BY <1>1, <2>5, <2>11, <2>12
<1> QED BY <1>2, <1>3

\* What is kept of events are some of them in their order, no more than the
\* buffer holds.
LEMMA KeptIsSublist ==
  ASSUME NEW s \in Seq(Event)
  PROVE  /\ Sublist(Kept(s), s) /\ Len(Kept(s)) <= MaxBufferedEvents
         /\ Sublist(Kept(s), Unexpired(s))
<1>1. Sublist(Unexpired(s), s) /\ Unexpired(s) \in Seq(Event)
  BY UnexpiredIsSublist DEF Sublist
<1>2. Sublist(Kept(s), Unexpired(s)) /\ Len(Kept(s)) <= MaxBufferedEvents
  BY <1>1, CappedIsSublist DEF Kept
<1> QED BY <1>1, <1>2, SublistGoesOn

\* What is being sent comes before what waits, and both before what is to come.
InLine(first, later, n) ==
  /\ Ordered(first) /\ Ordered(later)
  /\ \A x \in Seqs(first), y \in Seqs(later) : x < y
  /\ \A x \in Seqs(first) \cup Seqs(later) : x <= n

LEMMA SeqsOf ==
  /\ Seqs(<<>>) = {} /\ Ordered(<<>>) /\ <<>> \in Seq(Event) /\ Len(<<>>) = 0
  /\ \A s \in Seq(Event) : Seqs(s) \subseteq 1..MaxEvents
<1>1. Seqs(<<>>) = {} /\ Ordered(<<>>) /\ <<>> \in Seq(Event) /\ Len(<<>>) = 0
  BY DEF Seqs, Ordered
<1>2. ASSUME NEW s \in Seq(Event) PROVE Seqs(s) \subseteq 1..MaxEvents
  <2>1. \A i \in DOMAIN s : s[i] \in Event
    OBVIOUS
  <2>2. \A i \in DOMAIN s : s[i].seq \in 1..MaxEvents
    BY <2>1 DEF Event
  <2> QED BY <2>2 DEF Seqs
<1> QED BY <1>1, <1>2

LEMMA LineKept ==
  ASSUME NEW f, NEW l, NEW n, InLine(f, l, n), NEW k, Sublist(k, l)
  PROVE  InLine(f, k, n)
  BY DEF InLine, Sublist

LEMMA LineStarts ==
  ASSUME NEW l, NEW n, InLine(<<>>, l, n)
  PROVE  InLine(l, <<>>, n)
  BY SeqsOf DEF InLine

\* Two lists one after the other.
LEMMA Joined ==
  ASSUME NEW f \in Seq(Event), NEW l \in Seq(Event)
  PROVE  /\ f \o l \in Seq(Event)
         /\ Seqs(f \o l) = Seqs(f) \cup Seqs(l)
         /\ \A n \in Nat : InLine(f, l, n) => InLine(<<>>, f \o l, n)
<1> DEFINE F == Len(f)  L == Len(l)  t == f \o l
<1>1. /\ F \in Nat /\ L \in Nat /\ DOMAIN f = 1..F /\ DOMAIN l = 1..L
      /\ t \in Seq(Event) /\ DOMAIN t = 1..F + L
  OBVIOUS
<1>2. \A i \in 1..F : t[i] = f[i]
  BY <1>1
<1>3. \A i \in 1..L : t[F + i] = l[i]
  BY <1>1
<1> HIDE DEF t, F, L
<1>4. \A i \in 1..F + L : i \in 1..F \/ (i - F \in 1..L /\ i = F + (i - F))
  BY <1>1
<1>5. \A i \in 1..F + L : \/ i \in 1..F /\ t[i] = f[i]
                          \/ i - F \in 1..L /\ t[i] = l[i - F]
  BY <1>2, <1>3, <1>4
<1>6. Seqs(t) \subseteq Seqs(f) \cup Seqs(l)
  BY <1>1, <1>5 DEF Seqs
<1>7. Seqs(f) \subseteq Seqs(t)
  <2>1. \A i \in 1..F : i \in 1..F + L
    BY <1>1
  <2> QED BY <1>1, <1>2, <2>1 DEF Seqs
<1>8. Seqs(l) \subseteq Seqs(t)
  <2>1. \A i \in 1..L : F + i \in 1..F + L
    BY <1>1
  <2> QED BY <1>1, <1>3, <2>1 DEF Seqs
<1>9. ASSUME NEW n \in Nat, InLine(f, l, n) PROVE InLine(<<>>, t, n)
  <2>1. ASSUME NEW i \in 1..F + L, NEW j \in 1..F + L, i < j PROVE t[i].seq < t[j].seq
    <3>1. CASE i \in 1..F /\ j \in 1..F
      BY <1>1, <1>2, <1>9, <2>1, <3>1 DEF InLine, Ordered
    <3>2. CASE i \in 1..F /\ j \notin 1..F
      <4>1. j - F \in 1..L /\ t[j] = l[j - F] /\ t[i] = f[i]
        BY <1>2, <1>5, <3>2
      <4>2. t[i].seq \in Seqs(f) /\ t[j].seq \in Seqs(l)
        BY <1>1, <3>2, <4>1 DEF Seqs
      <4> QED BY <4>2, <1>9 DEF InLine
    <3>3. CASE i \notin 1..F
      <4>1. j \notin 1..F /\ i - F < j - F
        BY <1>1, <2>1, <3>3
      <4>2. i - F \in 1..L /\ t[i] = l[i - F] /\ j - F \in 1..L /\ t[j] = l[j - F]
        BY <1>5, <3>3, <4>1
      <4> QED BY <1>1, <1>9, <4>1, <4>2 DEF InLine, Ordered
    <3> QED BY <3>1, <3>2, <3>3
  <2>2. Ordered(t)
    BY <1>1, <2>1 DEF Ordered
  <2>3. \A x \in Seqs(t) : x <= n
    BY <1>6, <1>9 DEF InLine
  <2> QED BY <2>2, <2>3, SeqsOf DEF InLine
<1> QED BY <1>1, <1>6, <1>7, <1>8, <1>9 DEF t

\* The next event comes last.
LEMMA LineGrows ==
  ASSUME NEW f \in Seq(Event), NEW l \in Seq(Event), NEW n \in Nat, InLine(f, l, n),
         NEW e \in Event, e.seq = n + 1
  PROVE  /\ Append(l, e) \in Seq(Event)
         /\ Seqs(Append(l, e)) = Seqs(l) \cup {n + 1}
         /\ InLine(f, Append(l, e), n + 1)
<1> DEFINE L == Len(l)  t == Append(l, e)
<1>1. /\ L \in Nat /\ DOMAIN l = 1..L /\ t \in Seq(Event) /\ DOMAIN t = 1..L + 1
      /\ t[L + 1] = e /\ \A i \in 1..L : t[i] = l[i]
  OBVIOUS
<1> HIDE DEF t, L
<1>2. Seqs(t) = Seqs(l) \cup {n + 1}
  <2>1. L + 1 \in 1..L + 1 /\ \A i \in 1..L : i \in 1..L + 1
    BY <1>1
  <2>2. \A i \in 1..L + 1 : i \in 1..L \/ i = L + 1
    BY <1>1
  <2>3. Seqs(t) \subseteq Seqs(l) \cup {n + 1}
    BY <1>1, <2>2 DEF Seqs
  <2>4. Seqs(l) \subseteq Seqs(t)
    BY <1>1, <2>1 DEF Seqs
  <2>5. n + 1 \in Seqs(t)
    BY <1>1, <2>1 DEF Seqs
  <2> QED BY <2>3, <2>4, <2>5
<1>3. Ordered(t)
  <2> SUFFICES ASSUME NEW i \in 1..L + 1, NEW j \in 1..L + 1, i < j PROVE t[i].seq < t[j].seq
    BY <1>1 DEF Ordered
  <2>0. i \in 1..L
    BY <1>1
  <2>1. t[i].seq \in Seqs(l)
    BY <1>1, <2>0 DEF Seqs
  <2>2. CASE j = L + 1
    <3>1. t[i].seq \in 1..MaxEvents /\ t[i].seq <= n /\ t[j].seq = n + 1
      BY <1>1, <2>0, <2>1, <2>2, SeqsOf DEF InLine
    <3> QED BY <3>1
  <2>3. CASE j # L + 1
    <3>1. j \in 1..L /\ t[i] = l[i] /\ t[j] = l[j]
      BY <1>1, <2>0, <2>3
    <3>2. \A x, y \in 1..L : x < y => l[x].seq < l[y].seq
      BY <1>1 DEF InLine, Ordered
    <3> QED BY ONLY <2>0, <3>1, <3>2, i < j
  <2> QED BY <2>2, <2>3
<1>4. \A x \in Seqs(f) \cup Seqs(l) : x \in Nat /\ x <= n
  BY SeqsOf DEF InLine
<1> QED BY <1>1, <1>2, <1>3, <1>4 DEF InLine, t

\* A packet is handed over: what was sent before stays sent.
LEMMA HandedOver ==
  ASSUME PublisherTypeOK, NEW events \in Seq(Event), NEW sent \in Nat, sent <= Len(events),
         \A i \in 1..sent : events[i].seq \in Range(delivered),
         HandOver(events, sent)
  PROVE  /\ batch' \in [events : Seq(Event), sent : Nat, aborted : BOOLEAN]
         /\ batch'.events = events /\ ~batch'.aborted /\ batch'.sent <= Len(events)
         /\ delivered' \in Seq(1..MaxEvents) /\ Range(delivered) \subseteq Range(delivered')
         /\ Range(delivered') \subseteq Range(delivered) \cup Seqs(events)
         /\ \A i \in 1..batch'.sent : events[i].seq \in Range(delivered')
<1> DEFINE E == Len(events)
           upto == IF sent + PacketSize < E THEN sent + PacketSize ELSE E
           n == upto - sent
           packet == SubSeq(events, sent + 1, upto)
           more == [i \in 1..n |-> packet[i].seq]
<1>1. E \in Nat /\ PacketSize \in Nat
  BY PublisherAssumption
<1>2. upto \in Nat /\ upto <= E /\ n \in Nat /\ sent + n = upto
  BY <1>1
<1> HIDE DEF upto
<1>3. /\ packet \in Seq(Event) /\ Len(packet) = n
      /\ \A i \in 1..n : packet[i] = events[sent + i]
  <2>1. CASE n = 0
    <3>1. packet = <<>>
      BY <1>2, <2>1, SubSeqEmpty
    <3> HIDE DEF packet
    <3> QED BY <2>1, <3>1
  <2>2. CASE n > 0
    <3>1. sent + 1 \in 1..E /\ upto \in 1..E /\ upto - (sent + 1) + 1 = n
      BY <1>1, <1>2, <2>2
    <3>2. packet \in Seq(Event) /\ Len(packet) = n
      <4>1. \A i \in sent + 1..upto : events[i] \in Event
        BY <1>1, <1>2
      <4>2. sent + 1 \in Int /\ upto \in Int /\ sent + 1 <= upto
        BY <1>2, <2>2
      <4> QED BY <3>1, <4>1, <4>2, SubSeqProperties
    <3>3. ASSUME NEW i \in 1..n PROVE packet[i] = events[sent + i]
      <4>1. packet[i] = events[(sent + 1) + i - 1]
        BY <1>1, <3>1, <3>2
      <4>2. (sent + 1) + i - 1 = sent + i
        BY <1>2
      <4> QED BY <4>1, <4>2
    <3> QED BY <3>2, <3>3
  <2> HIDE DEF n, packet
  <2>3. n = 0 \/ n > 0
    BY <1>2
  <2> QED BY ONLY <2>1, <2>2, <2>3
<1>4. packet = Packet(events, sent)
  BY DEF Packet, upto
<1>5. batch' = [events |-> events, sent |-> upto, aborted |-> FALSE] /\ delivered' = delivered \o more
  BY <1>2, <1>3, <1>4 DEF HandOver
<1> HIDE DEF packet, n, E
<1>6. more \in Seq(1..MaxEvents) /\ Len(more) = n /\ \A i \in 1..n : more[i] = events[sent + i].seq
  <2>1. \A i \in 1..n : packet[i] \in Event
    BY <1>2, <1>3
  <2>2. \A i \in 1..n : packet[i].seq \in 1..MaxEvents
    BY <2>1 DEF Event
  <2>3. more \in [1..n -> 1..MaxEvents]
    BY <2>2
  <2>4. more \in Seq(1..MaxEvents) /\ Len(more) = n
    <3> HIDE DEF more
    <3>1. DOMAIN more = 1..n
      BY <2>3
    <3>2. Seq(1..MaxEvents) = UNION {[1..m -> 1..MaxEvents] : m \in Nat}
      BY ONLY SeqDef
    <3>3. more \in Seq(1..MaxEvents)
      BY ONLY <3>2, <1>2, <2>3, Zenon
    <3> QED BY <1>2, <3>1, <3>3, LenProperties
  <2> QED BY <1>3, <2>4
<1>7. delivered \in Seq(1..MaxEvents)
  BY DEF PublisherTypeOK
<1> HIDE DEF more
<1>8. delivered' \in Seq(1..MaxEvents)
  BY <1>5, <1>6, <1>7
<1>9. /\ DOMAIN delivered = 1..Len(delivered) /\ DOMAIN delivered' = 1..Len(delivered) + n
      /\ Len(delivered) \in Nat
      /\ \A i \in 1..Len(delivered) : delivered'[i] = delivered[i]
      /\ \A i \in 1..n : delivered'[Len(delivered) + i] = more[i]
  <2>1. Len(delivered) \in Nat /\ DOMAIN delivered = 1..Len(delivered)
    BY <1>7
  <2>2. DOMAIN (delivered \o more) = 1..Len(delivered) + n
    <3>1. delivered \o more \in Seq(1..MaxEvents) /\ Len(delivered \o more) = Len(delivered) + n
      <4>1. Len(delivered \o more) = Len(delivered) + Len(more)
        BY ONLY <1>6, <1>7, ConcatProperties
      <4> QED BY ONLY <1>5, <1>6, <1>8, <4>1
    <3> QED BY ONLY <3>1, LenProperties
  <2>3. \A i \in 1..Len(delivered) : (delivered \o more)[i] = delivered[i]
    BY <1>2, <1>6, <1>7
  <2>4. \A i \in 1..n : (delivered \o more)[Len(delivered) + i] = more[i]
    BY <1>2, <1>6, <1>7
  <2> QED BY <1>5, <2>1, <2>2, <2>3, <2>4
<1>10. Range(delivered) \subseteq Range(delivered')
  <2>1. \A i \in 1..Len(delivered) : i \in 1..Len(delivered) + n
    BY <1>2, <1>9
  <2> QED BY <1>9, <2>1 DEF Range
<1>11. ASSUME NEW i \in 1..upto PROVE events[i].seq \in Range(delivered')
  <2>1. CASE i \in 1..sent
    BY <2>1, <1>10
  <2>2. CASE i \notin 1..sent
    <3>1. i - sent \in 1..n /\ sent + (i - sent) = i
      BY <1>2, <2>2
    <3>2. more[i - sent] = events[i].seq
      BY <1>6, <3>1
    <3>3. Len(delivered) + (i - sent) \in 1..Len(delivered) + n
      BY <1>2, <1>9, <3>1
    <3> QED BY <1>9, <3>1, <3>2, <3>3 DEF Range
  <2> QED BY <2>1, <2>2
<1>12. Range(delivered') \subseteq Range(delivered) \cup Seqs(events)
  <2>1. ASSUME NEW i \in 1..Len(delivered) + n
        PROVE  delivered'[i] \in Range(delivered) \cup Seqs(events)
    <3>1. CASE i \in 1..Len(delivered)
      BY <1>9, <3>1 DEF Range
    <3>2. CASE i \notin 1..Len(delivered)
      <4>1. i - Len(delivered) \in 1..n /\ Len(delivered) + (i - Len(delivered)) = i
        BY <1>2, <1>9, <3>2
      <4>2. delivered'[i] = events[sent + (i - Len(delivered))].seq
        BY <1>6, <1>9, <4>1
      <4>3. sent + (i - Len(delivered)) \in 1..E /\ DOMAIN events = 1..E
        BY <1>1, <1>2, <4>1 DEF E
      <4> QED BY <4>2, <4>3 DEF Seqs
    <3> QED BY <3>1, <3>2
  <2> QED BY <1>9, <2>1 DEF Range
<1> QED BY <1>2, <1>5, <1>8, <1>10, <1>11, <1>12 DEF E

\* The batch in flight: its first packets are handed over, and it is aborted only
\* when the publisher is being closed.
SentFine ==
  /\ batch.sent <= Len(batch.events)
  /\ \A i \in 1..batch.sent : batch.events[i].seq \in Range(delivered)
  /\ batch.aborted => phase # "OPEN"

\* The inductive invariant of the publisher.
PublisherInv ==
  /\ PublisherTypeOK
  /\ Len(buffer) <= MaxBufferedEvents
  /\ InLine(batch.events, buffer, lastSeq)
  /\ SentFine
  /\ NoEventVanishes

Batches == [events : Seq(Event), sent : Nat, aborted : BOOLEAN]

LEMMA BatchFields ==
  ASSUME PublisherInv
  PROVE  /\ batch \in Batches /\ batch.events \in Seq(Event) /\ batch.sent \in Nat
         /\ batch.aborted \in BOOLEAN /\ buffer \in Seq(Event) /\ lastSeq \in Nat
         /\ Range(delivered) \subseteq 1..MaxEvents
<1>1. batch \in Batches /\ buffer \in Seq(Event) /\ lastSeq \in Nat
  BY PublisherAssumption DEF PublisherInv, PublisherTypeOK, Batches
<1>2. batch.events \in Seq(Event) /\ batch.sent \in Nat /\ batch.aborted \in BOOLEAN
  BY <1>1 DEF Batches
<1>3. Range(delivered) \subseteq 1..MaxEvents
  <2>0. delivered \in Seq(1..MaxEvents)
    BY DEF PublisherInv, PublisherTypeOK
  <2>1. \A i \in DOMAIN delivered : delivered[i] \in 1..MaxEvents
    BY ONLY <2>0, LenProperties, ElementOfSeq
  <2> QED BY <2>1 DEF Range
<1> QED BY <1>1, <1>2, <1>3

LEMMA NoBatchFits ==
  /\ NoBatch \in Batches /\ NoBatch.events = <<>> /\ NoBatch.sent = 0 /\ ~NoBatch.aborted
<1>1. <<>> \in Seq(Event)
  OBVIOUS
<1> QED BY <1>1 DEF NoBatch, Batches

LEMMA InitPublisher == Init => PublisherInv
<1> SUFFICES ASSUME Init PROVE PublisherInv
  OBVIOUS
<1>1. /\ now = 0 /\ phase = "OPEN" /\ buffer = <<>> /\ ~timer /\ batch = NoBatch /\ lastSeq = 0
      /\ delivered = <<>> /\ dropped = {} /\ timer \in BOOLEAN
      /\ link = [connected |-> TRUE, worker |-> FALSE, failures |-> 0]
  BY DEF Init, PublisherInit
<1>2. <<>> \in Seq(1..MaxEvents) /\ Range(<<>>) = {}
  BY DEF Range
<1>3. PublisherTypeOK
  BY <1>1, <1>2, NoBatchFits, SeqsOf, PublisherAssumption DEF PublisherTypeOK, Batches
<1>4. InLine(batch.events, buffer, lastSeq)
  BY <1>1, NoBatchFits, SeqsOf DEF InLine
<1>5. SentFine
  BY <1>1, NoBatchFits, SeqsOf DEF SentFine
<1>6. NoEventVanishes
  BY <1>1, <1>2, NoBatchFits, SeqsOf DEF NoEventVanishes
<1>7. Len(buffer) <= MaxBufferedEvents
  BY <1>1, SeqsOf, PublisherAssumption DEF TransportConfig
<1> QED BY <1>3, <1>4, <1>5, <1>6, <1>7 DEF PublisherInv

\* A batch that settles leaves some of what there was, in order.
LEMMA SettleFits ==
  ASSUME PublisherInv, NEW events \in Seq(Event), Settle(events),
         InLine(<<>>, events, lastSeq), Len(events) <= MaxBufferedEvents,
         UNCHANGED <<now, lastSeq, delivered>>,
         link' \in [connected : BOOLEAN, worker : BOOLEAN, failures : 0..MaxFailures],
         dropped' \subseteq 1..MaxEvents,
         phase = "OPEN" => 1..lastSeq = Seqs(events) \cup Range(delivered) \cup dropped'
  PROVE  PublisherInv'
<1>1. batch' = NoBatch /\ timer' \in BOOLEAN /\ phase' \in {"OPEN", "CLOSING", "CLOSED"}
  BY DEF Settle, PublisherInv, PublisherTypeOK
<1>2. /\ buffer' = events \/ buffer' = <<>>
      /\ phase' = "OPEN" => phase = "OPEN" /\ buffer' = events
  BY DEF Settle
<1>3. /\ buffer' \in Seq(Event) /\ InLine(<<>>, buffer', lastSeq)
      /\ Len(buffer') <= MaxBufferedEvents
  <2>1. InLine(<<>>, <<>>, lastSeq)
    BY SeqsOf DEF InLine
  <2>2. 0 <= MaxBufferedEvents
    BY PublisherAssumption DEF TransportConfig
  <2> QED BY <1>2, <2>1, <2>2, SeqsOf
<1>4. PublisherTypeOK'
  BY <1>1, <1>3, NoBatchFits DEF PublisherInv, PublisherTypeOK, Batches
<1>5. SentFine' /\ InLine(batch.events, buffer, lastSeq)'
  BY <1>1, <1>3, NoBatchFits, SeqsOf DEF SentFine
<1>6. NoEventVanishes'
  BY <1>1, <1>2, NoBatchFits, SeqsOf DEF NoEventVanishes
<1> QED BY <1>3, <1>4, <1>5, <1>6 DEF PublisherInv

\* Events that waited are taken as a batch, or go on waiting.
LEMMA StartFits ==
  ASSUME PublisherInv, ~Sending, NEW events \in Seq(Event), StartBatch(events),
         lastSeq' \in 0..MaxEvents, InLine(<<>>, events, lastSeq'),
         Len(events) <= MaxBufferedEvents,
         phase' \in {"OPEN", "CLOSING", "CLOSED"}, phase' = "OPEN" => phase = "OPEN",
         UNCHANGED <<now, link>>, dropped' \subseteq 1..MaxEvents,
         phase' = "OPEN" => 1..lastSeq' = Seqs(events) \cup Range(delivered) \cup dropped'
  PROVE  PublisherInv'
<1>0. batch.events = <<>>
  BY DEF Sending
<1>1. CASE UNCHANGED <<batch, delivered>> /\ buffer' = events /\ timer' \in BOOLEAN
  <2>1. PublisherTypeOK'
    BY <1>1 DEF PublisherInv, PublisherTypeOK
  <2>2. SentFine'
    BY <1>1 DEF PublisherInv, SentFine
  <2>3. NoEventVanishes'
    BY <1>0, <1>1, SeqsOf DEF NoEventVanishes
  <2> QED BY <1>0, <1>1, <2>1, <2>2, <2>3 DEF PublisherInv
<1>2. CASE HandOver(events, 0) /\ buffer' = <<>> /\ timer' = FALSE
  <2>1. \A i \in 1..0 : events[i].seq \in Range(delivered)
    OBVIOUS
  <2>2. Len(events) \in Nat /\ 0 <= Len(events) /\ PublisherTypeOK
    BY DEF PublisherInv
  <2>3. /\ batch' \in Batches /\ batch'.events = events /\ ~batch'.aborted
        /\ batch'.sent <= Len(events)
        /\ delivered' \in Seq(1..MaxEvents) /\ Range(delivered) \subseteq Range(delivered')
        /\ Range(delivered') \subseteq Range(delivered) \cup Seqs(events)
        /\ \A i \in 1..batch'.sent : events[i].seq \in Range(delivered')
    BY <1>2, <2>1, <2>2, HandedOver DEF Batches
  <2>4. PublisherTypeOK'
    BY <1>2, <2>2, <2>3, SeqsOf DEF PublisherTypeOK, Batches
  <2>5. SentFine'
    BY <2>3 DEF SentFine
  <2>6. InLine(batch.events, buffer, lastSeq)'
    BY <1>2, <2>3, LineStarts
  <2>7. NoEventVanishes'
    <3> SUFFICES ASSUME phase' = "OPEN"
                 PROVE  1..lastSeq' = Seqs(buffer') \cup Seqs(batch'.events)
                                        \cup Range(delivered') \cup dropped'
      BY DEF NoEventVanishes
    <3> QED BY <1>2, <2>3, SeqsOf
  <2>8. Len(buffer') <= MaxBufferedEvents
    BY <1>2, SeqsOf, PublisherAssumption DEF TransportConfig
  <2> QED BY <2>4, <2>5, <2>6, <2>7, <2>8 DEF PublisherInv
<1> QED BY <1>1, <1>2, SeqsOf DEF StartBatch

\* One more event is buffered, or a last one before the publisher is closed.
LEMMA ExtendedFits ==
  ASSUME PublisherInv, lastSeq < MaxEvents, NEW kind \in Kinds
  PROVE  LET longer == Append(buffer, NewEvent(kind))
         IN /\ Extended(kind) \in Seq(Event) /\ Len(Extended(kind)) <= MaxBufferedEvents
            /\ InLine(batch.events, Extended(kind), lastSeq + 1)
            /\ Seqs(Extended(kind)) \cup GivenUp(longer) = Seqs(buffer) \cup {lastSeq + 1}
            /\ lastSeq + 1 \in 1..MaxEvents
<1> DEFINE e == NewEvent(kind)  longer == Append(buffer, e)
<1>1. lastSeq + 1 \in 1..MaxEvents
  BY BatchFields, PublisherAssumption
<1>2. e \in Event /\ e.seq = lastSeq + 1
  BY <1>1 DEF NewEvent, Event, PublisherInv, PublisherTypeOK
<1> HIDE DEF e
<1>3. /\ longer \in Seq(Event) /\ Seqs(longer) = Seqs(buffer) \cup {lastSeq + 1}
      /\ InLine(batch.events, longer, lastSeq + 1)
  BY <1>2, BatchFields, LineGrows DEF PublisherInv
<1>4. Extended(kind) = Kept(longer)
  BY DEF Extended, e
<1> HIDE DEF longer
<1>5. Sublist(Kept(longer), longer) /\ Len(Kept(longer)) <= MaxBufferedEvents
  BY <1>3, KeptIsSublist
<1>6. Seqs(Kept(longer)) \cup GivenUp(longer) = Seqs(longer)
  BY <1>5 DEF GivenUp, Sublist
<1>7. InLine(batch.events, Kept(longer), lastSeq + 1)
  BY <1>3, <1>5, LineKept
<1> QED BY <1>1, <1>3, <1>4, <1>5, <1>6, <1>7 DEF Sublist, longer, e

LEMMA PublishFits ==
  ASSUME PublisherInv, NEW kind \in Kinds, Publish(kind)
  PROVE  PublisherInv'
<1> DEFINE longer == Append(buffer, NewEvent(kind))
<1>1. /\ phase = "OPEN" /\ lastSeq < MaxEvents /\ lastSeq' = lastSeq + 1
      /\ buffer' = Extended(kind) /\ dropped' = dropped \cup GivenUp(longer) /\ timer' = TRUE
      /\ UNCHANGED <<now, link, phase, batch, delivered>>
  BY DEF Publish
<1>2. /\ buffer' \in Seq(Event) /\ Len(buffer') <= MaxBufferedEvents
      /\ InLine(batch.events, buffer', lastSeq + 1)
      /\ Seqs(buffer') \cup GivenUp(longer) = Seqs(buffer) \cup {lastSeq + 1}
      /\ lastSeq + 1 \in 1..MaxEvents
  BY <1>1, ExtendedFits
<1> HIDE DEF longer
<1>3. GivenUp(longer) \subseteq 1..MaxEvents
  BY <1>2, BatchFields, SeqsOf
<1>4. PublisherTypeOK'
  <2>1. lastSeq + 1 \in 0..MaxEvents
    BY <1>2, PublisherAssumption
  <2>2. dropped \cup GivenUp(longer) \in SUBSET (1..MaxEvents)
    BY <1>3 DEF PublisherInv, PublisherTypeOK
  <2> QED BY <1>1, <1>2, <2>1, <2>2 DEF PublisherInv, PublisherTypeOK
<1>5. SentFine'
  BY <1>1 DEF PublisherInv, SentFine
<1>6. NoEventVanishes'
  <2>1. 1..lastSeq + 1 = 1..lastSeq \cup {lastSeq + 1}
    BY BatchFields
  <2>2. 1..lastSeq = Seqs(buffer) \cup Seqs(batch.events) \cup Range(delivered) \cup dropped
    BY <1>1 DEF PublisherInv, NoEventVanishes
  <2> QED BY <1>1, <1>2, <2>1, <2>2 DEF NoEventVanishes
<1> QED BY <1>1, <1>2, <1>4, <1>5, <1>6 DEF PublisherInv

\* What is given up are events there were.
LEMMA GivenUpOf ==
  ASSUME NEW s \in Seq(Event)
  PROVE  /\ GivenUp(s) \subseteq 1..MaxEvents
         /\ Seqs(Kept(s)) \cup GivenUp(s) = Seqs(s)
         /\ Seqs(Unexpired(s)) \cup GivenUp(s) = Seqs(s)
  BY KeptIsSublist, UnexpiredIsSublist, SeqsOf DEF GivenUp, Sublist

LEMMA TimerFits ==
  ASSUME PublisherInv, FlushTimer
  PROVE  PublisherInv'
<1>1. timer /\ UNCHANGED <<now, link, phase, lastSeq>>
  BY DEF FlushTimer
<1>2. CASE Sending
  <2>1. timer' = FALSE /\ UNCHANGED <<buffer, batch, delivered, dropped>>
    BY <1>2 DEF FlushTimer
  <2> QED BY <1>1, <2>1 DEF PublisherInv, PublisherTypeOK, SentFine, NoEventVanishes
<1>3. CASE ~Sending
  <2>1. StartBatch(Unexpired(buffer)) /\ dropped' = dropped \cup GivenUp(buffer)
    BY <1>3 DEF FlushTimer
  <2>2. Sublist(Unexpired(buffer), buffer) /\ batch.events = <<>>
    BY <1>3, BatchFields, UnexpiredIsSublist DEF Sending
  <2>3. /\ Unexpired(buffer) \in Seq(Event) /\ Len(Unexpired(buffer)) <= MaxBufferedEvents
        /\ InLine(<<>>, Unexpired(buffer), lastSeq)
    <3>1. InLine(<<>>, buffer, lastSeq) /\ Len(buffer) <= MaxBufferedEvents
      BY <2>2 DEF PublisherInv
    <3>2. Unexpired(buffer) \in Seq(Event) /\ Len(Unexpired(buffer)) <= Len(buffer)
      BY <2>2 DEF Sublist
    <3>3. Len(buffer) \in Nat /\ Len(Unexpired(buffer)) \in Nat /\ MaxBufferedEvents \in Nat
      BY <3>2, BatchFields, PublisherAssumption DEF TransportConfig
    <3> QED BY <2>2, <3>1, <3>2, <3>3, LineKept
  <2>4. GivenUp(buffer) \subseteq 1..MaxEvents /\ Seqs(Unexpired(buffer)) \cup GivenUp(buffer) = Seqs(buffer)
    BY BatchFields, GivenUpOf
  <2>5. dropped' \subseteq 1..MaxEvents
    BY <2>1, <2>4 DEF PublisherInv, PublisherTypeOK
  <2>6. phase' = "OPEN" => 1..lastSeq' = Seqs(Unexpired(buffer)) \cup Range(delivered) \cup dropped'
    BY <1>1, <2>1, <2>2, <2>4, SeqsOf DEF PublisherInv, NoEventVanishes
  <2>7. phase' \in {"OPEN", "CLOSING", "CLOSED"} /\ lastSeq' \in 0..MaxEvents
    BY <1>1 DEF PublisherInv, PublisherTypeOK
  <2> QED BY <1>1, <1>3, <2>1, <2>3, <2>5, <2>6, <2>7, StartFits
<1> QED BY <1>2, <1>3

\* A batch comes back in front of what arrived meanwhile.
LEMMA RestoredFits ==
  ASSUME PublisherInv
  PROVE  LET all == batch.events \o buffer
         IN /\ Restored(batch.events, buffer) \in Seq(Event)
            /\ InLine(<<>>, Restored(batch.events, buffer), lastSeq)
            /\ Len(Restored(batch.events, buffer)) <= MaxBufferedEvents
            /\ GivenUp(all) \subseteq 1..MaxEvents
            /\ Seqs(Restored(batch.events, buffer)) \cup GivenUp(all)
                 = Seqs(buffer) \cup Seqs(batch.events)
<1> DEFINE all == batch.events \o buffer
<1>1. all \in Seq(Event) /\ Seqs(all) = Seqs(batch.events) \cup Seqs(buffer) /\ InLine(<<>>, all, lastSeq)
  BY BatchFields, Joined DEF PublisherInv
<1>2. Restored(batch.events, buffer) = Kept(all)
  BY DEF Restored
<1> HIDE DEF all
<1>3. Sublist(Kept(all), all) /\ Len(Kept(all)) <= MaxBufferedEvents
  BY <1>1, KeptIsSublist
<1>4. Kept(all) \in Seq(Event) /\ InLine(<<>>, Kept(all), lastSeq)
  BY <1>1, <1>3, LineKept DEF Sublist
<1>5. GivenUp(all) \subseteq 1..MaxEvents /\ Seqs(Kept(all)) \cup GivenUp(all) = Seqs(all)
  BY <1>1, GivenUpOf
<1> QED BY <1>1, <1>2, <1>3, <1>4, <1>5 DEF all

LEMMA SentFits ==
  ASSUME PublisherInv, PacketSent
  PROVE  PublisherInv'
<1>1. Sending /\ UNCHANGED <<now, link, lastSeq>>
  BY DEF PacketSent
<1>2. CASE batch.sent = Len(batch.events)
  <2>1. Settle(buffer) /\ UNCHANGED <<delivered, dropped>>
    BY <1>2 DEF PacketSent
  <2>2. Seqs(batch.events) \subseteq Range(delivered)
    <3>1. DOMAIN batch.events = 1..batch.sent
      BY <1>2, BatchFields
    <3> QED BY <3>1 DEF PublisherInv, SentFine, Seqs
  <2>3. InLine(<<>>, buffer, lastSeq)
    BY SeqsOf DEF PublisherInv, InLine
  <2>4. phase = "OPEN" => 1..lastSeq = Seqs(buffer) \cup Range(delivered) \cup dropped'
    BY <2>1, <2>2 DEF PublisherInv, NoEventVanishes
  <2>5. buffer \in Seq(Event) /\ Len(buffer) <= MaxBufferedEvents /\ dropped' \subseteq 1..MaxEvents
        /\ link' \in [connected : BOOLEAN, worker : BOOLEAN, failures : 0..MaxFailures]
    BY <1>1, <2>1 DEF PublisherInv, PublisherTypeOK
  <2> QED BY <1>1, <2>1, <2>3, <2>4, <2>5, SettleFits
<1>3. CASE batch.sent # Len(batch.events) /\ batch.aborted
  <2>1. Settle(Restored(batch.events, buffer)) /\ UNCHANGED <<delivered, dropped>>
    BY <1>3 DEF PacketSent
  <2>2. phase # "OPEN"
    BY <1>3 DEF PublisherInv, SentFine
  <2>3. /\ Restored(batch.events, buffer) \in Seq(Event)
        /\ InLine(<<>>, Restored(batch.events, buffer), lastSeq)
        /\ Len(Restored(batch.events, buffer)) <= MaxBufferedEvents
    BY RestoredFits
  <2>4. dropped' \subseteq 1..MaxEvents
        /\ link' \in [connected : BOOLEAN, worker : BOOLEAN, failures : 0..MaxFailures]
    BY <1>1, <2>1 DEF PublisherInv, PublisherTypeOK
  <2> QED BY <1>1, <2>1, <2>2, <2>3, <2>4, SettleFits
<1>4. CASE batch.sent # Len(batch.events) /\ ~batch.aborted
  <2>1. HandOver(batch.events, batch.sent) /\ UNCHANGED <<phase, buffer, timer, dropped>>
    BY <1>4 DEF PacketSent
  <2>2. /\ batch' \in Batches /\ batch'.events = batch.events /\ ~batch'.aborted
        /\ batch'.sent <= Len(batch.events)
        /\ delivered' \in Seq(1..MaxEvents) /\ Range(delivered) \subseteq Range(delivered')
        /\ Range(delivered') \subseteq Range(delivered) \cup Seqs(batch.events)
        /\ \A i \in 1..batch'.sent : batch.events[i].seq \in Range(delivered')
    BY <2>1, BatchFields, HandedOver DEF PublisherInv, SentFine, Batches
  <2>3. PublisherTypeOK'
    BY <1>1, <2>1, <2>2 DEF PublisherInv, PublisherTypeOK, Batches
  <2>4. SentFine'
    BY <2>2 DEF SentFine
  <2>5. NoEventVanishes'
    BY <1>1, <2>1, <2>2 DEF PublisherInv, NoEventVanishes
  <2> QED BY <1>1, <2>1, <2>2, <2>3, <2>4, <2>5 DEF PublisherInv
<1> QED BY <1>2, <1>3, <1>4

LEMMA FailureFits ==
  ASSUME PublisherInv, PacketFails
  PROVE  PublisherInv'
<1>1. /\ Settle(Restored(batch.events, buffer)) /\ UNCHANGED <<now, lastSeq, delivered>>
      /\ dropped' = dropped \cup GivenUp(batch.events \o buffer)
      /\ link.failures < MaxFailures /\ link' = [link EXCEPT !.failures = @ + 1]
  BY DEF PacketFails
<1>2. link' \in [connected : BOOLEAN, worker : BOOLEAN, failures : 0..MaxFailures]
  <2>1. link \in [connected : BOOLEAN, worker : BOOLEAN, failures : 0..MaxFailures]
    BY DEF PublisherInv, PublisherTypeOK
  <2>2. link.failures + 1 \in 0..MaxFailures
    BY <1>1, <2>1, PublisherAssumption
  <2> QED BY <1>1, <2>1, <2>2
<1>3. dropped' \subseteq 1..MaxEvents
  BY <1>1, RestoredFits DEF PublisherInv, PublisherTypeOK
<1>4. phase = "OPEN" => 1..lastSeq = Seqs(Restored(batch.events, buffer)) \cup Range(delivered) \cup dropped'
  BY <1>1, RestoredFits DEF PublisherInv, NoEventVanishes
<1> QED BY <1>1, <1>2, <1>3, <1>4, RestoredFits, SettleFits

\* The publisher is closed and keeps nothing.
LEMMA ClosedFits ==
  ASSUME PublisherInv, ~Sending, phase' = "CLOSED", buffer' = <<>>, timer' = FALSE,
         UNCHANGED <<now, link, delivered, dropped, batch>>, lastSeq' \in 0..MaxEvents
  PROVE  PublisherInv'
<1>1. PublisherTypeOK'
  BY SeqsOf DEF PublisherInv, PublisherTypeOK
<1>2. SentFine' /\ NoEventVanishes'
  BY DEF PublisherInv, SentFine, NoEventVanishes
<1>3. InLine(batch.events, buffer, lastSeq)'
  <2>1. batch.events = <<>>
    BY DEF Sending
  <2> QED BY <2>1, SeqsOf DEF InLine
<1>4. Len(buffer') <= MaxBufferedEvents
  BY SeqsOf, PublisherAssumption DEF TransportConfig
<1> QED BY <1>1, <1>2, <1>3, <1>4 DEF PublisherInv

LEMMA DiscardFits ==
  ASSUME PublisherInv, CloseDiscarding
  PROVE  PublisherInv'
<1>1. timer' = FALSE /\ UNCHANGED <<now, link, lastSeq, delivered, dropped>>
  BY DEF CloseDiscarding
<1>2. CASE Sending
  <2>1. phase' = "CLOSING" /\ batch' = [batch EXCEPT !.aborted = TRUE] /\ UNCHANGED buffer
    BY <1>2 DEF CloseDiscarding
  <2>2. batch' \in Batches /\ batch'.events = batch.events /\ batch'.sent = batch.sent
    BY <2>1, BatchFields DEF Batches
  <2>3. PublisherTypeOK'
    BY <1>1, <2>1, <2>2 DEF PublisherInv, PublisherTypeOK, Batches
  <2>4. SentFine' /\ NoEventVanishes'
    BY <1>1, <2>1, <2>2 DEF PublisherInv, SentFine, NoEventVanishes
  <2> QED BY <1>1, <2>1, <2>2, <2>3, <2>4 DEF PublisherInv
<1>3. CASE ~Sending
  <2>1. phase' = "CLOSED" /\ buffer' = <<>> /\ UNCHANGED batch
    BY <1>3 DEF CloseDiscarding
  <2>2. lastSeq' \in 0..MaxEvents
    BY <1>1 DEF PublisherInv, PublisherTypeOK
  <2>3. UNCHANGED <<now, link, delivered, dropped, batch>>
    BY <1>1, <2>1
  <2> QED BY <1>1, <1>3, <2>1, <2>2, <2>3, ClosedFits
<1> QED BY <1>2, <1>3

LEMMA FlushingFits ==
  ASSUME PublisherInv, NEW events \in Seq(Event), CloseFlushing(events),
         lastSeq' \in 0..MaxEvents, InLine(batch.events, events, lastSeq'),
         Len(events) <= MaxBufferedEvents, UNCHANGED <<now, link, dropped>>
  PROVE  PublisherInv'
<1>1. CASE Sending
  <2>1. phase' = "CLOSING" /\ buffer' = events /\ timer' = FALSE /\ UNCHANGED <<batch, delivered>>
    BY <1>1 DEF CloseFlushing
  <2>2. PublisherTypeOK'
    BY <2>1 DEF PublisherInv, PublisherTypeOK
  <2>3. SentFine' /\ NoEventVanishes'
    BY <2>1 DEF PublisherInv, SentFine, NoEventVanishes
  <2> QED BY <2>1, <2>2, <2>3 DEF PublisherInv
<1>2. CASE ~Sending /\ phase' = "CLOSING" /\ StartBatch(Unexpired(events))
  <2>1. Sublist(Unexpired(events), events) /\ batch.events = <<>>
    BY <1>2, UnexpiredIsSublist DEF Sending
  <2>2. Unexpired(events) \in Seq(Event) /\ Len(Unexpired(events)) <= Len(events)
    BY <2>1 DEF Sublist
  <2>3. Len(events) \in Nat /\ Len(Unexpired(events)) \in Nat /\ MaxBufferedEvents \in Nat
    BY <2>2, PublisherAssumption DEF TransportConfig
  <2>4. InLine(<<>>, Unexpired(events), lastSeq')
    BY <2>1, LineKept
  <2>5. dropped' \subseteq 1..MaxEvents
    BY DEF PublisherInv, PublisherTypeOK
  <2> QED BY <1>2, <2>2, <2>3, <2>4, <2>5, StartFits
<1>3. CASE ~Sending /\ phase' = "CLOSED" /\ buffer' = <<>> /\ timer' = FALSE /\ UNCHANGED <<batch, delivered>>
  BY <1>3, ClosedFits
<1> QED BY <1>1, <1>2, <1>3 DEF CloseFlushing

LEMMA NextPublisher == PublisherInv /\ [Next]_vars => PublisherInv'
<1> SUFFICES ASSUME PublisherInv, [Next]_vars PROVE PublisherInv'
  OBVIOUS
<1>0. CASE UNCHANGED publisherVars
  BY <1>0 DEF publisherVars, PublisherInv, PublisherTypeOK, SentFine, NoEventVanishes
<1>1. CASE UNCHANGED vars \/ WorkerSeen \/ Start \/ CaptureStep \/ WorkerFails
           \/ InitializationTimeout \/ WorkerDisposed
  <2> UNCHANGED publisherVars
    BY <1>1 DEF vars, WorkerSeen, Start, CaptureStep, WorkerFails, InitializationTimeout, WorkerDisposed
  <2> QED BY <1>0
<1>2. CASE FrameResult
  BY <1>0, <1>2, PublishFits DEF FrameResult
<1>3. CASE WithdrawConsent
  BY <1>0, <1>3, DiscardFits DEF WithdrawConsent
<1>4. CASE LeaveSession
  <2>1. UNCHANGED <<now, link, dropped>>
    BY <1>4 DEF LeaveSession
  <2>2. CASE CloseFlushing(buffer) /\ UNCHANGED lastSeq
    <3>1. buffer \in Seq(Event) /\ Len(buffer) <= MaxBufferedEvents /\ lastSeq' \in 0..MaxEvents
          /\ InLine(batch.events, buffer, lastSeq')
      BY <2>2 DEF PublisherInv, PublisherTypeOK
    <3> QED BY <2>1, <2>2, <3>1, FlushingFits
  <2>3. CASE lastSeq < MaxEvents /\ CloseFlushing(Extended("behavior")) /\ lastSeq' = lastSeq + 1
    <3>1. "behavior" \in Kinds
      BY DEF Kinds
    <3>2. /\ Extended("behavior") \in Seq(Event) /\ Len(Extended("behavior")) <= MaxBufferedEvents
          /\ InLine(batch.events, Extended("behavior"), lastSeq') /\ lastSeq' \in 0..MaxEvents
      BY <2>3, <3>1, ExtendedFits
    <3> QED BY <2>1, <2>3, <3>2, FlushingFits
  <2> QED BY <1>4, <2>2, <2>3 DEF LeaveSession
<1>5. CASE BatchStep
  BY <1>5, SentFits, FailureFits DEF BatchStep
<1>6. CASE PublisherStep
  <2>1. CASE Tick \/ LinkChanges
    <3>1. now' \in 0..MaxTime /\ UNCHANGED <<phase, buffer, timer, batch, lastSeq, delivered, dropped>>
      BY <2>1, PublisherAssumption DEF Tick, LinkChanges, PublisherInv, PublisherTypeOK
    <3>2. link' \in [connected : BOOLEAN, worker : BOOLEAN, failures : 0..MaxFailures]
      BY <2>1, PublisherAssumption DEF Tick, LinkChanges, PublisherInv, PublisherTypeOK
    <3> QED BY <3>1, <3>2 DEF PublisherInv, PublisherTypeOK, SentFine, NoEventVanishes
  <2> QED BY <1>6, <2>1, TimerFits DEF PublisherStep
<1> QED BY <1>1, <1>2, <1>3, <1>4, <1>5, <1>6 DEF Next

\* What waits is in the order of its numbers, the failed batch in front.
LEMMA LineIncreases == PublisherInv => EventsStayInOrder
<1> SUFFICES ASSUME PublisherInv PROVE EventsStayInOrder
  OBVIOUS
<1> DEFINE all == batch.events \o buffer
<1>1. InLine(<<>>, all, lastSeq)
  BY BatchFields, Joined DEF PublisherInv
<1> HIDE DEF all
<1>2. Ordered(all)
  BY <1>1 DEF InLine
<1>3. DOMAIN Numbers(all) = DOMAIN all /\ \A i \in DOMAIN all : Numbers(all)[i] = all[i].seq
  BY DEF Numbers
<1>4. Increasing(Numbers(all))
  BY <1>2, <1>3 DEF Ordered, Increasing
<1> QED BY <1>4 DEF all, EventsStayInOrder

LEMMA HookTypes ==
  LET HookOK == consent \in BOOLEAN /\ joined \in BOOLEAN /\ runtime \in Runtimes
  IN  /\ Init => HookOK
      /\ HookOK /\ [Next]_vars => HookOK'
<1> DEFINE HookOK == consent \in BOOLEAN /\ joined \in BOOLEAN /\ runtime \in Runtimes
<1>1. Init => HookOK
  BY DEF Init, Runtimes
<1>2. ASSUME HookOK, [Next]_vars PROVE HookOK'
  <2>1. CASE UNCHANGED hookVars
    BY <1>2, <2>1 DEF hookVars
  <2>2. CASE UNCHANGED vars \/ CaptureStep \/ FrameResult \/ InitializationTimeout \/ PublisherStep
    BY <2>1, <2>2 DEF vars, CaptureStep, FrameResult, InitializationTimeout, PublisherStep
  <2>3. CASE WorkerSeen \/ Start \/ WorkerFails \/ WorkerDisposed
    BY <1>2, <2>3 DEF WorkerSeen, Start, WorkerFails, WorkerDisposed, Runtimes
  <2>4. CASE WithdrawConsent \/ LeaveSession \/ BatchStep
    BY <1>2, <2>1, <2>4 DEF WithdrawConsent, LeaveSession, BatchStep, DisposeResources, Runtimes
  <2> QED BY <1>2, <2>2, <2>3, <2>4 DEF Next
<1> QED BY <1>1, <1>2

\* Every variable of a run of the hook keeps its type (the capture's, the
\* publisher's and the hook's own).
THEOREM SessionTypes == Spec => []TypeOK
<1> DEFINE HookOK == consent \in BOOLEAN /\ joined \in BOOLEAN /\ runtime \in Runtimes
<1>1. CaptureTypeOK /\ PublisherInv /\ HookOK => TypeOK
  BY DEF PublisherInv, TypeOK, Runtimes
<1>2. (Init => HookOK) /\ (HookOK /\ [Next]_vars => HookOK')
  BY HookTypes
<1> HIDE DEF HookOK
<1> QED BY <1>1, <1>2, CaptureTypes, InitPublisher, NextPublisher, PTL DEF Spec

\* A batch that fails goes back in front of what arrived meanwhile
\* (sendCurrentBuffer() in VisionEventPublisher), whatever expires or is given
\* up for capacity: what waits is always in the order it happened.
THEOREM EventsWaitInOrder == Spec => []EventsStayInOrder
  BY InitPublisher, NextPublisher, LineIncreases, PTL DEF Spec

\* While the publisher is open every event is waiting, in flight, handed over, or
\* was given up for its age or for capacity.
THEOREM EventsAreAccounted == Spec => []NoEventVanishes
<1>1. PublisherInv => NoEventVanishes
  BY DEF PublisherInv
<1> QED BY <1>1, InitPublisher, NextPublisher, PTL DEF Spec

\* The buffer holds no more than its capacity, also when a failed batch returns to
\* it (enforceCapacity()).
THEOREM BufferIsBounded == Spec => [](Len(buffer) <= MaxBufferedEvents)
<1>1. PublisherInv => Len(buffer) <= MaxBufferedEvents
  BY DEF PublisherInv
<1> QED BY <1>1, InitPublisher, NextPublisher, PTL DEF Spec
==============================================================================
