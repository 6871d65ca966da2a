--------------------------- MODULE VisionCapture ---------------------------
(***************************************************************************)
(* The camera side of one run of useVisionAnalysis: the FrameSampler that  *)
(* takes frames from the video element, the VisionWorkerClient that owns   *)
(* the protocol with the worker thread, and vision.worker itself.          *)
(*                                                                         *)
(* The main thread and the worker run concurrently and exchange messages   *)
(* in order.  A promise that is settled runs its continuation before the   *)
(* next task of the main thread, so a handler and the continuations it     *)
(* wakes are one action.  What a frame's result starts, and what cleaning  *)
(* up waits for, belong to VisionSession, which composes these actions     *)
(* with the publisher.                                                     *)
(*                                                                         *)
(* MaxFrames bounds the frames captured.  Pixels, landmarks and durations  *)
(* are left out; the sampling interval is the freedom not to take a frame. *)
(***************************************************************************)
EXTENDS Naturals, Sequences

CONSTANTS MaxFrames

ASSUME MaxFramesAssumption == MaxFrames \in Nat

VARIABLES
  status,    \* what the hook reports
  sampler,   \* FrameSampler: running, the step of the frame in flight, frameId
  client,    \* VisionWorkerClient: what it awaits; pending is 0 or a frame
  worker     \* the thread, its adapters, and the two message queues

captureVars == <<status, sampler, client, worker>>

Statuses == {"WAITING_FOR_AI_WORKER", "STARTING", "RUNNING", "UNAVAILABLE", "IDLE"}

Request == [type : {"INITIALIZE", "PROCESS_FRAME", "DISPOSE"}, frame : 0..MaxFrames]
Response == [type : {"READY", "FRAME_RESULT", "FRAME_ERROR", "FATAL_ERROR", "DISPOSED"},
             frame : 0..MaxFrames]

Message(type, frame) == [type |-> type, frame |-> frame]

CaptureTypeOK ==
  /\ status \in Statuses
  /\ sampler \in [running : BOOLEAN, capture : {"NONE", "BITMAP", "CONSUMING"},
                  frameId : 0..MaxFrames]
  /\ client \in [initializing : BOOLEAN, initialized : BOOLEAN, disposed : BOOLEAN,
                 disposal : BOOLEAN, pending : 0..MaxFrames]
  /\ worker \in [alive : BOOLEAN, loading : BOOLEAN, ready : BOOLEAN,
                 inbox : Seq(Request), outbox : Seq(Response)]

CaptureInit ==
  /\ status = "WAITING_FOR_AI_WORKER"
  /\ sampler = [running |-> FALSE, capture |-> "NONE", frameId |-> 0]
  /\ client = [initializing |-> FALSE, initialized |-> FALSE, disposed |-> FALSE,
               disposal |-> FALSE, pending |-> 0]
  /\ worker = [alive |-> FALSE, loading |-> FALSE, ready |-> FALSE,
               inbox |-> <<>>, outbox |-> <<>>]

----------------------------------------------------------------------------
(* The worker thread. *)

Terminated == [worker EXCEPT !.alive = FALSE, !.inbox = <<>>, !.outbox = <<>>]

Respond(w, response) == [w EXCEPT !.outbox = Append(@, response)]

Received(type) ==
  /\ worker.alive
  /\ worker.inbox # <<>>
  /\ Head(worker.inbox).type = type

\* initialize() runs to its first await; the adapters of before are closed.
WorkerInitialize ==
  /\ Received("INITIALIZE")
  /\ worker' = [worker EXCEPT !.inbox = Tail(@), !.loading = TRUE]
  /\ UNCHANGED <<status, sampler, client>>

\* The models are loaded, or one of them cannot be.  The messages received in
\* between were handled meanwhile, a DISPOSE too.
WorkerLoads(ok) ==
  /\ worker.alive /\ worker.loading
  /\ worker' = Respond([worker EXCEPT !.loading = FALSE, !.ready = ok],
                       Message(IF ok THEN "READY" ELSE "FATAL_ERROR", 0))
  /\ UNCHANGED <<status, sampler, client>>

\* Mutant of WorkerProcess: a frame that fails is answered twice.
WorkerProcessTwice ==
  /\ Received("PROCESS_FRAME")
  /\ worker' = Respond(Respond([worker EXCEPT !.inbox = Tail(@)],
                               Message("FRAME_RESULT", Head(worker.inbox).frame)),
                       Message("FRAME_ERROR", Head(worker.inbox).frame))
  /\ UNCHANGED <<status, sampler, client>>

\* processFrame() answers in the same task, with an error when the adapters are
\* gone or inference fails, and closes the bitmap in every case.
WorkerProcess ==
  /\ Received("PROCESS_FRAME")
  /\ \E type \in {"FRAME_RESULT", "FRAME_ERROR"} :
       /\ type = "FRAME_RESULT" => worker.ready
       /\ worker' = Respond([worker EXCEPT !.inbox = Tail(@)],
                            Message(type, Head(worker.inbox).frame))
  /\ UNCHANGED <<status, sampler, client>>

\* Mutant of WorkerDispose: the worker goes without a word.
WorkerDisposeMute ==
  /\ Received("DISPOSE")
  /\ worker' = [worker EXCEPT !.inbox = Tail(@), !.ready = FALSE]
  /\ UNCHANGED <<status, sampler, client>>

WorkerDispose ==
  /\ Received("DISPOSE")
  /\ worker' = Respond([worker EXCEPT !.inbox = Tail(@), !.ready = FALSE],
                       Message("DISPOSED", 0))
  /\ UNCHANGED <<status, sampler, client>>

----------------------------------------------------------------------------
(* The client. *)

Post(request) == [worker EXCEPT !.inbox = Append(@, request)]

\* The effect creates worker, client and sampler and calls initialize().
Initialize ==
  /\ status = "WAITING_FOR_AI_WORKER"
  /\ status' = "STARTING"
  /\ client' = [client EXCEPT !.initializing = TRUE]
  /\ worker' = [worker EXCEPT !.alive = TRUE, !.inbox = <<Message("INITIALIZE", 0)>>]
  /\ UNCHANGED sampler

Incoming(type) ==
  /\ worker.alive
  /\ worker.outbox # <<>>
  /\ Head(worker.outbox).type = type

\* READY resolves initialize(); its then() starts the sampler unless the effect
\* has been cleaned up.
HandleReady(cleaned) ==
  /\ Incoming("READY")
  /\ worker' = [worker EXCEPT !.outbox = Tail(@)]
  /\ client' = [client EXCEPT !.initializing = FALSE, !.initialized = TRUE]
  /\ IF client.initializing /\ ~cleaned
     THEN /\ status' = "RUNNING"
          /\ sampler' = [sampler EXCEPT !.running = TRUE]
     ELSE UNCHANGED <<status, sampler>>

\* Mutant of EndCapture: the sampler never hears that its frame was answered.
EndCaptureNever == sampler

\* The capture that awaits the answer ends with it; without one the answer is
\* dropped.
EndCapture == [sampler EXCEPT !.capture = IF @ = "CONSUMING" THEN "NONE" ELSE @]

HandleFrameAnswer(type) ==
  /\ Incoming(type)
  /\ worker' = [worker EXCEPT !.outbox = Tail(@)]
  /\ client' = [client EXCEPT !.pending = 0]
  /\ sampler' = IF client.pending = 0 THEN sampler ELSE EndCapture
  /\ UNCHANGED status

\* failAll() and detachAndTerminate(), then onFatalError(): whatever is awaited
\* is rejected, and a hook still in place stops sampling and reports it.
Fail(cleaned) ==
  /\ client' = [client EXCEPT !.initializing = FALSE, !.initialized = FALSE,
                !.disposal = FALSE, !.pending = 0, !.disposed = TRUE]
  /\ worker' = Terminated
  /\ LET released == IF client.pending = 0 THEN sampler ELSE EndCapture
     IN  sampler' = IF cleaned THEN released ELSE [released EXCEPT !.running = FALSE]
  /\ status' = IF cleaned THEN status ELSE "UNAVAILABLE"

HandleFatalError(cleaned) ==
  /\ Incoming("FATAL_ERROR")
  /\ Fail(cleaned)

\* An error event of the thread.
HandleWorkerError(cleaned) ==
  /\ worker.alive
  /\ Fail(cleaned)

\* The initialisation timer: only initialize() is rejected.
InitializationTimesOut(cleaned) ==
  /\ client.initializing
  /\ client' = [client EXCEPT !.initializing = FALSE, !.disposed = TRUE]
  /\ worker' = Terminated
  /\ sampler' = IF cleaned THEN sampler ELSE [sampler EXCEPT !.running = FALSE]
  /\ status' = IF cleaned THEN status ELSE "UNAVAILABLE"

\* dispose() with the worker still there; otherwise it has nothing to do.
Dispose ==
  IF client.disposed THEN UNCHANGED <<client, worker>>
  ELSE /\ client' = [client EXCEPT !.disposal = TRUE]
       /\ worker' = Post(Message("DISPOSE", 0))

\* DISPOSED settles dispose() and nothing else: a frame still pending stays so.
HandleDisposed ==
  /\ Incoming("DISPOSED")
  /\ client' = [client EXCEPT !.disposed = TRUE, !.initialized = FALSE,
                !.disposal = FALSE, !.initializing = FALSE]
  /\ worker' = Terminated
  /\ UNCHANGED <<status, sampler>>

----------------------------------------------------------------------------
(* The sampler. *)

\* onFrameAvailable() past its early returns: the interval has passed, no frame
\* is in flight, the video has a size.
FrameAvailable ==
  /\ sampler.running
  /\ sampler.capture = "NONE"
  /\ sampler.frameId < MaxFrames
  /\ sampler' = [sampler EXCEPT !.capture = "BITMAP"]
  /\ UNCHANGED <<status, client, worker>>

BitmapFails ==
  /\ sampler.capture = "BITMAP"
  /\ sampler' = [sampler EXCEPT !.capture = "NONE"]
  /\ UNCHANGED <<status, client, worker>>

\* captureAndConsume() hands the bitmap over whether or not the sampler still
\* runs; processFrame() refuses it unless the client is ready and idle.
BitmapReady ==
  /\ sampler.capture = "BITMAP"
  /\ LET id == sampler.frameId + 1 IN
     IF client.initialized /\ ~client.disposed /\ client.pending = 0
     THEN /\ sampler' = [sampler EXCEPT !.capture = "CONSUMING", !.frameId = id]
          /\ client' = [client EXCEPT !.pending = id]
          /\ worker' = Post(Message("PROCESS_FRAME", id))
     ELSE /\ sampler' = [sampler EXCEPT !.capture = "NONE", !.frameId = id]
          /\ UNCHANGED <<client, worker>>
  /\ UNCHANGED status
============================================================================
