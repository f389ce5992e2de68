---------------------------- MODULE EngineServer ----------------------------
(***************************************************************************)
(* The engine process: native/engine/src/server.cpp with the input side of *)
(* codec.cpp (NdjsonDecoder) and the contract of runtime.hpp.  Three       *)
(* threads: the main thread reads frames and handles them one by one, the  *)
(* worker runs one job at a time on the runtime, and the writer moves the  *)
(* output queue to stdout.  They share                                     *)
(*   stateMutex   state, activeSynthesisId/activeToken, loaded             *)
(*   jobMutex     pendingJob, workerStop                                   *)
(*   writerMutex  writerQueue, writerClosed                                *)
(* A critical section that calls nothing that blocks is one action.  The   *)
(* worker keeps stateMutex while it queues a job's response, so that       *)
(* section is two actions and StateMutexFree guards every other section.   *)
(***************************************************************************)
EXTENDS EngineMessages, FiniteSets

CONSTANTS
  Offered,      \* Offered[i]: what the client may send as its i-th frame
  MaxAhead,     \* bound on the frames the client has written and the engine not begun
  Awaited,      \* how many of its first frames the client waits to see answered
  MaxChunks     \* bound on the audio messages of one synthesis

MaxRequests == Len(Offered)
Ids == 1 .. MaxRequests

Input == [method : Methods, target : Nat, fault : Faults \cup {TooLarge}]

ASSUME OfferedAssumption == Offered \in Seq(SUBSET Input)
ASSUME BoundsAssumption == MaxChunks \in Nat /\ MaxAhead \in Nat /\ Awaited \in Nat

VARIABLES
  sent,             \* every frame the client wrote to stdin, oldest first
  stdinOpen,        \* the client has not closed its end of stdin
  fetched,          \* frames the decoder has taken out of the pipe
  handled,          \* frames handed to handleFrame: FdLineSource::pending_
                    \*   is sent[handled+1 .. fetched]
  framingFailed,    \* NdjsonDecoder::failed_
  mainPc,           \* where the main thread is
  reply,            \* the response the main thread is about to queue
  state,            \* EngineState
  loaded,           \* a load has succeeded
  activeSynthesis,  \* activeSynthesisId and activeToken: NoId when cleared
  cancelled,        \* the synthesis jobs whose CancellationToken is set
  pendingJob,       \* the one-place mailbox to the worker: NoId when empty
  workerStop,
  workerPc,         \* where the worker is
  job,              \* the job the worker took last
  outcome,          \* what the runtime returned for it
  sequence,         \* SynthesisSink::nextSequence_
  runtimeReleased,  \* runtime.shutdown() has been called
  out,              \* every message queued for stdout, oldest first
  written,          \* how many of them the writer has written: writerQueue
                    \*   is out[written+1 ..]
  writerClosed,
  writerPc

inputVars == <<sent, stdinOpen>>
sourceVars == <<fetched, handled, framingFailed>>
stateVars == <<state, loaded, activeSynthesis>>
workerVars == <<workerPc, job, outcome, sequence>>
jobVars == <<pendingJob, workerStop>>
writerVars == <<written, writerClosed, writerPc>>
vars == <<inputVars, sourceVars, mainPc, reply, stateVars, cancelled, jobVars,
          workerVars, runtimeReleased, out, writerVars>>

EngineStates == {"starting", "idle", "loading", "ready", "busy", "stopping"}
MainPcs == {"read", "handle", "cancelToken", "enqueue", "started", "post",
            "stopWorker", "joinWorker", "release", "shutdownReply",
            "closeWriter", "joinWriter", "exited"}
WorkerPcs == {"wait", "run", "chunk", "respond", "leave", "exited"}

NoReply == Response(NoId, "none")

\* The frame being handled and its id; a shutdown at the end of input has none.
Current == sent[handled]

\* Slip (the definitions named Slip... are not in Next: each is a plausible
\* mistake in the definition after it, for showing which property notices):
\* the response is queued before stateMutex is taken.
SlipResponseOutsideLock == TRUE

\* executeLoad, executeSynthesis and executeExtraction hold stateMutex from
\* before they queue the response until the state has left loading or busy.
StateMutexFree == workerPc # "leave"

Init ==
  /\ sent = <<>> /\ stdinOpen = TRUE
  /\ fetched = 0 /\ handled = 0 /\ framingFailed = FALSE
  /\ mainPc = "read" /\ reply = NoReply
  /\ state = "starting" /\ loaded = FALSE /\ activeSynthesis = NoId
  /\ cancelled = {}
  /\ pendingJob = NoId /\ workerStop = FALSE
  /\ workerPc = "wait" /\ job = NoId /\ outcome = "none" /\ sequence = 0
  /\ runtimeReleased = FALSE
  /\ out = <<>>
  /\ written = 0 /\ writerClosed = FALSE /\ writerPc = "running"

Enqueue(message) == out' = Append(out, message)

-----------------------------------------------------------------------------
(* The client's end of the pipes: external to this module.                 *)

WrittenOut == SubSeq(out, 1, written)

ClientSend(input) ==
  /\ stdinOpen
  /\ Len(sent) < MaxRequests /\ Len(sent) - handled < MaxAhead
  /\ Len(sent) \in 1 .. Awaited => Len(sent) \in Answered(WrittenOut)
  /\ input \in Offered[Len(sent) + 1]
  /\ sent' = Append(sent, [method |-> input.method, target |-> input.target,
                           fault |-> input.fault, seen |-> written])
  /\ UNCHANGED <<stdinOpen, sourceVars, mainPc, reply, stateVars, cancelled, jobVars,
                 workerVars, runtimeReleased, out, writerVars>>

ClientCloseInput ==
  /\ stdinOpen
  /\ stdinOpen' = FALSE
  /\ UNCHANGED <<sent, sourceVars, mainPc, reply, stateVars, cancelled, jobVars,
                 workerVars, runtimeReleased, out, writerVars>>

-----------------------------------------------------------------------------
(* The main thread: EngineServer::run and FdLineSource::next.              *)

\* read() returns any nonempty part of what is in the pipe.  One frame that
\* is too long fails the decoder and drops the whole batch it came in.
FetchBatch ==
  /\ mainPc = "read" /\ handled = fetched /\ ~framingFailed
  /\ \E n \in (fetched + 1) .. Len(sent) :
       LET tooLarge == \E i \in (fetched + 1) .. n : sent[i].fault = TooLarge
       IN  /\ fetched' = n
           /\ framingFailed' = tooLarge
           /\ handled' = IF tooLarge THEN n ELSE handled
  /\ UNCHANGED <<inputVars, mainPc, reply, stateVars, cancelled, jobVars, workerVars,
                 runtimeReleased, out, writerVars>>

TakeFrame ==
  /\ mainPc = "read" /\ handled < fetched
  /\ handled' = handled + 1
  /\ mainPc' = "handle"
  /\ UNCHANGED <<inputVars, fetched, framingFailed, reply, stateVars, cancelled, jobVars,
                 workerVars, runtimeReleased, out, writerVars>>

\* handleFrame: what validateRequest refuses is answered without a lock.
RejectFrame ==
  /\ mainPc = "handle" /\ Current.fault # "none"
  /\ reply' = Response(IF Current.fault \in {"parse_error", "invalid_request_without_id"}
                         THEN NoId ELSE handled,
                       Current.fault)
  /\ mainPc' = "enqueue"
  /\ UNCHANGED <<inputVars, sourceVars, stateVars, cancelled, jobVars, workerVars,
                 runtimeReleased, out, writerVars>>

Handling(method) ==
  /\ mainPc = "handle" /\ Current.fault = "none" /\ Current.method = method
  /\ StateMutexFree

\* The handler leaves stateMutex with an answer for the client.
AnswerWith(body) ==
  /\ reply' = Response(handled, body)
  /\ mainPc' = "enqueue"
  /\ UNCHANGED <<inputVars, sourceVars, cancelled, jobVars, workerVars, runtimeReleased,
                 out, writerVars>>

HandleInitialize ==
  /\ Handling("initialize")
  /\ state' = IF state = "starting" THEN "idle" ELSE state
  /\ UNCHANGED <<loaded, activeSynthesis>>
  /\ AnswerWith(IF state = "starting" THEN "ok" ELSE "invalid_state")

HandleStatus ==
  /\ Handling("engine.status")
  /\ UNCHANGED stateVars
  /\ AnswerWith(IF state = "starting" THEN "invalid_state" ELSE "ok")

Refuse ==
  /\ UNCHANGED stateVars
  /\ AnswerWith(IF state = "busy" THEN "resource_busy" ELSE "invalid_state")

\* Slip: a load does not claim the engine.
SlipLoadKeepsIdle ==
  /\ Handling("engine.load")
  /\ state = "idle"
  /\ mainPc' = "post"
  /\ UNCHANGED <<inputVars, sourceVars, reply, stateVars, cancelled, jobVars, workerVars,
                 runtimeReleased, out, writerVars>>

HandleLoad ==
  /\ Handling("engine.load")
  /\ \/ /\ state = "idle"
        /\ state' = "loading"
        /\ mainPc' = "post"
        /\ UNCHANGED <<inputVars, sourceVars, reply, loaded, activeSynthesis, cancelled,
                       jobVars, workerVars, runtimeReleased, out, writerVars>>
     \/ /\ state # "idle"
        /\ Refuse

HandleSynthesize ==
  /\ Handling("speech.synthesize")
  /\ \/ /\ state = "ready"
        /\ state' = "busy"
        /\ activeSynthesis' = handled
        /\ mainPc' = "started"
        /\ UNCHANGED <<inputVars, sourceVars, reply, loaded, cancelled, jobVars,
                       workerVars, runtimeReleased, out, writerVars>>
     \/ /\ state # "ready"
        /\ Refuse

HandleExtract ==
  /\ Handling("voice.extract")
  /\ \/ /\ state = "ready"
        /\ state' = "busy"
        /\ mainPc' = "post"
        /\ UNCHANGED <<inputVars, sourceVars, reply, loaded, activeSynthesis, cancelled,
                       jobVars, workerVars, runtimeReleased, out, writerVars>>
     \/ /\ state # "ready"
        /\ Refuse

\* Slip: the answer is queued although the token is never set.
SlipCancelForgetsToken ==
  /\ Handling("speech.cancel")
  /\ state = "busy" /\ activeSynthesis = Current.target /\ activeSynthesis # NoId
  /\ UNCHANGED stateVars
  /\ AnswerWith("accepted")

\* The token is copied under the lock and set after it: CancelToken.
HandleCancel ==
  /\ Handling("speech.cancel")
  /\ \/ /\ state = "busy" /\ activeSynthesis = Current.target /\ activeSynthesis # NoId
        /\ reply' = Response(handled, "accepted")
        /\ mainPc' = "cancelToken"
        /\ UNCHANGED <<inputVars, sourceVars, stateVars, cancelled, jobVars, workerVars,
                       runtimeReleased, out, writerVars>>
     \/ /\ ~(state = "busy" /\ activeSynthesis = Current.target /\ activeSynthesis # NoId)
        /\ UNCHANGED stateVars
        /\ AnswerWith("rejected")

CancelToken ==
  /\ mainPc = "cancelToken"
  /\ cancelled' = cancelled \cup {Current.target}
  /\ mainPc' = "enqueue"
  /\ UNCHANGED <<inputVars, sourceVars, reply, stateVars, jobVars, workerVars,
                 runtimeReleased, out, writerVars>>

EnqueueReply ==
  /\ mainPc = "enqueue"
  /\ Enqueue(reply)
  /\ reply' = NoReply
  /\ mainPc' = "read"
  /\ UNCHANGED <<inputVars, sourceVars, stateVars, cancelled, jobVars, workerVars,
                 runtimeReleased, writerVars>>

EnqueueStarted ==
  /\ mainPc = "started"
  /\ Enqueue(Started(handled))
  /\ mainPc' = "post"
  /\ UNCHANGED <<inputVars, sourceVars, reply, stateVars, cancelled, jobVars, workerVars,
                 runtimeReleased, writerVars>>

\* A job that finds the mailbox taken is dropped and never answered.
PostJob ==
  /\ mainPc = "post"
  /\ pendingJob' = IF pendingJob = NoId THEN handled ELSE pendingJob
  /\ mainPc' = "read"
  /\ UNCHANGED <<inputVars, sourceVars, reply, stateVars, cancelled, workerStop,
                 workerVars, runtimeReleased, out, writerVars>>

-----------------------------------------------------------------------------
(* finishShutdown, on engine.shutdown or at the end of the input.          *)

BeginStopping ==
  /\ state' = "stopping"
  /\ cancelled' = cancelled \cup ({activeSynthesis} \ {NoId})
  /\ mainPc' = "stopWorker"
  /\ UNCHANGED <<inputVars, sourceVars, loaded, activeSynthesis, jobVars, workerVars,
                 runtimeReleased, out, writerVars>>

HandleShutdown ==
  /\ Handling("engine.shutdown")
  /\ reply' = Response(handled, "ok")
  /\ BeginStopping

EndOfInput ==
  /\ mainPc = "read" /\ handled = fetched
  /\ framingFailed \/ (fetched = Len(sent) /\ ~stdinOpen)
  /\ StateMutexFree
  /\ UNCHANGED reply
  /\ BeginStopping

\* Slip: the worker is not told to stop.
SlipNoWorkerStop ==
  /\ mainPc = "stopWorker"
  /\ mainPc' = "joinWorker"
  /\ UNCHANGED <<inputVars, sourceVars, reply, stateVars, cancelled, jobVars,
                 workerVars, runtimeReleased, out, writerVars>>

StopWorker ==
  /\ mainPc = "stopWorker"
  /\ workerStop' = TRUE
  /\ mainPc' = "joinWorker"
  /\ UNCHANGED <<inputVars, sourceVars, reply, stateVars, cancelled, pendingJob,
                 workerVars, runtimeReleased, out, writerVars>>

\* Slip: the runtime is released without waiting for the worker.
SlipNoJoin ==
  /\ mainPc = "joinWorker"
  /\ mainPc' = "release"
  /\ UNCHANGED <<inputVars, sourceVars, reply, stateVars, cancelled, jobVars, workerVars,
                 runtimeReleased, out, writerVars>>

JoinWorker ==
  /\ mainPc = "joinWorker" /\ workerPc = "exited"
  /\ mainPc' = "release"
  /\ UNCHANGED <<inputVars, sourceVars, reply, stateVars, cancelled, jobVars, workerVars,
                 runtimeReleased, out, writerVars>>

ReleaseRuntime ==
  /\ mainPc = "release"
  /\ runtimeReleased' = TRUE
  /\ mainPc' = IF reply = NoReply THEN "closeWriter" ELSE "shutdownReply"
  /\ UNCHANGED <<inputVars, sourceVars, reply, stateVars, cancelled, jobVars, workerVars,
                 out, writerVars>>

EnqueueShutdownReply ==
  /\ mainPc = "shutdownReply"
  /\ Enqueue(reply)
  /\ reply' = NoReply
  /\ mainPc' = "closeWriter"
  /\ UNCHANGED <<inputVars, sourceVars, stateVars, cancelled, jobVars, workerVars,
                 runtimeReleased, writerVars>>

CloseWriter ==
  /\ mainPc = "closeWriter"
  /\ writerClosed' = TRUE
  /\ mainPc' = "joinWriter"
  /\ UNCHANGED <<inputVars, sourceVars, reply, stateVars, cancelled, jobVars, workerVars,
                 runtimeReleased, out, written, writerPc>>

JoinWriter ==
  /\ mainPc = "joinWriter" /\ writerPc = "exited"
  /\ mainPc' = "exited"
  /\ UNCHANGED <<inputVars, sourceVars, reply, stateVars, cancelled, jobVars, workerVars,
                 runtimeReleased, out, writerVars>>

-----------------------------------------------------------------------------
(* The worker: workerLoop and the three execute functions.                 *)

WorkerTake ==
  /\ workerPc = "wait" /\ pendingJob # NoId
  /\ job' = pendingJob
  /\ pendingJob' = NoId
  /\ sequence' = 0
  /\ workerPc' = "run"
  /\ UNCHANGED <<inputVars, sourceVars, mainPc, reply, stateVars, cancelled, workerStop,
                 outcome, runtimeReleased, out, writerVars>>

\* Slip: the stop flag alone ends the worker, whatever the mailbox holds.
SlipExitWithJob ==
  /\ workerPc = "wait" /\ workerStop
  /\ workerPc' = "exited"
  /\ UNCHANGED <<inputVars, sourceVars, mainPc, reply, stateVars, cancelled, jobVars,
                 job, outcome, sequence, runtimeReleased, out, writerVars>>

\* Only an empty mailbox ends the worker: a job posted before the stop runs.
WorkerExit ==
  /\ workerPc = "wait" /\ workerStop /\ pendingJob = NoId
  /\ workerPc' = "exited"
  /\ UNCHANGED <<inputVars, sourceVars, mainPc, reply, stateVars, cancelled, jobVars,
                 job, outcome, sequence, runtimeReleased, out, writerVars>>

Synthesizing == sent[job].method = "speech.synthesize"

RuntimeReturns(result) ==
  /\ outcome' = result
  /\ workerPc' = "respond"
  /\ UNCHANGED <<inputVars, sourceVars, mainPc, reply, stateVars, cancelled, jobVars, job,
                 sequence, runtimeReleased, out, writerVars>>

\* The runtime asks the token before each chunk, and only then.
RuntimePoll ==
  /\ workerPc = "run" /\ Synthesizing
  /\ \/ /\ job \in cancelled
        /\ RuntimeReturns("cancelled")
     \/ /\ job \notin cancelled /\ sequence < MaxChunks
        /\ workerPc' = "chunk"
        /\ UNCHANGED <<inputVars, sourceVars, mainPc, reply, stateVars, cancelled, jobVars,
                       job, outcome, sequence, runtimeReleased, out, writerVars>>

\* SynthesisSink::submit: a chunk of the runtime may need several messages, and
\* the token is not asked between them.
RuntimeChunk ==
  /\ workerPc = "chunk"
  /\ Enqueue(Audio(job, sequence))
  /\ sequence' = sequence + 1
  /\ \/ workerPc' = "run"
     \/ sequence + 1 < MaxChunks /\ workerPc' = "chunk"
  /\ UNCHANGED <<inputVars, sourceVars, mainPc, reply, stateVars, cancelled, jobVars, job,
                 outcome, runtimeReleased, writerVars>>

\* After the last chunk the token is not asked again.
RuntimeFinish ==
  /\ workerPc = "run"
  /\ \E result \in {"ok", "failed"} : RuntimeReturns(result)

\* stateMutex is taken here and kept until WorkerLeave.
WorkerRespond ==
  /\ workerPc = "respond"
  /\ Enqueue(Response(job, outcome))
  /\ workerPc' = "leave"
  /\ UNCHANGED <<inputVars, sourceVars, mainPc, reply, stateVars, cancelled, jobVars, job,
                 outcome, sequence, runtimeReleased, writerVars>>

Loading == sent[job].method = "engine.load"

\* What the worker leaves behind in any case.
WorkerDone ==
  /\ workerPc' = "wait"
  /\ job' = NoId /\ outcome' = "none" /\ sequence' = 0
  /\ UNCHANGED <<inputVars, sourceVars, mainPc, reply, cancelled, jobVars,
                 runtimeReleased, out, writerVars>>

AfterJob == IF Loading /\ outcome # "ok" THEN "idle" ELSE "ready"
LoadedAfterJob == loaded \/ (Loading /\ outcome = "ok")

\* Slip: stopping is not sticky.
SlipLeaveStopping ==
  /\ workerPc = "leave"
  /\ loaded' = LoadedAfterJob
  /\ state' = AfterJob
  /\ activeSynthesis' = IF Synthesizing THEN NoId ELSE activeSynthesis
  /\ WorkerDone

\* Slip: a failed load stays loading.
SlipStayBusy ==
  /\ workerPc = "leave"
  /\ loaded' = LoadedAfterJob
  /\ state' = IF (Loading /\ outcome # "ok") \/ state = "stopping" THEN state ELSE "ready"
  /\ activeSynthesis' = IF Synthesizing THEN NoId ELSE activeSynthesis
  /\ WorkerDone

\* Slip: the id and token of a finished synthesis stay behind.
SlipKeepToken ==
  /\ workerPc = "leave"
  /\ loaded' = LoadedAfterJob
  /\ state' = IF state = "stopping" THEN state ELSE AfterJob
  /\ UNCHANGED activeSynthesis
  /\ WorkerDone

\* leaveBusy keeps stopping; a synthesis also gives up its id and token.
WorkerLeave ==
  /\ workerPc = "leave"
  /\ loaded' = LoadedAfterJob
  /\ state' = IF state = "stopping" THEN state ELSE AfterJob
  /\ activeSynthesis' = IF Synthesizing THEN NoId ELSE activeSynthesis
  /\ WorkerDone

-----------------------------------------------------------------------------
(* The writer: writerLoop.                                                 *)

\* Slip: a wake-up is taken for a message.
SlipWriteBlindly ==
  /\ writerPc = "running"
  /\ written' = written + 1
  /\ UNCHANGED <<inputVars, sourceVars, mainPc, reply, stateVars, cancelled, jobVars,
                 workerVars, runtimeReleased, out, writerClosed, writerPc>>

WriterWrite ==
  /\ writerPc = "running" /\ written < Len(out)
  /\ written' = written + 1
  /\ UNCHANGED <<inputVars, sourceVars, mainPc, reply, stateVars, cancelled, jobVars,
                 workerVars, runtimeReleased, out, writerClosed, writerPc>>

\* Slip: closing ends the writer before the queue is drained.
SlipExitUndrained ==
  /\ writerPc = "running" /\ writerClosed
  /\ writerPc' = "exited"
  /\ UNCHANGED <<inputVars, sourceVars, mainPc, reply, stateVars, cancelled, jobVars,
                 workerVars, runtimeReleased, out, written, writerClosed>>

WriterExit ==
  /\ writerPc = "running" /\ writerClosed /\ written = Len(out)
  /\ writerPc' = "exited"
  /\ UNCHANGED <<inputVars, sourceVars, mainPc, reply, stateVars, cancelled, jobVars,
                 workerVars, runtimeReleased, out, written, writerClosed>>

-----------------------------------------------------------------------------
Handle ==
  \/ RejectFrame
  \/ HandleInitialize
  \/ HandleLoad
  \/ HandleStatus
  \/ HandleSynthesize
  \/ HandleCancel
  \/ HandleExtract
  \/ HandleShutdown

Main ==
  \/ FetchBatch
  \/ TakeFrame
  \/ Handle
  \/ CancelToken
  \/ EnqueueReply
  \/ EnqueueStarted
  \/ PostJob
  \/ EndOfInput
  \/ StopWorker
  \/ JoinWorker
  \/ ReleaseRuntime
  \/ EnqueueShutdownReply
  \/ CloseWriter
  \/ JoinWriter

Worker ==
  \/ WorkerTake
  \/ WorkerExit
  \/ RuntimePoll
  \/ RuntimeChunk
  \/ RuntimeFinish
  \/ WorkerRespond
  \/ WorkerLeave

Writer == WriterWrite \/ WriterExit

Client ==
  \/ \E input \in UNION {Offered[i] : i \in DOMAIN Offered} : ClientSend(input)
  \/ ClientCloseInput

\* The process is gone; what is left of the client changes nothing.
Exited == mainPc = "exited" /\ UNCHANGED vars

Next == Main \/ Worker \/ Writer \/ Client \/ Exited

Spec == Init /\ [][Next]_vars

\* The operating system runs every thread that can run, and a load, a
\* synthesis and an extraction end by themselves.  The client reads its pipe, so
\* that no write blocks for ever; it owes no request and no end of its input.
Fairness == WF_vars(Main) /\ WF_vars(Worker) /\ WF_vars(Writer)

FairSpec == Spec /\ Fairness

-----------------------------------------------------------------------------
(* Properties.                                                             *)

TypeOK ==
  /\ sent \in Seq(Frame) /\ stdinOpen \in BOOLEAN
  /\ fetched \in Nat /\ handled \in Nat /\ framingFailed \in BOOLEAN
  /\ handled <= fetched /\ fetched <= Len(sent)
  /\ mainPc \in MainPcs /\ reply \in Message
  /\ state \in EngineStates /\ loaded \in BOOLEAN /\ activeSynthesis \in Nat
  /\ cancelled \subseteq Nat
  /\ pendingJob \in Nat /\ workerStop \in BOOLEAN
  /\ workerPc \in WorkerPcs /\ job \in Nat /\ sequence \in Nat
  /\ outcome \in JobOutcomes \cup {"none"}
  /\ runtimeReleased \in BOOLEAN
  /\ out \in Seq(Message)
  /\ written \in 0 .. Len(out) /\ writerClosed \in BOOLEAN
  /\ writerPc \in {"running", "exited"}

\* The accepted job whose response is not yet queued.
CurrentJob ==
  IF mainPc \in {"started", "post"} THEN handled
  ELSE IF pendingJob # NoId THEN pendingJob
  ELSE IF workerPc \in {"run", "chunk", "respond"} THEN job
  ELSE NoId

\* postJob's "internal error" branch, which would leave a request unanswered
\* for ever, is never taken (server.cpp postJob).
MailboxIsFree == mainPc = "post" => pendingJob = NoId

\* The engine is loading or busy exactly while an accepted job is on its way
\* through the mailbox and the worker, so it can neither be stuck busy with
\* no job to end it nor look idle while the worker uses the runtime.
BusyHasAJob ==
  state # "stopping" =>
    (state \in {"loading", "busy"} <=> CurrentJob # NoId \/ workerPc = "leave")

\* runtime.hpp: shutdown is called once, after the worker has finished.
RuntimeReleasedLast ==
  runtimeReleased => CurrentJob = NoId /\ workerPc = "exited"

\* What the client had read when it wrote request r.
SeenBy(r) == SubSeq(out, 1, sent[r].seen)

\* A request is refused as busy only if some earlier job request was still
\* unanswered when the client wrote it: whoever waits for the response of a
\* synthesis can start the next one (server.cpp executeSynthesis queues the
\* response and leaves busy under one lock).
BusyOnlyWhileUnanswered ==
  \A i \in DOMAIN out :
    out[i].body = "resource_busy" =>
      \E j \in 1 .. (out[i].id - 1) :
        /\ sent[j].method \in JobMethods
        /\ j \notin Answered(SeenBy(out[i].id))

\* The answer to engine.shutdown is the last message on stdout, and by then
\* every request before it that has an id has been answered: accepted jobs are
\* finished, not dropped (finishShutdown joins the worker first).
ShutdownAnswersEverything ==
  \A i \in DOMAIN out :
    /\ out[i].kind = "response" /\ out[i].body = "ok"
    /\ sent[out[i].id].method = "engine.shutdown"
    => /\ i = Len(out)
       /\ \A r \in 1 .. out[i].id :
            \/ r \in Answered(out)
            \/ sent[r].fault \in {"parse_error", "invalid_request_without_id"}

\* docs/protocol.md: "accepted" says the cancellation was received and the
\* synthesis finally returns cancelled.  NOT an invariant: the runtime may have
\* asked the token for the last time already.
AcceptedCancelEndsCancelled ==
  \A i, k \in DOMAIN out :
    /\ out[i].body = "accepted"
    /\ out[k].kind = "response" /\ out[k].id = sent[out[i].id].target
    => out[k].body = "cancelled"

\* The state moves only along starting -> idle -> loading -> idle or ready,
\* ready -> busy -> ready, and from anywhere to stopping, where it stays
\* although the worker still leaves loading or busy after it (leaveBusy).
Transitions == {<<"starting", "idle">>, <<"idle", "loading">>, <<"loading", "idle">>,
                <<"loading", "ready">>, <<"ready", "busy">>, <<"busy", "ready">>}
StateMoves ==
  state' # state => state' = "stopping" \/ <<state, state'>> \in Transitions
StateMovesLegally == [][StateMoves]_vars

\* A cancel is accepted only for a synthesis that has no response yet: never
\* for one that has ended, nor for the job that followed it.
AcceptFindsItsJob ==
  mainPc = "handle" /\ mainPc' = "cancelToken" =>
    CurrentJob = Current.target /\ Current.target \notin Answered(out)
CancelFindsItsJob == [][AcceptFindsItsJob]_vars

\* Once a speech.cancel has been answered "accepted", no further chunk of that
\* synthesis is begun: all the client may still get is what is left of one
\* (handleCancel sets the token before it queues the answer).
Accepted(id) == \E i \in DOMAIN out : out[i].body = "accepted" /\ sent[out[i].id].target = id
NoChunkOnceAccepted == workerPc = "run" /\ workerPc' = "chunk" => ~Accepted(job)
CancelIsPrompt == [][NoChunkOnceAccepted]_vars

\* The engine implements the abstract service on its stdout.
ServiceCurrent ==
  IF CurrentJob = NoId THEN [id |-> NoId, stream |-> "none", next |-> 0]
  ELSE [id |-> CurrentJob,
        stream |-> IF sent[CurrentJob].method # "speech.synthesize" THEN "none"
                   ELSE IF mainPc = "started" THEN "silent" ELSE "started",
        next |-> sequence]

Service == INSTANCE EngineService
             WITH Requests <- Ids, asked <- sent, log <- out, current <- ServiceCurrent,
                  closed <- writerClosed

ImplementsService == Service!Spec

\* Every frame that reaches handleFrame and has an id is answered on stdout.
HandledIsAnswered ==
  \A id \in Ids :
    (mainPc = "handle" /\ handled = id) ~>
      \/ id \in Answered(WrittenOut)
      \/ id \in DOMAIN sent /\ sent[id].fault \in {"parse_error", "invalid_request_without_id"}

\* When the client closes stdin, or asks for a shutdown, the process ends with
\* everything it queued written.
EndsAfterInput ==
  (~stdinOpen \/ mainPc = "stopWorker") ~> (mainPc = "exited" /\ written = Len(out))
=============================================================================
