-------------------------- MODULE EngineServerProofs --------------------------
(***************************************************************************)
(* Theorems about EngineServer for every client script and every bound,    *)
(* proved with TLAPS.                                                      *)
(***************************************************************************)
EXTENDS EngineServer, TLAPS

Posting == mainPc \in {"started", "post"}
Running == workerPc \in {"run", "chunk", "respond", "leave"}
StoppingPcs == {"stopWorker", "joinWorker", "release", "shutdownReply",
                "closeWriter", "joinWriter", "exited"}
Stopped == mainPc \in StoppingPcs
HandlingPcs == {"handle", "cancelToken", "enqueue", "started", "post"}

\* No frame that is too long gets past the decoder, so every reply says what
\* TypeOK allows; and the main thread handles a frame only after taking one.
Framing ==
  /\ Len(sent) <= MaxRequests
  /\ \A i \in (handled + 1) .. fetched : sent[i].fault # TooLarge
  /\ mainPc \in HandlingPcs => handled # NoId
  /\ mainPc = "handle" => sent[handled].fault # TooLarge

\* One job at a time, in one place: at the main thread, in the mailbox or at
\* the worker.  The state says so until it is stopping, and the main thread
\* gets past the join only when the worker has exited.
OneJob ==
  /\ Posting => pendingJob = NoId /\ ~Running /\ state \in {"loading", "busy"}
  /\ pendingJob # NoId => ~Running
  /\ Stopped <=> state = "stopping"
  /\ state # "stopping" =>
       (state \in {"loading", "busy"} <=> Posting \/ pendingJob # NoId \/ Running)
  /\ workerStop => Stopped /\ mainPc # "stopWorker"
  /\ workerPc = "exited" => workerStop /\ pendingJob = NoId
  /\ mainPc \in StoppingPcs \ {"stopWorker", "joinWorker"} => workerPc = "exited"
  /\ runtimeReleased => mainPc \in StoppingPcs \ {"stopWorker", "joinWorker", "release"}

\* A load that has finished leaves idle or ready, from loading; any other job
\* leaves ready, from busy.
JobMatchesState ==
  state # "stopping" =>
    /\ Posting => (state = "loading" <=> sent[handled].method = "engine.load")
    /\ pendingJob # NoId => (state = "loading" <=> sent[pendingJob].method = "engine.load")
    /\ Running => (state = "loading" <=> sent[job].method = "engine.load")

\* The response the main thread is about to queue suits the frame it answers.
Suits(id, body) ==
  /\ body = "ok" =>
       id # NoId /\ sent[handled].method \notin JobMethods \cup {"speech.cancel"}
  /\ body \in {"accepted", "rejected"} =>
       id # NoId /\ sent[handled].method = "speech.cancel"
  /\ body # "none" /\ id = NoId => handled # NoId /\ sent[handled].fault # "none"

\* Who still owes which response: nobody else has the id of the frame being
\* handled, and no owed response has been queued.
Owed ==
  /\ mainPc \in HandlingPcs \/ reply.id # NoId =>
       handled \notin Answered(out) /\ handled # pendingJob /\ handled # job
  /\ reply = Response(reply.id, reply.body) /\ reply.id \in {NoId, handled}
  /\ mainPc \in {"read", "handle", "started", "post"} => reply = NoReply
  /\ reply.body = "none" => reply.id = NoId
  /\ mainPc \in {"cancelToken", "enqueue", "shutdownReply"} => reply.body # "none"
  /\ Suits(reply.id, reply.body)
  /\ pendingJob <= handled /\ job <= handled
  /\ pendingJob \notin Answered(out)
  /\ workerPc \in {"run", "chunk", "respond"} => job \notin Answered(out)
  /\ Answered(out) \subseteq 1 .. handled
  /\ Running <=> job # NoId
  /\ ~Running => sequence = 0

\* What the stream of the job in progress looks like from outside.
Streaming ==
  /\ mainPc = "started" => sent[handled].method = "speech.synthesize"
  /\ workerPc = "chunk" => sent[job].method = "speech.synthesize"
  /\ workerPc = "respond" => outcome # "none"
  /\ writerClosed <=> mainPc \in {"joinWriter", "exited"}

\* The synthesis a cancel may name is the job in progress, from its acceptance
\* until the worker leaves busy.
Active ==
  activeSynthesis # NoId =>
    /\ activeSynthesis <= handled
    /\ sent[activeSynthesis].method = "speech.synthesize"
    /\ \/ Posting /\ handled = activeSynthesis
       \/ pendingJob = activeSynthesis
       \/ Running /\ job = activeSynthesis

IInv ==
  TypeOK /\ Framing /\ OneJob /\ JobMatchesState /\ Owed /\ Streaming /\ Active

-----------------------------------------------------------------------------
(* Type correctness.                                                       *)

\* A frame on stdin is a Frame.
LEMMA FrameTypes ==
  ASSUME sent \in Seq(Frame), NEW i \in 1 .. Len(sent)
  PROVE  sent[i] \in Frame
OBVIOUS

\* Whatever the client script offers is an Input.
LEMMA OfferedTypes ==
  ASSUME NEW i \in DOMAIN Offered, NEW input \in Offered[i]
  PROVE  input \in Input
BY OfferedAssumption

\* The three message constructors build messages.
LEMMA Constructors ==
  /\ \A id \in Nat, body \in Bodies : Response(id, body) \in Message
  /\ \A id \in Nat : Started(id) \in Message
  /\ \A id, n \in Nat : Audio(id, n) \in Message
  /\ NoReply \in Message
BY DEF Response, Started, Audio, NoReply, Message, Bodies, Faults, NoId

\* The flags apart from the rest: the provers treat Booleans differently.
FlagTypes ==
  /\ stdinOpen \in BOOLEAN /\ framingFailed \in BOOLEAN /\ loaded \in BOOLEAN
  /\ workerStop \in BOOLEAN /\ runtimeReleased \in BOOLEAN /\ writerClosed \in BOOLEAN

DataTypes ==
  /\ sent \in Seq(Frame)
  /\ fetched \in Nat /\ handled \in Nat
  /\ handled <= fetched /\ fetched <= Len(sent)
  /\ mainPc \in MainPcs /\ reply \in Message
  /\ state \in EngineStates /\ activeSynthesis \in Nat
  /\ cancelled \subseteq Nat
  /\ pendingJob \in Nat
  /\ workerPc \in WorkerPcs /\ job \in Nat /\ sequence \in Nat
  /\ outcome \in JobOutcomes \cup {"none"}
  /\ out \in Seq(Message)
  /\ written \in 0 .. Len(out)
  /\ writerPc \in {"running", "exited"}

\* A script is finite.
LEMMA OfferedLength == MaxRequests \in Nat
BY OfferedAssumption DEF MaxRequests

\* TypeOK is the two halves above.
LEMMA TypeParts == TypeOK <=> FlagTypes /\ DataTypes
BY DEF TypeOK, FlagTypes, DataTypes

\* The engine starts with every variable in its type and nothing taken.
LEMMA TypeInit == Init => TypeOK /\ Framing
<1> SUFFICES ASSUME Init PROVE TypeOK /\ Framing
  OBVIOUS
<1>1. FlagTypes
  BY DEF Init, FlagTypes
<1>2. DataTypes
  BY Constructors DEF Init, DataTypes, EngineStates, MainPcs, WorkerPcs, NoId
<1>3. Framing
  BY OfferedLength DEF Init, Framing, HandlingPcs
<1> QED
  BY <1>1, <1>2, <1>3, TypeParts

\* No step takes a flag out of BOOLEAN.
LEMMA FlagStep == FlagTypes /\ [Next]_vars => FlagTypes'
<1> SUFFICES ASSUME FlagTypes, [Next]_vars PROVE FlagTypes'
  OBVIOUS
<1> USE DEF FlagTypes,
            inputVars, sourceVars, stateVars, workerVars, jobVars, writerVars
<1>1. CASE \E input \in UNION {Offered[i] : i \in DOMAIN Offered} : ClientSend(input)
  BY <1>1 DEF ClientSend
<1>2. CASE ClientCloseInput
  BY <1>2 DEF ClientCloseInput
<1>3. CASE FetchBatch
  BY <1>3 DEF FetchBatch
<1>4. CASE TakeFrame
  BY <1>4 DEF TakeFrame
<1>5. CASE RejectFrame
  BY <1>5 DEF RejectFrame
<1>6. CASE HandleInitialize
  BY <1>6 DEF HandleInitialize, Handling, AnswerWith
<1>7. CASE HandleLoad
  BY <1>7 DEF HandleLoad, Handling, Refuse, AnswerWith
<1>8. CASE HandleStatus
  BY <1>8 DEF HandleStatus, Handling, AnswerWith
<1>9. CASE HandleSynthesize
  BY <1>9 DEF HandleSynthesize, Handling, Refuse, AnswerWith
<1>10. CASE HandleCancel
  BY <1>10 DEF HandleCancel, Handling, AnswerWith
<1>11. CASE HandleExtract
  BY <1>11 DEF HandleExtract, Handling, Refuse, AnswerWith
<1>12. CASE HandleShutdown
  BY <1>12 DEF HandleShutdown, Handling, BeginStopping
<1>13. CASE CancelToken
  BY <1>13 DEF CancelToken
<1>14. CASE EnqueueReply
  BY <1>14 DEF EnqueueReply, Enqueue
<1>15. CASE EnqueueStarted
  BY <1>15 DEF EnqueueStarted, Enqueue
<1>16. CASE PostJob
  BY <1>16 DEF PostJob
<1>17. CASE EndOfInput
  BY <1>17 DEF EndOfInput, BeginStopping
<1>18. CASE StopWorker
  BY <1>18 DEF StopWorker
<1>19. CASE JoinWorker
  BY <1>19 DEF JoinWorker
<1>20. CASE ReleaseRuntime
  BY <1>20 DEF ReleaseRuntime
<1>21. CASE EnqueueShutdownReply
  BY <1>21 DEF EnqueueShutdownReply, Enqueue
<1>22. CASE CloseWriter
  BY <1>22 DEF CloseWriter
<1>23. CASE JoinWriter
  BY <1>23 DEF JoinWriter
<1>24. CASE WorkerTake
  BY <1>24 DEF WorkerTake
<1>25. CASE WorkerExit
  BY <1>25 DEF WorkerExit
<1>26. CASE RuntimePoll
  BY <1>26 DEF RuntimePoll, RuntimeReturns
<1>27. CASE RuntimeChunk
  BY <1>27 DEF RuntimeChunk, Enqueue
<1>28. CASE RuntimeFinish
  BY <1>28 DEF RuntimeFinish, RuntimeReturns
<1>29. CASE WorkerRespond
  BY <1>29 DEF WorkerRespond, Enqueue
<1>30. CASE WorkerLeave
  BY <1>30 DEF WorkerLeave, WorkerDone, AfterJob, LoadedAfterJob
<1>31. CASE WriterWrite
  BY <1>31 DEF WriterWrite
<1>32. CASE WriterExit
  BY <1>32 DEF WriterExit
<1>33. CASE Exited \/ UNCHANGED vars
  BY <1>33 DEF Exited, vars
<1> QED
  BY <1>1, <1>2, <1>3, <1>4, <1>5, <1>6, <1>7, <1>8, <1>9, <1>10, <1>11, <1>12,
     <1>13, <1>14, <1>15, <1>16, <1>17, <1>18, <1>19, <1>20, <1>21, <1>22, <1>23,
     <1>24, <1>25, <1>26, <1>27, <1>28, <1>29, <1>30, <1>31, <1>32, <1>33 DEF Next,
     Client, Main, Handle, Worker, Writer

\* No step takes any other variable out of its type: the reply queued for a
\* frame that validateRequest refuses is a message because Framing keeps
\* over-long frames away from handleFrame.
LEMMA DataStep == DataTypes /\ Framing /\ [Next]_vars => DataTypes'
<1> SUFFICES ASSUME DataTypes, Framing, [Next]_vars PROVE DataTypes'
  OBVIOUS
<1> USE DEF DataTypes, Framing, HandlingPcs, MainPcs, WorkerPcs, EngineStates, NoId,
            inputVars, sourceVars, stateVars, workerVars, jobVars, writerVars
<1>1. CASE \E input \in UNION {Offered[i] : i \in DOMAIN Offered} : ClientSend(input)
  BY <1>1, OfferedTypes DEF ClientSend, Input, Frame
<1>2. CASE ClientCloseInput
  BY <1>2 DEF ClientCloseInput
<1>3. CASE FetchBatch
  BY <1>3 DEF FetchBatch
<1>4. CASE TakeFrame
  BY <1>4 DEF TakeFrame
<1>5. CASE RejectFrame
  <2>1. /\ Current \in Frame
        /\ Current.fault # TooLarge
    BY <1>5, FrameTypes DEF RejectFrame, Current
  <2>2. Current.fault \in Bodies
    BY <2>1 DEF Frame, Bodies
  <2>3. reply' \in Message
    BY <1>5, <2>2, Constructors DEF RejectFrame
  <2> QED
    BY <1>5, <2>3 DEF RejectFrame
<1>6. CASE HandleInitialize
  BY <1>6, Constructors DEF HandleInitialize, Handling, AnswerWith, Bodies
<1>7. CASE HandleLoad
  BY <1>7, Constructors DEF HandleLoad, Handling, Refuse, AnswerWith, Bodies
<1>8. CASE HandleStatus
  BY <1>8, Constructors DEF HandleStatus, Handling, AnswerWith, Bodies
<1>9. CASE HandleSynthesize
  BY <1>9, Constructors DEF HandleSynthesize, Handling, Refuse, AnswerWith, Bodies
<1>10. CASE HandleCancel
  BY <1>10, Constructors DEF HandleCancel, Handling, AnswerWith, Bodies
<1>11. CASE HandleExtract
  BY <1>11, Constructors DEF HandleExtract, Handling, Refuse, AnswerWith, Bodies
<1>12. CASE HandleShutdown
  BY <1>12, Constructors DEF HandleShutdown, Handling, BeginStopping, Bodies
<1>13. CASE CancelToken
  <2>1. Current \in Frame
    BY <1>13, FrameTypes DEF CancelToken, Current
  <2>2. Current.target \in Nat
    BY <2>1 DEF Frame
  <2> QED
    BY <1>13, <2>2 DEF CancelToken
<1>14. CASE EnqueueReply
  BY <1>14, Constructors DEF EnqueueReply, Enqueue
<1>15. CASE EnqueueStarted
  BY <1>15, Constructors DEF EnqueueStarted, Enqueue
<1>16. CASE PostJob
  BY <1>16 DEF PostJob
<1>17. CASE EndOfInput
  BY <1>17 DEF EndOfInput, BeginStopping
<1>18. CASE StopWorker
  BY <1>18 DEF StopWorker
<1>19. CASE JoinWorker
  BY <1>19 DEF JoinWorker
<1>20. CASE ReleaseRuntime
  BY <1>20 DEF ReleaseRuntime
<1>21. CASE EnqueueShutdownReply
  BY <1>21, Constructors DEF EnqueueShutdownReply, Enqueue
<1>22. CASE CloseWriter
  BY <1>22 DEF CloseWriter
<1>23. CASE JoinWriter
  BY <1>23 DEF JoinWriter
<1>24. CASE WorkerTake
  BY <1>24 DEF WorkerTake
<1>25. CASE WorkerExit
  BY <1>25 DEF WorkerExit
<1>26. CASE RuntimePoll
  BY <1>26 DEF RuntimePoll, RuntimeReturns, JobOutcomes
<1>27. CASE RuntimeChunk
  BY <1>27, Constructors DEF RuntimeChunk, Enqueue
<1>28. CASE RuntimeFinish
  BY <1>28 DEF RuntimeFinish, RuntimeReturns, JobOutcomes
<1>29. CASE WorkerRespond
  BY <1>29, Constructors DEF WorkerRespond, Enqueue, Bodies, Faults, JobOutcomes
<1>30. CASE WorkerLeave
  BY <1>30 DEF WorkerLeave, WorkerDone, AfterJob, LoadedAfterJob
<1>31. CASE WriterWrite
  BY <1>31 DEF WriterWrite
<1>32. CASE WriterExit
  BY <1>32 DEF WriterExit
<1>33. CASE Exited \/ UNCHANGED vars
  BY <1>33 DEF Exited, vars
<1> QED
  BY <1>1, <1>2, <1>3, <1>4, <1>5, <1>6, <1>7, <1>8, <1>9, <1>10, <1>11, <1>12,
     <1>13, <1>14, <1>15, <1>16, <1>17, <1>18, <1>19, <1>20, <1>21, <1>22, <1>23,
     <1>24, <1>25, <1>26, <1>27, <1>28, <1>29, <1>30, <1>31, <1>32, <1>33 DEF Next,
     Client, Main, Handle, Worker, Writer

\* An over-long frame never reaches handleFrame, since FdLineSource::next drops
\* the whole batch it came in.
LEMMA FramingStep == DataTypes /\ Framing /\ [Next]_vars => Framing'
<1> SUFFICES ASSUME DataTypes, Framing, [Next]_vars PROVE Framing'
  OBVIOUS
<1> USE DEF DataTypes, Framing, HandlingPcs, NoId,
            inputVars, sourceVars, stateVars, workerVars, jobVars, writerVars
<1>1. CASE \E input \in UNION {Offered[i] : i \in DOMAIN Offered} : ClientSend(input)
  <2>1. PICK frame : sent' = Append(sent, frame) /\ Len(sent) < MaxRequests
    BY <1>1 DEF ClientSend
  <2>2. UNCHANGED <<fetched, handled, mainPc>>
    BY <1>1 DEF ClientSend
  <2>3. Len(sent') = Len(sent) + 1 /\ \A i \in 1 .. Len(sent) : sent'[i] = sent[i]
    BY <2>1
  <2>4. Len(sent') <= MaxRequests
    BY <2>1, <2>3, OfferedLength
  <2>5. \A i \in (handled + 1) .. fetched : sent'[i].fault # TooLarge
    BY <2>3
  <2>6. mainPc = "handle" => sent'[handled].fault # TooLarge
    BY <2>3
  <2> QED
    BY <2>2, <2>4, <2>5, <2>6
<1>2. CASE ClientCloseInput
  BY <1>2 DEF ClientCloseInput
<1>3. CASE FetchBatch
  BY <1>3 DEF FetchBatch
<1>4. CASE TakeFrame
  BY <1>4 DEF TakeFrame
<1>5. CASE RejectFrame
  BY <1>5 DEF RejectFrame
<1>6. CASE HandleInitialize
  BY <1>6 DEF HandleInitialize, Handling, AnswerWith
<1>7. CASE HandleLoad
  BY <1>7 DEF HandleLoad, Handling, Refuse, AnswerWith
<1>8. CASE HandleStatus
  BY <1>8 DEF HandleStatus, Handling, AnswerWith
<1>9. CASE HandleSynthesize
  BY <1>9 DEF HandleSynthesize, Handling, Refuse, AnswerWith
<1>10. CASE HandleCancel
  BY <1>10 DEF HandleCancel, Handling, AnswerWith
<1>11. CASE HandleExtract
  BY <1>11 DEF HandleExtract, Handling, Refuse, AnswerWith
<1>12. CASE HandleShutdown
  BY <1>12 DEF HandleShutdown, Handling, BeginStopping
<1>13. CASE CancelToken
  BY <1>13 DEF CancelToken
<1>14. CASE EnqueueReply
  BY <1>14 DEF EnqueueReply, Enqueue
<1>15. CASE EnqueueStarted
  BY <1>15 DEF EnqueueStarted, Enqueue
<1>16. CASE PostJob
  BY <1>16 DEF PostJob
<1>17. CASE EndOfInput
  BY <1>17 DEF EndOfInput, BeginStopping
<1>18. CASE StopWorker
  BY <1>18 DEF StopWorker
<1>19. CASE JoinWorker
  BY <1>19 DEF JoinWorker
<1>20. CASE ReleaseRuntime
  BY <1>20 DEF ReleaseRuntime
<1>21. CASE EnqueueShutdownReply
  BY <1>21 DEF EnqueueShutdownReply, Enqueue
<1>22. CASE CloseWriter
  BY <1>22 DEF CloseWriter
<1>23. CASE JoinWriter
  BY <1>23 DEF JoinWriter
<1>24. CASE WorkerTake
  BY <1>24 DEF WorkerTake
<1>25. CASE WorkerExit
  BY <1>25 DEF WorkerExit
<1>26. CASE RuntimePoll
  BY <1>26 DEF RuntimePoll, RuntimeReturns
<1>27. CASE RuntimeChunk
  BY <1>27 DEF RuntimeChunk, Enqueue
<1>28. CASE RuntimeFinish
  BY <1>28 DEF RuntimeFinish, RuntimeReturns
<1>29. CASE WorkerRespond
  BY <1>29 DEF WorkerRespond, Enqueue
<1>30. CASE WorkerLeave
  BY <1>30 DEF WorkerLeave, WorkerDone, AfterJob, LoadedAfterJob
<1>31. CASE WriterWrite
  BY <1>31 DEF WriterWrite
<1>32. CASE WriterExit
  BY <1>32 DEF WriterExit
<1>33. CASE Exited \/ UNCHANGED vars
  BY <1>33 DEF Exited, vars
<1> QED
  BY <1>1, <1>2, <1>3, <1>4, <1>5, <1>6, <1>7, <1>8, <1>9, <1>10, <1>11, <1>12,
     <1>13, <1>14, <1>15, <1>16, <1>17, <1>18, <1>19, <1>20, <1>21, <1>22, <1>23,
     <1>24, <1>25, <1>26, <1>27, <1>28, <1>29, <1>30, <1>31, <1>32, <1>33 DEF Next,
     Client, Main, Handle, Worker, Writer

\* Every variable keeps its type.
THEOREM TypeCorrect == Spec => []TypeOK
<1>1. TypeOK /\ Framing /\ [Next]_vars => TypeOK' /\ Framing'
  BY TypeParts, FlagStep, DataStep, FramingStep DEF TypeOK, FlagTypes, DataTypes
<1> QED
  BY TypeInit, <1>1, PTL DEF Spec

-----------------------------------------------------------------------------
(* One job at a time.                                                      *)

\* handleLoad, handleSynthesize and handleExtract claim the state before they
\* post, and the worker gives it up only in leaveBusy: there is never a second job.
LEMMA OneJobStep == TypeOK /\ Framing /\ OneJob /\ [Next]_vars => OneJob'
<1> SUFFICES ASSUME TypeOK, Framing, OneJob, [Next]_vars PROVE OneJob'
  OBVIOUS
<1>0. /\ workerPc \in WorkerPcs /\ mainPc \in MainPcs /\ state \in EngineStates
      /\ pendingJob \in Nat /\ handled \in Nat
  BY DEF TypeOK
<1> USE <1>0 DEF OneJob, Posting, Running, Stopped, StoppingPcs, StateMutexFree, NoId,
         MainPcs, WorkerPcs, EngineStates, Bodies,
         inputVars, sourceVars, stateVars, workerVars, jobVars, writerVars
<1>1. CASE \E input \in UNION {Offered[i] : i \in DOMAIN Offered} : ClientSend(input)
  BY <1>1 DEF ClientSend
<1>2. CASE ClientCloseInput
  BY <1>2 DEF ClientCloseInput
<1>3. CASE FetchBatch
  BY <1>3 DEF FetchBatch
<1>4. CASE TakeFrame
  BY <1>4 DEF TakeFrame
<1>5. CASE RejectFrame
  BY <1>5 DEF RejectFrame
<1>6. CASE HandleInitialize
  BY <1>6 DEF HandleInitialize, Handling, AnswerWith
<1>7. CASE HandleLoad
  BY <1>7 DEF HandleLoad, Handling, Refuse, AnswerWith
<1>8. CASE HandleStatus
  BY <1>8 DEF HandleStatus, Handling, AnswerWith
<1>9. CASE HandleSynthesize
  BY <1>9 DEF HandleSynthesize, Handling, Refuse, AnswerWith
<1>10. CASE HandleCancel
  BY <1>10 DEF HandleCancel, Handling, AnswerWith
<1>11. CASE HandleExtract
  BY <1>11 DEF HandleExtract, Handling, Refuse, AnswerWith
<1>12. CASE HandleShutdown
  BY <1>12 DEF HandleShutdown, Handling, BeginStopping
<1>13. CASE CancelToken
  BY <1>13 DEF CancelToken
<1>14. CASE EnqueueReply
  BY <1>14 DEF EnqueueReply, Enqueue
<1>15. CASE EnqueueStarted
  BY <1>15 DEF EnqueueStarted, Enqueue
<1>16. CASE PostJob
  BY <1>16 DEF PostJob, Framing, HandlingPcs
<1>17. CASE EndOfInput
  BY <1>17 DEF EndOfInput, BeginStopping
<1>18. CASE StopWorker
  BY <1>18 DEF StopWorker
<1>19. CASE JoinWorker
  BY <1>19 DEF JoinWorker
<1>20. CASE ReleaseRuntime
  BY <1>20 DEF ReleaseRuntime
<1>21. CASE EnqueueShutdownReply
  BY <1>21 DEF EnqueueShutdownReply, Enqueue
<1>22. CASE CloseWriter
  BY <1>22 DEF CloseWriter
<1>23. CASE JoinWriter
  BY <1>23 DEF JoinWriter
<1>24. CASE WorkerTake
  BY <1>24 DEF WorkerTake
<1>25. CASE WorkerExit
  BY <1>25 DEF WorkerExit
<1>26. CASE RuntimePoll
  BY <1>26 DEF RuntimePoll, RuntimeReturns
<1>27. CASE RuntimeChunk
  BY <1>27 DEF RuntimeChunk, Enqueue
<1>28. CASE RuntimeFinish
  BY <1>28 DEF RuntimeFinish, RuntimeReturns
<1>29. CASE WorkerRespond
  BY <1>29 DEF WorkerRespond, Enqueue
<1>30. CASE WorkerLeave
  BY <1>30 DEF WorkerLeave, WorkerDone, AfterJob, LoadedAfterJob
<1>31. CASE WriterWrite
  BY <1>31 DEF WriterWrite
<1>32. CASE WriterExit
  BY <1>32 DEF WriterExit
<1>33. CASE Exited \/ UNCHANGED vars
  BY <1>33 DEF Exited, vars
<1> QED
  BY <1>1, <1>2, <1>3, <1>4, <1>5, <1>6, <1>7, <1>8, <1>9, <1>10, <1>11, <1>12,
     <1>13, <1>14, <1>15, <1>16, <1>17, <1>18, <1>19, <1>20, <1>21, <1>22, <1>23,
     <1>24, <1>25, <1>26, <1>27, <1>28, <1>29, <1>30, <1>31, <1>32, <1>33 DEF Next,
     Client, Main, Handle, Worker, Writer

\* Only the client adds a frame.
LEMMA SentSteps ==
  ASSUME [Next]_vars
  PROVE  \/ \E input \in UNION {Offered[i] : i \in DOMAIN Offered} : ClientSend(input)
         \/ UNCHANGED sent
BY DEF Next, Client, Main, Handle, Worker, Writer, vars, Exited, inputVars,
       ClientCloseInput, FetchBatch, TakeFrame, RejectFrame, HandleInitialize,
       HandleLoad, HandleStatus, HandleSynthesize, HandleCancel, HandleExtract,
       HandleShutdown, CancelToken, EnqueueReply, EnqueueStarted, PostJob,
       EndOfInput, StopWorker, JoinWorker, ReleaseRuntime, EnqueueShutdownReply,
       CloseWriter, JoinWriter, WorkerTake, WorkerExit, RuntimePoll, RuntimeChunk,
       RuntimeFinish, WorkerRespond, WorkerLeave, WriterWrite, WriterExit, Handling,
       AnswerWith, Refuse, BeginStopping, RuntimeReturns, WorkerDone

\* Only FdLineSource::next moves the reader.
LEMMA HandledSteps ==
  ASSUME [Next]_vars
  PROVE  TakeFrame \/ FetchBatch \/ UNCHANGED <<fetched, handled, framingFailed>>
BY DEF Next, Client, Main, Handle, Worker, Writer, vars, Exited, sourceVars, ClientSend,
       ClientCloseInput, RejectFrame, HandleInitialize, HandleLoad, HandleStatus,
       HandleSynthesize, HandleCancel, HandleExtract, HandleShutdown, CancelToken,
       EnqueueReply, EnqueueStarted, PostJob, EndOfInput, StopWorker, JoinWorker,
       ReleaseRuntime, EnqueueShutdownReply, CloseWriter, JoinWriter, WorkerTake,
       WorkerExit, RuntimePoll, RuntimeChunk, RuntimeFinish, WorkerRespond, WorkerLeave,
       WriterWrite, WriterExit, AnswerWith, Refuse, BeginStopping, RuntimeReturns,
       WorkerDone

\* What the client writes later does not change the frames that are there.
LEMMA SentStable ==
  ASSUME TypeOK, [Next]_vars, NEW i \in 1 .. Len(sent)
  PROVE  sent'[i] = sent[i]
<1> USE DEF TypeOK, inputVars
<1>1. CASE \E input \in UNION {Offered[k] : k \in DOMAIN Offered} : ClientSend(input)
  BY <1>1, OfferedTypes DEF ClientSend, Input, Frame
<1>2. CASE UNCHANGED sent
  BY <1>2
<1> QED
  BY <1>1, <1>2, SentSteps

\* One more message answers one more request, or none.
LEMMA AnsweredAppend ==
  ASSUME NEW s \in Seq(Message), NEW m \in Message
  PROVE  Answered(Append(s, m)) =
           IF m.kind = "response" /\ m.id # NoId
             THEN Answered(s) \cup {m.id} ELSE Answered(s)
<1> DEFINE t == Append(s, m)
<1>1. /\ DOMAIN t = DOMAIN s \cup {Len(s) + 1}
      /\ \A i \in DOMAIN s : t[i] = s[i]
      /\ t[Len(s) + 1] = m
  OBVIOUS
<1> HIDE DEF t
<1>2. Answered(t) =
        IF m.kind = "response" /\ m.id # NoId
          THEN Answered(s) \cup {m.id} ELSE Answered(s)
  BY <1>1 DEF Answered
<1> QED
  BY <1>2 DEF t

\* The state says loading exactly while the job is an engine.load.
LEMMA JobMatchesStep ==
  TypeOK /\ Framing /\ OneJob /\ Owed /\ JobMatchesState /\ [Next]_vars => JobMatchesState'
<1> SUFFICES ASSUME TypeOK, Framing, OneJob, Owed, JobMatchesState, [Next]_vars
             PROVE  JobMatchesState'
  OBVIOUS
<1>0. /\ workerPc \in WorkerPcs /\ mainPc \in MainPcs /\ state \in EngineStates
      /\ pendingJob \in Nat /\ handled \in Nat /\ job \in Nat
      /\ pendingJob <= handled /\ job <= handled /\ handled <= Len(sent)
      /\ sent \in Seq(Frame)
  BY DEF TypeOK, Owed
<1>00. \A i \in 1 .. handled : sent'[i] = sent[i]
  BY <1>0, SentStable
<1> USE <1>0, <1>00 DEF JobMatchesState, OneJob, Posting, Running, Stopped, StoppingPcs,
         StateMutexFree, NoId, MainPcs, WorkerPcs, EngineStates, 
         inputVars, sourceVars, stateVars, workerVars, jobVars, writerVars
<1>1. CASE \E input \in UNION {Offered[i] : i \in DOMAIN Offered} : ClientSend(input)
  BY <1>1 DEF ClientSend, Framing, HandlingPcs, Owed, Current
<1>2. CASE ClientCloseInput
  BY <1>2 DEF ClientCloseInput
<1>3. CASE FetchBatch
  BY <1>3 DEF FetchBatch, Framing, HandlingPcs, Owed, Current
<1>4. CASE TakeFrame
  BY <1>4 DEF TakeFrame, Framing, HandlingPcs, Owed, Current
<1>5. CASE RejectFrame
  BY <1>5 DEF RejectFrame
<1>6. CASE HandleInitialize
  BY <1>6 DEF HandleInitialize, Handling, AnswerWith
<1>7. CASE HandleLoad
  BY <1>7 DEF HandleLoad, Handling, Refuse, AnswerWith, Framing, HandlingPcs, Owed,
     Current
<1>8. CASE HandleStatus
  BY <1>8 DEF HandleStatus, Handling, AnswerWith
<1>9. CASE HandleSynthesize
  BY <1>9 DEF HandleSynthesize, Handling, Refuse, AnswerWith, Framing, HandlingPcs,
     Owed, Current
<1>10. CASE HandleCancel
  BY <1>10 DEF HandleCancel, Handling, AnswerWith
<1>11. CASE HandleExtract
  BY <1>11 DEF HandleExtract, Handling, Refuse, AnswerWith, Framing, HandlingPcs,
     Owed, Current
<1>12. CASE HandleShutdown
  BY <1>12 DEF HandleShutdown, Handling, BeginStopping
<1>13. CASE CancelToken
  BY <1>13 DEF CancelToken
<1>14. CASE EnqueueReply
  BY <1>14 DEF EnqueueReply, Enqueue
<1>15. CASE EnqueueStarted
  BY <1>15 DEF EnqueueStarted, Enqueue
<1>16. CASE PostJob
  BY <1>16 DEF PostJob, Framing, HandlingPcs, Owed, Current
<1>17. CASE EndOfInput
  BY <1>17 DEF EndOfInput, BeginStopping
<1>18. CASE StopWorker
  BY <1>18 DEF StopWorker
<1>19. CASE JoinWorker
  BY <1>19 DEF JoinWorker
<1>20. CASE ReleaseRuntime
  BY <1>20 DEF ReleaseRuntime
<1>21. CASE EnqueueShutdownReply
  BY <1>21 DEF EnqueueShutdownReply, Enqueue
<1>22. CASE CloseWriter
  BY <1>22 DEF CloseWriter
<1>23. CASE JoinWriter
  BY <1>23 DEF JoinWriter
<1>24. CASE WorkerTake
  BY <1>24 DEF WorkerTake, Framing, HandlingPcs, Owed, Current
<1>25. CASE WorkerExit
  BY <1>25 DEF WorkerExit
<1>26. CASE RuntimePoll
  BY <1>26 DEF RuntimePoll, RuntimeReturns
<1>27. CASE RuntimeChunk
  BY <1>27 DEF RuntimeChunk, Enqueue
<1>28. CASE RuntimeFinish
  BY <1>28 DEF RuntimeFinish, RuntimeReturns
<1>29. CASE WorkerRespond
  BY <1>29 DEF WorkerRespond, Enqueue
<1>30. CASE WorkerLeave
  BY <1>30 DEF WorkerLeave, WorkerDone, AfterJob, LoadedAfterJob, Framing,
     HandlingPcs, Owed, Current
<1>31. CASE WriterWrite
  BY <1>31 DEF WriterWrite
<1>32. CASE WriterExit
  BY <1>32 DEF WriterExit
<1>33. CASE Exited \/ UNCHANGED vars
  BY <1>33 DEF Exited, vars
<1> QED
  BY <1>1, <1>2, <1>3, <1>4, <1>5, <1>6, <1>7, <1>8, <1>9, <1>10, <1>11, <1>12,
     <1>13, <1>14, <1>15, <1>16, <1>17, <1>18, <1>19, <1>20, <1>21, <1>22, <1>23,
     <1>24, <1>25, <1>26, <1>27, <1>28, <1>29, <1>30, <1>31, <1>32, <1>33 DEF Next,
     Client, Main, Handle, Worker, Writer

-----------------------------------------------------------------------------
(* Every response is owed by exactly one place until it is queued.         *)

\* handleFrame and the worker never both hold the response of one request.
LEMMA OwedStep ==
  TypeOK /\ Framing /\ OneJob /\ Owed /\ [Next]_vars => Owed'
<1> SUFFICES ASSUME TypeOK, Framing, OneJob, Owed, [Next]_vars PROVE Owed'
  OBVIOUS
<1>0. /\ workerPc \in WorkerPcs /\ mainPc \in MainPcs /\ pendingJob \in Nat
      /\ handled \in Nat /\ fetched \in Nat /\ job \in Nat /\ sequence \in Nat
      /\ handled <= fetched /\ handled <= Len(sent)
      /\ \A i \in 1 .. Len(sent) : sent'[i] = sent[i]
  BY SentStable DEF TypeOK
<1> USE <1>0 DEF Framing, OneJob, Owed, Suits, Posting, Running, Stopped,
         StoppingPcs, HandlingPcs, StateMutexFree, NoId, NoReply, Response, MainPcs, WorkerPcs, JobMethods,
         inputVars, sourceVars, stateVars, workerVars, jobVars, writerVars
<1>1. CASE \E input \in UNION {Offered[i] : i \in DOMAIN Offered} : ClientSend(input)
  BY <1>1 DEF ClientSend
<1>2. CASE ClientCloseInput
  BY <1>2 DEF ClientCloseInput
<1>3. CASE FetchBatch
  BY <1>3 DEF FetchBatch
<1>4. CASE TakeFrame
  BY <1>4 DEF TakeFrame
<1>5. CASE RejectFrame
  <2>1. handled \in 1 .. Len(sent) /\ Current \in Frame
    BY <1>5, FrameTypes DEF RejectFrame, Current, TypeOK
  <2>2. Current.fault \notin {"ok", "accepted", "rejected"}
    BY <2>1 DEF Frame, Faults, TooLarge
  <2> QED
    BY <1>5, <2>2 DEF RejectFrame, Current
<1>6. CASE HandleInitialize
  <2>1. sent[handled].method = "initialize"
    BY <1>6 DEF HandleInitialize, Handling, Current
  <2> QED
    BY <1>6, <2>1 DEF HandleInitialize, Handling, AnswerWith
<1>7. CASE HandleLoad
  BY <1>7 DEF HandleLoad, Handling, Refuse, AnswerWith
<1>8. CASE HandleStatus
  <2>1. sent[handled].method = "engine.status"
    BY <1>8 DEF HandleStatus, Handling, Current
  <2> QED
    BY <1>8, <2>1 DEF HandleStatus, Handling, AnswerWith
<1>9. CASE HandleSynthesize
  BY <1>9 DEF HandleSynthesize, Handling, Refuse, AnswerWith
<1>10. CASE HandleCancel
  <2>1. sent[handled].method = "speech.cancel"
    BY <1>10 DEF HandleCancel, Handling, Current
  <2> QED
    BY <1>10, <2>1 DEF HandleCancel, Handling, AnswerWith
<1>11. CASE HandleExtract
  BY <1>11 DEF HandleExtract, Handling, Refuse, AnswerWith
<1>12. CASE HandleShutdown
  <2>1. sent[handled].method = "engine.shutdown"
    BY <1>12 DEF HandleShutdown, Handling, Current
  <2> QED
    BY <1>12, <2>1 DEF HandleShutdown, Handling, BeginStopping
<1>13. CASE CancelToken
  BY <1>13 DEF CancelToken
<1>14. CASE EnqueueReply
  <2>1. reply \in Message
    BY <1>14, Constructors DEF EnqueueReply, TypeOK
  <2>2. Answered(out') =
          IF reply.kind = "response" /\ reply.id # NoId
            THEN Answered(out) \cup {reply.id} ELSE Answered(out)
    BY <1>14, <2>1, AnsweredAppend DEF EnqueueReply, Enqueue, TypeOK
  <2> QED
    BY <1>14, <2>1, <2>2 DEF EnqueueReply, Enqueue, Response, Started, Audio
<1>15. CASE EnqueueStarted
  <2>1. Started(handled) \in Message
    BY <1>15, Constructors DEF EnqueueStarted
  <2>2. Answered(out') =
          IF Started(handled).kind = "response" /\ Started(handled).id # NoId
            THEN Answered(out) \cup {Started(handled).id} ELSE Answered(out)
    BY <1>15, <2>1, AnsweredAppend DEF EnqueueStarted, Enqueue, TypeOK
  <2> QED
    BY <1>15, <2>1, <2>2 DEF EnqueueStarted, Enqueue, Response, Started, Audio
<1>16. CASE PostJob
  BY <1>16 DEF PostJob
<1>17. CASE EndOfInput
  BY <1>17 DEF EndOfInput, BeginStopping
<1>18. CASE StopWorker
  BY <1>18 DEF StopWorker
<1>19. CASE JoinWorker
  BY <1>19 DEF JoinWorker
<1>20. CASE ReleaseRuntime
  BY <1>20 DEF ReleaseRuntime
<1>21. CASE EnqueueShutdownReply
  <2>1. reply \in Message
    BY <1>21, Constructors DEF EnqueueShutdownReply, TypeOK
  <2>2. Answered(out') =
          IF reply.kind = "response" /\ reply.id # NoId
            THEN Answered(out) \cup {reply.id} ELSE Answered(out)
    BY <1>21, <2>1, AnsweredAppend DEF EnqueueShutdownReply, Enqueue, TypeOK
  <2> QED
    BY <1>21, <2>1, <2>2 DEF EnqueueShutdownReply, Enqueue, Response, Started, Audio
<1>22. CASE CloseWriter
  BY <1>22 DEF CloseWriter
<1>23. CASE JoinWriter
  BY <1>23 DEF JoinWriter
<1>24. CASE WorkerTake
  BY <1>24 DEF WorkerTake
<1>25. CASE WorkerExit
  BY <1>25 DEF WorkerExit
<1>26. CASE RuntimePoll
  BY <1>26 DEF RuntimePoll, RuntimeReturns
<1>27. CASE RuntimeChunk
  <2>1. Audio(job, sequence) \in Message
    BY <1>27, Constructors DEF RuntimeChunk
  <2>2. Answered(out') =
          IF Audio(job, sequence).kind = "response" /\ Audio(job, sequence).id # NoId
            THEN Answered(out) \cup {Audio(job, sequence).id} ELSE Answered(out)
    BY <1>27, <2>1, AnsweredAppend DEF RuntimeChunk, Enqueue, TypeOK
  <2> QED
    BY <1>27, <2>1, <2>2 DEF RuntimeChunk, Enqueue, Response, Started, Audio
<1>28. CASE RuntimeFinish
  BY <1>28 DEF RuntimeFinish, RuntimeReturns
<1>29. CASE WorkerRespond
  <2>1. Response(job, outcome) \in Message
    BY <1>29, Constructors DEF WorkerRespond, Bodies, Faults, JobOutcomes, TypeOK
  <2>2. Answered(out') =
          IF Response(job, outcome).kind = "response" /\ Response(job,
               outcome).id # NoId
            THEN Answered(out) \cup {Response(job, outcome).id} ELSE Answered(out)
    BY <1>29, <2>1, AnsweredAppend DEF WorkerRespond, Enqueue, TypeOK
  <2> QED
    BY <1>29, <2>1, <2>2 DEF WorkerRespond, Enqueue, Response, Started, Audio
<1>30. CASE WorkerLeave
  BY <1>30 DEF WorkerLeave, WorkerDone, AfterJob, LoadedAfterJob
<1>31. CASE WriterWrite
  BY <1>31 DEF WriterWrite
<1>32. CASE WriterExit
  BY <1>32 DEF WriterExit
<1>33. CASE Exited \/ UNCHANGED vars
  BY <1>33 DEF Exited, vars
<1> QED
  BY <1>1, <1>2, <1>3, <1>4, <1>5, <1>6, <1>7, <1>8, <1>9, <1>10, <1>11, <1>12,
     <1>13, <1>14, <1>15, <1>16, <1>17, <1>18, <1>19, <1>20, <1>21, <1>22, <1>23,
     <1>24, <1>25, <1>26, <1>27, <1>28, <1>29, <1>30, <1>31, <1>32, <1>33 DEF Next,
     Client, Main, Handle, Worker, Writer

\* Only a synthesis is started or streams, and the output is closed last.
LEMMA StreamingStep ==
  TypeOK /\ Framing /\ OneJob /\ Owed /\ Streaming /\ [Next]_vars => Streaming'
<1> SUFFICES ASSUME TypeOK, Framing, OneJob, Owed, Streaming,
     [Next]_vars PROVE Streaming'
  OBVIOUS
<1>0. /\ workerPc \in WorkerPcs /\ mainPc \in MainPcs
      /\ handled \in Nat /\ job \in Nat /\ job <= handled /\ handled <= Len(sent)
      /\ (mainPc \in HandlingPcs => handled # NoId)
      /\ (workerPc = "chunk" => job # NoId)
      /\ \A i \in 1 .. Len(sent) : sent'[i] = sent[i]
  BY SentStable DEF TypeOK, Owed, Framing, Running
<1> USE <1>0 DEF Streaming, OneJob, Stopped, StoppingPcs, HandlingPcs, NoId,
         MainPcs, WorkerPcs,
         inputVars, sourceVars, stateVars, workerVars, jobVars, writerVars
<1>1. CASE \E input \in UNION {Offered[i] : i \in DOMAIN Offered} : ClientSend(input)
  BY <1>1 DEF ClientSend
<1>2. CASE ClientCloseInput
  BY <1>2 DEF ClientCloseInput
<1>3. CASE FetchBatch
  BY <1>3 DEF FetchBatch
<1>4. CASE TakeFrame
  BY <1>4 DEF TakeFrame
<1>5. CASE RejectFrame
  BY <1>5 DEF RejectFrame
<1>6. CASE HandleInitialize
  BY <1>6 DEF HandleInitialize, Handling, AnswerWith
<1>7. CASE HandleLoad
  BY <1>7 DEF HandleLoad, Handling, Refuse, AnswerWith
<1>8. CASE HandleStatus
  BY <1>8 DEF HandleStatus, Handling, AnswerWith
<1>9. CASE HandleSynthesize
  BY <1>9 DEF HandleSynthesize, Handling, Refuse, AnswerWith, Current
<1>10. CASE HandleCancel
  BY <1>10 DEF HandleCancel, Handling, AnswerWith
<1>11. CASE HandleExtract
  BY <1>11 DEF HandleExtract, Handling, Refuse, AnswerWith
<1>12. CASE HandleShutdown
  BY <1>12 DEF HandleShutdown, Handling, BeginStopping
<1>13. CASE CancelToken
  BY <1>13 DEF CancelToken
<1>14. CASE EnqueueReply
  BY <1>14 DEF EnqueueReply, Enqueue
<1>15. CASE EnqueueStarted
  BY <1>15 DEF EnqueueStarted, Enqueue
<1>16. CASE PostJob
  BY <1>16 DEF PostJob
<1>17. CASE EndOfInput
  BY <1>17 DEF EndOfInput, BeginStopping
<1>18. CASE StopWorker
  BY <1>18 DEF StopWorker
<1>19. CASE JoinWorker
  BY <1>19 DEF JoinWorker
<1>20. CASE ReleaseRuntime
  BY <1>20 DEF ReleaseRuntime
<1>21. CASE EnqueueShutdownReply
  BY <1>21 DEF EnqueueShutdownReply, Enqueue
<1>22. CASE CloseWriter
  BY <1>22 DEF CloseWriter
<1>23. CASE JoinWriter
  BY <1>23 DEF JoinWriter
<1>24. CASE WorkerTake
  BY <1>24 DEF WorkerTake
<1>25. CASE WorkerExit
  BY <1>25 DEF WorkerExit
<1>26. CASE RuntimePoll
  BY <1>26 DEF RuntimePoll, RuntimeReturns, Synthesizing
<1>27. CASE RuntimeChunk
  BY <1>27 DEF RuntimeChunk, Enqueue
<1>28. CASE RuntimeFinish
  BY <1>28 DEF RuntimeFinish, RuntimeReturns
<1>29. CASE WorkerRespond
  BY <1>29 DEF WorkerRespond, Enqueue
<1>30. CASE WorkerLeave
  BY <1>30 DEF WorkerLeave, WorkerDone, AfterJob, LoadedAfterJob
<1>31. CASE WriterWrite
  BY <1>31 DEF WriterWrite
<1>32. CASE WriterExit
  BY <1>32 DEF WriterExit
<1>33. CASE Exited \/ UNCHANGED vars
  BY <1>33 DEF Exited, vars
<1> QED
  BY <1>1, <1>2, <1>3, <1>4, <1>5, <1>6, <1>7, <1>8, <1>9, <1>10, <1>11, <1>12,
     <1>13, <1>14, <1>15, <1>16, <1>17, <1>18, <1>19, <1>20, <1>21, <1>22, <1>23,
     <1>24, <1>25, <1>26, <1>27, <1>28, <1>29, <1>30, <1>31, <1>32, <1>33 DEF Next,
     Client, Main, Handle, Worker, Writer

\* activeSynthesisId always names the job in progress (executeSynthesis resets
\* it under the lock it leaves busy with).
LEMMA ActiveStep ==
  TypeOK /\ Framing /\ OneJob /\ Owed /\ Active /\ [Next]_vars => Active'
<1> SUFFICES ASSUME TypeOK, Framing, OneJob, Owed, Active, [Next]_vars PROVE Active'
  OBVIOUS
<1>0. /\ workerPc \in WorkerPcs /\ mainPc \in MainPcs /\ activeSynthesis \in Nat
      /\ handled \in Nat /\ job \in Nat /\ pendingJob \in Nat /\ fetched \in Nat
      /\ handled <= fetched /\ handled <= Len(sent)
      /\ (mainPc \in HandlingPcs => handled # NoId)
      /\ (Running <=> job # NoId)
      /\ \A i \in 1 .. Len(sent) : sent'[i] = sent[i]
  BY SentStable DEF TypeOK, Owed, Framing
<1> USE <1>0 DEF Active, OneJob, Posting, Running, Stopped, StoppingPcs, HandlingPcs,
         StateMutexFree, NoId, MainPcs, WorkerPcs,
         inputVars, sourceVars, stateVars, workerVars, jobVars, writerVars
<1>1. CASE \E input \in UNION {Offered[i] : i \in DOMAIN Offered} : ClientSend(input)
  BY <1>1 DEF ClientSend
<1>2. CASE ClientCloseInput
  BY <1>2 DEF ClientCloseInput
<1>3. CASE FetchBatch
  BY <1>3 DEF FetchBatch
<1>4. CASE TakeFrame
  BY <1>4 DEF TakeFrame
<1>5. CASE RejectFrame
  BY <1>5 DEF RejectFrame
<1>6. CASE HandleInitialize
  BY <1>6 DEF HandleInitialize, Handling, AnswerWith
<1>7. CASE HandleLoad
  BY <1>7 DEF HandleLoad, Handling, Refuse, AnswerWith
<1>8. CASE HandleStatus
  BY <1>8 DEF HandleStatus, Handling, AnswerWith
<1>9. CASE HandleSynthesize
  BY <1>9 DEF HandleSynthesize, Handling, Refuse, AnswerWith, Current
<1>10. CASE HandleCancel
  BY <1>10 DEF HandleCancel, Handling, AnswerWith
<1>11. CASE HandleExtract
  BY <1>11 DEF HandleExtract, Handling, Refuse, AnswerWith
<1>12. CASE HandleShutdown
  BY <1>12 DEF HandleShutdown, Handling, BeginStopping
<1>13. CASE CancelToken
  BY <1>13 DEF CancelToken
<1>14. CASE EnqueueReply
  BY <1>14 DEF EnqueueReply, Enqueue
<1>15. CASE EnqueueStarted
  BY <1>15 DEF EnqueueStarted, Enqueue
<1>16. CASE PostJob
  BY <1>16 DEF PostJob
<1>17. CASE EndOfInput
  BY <1>17 DEF EndOfInput, BeginStopping
<1>18. CASE StopWorker
  BY <1>18 DEF StopWorker
<1>19. CASE JoinWorker
  BY <1>19 DEF JoinWorker
<1>20. CASE ReleaseRuntime
  BY <1>20 DEF ReleaseRuntime
<1>21. CASE EnqueueShutdownReply
  BY <1>21 DEF EnqueueShutdownReply, Enqueue
<1>22. CASE CloseWriter
  BY <1>22 DEF CloseWriter
<1>23. CASE JoinWriter
  BY <1>23 DEF JoinWriter
<1>24. CASE WorkerTake
  BY <1>24 DEF WorkerTake
<1>25. CASE WorkerExit
  BY <1>25 DEF WorkerExit
<1>26. CASE RuntimePoll
  BY <1>26 DEF RuntimePoll, RuntimeReturns
<1>27. CASE RuntimeChunk
  BY <1>27 DEF RuntimeChunk, Enqueue
<1>28. CASE RuntimeFinish
  BY <1>28 DEF RuntimeFinish, RuntimeReturns
<1>29. CASE WorkerRespond
  BY <1>29 DEF WorkerRespond, Enqueue
<1>30. CASE WorkerLeave
  BY <1>30 DEF WorkerLeave, WorkerDone, AfterJob, LoadedAfterJob, Synthesizing
<1>31. CASE WriterWrite
  BY <1>31 DEF WriterWrite
<1>32. CASE WriterExit
  BY <1>32 DEF WriterExit
<1>33. CASE Exited \/ UNCHANGED vars
  BY <1>33 DEF Exited, vars
<1> QED
  BY <1>1, <1>2, <1>3, <1>4, <1>5, <1>6, <1>7, <1>8, <1>9, <1>10, <1>11, <1>12,
     <1>13, <1>14, <1>15, <1>16, <1>17, <1>18, <1>19, <1>20, <1>21, <1>22, <1>23,
     <1>24, <1>25, <1>26, <1>27, <1>28, <1>29, <1>30, <1>31, <1>32, <1>33 DEF Next,
     Client, Main, Handle, Worker, Writer

-----------------------------------------------------------------------------
(* The invariant, and what follows from it.                                *)

\* The inductive invariant holds at the start.
LEMMA InvInit == Init => IInv
<1> SUFFICES ASSUME Init PROVE IInv
  OBVIOUS
<1>1. TypeOK /\ Framing
  BY TypeInit
<1>2. Answered(out) = {}
  BY DEF Init, Answered
<1>3. OneJob /\ JobMatchesState /\ Streaming /\ Active
  BY DEF Init, OneJob, JobMatchesState, Streaming, Active, Posting, Running, Stopped,
         StoppingPcs, NoId
<1>4. Owed
  BY <1>2 DEF Init, Owed, Suits, Running, HandlingPcs, NoReply, Response, NoId
<1> QED
  BY <1>1, <1>3, <1>4 DEF IInv

\* Every step of every thread preserves the inductive invariant.
LEMMA InvStep == IInv /\ [Next]_vars => IInv'
<1> SUFFICES ASSUME IInv, [Next]_vars PROVE IInv'
  OBVIOUS
<1>1. TypeOK' /\ Framing'
  BY TypeParts, FlagStep, DataStep, FramingStep DEF IInv, TypeOK, FlagTypes, DataTypes
<1>2. OneJob' /\ JobMatchesState' /\ Owed' /\ Streaming' /\ Active'
  BY OneJobStep, JobMatchesStep, OwedStep, StreamingStep, ActiveStep DEF IInv
<1> QED
  BY <1>1, <1>2 DEF IInv

\* So it holds throughout.
LEMMA Invariance == Spec => []IInv
BY InvInit, InvStep, PTL DEF Spec

\* postJob never finds the mailbox taken, so no accepted request is dropped.
THEOREM MailboxTheorem == Spec => []MailboxIsFree
<1>1. IInv => MailboxIsFree
  BY DEF IInv, OneJob, Posting, MailboxIsFree
<1> QED
  BY <1>1, Invariance, PTL

\* The engine is loading or busy exactly while it has a job.
THEOREM BusyTheorem == Spec => []BusyHasAJob
<1>1. IInv => BusyHasAJob
  BY DEF IInv, TypeOK, WorkerPcs, Framing, HandlingPcs, OneJob, Owed, Posting, Running,
         BusyHasAJob, CurrentJob, NoId
<1> QED
  BY <1>1, Invariance, PTL

\* The runtime is released only when no job is left and the worker is gone.
THEOREM ReleaseTheorem == Spec => []RuntimeReleasedLast
<1>1. IInv => RuntimeReleasedLast
  BY DEF IInv, OneJob, Posting, StoppingPcs, RuntimeReleasedLast, CurrentJob, NoId
<1> QED
  BY <1>1, Invariance, PTL

\* What one step does to EngineState.
LEMMA StateStep ==
  ASSUME IInv, [Next]_vars
  PROVE  state' # state => state' = "stopping" \/ <<state, state'>> \in Transitions
<1> USE DEF Transitions, inputVars, sourceVars, stateVars, workerVars, jobVars,
     writerVars
<1>1. CASE \E input \in UNION {Offered[i] : i \in DOMAIN Offered} : ClientSend(input)
  BY <1>1 DEF ClientSend
<1>2. CASE ClientCloseInput
  BY <1>2 DEF ClientCloseInput
<1>3. CASE FetchBatch
  BY <1>3 DEF FetchBatch
<1>4. CASE TakeFrame
  BY <1>4 DEF TakeFrame
<1>5. CASE RejectFrame
  BY <1>5 DEF RejectFrame
<1>6. CASE HandleInitialize
  BY <1>6 DEF HandleInitialize, Handling, AnswerWith
<1>7. CASE HandleLoad
  BY <1>7 DEF HandleLoad, Handling, Refuse, AnswerWith
<1>8. CASE HandleStatus
  BY <1>8 DEF HandleStatus, Handling, AnswerWith
<1>9. CASE HandleSynthesize
  BY <1>9 DEF HandleSynthesize, Handling, Refuse, AnswerWith
<1>10. CASE HandleCancel
  BY <1>10 DEF HandleCancel, Handling, AnswerWith
<1>11. CASE HandleExtract
  BY <1>11 DEF HandleExtract, Handling, Refuse, AnswerWith
<1>12. CASE HandleShutdown
  BY <1>12 DEF HandleShutdown, Handling, BeginStopping
<1>13. CASE CancelToken
  BY <1>13 DEF CancelToken
<1>14. CASE EnqueueReply
  BY <1>14 DEF EnqueueReply, Enqueue
<1>15. CASE EnqueueStarted
  BY <1>15 DEF EnqueueStarted, Enqueue
<1>16. CASE PostJob
  BY <1>16 DEF PostJob
<1>17. CASE EndOfInput
  BY <1>17 DEF EndOfInput, BeginStopping
<1>18. CASE StopWorker
  BY <1>18 DEF StopWorker
<1>19. CASE JoinWorker
  BY <1>19 DEF JoinWorker
<1>20. CASE ReleaseRuntime
  BY <1>20 DEF ReleaseRuntime
<1>21. CASE EnqueueShutdownReply
  BY <1>21 DEF EnqueueShutdownReply, Enqueue
<1>22. CASE CloseWriter
  BY <1>22 DEF CloseWriter
<1>23. CASE JoinWriter
  BY <1>23 DEF JoinWriter
<1>24. CASE WorkerTake
  BY <1>24 DEF WorkerTake
<1>25. CASE WorkerExit
  BY <1>25 DEF WorkerExit
<1>26. CASE RuntimePoll
  BY <1>26 DEF RuntimePoll, RuntimeReturns
<1>27. CASE RuntimeChunk
  BY <1>27 DEF RuntimeChunk, Enqueue
<1>28. CASE RuntimeFinish
  BY <1>28 DEF RuntimeFinish, RuntimeReturns
<1>29. CASE WorkerRespond
  BY <1>29 DEF WorkerRespond, Enqueue
<1>30. CASE WorkerLeave
  <2>1. CASE state = "stopping"
    BY <1>30, <2>1 DEF WorkerLeave
  <2>2. CASE state # "stopping"
    <3>1. Running
      BY <1>30 DEF WorkerLeave, Running
    <3>2. /\ state \in {"loading", "busy"}
          /\ state = "loading" <=> sent[job].method = "engine.load"
      BY <2>2, <3>1 DEF IInv, OneJob, JobMatchesState
    <3>3. state' = AfterJob
      BY <1>30, <2>2 DEF WorkerLeave
    <3> QED
      BY <3>2, <3>3 DEF AfterJob, Loading
  <2> QED
    BY <2>1, <2>2
<1>31. CASE WriterWrite
  BY <1>31 DEF WriterWrite
<1>32. CASE WriterExit
  BY <1>32 DEF WriterExit
<1>33. CASE Exited \/ UNCHANGED vars
  BY <1>33 DEF Exited, vars
<1> QED
  BY <1>1, <1>2, <1>3, <1>4, <1>5, <1>6, <1>7, <1>8, <1>9, <1>10, <1>11, <1>12,
     <1>13, <1>14, <1>15, <1>16, <1>17, <1>18, <1>19, <1>20, <1>21, <1>22, <1>23,
     <1>24, <1>25, <1>26, <1>27, <1>28, <1>29, <1>30, <1>31, <1>32, <1>33 DEF Next,
     Client, Main, Handle, Worker, Writer

\* The engine state takes only the moves of its life cycle, and stopping stays.
THEOREM StateTheorem == Spec => StateMovesLegally
<1>1. IInv /\ [Next]_vars => [StateMoves]_vars
  BY StateStep DEF StateMoves
<1> QED
  BY <1>1, Invariance, PTL DEF Spec, StateMovesLegally

\* What holds when handleCancel decides to accept.
LEMMA CancelStep ==
  ASSUME IInv, [Next]_vars, mainPc = "handle", mainPc' = "cancelToken"
  PROVE  CurrentJob = Current.target /\ Current.target \notin Answered(out)
<1> USE DEF inputVars, sourceVars, stateVars, workerVars, jobVars, writerVars
<1>1. CASE \E input \in UNION {Offered[i] : i \in DOMAIN Offered} : ClientSend(input)
  BY <1>1 DEF ClientSend
<1>2. CASE ClientCloseInput
  BY <1>2 DEF ClientCloseInput
<1>3. CASE FetchBatch
  BY <1>3 DEF FetchBatch
<1>4. CASE TakeFrame
  BY <1>4 DEF TakeFrame
<1>5. CASE RejectFrame
  BY <1>5 DEF RejectFrame
<1>6. CASE HandleInitialize
  BY <1>6 DEF HandleInitialize, Handling, AnswerWith
<1>7. CASE HandleLoad
  BY <1>7 DEF HandleLoad, Handling, Refuse, AnswerWith
<1>8. CASE HandleStatus
  BY <1>8 DEF HandleStatus, Handling, AnswerWith
<1>9. CASE HandleSynthesize
  BY <1>9 DEF HandleSynthesize, Handling, Refuse, AnswerWith
<1>10. CASE HandleCancel
  <2>1. /\ activeSynthesis = Current.target /\ activeSynthesis # NoId
        /\ workerPc # "leave" /\ ~Posting
    BY <1>10 DEF HandleCancel, Handling, AnswerWith, StateMutexFree, Posting
  <2>2. CASE pendingJob = activeSynthesis
    BY <2>1, <2>2 DEF CurrentJob, IInv, Owed, Posting
  <2>3. CASE pendingJob # activeSynthesis
    <3>1. Running /\ job = activeSynthesis
      BY <2>1, <2>3 DEF IInv, Active
    <3>2. pendingJob = NoId
      BY <3>1 DEF IInv, OneJob
    <3> QED
      BY <2>1, <3>1, <3>2 DEF CurrentJob, IInv, Owed, Posting, Running
  <2> QED
    BY <2>2, <2>3
<1>11. CASE HandleExtract
  BY <1>11 DEF HandleExtract, Handling, Refuse, AnswerWith
<1>12. CASE HandleShutdown
  BY <1>12 DEF HandleShutdown, Handling, BeginStopping
<1>13. CASE CancelToken
  BY <1>13 DEF CancelToken
<1>14. CASE EnqueueReply
  BY <1>14 DEF EnqueueReply, Enqueue
<1>15. CASE EnqueueStarted
  BY <1>15 DEF EnqueueStarted, Enqueue
<1>16. CASE PostJob
  BY <1>16 DEF PostJob
<1>17. CASE EndOfInput
  BY <1>17 DEF EndOfInput, BeginStopping
<1>18. CASE StopWorker
  BY <1>18 DEF StopWorker
<1>19. CASE JoinWorker
  BY <1>19 DEF JoinWorker
<1>20. CASE ReleaseRuntime
  BY <1>20 DEF ReleaseRuntime
<1>21. CASE EnqueueShutdownReply
  BY <1>21 DEF EnqueueShutdownReply, Enqueue
<1>22. CASE CloseWriter
  BY <1>22 DEF CloseWriter
<1>23. CASE JoinWriter
  BY <1>23 DEF JoinWriter
<1>24. CASE WorkerTake
  BY <1>24 DEF WorkerTake
<1>25. CASE WorkerExit
  BY <1>25 DEF WorkerExit
<1>26. CASE RuntimePoll
  BY <1>26 DEF RuntimePoll, RuntimeReturns
<1>27. CASE RuntimeChunk
  BY <1>27 DEF RuntimeChunk, Enqueue
<1>28. CASE RuntimeFinish
  BY <1>28 DEF RuntimeFinish, RuntimeReturns
<1>29. CASE WorkerRespond
  BY <1>29 DEF WorkerRespond, Enqueue
<1>30. CASE WorkerLeave
  BY <1>30 DEF WorkerLeave, WorkerDone, AfterJob, LoadedAfterJob
<1>31. CASE WriterWrite
  BY <1>31 DEF WriterWrite
<1>32. CASE WriterExit
  BY <1>32 DEF WriterExit
<1>33. CASE Exited \/ UNCHANGED vars
  BY <1>33 DEF Exited, vars
<1> QED
  BY <1>1, <1>2, <1>3, <1>4, <1>5, <1>6, <1>7, <1>8, <1>9, <1>10, <1>11, <1>12,
     <1>13, <1>14, <1>15, <1>16, <1>17, <1>18, <1>19, <1>20, <1>21, <1>22, <1>23,
     <1>24, <1>25, <1>26, <1>27, <1>28, <1>29, <1>30, <1>31, <1>32, <1>33 DEF Next,
     Client, Main, Handle, Worker, Writer

\* A cancel is accepted only for the job in progress, before its response.
THEOREM CancelTheorem == Spec => CancelFindsItsJob
<1>1. IInv /\ [Next]_vars => [AcceptFindsItsJob]_vars
  BY CancelStep DEF AcceptFindsItsJob
<1> QED
  BY <1>1, Invariance, PTL DEF Spec, CancelFindsItsJob

-----------------------------------------------------------------------------
(* An accepted cancel has set its token.                                   *)

\* handleCancel calls token->cancel() before it queues the answer.
Told ==
  /\ \A i \in DOMAIN out :
       out[i].body = "accepted" =>
         /\ out[i].id \in 1 .. handled
         /\ sent[out[i].id].target \in cancelled
  /\ reply.body = "accepted" =>
       /\ mainPc \in {"cancelToken", "enqueue"}
       /\ mainPc = "enqueue" => sent[handled].target \in cancelled

\* Queueing a message changes nothing before it.
LEMMA OneMore ==
  ASSUME NEW s \in Seq(Message), NEW m \in Message, NEW i \in DOMAIN Append(s, m)
  PROVE  (i \in DOMAIN s /\ Append(s, m)[i] = s[i]) \/ Append(s, m)[i] = m
OBVIOUS

\* No step unsets a token or answers "accepted" without one.
LEMMA ToldStep == IInv /\ Told /\ [Next]_vars => Told'
<1> SUFFICES ASSUME IInv, Told, [Next]_vars PROVE Told'
  OBVIOUS
<1>0. /\ TypeOK /\ Owed /\ handled \in Nat /\ fetched \in Nat
      /\ handled <= fetched /\ handled <= Len(sent) /\ out \in Seq(Message)
      /\ (mainPc \in HandlingPcs => handled # NoId)
      /\ \A i \in 1 .. Len(sent) : sent'[i] = sent[i]
  BY SentStable DEF IInv, TypeOK, Framing
<1> USE DEF NoId, inputVars, sourceVars, stateVars, workerVars, jobVars, writerVars
<1>1. CASE \E input \in UNION {Offered[i] : i \in DOMAIN Offered} : ClientSend(input)
  <2>1. UNCHANGED <<out, handled, cancelled, reply, mainPc>>
    BY <1>1 DEF ClientSend
  <2> QED
    BY <2>1, <1>0 DEF Told, HandlingPcs
<1>2. CASE ClientCloseInput
  BY <1>2, <1>0 DEF ClientCloseInput, Told
<1>3. CASE FetchBatch
  BY <1>3, <1>0 DEF FetchBatch, Told
<1>4. CASE TakeFrame
  BY <1>4, <1>0 DEF TakeFrame, Told
<1>5. CASE RejectFrame
  <2>1. handled \in 1 .. Len(sent) /\ Current \in Frame
    BY <1>5, <1>0, FrameTypes DEF RejectFrame, Current, TypeOK, HandlingPcs
  <2>2. Current.fault # "accepted"
    BY <2>1 DEF Frame, Faults, TooLarge
  <2> QED
    BY <1>5, <2>2, <1>0 DEF RejectFrame, Told, Response
<1>6. CASE HandleInitialize
  BY <1>6, <1>0 DEF HandleInitialize, Handling, AnswerWith, Told, Response, NoReply
<1>7. CASE HandleLoad
  BY <1>7, <1>0 DEF HandleLoad, Handling, Refuse, AnswerWith, Told, Response,
     NoReply
<1>8. CASE HandleStatus
  BY <1>8, <1>0 DEF HandleStatus, Handling, AnswerWith, Told, Response, NoReply
<1>9. CASE HandleSynthesize
  BY <1>9, <1>0 DEF HandleSynthesize, Handling, Refuse, AnswerWith, Told, Response,
     NoReply
<1>10. CASE HandleCancel
  BY <1>10, <1>0 DEF HandleCancel, Handling, AnswerWith, Told, Response, NoReply
<1>11. CASE HandleExtract
  BY <1>11, <1>0 DEF HandleExtract, Handling, Refuse, AnswerWith, Told, Response,
     NoReply
<1>12. CASE HandleShutdown
  BY <1>12, <1>0 DEF HandleShutdown, Handling, BeginStopping, Told, Response,
     Current
<1>13. CASE CancelToken
  BY <1>13, <1>0 DEF CancelToken, Told, Current
<1>14. CASE EnqueueReply
  <2>1. reply \in Message /\ out \in Seq(Message) /\ reply.id \in {NoId, handled}
    BY <1>0 DEF TypeOK, Owed
  <2>2. reply.body = "accepted" =>
          reply.id = handled /\ sent[handled].target \in cancelled /\ handled # NoId
    BY <1>14, <1>0 DEF EnqueueReply, Told, Owed, Suits, HandlingPcs
  <2>3. out' = Append(out, reply) /\ UNCHANGED <<sent, cancelled, handled>>
    BY <1>14 DEF EnqueueReply, Enqueue
  <2>4. reply' = NoReply /\ mainPc' # "enqueue" /\ mainPc' # "cancelToken"
    BY <1>14 DEF EnqueueReply
  <2> QED
    <3>1. \A i \in DOMAIN out' : (i \in DOMAIN out /\ out'[i] = out[i]) \/ out'[i] = reply
      BY <2>1, <2>3, OneMore
    <3>2. reply.body = "accepted" => reply.id \in 1 .. handled
      BY <2>2, <1>0 DEF TypeOK, NoId
    <3>3. \A i \in DOMAIN out' : out'[i].body = "accepted" =>
            out'[i].id \in 1 .. handled /\ sent[out'[i].id].target \in cancelled
      BY <3>1, <3>2, <2>2, <1>0 DEF Told
    <3>4. reply'.body # "accepted"
      BY <2>4 DEF NoReply, Response
    <3> QED
      BY <3>3, <3>4, <2>3 DEF Told
<1>15. CASE EnqueueStarted
  <2>1. Started(handled) \in Message
    BY <1>15, <1>0, Constructors DEF EnqueueStarted, Bodies, Faults, JobOutcomes, TypeOK
  <2>2. Started(handled).body # "accepted"
    BY <1>0 DEF TypeOK, JobOutcomes, Started, Audio, Response
  <2>3. \A i \in DOMAIN out' : (i \in DOMAIN out /\ out'[i] = out[i]) \/ out'[i] = Started(handled)
    BY <1>15, <2>1, <1>0, OneMore DEF EnqueueStarted, Enqueue
  <2>4. UNCHANGED <<sent, cancelled, handled, reply>> /\ (mainPc' = mainPc \/ mainPc = "started")
    BY <1>15 DEF EnqueueStarted
  <2> QED
    BY <2>2, <2>3, <2>4, <1>0 DEF Told
<1>16. CASE PostJob
  BY <1>16, <1>0 DEF PostJob, Told
<1>17. CASE EndOfInput
  BY <1>17, <1>0 DEF EndOfInput, BeginStopping, Told, Owed, NoReply, Response
<1>18. CASE StopWorker
  BY <1>18, <1>0 DEF StopWorker, Told
<1>19. CASE JoinWorker
  BY <1>19, <1>0 DEF JoinWorker, Told
<1>20. CASE ReleaseRuntime
  BY <1>20, <1>0 DEF ReleaseRuntime, Told
<1>21. CASE EnqueueShutdownReply
  <2>1. reply \in Message /\ out \in Seq(Message) /\ reply.id \in {NoId, handled}
    BY <1>0 DEF TypeOK, Owed
  <2>2. reply.body = "accepted" =>
          reply.id = handled /\ sent[handled].target \in cancelled /\ handled # NoId
    BY <1>21, <1>0 DEF EnqueueShutdownReply, Told, Owed, Suits, HandlingPcs
  <2>3. out' = Append(out, reply) /\ UNCHANGED <<sent, cancelled, handled>>
    BY <1>21 DEF EnqueueShutdownReply, Enqueue
  <2>4. reply' = NoReply /\ mainPc' # "enqueue" /\ mainPc' # "cancelToken"
    BY <1>21 DEF EnqueueShutdownReply
  <2> QED
    <3>1. \A i \in DOMAIN out' : (i \in DOMAIN out /\ out'[i] = out[i]) \/ out'[i] = reply
      BY <2>1, <2>3, OneMore
    <3>2. reply.body = "accepted" => reply.id \in 1 .. handled
      BY <2>2, <1>0 DEF TypeOK, NoId
    <3>3. \A i \in DOMAIN out' : out'[i].body = "accepted" =>
            out'[i].id \in 1 .. handled /\ sent[out'[i].id].target \in cancelled
      BY <3>1, <3>2, <2>2, <1>0 DEF Told
    <3>4. reply'.body # "accepted"
      BY <2>4 DEF NoReply, Response
    <3> QED
      BY <3>3, <3>4, <2>3 DEF Told
<1>22. CASE CloseWriter
  BY <1>22, <1>0 DEF CloseWriter, Told
<1>23. CASE JoinWriter
  BY <1>23, <1>0 DEF JoinWriter, Told
<1>24. CASE WorkerTake
  BY <1>24, <1>0 DEF WorkerTake, Told
<1>25. CASE WorkerExit
  BY <1>25, <1>0 DEF WorkerExit, Told
<1>26. CASE RuntimePoll
  BY <1>26, <1>0 DEF RuntimePoll, RuntimeReturns, Told
<1>27. CASE RuntimeChunk
  <2>1. Audio(job, sequence) \in Message
    BY <1>27, <1>0, Constructors DEF RuntimeChunk, Bodies, Faults, JobOutcomes, TypeOK
  <2>2. Audio(job, sequence).body # "accepted"
    BY <1>0 DEF TypeOK, JobOutcomes, Started, Audio, Response
  <2>3. \A i \in DOMAIN out' : (i \in DOMAIN out /\ out'[i] = out[i]) \/ out'[i] = Audio(job, sequence)
    BY <1>27, <2>1, <1>0, OneMore DEF RuntimeChunk, Enqueue
  <2>4. UNCHANGED <<sent, cancelled, handled, reply>> /\ (mainPc' = mainPc \/ mainPc = "started")
    BY <1>27 DEF RuntimeChunk
  <2> QED
    BY <2>2, <2>3, <2>4, <1>0 DEF Told
<1>28. CASE RuntimeFinish
  BY <1>28, <1>0 DEF RuntimeFinish, RuntimeReturns, Told
<1>29. CASE WorkerRespond
  <2>1. Response(job, outcome) \in Message
    BY <1>29, <1>0, Constructors DEF WorkerRespond, Bodies, Faults, JobOutcomes, TypeOK
  <2>2. Response(job, outcome).body # "accepted"
    BY <1>0 DEF TypeOK, JobOutcomes, Started, Audio, Response
  <2>3. \A i \in DOMAIN out' : (i \in DOMAIN out /\ out'[i] = out[i]) \/ out'[i] = Response(job, outcome)
    BY <1>29, <2>1, <1>0, OneMore DEF WorkerRespond, Enqueue
  <2>4. UNCHANGED <<sent, cancelled, handled, reply>> /\ (mainPc' = mainPc \/ mainPc = "started")
    BY <1>29 DEF WorkerRespond
  <2> QED
    BY <2>2, <2>3, <2>4, <1>0 DEF Told
<1>30. CASE WorkerLeave
  BY <1>30, <1>0 DEF WorkerLeave, WorkerDone, AfterJob, LoadedAfterJob, Told
<1>31. CASE WriterWrite
  BY <1>31, <1>0 DEF WriterWrite, Told
<1>32. CASE WriterExit
  BY <1>32, <1>0 DEF WriterExit, Told
<1>33. CASE Exited \/ UNCHANGED vars
  BY <1>33 DEF Exited, vars, Told
<1> QED
  BY <1>1, <1>2, <1>3, <1>4, <1>5, <1>6, <1>7, <1>8, <1>9, <1>10, <1>11, <1>12,
     <1>13, <1>14, <1>15, <1>16, <1>17, <1>18, <1>19, <1>20, <1>21, <1>22, <1>23,
     <1>24, <1>25, <1>26, <1>27, <1>28, <1>29, <1>30, <1>31, <1>32, <1>33 DEF Next,
     Client, Main, Handle, Worker, Writer

\* After "accepted" the runtime begins no further chunk of that synthesis.
THEOREM PromptTheorem == Spec => CancelIsPrompt
<1>1. Init => Told
  BY DEF Init, Told, NoReply, Response
<1>2. IInv /\ Told /\ [Next]_vars => [NoChunkOnceAccepted]_vars
  <2> SUFFICES ASSUME IInv, Told, [Next]_vars, workerPc = "run", workerPc' = "chunk"
               PROVE  ~Accepted(job)
    BY DEF NoChunkOnceAccepted
  <2>1. RuntimePoll
    BY DEF Next, Main, Handle, Worker, Writer, Client, Exited, vars, ClientSend,
           ClientCloseInput, FetchBatch, TakeFrame, RejectFrame, HandleInitialize,
           HandleLoad, HandleStatus, HandleSynthesize, HandleCancel, HandleExtract,
           HandleShutdown, Refuse, AnswerWith, BeginStopping, CancelToken, EnqueueReply,
           EnqueueStarted, PostJob, EndOfInput, StopWorker, JoinWorker, ReleaseRuntime,
           EnqueueShutdownReply, CloseWriter, JoinWriter, WorkerTake, WorkerExit,
           RuntimeChunk, RuntimeFinish, RuntimeReturns, WorkerRespond, WorkerLeave,
           WorkerDone, WriterWrite, WriterExit, workerVars
  <2>2. job \notin cancelled
    BY <2>1 DEF RuntimePoll, RuntimeReturns
  <2> QED
    BY <2>2 DEF Accepted, Told
<1> QED
  BY <1>1, <1>2, ToldStep, Invariance, PTL DEF Spec, CancelIsPrompt

-----------------------------------------------------------------------------
(* What the order of the whole output shows: nobody is refused as busy for *)
(* nothing, and a shutdown is answered last, after everything before it.   *)

\* The worker and the mailbox only ever hold jobs.
Jobs ==
  /\ Posting => sent[handled].method \in JobMethods
  /\ pendingJob # NoId => sent[pendingJob].method \in JobMethods
  /\ Running => sent[job].method \in JobMethods

\* Request j is not answered by the first n messages.
Unanswered(j, n) == \A k \in 1 .. n : out[k].kind = "response" => out[k].id # j

\* What justifies refusing request r as busy.
Excused(r) ==
  \E j \in 1 .. (r - 1) : sent[j].method \in JobMethods /\ Unanswered(j, sent[r].seen)

\* What a client had read was on stdout, and whoever is or will be told
\* "resource_busy" had not read the answer to an earlier job.
Refusals ==
  /\ \A r \in 1 .. Len(sent) : sent[r].seen <= Len(out)
  /\ reply.body = "resource_busy" => reply.id = handled /\ handled # NoId /\ Excused(handled)
  /\ \A i \in DOMAIN out :
       out[i].body = "resource_busy" => out[i].id \in 1 .. Len(sent) /\ Excused(out[i].id)

\* A frame whose fault leaves it without an id.
Anonymous == {"parse_error", "invalid_request_without_id"}

\* A failed decoder hands nothing more to handleFrame; a reply without an id
\* answers an anonymous frame, and none but finishShutdown answers a shutdown.
Replies ==
  /\ framingFailed => handled = fetched /\ reply = NoReply /\ mainPc \in {"read"} \cup StoppingPcs
  /\ mainPc = "cancelToken" => reply.id = handled /\ reply.body = "accepted"
  /\ mainPc = "enqueue" =>
       /\ reply.id = NoId => sent[handled].fault \in Anonymous
       /\ reply.body = "ok" => sent[handled].method # "engine.shutdown"

\* Where the answer to request r still is.
Owing(r) ==
  \/ r = handled /\ (mainPc \in HandlingPcs \/ reply.id = handled)
  \/ r = pendingJob
  \/ r = job /\ workerPc \in {"run", "chunk", "respond"}

\* Every request handed to handleFrame is answered, or its answer is on its way.
Accounted ==
  ~framingFailed =>
    \A r \in 1 .. handled :
      r \in Answered(out) \/ sent[r].fault \in Anonymous \/ Owing(r)

\* The answer to engine.shutdown is the last message, about the last request.
LastWord ==
  \A i \in DOMAIN out :
    out[i].kind = "response" /\ out[i].body = "ok" =>
      /\ out[i].id \in 1 .. handled
      /\ sent[out[i].id].method = "engine.shutdown" =>
           /\ i = Len(out) /\ out[i].id = handled /\ ~framingFailed
           /\ mainPc \in {"closeWriter", "joinWriter", "exited"}

Ledger == Jobs /\ Refusals /\ Replies /\ Accounted /\ LastWord

\* An engine that has just started has nothing to account for.
LEMMA LedgerInit == Init => Ledger
BY DEF Init, Ledger, Jobs, Refusals, Replies, Accounted, LastWord, Posting, Running, NoId,
       NoReply, Response

\* The numbers the proofs below calculate with.
LEMMA Basics ==
  ASSUME IInv, [Next]_vars
  PROVE  /\ handled \in Nat /\ job \in Nat /\ pendingJob \in Nat /\ fetched \in Nat
         /\ Len(sent) \in Nat /\ handled <= fetched /\ fetched <= Len(sent)
         /\ pendingJob <= handled /\ job <= handled /\ (Running <=> job # NoId)
         /\ mainPc \in HandlingPcs => handled # NoId
         /\ \A i \in 1 .. Len(sent) : sent'[i] = sent[i]
         /\ handled' \in Nat /\ Len(sent') \in Nat /\ Len(sent) <= Len(sent')
<1>1. TypeOK /\ Framing /\ Owed /\ TypeOK'
  BY InvStep DEF IInv
<1>2. Len(sent) \in Nat /\ Len(sent') \in Nat /\ handled' \in Nat
  <2>1. sent \in Seq(Frame) /\ sent' \in Seq(Frame) /\ handled' \in Nat
    BY <1>1 DEF TypeOK
  <2> QED
    BY <2>1
<1>3. \A i \in 1 .. Len(sent) : sent'[i] = sent[i]
  BY <1>1, SentStable
<1>4. Len(sent) <= Len(sent')
  <2>1. CASE \E input \in UNION {Offered[i] : i \in DOMAIN Offered} : ClientSend(input)
    <3>1. PICK f : sent' = Append(sent, f)
      BY <2>1 DEF ClientSend
    <3>2. sent \in Seq(Frame)
      BY <1>1 DEF TypeOK
    <3> QED
      BY <1>2, <3>1, <3>2
  <2>2. CASE UNCHANGED sent
    BY <1>2, <2>2
  <2> QED
    BY <2>1, <2>2, SentSteps
<1> QED
  BY <1>1, <1>2, <1>3, <1>4 DEF TypeOK, Framing, Owed

\* What a step queues: the main thread's reply, the worker's response or a message
\* of a stream, which has no body.
LEMMA OneMessage ==
  ASSUME IInv, [Next]_vars
  PROVE  \/ UNCHANGED out
         \/ (EnqueueReply \/ EnqueueShutdownReply) /\ out' = Append(out, reply)
         \/ WorkerRespond /\ out' = Append(out, Response(job, outcome))
         \/ EnqueueStarted /\ out' = Append(out, Started(handled))
         \/ RuntimeChunk /\ out' = Append(out, Audio(job, sequence))
<1>1. \/ UNCHANGED out
      \/ EnqueueReply \/ EnqueueShutdownReply \/ WorkerRespond \/ EnqueueStarted \/ RuntimeChunk
  BY DEF Next, Client, Main, Handle, Worker, Writer, vars, Exited, ClientSend,
       ClientCloseInput, FetchBatch, TakeFrame, RejectFrame, HandleInitialize,
       HandleLoad, HandleStatus, HandleSynthesize, HandleCancel, HandleExtract,
       HandleShutdown, CancelToken, PostJob, EndOfInput, StopWorker, JoinWorker,
       ReleaseRuntime, CloseWriter, JoinWriter, WorkerTake, WorkerExit, RuntimePoll,
       RuntimeFinish, WorkerLeave, WriterWrite, WriterExit,
       AnswerWith, Refuse, BeginStopping, RuntimeReturns, WorkerDone
<1> QED
  BY <1>1 DEF EnqueueReply, EnqueueShutdownReply, WorkerRespond, EnqueueStarted, RuntimeChunk,
              Enqueue

\* What was queued stays, and the message a step adds is one of those.
LEMMA OutputGrows ==
  ASSUME IInv, [Next]_vars
  PROVE  /\ Len(out) \in Nat /\ Len(out') \in Nat /\ Len(out) <= Len(out')
         /\ \A k \in 1 .. Len(out) : out'[k] = out[k]
         /\ \A k \in 1 .. Len(out') :
              \/ k \in 1 .. Len(out)
              \/ /\ k = Len(out')
                 /\ \/ (EnqueueReply \/ EnqueueShutdownReply) /\ out'[k] = reply
                    \/ WorkerRespond /\ out'[k] = Response(job, outcome)
                    \/ out'[k].kind # "response" /\ out'[k].body = "none"
<1>1. out \in Seq(Message) /\ Len(out) \in Nat
  BY DEF IInv, TypeOK
<1>2. ASSUME NEW m, out' = Append(out, m)
      PROVE  /\ Len(out') = Len(out) + 1 /\ out'[Len(out')] = m
             /\ \A k \in 1 .. Len(out) : out'[k] = out[k]
  BY <1>1, <1>2
<1>3. CASE UNCHANGED out
  BY <1>1, <1>3
<1>4. CASE (EnqueueReply \/ EnqueueShutdownReply) /\ out' = Append(out, reply)
  <2>1. /\ Len(out') = Len(out) + 1 /\ out'[Len(out')] = reply
        /\ \A k \in 1 .. Len(out) : out'[k] = out[k]
    BY <1>2, <1>4
  <2> QED
    BY <1>1, <1>4, <2>1
<1>5. CASE WorkerRespond /\ out' = Append(out, Response(job, outcome))
  <2>1. /\ Len(out') = Len(out) + 1 /\ out'[Len(out')] = Response(job, outcome)
        /\ \A k \in 1 .. Len(out) : out'[k] = out[k]
    BY <1>2, <1>5
  <2> QED
    BY <1>1, <1>5, <2>1
<1>6. CASE EnqueueStarted /\ out' = Append(out, Started(handled))
  <2>1. /\ Len(out') = Len(out) + 1 /\ out'[Len(out')] = Started(handled)
        /\ \A k \in 1 .. Len(out) : out'[k] = out[k]
    BY <1>2, <1>6
  <2> QED
    BY <1>1, <2>1 DEF Started
<1>7. CASE RuntimeChunk /\ out' = Append(out, Audio(job, sequence))
  <2>1. /\ Len(out') = Len(out) + 1 /\ out'[Len(out')] = Audio(job, sequence)
        /\ \A k \in 1 .. Len(out) : out'[k] = out[k]
    BY <1>2, <1>7
  <2> QED
    BY <1>1, <2>1 DEF Audio
<1> QED
  BY <1>3, <1>4, <1>5, <1>6, <1>7, OneMessage

\* Who has been answered stays answered.
LEMMA AnsweredGrows ==
  ASSUME IInv, [Next]_vars
  PROVE  Answered(out) \subseteq Answered(out')
<1>1. DOMAIN out = 1 .. Len(out) /\ DOMAIN out' = 1 .. Len(out')
  <2>1. out \in Seq(Message) /\ out' \in Seq(Message)
    BY InvStep DEF IInv, TypeOK
  <2> QED
    BY <2>1
<1>2. SUFFICES ASSUME NEW id \in Answered(out) PROVE id \in Answered(out')
  OBVIOUS
<1>3. PICK i \in DOMAIN out : out[i].kind = "response" /\ out[i].id # NoId /\ out[i].id = id
  BY DEF Answered
<1>4. i \in DOMAIN out' /\ out'[i] = out[i]
  <2>1. /\ Len(out) \in Nat /\ Len(out') \in Nat /\ Len(out) <= Len(out')
        /\ \A k \in 1 .. Len(out) : out'[k] = out[k]
    BY OutputGrows
  <2> QED
    BY <1>1, <2>1
<1> QED
  BY <1>3, <1>4 DEF Answered

\* A job is only accepted from a job method, and passed on.
LEMMA JobsStep == IInv /\ Jobs /\ [Next]_vars => Jobs'
<1> SUFFICES ASSUME IInv, Jobs, [Next]_vars PROVE Jobs'
  OBVIOUS
<1>0. /\ handled \in Nat /\ job \in Nat /\ pendingJob \in Nat /\ handled <= Len(sent)
      /\ pendingJob <= handled /\ job <= handled /\ (Running <=> job # NoId)
      /\ mainPc \in HandlingPcs => handled # NoId
      /\ \A i \in 1 .. Len(sent) : sent'[i] = sent[i]
      /\ Len(sent) \in Nat
  BY Basics
<1>1. CASE TakeFrame \/ FetchBatch
  BY <1>0, <1>1 DEF TakeFrame, FetchBatch, Jobs, Posting, Running, workerVars, jobVars,
        inputVars, NoId
<1>2. CASE HandleLoad \/ HandleSynthesize \/ HandleExtract
  <2>1. sent[handled].method \in JobMethods /\ mainPc \in HandlingPcs
    BY <1>2 DEF HandleLoad, HandleSynthesize, HandleExtract, Handling, Current, JobMethods,
                HandlingPcs
  <2>2. UNCHANGED <<sent, handled, pendingJob, workerPc, job>>
    BY <1>2 DEF HandleLoad, HandleSynthesize, HandleExtract, Refuse, AnswerWith, inputVars,
                sourceVars, jobVars, workerVars
  <2> QED
    BY <2>1, <2>2 DEF Jobs, Posting, Running
<1>3. CASE PostJob
  <2>1. sent[handled].method \in JobMethods /\ pendingJob' \in {pendingJob, handled}
    BY <1>3 DEF PostJob, Jobs, Posting
  <2>2. UNCHANGED <<sent, workerPc, job>> /\ mainPc' = "read"
    BY <1>3 DEF PostJob, inputVars, workerVars
  <2> QED
    BY <2>1, <2>2 DEF Jobs, Posting, Running
<1>4. CASE WorkerTake
  BY <1>0, <1>4 DEF WorkerTake, Jobs, Posting, Running, NoId, inputVars, sourceVars
<1>5. CASE WorkerLeave
  BY <1>0, <1>5 DEF WorkerLeave, WorkerDone, Jobs, Posting, Running, NoId, inputVars,
                    sourceVars, jobVars
<1>6. CASE /\ UNCHANGED <<handled, pendingJob, job>>
           /\ (Posting' => Posting) /\ (Running' => Running)
  BY <1>0, <1>6 DEF Jobs, Posting, HandlingPcs, NoId
<1>7. \/ TakeFrame \/ FetchBatch \/ HandleLoad \/ HandleSynthesize \/ HandleExtract \/ PostJob
      \/ WorkerTake \/ WorkerLeave
      \/ /\ UNCHANGED <<handled, pendingJob, job>>
         /\ (Posting' => Posting) /\ (Running' => Running)
  BY DEF Next, Client, Main, Handle, Worker, Writer, vars, Exited, ClientSend,
       ClientCloseInput, RejectFrame, HandleInitialize, HandleStatus, HandleCancel,
       HandleShutdown, CancelToken, EnqueueReply, EnqueueStarted, EndOfInput, StopWorker,
       JoinWorker, ReleaseRuntime, EnqueueShutdownReply, CloseWriter, JoinWriter,
       WorkerExit, RuntimePoll, RuntimeChunk, RuntimeFinish, WorkerRespond, WriterWrite,
       WriterExit, AnswerWith, BeginStopping, RuntimeReturns, inputVars, sourceVars,
       jobVars, workerVars, writerVars, Posting, Running
<1> QED
  BY <1>1, <1>2, <1>3, <1>4, <1>5, <1>6, <1>7

\* The prefix of a sequence answers what its positions say.
LEMMA PrefixAnswers ==
  ASSUME NEW s \in Seq(Message), NEW n \in Nat, n <= Len(s), NEW j, j # NoId
  PROVE  j \notin Answered(SubSeq(s, 1, n)) <=>
           \A k \in 1 .. n : s[k].kind = "response" => s[k].id # j
<1> DEFINE t == SubSeq(s, 1, n)
<1>1. DOMAIN t = 1 .. n /\ \A k \in 1 .. n : t[k] = s[k]
  OBVIOUS
<1> HIDE DEF t
<1>2. j \notin Answered(t) <=> \A k \in 1 .. n : t[k].kind = "response" => t[k].id # j
  BY <1>1 DEF Answered
<1> QED
  BY <1>1, <1>2 DEF t

\* Only handleFrame, holding stateMutex and finding the engine busy, says so.
LEMMA RefusedWhileBusy ==
  ASSUME IInv, [Next]_vars, reply'.body = "resource_busy"
  PROVE  /\ handled' = handled
         /\ \/ reply' = reply
            \/ /\ UNCHANGED <<sent, out>> /\ reply' = Response(handled, "resource_busy")
               /\ state = "busy" /\ mainPc = "handle" /\ StateMutexFree
<1>0. Owed /\ TypeOK /\ Framing
  BY DEF IInv
<1>1. CASE TakeFrame \/ FetchBatch
  <2>1. mainPc = "read" /\ reply' = reply
    BY <1>1 DEF TakeFrame, FetchBatch
  <2>2. reply = NoReply
    BY <1>0, <2>1 DEF Owed
  <2> QED
    BY <2>1, <2>2 DEF NoReply, Response
<1>2. CASE RejectFrame
  <2>1. handled \in 1 .. Len(sent) /\ Current \in Frame
    BY <1>0, <1>2, FrameTypes DEF RejectFrame, Current, TypeOK, Framing, HandlingPcs, NoId
  <2>2. reply'.body # "resource_busy"
    BY <1>2, <2>1 DEF RejectFrame, Response, Frame, Faults, TooLarge
  <2> QED
    BY <2>2
<1>3. CASE HandleLoad \/ HandleSynthesize \/ HandleExtract
  BY <1>3 DEF HandleLoad, HandleSynthesize, HandleExtract, Handling, Refuse, AnswerWith,
              Response, inputVars, sourceVars
<1>4. CASE HandleInitialize \/ HandleStatus \/ HandleCancel \/ HandleShutdown
  <2>1. handled' = handled /\ (reply' = reply \/ reply'.body # "resource_busy")
    BY <1>4 DEF HandleInitialize, HandleStatus, HandleCancel, HandleShutdown, AnswerWith,
                BeginStopping, Response, sourceVars
  <2> QED
    BY <2>1
<1>5. CASE EnqueueReply \/ EnqueueShutdownReply
  BY <1>5 DEF EnqueueReply, EnqueueShutdownReply, NoReply, Response
<1>6. CASE UNCHANGED <<reply, handled>>
  BY <1>6
<1>7. \/ TakeFrame \/ FetchBatch \/ RejectFrame
      \/ HandleLoad \/ HandleSynthesize \/ HandleExtract
      \/ HandleInitialize \/ HandleStatus \/ HandleCancel \/ HandleShutdown
      \/ EnqueueReply \/ EnqueueShutdownReply
      \/ UNCHANGED <<reply, handled>>
  BY DEF Next, Client, Main, Handle, Worker, Writer, vars, Exited, ClientSend,
       ClientCloseInput, CancelToken, EnqueueStarted, EndOfInput, PostJob, StopWorker,
       JoinWorker, ReleaseRuntime, CloseWriter, JoinWriter, WorkerTake, WorkerLeave,
       WorkerDone, WorkerExit, RuntimePoll, RuntimeChunk, RuntimeFinish, WorkerRespond,
       WriterWrite, WriterExit, BeginStopping, RuntimeReturns, sourceVars
<1> QED
  BY <1>1, <1>2, <1>3, <1>4, <1>5, <1>6, <1>7

\* While the engine is busy, the job it is busy with has not been answered.
LEMMA BusyExcuses ==
  ASSUME IInv, Jobs, Refusals, state = "busy", mainPc = "handle", StateMutexFree
  PROVE  handled # NoId /\ Excused(handled)
<1>0. /\ TypeOK /\ Framing /\ OneJob /\ Owed /\ handled # NoId
      /\ handled \in Nat /\ job \in Nat /\ pendingJob \in Nat /\ Len(sent) \in Nat
      /\ handled <= Len(sent) /\ pendingJob <= handled /\ job <= handled
  BY DEF IInv, TypeOK, Framing, Owed, HandlingPcs
<1>1. PICK j \in {pendingJob, job} :
        /\ j # NoId /\ j # handled /\ j \notin Answered(out)
        /\ sent[j].method \in JobMethods
  <2>1. pendingJob # NoId \/ workerPc \in {"run", "chunk", "respond"}
    BY <1>0 DEF OneJob, Posting, Running, StateMutexFree, NoId
  <2> QED
    BY <1>0, <2>1 DEF Owed, Jobs, Running, HandlingPcs
<1>2. j \in 1 .. (handled - 1)
  BY <1>0, <1>1 DEF NoId
<1>3. sent[handled].seen \in Nat /\ sent[handled].seen <= Len(out) /\ out \in Seq(Message)
  <2>1. handled \in 1 .. Len(sent)
    BY <1>0 DEF NoId
  <2>2. sent[handled] \in Frame
    BY <2>1, <1>0, FrameTypes DEF TypeOK
  <2> QED
    BY <1>0, <2>1, <2>2 DEF Refusals, Frame, TypeOK
<1>4. \A k \in DOMAIN out : out[k].kind = "response" => out[k].id # j
  BY <1>1 DEF Answered
<1>5. Unanswered(j, sent[handled].seen)
  BY <1>3, <1>4 DEF Unanswered
<1> QED
  BY <1>0, <1>1, <1>2, <1>5 DEF Excused

\* What justified a refusal when it was decided still does.
LEMMA StillExcused ==
  ASSUME IInv, Refusals, [Next]_vars, NEW r \in 1 .. Len(sent), Excused(r)
  PROVE  Excused(r)'
<1>0. /\ Len(sent) \in Nat /\ Len(out) \in Nat
      /\ \A i \in 1 .. Len(sent) : sent'[i] = sent[i]
      /\ \A k \in 1 .. Len(out) : out'[k] = out[k]
  BY Basics, OutputGrows
<1>1. PICK j \in 1 .. (r - 1) : sent[j].method \in JobMethods /\ Unanswered(j, sent[r].seen)
  BY DEF Excused
<1>2. sent'[j] = sent[j] /\ sent'[r] = sent[r]
  BY <1>0
<1>3. sent[r].seen \in Nat /\ sent[r].seen <= Len(out)
  BY FrameTypes DEF IInv, TypeOK, Refusals, Frame
<1>4. \A k \in 1 .. sent[r].seen : out'[k] = out[k]
  BY <1>0, <1>3
<1>5. \A k \in 1 .. sent'[r].seen : out'[k].kind = "response" => out'[k].id # j
  BY <1>1, <1>2, <1>4 DEF Unanswered
<1> QED
  BY <1>1, <1>2, <1>5 DEF Excused, Unanswered

\* Nobody is told "resource_busy" who had read the answers to all earlier jobs.
LEMMA RefusalsStep == IInv /\ Jobs /\ Refusals /\ [Next]_vars => Refusals'
<1> SUFFICES ASSUME IInv, Jobs, Refusals, [Next]_vars PROVE Refusals'
  OBVIOUS
<1>0. /\ Len(sent) \in Nat /\ Len(sent') \in Nat /\ handled \in Nat /\ handled <= Len(sent)
      /\ \A i \in 1 .. Len(sent) : sent'[i] = sent[i]
      /\ Len(out) \in Nat /\ Len(out') \in Nat /\ Len(out) <= Len(out')
      /\ \A k \in 1 .. Len(out) : out'[k] = out[k]
  BY Basics, OutputGrows
<1>1. \A r \in 1 .. Len(sent') : sent'[r].seen <= Len(out')
  <2>1. CASE \E input \in UNION {Offered[i] : i \in DOMAIN Offered} : ClientSend(input)
    <3>1. PICK f : f.seen = written /\ sent' = Append(sent, f) /\ UNCHANGED out
      BY <2>1 DEF ClientSend
    <3>2. sent \in Seq(Frame) /\ written \in Nat /\ written <= Len(out)
      BY DEF IInv, TypeOK
    <3>3. \A r \in 1 .. Len(sent') : r \in 1 .. Len(sent) \/ sent'[r] = f
      BY <3>1, <3>2, <1>0
    <3> QED
      BY <3>1, <3>2, <3>3, <1>0 DEF Refusals
  <2>2. CASE UNCHANGED sent
    <3>1. \A r \in 1 .. Len(sent) : sent[r].seen \in Nat /\ sent[r].seen <= Len(out)
      BY FrameTypes DEF IInv, TypeOK, Refusals, Frame
    <3> QED
      BY <2>2, <3>1, <1>0
  <2> QED
    BY <2>1, <2>2, SentSteps
<1>2. ASSUME reply'.body = "resource_busy"
      PROVE  reply'.id = handled' /\ handled' # NoId /\ Excused(handled)'
  <2>1. handled' = handled
    BY <1>2, RefusedWhileBusy
  <2>2. reply'.id = handled /\ handled # NoId /\ Excused(handled)
    <3>1. CASE reply' = reply
      BY <1>2, <3>1 DEF Refusals
    <3>2. CASE /\ reply' = Response(handled, "resource_busy")
               /\ state = "busy" /\ mainPc = "handle" /\ StateMutexFree
      BY <3>2, BusyExcuses DEF Response
    <3> QED
      BY <1>2, <3>1, <3>2, RefusedWhileBusy
  <2>3. handled \in 1 .. Len(sent)
    BY <2>2, <1>0 DEF NoId
  <2>4. PICK r \in 1 .. Len(sent) : r = handled
    BY <2>3
  <2>5. Excused(r)'
    BY <2>2, <2>4, StillExcused
  <2> QED
    BY <2>1, <2>2, <2>4, <2>5 DEF Excused, Unanswered
<1>3. ASSUME NEW i \in 1 .. Len(out'), out'[i].body = "resource_busy"
      PROVE  out'[i].id \in 1 .. Len(sent') /\ Excused(out[i].id)'
  <2>1. PICK m : m.body = "resource_busy" /\ m = out'[i] /\ m.id \in 1 .. Len(sent) /\ Excused(m.id)
    <3>1. CASE i \in 1 .. Len(out)
      BY <1>0, <1>3, <3>1 DEF Refusals
    <3>2. CASE out'[i] = reply
      BY <1>0, <1>3, <3>2 DEF Refusals, NoId
    <3>3. CASE out'[i] = Response(job, outcome)
      BY <1>3, <3>3 DEF IInv, TypeOK, JobOutcomes, Response
    <3>4. CASE out'[i].body = "none"
      BY <1>3, <3>4
    <3> QED
      BY <3>1, <3>2, <3>3, <3>4, OutputGrows
  <2>2. PICK r \in 1 .. Len(sent) : r = m.id
    BY <2>1
  <2>3. Excused(r)'
    BY <2>1, <2>2, StillExcused
  <2>4. r \in 1 .. Len(sent') /\ out'[i].id = r
    <3>1. Len(sent) <= Len(sent')
      BY Basics
    <3> QED
      BY <2>1, <2>2, <3>1, <1>0
  <2> QED
    BY <2>3, <2>4 DEF Excused, Unanswered
<1> QED
  BY <1>1, <1>2, <1>3 DEF Refusals

\* What the main thread is about to say suits the frame, and a failed decoder
\* leaves it nothing to say.
LEMMA RepliesStep == IInv /\ Replies /\ [Next]_vars => Replies'
<1> SUFFICES ASSUME IInv, Replies, [Next]_vars PROVE Replies'
  OBVIOUS
<1>0. /\ Owed /\ TypeOK /\ Framing /\ handled \in Nat /\ fetched \in Nat /\ handled <= Len(sent)
      /\ mainPc \in HandlingPcs => handled # NoId
      /\ \A i \in 1 .. Len(sent) : sent'[i] = sent[i]
      /\ Len(sent) \in Nat
  BY Basics DEF IInv
<1>1. framingFailed' =>
        handled' = fetched' /\ reply' = NoReply /\ mainPc' \in {"read"} \cup StoppingPcs
  <2>1. CASE FetchBatch
    <3>1. mainPc = "read" /\ mainPc' = "read" /\ reply' = reply
      BY <2>1 DEF FetchBatch
    <3>2. framingFailed' => handled' = fetched'
      BY <2>1 DEF FetchBatch
    <3>3. reply = NoReply
      BY <3>1, <1>0 DEF Owed
    <3> QED
      BY <3>1, <3>2, <3>3
  <2>2. CASE UNCHANGED framingFailed /\ ~framingFailed
    BY <2>2
  <2>3. CASE UNCHANGED framingFailed /\ framingFailed /\ ~FetchBatch
    <3>1. handled = fetched /\ reply = NoReply /\ mainPc \in {"read"} \cup StoppingPcs
      BY <2>3 DEF Replies
    <3>2. ~TakeFrame
      BY <3>1, <1>0 DEF TakeFrame
    <3>3. ~Handle /\ ~CancelToken /\ ~EnqueueReply /\ ~EnqueueStarted /\ ~PostJob
      BY <3>1 DEF Handle, RejectFrame, HandleInitialize, HandleLoad, HandleStatus,
         HandleSynthesize, HandleCancel, HandleExtract, HandleShutdown, Handling,
         CancelToken, EnqueueReply, EnqueueStarted, PostJob, StoppingPcs
    <3>4. /\ UNCHANGED <<handled, fetched>> /\ reply' \in {reply, NoReply}
          /\ mainPc' = mainPc \/ mainPc' \in StoppingPcs
      BY <2>3, <3>2, <3>3 DEF Next, Client, Main, Worker, Writer, vars, Exited,
         ClientSend, ClientCloseInput, EndOfInput, StopWorker,
         JoinWorker, ReleaseRuntime, EnqueueShutdownReply, CloseWriter, JoinWriter,
         WorkerTake, WorkerLeave, WorkerDone, WorkerExit, RuntimePoll, RuntimeChunk,
         RuntimeFinish, WorkerRespond, WriterWrite, WriterExit, BeginStopping,
         RuntimeReturns, sourceVars, StoppingPcs
    <3> QED
      BY <3>1, <3>4
  <2>4. FetchBatch \/ UNCHANGED framingFailed
    BY HandledSteps DEF TakeFrame
  <2> QED
    BY <2>1, <2>2, <2>3, <2>4
<1>2. mainPc' = "cancelToken" => reply'.id = handled' /\ reply'.body = "accepted"
  <2> SUFFICES ASSUME mainPc' = "cancelToken"
               PROVE  reply'.id = handled' /\ reply'.body = "accepted"
    OBVIOUS
  <2>1. CASE HandleCancel
    BY <2>1 DEF HandleCancel, AnswerWith, Response, sourceVars
  <2>2. CASE UNCHANGED <<mainPc, reply, handled>>
    BY <2>2 DEF Replies
  <2>3. HandleCancel \/ UNCHANGED <<mainPc, reply, handled>>
    BY DEF Next, Client, Main, Handle, Worker, Writer, vars, Exited,
         ClientSend, ClientCloseInput, FetchBatch, TakeFrame, RejectFrame, HandleInitialize,
         HandleLoad, HandleStatus, HandleSynthesize, HandleExtract,
         HandleShutdown, CancelToken, EnqueueReply, EnqueueStarted, EndOfInput, PostJob,
         StopWorker, JoinWorker, ReleaseRuntime, EnqueueShutdownReply, CloseWriter,
         JoinWriter, WorkerTake, WorkerLeave, WorkerDone, WorkerExit, RuntimePoll,
         RuntimeChunk, RuntimeFinish, WorkerRespond, WriterWrite, WriterExit, BeginStopping,
         AnswerWith, Refuse, RuntimeReturns, sourceVars
  <2> QED
    BY <2>1, <2>2, <2>3
<1>3. ASSUME mainPc' = "enqueue"
      PROVE  /\ reply'.id = NoId => sent'[handled'].fault \in Anonymous
             /\ reply'.body = "ok" => sent'[handled'].method # "engine.shutdown"
  <2>1. CASE RejectFrame
    <3>1. handled \in 1 .. Len(sent) /\ Current \in Frame
      BY <1>0, <2>1, FrameTypes DEF RejectFrame, Current, TypeOK, HandlingPcs, NoId
    <3>2. Current.fault # "ok"
      BY <3>1 DEF Frame, Faults, TooLarge
    <3>3. /\ reply' = Response(IF Current.fault \in Anonymous THEN NoId ELSE handled,
                               Current.fault)
          /\ handled' = handled
      BY <2>1 DEF RejectFrame, Anonymous, sourceVars
    <3>4. sent'[handled] = Current
      BY <3>1, <1>0 DEF Current
    <3> QED
      BY <3>1, <3>2, <3>3, <3>4 DEF Response, NoId
  <2>2. CASE HandleInitialize \/ HandleStatus \/ HandleLoad \/ HandleSynthesize
             \/ HandleExtract \/ HandleCancel
    <3>1. /\ handled' = handled /\ reply'.id = handled /\ mainPc = "handle"
          /\ sent[handled].method # "engine.shutdown"
      BY <2>2, <1>3 DEF HandleInitialize, HandleStatus, HandleLoad, HandleSynthesize,
           HandleExtract, HandleCancel, Handling, Current, AnswerWith, Refuse, Response,
           sourceVars
    <3>2. handled \in 1 .. Len(sent)
      BY <3>1, <1>0 DEF HandlingPcs, NoId
    <3> QED
      BY <3>1, <3>2, <1>0 DEF NoId
  <2>3. CASE CancelToken
    BY <2>3, <1>0 DEF CancelToken, Replies, HandlingPcs, NoId
  <2>4. CASE UNCHANGED <<reply, handled, mainPc>>
    <3>1. handled \in 1 .. Len(sent)
      BY <2>4, <1>3, <1>0 DEF HandlingPcs, NoId
    <3> QED
      BY <2>4, <3>1, <1>3, <1>0 DEF Replies
  <2>5. \/ RejectFrame \/ HandleInitialize \/ HandleStatus \/ HandleLoad \/ HandleSynthesize
        \/ HandleExtract \/ HandleCancel \/ CancelToken
        \/ UNCHANGED <<reply, handled, mainPc>>
    BY <1>3 DEF Next, Client, Main, Handle, Worker, Writer, vars, Exited,
         ClientSend, ClientCloseInput, FetchBatch, TakeFrame, HandleShutdown, EnqueueReply,
         EnqueueStarted, EndOfInput, PostJob, StopWorker, JoinWorker, ReleaseRuntime,
         EnqueueShutdownReply, CloseWriter, JoinWriter, WorkerTake, WorkerLeave, WorkerDone,
         WorkerExit, RuntimePoll, RuntimeChunk, RuntimeFinish, WorkerRespond, WriterWrite,
         WriterExit, BeginStopping, RuntimeReturns, sourceVars
  <2> QED
    BY <2>1, <2>2, <2>3, <2>4, <2>5
<1> QED
  BY <1>1, <1>2, <1>3 DEF Replies

\* A step that takes the answer to r from where it is passes it on or queues it.
LEMMA StillOwing ==
  ASSUME IInv, Replies, [Next]_vars, NEW r \in 1 .. handled, Owing(r)
  PROVE  Owing(r)' \/ r \in Answered(out') \/ sent[r].fault \in Anonymous
<1>0. /\ Owed /\ OneJob /\ handled \in Nat /\ r # NoId
      /\ out \in Seq(Message) /\ reply \in Message
  BY Basics DEF IInv, TypeOK, NoId
<1>1. CASE EnqueueReply \/ EnqueueShutdownReply
  <2>1. /\ out' = Append(out, reply) /\ UNCHANGED <<pendingJob, job, workerPc>>
        /\ mainPc \in {"enqueue", "shutdownReply"}
    BY <1>1 DEF EnqueueReply, EnqueueShutdownReply, Enqueue, jobVars, workerVars
  <2>2. reply.kind = "response" /\ reply.id \in {NoId, handled}
    BY <1>0 DEF Owed, Response
  <2>3. reply.id # NoId => reply.id \in Answered(out')
    BY <2>1, <2>2, <1>0, AnsweredAppend
  <2>4. CASE r = handled /\ (mainPc \in HandlingPcs \/ reply.id = handled)
    <3>1. mainPc = "enqueue" /\ reply.id = NoId => sent[handled].fault \in Anonymous
      BY DEF Replies
    <3> QED
      BY <2>1, <2>2, <2>3, <2>4, <3>1, <1>0 DEF HandlingPcs
  <2>5. CASE r = pendingJob \/ (r = job /\ workerPc \in {"run", "chunk", "respond"})
    BY <2>1, <2>5 DEF Owing
  <2> QED
    BY <2>4, <2>5 DEF Owing
<1>2. CASE PostJob
  BY <1>0, <1>2 DEF PostJob, Owing, OneJob, Posting, HandlingPcs, NoId, NoReply, Response,
        Owed, workerVars, sourceVars
<1>3. CASE WorkerTake
  BY <1>0, <1>3 DEF WorkerTake, Owing, sourceVars, OneJob, Running, NoId
<1>4. CASE WorkerRespond
  <2>1. /\ out' = Append(out, Response(job, outcome)) /\ workerPc = "respond"
        /\ UNCHANGED <<pendingJob, handled, mainPc, reply>>
    BY <1>4 DEF WorkerRespond, Enqueue, jobVars, sourceVars
  <2>2. Response(job, outcome) \in Message
    BY Constructors DEF IInv, TypeOK, Bodies, Faults, JobOutcomes
  <2>3. job # NoId => job \in Answered(out')
    BY <2>1, <2>2, <1>0, AnsweredAppend DEF Response
  <2> QED
    BY <1>0, <2>1, <2>3 DEF Owing
<1>5. CASE TakeFrame \/ FetchBatch
  <2>1. mainPc = "read" /\ UNCHANGED <<pendingJob, job, workerPc>>
    BY <1>5 DEF TakeFrame, FetchBatch, jobVars, workerVars
  <2>2. reply.id = NoId
    BY <2>1, <1>0 DEF Owed, NoReply, Response
  <2> QED
    BY <1>0, <2>1, <2>2 DEF Owing, HandlingPcs
<1>6. CASE Handle
  <2>1. /\ UNCHANGED <<pendingJob, job, workerPc, handled>>
        /\ mainPc' \in HandlingPcs \/ reply'.id = handled
        /\ mainPc = "handle"
    BY <1>6 DEF Handle, RejectFrame, HandleInitialize, HandleLoad,
         HandleStatus, HandleSynthesize, HandleCancel, HandleExtract, HandleShutdown,
         Handling, AnswerWith, Refuse, BeginStopping, HandlingPcs, Response, jobVars,
         workerVars, sourceVars
  <2> QED
    BY <2>1 DEF Owing
<1>7. CASE EndOfInput
  <2>1. mainPc = "read" /\ UNCHANGED <<pendingJob, job, workerPc>>
    BY <1>7 DEF EndOfInput, BeginStopping, jobVars, workerVars
  <2>2. reply.id = NoId
    BY <2>1, <1>0 DEF Owed, NoReply, Response
  <2> QED
    BY <1>0, <2>1, <2>2 DEF Owing, HandlingPcs
<1>8. CASE /\ UNCHANGED <<pendingJob, job, handled, reply>>
           /\ workerPc \in {"run", "chunk", "respond"} => workerPc' \in {"run", "chunk", "respond"}
           /\ mainPc \in HandlingPcs => mainPc' \in HandlingPcs
  BY <1>8 DEF Owing
<1>9. CASE WorkerLeave
  BY <1>9 DEF WorkerLeave, WorkerDone, Owing, jobVars, sourceVars
<1>10. \/ /\ UNCHANGED <<pendingJob, job, handled, reply>>
          /\ workerPc \in {"run", "chunk", "respond"} => workerPc' \in {"run", "chunk", "respond"}
          /\ mainPc \in HandlingPcs => mainPc' \in HandlingPcs
       \/ EnqueueReply \/ EnqueueShutdownReply \/ PostJob \/ WorkerTake \/ WorkerRespond
       \/ TakeFrame \/ FetchBatch \/ Handle \/ EndOfInput \/ WorkerLeave
  BY DEF Next, Client, Main, Worker, Writer, vars, Exited, ClientSend, ClientCloseInput,
         CancelToken, EnqueueStarted, StopWorker, JoinWorker, ReleaseRuntime, CloseWriter,
         JoinWriter, WorkerExit, RuntimePoll, RuntimeChunk, RuntimeFinish, RuntimeReturns,
         WriterWrite, WriterExit, sourceVars, jobVars, workerVars, HandlingPcs
<1> QED
  BY <1>1, <1>2, <1>3, <1>4, <1>5, <1>6, <1>7, <1>8, <1>9, <1>10

\* No request that reached handleFrame is forgotten.
LEMMA AccountedStep == IInv /\ Replies /\ Accounted /\ [Next]_vars => Accounted'
<1> SUFFICES ASSUME IInv, Replies, Accounted, [Next]_vars, ~framingFailed',
                    NEW r \in 1 .. handled'
             PROVE  r \in Answered(out') \/ sent'[r].fault \in Anonymous \/ Owing(r)'
  BY DEF Accounted
<1>0. /\ handled \in Nat /\ handled' \in Nat /\ Len(sent) \in Nat /\ handled <= Len(sent)
      /\ \A i \in 1 .. Len(sent) : sent'[i] = sent[i]
  BY Basics
<1>1. CASE r \in 1 .. handled
  <2>1. ~framingFailed
    BY HandledSteps DEF TakeFrame, FetchBatch
  <2>2. r \in Answered(out) \/ sent[r].fault \in Anonymous \/ Owing(r)
    BY <1>1, <2>1 DEF Accounted
  <2>3. sent'[r] = sent[r]
    BY <1>0, <1>1
  <2> QED
    BY <1>1, <2>2, <2>3, AnsweredGrows, StillOwing
<1>2. CASE r \notin 1 .. handled
  <2>1. TakeFrame
    <3>1. handled' # handled
      BY <1>0, <1>2
    <3>2. TakeFrame \/ FetchBatch
      BY <3>1, HandledSteps
    <3>3. ~FetchBatch
      BY <3>1 DEF FetchBatch
    <3> QED
      BY <3>2, <3>3
  <2>2. handled' = handled + 1 /\ mainPc' = "handle"
    BY <2>1 DEF TakeFrame
  <2>3. r = handled'
    BY <1>0, <1>2, <2>2
  <2> QED
    BY <2>2, <2>3 DEF Owing, HandlingPcs
<1> QED
  BY <1>1, <1>2

\* Once a shutdown has been answered nothing more is queued, and no frame taken.
LEMMA LastWordStep == IInv /\ Jobs /\ Replies /\ LastWord /\ [Next]_vars => LastWord'
<1> SUFFICES ASSUME IInv, Jobs, Replies, LastWord, [Next]_vars PROVE LastWord'
  OBVIOUS
<1>00. DOMAIN out' = 1 .. Len(out')
  <2>1. out' \in Seq(Message)
    BY InvStep DEF IInv, TypeOK
  <2> QED
    BY <2>1
<1> SUFFICES ASSUME NEW i \in 1 .. Len(out'), out'[i].kind = "response", out'[i].body = "ok"
             PROVE  /\ out'[i].id \in 1 .. handled'
                    /\ sent'[out'[i].id].method = "engine.shutdown" =>
                         /\ i = Len(out') /\ out'[i].id = handled' /\ ~framingFailed'
                         /\ mainPc' \in {"closeWriter", "joinWriter", "exited"}
  BY <1>00 DEF LastWord
<1>0. /\ TypeOK /\ OneJob /\ Owed /\ Len(out) \in Nat /\ Len(sent) \in Nat /\ Len(out') \in Nat
      /\ handled \in Nat /\ handled' \in Nat /\ handled <= Len(sent) /\ job \in Nat
      /\ job <= handled /\ (Running <=> job # NoId)
      /\ \A k \in 1 .. Len(sent) : sent'[k] = sent[k]
  BY Basics, OutputGrows DEF IInv
<1>1. CASE i \in 1 .. Len(out)
  <2>1. out'[i] = out[i] /\ out[i].id \in 1 .. handled /\ out[i].id \in 1 .. Len(sent)
    BY <1>0, <1>1, OutputGrows DEF LastWord
  <2>2. handled <= handled'
    <3>1. CASE TakeFrame
      BY <1>0, <3>1 DEF TakeFrame
    <3>2. CASE FetchBatch
      <4>1. PICK n \in (fetched + 1) .. Len(sent) : handled' = n \/ handled' = handled
        BY <3>2 DEF FetchBatch
      <4> QED
        BY <1>0, <4>1 DEF TypeOK
    <3> QED
      BY <1>0, <3>1, <3>2, HandledSteps
  <2>3. CASE sent[out[i].id].method # "engine.shutdown"
    BY <1>0, <2>1, <2>2, <2>3
  <2>4. CASE sent[out[i].id].method = "engine.shutdown"
    <3>1. /\ i = Len(out) /\ out[i].id = handled /\ ~framingFailed
          /\ mainPc \in {"closeWriter", "joinWriter", "exited"}
      BY <1>0, <1>1, <2>1, <2>4 DEF LastWord
    <3>2. workerPc = "exited"
      BY <1>0, <3>1 DEF OneJob, StoppingPcs
    <3>3. /\ UNCHANGED <<out, handled, framingFailed>>
          /\ mainPc' \in {"closeWriter", "joinWriter", "exited"}
      BY <3>1, <3>2 DEF Next, Client, Main, Handle, Worker, Writer, vars, Exited,
         ClientSend, ClientCloseInput, FetchBatch, TakeFrame, RejectFrame, HandleInitialize,
         HandleLoad, HandleStatus, HandleSynthesize, HandleCancel, HandleExtract,
         HandleShutdown, Handling, CancelToken, EnqueueReply, EnqueueStarted, EndOfInput,
         PostJob, StopWorker, JoinWorker, ReleaseRuntime, EnqueueShutdownReply, CloseWriter,
         JoinWriter, WorkerTake, WorkerLeave, WorkerExit, RuntimePoll, RuntimeChunk,
         RuntimeFinish, WorkerRespond, WriterWrite, WriterExit, sourceVars
    <3> QED
      BY <2>1, <3>1, <3>3
  <2> QED
    BY <2>3, <2>4
<1>2. CASE i = Len(out') /\ EnqueueReply /\ out'[i] = reply
  <2>1. reply.id = handled /\ handled # NoId /\ sent[handled].method # "engine.shutdown"
    BY <1>0, <1>2 DEF Owed, Suits, EnqueueReply, Replies
  <2>2. handled' = handled /\ handled \in 1 .. Len(sent)
    BY <1>0, <1>2, <2>1 DEF EnqueueReply, sourceVars, NoId
  <2> QED
    BY <1>0, <1>2, <2>1, <2>2
<1>3. CASE i = Len(out') /\ EnqueueShutdownReply /\ out'[i] = reply
  <2>1. reply.id = handled /\ handled # NoId
    BY <1>0, <1>3 DEF Owed, Suits, EnqueueShutdownReply
  <2>2. ~framingFailed
    BY <2>1 DEF Replies, NoReply, Response
  <2>3. mainPc' = "closeWriter" /\ UNCHANGED <<handled, framingFailed>>
    BY <1>3 DEF EnqueueShutdownReply, sourceVars
  <2> QED
    BY <1>0, <1>3, <2>1, <2>2, <2>3 DEF NoId
<1>4. CASE WorkerRespond /\ out'[i] = Response(job, outcome)
  <2>1. Running /\ handled' = handled
    BY <1>4 DEF WorkerRespond, Running, sourceVars
  <2>2. job \in 1 .. handled /\ sent[job].method # "engine.shutdown"
    BY <1>0, <2>1 DEF Jobs, JobMethods, NoId
  <2> QED
    BY <1>0, <1>4, <2>1, <2>2 DEF Response
<1> QED
  BY <1>1, <1>2, <1>3, <1>4, OutputGrows

-----------------------------------------------------------------------------
\* All of it together holds in every reachable state.
LEMMA LedgerInvariance == Spec => [](IInv /\ Ledger)
<1>1. IInv /\ Ledger /\ [Next]_vars => Ledger'
  BY JobsStep, RefusalsStep, RepliesStep, AccountedStep, LastWordStep DEF Ledger
<1> QED
  BY <1>1, LedgerInit, Invariance, PTL DEF Spec

\* A request is refused as busy only if an earlier job was still unanswered when
\* the client wrote it, for any number of requests and any reader.
THEOREM RefusalTheorem == Spec => []BusyOnlyWhileUnanswered
<1>1. IInv /\ Ledger => BusyOnlyWhileUnanswered
  <2> SUFFICES ASSUME IInv, Ledger, NEW i \in DOMAIN out, out[i].body = "resource_busy"
               PROVE  \E j \in 1 .. (out[i].id - 1) :
                        /\ sent[j].method \in JobMethods
                        /\ j \notin Answered(SeenBy(out[i].id))
    BY DEF BusyOnlyWhileUnanswered
  <2>1. out[i].id \in 1 .. Len(sent) /\ Excused(out[i].id)
    BY DEF Ledger, Refusals
  <2>2. PICK j \in 1 .. (out[i].id - 1) :
          sent[j].method \in JobMethods /\ Unanswered(j, sent[out[i].id].seen)
    BY <2>1 DEF Excused
  <2>3. /\ sent[out[i].id].seen \in Nat /\ sent[out[i].id].seen <= Len(out)
        /\ out \in Seq(Message) /\ j # NoId
    <3>1. sent[out[i].id] \in Frame
      BY <2>1, FrameTypes DEF IInv, TypeOK
    <3>2. sent[out[i].id].seen \in Nat
      BY <3>1 DEF Frame
    <3>3. sent[out[i].id].seen <= Len(out)
      BY <2>1 DEF Ledger, Refusals
    <3>4. out \in Seq(Message)
      BY DEF IInv, TypeOK
    <3> QED
      BY <3>2, <3>3, <3>4 DEF NoId
  <2>4. j \notin Answered(SeenBy(out[i].id))
    BY <2>2, <2>3, PrefixAnswers DEF Unanswered, SeenBy
  <2> QED
    BY <2>2, <2>4
<1> QED
  BY <1>1, LedgerInvariance, PTL

\* The answer to engine.shutdown is the last message, and by then every earlier
\* request that has an id has been answered.
THEOREM ShutdownTheorem == Spec => []ShutdownAnswersEverything
<1>1. IInv /\ Ledger => ShutdownAnswersEverything
  <2> SUFFICES ASSUME IInv, Ledger, NEW i \in DOMAIN out,
                      out[i].kind = "response", out[i].body = "ok",
                      sent[out[i].id].method = "engine.shutdown"
               PROVE  /\ i = Len(out)
                      /\ \A r \in 1 .. out[i].id :
                           r \in Answered(out) \/ sent[r].fault \in Anonymous
    BY DEF ShutdownAnswersEverything, Anonymous
  <2>1. /\ i = Len(out) /\ out[i].id = handled /\ ~framingFailed
        /\ mainPc \in {"closeWriter", "joinWriter", "exited"}
        /\ out[i].id \in 1 .. handled
    BY DEF Ledger, LastWord
  <2>2. handled \in Answered(out)
    BY <2>1 DEF Answered, NoId
  <2>3. workerPc = "exited" /\ pendingJob = NoId
    BY <2>1 DEF IInv, OneJob, StoppingPcs
  <2>4. ASSUME NEW r \in 1 .. handled
        PROVE  r \in Answered(out) \/ sent[r].fault \in Anonymous
    <3>1. r \in Answered(out) \/ sent[r].fault \in Anonymous \/ Owing(r)
      BY <2>1 DEF Ledger, Accounted
    <3>2. Owing(r) => r = handled
      BY <2>1, <2>3 DEF Owing, NoId
    <3> QED
      BY <3>1, <3>2, <2>2
  <2> QED
    BY <2>1, <2>4
<1> QED
  BY <1>1, LedgerInvariance, PTL

-----------------------------------------------------------------------------
(* The engine implements EngineService.                                    *)

\* EngineService reads the messages in the same way.
LEMMA SameMessages ==
  /\ Service!NoId = 0 /\ Service!Bodies = Bodies /\ Service!JobMethods = JobMethods
  /\ Service!JobOutcomes = JobOutcomes /\ Service!Answered(out) = Answered(out)
  /\ \A id, body : Service!Response(id, body) = Response(id, body)
  /\ \A id : Service!Started(id) = Started(id)
  /\ \A id, n : Service!Audio(id, n) = Audio(id, n)
BY DEF Service!NoId, NoId, Service!JobMethods, JobMethods, Service!Bodies, Bodies,
     Service!JobOutcomes, JobOutcomes,
     Service!Faults, Faults,
       Service!Answered, Answered, Service!Response, Response, Service!Started, Started,
       Service!Audio, Audio

\* The service speaks of the same frames.
LEMMA SameFrames == Service!Frame = Frame
BY DEF Service!Frame, Frame, Service!Methods, Methods, Service!Faults, Faults,
       Service!TooLarge, TooLarge

\* The engine starts as the service does.
LEMMA ServiceInit == Init => Service!Init
BY SameMessages DEF Init, Service!Init, Service!Idle, ServiceCurrent, CurrentJob, NoId

\* Every step of the engine is a step of the service or leaves it unchanged.
LEMMA ServiceStep == IInv /\ [Next]_vars => [Service!Next]_(Service!vars)
<1> SUFFICES ASSUME IInv, [Next]_vars PROVE [Service!Next]_(Service!vars)
  OBVIOUS
<1>0. /\ TypeOK /\ OneJob /\ Owed /\ Streaming
      /\ handled \in Nat /\ job \in Nat /\ pendingJob \in Nat /\ fetched \in Nat
      /\ mainPc \in MainPcs /\ workerPc \in WorkerPcs
      /\ handled <= fetched /\ handled <= Len(sent) /\ Len(sent) <= MaxRequests
      /\ (mainPc \in HandlingPcs => handled # NoId)
      /\ MaxRequests \in Nat /\ Len(sent) \in Nat
      /\ \A i \in 1 .. Len(sent) : sent'[i] = sent[i]
  BY SentStable, OfferedLength DEF IInv, TypeOK, Framing
<1> USE SameMessages DEF NoId, MainPcs, WorkerPcs,
            inputVars, sourceVars, stateVars, workerVars, jobVars, writerVars
<1>1. CASE \E input \in UNION {Offered[i] : i \in DOMAIN Offered} : ClientSend(input)
  <2>1. /\ sent' \in Seq(Frame) /\ Len(sent') = Len(sent) + 1
        /\ UNCHANGED <<out, writerClosed, mainPc, handled, pendingJob, workerPc, job,
             sequence>>
    <3>1. PICK f \in Frame : sent' = Append(sent, f)
      <4>1. PICK input \in UNION {Offered[i] : i \in DOMAIN Offered} : ClientSend(input)
        BY <1>1
      <4>2. input \in Input /\ written \in Nat
        BY <1>0, OfferedTypes DEF TypeOK
      <4> QED
        BY <4>1, <4>2 DEF ClientSend, Input, Frame
    <3>2. sent \in Seq(Frame)
      BY <1>0 DEF TypeOK
    <3>3. UNCHANGED <<out, writerClosed, mainPc, handled, pendingJob, workerPc, job, sequence>>
      BY <1>1 DEF ClientSend
    <3> QED
      BY <3>1, <3>2, <3>3
  <2>2. ServiceCurrent' = ServiceCurrent
    BY <2>1, <1>0 DEF ServiceCurrent, CurrentJob, Owed, HandlingPcs
  <2>3. Service!Ask
    BY <2>1, <2>2, <1>0, SameFrames DEF Service!Ask, TypeOK
  <2> QED
    BY <2>3 DEF Service!Next
<1>2. CASE ClientCloseInput
  BY <1>2, <1>0 DEF ClientCloseInput, CurrentJob, ServiceCurrent, Service!vars,
     OneJob, Owed, Posting, Running, HandlingPcs
<1>3. CASE FetchBatch
  BY <1>3, <1>0 DEF FetchBatch, CurrentJob, ServiceCurrent, Service!vars, OneJob,
     Owed, Posting, Running, HandlingPcs
<1>4. CASE TakeFrame
  BY <1>4, <1>0 DEF TakeFrame, CurrentJob, ServiceCurrent, Service!vars, OneJob,
     Owed, Posting, Running, HandlingPcs
<1>5. CASE RejectFrame
  BY <1>5, <1>0 DEF RejectFrame, CurrentJob, ServiceCurrent, Service!vars, OneJob,
     Owed, Posting, Running, HandlingPcs
<1>6. CASE HandleInitialize
  BY <1>6, <1>0 DEF HandleInitialize, Handling, AnswerWith, CurrentJob,
     ServiceCurrent, Service!vars, OneJob, Owed, Posting, Running, HandlingPcs
<1>7. CASE HandleLoad
  <2>1. CASE state # "idle"
    <3>1. ServiceCurrent' = ServiceCurrent
      BY <1>7, <2>1, <1>0 DEF HandleLoad, Handling, Refuse, AnswerWith, CurrentJob,
           ServiceCurrent
    <3> QED
      BY <1>7, <2>1, <3>1 DEF HandleLoad, Handling, Refuse, AnswerWith, Service!vars
  <2>2. CASE state = "idle"
    <3>1. /\ mainPc = "handle" /\ workerPc # "leave" /\ mainPc' = "post"
          /\ state # "stopping" /\ state \notin {"loading", "busy"}
          /\ sent[handled].method = "engine.load"
          /\ UNCHANGED <<sent, handled, out, writerClosed, sequence>>
      BY <1>7, <2>2 DEF HandleLoad, Handling, Current, StateMutexFree
    <3>2. /\ CurrentJob = NoId /\ ~writerClosed /\ sequence = 0
          /\ handled \in Ids /\ handled \notin Answered(out)
      BY <3>1, <1>0 DEF OneJob, Owed, Posting, Running, Streaming, CurrentJob, Ids,
            HandlingPcs
    <3>3. CurrentJob' = handled
      BY <3>1 DEF CurrentJob
    <3>4. /\ ServiceCurrent = Service!Idle
          /\ ServiceCurrent' = [id |-> handled, stream |-> "none", next |-> 0]
      BY <3>1, <3>2, <3>3, <1>0 DEF ServiceCurrent, Service!Idle, HandlingPcs
    <3>5. Service!Accept(handled)
      BY <3>1, <3>2, <3>4, <1>0 DEF Service!Accept, Service!Open, Service!Idle,
           JobMethods, HandlingPcs, Ids
    <3> QED
      BY <3>2, <3>5 DEF Service!Next
  <2> QED
    BY <2>1, <2>2
<1>8. CASE HandleStatus
  BY <1>8, <1>0 DEF HandleStatus, Handling, AnswerWith, CurrentJob, ServiceCurrent,
     Service!vars, OneJob, Owed, Posting, Running, HandlingPcs
<1>9. CASE HandleSynthesize
  <2>1. CASE state # "ready"
    <3>1. ServiceCurrent' = ServiceCurrent
      BY <1>9, <2>1, <1>0 DEF HandleSynthesize, Handling, Refuse, AnswerWith,
           CurrentJob, ServiceCurrent
    <3> QED
      BY <1>9, <2>1, <3>1 DEF HandleSynthesize, Handling, Refuse, AnswerWith,
           Service!vars
  <2>2. CASE state = "ready"
    <3>1. /\ mainPc = "handle" /\ workerPc # "leave" /\ mainPc' = "started"
          /\ state # "stopping" /\ state \notin {"loading", "busy"}
          /\ sent[handled].method = "speech.synthesize"
          /\ UNCHANGED <<sent, handled, out, writerClosed, sequence>>
      BY <1>9, <2>2 DEF HandleSynthesize, Handling, Current, StateMutexFree
    <3>2. /\ CurrentJob = NoId /\ ~writerClosed /\ sequence = 0
          /\ handled \in Ids /\ handled \notin Answered(out)
      BY <3>1, <1>0 DEF OneJob, Owed, Posting, Running, Streaming, CurrentJob, Ids,
            HandlingPcs
    <3>3. CurrentJob' = handled
      BY <3>1 DEF CurrentJob
    <3>4. /\ ServiceCurrent = Service!Idle
          /\ ServiceCurrent' = [id |-> handled, stream |-> "silent", next |-> 0]
      BY <3>1, <3>2, <3>3, <1>0 DEF ServiceCurrent, Service!Idle, HandlingPcs
    <3>5. Service!Accept(handled)
      BY <3>1, <3>2, <3>4, <1>0 DEF Service!Accept, Service!Open, Service!Idle,
           JobMethods, HandlingPcs, Ids
    <3> QED
      BY <3>2, <3>5 DEF Service!Next
  <2> QED
    BY <2>1, <2>2
<1>10. CASE HandleCancel
  BY <1>10, <1>0 DEF HandleCancel, Handling, AnswerWith, CurrentJob, ServiceCurrent,
     Service!vars, OneJob, Owed, Posting, Running, HandlingPcs
<1>11. CASE HandleExtract
  <2>1. CASE state # "ready"
    <3>1. ServiceCurrent' = ServiceCurrent
      BY <1>11, <2>1, <1>0 DEF HandleExtract, Handling, Refuse, AnswerWith,
           CurrentJob, ServiceCurrent
    <3> QED
      BY <1>11, <2>1, <3>1 DEF HandleExtract, Handling, Refuse, AnswerWith, Service!vars
  <2>2. CASE state = "ready"
    <3>1. /\ mainPc = "handle" /\ workerPc # "leave" /\ mainPc' = "post"
          /\ state # "stopping" /\ state \notin {"loading", "busy"}
          /\ sent[handled].method = "voice.extract"
          /\ UNCHANGED <<sent, handled, out, writerClosed, sequence>>
      BY <1>11, <2>2 DEF HandleExtract, Handling, Current, StateMutexFree
    <3>2. /\ CurrentJob = NoId /\ ~writerClosed /\ sequence = 0
          /\ handled \in Ids /\ handled \notin Answered(out)
      BY <3>1, <1>0 DEF OneJob, Owed, Posting, Running, Streaming, CurrentJob, Ids,
            HandlingPcs
    <3>3. CurrentJob' = handled
      BY <3>1 DEF CurrentJob
    <3>4. /\ ServiceCurrent = Service!Idle
          /\ ServiceCurrent' = [id |-> handled, stream |-> "none", next |-> 0]
      BY <3>1, <3>2, <3>3, <1>0 DEF ServiceCurrent, Service!Idle, HandlingPcs
    <3>5. Service!Accept(handled)
      BY <3>1, <3>2, <3>4, <1>0 DEF Service!Accept, Service!Open, Service!Idle,
           JobMethods, HandlingPcs, Ids
    <3> QED
      BY <3>2, <3>5 DEF Service!Next
  <2> QED
    BY <2>1, <2>2
<1>12. CASE HandleShutdown
  BY <1>12, <1>0 DEF HandleShutdown, Handling, BeginStopping, CurrentJob,
     ServiceCurrent, Service!vars, OneJob, Owed, Posting, Running, HandlingPcs
<1>13. CASE CancelToken
  BY <1>13, <1>0 DEF CancelToken, CurrentJob, ServiceCurrent, Service!vars, OneJob,
     Owed, Posting, Running, HandlingPcs
<1>14. CASE EnqueueReply
  <2>1. ServiceCurrent' = ServiceCurrent
    BY <1>14, <1>0 DEF EnqueueReply, CurrentJob, ServiceCurrent, Posting
  <2>2. reply.body \in Bodies
    BY <1>0 DEF TypeOK, Message
  <2>3. reply.id \in Ids \cup {NoId} /\ ~writerClosed
    BY <1>14, <1>0 DEF EnqueueReply, Owed, Streaming, Ids
  <2>4. CurrentJob \in {pendingJob, job, NoId} /\ ServiceCurrent.id = CurrentJob
    BY <1>14 DEF EnqueueReply, CurrentJob, ServiceCurrent
  <2>5. /\ reply.id = NoId \/ Service!Open(reply.id)
        /\ Service!Fits(reply.id, reply.body)
    BY <1>14, <2>4, <1>0 DEF EnqueueReply, Owed, Suits, Service!Open, Service!Fits, HandlingPcs
  <2>6. out' = Append(out, Response(reply.id, reply.body))
    BY <1>14, <1>0 DEF EnqueueReply, Enqueue, Owed
  <2>7. Service!Reply(reply.id, reply.body)
    BY <1>14, <2>1, <2>3, <2>5, <2>6 DEF EnqueueReply, Service!Reply, Service!Say
  <2> QED
    BY <2>2, <2>3, <2>7 DEF Service!Next
<1>15. CASE EnqueueStarted
  <2>1. /\ CurrentJob = handled /\ CurrentJob' = handled /\ handled # NoId
        /\ sent[handled].method = "speech.synthesize" /\ sent' = sent
        /\ mainPc' = "post" /\ mainPc = "started" /\ sequence' = sequence
    BY <1>15, <1>0 DEF EnqueueStarted, CurrentJob, Streaming, HandlingPcs
  <2>2. /\ ServiceCurrent.stream = "silent" /\ ServiceCurrent.id = handled
        /\ ServiceCurrent' = [ServiceCurrent EXCEPT !.stream = "started"]
    BY <2>1 DEF ServiceCurrent
  <2>3. Service!StartStream
    BY <1>15, <2>2 DEF EnqueueStarted, Enqueue, Service!StartStream, Service!Say
  <2> QED
    BY <2>3 DEF Service!Next
<1>16. CASE PostJob
  BY <1>16, <1>0 DEF PostJob, CurrentJob, ServiceCurrent, Service!vars, OneJob,
     Owed, Posting, Running, HandlingPcs
<1>17. CASE EndOfInput
  BY <1>17, <1>0 DEF EndOfInput, BeginStopping, CurrentJob, ServiceCurrent,
     Service!vars, OneJob, Owed, Posting, Running, HandlingPcs
<1>18. CASE StopWorker
  BY <1>18, <1>0 DEF StopWorker, CurrentJob, ServiceCurrent, Service!vars, OneJob,
     Owed, Posting, Running, HandlingPcs
<1>19. CASE JoinWorker
  BY <1>19, <1>0 DEF JoinWorker, CurrentJob, ServiceCurrent, Service!vars, OneJob,
     Owed, Posting, Running, HandlingPcs
<1>20. CASE ReleaseRuntime
  BY <1>20, <1>0 DEF ReleaseRuntime, CurrentJob, ServiceCurrent, Service!vars,
     OneJob, Owed, Posting, Running, HandlingPcs
<1>21. CASE EnqueueShutdownReply
  <2>1. ServiceCurrent' = ServiceCurrent
    BY <1>21, <1>0 DEF EnqueueShutdownReply, CurrentJob, ServiceCurrent, Posting
  <2>2. reply.body \in Bodies
    BY <1>0 DEF TypeOK, Message
  <2>3. reply.id \in Ids \cup {NoId} /\ ~writerClosed
    BY <1>21, <1>0 DEF EnqueueShutdownReply, Owed, Streaming, Ids
  <2>4. CurrentJob \in {pendingJob, job, NoId} /\ ServiceCurrent.id = CurrentJob
    BY <1>21 DEF EnqueueShutdownReply, CurrentJob, ServiceCurrent
  <2>5. /\ reply.id = NoId \/ Service!Open(reply.id)
        /\ Service!Fits(reply.id, reply.body)
    BY <1>21, <2>4, <1>0 DEF EnqueueShutdownReply, Owed, Suits, Service!Open, Service!Fits,
       HandlingPcs
  <2>6. out' = Append(out, Response(reply.id, reply.body))
    BY <1>21, <1>0 DEF EnqueueShutdownReply, Enqueue, Owed
  <2>7. Service!Reply(reply.id, reply.body)
    BY <1>21, <2>1, <2>3, <2>5, <2>6 DEF EnqueueShutdownReply, Service!Reply,
         Service!Say
  <2> QED
    BY <2>2, <2>3, <2>7 DEF Service!Next
<1>22. CASE CloseWriter
  <2>1. /\ CurrentJob = NoId /\ CurrentJob' = NoId /\ ~writerClosed
    BY <1>22, <1>0 DEF CloseWriter, CurrentJob, OneJob, Posting, StoppingPcs, Streaming
  <2>2. ServiceCurrent = Service!Idle /\ ServiceCurrent' = Service!Idle
    BY <2>1 DEF ServiceCurrent, Service!Idle
  <2>3. Service!Close
    BY <1>22, <2>1, <2>2 DEF CloseWriter, Service!Close
  <2> QED
    BY <2>3 DEF Service!Next
<1>23. CASE JoinWriter
  BY <1>23, <1>0 DEF JoinWriter, CurrentJob, ServiceCurrent, Service!vars, OneJob,
     Owed, Posting, Running, HandlingPcs
<1>24. CASE WorkerTake
  BY <1>24, <1>0 DEF WorkerTake, CurrentJob, ServiceCurrent, Service!vars, OneJob,
     Owed, Posting, Running, HandlingPcs
<1>25. CASE WorkerExit
  BY <1>25, <1>0 DEF WorkerExit, CurrentJob, ServiceCurrent, Service!vars, OneJob,
     Owed, Posting, Running, HandlingPcs
<1>26. CASE RuntimePoll
  BY <1>26, <1>0 DEF RuntimePoll, RuntimeReturns, CurrentJob, ServiceCurrent,
     Service!vars, OneJob, Owed, Posting, Running, HandlingPcs
<1>27. CASE RuntimeChunk
  <2>1. /\ CurrentJob = job /\ CurrentJob' = job /\ job # NoId /\ mainPc # "started"
        /\ sent[job].method = "speech.synthesize" /\ UNCHANGED <<sent, mainPc>>
        /\ sequence' = sequence + 1
    BY <1>27, <1>0 DEF RuntimeChunk, CurrentJob, Streaming, OneJob, Owed, Posting,
         Running
  <2>2. /\ ServiceCurrent = [id |-> job, stream |-> "started", next |-> sequence]
        /\ ServiceCurrent' = [id |-> job, stream |-> "started", next |-> sequence + 1]
    BY <2>1 DEF ServiceCurrent
  <2>3. Service!StreamAudio
    BY <1>27, <2>2 DEF RuntimeChunk, Enqueue, Service!StreamAudio, Service!Say
  <2> QED
    BY <2>3 DEF Service!Next
<1>28. CASE RuntimeFinish
  BY <1>28, <1>0 DEF RuntimeFinish, RuntimeReturns, CurrentJob, ServiceCurrent,
     Service!vars, OneJob, Owed, Posting, Running, HandlingPcs
<1>29. CASE WorkerRespond
  <2>1. /\ CurrentJob = job /\ CurrentJob' = NoId /\ job # NoId /\ mainPc # "started"
    BY <1>29, <1>0 DEF WorkerRespond, CurrentJob, OneJob, Owed, Posting, Running
  <2>2. /\ ServiceCurrent.id = job /\ ServiceCurrent.stream # "silent"
        /\ ServiceCurrent' = Service!Idle /\ ServiceCurrent # Service!Idle
    BY <2>1 DEF ServiceCurrent, Service!Idle
  <2>3. outcome \in JobOutcomes
    BY <1>29, <1>0 DEF WorkerRespond, Streaming, TypeOK
  <2>4. Service!Finish(outcome)
    BY <1>29, <2>2 DEF WorkerRespond, Enqueue, Service!Finish, Service!Say
  <2> QED
    BY <2>3, <2>4 DEF Service!Next
<1>30. CASE WorkerLeave
  BY <1>30, <1>0 DEF WorkerLeave, WorkerDone, AfterJob, LoadedAfterJob, CurrentJob,
     ServiceCurrent, Service!vars, OneJob, Owed, Posting, Running, HandlingPcs
<1>31. CASE WriterWrite
  BY <1>31, <1>0 DEF WriterWrite, CurrentJob, ServiceCurrent, Service!vars, OneJob,
     Owed, Posting, Running, HandlingPcs
<1>32. CASE WriterExit
  BY <1>32, <1>0 DEF WriterExit, CurrentJob, ServiceCurrent, Service!vars, OneJob,
     Owed, Posting, Running, HandlingPcs
<1>33. CASE Exited \/ UNCHANGED vars
  BY <1>33 DEF Exited, vars, CurrentJob, ServiceCurrent, Service!vars
<1> QED
  BY <1>1, <1>2, <1>3, <1>4, <1>5, <1>6, <1>7, <1>8, <1>9, <1>10, <1>11, <1>12,
     <1>13, <1>14, <1>15, <1>16, <1>17, <1>18, <1>19, <1>20, <1>21, <1>22, <1>23,
     <1>24, <1>25, <1>26, <1>27, <1>28, <1>29, <1>30, <1>31, <1>32, <1>33 DEF Next,
     Client, Main, Handle, Worker, Writer

\* Whatever the client sends, the engine's stdout is one that EngineService
\* allows: one response per request, and streams that start once, are numbered
\* without a gap and end with their response.
THEOREM Refinement == Spec => ImplementsService
BY ServiceInit, ServiceStep, Invariance, PTL DEF Spec, ImplementsService, Service!Spec
=============================================================================
