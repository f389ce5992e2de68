-------------------------- MODULE EngineClientProofs --------------------------
(***************************************************************************)
(* Theorems about EngineClient for every engine that keeps EngineService,  *)
(* any number of requests and all bounds, proved with TLAPS.               *)
(***************************************************************************)
EXTENDS EngineClient, FiniteSetTheorems, TLAPS

\* What the engine's side says is in order: EngineServiceProofs.
Service == INSTANCE EngineServiceProofs WITH Requests <- Ids, closed <- outputClosed

IsResponse(k) == log[k].kind = "response"
IsStart(k) == log[k].kind = "started"
IsAudio(k) == log[k].kind = "audio"

\* The answer to id, its announcement and its chunks, as far as they were read.
Got(id) == \E k \in 1 .. received : IsResponse(k) /\ log[k].id = id
Began(id) == \E k \in 1 .. received : IsStart(k) /\ log[k].id = id
Chunks(id) == {k \in 1 .. received : IsAudio(k) /\ log[k].id = id}

\* What is read of a dead child was in the pipe.
Pipe ==
  /\ piped <= Len(log)
  /\ child = "dead" => received <= piped
  /\ closeSeen => closed /\ child = "dead"

\* The maps of the client agree with what was read: a request, which is well
\* formed, waits until it is answered, and a synthesis that waits has a stream.
Books ==
  /\ Len(asked) <= MaxRequests
  /\ \A id \in DOMAIN asked : asked[id].fault = "none"
  /\ closed => pending = {}
  /\ streams = [id \in DOMAIN streams |-> streams[id]]
  /\ DOMAIN streams = {id \in pending : asked[id].method = "speech.synthesize"}
  /\ \A id \in Ids :
       /\ id \in pending => outcome[id] = "none" /\ ~Got(id)
       /\ outcome[id] = "none" /\ id \in DOMAIN asked => id \in pending
       /\ outcome[id] \in {"result", "error"} => Got(id)
       /\ outcome[id] = "failed" => closed
       /\ id \notin DOMAIN asked => outcome[id] = "none"

\* A stream is as far as what was read of it.
Streaming ==
  \A id \in DOMAIN streams :
    /\ streams[id].started <=> Began(id)
    /\ \A k \in DOMAIN log :
         IsAudio(k) /\ log[k].id = id =>
           (k <= received <=> log[k].sequence < streams[id].nextSequence)
    /\ streams[id].nextSequence > 0 =>
         \E k \in Chunks(id) : log[k].sequence = streams[id].nextSequence - 1

\* Every chunk read of a request that waits, or has its result, was heard.
Counting ==
  \A id \in Ids : outcome[id] \in {"none", "result"} => heard[id] = Cardinality(Chunks(id))

\* A session is given up for a reason: a protocol failure after a timeout, an
\* exit when everything in the pipe was read.
Reasons ==
  /\ closed = (failure # "none")
  /\ failure = "protocol" => \E id \in Ids : outcome[id] = "timeout"
  /\ failure = "exit" =>
       child = "dead" /\ \A id \in Ids : outcome[id] = "failed" =>
         \A k \in 1 .. piped : IsResponse(k) => log[k].id # id

\* Whoever gives up tells the child.
Told ==
  closed \/ shutdown \in {"done", "failed"} \/ spawning = "failed" =>
    child = "dead" \/ signal # "none"

IInv ==
  /\ TypeOK /\ Service!Orderly
  /\ Pipe /\ Books /\ Streaming /\ Counting /\ Reasons /\ Told

-----------------------------------------------------------------------------
\* The service speaks of the same messages and requests.
LEMMA SameMessages ==
  /\ Service!NoId = NoId /\ Service!Bodies = Bodies /\ Service!Frame = Frame
  /\ Service!JobMethods = JobMethods /\ Service!JobOutcomes = JobOutcomes
  /\ Service!Message = Message
BY DEF Service!NoId, NoId, Service!Bodies, Bodies, Service!Faults, Faults, Service!Frame, Frame,
       Service!Methods, Methods, Service!TooLarge, TooLarge, Service!JobMethods, JobMethods,
       Service!JobOutcomes, JobOutcomes, Service!Message, Message

\* Bounds of the sequences, for the arithmetic of positions.
LEMMA Bounds ==
  ASSUME IInv
  PROVE  /\ Len(log) \in Nat /\ DOMAIN log = 1 .. Len(log)
         /\ received \in Nat /\ received <= Len(log) /\ piped \in Nat
         /\ Len(asked) \in Nat /\ DOMAIN asked = 1 .. Len(asked) /\ DOMAIN asked \subseteq Ids
         /\ MaxRequests \in Nat
         /\ \A k \in DOMAIN log : log[k] \in Message
BY ClientAssumption DEF IInv, TypeOK, Books, Ids

\* The service rests while the client is busy.
LEMMA ServiceRests ==
  ASSUME Service!Orderly, UNCHANGED <<asked, log, current, outputClosed>>
  PROVE  Service!Orderly'
BY Service!StepOrderly DEF Service!vars

\* At the start there is nothing to agree about.
LEMMA InitHolds == Init => IInv
<1> SUFFICES ASSUME Init PROVE IInv
  OBVIOUS
<1>1. Service!Orderly
  BY Service!InitOrderly DEF Init, Engine!Init, Service!Init, Engine!Idle, Service!Idle,
     Engine!NoId, Service!NoId
<1>2. asked = <<>> /\ log = <<>> /\ DOMAIN asked = {} /\ DOMAIN log = {} /\ Len(asked) = 0 /\ Len(log) = 0
  BY DEF Init, Engine!Init
<1>3. DOMAIN streams = {} /\ streams = [id \in DOMAIN streams |-> streams[id]]
  BY DEF Init, NoStreams
<1>4. TypeOK
  <2>1. asked \in Seq(Frame) /\ log \in Seq(Message)
    BY <1>2
  <2>2. received \in 0 .. Len(log) /\ piped \in Nat /\ shutdownId \in Ids \cup {NoId}
    BY <1>2 DEF Init
  <2>3. DOMAIN streams \subseteq pending /\ pending \subseteq DOMAIN asked
    BY <1>2, <1>3 DEF Init
  <2>4. outcome \in [Ids -> {"none", "result", "error", "timeout", "failed"}] /\ heard \in [Ids -> Nat]
    BY DEF Init
  <2> QED BY <1>3, <2>1, <2>2, <2>3, <2>4 DEF Init, TypeOK
<1>5. Pipe /\ Books /\ Streaming /\ Reasons /\ Told
  <2>1. Pipe /\ Told
    BY <1>2 DEF Init, Pipe, Told
  <2>2. Books
    BY <1>2, <1>3, ClientAssumption DEF Init, Books, Got
  <2>3. Streaming
    BY <1>3 DEF Streaming
  <2>4. Reasons
    BY DEF Init, Reasons
  <2> QED BY <2>1, <2>2, <2>3, <2>4
<1>6. Counting
  <2>1. \A id \in Ids : Chunks(id) = {}
    BY DEF Init, Chunks
  <2> QED BY <2>1, FS_EmptySet DEF Init, Counting
<1> QED BY <1>1, <1>4, <1>5, <1>6 DEF IInv

-----------------------------------------------------------------------------
(* The child.                                                              *)

\* What the engine says next changes nothing for what has been read: a chunk it
\* adds comes after those the client expects.
LEMMA LogGrows ==
  ASSUME IInv, Service!Orderly', child = "running",
         asked' = asked, Len(log') \in Nat, DOMAIN log' = 1 .. Len(log'), Len(log) <= Len(log'),
         \A k \in DOMAIN log : log'[k] = log[k],
         UNCHANGED <<childVars, received, sessionVars, closeSeen, heard, callVars>>
  PROVE  IInv'
<1>0. /\ Len(log) \in Nat /\ DOMAIN log = 1 .. Len(log) /\ received \in Nat /\ received <= Len(log)
      /\ MaxRequests \in Nat
  BY Bounds
<1>1. UNCHANGED <<child, piped, signal, received, pending, streams, closed, failure, outcome, closeSeen,
                  heard, spawning, shutdown, shutdownId, stdinEnded>>
  BY DEF childVars, sessionVars, callVars
<1>2. \A k \in 1 .. received : k \in DOMAIN log /\ k \in DOMAIN log' /\ log'[k] = log[k]
  BY <1>0
<1>3. /\ \A id : Got(id)' = Got(id) /\ Began(id)' = Began(id)
      /\ \A id : Chunks(id)' = Chunks(id)
  BY <1>1, <1>2 DEF Got, Began, Chunks, IsResponse, IsStart, IsAudio
<1>4. log' \in Seq(Message) /\ asked \in Seq(Frame)
  BY SameMessages DEF Service!Orderly, Service!Types, IInv, TypeOK
<1>5. TypeOK'
  BY <1>0, <1>1, <1>4 DEF IInv, TypeOK
<1>6. Pipe' /\ Books' /\ Counting' /\ Told'
  BY <1>0, <1>1, <1>3 DEF IInv, TypeOK, Pipe, Books, Counting, Told
<1>7. Reasons'
  BY <1>1 DEF IInv, Reasons
<1>8. Streaming'
  <2> SUFFICES ASSUME NEW id \in DOMAIN streams
               PROVE  /\ streams[id].started <=> Began(id)
                      /\ \A k \in DOMAIN log' :
                           IsAudio(k)' /\ log'[k].id = id =>
                             (k <= received <=> log'[k].sequence < streams[id].nextSequence)
                      /\ streams[id].nextSequence > 0 =>
                           \E k \in Chunks(id) : log'[k].sequence = streams[id].nextSequence - 1
    BY <1>1, <1>3 DEF Streaming
  <2>1. /\ streams[id].started <=> Began(id)
        /\ \A k \in DOMAIN log :
             IsAudio(k) /\ log[k].id = id =>
               (k <= received <=> log[k].sequence < streams[id].nextSequence)
        /\ streams[id].nextSequence > 0 =>
             \E k \in Chunks(id) : log[k].sequence = streams[id].nextSequence - 1
    BY DEF IInv, Streaming
  <2>2. streams[id].nextSequence \in Nat
    BY DEF IInv, TypeOK
  <2>3. streams[id].nextSequence > 0 =>
          \E k \in Chunks(id) : log'[k].sequence = streams[id].nextSequence - 1
    BY <2>1, <1>2 DEF Chunks
  <2>4. ASSUME NEW k \in DOMAIN log', IsAudio(k)', log'[k].id = id
        PROVE  k <= received <=> log'[k].sequence < streams[id].nextSequence
    <3>1. CASE k \in DOMAIN log
      BY <3>1, <2>1, <2>4 DEF IsAudio
    <3>2. CASE k \notin DOMAIN log
      <4>1. k > Len(log) /\ ~(k <= received)
        BY <3>2, <1>0
      <4>2. log'[k].sequence \in Nat
        <5>1. log'[k] \in Message
          BY <1>4
        <5> QED BY <5>1 DEF Message
      <4>3. CASE streams[id].nextSequence > 0
        <5>1. PICK j \in Chunks(id) : log'[j].sequence = streams[id].nextSequence - 1
          BY <4>3, <2>3
        <5>2. j \in DOMAIN log' /\ j < k /\ log'[j].kind = "audio" /\ log'[j].id = id
          BY <5>1, <1>0, <1>2, <4>1 DEF Chunks, IsAudio
        <5>3. log'[j].sequence < log'[k].sequence
          BY <2>4, <5>2 DEF Service!Orderly, Service!AudioIsNumbered, Service!IsAudio, IsAudio
        <5> QED BY <4>1, <4>2, <5>1, <5>3, <2>2
      <4>4. CASE ~(streams[id].nextSequence > 0)
        BY <4>1, <4>2, <4>4, <2>2
      <4> QED BY <4>3, <4>4
    <3> QED BY <3>1, <3>2
  <2> QED BY <2>1, <2>3, <2>4
<1> QED BY <1>5, <1>6, <1>7, <1>8 DEF IInv

\* The engine's steps are the service's: the module is instantiated twice.
LEMMA SameSteps ==
  /\ \A id, body : Engine!Reply(id, body) => Service!Reply(id, body)
  /\ \A id : Engine!Accept(id) => Service!Accept(id)
  /\ Engine!StartStream => Service!StartStream
  /\ Engine!StreamAudio => Service!StreamAudio
  /\ \A body : Engine!Finish(body) => Service!Finish(body)
  /\ Engine!Close => Service!Close
<1>1. /\ Engine!NoId = Service!NoId /\ Engine!JobMethods = Service!JobMethods
      /\ Engine!Idle = Service!Idle /\ Engine!Answered(log) = Service!Answered(log)
  BY DEF Engine!NoId, Service!NoId, Engine!JobMethods, Service!JobMethods, Engine!Idle,
     Service!Idle,
         Engine!Answered, Service!Answered
<1>2. \A id, body : Engine!Reply(id, body) => Service!Reply(id, body)
  BY <1>1 DEF Engine!Reply, Service!Reply, Engine!Open, Service!Open, Engine!Fits, Service!Fits,
     Engine!Say, Service!Say, Engine!Response, Service!Response
<1>3. \A id : Engine!Accept(id) => Service!Accept(id)
  BY <1>1 DEF Engine!Accept, Service!Accept, Engine!Open, Service!Open
<1>4. Engine!StartStream => Service!StartStream
  BY DEF Engine!StartStream, Service!StartStream, Engine!Say, Service!Say, Engine!Started,
     Service!Started
<1>5. Engine!StreamAudio => Service!StreamAudio
  BY DEF Engine!StreamAudio, Service!StreamAudio, Engine!Say, Service!Say, Engine!Audio,
     Service!Audio
<1>6. \A body : Engine!Finish(body) => Service!Finish(body)
  BY <1>1 DEF Engine!Finish, Service!Finish, Engine!Say, Service!Say, Engine!Response,
     Service!Response
<1>7. Engine!Close => Service!Close
  BY <1>1 DEF Engine!Close, Service!Close
<1> QED BY <1>2, <1>3, <1>4, <1>5, <1>6, <1>7

\* The service only adds to the log.
LEMMA ServiceAdds ==
  ASSUME log \in Seq(Message), NEW m, Service!Say(m)
  PROVE  /\ Len(log') \in Nat /\ DOMAIN log' = 1 .. Len(log') /\ Len(log) <= Len(log')
         /\ \A k \in DOMAIN log : log'[k] = log[k]
BY DEF Service!Say

\* Whatever the engine says.
LEMMA EngineStep == ASSUME IInv, EngineSteps PROVE IInv'
<1>1. child = "running" /\ UNCHANGED <<childVars, received, sessionVars, closeSeen, heard, callVars>>
  BY DEF EngineSteps
<1>2. Service!Orderly /\ log \in Seq(Message)
  BY DEF IInv, TypeOK
<1> DEFINE Grown == /\ Len(log') \in Nat /\ DOMAIN log' = 1 .. Len(log') /\ Len(log) <= Len(log')
                    /\ \A k \in DOMAIN log : log'[k] = log[k]
<1>3. ASSUME log' = log PROVE Grown
  BY <1>2, <1>3
<1>4. ASSUME NEW id \in Ids, NEW body \in Said, Engine!Reply(id, body)
      PROVE  Service!Orderly' /\ asked' = asked /\ Grown
  <2>1. Service!Reply(id, body) /\ body \in Service!Bodies
    BY <1>4, SameSteps, SameMessages, ClientAssumption
  <2> QED BY <1>2, <2>1, Service!ReplyStep, ServiceAdds DEF Service!Reply
<1>5. ASSUME NEW id \in Ids, Engine!Accept(id)
      PROVE  Service!Orderly' /\ asked' = asked /\ Grown
  <2>1. Service!Accept(id)
    BY <1>5, SameSteps
  <2> QED BY <1>2, <1>3, <2>1, Service!AcceptStep DEF Service!Accept
<1>6. ASSUME Engine!StartStream PROVE Service!Orderly' /\ asked' = asked /\ Grown
  <2>1. Service!StartStream
    BY <1>6, SameSteps
  <2> QED BY <1>2, <2>1, Service!StartStep, ServiceAdds DEF Service!StartStream
<1>7. ASSUME Engine!StreamAudio PROVE Service!Orderly' /\ asked' = asked /\ Grown
  <2>1. Service!StreamAudio
    BY <1>7, SameSteps
  <2> QED BY <1>2, <2>1, Service!AudioStep, ServiceAdds DEF Service!StreamAudio
<1>8. ASSUME NEW body \in JobOutcomes \cap Said, Engine!Finish(body)
      PROVE  Service!Orderly' /\ asked' = asked /\ Grown
  <2>1. Service!Finish(body) /\ body \in Service!JobOutcomes
    BY <1>8, SameSteps, SameMessages
  <2> QED BY <1>2, <2>1, Service!FinishStep, ServiceAdds DEF Service!Finish
<1>9. ASSUME Engine!Close PROVE Service!Orderly' /\ asked' = asked /\ Grown
  <2>1. Service!Close
    BY <1>9, SameSteps
  <2> QED BY <1>2, <1>3, <2>1, Service!CloseStep DEF Service!Close
<1>10. Service!Orderly' /\ asked' = asked /\ Grown
  <2> HIDE DEF Grown
  <2> QED BY <1>4, <1>5, <1>6, <1>7, <1>8, <1>9 DEF EngineSteps
<1> QED BY <1>1, <1>10, LogGrows

\* The end of the child keeps what has been read, and leaves what is in the pipe.
LEMMA ChildEnds ==
  ASSUME IInv, ChildExits \/ ChildDies
  PROVE  IInv'
<1>1. /\ UNCHANGED <<asked, log, current, outputClosed, signal, received, pending, streams, closed, failure, outcome,
                     closeSeen, heard, spawning, shutdown, shutdownId, stdinEnded>>
      /\ child = "running" /\ child' = "dead" /\ piped' \in Nat /\ received <= piped' /\ piped' <= Len(log)
  BY Bounds DEF ChildExits, ChildDies, engineVars, sessionVars, callVars
<1>2. Service!Orderly'
  BY <1>1, ServiceRests DEF IInv
<1>3. TypeOK' /\ Pipe' /\ Told'
  BY <1>1 DEF IInv, TypeOK, Pipe, Told
<1>4. Books' /\ Counting'
  BY <1>1 DEF IInv, Books, Counting, Got, Chunks, IsResponse, IsAudio
<1>5. Streaming'
  BY <1>1 DEF IInv, Streaming, Began, Chunks, IsStart, IsAudio
<1>6. Reasons'
  BY <1>1 DEF IInv, Reasons
<1> QED BY <1>2, <1>3, <1>4, <1>5, <1>6 DEF IInv

-----------------------------------------------------------------------------
(* The end of a session.                                                   *)

\* A request that was never asked has no chunks, and one that has its answer gets
\* no more: the next line is not one of theirs.
LEMMA NextLine ==
  ASSUME IInv, received < Len(log), log' = log, received' = received + 1
  PROVE  /\ received' \in DOMAIN log /\ received' \notin 1 .. received
         /\ 1 .. received' = (1 .. received) \cup {received'}
         /\ \A id : Got(id) => Got(id)'
         /\ \A id \in Ids : Got(id) \/ id \notin DOMAIN asked => log[received'].id # id
         /\ \A id : ~IsAudio(received') \/ log[received'].id # id => Chunks(id)' = Chunks(id)
<1>1. /\ received \in Nat /\ Len(log) \in Nat /\ DOMAIN log = 1 .. Len(log)
  BY Bounds
<1>2. /\ received' \in DOMAIN log /\ received' \notin 1 .. received
      /\ 1 .. received' = (1 .. received) \cup {received'}
      /\ \A k \in 1 .. received : k \in DOMAIN log /\ k < received'
  BY <1>1
<1>3. \A id : Got(id) => Got(id)'
  BY <1>2 DEF Got, IsResponse
<1>4. ASSUME NEW id \in Ids, Got(id) \/ id \notin DOMAIN asked
      PROVE  log[received'].id # id
  <2>1. id # NoId
    BY DEF Ids, NoId
  <2>2. CASE Got(id)
    BY <2>1, <2>2, <1>2, SameMessages
       DEF IInv, Service!Orderly, Service!ResponseIsLast, Service!IsResponse, Got, IsResponse
  <2>3. CASE id \notin DOMAIN asked
    BY <2>1, <2>3, <1>2, SameMessages DEF IInv, Service!Orderly, Service!OnlyAsked
  <2> QED BY <1>4, <2>2, <2>3
<1>5. ASSUME NEW id, ~IsAudio(received') \/ log[received'].id # id
      PROVE  Chunks(id)' = Chunks(id)
  BY <1>2, <1>5 DEF Chunks, IsAudio
<1> QED BY <1>2, <1>3, <1>4, <1>5

\* When a session is given up every request that waits is rejected, and nothing
\* is left to agree about.
LEMMA GiveUp ==
  ASSUME IInv, log' = log, heard' = heard, closed' = TRUE, NEW ids, FailAll(ids),
         asked' \in Seq(Frame), Len(asked') <= MaxRequests,
         \A id \in DOMAIN asked' : asked'[id].fault = "none",
         DOMAIN asked' = DOMAIN asked \cup (ids \ pending), pending \subseteq ids,
         ids \cap DOMAIN asked = pending,
         received' = received \/ (received < Len(log) /\ received' = received + 1)
  PROVE  /\ Books' /\ Streaming' /\ Counting'
         /\ outcome' \in [Ids -> {"none", "result", "error", "timeout", "failed"}]
         /\ DOMAIN streams' = {} /\ pending' = {}
         /\ \A id \in Ids : outcome[id] = "timeout" => outcome'[id] = "timeout"
<1>1. /\ DOMAIN streams' = {} /\ pending' = {}
      /\ streams' = [id \in DOMAIN streams' |-> streams'[id]]
      /\ outcome' = [id \in Ids |-> IF id \in ids THEN "failed" ELSE outcome[id]]
  BY DEF FailAll, NoStreams
<1>2. outcome' \in [Ids -> {"none", "result", "error", "timeout", "failed"}]
  BY <1>1 DEF IInv, TypeOK
<1>3. \A id : Got(id) => Got(id)'
  BY NextLine DEF Got, IsResponse
<1>4. \A id \in Ids : id \in ids => id \in DOMAIN asked' /\ outcome[id] = "none"
  BY DEF IInv, Books
<1>5. Books'
  BY <1>1, <1>3, <1>4 DEF IInv, Books
<1>6. Streaming'
  BY <1>1 DEF Streaming
<1>7. Counting'
  <2> SUFFICES ASSUME NEW id \in Ids, outcome'[id] \in {"none", "result"}
               PROVE  heard[id] = Cardinality(Chunks(id)')
    BY DEF Counting
  <2>1. id \notin ids /\ outcome'[id] = outcome[id]
    BY <1>1
  <2>2. heard[id] = Cardinality(Chunks(id)) /\ (Got(id) \/ id \notin DOMAIN asked)
    BY <2>1 DEF IInv, Books, Counting
  <2>3. Chunks(id)' = Chunks(id)
    BY <2>2, NextLine DEF Chunks, IsAudio
  <2> QED BY <2>2, <2>3
<1>8. \A id \in Ids : outcome[id] = "timeout" => outcome'[id] = "timeout"
  BY <1>1, <1>4
<1> QED BY <1>1, <1>2, <1>5, <1>6, <1>7, <1>8

\* A child that could not be started.
LEMMA StartFailsStep == ASSUME IInv, StartFails PROVE IInv'
<1>1. /\ UNCHANGED <<asked, log, current, outputClosed, signal, received, closeSeen, heard, shutdown,
                     shutdownId, stdinEnded>>
      /\ closed' = TRUE /\ FailAll(pending) /\ child' = "dead" /\ piped' = 0
      /\ ~closed /\ asked = <<>> /\ log = <<>> /\ failure' = "start" /\ spawning' = "failed"
  BY DEF StartFails, engineVars
<1>2. Len(asked) = 0 /\ Len(log) = 0 /\ DOMAIN asked = {} /\ pending = {}
  BY <1>1 DEF IInv, TypeOK
<1>3. received = 0
  BY <1>2 DEF IInv, TypeOK
<1>4. Service!Orderly'
  BY <1>1, ServiceRests DEF IInv
<1>5. /\ Books' /\ Streaming' /\ Counting'
      /\ outcome' \in [Ids -> {"none", "result", "error", "timeout", "failed"}]
      /\ DOMAIN streams' = {} /\ pending' = {}
  <2>1. asked' \in Seq(Frame) /\ Len(asked') <= MaxRequests
    BY <1>1 DEF IInv, TypeOK, Books
  <2> QED BY <1>1, <1>2, <2>1, GiveUp
<1>6. TypeOK' /\ Pipe' /\ Told' /\ Reasons'
  <2>1. TypeOK'
    BY <1>1, <1>3, <1>5 DEF IInv, TypeOK
  <2>2. Pipe' /\ Told'
    BY <1>1, <1>2, <1>3 DEF IInv, Pipe, Told
  <2>3. Reasons'
    BY <1>1 DEF IInv, Reasons
  <2> QED BY <2>1, <2>2, <2>3
<1> QED BY <1>4, <1>5, <1>6 DEF IInv

\* stdin fails: the child is told, and no answer has come.
LEMMA StdinStep == ASSUME IInv, StdinFails PROVE IInv'
<1>1. /\ UNCHANGED <<asked, log, current, outputClosed, child, piped, received, closeSeen, heard, spawning,
                     shutdown, shutdownId, stdinEnded>>
      /\ closed' = TRUE /\ FailAll(pending) /\ Terminate /\ child = "dead"
      /\ failure' = "stdin"
  BY DEF StdinFails, engineVars, callVars, Abort
<1>2. Service!Orderly'
  BY <1>1, ServiceRests DEF IInv
<1>3. /\ Books' /\ Streaming' /\ Counting'
      /\ outcome' \in [Ids -> {"none", "result", "error", "timeout", "failed"}]
      /\ DOMAIN streams' = {} /\ pending' = {}
  <2>1. /\ asked' \in Seq(Frame) /\ Len(asked') <= MaxRequests /\ pending \subseteq DOMAIN asked
        /\ \A id \in DOMAIN asked' : asked'[id].fault = "none"
    BY <1>1 DEF IInv, TypeOK, Books
  <2> QED BY <1>1, <2>1, GiveUp
<1>4. TypeOK' /\ Pipe' /\ Told' /\ Reasons'
  BY <1>1, <1>3 DEF IInv, TypeOK, Pipe, Told, Reasons, Terminate
<1> QED BY <1>2, <1>3, <1>4 DEF IInv

\* "close": the pipe has been read to its end, so a request that waits was never
\* answered.
LEMMA CloseStep == ASSUME IInv, ChildCloses PROVE IInv'
<1>1. /\ UNCHANGED <<asked, log, current, outputClosed, child, piped, signal, received, heard, spawning,
                     shutdown, shutdownId, stdinEnded>>
      /\ closed' = TRUE /\ closeSeen' = TRUE /\ FailAll(pending) /\ child = "dead"
      /\ failure' = IF closed THEN failure ELSE "exit"
      /\ closed \/ ~(received < piped)
  BY DEF ChildCloses, CloseChild, engineVars, childVars, callVars, HasLine, Readable
<1>2. Service!Orderly'
  BY <1>1, ServiceRests DEF IInv
<1>3. /\ Books' /\ Streaming' /\ Counting'
      /\ outcome' \in [Ids -> {"none", "result", "error", "timeout", "failed"}]
      /\ DOMAIN streams' = {} /\ pending' = {}
      /\ \A id \in Ids : outcome[id] = "timeout" => outcome'[id] = "timeout"
  <2>1. /\ asked' \in Seq(Frame) /\ Len(asked') <= MaxRequests /\ pending \subseteq DOMAIN asked
        /\ \A id \in DOMAIN asked' : asked'[id].fault = "none"
    BY <1>1 DEF IInv, TypeOK, Books
  <2> QED BY <1>1, <2>1, GiveUp
<1>4. TypeOK' /\ Pipe' /\ Told'
  BY <1>1, <1>3 DEF IInv, TypeOK, Pipe, Told
<1>5. Reasons'
  <2>1. CASE closed
    <3>1. pending = {} /\ outcome' = outcome
      BY <1>1, <2>1 DEF IInv, Books, FailAll, TypeOK
    <3> QED BY <1>1, <2>1, <3>1 DEF IInv, Reasons, IsResponse
  <2>2. CASE ~closed
    <3>1. received = piped
      BY <1>1, <2>2, Bounds DEF IInv, Pipe
    <3>2. ASSUME NEW id \in Ids, outcome'[id] = "failed", NEW k \in 1 .. piped, IsResponse(k)
          PROVE  log[k].id # id
      <4>1. id \in pending
        BY <1>1, <2>2, <3>2 DEF FailAll, IInv, Books
      <4> QED BY <3>1, <3>2, <4>1 DEF IInv, Books, Got
    <3> QED BY <1>1, <2>2, <3>2 DEF Reasons, IsResponse
  <2> QED BY <2>1, <2>2
<1> QED BY <1>2, <1>3, <1>4, <1>5 DEF IInv

-----------------------------------------------------------------------------
(* Requests.                                                               *)

\* A request takes an id of which nothing was said.
LEMMA Written ==
  ASSUME IInv, NEW method \in Methods, Write(method)
  PROVE  /\ Service!Orderly' /\ asked' \in Seq(Frame) /\ Len(asked') <= MaxRequests
         /\ NextId \in Ids /\ NextId \notin DOMAIN asked
         /\ DOMAIN asked' = DOMAIN asked \cup {NextId}
         /\ \A id \in DOMAIN asked : asked'[id] = asked[id]
         /\ asked'[NextId].method = method
         /\ \A id \in DOMAIN asked' : asked'[id].fault = "none"
         /\ UNCHANGED <<log, current, outputClosed>>
         /\ ~Got(NextId) /\ ~Began(NextId)
         /\ \A k \in DOMAIN log : log[k].id # NextId
<1>1. /\ Len(asked) \in Nat /\ DOMAIN asked = 1 .. Len(asked) /\ asked \in Seq(Frame)
      /\ received <= Len(log) /\ DOMAIN log = 1 .. Len(log) /\ Len(log) \in Nat /\ received \in Nat
      /\ MaxRequests \in Nat
  BY Bounds DEF IInv, TypeOK
<1>2. [method |-> method, target |-> NoId, fault |-> "none", seen |-> 0] \in Frame
  BY DEF Frame, NoId, Faults
<1>3. /\ asked' \in Seq(Frame) /\ Len(asked') = Len(asked) + 1 /\ NextId <= MaxRequests
      /\ \A id \in DOMAIN asked : asked'[id] = asked[id]
      /\ asked'[NextId].method = method /\ asked'[NextId].fault = "none"
      /\ UNCHANGED <<log, current, outputClosed>>
  BY <1>1, <1>2 DEF Write, NextId
<1>4. /\ DOMAIN asked' = 1 .. (Len(asked) + 1)
      /\ NextId \in Ids /\ NextId \notin DOMAIN asked /\ NextId # NoId
      /\ DOMAIN asked' = DOMAIN asked \cup {NextId}
  BY <1>1, <1>3 DEF NextId, Ids, NoId
<1>5. Service!Orderly'
  BY <1>3, Service!AskStep, SameMessages DEF IInv, Service!Ask
<1>6. \A k \in DOMAIN log : log[k].id # NextId
  BY <1>4, SameMessages DEF IInv, Service!Orderly, Service!OnlyAsked
<1>7. \A id \in DOMAIN asked' : asked'[id].fault = "none"
  BY <1>3, <1>4 DEF IInv, Books
<1> QED BY <1>1, <1>3, <1>4, <1>5, <1>6, <1>7 DEF Got, Began

\* A request that is sent waits, and a synthesis gets a stream.
LEMMA RequestStep ==
  ASSUME IInv, NEW method \in Methods, Request(method),
         spawning' = spawning, stdinEnded' = stdinEnded,
         shutdown' \in {shutdown, "asked"}, shutdownId' \in {shutdownId, NextId}
  PROVE  IInv'
<1>1. /\ UNCHANGED <<child, piped, signal, received, closed, failure, outcome, closeSeen, heard>>
      /\ ~closed /\ pending' = pending \cup {NextId} /\ Write(method)
      /\ streams' = IF method = "speech.synthesize"
                      THEN [i \in DOMAIN streams \cup {NextId} |->
                              IF i = NextId THEN Stream ELSE streams[i]]
                      ELSE streams
  BY DEF Request, childVars
<1>2. /\ Service!Orderly' /\ asked' \in Seq(Frame) /\ Len(asked') <= MaxRequests
      /\ NextId \in Ids /\ NextId \notin DOMAIN asked
      /\ DOMAIN asked' = DOMAIN asked \cup {NextId}
      /\ \A id \in DOMAIN asked : asked'[id] = asked[id]
      /\ asked'[NextId].method = method
      /\ \A id \in DOMAIN asked' : asked'[id].fault = "none"
      /\ log' = log /\ ~Got(NextId) /\ ~Began(NextId)
      /\ \A k \in DOMAIN log : log[k].id # NextId
  BY <1>1, Written
<1>3. /\ \A id : Got(id)' = Got(id) /\ Began(id)' = Began(id)
      /\ \A id : Chunks(id)' = Chunks(id)
  BY <1>1, <1>2 DEF Got, Began, Chunks, IsResponse, IsStart, IsAudio
<1>4. /\ DOMAIN streams \subseteq pending /\ pending \subseteq DOMAIN asked
      /\ streams = [id \in DOMAIN streams |-> streams[id]]
      /\ DOMAIN streams = {id \in pending : asked[id].method = "speech.synthesize"}
      /\ \A id \in DOMAIN streams :
           streams[id] \in [started : BOOLEAN, nextSequence : Nat]
  BY DEF IInv, TypeOK, Books
<1>5. /\ DOMAIN streams' = {id \in pending' : asked'[id].method = "speech.synthesize"}
      /\ streams' = [id \in DOMAIN streams' |-> streams'[id]]
      /\ \A id \in DOMAIN streams' :
           \/ id \in DOMAIN streams /\ streams'[id] = streams[id]
           \/ id = NextId /\ streams'[id] = Stream
  <2>1. {id \in pending' : asked'[id].method = "speech.synthesize"} =
          DOMAIN streams \cup {id \in {NextId} : method = "speech.synthesize"}
    BY <1>1, <1>2, <1>4
  <2>2. CASE method = "speech.synthesize"
    <3>1. streams' = [i \in DOMAIN streams \cup {NextId} |->
                       IF i = NextId THEN Stream ELSE streams[i]]
      BY <1>1, <2>2
    <3>2. DOMAIN streams' = DOMAIN streams \cup {NextId}
      BY <3>1
    <3>3. streams' = [id \in DOMAIN streams' |-> streams'[id]]
      BY <3>1
    <3> QED BY <2>1, <2>2, <3>1, <3>2, <3>3
  <2>3. CASE method # "speech.synthesize"
    <3>1. streams' = streams
      BY <1>1, <2>3
    <3> QED BY <2>1, <2>3, <3>1, <1>4
  <2> QED BY <2>2, <2>3
<1>6. Stream \in [started : BOOLEAN, nextSequence : Nat]
  BY DEF Stream
<1>7. TypeOK'
  <2>1. \A id \in DOMAIN streams' : streams'[id] \in [started : BOOLEAN, nextSequence : Nat]
    BY <1>4, <1>5, <1>6
  <2>2. DOMAIN streams' \subseteq pending' /\ pending' \subseteq DOMAIN asked'
    BY <1>1, <1>2, <1>4, <1>5
  <2>3. /\ shutdownId' \in Ids \cup {NoId}
        /\ shutdown' \in {"none", "asked", "observing", "terminating", "done", "failed"}
    BY <1>2 DEF IInv, TypeOK
  <2>4. asked' \in Seq(Frame) /\ log' \in Seq(Message) /\ received' \in 0 .. Len(log')
    BY <1>1, <1>2 DEF IInv, TypeOK
  <2> QED BY <1>1, <2>1, <2>2, <2>3, <2>4 DEF IInv, TypeOK
<1>8. Pipe' /\ Counting' /\ Reasons' /\ Told'
  BY <1>1, <1>2, <1>3 DEF IInv, Pipe, Counting, Reasons, Told, IsResponse
<1>9. Books'
  BY <1>1, <1>2, <1>3, <1>5 DEF IInv, Books
<1>10. Streaming'
  <2> SUFFICES ASSUME NEW id \in DOMAIN streams'
               PROVE  /\ streams'[id].started <=> Began(id)
                      /\ \A k \in DOMAIN log :
                           IsAudio(k) /\ log[k].id = id =>
                             (k <= received <=> log[k].sequence < streams'[id].nextSequence)
                      /\ streams'[id].nextSequence > 0 =>
                           \E k \in Chunks(id) : log[k].sequence = streams'[id].nextSequence - 1
    BY <1>1, <1>2, <1>3 DEF Streaming, IsAudio
  <2>1. CASE id \in DOMAIN streams /\ streams'[id] = streams[id]
    BY <2>1 DEF IInv, Streaming
  <2>2. CASE id = NextId /\ streams'[id] = Stream
    BY <2>2, <1>2 DEF Stream
  <2> QED BY <2>1, <2>2, <1>5
<1> QED BY <1>2, <1>7, <1>8, <1>9, <1>10 DEF IInv

\* A request written after the end of stdin gives the session up, and itself.
LEMMA TooLateStep ==
  ASSUME IInv, NEW method \in Methods, UserRequestsTooLate(method)
  PROVE  IInv'
<1>1. /\ UNCHANGED <<child, piped, received, closeSeen, heard, spawning, shutdown, shutdownId, stdinEnded>>
      /\ ~closed /\ Write(method) /\ closed' = TRUE /\ failure' = "stdin"
      /\ FailAll(pending \cup {NextId}) /\ Terminate
  BY DEF UserRequestsTooLate, Abort, callVars
<1>2. /\ Service!Orderly' /\ asked' \in Seq(Frame) /\ Len(asked') <= MaxRequests
      /\ NextId \in Ids /\ NextId \notin DOMAIN asked
      /\ DOMAIN asked' = DOMAIN asked \cup {NextId} /\ log' = log
      /\ \A id \in DOMAIN asked' : asked'[id].fault = "none"
  BY <1>1, Written
<1>3. pending \subseteq DOMAIN asked
  BY DEF IInv, TypeOK
<1>4. /\ Books' /\ Streaming' /\ Counting'
      /\ outcome' \in [Ids -> {"none", "result", "error", "timeout", "failed"}]
      /\ DOMAIN streams' = {} /\ pending' = {}
  <2>1. /\ DOMAIN asked' = DOMAIN asked \cup ((pending \cup {NextId}) \ pending)
        /\ (pending \cup {NextId}) \cap DOMAIN asked = pending
    BY <1>2, <1>3
  <2> QED BY <1>1, <1>2, <2>1, GiveUp
<1>5. TypeOK' /\ Pipe' /\ Told' /\ Reasons'
  BY <1>1, <1>2, <1>4 DEF IInv, TypeOK, Pipe, Told, Reasons, Terminate
<1> QED BY <1>2, <1>4, <1>5 DEF IInv

\* A request that times out gives its stream back.
LEMMA TimeoutStep == ASSUME IInv, NEW id \in Ids, RequestTimesOut(id) PROVE IInv'
<1>1. /\ UNCHANGED <<asked, log, current, outputClosed, child, piped, signal, received, closed, failure, closeSeen,
                     heard, spawning, shutdown, shutdownId, stdinEnded>>
      /\ id \in pending /\ pending' = pending \ {id} /\ streams' = Drop(id)
      /\ outcome' = [outcome EXCEPT ![id] = "timeout"]
  BY DEF RequestTimesOut, Settle, engineVars, childVars, callVars
<1>2. Service!Orderly'
  BY <1>1, ServiceRests DEF IInv
<1>3. /\ outcome' \in [Ids -> {"none", "result", "error", "timeout", "failed"}]
      /\ \A i \in Ids : i # id => outcome'[i] = outcome[i]
      /\ outcome'[id] = "timeout"
  BY <1>1 DEF IInv, TypeOK
<1>4. /\ DOMAIN streams' = DOMAIN streams \ {id}
      /\ streams' = [i \in DOMAIN streams' |-> streams'[i]]
      /\ \A i \in DOMAIN streams' : streams'[i] = streams[i]
  BY <1>1 DEF Drop
<1>5. TypeOK'
  BY <1>1, <1>3, <1>4 DEF IInv, TypeOK
<1>6. Pipe' /\ Told'
  BY <1>1 DEF IInv, Pipe, Told
<1>7. Books'
  <2>1. DOMAIN streams' = {i \in pending' : asked[i].method = "speech.synthesize"}
    BY <1>1, <1>4 DEF IInv, Books
  <2>2. \A i : Got(i)' = Got(i)
    BY <1>1 DEF Got, IsResponse
  <2>3. ASSUME NEW i \in Ids
        PROVE  /\ i \in pending' => outcome'[i] = "none" /\ ~Got(i)
               /\ outcome'[i] = "none" /\ i \in DOMAIN asked => i \in pending'
               /\ outcome'[i] \in {"result", "error"} => Got(i)
               /\ outcome'[i] = "failed" => closed
               /\ i \notin DOMAIN asked => outcome'[i] = "none"
    <3>1. CASE i = id
      <4>1. id \in DOMAIN asked
        BY <1>1 DEF IInv, TypeOK
      <4> QED BY <3>1, <4>1, <1>1, <1>3
    <3>2. CASE i # id
      BY <3>2, <1>1, <1>3 DEF IInv, Books
    <3> QED BY <3>1, <3>2
  <2> QED BY <1>1, <1>4, <2>1, <2>2, <2>3 DEF IInv, Books
<1>8. Streaming'
  BY <1>1, <1>4 DEF IInv, Streaming, Began, Chunks, IsStart, IsAudio
<1>9. Counting'
  BY <1>1, <1>3 DEF IInv, Counting, Chunks, IsAudio
<1>10. Reasons'
  <2>1. ~closed
    BY <1>1 DEF IInv, Books
  <2> QED BY <1>1, <2>1 DEF IInv, Reasons
<1> QED BY <1>2, <1>5, <1>6, <1>7, <1>8, <1>9, <1>10 DEF IInv

-----------------------------------------------------------------------------
(* The lines of stdout.                                                    *)

\* The client reads the next line of the log, one that was in the pipe.
LEMMA Reads ==
  ASSUME IInv, ReadLine
  PROVE  /\ ~closed /\ failure = "none" /\ received' = received + 1 /\ received < Len(log)
         /\ received' \in DOMAIN log /\ received' \in 0 .. Len(log)
         /\ Line = log[received'] /\ log[received'] \in Message
         /\ child = "dead" => received' <= piped
<1>1. ~closed /\ received < Readable /\ received' = received + 1
  BY DEF ReadLine, HasLine
<1>2. received < Len(log) /\ (child = "dead" => received' <= piped)
  BY <1>1, Bounds DEF Readable, IInv, Pipe, TypeOK
<1>3. failure = "none"
  BY <1>1 DEF IInv, Reasons
<1> QED BY <1>1, <1>2, <1>3, Bounds DEF Line

\* Unless a request timed out, the client waits for whatever the engine speaks
\* of: the request a line names is in progress.
LEMMA LineNamesPending ==
  ASSUME IInv, ReadLine, log' = log, \A id \in Ids : outcome[id] # "timeout"
  PROVE  /\ Line.id \in pending
         /\ Line.kind # "response" => Line.id \in DOMAIN streams
<1>1. /\ ~closed /\ received' = received + 1 /\ received < Len(log)
      /\ received' \in DOMAIN log /\ Line = log[received']
  BY Reads
<1>2. Line.id \in DOMAIN asked
  <2>1. ~Service!Malformed
    BY DEF IInv, Books, Service!Malformed
  <2> QED BY <1>1, <2>1 DEF IInv, Service!Orderly, Service!OnlyAsked
<1>3. Line.id \in Ids
  BY <1>2, Bounds
<1>4. ~Got(Line.id)
  BY <1>1, <1>3, NextLine
<1>5. outcome[Line.id] \notin {"result", "error", "failed", "timeout"}
  BY <1>1, <1>3, <1>4 DEF IInv, Books
<1>6. outcome[Line.id] = "none"
  BY <1>3, <1>5 DEF IInv, TypeOK
<1>7. Line.id \in pending
  BY <1>2, <1>3, <1>6 DEF IInv, Books
<1>8. ASSUME Line.kind # "response" PROVE asked[Line.id].method = "speech.synthesize"
  BY <1>1, <1>8 DEF IInv, Service!Orderly, Service!OnlyAsked, Service!Method, Service!IsResponse
<1> QED BY <1>7, <1>8 DEF IInv, Books

\* Unless a request timed out, every line is one the handlers expect.
LEMMA LineExpected ==
  ASSUME IInv, ReadLine, log' = log, \A id \in Ids : outcome[id] # "timeout"
  PROVE  /\ Line.kind = "response" => ResponseExpected
         /\ Line.kind = "started" => Line.id \in DOMAIN streams /\ ~streams[Line.id].started
         /\ Line.kind = "audio" => AudioExpected
<1>1. /\ received' = received + 1 /\ received < Len(log) /\ received \in Nat
      /\ received' \in DOMAIN log /\ Line = log[received'] /\ Line \in Message
      /\ DOMAIN log = 1 .. Len(log) /\ Len(log) \in Nat
  BY Reads, Bounds
<1>2. Line.id \in pending /\ (Line.kind # "response" => Line.id \in DOMAIN streams)
  BY LineNamesPending
<1>3. \A j \in 1 .. (received' - 1) : j \in 1 .. received /\ j \in DOMAIN log /\ j < received'
  BY <1>1
<1>4. \A j \in 1 .. received : j \in DOMAIN log /\ j < received'
  BY <1>1
<1>5. ASSUME Line.kind = "response" PROVE ResponseExpected
  <2>1. ASSUME IsResult(Line.body) PROVE ResultFits(Line.id, Line.body)
    BY <1>1, <1>5, <2>1 DEF IInv, Service!Orderly, Service!ResultSuits, Service!IsResponse,
       Service!Method, IsResult, ResultFits
  <2>2. ASSUME IsResult(Line.body), Line.id \in DOMAIN streams PROVE streams[Line.id].started
    <3>1. asked[Line.id].method = "speech.synthesize"
      BY <2>2 DEF IInv, Books
    <3>2. Line.body = "ok"
      BY <2>1, <2>2, <3>1 DEF IsResult, ResultFits
    <3>3. PICK j \in 1 .. (received' - 1) : Service!IsStart(j) /\ log[j].id = Line.id
      BY <1>1, <1>5, <3>1, <3>2 DEF IInv, Service!Orderly, Service!ResultSuits,
         Service!IsResponse,
         Service!Method
    <3>4. Began(Line.id)
      BY <1>3, <3>3 DEF Began, IsStart, Service!IsStart
    <3> QED BY <2>2, <3>4 DEF IInv, Streaming
  <2> QED BY <1>2, <2>1, <2>2 DEF ResponseExpected
<1>6. ASSUME Line.kind = "started" PROVE Line.id \in DOMAIN streams /\ ~streams[Line.id].started
  <2>1. ~Began(Line.id)
    BY <1>1, <1>4, <1>6 DEF IInv, Service!Orderly, Service!StartIsFirst, Service!IsStart, Began
  <2> QED BY <1>2, <1>6, <2>1 DEF IInv, Streaming
<1>7. ASSUME Line.kind = "audio" PROVE AudioExpected
  <2> DEFINE next == streams[Line.id].nextSequence
  <2>1. Line.id \in DOMAIN streams /\ next \in Nat /\ Line.sequence \in Nat
    BY <1>1, <1>2, <1>7 DEF IInv, TypeOK, Message
  <2>2. streams[Line.id].started
    <3>1. PICK j \in 1 .. (received' - 1) : Service!IsStart(j) /\ log[j].id = Line.id
      BY <1>1, <1>7 DEF IInv, Service!Orderly, Service!StartIsFirst, Service!IsAudio
    <3>2. Began(Line.id)
      BY <1>3, <3>1 DEF Began, IsStart, Service!IsStart
    <3> QED BY <2>1, <3>2 DEF IInv, Streaming
  <2>3. \A k \in DOMAIN log :
          log[k].kind = "audio" /\ log[k].id = Line.id =>
            (k <= received <=> log[k].sequence < next)
    BY <2>1 DEF IInv, Streaming, IsAudio
  <2>4. ~(Line.sequence < next)
    BY <1>1, <1>7, <2>3
  <2>5. ~(next < Line.sequence)
    <3> SUFFICES ASSUME next < Line.sequence PROVE FALSE
      OBVIOUS
    <3>1. PICK j \in 1 .. (received' - 1) :
            /\ Service!IsAudio(j) /\ log[j].id = Line.id
            /\ log[j].sequence = Line.sequence - 1
      BY <1>1, <1>7, <2>1 DEF IInv, Service!Orderly, Service!AudioIsNumbered, Service!IsAudio
    <3>2. log[j].sequence < next
      BY <1>1, <1>3, <2>3, <3>1 DEF Service!IsAudio
    <3> QED BY <2>1, <3>1, <3>2
  <2> QED BY <2>1, <2>2, <2>4, <2>5 DEF AudioExpected
<1> QED BY <1>5, <1>6, <1>7

\* So a protocol failure needs a timeout.
LEMMA FailureStep ==
  ASSUME IInv, ReadLine, ProtocolFailure, \E id \in Ids : outcome[id] = "timeout"
  PROVE  IInv'
<1>1. /\ UNCHANGED <<asked, log, current, outputClosed, child, piped, closeSeen, heard, spawning, shutdown,
                     shutdownId, stdinEnded>>
      /\ closed' = TRUE /\ failure' = "protocol" /\ FailAll(pending) /\ Terminate
  BY DEF ProtocolFailure, Abort, engineVars, callVars
<1>2. /\ received' = received + 1 /\ received < Len(log) /\ received' \in 0 .. Len(log)
      /\ child = "dead" => received' <= piped
  BY Reads
<1>3. Service!Orderly'
  BY <1>1, ServiceRests DEF IInv
<1>4. /\ Books' /\ Streaming' /\ Counting'
      /\ outcome' \in [Ids -> {"none", "result", "error", "timeout", "failed"}]
      /\ DOMAIN streams' = {} /\ pending' = {}
      /\ \A id \in Ids : outcome[id] = "timeout" => outcome'[id] = "timeout"
  <2>1. /\ asked' \in Seq(Frame) /\ Len(asked') <= MaxRequests /\ pending \subseteq DOMAIN asked
        /\ \A id \in DOMAIN asked' : asked'[id].fault = "none"
    BY <1>1 DEF IInv, TypeOK, Books
  <2> QED BY <1>1, <1>2, <2>1, GiveUp
<1>5. TypeOK' /\ Pipe' /\ Told' /\ Reasons'
  <2>1. TypeOK'
    BY <1>1, <1>2, <1>4 DEF IInv, TypeOK, Terminate
  <2>2. Pipe'
    BY <1>1, <1>2 DEF IInv, Pipe
  <2>3. Told'
    BY <1>1 DEF IInv, TypeOK, Told, Terminate
  <2>4. Reasons'
    BY <1>1, <1>4 DEF Reasons
  <2> QED BY <2>1, <2>2, <2>3, <2>4
<1> QED BY <1>3, <1>4, <1>5 DEF IInv

\* What handling an expected line leaves alone.
LEMMA LineRests ==
  ASSUME IInv, ReadLine, LineHandled
  PROVE  /\ UNCHANGED <<asked, log, current, outputClosed, child, piped, signal, closed, failure, closeSeen,
                        spawning, shutdown, shutdownId, stdinEnded>>
         /\ Service!Orderly' /\ Pipe' /\ Told'
<1>1. UNCHANGED <<asked, log, current, outputClosed, child, piped, signal, closed, failure, closeSeen,
                  spawning, shutdown, shutdownId, stdinEnded>>
  BY DEF LineHandled, engineVars, childVars, callVars
<1>2. Service!Orderly'
  BY <1>1, ServiceRests DEF IInv
<1>3. Pipe' /\ Told'
  BY <1>1, Reads DEF IInv, Pipe, Told
<1> QED BY <1>1, <1>2, <1>3

\* A response settles its request: from now on it has been read.
LEMMA ResponseStep == ASSUME IInv, HandleResponse PROVE IInv'
<1>1. ReadLine /\ Line.kind = "response"
  BY DEF HandleResponse
<1>2. /\ ~closed /\ failure = "none" /\ received' = received + 1 /\ received < Len(log)
      /\ received' \in DOMAIN log /\ received' \in 0 .. Len(log) /\ Line = log[received']
  BY <1>1, Reads
<1>3. CASE ResponseExpected
  <2> DEFINE id == Line.id
             how == IF IsResult(Line.body) THEN "result" ELSE "error"
  <2>1. /\ id \in pending /\ pending' = pending \ {id} /\ streams' = Drop(id) /\ heard' = heard
        /\ outcome' = [outcome EXCEPT ![id] = how] /\ how \in {"result", "error"}
    BY <1>3 DEF HandleResponse, ResponseExpected, Settle
  <2>2. /\ UNCHANGED <<asked, log, current, outputClosed, child, piped, signal, closed, failure, closeSeen,
                       spawning, shutdown, shutdownId, stdinEnded>>
        /\ Service!Orderly' /\ Pipe' /\ Told'
    BY <1>1, <1>3, LineRests DEF HandleResponse
  <2>3. id \in Ids /\ log[received'].id = id /\ IsResponse(received')
    <3>1. id \in DOMAIN asked
      BY <2>1 DEF IInv, TypeOK
    <3> QED BY <3>1, <1>1, <1>2, Bounds DEF IsResponse
  <2> HIDE DEF id, how
  <2>4. /\ outcome' \in [Ids -> {"none", "result", "error", "timeout", "failed"}]
        /\ \A i \in Ids : i # id => outcome'[i] = outcome[i]
        /\ outcome'[id] = how /\ outcome[id] = "none"
    BY <2>1, <2>3 DEF IInv, TypeOK, Books
  <2>5. /\ DOMAIN streams' = DOMAIN streams \ {id}
        /\ streams' = [i \in DOMAIN streams' |-> streams'[i]]
        /\ \A i \in DOMAIN streams' : streams'[i] = streams[i]
    BY <2>1 DEF Drop
  <2>6. /\ 1 .. received' = (1 .. received) \cup {received'} /\ received' \notin 1 .. received
    BY <1>2, <2>2, NextLine
  <2>7. /\ \A i : Got(i)' = (Got(i) \/ i = id)
        /\ \A i : Began(i)' = Began(i)
        /\ \A i : Chunks(i)' = Chunks(i)
    <3>1. \A k : IsResponse(k)' = IsResponse(k) /\ IsStart(k)' = IsStart(k) /\ IsAudio(k)' = IsAudio(k)
      BY <2>2 DEF IsResponse, IsStart, IsAudio
    <3>2. ~IsStart(received') /\ ~IsAudio(received')
      BY <2>3 DEF IsResponse, IsStart, IsAudio
    <3>3. \A i : Got(i)' = (Got(i) \/ i = id)
      BY <2>2, <2>3, <2>6, <3>1 DEF Got
    <3>4. \A i : Began(i)' = Began(i)
      BY <2>2, <2>6, <3>1, <3>2 DEF Began
    <3>5. \A i : Chunks(i)' = Chunks(i)
      BY <2>2, <2>6, <3>1, <3>2 DEF Chunks
    <3> QED BY <3>3, <3>4, <3>5
  <2>8. TypeOK'
    BY <1>2, <2>1, <2>2, <2>4, <2>5 DEF IInv, TypeOK
  <2>9. Books'
    <3>1. DOMAIN streams' = {i \in pending' : asked[i].method = "speech.synthesize"}
      BY <2>1, <2>5 DEF IInv, Books
    <3>2. ASSUME NEW i \in Ids
          PROVE  /\ i \in pending' => outcome'[i] = "none" /\ ~Got(i)'
                 /\ outcome'[i] = "none" /\ i \in DOMAIN asked => i \in pending'
                 /\ outcome'[i] \in {"result", "error"} => Got(i)'
                 /\ outcome'[i] # "failed"
                 /\ i \notin DOMAIN asked => outcome'[i] = "none"
      <4>1. CASE i = id
        <5>1. id \in DOMAIN asked
          BY <2>1 DEF IInv, TypeOK
        <5> QED BY <4>1, <5>1, <2>1, <2>4, <2>7
      <4>2. CASE i # id
        BY <4>2, <1>2, <2>1, <2>4, <2>7 DEF IInv, Books
      <4> QED BY <4>1, <4>2
    <3> QED BY <1>2, <2>2, <2>5, <3>1, <3>2 DEF IInv, Books
  <2>10. Streaming'
    <3>1. ASSUME NEW i \in DOMAIN streams', NEW k \in DOMAIN log, IsAudio(k), log[k].id = i
          PROVE  k <= received' <=> log[k].sequence < streams[i].nextSequence
      <4>1. k # received'
        BY <2>3, <3>1 DEF IsAudio, IsResponse
      <4>2. k <= received' <=> k <= received
        BY <4>1, <1>2, Bounds
      <4> QED BY <2>5, <3>1, <4>2 DEF IInv, Streaming
    <3> QED BY <2>2, <2>5, <2>7, <3>1 DEF IInv, Streaming, IsAudio
  <2>11. Counting'
    BY <2>1, <2>4, <2>7 DEF IInv, Counting
  <2>12. Reasons'
    BY <1>2, <2>2 DEF IInv, Reasons
  <2> QED BY <2>2, <2>8, <2>9, <2>10, <2>11, <2>12 DEF IInv
<1>4. CASE ~ResponseExpected
  <2>1. ProtocolFailure
    BY <1>4 DEF HandleResponse
  <2>2. log' = log
    BY <2>1 DEF ProtocolFailure, engineVars
  <2>3. \E id \in Ids : outcome[id] = "timeout"
    BY <1>1, <1>4, <2>2, LineExpected
  <2> QED BY <1>1, <2>1, <2>3, FailureStep
<1> QED BY <1>3, <1>4

\* speech.started starts its stream.
LEMMA StartedStep == ASSUME IInv, HandleStarted PROVE IInv'
<1>1. ReadLine /\ Line.kind = "started"
  BY DEF HandleStarted
<1>2. /\ ~closed /\ failure = "none" /\ received' = received + 1 /\ received < Len(log)
      /\ received' \in DOMAIN log /\ received' \in 0 .. Len(log) /\ Line = log[received']
  BY <1>1, Reads
<1>3. CASE Line.id \in DOMAIN streams /\ ~streams[Line.id].started
  <2>0. PICK id : id = Line.id
    OBVIOUS
  <2>1. /\ id \in DOMAIN streams /\ UNCHANGED <<pending, outcome, heard>>
        /\ streams' = [streams EXCEPT ![id].started = TRUE]
    BY <1>3, <2>0 DEF HandleStarted
  <2>2. /\ UNCHANGED <<asked, log, current, outputClosed, child, piped, signal, closed, failure, closeSeen,
                       spawning, shutdown, shutdownId, stdinEnded>>
        /\ Service!Orderly' /\ Pipe' /\ Told'
    BY <1>1, <1>3, LineRests DEF HandleStarted
  <2>3. log[received'].id = id /\ IsStart(received')
    BY <1>1, <1>2, <2>0 DEF IsStart
  <2>4. /\ DOMAIN streams' = DOMAIN streams
        /\ streams' = [i \in DOMAIN streams' |-> streams'[i]]
        /\ \A i \in DOMAIN streams :
             /\ streams'[i] \in [started : BOOLEAN, nextSequence : Nat]
             /\ streams'[i].nextSequence = streams[i].nextSequence
             /\ streams'[i].started = (streams[i].started \/ i = id)
    <3>1. streams = [i \in DOMAIN streams |-> streams[i]]
      BY DEF IInv, Books
    <3>2. \A i \in DOMAIN streams : streams[i] \in [started : BOOLEAN, nextSequence : Nat]
      BY DEF IInv, TypeOK
    <3>3. streams' = [i \in DOMAIN streams |->
                       IF i = id THEN [streams[i] EXCEPT !.started = TRUE] ELSE streams[i]]
      BY <2>1, <3>1
    <3> QED BY <3>2, <3>3
  <2>5. /\ 1 .. received' = (1 .. received) \cup {received'} /\ received' \notin 1 .. received
    BY <1>2, <2>2, NextLine
  <2>6. /\ \A i : Got(i)' = Got(i)
        /\ \A i : Began(i)' = (Began(i) \/ i = id)
        /\ \A i : Chunks(i)' = Chunks(i)
    <3>1. \A k : IsResponse(k)' = IsResponse(k) /\ IsStart(k)' = IsStart(k) /\ IsAudio(k)' = IsAudio(k)
      BY <2>2 DEF IsResponse, IsStart, IsAudio
    <3>2. ~IsResponse(received') /\ ~IsAudio(received')
      BY <2>3 DEF IsResponse, IsStart, IsAudio
    <3>3. \A i : Got(i)' = Got(i)
      BY <2>2, <2>5, <3>1, <3>2 DEF Got
    <3>4. \A i : Began(i)' = (Began(i) \/ i = id)
      BY <2>2, <2>3, <2>5, <3>1 DEF Began
    <3>5. \A i : Chunks(i)' = Chunks(i)
      BY <2>2, <2>5, <3>1, <3>2 DEF Chunks
    <3> QED BY <3>3, <3>4, <3>5
  <2>7. TypeOK'
    BY <1>2, <2>1, <2>2, <2>4 DEF IInv, TypeOK
  <2>8. Books'
    BY <2>1, <2>2, <2>4, <2>6 DEF IInv, Books
  <2>9. Streaming'
    <3>1. ASSUME NEW i \in DOMAIN streams, NEW k \in DOMAIN log, IsAudio(k), log[k].id = i
          PROVE  k <= received' <=> log[k].sequence < streams[i].nextSequence
      <4>1. k # received'
        BY <2>3, <3>1 DEF IsAudio, IsStart
      <4>2. k <= received' <=> k <= received
        BY <4>1, <1>2, Bounds
      <4> QED BY <3>1, <4>2 DEF IInv, Streaming
    <3> QED BY <2>2, <2>4, <2>6, <3>1 DEF IInv, Streaming, IsAudio
  <2>10. Counting' /\ Reasons'
    BY <1>2, <2>1, <2>2, <2>6 DEF IInv, Counting, Reasons
  <2> QED BY <2>2, <2>7, <2>8, <2>9, <2>10 DEF IInv
<1>4. CASE ~(Line.id \in DOMAIN streams /\ ~streams[Line.id].started)
  <2>1. ProtocolFailure
    BY <1>4 DEF HandleStarted
  <2>2. log' = log
    BY <2>1 DEF ProtocolFailure, engineVars
  <2>3. \E id \in Ids : outcome[id] = "timeout"
    BY <1>1, <1>4, <2>2, LineExpected
  <2> QED BY <1>1, <2>1, <2>3, FailureStep
<1> QED BY <1>3, <1>4

\* A chunk moves its stream on by one, and is heard.
LEMMA AudioStep == ASSUME IInv, HandleAudio PROVE IInv'
<1>1. ReadLine /\ Line.kind = "audio"
  BY DEF HandleAudio
<1>2. /\ ~closed /\ failure = "none" /\ received' = received + 1 /\ received < Len(log)
      /\ received' \in DOMAIN log /\ received' \in 0 .. Len(log) /\ Line = log[received']
  BY <1>1, Reads
<1>3. CASE AudioExpected
  <2>0. PICK id : id = Line.id
    OBVIOUS
  <2>1. /\ id \in DOMAIN streams /\ UNCHANGED <<pending, outcome>>
        /\ streams[id].started /\ streams[id].nextSequence = log[received'].sequence
        /\ streams' = [streams EXCEPT ![id].nextSequence = @ + 1]
        /\ heard' = [heard EXCEPT ![id] = @ + 1]
    BY <1>2, <1>3, <2>0 DEF HandleAudio, AudioExpected
  <2>2. /\ UNCHANGED <<asked, log, current, outputClosed, child, piped, signal, closed, failure, closeSeen,
                       spawning, shutdown, shutdownId, stdinEnded>>
        /\ Service!Orderly' /\ Pipe' /\ Told'
    BY <1>1, <1>3, LineRests DEF HandleAudio
  <2>3. log[received'].id = id /\ IsAudio(received') /\ id \in Ids
    <3>1. id \in DOMAIN asked
      BY <2>1 DEF IInv, TypeOK
    <3> QED BY <3>1, <1>1, <1>2, <2>0, Bounds DEF IsAudio
  <2>4. /\ DOMAIN streams' = DOMAIN streams
        /\ streams' = [i \in DOMAIN streams' |-> streams'[i]]
        /\ \A i \in DOMAIN streams :
             /\ streams'[i] \in [started : BOOLEAN, nextSequence : Nat]
             /\ streams[i].nextSequence \in Nat
             /\ streams'[i].started = streams[i].started
             /\ i # id => streams'[i].nextSequence = streams[i].nextSequence
        /\ streams'[id].nextSequence = streams[id].nextSequence + 1
    <3>1. streams = [i \in DOMAIN streams |-> streams[i]]
      BY DEF IInv, Books
    <3>2. \A i \in DOMAIN streams : streams[i] \in [started : BOOLEAN, nextSequence : Nat]
      BY DEF IInv, TypeOK
    <3>3. streams' = [i \in DOMAIN streams |->
                       IF i = id THEN [streams[i] EXCEPT !.nextSequence = @ + 1] ELSE streams[i]]
      BY <2>1, <3>1
    <3>4. DOMAIN streams' = DOMAIN streams /\ streams' = [i \in DOMAIN streams' |-> streams'[i]]
      BY <3>3
    <3>5. /\ \A i \in DOMAIN streams : i # id => streams'[i] = streams[i]
          /\ streams'[id] = [streams[id] EXCEPT !.nextSequence = @ + 1]
      BY <2>1, <3>3
    <3>6. \A i \in DOMAIN streams : streams[i].nextSequence \in Nat
      BY <3>2
    <3>7. /\ streams'[id] \in [started : BOOLEAN, nextSequence : Nat]
          /\ streams'[id].started = streams[id].started
          /\ streams'[id].nextSequence = streams[id].nextSequence + 1
      <4>1. streams[id] \in [started : BOOLEAN, nextSequence : Nat]
        BY <2>1, <3>2
      <4>2. streams[id].nextSequence + 1 \in Nat
        BY <4>1
      <4>3. [streams[id] EXCEPT !.nextSequence = @ + 1] =
              [started |-> streams[id].started, nextSequence |-> streams[id].nextSequence + 1]
        BY <4>1
      <4> QED BY <3>5, <4>1, <4>2, <4>3
    <3> QED BY <3>2, <3>4, <3>5, <3>6, <3>7
  <2>5. /\ 1 .. received' = (1 .. received) \cup {received'} /\ received' \notin 1 .. received
    BY <1>2, <2>2, NextLine
  <2>6. /\ \A i : Got(i)' = Got(i)
        /\ \A i : Began(i)' = Began(i)
        /\ \A i : i # id => Chunks(i)' = Chunks(i)
        /\ Chunks(id)' = Chunks(id) \cup {received'}
    <3>1. \A k : IsResponse(k)' = IsResponse(k) /\ IsStart(k)' = IsStart(k) /\ IsAudio(k)' = IsAudio(k)
      BY <2>2 DEF IsResponse, IsStart, IsAudio
    <3>2. ~IsResponse(received') /\ ~IsStart(received')
      BY <2>3 DEF IsResponse, IsStart, IsAudio
    <3>3. \A i : Got(i)' = Got(i)
      BY <2>2, <2>5, <3>1, <3>2 DEF Got
    <3>4. \A i : Began(i)' = Began(i)
      BY <2>2, <2>5, <3>1, <3>2 DEF Began
    <3>5. \A i : i # id => Chunks(i)' = Chunks(i)
      BY <2>2, <2>3, <2>5, <3>1 DEF Chunks
    <3>6. Chunks(id)' = Chunks(id) \cup {received'}
      BY <2>2, <2>3, <2>5, <3>1 DEF Chunks
    <3> QED BY <3>3, <3>4, <3>5, <3>6
  <2>7. /\ heard' \in [Ids -> Nat] /\ heard[id] \in Nat /\ heard'[id] = heard[id] + 1
        /\ \A i \in Ids : i # id => heard'[i] = heard[i]
    BY <2>1, <2>3 DEF IInv, TypeOK
  <2>8. TypeOK'
    BY <1>2, <2>1, <2>2, <2>4, <2>7 DEF IInv, TypeOK
  <2>9. Books'
    BY <2>1, <2>2, <2>4, <2>6 DEF IInv, Books
  <2>10. Streaming'
    <3>1. ASSUME NEW i \in DOMAIN streams, i # id, NEW k \in DOMAIN log, IsAudio(k), log[k].id = i
          PROVE  k <= received' <=> log[k].sequence < streams[i].nextSequence
      <4>1. k <= received' <=> k <= received
        BY <2>3, <3>1, <1>2, Bounds
      <4> QED BY <3>1, <4>1 DEF IInv, Streaming
    <3>2. ASSUME NEW k \in DOMAIN log, IsAudio(k), log[k].id = id
          PROVE  k <= received' <=> log[k].sequence < streams'[id].nextSequence
      <4>1. log[k] \in Message /\ log[received'] \in Message
        BY <1>2, Bounds
      <4>2. log[k].sequence \in Nat /\ log[received'].sequence \in Nat
        BY <4>1 DEF Message
      <4>3. /\ k < received' => log[k].sequence < log[received'].sequence
            /\ received' < k => log[received'].sequence < log[k].sequence
        BY <1>2, <2>3, <3>2 DEF IInv, Service!Orderly, Service!AudioIsNumbered, Service!IsAudio,
           IsAudio
      <4>4. k \in Nat /\ received' \in Nat
        BY <1>2, Bounds
      <4>5. streams'[id].nextSequence = log[received'].sequence + 1
        BY <2>1, <2>4
      <4> QED BY <4>2, <4>3, <4>4, <4>5
    <3>3. received' \in Chunks(id)' /\ log[received'].sequence = streams'[id].nextSequence - 1
      <4>1. log[received'].sequence \in Nat
        BY <2>1, <2>4
      <4> QED BY <4>1, <2>1, <2>4, <2>6
    <3>4. ASSUME NEW i \in DOMAIN streams, i # id, streams[i].nextSequence > 0
          PROVE  \E k \in Chunks(i) : log[k].sequence = streams[i].nextSequence - 1
      BY <3>4 DEF IInv, Streaming
    <3>5. \A i \in DOMAIN streams : streams[i].started <=> Began(i)
      BY DEF IInv, Streaming
    <3>6. ASSUME NEW i \in DOMAIN streams'
          PROVE  /\ streams'[i].started <=> Began(i)'
                 /\ \A k \in DOMAIN log' :
                      IsAudio(k)' /\ log'[k].id = i =>
                        (k <= received' <=> log'[k].sequence < streams'[i].nextSequence)
                 /\ streams'[i].nextSequence > 0 =>
                      \E k \in Chunks(i)' : log'[k].sequence = streams'[i].nextSequence - 1
      <4>1. CASE i = id
        BY <4>1, <2>2, <2>4, <2>6, <3>2, <3>3, <3>5, <3>6 DEF IsAudio
      <4>2. CASE i # id
        BY <4>2, <2>2, <2>4, <2>6, <3>1, <3>4, <3>5, <3>6 DEF IsAudio
      <4> QED BY <4>1, <4>2
    <3> QED BY <3>6 DEF Streaming
  <2>11. Counting'
    <3>1. Cardinality(Chunks(id)') = Cardinality(Chunks(id)) + 1
      <4>1. IsFiniteSet(Chunks(id))
        <5>1. IsFiniteSet(1 .. received)
          BY Bounds, FS_Interval
        <5> QED BY <5>1, FS_Subset DEF Chunks
      <4>2. received' \notin Chunks(id)
        BY <2>5 DEF Chunks
      <4> QED BY <2>6, <4>1, <4>2, FS_AddElement
    <3>2. outcome[id] = "none" /\ heard[id] = Cardinality(Chunks(id))
      BY <2>1, <2>3 DEF IInv, TypeOK, Books, Counting
    <3> QED BY <2>1, <2>6, <2>7, <3>1, <3>2 DEF IInv, Counting
  <2>12. Reasons'
    BY <1>2, <2>1, <2>2 DEF IInv, Reasons
  <2> QED BY <2>2, <2>8, <2>9, <2>10, <2>11, <2>12 DEF IInv
<1>4. CASE ~AudioExpected
  <2>1. ProtocolFailure
    BY <1>4 DEF HandleAudio
  <2>2. log' = log
    BY <2>1 DEF ProtocolFailure, engineVars
  <2>3. \E id \in Ids : outcome[id] = "timeout"
    BY <1>1, <1>4, <2>2, LineExpected
  <2> QED BY <1>1, <2>1, <2>3, FailureStep
<1> QED BY <1>3, <1>4

-----------------------------------------------------------------------------
(* spawn, shutdown and the timers.                                         *)

\* They leave the requests alone; who returns has told the child.
LEMMA CallStep ==
  ASSUME IInv,
         UNCHANGED <<asked, log, current, outputClosed, child, piped, received, pending, streams, closed,
                     failure, outcome, closeSeen, heard, shutdownId>>,
         stdinEnded' \in BOOLEAN,
         spawning' \in {"initialize", "terminating", "failed", "done"},
         shutdown' \in {"none", "asked", "observing", "terminating", "done", "failed"},
         signal' = signal \/ signal' \in {"term", "kill"},
         \/ child = "dead" \/ closed
         \/ /\ shutdown' \in {"done", "failed"} => shutdown' = shutdown
            /\ spawning' = "failed" => spawning' = spawning
  PROVE  IInv'
<1>1. Service!Orderly'
  BY ServiceRests DEF IInv
<1>2. TypeOK' /\ Pipe' /\ Told'
  BY DEF IInv, TypeOK, Pipe, Told
<1>3. Books' /\ Counting'
  BY DEF IInv, Books, Counting, Got, Chunks, IsResponse, IsAudio
<1>4. Streaming'
  BY DEF IInv, Streaming, Began, Chunks, IsStart, IsAudio
<1>5. Reasons'
  BY DEF IInv, Reasons, IsResponse
<1> QED BY <1>1, <1>2, <1>3, <1>4, <1>5 DEF IInv

\* spawn() after its initialize was settled.
LEMMA SpawnStep == ASSUME IInv, SpawnContinues \/ SpawnEnds PROVE IInv'
<1>1. /\ UNCHANGED <<asked, log, current, outputClosed, child, piped, received, pending, streams, closed,
                     failure, outcome, closeSeen, heard, shutdown, shutdownId, stdinEnded>>
      /\ spawning' \in {"terminating", "failed", "done"}
      /\ signal' = signal \/ signal' = "term"
      /\ spawning' = "failed" => child = "dead"
  BY DEF SpawnContinues, SpawnEnds, engineVars, childVars, sessionVars, Terminate,
     TerminateReturns,
         IInv, Pipe
<1> QED BY <1>1, CallStep DEF IInv, TypeOK

\* shutdown() from its early return to its end.
LEMMA ShutdownStep ==
  ASSUME IInv, ShutdownFindsClosed \/ ShutdownAnswered \/ ShutdownFails \/ ShutdownEnds
  PROVE  IInv'
<1>1. /\ UNCHANGED <<asked, log, current, outputClosed, child, piped, received, pending, streams, closed,
                     failure, outcome, closeSeen, heard, spawning, shutdownId>>
      /\ shutdown' \in {"observing", "terminating", "failed", "done"}
      /\ signal' = signal \/ signal' = "term"
      /\ stdinEnded' = stdinEnded \/ stdinEnded' = TRUE
      /\ shutdown' \in {"done", "failed"} => child = "dead" \/ closed
  BY DEF ShutdownFindsClosed, ShutdownAnswered, ShutdownFails, ShutdownEnds, engineVars,
     childVars,
         sessionVars, Terminate, TerminateReturns, IInv, Pipe
<1> QED BY <1>1, CallStep DEF IInv, TypeOK

\* The timers only send a signal.
LEMMA TimerStep == ASSUME IInv, SigtermTimer \/ SigkillTimer PROVE IInv'
<1>1. /\ UNCHANGED <<asked, log, current, outputClosed, child, piped, received, pending, streams, closed,
                     failure, outcome, closeSeen, heard, spawning, shutdown, shutdownId, stdinEnded>>
      /\ signal' \in {"term", "kill"}
  BY DEF SigtermTimer, SigkillTimer, engineVars, sessionVars, callVars
<1> QED BY <1>1, CallStep DEF IInv, TypeOK

-----------------------------------------------------------------------------
(* The invariant and the theorems.                                         *)

\* Every step of the client and of its child keeps the invariant.
LEMMA StepHolds == ASSUME IInv, [Next]_vars PROVE IInv'
<1>1. CASE UNCHANGED vars
  BY <1>1, CallStep DEF vars, engineVars, childVars, sessionVars, callVars, IInv, TypeOK
<1>2. CASE Child
  BY <1>2, EngineStep, ChildEnds, StartFailsStep DEF Child
<1>3. CASE SpawnRequests
  BY <1>3, RequestStep DEF SpawnRequests, callVars, Methods
<1>4. CASE User
  <2>1. ASSUME NEW method \in Asks, UserRequests(method) PROVE IInv'
    BY <2>1, RequestStep, ClientAssumption DEF UserRequests, callVars
  <2>2. ASSUME NEW method \in Asks, UserRequestsTooLate(method) PROVE IInv'
    BY <2>2, TooLateStep, ClientAssumption
  <2>3. CASE ShutdownStarts
    BY <2>3, RequestStep DEF ShutdownStarts, Methods
  <2>4. CASE ShutdownFindsClosed
    BY <2>4, ShutdownStep
  <2> QED BY <1>4, <2>1, <2>2, <2>3, <2>4 DEF User
<1>5. CASE Events
  BY <1>5, ResponseStep, StartedStep, AudioStep, StdinStep, CloseStep, SpawnStep, ShutdownStep
     DEF Events
<1>6. CASE Timers
  BY <1>6, TimerStep, TimeoutStep DEF Timers
<1>7. CASE Over
  BY <1>7, <1>1 DEF Over
<1> QED BY <1>1, <1>2, <1>3, <1>4, <1>5, <1>6, <1>7 DEF Next

\* The inductive invariant holds throughout.
LEMMA Invariance == Spec => []IInv
BY InitHolds, StepHolds, PTL DEF Spec

\* The maps and counters of the client have their types, whatever the child says.
THEOREM ClientTypes == Spec => []TypeOK
<1>1. IInv => TypeOK
  BY DEF IInv
<1> QED BY <1>1, Invariance, PTL

\* The client's handlers accept every order of messages that an engine keeping
\* EngineService may choose: the session is called a protocol failure only after
\* a request of the client's own timed out.
THEOREM NoFailureTheorem == Spec => []NoFailureWithoutTimeout
<1>1. IInv => NoFailureWithoutTimeout
  BY DEF IInv, Reasons, NoFailureWithoutTimeout
<1> QED BY <1>1, Invariance, PTL

\* A synthesis that resolved has delivered every chunk to onAudio: none is said
\* after the response, and all before it were read.
THEOREM HeardTheorem == Spec => []HeardEverything
<1>1. ASSUME IInv, NEW id \in Ids, outcome[id] = "result"
      PROVE  heard[id] = Cardinality({k \in DOMAIN log : log[k].kind = "audio" /\ log[k].id = id})
  <2>1. heard[id] = Cardinality(Chunks(id)) /\ Got(id)
    BY <1>1 DEF IInv, Books, Counting
  <2>2. PICK j \in 1 .. received : IsResponse(j) /\ log[j].id = id
    BY <2>1 DEF Got
  <2>3. \A k \in DOMAIN log : log[k].id = id => ~(j < k)
    <3>1. id # Service!NoId /\ j \in DOMAIN log
      BY <1>1, Bounds DEF Ids, Service!NoId
    <3> QED BY <1>1, <2>2, <3>1 DEF IInv, Service!Orderly, Service!ResponseIsLast, Service!IsResponse,
            IsResponse
  <2>4. \A k \in DOMAIN log : log[k].id = id => k \in 1 .. received
    BY <1>1, <2>2, <2>3, Bounds
  <2>5. Chunks(id) = {k \in DOMAIN log : log[k].kind = "audio" /\ log[k].id = id}
    BY <1>1, <2>4, Bounds DEF Chunks, IsAudio
  <2> QED BY <2>1, <2>5
<1>2. IInv => HeardEverything
  BY <1>1 DEF HeardEverything
<1> QED BY <1>2, Invariance, PTL

\* An engine that has answered and exits does not lose the answer: a request is
\* rejected with the exit only if no answer was in the pipe.
THEOREM ExitTheorem == Spec => []ExitLosesNoAnswer
<1>1. ASSUME IInv, failure = "exit", NEW id \in Ids, outcome[id] = "failed"
      PROVE  id \notin Answered(SubSeq(log, 1, piped))
  <2>1. \A k \in 1 .. piped : IsResponse(k) => log[k].id # id
    BY <1>1 DEF IInv, Reasons
  <2>2. /\ DOMAIN SubSeq(log, 1, piped) = 1 .. piped
        /\ \A k \in 1 .. piped : SubSeq(log, 1, piped)[k] = log[k]
    BY <1>1, Bounds DEF IInv, Pipe, TypeOK
  <2> QED BY <2>1, <2>2 DEF Answered, IsResponse
<1>2. IInv => ExitLosesNoAnswer
  BY <1>1 DEF ExitLosesNoAnswer
<1> QED BY <1>2, Invariance, PTL

\* No caller of spawn() or shutdown() is left with an engine process that nobody
\* has told to end.
THEOREM NobodyTheorem == Spec => []NobodyLeftBehind
<1>1. IInv => NobodyLeftBehind
  BY DEF IInv, Told, NobodyLeftBehind
<1> QED BY <1>1, Invariance, PTL

-----------------------------------------------------------------------------
\* What happens to a request that is settled: nothing that its caller notices.
Final == \A id \in Ids :
  outcome[id] # "none" => outcome'[id] = outcome[id] /\ heard'[id] = heard[id]

\* Whoever gives up the session rejects the requests that wait, and no others.
LEMMA FailAllFinal ==
  ASSUME IInv, NEW ids, FailAll(ids), ids \subseteq pending \cup {NextId}, heard' = heard
  PROVE  Final
<1>1. \A id \in Ids \cap ids : outcome[id] = "none"
  BY NextId \notin DOMAIN asked DEF IInv, Books, TypeOK, NextId
<1> QED BY <1>1 DEF FailAll, Final

\* A request that is settled by itself was waiting.
LEMMA SettleFinal ==
  ASSUME IInv, NEW id \in pending, NEW how, Settle(id, how), heard' = heard
  PROVE  Final
<1>1. outcome[id] = "none" /\ outcome \in [Ids -> {"none", "result", "error", "timeout", "failed"}]
  BY Bounds DEF IInv, Books, TypeOK
<1> QED BY <1>1 DEF Settle, Final

\* The handlers of the lines: a line that is expected is about a request that waits.
LEMMA HandlersFinal ==
  ASSUME IInv, HandleResponse \/ HandleStarted \/ HandleAudio
  PROVE  Final
<1>1. CASE ProtocolFailure
  BY <1>1, FailAllFinal DEF ProtocolFailure, Abort
<1>2. CASE HandleResponse /\ ResponseExpected
  BY <1>2, SettleFinal DEF HandleResponse, ResponseExpected
<1>3. CASE HandleStarted /\ ~ProtocolFailure
  BY <1>3 DEF HandleStarted, Final
<1>4. CASE HandleAudio /\ AudioExpected
  <2>1. outcome[Line.id] = "none" /\ heard \in [Ids -> Nat] /\ outcome' = outcome
    BY <1>4, Bounds DEF IInv, Books, TypeOK, HandleAudio, AudioExpected
  <2>2. heard' = [heard EXCEPT ![Line.id] = @ + 1]
    BY <1>4 DEF HandleAudio
  <2> QED BY <2>1, <2>2 DEF Final
<1> QED BY <1>1, <1>2, <1>3, <1>4 DEF HandleResponse, HandleAudio

\* Every step leaves what is settled as it is.
LEMMA StepFinal == ASSUME IInv, [Next]_vars PROVE Final
<1>1. CASE outcome' = outcome /\ heard' = heard
  BY <1>1 DEF Final
<1>2. CASE UNCHANGED vars
  BY <1>2, <1>1 DEF vars, sessionVars
<1>3. CASE Child
  <2>1. CASE StartFails
    BY <2>1, FailAllFinal DEF StartFails
  <2>2. CASE EngineSteps \/ ChildExits \/ ChildDies
    BY <2>2, <1>1 DEF EngineSteps, ChildExits, ChildDies, sessionVars
  <2> QED BY <1>3, <2>1, <2>2 DEF Child
<1>4. CASE SpawnRequests
  BY <1>4, <1>1 DEF SpawnRequests, Request
<1>5. CASE User
  <2>1. ASSUME NEW method \in Asks, UserRequestsTooLate(method) PROVE Final
    BY <2>1, FailAllFinal DEF UserRequestsTooLate, Abort
  <2>2. ASSUME NEW method \in Asks, UserRequests(method) PROVE Final
    BY <2>2, <1>1 DEF UserRequests, Request
  <2>3. CASE ShutdownStarts \/ ShutdownFindsClosed
    BY <2>3, <1>1 DEF ShutdownStarts, ShutdownFindsClosed, Request, sessionVars
  <2> QED BY <1>5, <2>1, <2>2, <2>3 DEF User
<1>6. CASE Events
  <2>1. CASE StdinFails
    BY <2>1, FailAllFinal DEF StdinFails, Abort
  <2>2. CASE ChildCloses
    BY <2>2, FailAllFinal DEF ChildCloses, CloseChild
  <2>3. CASE SpawnContinues \/ SpawnEnds \/ ShutdownAnswered \/ ShutdownFails \/ ShutdownEnds
    BY <2>3, <1>1 DEF SpawnContinues, SpawnEnds, ShutdownAnswered, ShutdownFails, ShutdownEnds,
       sessionVars
  <2> QED BY <1>6, <2>1, <2>2, <2>3, HandlersFinal DEF Events
<1>7. CASE Timers
  <2>1. ASSUME NEW id \in Ids, RequestTimesOut(id) PROVE Final
    BY <2>1, SettleFinal DEF RequestTimesOut
  <2>2. CASE SigtermTimer \/ SigkillTimer
    BY <2>2, <1>1 DEF SigtermTimer, SigkillTimer, sessionVars
  <2> QED BY <1>7, <2>1, <2>2 DEF Timers
<1>8. CASE Over
  BY <1>8, <1>2 DEF Over
<1> QED BY <1>2, <1>3, <1>4, <1>5, <1>6, <1>7, <1>8 DEF Next

\* A promise is settled once, and its handlers are silent afterwards: a late answer,
\* a timeout, a failed pipe and the end of the child may meet on one request.
THEOREM SettledTheorem == Spec => SettledIsFinal
<1>1. IInv /\ [Next]_vars => [Final]_vars
  BY StepFinal
<1> QED BY <1>1, Invariance, PTL DEF Spec, SettledIsFinal, Final
=============================================================================
