-------------------------- MODULE DaemonClientProofs --------------------------
(***************************************************************************)
(* Theorems about DaemonClient for every daemon that keeps                 *)
(* DaemonConnection, every program and all bounds, proved with TLAPS.      *)
(***************************************************************************)
EXTENDS DaemonClient, FiniteSetTheorems, TLAPS

Frame == [method : Methods, id : Ids, target : Ids \cup {0}, fault : {"none"}]

\* What the daemon says is in order: DaemonConnectionProofs.
Connection == INSTANCE DaemonConnectionProofs WITH Frames <- Frame

RequestRecord ==
  [is : {"none", "pending", "ok", "error", "timeout"}, unsent : BOOLEAN, timer : BOOLEAN,
   listening : BOOLEAN, streaming : BOOLEAN, started : BOOLEAN, next : Nat, chunks : Nat,
   aborted : BOOLEAN]

\* The messages about request i that were read, by their kind.
Heard(i, kind) == {k \in 1 .. read : said[k].kind = kind /\ said[k].to = i}
Got(i) == Heard(i, "response") # {}
Began(i) == Heard(i, "started") # {}

Types ==
  /\ TypeOK /\ Connection!Orderly
  /\ request \in [Ids -> RequestRecord]
  /\ sent \in Seq(Frame) /\ Len(sent) <= MaxRequests /\ read \in Nat
  /\ \A i \in DOMAIN asked : asked[i] = sent[i]

\* How far the program and its connection are.
Stage ==
  /\ phase = "connect" => sent = <<>> /\ socket = "none" /\ ~closed
  /\ closed => phase \in {"done", "failed"}
  /\ Cardinality(Made) <= Len(program.calls)
  /\ \A i \in Ids : request[i].unsent => socket = "destroyed"

\* The entries a request has in the maps while it waits.
Entries ==
  \A i \in Pending :
    /\ request[i].streaming <=> Method(i) = "speech.synthesize"
    /\ request[i].listening <=> Method(i) \in OperationMethods

\* A request waits until its response is read; one that failed before that has
\* failed with its connection, or timed out.
Waiting ==
  \A i \in Ids :
    /\ i \in Pending => ~Got(i)
    /\ request[i].is = "ok" => Got(i)
    /\ request[i].is = "error" => Got(i) \/ socket = "destroyed"

\* A synthesis that waits is as far as what was read of it.
Streaming ==
  \A i \in Pending :
    Method(i) = "speech.synthesize" =>
      (request[i].started <=> Began(i)) /\ request[i].next = Cardinality(Heard(i, "audio"))

\* Everything read of a task that waits, or has its result, was heard.
Counting ==
  \A i \in DOMAIN sent :
    request[i].is \in {"pending", "ok"} =>
      /\ Method(i) = "speech.synthesize" =>
           request[i].chunks = Cardinality(Heard(i, "audio"))
      /\ Method(i) \in OperationMethods =>
           request[i].chunks = Cardinality(Heard(i, "progress"))

IInv ==
  /\ Types /\ Stage /\ Entries /\ Waiting /\ Streaming /\ Counting
  /\ NoFailureWithoutTimeout

-----------------------------------------------------------------------------
\* The connection speaks of the same messages and frames.
LEMMA SameMessages ==
  /\ Connection!Message = Message /\ Connection!Bodies = Bodies
  /\ Connection!OperationMethods = OperationMethods
BY DEF Connection!Message, Message, Connection!Bodies, Bodies, Connection!Results, Results,
       Connection!Refusals, Refusals, Connection!Errors, Errors, Connection!Faults, Faults,
       Connection!OperationMethods, OperationMethods

\* It counts alike: the module brings its own Cardinality.
LEMMA SameCount ==
  \A S : Daemon!Cardinality(S) = Cardinality(S) /\ Connection!Cardinality(S) = Cardinality(S)
BY DEF Cardinality, Daemon!Cardinality, Connection!Cardinality

\* Bounds of the sequences, for the arithmetic of positions.
LEMMA Bounds ==
  ASSUME IInv
  PROVE  /\ Len(said) \in Nat /\ DOMAIN said = 1 .. Len(said)
         /\ Len(asked) \in Nat /\ DOMAIN asked = 1 .. Len(asked)
         /\ Len(sent) \in Nat /\ DOMAIN sent = 1 .. Len(sent)
         /\ DOMAIN asked \subseteq DOMAIN sent /\ DOMAIN sent \subseteq Ids
         /\ read \in Nat /\ read <= Len(said) /\ MaxRequests \in Nat
         /\ \A i \in Ids : i \in Nat /\ (i \in DOMAIN sent <=> i <= Len(sent))
         /\ \A k \in DOMAIN said : said[k] \in Message
<1>1. /\ asked \in Seq(Frame) /\ said \in Seq(Message) /\ sent \in Seq(Frame)
      /\ Len(asked) <= Len(sent) /\ Len(sent) <= MaxRequests /\ read <= Len(said) /\ read \in Nat
  BY SameMessages DEF IInv, Types, TypeOK, Connection!Orderly, Connection!Types
<1> QED BY <1>1, ClientAssumption DEF Ids

\* What was read is a finite set of messages.
LEMMA HeardFinite ==
  ASSUME IInv, NEW i, NEW kind
  PROVE  IsFiniteSet(Heard(i, kind)) /\ Cardinality(Heard(i, kind)) \in Nat
<1>1. IsFiniteSet(1 .. read)
  BY Bounds, FS_Interval
<1> QED BY <1>1, FS_Subset, FS_CardinalityType DEF Heard

\* A request that was not sent has no messages, and one that has its response
\* gets no more.
LEMMA NothingMore ==
  ASSUME IInv, NEW k \in DOMAIN said, read < k
  PROVE  /\ said[k].to \in DOMAIN asked /\ said[k].to \in DOMAIN sent /\ said[k].to \in Ids
         /\ ~Got(said[k].to)
<1>1. said[k].to \in DOMAIN asked
  BY DEF IInv, Types, Connection!Orderly, Connection!OnlyAsked
<1>2. ~Got(said[k].to)
  <2> SUFFICES ASSUME NEW j \in 1 .. read, said[j].kind = "response", said[j].to = said[k].to
               PROVE  FALSE
    BY DEF Got, Heard
  <2>1. j \in DOMAIN said /\ j < k
    BY Bounds
  <2> QED BY <2>1 DEF IInv, Types, Connection!Orderly, Connection!ResponseIsLast, Connection!IsResponse
<1> QED BY <1>1, <1>2, Bounds

\* At the start nothing was sent.
LEMMA InitHolds == Init => IInv
<1> SUFFICES ASSUME Init PROVE IInv
  OBVIOUS
<1>1. Connection!Orderly
  BY Connection!InitOrderly DEF Init, Daemon!Init, Connection!Init
<1>2. /\ asked = <<>> /\ said = <<>> /\ sent = <<>> /\ read = 0 /\ ~closed /\ socket = "none"
      /\ failure = "none" /\ request = [i \in Ids |-> NoRequest] /\ program \in Programs
      /\ phase = "connect" /\ temp = FALSE
  BY DEF Init, Daemon!Init
<1>3. Len(sent) = 0 /\ Len(asked) = 0 /\ Len(said) = 0 /\ DOMAIN asked = {} /\ DOMAIN sent = {}
  BY <1>2
<1>4. NoRequest \in RequestRecord
  BY DEF NoRequest, RequestRecord
<1>5. request \in [Ids -> RequestRecord] /\ Pending = {} /\ \A i \in Ids : request[i] = NoRequest
  BY <1>2, <1>4 DEF Pending, NoRequest
<1>6. \A i \in Ids : i > Len(sent)
  BY <1>3, ClientAssumption DEF Ids
<1>7. Types
  <2>1. said \in Seq(Message) /\ sent \in Seq(Frame)
    BY <1>2
  <2>2. TypeOK
    <3>1. \A i \in Ids : /\ request[i].is = "none" /\ (request[i].is = "none") = (i > Len(sent))
                         /\ ~request[i].timer /\ ~request[i].listening /\ ~request[i].streaming
      BY <1>5, <1>6 DEF NoRequest
    <3>2. Pending = {} /\ Len(asked) <= Len(sent) /\ read <= Len(said)
      BY <1>2, <1>3, <1>5
    <3> QED BY <1>2, <2>1, <3>1, <3>2 DEF TypeOK
  <2> QED BY <1>1, <1>2, <1>3, <1>5, <2>1, <2>2, ClientAssumption DEF Types
<1>8. Stage
  <2>1. Cardinality(Made) = 0
    BY <1>3, FS_EmptySet DEF Made
  <2>2. Len(program.calls) \in Nat
    BY <1>2, ClientAssumption DEF Program
  <2> QED BY <1>2, <1>5, <2>1, <2>2 DEF Stage, NoRequest
<1>9. Entries /\ Streaming /\ Waiting /\ Counting /\ NoFailureWithoutTimeout
  BY <1>2, <1>3, <1>5 DEF Entries, Streaming, Waiting, Counting, NoFailureWithoutTimeout,
     NoRequest
<1> QED BY <1>7, <1>8, <1>9 DEF IInv

-----------------------------------------------------------------------------
(* The daemon.                                                             *)

\* The daemon's steps are the connection's: the module is instantiated twice.
LEMMA SameSteps ==
  /\ \A i, body : Daemon!Respond(i, body) => Connection!Respond(i, body)
  /\ \A i : Daemon!Start(i) => Connection!Start(i)
  /\ \A i : Daemon!Stream(i) => Connection!Stream(i)
  /\ \A i : Daemon!Report(i) => Connection!Report(i)
  /\ \A frame : Daemon!Ask(frame) => Connection!Ask(frame)
<1>1. /\ \A i, kind : Daemon!About(said, i, kind) = Connection!About(said, i, kind)
      /\ \A i : Daemon!Open(i) <=> Connection!Open(i)
      /\ Daemon!Initialized <=> Connection!Initialized
      /\ Daemon!Refusals = Connection!Refusals /\ Daemon!TaskMethods = Connection!TaskMethods
      /\ Daemon!OperationMethods = Connection!OperationMethods
  BY DEF Daemon!About, Connection!About, Daemon!Open, Connection!Open, Daemon!Answered,
     Connection!Answered, Daemon!Initialized, Connection!Initialized, Daemon!Refusals,
     Connection!Refusals, Daemon!Faults, Connection!Faults, Daemon!TaskMethods,
     Connection!TaskMethods, Daemon!OperationMethods, Connection!OperationMethods
<1>2. \A i, body : Daemon!Fits(i, body) <=> Connection!Fits(i, body)
  BY <1>1 DEF Daemon!Fits, Connection!Fits
<1>3. ASSUME NEW i, NEW body, Daemon!Respond(i, body) PROVE Connection!Respond(i, body)
  <2>1. Connection!Open(i) /\ Connection!Fits(i, body)
    BY <1>1, <1>2, <1>3 DEF Daemon!Respond
  <2>2. Connection!Say(Connection!Response(i, body))
    BY <1>3 DEF Daemon!Respond, Daemon!Say, Connection!Say, Daemon!Response, Connection!Response
  <2> QED BY <2>1, <2>2 DEF Connection!Respond
<1>4. \A i : Daemon!Start(i) => Connection!Start(i)
  BY <1>1 DEF Daemon!Start, Connection!Start, Daemon!Say, Connection!Say, Daemon!Started,
     Connection!Started, Daemon!Answered, Connection!Answered
<1>5. \A i : Daemon!Stream(i) => Connection!Stream(i)
  BY <1>1, SameCount DEF Daemon!Stream, Connection!Stream, Daemon!Say, Connection!Say,
     Daemon!Audio,
     Connection!Audio
<1>6. \A i : Daemon!Report(i) => Connection!Report(i)
  BY <1>1 DEF Daemon!Report, Connection!Report, Daemon!Say, Connection!Say, Daemon!Progress,
     Connection!Progress
<1>7. \A frame : Daemon!Ask(frame) => Connection!Ask(frame)
  BY DEF Daemon!Ask, Connection!Ask
<1> QED BY <1>3, <1>4, <1>5, <1>6, <1>7

\* What the daemon takes up or says changes nothing that was read.
LEMMA DaemonRests ==
  ASSUME IInv, Connection!Orderly',
         Len(asked') <= Len(sent), \A i \in DOMAIN asked' : asked'[i] = sent[i],
         said' \in Seq(Message), Len(said) <= Len(said'), \A k \in DOMAIN said : said'[k] = said[k],
         UNCHANGED <<lineVars, request, programVars>>
  PROVE  IInv'
<1>1. UNCHANGED <<sent, read, socket, closed, failure, request, program, phase, temp>>
  BY DEF lineVars, programVars
<1>2. \A i, kind : Heard(i, kind)' = Heard(i, kind)
  <2>1. \A k \in 1 .. read : k \in DOMAIN said /\ said'[k] = said[k]
    BY Bounds
  <2> QED BY <1>1, <2>1 DEF Heard
<1>3. \A i : Got(i)' = Got(i) /\ Began(i)' = Began(i)
  BY <1>2 DEF Got, Began
<1>4. Pending' = Pending /\ Made' = Made /\ \A i : Method(i)' = Method(i)
  BY <1>1 DEF Pending, Made, Method
<1>5. Types'
  <2>1. read <= Len(said')
    BY Bounds
  <2> QED BY <1>1, <1>4, <2>1 DEF IInv, Types, TypeOK
<1>6. Stage' /\ Entries' /\ Waiting'
  BY <1>1, <1>3, <1>4 DEF IInv, Stage, Entries, Waiting
<1>7. Streaming' /\ Counting' /\ NoFailureWithoutTimeout'
  BY <1>1, <1>2, <1>3, <1>4 DEF IInv, Streaming, Counting, NoFailureWithoutTimeout
<1> QED BY <1>5, <1>6, <1>7 DEF IInv

\* Whatever the daemon says.
LEMMA DaemonSpeaks == ASSUME IInv, NEW i, DaemonSteps(i) PROVE IInv'
<1>1. UNCHANGED <<lineVars, request, programVars>>
  BY DEF DaemonSteps
<1>2. /\ Connection!Orderly' /\ asked' = asked
      /\ said' \in Seq(Message) /\ Len(said) <= Len(said') /\ \A k \in DOMAIN said : said'[k] = said[k]
  <2>1. \/ \E body \in Connection!Bodies : Connection!Respond(i, body)
        \/ Connection!Start(i) \/ Connection!Stream(i) \/ Connection!Report(i)
    BY SameSteps, SameMessages, ClientAssumption DEF DaemonSteps, DaemonAnswers, DaemonNotifies
  <2>2. Connection!Orderly'
    BY <2>1, Connection!SpeakStep DEF IInv, Types
  <2>3. said' \in Seq(Message) /\ said \in Seq(Message)
    BY <2>2, SameMessages DEF IInv, Types, Connection!Orderly, Connection!Types
  <2>4. \E m : said' = Append(said, m) /\ asked' = asked
    BY <2>1 DEF Connection!Respond, Connection!Start, Connection!Stream, Connection!Report,
       Connection!Say
  <2>5. Len(said) <= Len(said') /\ \A k \in DOMAIN said : said'[k] = said[k]
    BY <2>3, <2>4
  <2> QED BY <2>2, <2>3, <2>4, <2>5
<1> QED BY <1>1, <1>2, DaemonRests DEF IInv, Types, TypeOK

\* The daemon takes up the frames in the order they were sent.
LEMMA DaemonReadsStep == ASSUME IInv, DaemonReads PROVE IInv'
<1>1. /\ UNCHANGED <<lineVars, request, programVars>>
      /\ Len(asked) < Len(sent) /\ Connection!Ask(sent[Len(asked) + 1])
  BY SameSteps DEF DaemonReads, DaemonTakes
<1>2. sent[Len(asked) + 1] \in Frame /\ asked \in Seq(Frame) /\ said \in Seq(Message)
  BY <1>1, Bounds, SameMessages DEF IInv, Types, Connection!Orderly, Connection!Types
<1>3. Connection!Orderly'
  BY <1>1, <1>2, Connection!AskStep DEF IInv, Types
<1>4. asked' = Append(asked, sent[Len(asked) + 1]) /\ said' = said
  BY <1>1 DEF Connection!Ask
<1>5. /\ Len(asked') <= Len(sent) /\ \A i \in DOMAIN asked' : asked'[i] = sent[i]
      /\ said' \in Seq(Message) /\ Len(said) <= Len(said') /\ \A k \in DOMAIN said : said'[k] = said[k]
  BY <1>1, <1>2, <1>4, Bounds DEF IInv, Types
<1> QED BY <1>1, <1>3, <1>5, DaemonRests

-----------------------------------------------------------------------------
(* Requests that are settled without a response.                           *)

\* What settling a request leaves of it.
LEMMA SettledRecord ==
  ASSUME NEW k \in RequestRecord, NEW how \in {"ok", "error", "timeout"}
  PROVE  /\ Settled(k, how) \in RequestRecord
         /\ Settled(k, how).is = how /\ Settled(k, how).unsent = k.unsent
         /\ ~Settled(k, how).timer /\ ~Settled(k, how).listening /\ ~Settled(k, how).streaming
         /\ how = "ok" => Settled(k, how).chunks = k.chunks
BY DEF Settled, RequestRecord

\* #failAll settles every request in progress, and no other.
LEMMA AllFail ==
  ASSUME IInv, request' = FailAll
  PROVE  /\ request' \in [Ids -> RequestRecord] /\ Pending' = {}
         /\ \A i \in Ids : \/ i \notin Pending /\ request'[i] = request[i]
                           \/ i \in Pending /\ request'[i] = Settled(request[i], "error")
<1>1. \A i \in Ids : request[i] \in RequestRecord
  BY DEF IInv, Types
<1>2. \A i \in Ids : /\ Settled(request[i], "error") \in RequestRecord
                     /\ Settled(request[i], "error").is = "error"
  BY <1>1, SettledRecord
<1>3. \A i \in Ids : request'[i] = IF i \in Pending THEN Settled(request[i], "error") ELSE request[i]
  BY DEF FailAll
<1>4. Pending' = {}
  BY <1>2, <1>3 DEF Pending
<1> HIDE DEF Settled
<1> QED BY <1>1, <1>2, <1>3, <1>4 DEF FailAll

\* A request that is settled by a timeout, or with its connection, takes nothing
\* from the others; what was read of them stays.
LEMMA SettleStep ==
  ASSUME IInv, UNCHANGED <<asked, said, sent, program>>,
         read' = read \/ (Pending' = {} /\ read < Len(said) /\ read' = read + 1),
         request' \in [Ids -> RequestRecord],
         \A i \in Ids :
           \/ request'[i] = request[i]
           \/ /\ i \in Pending
              /\ \E how \in {"error", "timeout"} :
                   /\ request'[i] = Settled(request[i], how)
                   /\ how = "error" => socket' = "destroyed",
         socket' = socket \/ socket' = "destroyed",
         phase' \in {"connect", "greet", "call", "play", "done", "failed"}, temp' \in BOOLEAN,
         phase' = "connect" => phase = "connect" /\ socket' = socket /\ closed' = closed,
         closed' => Pending' = {} /\ socket' = "destroyed" /\ phase' \in {"done", "failed"},
         failure' \in {"none", "protocol", "lost"},
         failure' = "protocol" =>
           failure = "protocol" \/
             \E i \in DOMAIN sent : Method(i) = "speech.synthesize" /\ request[i].is = "timeout"
  PROVE  IInv'
<1>0. \A i \in Ids : request[i] \in RequestRecord
  BY DEF IInv, Types
<1>1. ASSUME NEW i \in Ids
      PROVE  /\ request'[i].is # request[i].is =>
                  i \in Pending /\ (request'[i].is = "timeout" \/
                                    (request'[i].is = "error" /\ socket' = "destroyed"))
             /\ request'[i].unsent = request[i].unsent
             /\ i \in Pending' => request'[i] = request[i] /\ i \in Pending
             /\ request'[i].is = "ok" => request'[i] = request[i]
             /\ i \notin Pending => request'[i] = request[i]
             /\ i \notin Pending' =>
                  ~request'[i].timer /\ ~request'[i].listening /\ ~request'[i].streaming
  <2>1. CASE request'[i] = request[i]
    BY <2>1 DEF Pending, IInv, Types, TypeOK
  <2>2. CASE /\ i \in Pending
             /\ \E how \in {"error", "timeout"} :
                  /\ request'[i] = Settled(request[i], how)
                  /\ how = "error" => socket' = "destroyed"
    <3>1. PICK how \in {"error", "timeout"} :
            request'[i] = Settled(request[i], how) /\ (how = "error" => socket' = "destroyed")
      BY <2>2
    <3>2. /\ request'[i].is = how /\ request'[i].unsent = request[i].unsent
          /\ ~request'[i].timer /\ ~request'[i].listening /\ ~request'[i].streaming
      BY <1>0, <3>1, SettledRecord
    <3> QED BY <2>2, <3>1, <3>2 DEF Pending
  <2> QED BY <2>1, <2>2
<1>2. Pending' \subseteq Pending
  BY <1>1 DEF Pending
<1>3. Made' = Made /\ \A i : Method(i)' = Method(i)
  BY DEF Made, Method
<1>4. /\ \A i, kind : read' = read => Heard(i, kind)' = Heard(i, kind)
      /\ \A i : Got(i) => Got(i)'
  BY Bounds DEF Heard, Got
<1>5. ASSUME NEW i \in Ids, request'[i].is \in {"pending", "ok"}, NEW kind
      PROVE  Heard(i, kind)' = Heard(i, kind)
  <2>1. CASE read' = read
    BY <1>4, <2>1
  <2>2. CASE Pending' = {} /\ read < Len(said) /\ read' = read + 1
    <3>1. Got(i)
      BY <1>1, <1>5, <2>2 DEF IInv, Waiting, Pending
    <3>2. read' \in DOMAIN said /\ read < read' /\ 1 .. read' = (1 .. read) \cup {read'}
      BY <2>2, Bounds
    <3>3. said[read'].to # i
      BY <3>1, <3>2, NothingMore
    <3> QED BY <3>2, <3>3 DEF Heard
  <2> QED BY <2>1, <2>2
<1>6. Types'
  <2>1. read' \in Nat /\ read' <= Len(said)
    BY Bounds
  <2>2. \A i \in Ids : (request'[i].is = "none") = (request[i].is = "none")
    BY <1>1 DEF Pending
  <2>3. \A i \in Ids : request'[i].is \in {"none", "pending", "ok", "error", "timeout"}
    BY DEF RequestRecord
  <2>4. TypeOK'
    BY <1>1, <2>1, <2>2, <2>3 DEF IInv, Types, TypeOK
  <2>5. Connection!Orderly'
    BY Connection!StepOrderly DEF IInv, Types, Connection!vars
  <2> QED BY <2>1, <2>4, <2>5 DEF IInv, Types
<1>7. Stage'
  BY <1>1, <1>3 DEF IInv, Stage
<1>8. Entries'
  BY <1>1, <1>2, <1>3 DEF IInv, Entries, Pending
<1>9. Waiting'
  <2>1. ASSUME NEW i \in Pending' PROVE ~Got(i)' /\ i \in Pending
    <3>1. read' = read /\ i \in Pending
      BY <1>2, <2>1
    <3> QED BY <3>1, <1>4 DEF IInv, Waiting, Got, Pending
  <2>2. \A i \in Ids : request'[i].is = "ok" => Got(i)'
    BY <1>1, <1>4 DEF IInv, Waiting
  <2>3. \A i \in Ids : request'[i].is = "error" => Got(i)' \/ socket' = "destroyed"
    BY <1>1, <1>4 DEF IInv, Waiting
  <2> QED BY <2>1, <2>2, <2>3 DEF Waiting
<1>10. Streaming'
  <2> SUFFICES ASSUME NEW i \in Pending', Method(i) = "speech.synthesize"
               PROVE  (request'[i].started <=> Began(i)') /\
                      request'[i].next = Cardinality(Heard(i, "audio")')
    BY <1>3 DEF Streaming
  <2>1. i \in Pending /\ request'[i] = request[i] /\ read' = read /\ i \in Ids
    BY <1>1, <1>2 DEF Pending
  <2> QED BY <2>1, <1>4 DEF IInv, Streaming, Began
<1>11. Counting'
  <2> SUFFICES ASSUME NEW i \in DOMAIN sent, request'[i].is \in {"pending", "ok"}
               PROVE  /\ Method(i) = "speech.synthesize" =>
                           request'[i].chunks = Cardinality(Heard(i, "audio")')
                      /\ Method(i) \in OperationMethods =>
                           request'[i].chunks = Cardinality(Heard(i, "progress")')
    BY <1>3 DEF Counting
  <2>1. i \in Ids
    BY Bounds
  <2>2. request'[i] = request[i]
    BY <1>1, <2>1 DEF Pending
  <2>3. Heard(i, "audio")' = Heard(i, "audio") /\ Heard(i, "progress")' = Heard(i, "progress")
    BY <1>5, <2>1
  <2> QED BY <2>2, <2>3 DEF IInv, Counting
<1>12. NoFailureWithoutTimeout'
  <2>1. failure' = "protocol" =>
          \E i \in DOMAIN sent : Method(i) = "speech.synthesize" /\ request[i].is = "timeout"
    BY DEF IInv, NoFailureWithoutTimeout
  <2>2. \A i \in DOMAIN sent : request[i].is = "timeout" => request'[i].is = "timeout"
    BY <1>1, Bounds DEF Pending
  <2> QED BY <2>1, <2>2, <1>3 DEF NoFailureWithoutTimeout
<1> QED BY <1>6, <1>7, <1>8, <1>9, <1>10, <1>11, <1>12 DEF IInv

\* What a timer, a failed write or the end of the connection settles.
LEMMA LossStep ==
  ASSUME IInv, ConnectionLost \/ \E i \in Ids : WriteFails(i) \/ Timeout(i)
  PROVE  IInv'
<1>1. CASE ConnectionLost
  <2>1. /\ UNCHANGED <<asked, said, sent, program, read, closed, phase, temp>>
        /\ request' = FailAll /\ socket = "open" /\ socket' = "destroyed"
        /\ failure' \in {"lost", failure}
    BY <1>1 DEF ConnectionLost, daemonVars, programVars
  <2>2. phase # "connect"
    BY <2>1 DEF IInv, Stage
  <2> QED BY <2>1, <2>2, AllFail, SettleStep DEF IInv, Types, TypeOK
<1>2. ASSUME NEW i \in Ids, WriteFails(i) \/ Timeout(i) PROVE IInv'
  <2> DEFINE how == IF WriteFails(i) THEN "error" ELSE "timeout"
  <2>1. /\ UNCHANGED <<asked, said, sent, program, read, socket, closed, failure, phase, temp>>
        /\ i \in Pending /\ how \in {"error", "timeout"}
        /\ request' = [request EXCEPT ![i] = Settled(request[i], how)]
        /\ how = "error" => socket = "destroyed"
    BY <1>2 DEF WriteFails, Timeout, daemonVars, lineVars, programVars, IInv, Stage
  <2> HIDE DEF how
  <2>2. request \in [Ids -> RequestRecord] /\ Settled(request[i], how) \in RequestRecord
        /\ Settled(request[i], how).is = how
    BY <2>1, SettledRecord DEF IInv, Types
  <2>3. /\ request' \in [Ids -> RequestRecord] /\ request'[i] = Settled(request[i], how)
        /\ \A j \in Ids : j # i => request'[j] = request[j]
    <3> HIDE DEF Settled
    <3> QED BY <2>1, <2>2
  <2>4. Pending' \subseteq Pending
    BY <2>1, <2>2, <2>3 DEF Pending
  <2>5. closed => Pending' = {} /\ socket = "destroyed" /\ phase \in {"done", "failed"}
    BY <2>4 DEF IInv, Types, TypeOK, Stage
  <2> QED BY <2>1, <2>3, <2>5, SettleStep DEF IInv, Types, TypeOK
<1> QED BY <1>1, <1>2

\* The end of a program closes the client.
LEMMA CloseStep ==
  ASSUME IInv, NEW end \in {"done", "failed"}, Close(end), temp' \in BOOLEAN
  PROVE  IInv'
<1>1. /\ UNCHANGED <<asked, said, sent, program, read, failure>>
      /\ phase' = end /\ closed' = TRUE /\ socket' = "destroyed" /\ request' = FailAll
  BY DEF Close, daemonVars
<1> QED BY <1>1, AllFail, SettleStep DEF IInv, Types, TypeOK

\* Where the program stands is all that changes.
LEMMA PhaseStep ==
  ASSUME IInv, UNCHANGED <<daemonVars, lineVars, request, program>>, ~closed \/ phase' = phase,
         phase' \in {"greet", "call", "play", "done", "failed"} \/ phase' = phase, temp' \in BOOLEAN
  PROVE  IInv'
<1>1. UNCHANGED <<asked, said, sent, program, read, socket, closed, failure, request>>
  BY DEF daemonVars, lineVars
<1>2. request' \in [Ids -> RequestRecord] /\ Pending' = Pending
  BY <1>1 DEF IInv, Types, Pending
<1>3. closed' => Pending' = {} /\ socket' = "destroyed" /\ phase' \in {"done", "failed"}
  BY <1>1, <1>2 DEF IInv, Types, TypeOK, Stage
<1> QED BY <1>1, <1>2, <1>3, SettleStep DEF IInv, Types, TypeOK

-----------------------------------------------------------------------------
(* New requests.                                                           *)

\* A request that is made waits, and nothing was said of it.
LEMMA AskStep ==
  ASSUME IInv, NEW method \in Methods, NEW target \in Ids \cup {0}, NEW requests,
         DOMAIN requests = Ids,
         \A i \in Ids : \/ requests[i] = request[i]
                        \/ i \in Pending /\ requests[i] = [request[i] EXCEPT !.aborted = TRUE],
         Ask(method, target, requests),
         UNCHANGED <<asked, said, read, closed, failure, program, temp>>, ~closed,
         phase' \in {"greet", "call", "play", "done", "failed"},
         socket' = socket \/ (phase = "connect" /\ socket' = "open"),
         method \notin {"initialize", "speech.cancel"} =>
           Cardinality(Made) < Len(program.calls)
  PROVE  IInv'
<1>0. PICK n : n = Len(sent) + 1
  OBVIOUS
<1> DEFINE new == [NoRequest EXCEPT !.is = "pending", !.unsent = (socket = "destroyed"),
                     !.timer = Timed(method), !.listening = ~Timed(method),
                     !.streaming = (method = "speech.synthesize")]
           frame == [method |-> method, id |-> n, target |-> target, fault |-> "none"]
<1>1. n \in Ids /\ sent' = Append(sent, frame) /\ request' = [requests EXCEPT ![n] = new]
  BY <1>0 DEF Ask
<1>2. /\ new \in RequestRecord /\ new.is = "pending" /\ new.unsent = (socket = "destroyed")
      /\ new.listening = (method \in OperationMethods)
      /\ new.streaming = (method = "speech.synthesize")
      /\ ~new.started /\ new.next = 0 /\ new.chunks = 0
  <2>1. NoRequest \in RequestRecord
    BY DEF NoRequest, RequestRecord
  <2>2. new \in RequestRecord
    BY <2>1 DEF RequestRecord, Timed
  <2>3. /\ new.is = "pending" /\ new.unsent = (socket = "destroyed")
        /\ new.listening = (method \in OperationMethods)
        /\ new.streaming = (method = "speech.synthesize")
        /\ ~new.started /\ new.next = 0 /\ new.chunks = 0
    BY DEF NoRequest, Timed
  <2> QED BY <2>2, <2>3
<1>3. frame \in Frame /\ frame.method = method
  BY <1>1 DEF Frame
<1>4. \A i \in Ids :
        /\ requests[i] \in RequestRecord /\ requests[i].is = request[i].is
        /\ requests[i].unsent = request[i].unsent /\ requests[i].timer = request[i].timer
        /\ requests[i].listening = request[i].listening
        /\ requests[i].streaming = request[i].streaming
        /\ requests[i].started = request[i].started
        /\ requests[i].next = request[i].next /\ requests[i].chunks = request[i].chunks
  <2>1. \A i \in Ids : request[i] \in RequestRecord
    BY DEF IInv, Types
  <2>2. ASSUME NEW k \in RequestRecord
        PROVE  LET a == [k EXCEPT !.aborted = TRUE] IN
               /\ a \in RequestRecord /\ a.is = k.is
               /\ a.unsent = k.unsent /\ a.timer = k.timer
               /\ a.listening = k.listening /\ a.streaming = k.streaming
               /\ a.started = k.started /\ a.next = k.next /\ a.chunks = k.chunks
    BY DEF RequestRecord
  <2> SUFFICES ASSUME NEW i \in Ids
               PROVE  /\ requests[i] \in RequestRecord /\ requests[i].is = request[i].is
                      /\ requests[i].unsent = request[i].unsent
                      /\ requests[i].timer = request[i].timer
                      /\ requests[i].listening = request[i].listening
                      /\ requests[i].streaming = request[i].streaming
                      /\ requests[i].started = request[i].started
                      /\ requests[i].next = request[i].next
                      /\ requests[i].chunks = request[i].chunks
    OBVIOUS
  <2>3. CASE requests[i] = request[i]
    BY <2>1, <2>3
  <2>4. CASE requests[i] = [request[i] EXCEPT !.aborted = TRUE]
    BY <2>1, <2>2, <2>4
  <2> QED BY <2>3, <2>4
<1> HIDE DEF new, frame
<1>5. /\ sent' \in Seq(Frame) /\ Len(sent') = n /\ Len(sent') <= MaxRequests
      /\ DOMAIN sent' = DOMAIN sent \cup {n} /\ n \notin DOMAIN sent /\ n \notin DOMAIN asked
      /\ \A i \in DOMAIN sent : sent'[i] = sent[i] /\ i # n
      /\ sent'[n] = frame
  BY <1>0, <1>1, <1>3, Bounds DEF IInv, Types, Ids
<1>6. /\ request' \in [Ids -> RequestRecord] /\ request'[n] = new
      /\ \A i \in Ids : i # n => request'[i] = requests[i]
  BY <1>1, <1>2, <1>4
<1>7. Pending' = Pending \cup {n} /\ n \notin Pending
  <2>1. request[n].is = "none"
    BY <1>0, <1>1, Bounds DEF IInv, Types, TypeOK
  <2> QED BY <2>1, <1>1, <1>2, <1>4, <1>6 DEF Pending
<1>8. /\ \A i \in DOMAIN sent : Method(i)' = Method(i)
      /\ Method(n)' = method
  BY <1>3, <1>5 DEF Method
<1>9. \A i, kind : Heard(i, kind)' = Heard(i, kind)
  BY DEF Heard
<1>10. \A i : Got(i)' = Got(i) /\ Began(i)' = Began(i)
  BY <1>9 DEF Got, Began
<1>11. \A kind : Heard(n, kind) = {}
  <2>1. \A k \in 1 .. read : k \in DOMAIN said
    BY Bounds
  <2>2. \A k \in DOMAIN said : said[k].to # n
    BY <1>5 DEF IInv, Types, Connection!Orderly, Connection!OnlyAsked
  <2> QED BY <2>1, <2>2 DEF Heard
<1>12. Pending \subseteq DOMAIN sent
  BY Bounds DEF Pending, IInv, Types, TypeOK
<1>13. Types'
  <2>1. ASSUME NEW i \in Ids
        PROVE  /\ request'[i].is \in {"none", "pending", "ok", "error", "timeout"}
               /\ (request'[i].is = "none") = (i > n)
               /\ i \notin Pending' =>
                    ~request'[i].timer /\ ~request'[i].listening /\ ~request'[i].streaming
    <3>1. CASE i = n
      BY <3>1, <1>1, <1>2, <1>6, <1>7, Bounds
    <3>2. CASE i # n
      <4>1. (i > n) = (i > Len(sent))
        BY <3>2, <1>0, <1>1, Bounds
      <4> QED BY <3>2, <4>1, <1>4, <1>6, <1>7 DEF IInv, Types, TypeOK
    <3> QED BY <3>1, <3>2
  <2>2. Len(asked) <= Len(sent')
    BY <1>5, Bounds DEF IInv, Types, TypeOK
  <2>3. TypeOK'
    BY <1>5, <2>1, <2>2 DEF IInv, Types, TypeOK
  <2>4. Connection!Orderly'
    BY Connection!StepOrderly DEF IInv, Types, Connection!vars
  <2>5. \A i \in DOMAIN asked : asked[i] = sent'[i]
    BY <1>5, Bounds DEF IInv, Types
  <2> QED BY <1>5, <1>6, <2>3, <2>4, <2>5 DEF IInv, Types
<1>14. Stage'
  <2>1. Cardinality(Made') <= Len(program.calls)
    <3>1. Made \in SUBSET DOMAIN sent /\ IsFiniteSet(Made)
      <4>1. IsFiniteSet(1 .. Len(sent))
        BY Bounds, FS_Interval
      <4> QED BY <4>1, Bounds, FS_Subset DEF Made
    <3>2. Cardinality(Made) \in Nat /\ Cardinality(Made) <= Len(program.calls)
      BY <3>1, FS_CardinalityType DEF IInv, Stage
    <3>3. Len(program.calls) \in Nat
      BY ClientAssumption DEF IInv, Types, TypeOK, Program
    <3>4. CASE method \in {"initialize", "speech.cancel"}
      <4>1. Made' = Made
        BY <1>5, <1>8, <3>4 DEF Made
      <4> QED BY <3>2, <4>1
    <3>5. CASE method \notin {"initialize", "speech.cancel"}
      <4>1. Made' = Made \cup {n} /\ n \notin Made
        BY <1>5, <1>8, <3>5 DEF Made
      <4>2. Cardinality(Made') = Cardinality(Made) + 1
        BY <3>1, <4>1, FS_AddElement
      <4> QED BY <3>2, <3>3, <3>5, <4>2
    <3> QED BY <3>4, <3>5
  <2>2. ASSUME NEW i \in Ids, request'[i].unsent PROVE socket' = "destroyed"
    <3>1. CASE i = n
      <4>1. request'[i].unsent = (socket = "destroyed")
        BY <3>1, <1>2, <1>6
      <4> QED BY <2>2, <4>1 DEF IInv, Stage
    <3>2. CASE i # n
      <4>1. request'[i].unsent = request[i].unsent
        BY <3>2, <1>4, <1>6
      <4>2. socket = "destroyed"
        BY <2>2, <4>1 DEF IInv, Stage
      <4> QED BY <4>2 DEF IInv, Stage
    <3> QED BY <3>1, <3>2
  <2> QED BY <2>1, <2>2 DEF IInv, Stage
<1>15. Entries'
  <2> SUFFICES ASSUME NEW i \in Pending'
               PROVE  /\ request'[i].streaming <=> Method(i)' = "speech.synthesize"
                      /\ request'[i].listening <=> Method(i)' \in OperationMethods
    BY DEF Entries
  <2>1. CASE i = n
    BY <2>1, <1>2, <1>6, <1>8
  <2>2. CASE i \in Pending
    BY <2>2, <1>4, <1>6, <1>7, <1>8, <1>12 DEF IInv, Entries, Pending
  <2> QED BY <2>1, <2>2, <1>7
<1>16. Waiting'
  <2> SUFFICES ASSUME NEW i \in Ids
               PROVE  /\ i \in Pending' => ~Got(i)
                      /\ request'[i].is = "ok" => Got(i)
                      /\ request'[i].is = "error" => Got(i) \/ socket' = "destroyed"
    BY <1>10 DEF Waiting
  <2>1. CASE i = n
    BY <2>1, <1>2, <1>6, <1>11 DEF Got
  <2>2. CASE i # n
    <3>1. request[i].is = "error" => i \in DOMAIN sent
      BY Bounds DEF IInv, Types, TypeOK
    <3>2. request[i].is = "error" => socket' = socket
      BY <3>1 DEF IInv, Stage
    <3> QED BY <2>2, <3>2, <1>4, <1>6, <1>7 DEF IInv, Waiting
  <2> QED BY <2>1, <2>2
<1>17. Streaming'
  <2> SUFFICES ASSUME NEW i \in Pending', Method(i)' = "speech.synthesize"
               PROVE  (request'[i].started <=> Began(i)) /\
                      request'[i].next = Cardinality(Heard(i, "audio"))
    BY <1>9, <1>10 DEF Streaming
  <2>1. CASE i = n
    BY <2>1, <1>2, <1>6, <1>11, FS_EmptySet DEF Began
  <2>2. CASE i \in Pending
    BY <2>2, <1>4, <1>6, <1>7, <1>8, <1>12 DEF IInv, Streaming, Pending
  <2> QED BY <2>1, <2>2, <1>7
<1>18. Counting'
  <2> SUFFICES ASSUME NEW i \in DOMAIN sent', request'[i].is \in {"pending", "ok"}
               PROVE  /\ Method(i)' = "speech.synthesize" =>
                           request'[i].chunks = Cardinality(Heard(i, "audio"))
                      /\ Method(i)' \in OperationMethods =>
                           request'[i].chunks = Cardinality(Heard(i, "progress"))
    BY <1>9 DEF Counting
  <2>1. CASE i = n
    BY <2>1, <1>2, <1>6, <1>11, FS_EmptySet
  <2>2. CASE i \in DOMAIN sent
    <3>1. i \in Ids /\ i # n
      BY <2>2, <1>5, Bounds
    <3> QED BY <2>2, <3>1, <1>4, <1>6, <1>8 DEF IInv, Counting
  <2> QED BY <2>1, <2>2, <1>5
<1>19. NoFailureWithoutTimeout'
  <2> SUFFICES ASSUME failure = "protocol"
               PROVE  \E i \in DOMAIN sent' :
                        Method(i)' = "speech.synthesize" /\ request'[i].is = "timeout"
    BY DEF NoFailureWithoutTimeout
  <2>1. PICK i \in DOMAIN sent : Method(i) = "speech.synthesize" /\ request[i].is = "timeout"
    BY DEF IInv, NoFailureWithoutTimeout
  <2>2. i \in Ids /\ i # n /\ i \in DOMAIN sent'
    BY <1>5, Bounds
  <2> QED BY <2>1, <2>2, <1>4, <1>6, <1>8
<1> QED BY <1>13, <1>14, <1>15, <1>16, <1>17, <1>18, <1>19 DEF IInv

\* connect(), the calls of a program, and the cancel of an abort.
LEMMA MadeStep ==
  ASSUME IInv, Connect \/ Call \/ \E i \in Ids : Abort(i)
  PROVE  IInv'
<1>1. DOMAIN request = Ids
  BY DEF IInv, Types
<1>2. CASE Connect
  <2>1. ~closed /\ phase = "connect"
    BY <1>2 DEF Connect, IInv, Stage
  <2> QED BY <1>1, <1>2, <2>1, AskStep DEF Connect, daemonVars, Methods
<1>3. CASE Call
  <2> DEFINE calls == program.calls
             made == Cardinality(Made)
  <2>1. phase = "call" /\ ~AllMade /\ Ask(calls[made + 1], 0, request)
        /\ UNCHANGED <<asked, said, read, socket, closed, failure, program, phase, temp>>
    BY <1>3 DEF Call, daemonVars, programVars
  <2>2. ~closed
    BY <2>1 DEF IInv, Stage
  <2>3. made \in Nat /\ made < Len(calls) /\ calls \in Seq(Methods)
    <3>1. IsFiniteSet(1 .. Len(sent)) /\ Made \subseteq 1 .. Len(sent)
      BY Bounds, FS_Interval DEF Made
    <3>2. made \in Nat
      BY <3>1, FS_Subset, FS_CardinalityType
    <3>3. calls \in Seq(Methods)
      BY ClientAssumption DEF IInv, Types, TypeOK, Program
    <3>4. made <= Len(calls) /\ made # Len(calls)
      BY <2>1 DEF IInv, Stage, AllMade
    <3> QED BY <3>2, <3>3, <3>4
  <2>4. calls[made + 1] \in Methods
    BY <2>3
  <2> QED BY <1>1, <2>1, <2>2, <2>3, <2>4, AskStep
<1>4. ASSUME NEW i \in Ids, Abort(i) PROVE IInv'
  <2> DEFINE requests == [request EXCEPT ![i].aborted = TRUE]
  <2>1. i \in Pending /\ Ask("speech.cancel", i, requests)
        /\ UNCHANGED <<asked, said, read, socket, closed, failure, program, phase, temp>>
    BY <1>4 DEF Abort, daemonVars, programVars
  <2>2. /\ DOMAIN requests = Ids
        /\ \A j \in Ids : \/ requests[j] = request[j]
                          \/ j \in Pending /\ requests[j] = [request[j] EXCEPT !.aborted = TRUE]
    BY <1>1, <2>1
  <2> HIDE DEF requests
  <2>3. ~closed
    BY <2>1 DEF IInv, Types, TypeOK
  <2>4. phase # "connect"
    <3>1. i \in DOMAIN sent
      BY <2>1, Bounds DEF Pending, IInv, Types, TypeOK
    <3> QED BY <3>1 DEF IInv, Stage
  <2>5. phase \in {"greet", "call", "play", "done", "failed"}
    BY <2>4 DEF IInv, Types, TypeOK
  <2> QED BY <2>1, <2>2, <2>3, <2>5, AskStep DEF Methods
<1> QED BY <1>2, <1>3, <1>4

-----------------------------------------------------------------------------
(* What is read from the socket.                                           *)

\* The line that is read comes after all that were.
LEMMA NextLine ==
  ASSUME IInv, Receive, NEW m, m = said[read']
  PROVE  /\ socket = "open" /\ read' = read + 1 /\ read < Len(said) /\ read < read'
         /\ read' \in DOMAIN said /\ m \in Message
         /\ 1 .. read' = (1 .. read) \cup {read'} /\ read' \notin 1 .. read
         /\ UNCHANGED <<asked, said, sent, closed, program, phase, temp>>
         /\ m.to \in Ids /\ m.to \in DOMAIN sent /\ ~Got(m.to)
         /\ Method(m.to) = asked[m.to].method
         /\ \A i, kind : i # m.to \/ kind # m.kind => Heard(i, kind)' = Heard(i, kind)
         /\ Heard(m.to, m.kind)' = Heard(m.to, m.kind) \cup {read'}
         /\ read' \notin Heard(m.to, m.kind)
<1>1. /\ socket = "open" /\ read' = read + 1 /\ read < Len(said)
      /\ UNCHANGED <<asked, said, sent, closed, program, phase, temp>>
  BY DEF Receive, daemonVars, programVars
<1>2. /\ read' \in DOMAIN said /\ read < read' /\ m \in Message
      /\ 1 .. read' = (1 .. read) \cup {read'} /\ read' \notin 1 .. read
  BY <1>1, Bounds
<1>3. m.to \in Ids /\ m.to \in DOMAIN sent /\ ~Got(m.to) /\ m.to \in DOMAIN asked
  BY <1>2, NothingMore
<1>4. Method(m.to) = asked[m.to].method
  BY <1>3 DEF IInv, Types, Method
<1>5. \A i, kind : i # m.to \/ kind # m.kind => Heard(i, kind)' = Heard(i, kind)
  BY <1>1, <1>2 DEF Heard
<1>6. ASSUME NEW i, NEW kind, i = m.to, kind = m.kind
      PROVE  Heard(i, kind)' = Heard(i, kind) \cup {read'}
  BY <1>1, <1>2, <1>6 DEF Heard
<1>7. read' \notin Heard(m.to, m.kind)
  BY <1>2 DEF Heard
<1> QED BY <1>1, <1>2, <1>3, <1>4, <1>5, <1>6, <1>7

\* Unless a synthesis timed out, the client waits for whatever the daemon speaks
\* of, and an announcement or a chunk comes where it is expected.
LEMMA LineExpected ==
  ASSUME IInv, Receive, NEW m, m = said[read'], m.kind \in {"started", "audio"},
         \A i \in DOMAIN sent : Method(i) = "speech.synthesize" => request[i].is # "timeout"
  PROVE  /\ m.kind = "started" => ~request[m.to].started
         /\ m.kind = "audio" => /\ request[m.to].streaming /\ request[m.to].started
                                /\ m.sequence = request[m.to].next
<1>1. /\ socket = "open" /\ read' = read + 1 /\ read < Len(said) /\ read < read'
      /\ read' \in DOMAIN said /\ m.to \in Ids /\ m.to \in DOMAIN sent /\ ~Got(m.to)
      /\ Method(m.to) = asked[m.to].method
  BY NextLine
<1>2. Method(m.to) = "speech.synthesize"
  BY <1>1 DEF IInv, Types, Connection!Orderly, Connection!OnlyAsked, Connection!IsStart,
     Connection!IsAudio, Connection!Method
<1>3. m.to \in Pending
  <2>1. request[m.to].is \in {"none", "pending", "ok", "error", "timeout"}
    BY <1>1 DEF IInv, Types, TypeOK
  <2>2. request[m.to].is # "none"
    BY <1>1, Bounds DEF IInv, Types, TypeOK
  <2>3. request[m.to].is \notin {"ok", "error"}
    BY <1>1 DEF IInv, Waiting
  <2> QED BY <1>1, <1>2, <2>1, <2>2, <2>3 DEF Pending
<1>4. /\ request[m.to].streaming /\ (request[m.to].started <=> Began(m.to))
      /\ request[m.to].next = Cardinality(Heard(m.to, "audio"))
  BY <1>2, <1>3 DEF IInv, Entries, Streaming
<1>5. ASSUME m.kind = "started" PROVE ~Began(m.to)
  <2> SUFFICES ASSUME NEW j \in 1 .. read, said[j].kind = "started", said[j].to = m.to PROVE FALSE
    BY DEF Began, Heard
  <2>1. j \in DOMAIN said /\ j < read'
    BY <1>1, Bounds
  <2> QED BY <1>1, <1>5, <2>1
          DEF IInv, Types, Connection!Orderly, Connection!StartIsFirst, Connection!IsStart
<1>6. ASSUME m.kind = "audio" PROVE Began(m.to) /\ m.sequence = Cardinality(Heard(m.to, "audio"))
  <2>1. PICK j \in DOMAIN said : j < read' /\ said[j].kind = "started" /\ said[j].to = m.to
    BY <1>1, <1>6 DEF IInv, Types, Connection!Orderly, Connection!StartIsFirst,
       Connection!IsStart, Connection!IsAudio
  <2>2. j \in 1 .. read
    BY <1>1, <2>1, Bounds
  <2>3. Connection!ChunksBefore(m.to, read' - 1) = Heard(m.to, "audio")
    <3>1. \A k \in DOMAIN said : k <= read' - 1 <=> k \in 1 .. read
      BY <1>1, Bounds
    <3>2. \A k \in 1 .. read : k \in DOMAIN said
      BY Bounds
    <3> QED BY <3>1, <3>2 DEF Connection!ChunksBefore, Connection!IsAudio, Heard
  <2>4. m.sequence = Cardinality(Connection!ChunksBefore(m.to, read' - 1))
    BY <1>1, <1>6, SameCount DEF IInv, Types, Connection!Orderly, Connection!AudioIsNumbered,
       Connection!IsAudio
  <2> QED BY <2>1, <2>2, <2>3, <2>4 DEF Began, Heard
<1> QED BY <1>4, <1>5, <1>6

\* So a protocol failure needs such a timeout.
LEMMA FailureStep ==
  ASSUME IInv, Receive, ProtocolFailure,
         \E i \in DOMAIN sent : Method(i) = "speech.synthesize" /\ request[i].is = "timeout"
  PROVE  IInv'
<1>1. /\ read' = read + 1 /\ read < Len(said) /\ socket = "open"
      /\ UNCHANGED <<asked, said, sent, closed, program, phase, temp>>
  BY NextLine
<1>2. /\ request' = FailAll /\ socket' = "destroyed"
      /\ failure' = IF failure = "none" THEN "protocol" ELSE failure
  BY DEF ProtocolFailure
<1>3. phase # "connect"
  BY <1>1 DEF IInv, Stage
<1> QED BY <1>1, <1>2, <1>3, AllFail, SettleStep DEF IInv, Types, TypeOK

\* What the message about request i that is read does to the request, as far as
\* it waits: it counts what it hears, or it is settled.
LEMMA HearStep ==
  ASSUME IInv, Receive, Keep, NEW m, m = said[read'], NEW i, i = m.to,
         NEW r \in RequestRecord, request' = [request EXCEPT ![i] = r],
         r.unsent = request[i].unsent,
         \/ r.is = request[i].is /\ m.kind # "response"
         \/ r.is = request[i].is /\ i \notin Pending
         \/ i \in Pending /\ r.is \in {"ok", "error"} /\ m.kind = "response",
         r.is # "pending" => ~r.timer /\ ~r.listening /\ ~r.streaming,
         r.is = "pending" =>
           /\ r.listening = request[i].listening /\ r.streaming = request[i].streaming
           /\ Method(i) = "speech.synthesize" =>
                /\ r.started <=> (request[i].started \/ m.kind = "started")
                /\ r.next = IF m.kind = "audio" THEN request[i].next + 1 ELSE request[i].next,
         r.is \in {"pending", "ok"} =>
           /\ Method(i) = "speech.synthesize" =>
                r.chunks = IF m.kind = "audio" THEN request[i].chunks + 1 ELSE request[i].chunks
           /\ Method(i) \in OperationMethods =>
                r.chunks = IF m.kind = "progress" THEN request[i].chunks + 1 ELSE request[i].chunks
  PROVE  IInv'
<1>1. /\ socket = "open" /\ read' = read + 1 /\ read < Len(said) /\ read < read'
      /\ UNCHANGED <<asked, said, sent, closed, program, phase, temp, socket, failure>>
      /\ i \in Ids /\ i \in DOMAIN sent /\ ~Got(i)
      /\ \A j, kind : j # i \/ kind # m.kind => Heard(j, kind)' = Heard(j, kind)
      /\ Heard(i, m.kind)' = Heard(i, m.kind) \cup {read'}
      /\ read' \notin Heard(i, m.kind)
  BY NextLine DEF Keep
<1>2. /\ request' \in [Ids -> RequestRecord] /\ request'[i] = r
      /\ \A j \in Ids : j # i => request'[j] = request[j]
  BY <1>1 DEF IInv, Types
<1>3. request[i].is \notin {"none", "ok", "error"}
  BY <1>1, Bounds DEF IInv, Types, TypeOK, Waiting
<1>4. /\ \A j \in Ids : j # i => (j \in Pending' <=> j \in Pending)
      /\ i \in Pending' => i \in Pending /\ r.is = "pending" /\ m.kind # "response"
      /\ r.is = "ok" => i \in Pending /\ m.kind = "response"
      /\ r.is = "error" => m.kind = "response"
  BY <1>1, <1>2, <1>3 DEF Pending
<1>5. Made' = Made /\ \A j : Method(j)' = Method(j)
  BY <1>1 DEF Made, Method
<1>6. Types'
  <2>1. ASSUME NEW j \in Ids
        PROVE  /\ request'[j].is \in {"none", "pending", "ok", "error", "timeout"}
               /\ (request'[j].is = "none") = (j > Len(sent))
               /\ j \notin Pending' =>
                    ~request'[j].timer /\ ~request'[j].listening /\ ~request'[j].streaming
    <3>1. CASE j = i
      <4>1. r.is \in {"none", "pending", "ok", "error", "timeout"} /\ r.is # "none"
        BY <1>3 DEF RequestRecord
      <4> QED BY <3>1, <4>1, <1>1, <1>2, <1>4, Bounds DEF Pending
    <3>2. CASE j # i
      BY <3>2, <1>2, <1>4 DEF IInv, Types, TypeOK
    <3> QED BY <3>1, <3>2
  <2>2. read' \in Nat /\ read' <= Len(said)
    BY <1>1, Bounds
  <2>3. closed => Pending' = {}
    BY <1>4 DEF IInv, Types, TypeOK, Pending
  <2>4. TypeOK'
    BY <1>1, <2>1, <2>2, <2>3 DEF IInv, Types, TypeOK
  <2>5. Connection!Orderly'
    BY <1>1, Connection!StepOrderly DEF IInv, Types, Connection!vars
  <2> QED BY <1>1, <1>2, <2>2, <2>4, <2>5 DEF IInv, Types
<1>7. Stage'
  BY <1>1, <1>2, <1>5 DEF IInv, Stage
<1>8. Entries'
  BY <1>2, <1>4, <1>5 DEF IInv, Entries, Pending
<1>9. ASSUME NEW kind PROVE /\ IsFiniteSet(Heard(i, kind)) /\ Cardinality(Heard(i, kind)) \in Nat
                            /\ Cardinality(Heard(i, kind)') =
                                 IF m.kind = kind THEN Cardinality(Heard(i, kind)) + 1
                                 ELSE Cardinality(Heard(i, kind))
  <2>1. IsFiniteSet(Heard(i, kind)) /\ Cardinality(Heard(i, kind)) \in Nat
    BY HeardFinite
  <2>2. ASSUME m.kind = kind PROVE Cardinality(Heard(i, kind)') = Cardinality(Heard(i, kind)) + 1
    <3>1. Heard(i, kind)' = Heard(i, kind) \cup {read'} /\ read' \notin Heard(i, kind)
      BY <1>1, <2>2
    <3> QED BY <2>1, <3>1, FS_AddElement
  <2>3. ASSUME m.kind # kind PROVE Cardinality(Heard(i, kind)') = Cardinality(Heard(i, kind))
    BY <1>1, <2>3
  <2> QED BY <2>1, <2>2, <2>3
<1>10. \A j \in Ids : j # i => (Got(j)' <=> Got(j)) /\ (Began(j)' <=> Began(j))
  BY <1>1 DEF Got, Began
<1>11. (Got(i)' <=> m.kind = "response") /\ (Began(i)' <=> (Began(i) \/ m.kind = "started"))
  BY <1>1 DEF Got, Began
<1>12. Waiting'
  <2> SUFFICES ASSUME NEW j \in Ids
               PROVE  /\ j \in Pending' => ~Got(j)'
                      /\ request'[j].is = "ok" => Got(j)'
                      /\ request'[j].is = "error" => Got(j)' \/ socket' = "destroyed"
    BY DEF Waiting
  <2>1. CASE j = i
    BY <2>1, <1>2, <1>4, <1>11
  <2>2. CASE j # i
    BY <2>2, <1>1, <1>2, <1>4, <1>10 DEF IInv, Waiting
  <2> QED BY <2>1, <2>2
<1>13. Streaming'
  <2> SUFFICES ASSUME NEW j \in Pending', Method(j) = "speech.synthesize"
               PROVE  (request'[j].started <=> Began(j)') /\
                      request'[j].next = Cardinality(Heard(j, "audio")')
    BY <1>5 DEF Streaming
  <2>1. j \in Ids
    BY DEF Pending
  <2>2. CASE j = i
    <3>1. i \in Pending /\ r.is = "pending"
      BY <2>2, <1>4
    <3>2. (request[i].started <=> Began(i)) /\ request[i].next = Cardinality(Heard(i, "audio"))
      BY <2>2, <3>1 DEF IInv, Streaming
    <3>3. request'[j].started <=> Began(j)'
      BY <2>2, <3>1, <3>2, <1>2, <1>11
    <3> QED BY <2>2, <3>1, <3>2, <3>3, <1>2, <1>9
  <2>3. CASE j # i
    BY <2>1, <2>3, <1>1, <1>2, <1>4, <1>10 DEF IInv, Streaming
  <2> QED BY <2>2, <2>3
<1>14. Counting'
  <2> SUFFICES ASSUME NEW j \in DOMAIN sent, request'[j].is \in {"pending", "ok"}
               PROVE  /\ Method(j) = "speech.synthesize" =>
                           request'[j].chunks = Cardinality(Heard(j, "audio")')
                      /\ Method(j) \in OperationMethods =>
                           request'[j].chunks = Cardinality(Heard(j, "progress")')
    BY <1>1, <1>5 DEF Counting
  <2>1. j \in Ids
    BY Bounds
  <2>2. CASE j = i
    <3>1. request[i].is = "pending"
      BY <2>2, <1>2, <1>4, <1>1 DEF Pending
    <3>2. /\ Method(i) = "speech.synthesize" =>
               request[i].chunks = Cardinality(Heard(i, "audio"))
          /\ Method(i) \in OperationMethods =>
               request[i].chunks = Cardinality(Heard(i, "progress"))
      BY <3>1, <1>1 DEF IInv, Counting
    <3> QED BY <2>2, <3>2, <1>2, <1>9
  <2>3. CASE j # i
    BY <2>1, <2>3, <1>1, <1>2 DEF IInv, Counting
  <2> QED BY <2>2, <2>3
<1>15. NoFailureWithoutTimeout'
  <2> SUFFICES ASSUME failure = "protocol"
               PROVE  \E j \in DOMAIN sent :
                        Method(j) = "speech.synthesize" /\ request'[j].is = "timeout"
    BY <1>1, <1>5 DEF NoFailureWithoutTimeout
  <2>1. PICK j \in DOMAIN sent : Method(j) = "speech.synthesize" /\ request[j].is = "timeout"
    BY DEF IInv, NoFailureWithoutTimeout
  <2>2. j \in Ids
    BY Bounds
  <2>3. request'[j].is = "timeout"
    BY <2>1, <2>2, <1>2, <1>4 DEF Pending
  <2> QED BY <2>1, <2>3
<1> QED BY <1>6, <1>7, <1>8, <1>12, <1>13, <1>14, <1>15 DEF IInv

\* #handleMessage: a response, a report, an announcement, a chunk.
LEMMA ReceiveStep == ASSUME IInv, Receive PROVE IInv'
<1>1. PICK m : m = said[read']
  OBVIOUS
<1>2. PICK i : i = m.to
  OBVIOUS
<1>3. TakeResponse(m) \/ TakeProgress(m) \/ TakeStarted(m) \/ TakeAudio(m)
  BY <1>1 DEF Receive
<1>4. /\ i \in Ids /\ i \in DOMAIN sent /\ Method(i) = asked[i].method /\ request[i] \in RequestRecord
      /\ read' \in DOMAIN said /\ request \in [Ids -> RequestRecord]
  BY <1>1, <1>2, NextLine DEF IInv, Types
<1>5. i \notin Pending => ~request[i].timer /\ ~request[i].listening /\ ~request[i].streaming
  BY <1>4 DEF IInv, Types, TypeOK
<1>6. request[i].is = "pending" <=> i \in Pending
  BY <1>4 DEF Pending
<1>7. CASE TakeResponse(m)
  <2>1. m.kind = "response" /\ Keep
    BY <1>7 DEF TakeResponse
  <2>2. CASE i \in Pending
    <3>1. PICK how \in {"ok", "error"} :
            /\ request' = [request EXCEPT ![i] = Settled(request[i], how)]
      <4> DEFINE how == IF m.body \in Results /\ (request[i].streaming => request[i].started)
                        THEN "ok" ELSE "error"
      <4> HIDE DEF Settled
      <4>1. request' = [request EXCEPT ![i] = Settled(request[i], how)]
        BY <1>2, <1>7, <2>2 DEF TakeResponse
      <4> QED BY <4>1
    <3>2. PICK r : r = Settled(request[i], how)
      OBVIOUS
    <3>3. /\ r \in RequestRecord /\ r.is = how /\ r.unsent = request[i].unsent
          /\ ~r.timer /\ ~r.listening /\ ~r.streaming
          /\ how = "ok" => r.chunks = request[i].chunks
      BY <1>4, <3>2, SettledRecord
    <3>4. request' = [request EXCEPT ![i] = r]
      BY <3>1, <3>2
    <3> QED BY <1>1, <1>2, <2>1, <2>2, <3>3, <3>4, HearStep
  <2>3. CASE i \notin Pending
    <3>1. request' = [request EXCEPT ![i] = request[i]]
      BY <1>2, <1>4, <1>7, <2>3 DEF TakeResponse
    <3> QED BY <1>1, <1>2, <1>4, <1>5, <1>6, <2>1, <2>3, <3>1, HearStep
  <2> QED BY <2>2, <2>3
<1>8. CASE TakeProgress(m)
  <2>1. m.kind = "progress" /\ Keep
    BY <1>8 DEF TakeProgress
  <2>2. Method(i) \in OperationMethods
    BY <1>1, <1>2, <1>4, <2>1, SameMessages
       DEF IInv, Types, Connection!Orderly, Connection!OnlyAsked, Connection!IsProgress,
           Connection!Method
  <2>3. CASE request[i].listening
    <3>1. PICK r : r = [request[i] EXCEPT !.chunks = request[i].chunks + 1]
      OBVIOUS
    <3>2. /\ r \in RequestRecord /\ r.is = request[i].is /\ r.unsent = request[i].unsent
          /\ r.listening = request[i].listening /\ r.streaming = request[i].streaming
          /\ r.chunks = request[i].chunks + 1
      BY <1>4, <3>1 DEF RequestRecord
    <3>3. request' = [request EXCEPT ![i] = r]
      BY <1>2, <1>8, <2>3, <3>1 DEF TakeProgress
    <3>4. Method(i) # "speech.synthesize" /\ i \in Pending
      BY <1>5, <2>2, <2>3 DEF OperationMethods
    <3> QED BY <1>1, <1>2, <1>6, <2>1, <3>2, <3>3, <3>4, HearStep
  <2>4. CASE ~request[i].listening
    <3>1. request' = [request EXCEPT ![i] = request[i]] /\ i \notin Pending
      BY <1>2, <1>4, <1>8, <2>2, <2>4 DEF TakeProgress, IInv, Entries
    <3>2. request[i].is # "ok"
      BY <1>1, <1>2, <1>4, NextLine DEF IInv, Waiting
    <3> QED BY <1>1, <1>2, <1>4, <1>5, <1>6, <2>1, <3>1, <3>2, HearStep
  <2> QED BY <2>3, <2>4
<1>9. CASE TakeStarted(m)
  <2>1. m.kind = "started"
    BY <1>9 DEF TakeStarted
  <2>2. Method(i) = "speech.synthesize"
    BY <1>1, <1>2, <1>4, <2>1 DEF IInv, Types, Connection!Orderly, Connection!OnlyAsked,
       Connection!IsStart, Connection!Method
  <2>3. CASE request[i].started
    BY <1>1, <1>2, <1>9, <2>1, <2>3, LineExpected, FailureStep DEF TakeStarted
  <2>4. CASE ~request[i].started
    <3>1. PICK r : r = [request[i] EXCEPT !.started = TRUE]
      OBVIOUS
    <3>2. /\ r \in RequestRecord /\ r.is = request[i].is /\ r.unsent = request[i].unsent
          /\ r.listening = request[i].listening /\ r.streaming = request[i].streaming
          /\ r.timer = request[i].timer /\ r.started
          /\ r.next = request[i].next /\ r.chunks = request[i].chunks
      BY <1>4, <3>1 DEF RequestRecord
    <3>3. request' = [request EXCEPT ![i] = r] /\ Keep
      BY <1>2, <1>9, <2>4, <3>1 DEF TakeStarted
    <3> QED BY <1>1, <1>2, <1>5, <1>6, <2>1, <2>2, <3>2, <3>3, HearStep DEF OperationMethods
  <2> QED BY <2>3, <2>4
<1>10. CASE TakeAudio(m)
  <2>1. m.kind = "audio"
    BY <1>10 DEF TakeAudio
  <2>2. Method(i) = "speech.synthesize"
    BY <1>1, <1>2, <1>4, <2>1 DEF IInv, Types, Connection!Orderly, Connection!OnlyAsked,
       Connection!IsAudio, Connection!Method
  <2>3. CASE ~request[i].streaming \/ m.sequence # request[i].next \/ ~request[i].started
    BY <1>1, <1>2, <1>10, <2>1, <2>3, LineExpected, FailureStep DEF TakeAudio
  <2>4. CASE ~(~request[i].streaming \/ m.sequence # request[i].next \/ ~request[i].started)
    <3>1. PICK r : r = [request[i] EXCEPT !.next = request[i].next + 1,
                                          !.chunks = request[i].chunks + 1]
      OBVIOUS
    <3>2. /\ r \in RequestRecord /\ r.is = request[i].is /\ r.unsent = request[i].unsent
          /\ r.listening = request[i].listening /\ r.streaming = request[i].streaming
          /\ r.started = request[i].started
          /\ r.next = request[i].next + 1 /\ r.chunks = request[i].chunks + 1
      <4>1. request[i].next + 1 \in Nat /\ request[i].chunks + 1 \in Nat
        BY <1>4 DEF RequestRecord
      <4>2. r \in RequestRecord
        BY <1>4, <3>1, <4>1 DEF RequestRecord
      <4> QED BY <1>4, <3>1, <4>2 DEF RequestRecord
    <3>3. Keep /\ request' = [request EXCEPT ![i].next = @ + 1, ![i].chunks = @ + 1]
      BY <1>2, <1>10, <2>4 DEF TakeAudio
    <3>4. request' = [request EXCEPT ![i] = r]
      BY <1>4, <3>1, <3>3
    <3>5. i \in Pending
      BY <1>5, <2>4
    <3>6. Keep /\ r.is = "pending" /\ Method(i) \notin OperationMethods
      BY <1>6, <2>2, <3>2, <3>3, <3>5 DEF OperationMethods
    <3> QED BY <1>1, <1>2, <2>1, <2>2, <3>2, <3>4, <3>5, <3>6, HearStep
  <2> QED BY <2>3, <2>4
<1> QED BY <1>3, <1>7, <1>8, <1>9, <1>10

-----------------------------------------------------------------------------
(* The program.                                                            *)

\* connect(), withClient and the commands.
LEMMA ProgramStep == ASSUME IInv, Proceed PROVE IInv'
<1>1. temp \in BOOLEAN
  BY DEF IInv, Types, TypeOK
<1>2. phase \in {"connect", "greet", "call", "play"} => ~closed
  BY DEF IInv, Stage
<1>3. CASE Connect \/ Call
  BY <1>3, MadeStep
<1>4. CASE ConnectFails \/ Greeted \/ Play
  BY <1>1, <1>2, <1>4, PhaseStep DEF ConnectFails, Greeted, Play
<1>5. CASE GreetingFails \/ CallsFail
  BY <1>1, <1>5, CloseStep DEF GreetingFails, CallsFail
<1>6. CASE CallsSucceed
  BY <1>1, <1>6, CloseStep DEF CallsSucceed
<1>7. CASE PlayEnds
  BY <1>7, CloseStep DEF PlayEnds
<1> QED BY <1>3, <1>4, <1>5, <1>6, <1>7 DEF Proceed

\* A step that changes nothing.
LEMMA RestStep == ASSUME IInv, UNCHANGED vars PROVE IInv'
<1>1. UNCHANGED <<daemonVars, lineVars, request, program>> /\ UNCHANGED <<phase, temp>>
  BY DEF vars, programVars
<1> QED BY <1>1, PhaseStep DEF IInv, Types, TypeOK

\* Every step keeps the invariant.
LEMMA StepHolds == IInv /\ [Next]_vars => IInv'
<1> SUFFICES ASSUME IInv, [Next]_vars PROVE IInv'
  OBVIOUS
<1>1. CASE Proceed
  BY <1>1, ProgramStep
<1>2. CASE DaemonReads
  BY <1>2, DaemonReadsStep
<1>3. CASE Receive
  BY <1>3, ReceiveStep
<1>4. CASE ConnectionLost
  BY <1>4, LossStep
<1>5. ASSUME NEW i \in Ids, DaemonSteps(i) \/ WriteFails(i) \/ Timeout(i) \/ Abort(i) PROVE IInv'
  BY <1>5, DaemonSpeaks, LossStep, MadeStep
<1>6. CASE Over \/ UNCHANGED vars
  BY <1>6, RestStep DEF Over
<1> QED BY <1>1, <1>2, <1>3, <1>4, <1>5, <1>6 DEF Next

\* The inductive invariant holds in every behavior.
LEMMA Invariance == Spec => []IInv
<1>1. QED BY InitHolds, StepHolds, PTL DEF Spec

-----------------------------------------------------------------------------
\* The client's requests, timers and map entries are consistent, and a closed
\* client has no request in progress (rpc-client.ts, all of it).
THEOREM ClientTypes == Spec => []TypeOK
<1>1. IInv => TypeOK
  BY DEF IInv, Types
<1> QED BY <1>1, Invariance, PTL

\* Whatever a proper daemon says, in whatever order, no message is taken for a
\* protocol failure unless a synthesis timed out (rpc-client.ts #handleMessage).
THEOREM NoFailureTheorem == Spec => []NoFailureWithoutTimeout
<1>1. IInv => NoFailureWithoutTimeout
  BY DEF IInv
<1> QED BY <1>1, Invariance, PTL

\* All that the daemon says of a request is read before its response, so that
\* the result has every chunk and every report (rpc-client.ts synthesize,
\* #operation).
THEOREM HeardTheorem == Spec => []HeardEverything
<1>1. IInv => HeardEverything
  <2> SUFFICES ASSUME IInv, NEW i \in DOMAIN sent, Method(i) \in TaskMethods, request[i].is = "ok"
               PROVE  request[i].chunks = Notes(i)
    BY DEF HeardEverything
  <2>1. i \in Ids
    BY Bounds
  <2>2. PICK j \in 1 .. read : said[j].kind = "response" /\ said[j].to = i
    BY <2>1 DEF IInv, Waiting, Got, Heard
  <2>3. j \in DOMAIN said /\ \A k \in 1 .. read : k \in DOMAIN said
    BY Bounds
  <2>4. ASSUME NEW k \in DOMAIN said, said[k].to = i PROVE k \in 1 .. read
    <3>1. ~(j < k)
      BY <2>2, <2>3, <2>4 DEF IInv, Types, Connection!Orderly, Connection!ResponseIsLast,
         Connection!IsResponse
    <3> QED BY <3>1, Bounds
  <2>5. \A kind : About(said, i, kind) = Heard(i, kind)
    BY <2>3, <2>4 DEF About, Heard
  <2>6. ASSUME NEW k \in DOMAIN said, said[k].to = i
        PROVE  /\ said[k].kind = "audio" => Method(i) = "speech.synthesize"
               /\ said[k].kind = "progress" => Method(i) \in OperationMethods
    <3>1. i \in DOMAIN asked /\ asked[i].method = Method(i)
      BY <2>6 DEF IInv, Types, Connection!Orderly, Connection!OnlyAsked, Method
    <3> QED BY <3>1, <2>6, SameMessages DEF IInv, Types, Connection!Orderly, Connection!OnlyAsked,
            Connection!IsAudio, Connection!IsProgress, Connection!Method
  <2>7. CASE Method(i) = "speech.synthesize"
    <3>1. About(said, i, "progress") = {}
      BY <2>6, <2>7 DEF About, OperationMethods
    <3>2. request[i].chunks = Cardinality(Heard(i, "audio"))
      BY <2>7 DEF IInv, Counting
    <3> QED BY <3>1, <3>2, <2>5 DEF Notes
  <2>8. CASE Method(i) \in OperationMethods
    <3>1. About(said, i, "audio") = {}
      BY <2>6, <2>8 DEF About, OperationMethods
    <3>2. request[i].chunks = Cardinality(Heard(i, "progress"))
      BY <2>8 DEF IInv, Counting
    <3> QED BY <3>1, <3>2, <2>5 DEF Notes
  <2> QED BY <2>7, <2>8 DEF TaskMethods
<1> QED BY <1>1, Invariance, PTL
=============================================================================
