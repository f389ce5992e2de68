------------------------- MODULE EngineServiceProofs -------------------------
(***************************************************************************)
(* What every behavior of EngineService shows on the engine's stdout: the  *)
(* facts a client may rely on, proved with TLAPS once and used for the     *)
(* client (EngineClientProofs) by instantiation.                           *)
(***************************************************************************)
EXTENDS EngineService, TLAPS

Types ==
  /\ asked \in Seq(Frame) /\ log \in Seq(Message) /\ closed \in BOOLEAN
  /\ current \in [id : Nat, stream : {"none", "silent", "started"}, next : Nat]

IsResponse(k) == log[k].kind = "response"
IsAudio(k) == log[k].kind = "audio"
IsStart(k) == log[k].kind = "started"
Method(id) == asked[id].method
Malformed == \E i \in DOMAIN asked : asked[i].fault # "none"

\* Only what was asked is spoken of, only a synthesis is streamed, and a response
\* without an id answers a malformed frame.
OnlyAsked ==
  \A k \in DOMAIN log :
    /\ log[k].id = NoId => IsResponse(k) /\ Malformed
    /\ log[k].id # NoId => log[k].id \in DOMAIN asked
    /\ ~IsResponse(k) => Method(log[k].id) = "speech.synthesize"

\* Nothing is said about a request after its response.
ResponseIsLast ==
  \A j, k \in DOMAIN log :
    j < k /\ IsResponse(j) /\ log[j].id # NoId => log[k].id # log[j].id

\* speech.started is the first message about its synthesis, and the only one of
\* its kind; audio comes after it.
StartIsFirst ==
  /\ \A j, k \in DOMAIN log : j < k /\ IsStart(k) => log[j].id # log[k].id
  /\ \A k \in DOMAIN log :
       IsAudio(k) => \E j \in 1 .. (k - 1) : IsStart(j) /\ log[j].id = log[k].id

\* The audio of a synthesis is numbered 0, 1, 2, ... in the order it is said.
AudioIsNumbered ==
  /\ \A j, k \in DOMAIN log :
       j < k /\ IsAudio(j) /\ IsAudio(k) /\ log[j].id = log[k].id
         => log[j].sequence < log[k].sequence
  /\ \A k \in DOMAIN log :
       IsAudio(k) /\ log[k].sequence > 0 =>
         \E j \in 1 .. (k - 1) : /\ IsAudio(j) /\ log[j].id = log[k].id
                                 /\ log[j].sequence = log[k].sequence - 1

\* A result suits its request, and a synthesis that succeeded had been started.
ResultSuits ==
  \A k \in DOMAIN log :
    IsResponse(k) =>
      /\ log[k].body \in {"accepted", "rejected"} =>
           log[k].id # NoId /\ Method(log[k].id) = "speech.cancel"
      /\ log[k].body = "ok" =>
           /\ log[k].id # NoId /\ Method(log[k].id) # "speech.cancel"
           /\ Method(log[k].id) = "speech.synthesize" =>
                \E j \in 1 .. (k - 1) : IsStart(j) /\ log[j].id = log[k].id

\* The job in progress and what has been said of it.
CurrentIsTold ==
  current # Idle =>
    /\ current.id \in DOMAIN asked /\ Method(current.id) \in JobMethods
    /\ (current.stream = "none") = (Method(current.id) # "speech.synthesize")
    /\ \A k \in DOMAIN log :
         log[k].id = current.id =>
           /\ ~IsResponse(k) /\ current.stream = "started"
           /\ IsAudio(k) => log[k].sequence < current.next
    /\ current.stream = "started" => \E k \in DOMAIN log : IsStart(k) /\ log[k].id = current.id
    /\ current.next > 0 =>
         \E k \in DOMAIN log : /\ IsAudio(k) /\ log[k].id = current.id
                               /\ log[k].sequence = current.next - 1

\* A request of which something was said is in progress or answered.
SpokenOf ==
  \A k \in DOMAIN log :
    ~IsResponse(k) =>
      log[k].id = current.id \/ \E j \in DOMAIN log : IsResponse(j) /\ log[j].id = log[k].id

Orderly ==
  /\ Types
  /\ OnlyAsked /\ ResponseIsLast /\ StartIsFirst /\ AudioIsNumbered /\ ResultSuits
  /\ CurrentIsTold /\ SpokenOf

-----------------------------------------------------------------------------
\* At the start nothing has been asked or said.
LEMMA InitOrderly == Init => Orderly
<1> SUFFICES ASSUME Init PROVE Orderly
  OBVIOUS
<1>1. Types
  <2>1. Idle \in [id : Nat, stream : {"none", "silent", "started"}, next : Nat]
    BY DEF Idle, NoId
  <2>2. <<>> \in Seq(Frame) /\ <<>> \in Seq(Message)
    OBVIOUS
  <2> QED BY <2>1, <2>2 DEF Init, Types
<1>2. DOMAIN log = {}
  BY DEF Init
<1> QED BY <1>1, <1>2 DEF Init, Orderly, OnlyAsked, ResponseIsLast, StartIsFirst,
     AudioIsNumbered, ResultSuits, CurrentIsTold, SpokenOf

\* A message that is said becomes the last one.
LEMMA SayExtends ==
  ASSUME log \in Seq(Message), NEW m \in Message, Say(m)
  PROVE  /\ log' \in Seq(Message) /\ DOMAIN log' = 1 .. (Len(log) + 1)
         /\ DOMAIN log = 1 .. Len(log) /\ Len(log) \in Nat
         /\ \A k \in DOMAIN log : log'[k] = log[k]
         /\ log'[Len(log) + 1] = m
BY DEF Say

\* A request that is open has no answer in the log.
LEMMA OpenIsUnanswered ==
  ASSUME Types, NEW id, Open(id), NEW k \in DOMAIN log, log[k].id = id
  PROVE  id \in DOMAIN asked /\ id # NoId /\ ~IsResponse(k)
BY DEF Open, Answered, Types, IsResponse, NoId

\* What is asked leaves what was said in order.
LEMMA AskStep == ASSUME Orderly, Ask PROVE Orderly'
<1>1. /\ asked' \in Seq(Frame) /\ \A id \in DOMAIN asked : id \in DOMAIN asked' /\ asked'[id] = asked[id]
      /\ UNCHANGED <<log, current, closed>>
  BY DEF Ask, Orderly, Types
<1>2. Types'
  BY <1>1 DEF Orderly, Types
<1>3. OnlyAsked' /\ ResultSuits'
  BY <1>1 DEF Orderly, OnlyAsked, ResultSuits, Method, Malformed, IsResponse, IsStart
<1>4. CurrentIsTold'
  BY <1>1 DEF Orderly, CurrentIsTold, Method, IsResponse, IsStart, IsAudio, Idle
<1>5. ResponseIsLast' /\ StartIsFirst' /\ AudioIsNumbered' /\ SpokenOf'
  BY <1>1 DEF Orderly, ResponseIsLast, StartIsFirst, AudioIsNumbered, SpokenOf,
              IsResponse, IsStart, IsAudio
<1> QED BY <1>2, <1>3, <1>4, <1>5 DEF Orderly

\* What a message must be like for the log to stay in order.
Continues(m) ==
  /\ m \in Message
  /\ m.id = NoId => m.kind = "response" /\ Malformed
  /\ m.id # NoId => m.id \in DOMAIN asked
  /\ m.kind # "response" => Method(m.id) = "speech.synthesize"
  /\ m.id # NoId => \A j \in DOMAIN log : IsResponse(j) => log[j].id # m.id
  /\ m.kind = "started" => \A j \in DOMAIN log : log[j].id # m.id
  /\ m.kind = "audio" =>
       /\ \E j \in DOMAIN log : IsStart(j) /\ log[j].id = m.id
       /\ \A j \in DOMAIN log : IsAudio(j) /\ log[j].id = m.id => log[j].sequence < m.sequence
       /\ m.sequence > 0 =>
            \E j \in DOMAIN log :
              IsAudio(j) /\ log[j].id = m.id /\ log[j].sequence = m.sequence - 1
  /\ m.kind = "response" /\ m.body \in {"accepted", "rejected"} =>
       m.id # NoId /\ Method(m.id) = "speech.cancel"
  /\ m.kind = "response" /\ m.body = "ok" =>
       /\ m.id # NoId /\ Method(m.id) # "speech.cancel"
       /\ Method(m.id) = "speech.synthesize" =>
            \E j \in DOMAIN log : IsStart(j) /\ log[j].id = m.id

\* The log stays in order when such a message is said.
LEMMA SayStep ==
  ASSUME Orderly, NEW m, Continues(m), Say(m), asked' = asked
  PROVE  OnlyAsked' /\ ResponseIsLast' /\ StartIsFirst' /\ AudioIsNumbered' /\ ResultSuits'
<1> DEFINE n == Len(log) + 1
<1>1. /\ DOMAIN log' = 1 .. n /\ DOMAIN log = 1 .. Len(log) /\ Len(log) \in Nat
      /\ \A k \in DOMAIN log : log'[k] = log[k]
      /\ log'[n] = m
  BY SayExtends DEF Continues, Orderly, Types
<1>2. \A k \in DOMAIN log' : k \in DOMAIN log \/ k = n
  BY <1>1
<1>3. \A k \in DOMAIN log : k \in DOMAIN log' /\ k # n /\ k < n
  BY <1>1
<1>4. \A k \in DOMAIN log' : ~ (n < k)
  BY <1>1
<1> HIDE DEF n
<1>5. OnlyAsked'
  BY <1>1, <1>2 DEF Orderly, OnlyAsked, Continues, IsResponse, Method, Malformed
<1>6. ResponseIsLast'
  BY <1>1, <1>2, <1>4 DEF Orderly, ResponseIsLast, Continues, IsResponse
<1>7. ASSUME NEW k \in DOMAIN log, NEW j \in 1 .. (k - 1)
      PROVE  j \in DOMAIN log
  BY <1>1
<1>8. \A j \in DOMAIN log : j \in 1 .. (n - 1)
  BY <1>1 DEF n
<1>9. StartIsFirst'
  <2>1. ASSUME NEW j \in DOMAIN log', NEW k \in DOMAIN log', j < k, IsStart(k)'
        PROVE  log'[j].id # log'[k].id
    BY <1>1, <1>2, <1>4, <2>1 DEF Orderly, StartIsFirst, Continues, IsStart
  <2>2. ASSUME NEW k \in DOMAIN log', IsAudio(k)'
        PROVE  \E j \in 1 .. (k - 1) : IsStart(j)' /\ log'[j].id = log'[k].id
    <3>1. CASE k \in DOMAIN log
      <4>1. PICK j \in 1 .. (k - 1) : IsStart(j) /\ log[j].id = log[k].id
        BY <3>1, <2>2, <1>1 DEF Orderly, StartIsFirst, IsAudio
      <4> QED BY <4>1, <3>1, <1>1, <1>7 DEF IsStart
    <3>2. CASE k = n
      <4>1. PICK j \in DOMAIN log : IsStart(j) /\ log[j].id = m.id
        BY <3>2, <2>2, <1>1 DEF Continues, IsAudio
      <4> QED BY <4>1, <3>2, <1>1, <1>8 DEF IsStart
    <3> QED BY <3>1, <3>2, <1>2
  <2> QED BY <2>1, <2>2 DEF StartIsFirst
<1>10. AudioIsNumbered'
  <2>1. ASSUME NEW j \in DOMAIN log', NEW k \in DOMAIN log', j < k, IsAudio(j)', IsAudio(k)',
               log'[j].id = log'[k].id
        PROVE  log'[j].sequence < log'[k].sequence
    BY <1>1, <1>2, <1>4, <2>1 DEF Orderly, AudioIsNumbered, Continues, IsAudio
  <2>2. ASSUME NEW k \in DOMAIN log', IsAudio(k)', log'[k].sequence > 0
        PROVE  \E j \in 1 .. (k - 1) : /\ IsAudio(j)' /\ log'[j].id = log'[k].id
                                       /\ log'[j].sequence = log'[k].sequence - 1
    <3>1. CASE k \in DOMAIN log
      <4>1. PICK j \in 1 .. (k - 1) : /\ IsAudio(j) /\ log[j].id = log[k].id
                                      /\ log[j].sequence = log[k].sequence - 1
        BY <3>1, <2>2, <1>1 DEF Orderly, AudioIsNumbered, IsAudio
      <4> QED BY <4>1, <3>1, <1>1, <1>7 DEF IsAudio
    <3>2. CASE k = n
      <4>1. PICK j \in DOMAIN log : /\ IsAudio(j) /\ log[j].id = m.id
                                    /\ log[j].sequence = m.sequence - 1
        BY <3>2, <2>2, <1>1 DEF Continues, IsAudio
      <4> QED BY <4>1, <3>2, <1>1, <1>8 DEF IsAudio
    <3> QED BY <3>1, <3>2, <1>2
  <2> QED BY <2>1, <2>2 DEF AudioIsNumbered
<1>11. ResultSuits'
  <2> SUFFICES ASSUME NEW k \in DOMAIN log', IsResponse(k)'
               PROVE  /\ log'[k].body \in {"accepted", "rejected"} =>
                           log'[k].id # NoId /\ Method(log'[k].id) = "speech.cancel"
                      /\ log'[k].body = "ok" =>
                           /\ log'[k].id # NoId /\ Method(log'[k].id) # "speech.cancel"
                           /\ Method(log'[k].id) = "speech.synthesize" =>
                                \E j \in 1 .. (k - 1) : IsStart(j)' /\ log'[j].id = log'[k].id
    BY DEF ResultSuits, Method
  <2>1. CASE k \in DOMAIN log
    <3>1. \A j \in 1 .. (k - 1) : IsStart(j)' = IsStart(j) /\ log'[j] = log[j]
      BY <2>1, <1>1, <1>7 DEF IsStart
    <3> QED BY <2>1, <3>1, <1>1 DEF Orderly, ResultSuits, IsResponse
  <2>2. CASE k = n
    <3>1. \A j \in DOMAIN log : IsStart(j)' = IsStart(j) /\ log'[j] = log[j]
      BY <1>1 DEF IsStart
    <3> QED BY <2>2, <3>1, <1>1, <1>8 DEF Continues, IsResponse
  <2> QED BY <2>1, <2>2, <1>2
<1> QED BY <1>5, <1>6, <1>9, <1>10, <1>11

-----------------------------------------------------------------------------
(* The steps of the service.                                               *)

\* A response that needs no job says nothing about the job in progress.
LEMMA ReplyStep ==
  ASSUME Orderly, NEW id, NEW body \in Bodies, Reply(id, body)
  PROVE  Orderly'
<1> DEFINE m == Response(id, body)
<1>1. /\ Say(m) /\ UNCHANGED <<asked, current, closed>>
      /\ m.kind = "response" /\ m.id = id /\ m.body = body
  BY DEF Reply, Response
<1>2. id = NoId \/ (id \in DOMAIN asked /\ id # current.id)
  BY DEF Reply, Open, Orderly, Types
<1>3. Continues(m)
  <2>1. m \in Message
    BY <1>2 DEF Response, Message, Orderly, Types, NoId
  <2>2. id # NoId => \A j \in DOMAIN log : IsResponse(j) => log[j].id # m.id
    BY <1>1, OpenIsUnanswered DEF Reply, Orderly
  <2>3. body = "ok" =>
          id # NoId /\ Method(id) # "speech.cancel" /\ Method(id) # "speech.synthesize"
    BY DEF Reply, Fits, Method, JobMethods
  <2>4. body \in {"accepted", "rejected"} => id # NoId /\ Method(id) = "speech.cancel"
    BY DEF Reply, Fits, Method
  <2>5. id = NoId => Malformed
    BY DEF Reply, Fits, Malformed
  <2> HIDE DEF m
  <2> QED BY <1>1, <1>2, <2>1, <2>2, <2>3, <2>4, <2>5 DEF Continues
<1> HIDE DEF m
<1>4. /\ DOMAIN log' = 1 .. (Len(log) + 1) /\ DOMAIN log = 1 .. Len(log) /\ Len(log) \in Nat
      /\ \A k \in DOMAIN log : log'[k] = log[k]
      /\ log'[Len(log) + 1] = m /\ log' \in Seq(Message)
  BY <1>1, <1>3, SayExtends DEF Continues, Orderly, Types
<1>5. Types' /\ CurrentIsTold' /\ SpokenOf'
  <2>1. Types'
    BY <1>1, <1>4 DEF Orderly, Types
  <2>2. CurrentIsTold'
    <3>1. current # Idle => m.id # current.id
      BY <1>1, <1>2 DEF Orderly, CurrentIsTold, NoId, Types
    <3>2. \A k \in DOMAIN log : /\ k \in DOMAIN log' /\ IsResponse(k)' = IsResponse(k)
                               /\ IsAudio(k)' = IsAudio(k) /\ IsStart(k)' = IsStart(k)
      BY <1>4 DEF IsResponse, IsAudio, IsStart
    <3>3. \A k \in DOMAIN log' : k \in DOMAIN log \/ log'[k] = m
      BY <1>4
    <3> QED BY <1>1, <1>4, <3>1, <3>2, <3>3 DEF Orderly, CurrentIsTold, Method
  <2>3. SpokenOf'
    BY <1>1, <1>4 DEF Orderly, SpokenOf, IsResponse
  <2> QED BY <2>1, <2>2, <2>3
<1> QED BY <1>1, <1>3, <1>5, SayStep DEF Orderly

\* A job that is accepted has not been spoken of.
LEMMA AcceptStep == ASSUME Orderly, NEW id, Accept(id) PROVE Orderly'
<1>1. /\ UNCHANGED <<asked, log, closed>> /\ current = Idle
      /\ id \in DOMAIN asked /\ id # NoId /\ id \in Nat /\ Method(id) \in JobMethods
      /\ current' = [id |-> id,
                     stream |-> IF Method(id) = "speech.synthesize" THEN "silent" ELSE "none",
                     next |-> 0]
  BY DEF Accept, Open, Orderly, Types, Method, NoId
<1>2. current' \in [id : Nat, stream : {"none", "silent", "started"}, next : Nat]
  BY <1>1
<1>3. \A k \in DOMAIN log : log[k].id # id
  <2> SUFFICES ASSUME NEW k \in DOMAIN log, log[k].id = id PROVE FALSE
    OBVIOUS
  <2>1. \A j \in DOMAIN log : log[j].id = id => ~IsResponse(j)
    BY OpenIsUnanswered DEF Accept, Orderly
  <2>2. log[k].id = current.id
    BY <2>1 DEF Orderly, SpokenOf
  <2> QED BY <2>2, <1>1 DEF Idle
<1>4. Types'
  BY <1>1, <1>2 DEF Orderly, Types
<1>5. CurrentIsTold'
  <2>1. /\ current'.id = id /\ current'.next = 0 /\ current'.stream # "started"
        /\ (current'.stream = "none") = (Method(id) # "speech.synthesize")
    BY <1>1
  <2> QED BY <1>1, <1>3, <2>1 DEF CurrentIsTold, Method
<1>6. SpokenOf'
  <2>1. \A k \in DOMAIN log : log[k].id # current.id \/ IsResponse(k)
    BY <1>1 DEF Orderly, OnlyAsked, Idle
  <2> QED BY <1>1, <2>1 DEF Orderly, SpokenOf, IsResponse
<1>7. OnlyAsked' /\ ResponseIsLast' /\ StartIsFirst' /\ AudioIsNumbered' /\ ResultSuits'
  BY <1>1 DEF Orderly, OnlyAsked, ResponseIsLast, StartIsFirst, AudioIsNumbered, ResultSuits,
              IsResponse, IsStart, IsAudio, Method, Malformed
<1> QED BY <1>4, <1>5, <1>6, <1>7 DEF Orderly

\* speech.started opens the stream of the job in progress.
LEMMA StartStep == ASSUME Orderly, StartStream PROVE Orderly'
<1> DEFINE m == Started(current.id)
<1>1. /\ Say(m) /\ UNCHANGED <<asked, closed>> /\ current.stream = "silent"
      /\ current' = [current EXCEPT !.stream = "started"]
      /\ m.kind = "started" /\ m.id = current.id
  BY DEF StartStream, Started
<1>2. /\ current # Idle /\ current.id \in DOMAIN asked /\ current.id # NoId
      /\ Method(current.id) = "speech.synthesize"
      /\ \A k \in DOMAIN log : log[k].id # current.id
      /\ current.next = 0
  <2>1. current # Idle
    BY <1>1 DEF Idle
  <2>2. /\ current.id \in DOMAIN asked /\ Method(current.id) = "speech.synthesize"
        /\ \A k \in DOMAIN log : log[k].id # current.id
    BY <1>1, <2>1 DEF Orderly, CurrentIsTold
  <2>3. current.next = 0
    BY <1>1, <2>1, <2>2 DEF Orderly, CurrentIsTold, Types
  <2> QED BY <2>1, <2>2, <2>3 DEF Orderly, Types, NoId
<1>3. m \in Message
  BY DEF Started, Message, Orderly, Types, Bodies, Faults
<1> HIDE DEF m
<1>4. Continues(m)
  BY <1>1, <1>2, <1>3 DEF Continues
<1>5. /\ DOMAIN log' = 1 .. (Len(log) + 1) /\ DOMAIN log = 1 .. Len(log) /\ Len(log) \in Nat
      /\ \A k \in DOMAIN log : log'[k] = log[k]
      /\ log'[Len(log) + 1] = m /\ log' \in Seq(Message)
  BY <1>1, <1>3, SayExtends DEF Orderly, Types
<1>6. /\ current'.id = current.id /\ current'.stream = "started" /\ current'.next = 0
      /\ current' \in [id : Nat, stream : {"none", "silent", "started"}, next : Nat]
  BY <1>1, <1>2 DEF Orderly, Types
<1>7. Types'
  BY <1>1, <1>5, <1>6 DEF Orderly, Types
<1>8. CurrentIsTold'
  <2>1. \A k \in DOMAIN log' : log'[k].id = current.id => log'[k] = m
    BY <1>2, <1>5
  <2>2. Len(log) + 1 \in DOMAIN log'
    BY <1>5
  <2> QED BY <1>1, <1>2, <1>5, <1>6, <2>1, <2>2
          DEF CurrentIsTold, IsResponse, IsAudio, IsStart, Method, JobMethods
<1>9. SpokenOf'
  <2>1. \A k \in DOMAIN log' : k \in DOMAIN log \/ log'[k] = m
    BY <1>5
  <2>2. \A k \in DOMAIN log : k \in DOMAIN log'
    BY <1>5
  <2> QED BY <1>1, <1>5, <1>6, <2>1, <2>2 DEF Orderly, SpokenOf, IsResponse
<1> QED BY <1>1, <1>4, <1>7, <1>8, <1>9, SayStep DEF Orderly

\* speech.audio takes the next number.
LEMMA AudioStep == ASSUME Orderly, StreamAudio PROVE Orderly'
<1> DEFINE m == Audio(current.id, current.next)
<1>1. /\ Say(m) /\ UNCHANGED <<asked, closed>> /\ current.stream = "started"
      /\ current' = [current EXCEPT !.next = @ + 1]
      /\ m.kind = "audio" /\ m.id = current.id /\ m.sequence = current.next
  BY DEF StreamAudio, Audio
<1>2. /\ current # Idle /\ current.id \in DOMAIN asked /\ current.id # NoId
      /\ Method(current.id) = "speech.synthesize"
      /\ current.id \in Nat /\ current.next \in Nat
  <2>1. current # Idle
    BY <1>1 DEF Idle
  <2>2. current.id \in DOMAIN asked /\ Method(current.id) = "speech.synthesize"
    BY <1>1, <2>1 DEF Orderly, CurrentIsTold
  <2> QED BY <2>1, <2>2 DEF Orderly, Types, NoId
<1>3. m \in Message
  BY <1>2 DEF Audio, Message, Bodies, Faults
<1> HIDE DEF m
<1>4. Continues(m)
  BY <1>1, <1>2, <1>3 DEF Continues, Orderly, CurrentIsTold
<1>5. /\ DOMAIN log' = 1 .. (Len(log) + 1) /\ DOMAIN log = 1 .. Len(log) /\ Len(log) \in Nat
      /\ \A k \in DOMAIN log : log'[k] = log[k]
      /\ log'[Len(log) + 1] = m /\ log' \in Seq(Message)
  BY <1>1, <1>3, SayExtends DEF Orderly, Types
<1>6. /\ current'.id = current.id /\ current'.stream = "started"
      /\ current'.next = current.next + 1
      /\ current' \in [id : Nat, stream : {"none", "silent", "started"}, next : Nat]
  BY <1>1, <1>2 DEF Orderly, Types
<1>7. Types'
  BY <1>1, <1>5, <1>6 DEF Orderly, Types
<1>8. CurrentIsTold'
  <2>1. \A k \in DOMAIN log' : k \in DOMAIN log \/ log'[k] = m
    BY <1>5
  <2>2. Len(log) + 1 \in DOMAIN log' /\ \A k \in DOMAIN log : k \in DOMAIN log'
    BY <1>5
  <2>3. ASSUME NEW k \in DOMAIN log', log'[k].id = current.id
        PROVE  ~IsResponse(k)' /\ (IsAudio(k)' => log'[k].sequence < current.next + 1)
    <3>1. CASE k \in DOMAIN log
      <4>1. ~IsResponse(k) /\ (IsAudio(k) => log[k].sequence < current.next)
        BY <3>1, <2>3, <1>2, <1>5 DEF Orderly, CurrentIsTold
      <4>2. log[k].sequence \in Nat
        <5>1. log[k] \in Message
          BY <3>1 DEF Orderly, Types
        <5> QED BY <5>1 DEF Message
      <4> QED BY <4>1, <4>2, <3>1, <1>2, <1>5 DEF IsResponse, IsAudio
    <3>2. CASE log'[k] = m
      BY <3>2, <1>1, <1>2 DEF IsResponse, IsAudio
    <3> QED BY <3>1, <3>2, <2>1
  <2>4. \E k \in DOMAIN log' : IsStart(k)' /\ log'[k].id = current.id
    BY <1>1, <1>2, <1>5, <2>2 DEF Orderly, CurrentIsTold, IsStart
  <2>5. \E k \in DOMAIN log' : IsAudio(k)' /\ log'[k].id = current.id /\ log'[k].sequence = current.next
    BY <1>1, <1>5, <2>2 DEF IsAudio
  <2> QED BY <1>1, <1>2, <1>6, <2>3, <2>4, <2>5
          DEF Orderly, CurrentIsTold, Method, JobMethods
<1>9. SpokenOf'
  <2>1. \A k \in DOMAIN log' : k \in DOMAIN log \/ log'[k] = m
    BY <1>5
  <2>2. \A k \in DOMAIN log : k \in DOMAIN log'
    BY <1>5
  <2> QED BY <1>1, <1>5, <1>6, <2>1, <2>2 DEF Orderly, SpokenOf, IsResponse
<1> QED BY <1>1, <1>4, <1>7, <1>8, <1>9, SayStep DEF Orderly

\* The response of the job in progress is the last thing said of it.
LEMMA FinishStep == ASSUME Orderly, NEW body \in JobOutcomes, Finish(body) PROVE Orderly'
<1> DEFINE m == Response(current.id, body)
<1>1. /\ Say(m) /\ UNCHANGED <<asked, closed>> /\ current # Idle /\ current.stream # "silent"
      /\ current' = Idle
      /\ m.kind = "response" /\ m.id = current.id /\ m.body = body
  BY DEF Finish, Response
<1>2. /\ current.id \in DOMAIN asked /\ current.id # NoId /\ Method(current.id) \in JobMethods
      /\ current.id \in Nat
      /\ \A k \in DOMAIN log : log[k].id = current.id => ~IsResponse(k)
      /\ Method(current.id) = "speech.synthesize" =>
           \E k \in DOMAIN log : IsStart(k) /\ log[k].id = current.id
  <2>1. /\ current.id \in DOMAIN asked /\ Method(current.id) \in JobMethods
        /\ \A k \in DOMAIN log : log[k].id = current.id => ~IsResponse(k)
    BY <1>1 DEF Orderly, CurrentIsTold
  <2>2. current.stream \in {"none", "started"}
    BY <1>1 DEF Orderly, Types
  <2>3. Method(current.id) = "speech.synthesize" => current.stream = "started"
    BY <1>1, <2>2 DEF Orderly, CurrentIsTold
  <2> QED BY <1>1, <2>1, <2>3 DEF Orderly, CurrentIsTold, Types, NoId
<1>3. m \in Message
  BY <1>2 DEF Response, Message, Bodies, JobOutcomes
<1> HIDE DEF m
<1>4. Continues(m)
  BY <1>1, <1>2, <1>3 DEF Continues, JobMethods, JobOutcomes
<1>5. /\ DOMAIN log' = 1 .. (Len(log) + 1) /\ DOMAIN log = 1 .. Len(log) /\ Len(log) \in Nat
      /\ \A k \in DOMAIN log : log'[k] = log[k]
      /\ log'[Len(log) + 1] = m /\ log' \in Seq(Message)
  BY <1>1, <1>3, SayExtends DEF Orderly, Types
<1>6. Types'
  <2>1. Idle \in [id : Nat, stream : {"none", "silent", "started"}, next : Nat]
    BY DEF Idle, NoId
  <2> QED BY <1>1, <1>5, <2>1 DEF Orderly, Types
<1>7. CurrentIsTold'
  BY <1>1 DEF CurrentIsTold, Idle
<1>8. SpokenOf'
  <2>1. \A k \in DOMAIN log' : k \in DOMAIN log \/ log'[k] = m
    BY <1>5
  <2>2. Len(log) + 1 \in DOMAIN log' /\ \A k \in DOMAIN log : k \in DOMAIN log'
    BY <1>5
  <2>3. \A k \in DOMAIN log : IsResponse(k)' = IsResponse(k)
    BY <1>5 DEF IsResponse
  <2>4. m.kind = "response" /\ log'[Len(log) + 1] = m
    BY <1>1, <1>5
  <2>5. ASSUME NEW k \in DOMAIN log', ~IsResponse(k)'
        PROVE  \E j \in DOMAIN log' : IsResponse(j)' /\ log'[j].id = log'[k].id
    <3>1. k \in DOMAIN log /\ ~IsResponse(k) /\ log'[k] = log[k]
      BY <2>1, <2>3, <2>4, <2>5, <1>5 DEF IsResponse
    <3>2. CASE log[k].id = current.id
      BY <3>1, <3>2, <2>2, <2>4, <1>1 DEF IsResponse
    <3>3. CASE \E j \in DOMAIN log : IsResponse(j) /\ log[j].id = log[k].id
      BY <3>1, <3>3, <2>2, <2>3, <1>5
    <3> QED BY <3>1, <3>2, <3>3 DEF Orderly, SpokenOf
  <2> QED BY <2>5 DEF SpokenOf
<1> QED BY <1>1, <1>4, <1>6, <1>7, <1>8, SayStep DEF Orderly

\* The end of the output says nothing.
LEMMA CloseStep == ASSUME Orderly, Close PROVE Orderly'
<1>1. UNCHANGED <<asked, log, current>> /\ closed' \in BOOLEAN
  BY DEF Close
<1> QED BY <1>1 DEF Orderly, Types, OnlyAsked, ResponseIsLast, StartIsFirst, AudioIsNumbered,
                ResultSuits, Malformed, CurrentIsTold, SpokenOf, IsResponse, IsStart, IsAudio, Method

-----------------------------------------------------------------------------
\* Every step of the service keeps its output in order.
LEMMA StepOrderly == ASSUME Orderly, [Next]_vars PROVE Orderly'
<1>1. CASE UNCHANGED vars
  BY <1>1 DEF vars, Orderly, Types, OnlyAsked, ResponseIsLast, StartIsFirst, AudioIsNumbered,
              ResultSuits, Malformed, CurrentIsTold, SpokenOf, IsResponse, IsStart, IsAudio, Method
<1>2. CASE Next
  BY <1>2, AskStep, ReplyStep, AcceptStep, StartStep, AudioStep, FinishStep, CloseStep DEF Next
<1> QED BY <1>1, <1>2

\* What client.ts accepts is what the service says: every response to a request
\* that was asked, and the last message about it; every stream announced, then
\* numbered from 0; every result one that suits its request.
THEOREM ServiceTheorem == Spec => []Orderly
BY InitOrderly, StepOrderly, PTL DEF Spec
=============================================================================
