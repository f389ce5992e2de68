----------------------- MODULE DaemonConnectionProofs -----------------------
(***************************************************************************)
(* What every behavior of DaemonConnection shows on a connection: the      *)
(* facts rpc-client.ts relies on, proved with TLAPS once and used for the  *)
(* client (DaemonClientProofs) by instantiation.                           *)
(***************************************************************************)
EXTENDS DaemonConnection, FiniteSetTheorems, TLAPS

Types == asked \in Seq(Frames) /\ said \in Seq(Message)

IsResponse(k) == said[k].kind = "response"
IsStart(k) == said[k].kind = "started"
IsAudio(k) == said[k].kind = "audio"
IsProgress(k) == said[k].kind = "progress"
Method(i) == asked[i].method

\* Only what was taken up is spoken of; only a synthesis is streamed, and only
\* an operation reports.
OnlyAsked ==
  \A k \in DOMAIN said :
    /\ said[k].to \in DOMAIN asked
    /\ IsStart(k) \/ IsAudio(k) => Method(said[k].to) = "speech.synthesize"
    /\ IsProgress(k) => Method(said[k].to) \in OperationMethods

\* Nothing is said about a frame after its response.
ResponseIsLast ==
  \A j, k \in DOMAIN said : j < k /\ IsResponse(j) => said[k].to # said[j].to

\* speech.started is the first message about its synthesis, and the only one of
\* its kind; audio comes after it.
StartIsFirst ==
  /\ \A j, k \in DOMAIN said : j < k /\ IsStart(k) => said[j].to # said[k].to
  /\ \A k \in DOMAIN said :
       IsAudio(k) => \E j \in DOMAIN said : j < k /\ IsStart(j) /\ said[j].to = said[k].to

\* The chunks about frame i among the first n messages.
ChunksBefore(i, n) == {j \in DOMAIN said : j <= n /\ IsAudio(j) /\ said[j].to = i}

\* A chunk is numbered by those before it.
AudioIsNumbered ==
  \A k \in DOMAIN said :
    IsAudio(k) => said[k].sequence = Cardinality(ChunksBefore(said[k].to, k - 1))

Orderly ==
  Types /\ OnlyAsked /\ ResponseIsLast /\ StartIsFirst /\ AudioIsNumbered

-----------------------------------------------------------------------------
\* At the start nothing has been asked or said.
LEMMA InitOrderly == Init => Orderly
<1> SUFFICES ASSUME Init PROVE Orderly
  OBVIOUS
<1>1. <<>> \in Seq(Frames) /\ <<>> \in Seq(Message)
  OBVIOUS
<1>2. DOMAIN said = {}
  BY DEF Init
<1> QED BY <1>1, <1>2 DEF Init, Orderly, Types, OnlyAsked, ResponseIsLast, StartIsFirst,
     AudioIsNumbered

\* A frame that is taken up leaves what was said in order.
LEMMA AskStep == ASSUME Orderly, NEW frame \in Frames, Ask(frame) PROVE Orderly'
<1>1. /\ asked' \in Seq(Frames) /\ said' = said
      /\ \A i \in DOMAIN asked : i \in DOMAIN asked' /\ asked'[i] = asked[i]
  BY DEF Ask, Orderly, Types
<1>2. Types' /\ ResponseIsLast' /\ StartIsFirst'
  BY <1>1 DEF Orderly, Types, ResponseIsLast, StartIsFirst, IsResponse, IsStart, IsAudio
<1>3. OnlyAsked'
  BY <1>1 DEF Orderly, OnlyAsked, Method, IsStart, IsAudio, IsProgress
<1>4. AudioIsNumbered'
  BY <1>1 DEF Orderly, AudioIsNumbered, ChunksBefore, IsAudio
<1> QED BY <1>2, <1>3, <1>4 DEF Orderly

\* What a message must be like for the connection to stay in order.
Continues(m) ==
  /\ m \in Message /\ m.to \in DOMAIN asked
  /\ m.kind \in {"started", "audio"} => Method(m.to) = "speech.synthesize"
  /\ m.kind = "progress" => Method(m.to) \in OperationMethods
  /\ \A j \in DOMAIN said : IsResponse(j) => said[j].to # m.to
  /\ m.kind = "started" => \A j \in DOMAIN said : said[j].to # m.to
  /\ m.kind = "audio" =>
       /\ \E j \in DOMAIN said : IsStart(j) /\ said[j].to = m.to
       /\ m.sequence = Cardinality(About(said, m.to, "audio"))

\* It stays in order when such a message is said.
LEMMA SayStep == ASSUME Orderly, NEW m, Continues(m), Say(m) PROVE Orderly'
<1> DEFINE n == Len(said) + 1
<1>1. /\ said' \in Seq(Message) /\ DOMAIN said' = 1 .. n /\ DOMAIN said = 1 .. Len(said)
      /\ Len(said) \in Nat /\ asked' = asked
      /\ \A k \in DOMAIN said : said'[k] = said[k]
      /\ said'[n] = m
  BY DEF Orderly, Types, Continues, Say
<1>2. /\ \A k \in DOMAIN said' : k \in DOMAIN said \/ k = n
      /\ \A k \in DOMAIN said : k \in DOMAIN said' /\ k # n /\ k < n /\ k <= n - 1
      /\ \A k \in DOMAIN said' : ~(n < k) /\ k \in Nat
      /\ ~(n <= n - 1) /\ \A k \in DOMAIN said : ~(n <= k - 1)
  BY <1>1
<1> HIDE DEF n
<1>3. \A k \in DOMAIN said :
        /\ IsResponse(k)' = IsResponse(k) /\ IsStart(k)' = IsStart(k)
        /\ IsAudio(k)' = IsAudio(k) /\ IsProgress(k)' = IsProgress(k)
  BY <1>1 DEF IsResponse, IsStart, IsAudio, IsProgress
<1>4. Types' /\ OnlyAsked'
  BY <1>1, <1>2 DEF Orderly, Types, OnlyAsked, Continues, IsStart, IsAudio, IsProgress, Method
<1>5. ResponseIsLast'
  BY <1>1, <1>2, <1>3 DEF Orderly, ResponseIsLast, Continues
<1>6. StartIsFirst'
  <2>1. ASSUME NEW j \in DOMAIN said', NEW k \in DOMAIN said', j < k, IsStart(k)'
        PROVE  said'[j].to # said'[k].to
    BY <1>1, <1>2, <2>1 DEF Orderly, StartIsFirst, Continues, IsStart
  <2>2. ASSUME NEW k \in DOMAIN said', IsAudio(k)'
        PROVE  \E j \in DOMAIN said' : j < k /\ IsStart(j)' /\ said'[j].to = said'[k].to
    <3>1. CASE k \in DOMAIN said
      <4>1. PICK j \in DOMAIN said : j < k /\ IsStart(j) /\ said[j].to = said[k].to
        BY <3>1, <2>2, <1>3 DEF Orderly, StartIsFirst
      <4> QED BY <4>1, <3>1, <1>1, <1>2, <1>3
    <3>2. CASE k = n
      <4>1. PICK j \in DOMAIN said : IsStart(j) /\ said[j].to = m.to
        BY <3>2, <2>2, <1>1 DEF Continues, IsAudio
      <4> QED BY <4>1, <3>2, <1>1, <1>2, <1>3
    <3> QED BY <3>1, <3>2, <1>2
  <2> QED BY <2>1, <2>2 DEF StartIsFirst
<1>7. AudioIsNumbered'
  <2> SUFFICES ASSUME NEW k \in DOMAIN said', IsAudio(k)', NEW i, i = said'[k].to
               PROVE  said'[k].sequence = Cardinality(ChunksBefore(i, k - 1)')
    BY DEF AudioIsNumbered, ChunksBefore
  <2>1. CASE k \in DOMAIN said
    <3>1. ChunksBefore(i, k - 1)' = ChunksBefore(i, k - 1)
      BY <2>1, <1>1, <1>2, <1>3 DEF ChunksBefore
    <3> QED BY <3>1, <2>1, <1>1, <1>3 DEF Orderly, AudioIsNumbered
  <2>2. CASE k = n
    <3>1. ChunksBefore(i, k - 1)' = About(said, i, "audio")
      BY <2>2, <1>1, <1>2, <1>3 DEF ChunksBefore, About, IsAudio
    <3> QED BY <3>1, <2>2, <1>1 DEF Continues, IsAudio
  <2> QED BY <2>1, <2>2, <1>2
<1> QED BY <1>4, <1>5, <1>6, <1>7 DEF Orderly

-----------------------------------------------------------------------------
(* The steps of the daemon.                                                *)

\* A frame that is open has no answer among what was said.
LEMMA OpenIsUnanswered ==
  ASSUME NEW i, Open(i)
  PROVE  i \in DOMAIN asked /\ \A j \in DOMAIN said : IsResponse(j) => said[j].to # i
BY DEF Open, Answered, About, IsResponse

\* What may be said next: a response, the start of a synthesis, a chunk of one
\* that has been started, and the progress of an operation.
LEMMA SpeakStep ==
  ASSUME Orderly, NEW i,
         (\E body \in Bodies : Respond(i, body)) \/ Start(i) \/ Stream(i) \/ Report(i)
  PROVE  Orderly'
<1>1. \A j \in DOMAIN asked : j \in Nat
  BY DEF Orderly, Types
<1>2. ASSUME NEW body \in Bodies, Respond(i, body) PROVE Orderly'
  <2>1. i \in DOMAIN asked /\ \A j \in DOMAIN said : IsResponse(j) => said[j].to # i
    BY <1>2, OpenIsUnanswered DEF Respond
  <2>2. Response(i, body) \in Message
    BY <1>1, <2>1 DEF Response, Message
  <2>3. Continues(Response(i, body))
    BY <2>1, <2>2 DEF Continues, Response
  <2> QED BY <1>2, <2>3, SayStep DEF Respond
<1>3. CASE Start(i)
  <2>1. /\ i \in DOMAIN asked /\ Method(i) = "speech.synthesize"
        /\ \A j \in DOMAIN said : IsResponse(j) => said[j].to # i
        /\ \A j \in DOMAIN said : IsStart(j) => said[j].to # i
    BY <1>3, OpenIsUnanswered DEF Start, Method, About, IsStart
  <2>2. \A j \in DOMAIN said : said[j].to # i
    <3> SUFFICES ASSUME NEW j \in DOMAIN said, said[j].to = i PROVE FALSE
      OBVIOUS
    <3>1. said[j] \in Message
      BY DEF Orderly, Types
    <3>2. ~IsAudio(j)
      BY <2>1 DEF Orderly, StartIsFirst
    <3>3. ~IsProgress(j)
      BY <2>1 DEF Orderly, OnlyAsked, OperationMethods
    <3> QED BY <2>1, <3>1, <3>2, <3>3 DEF Message, IsResponse, IsStart, IsAudio, IsProgress
  <2>3. Started(i) \in Message
    BY <1>1, <2>1 DEF Started, Message
  <2>4. Continues(Started(i))
    BY <2>1, <2>2, <2>3 DEF Continues, Started
  <2> QED BY <1>3, <2>4, SayStep DEF Start
<1>4. CASE Stream(i)
  <2>1. /\ i \in DOMAIN asked
        /\ \A j \in DOMAIN said : IsResponse(j) => said[j].to # i
        /\ \E j \in DOMAIN said : IsStart(j) /\ said[j].to = i
    BY <1>4, OpenIsUnanswered DEF Stream, About, IsStart
  <2>2. Method(i) = "speech.synthesize"
    BY <2>1 DEF Orderly, OnlyAsked
  <2>3. Cardinality(About(said, i, "audio")) \in Nat
    <3>1. IsFiniteSet(1 .. Len(said))
      BY FS_Interval DEF Orderly, Types
    <3>2. About(said, i, "audio") \subseteq 1 .. Len(said)
      BY DEF About, Orderly, Types
    <3> QED BY <3>1, <3>2, FS_Subset, FS_CardinalityType
  <2>4. Audio(i, Cardinality(About(said, i, "audio"))) \in Message
    BY <1>1, <2>1, <2>3 DEF Audio, Message
  <2>5. Continues(Audio(i, Cardinality(About(said, i, "audio"))))
    BY <2>1, <2>2, <2>4 DEF Continues, Audio
  <2> QED BY <1>4, <2>5, SayStep DEF Stream
<1>5. CASE Report(i)
  <2>1. /\ i \in DOMAIN asked /\ Method(i) \in OperationMethods
        /\ \A j \in DOMAIN said : IsResponse(j) => said[j].to # i
    BY <1>5, OpenIsUnanswered DEF Report, Method
  <2>2. Progress(i) \in Message
    BY <1>1, <2>1 DEF Progress, Message
  <2>3. Continues(Progress(i))
    BY <2>1, <2>2 DEF Continues, Progress
  <2> QED BY <1>5, <2>3, SayStep DEF Report
<1> QED BY <1>2, <1>3, <1>4, <1>5

-----------------------------------------------------------------------------
\* Every step of the daemon keeps its connection in order.
LEMMA StepOrderly == ASSUME Orderly, [Next]_vars PROVE Orderly'
<1>1. CASE UNCHANGED vars
  BY <1>1 DEF vars, Orderly, Types, OnlyAsked, ResponseIsLast, StartIsFirst, AudioIsNumbered,
              ChunksBefore, IsResponse, IsStart, IsAudio, IsProgress, Method
<1>2. CASE Next
  BY <1>2, AskStep, SpeakStep DEF Next
<1> QED BY <1>1, <1>2

\* What rpc-client.ts relies on is what the daemon says: only about frames it has
\* taken up, nothing after a response, one announcement before all else about a
\* synthesis, and chunks numbered by those before them.
THEOREM ConnectionTheorem == Spec => []Orderly
BY InitOrderly, StepOrderly, PTL DEF Spec
=============================================================================
