---------------------------- MODULE DaemonClient ----------------------------
(***************************************************************************)
(* apps/cli: the DaemonRpcClient of rpc-client.ts, the command of cli.ts   *)
(* that uses it, and the connection between them and a daemon, which may   *)
(* be any that keeps DaemonConnection.  A message is in transit from the   *)
(* moment it is written until the other side takes it; the connection may  *)
(* be lost at any moment.                                                  *)
(*                                                                         *)
(* A callback, with the continuations it settles, is one action.  Ids are  *)
(* given out in order, so a request is named by the place of its frame.    *)
(***************************************************************************)
EXTENDS DaemonMessages, FiniteSets

CONSTANTS
  Programs,     \* what the user of the client does, see Program
  MaxRequests,  \* bound on the requests of a client
  MaxNotes,     \* bound on the notifications about one request
  MaxTransit,   \* bound on the daemon's messages in transit
  Said          \* the response bodies the daemon uses

\* The requests of a command, in order.  api: the user is not a command of
\* cli.ts: it does not wait for one request before it makes the next, and may
\* abort a synthesis.  play: the command plays what it has synthesized.
Program == [calls : Seq(Methods), api : BOOLEAN, play : BOOLEAN]

ASSUME ClientAssumption ==
  /\ Programs \subseteq Program /\ Said \subseteq Bodies
  /\ MaxRequests \in Nat /\ MaxNotes \in Nat /\ MaxTransit \in Nat \ {0}

VARIABLES
  asked, said,   \* the daemon: see DaemonConnection
  program,       \* never changed
  phase,         \* how far the program is
  sent,          \* the frames written
  read,          \* how many messages have been taken from the socket
  socket,        \* "none", "open" or "destroyed"
  closed,        \* #closed
  failure,       \* why every request was failed: the first reason
  request,       \* request[i]: see NoRequest
  temp           \* the directory of playAudio exists

daemonVars == <<asked, said>>
lineVars == <<sent, read, socket, closed, failure>>
programVars == <<program, phase, temp>>
vars == <<daemonVars, lineVars, request, programVars>>

Ids == 1 .. MaxRequests

Daemon ==
  INSTANCE DaemonConnection WITH
    Frames <- [method : Methods, id : Ids, target : Ids \cup {0}, fault : {"none"}]

\* unsent: it was written to a destroyed socket.  timer: it has a timeout.
\* started, next and chunks are the entries of #started, #nextSequence and
\* #audioChunks; listening is that of #progress.
NoRequest ==
  [is |-> "none", unsent |-> FALSE, timer |-> FALSE, listening |-> FALSE, streaming |-> FALSE,
   started |-> FALSE, next |-> 0, chunks |-> 0, aborted |-> FALSE]

Pending == {i \in Ids : request[i].is = "pending"}
Method(i) == sent[i].method

\* The definitions named Slip... are not in Next: each is a plausible mistake in
\* the definition after it, for showing which property notices.

Init ==
  /\ Daemon!Init
  /\ program \in Programs /\ phase = "connect" /\ temp = FALSE
  /\ sent = <<>> /\ read = 0 /\ socket = "none" /\ closed = FALSE /\ failure = "none"
  /\ request = [i \in Ids |-> NoRequest]

-----------------------------------------------------------------------------
(* The daemon.                                                             *)

Notes(i) == Cardinality(About(said, i, "audio") \cup About(said, i, "progress"))

Speaks == socket = "open" /\ Len(said) - read < MaxTransit

DaemonAnswers(i) == Speaks /\ \E body \in Said : Daemon!Respond(i, body)

DaemonTakes == socket = "open" /\ Len(asked) < Len(sent) /\ Daemon!Ask(sent[Len(asked) + 1])

DaemonNotifies(i) ==
  /\ Speaks
  /\ Daemon!Start(i) \/ (Notes(i) < MaxNotes /\ (Daemon!Stream(i) \/ Daemon!Report(i)))

-----------------------------------------------------------------------------
(* Requests.                                                               *)

\* Slip: the timer goes on.
SlipTimerStays(k, how) ==
  [k EXCEPT !.is = how, !.listening = FALSE, !.streaming = FALSE,
            !.started = FALSE, !.next = 0, !.chunks = IF how = "ok" THEN @ ELSE 0]

\* How a request is settled; the finally block of a synthesis drops its entries,
\* that of an operation its listener.  The chunks of a result are what was heard.
Settled(k, how) ==
  [k EXCEPT !.is = how, !.timer = FALSE, !.listening = FALSE, !.streaming = FALSE,
            !.started = FALSE, !.next = 0, !.chunks = IF how = "ok" THEN @ ELSE 0]

\* Slip: only the requests that have a timer are rejected.
SlipFailTimed ==
  [i \in Ids |-> IF i \in Pending /\ request[i].timer THEN Settled(request[i], "error") ELSE request[i]]

\* #failAll
FailAll ==
  [i \in Ids |-> IF i \in Pending THEN Settled(request[i], "error") ELSE request[i]]

\* The methods that go through #operation wait for ever.
Timed(method) == method \notin OperationMethods

\* #requestWithId, and what synthesize and #operation keep for it.  What is
\* written to a destroyed socket fails later.
Ask(method, target, requests) ==
  LET i == Len(sent) + 1 IN
  /\ i \in Ids
  /\ sent' = Append(sent, [method |-> method, id |-> i, target |-> target, fault |-> "none"])
  /\ request' = [requests EXCEPT ![i] =
       [NoRequest EXCEPT !.is = "pending", !.unsent = socket = "destroyed",
                         !.timer = Timed(method), !.listening = ~Timed(method),
                         !.streaming = method = "speech.synthesize"]]

WriteFails(i) ==
  /\ i \in Pending /\ request[i].unsent
  /\ request' = [request EXCEPT ![i] = Settled(@, "error")]
  /\ UNCHANGED <<daemonVars, lineVars, programVars>>

Timeout(i) ==
  /\ i \in Pending /\ request[i].timer
  /\ request' = [request EXCEPT ![i] = Settled(@, "timeout")]
  /\ UNCHANGED <<daemonVars, lineVars, programVars>>

\* Slip: an abort cleans up at once.
SlipAbortForgets(i) ==
  /\ program.api /\ i \in Pending /\ request[i].streaming /\ ~request[i].aborted
  /\ Ask("speech.cancel", i, [request EXCEPT ![i].aborted = TRUE, ![i].streaming = FALSE])
  /\ UNCHANGED <<daemonVars, read, socket, closed, failure, programVars>>

\* The signal of a synthesis: a cancel, whose answer nobody waits for.
Abort(i) ==
  /\ program.api /\ i \in Pending /\ request[i].streaming /\ ~request[i].aborted
  /\ Ask("speech.cancel", i, [request EXCEPT ![i].aborted = TRUE])
  /\ UNCHANGED <<daemonVars, read, socket, closed, failure, programVars>>

-----------------------------------------------------------------------------
(* #handleMessage.                                                         *)

Keep == UNCHANGED <<socket, failure>>

\* #protocolFailure
ProtocolFailure ==
  /\ request' = FailAll /\ socket' = "destroyed"
  /\ failure' = IF failure = "none" THEN "protocol" ELSE failure

\* A response nobody waits for is ignored.
TakeResponse(m) ==
  /\ m.kind = "response" /\ Keep
  /\ request' =
       IF m.to \in Pending
         THEN [request EXCEPT ![m.to] =
                 Settled(@, IF m.body \in Results /\ (@.streaming => @.started) THEN "ok" ELSE "error")]
         ELSE request

TakeProgress(m) ==
  /\ m.kind = "progress" /\ Keep
  /\ request' = IF request[m.to].listening THEN [request EXCEPT ![m.to].chunks = @ + 1] ELSE request

\* An announcement is kept even when nobody waits for the synthesis.
TakeStarted(m) ==
  /\ m.kind = "started"
  /\ IF request[m.to].started THEN ProtocolFailure
     ELSE request' = [request EXCEPT ![m.to].started = TRUE] /\ Keep

\* Slip: a chunk replaces the one before.
SlipHearOnce(m) ==
  /\ m.kind = "audio"
  /\ IF ~request[m.to].streaming \/ m.sequence # request[m.to].next \/ ~request[m.to].started
       THEN ProtocolFailure
       ELSE /\ request' = [request EXCEPT ![m.to].next = @ + 1, ![m.to].chunks = 1]
            /\ Keep

TakeAudio(m) ==
  /\ m.kind = "audio"
  /\ IF ~request[m.to].streaming \/ m.sequence # request[m.to].next \/ ~request[m.to].started
       THEN ProtocolFailure
       ELSE /\ request' = [request EXCEPT ![m.to].next = @ + 1, ![m.to].chunks = @ + 1]
            /\ Keep

\* A line of the connection.  After a protocol failure #handleData goes through
\* what is left of its chunk, but every request has been rejected by then: it
\* settles nothing (a listener may hear of progress once more), so it counts as
\* not read.
Receive ==
  /\ socket = "open" /\ read < Len(said)
  /\ read' = read + 1
  /\ LET m == said[read'] IN
       TakeResponse(m) \/ TakeProgress(m) \/ TakeStarted(m) \/ TakeAudio(m)
  /\ UNCHANGED <<daemonVars, sent, closed, programVars>>

\* "close" or "error" of the socket: the daemon is gone.
ConnectionLost ==
  /\ socket = "open"
  /\ socket' = "destroyed" /\ request' = FailAll
  /\ failure' = IF failure = "none" THEN "lost" ELSE failure
  /\ UNCHANGED <<daemonVars, sent, read, closed, programVars>>

-----------------------------------------------------------------------------
(* The program: connect(), withClient, and the commands of cli.ts.         *)

Connect ==
  /\ phase = "connect"
  /\ phase' = "greet" /\ socket' = "open"
  /\ Ask("initialize", 0, request)
  /\ UNCHANGED <<daemonVars, read, closed, failure, program, temp>>

ConnectFails ==
  /\ phase = "connect"
  /\ phase' = "failed"
  /\ UNCHANGED <<daemonVars, lineVars, request, program, temp>>

\* close(), at the end of the program.
Close(end) ==
  /\ phase' = end
  /\ closed' = TRUE /\ socket' = "destroyed" /\ request' = FailAll
  /\ UNCHANGED <<daemonVars, sent, read, failure, program>>

Failed(i) == request[i].is \in {"error", "timeout"}

Greeted ==
  /\ phase = "greet" /\ request[1].is = "ok"
  /\ phase' = "call"
  /\ UNCHANGED <<daemonVars, lineVars, request, program, temp>>

GreetingFails ==
  /\ phase = "greet" /\ Failed(1)
  /\ Close("failed") /\ UNCHANGED temp

Made == {i \in DOMAIN sent : Method(i) \notin {"initialize", "speech.cancel"}}
AllMade == Cardinality(Made) = Len(program.calls)
Succeeded == AllMade /\ \A i \in Made : request[i].is = "ok"

Call ==
  /\ phase = "call" /\ ~AllMade
  /\ program.api \/ \A i \in Made : request[i].is = "ok"
  /\ Ask(program.calls[Cardinality(Made) + 1], 0, request)
  /\ UNCHANGED <<daemonVars, read, socket, closed, failure, programVars>>

\* A command ends with its first failure, another user when all is settled.
CallsFail ==
  /\ phase = "call"
  /\ \E i \in Made : Failed(i)
  /\ program.api => AllMade /\ Made \cap Pending = {}
  /\ Close("failed") /\ UNCHANGED temp

\* The results are written out, which may fail; then the client is closed.
CallsSucceed ==
  /\ phase = "call" /\ Succeeded
  /\ Close("failed") \/ (~program.play /\ Close("done"))
  /\ UNCHANGED temp

\* playAudio: its directory, the audio in it, and pw-play.
Play ==
  /\ phase = "call" /\ Succeeded /\ program.play
  /\ phase' = "play" /\ temp' = TRUE
  /\ UNCHANGED <<daemonVars, lineVars, request, program>>

PlayEnds ==
  /\ phase = "play"
  /\ temp' = FALSE
  /\ Close("done") \/ Close("failed")

Over == phase \in {"done", "failed"} /\ UNCHANGED vars

Proceed ==
  \/ Connect \/ ConnectFails
  \/ Greeted \/ GreetingFails
  \/ Call \/ CallsFail \/ CallsSucceed
  \/ Play \/ PlayEnds

DaemonSteps(i) ==
  (DaemonAnswers(i) \/ DaemonNotifies(i)) /\ UNCHANGED <<lineVars, request, programVars>>
DaemonReads == DaemonTakes /\ UNCHANGED <<lineVars, request, programVars>>

Next ==
  \/ Proceed
  \/ DaemonReads
  \/ Receive
  \/ ConnectionLost
  \/ \E i \in Ids : DaemonSteps(i) \/ WriteFails(i) \/ Timeout(i) \/ Abort(i)
  \/ Over

Spec == Init /\ [][Next]_vars

\* Callbacks run, timers fire, a player ends, and the daemon takes what is sent
\* to it and answers it (DaemonServer EveryRequestAnswered) unless the
\* connection is lost.
FairSpec ==
  /\ Spec
  /\ WF_vars(Proceed) /\ WF_vars(DaemonReads) /\ WF_vars(Receive)
  /\ \A i \in Ids :
       /\ WF_vars(WriteFails(i)) /\ WF_vars(Timeout(i))
       /\ WF_vars(DaemonAnswers(i) /\ UNCHANGED <<lineVars, request, programVars>>)

-----------------------------------------------------------------------------
(* Properties.                                                             *)

\* The variables have their types; only a request in progress has a timer or an
\* entry in a map, and a closed client has none in progress.
TypeOK ==
  /\ program \in Programs
  /\ phase \in {"connect", "greet", "call", "play", "done", "failed"}
  /\ Len(asked) <= Len(sent) /\ read <= Len(said) /\ said \in Seq(Message)
  /\ socket \in {"none", "open", "destroyed"} /\ failure \in {"none", "protocol", "lost"}
  /\ \A i \in Ids :
       /\ request[i].is \in {"none", "pending", "ok", "error", "timeout"}
       /\ (request[i].is = "none") = (i > Len(sent))
       /\ i \notin Pending => ~request[i].timer /\ ~request[i].listening /\ ~request[i].streaming
  /\ closed => Pending = {} /\ socket = "destroyed"
  /\ temp \in BOOLEAN

\* A client never takes what a proper daemon says for a protocol failure, which
\* would fail all its requests, whatever it has aborted and however the messages
\* interleave, unless a synthesis has timed out before (rpc-client.ts
\* #handleMessage).
NoFailureWithoutTimeout ==
  failure = "protocol" =>
    \E i \in DOMAIN sent : Method(i) = "speech.synthesize" /\ request[i].is = "timeout"

\* A synthesis that succeeds returns every chunk the daemon has sent of it, and
\* an operation has reported every progress (rpc-client.ts synthesize, #operation).
HeardEverything ==
  \A i \in DOMAIN sent :
    Method(i) \in TaskMethods /\ request[i].is = "ok" => request[i].chunks = Notes(i)

\* A program ends, and leaves no directory behind, also when its connection is
\* lost during an operation, which has no timeout (cli.ts withClient, audio.ts).
ProgramEnds == <>(phase \in {"done", "failed"} /\ ~temp)
=============================================================================
