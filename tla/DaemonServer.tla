---------------------------- MODULE DaemonServer ----------------------------
(***************************************************************************)
(* apps/daemon/src/server.ts with the synthesis service of                 *)
(* engine-synthesis.ts: the connections of the daemon's Unix socket, the   *)
(* calls their frames start, the chain of writes of each connection, and   *)
(* close().                                                                *)
(*                                                                         *)
(* Node runs a callback, and what follows an await, to its end before the  *)
(* next one: such a stretch is one action.  A call is <<c, i>>, the i-th   *)
(* frame of connection c.  The product services (ProductState) and the     *)
(* engine behind its client (EngineClient) are taken by their outcomes.    *)
(***************************************************************************)
EXTENDS DaemonMessages, FiniteSets, SequencesExt

CONSTANTS
  Conns,        \* connections
  Scripts,      \* what the clients may send: frame sequences, one for each connection
  MaxChunks,    \* bound on the audio of a synthesis
  MaxProgress,  \* bound on the progress messages of an operation
  Stops         \* TRUE: close() may be called

ASSUME DaemonAssumption ==
  /\ Scripts \subseteq [Conns -> Seq([method : Methods, id : Nat, target : Nat,
                                     fault : Faults \cup {"none"}])]
  /\ MaxChunks \in Nat /\ MaxProgress \in Nat /\ Stops \in BOOLEAN

VARIABLES
  script,    \* what the clients will say, never changed
  link,      \* link[c]: the socket, see Links
  asked,     \* asked[c]: the frames taken up
  ready,     \* state.initialized
  queue,     \* the messages in the chain "writes" that the socket has not taken
  broken,    \* the chain is rejected: no later write is tried
  said,      \* what the socket has taken
  call,      \* call[r]: see Calls
  engine,    \* the synthesis the engine works on, or Idle, or Down
  stop,      \* where close() is
  waits,     \* the calls close() waits for
  crashed    \* an exception nobody caught has ended the process

connVars == <<script, link, asked, ready>>
writeVars == <<queue, broken, said>>
stopVars == <<stop, waits>>
vars == <<connVars, writeVars, call, engine, stopVars, crashed>>

\* "left": the client has gone and the daemon has not noticed.  "ended": the
\* daemon has called end().  "destroyed": it has called destroy(), and "close"
\* is still to come.
Links == {"none", "open", "left", "ended", "destroyed", "gone"}

Calls == UNION {{c} \X DOMAIN s[c] : c \in Conns, s \in Scripts}

Idle == <<"idle", 0>>
Down == <<"down", 0>>

\* task is the call's entry in "active": "none", "active", or "dropped" when the
\* whole map of a closed socket was deleted.  aborted is its signal, cancels the
\* engine cancels it has sent, lease the model and voice leases it holds.  late is
\* an observation: it was started after close() was called.
NoCall == [pc |-> "none", task |-> "none", aborted |-> FALSE, cancels |-> 0,
           chunks |-> 0, lease |-> FALSE, late |-> FALSE]

Frame(r) == asked[r[1]][r[2]]
Unfinished == {r \in Calls : call[r].task # "none"}

\* The definitions named Slip... are not in Next: each is a plausible mistake in
\* the definition after it, for showing which property notices.

Init ==
  /\ script \in Scripts
  /\ link = [c \in Conns |-> "none"] /\ asked = [c \in Conns |-> <<>>]
  /\ ready = [c \in Conns |-> FALSE]
  /\ queue = [c \in Conns |-> <<>>] /\ broken = [c \in Conns |-> FALSE]
  /\ said = [c \in Conns |-> <<>>]
  /\ call = [r \in Calls |-> NoCall]
  /\ engine = Idle /\ stop = "no" /\ waits = {} /\ crashed = FALSE

-----------------------------------------------------------------------------
(* The chain of writes of a connection.                                    *)

\* write(message): await says whether the caller awaits the promise.
Put(r, message, await) ==
  /\ queue' = [queue EXCEPT ![r[1]] = Append(@, [message |-> message, await |-> await])]
  /\ UNCHANGED <<broken, said>>

\* Slip: the task of a call that is over stays in the map.
SlipTaskStays(k) == [k EXCEPT !.pc = "done", !.lease = FALSE]

\* What a call does when its awaited write is done: a synthesis that has
\* announced itself runs, the call that refused the connection ends it, every
\* other call is over, and its task with it.
Over(k) == [k EXCEPT !.pc = "done", !.task = "none", !.lease = FALSE]
Written(k) ==
  CASE k.pc = "begin" -> [k EXCEPT !.pc = "run"]
    [] k.pc = "last"  -> [k EXCEPT !.pc = "end"]
    [] OTHER          -> Over(k)

\* The socket takes the message at the head of the chain.
Flush(c) ==
  /\ queue[c] # <<>> /\ ~broken[c] /\ link[c] = "open"
  /\ said' = [said EXCEPT ![c] = Append(@, Head(queue[c]).message)]
  /\ queue' = [queue EXCEPT ![c] = Tail(@)]
  /\ call' = IF Head(queue[c]).await
               THEN [call EXCEPT ![<<c, Head(queue[c]).message.to>>] = Written(@)]
               ELSE call
  /\ UNCHANGED <<connVars, broken, engine, stopVars, crashed>>

Awaiting(c) == {<<c, queue[c][k].message.to>> : k \in {j \in DOMAIN queue[c] : queue[c][j].await}}

\* The refusal of a line that is too long is followed by a finally, not a catch.
Unheard(r) == call[r].pc = "last" /\ Frame(r).fault = "too_long"

\* Slip: the rejection of a response is swallowed, and its call stays.
SlipCallStays(c) ==
  /\ queue[c] # <<>>
  /\ broken[c] \/ link[c] \in {"destroyed", "gone"}
  /\ broken' = [broken EXCEPT ![c] = TRUE]
  /\ queue' = [queue EXCEPT ![c] = <<>>]
  /\ crashed' = ~Last(queue[c]).await
  /\ UNCHANGED <<connVars, said, call, engine, stopVars>>

\* A result is written inside a try: when that fails, an error is written in its
\* place, which fails too, and chains on to whatever was written last.
TriesAgain(c, item) ==
  /\ item.await /\ item.message.kind = "response" /\ item.message.body = "ok"
  /\ Frame(<<c, item.message.to>>).method \in ServiceMethods \cup TaskMethods

\* A write on a destroyed socket fails, and with it every later one of the
\* chain.  The calls that await one fail and destroy the socket; a rejection
\* that nobody handles, and no later write has chained on, ends the process.
FailWrites(c) ==
  /\ queue[c] # <<>>
  /\ broken[c] \/ link[c] \in {"destroyed", "gone"}
  /\ broken' = [broken EXCEPT ![c] = TRUE]
  /\ queue' = [queue EXCEPT ![c] = <<>>]
  /\ call' = [r \in Calls |-> IF r \in Awaiting(c) THEN Over(call[r]) ELSE call[r]]
  /\ crashed' = \/ ~Last(queue[c]).await /\ ~\E item \in ToSet(queue[c]) : TriesAgain(c, item)
                \/ \E r \in Awaiting(c) : Unheard(r)
  /\ UNCHANGED <<connVars, said, engine, stopVars>>

\* A write that meets the end of the connection, the client's or our own, makes
\* the socket emit "error", and nobody listens to it.
WriteMeetsTheEnd(c) ==
  /\ queue[c] # <<>> /\ ~broken[c] /\ link[c] \in {"left", "ended"}
  /\ crashed' = TRUE
  /\ UNCHANGED <<connVars, writeVars, call, engine, stopVars>>

-----------------------------------------------------------------------------
(* Sockets.                                                                *)

\* abort() on the controllers of a set of tasks: the listener of a synthesis
\* that streams sends the engine one cancel.
Abort(calls) ==
  [r \in Calls |->
     IF r \in calls /\ ~call[r].aborted
       THEN [call[r] EXCEPT !.aborted = TRUE,
                            !.cancels = IF call[r].pc = "stream" THEN @ + 1 ELSE @]
       ELSE call[r]]

Active(c) == {r \in Calls : r[1] = c /\ call[r].task = "active"}

\* A connection that comes while close() runs is destroyed at once.  A client
\* with nothing to say does not connect.
Connect(c) ==
  /\ link[c] = "none" /\ stop # "closed"
  /\ script[c] # <<>>
  /\ link' = [link EXCEPT ![c] = IF stop = "no" THEN "open" ELSE "gone"]
  /\ UNCHANGED <<script, asked, ready, writeVars, call, engine, stopVars, crashed>>

ClientLeaves(c) ==
  /\ link[c] \in {"open", "ended"}
  /\ link' = [link EXCEPT ![c] = "left"]
  /\ UNCHANGED <<script, asked, ready, writeVars, call, engine, stopVars, crashed>>

Drop(c, calls) ==
  [r \in Calls |-> IF r[1] = c /\ calls[r].task = "active"
                     THEN [calls[r] EXCEPT !.task = "dropped"] ELSE calls[r]]

\* The socket's "close" event.
SocketCloses(c) ==
  /\ link[c] \in {"left", "destroyed"}
  /\ link' = [link EXCEPT ![c] = "gone"]
  /\ call' = Drop(c, Abort(Active(c)))
  /\ UNCHANGED <<script, asked, ready, writeVars, engine, stopVars, crashed>>

\* socket.end() or destroy() after the answer of a call that ends its connection.
EndSocket(r) ==
  /\ call[r].pc = "end"
  /\ call' = [call EXCEPT ![r] = Over(@)]
  /\ link' = [link EXCEPT ![r[1]] =
                IF @ # "open" THEN @
                ELSE IF Frame(r).fault = "too_long" THEN "destroyed" ELSE "ended"]
  /\ UNCHANGED <<script, asked, ready, writeVars, engine, stopVars, crashed>>

-----------------------------------------------------------------------------
(* dispatchLine: what a frame does before its first await.                 *)

\* The daemon takes up frame f of c as call r.
Takes(r, f) ==
  LET c == r[1] IN
  /\ link[c] \in {"open", "ended"}
  /\ r[2] = Len(asked[c]) + 1
  /\ asked' = [asked EXCEPT ![c] = Append(@, f)]
  /\ UNCHANGED <<script, link, engine, stopVars, crashed>>

\* Answer at once; pc is where the call waits for the write.
Reply(r, body, pc) ==
  /\ Put(r, Response(r[2], body), TRUE)
  /\ call' = [call EXCEPT ![r].pc = pc]

\* A line that is no request: too long, no JSON, no JSON-RPC.  A line that is too
\* long and has not ended stays in the buffer: each chunk that makes it longer is
\* refused again, a frame of its own in the script.
TakeGarbage(r, f) ==
  /\ Takes(r, f)
  /\ f.fault \in {"too_long", "parse_error", "invalid_request"}
  /\ Reply(r, f.fault, IF f.fault = "too_long" THEN "last" ELSE "reply")
  /\ UNCHANGED ready

IsRequest(f) == f.fault \notin {"too_long", "parse_error", "invalid_request"}

\* The first request must be a valid initialize; anything else ends the connection.
TakeFirst(r, f) ==
  /\ Takes(r, f)
  /\ IsRequest(f) /\ ~ready[r[1]]
  /\ IF f.method # "initialize" THEN Reply(r, "uninitialized", "last") /\ UNCHANGED ready
     ELSE IF f.fault # "none" THEN Reply(r, f.fault, "last") /\ UNCHANGED ready
     ELSE Reply(r, "ok", "reply") /\ ready' = [ready EXCEPT ![r[1]] = TRUE]

Dispatches(r, f) ==
  /\ Takes(r, f)
  /\ IsRequest(f) /\ ready[r[1]]
  /\ UNCHANGED ready

\* The schema, and a second initialize, which the switch does not know.
TakeRefused(r, f) ==
  /\ Dispatches(r, f)
  /\ f.fault # "none" \/ f.method = "initialize"
  /\ Reply(r, IF f.fault = "none" THEN "method_not_found" ELSE f.fault, "reply")

Good(f) == f.fault = "none"

TakeDiagnostics(r, f) ==
  /\ Dispatches(r, f) /\ Good(f) /\ f.method = "diagnostics.get"
  /\ Reply(r, "ok", "reply")

\* createStatus and respondWith await a service before they answer.
TakeQuery(r, f) ==
  /\ Dispatches(r, f) /\ Good(f) /\ f.method \in ServiceMethods \cup {"daemon.status"}
  /\ call' = [call EXCEPT ![r].pc = "serve"]
  /\ UNCHANGED writeVars

\* Slip: nobody looks whether the id is in use.
SlipReuse(r, f) == FALSE

\* tasks.has(id), before r has a task itself.
IdInUse(r, f) == \E t \in Active(r[1]) : Frame(t).id = f.id

\* Slip: a request whose id is in use is dropped.
SlipDropDuplicate(r, f) ==
  /\ Dispatches(r, f) /\ Good(f) /\ f.method \in TaskMethods
  /\ IdInUse(r, f)
  /\ call' = [call EXCEPT ![r].pc = "done"]
  /\ UNCHANGED writeVars

TakeDuplicate(r, f) ==
  /\ Dispatches(r, f) /\ Good(f) /\ f.method \in TaskMethods
  /\ IdInUse(r, f)
  /\ Reply(r, "invalid_params", "reply")

StartTask(r, pc) ==
  call' = [call EXCEPT ![r].pc = pc, ![r].task = "active", ![r].late = stop # "no"]

\* voice.clone reports its first phase before it awaits anything.
TakeOperation(r, f) ==
  /\ Dispatches(r, f) /\ Good(f) /\ f.method \in OperationMethods
  /\ ~IdInUse(r, f)
  /\ StartTask(r, "operate")
  /\ IF f.method = "voice.clone" THEN Put(r, Progress(r[2]), FALSE) ELSE UNCHANGED writeVars

TakeSynthesis(r, f) ==
  /\ Dispatches(r, f) /\ Good(f) /\ f.method = "speech.synthesize"
  /\ ~IdInUse(r, f)
  /\ StartTask(r, "begin")
  /\ Put(r, Started(r[2]), TRUE)

\* speech.cancel reaches the synthesis of that id on its own connection only.
Cancelled(r, f) ==
  {t \in Active(r[1]) : Frame(t).id = f.target /\ Frame(t).method = "speech.synthesize"}

TakeCancel(r, f) ==
  /\ Dispatches(r, f) /\ Good(f) /\ f.method = "speech.cancel"
  /\ LET target == Cancelled(r, f) IN
       /\ call' = [Abort(target) EXCEPT ![r].pc = "reply"]
       /\ Put(r, Response(r[2], IF target = {} THEN "rejected" ELSE "accepted"), TRUE)

TakeFrame(r) ==
  /\ r[2] \in DOMAIN script[r[1]]
  /\ LET f == script[r[1]][r[2]] IN
    \/ TakeGarbage(r, f)
    \/ TakeFirst(r, f)
    \/ TakeRefused(r, f)
    \/ TakeDiagnostics(r, f)
    \/ TakeQuery(r, f)
    \/ TakeDuplicate(r, f)
    \/ TakeOperation(r, f)
    \/ TakeSynthesis(r, f)
    \/ TakeCancel(r, f)

-----------------------------------------------------------------------------
(* Services and operations.                                                *)

\* operationErrorResponse, by what the service's error says.
Causes == {"in_use", "extraction", "integrity", "other"}
OperationError(method, cause, aborted) ==
  CASE aborted -> "request_cancelled"
    [] ~aborted /\ cause = "in_use" -> "resource_busy"
    [] ~aborted /\ cause = "extraction" /\ method = "voice.clone" -> "voice_extraction_failed"
    [] ~aborted /\ cause = "integrity" -> "integrity_check_failed"
    [] OTHER -> "invalid_state"

Outcomes(r) ==
  {"ok"} \cup {OperationError(Frame(r).method, cause, call[r].aborted) : cause \in Causes}

\* createStatus swallows every error of its services.
AnswerQuery(r) ==
  /\ call[r].pc = "serve"
  /\ \E body \in IF Frame(r).method = "daemon.status" THEN {"ok"} ELSE Outcomes(r) :
       Reply(r, body, "reply")
  /\ UNCHANGED <<connVars, engine, stopVars, crashed>>

ReportProgress(r) ==
  /\ call[r].pc = "operate" /\ Frame(r).method = "model.install"
  /\ call[r].chunks < MaxProgress
  /\ call' = [call EXCEPT ![r].chunks = @ + 1]
  /\ Put(r, Progress(r[2]), FALSE)
  /\ UNCHANGED <<connVars, engine, stopVars, crashed>>

AnswerOperation(r) ==
  /\ call[r].pc = "operate"
  /\ \E body \in Outcomes(r) : Reply(r, body, "answer")
  /\ UNCHANGED <<connVars, engine, stopVars, crashed>>

-----------------------------------------------------------------------------
(* EngineSynthesisService.run, and the engine behind its client.           *)

\* synthesisErrorResponse.
SynthesisError(code, aborted) == IF aborted THEN "request_cancelled" ELSE code

\* run() settles: its finally block returns the leases, and the call answers.
Settle(r, body) ==
  /\ call' = [call EXCEPT ![r].pc = "answer", ![r].lease = FALSE]
  /\ Put(r, Response(r[2], body), TRUE)

\* acquireModel, then resolveVoice up to its await.  The error of acquireModel is
\* thrown outside the try: it keeps no code.
Run(r) ==
  /\ call[r].pc = "run"
  /\ \/ /\ call' = [call EXCEPT ![r].pc = "resolve", ![r].lease = TRUE]
        /\ UNCHANGED writeVars
     \/ Settle(r, SynthesisError("synthesis_failed", call[r].aborted))
  /\ UNCHANGED <<connVars, engine, stopVars, crashed>>

VoiceFails(r) ==
  /\ call[r].pc = "resolve"
  /\ \E code \in {"invalid_state", "resource_busy", "synthesis_failed"} :
       Settle(r, SynthesisError(code, call[r].aborted))
  /\ UNCHANGED <<connVars, engine, stopVars, crashed>>

\* Slip: a signal that was aborted before is not looked at.
SlipListenOnly(r) ==
  /\ call[r].pc = "resolve"
  /\ call' = [call EXCEPT ![r].pc = "stream"]
  /\ engine' = IF engine = Idle THEN r ELSE engine
  /\ UNCHANGED <<connVars, writeVars, stopVars, crashed>>

\* The voice is resolved: startSynthesis, and a cancel right after it when the
\* signal was aborted in the meantime.  An engine that is busy refuses.
StartSynthesis(r) ==
  /\ call[r].pc = "resolve"
  /\ call' = [call EXCEPT ![r].pc = "stream", ![r].cancels = IF call[r].aborted THEN 1 ELSE 0]
  /\ engine' = IF engine = Idle THEN r ELSE engine
  /\ UNCHANGED <<connVars, writeVars, stopVars, crashed>>

\* onAudio -> onChunk -> void write(...)
StreamChunk(r) ==
  /\ call[r].pc = "stream" /\ engine = r /\ call[r].chunks < MaxChunks
  /\ call' = [call EXCEPT ![r].chunks = @ + 1]
  /\ Put(r, Audio(r[2], call[r].chunks), FALSE)
  /\ UNCHANGED <<connVars, engine, stopVars, crashed>>

\* The engine answers; it says "cancelled" only of what it was told to cancel.
EngineAnswers(r) ==
  /\ call[r].pc = "stream" /\ engine = r
  /\ \/ Settle(r, "ok")
     \/ Settle(r, SynthesisError("synthesis_failed", call[r].aborted))
  /\ engine' = Idle
  /\ UNCHANGED <<connVars, stopVars, crashed>>

\* The request is refused by a busy engine, or rejected because the client's
\* session is over.
EngineRefuses(r) ==
  /\ call[r].pc = "stream" /\ engine # r
  /\ \E code \in IF engine = Down THEN {"synthesis_failed"} ELSE {"resource_busy"} :
       Settle(r, SynthesisError(code, call[r].aborted))
  /\ UNCHANGED <<connVars, engine, stopVars, crashed>>

\* requestTimeoutMs: the client stops listening, the engine works on.
EngineTimesOut(r) ==
  /\ call[r].pc = "stream" /\ engine = r
  /\ Settle(r, SynthesisError("synthesis_failed", call[r].aborted))
  /\ UNCHANGED <<connVars, engine, stopVars, crashed>>

\* A crash, or a message of a request that nobody waits for: the client gives
\* its session up.
EngineFails ==
  /\ engine # Down
  /\ engine' = Down
  /\ UNCHANGED <<connVars, writeVars, call, stopVars, crashed>>

-----------------------------------------------------------------------------
(* close()                                                                 *)

\* Slip: close() does not look at what is active.
SlipWaitForNothing ==
  /\ Stops /\ stop = "no"
  /\ stop' = "waiting" /\ waits' = {}
  /\ call' = Abort(UNION {Active(c) : c \in Conns})
  /\ UNCHANGED <<connVars, writeVars, engine, crashed>>

Close ==
  /\ Stops /\ stop = "no"
  /\ stop' = "waiting" /\ waits' = Unfinished
  /\ call' = Abort(UNION {Active(c) : c \in Conns})
  /\ UNCHANGED <<connVars, writeVars, engine, crashed>>

TasksSettled ==
  /\ stop = "waiting" /\ \A r \in waits : call[r].task = "none"
  /\ stop' = "sockets"
  /\ link' = [c \in Conns |-> IF link[c] \in {"none", "gone"} THEN link[c] ELSE "destroyed"]
  /\ UNCHANGED <<script, asked, ready, writeVars, call, engine, waits, crashed>>

\* serverClosed: every socket has closed.  synthesis.close() follows.
ServerClosed ==
  /\ stop = "sockets" /\ \A c \in Conns : link[c] \in {"none", "gone"}
  /\ stop' = "engine"
  /\ UNCHANGED <<connVars, writeVars, call, engine, waits, crashed>>

\* The engine has shut down; the socket's path is unlinked.
EngineClosed ==
  /\ stop = "engine"
  /\ engine' = Down /\ stop' = "closed"
  /\ UNCHANGED <<connVars, writeVars, call, waits, crashed>>

-----------------------------------------------------------------------------
\* A call goes on.
Advance(r) ==
  \/ EndSocket(r)
  \/ AnswerQuery(r)
  \/ AnswerOperation(r)
  \/ Run(r)
  \/ VoiceFails(r)
  \/ StartSynthesis(r)
  \/ EngineAnswers(r)
  \/ EngineRefuses(r)

\* The socket does what is due.
Serve(c) == SocketCloses(c) \/ Flush(c) \/ FailWrites(c) \/ WriteMeetsTheEnd(c)

Stopping == TasksSettled \/ ServerClosed \/ EngineClosed

Step ==
  \/ \E c \in Conns : Connect(c) \/ ClientLeaves(c) \/ Serve(c)
  \/ \E r \in Calls :
       \/ TakeFrame(r)
       \/ Advance(r)
       \/ ReportProgress(r)
       \/ StreamChunk(r)
       \/ EngineTimesOut(r)
  \/ EngineFails
  \/ Close
  \/ Stopping

\* The process has ended, or nothing keeps it running.
Ended == (crashed \/ stop = "closed") /\ UNCHANGED vars

Next == (~crashed /\ Step) \/ Ended

Spec == Init /\ [][Next]_vars

\* Node runs what is due, services and the engine answer or time out, and a
\* client that stays takes what is written to it.  No client owes a frame.
Fairness ==
  /\ \A c \in Conns : WF_vars(~crashed /\ Serve(c))
  /\ \A r \in Calls : WF_vars(~crashed /\ Advance(r))
  /\ WF_vars(~crashed /\ Stopping)

FairSpec == Spec /\ Fairness

-----------------------------------------------------------------------------
(* Properties.                                                             *)

\* The variables have their types; a call that has not begun or is over holds
\* nothing.
TypeOK ==
  /\ script \in Scripts
  /\ link \in [Conns -> Links] /\ ready \in [Conns -> BOOLEAN]
  /\ broken \in [Conns -> BOOLEAN]
  /\ \A c \in Conns :
       /\ IsPrefix(asked[c], script[c])
       /\ said[c] \in Seq(Message)
       /\ queue[c] \in Seq([message : Message, await : BOOLEAN])
  /\ \A r \in Calls :
       /\ call[r].pc \in {"none", "reply", "last", "end", "serve", "begin", "run", "resolve",
                          "stream", "operate", "answer", "done"}
       /\ (call[r].pc = "none") = (r[2] > Len(asked[r[1]]))
       /\ call[r].pc \in {"none", "done"} => call[r].task = "none" /\ ~call[r].lease
  /\ engine \in Calls \cup {Idle, Down}
  /\ stop \in {"no", "waiting", "sockets", "engine", "closed"}
  /\ waits \subseteq Calls /\ crashed \in BOOLEAN

\* Each connection keeps DaemonConnection: whatever is interleaved, cancelled or
\* sent twice, a frame gets at most one response, a synthesis is announced, then
\* streamed in order, then answered, and nothing is served before initialize
\* (server.ts dispatchLine, runSynthesis, runOperation and the chain of writes).
Connection(c) ==
  INSTANCE DaemonConnection WITH
    Frames <- UNION {ToSet(s[c]) : s \in Scripts}, asked <- asked[c], said <- said[c]
ImplementsConnection ==
  /\ \A c \in Conns : Connection(c)!Init
  /\ [][\A c \in Conns : [Connection(c)!Next]_(Connection(c)!vars)]_vars

\* What the engine works on for a call in progress is leased, and has been
\* cancelled exactly once if the call was cancelled, also when that was before
\* there was a synthesis to cancel; a task whose client is gone, and one that
\* close() waits for, has been told (engine-synthesis.ts run, server.ts close).
WorkIsAccounted ==
  \A r \in Calls :
    /\ call[r].pc = "stream" =>
         call[r].lease /\ call[r].cancels = (IF call[r].aborted THEN 1 ELSE 0)
    /\ call[r].task # "none" /\ (link[r[1]] = "gone" \/ (stop # "no" /\ ~call[r].late))
         => call[r].aborted

\* When close() comes to the engine, every task is over that had been started
\* when close() was called (server.ts close).
EngineStopsLast ==
  stop \in {"engine", "closed"} =>
    \A r \in Calls : call[r].task # "none" => call[r].late

\* A client that disconnects does not end the daemon.
SurvivesDisconnect == ~crashed

\* Every request is answered unless its connection ends first: as clients say
\* only so much, there comes a time when nothing is owed (server.ts
\* dispatchLine).
Owed == {r \in Calls : call[r].pc # "none" /\ link[r[1]] = "open" /\ ~Answered(said[r[1]], r[2])}
EveryRequestAnswered == []<>(Owed = {} \/ crashed)

\* close() ends, whatever the tasks are doing and the clients say, if those that
\* stay take what is written to them (server.ts close).
CloseEnds == (stop # "no") ~> (stop = "closed" \/ crashed)
=============================================================================
