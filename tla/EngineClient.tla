---------------------------- MODULE EngineClient ----------------------------
(***************************************************************************)
(* packages/engine-client/src/client.ts: one EngineClient, its child       *)
(* process and the two pipes between them.  What the child says is any     *)
(* behavior of EngineService, which EngineServer is proved to implement;   *)
(* the child may also die at any moment, and then the part of its output   *)
(* that was not yet in the pipe is lost.                                   *)
(*                                                                         *)
(* A JavaScript callback runs to its end before the next one, so each      *)
(* event handler and each continuation of an awaiting function is one      *)
(* action.                                                                 *)
(***************************************************************************)
EXTENDS EngineMessages, FiniteSets

CONSTANTS
  MaxRequests,   \* bound on the requests of a session
  MaxAudio,      \* bound on the audio messages of one synthesis
  Asks,          \* the methods the client's user calls
  Said           \* the response bodies the engine uses

ASSUME ClientAssumption ==
  /\ MaxRequests \in Nat /\ MaxAudio \in Nat
  /\ Asks \subseteq Methods /\ Said \subseteq Bodies

VARIABLES
  asked, log, current, outputClosed,   \* the engine: see EngineService
  child,        \* "running" or "dead"
  piped,        \* of a dead child: how many messages it left in the pipe
  received,     \* messages the client has taken out of stdout
  pending,      \* #pending: the ids of the requests in progress
  streams,      \* #synthesisStreams: id -> [started, nextSequence]
  closed,       \* #closed
  failure,      \* why the session was given up: the first reason only
  closeSeen,    \* the child's "close" event was handled
  stdinEnded,   \* child.stdin.end() was called
  signal,       \* the last signal sent to the child
  outcome,      \* outcome[id]: how the promise of request id was settled
  heard,        \* heard[id]: how often onAudio was called for id
  spawning,     \* where EngineClient.spawn() is
  shutdown,     \* where shutdown() is: its promise is made once and shared
  shutdownId    \* the id of the engine.shutdown request

engineVars == <<asked, log, current, outputClosed>>
childVars == <<child, piped, signal>>
sessionVars == <<pending, streams, closed, failure, outcome>>
callVars == <<spawning, shutdown, shutdownId, stdinEnded>>
vars == <<engineVars, childVars, received, sessionVars, closeSeen, heard, callVars>>

Ids == 1 .. MaxRequests

Engine == INSTANCE EngineService WITH Requests <- Ids, closed <- outputClosed

NoStreams == <<>>

\* The definitions named Slip... are not in Next: each is a plausible mistake in
\* the definition after it, for showing which property notices.

Init ==
  /\ Engine!Init
  /\ child = "running" /\ piped = 0 /\ signal = "none"
  /\ received = 0
  /\ pending = {} /\ streams = NoStreams
  /\ closed = FALSE /\ failure = "none" /\ closeSeen = FALSE
  /\ outcome = [id \in Ids |-> "none"] /\ heard = [id \in Ids |-> 0]
  /\ spawning = "initialize" /\ shutdown = "none" /\ shutdownId = NoId
  /\ stdinEnded = FALSE

-----------------------------------------------------------------------------
(* The child process: external to client.ts.                               *)

EngineSteps ==
  /\ child = "running"
  /\ \/ \E id \in Ids, body \in Said : Engine!Reply(id, body)
     \/ \E id \in Ids : Engine!Accept(id)
     \/ Engine!StartStream
     \/ current.next < MaxAudio /\ Engine!StreamAudio
     \/ \E body \in JobOutcomes \cap Said : Engine!Finish(body)
     \/ Engine!Close
  /\ UNCHANGED <<childVars, received, sessionVars, closeSeen, heard, callVars>>

ChildExits ==
  /\ child = "running" /\ outputClosed
  /\ child' = "dead" /\ piped' = Len(log)
  /\ UNCHANGED <<engineVars, signal, received, sessionVars, closeSeen, heard, callVars>>

\* A crash, or the end that a signal makes.
ChildDies ==
  /\ child = "running"
  /\ child' = "dead"
  /\ piped' \in received .. Len(log)
  /\ UNCHANGED <<engineVars, signal, received, sessionVars, closeSeen, heard, callVars>>

Readable == IF child = "running" THEN Len(log) ELSE piped

-----------------------------------------------------------------------------
(* Requests.                                                               *)

Drop(id) == [i \in DOMAIN streams \ {id} |-> streams[i]]

Settle(id, how) ==
  /\ pending' = pending \ {id}
  /\ outcome' = [outcome EXCEPT ![id] = how]

\* #fail: every request in progress is rejected.
FailAll(ids) ==
  /\ pending' = {}
  /\ outcome' = [id \in Ids |-> IF id \in ids THEN "failed" ELSE outcome[id]]
  /\ streams' = NoStreams

\* kill() does nothing to a process that is gone, nor after SIGKILL.
Terminate == signal' = IF child = "running" /\ signal = "none" THEN "term" ELSE signal

\* #abortSession on an open session.
Abort(reason, ids) ==
  /\ closed' = TRUE
  /\ failure' = reason
  /\ FailAll(ids)
  /\ Terminate

NextId == Len(asked) + 1

Write(method) ==
  /\ NextId <= MaxRequests
  /\ asked' = Append(asked, [method |-> method, target |-> NoId, fault |-> "none",
                             seen |-> 0])
  /\ UNCHANGED <<log, current, outputClosed>>

Stream == [started |-> FALSE, nextSequence |-> 0]

\* #requestWithId, and startSynthesis for a synthesis.
Request(method) ==
  /\ ~closed /\ ~stdinEnded
  /\ Write(method)
  /\ pending' = pending \cup {NextId}
  /\ streams' = IF method = "speech.synthesize"
                  THEN [i \in DOMAIN streams \cup {NextId} |->
                          IF i = NextId THEN Stream ELSE streams[i]]
                  ELSE streams
  /\ UNCHANGED <<childVars, received, closed, failure, outcome, closeSeen, heard>>

SpawnRequests ==
  /\ spawning = "initialize" /\ Len(asked) = 0
  /\ Request("initialize")
  /\ UNCHANGED callVars

UserRequests(method) ==
  /\ spawning = "done"
  /\ Request(method)
  /\ UNCHANGED callVars

\* A write after stdin.end() makes stdin emit an error: the session is given up.
UserRequestsTooLate(method) ==
  /\ spawning = "done"
  /\ ~closed /\ stdinEnded
  /\ Write(method)
  /\ Abort("stdin", pending \cup {NextId})
  /\ UNCHANGED <<child, piped, received, closeSeen, heard, callVars>>

\* Slip: a timed-out synthesis keeps its stream.
SlipTimeoutKeepsStream(id) ==
  /\ id \in pending
  /\ Settle(id, "timeout")
  /\ UNCHANGED <<engineVars, childVars, received, streams, closed, failure, closeSeen,
                 heard, callVars>>

\* Slip: the promise is rejected, but its entries stay in the maps.
SlipTimeoutKeepsEntry(id) ==
  /\ id \in pending
  /\ outcome' = [outcome EXCEPT ![id] = "timeout"]
  /\ UNCHANGED <<engineVars, childVars, received, pending, streams, closed, failure,
                 closeSeen, heard, callVars>>

RequestTimesOut(id) ==
  /\ id \in pending
  /\ Settle(id, "timeout")
  /\ streams' = Drop(id)
  /\ UNCHANGED <<engineVars, childVars, received, closed, failure, closeSeen, heard,
                 callVars>>

-----------------------------------------------------------------------------
(* The child's events.                                                     *)

Line == log[received + 1]
HasLine == ~closed /\ received < Readable
ReadLine == HasLine /\ received' = received + 1

\* The handlers give up the session on a line they do not expect.
ProtocolFailure ==
  /\ Abort("protocol", pending)
  /\ UNCHANGED <<engineVars, child, piped, closeSeen, heard, callVars>>

LineHandled ==
  UNCHANGED <<engineVars, childVars, closed, failure, closeSeen, callVars>>

IsResult(body) == body \in {"ok", "accepted", "rejected"}

\* pending.resultSchema accepts the result.
ResultFits(id, body) == (body # "ok") = (asked[id].method = "speech.cancel")

\* Slip: a refused synthesis is expected to have started, too.
SlipRefusalNeedsStart ==
  /\ Line.id \in pending
  /\ IsResult(Line.body) => ResultFits(Line.id, Line.body)
  /\ Line.id \in DOMAIN streams => streams[Line.id].started

\* What handleResponse lets pass.
ResponseExpected ==
  /\ Line.id \in pending
  /\ IsResult(Line.body) =>
       /\ ResultFits(Line.id, Line.body)
       /\ Line.id \in DOMAIN streams => streams[Line.id].started

HandleResponse ==
  /\ ReadLine /\ Line.kind = "response"
  /\ IF ResponseExpected
       THEN /\ Settle(Line.id, IF IsResult(Line.body) THEN "result" ELSE "error")
            /\ streams' = Drop(Line.id)
            /\ UNCHANGED heard /\ LineHandled
       ELSE ProtocolFailure

HandleStarted ==
  /\ ReadLine /\ Line.kind = "started"
  /\ IF Line.id \in DOMAIN streams /\ ~streams[Line.id].started
       THEN /\ streams' = [streams EXCEPT ![Line.id].started = TRUE]
            /\ UNCHANGED <<pending, outcome, heard>> /\ LineHandled
       ELSE ProtocolFailure

AudioExpected ==
  /\ Line.id \in DOMAIN streams
  /\ streams[Line.id].started /\ streams[Line.id].nextSequence = Line.sequence

\* Slip: only the first chunk reaches onAudio.
SlipFirstChunkOnly ==
  /\ ReadLine /\ Line.kind = "audio"
  /\ IF AudioExpected
       THEN /\ streams' = [streams EXCEPT ![Line.id].nextSequence = @ + 1]
            /\ heard' = [heard EXCEPT ![Line.id] = 1]
            /\ UNCHANGED <<pending, outcome>> /\ LineHandled
       ELSE ProtocolFailure

HandleAudio ==
  /\ ReadLine /\ Line.kind = "audio"
  /\ IF AudioExpected
       THEN /\ streams' = [streams EXCEPT ![Line.id].nextSequence = @ + 1]
            /\ heard' = [heard EXCEPT ![Line.id] = @ + 1]
            /\ UNCHANGED <<pending, outcome>> /\ LineHandled
       ELSE ProtocolFailure

\* A request written to a child that is gone fails the pipe, not only itself.
StdinFails ==
  /\ child = "dead" /\ ~closed /\ pending # {} /\ ~stdinEnded
  /\ Abort("stdin", pending)
  /\ UNCHANGED <<engineVars, child, piped, received, closeSeen, heard, callVars>>

\* "error" instead of "spawn": the command cannot be run, and spawn() rejects.
StartFails ==
  /\ spawning = "initialize" /\ asked = <<>> /\ ~closed
  /\ child = "running" /\ log = <<>> /\ ~outputClosed
  /\ child' = "dead" /\ piped' = 0
  /\ closed' = TRUE /\ failure' = "start"
  /\ FailAll(pending)
  /\ spawning' = "failed"
  /\ UNCHANGED <<engineVars, signal, received, closeSeen, heard, shutdown, shutdownId,
                 stdinEnded>>

CloseChild ==
  /\ closeSeen' = TRUE
  /\ closed' = TRUE
  /\ failure' = IF closed THEN failure ELSE "exit"
  /\ FailAll(pending)
  /\ UNCHANGED <<engineVars, childVars, received, heard, callVars>>

\* Slip: the end of the process, "exit", is taken for the end of its output.
SlipCloseOnExit ==
  /\ child = "dead" /\ ~closeSeen
  /\ CloseChild

\* "close" comes when the process has ended and stdout has been read to its end;
\* "spawn" or "error" comes before it, and spawn() sends initialize right after
\* "spawn".
ChildCloses ==
  /\ child = "dead" /\ ~closeSeen /\ (asked # <<>> \/ closed)
  /\ ~HasLine
  /\ CloseChild

-----------------------------------------------------------------------------
(* spawn, shutdown and the timers that end the child.                      *)

\* A caller of #terminate has nothing to wait for: #closed is set and Node has
\* reported the exit, at the latest with "close".
TerminateReturns == closed /\ child = "dead"
SpawnContinues ==
  /\ spawning = "initialize" /\ Len(asked) > 0 /\ outcome[1] # "none"
  /\ IF outcome[1] = "result" THEN spawning' = "done" /\ UNCHANGED signal
     ELSE \/ /\ TerminateReturns
             /\ spawning' = "failed" /\ UNCHANGED signal
          \/ /\ ~closeSeen
             /\ spawning' = "terminating" /\ Terminate
  /\ UNCHANGED <<engineVars, child, piped, received, sessionVars, closeSeen, heard,
                 shutdown, shutdownId, stdinEnded>>

SpawnEnds ==
  /\ spawning = "terminating" /\ closeSeen
  /\ spawning' = "failed"
  /\ UNCHANGED <<engineVars, childVars, received, sessionVars, closeSeen, heard,
                 shutdown, shutdownId, stdinEnded>>

\* #performShutdown on a session that is open.
ShutdownStarts ==
  /\ spawning = "done" /\ shutdown = "none"
  /\ Request("engine.shutdown")
  /\ shutdown' = "asked" /\ shutdownId' = NextId
  /\ UNCHANGED <<spawning, stdinEnded>>

\* The early return of #performShutdown.
ShutdownFindsClosed ==
  /\ spawning = "done" /\ shutdown = "none" /\ closed
  /\ shutdown' = "done"
  /\ UNCHANGED <<engineVars, childVars, received, sessionVars, closeSeen, heard,
                 spawning, shutdownId, stdinEnded>>

ShutdownAnswered ==
  /\ shutdown = "asked" /\ outcome[shutdownId] = "result"
  /\ stdinEnded' = TRUE
  /\ \/ TerminateReturns /\ shutdown' = "done"
     \/ ~closeSeen /\ shutdown' = "observing"
  /\ UNCHANGED <<engineVars, childVars, received, sessionVars, closeSeen, heard,
                 spawning, shutdownId>>

\* Slip: the error is rethrown and the child left alone.
SlipNoTerminate ==
  /\ shutdown = "asked" /\ outcome[shutdownId] \in {"error", "timeout", "failed"}
  /\ shutdown' = "failed"
  /\ UNCHANGED <<engineVars, childVars, received, sessionVars, closeSeen, heard,
                 spawning, shutdownId, stdinEnded>>

ShutdownFails ==
  /\ shutdown = "asked" /\ outcome[shutdownId] \in {"error", "timeout", "failed"}
  /\ \/ TerminateReturns /\ shutdown' = "failed" /\ UNCHANGED signal
     \/ ~closeSeen /\ shutdown' = "terminating" /\ Terminate
  /\ UNCHANGED <<engineVars, child, piped, received, sessionVars, closeSeen, heard,
                 spawning, shutdownId, stdinEnded>>

ShutdownEnds ==
  /\ closeSeen
  /\ \/ shutdown = "observing" /\ shutdown' = "done"
     \/ shutdown = "terminating" /\ shutdown' = "failed"
  /\ UNCHANGED <<engineVars, childVars, received, sessionVars, closeSeen, heard,
                 spawning, shutdownId, stdinEnded>>

\* The sigtermTimer of #observeCloseWithEscalation.
SigtermTimer ==
  /\ shutdown = "observing" /\ ~closeSeen
  /\ signal = "none" /\ child = "running"
  /\ signal' = "term"
  /\ UNCHANGED <<engineVars, child, piped, received, sessionVars, closeSeen, heard,
                 callVars>>

\* Slip: the second timer sends SIGTERM again.
SlipTermAgain ==
  /\ signal = "term" /\ child = "running"
  /\ UNCHANGED vars

\* The killTimer of whoever sent SIGTERM.
SigkillTimer ==
  /\ signal = "term" /\ child = "running"
  /\ signal' = "kill"
  /\ UNCHANGED <<engineVars, child, piped, received, sessionVars, closeSeen, heard,
                 callVars>>

-----------------------------------------------------------------------------
Child == EngineSteps \/ ChildExits \/ ChildDies \/ StartFails

User ==
  \/ \E method \in Asks : UserRequests(method) \/ UserRequestsTooLate(method)
  \/ ShutdownStarts
  \/ ShutdownFindsClosed

Events ==
  \/ HandleResponse
  \/ HandleStarted
  \/ HandleAudio
  \/ StdinFails
  \/ ChildCloses
  \/ SpawnContinues
  \/ SpawnEnds
  \/ ShutdownAnswered
  \/ ShutdownFails
  \/ ShutdownEnds

Timers == SigtermTimer \/ SigkillTimer \/ \E id \in Ids : RequestTimesOut(id)

\* spawn() was rejected, or shutdown() has settled: the client is not used again.
Over ==
  /\ closeSeen /\ pending = {}
  /\ spawning = "failed" \/ shutdown \in {"done", "failed"}
  /\ UNCHANGED vars

Next == Child \/ SpawnRequests \/ User \/ Events \/ Timers \/ Over

Spec == Init /\ [][Next]_vars

\* Node runs every callback that is due and every timer fires; SIGKILL ends a
\* process.  Neither the engine nor the user owes anything.
Fairness ==
  /\ WF_vars(SpawnRequests)
  /\ WF_vars(Events)
  /\ WF_vars(SigtermTimer)
  /\ WF_vars(SigkillTimer)
  /\ \A id \in Ids : WF_vars(RequestTimesOut(id))
  /\ WF_vars(signal = "kill" /\ ChildDies)

FairSpec == Spec /\ Fairness

-----------------------------------------------------------------------------
(* Properties.                                                             *)

TypeOK ==
  /\ asked \in Seq(Frame) /\ log \in Seq(Message)
  /\ child \in {"running", "dead"} /\ piped \in Nat
  /\ received \in 0 .. Len(log)
  /\ DOMAIN streams \subseteq pending /\ pending \subseteq DOMAIN asked
  /\ \A id \in DOMAIN streams :
       streams[id] \in [started : BOOLEAN, nextSequence : Nat]
  /\ closed \in BOOLEAN /\ closeSeen \in BOOLEAN /\ stdinEnded \in BOOLEAN
  /\ failure \in {"none", "start", "protocol", "stdin", "exit"}
  /\ signal \in {"none", "term", "kill"}
  /\ outcome \in [Ids -> {"none", "result", "error", "timeout", "failed"}]
  /\ heard \in [Ids -> Nat]
  /\ spawning \in {"initialize", "terminating", "failed", "done"}
  /\ shutdown \in {"none", "asked", "observing", "terminating", "done", "failed"}
  /\ shutdownId \in Ids \cup {NoId}

\* The client agrees with every engine that keeps EngineService: it calls a
\* session a protocol failure only after one of its own requests timed out.
NoFailureWithoutTimeout ==
  failure = "protocol" => \E id \in Ids : outcome[id] = "timeout"

\* A synthesis that resolved has delivered every chunk the engine sent for it.
HeardEverything ==
  \A id \in Ids :
    outcome[id] = "result" =>
      heard[id] = Cardinality({k \in DOMAIN log : log[k].kind = "audio" /\ log[k].id = id})

\* A request is rejected because the engine exited only if the engine's answer
\* never reached the pipe (the constructor listens to "close", not to "exit").
ExitLosesNoAnswer ==
  failure = "exit" =>
    \A id \in Ids :
      outcome[id] = "failed" => id \notin Answered(SubSeq(log, 1, piped))

\* Once shutdown() has settled, or spawn() was rejected, no engine process is
\* left that nobody has told to end.
NobodyLeftBehind ==
  shutdown \in {"done", "failed"} \/ spawning = "failed" =>
    child = "dead" \/ signal # "none"

\* A promise is settled once, and its onAudio is silent afterwards, whatever of a
\* late answer, a timeout and the end of the session meets on one request.
SettledIsFinal ==
  [][\A id \in Ids :
       outcome[id] # "none" => outcome'[id] = outcome[id] /\ heard'[id] = heard[id]]_vars

\* Every request is settled, whatever the engine does: answered, timed out or
\* rejected with the session, and that only once.
EveryRequestSettles ==
  /\ \A id \in Ids : (id \in pending) ~> (outcome[id] # "none")
  /\ SettledIsFinal

\* shutdown() settles and the child is gone, although the child may ignore
\* both the end of its stdin and SIGTERM.
ShutdownSettles ==
  (shutdown # "none") ~> (shutdown \in {"done", "failed"} /\ child = "dead")
=============================================================================
