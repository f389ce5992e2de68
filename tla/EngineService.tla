---------------------------- MODULE EngineService ----------------------------
(***************************************************************************)
(* What the engine process promises on its stdout, as a state machine that *)
(* knows neither threads nor locks: one job at a time; at most one         *)
(* response per request, and none that nobody asked for; a synthesis is    *)
(* speech.started once, then speech.audio numbered 0, 1, 2, ..., then its  *)
(* response; nothing at all after the output is closed, and it is closed   *)
(* only between jobs.  It is the language that                             *)
(* packages/engine-client/src/client.ts accepts: handleResponse,           *)
(* handleStarted and handleAudio fail the session on any other order.      *)
(***************************************************************************)
EXTENDS EngineMessages

CONSTANT Requests   \* the ids a client may use

VARIABLES
  asked,      \* the client's frames, oldest first; the i-th has id i
  log,        \* every message promised to stdout, in order
  current,    \* the job in progress, or Idle
  closed      \* nothing more will be said

vars == <<asked, log, current, closed>>

Idle == [id |-> NoId, stream |-> "none", next |-> 0]

Init ==
  /\ asked = <<>>
  /\ log = <<>>
  /\ current = Idle
  /\ closed = FALSE

Say(message) == log' = Append(log, message)

\* The client may ask anything at any time.
Ask ==
  /\ asked' \in Seq(Frame) /\ Len(asked') = Len(asked) + 1
  /\ \A i \in DOMAIN asked : asked'[i] = asked[i]
  /\ UNCHANGED <<log, current, closed>>

Open(id) == id \in 1 .. Len(asked) /\ id \notin Answered(log) \cup {current.id}

\* The result of a job is not given away without doing it, a cancel's result
\* answers a cancel, and a response without an id answers a malformed frame.
Fits(id, body) ==
  /\ body = "ok" => id # NoId /\ asked[id].method \notin JobMethods \cup {"speech.cancel"}
  /\ body \in {"accepted", "rejected"} => id # NoId /\ asked[id].method = "speech.cancel"
  /\ id = NoId => \E i \in DOMAIN asked : asked[i].fault # "none"

\* What needs no job, or is refused, is answered at any time.
Reply(id, body) ==
  /\ ~closed
  /\ id = NoId \/ Open(id)
  /\ Fits(id, body)
  /\ Say(Response(id, body))
  /\ UNCHANGED <<asked, current, closed>>

\* A job is accepted only when there is none.
Accept(id) ==
  /\ ~closed
  /\ current = Idle
  /\ Open(id) /\ asked[id].method \in JobMethods
  /\ current' = [id |-> id,
                 stream |-> IF asked[id].method = "speech.synthesize"
                              THEN "silent" ELSE "none",
                 next |-> 0]
  /\ UNCHANGED <<asked, log, closed>>

StartStream ==
  /\ current.stream = "silent"
  /\ Say(Started(current.id))
  /\ current' = [current EXCEPT !.stream = "started"]
  /\ UNCHANGED <<asked, closed>>

StreamAudio ==
  /\ current.stream = "started"
  /\ Say(Audio(current.id, current.next))
  /\ current' = [current EXCEPT !.next = @ + 1]
  /\ UNCHANGED <<asked, closed>>

Finish(body) ==
  /\ current # Idle
  /\ current.stream # "silent"
  /\ Say(Response(current.id, body))
  /\ current' = Idle
  /\ UNCHANGED <<asked, closed>>

Close ==
  /\ ~closed
  /\ current = Idle
  /\ closed' = TRUE
  /\ UNCHANGED <<asked, log, current>>

Next ==
  \/ Ask
  \/ \E id \in Requests \cup {NoId}, body \in Bodies : Reply(id, body)
  \/ \E id \in Requests : Accept(id)
  \/ StartStream
  \/ StreamAudio
  \/ \E body \in JobOutcomes : Finish(body)
  \/ Close

Spec == Init /\ [][Next]_vars
=============================================================================
