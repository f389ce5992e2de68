-------------------------- MODULE DaemonConnection --------------------------
(***************************************************************************)
(* What the daemon promises on one connection, as a state machine without  *)
(* tasks, services or an engine: a frame is answered at most once, in any  *)
(* order; until initialize is answered with a result everything else is    *)
(* refused; a synthesis is speech.started once, then speech.audio numbered *)
(* 0, 1, 2, ..., then its response and nothing after it; a cancel is       *)
(* accepted only for a synthesis of its own connection; progress comes     *)
(* before the response of its operation.  DaemonServer implements it, and  *)
(* DaemonClient talks to any daemon that keeps it.                         *)
(***************************************************************************)
EXTENDS DaemonMessages, FiniteSets

CONSTANT Frames   \* what a client may send

VARIABLES
  asked,   \* the frames the daemon has taken up, oldest first
  said     \* what it has written, oldest first

vars == <<asked, said>>

Init == asked = <<>> /\ said = <<>>

Ask(frame) == asked' = Append(asked, frame) /\ UNCHANGED said

Say(message) == said' = Append(said, message) /\ UNCHANGED asked

Open(i) == i \in DOMAIN asked /\ ~Answered(said, i)

Initialized ==
  \E i \in DOMAIN asked :
    asked[i].method = "initialize"
      /\ \E k \in About(said, i, "response") : said[k].body = "ok"

\* What the answer to frame i may be.
Fits(i, body) ==
  /\ body \notin Refusals => asked[i].method = "initialize" \/ Initialized
  /\ body \in {"accepted", "rejected"} => asked[i].method = "speech.cancel"
  /\ body = "ok" => asked[i].method # "speech.cancel"
  /\ body = "accepted" =>
       \E j \in DOMAIN asked :
         /\ asked[j].method = "speech.synthesize" /\ asked[j].id = asked[i].target
         /\ About(said, j, "started") # {}
  /\ body = "ok" /\ asked[i].method = "speech.synthesize"
       => About(said, i, "started") # {}
  /\ body \in Refusals => About(said, i, "started") = {}
  /\ body = "request_cancelled" => asked[i].method \in TaskMethods

Respond(i, body) == Say(Response(i, body)) /\ Open(i) /\ Fits(i, body)

\* No two syntheses of one id are under way.
Start(i) ==
  /\ Say(Started(i))
  /\ Open(i) /\ Initialized
  /\ asked[i].method = "speech.synthesize" /\ About(said, i, "started") = {}
  /\ \A j \in DOMAIN asked :
       asked[j].id = asked[i].id /\ About(said, j, "started") # {} => Answered(said, j)

Stream(i) ==
  /\ Say(Audio(i, Cardinality(About(said, i, "audio"))))
  /\ Open(i) /\ About(said, i, "started") # {}

Report(i) ==
  /\ Say(Progress(i))
  /\ Open(i) /\ Initialized /\ asked[i].method \in OperationMethods

Next ==
  \/ \E frame \in Frames : Ask(frame)
  \/ \E i \in DOMAIN asked :
       \/ \E body \in Bodies : Respond(i, body)
       \/ Start(i)
       \/ Stream(i)
       \/ Report(i)

Spec == Init /\ [][Next]_vars
=============================================================================
