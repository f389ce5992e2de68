--------------------------- MODULE MCEngineServer ---------------------------
(***************************************************************************)
(* Small instances of EngineServer: what the client may send, frame by     *)
(* frame.                                                                  *)
(***************************************************************************)
EXTENDS EngineServer

Plain(method) == [method |-> method, target |-> NoId, fault |-> "none"]
Cancel(id) == [method |-> "speech.cancel", target |-> id, fault |-> "none"]
Faulty(fault) == [method |-> "initialize", target |-> NoId, fault |-> fault]

\* Any three requests in any order, each of the dispatcher's errors among them.
AnyRequest == {Plain(m) : m \in Methods \ {"speech.cancel"}} \cup {Cancel(1), Cancel(2)}
AnyFault == {Faulty(f) : f \in (Faults \ {"none"}) \cup {TooLarge}}
AnyOrder == [i \in 1 .. 3 |-> AnyRequest \cup AnyFault]

\* A loaded engine: a job, what interferes with it, and a cancel that may come
\* when its target is over and another job runs.
LoadedSession ==
  <<{Plain("initialize")}, {Plain("engine.load")},
    {Plain("speech.synthesize")},
    {Plain("speech.synthesize"), Plain("voice.extract"), Plain("engine.shutdown")},
    {Cancel(3), Plain("engine.shutdown")}>>
=============================================================================
