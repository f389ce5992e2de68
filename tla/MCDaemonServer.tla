--------------------------- MODULE MCDaemonServer ---------------------------
(***************************************************************************)
(* Small instances of DaemonServer: what its clients may send.             *)
(***************************************************************************)
EXTENDS DaemonServer

CONSTANTS c1, c2

Ask(method, id) == [method |-> method, id |-> id, target |-> 0, fault |-> "none"]
Cancel(id, target) == [method |-> "speech.cancel", id |-> id, target |-> target, fault |-> "none"]
Faulty(method, fault) == [method |-> method, id |-> 1, target |-> 0, fault |-> fault]

Hello == Ask("initialize", 1)
Speak == Ask("speech.synthesize", 2)
TooLong == Faulty("initialize", "too_long")

\* One client synthesizes and interferes with itself.
Impatient ==
  {(c1 :> <<Hello, Speak, last>>) @@ (c2 :> <<>>) :
     last \in {Cancel(3, 2), Speak, Ask("speech.synthesize", 3)}}

\* Another client cancels with the id the first one uses.
Neighbours == {(c1 :> <<Hello, Speak>>) @@ (c2 :> <<Hello, Cancel(2, 2)>>)}

\* A client that sends anything, beside one that stays quiet.
Strangers ==
  {(c1 :> <<first>>) @@ (c2 :> <<>>) :
     first \in {TooLong, Faulty("initialize", "protocol_version_mismatch"),
               Ask("daemon.status", 1)}}
  \cup
  {(c1 :> <<TooLong, TooLong>>) @@ (c2 :> <<>>)}
  \cup
  {(c1 :> <<Hello, next>>) @@ (c2 :> <<>>) :
     next \in {Ask("model.install", 2), Ask("voice.clone", 2), Ask("daemon.status", 2),
              Ask("model.use", 2), Ask("diagnostics.get", 2), Cancel(2, 1),
              Ask("initialize", 2), Faulty("voice.show", "invalid_params"),
              Faulty("initialize", "parse_error")}}

AllScripts == Impatient \cup Neighbours \cup Strangers
=============================================================================
