--------------------------- MODULE MCDaemonClient ---------------------------
(***************************************************************************)
(* Small instances of DaemonClient: commands, and another user.            *)
(***************************************************************************)
EXTENDS DaemonClient

Command(calls, play) == [calls |-> calls, api |-> FALSE, play |-> play]
User(calls) == [calls |-> calls, api |-> TRUE, play |-> FALSE]

Commands ==
  {Command(<<"daemon.status">>, FALSE),
   Command(<<"config.get", "config.update", "model.install", "model.use">>, FALSE),
   Command(<<"voice.clone">>, FALSE),
   Command(<<"speech.synthesize">>, TRUE)}

\* Concurrent requests; a synthesis may be aborted.
Users ==
  {User(<<"speech.synthesize", "daemon.status">>),
   User(<<"model.install", "daemon.status">>)}

AllPrograms == Commands \cup Users
=============================================================================
