--------------------------- MODULE MCEngineClient ---------------------------
(***************************************************************************)
(* A small instance of EngineClient: a session of a few requests in which  *)
(* everything can happen.                                                  *)
(***************************************************************************)
EXTENDS EngineClient

SomeAsks == {"speech.synthesize", "speech.cancel", "engine.load"}
SomeSaid == {"ok", "accepted", "failed"}
=============================================================================
