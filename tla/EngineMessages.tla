--------------------------- MODULE EngineMessages ---------------------------
(***************************************************************************)
(* The messages on the two pipes between an engine client and the engine   *)
(* process (native/engine/src/server.cpp, packages/engine-client/src).     *)
(*                                                                         *)
(* A request is known by its position on the engine's stdin: the client    *)
(* numbers its requests 1, 2, 3, ... (client.ts allocateRequestId) and     *)
(* never uses a number twice.  NoId stands for JSON-RPC's null id.         *)
(***************************************************************************)
EXTENDS Naturals, Sequences

NoId == 0

\* What dispatcher.cpp's isKnownMethod accepts.
Methods == {"initialize", "engine.load", "engine.status", "speech.synthesize",
            "speech.cancel", "voice.extract", "engine.shutdown"}

\* The methods whose work the worker thread does.
JobMethods == {"engine.load", "speech.synthesize", "voice.extract"}

\* DispatchError, with invalid_request split by whether an id could be read,
\* and the frame that NdjsonDecoder refuses because it is too long.
Faults == {"none", "parse_error", "invalid_request", "invalid_request_without_id",
           "method_not_found", "invalid_params", "protocol_version_mismatch"}
TooLarge == "message_too_large"

\* A frame as it is on stdin.  target is the request a speech.cancel names.
\* seen is an observation, not a field of the message: how many messages of
\* the engine were on stdout when the client wrote the frame.
Frame == [method : Methods, target : Nat, fault : Faults \cup {TooLarge}, seen : Nat]

\* What a response says: a result ("ok", a speech.cancel's accepted flag), a
\* dispatch error, or one of the domain errors of docs/protocol.md.
Bodies == Faults \cup {"ok", "accepted", "rejected", "resource_busy", "invalid_state",
                       "failed", "cancelled"}

\* What the runtime makes of a job.
JobOutcomes == {"ok", "failed", "cancelled"}

Message == [kind : {"response", "started", "audio"}, id : Nat,
            body : Bodies, sequence : Nat]

Response(id, body) ==
  [kind |-> "response", id |-> id, body |-> body, sequence |-> 0]

Started(id) == [kind |-> "started", id |-> id, body |-> "none", sequence |-> 0]

Audio(id, n) == [kind |-> "audio", id |-> id, body |-> "none", sequence |-> n]

\* The requests a sequence of messages answers.
Answered(log) ==
  {log[i].id : i \in {j \in DOMAIN log : log[j].kind = "response" /\ log[j].id # NoId}}
=============================================================================
