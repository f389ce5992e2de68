--------------------------- MODULE DaemonMessages ---------------------------
(***************************************************************************)
(* The messages on a daemon connection (packages/protocol/src/daemon-v1.ts *)
(* and common.ts, apps/daemon/src/server.ts).                              *)
(*                                                                         *)
(* The frames of a connection are numbered in the order the daemon takes   *)
(* them up, and a message names the frame it is about: "to" is that        *)
(* number.  The wire carries the frame's id, which a client may use twice. *)
(***************************************************************************)
EXTENDS Naturals, Sequences

\* The methods, by how server.ts serves them: respondWith, runOperation,
\* runSynthesis, and the ones that answer in dispatchLine itself.
ServiceMethods ==
  {"config.get", "config.validate", "config.update",
   "model.list", "model.verify", "model.use", "model.remove",
   "voice.list", "voice.show", "voice.use", "voice.remove"}
OperationMethods == {"model.install", "voice.clone"}
TaskMethods == OperationMethods \cup {"speech.synthesize"}
Methods ==
  ServiceMethods \cup TaskMethods
    \cup {"initialize", "daemon.status", "diagnostics.get", "speech.cancel"}

\* What can be wrong with a frame before its method matters.
Faults == {"too_long", "parse_error", "invalid_request", "method_not_found",
           "invalid_params", "protocol_version_mismatch"}

Refusals == Faults \cup {"uninitialized"}

\* What a response says: a result, a cancel's accepted flag, a refusal, or one
\* of the error codes of VoxSpeechErrorCodeSchema.
Results == {"ok", "accepted", "rejected"}
Errors == {"request_cancelled", "resource_busy", "voice_extraction_failed",
           "integrity_check_failed", "invalid_state", "synthesis_failed"}
Bodies == Results \cup Refusals \cup Errors

Message == [kind : {"response", "started", "audio", "progress"}, to : Nat,
            body : Bodies \cup {"none"}, sequence : Nat]

Response(i, body) == [kind |-> "response", to |-> i, body |-> body, sequence |-> 0]
Started(i) == [kind |-> "started", to |-> i, body |-> "none", sequence |-> 0]
Audio(i, n) == [kind |-> "audio", to |-> i, body |-> "none", sequence |-> n]
Progress(i) == [kind |-> "progress", to |-> i, body |-> "none", sequence |-> 0]

\* The messages of one kind about frame i.
About(said, i, kind) == {k \in DOMAIN said : said[k].to = i /\ said[k].kind = kind}
Answered(said, i) == About(said, i, "response") # {}
=============================================================================
