---------------------------- MODULE ProductState ----------------------------
(***************************************************************************)
(* What the daemon keeps on disk and in memory about models, voices and    *)
(* the configuration: models/manager.ts and repository.ts, voices/manager.ts *)
(* and repository.ts, packages/config/src/index.ts and the part of         *)
(* runtime.ts that joins them.  Every RPC is a call that runs from await   *)
(* to await; calls about one model or one voice wait for each other, all   *)
(* others interleave, and every configuration change goes through the one  *)
(* queue of ConfigStore.  Any file operation may fail, and the daemon may  *)
(* die at any point and be started again.                                  *)
(***************************************************************************)
EXTENDS Naturals, Sequences, FiniteSets

CONSTANTS
  Models,        \* the catalog
  Voices,
  None,          \* null
  Scenarios,     \* the sequences of calls to examine
  Applied,       \* the configurations given to config.update
  Stores,        \* [config, dir, legacy]: what may be on disk when the daemon starts
  MaxCrashes     \* bound on the restarts

Items == Models \cup Voices
Config == [model : Models \cup {None}, voice : Voices \cup {None}]

\* The calls that change something: model.*, voice.*, speech.synthesize, which
\* names a voice or not, and config.update.
Call ==
  [op : {"install", "use", "remove"}, kind : {"model"}, id : Models]
    \cup [op : {"clone", "use", "remove"}, kind : {"voice"}, id : Voices]
    \cup [op : {"speak"}, kind : {"voice"}, id : Voices \cup {None}]
    \cup [op : {"set"}, kind : {"all"}, id : {None}]
DirStates == {"none", "good", "damaged"}

ASSUME ItemsAssumption == Models \cap Voices = {} /\ None \notin Items
ASSUME ScenariosAssumption == Scenarios \subseteq Seq(Call)
ASSUME AppliedAssumption == Applied \subseteq Config
ASSUME StoresAssumption == Stores \subseteq [config : Config, dir : [Items -> DirStates],
                                               legacy : [Items -> DirStates]]
ASSUME CrashesAssumption == MaxCrashes \in Nat

VARIABLES
  calls,      \* the calls in the order they arrive
  pc,         \* pc[i]: the await call i has reached
  result,     \* result[i]: how its promise settled; "lost" with the process
  seen,       \* seen[i]: what call i has read and still uses
  before,     \* before[i]: the calls that were over when call i began
  snapshot,   \* ConfigStore.#config
  file,       \* the configuration file as a reader sees it
  durable,    \* as it is sure to be after a power failure
  updates,    \* ConfigStore.#updates: the changes that wait, oldest first
  writing,    \* how far writeConfigAtomically is with the oldest
  unread,     \* a failed write could not be read back since the daemon started
  dir,        \* dir[x]: the directory of model or voice x
  legacy,     \* legacy[v]: the directory an older version made for voice v
  aside,      \* aside[x]: the directory that is being replaced, under a hidden name
  leases,     \* VoiceManager.#leases
  removing,   \* VoiceManager.#removing
  loaded,     \* loadedModelId, and with it engineSynthesis
  crashes

callVars == <<pc, result, seen, before>>
configVars == <<snapshot, file, durable, updates, writing, unread>>
dirVars == <<dir, legacy, aside>>
leaseVars == <<leases, removing>>
lifeVars == <<calls, loaded, crashes>>
vars == <<callVars, configVars, dirVars, leaseVars, lifeVars>>

\* startProductDaemon loads the selected model if it verifies; the engine may
\* still fail to take it, and the daemon then serves without one.
StartUp(config) ==
  IF config.model # None /\ dir[config.model] = "good" THEN {config.model, None} ELSE {None}

Init ==
  /\ calls \in Scenarios
  /\ pc = [i \in DOMAIN calls |-> "start"]
  /\ result = [i \in DOMAIN calls |-> "none"]
  /\ seen = [i \in DOMAIN calls |-> None]
  /\ before = [i \in DOMAIN calls |-> {}]
  /\ \E store \in Stores :
       /\ snapshot = store.config /\ file = store.config /\ durable = store.config
       /\ dir = store.dir /\ legacy = store.legacy
  /\ aside = [x \in Items |-> "none"]
  /\ updates = <<>> /\ writing = "no" /\ unread = FALSE
  /\ leases = [v \in Voices |-> 0] /\ removing = {}
  /\ loaded \in StartUp(snapshot)
  /\ crashes = 0

\* The definitions named Slip... are not in Next: each is a plausible mistake in
\* the definition after it, for showing which property notices.

-----------------------------------------------------------------------------
(* The life of a call.                                                     *)

Over(i) == pc[i] = "over"
Id(i) == calls[i].id

\* speech.synthesize and config.update do not go through a manager's queue.
Serialized(i) == calls[i].op \notin {"speak", "set"}

\* Slip: the operations on one model or voice are not serialized.
SlipNoQueue(i) == TRUE

\* #operations: a call about an id waits for the earlier ones about that id,
\* whether they succeed or not.
ItsTurn(i) ==
  Serialized(i) => \A j \in 1 .. (i - 1) : Serialized(j) /\ Id(j) = Id(i) => Over(j)

At(i, op, kind, place) == calls[i].op = op /\ calls[i].kind = kind /\ pc[i] = place

Goto(i, place) == pc' = [pc EXCEPT ![i] = place] /\ UNCHANGED result

Return(i, how) ==
  /\ pc' = [pc EXCEPT ![i] = "over"]
  /\ result' = [result EXCEPT ![i] = how]

Begin(i, op, kind) ==
  /\ At(i, op, kind, "start") /\ ItsTurn(i)
  /\ before' = [before EXCEPT ![i] = {j \in DOMAIN calls : Over(j)}]

Read(i, value) == seen' = [seen EXCEPT ![i] = value]

\* #enqueueUpdate, called by call i.
Enqueue(i, kind, value) ==
  updates' = Append(updates, [call |-> i, kind |-> kind, value |-> value])

\* ModelRepository.verify and VoiceRepository.resolve: what can be used.  Files
\* that cannot be read just now do not verify either, however good they are.
Verifies(x) == dir[x] = "good" \/ legacy[x] = "good"

KeepConfig == UNCHANGED configVars
KeepStored == UNCHANGED <<snapshot, file, durable, writing, unread>>

-----------------------------------------------------------------------------
(* ConfigStore: one change at a time, each a whole new file.               *)

Change == Head(updates)

\* The mutator of the change, applied when its turn has come.
Changed ==
  IF Change.kind = "all" THEN Change.value
  ELSE [snapshot EXCEPT ![Change.kind] = Change.value]

\* The continuation of the call that awaited the change.
Resume(i, done) ==
  CASE pc[i] = "selecting" -> Return(i, IF done THEN "ok" ELSE "failed")
    [] pc[i] = "clearing" -> IF done THEN Goto(i, "delete") ELSE Return(i, "failed")
    [] pc[i] = "restoring" -> Return(i, "failed")

UpdateRenames ==
  /\ updates # <<>> /\ writing = "no"
  /\ file' = Changed
  /\ writing' = "renamed"
  /\ UNCHANGED <<callVars, snapshot, durable, updates, unread, dirVars, leaseVars, lifeVars>>

UpdateCommits ==
  /\ writing = "renamed"
  /\ durable' = file
  /\ snapshot' = file
  /\ updates' = Tail(updates) /\ writing' = "no"
  /\ Resume(Change.call, TRUE)
  /\ UNCHANGED <<seen, before, file, unread, dirVars, leaseVars, lifeVars>>

\* Slip: a failed write leaves the snapshot as it was.
SlipNoReadBack ==
  /\ updates # <<>>
  /\ updates' = Tail(updates) /\ writing' = "no"
  /\ Resume(Change.call, FALSE)
  /\ UNCHANGED <<seen, before, snapshot, file, durable, unread, dirVars, leaseVars, lifeVars>>

\* Before or after the rename; the file is then read back, if it can be.
UpdateFails ==
  /\ updates # <<>>
  /\ \/ snapshot' = file /\ UNCHANGED unread
     \/ unread' = TRUE /\ UNCHANGED snapshot
  /\ updates' = Tail(updates) /\ writing' = "no"
  /\ Resume(Change.call, FALSE)
  /\ UNCHANGED <<seen, before, file, durable, dirVars, leaseVars, lifeVars>>

\* config.update replaces everything.
SetConfig(i) ==
  /\ Begin(i, "set", "all")
  /\ \E config \in Applied : Enqueue(i, "all", config)
  /\ Goto(i, "selecting")
  /\ UNCHANGED <<seen, dirVars, leaseVars, lifeVars>> /\ KeepStored

-----------------------------------------------------------------------------
(* model.use and voice.use: ModelManager.use, VoiceManager.use.            *)

\* Slip: the new configuration is made of the snapshot at the time of the call.
SlipUseCaptures(i, kind) ==
  /\ Begin(i, "use", kind)
  /\ Verifies(Id(i))
  /\ Enqueue(i, "all", [snapshot EXCEPT ![kind] = Id(i)])
  /\ Goto(i, "selecting")
  /\ UNCHANGED <<seen, dirVars, leaseVars, lifeVars>> /\ KeepStored

Use(i, kind) ==
  /\ Begin(i, "use", kind)
  /\ \/ /\ Verifies(Id(i))
        /\ Enqueue(i, kind, Id(i))
        /\ Goto(i, "selecting")
     \/ /\ Return(i, "failed")
        /\ UNCHANGED updates
  /\ UNCHANGED <<seen, dirVars, leaseVars, lifeVars>> /\ KeepStored

UseModel(i) == Use(i, "model")
UseVoice(i) == Use(i, "voice")

-----------------------------------------------------------------------------
(* Replacing a directory by two renames, as install and clone do.          *)

\* When a rename has failed, install is content with a directory that verifies.
GiveUp(i, op) ==
  \/ Return(i, "failed")
  \/ op = "install" /\ dir'[Id(i)] = "good" /\ Return(i, "ok")

MoveAside(i, op, kind) ==
  /\ At(i, op, kind, "displace")
  /\ \/ /\ dir' = [dir EXCEPT ![Id(i)] = "none"]
        /\ aside' = [aside EXCEPT ![Id(i)] = dir[Id(i)]]
        /\ Goto(i, "promote")
     \/ /\ UNCHANGED <<dir, aside>>
        /\ GiveUp(i, op)
  /\ UNCHANGED <<seen, before, legacy, leaseVars, lifeVars>> /\ KeepConfig

\* rm deletes everything, or fails having deleted everything, something or nothing.
Remains(state) == {"none", state} \cup (IF state = "none" THEN {} ELSE {"damaged"})

\* The second rename, the sync of the parent and what is left to clean up, the
\* voice's older directory too; or the rename fails and the old directory is put
\* back, if that can be done.
MoveIn(i, op, kind) ==
  /\ At(i, op, kind, "promote")
  /\ \/ /\ dir' = [dir EXCEPT ![Id(i)] = "good"]
        /\ \/ legacy' = [legacy EXCEPT ![Id(i)] = "none"] /\ Return(i, "ok")
           \/ /\ \E left \in Remains(legacy[Id(i)]) : legacy' = [legacy EXCEPT ![Id(i)] = left]
              /\ Return(i, "failed")
     \/ /\ \E left \in {aside[Id(i)], "none"} : dir' = [dir EXCEPT ![Id(i)] = left]
        /\ GiveUp(i, op)
        /\ UNCHANGED legacy
  /\ aside' = [aside EXCEPT ![Id(i)] = "none"]
  /\ UNCHANGED <<seen, before, leaseVars, lifeVars>> /\ KeepConfig

\* Slip: the older directory of a voice is left.
SlipLeaveLegacy(x, done) ==
  /\ \E left \in IF done THEN {"none"} ELSE Remains(dir[x]) : dir' = [dir EXCEPT ![x] = left]
  /\ UNCHANGED <<legacy, aside>>

\* remove() of the repositories: the directory, then the older one.
Delete(x, done) ==
  /\ \/ /\ dir' = [dir EXCEPT ![x] = "none"]
        /\ \E left \in IF done THEN {"none"} ELSE Remains(legacy[x]) :
             legacy' = [legacy EXCEPT ![x] = left]
     \/ /\ ~done
        /\ \E left \in Remains(dir[x]) : dir' = [dir EXCEPT ![x] = left]
        /\ UNCHANGED legacy
  /\ UNCHANGED aside

-----------------------------------------------------------------------------
(* Models.                                                                 *)

InstallBegins(i) ==
  /\ Begin(i, "install", "model")
  /\ (dir[Id(i)] = "good" /\ Return(i, "ok")) \/ Goto(i, "download")
  /\ UNCHANGED <<seen, dirVars, leaseVars, lifeVars>> /\ KeepConfig

\* Download, verification and, between file systems, the copy.
InstallDownloads(i) ==
  /\ At(i, "install", "model", "download")
  /\ Goto(i, "displace") \/ Return(i, "failed")
  /\ UNCHANGED <<seen, before, dirVars, leaseVars, lifeVars>> /\ KeepConfig

InstallDisplaces(i) == MoveAside(i, "install", "model")
InstallPromotes(i) == MoveIn(i, "install", "model")

\* The default is read now and looked at after an await.  A model lease exists
\* only while that model is loaded, so that isLoaded decides alone.
RemoveModelBegins(i) ==
  /\ Begin(i, "remove", "model")
  /\ \/ /\ loaded = Id(i)
        /\ Return(i, "failed") /\ UNCHANGED seen
     \/ /\ loaded # Id(i)
        /\ Read(i, snapshot.model)
        /\ Goto(i, "clear")
  /\ UNCHANGED <<dirVars, leaseVars, lifeVars>> /\ KeepConfig

RemoveModelClears(i) ==
  /\ At(i, "remove", "model", "clear")
  /\ \/ /\ seen[i] = Id(i)
        /\ Enqueue(i, "model", None)
        /\ Goto(i, "clearing")
     \/ /\ seen[i] # Id(i)
        /\ Goto(i, "delete")
        /\ UNCHANGED updates
  /\ UNCHANGED <<seen, before, dirVars, leaseVars, lifeVars>> /\ KeepStored

\* Slip: the default is restored with use, which waits for this removal to end.
SlipRestoreByUse(i) ==
  /\ At(i, "remove", "model", "delete")
  /\ \/ Delete(Id(i), TRUE) /\ Return(i, "ok")
     \/ Delete(Id(i), FALSE) /\ seen[i] = Id(i) /\ Goto(i, "restoring")
     \/ Delete(Id(i), FALSE) /\ seen[i] # Id(i) /\ Return(i, "failed")
  /\ UNCHANGED <<seen, before, updates, leaseVars, lifeVars>> /\ KeepStored

\* When deleting fails, a default that was cleared is written back.
RemoveModelDeletes(i) ==
  /\ At(i, "remove", "model", "delete")
  /\ \/ /\ Delete(Id(i), TRUE)
        /\ Return(i, "ok")
        /\ UNCHANGED updates
     \/ /\ Delete(Id(i), FALSE)
        /\ seen[i] = Id(i)
        /\ Enqueue(i, "model", Id(i))
        /\ Goto(i, "restoring")
     \/ /\ Delete(Id(i), FALSE)
        /\ seen[i] # Id(i)
        /\ Return(i, "failed")
        /\ UNCHANGED updates
  /\ UNCHANGED <<seen, before, leaseVars, lifeVars>> /\ KeepStored

-----------------------------------------------------------------------------
(* Voices.                                                                 *)

\* The loaded model is leased until the clone ends.
CloneBegins(i) ==
  /\ Begin(i, "clone", "voice")
  /\ IF loaded = None THEN Return(i, "failed") ELSE Goto(i, "extract")
  /\ UNCHANGED <<seen, dirVars, leaseVars, lifeVars>> /\ KeepConfig

\* voice.extract on the engine, and the staging directory made valid.
CloneExtracts(i) ==
  /\ At(i, "clone", "voice", "extract")
  /\ Goto(i, "displace") \/ Return(i, "failed")
  /\ UNCHANGED <<seen, before, dirVars, leaseVars, lifeVars>> /\ KeepConfig

CloneDisplaces(i) == MoveAside(i, "clone", "voice")
ClonePromotes(i) == MoveIn(i, "clone", "voice")

RemoveVoiceBegins(i) ==
  /\ Begin(i, "remove", "voice")
  /\ Read(i, snapshot.voice)
  /\ Goto(i, "check")
  /\ UNCHANGED <<dirVars, leaseVars, lifeVars>> /\ KeepConfig

RemoveVoiceChecks(i) ==
  /\ At(i, "remove", "voice", "check")
  /\ \/ /\ seen[i] = Id(i) \/ leases[Id(i)] > 0
        /\ Return(i, "failed")
        /\ UNCHANGED removing
     \/ /\ seen[i] # Id(i) /\ leases[Id(i)] = 0
        /\ removing' = removing \cup {Id(i)}
        /\ Goto(i, "delete")
  /\ UNCHANGED <<seen, before, dirVars, leases, lifeVars>> /\ KeepConfig

RemoveVoiceDeletes(i) ==
  /\ At(i, "remove", "voice", "delete")
  /\ \E done \in BOOLEAN :
       Delete(Id(i), done) /\ Return(i, IF done THEN "ok" ELSE "failed")
  /\ removing' = removing \ {Id(i)}
  /\ UNCHANGED <<seen, before, leases, lifeVars>> /\ KeepConfig

-----------------------------------------------------------------------------
(* speech.synthesize: EngineSynthesisService.run and acquireReference.     *)

\* Slip: a removal that has begun does not refuse the lease.
SlipLeaseWhileRemoving(i, voice) ==
  /\ leases' = [leases EXCEPT ![voice] = @ + 1]
  /\ Goto(i, "resolve")

Lease(i, voice) ==
  \/ /\ voice \in removing
     /\ Return(i, "failed")
     /\ UNCHANGED leases
  \/ /\ voice \notin removing
     /\ leases' = [leases EXCEPT ![voice] = @ + 1]
     /\ Goto(i, "resolve")

Release(voice) == leases' = [leases EXCEPT ![voice] = IF @ > 1 THEN @ - 1 ELSE 0]

\* Without a voice of its own the request takes the default, after an await.
SpeakBegins(i) ==
  /\ Begin(i, "speak", "voice")
  /\ \/ /\ loaded = None
        /\ Return(i, "failed")
        /\ UNCHANGED <<seen, leases>>
     \/ /\ loaded # None /\ Id(i) # None
        /\ Read(i, Id(i)) /\ Lease(i, Id(i))
     \/ /\ loaded # None /\ Id(i) = None
        /\ Read(i, snapshot.voice)
        /\ Goto(i, "lease")
        /\ UNCHANGED leases
  /\ UNCHANGED <<dirVars, removing, lifeVars>> /\ KeepConfig

SpeakLeases(i) ==
  /\ At(i, "speak", "voice", "lease")
  /\ \/ seen[i] = None /\ Goto(i, "speak") /\ UNCHANGED leases
     \/ seen[i] # None /\ Lease(i, seen[i])
  /\ UNCHANGED <<seen, before, dirVars, removing, lifeVars>> /\ KeepConfig

\* Slip: the lease of a voice that cannot be read is released twice.
SlipReleaseTwice(i) ==
  /\ At(i, "speak", "voice", "resolve")
  /\ \/ Verifies(seen[i]) /\ Goto(i, "speak") /\ UNCHANGED leases
     \/ /\ Return(i, "failed")
        /\ leases' = [leases EXCEPT ![seen[i]] = IF @ > 2 THEN @ - 2 ELSE 0]
  /\ UNCHANGED <<seen, before, dirVars, removing, lifeVars>> /\ KeepConfig

\* A profile made with another model is refused, too; it reads like a bad one.
SpeakResolves(i) ==
  /\ At(i, "speak", "voice", "resolve")
  /\ \/ Verifies(seen[i]) /\ Goto(i, "speak") /\ UNCHANGED leases
     \/ Return(i, "failed") /\ Release(seen[i])
  /\ UNCHANGED <<seen, before, dirVars, removing, lifeVars>> /\ KeepConfig

\* The engine has answered, or the request failed: the lease ends either way.
SpeakEnds(i) ==
  /\ At(i, "speak", "voice", "speak")
  /\ IF seen[i] = None THEN UNCHANGED leases ELSE Release(seen[i])
  /\ Return(i, "ok")
  /\ UNCHANGED <<seen, before, dirVars, removing, lifeVars>> /\ KeepConfig

-----------------------------------------------------------------------------
\* The daemon dies and is started again: the calls in progress are lost and the
\* disk holds what was synced, or more.  Nothing looks for a hidden directory.
Crash ==
  /\ crashes < MaxCrashes
  /\ crashes' = crashes + 1
  /\ \E i \in DOMAIN calls : pc[i] \notin {"start", "over"}
  /\ LET Lost(i) == pc[i] \notin {"start", "over"}
     IN  /\ pc' = [i \in DOMAIN calls |-> IF Lost(i) THEN "over" ELSE pc[i]]
         /\ result' = [i \in DOMAIN calls |-> IF Lost(i) THEN "lost" ELSE result[i]]
  /\ file' \in {file, durable}
  /\ durable' = file' /\ snapshot' = file'
  /\ updates' = <<>> /\ writing' = "no" /\ unread' = FALSE
  /\ aside' = [x \in Items |-> "none"]
  /\ leases' = [v \in Voices |-> 0] /\ removing' = {}
  /\ loaded' \in StartUp(file')
  /\ UNCHANGED <<calls, seen, before, dir, legacy>>

Step(i) ==
  \/ SetConfig(i)
  \/ UseModel(i)
  \/ UseVoice(i)
  \/ InstallBegins(i)
  \/ InstallDownloads(i)
  \/ InstallDisplaces(i)
  \/ InstallPromotes(i)
  \/ RemoveModelBegins(i)
  \/ RemoveModelClears(i)
  \/ RemoveModelDeletes(i)
  \/ CloneBegins(i)
  \/ CloneExtracts(i)
  \/ CloneDisplaces(i)
  \/ ClonePromotes(i)
  \/ RemoveVoiceBegins(i)
  \/ RemoveVoiceChecks(i)
  \/ RemoveVoiceDeletes(i)
  \/ SpeakBegins(i)
  \/ SpeakLeases(i)
  \/ SpeakResolves(i)
  \/ SpeakEnds(i)

Update ==
  \/ UpdateRenames
  \/ UpdateCommits
  \/ UpdateFails

AllOver == (\A i \in DOMAIN calls : Over(i)) /\ UNCHANGED vars

Next == (\E i \in DOMAIN calls : Step(i)) \/ Update \/ Crash \/ AllOver

Spec == Init /\ [][Next]_vars

\* Node goes on with every call whose await is over; downloads, the engine's
\* answers (EngineClient) and file operations end, well or badly.
Fairness == WF_vars(Update) /\ WF_vars(\E i \in DOMAIN calls : Step(i))

FairSpec == Spec /\ Fairness

-----------------------------------------------------------------------------
(* Properties.                                                             *)

Places == {"start", "selecting", "clearing", "restoring", "download", "displace",
           "promote", "clear", "delete", "extract", "check", "lease", "resolve",
           "speak", "over"}

\* A lease is one synthesis that reads or speaks with the voice, whatever fails
\* (VoiceManager.acquireReference and release).
Readers(v) == {i \in DOMAIN calls : pc[i] \in {"resolve", "speak"} /\ seen[i] = v}
Leases == \A v \in Voices : leases[v] = Cardinality(Readers(v))

\* The variables have their types, and the lease counts are what they count.
TypeOK ==
  /\ calls \in Seq(Call)
  /\ pc \in [DOMAIN calls -> Places]
  /\ result \in [DOMAIN calls -> {"none", "ok", "failed", "lost"}]
  /\ seen \in [DOMAIN calls -> Items \cup {None}]
  /\ before \in [DOMAIN calls -> SUBSET DOMAIN calls]
  /\ snapshot \in Config /\ file \in Config /\ durable \in Config
  /\ updates \in Seq([call : DOMAIN calls, kind : {"model", "voice", "all"},
                      value : Items \cup {None} \cup Config])
  /\ writing \in {"no", "renamed"} /\ unread \in BOOLEAN
  /\ dir \in [Items -> DirStates] /\ legacy \in [Items -> DirStates]
  /\ aside \in [Items -> DirStates]
  /\ leases \in [Voices -> Nat] /\ Leases /\ removing \subseteq Voices
  /\ loaded \in Models \cup {None}
  /\ crashes \in 0 .. MaxCrashes

\* The calls that were under way with call i, or began after it was over.
AtOrAfter(i) == {j \in DOMAIN calls \ (before[i] \cup {i}) : pc[j] # "start"}

\* ConfigStore: "the in-memory snapshot never diverges from the visible file",
\* whatever failed, as long as the file could be read back.
SnapshotIsFile == writing = "no" /\ ~unread => snapshot = file

\* A voice.use that was confirmed stays selected, over a power failure too, until
\* another call selects a voice: a change of the model made at the same time does
\* not bring the old voice back.
VoiceUseSticks ==
  \A i \in DOMAIN calls :
    /\ result[i] = "ok" /\ calls[i].op = "use" /\ calls[i].kind = "voice"
    /\ \A j \in AtOrAfter(i) :
         calls[j].op # "set" /\ ~(calls[j].op = "use" /\ calls[j].kind = "voice")
    => durable.voice = Id(i) /\ file.voice = Id(i)

\* The same of model.use, when only this model's own removal may deselect it (p3:
\* the default is cleared when the default model is removed).  NOT an invariant:
\* the removal of another model that was the default when it looked clears the
\* default after this call has set it.
ModelUseSticks ==
  \A i \in DOMAIN calls :
    /\ result[i] = "ok" /\ calls[i].op = "use" /\ calls[i].kind = "model"
    /\ \A j \in AtOrAfter(i) :
         /\ calls[j].op # "set" /\ ~(calls[j].op = "use" /\ calls[j].kind = "model")
         /\ ~(calls[j].op = "remove" /\ Id(j) = Id(i))
    => file.model = Id(i)

\* What was removed is gone, with everything a voice of that name could be read
\* from, and until the daemon starts again it is not selected.
RemovedStaysRemoved ==
  \A i \in DOMAIN calls :
    /\ result[i] = "ok" /\ calls[i].op = "remove"
    /\ \A j \in AtOrAfter(i) :
         calls[j].op # "set" /\ (Id(j) = Id(i) => calls[j].op = "speak")
    => /\ dir[Id(i)] = "none" /\ legacy[Id(i)] = "none"
       /\ crashes = 0 /\ ~unread => snapshot[calls[i].kind] # Id(i)

Touches(x) == dir'[x] # dir[x] \/ legacy'[x] # legacy[x]

\* No removal touches the files of the loaded model, nor of a model or voice that
\* is selected, unless config.update selects it at the same time.
DeletesOnlyUnselected ==
  [][\A i \in DOMAIN calls :
       pc[i] = "delete" /\ Touches(Id(i)) =>
         /\ Id(i) # loaded
         /\ \/ snapshot[calls[i].kind] # Id(i)
            \/ unread
            \/ \E j \in AtOrAfter(i) : calls[j].op = "set"]_vars

\* No removal touches the files of a voice that a synthesis has leased.
LeasedVoiceStays ==
  [][\A i \in DOMAIN calls :
       pc[i] = "delete" /\ Touches(Id(i)) =>
         \A j \in DOMAIN calls : pc[j] \in {"resolve", "speak"} => seen[j] # Id(i)]_vars

\* p3: clone "atomically replaces the final profile".  NOT a property: the old
\* profile is renamed away before the new one is in place.
CloneKeepsAProfile ==
  [][\A v \in Voices :
       Verifies(v) /\ ~Verifies(v)' =>
         \E i \in DOMAIN calls : At(i, "remove", "voice", "delete") /\ Id(i) = v]_vars

\* Every call is answered, whatever fails, unless the daemon dies.
EveryCallEnds == <>(\A i \in DOMAIN calls : Over(i))
=============================================================================
