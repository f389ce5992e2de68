-------------------------- MODULE ProductStateProofs --------------------------
(***************************************************************************)
(* Theorems about ProductState for any catalog, any voices, any calls, any *)
(* stored state and any number of restarts, proved with TLAPS.             *)
(***************************************************************************)
EXTENDS ProductState, FiniteSetTheorems, TLAPS

Active(i) == pc[i] \notin {"start", "over"}
Waits(i) == pc[i] \in {"selecting", "clearing", "restoring"}
Op(i) == calls[i].op
Kind(i) == calls[i].kind

\* Where a call may be, by what it is.
Placed ==
  \A i \in DOMAIN calls :
    /\ result[i] # "none" <=> Over(i)
    /\ pc[i] = "selecting" => Op(i) \in {"use", "set"}
    /\ pc[i] \in {"clear", "clearing", "restoring"} => Op(i) = "remove" /\ Kind(i) = "model"
    /\ pc[i] = "check" => Op(i) = "remove" /\ Kind(i) = "voice"
    /\ pc[i] = "delete" => Op(i) = "remove"
    /\ pc[i] \in {"download", "extract", "displace", "promote"} => Op(i) \in {"install", "clone"}
    /\ pc[i] \in {"lease", "resolve", "speak"} => Op(i) = "speak"
    /\ pc[i] = "resolve" => seen[i] \in Voices
    /\ pc[i] \in {"lease", "speak"} => seen[i] \in Voices \cup {None}

\* #operations: of the calls about one id the later ones have not started while
\* an earlier one is under way.
Queued ==
  \A i, j \in DOMAIN calls :
    i < j /\ Serialized(i) /\ Serialized(j) /\ Id(i) = Id(j) /\ pc[j] # "start" => Over(i)

\* What was over stays over.
Past == \A i \in DOMAIN calls : \A j \in before[i] : Over(j)

\* What the call that made a change waits for.
Wanted(change) ==
  LET i == change.call IN
  \/ /\ pc[i] = "selecting" /\ Op(i) = "set"
     /\ change.kind = "all" /\ change.value \in Config
  \/ /\ pc[i] = "selecting" /\ Op(i) = "use"
     /\ change.kind = Kind(i) /\ change.value = Id(i)
  \/ pc[i] = "clearing" /\ change.kind = "model" /\ change.value = None
  \/ pc[i] = "restoring" /\ change.kind = "model" /\ change.value = Id(i)

\* A change in the queue is its caller's only one.
Changes ==
  /\ \A n \in DOMAIN updates : updates[n].call \in DOMAIN calls /\ Wanted(updates[n])
  /\ \A m, n \in DOMAIN updates : m # n => updates[m].call # updates[n].call

\* A file that was renamed into place is what the oldest change makes of the
\* snapshot.
Written ==
  /\ writing = "renamed" => updates # <<>> /\ file = Changed
  /\ SnapshotIsFile

\* A voice whose files are being deleted is refused to every synthesis.
Unleased ==
  \A i \in DOMAIN calls :
    pc[i] = "delete" /\ Kind(i) = "voice" => Id(i) \in removing /\ Readers(Id(i)) = {}

\* A removal that has begun is not of the loaded model.
Unloaded ==
  \A i \in DOMAIN calls :
    pc[i] \in {"clear", "clearing", "delete", "restoring"} /\ Kind(i) = "model"
      => Id(i) # loaded

\* What a removal is about to delete, or found not to be the default, is not
\* selected.
Cleared(i) ==
  \/ pc[i] = "delete"
  \/ pc[i] \in {"clear", "check"} /\ seen[i] # Id(i)
NoSetSince(i) == \A j \in AtOrAfter(i) : Op(j) # "set"
Unselected ==
  \A i \in DOMAIN calls : Cleared(i) /\ ~unread /\ NoSetSince(i) => snapshot[Kind(i)] # Id(i)

\* VoiceUseSticks, with the snapshot.
Sticks ==
  \A i \in DOMAIN calls :
    /\ result[i] = "ok" /\ Op(i) = "use" /\ Kind(i) = "voice"
    /\ \A j \in AtOrAfter(i) : Op(j) # "set" /\ ~(Op(j) = "use" /\ Kind(j) = "voice")
    => durable.voice = Id(i) /\ file.voice = Id(i) /\ snapshot.voice = Id(i)

IInv ==
  /\ TypeOK /\ Placed /\ Queued /\ Past /\ Changes /\ Written /\ Leases /\ Unleased
  /\ Unloaded /\ Unselected /\ Sticks /\ RemovedStaysRemoved

-----------------------------------------------------------------------------
(* What every step of a call does.                                         *)

\* What the calls are about.
LEMMA CallTypes ==
  ASSUME TypeOK
  PROVE  /\ DOMAIN calls = 1 .. Len(calls) /\ Len(calls) \in Nat
         /\ \A i \in DOMAIN calls :
              /\ calls[i] \in Call
              /\ Op(i) \in {"install", "use", "remove", "clone", "speak", "set"}
              /\ Kind(i) = "model" => Op(i) \in {"install", "use", "remove"} /\ Id(i) \in Models
              /\ Op(i) \in {"use", "remove", "clone"} /\ Kind(i) = "voice" => Id(i) \in Voices
              /\ Op(i) \in {"use", "remove"} => Kind(i) \in {"model", "voice"}
              /\ Op(i) = "install" => Kind(i) = "model"
              /\ Op(i) = "clone" => Kind(i) = "voice"
              /\ Op(i) = "speak" => Kind(i) = "voice" /\ Id(i) \in Voices \cup {None}
              /\ Op(i) = "set" <=> Kind(i) = "all"
              /\ Serialized(i) <=> Op(i) \in {"install", "use", "remove", "clone"}
              /\ Serialized(i) => Id(i) \in Items
<1>1. calls \in Seq(Call)
  BY DEF TypeOK
<1>2. DOMAIN calls = 1 .. Len(calls) /\ Len(calls) \in Nat /\ \A i \in DOMAIN calls : calls[i] \in Call
  BY <1>1
<1> QED BY <1>2 DEF Call, Op, Kind, Id, Serialized, Items

\* A call goes on to its next await, or ends.
Moves(i) ==
  \E place \in Places \ {"start"} :
    /\ ~Over(i) /\ ~Waits(i) /\ pc' = [pc EXCEPT ![i] = place]
    /\ \/ place # "over" /\ result' = result
       \/ /\ place = "over"
          /\ \/ result' = [result EXCEPT ![i] = "failed"]
             \/ result' = [result EXCEPT ![i] = "ok"] /\ Op(i) \notin {"use", "set"}
    /\ \/ /\ pc[i] = "start" /\ ItsTurn(i)
          /\ before' = [before EXCEPT ![i] = {j \in DOMAIN calls : Over(j)}]
       \/ pc[i] # "start" /\ before' = before

\* It puts at most one change into the queue, and then waits for it.
Queues(i) ==
  \/ updates' = updates /\ ~Waits(i)'
  \/ \E kind \in {"model", "voice", "all"}, value \in Items \cup {None} \cup Config :
       LET change == [call |-> i, kind |-> kind, value |-> value] IN
       updates' = Append(updates, change) /\ Wanted(change)'

\* It leaves the configuration to the queue, and what it is not about alone.
Keeps(i) ==
  /\ UNCHANGED <<calls, loaded, crashes, snapshot, file, durable, writing, unread>>
  /\ \/ UNCHANGED seen
     \/ \E value \in Items \cup {None} : seen' = [seen EXCEPT ![i] = value]
  /\ dir' \in [Items -> DirStates] /\ legacy' \in [Items -> DirStates]
  /\ aside' \in [Items -> DirStates]
  /\ \A x \in Items :
       ~Serialized(i) \/ x # Id(i) => dir'[x] = dir[x] /\ legacy'[x] = legacy[x]

Selecting(i) == SetConfig(i) \/ UseModel(i) \/ UseVoice(i)
Installing(i) ==
  InstallBegins(i) \/ InstallDownloads(i) \/ InstallDisplaces(i) \/ InstallPromotes(i)
Cloning(i) == CloneBegins(i) \/ CloneExtracts(i) \/ CloneDisplaces(i) \/ ClonePromotes(i)
RemovingModel(i) == RemoveModelBegins(i) \/ RemoveModelClears(i) \/ RemoveModelDeletes(i)
RemovingVoice(i) == RemoveVoiceBegins(i) \/ RemoveVoiceChecks(i) \/ RemoveVoiceDeletes(i)
Speaking(i) == SpeakBegins(i) \/ SpeakLeases(i) \/ SpeakResolves(i) \/ SpeakEnds(i)

\* A step of a call is a step of one of the six kinds of calls.
LEMMA StepCases ==
  ASSUME NEW i, Step(i)
  PROVE  \/ Selecting(i) \/ Installing(i) \/ Cloning(i)
         \/ RemovingModel(i) \/ RemovingVoice(i) \/ Speaking(i)
BY DEF Step, Selecting, Installing, Cloning, RemovingModel, RemovingVoice, Speaking

\* Every step of a call takes it from one place to another.
LEMMA StepMoves == ASSUME TypeOK, NEW i \in DOMAIN calls, Step(i) PROVE Moves(i)
<1> USE DEF Moves, Places, Over, Waits, Op, At, Begin, Goto, Return
<1>1. CASE Selecting(i)
  BY <1>1 DEF Selecting, SetConfig, UseModel, UseVoice, Use
<1>2. CASE Installing(i)
  BY <1>2 DEF Installing, InstallBegins, InstallDownloads, InstallDisplaces, InstallPromotes,
     MoveAside, MoveIn, GiveUp
<1>3. CASE Cloning(i)
  BY <1>3 DEF Cloning, CloneBegins, CloneExtracts, CloneDisplaces, ClonePromotes, MoveAside,
     MoveIn, GiveUp
<1>4. CASE RemovingModel(i)
  BY <1>4 DEF RemovingModel, RemoveModelBegins, RemoveModelClears, RemoveModelDeletes
<1>5. CASE RemovingVoice(i)
  BY <1>5 DEF RemovingVoice, RemoveVoiceBegins, RemoveVoiceChecks, RemoveVoiceDeletes
<1>6. CASE Speaking(i)
  BY <1>6 DEF Speaking, SpeakBegins, SpeakLeases, SpeakResolves, SpeakEnds, Lease
<1> QED BY <1>1, <1>2, <1>3, <1>4, <1>5, <1>6, StepCases

\* It leaves the rest of the state alone.
LEMMA StepKeeps == ASSUME TypeOK, NEW i \in DOMAIN calls, Step(i) PROVE Keeps(i)
<1>1. /\ dir \in [Items -> DirStates] /\ legacy \in [Items -> DirStates]
      /\ aside \in [Items -> DirStates] /\ snapshot.model \in Items \cup {None}
      /\ snapshot.voice \in Items \cup {None}
  BY DEF TypeOK, Config, Items
<1>2. Serialized(i) => Id(i) \in Items
  BY CallTypes
<1>3. CASE Selecting(i)
  BY <1>1, <1>3 DEF Selecting, SetConfig, UseModel, UseVoice, Use, Keeps, dirVars, lifeVars,
     KeepStored
<1>4. ASSUME MoveAside(i, "install", "model") \/ MoveAside(i, "clone", "voice") PROVE Keeps(i)
  <2>1. Serialized(i)
    BY <1>4 DEF MoveAside, At, Serialized
  <2>2. dir[Id(i)] \in DirStates /\ "none" \in DirStates
    BY <1>1, <1>2, <2>1 DEF DirStates
  <2> QED BY <1>1, <1>2, <1>4, <2>1, <2>2 DEF MoveAside, Keeps, lifeVars, KeepConfig, configVars
<1>5. ASSUME MoveIn(i, "install", "model") \/ MoveIn(i, "clone", "voice") PROVE Keeps(i)
  <2>1. Serialized(i)
    BY <1>5 DEF MoveIn, At, Serialized
  <2>2. /\ aside[Id(i)] \in DirStates /\ {"none", "good"} \subseteq DirStates
        /\ Remains(legacy[Id(i)]) \subseteq DirStates
    BY <1>1, <1>2, <2>1 DEF DirStates, Remains
  <2>3. /\ UNCHANGED <<calls, loaded, crashes, snapshot, file, durable, writing, unread, seen>>
        /\ aside' = [aside EXCEPT ![Id(i)] = "none"]
    BY <1>5 DEF MoveIn, lifeVars, KeepConfig, configVars
  <2>4. PICK left \in DirStates : dir' = [dir EXCEPT ![Id(i)] = left]
    BY <1>5, <2>2 DEF MoveIn
  <2>5. legacy' = legacy \/ \E rest \in DirStates : legacy' = [legacy EXCEPT ![Id(i)] = rest]
    BY <1>5, <2>2 DEF MoveIn
  <2> QED BY <1>1, <1>2, <2>1, <2>2, <2>3, <2>4, <2>5 DEF Keeps
<1>6. ASSUME NEW done, Serialized(i), Delete(Id(i), done)
      PROVE  /\ dir' \in [Items -> DirStates] /\ legacy' \in [Items -> DirStates] /\ aside' = aside
             /\ \A x \in Items : x # Id(i) => dir'[x] = dir[x] /\ legacy'[x] = legacy[x]
  <2>1. /\ Remains(legacy[Id(i)]) \subseteq DirStates /\ Remains(dir[Id(i)]) \subseteq DirStates
        /\ "none" \in DirStates
    BY <1>1, <1>2, <1>6 DEF DirStates, Remains
  <2>2. dir' = dir \/ \E left \in DirStates : dir' = [dir EXCEPT ![Id(i)] = left]
    BY <1>6, <2>1 DEF Delete
  <2>3. legacy' = legacy \/ \E left \in DirStates : legacy' = [legacy EXCEPT ![Id(i)] = left]
    BY <1>6, <2>1 DEF Delete
  <2>4. aside' = aside
    BY <1>6 DEF Delete
  <2> QED BY <1>1, <1>2, <1>6, <2>2, <2>3, <2>4
<1>7. CASE Installing(i)
  BY <1>1, <1>4, <1>5, <1>7 DEF Installing, InstallBegins, InstallDownloads, InstallDisplaces,
     InstallPromotes, Keeps, dirVars, lifeVars, KeepConfig, configVars
<1>8. CASE Cloning(i)
  BY <1>1, <1>4, <1>5, <1>8 DEF Cloning, CloneBegins, CloneExtracts, CloneDisplaces,
     ClonePromotes,
     Keeps, dirVars, lifeVars, KeepConfig, configVars
<1>9. CASE RemovingModel(i)
  <2>1. CASE RemoveModelBegins(i) \/ RemoveModelClears(i)
    BY <1>1, <2>1 DEF RemoveModelBegins, RemoveModelClears, Read, Keeps, dirVars, lifeVars,
       KeepConfig, KeepStored, configVars
  <2>2. CASE RemoveModelDeletes(i)
    <3>1. Serialized(i) /\ \E done \in BOOLEAN : Delete(Id(i), done)
      BY <2>2 DEF RemoveModelDeletes, At, Serialized
    <3> QED BY <1>1, <1>6, <2>2, <3>1 DEF RemoveModelDeletes, Keeps, lifeVars, KeepStored
  <2> QED BY <1>9, <2>1, <2>2 DEF RemovingModel
<1>10. CASE RemovingVoice(i)
  <2>1. CASE RemoveVoiceBegins(i) \/ RemoveVoiceChecks(i)
    BY <1>1, <2>1 DEF RemoveVoiceBegins, RemoveVoiceChecks, Read, Keeps, dirVars, lifeVars,
       KeepConfig, configVars
  <2>2. CASE RemoveVoiceDeletes(i)
    <3>1. Serialized(i) /\ \E done \in BOOLEAN : Delete(Id(i), done)
      BY <2>2 DEF RemoveVoiceDeletes, At, Serialized
    <3> QED BY <1>1, <1>6, <2>2, <3>1 DEF RemoveVoiceDeletes, Keeps, lifeVars, KeepConfig, configVars
  <2> QED BY <1>10, <2>1, <2>2 DEF RemovingVoice
<1>11. CASE Speaking(i)
  <2>1. Id(i) # None /\ Op(i) = "speak" => Id(i) \in Items
    BY CallTypes DEF Items
  <2>2. At(i, "speak", "voice", "start") => Op(i) = "speak"
    BY DEF At, Op
  <2> QED BY <1>1, <1>11, <2>1, <2>2 DEF Speaking, SpeakBegins, SpeakLeases, SpeakResolves, SpeakEnds,
          Begin, Read, Keeps, dirVars, lifeVars, KeepConfig, configVars
<1> QED BY <1>3, <1>7, <1>8, <1>9, <1>10, <1>11, StepCases

\* What it asks of the configuration, if anything.
LEMMA StepQueues == ASSUME TypeOK, NEW i \in DOMAIN calls, Step(i) PROVE Queues(i)
<1>1. calls' = calls /\ Op(i)' = Op(i) /\ Kind(i)' = Kind(i) /\ Id(i)' = Id(i)
  <2>1. calls' = calls
    BY StepKeeps DEF Keeps
  <2> QED BY <2>1 DEF Op, Kind, Id
<1>2. DOMAIN pc = DOMAIN calls
  BY DEF TypeOK
<1>3. ASSUME updates' = updates, NEW place \in Places \ {"selecting", "clearing", "restoring"},
             pc' = [pc EXCEPT ![i] = place]
      PROVE  Queues(i)
  BY <1>2, <1>3 DEF Queues, Waits
<1>4. ASSUME NEW kind \in {"model", "voice", "all"}, NEW value \in Items \cup {None} \cup Config,
             Enqueue(i, kind, value), NEW place, pc' = [pc EXCEPT ![i] = place],
             \/ place = "selecting" /\ Op(i) = "set" /\ kind = "all" /\ value \in Config
             \/ place = "selecting" /\ Op(i) = "use" /\ kind = Kind(i) /\ value = Id(i)
             \/ place = "clearing" /\ kind = "model" /\ value = None
             \/ place = "restoring" /\ kind = "model" /\ value = Id(i)
      PROVE  Queues(i)
  <2>1. pc'[i] = place
    BY <1>2, <1>4
  <2>2. Wanted([call |-> i, kind |-> kind, value |-> value])'
    BY <1>1, <1>4, <2>1 DEF Wanted
  <2> QED BY <1>4, <2>2 DEF Queues, Enqueue
<1>5. CASE Selecting(i)
  <2>1. CASE SetConfig(i)
    <3>1. Op(i) = "set"
      BY <2>1 DEF SetConfig, Begin, At, Op
    <3> QED BY <2>1, <3>1, <1>4, AppliedAssumption DEF SetConfig, Goto
  <2>2. ASSUME NEW kind \in {"model", "voice"}, Use(i, kind) PROVE Queues(i)
    <3>1. Op(i) = "use" /\ Kind(i) = kind /\ Id(i) \in Items
      <4>1. Op(i) = "use" /\ Kind(i) = kind
        BY <2>2 DEF Use, Begin, At, Op, Kind
      <4> QED BY <4>1, CallTypes
    <3> QED BY <2>2, <3>1, <1>3, <1>4 DEF Use, Goto, Return, Places
  <2> QED BY <1>5, <2>1, <2>2 DEF Selecting, UseModel, UseVoice
<1>6. CASE Installing(i) \/ Cloning(i)
  BY <1>3, <1>6 DEF Installing, InstallBegins, InstallDownloads, InstallDisplaces,
     InstallPromotes,
     Cloning, CloneBegins, CloneExtracts, CloneDisplaces, ClonePromotes, MoveAside, MoveIn,
     GiveUp, Goto,
     Return, KeepConfig, configVars, Places
<1>7. CASE RemovingModel(i)
  <2>1. Op(i) = "remove" /\ Kind(i) = "model"
    BY <1>7 DEF RemovingModel, RemoveModelBegins, RemoveModelClears, RemoveModelDeletes, Begin,
       At,
       Op, Kind
  <2>2. Id(i) \in Items
    BY <2>1, CallTypes DEF Items
  <2> QED BY <1>3, <1>4, <1>7, <2>1, <2>2 DEF RemovingModel, RemoveModelBegins, RemoveModelClears,
          RemoveModelDeletes, Goto, Return, KeepConfig, configVars, Places
<1>8. CASE RemovingVoice(i)
  BY <1>3, <1>8 DEF RemovingVoice, RemoveVoiceBegins, RemoveVoiceChecks, RemoveVoiceDeletes,
     Goto,
     Return, KeepConfig, configVars, Places
<1>9. CASE Speaking(i)
  BY <1>3, <1>9 DEF Speaking, SpeakBegins, SpeakLeases, SpeakResolves, SpeakEnds, Lease, Goto,
     Return, KeepConfig, configVars, Places
<1> QED BY <1>5, <1>6, <1>7, <1>8, <1>9, StepCases

\* The other calls stay where they are, and what began or is over stays so.
LEMMA StepShape ==
  ASSUME TypeOK, Placed, NEW i \in DOMAIN calls, Step(i)
  PROVE  /\ UNCHANGED <<calls, loaded, crashes, snapshot, file, durable, writing, unread>>
         /\ \A j : Op(j)' = Op(j) /\ Kind(j)' = Kind(j) /\ Id(j)' = Id(j)
                   /\ (Serialized(j)' <=> Serialized(j))
         /\ pc' \in [DOMAIN calls -> Places] /\ seen' \in [DOMAIN calls -> Items \cup {None}]
         /\ result' \in [DOMAIN calls -> {"none", "ok", "failed", "lost"}]
         /\ before' \in [DOMAIN calls -> SUBSET DOMAIN calls]
         /\ \A j \in DOMAIN calls : j # i =>
              /\ pc'[j] = pc[j] /\ result'[j] = result[j] /\ before'[j] = before[j]
              /\ seen'[j] = seen[j]
         /\ ~Over(i) /\ ~Waits(i) /\ pc'[i] # "start"
         /\ result'[i] # "none" <=> pc'[i] = "over"
         /\ result'[i] = "ok" => Op(i) \notin {"use", "set"}
         /\ \/ /\ pc[i] = "start" /\ ItsTurn(i)
               /\ before'[i] = {j \in DOMAIN calls : Over(j)}
            \/ pc[i] # "start" /\ before'[i] = before[i]
         /\ \A j \in DOMAIN calls : Over(j) => Over(j)' /\ j # i
<1>1. /\ pc \in [DOMAIN calls -> Places] /\ seen \in [DOMAIN calls -> Items \cup {None}]
      /\ result \in [DOMAIN calls -> {"none", "ok", "failed", "lost"}]
      /\ before \in [DOMAIN calls -> SUBSET DOMAIN calls]
  BY DEF TypeOK
<1>2. /\ UNCHANGED <<calls, loaded, crashes, snapshot, file, durable, writing, unread>>
      /\ \/ UNCHANGED seen
         \/ \E value \in Items \cup {None} : seen' = [seen EXCEPT ![i] = value]
  BY StepKeeps DEF Keeps
<1>3. \A j : Op(j)' = Op(j) /\ Kind(j)' = Kind(j) /\ Id(j)' = Id(j)
             /\ (Serialized(j)' <=> Serialized(j))
  BY <1>2 DEF Op, Kind, Id, Serialized
<1>4. PICK place \in Places \ {"start"} :
        /\ ~Over(i) /\ ~Waits(i) /\ pc' = [pc EXCEPT ![i] = place]
        /\ \/ place # "over" /\ result' = result
           \/ /\ place = "over"
              /\ \/ result' = [result EXCEPT ![i] = "failed"]
                 \/ result' = [result EXCEPT ![i] = "ok"] /\ Op(i) \notin {"use", "set"}
        /\ \/ /\ pc[i] = "start" /\ ItsTurn(i)
              /\ before' = [before EXCEPT ![i] = {j \in DOMAIN calls : Over(j)}]
           \/ pc[i] # "start" /\ before' = before
  BY StepMoves DEF Moves
<1>5. result[i] = "none"
  BY <1>1, <1>4 DEF Placed
<1>6. /\ pc' \in [DOMAIN calls -> Places] /\ pc'[i] = place
      /\ \A j \in DOMAIN calls : j # i => pc'[j] = pc[j]
  BY <1>1, <1>4
<1>7. /\ result' \in [DOMAIN calls -> {"none", "ok", "failed", "lost"}]
      /\ \A j \in DOMAIN calls : j # i => result'[j] = result[j]
      /\ result'[i] # "none" <=> place = "over"
      /\ result'[i] = "ok" => Op(i) \notin {"use", "set"}
  BY <1>1, <1>4, <1>5
<1>8. /\ before' \in [DOMAIN calls -> SUBSET DOMAIN calls]
      /\ \A j \in DOMAIN calls : j # i => before'[j] = before[j]
      /\ \/ /\ pc[i] = "start" /\ ItsTurn(i)
            /\ before'[i] = {j \in DOMAIN calls : Over(j)}
         \/ pc[i] # "start" /\ before'[i] = before[i]
  BY <1>1, <1>4
<1>9. /\ seen' \in [DOMAIN calls -> Items \cup {None}]
      /\ \A j \in DOMAIN calls : j # i => seen'[j] = seen[j]
  BY <1>1, <1>2
<1>10. \A j \in DOMAIN calls : Over(j) => Over(j)' /\ j # i
  BY <1>4, <1>6 DEF Over
<1> QED BY <1>2, <1>3, <1>4, <1>6, <1>7, <1>8, <1>9, <1>10

\* The order of the calls about one model or voice, and what was over, hold.
LEMMA StepQueued ==
  ASSUME TypeOK, Placed, Queued, Past, NEW i \in DOMAIN calls, Step(i)
  PROVE  Queued' /\ Past'
<1>1. /\ calls' = calls
      /\ \A j : (Serialized(j)' <=> Serialized(j)) /\ Id(j)' = Id(j)
      /\ \A j \in DOMAIN calls : j # i => pc'[j] = pc[j] /\ before'[j] = before[j]
      /\ \/ pc[i] = "start" /\ ItsTurn(i) /\ before'[i] = {j \in DOMAIN calls : Over(j)}
         \/ pc[i] # "start" /\ before'[i] = before[i]
      /\ \A j \in DOMAIN calls : Over(j) => Over(j)' /\ j # i
  BY StepShape
<1>2. DOMAIN calls = 1 .. Len(calls) /\ Len(calls) \in Nat
  BY CallTypes
<1>3. Queued'
  <2> SUFFICES ASSUME NEW j \in DOMAIN calls, NEW k \in DOMAIN calls, j < k,
                      Serialized(j), Serialized(k), Id(j) = Id(k), pc'[k] # "start"
               PROVE  Over(j)'
    BY <1>1 DEF Queued
  <2>1. CASE k = i /\ pc[i] = "start"
    <3>1. j \in 1 .. (i - 1)
      BY <1>2, <2>1
    <3>2. Over(j)
      BY <1>1, <2>1, <3>1 DEF ItsTurn
    <3> QED BY <1>1, <3>2
  <2>2. CASE ~(k = i /\ pc[i] = "start")
    <3>1. pc[k] # "start"
      BY <1>1, <2>2
    <3> QED BY <1>1, <3>1 DEF Queued
  <2> QED BY <2>1, <2>2
<1>4. Past'
  <2> SUFFICES ASSUME NEW j \in DOMAIN calls, NEW k \in before'[j] PROVE Over(k)'
    BY <1>1 DEF Past
  <2>1. k \in DOMAIN calls /\ Over(k)
    <3>1. CASE j = i /\ pc[i] = "start"
      BY <1>1, <3>1
    <3>2. CASE ~(j = i /\ pc[i] = "start")
      <4>1. before'[j] = before[j]
        BY <1>1, <3>2
      <4>2. before[j] \in SUBSET DOMAIN calls
        BY DEF TypeOK
      <4> QED BY <4>1, <4>2 DEF Past
    <3> QED BY <3>1, <3>2
  <2> QED BY <1>1, <2>1
<1> QED BY <1>3, <1>4

\* Nobody takes the place of another call about the same model or voice.
LEMMA Alone ==
  ASSUME TypeOK, Queued, NEW i \in DOMAIN calls, NEW j \in DOMAIN calls, i # j,
         Serialized(i), Serialized(j), Id(i) = Id(j), Active(i)
  PROVE  ~Active(j)
<1>1. i \in Nat /\ j \in Nat
  BY CallTypes
<1>2. CASE i < j \/ j < i
  BY <1>2 DEF Queued, Active, Over
<1> QED BY <1>1, <1>2

\* The queue of changes: one entry for each call that waits for one.
LEMMA StepChanges ==
  ASSUME TypeOK, Changes, Written, Placed, NEW i \in DOMAIN calls, Step(i)
  PROVE  /\ Changes' /\ Written'
         /\ updates' \in Seq([call : DOMAIN calls, kind : {"model", "voice", "all"},
                              value : Items \cup {None} \cup Config])
<1>1. /\ UNCHANGED <<calls, snapshot, file, writing, unread>>
      /\ \A j : Op(j)' = Op(j) /\ Kind(j)' = Kind(j) /\ Id(j)' = Id(j)
      /\ \A j \in DOMAIN calls : j # i => pc'[j] = pc[j]
      /\ ~Waits(i)
  BY StepShape
<1> DEFINE Posted == [call : DOMAIN calls, kind : {"model", "voice", "all"},
                      value : Items \cup {None} \cup Config]
<1>2. updates \in Seq(Posted) /\ Len(updates) \in Nat /\ DOMAIN updates = 1 .. Len(updates)
  BY DEF TypeOK
<1>3. \A n \in DOMAIN updates : updates[n].call # i
  BY <1>1 DEF Changes, Wanted, Waits
<1>4. ASSUME NEW change, change.call \in DOMAIN calls, change.call # i, Wanted(change)
      PROVE  Wanted(change)'
  BY <1>1, <1>4 DEF Wanted
<1>5. CASE updates' = updates
  <2>1. Changes'
    <3> SUFFICES ASSUME NEW n \in DOMAIN updates
                 PROVE  updates'[n].call \in DOMAIN calls' /\ Wanted(updates[n])'
      BY <1>5 DEF Changes
    <3>1. PICK change : change = updates[n]
      OBVIOUS
    <3>2. Wanted(change)'
      BY <1>3, <1>4, <3>1 DEF Changes
    <3> QED BY <1>1, <1>5, <3>1, <3>2 DEF Changes
  <2>2. Written'
    BY <1>1, <1>5 DEF Written, SnapshotIsFile, Changed, Change
  <2> QED BY <1>2, <1>5, <2>1, <2>2
<1>6. ASSUME NEW change \in Posted, change.call = i, updates' = Append(updates, change), Wanted(change)'
      PROVE  Changes' /\ Written' /\ updates' \in Seq(Posted)
  <2>1. /\ updates' \in Seq(Posted) /\ DOMAIN updates' = DOMAIN updates \cup {Len(updates) + 1}
        /\ updates'[Len(updates) + 1] = change
        /\ \A n \in DOMAIN updates : updates'[n] = updates[n] /\ n # Len(updates) + 1
    BY <1>2, <1>6
  <2>2. ASSUME NEW n \in DOMAIN updates' PROVE updates'[n].call \in DOMAIN calls' /\ Wanted(updates[n])'
    <3>1. PICK c : c = updates'[n]
      OBVIOUS
    <3>2. c.call \in DOMAIN calls /\ Wanted(c)'
      BY <1>3, <1>4, <1>6, <2>1, <3>1 DEF Changes
    <3> QED BY <1>1, <3>1, <3>2
  <2>3. ASSUME NEW m \in DOMAIN updates', NEW n \in DOMAIN updates', m # n
        PROVE  updates'[m].call # updates'[n].call
    BY <1>3, <1>6, <2>1, <2>3 DEF Changes
  <2>4. updates # <<>> => Head(updates') = Head(updates)
    BY <1>2, <1>6
  <2>5. Written'
    BY <1>1, <1>2, <2>1, <2>4 DEF Written, SnapshotIsFile, Changed, Change
  <2> QED BY <2>1, <2>2, <2>3, <2>5 DEF Changes
<1>7. updates' = updates \/ \E change \in Posted :
        change.call = i /\ updates' = Append(updates, change) /\ Wanted(change)'
  BY StepQueues DEF Queues
<1> QED BY <1>2, <1>5, <1>6, <1>7

\* A call is where one of its kind may be.
LEMMA StepPlaced == ASSUME TypeOK, Placed, NEW i \in DOMAIN calls, Step(i) PROVE Placed'
<1>1. /\ calls' = calls
      /\ \A j : Op(j)' = Op(j) /\ Kind(j)' = Kind(j) /\ Id(j)' = Id(j)
      /\ \A j \in DOMAIN calls : j # i =>
           pc'[j] = pc[j] /\ result'[j] = result[j] /\ seen'[j] = seen[j]
      /\ result'[i] # "none" <=> pc'[i] = "over"
  BY StepShape
<1>2. /\ DOMAIN pc = DOMAIN calls /\ DOMAIN seen = DOMAIN calls /\ snapshot.voice \in Voices \cup {None}
  BY DEF TypeOK, Config
<1>3. ASSUME /\ pc'[i] = "selecting" => Op(i) \in {"use", "set"}
             /\ pc'[i] \in {"clear", "clearing", "restoring"} => Op(i) = "remove" /\ Kind(i) = "model"
             /\ pc'[i] = "check" => Op(i) = "remove" /\ Kind(i) = "voice"
             /\ pc'[i] = "delete" => Op(i) = "remove"
             /\ pc'[i] \in {"download", "extract", "displace", "promote"} => Op(i) \in {"install", "clone"}
             /\ pc'[i] \in {"lease", "resolve", "speak"} => Op(i) = "speak"
             /\ pc'[i] = "resolve" => seen'[i] \in Voices
             /\ pc'[i] \in {"lease", "speak"} => seen'[i] \in Voices \cup {None}
      PROVE  Placed'
  BY <1>1, <1>3 DEF Placed, Over
<1>4. CASE Selecting(i)
  <2>1. Op(i) \in {"use", "set"} /\ pc'[i] \in {"selecting", "over"}
    BY <1>2, <1>4 DEF Selecting, SetConfig, UseModel, UseVoice, Use, Begin, At, Op, Goto, Return
  <2> QED BY <2>1, <1>3
<1>5. CASE Installing(i) \/ Cloning(i)
  <2>1. Op(i) \in {"install", "clone"} /\ pc'[i] \in {"download", "extract", "displace", "promote", "over"}
    BY <1>2, <1>5 DEF Installing, InstallBegins, InstallDownloads, InstallDisplaces,
       InstallPromotes,
       Cloning, CloneBegins, CloneExtracts, CloneDisplaces, ClonePromotes, MoveAside, MoveIn,
       GiveUp, Begin,
       At, Op, Goto, Return
  <2> QED BY <2>1, <1>3
<1>6. CASE RemovingModel(i)
  <2>1. Op(i) = "remove" /\ Kind(i) = "model"
        /\ pc'[i] \in {"clear", "clearing", "restoring", "delete", "over"}
    BY <1>2, <1>6 DEF RemovingModel, RemoveModelBegins, RemoveModelClears, RemoveModelDeletes,
       Begin,
       At, Op, Kind, Goto, Return
  <2> QED BY <2>1, <1>3
<1>7. CASE RemovingVoice(i)
  <2>1. Op(i) = "remove" /\ Kind(i) = "voice" /\ pc'[i] \in {"check", "delete", "over"}
    BY <1>2, <1>7 DEF RemovingVoice, RemoveVoiceBegins, RemoveVoiceChecks, RemoveVoiceDeletes,
       Begin,
       At, Op, Kind, Goto, Return
  <2> QED BY <2>1, <1>3
<1>8. CASE Speaking(i)
  <2>1. Op(i) = "speak" /\ pc'[i] \in {"lease", "resolve", "speak", "over"}
    BY <1>2, <1>8 DEF Speaking, SpeakBegins, SpeakLeases, SpeakResolves, SpeakEnds, Lease,
       Begin,
       At, Op, Goto, Return
  <2>2. Id(i) \in Voices \cup {None}
    BY <2>1, CallTypes
  <2>3. /\ pc'[i] = "resolve" => seen'[i] \in Voices
        /\ pc'[i] \in {"lease", "speak"} => seen'[i] \in Voices \cup {None}
    <3>1. CASE SpeakBegins(i)
      BY <1>2, <2>2, <3>1 DEF SpeakBegins, Read, Lease, Goto, Return
    <3>2. CASE SpeakLeases(i) \/ SpeakResolves(i) \/ SpeakEnds(i)
      BY <1>2, <3>2 DEF SpeakLeases, SpeakResolves, SpeakEnds, At, Lease, Goto, Return, Placed
    <3> QED BY <1>8, <3>1, <3>2 DEF Speaking
  <2> QED BY <2>1, <2>3, <1>3
<1> QED BY <1>4, <1>5, <1>6, <1>7, <1>8, StepCases

\* A lease begins and ends with its synthesis.
LEMMA SpeakLeasing ==
  ASSUME TypeOK, Placed, NEW i \in DOMAIN calls, Speaking(i)
  PROVE  \/ leases' = leases /\ \A v \in Voices : Readers(v)' = Readers(v)
         \/ \E w \in Voices \ removing :
              /\ leases' = [leases EXCEPT ![w] = @ + 1]
              /\ i \notin Readers(w) /\ Readers(w)' = Readers(w) \cup {i}
              /\ \A v \in Voices \ {w} : Readers(v)' = Readers(v)
         \/ \E w \in Voices :
              /\ Release(w)
              /\ i \in Readers(w) /\ Readers(w)' = Readers(w) \ {i}
              /\ \A v \in Voices \ {w} : Readers(v)' = Readers(v)
<1> DEFINE Reads == pc[i] \in {"resolve", "speak"}
           ReadsNext == pc'[i] \in {"resolve", "speak"}
<1>1. Step(i)
  BY DEF Speaking, Step
<1>2. /\ calls' = calls /\ pc' \in [DOMAIN calls -> Places] /\ DOMAIN pc = DOMAIN calls
      /\ DOMAIN seen = DOMAIN calls
      /\ \A j \in DOMAIN calls : j # i => pc'[j] = pc[j] /\ seen'[j] = seen[j]
  BY <1>1, StepShape DEF TypeOK
<1>3. \A v, j : j # i => (j \in Readers(v)' <=> j \in Readers(v))
  BY <1>2 DEF Readers
<1>4. \A v : (i \in Readers(v) <=> Reads /\ seen[i] = v) /\ (i \in Readers(v)' <=> ReadsNext /\ seen'[i] = v)
  BY <1>2 DEF Readers
<1>5. ASSUME leases' = leases, \A v \in Voices : (Reads /\ seen[i] = v) <=> (ReadsNext /\ seen'[i] = v)
      PROVE  leases' = leases /\ \A v \in Voices : Readers(v)' = Readers(v)
  BY <1>3, <1>4, <1>5
<1>6. ASSUME NEW w \in Voices \ removing, leases' = [leases EXCEPT ![w] = @ + 1],
             ~Reads, ReadsNext, seen'[i] = w
      PROVE  /\ i \notin Readers(w) /\ Readers(w)' = Readers(w) \cup {i}
             /\ \A v \in Voices \ {w} : Readers(v)' = Readers(v)
  <2>1. i \notin Readers(w) /\ i \in Readers(w)'
    BY <1>4, <1>6
  <2>2. Readers(w)' = Readers(w) \cup {i}
    BY <1>3, <2>1
  <2>3. ASSUME NEW v \in Voices \ {w} PROVE Readers(v)' = Readers(v)
    <3>1. i \notin Readers(v) /\ i \notin Readers(v)'
      BY <1>4, <1>6, <2>3
    <3> QED BY <1>3, <3>1
  <2> QED BY <2>1, <2>2, <2>3
<1>7. ASSUME NEW w \in Voices, Release(w),
             Reads, ~ReadsNext, seen[i] = w
      PROVE  /\ i \in Readers(w) /\ Readers(w)' = Readers(w) \ {i}
             /\ \A v \in Voices \ {w} : Readers(v)' = Readers(v)
  <2>1. i \in Readers(w) /\ i \notin Readers(w)'
    BY <1>4, <1>7
  <2>2. Readers(w)' = Readers(w) \ {i}
    BY <1>3, <2>1
  <2>3. ASSUME NEW v \in Voices \ {w} PROVE Readers(v)' = Readers(v)
    <3>1. i \notin Readers(v) /\ i \notin Readers(v)'
      BY <1>4, <1>7, <2>3
    <3> QED BY <1>3, <3>1
  <2> QED BY <2>1, <2>2, <2>3
<1>8. ASSUME NEW w, Lease(i, w), w \in Voices, ~Reads, seen'[i] = w
      PROVE  \/ leases' = leases /\ ~ReadsNext
             \/ w \notin removing /\ leases' = [leases EXCEPT ![w] = @ + 1] /\ ReadsNext
  BY <1>2, <1>8 DEF Lease, Goto, Return
<1> HIDE DEF Reads, ReadsNext
<1>9. ASSUME NEW w, Lease(i, w), w \in Voices, ~Reads, seen'[i] = w
      PROVE  \/ leases' = leases /\ \A v \in Voices : Readers(v)' = Readers(v)
             \/ \E u \in Voices \ removing :
                  /\ leases' = [leases EXCEPT ![u] = @ + 1]
                  /\ i \notin Readers(u) /\ Readers(u)' = Readers(u) \cup {i}
                  /\ \A v \in Voices \ {u} : Readers(v)' = Readers(v)
  <2>1. CASE leases' = leases /\ ~ReadsNext
    BY <1>5, <1>9, <2>1
  <2>2. CASE w \notin removing /\ leases' = [leases EXCEPT ![w] = @ + 1] /\ ReadsNext
    <3>1. w \in Voices \ removing
      BY <1>9, <2>2
    <3> QED BY <1>6, <1>9, <2>2, <3>1
  <2> QED BY <1>8, <1>9, <2>1, <2>2
<1>10. CASE SpeakBegins(i)
  <2>1. Op(i) = "speak" /\ pc[i] = "start" /\ ~Reads
    BY <1>10 DEF SpeakBegins, Begin, At, Op, Reads
  <2>2. Id(i) \in Voices \cup {None}
    BY <2>1, CallTypes
  <2>3. CASE leases' = leases /\ pc'[i] \in {"over", "lease"}
    BY <1>5, <2>1, <2>3 DEF ReadsNext
  <2>4. CASE loaded # None /\ Id(i) # None
    <3>1. Lease(i, Id(i)) /\ seen'[i] = Id(i) /\ Id(i) \in Voices
      BY <1>2, <1>10, <2>2, <2>4 DEF SpeakBegins, Read
    <3> QED BY <3>1, <2>1, <1>9
  <2> QED BY <1>2, <1>10, <2>3, <2>4 DEF SpeakBegins, Goto, Return
<1>11. CASE SpeakLeases(i)
  <2>1. pc[i] = "lease" /\ ~Reads /\ seen'[i] = seen[i] /\ seen[i] \in Voices \cup {None}
    BY <1>11 DEF SpeakLeases, At, Reads, Placed
  <2>2. CASE seen[i] = None /\ leases' = leases
    <3>1. \A v \in Voices : seen'[i] # v
      BY <2>1, <2>2, ItemsAssumption DEF Items
    <3> QED BY <1>5, <2>1, <2>2, <3>1
  <2>3. CASE seen[i] # None /\ Lease(i, seen[i])
    BY <1>9, <2>1, <2>3
  <2> QED BY <1>11, <2>2, <2>3 DEF SpeakLeases
<1>12. CASE SpeakResolves(i)
  <2>1. pc[i] = "resolve" /\ Reads /\ seen'[i] = seen[i] /\ seen[i] \in Voices
    BY <1>12 DEF SpeakResolves, At, Reads, Placed
  <2>2. CASE leases' = leases /\ ReadsNext
    BY <1>5, <2>1, <2>2
  <2>3. CASE Release(seen[i]) /\ ~ReadsNext
    BY <1>7, <2>1, <2>3
  <2> QED BY <1>2, <1>12, <2>2, <2>3 DEF SpeakResolves, Goto, Return, ReadsNext
<1>13. CASE SpeakEnds(i)
  <2>1. pc[i] = "speak" /\ Reads /\ ~ReadsNext /\ seen'[i] = seen[i] /\ seen[i] \in Voices \cup {None}
    BY <1>2, <1>13 DEF SpeakEnds, At, Return, Reads, ReadsNext, Placed
  <2>2. CASE seen[i] = None /\ leases' = leases
    <3>1. \A v \in Voices : seen[i] # v
      BY <2>1, <2>2, ItemsAssumption DEF Items
    <3> QED BY <1>5, <2>1, <2>2, <3>1
  <2>3. CASE seen[i] # None /\ Release(seen[i])
    BY <1>7, <2>1, <2>3
  <2> QED BY <1>13, <2>2, <2>3 DEF SpeakEnds
<1> QED BY <1>10, <1>11, <1>12, <1>13 DEF Speaking

\* A voice is leased as often as it is read, and never while it is deleted.
LEMMA StepLeases ==
  ASSUME TypeOK, Placed, Queued, Leases, Unleased, NEW i \in DOMAIN calls, Step(i)
  PROVE  /\ Leases' /\ Unleased'
         /\ leases' \in [Voices -> Nat] /\ removing' \subseteq Voices
<1>1. /\ calls' = calls /\ pc' \in [DOMAIN calls -> Places] /\ DOMAIN pc = DOMAIN calls
      /\ \A j : Kind(j)' = Kind(j) /\ Id(j)' = Id(j)
      /\ \A j \in DOMAIN calls : j # i => pc'[j] = pc[j] /\ seen'[j] = seen[j]
  BY StepShape DEF TypeOK
<1>2. leases \in [Voices -> Nat] /\ removing \subseteq Voices
  BY DEF TypeOK
<1>3. \A v : IsFiniteSet(Readers(v)) /\ Cardinality(Readers(v)) \in Nat
  <2>1. IsFiniteSet(1 .. Len(calls)) /\ DOMAIN calls = 1 .. Len(calls)
    BY CallTypes, FS_Interval
  <2> QED BY <2>1, FS_Subset, FS_CardinalityType DEF Readers
\* Deletions stay alone, if readers and removals only change for other voices.
<1>4. ASSUME \A j \in DOMAIN calls :
               pc'[j] = "delete" /\ Kind(j) = "voice" =>
                 \A v : v = Id(j) => v \in removing' /\ Readers(v)' = {}
      PROVE  Unleased'
  <2> SUFFICES ASSUME NEW j \in DOMAIN calls, pc'[j] = "delete", Kind(j) = "voice"
               PROVE  Id(j)' \in removing' /\ Readers(Id(j))' = {}
    BY <1>1 DEF Unleased
  <2>1. PICK v : v = Id(j)
    OBVIOUS
  <2>2. v \in removing' /\ Readers(v)' = {}
    BY <1>4, <2>1
  <2> QED BY <1>1, <2>1, <2>2 DEF Readers
<1>5. CASE Speaking(i)
  <2>1. removing' = removing /\ Op(i) = "speak" /\ pc'[i] # "delete"
    BY <1>1, <1>5 DEF Speaking, SpeakBegins, SpeakLeases, SpeakResolves, SpeakEnds, Lease,
       Begin,
       At, Op, Goto, Return
  <2>2. \A j \in DOMAIN calls : pc'[j] = "delete" => pc[j] = "delete" /\ j # i
    BY <1>1, <2>1
  <2>3. CASE leases' = leases /\ \A v \in Voices : Readers(v)' = Readers(v)
    <3>1. Leases'
      BY <2>3 DEF Leases
    <3>2. Unleased'
      BY <1>2, <1>4, <2>1, <2>2, <2>3 DEF Unleased
    <3> QED BY <1>2, <2>1, <2>3, <3>1, <3>2
  <2>4. ASSUME NEW w \in Voices \ removing, leases' = [leases EXCEPT ![w] = @ + 1],
               i \notin Readers(w), Readers(w)' = Readers(w) \cup {i},
               \A v \in Voices \ {w} : Readers(v)' = Readers(v)
        PROVE  Leases' /\ Unleased' /\ leases' \in [Voices -> Nat]
    <3>1. Cardinality(Readers(w)') = Cardinality(Readers(w)) + 1
      BY <1>3, <2>4, FS_AddElement
    <3>2. leases' \in [Voices -> Nat] /\ leases'[w] = leases[w] + 1
          /\ \A v \in Voices \ {w} : leases'[v] = leases[v]
      BY <1>2, <2>4
    <3>3. Leases'
      BY <2>4, <3>1, <3>2 DEF Leases
    <3>4. Unleased'
      BY <1>2, <1>4, <2>1, <2>2, <2>4 DEF Unleased
    <3> QED BY <3>2, <3>3, <3>4
  <2>5. ASSUME NEW w \in Voices, Release(w),
               i \in Readers(w), Readers(w)' = Readers(w) \ {i},
               \A v \in Voices \ {w} : Readers(v)' = Readers(v)
        PROVE  Leases' /\ Unleased' /\ leases' \in [Voices -> Nat]
    <3>1. Cardinality(Readers(w)') = Cardinality(Readers(w)) - 1
      BY <1>3, <2>5, FS_RemoveElement
    <3>2. Cardinality(Readers(w)') \in Nat
      BY <1>3, <2>5, FS_Subset, FS_CardinalityType
    <3>3. leases[w] - 1 \in Nat
      BY <3>1, <3>2 DEF Leases
    <3>4. leases' \in [Voices -> Nat] /\ leases'[w] = leases[w] - 1
          /\ \A v \in Voices \ {w} : leases'[v] = leases[v]
      <4>1. leases[w] \in Nat /\ leases[w] >= 1
        BY <1>2, <3>3
      <4>2. leases[w] - 1 = IF leases[w] > 1 THEN leases[w] - 1 ELSE 0
        BY <4>1
      <4> QED BY <1>2, <2>5, <3>3, <4>2 DEF Release
    <3>5. Leases'
      BY <2>5, <3>1, <3>4 DEF Leases
    <3>6. Unleased'
      BY <1>2, <1>4, <2>1, <2>2, <2>5 DEF Unleased
    <3> QED BY <3>4, <3>5, <3>6
  <2> QED BY <1>2, <1>5, <2>1, <2>3, <2>4, <2>5, SpeakLeasing
<1>6. ASSUME Op(i) # "speak", leases' = leases
      PROVE  Leases' /\ leases' \in [Voices -> Nat] /\ \A v : Readers(v)' = Readers(v)
  <2>1. pc[i] \notin {"resolve", "speak"} /\ pc'[i] \notin {"resolve", "speak"}
    <3>1. Placed' /\ Op(i)' = Op(i)
      BY StepPlaced, StepShape
    <3> QED BY <1>1, <1>6, <3>1 DEF Placed
  <2>2. \A v : Readers(v)' = Readers(v)
    BY <1>1, <2>1 DEF Readers
  <2> QED BY <1>2, <1>6, <2>2 DEF Leases
<1>7. CASE RemovingVoice(i)
  <2>1. Op(i) = "remove" /\ Kind(i) = "voice" /\ leases' = leases
    BY <1>7 DEF RemovingVoice, RemoveVoiceBegins, RemoveVoiceChecks, RemoveVoiceDeletes, Begin,
       At,
       Op, Kind, leaseVars
  <2>2. Id(i) \in Voices
    BY <2>1, CallTypes
  <2>3. CASE pc'[i] # "delete" /\ removing' = removing
    BY <1>1, <1>2, <1>4, <1>6, <2>1, <2>3 DEF Unleased
  <2>4. CASE RemoveVoiceChecks(i)
    <3>1. CASE leases[Id(i)] = 0 /\ removing' = removing \cup {Id(i)}
      <4>1. Cardinality(Readers(Id(i))) = 0
        BY <2>2, <3>1 DEF Leases
      <4>2. Readers(Id(i)) = {}
        BY <1>3, <4>1, FS_EmptySet
      <4> QED BY <1>1, <1>2, <1>4, <1>6, <2>1, <2>2, <3>1, <4>2 DEF Unleased
    <3> QED BY <1>1, <2>3, <2>4, <3>1 DEF RemoveVoiceChecks, Return
  <2>5. CASE RemoveVoiceDeletes(i)
    <3>1. removing' = removing \ {Id(i)} /\ pc[i] = "delete" /\ pc'[i] = "over"
      BY <1>1, <2>5 DEF RemoveVoiceDeletes, At, Return
    <3>2. ASSUME NEW j \in DOMAIN calls, pc'[j] = "delete", Kind(j) = "voice"
          PROVE  Id(j) # Id(i) /\ pc[j] = "delete"
      <4>1. j # i /\ pc[j] = "delete"
        BY <1>1, <3>1, <3>2
      <4>2. Serialized(j) /\ Serialized(i) /\ Active(j) /\ Active(i)
        BY <2>1, <3>1, <4>1, CallTypes DEF Placed, Active
      <4> QED BY <4>1, <4>2, Alone
    <3> QED BY <1>2, <1>4, <1>6, <2>1, <3>1, <3>2 DEF Unleased
  <2>6. CASE RemoveVoiceBegins(i)
    BY <1>1, <2>3, <2>6 DEF RemoveVoiceBegins, leaseVars, Goto
  <2> QED BY <1>7, <2>4, <2>5, <2>6 DEF RemovingVoice
<1>8. CASE Selecting(i) \/ Installing(i) \/ Cloning(i) \/ RemovingModel(i)
  <2>1. Op(i) # "speak" /\ leases' = leases /\ removing' = removing
    BY <1>8 DEF Selecting, SetConfig, UseModel, UseVoice, Use, Installing, InstallBegins,
       InstallDownloads, InstallDisplaces, InstallPromotes, Cloning, CloneBegins, CloneExtracts,
       CloneDisplaces, ClonePromotes, RemovingModel, RemoveModelBegins, RemoveModelClears,
       RemoveModelDeletes, MoveAside, MoveIn,
       GiveUp, Begin, At, Op, leaseVars
  <2>2. pc'[i] = "delete" => Kind(i) # "voice"
    BY <1>1, <1>8 DEF Selecting, SetConfig, UseModel, UseVoice, Use, Installing, InstallBegins,
       InstallDownloads, InstallDisplaces, InstallPromotes, Cloning, CloneBegins, CloneExtracts,
       CloneDisplaces, ClonePromotes, RemovingModel, RemoveModelBegins, RemoveModelClears,
       RemoveModelDeletes, MoveAside, MoveIn,
       GiveUp, Begin, At, Kind, Goto, Return
  <2> QED BY <1>1, <1>2, <1>4, <1>6, <2>1, <2>2 DEF Unleased
<1> QED BY <1>5, <1>7, <1>8, StepCases

\* The calls that were under way with call j, or began later, are never fewer.
LEMMA Later ==
  ASSUME TypeOK, Placed, NEW i \in DOMAIN calls, Step(i),
         NEW j \in DOMAIN calls, j # i \/ pc[i] # "start"
  PROVE  AtOrAfter(j) \subseteq AtOrAfter(j)'
<1>1. /\ calls' = calls /\ before'[j] = before[j] /\ pc'[i] # "start"
      /\ \A k \in DOMAIN calls : k # i => pc'[k] = pc[k]
  BY StepShape
<1> QED BY <1>1 DEF AtOrAfter

\* No call of a removal begins with the loaded model, or goes on with the default.
LEMMA StepRemovals ==
  ASSUME TypeOK, Placed, Unloaded, Unselected, NEW i \in DOMAIN calls, Step(i)
  PROVE  Unloaded' /\ Unselected'
<1>1. /\ UNCHANGED <<calls, loaded, snapshot, unread>>
      /\ pc' \in [DOMAIN calls -> Places] /\ DOMAIN pc = DOMAIN calls /\ DOMAIN seen = DOMAIN calls
      /\ \A j : Op(j)' = Op(j) /\ Kind(j)' = Kind(j) /\ Id(j)' = Id(j)
      /\ \A j \in DOMAIN calls : j # i => pc'[j] = pc[j] /\ seen'[j] = seen[j]
  BY StepShape DEF TypeOK
<1>2. ASSUME NEW j \in DOMAIN calls, j # i \/ pc[i] # "start", NoSetSince(j)' PROVE NoSetSince(j)
  BY <1>1, <1>2, Later DEF NoSetSince
<1>3. ASSUME pc'[i] \in {"clear", "clearing", "delete", "restoring"}, Kind(i) = "model"
      PROVE  Id(i) # loaded
  <2>1. Op(i) = "remove"
    BY <1>1, <1>3, StepPlaced DEF Placed
  <2>2. RemovingModel(i)
    BY <1>3, <2>1, StepCases DEF Selecting, SetConfig, UseModel, UseVoice, Use, Installing,
       InstallBegins, InstallDownloads, InstallDisplaces, InstallPromotes, Cloning, CloneBegins,
       CloneExtracts, CloneDisplaces, ClonePromotes, RemovingVoice, RemoveVoiceBegins,
       RemoveVoiceChecks, RemoveVoiceDeletes, Speaking, SpeakBegins, SpeakLeases, SpeakResolves,
       SpeakEnds, MoveAside, MoveIn,
       GiveUp, Begin, At, Op, Kind
  <2> QED BY <1>1, <1>3, <2>2 DEF RemovingModel, RemoveModelBegins, RemoveModelClears,
          RemoveModelDeletes, At, Return, Unloaded
<1>4. Unloaded'
  BY <1>1, <1>3 DEF Unloaded
<1>5. ASSUME Cleared(i)', ~unread, NoSetSince(i)' PROVE snapshot[Kind(i)] # Id(i)
  <2>1. Op(i) = "remove"
    BY <1>1, <1>5, StepPlaced DEF Placed, Cleared
  <2>2. RemovingModel(i) \/ RemovingVoice(i)
    BY <2>1, StepCases DEF Selecting, SetConfig, UseModel, UseVoice, Use, Installing,
       InstallBegins,
       InstallDownloads, InstallDisplaces, InstallPromotes, Cloning, CloneBegins, CloneExtracts,
       CloneDisplaces, ClonePromotes, Speaking, SpeakBegins, SpeakLeases, SpeakResolves, SpeakEnds,
       MoveAside, MoveIn,
       GiveUp, Begin, At, Op
  <2>3. CASE RemoveModelBegins(i) \/ RemoveVoiceBegins(i)
    BY <1>1, <1>5, <2>3 DEF RemoveModelBegins, RemoveVoiceBegins, Begin, At, Kind, Read, Goto,
       Return,
       Cleared
  <2>4. CASE RemoveModelClears(i) \/ RemoveVoiceChecks(i)
    <3>1. pc[i] \in {"clear", "check"} /\ seen[i] # Id(i)
      BY <1>1, <1>5, <2>4 DEF RemoveModelClears, RemoveVoiceChecks, At, Goto, Return, Cleared
    <3>2. NoSetSince(i)
      BY <1>2, <1>5, <3>1
    <3> QED BY <1>5, <3>1, <3>2 DEF Unselected, Cleared
  <2>5. CASE RemoveModelDeletes(i) \/ RemoveVoiceDeletes(i)
    BY <1>1, <1>5, <2>5 DEF RemoveModelDeletes, RemoveVoiceDeletes, Goto, Return, Cleared
  <2> QED BY <2>2, <2>3, <2>4, <2>5 DEF RemovingModel, RemovingVoice
<1>6. ASSUME NEW j \in DOMAIN calls, j # i, Cleared(j)', ~unread, NoSetSince(j)'
      PROVE  snapshot[Kind(j)] # Id(j)
  <2>1. Cleared(j)
    BY <1>1, <1>6 DEF Cleared
  <2> QED BY <1>2, <1>6, <2>1 DEF Unselected
<1>7. Unselected'
  BY <1>1, <1>5, <1>6 DEF Unselected
<1> QED BY <1>4, <1>7

\* A step of a call selects nothing by itself.
LEMMA StepSticks ==
  ASSUME TypeOK, Placed, Sticks, NEW i \in DOMAIN calls, Step(i) PROVE Sticks'
<1>1. /\ UNCHANGED <<calls, snapshot, file, durable>>
      /\ \A j : Op(j)' = Op(j) /\ Kind(j)' = Kind(j) /\ Id(j)' = Id(j)
      /\ \A j \in DOMAIN calls : j # i => result'[j] = result[j]
      /\ result'[i] = "ok" => Op(i) \notin {"use", "set"}
  BY StepShape
<1> SUFFICES ASSUME NEW j \in DOMAIN calls, result'[j] = "ok", Op(j) = "use", Kind(j) = "voice",
                    \A k \in AtOrAfter(j)' : Op(k) # "set" /\ ~(Op(k) = "use" /\ Kind(k) = "voice")
             PROVE  durable.voice = Id(j) /\ file.voice = Id(j) /\ snapshot.voice = Id(j)
  BY <1>1 DEF Sticks
<1>2. j # i /\ result[j] = "ok"
  BY <1>1
<1>3. AtOrAfter(j) \subseteq AtOrAfter(j)'
  BY <1>2, Later
<1> QED BY <1>2, <1>3 DEF Sticks

\* What was removed is not brought back.
LEMMA StepRemoved ==
  ASSUME TypeOK, Placed, Past, Unselected, RemovedStaysRemoved, NEW i \in DOMAIN calls, Step(i)
  PROVE  RemovedStaysRemoved'
<1>1. /\ UNCHANGED <<calls, loaded, crashes, snapshot, unread>>
      /\ \A j : Op(j)' = Op(j) /\ Kind(j)' = Kind(j) /\ Id(j)' = Id(j)
      /\ \A j \in DOMAIN calls : j # i => result'[j] = result[j]
      /\ ~Over(i) /\ pc'[i] # "start"
  BY StepShape
<1> DEFINE Left(j) == \A k \in AtOrAfter(j) : Op(k) # "set" /\ (Id(k) = Id(j) => Op(k) = "speak")
           Gone(j) == /\ dir[Id(j)] = "none" /\ legacy[Id(j)] = "none"
                      /\ crashes = 0 /\ ~unread => snapshot[Kind(j)] # Id(j)
<1>2. \A j \in DOMAIN calls : result[j] = "ok" /\ Op(j) = "remove" /\ Left(j) => Gone(j)
  BY DEF RemovedStaysRemoved, Op, Kind
<1> SUFFICES ASSUME NEW j \in DOMAIN calls, result'[j] = "ok", Op(j) = "remove",
                    \A k \in AtOrAfter(j)' : Op(k) # "set" /\ (Id(k) = Id(j) => Op(k) = "speak")
             PROVE  /\ dir'[Id(j)] = "none" /\ legacy'[Id(j)] = "none"
                    /\ crashes = 0 /\ ~unread => snapshot[Kind(j)] # Id(j)
  BY <1>1 DEF RemovedStaysRemoved, Op, Kind
<1>3. Id(j) \in Items /\ Kind(j) \in {"model", "voice"}
  BY CallTypes DEF Items
<1>4. CASE j # i
  <2>1. result[j] = "ok" /\ AtOrAfter(j) \subseteq AtOrAfter(j)'
    BY <1>1, <1>4, Later
  <2>2. Gone(j)
    BY <1>2, <2>1
  <2>3. ~Serialized(i) \/ Id(j) # Id(i)
    <3>1. before'[j] = before[j] /\ i \notin before[j]
      BY <1>1, <1>4, StepShape DEF Past
    <3>2. i \in AtOrAfter(j)'
      BY <1>1, <1>4, <3>1 DEF AtOrAfter
    <3> QED BY <3>2 DEF Serialized, Op
  <2>4. dir'[Id(j)] = dir[Id(j)] /\ legacy'[Id(j)] = legacy[Id(j)]
    BY <1>3, <2>3, StepKeeps DEF Keeps
  <2> QED BY <2>2, <2>4
<1>5. CASE j = i
  <2>1. RemovingModel(i) \/ RemovingVoice(i)
    BY <1>5, StepCases DEF Selecting, SetConfig, UseModel, UseVoice, Use, Installing,
       InstallBegins,
       InstallDownloads, InstallDisplaces, InstallPromotes, Cloning, CloneBegins, CloneExtracts,
       CloneDisplaces, ClonePromotes, Speaking, SpeakBegins, SpeakLeases, SpeakResolves, SpeakEnds,
       MoveAside, MoveIn,
       GiveUp, Begin, At, Op
  <2>2. result[i] = "none" /\ DOMAIN result = DOMAIN calls
    BY <1>1 DEF Placed, TypeOK
  <2>3. pc[i] = "delete" /\ Delete(Id(i), TRUE)
    BY <1>5, <2>1, <2>2 DEF RemovingModel, RemoveModelBegins, RemoveModelClears,
       RemoveModelDeletes,
       RemovingVoice, RemoveVoiceBegins, RemoveVoiceChecks, RemoveVoiceDeletes, Begin, At, Goto, Return
  <2>4. dir'[Id(i)] = "none" /\ legacy'[Id(i)] = "none"
    BY <1>3, <1>5, <2>3 DEF Delete, TypeOK
  <2>5. AtOrAfter(i) \subseteq AtOrAfter(i)'
    BY <2>3, Later
  <2>6. Cleared(i) /\ NoSetSince(i)
    BY <1>5, <2>3, <2>5 DEF Cleared, NoSetSince
  <2> QED BY <1>5, <2>4, <2>6 DEF Unselected
<1> QED BY <1>4, <1>5

\* The variables keep their types, and with them all the rest.
LEMMA StepHolds == ASSUME IInv, NEW i \in DOMAIN calls, Step(i) PROVE IInv'
<1>1. /\ TypeOK /\ Placed /\ Queued /\ Past /\ Changes /\ Written /\ Leases /\ Unleased
      /\ Unloaded /\ Unselected /\ Sticks /\ RemovedStaysRemoved
  BY DEF IInv
<1>2. Placed' /\ Queued' /\ Past' /\ Changes' /\ Written' /\ Leases' /\ Unleased' /\ Unloaded'
      /\ Unselected' /\ Sticks' /\ RemovedStaysRemoved'
  BY <1>1, StepPlaced, StepQueued, StepChanges, StepLeases, StepRemovals, StepSticks,
     StepRemoved
<1>3. TypeOK'
  <2>1. /\ UNCHANGED <<calls, loaded, crashes, snapshot, file, durable, writing, unread>>
        /\ pc' \in [DOMAIN calls -> Places] /\ seen' \in [DOMAIN calls -> Items \cup {None}]
        /\ result' \in [DOMAIN calls -> {"none", "ok", "failed", "lost"}]
        /\ before' \in [DOMAIN calls -> SUBSET DOMAIN calls]
    BY <1>1, StepShape
  <2>2. /\ updates' \in Seq([call : DOMAIN calls, kind : {"model", "voice", "all"},
                             value : Items \cup {None} \cup Config])
        /\ leases' \in [Voices -> Nat] /\ removing' \subseteq Voices
    BY <1>1, StepChanges, StepLeases
  <2>3. /\ dir' \in [Items -> DirStates] /\ legacy' \in [Items -> DirStates]
        /\ aside' \in [Items -> DirStates]
    BY <1>1, StepKeeps DEF Keeps
  <2> QED BY <1>1, <1>2, <2>1, <2>2, <2>3 DEF TypeOK
<1> QED BY <1>2, <1>3 DEF IInv

-----------------------------------------------------------------------------
(* The queue of changes.                                                   *)

\* The oldest change, whose call waits for it.
LEMMA Oldest ==
  ASSUME TypeOK, Changes, Placed, updates # <<>>, NEW c, c = Change.call
  PROVE  /\ c \in DOMAIN calls /\ Waits(c) /\ Active(c) /\ ~Over(c) /\ Wanted(Change)
         /\ Op(c) \in {"set", "use", "remove"} /\ Changed \in Config
         /\ Change.kind = "all" => Op(c) = "set" /\ Change.value \in Config
         /\ Change.kind # "all" =>
              /\ Change.kind = Kind(c) /\ Kind(c) \in {"model", "voice"} /\ Op(c) \in {"use", "remove"}
              /\ Kind(c) = "voice" => Op(c) = "use" /\ Change.value = Id(c)
              /\ Change.value \in {Id(c), None}
         /\ pc[c] = "selecting" /\ Op(c) = "use" => Change.kind = Kind(c) /\ Change.value = Id(c)
         /\ pc[c] = "clearing" => Change.kind = "model" /\ Change.value = None
<1>1. Change = updates[1] /\ 1 \in DOMAIN updates
  BY DEF Change, TypeOK
<1>2. c \in DOMAIN calls /\ Wanted(Change)
  BY <1>1 DEF Changes
<1>3. Waits(c) /\ Active(c) /\ ~Over(c)
  BY <1>2 DEF Wanted, Waits, Active, Over
<1>4. /\ pc[c] = "selecting" => Op(c) \in {"use", "set"}
      /\ pc[c] \in {"clearing", "restoring"} => Op(c) = "remove" /\ Kind(c) = "model"
  BY <1>2 DEF Placed
<1>5. /\ Kind(c) = "model" => Op(c) \in {"install", "use", "remove"} /\ Id(c) \in Models
      /\ Op(c) \in {"use", "remove"} => Kind(c) \in {"model", "voice"}
      /\ Op(c) = "use" /\ Kind(c) = "voice" => Id(c) \in Voices
  BY <1>2, CallTypes
<1>6. /\ Change.kind = "all" => Op(c) = "set" /\ Change.value \in Config
      /\ Change.kind # "all" =>
           /\ Change.kind = Kind(c) /\ Kind(c) \in {"model", "voice"} /\ Op(c) \in {"use", "remove"}
           /\ Kind(c) = "voice" => Op(c) = "use" /\ Change.value = Id(c)
           /\ Change.value \in {Id(c), None}
      /\ pc[c] = "selecting" /\ Op(c) = "use" => Change.kind = Kind(c) /\ Change.value = Id(c)
      /\ pc[c] = "clearing" => Change.kind = "model" /\ Change.value = None
  BY <1>2, <1>4, <1>5 DEF Wanted
<1>7. Changed \in Config
  <2>1. snapshot \in Config
    BY DEF TypeOK
  <2>2. CASE Change.kind = "all"
    BY <1>6, <2>2 DEF Changed
  <2>3. CASE Change.kind = "model"
    <3>1. Change.value \in Models \cup {None}
      BY <1>5, <1>6, <2>3
    <3> QED BY <2>1, <2>3, <3>1 DEF Changed, Config
  <2>4. CASE Change.kind = "voice"
    <3>1. Change.value \in Voices \cup {None}
      BY <1>5, <1>6, <2>4
    <3> QED BY <2>1, <2>4, <3>1 DEF Changed, Config
  <2> QED BY <1>6, <2>2, <2>3, <2>4
<1> QED BY <1>2, <1>3, <1>4, <1>6, <1>7

\* What the oldest change leaves of the selection.
LEMMA ChangedField ==
  ASSUME TypeOK, Changes, Placed, updates # <<>>, NEW kind \in {"model", "voice"}
  PROVE  /\ Change.kind = kind => Changed[kind] = Change.value
         /\ Change.kind \notin {kind, "all"} => Changed[kind] = snapshot[kind]
<1>1. snapshot \in Config
  BY DEF TypeOK
<1>2. Change.kind # "all" => Change.kind \in {"model", "voice"}
  BY Oldest
<1> QED BY <1>1, <1>2 DEF Changed, Config

\* Writing the file.
LEMMA RenamesStep == ASSUME IInv, UpdateRenames PROVE IInv'
<1>1. /\ TypeOK /\ Placed /\ Queued /\ Past /\ Changes /\ Written /\ Leases /\ Unleased
      /\ Unloaded /\ Unselected /\ Sticks /\ RemovedStaysRemoved
  BY DEF IInv
<1>2. /\ updates # <<>> /\ file' = Changed /\ writing' = "renamed"
      /\ UNCHANGED <<calls, pc, result, seen, before, snapshot, durable, updates, unread, dir, legacy,
                     aside, leases, removing, loaded, crashes>>
  BY DEF UpdateRenames, callVars, dirVars, leaseVars, lifeVars
<1>3. PICK c : c = Change.call
  OBVIOUS
<1>4. Placed' /\ Queued' /\ Past' /\ Leases' /\ Unleased' /\ Unloaded'
  BY <1>1, <1>2 DEF Placed, Queued, Past, Leases, Unleased, Unloaded, Op, Kind, Id, Over,
     Serialized,
     Readers
<1>5. TypeOK'
  BY <1>1, <1>2, <1>4, Oldest DEF TypeOK
<1>6. Changes' /\ Written'
  BY <1>1, <1>2 DEF Changes, Written, SnapshotIsFile, Wanted, Op, Kind, Id, Changed, Change
<1>7. Unselected' /\ RemovedStaysRemoved'
  BY <1>1, <1>2 DEF Unselected, RemovedStaysRemoved, Cleared, NoSetSince, AtOrAfter, Op, Kind,
     Id
<1>8. Sticks'
  <2> SUFFICES ASSUME NEW j \in DOMAIN calls, result[j] = "ok", Op(j) = "use", Kind(j) = "voice",
                      \A k \in AtOrAfter(j) : Op(k) # "set" /\ ~(Op(k) = "use" /\ Kind(k) = "voice")
               PROVE  durable.voice = Id(j) /\ file'.voice = Id(j) /\ snapshot.voice = Id(j)
    BY <1>2 DEF Sticks, AtOrAfter, Op, Kind, Id
  <2>1. durable.voice = Id(j) /\ snapshot.voice = Id(j)
    BY <1>1 DEF Sticks
  <2>2. c \in DOMAIN calls /\ Active(c) /\ ~Over(c) /\ j # c
    BY <1>1, <1>2, <1>3, Oldest DEF Placed
  <2>3. c \in AtOrAfter(j)
    BY <1>1, <2>2 DEF AtOrAfter, Past, Active
  <2>4. Change.kind = "model"
    BY <1>1, <1>2, <1>3, <2>3, Oldest
  <2> QED BY <1>1, <1>2, <2>1, <2>4, ChangedField
<1> QED BY <1>5, <1>4, <1>6, <1>7, <1>8 DEF IInv

\* While the file is being written it holds no selection that the snapshot and
\* the oldest change do not make.
LEMMA FileUnselected ==
  ASSUME IInv, updates # <<>>, NEW c, c = Change.call, NEW j \in DOMAIN calls, j # c,
         Op(j) = "remove", Op(c) # "set", Op(c) \in {"use", "remove"} => Id(c) # Id(j),
         ~unread, snapshot[Kind(j)] # Id(j)
  PROVE  file[Kind(j)] # Id(j)
<1>1. TypeOK /\ Placed /\ Changes /\ Written
  BY DEF IInv
<1>2. Kind(j) \in {"model", "voice"} /\ Id(j) \in Items
  BY <1>1, CallTypes
<1>3. CASE writing = "no"
  BY <1>1, <1>3 DEF Written, SnapshotIsFile
<1>4. CASE writing = "renamed"
  <2>1. file = Changed
    BY <1>1, <1>4 DEF Written
  <2>2. Change.kind # "all" /\ Op(c) \in {"use", "remove"} /\ Change.value \in {Id(c), None}
    BY <1>1, Oldest
  <2>3. Change.value # Id(j)
    BY <1>2, <2>2, ItemsAssumption
  <2> QED BY <1>1, <1>2, <2>1, <2>2, <2>3, ChangedField
<1> QED BY <1>1, <1>3, <1>4 DEF TypeOK

\* A change that was written, or could not be, and the call that made it.
Ended(c) ==
  /\ updates # <<>> /\ c = Change.call
  /\ updates' = Tail(updates) /\ writing' = "no"
  /\ UNCHANGED <<calls, seen, before, file, dir, legacy, aside, leases, removing, loaded, crashes>>
  /\ \E place \in {"over", "delete"} :
       /\ pc' = [pc EXCEPT ![c] = place]
       /\ \/ /\ place = "over"
             /\ \/ result' = [result EXCEPT ![c] = "failed"]
                \/ /\ result' = [result EXCEPT ![c] = "ok"]
                   /\ pc[c] = "selecting" /\ writing = "renamed"
                   /\ snapshot' = file /\ durable' = file
          \/ place = "delete" /\ pc[c] = "clearing" /\ writing = "renamed" /\ result' = result
  /\ durable' \in {durable, file}
  /\ \/ snapshot' = file /\ unread' = unread
     \/ snapshot' = snapshot /\ unread' = TRUE

\* A change that is committed, or fails, ends for the call that made it.
LEMMA EndsCases == ASSUME IInv, UpdateCommits \/ UpdateFails, NEW c, c = Change.call PROVE Ended(c)
<1>1. TypeOK /\ Placed /\ Changes /\ Written
  BY DEF IInv
<1>2. updates # <<>> /\ Waits(c)
  BY <1>1, Oldest DEF UpdateCommits, UpdateFails, Written
<1>3. CASE UpdateCommits
  <2>1. Resume(c, TRUE)
    BY <1>3 DEF UpdateCommits
  <2>2. CASE pc[c] = "selecting"
    BY <1>2, <1>3, <2>1, <2>2 DEF UpdateCommits, Resume, Return, Ended, dirVars, leaseVars,
       lifeVars
  <2>3. CASE pc[c] = "clearing"
    BY <1>2, <1>3, <2>1, <2>3 DEF UpdateCommits, Resume, Goto, Ended, dirVars, leaseVars,
       lifeVars
  <2>4. CASE pc[c] = "restoring"
    BY <1>2, <1>3, <2>1, <2>4 DEF UpdateCommits, Resume, Return, Ended, dirVars, leaseVars,
       lifeVars
  <2> QED BY <1>2, <2>2, <2>3, <2>4 DEF Waits
<1>4. CASE UpdateFails
  <2>1. Return(c, "failed")
    BY <1>2, <1>4 DEF UpdateFails, Resume, Waits
  <2> QED BY <1>2, <1>4, <2>1 DEF UpdateFails, Return, Ended, dirVars, leaseVars, lifeVars
<1> QED BY <1>3, <1>4

\* The end of the oldest change.
LEMMA EndsStep == ASSUME IInv, NEW c, Ended(c) PROVE IInv'
<1>1. /\ TypeOK /\ Placed /\ Queued /\ Past /\ Changes /\ Written /\ Leases /\ Unleased
      /\ Unloaded /\ Unselected /\ Sticks /\ RemovedStaysRemoved
  BY DEF IInv
<1>2. /\ updates # <<>> /\ c = Change.call /\ updates' = Tail(updates) /\ writing' = "no"
      /\ UNCHANGED <<calls, seen, before, file, dir, legacy, aside, leases, removing, loaded, crashes>>
      /\ durable' \in {durable, file}
      /\ \/ snapshot' = file /\ unread' = unread
         \/ snapshot' = snapshot /\ unread' = TRUE
  BY DEF Ended
<1>3. /\ c \in DOMAIN calls /\ Waits(c) /\ Active(c) /\ ~Over(c)
      /\ Op(c) \in {"set", "use", "remove"}
  BY <1>1, <1>2, Oldest
<1>4. PICK place \in {"over", "delete"} :
        /\ pc' = [pc EXCEPT ![c] = place]
        /\ \/ /\ place = "over"
              /\ \/ result' = [result EXCEPT ![c] = "failed"]
                 \/ /\ result' = [result EXCEPT ![c] = "ok"]
                    /\ pc[c] = "selecting" /\ writing = "renamed"
                    /\ snapshot' = file /\ durable' = file
           \/ place = "delete" /\ pc[c] = "clearing" /\ writing = "renamed" /\ result' = result
  BY DEF Ended
<1>5. /\ \A j : Op(j)' = Op(j) /\ Kind(j)' = Kind(j) /\ Id(j)' = Id(j)
                /\ (Serialized(j)' <=> Serialized(j))
  BY <1>2 DEF Op, Kind, Id, Serialized
<1>6. /\ pc' \in [DOMAIN calls -> Places] /\ pc'[c] = place
      /\ result' \in [DOMAIN calls -> {"none", "ok", "failed", "lost"}]
      /\ \A j \in DOMAIN calls : j # c => pc'[j] = pc[j] /\ result'[j] = result[j]
      /\ result'[c] # "none" <=> place = "over"
      /\ result'[c] = "ok" => /\ pc[c] = "selecting" /\ writing = "renamed"
                              /\ snapshot' = file /\ durable' = file
      /\ place = "delete" => pc[c] = "clearing" /\ writing = "renamed"
  <2>1. result[c] = "none"
    BY <1>1, <1>3 DEF Placed
  <2> QED BY <1>1, <1>3, <1>4, <2>1 DEF TypeOK, Places
<1>7. \A j \in DOMAIN calls : Over(j) => Over(j)' /\ j # c
  BY <1>3, <1>6 DEF Over
<1>8. \A j \in DOMAIN calls : AtOrAfter(j)' = AtOrAfter(j)
  BY <1>2, <1>3, <1>6 DEF AtOrAfter, Active
<1>9. \A j \in DOMAIN calls : j # c => c \notin before[j] /\ c \in AtOrAfter(j)
  BY <1>1, <1>3 DEF AtOrAfter, Past, Active
<1>10. Placed'
  BY <1>1, <1>2, <1>5, <1>6 DEF Placed, Over
<1>11. Queued' /\ Past'
  <2>1. Past'
    <3>1. \A j \in DOMAIN calls : before[j] \subseteq DOMAIN calls
      BY <1>1 DEF TypeOK
    <3> QED BY <1>1, <1>2, <1>7, <3>1 DEF Past
  <2>2. \A j \in DOMAIN calls : pc'[j] # "start" <=> pc[j] # "start"
    BY <1>3, <1>6 DEF Active
  <2> QED BY <1>1, <1>2, <1>5, <1>7, <2>1, <2>2 DEF Queued
<1>12. /\ Changes' /\ updates' \in Seq([call : DOMAIN calls, kind : {"model", "voice", "all"},
                                        value : Items \cup {None} \cup Config])
  <2> DEFINE Posted == [call : DOMAIN calls, kind : {"model", "voice", "all"},
                        value : Items \cup {None} \cup Config]
  <2>1. updates \in Seq(Posted) /\ Change = updates[1]
    BY <1>1, <1>2 DEF TypeOK, Change
  <2>2. /\ updates' \in Seq(Posted) /\ DOMAIN updates' = 1 .. (Len(updates) - 1)
        /\ Len(updates) \in Nat /\ DOMAIN updates = 1 .. Len(updates) /\ 1 \in DOMAIN updates
        /\ \A n \in DOMAIN updates' : updates'[n] = updates[n + 1] /\ n + 1 \in DOMAIN updates
    BY <1>2, <2>1
  <2>3. ASSUME NEW n \in DOMAIN updates' PROVE updates'[n].call \in DOMAIN calls /\ Wanted(updates[n])'
    <3>1. PICK change : change = updates'[n]
      OBVIOUS
    <3>2. change = updates[n + 1] /\ n + 1 # 1 /\ n + 1 \in DOMAIN updates
      BY <2>2, <3>1
    <3>3. change.call # c /\ change.call \in DOMAIN calls /\ Wanted(change)
      BY <1>1, <1>2, <2>1, <2>2, <3>2 DEF Changes
    <3>4. Wanted(change)'
      BY <1>5, <1>6, <3>3 DEF Wanted
    <3> QED BY <3>1, <3>3, <3>4
  <2>4. ASSUME NEW m \in DOMAIN updates', NEW n \in DOMAIN updates', m # n
        PROVE  updates'[m].call # updates'[n].call
    <3>1. m + 1 # n + 1 /\ m + 1 \in DOMAIN updates /\ n + 1 \in DOMAIN updates
      BY <2>2, <2>4
    <3> QED BY <1>1, <2>2, <3>1 DEF Changes
  <2> QED BY <1>2, <2>2, <2>3, <2>4 DEF Changes
<1>13. Written'
  BY <1>2 DEF Written, SnapshotIsFile
<1>14. \A v : Readers(v)' = Readers(v)
  <2>1. pc[c] \notin {"resolve", "speak"} /\ pc'[c] \notin {"resolve", "speak"}
    BY <1>3, <1>6 DEF Waits
  <2> QED BY <1>2, <1>6, <2>1 DEF Readers
<1>15. Leases'
  BY <1>1, <1>2, <1>14 DEF Leases
<1>16. TypeOK'
  <2>1. snapshot' \in Config /\ durable' \in Config /\ unread' \in BOOLEAN
    BY <1>1, <1>2 DEF TypeOK
  <2> QED BY <1>1, <1>2, <1>6, <1>12, <1>15, <2>1 DEF TypeOK
<1>17. place = "delete" => Kind(c) = "model" /\ Op(c) = "remove"
  BY <1>1, <1>3, <1>6 DEF Placed
<1>18. Unleased'
  <2> SUFFICES ASSUME NEW j \in DOMAIN calls, pc'[j] = "delete", Kind(j) = "voice"
               PROVE  Id(j)' \in removing' /\ Readers(Id(j))' = {}
    BY <1>2, <1>5 DEF Unleased
  <2>1. j # c /\ pc[j] = "delete"
    BY <1>6, <1>17
  <2>2. PICK v : v = Id(j)
    OBVIOUS
  <2>3. v \in removing /\ Readers(v) = {}
    BY <1>1, <2>1, <2>2 DEF Unleased
  <2>4. Readers(v)' = {}
    BY <1>14, <2>3
  <2> QED BY <1>2, <1>5, <2>2, <2>3, <2>4 DEF Readers
<1>19. Unloaded'
  BY <1>1, <1>2, <1>3, <1>5, <1>6 DEF Unloaded
<1>20. Unselected'
  <2> SUFFICES ASSUME NEW j \in DOMAIN calls, Cleared(j)', ~unread', NoSetSince(j)'
               PROVE  snapshot'[Kind(j)] # Id(j)
    BY <1>2, <1>5 DEF Unselected
  <2>1. snapshot' = file /\ ~unread /\ NoSetSince(j)
    BY <1>2, <1>5, <1>8 DEF NoSetSince
  <2>2. CASE j = c
    <3>1. pc[c] = "clearing" /\ file = Changed /\ place = "delete"
      BY <1>1, <1>3, <1>6, <2>2 DEF Cleared, Waits, Written
    <3>2. Change.kind = "model" /\ Change.value = None /\ Kind(c) = "model" /\ Id(c) \in Items
      BY <1>1, <1>2, <1>3, <1>17, <3>1, Oldest, CallTypes DEF Items
    <3>3. Changed["model"] = None
      BY <1>1, <1>2, <3>2, ChangedField
    <3> QED BY <2>1, <2>2, <3>1, <3>2, <3>3, ItemsAssumption
  <2>3. CASE j # c
    <3>1. Cleared(j) /\ Op(j) = "remove" /\ Active(j)
      BY <1>1, <1>2, <1>5, <1>6, <2>3 DEF Cleared, Placed, Active
    <3>2. Op(c) # "set" /\ snapshot[Kind(j)] # Id(j)
      BY <1>1, <1>9, <2>1, <2>3, <3>1 DEF NoSetSince, Unselected
    <3>3. Id(c) # Id(j)
      BY <1>1, <1>3, <2>3, <3>1, <3>2, Alone, CallTypes
    <3> QED BY <1>2, <2>1, <2>3, <3>1, <3>2, <3>3, FileUnselected
  <2> QED BY <2>2, <2>3
<1>21. Sticks'
  <2> SUFFICES ASSUME NEW j \in DOMAIN calls, result'[j] = "ok", Op(j) = "use", Kind(j) = "voice",
                      \A k \in AtOrAfter(j) : Op(k) # "set" /\ ~(Op(k) = "use" /\ Kind(k) = "voice")
               PROVE  durable'.voice = Id(j) /\ file.voice = Id(j) /\ snapshot'.voice = Id(j)
    BY <1>2, <1>5, <1>8 DEF Sticks
  <2>1. CASE j = c
    <3>1. pc[c] = "selecting" /\ file = Changed /\ snapshot' = file /\ durable' = file
      BY <1>1, <1>6, <2>1 DEF Written
    <3>2. Change.kind = "voice" /\ Change.value = Id(c)
      BY <1>1, <1>2, <2>1, <3>1, Oldest
    <3> QED BY <1>1, <1>2, <2>1, <3>1, <3>2, ChangedField
  <2>2. CASE j # c
    <3>1. durable.voice = Id(j) /\ file.voice = Id(j) /\ snapshot.voice = Id(j)
      BY <1>1, <1>6, <2>2 DEF Sticks
    <3> QED BY <1>2, <3>1
  <2> QED BY <2>1, <2>2
<1>22. RemovedStaysRemoved'
  <2> SUFFICES ASSUME NEW j \in DOMAIN calls, result'[j] = "ok", Op(j) = "remove",
                      \A k \in AtOrAfter(j) : Op(k) # "set" /\ (Id(k) = Id(j) => Op(k) = "speak")
               PROVE  /\ dir[Id(j)] = "none" /\ legacy[Id(j)] = "none"
                      /\ crashes = 0 /\ ~unread' => snapshot'[Kind(j)] # Id(j)
    BY <1>2, <1>5, <1>8 DEF RemovedStaysRemoved, Op, Kind
  <2>1. j # c /\ result[j] = "ok"
    BY <1>1, <1>6 DEF Placed
  <2>2. /\ dir[Id(j)] = "none" /\ legacy[Id(j)] = "none"
        /\ crashes = 0 /\ ~unread => snapshot[Kind(j)] # Id(j)
    BY <1>1, <2>1 DEF RemovedStaysRemoved, Op, Kind
  <2>3. Op(c) # "set" /\ (Op(c) \in {"use", "remove"} => Id(c) # Id(j))
    BY <1>9, <2>1
  <2>4. ASSUME crashes = 0, ~unread' PROVE snapshot'[Kind(j)] # Id(j)
    <3>1. snapshot' = file /\ ~unread
      BY <1>2, <2>4
    <3> QED BY <1>2, <2>1, <2>2, <2>3, <2>4, <3>1, FileUnselected
  <2> QED BY <2>2, <2>4
<1> QED BY <1>10, <1>11, <1>12, <1>13, <1>16, <1>15, <1>18, <1>19, <1>20, <1>21, <1>22 DEF IInv

\* A restart.
LEMMA CrashStep == ASSUME IInv, Crash PROVE IInv'
<1>1. /\ TypeOK /\ Placed /\ Queued /\ Past /\ Changes /\ Written /\ Leases /\ Unleased
      /\ Unloaded /\ Unselected /\ Sticks /\ RemovedStaysRemoved
  BY DEF IInv
<1>2. /\ crashes < MaxCrashes /\ crashes' = crashes + 1
      /\ file' \in {file, durable} /\ durable' = file' /\ snapshot' = file'
      /\ updates' = <<>> /\ writing' = "no" /\ unread' = FALSE
      /\ aside' = [x \in Items |-> "none"]
      /\ leases' = [v \in Voices |-> 0] /\ removing' = {}
      /\ UNCHANGED <<calls, seen, before, dir, legacy>>
  BY DEF Crash
<1>3. /\ pc' \in [DOMAIN calls -> {"start", "over"}]
      /\ \A j \in DOMAIN calls : pc'[j] = IF Active(j) THEN "over" ELSE pc[j]
      /\ result' \in [DOMAIN calls -> {"none", "ok", "failed", "lost"}]
      /\ \A j \in DOMAIN calls : result'[j] = IF Active(j) THEN "lost" ELSE result[j]
  <2>1. /\ pc' = [j \in DOMAIN calls |-> IF Active(j) THEN "over" ELSE pc[j]]
        /\ result' = [j \in DOMAIN calls |-> IF Active(j) THEN "lost" ELSE result[j]]
    BY DEF Crash, Active
  <2>2. result \in [DOMAIN calls -> {"none", "ok", "failed", "lost"}]
    BY <1>1 DEF TypeOK
  <2> QED BY <2>1, <2>2 DEF Active
<1>4. /\ \A j : Op(j)' = Op(j) /\ Kind(j)' = Kind(j) /\ Id(j)' = Id(j)
                /\ (Serialized(j)' <=> Serialized(j))
  BY <1>2 DEF Op, Kind, Id, Serialized
<1>5. \A j \in DOMAIN calls : (Over(j) => Over(j)') /\ (pc'[j] = "start" <=> pc[j] = "start")
  BY <1>3 DEF Over, Active
<1>6. \A j : AtOrAfter(j)' = AtOrAfter(j)
  BY <1>2, <1>5 DEF AtOrAfter
<1>7. Placed'
  BY <1>1, <1>2, <1>3, <1>4 DEF Placed, Over, Active
<1>8. Past'
  <2>1. \A j \in DOMAIN calls : before[j] \subseteq DOMAIN calls
    BY <1>1 DEF TypeOK
  <2> QED BY <1>1, <1>2, <1>5, <2>1 DEF Past
<1>9. Queued'
  BY <1>1, <1>2, <1>4, <1>5 DEF Queued
<1>10. Changes' /\ Written'
  BY <1>2 DEF Changes, Written, SnapshotIsFile
<1>11. Leases'
  <2>1. \A v : Readers(v)' = {}
    BY <1>2, <1>3 DEF Readers
  <2> QED BY <1>2, <2>1, FS_EmptySet DEF Leases
<1>12. TypeOK'
  <2>1. calls' \in Seq(Call) /\ seen' \in [DOMAIN calls -> Items \cup {None}]
        /\ before' \in [DOMAIN calls -> SUBSET DOMAIN calls]
    BY <1>1, <1>2 DEF TypeOK
  <2>2. snapshot' \in Config /\ file' \in Config /\ durable' \in Config
    BY <1>1, <1>2 DEF TypeOK
  <2>3. dir' \in [Items -> DirStates] /\ legacy' \in [Items -> DirStates]
        /\ aside' \in [Items -> DirStates]
    BY <1>1, <1>2 DEF TypeOK, DirStates
  <2>4. leases' \in [Voices -> Nat] /\ removing' \subseteq Voices /\ crashes' \in 0 .. MaxCrashes
    BY <1>1, <1>2, CrashesAssumption DEF TypeOK
  <2>5. loaded' \in Models \cup {None}
    <3>1. loaded' \in StartUp(file')
      BY DEF Crash
    <3>2. file'.model \in Models \cup {None}
      BY <2>2 DEF Config
    <3> QED BY <3>1, <3>2 DEF StartUp
  <2>6. updates' \in Seq([call : DOMAIN calls, kind : {"model", "voice", "all"},
                          value : Items \cup {None} \cup Config])
    BY <1>2
  <2> QED BY <1>2, <1>3, <1>11, <2>1, <2>2, <2>3, <2>4, <2>5, <2>6 DEF TypeOK, Places
<1>13. Unleased' /\ Unloaded'
  BY <1>2, <1>3 DEF Unleased, Unloaded
<1>14. Unselected'
  BY <1>2, <1>3 DEF Unselected, Cleared
<1>15. Sticks'
  <2> SUFFICES ASSUME NEW j \in DOMAIN calls, result'[j] = "ok", Op(j) = "use", Kind(j) = "voice",
                      \A k \in AtOrAfter(j) : Op(k) # "set" /\ ~(Op(k) = "use" /\ Kind(k) = "voice")
               PROVE  durable'.voice = Id(j) /\ file'.voice = Id(j) /\ snapshot'.voice = Id(j)
    BY <1>2, <1>4, <1>6 DEF Sticks
  <2>1. result[j] = "ok"
    BY <1>3
  <2>2. durable.voice = Id(j) /\ file.voice = Id(j)
    BY <1>1, <2>1 DEF Sticks
  <2> QED BY <1>2, <2>2
<1>16. RemovedStaysRemoved'
  <2> SUFFICES ASSUME NEW j \in DOMAIN calls, result'[j] = "ok", Op(j) = "remove",
                      \A k \in AtOrAfter(j) : Op(k) # "set" /\ (Id(k) = Id(j) => Op(k) = "speak")
               PROVE  /\ dir[Id(j)] = "none" /\ legacy[Id(j)] = "none"
                      /\ crashes' # 0
    BY <1>2, <1>4, <1>6 DEF RemovedStaysRemoved, Op, Kind
  <2>1. result[j] = "ok"
    BY <1>3
  <2>2. crashes' # 0
    BY <1>1, <1>2 DEF TypeOK
  <2> QED BY <1>1, <2>1, <2>2 DEF RemovedStaysRemoved, Op
<1> QED BY <1>7, <1>8, <1>9, <1>10, <1>12, <1>11, <1>13, <1>14, <1>15, <1>16 DEF IInv

\* The daemon starts with nothing under way and the file read.
LEMMA InitHolds == ASSUME Init PROVE IInv
<1>1. PICK store \in Stores :
        /\ snapshot = store.config /\ file = store.config /\ durable = store.config
        /\ dir = store.dir /\ legacy = store.legacy
  BY DEF Init
<1>2. store.config \in Config /\ store.dir \in [Items -> DirStates] /\ store.legacy \in [Items -> DirStates]
  BY StoresAssumption
<1>3. /\ calls \in Seq(Call)
      /\ pc = [i \in DOMAIN calls |-> "start"]
      /\ result = [i \in DOMAIN calls |-> "none"]
      /\ seen = [i \in DOMAIN calls |-> None]
      /\ before = [i \in DOMAIN calls |-> {}]
      /\ aside = [x \in Items |-> "none"]
      /\ updates = <<>> /\ writing = "no" /\ unread = FALSE
      /\ leases = [v \in Voices |-> 0] /\ removing = {}
      /\ crashes = 0
  BY ScenariosAssumption DEF Init
<1>4. \A i \in DOMAIN calls : pc[i] = "start" /\ result[i] = "none" /\ before[i] = {}
  BY <1>3
<1>5. Placed /\ Queued /\ Past
  BY <1>4 DEF Placed, Queued, Past, Over
<1>6. Changes /\ Written
  BY <1>1, <1>3 DEF Changes, Written, SnapshotIsFile
<1>7. Leases
  <2>1. \A v : Readers(v) = {}
    BY <1>4 DEF Readers
  <2> QED BY <1>3, <2>1, FS_EmptySet DEF Leases
<1>8. TypeOK
  <2>1. loaded \in Models \cup {None}
    <3>1. loaded \in StartUp(snapshot) /\ snapshot.model \in Models \cup {None}
      BY <1>1, <1>2 DEF Init, Config
    <3> QED BY <3>1 DEF StartUp
  <2>2. /\ pc \in [DOMAIN calls -> Places] /\ seen \in [DOMAIN calls -> Items \cup {None}]
        /\ result \in [DOMAIN calls -> {"none", "ok", "failed", "lost"}]
        /\ before \in [DOMAIN calls -> SUBSET DOMAIN calls]
    BY <1>3 DEF Places
  <2>3. aside \in [Items -> DirStates] /\ leases \in [Voices -> Nat] /\ removing \subseteq Voices
    BY <1>3 DEF DirStates
  <2>4. updates \in Seq([call : DOMAIN calls, kind : {"model", "voice", "all"},
                         value : Items \cup {None} \cup Config])
    BY <1>3
  <2>5. writing \in {"no", "renamed"} /\ unread \in BOOLEAN
    BY <1>3
  <2>6. snapshot \in Config /\ file \in Config /\ durable \in Config
    BY <1>1, <1>2
  <2>7. dir \in [Items -> DirStates] /\ legacy \in [Items -> DirStates]
    BY <1>1, <1>2
  <2>8. crashes \in 0 .. MaxCrashes
    BY <1>3, CrashesAssumption
  <2> QED BY <1>3, <1>7, <2>1, <2>2, <2>3, <2>4, <2>5, <2>6, <2>7, <2>8 DEF TypeOK
<1>9. Unleased /\ Unloaded /\ Unselected /\ Sticks /\ RemovedStaysRemoved
  BY <1>4 DEF Unleased, Unloaded, Unselected, Cleared, Sticks, RemovedStaysRemoved
<1> QED BY <1>8, <1>5, <1>6, <1>7, <1>9 DEF IInv

\* Nothing happens.
LEMMA RestStep == ASSUME IInv, UNCHANGED vars PROVE IInv'
<1> USE DEF vars, callVars, configVars, dirVars, leaseVars, lifeVars
<1>1. (Leases /\ Unleased /\ Unloaded)'
  BY DEF IInv, Leases, Unleased, Unloaded, Readers, Kind, Id
<1>2. (TypeOK /\ Placed /\ Queued /\ Past)'
  BY <1>1 DEF IInv, TypeOK, Placed, Queued, Past, Over, Op, Kind, Id, Serialized
<1>3. (Changes /\ Written)'
  BY DEF IInv, Changes, Wanted, Written, SnapshotIsFile, Changed, Change, Op, Kind, Id
<1>4. (Unselected /\ Sticks /\ RemovedStaysRemoved)'
  BY DEF IInv, Unselected, Cleared, NoSetSince, AtOrAfter, Sticks, RemovedStaysRemoved, Op,
     Kind, Id
<1> QED BY <1>1, <1>2, <1>3, <1>4 DEF IInv

\* Every step keeps the inductive invariant.
LEMMA NextHolds == ASSUME IInv, [Next]_vars PROVE IInv'
<1>1. ASSUME NEW i \in DOMAIN calls, Step(i) PROVE IInv'
  BY <1>1, StepHolds
<1>2. CASE Update
  <2>1. PICK c : c = Change.call
    OBVIOUS
  <2>2. CASE UpdateRenames
    BY <2>2, RenamesStep
  <2>3. CASE UpdateCommits \/ UpdateFails
    <3>1. Ended(c)
      BY <2>1, <2>3, EndsCases
    <3> QED BY <3>1, EndsStep
  <2> QED BY <1>2, <2>2, <2>3 DEF Update
<1>3. CASE Crash
  BY <1>3, CrashStep
<1>4. CASE AllOver \/ UNCHANGED vars
  BY <1>4, RestStep DEF AllOver
<1> QED BY <1>1, <1>2, <1>3, <1>4 DEF Next

\* The inductive invariant holds in every state of every behavior.
LEMMA Invariance == Spec => []IInv
<1>1. Init => IInv
  BY InitHolds
<1>2. IInv /\ [Next]_vars => IInv'
  BY NextHolds
<1> QED BY <1>1, <1>2, PTL DEF Spec

-----------------------------------------------------------------------------
(* The theorems.                                                           *)

\* Whatever is on disk and whatever is called: every variable has its type, and
\* no lease is given back twice.
THEOREM TypeTheorem == Spec => []TypeOK
<1>1. IInv => TypeOK
  BY DEF IInv
<1> QED BY <1>1, Invariance, PTL

\* ConfigStore's snapshot is the file whenever no change is half made, for any
\* number of changes, failures and restarts.
THEOREM SnapshotTheorem == Spec => []SnapshotIsFile
<1>1. IInv => SnapshotIsFile
  BY DEF IInv, Written
<1> QED BY <1>1, Invariance, PTL

\* A confirmed voice.use outlasts every change of something else made at the same
\* time, and a power failure.
THEOREM VoiceUseTheorem == Spec => []VoiceUseSticks
<1>1. IInv => VoiceUseSticks
  BY DEF IInv, Sticks, VoiceUseSticks, Op, Kind
<1> QED BY <1>1, Invariance, PTL

\* A removal that was confirmed leaves nothing to read and nothing selected.
THEOREM RemovedTheorem == Spec => []RemovedStaysRemoved
<1>1. IInv => RemovedStaysRemoved
  BY DEF IInv
<1> QED BY <1>1, Invariance, PTL

\* A removal that touches files touches none of the loaded model and none of what
\* is selected.
THEOREM DeleteTheorem == Spec => DeletesOnlyUnselected
<1>1. ASSUME IInv, NEW i \in DOMAIN calls, pc[i] = "delete"
      PROVE  /\ Id(i) # loaded
             /\ \/ snapshot[calls[i].kind] # Id(i)
                \/ unread
                \/ \E j \in AtOrAfter(i) : calls[j].op = "set"
  <2>1. TypeOK /\ Placed /\ Unloaded /\ Unselected
    BY <1>1 DEF IInv
  <2>2. Op(i) = "remove"
    BY <1>1, <2>1 DEF Placed
  <2>3. Kind(i) = "model" \/ (Kind(i) = "voice" /\ Id(i) \in Voices)
    BY <2>1, <2>2, CallTypes
  <2>4. loaded \in Models \cup {None}
    BY <2>1 DEF TypeOK
  <2>5. Id(i) # loaded
    BY <1>1, <2>1, <2>3, <2>4, ItemsAssumption DEF Unloaded, Items
  <2> QED BY <1>1, <2>1, <2>5 DEF Unselected, Cleared, NoSetSince, Op, Kind
<1>2. IInv /\ [Next]_vars =>
        [\A i \in DOMAIN calls :
           pc[i] = "delete" /\ Touches(Id(i)) =>
             /\ Id(i) # loaded
             /\ \/ snapshot[calls[i].kind] # Id(i)
                \/ unread
                \/ \E j \in AtOrAfter(i) : calls[j].op = "set"]_vars
  BY <1>1
<1> QED BY <1>2, Invariance, PTL DEF Spec, DeletesOnlyUnselected

\* A removal that touches files touches none of a voice that a synthesis reads or
\* speaks with.
THEOREM LeaseTheorem == Spec => LeasedVoiceStays
<1>1. ASSUME IInv, NEW i \in DOMAIN calls, pc[i] = "delete",
             NEW j \in DOMAIN calls, pc[j] \in {"resolve", "speak"}
      PROVE  seen[j] # Id(i)
  <2>1. TypeOK /\ Placed /\ Unleased
    BY <1>1 DEF IInv
  <2>2. Op(i) = "remove"
    BY <1>1, <2>1 DEF Placed
  <2>3. CASE Kind(i) = "voice"
    BY <1>1, <2>1, <2>3 DEF Unleased, Readers
  <2>4. CASE Kind(i) = "model"
    <3>1. Id(i) \in Models /\ seen[j] \in Voices \cup {None}
      BY <1>1, <2>1, <2>4, CallTypes DEF Placed
    <3> QED BY <3>1, ItemsAssumption DEF Items
  <2> QED BY <2>1, <2>2, <2>3, <2>4, CallTypes
<1>2. IInv /\ [Next]_vars =>
        [\A i \in DOMAIN calls :
           pc[i] = "delete" /\ Touches(Id(i)) =>
             \A j \in DOMAIN calls : pc[j] \in {"resolve", "speak"} => seen[j] # Id(i)]_vars
  BY <1>1
<1> QED BY <1>2, Invariance, PTL DEF Spec, LeasedVoiceStays
=============================================================================
