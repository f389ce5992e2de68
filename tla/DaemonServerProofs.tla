-------------------------- MODULE DaemonServerProofs --------------------------
(***************************************************************************)
(* Theorems about DaemonServer for every number of connections, every      *)
(* script of the clients and all bounds, proved with TLAPS.                *)
(***************************************************************************)
EXTENDS DaemonServer, FiniteSetTheorems, TLAPS

Pcs == {"none", "reply", "last", "end", "serve", "begin", "run", "resolve", "stream",
        "operate", "answer", "done"}
Tasks == {"none", "active", "dropped"}
CallRecord == [pc : Pcs, task : Tasks, aborted : BOOLEAN, cancels : Nat,
               chunks : Nat, lease : BOOLEAN, late : BOOLEAN]
Stages == {"no", "waiting", "sockets", "engine", "closed"}

Types ==
  /\ link \in [Conns -> Links]
  /\ call \in [Calls -> CallRecord]
  /\ stop \in Stages /\ waits \subseteq Calls

\* What a call holds: its leases from before the voice is resolved until it has
\* settled, and one cancel in the engine for an abort.
Holds(k) ==
  /\ k.pc \in {"resolve", "stream"} => k.lease
  /\ k.pc = "stream" => k.cancels = (IF k.aborted THEN 1 ELSE 0)

\* Who has been told: a task whose socket's map was deleted, one whose socket is
\* gone, one that close() found.
Told(r) ==
  /\ call[r].task = "dropped" => call[r].aborted
  /\ call[r].task # "none" => link[r[1]] # "none"
  /\ call[r].task # "none" /\ link[r[1]] = "gone" => call[r].aborted
  /\ call[r].task # "none" /\ stop # "no" /\ ~call[r].late => call[r].aborted

\* Past the tasks, close() has nothing left to wait for.
Awaits(r) ==
  stop # "no" /\ call[r].task # "none" => call[r].late \/ (stop = "waiting" /\ r \in waits)

IInv == Types /\ \A r \in Calls : Holds(call[r]) /\ Told(r) /\ Awaits(r)

-----------------------------------------------------------------------------
\* A call belongs to a connection.
LEMMA CallsHaveConns == \A r \in Calls : r[1] \in Conns
BY DEF Calls

\* The daemon starts with nothing to account for.
LEMMA InitHolds == Init => IInv
BY DEF Init, IInv, Types, Holds, Told, Awaits, NoCall, CallRecord, Pcs, Tasks, Stages, Links

\* A call that keeps its signal and takes no new task, and holds what it should.
Quiet(old, new) ==
  /\ new \in CallRecord
  /\ new.task \in {"none", old.task}
  /\ new.aborted = old.aborted /\ new.late = old.late
  /\ Holds(new)

\* Most actions leave the sockets and close() alone and do nothing loud.
LEMMA QuietStep ==
  ASSUME IInv, link' = link, UNCHANGED stopVars, call' \in [Calls -> CallRecord],
         \A r \in Calls : Quiet(call[r], call'[r])
  PROVE  IInv'
BY DEF IInv, Types, Told, Awaits, Quiet, stopVars, CallRecord

\* A call that has ended is quiet, and so is one whose write is done.
LEMMA OverIsQuiet ==
  ASSUME NEW k \in CallRecord, Holds(k)
  PROVE  Quiet(k, Over(k)) /\ Quiet(k, Written(k))
BY DEF Quiet, Over, Written, Holds, CallRecord, Pcs, Tasks

\* To wait somewhere where nothing is held is quiet.
LEMMA MoveIsQuiet ==
  ASSUME NEW k \in CallRecord, Holds(k), NEW pc \in Pcs, pc \notin {"resolve", "stream"}
  PROVE  Quiet(k, [k EXCEPT !.pc = pc]) /\ Quiet(k, [k EXCEPT !.pc = pc, !.lease = FALSE])
BY DEF Quiet, Holds, CallRecord, Pcs, Tasks

\* One quiet call among calls that stay.
LEMMA OneQuiet ==
  ASSUME IInv, link' = link, UNCHANGED stopVars, NEW r \in Calls, NEW k,
         Quiet(call[r], k), call' = [call EXCEPT ![r] = k]
  PROVE  IInv'
<1>1. call' \in [Calls -> CallRecord]
  BY DEF IInv, Types, Quiet
<1>2. \A t \in Calls : Quiet(call[t], call'[t])
  BY DEF IInv, Types, Quiet, CallRecord, Pcs, Tasks
<1> QED BY <1>1, <1>2, QuietStep

\* A response leaves what is held where it is.
LEMMA ReplyStep ==
  ASSUME IInv, link' = link, UNCHANGED stopVars, NEW r \in Calls, NEW body, NEW pc \in Pcs,
         pc \notin {"resolve", "stream"}, Reply(r, body, pc)
  PROVE  IInv'
<1> DEFINE k == [call[r] EXCEPT !.pc = pc]
<1>1. call' = [call EXCEPT ![r] = k]
  BY DEF Reply
<1>2. Quiet(call[r], k)
  BY MoveIsQuiet DEF IInv, Types, Pcs
<1> QED BY <1>1, <1>2, OneQuiet

\* So does the settling of a synthesis.
LEMMA SettleStep ==
  ASSUME IInv, link' = link, UNCHANGED stopVars, NEW r \in Calls, NEW body, Settle(r, body)
  PROVE  IInv'
<1> DEFINE k == [call[r] EXCEPT !.pc = "answer", !.lease = FALSE]
<1>1. call' = [call EXCEPT ![r] = k]
  BY DEF Settle
<1>2. Quiet(call[r], k)
  BY MoveIsQuiet DEF IInv, Types, Pcs
<1> QED BY <1>1, <1>2, OneQuiet

-----------------------------------------------------------------------------
\* What abort() leaves behind: it tells the calls it reaches, and a stream gets
\* its one cancel.
LEMMA AbortTells ==
  ASSUME IInv, NEW calls
  PROVE  /\ Abort(calls) \in [Calls -> CallRecord]
         /\ \A r \in Calls :
              /\ Holds(Abort(calls)[r])
              /\ Abort(calls)[r].pc = call[r].pc
              /\ Abort(calls)[r].task = call[r].task
              /\ Abort(calls)[r].late = call[r].late
              /\ call[r].aborted \/ r \in calls => Abort(calls)[r].aborted
<1> SUFFICES ASSUME NEW r \in Calls
             PROVE  /\ Abort(calls)[r] \in CallRecord
                    /\ Holds(Abort(calls)[r])
                    /\ Abort(calls)[r].pc = call[r].pc
                    /\ Abort(calls)[r].task = call[r].task
                    /\ Abort(calls)[r].late = call[r].late
                    /\ call[r].aborted \/ r \in calls => Abort(calls)[r].aborted
  BY DEF Abort
<1>1. call[r] \in CallRecord /\ Holds(call[r])
  BY DEF IInv, Types
<1>2. CASE r \in calls /\ ~call[r].aborted
  <2> DEFINE n == IF call[r].pc = "stream" THEN call[r].cancels + 1 ELSE call[r].cancels
             new == [call[r] EXCEPT !.aborted = TRUE, !.cancels = n]
  <2>1. Abort(calls)[r] = new
    BY <1>2 DEF Abort
  <2>2. n \in Nat
    BY <1>1 DEF CallRecord
  <2>3. new \in CallRecord
    <3> HIDE DEF n
    <3> QED BY <1>1, <2>2 DEF CallRecord
  <2>4. /\ new.pc = call[r].pc /\ new.task = call[r].task /\ new.late = call[r].late
        /\ new.lease = call[r].lease
    BY <1>1 DEF CallRecord
  <2>5. new.aborted /\ (call[r].pc = "stream" => new.cancels = call[r].cancels + 1)
    BY <1>1 DEF CallRecord
  <2> HIDE DEF new
  <2>6. Holds(new)
    BY <1>1, <1>2, <2>3, <2>4, <2>5 DEF Holds, CallRecord
  <2> QED BY <2>1, <2>3, <2>4, <2>5, <2>6
<1>3. CASE ~(r \in calls /\ ~call[r].aborted)
  <2>1. Abort(calls)[r] = call[r]
    BY <1>3 DEF Abort
  <2> QED BY <1>1, <1>3, <2>1
<1> QED BY <1>2, <1>3

\* A socket's "close" event tells all of its tasks.
LEMMA CloseEventStep ==
  ASSUME IInv, NEW c \in Conns, SocketCloses(c)
  PROVE  IInv'
<1> DEFINE calls == Abort(Active(c))
<1>1. /\ calls \in [Calls -> CallRecord]
      /\ \A r \in Calls :
           /\ Holds(calls[r]) /\ calls[r].task = call[r].task /\ calls[r].late = call[r].late
           /\ call[r].aborted \/ r \in Active(c) => calls[r].aborted
  BY AbortTells
<1>2. link' = [link EXCEPT ![c] = "gone"] /\ call' = Drop(c, calls) /\ UNCHANGED stopVars
  BY DEF SocketCloses
<1> HIDE DEF calls
<1>3. /\ call' \in [Calls -> CallRecord]
      /\ \A r \in Calls :
           /\ Holds(call'[r]) /\ call'[r].late = call[r].late
           /\ call'[r].aborted = calls[r].aborted
           /\ call'[r].task = IF r[1] = c /\ call[r].task = "active" THEN "dropped" ELSE call[r].task
  BY <1>1, <1>2 DEF Drop, CallRecord, Pcs, Tasks, Holds
<1>4. \A r \in Calls : r[1] = c /\ call'[r].task # "none" => call'[r].aborted
  BY <1>1, <1>3 DEF Active, IInv, Told, Types, CallRecord, Pcs, Tasks
<1>5. Types'
  BY <1>2, <1>3 DEF IInv, Types, Links, stopVars
<1>6. ASSUME NEW r \in Calls
      PROVE  (Told(r) /\ Awaits(r))'
  <2>1. Told(r) /\ Awaits(r)
    BY DEF IInv
  <2> QED BY <1>1, <1>2, <1>3, <1>4, <2>1, CallsHaveConns DEF Told, Awaits, IInv, Types, stopVars
<1> QED BY <1>3, <1>5, <1>6 DEF IInv

\* close() tells every task and waits for it.
LEMMA CloseStep ==
  ASSUME IInv, Close
  PROVE  IInv'
<1> DEFINE calls == Abort(UNION {Active(c) : c \in Conns})
<1>1. /\ calls \in [Calls -> CallRecord]
      /\ \A r \in Calls :
           /\ Holds(calls[r]) /\ calls[r].task = call[r].task /\ calls[r].late = call[r].late
           /\ call[r].aborted \/ r \in UNION {Active(c) : c \in Conns} => calls[r].aborted
  BY AbortTells
<1>2. call' = calls /\ stop' = "waiting" /\ waits' = Unfinished /\ link' = link
  BY DEF Close, connVars
<1> HIDE DEF calls
<1>3. \A r \in Calls : call[r].task # "none" => calls[r].aborted
  <2> SUFFICES ASSUME NEW r \in Calls, call[r].task # "none" PROVE calls[r].aborted
    OBVIOUS
  <2>1. CASE call[r].task = "active"
    <3>1. r \in Active(r[1]) /\ r[1] \in Conns
      BY <2>1, CallsHaveConns DEF Active
    <3> QED BY <3>1, <1>1
  <2>2. CASE call[r].task = "dropped"
    BY <2>2, <1>1 DEF IInv, Told
  <2> QED BY <2>1, <2>2 DEF IInv, Types, CallRecord, Pcs, Tasks
<1> QED BY <1>1, <1>2, <1>3 DEF IInv, Types, Told, Awaits, Unfinished, Stages

\* The start of a task: its socket is there, and close() knows it is late.
LEMMA StartStep ==
  ASSUME IInv, NEW r \in Calls, NEW f, Dispatches(r, f), NEW pc \in {"operate", "begin"},
         StartTask(r, pc)
  PROVE  IInv'
<1>1. link[r[1]] \in {"open", "ended"} /\ link' = link /\ UNCHANGED stopVars
  BY DEF Dispatches, Takes, stopVars
<1>2. call' = [call EXCEPT ![r] =
                 [call[r] EXCEPT !.pc = pc, !.task = "active", !.late = (stop # "no")]]
  BY DEF StartTask
<1>3. [call[r] EXCEPT !.pc = pc, !.task = "active", !.late = (stop # "no")] \in CallRecord
  BY DEF IInv, Types, CallRecord, Pcs, Tasks
<1>4. Types'
  BY <1>1, <1>2, <1>3 DEF IInv, Types, stopVars
<1>5. ASSUME NEW t \in Calls
      PROVE  Holds(call[t])' /\ Told(t)' /\ Awaits(t)'
  <2>1. CASE t = r
    BY <2>1, <1>1, <1>2 DEF IInv, Types, Holds, Told, Awaits, CallRecord, stopVars
  <2>2. CASE t # r
    BY <2>2, <1>1, <1>2 DEF IInv, Types, Holds, Told, Awaits, stopVars
  <2> QED BY <2>1, <2>2
<1> QED BY <1>4, <1>5 DEF IInv

\* A cancel tells its synthesis, then answers.
LEMMA CancelStep ==
  ASSUME IInv, NEW r \in Calls, NEW f, TakeCancel(r, f)
  PROVE  IInv'
<1> DEFINE calls == Abort(Cancelled(r, f))
<1>1. /\ calls \in [Calls -> CallRecord]
      /\ \A t \in Calls :
           /\ Holds(calls[t]) /\ calls[t].task = call[t].task /\ calls[t].late = call[t].late
           /\ call[t].aborted => calls[t].aborted
  BY AbortTells
<1>2. call' = [calls EXCEPT ![r].pc = "reply"] /\ link' = link /\ UNCHANGED stopVars
  BY DEF TakeCancel, Dispatches, Takes, stopVars
<1> HIDE DEF calls
<1>3. /\ call' \in [Calls -> CallRecord]
      /\ \A t \in Calls :
           /\ Holds(call'[t]) /\ call'[t].task = call[t].task /\ call'[t].late = call[t].late
           /\ call[t].aborted => call'[t].aborted
  BY <1>1, <1>2 DEF CallRecord, Holds, Pcs
<1> QED BY <1>2, <1>3 DEF IInv, Types, Told, Awaits, stopVars

\* dispatchLine, whatever the frame is.
LEMMA FrameStep ==
  ASSUME IInv, NEW r \in Calls, TakeFrame(r)
  PROVE  IInv'
<1> DEFINE f == script[r[1]][r[2]]
<1>1. ASSUME Takes(r, f) PROVE link' = link /\ UNCHANGED stopVars
  BY <1>1 DEF Takes, stopVars
<1>2. CASE TakeGarbage(r, f)
  BY <1>1, <1>2, ReplyStep DEF TakeGarbage, Pcs
<1>3. CASE TakeFirst(r, f)
  BY <1>1, <1>3, ReplyStep DEF TakeFirst, Pcs
<1>4. CASE TakeRefused(r, f)
  BY <1>1, <1>4, ReplyStep DEF TakeRefused, Dispatches, Pcs
<1>5. CASE TakeDiagnostics(r, f)
  BY <1>1, <1>5, ReplyStep DEF TakeDiagnostics, Dispatches, Pcs
<1>6. CASE TakeQuery(r, f)
  <2>1. link' = link /\ UNCHANGED stopVars
    BY <1>1, <1>6 DEF TakeQuery, Dispatches
  <2>2. Quiet(call[r], [call[r] EXCEPT !.pc = "serve"])
    BY MoveIsQuiet DEF IInv, Types, Pcs
  <2> QED BY <1>6, <2>1, <2>2, OneQuiet DEF TakeQuery
<1>7. CASE TakeDuplicate(r, f)
  BY <1>1, <1>7, ReplyStep DEF TakeDuplicate, Dispatches, Pcs
<1>8. CASE TakeOperation(r, f)
  BY <1>8, StartStep DEF TakeOperation
<1>9. CASE TakeSynthesis(r, f)
  BY <1>9, StartStep DEF TakeSynthesis
<1>10. CASE TakeCancel(r, f)
  BY <1>10, CancelStep
<1> HIDE DEF f
<1> QED BY <1>2, <1>3, <1>4, <1>5, <1>6, <1>7, <1>8, <1>9, <1>10 DEF TakeFrame, f

-----------------------------------------------------------------------------
(* The steps of a call after its frame.                                    *)

\* Whichever way a call goes on, only a synthesis that starts takes more care: it
\* brings its leases along and cancels itself if it was aborted.
LEMMA AdvanceStep ==
  ASSUME IInv, NEW r \in Calls, Advance(r)
  PROVE  IInv'
<1>1. CASE EndSocket(r)
  <2>1. UNCHANGED stopVars /\ call' = [call EXCEPT ![r] = Over(call[r])]
    BY <1>1 DEF EndSocket
  <2>2. /\ link' \in [Conns -> Links]
        /\ \A c \in Conns : (link'[c] = "none" <=> link[c] = "none")
                            /\ (link'[c] = "gone" <=> link[c] = "gone")
    BY <1>1, CallsHaveConns DEF EndSocket, IInv, Types, Links
  <2>3. /\ call' \in [Calls -> CallRecord]
        /\ \A t \in Calls : Quiet(call[t], call'[t])
    BY <2>1, OverIsQuiet DEF IInv, Types, Quiet, CallRecord, Pcs, Tasks
  <2> QED BY <2>1, <2>2, <2>3, CallsHaveConns
          DEF IInv, Types, Told, Awaits, Quiet, stopVars, CallRecord
<1>2. CASE AnswerQuery(r)
  BY <1>2, ReplyStep DEF AnswerQuery, connVars, Pcs
<1>3. CASE AnswerOperation(r)
  BY <1>3, ReplyStep DEF AnswerOperation, connVars, Pcs
<1>4. CASE Run(r)
  <2>1. link' = link /\ UNCHANGED stopVars
    BY <1>4 DEF Run, connVars
  <2>2. CASE call' = [call EXCEPT ![r].pc = "resolve", ![r].lease = TRUE]
    <3>1. Quiet(call[r], [call[r] EXCEPT !.pc = "resolve", !.lease = TRUE])
      BY DEF IInv, Types, Quiet, Holds, CallRecord, Pcs, Tasks
    <3> QED BY <2>1, <2>2, <3>1, OneQuiet
  <2> QED BY <1>4, <2>1, <2>2, SettleStep DEF Run
<1>5. CASE VoiceFails(r)
  BY <1>5, SettleStep DEF VoiceFails, connVars
<1>6. CASE StartSynthesis(r)
  <2> DEFINE k == [call[r] EXCEPT !.pc = "stream", !.cancels = IF call[r].aborted THEN 1 ELSE 0]
  <2>1. link' = link /\ UNCHANGED stopVars /\ call' = [call EXCEPT ![r] = k]
    BY <1>6 DEF StartSynthesis, connVars
  <2>2. Quiet(call[r], k)
    BY <1>6 DEF StartSynthesis, IInv, Types, Quiet, Holds, CallRecord, Pcs, Tasks
  <2> QED BY <2>1, <2>2, OneQuiet
<1>7. CASE EngineAnswers(r)
  BY <1>7, SettleStep DEF EngineAnswers, connVars
<1>8. CASE EngineRefuses(r)
  BY <1>8, SettleStep DEF EngineRefuses, connVars
<1> QED BY <1>1, <1>2, <1>3, <1>4, <1>5, <1>6, <1>7, <1>8 DEF Advance

\* A report or a chunk counts and holds on to what is held.
LEMMA CountStep ==
  ASSUME IInv, NEW r \in Calls, ReportProgress(r) \/ StreamChunk(r)
  PROVE  IInv'
<1>1. /\ link' = link /\ UNCHANGED stopVars
      /\ call' = [call EXCEPT ![r] = [call[r] EXCEPT !.chunks = @ + 1]]
  BY DEF ReportProgress, StreamChunk, connVars
<1>2. Quiet(call[r], [call[r] EXCEPT !.chunks = @ + 1])
  BY DEF IInv, Types, Quiet, Holds, CallRecord, Pcs, Tasks
<1> QED BY <1>1, <1>2, OneQuiet

-----------------------------------------------------------------------------
(* Sockets and close().                                                    *)

\* What a socket does of itself ends calls and tells them, and starts nothing.
LEMMA ServeStep ==
  ASSUME IInv, NEW c \in Conns, Serve(c)
  PROVE  IInv'
<1>1. CASE SocketCloses(c)
  BY <1>1, CloseEventStep
<1>2. CASE Flush(c)
  <2>1. link' = link /\ UNCHANGED stopVars
    BY <1>2 DEF Flush, connVars
  <2>2. /\ call' \in [Calls -> CallRecord]
        /\ \A r \in Calls : call'[r] \in {call[r], Written(call[r])}
    <3>1. \A r \in Calls : Written(call[r]) \in CallRecord
      BY OverIsQuiet DEF IInv, Types, Quiet
    <3> HIDE DEF Written
    <3> QED BY <1>2, <3>1 DEF Flush, IInv, Types
  <2>3. \A r \in Calls : Quiet(call[r], call[r]) /\ Quiet(call[r], Written(call[r]))
    BY OverIsQuiet DEF IInv, Types, Quiet
  <2>4. \A r \in Calls : Quiet(call[r], call'[r])
    BY <2>2, <2>3
  <2> QED BY <2>1, <2>2, <2>4, QuietStep
<1>3. CASE FailWrites(c)
  <2>1. link' = link /\ UNCHANGED stopVars
    BY <1>3 DEF FailWrites, connVars
  <2>2. \A r \in Calls : Quiet(call[r], call[r]) /\ Quiet(call[r], Over(call[r]))
    BY OverIsQuiet DEF IInv, Types, Quiet
  <2>3. call' = [r \in Calls |-> IF r \in Awaiting(c) THEN Over(call[r]) ELSE call[r]]
    BY <1>3 DEF FailWrites
  <2>4. call' \in [Calls -> CallRecord] /\ \A r \in Calls : Quiet(call[r], call'[r])
    <3> HIDE DEF Over
    <3>1. \A r \in Calls : call[r] \in CallRecord /\ Over(call[r]) \in CallRecord
      BY <2>2 DEF Quiet
    <3> QED BY <2>2, <2>3, <3>1
  <2> QED BY <2>1, <2>4, QuietStep
<1>4. CASE WriteMeetsTheEnd(c)
  BY <1>4 DEF WriteMeetsTheEnd, connVars, stopVars, IInv, Types, Told, Awaits
<1> QED BY <1>1, <1>2, <1>3, <1>4 DEF Serve

\* A socket that is destroyed as it connects has no tasks.
LEMMA LinkStep ==
  ASSUME IInv, NEW c \in Conns, Connect(c) \/ ClientLeaves(c)
  PROVE  IInv'
<1>1. CASE Connect(c)
  <2>1. link' \in [Conns -> Links] /\ \A d \in Conns : d # c => link'[d] = link[d]
    BY <1>1 DEF Connect, IInv, Types, Links
  <2>2. link[c] = "none" /\ link'[c] # "none" /\ call' = call /\ UNCHANGED stopVars
    BY <1>1 DEF Connect, IInv, Types
  <2> QED BY <2>1, <2>2, CallsHaveConns DEF IInv, Types, Told, Awaits, stopVars
<1>2. CASE ClientLeaves(c)
  BY <1>2, CallsHaveConns DEF ClientLeaves, IInv, Types, Told, Awaits, stopVars, Links
<1> QED BY <1>1, <1>2

\* close() passes its wait for the tasks only when they are over.
LEMMA StoppingStep ==
  ASSUME IInv, Stopping
  PROVE  IInv'
<1>1. CASE TasksSettled
  <2>1. /\ link' \in [Conns -> Links]
        /\ \A c \in Conns : (link'[c] = "none" <=> link[c] = "none")
                            /\ (link'[c] = "gone" <=> link[c] = "gone")
    BY <1>1 DEF TasksSettled, IInv, Types, Links
  <2>2. /\ stop = "waiting" /\ stop' = "sockets" /\ call' = call /\ waits' = waits
        /\ \A r \in waits : call[r].task = "none"
    BY <1>1 DEF TasksSettled
  <2> QED BY <2>1, <2>2, CallsHaveConns DEF IInv, Types, Told, Awaits, Stages
<1>2. CASE ServerClosed \/ EngineClosed
  <2>1. /\ stop \in {"sockets", "engine"} /\ stop' \in {"engine", "closed"}
        /\ link' = link /\ call' = call /\ waits' = waits
    BY <1>2 DEF ServerClosed, EngineClosed, connVars
  <2> QED BY <2>1 DEF IInv, Types, Told, Awaits, Stages
<1> QED BY <1>1, <1>2 DEF Stopping

-----------------------------------------------------------------------------
\* Every step keeps the invariant.
LEMMA StepHolds == IInv /\ [Next]_vars => IInv'
<1> SUFFICES ASSUME IInv, [Next]_vars PROVE IInv'
  OBVIOUS
<1>1. CASE UNCHANGED vars
  BY <1>1 DEF vars, connVars, stopVars, IInv, Types, Told, Awaits
<1>2. CASE Step
  <2>1. ASSUME NEW c \in Conns, Connect(c) \/ ClientLeaves(c) \/ Serve(c) PROVE IInv'
    BY <2>1, LinkStep, ServeStep
  <2>2. ASSUME NEW r \in Calls,
               TakeFrame(r) \/ Advance(r) \/ ReportProgress(r) \/ StreamChunk(r)
        PROVE  IInv'
    BY <2>2, FrameStep, AdvanceStep, CountStep
  <2>3. ASSUME NEW r \in Calls, EngineTimesOut(r) PROVE IInv'
    BY <2>3, SettleStep DEF EngineTimesOut, connVars
  <2>4. CASE EngineFails
    BY <2>4 DEF EngineFails, connVars, stopVars, IInv, Types, Told, Awaits
  <2> QED BY <1>2, <2>1, <2>2, <2>3, <2>4, CloseStep, StoppingStep DEF Step
<1> QED BY <1>1, <1>2 DEF Next, Ended

\* The invariant holds throughout.
LEMMA Invariance == Spec => []IInv
BY InitHolds, StepHolds, PTL DEF Spec

-----------------------------------------------------------------------------
(* Theorems.                                                               *)

\* What the engine works on is leased and was cancelled as often as it was
\* aborted, and every task that should know has been told (engine-synthesis.ts
\* run, server.ts close), for any number of connections and calls.
THEOREM AccountTheorem == Spec => []WorkIsAccounted
<1>1. IInv => WorkIsAccounted
  BY DEF IInv, Holds, Told, WorkIsAccounted
<1> QED BY <1>1, Invariance, PTL

\* The engine is closed only after every task close() found (server.ts close).
THEOREM StopTheorem == Spec => []EngineStopsLast
<1>1. IInv => EngineStopsLast
  BY DEF IInv, Awaits, EngineStopsLast
<1> QED BY <1>1, Invariance, PTL

-----------------------------------------------------------------------------
(* What the connections promise.                                           *)

FrameType == [method : Methods, id : Nat, target : Nat, fault : Faults \cup {"none"}]
Item == [message : Message, await : BOOLEAN]

\* The types of what Types leaves out, and what has been taken up of the scripts.
Shapes ==
  /\ script \in Scripts
  /\ ready \in [Conns -> BOOLEAN] /\ broken \in [Conns -> BOOLEAN]
  /\ asked \in [Conns -> Seq(FrameType)] /\ said \in [Conns -> Seq(Message)]
  /\ queue \in [Conns -> Seq(Item)]
  /\ engine \in Calls \cup {Idle, Down} /\ crashed \in BOOLEAN
  /\ \A c \in Conns :
       /\ Len(asked[c]) <= Len(script[c])
       /\ \A i \in DOMAIN asked[c] : asked[c][i] = script[c][i]
       /\ \A k \in DOMAIN queue[c] : queue[c][k].message.to \in DOMAIN asked[c]
  /\ \A r \in Calls :
       /\ call[r].pc = "none" <=> r[2] > Len(asked[r[1]])
       /\ call[r].pc = "none" => call[r] = NoCall
       /\ call[r].pc = "done" => call[r].task = "none" /\ ~call[r].lease

\* The whole chain of a connection: what was written and what will be.
Joined(s, q) ==
  [k \in 1 .. (Len(s) + Len(q)) |-> IF k <= Len(s) THEN s[k] ELSE q[k - Len(s)].message]
Chain(c) == Joined(said[c], queue[c])

\* What DaemonConnection lets a daemon say that was asked a and has said t.
Inited(a, t) ==
  \E i \in DOMAIN a :
    a[i].method = "initialize" /\ \E k \in About(t, i, "response") : t[k].body = "ok"
MayAnswer(a, t, i, body) ==
  /\ body \in Bodies
  /\ body \notin Refusals => a[i].method = "initialize" \/ Inited(a, t)
  /\ body \in {"accepted", "rejected"} => a[i].method = "speech.cancel"
  /\ body = "ok" => a[i].method # "speech.cancel"
  /\ body = "accepted" =>
       \E j \in DOMAIN a :
         a[j].method = "speech.synthesize" /\ a[j].id = a[i].target /\ About(t, j, "started") # {}
  /\ body = "ok" /\ a[i].method = "speech.synthesize" => About(t, i, "started") # {}
  /\ body \in Refusals => About(t, i, "started") = {}
  /\ body = "request_cancelled" => a[i].method \in TaskMethods
MayStart(a, t, i) ==
  /\ Inited(a, t) /\ a[i].method = "speech.synthesize" /\ About(t, i, "started") = {}
  /\ \A j \in DOMAIN a : a[j].id = a[i].id /\ About(t, j, "started") # {} => Answered(t, j)
MaySay(a, t, m) ==
  /\ m.to \in DOMAIN a /\ ~Answered(t, m.to)
  /\ \/ m = Response(m.to, m.body) /\ MayAnswer(a, t, m.to, m.body)
     \/ m = Started(m.to) /\ MayStart(a, t, m.to)
     \/ m = Audio(m.to, Cardinality(About(t, m.to, "audio"))) /\ About(t, m.to, "started") # {}
     \/ m = Progress(m.to) /\ Inited(a, t) /\ a[m.to].method \in OperationMethods

\* A chain in which every message may be said after those before it.
First(t, n) == [k \in 1 .. n |-> t[k]]
Proper(a, t) == \A k \in DOMAIN t : MaySay(a, First(t, k - 1), t[k])

\* Where call r is with what its client is to hear.
Tells(r) ==
  LET t == Chain(r[1])
      k == call[r]
  IN  /\ k.pc \in {"serve", "operate", "begin", "run", "resolve", "stream"}
           => ready[r[1]] /\ ~Answered(t, r[2])
      /\ k.pc = "serve" => /\ Frame(r).method \in ServiceMethods \cup {"daemon.status"}
                           /\ ~k.aborted /\ k.task = "none"
      /\ k.pc = "operate" => Frame(r).method \in OperationMethods
      /\ k.pc \in {"begin", "run", "resolve", "stream"} =>
           /\ Frame(r).method = "speech.synthesize"
           /\ k.chunks = Cardinality(About(t, r[2], "audio"))
      /\ k.pc \in {"operate", "begin", "run", "resolve", "stream", "answer"} => k.task = "active"
      /\ k.task = "active" /\ Frame(r).method = "speech.synthesize"
           => About(t, r[2], "started") # {}
      /\ k.pc \in {"reply", "last", "end", "answer", "done"} => Answered(t, r[2])

\* An awaited message is the one its call waits for.
Waiting(c, m) ==
  \/ m.kind = "started" /\ call[<<c, m.to>>].pc = "begin"
  \/ m.kind = "response" /\ call[<<c, m.to>>].pc \in {"reply", "last", "answer"}

\* All of this while the socket can still write.
Linked(c) == link[c] \in {"none", "open"}
Speaks(c) ==
  Linked(c) =>
    /\ ~broken[c] /\ (link[c] = "none" => asked[c] = <<>>)
    /\ Proper(asked[c], Chain(c))
    /\ ready[c] => Inited(asked[c], Chain(c))
    /\ \A r \in Calls : r[1] = c => Tells(r)
    /\ \A k \in DOMAIN queue[c] : queue[c][k].await => Waiting(c, queue[c][k].message)

CInv == Shapes /\ \A c \in Conns : Speaks(c)

-----------------------------------------------------------------------------
(* Chains.                                                                 *)

\* The chain of writes after what was written.
LEMMA JoinedIs ==
  ASSUME NEW s \in Seq(Message), NEW q \in Seq(Item)
  PROVE  /\ Joined(s, q) \in Seq(Message) /\ Len(Joined(s, q)) = Len(s) + Len(q)
         /\ \A k \in 1 .. Len(s) : Joined(s, q)[k] = s[k]
         /\ \A k \in 1 .. Len(q) : Joined(s, q)[Len(s) + k] = q[k].message
<1>1. /\ Len(s) \in Nat /\ Len(q) \in Nat
      /\ \A k \in 1 .. Len(s) : s[k] \in Message
      /\ \A k \in 1 .. Len(q) : q[k].message \in Message
  <2>1. \A k \in 1 .. Len(q) : q[k] \in Item
    OBVIOUS
  <2> QED BY <2>1 DEF Item
<1>2. \A k \in 1 .. (Len(s) + Len(q)) : k \in 1 .. Len(s) \/ k - Len(s) \in 1 .. Len(q)
  BY <1>1
<1>3. Joined(s, q) \in Seq(Message) /\ Len(Joined(s, q)) = Len(s) + Len(q)
  <2>1. \A k \in 1 .. (Len(s) + Len(q)) :
          (IF k <= Len(s) THEN s[k] ELSE q[k - Len(s)].message) \in Message
    BY <1>1, <1>2
  <2> QED BY <1>1, <2>1 DEF Joined
<1>4. \A k \in 1 .. Len(q) : /\ Len(s) + k \in 1 .. (Len(s) + Len(q)) /\ ~(Len(s) + k <= Len(s))
                             /\ (Len(s) + k) - Len(s) = k
  BY <1>1
<1> QED BY <1>1, <1>3, <1>4 DEF Joined

\* A write that is put at the end of the chain.
LEMMA JoinedPut ==
  ASSUME NEW s \in Seq(Message), NEW q \in Seq(Item), NEW item \in Item
  PROVE  Joined(s, Append(q, item)) = Append(Joined(s, q), item.message)
<1>1. /\ Append(q, item) \in Seq(Item) /\ Len(Append(q, item)) = Len(q) + 1
      /\ Len(q) \in Nat /\ Len(s) \in Nat /\ item.message \in Message
      /\ \A k \in 1 .. Len(q) : Append(q, item)[k] = q[k]
      /\ Append(q, item)[Len(q) + 1] = item
  BY DEF Item
<1> DEFINE old == Joined(s, q)
           new == Joined(s, Append(q, item))
<1>2. /\ old \in Seq(Message) /\ Len(old) = Len(s) + Len(q)
      /\ new \in Seq(Message) /\ Len(new) = Len(s) + (Len(q) + 1)
      /\ \A k \in 1 .. Len(s) : old[k] = s[k] /\ new[k] = s[k]
      /\ \A k \in 1 .. Len(q) : old[Len(s) + k] = q[k].message
      /\ \A k \in 1 .. (Len(q) + 1) : new[Len(s) + k] = Append(q, item)[k].message
  <2>1. PICK r \in Seq(Item) : r = Append(q, item)
    BY <1>1
  <2>2. /\ Joined(s, r) \in Seq(Message) /\ Len(Joined(s, r)) = Len(s) + Len(r)
        /\ \A k \in 1 .. Len(s) : Joined(s, r)[k] = s[k]
        /\ \A k \in 1 .. Len(r) : Joined(s, r)[Len(s) + k] = r[k].message
    BY JoinedIs
  <2>3. /\ old \in Seq(Message) /\ Len(old) = Len(s) + Len(q)
        /\ \A k \in 1 .. Len(s) : old[k] = s[k]
        /\ \A k \in 1 .. Len(q) : old[Len(s) + k] = q[k].message
    BY JoinedIs
  <2> QED BY <1>1, <2>1, <2>2, <2>3
<1> HIDE DEF old, new
<1>3. \A k \in 1 .. Len(old) : new[k] = old[k]
  <2> SUFFICES ASSUME NEW k \in 1 .. Len(old) PROVE new[k] = old[k]
    OBVIOUS
  <2>1. CASE k \in 1 .. Len(s)
    BY <1>2, <2>1
  <2>2. CASE k \notin 1 .. Len(s)
    <3>1. PICK n \in 1 .. Len(q) : k = Len(s) + n
      <4>1. k - Len(s) \in 1 .. Len(q) /\ k = Len(s) + (k - Len(s))
        BY <1>1, <1>2, <2>2
      <4> QED BY <4>1
    <3> QED BY <1>1, <1>2, <3>1
  <2> QED BY <2>1, <2>2
<1>4. new[Len(old) + 1] = item.message
  <2>1. Len(old) + 1 = Len(s) + (Len(q) + 1) /\ Len(q) + 1 \in 1 .. (Len(q) + 1)
    BY <1>1, <1>2
  <2> QED BY <1>1, <1>2, <2>1
<1>5. Len(new) = Len(old) + 1
  BY <1>1, <1>2
<1>6. new = Append(old, item.message)
  <2>1. Append(old, item.message) \in Seq(Message)
    BY <1>1, <1>2
  <2> QED BY <1>1, <1>2, <1>3, <1>4, <1>5, <2>1
<1> QED BY <1>6 DEF old, new

\* A write that the socket has taken.
LEMMA JoinedFlush ==
  ASSUME NEW s \in Seq(Message), NEW q \in Seq(Item), q # <<>>
  PROVE  Joined(Append(s, Head(q).message), Tail(q)) = Joined(s, q)
<1>1. /\ Append(s, Head(q).message) \in Seq(Message) /\ Tail(q) \in Seq(Item)
      /\ Len(q) \in Nat /\ Len(s) \in Nat /\ Len(q) >= 1
      /\ Len(Append(s, Head(q).message)) = Len(s) + 1 /\ Len(Tail(q)) = Len(q) - 1
      /\ \A k \in 1 .. Len(s) : Append(s, Head(q).message)[k] = s[k]
      /\ Append(s, Head(q).message)[Len(s) + 1] = q[1].message
      /\ \A k \in 1 .. (Len(q) - 1) : Tail(q)[k] = q[k + 1]
  <2>1. q[1] \in Item /\ Head(q) = q[1] /\ Len(q) \in Nat /\ Len(q) >= 1
    OBVIOUS
  <2>2. PICK m \in Message : m = Head(q).message /\ m = q[1].message
    BY <2>1 DEF Item
  <2>3. /\ Append(s, m) \in Seq(Message) /\ Len(Append(s, m)) = Len(s) + 1 /\ Len(s) \in Nat
        /\ Append(s, m)[Len(s) + 1] = m
        /\ \A k \in 1 .. Len(s) : Append(s, m)[k] = s[k]
    OBVIOUS
  <2>4. /\ Tail(q) \in Seq(Item) /\ Len(Tail(q)) = Len(q) - 1
        /\ \A k \in 1 .. (Len(q) - 1) : Tail(q)[k] = q[k + 1]
    BY <2>1
  <2> QED BY <2>1, <2>2, <2>3, <2>4
<1> DEFINE old == Joined(s, q)
           new == Joined(Append(s, Head(q).message), Tail(q))
<1>2. /\ old \in Seq(Message) /\ Len(old) = Len(s) + Len(q)
      /\ new \in Seq(Message) /\ Len(new) = (Len(s) + 1) + (Len(q) - 1)
      /\ \A k \in 1 .. Len(s) : old[k] = s[k]
      /\ \A k \in 1 .. Len(q) : old[Len(s) + k] = q[k].message
      /\ \A k \in 1 .. (Len(s) + 1) : new[k] = Append(s, Head(q).message)[k]
      /\ \A k \in 1 .. (Len(q) - 1) : new[(Len(s) + 1) + k] = Tail(q)[k].message
  <2>1. PICK u \in Seq(Message), r \in Seq(Item) : u = Append(s, Head(q).message) /\ r = Tail(q)
    BY <1>1
  <2>2. /\ Joined(u, r) \in Seq(Message) /\ Len(Joined(u, r)) = Len(u) + Len(r)
        /\ \A k \in 1 .. Len(u) : Joined(u, r)[k] = u[k]
        /\ \A k \in 1 .. Len(r) : Joined(u, r)[Len(u) + k] = r[k].message
    BY JoinedIs
  <2>3. /\ old \in Seq(Message) /\ Len(old) = Len(s) + Len(q)
        /\ \A k \in 1 .. Len(s) : old[k] = s[k]
        /\ \A k \in 1 .. Len(q) : old[Len(s) + k] = q[k].message
    BY JoinedIs
  <2> QED BY <1>1, <2>1, <2>2, <2>3
<1> HIDE DEF old, new
<1>3. ASSUME NEW k \in 1 .. Len(old) PROVE new[k] = old[k]
  <2>1. CASE k \in 1 .. Len(s)
    BY <1>1, <1>2, <2>1
  <2>2. CASE k = Len(s) + 1
    BY <1>1, <1>2, <2>2
  <2>3. CASE k \notin 1 .. (Len(s) + 1)
    <3>1. PICK n \in 1 .. (Len(q) - 1) : k = (Len(s) + 1) + n
      <4>1. k - (Len(s) + 1) \in 1 .. (Len(q) - 1) /\ k = (Len(s) + 1) + (k - (Len(s) + 1))
        BY <1>1, <1>2, <2>3
      <4> QED BY <4>1
    <3>2. k = Len(s) + (n + 1) /\ n + 1 \in 1 .. Len(q)
      BY <1>1, <3>1
    <3>3. new[k] = Tail(q)[n].message /\ Tail(q)[n] = q[n + 1]
      BY <1>1, <1>2, <3>1
    <3>4. old[k] = q[n + 1].message
      BY <1>2, <3>2
    <3> QED BY <3>3, <3>4
  <2> QED BY <1>1, <2>1, <2>2, <2>3
<1>4. Len(new) = Len(old)
  BY <1>1, <1>2
<1>5. new = old
  BY <1>2, <1>3, <1>4
<1> QED BY <1>5 DEF old, new

\* What a further message changes in what was said.
LEMMA AboutAppend ==
  ASSUME NEW t \in Seq(Message), NEW m \in Message, NEW i, NEW kind
  PROVE  /\ m.to = i /\ m.kind = kind =>
              /\ About(Append(t, m), i, kind) = About(t, i, kind) \cup {Len(t) + 1}
              /\ Cardinality(About(Append(t, m), i, kind)) = Cardinality(About(t, i, kind)) + 1
         /\ ~(m.to = i /\ m.kind = kind) => About(Append(t, m), i, kind) = About(t, i, kind)
         /\ About(t, i, kind) \subseteq About(Append(t, m), i, kind)
         /\ Cardinality(About(t, i, kind)) \in Nat
<1>1. /\ Append(t, m) \in Seq(Message) /\ Len(t) \in Nat
      /\ DOMAIN t = 1 .. Len(t) /\ DOMAIN Append(t, m) = 1 .. (Len(t) + 1)
      /\ \A k \in 1 .. Len(t) : Append(t, m)[k] = t[k]
      /\ Append(t, m)[Len(t) + 1] = m
  OBVIOUS
<1>2. \A k \in 1 .. (Len(t) + 1) : k \in 1 .. Len(t) \/ k = Len(t) + 1
  BY <1>1
<1>3. Len(t) + 1 \notin DOMAIN t /\ \A k \in DOMAIN t : k \in DOMAIN Append(t, m)
  BY <1>1
<1>4. \A k : k \in About(Append(t, m), i, kind) <=>
               k \in About(t, i, kind) \/ (k = Len(t) + 1 /\ m.to = i /\ m.kind = kind)
  BY <1>1, <1>2, <1>3 DEF About
<1>5. IsFiniteSet(About(t, i, kind))
  <2>1. IsFiniteSet(1 .. Len(t))
    <3>1. 1 \in Int /\ Len(t) \in Int
      BY <1>1
    <3> QED BY <3>1, FS_Interval
  <2> QED BY <1>1, <2>1, FS_Subset DEF About
<1>6. Len(t) + 1 \notin About(t, i, kind)
  BY <1>3 DEF About
<1>7. Cardinality(About(t, i, kind)) \in Nat
  BY <1>5, FS_CardinalityType
<1>8. CASE m.to = i /\ m.kind = kind
  <2>1. About(Append(t, m), i, kind) = About(t, i, kind) \cup {Len(t) + 1}
    BY <1>4, <1>8
  <2>2. Cardinality(About(t, i, kind) \cup {Len(t) + 1}) = Cardinality(About(t, i, kind)) + 1
    BY <1>5, <1>6, FS_AddElement
  <2> QED BY <1>7, <1>8, <2>1, <2>2
<1>9. CASE ~(m.to = i /\ m.kind = kind)
  BY <1>4, <1>7, <1>9
<1> QED BY <1>8, <1>9

\* What a frame has been told, it stays told.
LEMMA AnsweredAppend ==
  ASSUME NEW t \in Seq(Message), NEW m \in Message, NEW i
  PROVE  Answered(Append(t, m), i) <=> Answered(t, i) \/ (m.to = i /\ m.kind = "response")
BY AboutAppend DEF Answered

\* A chain goes on with any message that may be said after it.
LEMMA SayKeeps ==
  ASSUME NEW a, NEW t \in Seq(Message), NEW m \in Message, Proper(a, t), MaySay(a, t, m)
  PROVE  Proper(a, Append(t, m))
<1>1. /\ Append(t, m) \in Seq(Message) /\ Len(t) \in Nat
      /\ DOMAIN t = 1 .. Len(t) /\ DOMAIN Append(t, m) = 1 .. (Len(t) + 1)
      /\ \A k \in 1 .. Len(t) : Append(t, m)[k] = t[k]
      /\ Append(t, m)[Len(t) + 1] = m
  OBVIOUS
<1> SUFFICES ASSUME NEW k \in DOMAIN Append(t, m)
             PROVE  MaySay(a, First(Append(t, m), k - 1), Append(t, m)[k])
  BY DEF Proper
<1>2. First(Append(t, m), k - 1) = First(t, k - 1)
  <2>1. \A n \in 1 .. (k - 1) : n \in 1 .. Len(t)
    BY <1>1
  <2> QED BY <1>1, <2>1 DEF First
<1>3. CASE k \in DOMAIN t
  BY <1>1, <1>2, <1>3 DEF Proper
<1>4. CASE k = Len(t) + 1
  <2>1. First(t, Len(t)) = t
    BY <1>1 DEF First
  <2>2. k - 1 = Len(t)
    BY <1>1, <1>4
  <2> QED BY <1>1, <1>2, <1>4, <2>1, <2>2
<1> QED BY <1>1, <1>3, <1>4

\* A proper chain speaks only of what was asked.
LEMMA ProperSpeaks ==
  ASSUME NEW a, NEW t, Proper(a, t), NEW k \in DOMAIN t
  PROVE  t[k].to \in DOMAIN a
BY DEF Proper, MaySay

\* A further frame changes nothing of what was said.
LEMMA AskKeeps ==
  ASSUME NEW a \in Seq(FrameType), NEW t \in Seq(Message), NEW f \in FrameType, Proper(a, t)
  PROVE  Proper(Append(a, f), t)
<1>1. /\ Append(a, f) \in Seq(FrameType) /\ Len(a) \in Nat
      /\ DOMAIN a = 1 .. Len(a) /\ DOMAIN Append(a, f) = 1 .. (Len(a) + 1)
      /\ \A i \in DOMAIN a : i \in DOMAIN Append(a, f) /\ Append(a, f)[i] = a[i]
      /\ \A i \in DOMAIN Append(a, f) : i \in DOMAIN a \/ i = Len(a) + 1
      /\ Len(a) + 1 \notin DOMAIN a
  OBVIOUS
<1> SUFFICES ASSUME NEW k \in DOMAIN t PROVE MaySay(Append(a, f), First(t, k - 1), t[k])
  BY DEF Proper
<1> DEFINE p == First(t, k - 1)
           m == t[k]
<1>2. MaySay(a, p, m)
  BY DEF Proper
<1>3. \A i, kind : i \notin DOMAIN a => About(p, i, kind) = {}
  <2>1. \A n \in DOMAIN p : n \in DOMAIN t /\ p[n] = t[n]
    BY DEF First
  <2> QED BY <2>1, ProperSpeaks DEF About
<1> HIDE DEF p, m
<1>4. Inited(a, p) => Inited(Append(a, f), p)
  BY <1>1 DEF Inited
<1>5. m.to \in DOMAIN a /\ Append(a, f)[m.to] = a[m.to]
  BY <1>1, <1>2 DEF MaySay
<1>6. MayAnswer(a, p, m.to, m.body) => MayAnswer(Append(a, f), p, m.to, m.body)
  BY <1>1, <1>4, <1>5 DEF MayAnswer
<1>7. MayStart(a, p, m.to) => MayStart(Append(a, f), p, m.to)
  BY <1>1, <1>3, <1>4, <1>5 DEF MayStart
<1>8. MaySay(Append(a, f), p, m)
  BY <1>1, <1>2, <1>4, <1>5, <1>6, <1>7 DEF MaySay
<1> QED BY <1>8 DEF p, m

-----------------------------------------------------------------------------
(* What a call does to the connections.                                    *)

\* A call is a connection and the number of a frame.
LEMMA CallsArePairs ==
  /\ \A r \in Calls : r = <<r[1], r[2]>> /\ r[1] \in Conns /\ r[2] \in Nat /\ r[2] >= 1
  /\ \A r, t \in Calls : r[1] = t[1] /\ r # t => r[2] # t[2]
<1>1. ASSUME NEW r \in Calls
      PROVE  r = <<r[1], r[2]>> /\ r[1] \in Conns /\ r[2] \in Nat /\ r[2] >= 1
  <2>1. PICK c \in Conns, s \in Scripts : r \in {c} \X DOMAIN s[c]
    BY DEF Calls
  <2>2. s[c] \in Seq(FrameType)
    BY <2>1, DaemonAssumption DEF FrameType
  <2>3. \A i \in DOMAIN s[c] : i \in Nat /\ i >= 1
    BY <2>2
  <2> QED BY <2>1, <2>3
<1> QED BY <1>1

\* The frames of the script are calls.
LEMMA ScriptCalls ==
  ASSUME Shapes, NEW c \in Conns, NEW i \in DOMAIN script[c]
  PROVE  /\ <<c, i>> \in Calls /\ script[c] \in Seq(FrameType) /\ script[c][i] \in FrameType
         /\ \A j \in DOMAIN asked[c] : <<c, j>> \in Calls
<1>1. script[c] \in Seq(FrameType)
  BY DaemonAssumption DEF Shapes, FrameType
<1>2. script[c][i] \in FrameType
  BY <1>1
<1>3. ASSUME NEW j \in DOMAIN script[c] PROVE <<c, j>> \in Calls
  <2>1. script \in Scripts
    BY DEF Shapes
  <2> DEFINE all == {c} \X DOMAIN script[c]
  <2>2. <<c, j>> \in all
    OBVIOUS
  <2>3. all \in {{d} \X DOMAIN s[d] : d \in Conns, s \in Scripts}
    BY <2>1
  <2> HIDE DEF all
  <2> QED BY <2>2, <2>3 DEF Calls
<1>4. asked[c] \in Seq(FrameType) /\ Len(asked[c]) <= Len(script[c])
  BY DEF Shapes
<1>5. \A j \in DOMAIN asked[c] : j \in DOMAIN script[c]
  BY <1>1, <1>4
<1> QED BY <1>1, <1>2, <1>3, <1>5

\* An awaited message is about a call.
LEMMA AwaitedCalls ==
  ASSUME Shapes, NEW c \in Conns, Linked(c), Speaks(c), NEW k \in DOMAIN queue[c]
  PROVE  /\ <<c, queue[c][k].message.to>> \in Calls
         /\ queue[c][k].message.to \in DOMAIN asked[c] /\ queue[c][k] \in Item
         /\ Len(said[c]) + k \in DOMAIN Chain(c)
         /\ Chain(c)[Len(said[c]) + k] = queue[c][k].message
<1>1. said[c] \in Seq(Message) /\ queue[c] \in Seq(Item) /\ queue[c][k] \in Item
  BY DEF Shapes
<1>2. /\ Chain(c)[Len(said[c]) + k] = queue[c][k].message
      /\ Len(said[c]) + k \in DOMAIN Chain(c)
  <2>1. /\ Chain(c) \in Seq(Message) /\ Len(Chain(c)) = Len(said[c]) + Len(queue[c])
        /\ \A n \in 1 .. Len(queue[c]) : Chain(c)[Len(said[c]) + n] = queue[c][n].message
    BY <1>1, JoinedIs DEF Chain
  <2>2. k \in 1 .. Len(queue[c]) /\ Len(said[c]) \in Nat /\ Len(queue[c]) \in Nat
    BY <1>1
  <2>3. DOMAIN Chain(c) = 1 .. (Len(said[c]) + Len(queue[c]))
    BY DEF Chain, Joined
  <2>4. Len(said[c]) + k \in 1 .. (Len(said[c]) + Len(queue[c]))
    <3>1. \A n, l \in Nat : \A i \in 1 .. l : n + i \in 1 .. (n + l)
      OBVIOUS
    <3> QED BY <2>2, <3>1
  <2> QED BY <2>1, <2>2, <2>3, <2>4
<1>3. queue[c][k].message.to \in DOMAIN asked[c]
  BY <1>2, ProperSpeaks DEF Speaks
<1>4. asked[c] \in Seq(FrameType) /\ script[c] \in Seq(FrameType) /\ Len(asked[c]) <= Len(script[c])
  BY DaemonAssumption DEF Shapes, FrameType
<1>5. queue[c][k].message.to \in DOMAIN script[c]
  BY <1>3, <1>4
<1> QED BY <1>1, <1>2, <1>3, <1>5, ScriptCalls

\* A chain is a sequence of messages.
LEMMA ChainIs == ASSUME Shapes, NEW c \in Conns PROVE Chain(c) \in Seq(Message)
BY JoinedIs DEF Chain, Shapes

\* A write that is put at the end of the chain.
LEMMA ChainPut ==
  ASSUME Shapes, NEW r \in Calls, NEW m \in Message, NEW await \in BOOLEAN, Put(r, m, await)
  PROVE  /\ Chain(r[1])' = Append(Chain(r[1]), m)
         /\ queue' \in [Conns -> Seq(Item)]
         /\ queue'[r[1]] = Append(queue[r[1]], [message |-> m, await |-> await])
         /\ \A d \in Conns : d # r[1] => queue'[d] = queue[d]
         /\ said' = said /\ broken' = broken
<1>1. r[1] \in Conns /\ [message |-> m, await |-> await] \in Item
  BY CallsArePairs DEF Item
<1>2. queue[r[1]] \in Seq(Item) /\ said[r[1]] \in Seq(Message) /\ queue \in [Conns -> Seq(Item)]
  BY <1>1 DEF Shapes
<1>3. Append(queue[r[1]], [message |-> m, await |-> await]) \in Seq(Item)
  BY <1>1, <1>2
<1>4. /\ queue'[r[1]] = Append(queue[r[1]], [message |-> m, await |-> await])
      /\ \A d \in Conns : d # r[1] => queue'[d] = queue[d]
      /\ said' = said /\ broken' = broken
      /\ queue' \in [Conns -> Seq(Item)]
  BY <1>1, <1>2, <1>3 DEF Put
<1>5. PICK item \in Item : item = [message |-> m, await |-> await]
  BY <1>1
<1>6. Joined(said[r[1]], Append(queue[r[1]], item)) = Append(Chain(r[1]), m)
  BY <1>2, <1>5, JoinedPut DEF Chain
<1> QED BY <1>4, <1>5, <1>6 DEF Chain

\* A call that at most learns that it was aborted.
Calm(t) ==
  \/ call'[t] = call[t]
  \/ /\ call[t].task = "active"
     /\ call'[t].pc = call[t].pc /\ call'[t].task = call[t].task
     /\ call'[t].chunks = call[t].chunks /\ call'[t].lease = call[t].lease

\* A connection where nothing else happens.
LEMMA CalmStep ==
  ASSUME Shapes, NEW c \in Conns, Speaks(c),
         UNCHANGED <<link[c], broken[c], asked[c], ready[c], said[c], queue[c]>>,
         \A t \in Calls : t[1] = c => Calm(t)
  PROVE  Speaks(c)'
<1> SUFFICES ASSUME Linked(c) PROVE Speaks(c)'
  BY DEF Speaks, Linked
<1>1. Chain(c)' = Chain(c)
  BY DEF Chain
<1>2. \A r \in Calls : r[1] = c => Tells(r)'
  <2> SUFFICES ASSUME NEW r \in Calls, r[1] = c PROVE Tells(r)'
    OBVIOUS
  <2>1. Tells(r) /\ Calm(r) /\ Frame(r)' = Frame(r) /\ Chain(r[1])' = Chain(r[1])
        /\ ready'[r[1]] = ready[r[1]]
    BY <1>1 DEF Speaks, Frame
  <2> QED BY <2>1 DEF Tells, Calm
<1>3. \A k \in DOMAIN queue[c] : queue[c][k].await => Waiting(c, queue[c][k].message)'
  <2> SUFFICES ASSUME NEW k \in DOMAIN queue[c], queue[c][k].await
               PROVE  Waiting(c, queue[c][k].message)'
    OBVIOUS
  <2>1. PICK m : m = queue[c][k].message
    OBVIOUS
  <2>2. <<c, m.to>> \in Calls /\ Waiting(c, m)
    BY <2>1, AwaitedCalls DEF Speaks
  <2>3. Calm(<<c, m.to>>)
    BY <2>2
  <2>4. Waiting(c, m)'
    BY <2>2, <2>3 DEF Waiting, Calm
  <2>5. m = queue'[c][k].message
    BY <2>1
  <2> QED BY <2>1, <2>4, <2>5 DEF Waiting
<1> QED BY <1>1, <1>2, <1>3 DEF Speaks, Linked

\* A call is taken up with its frame, or was before.
Asks(r) ==
  \/ UNCHANGED asked /\ call[r].pc # "none"
  \/ /\ link[r[1]] \in {"open", "ended"} /\ r[2] = Len(asked[r[1]]) + 1
     /\ r[2] \in DOMAIN script[r[1]]
     /\ asked' = [asked EXCEPT ![r[1]] = Append(@, script[r[1]][r[2]])]

\* It goes on to another await and leaves the others alone.
Acts(r) ==
  /\ UNCHANGED <<link, script, broken, said>> /\ Asks(r)
  /\ ready' \in [Conns -> BOOLEAN] /\ \A c \in Conns : c # r[1] => ready'[c] = ready[c]
  /\ call' \in [Calls -> CallRecord] /\ \A t \in Calls : t # r => Calm(t)
  /\ call[r].pc \notin {"begin", "reply", "last", "end", "answer", "done"}
  /\ call'[r].pc \notin {"none", "done"}
  /\ engine' \in Calls \cup {Idle, Down} /\ crashed' \in BOOLEAN

\* The frame of a call that acts is there afterwards, and so are the older ones.
LEMMA ActsAsks ==
  ASSUME Shapes, NEW r \in Calls, Acts(r)
  PROVE  /\ asked' \in [Conns -> Seq(FrameType)]
         /\ \A c \in Conns : c # r[1] => asked'[c] = asked[c]
         /\ \A c \in Conns : Len(asked'[c]) <= Len(script[c])
         /\ \A c \in Conns : Len(asked[c]) <= Len(asked'[c])
         /\ \A c \in Conns : \A i \in DOMAIN asked'[c] : asked'[c][i] = script[c][i]
         /\ \A c \in Conns : \A i \in DOMAIN asked[c] :
              i \in DOMAIN asked'[c] /\ asked'[c][i] = asked[c][i]
         /\ r[2] \in DOMAIN asked'[r[1]]
         /\ \/ UNCHANGED asked /\ r[2] \in DOMAIN asked[r[1]]
            \/ /\ call[r] = NoCall /\ r[2] \notin DOMAIN asked[r[1]] /\ r[2] = Len(asked[r[1]]) + 1
               /\ link[r[1]] # "none"
               /\ \E f \in FrameType : asked'[r[1]] = Append(asked[r[1]], f)
<1>1. r[1] \in Conns /\ r[2] \in Nat /\ r[2] >= 1
  BY CallsArePairs
<1>2. /\ asked \in [Conns -> Seq(FrameType)] /\ script[r[1]] \in Seq(FrameType)
      /\ \A c \in Conns : script[c] \in Seq(FrameType)
      /\ \A c \in Conns : Len(asked[c]) <= Len(script[c])
                          /\ \A i \in DOMAIN asked[c] : asked[c][i] = script[c][i]
  BY <1>1, DaemonAssumption DEF Shapes, FrameType
<1>3. call[r].pc = "none" <=> r[2] > Len(asked[r[1]])
  BY DEF Shapes
<1>4. \A c \in Conns : DOMAIN asked[c] = 1 .. Len(asked[c]) /\ Len(asked[c]) \in Nat
                       /\ DOMAIN script[c] = 1 .. Len(script[c]) /\ Len(script[c]) \in Nat
  BY <1>2
<1>5. CASE UNCHANGED asked /\ call[r].pc # "none"
  <2>1. r[2] \in DOMAIN asked[r[1]]
    BY <1>1, <1>3, <1>4, <1>5
  <2> QED BY <1>2, <1>4, <1>5, <2>1
<1>6. CASE ~(UNCHANGED asked /\ call[r].pc # "none")
  <2>1. /\ link[r[1]] \in {"open", "ended"} /\ r[2] = Len(asked[r[1]]) + 1
        /\ r[2] \in DOMAIN script[r[1]]
        /\ asked' = [asked EXCEPT ![r[1]] = Append(@, script[r[1]][r[2]])]
    BY <1>6 DEF Acts, Asks
  <2>2. PICK f \in FrameType : f = script[r[1]][r[2]]
    BY <1>2, <2>1
  <2>3. PICK old \in Seq(FrameType) : old = asked[r[1]]
    BY <1>1, <1>2
  <2>4. /\ Append(old, f) \in Seq(FrameType) /\ Len(Append(old, f)) = Len(old) + 1
        /\ DOMAIN Append(old, f) = 1 .. (Len(old) + 1) /\ Append(old, f)[Len(old) + 1] = f
        /\ \A i \in DOMAIN old : i \in DOMAIN Append(old, f) /\ Append(old, f)[i] = old[i]
        /\ \A i \in DOMAIN Append(old, f) : i \in DOMAIN old \/ i = Len(old) + 1
    OBVIOUS
  <2>5. asked'[r[1]] = Append(old, f) /\ \A c \in Conns : c # r[1] => asked'[c] = asked[c]
    BY <1>1, <1>2, <2>1, <2>2, <2>3
  <2>6. asked' \in [Conns -> Seq(FrameType)]
    BY <1>1, <1>2, <2>1, <2>2, <2>3, <2>4
  <2>7. call[r] = NoCall /\ r[2] \notin DOMAIN asked[r[1]]
    BY <1>1, <1>3, <1>4, <2>1 DEF Shapes
  <2>8. Len(old) + 1 <= Len(script[r[1]]) /\ Len(old) \in Nat
    BY <1>1, <1>4, <2>1, <2>3
  <2>9. \A c \in Conns : Len(asked'[c]) <= Len(script[c]) /\ Len(asked[c]) <= Len(asked'[c])
    BY <1>2, <1>4, <2>3, <2>4, <2>5, <2>8
  <2>10. \A c \in Conns : \A i \in DOMAIN asked'[c] : asked'[c][i] = script[c][i]
    BY <1>2, <2>1, <2>2, <2>3, <2>4, <2>5
  <2>11. \A c \in Conns : \A i \in DOMAIN asked[c] :
            i \in DOMAIN asked'[c] /\ asked'[c][i] = asked[c][i]
    BY <2>3, <2>4, <2>5
  <2>12. r[2] \in DOMAIN asked'[r[1]]
    BY <1>1, <2>1, <2>3, <2>4, <2>5, <2>8
  <2> QED BY <2>1, <2>3, <2>5, <2>6, <2>7, <2>9, <2>10, <2>11, <2>12
<1> QED BY <1>5, <1>6

\* What has been taken up stays what the script says.
LEMMA ActsShapes ==
  ASSUME Shapes, Types, NEW r \in Calls, Acts(r), queue' \in [Conns -> Seq(Item)],
         \A c \in Conns : \A k \in DOMAIN queue'[c] :
           \/ k \in DOMAIN queue[c] /\ queue'[c][k] = queue[c][k]
           \/ c = r[1] /\ queue'[c][k].message.to = r[2]
  PROVE  Shapes'
<1>1. /\ asked' \in [Conns -> Seq(FrameType)]
      /\ \A c \in Conns : Len(asked'[c]) <= Len(script[c])
      /\ \A c \in Conns : \A i \in DOMAIN asked'[c] : asked'[c][i] = script[c][i]
  BY ActsAsks
<1>2. UNCHANGED <<script, broken, said>> /\ ready' \in [Conns -> BOOLEAN]
      /\ engine' \in Calls \cup {Idle, Down} /\ crashed' \in BOOLEAN
  BY DEF Acts
<1>3. \A t \in Calls : t # r => Calm(t)
  BY DEF Acts
<1>4. ASSUME NEW t \in Calls
      PROVE  /\ call'[t].pc = "none" <=> t[2] > Len(asked'[t[1]])
             /\ call'[t].pc = "none" => call'[t] = NoCall
             /\ call'[t].pc = "done" => call'[t].task = "none" /\ ~call'[t].lease
  <2>1. /\ t[1] \in Conns /\ t[2] \in Nat /\ Len(asked[t[1]]) \in Nat /\ Len(asked'[t[1]]) \in Nat
        /\ r[1] \in Conns
    <3>1. t[1] \in Conns /\ t[2] \in Nat /\ r[1] \in Conns
      BY CallsArePairs
    <3>2. asked[t[1]] \in Seq(FrameType) /\ asked'[t[1]] \in Seq(FrameType)
      BY <1>1, <3>1 DEF Shapes
    <3> QED BY <3>1, <3>2
  <2>2. CASE t = r
    <3>1. call'[r].pc \notin {"none", "done"}
      BY DEF Acts
    <3>2. r[2] \in DOMAIN asked'[r[1]]
      BY ActsAsks
    <3>3. ~(r[2] > Len(asked'[r[1]]))
      BY <1>1, <2>1, <3>2
    <3> QED BY <2>2, <3>1, <3>3
  <2>3. CASE t # r
    <3>1. /\ call[t].pc = "none" <=> t[2] > Len(asked[t[1]])
          /\ call[t].pc = "none" => call[t] = NoCall
          /\ call[t].pc = "done" => call[t].task = "none" /\ ~call[t].lease
      BY DEF Shapes
    <3>2. call'[t].pc = call[t].pc
      BY <1>3, <2>3 DEF Calm
    <3>3. /\ call'[t].pc = "none" => call'[t] = NoCall
          /\ call'[t].pc = "done" => call'[t].task = "none" /\ ~call'[t].lease
      BY <1>3, <2>3, <3>1 DEF Calm, NoCall
    <3>4. t[2] > Len(asked[t[1]]) <=> t[2] > Len(asked'[t[1]])
      <4>1. CASE asked'[t[1]] = asked[t[1]]
        BY <4>1
      <4>2. CASE asked'[t[1]] # asked[t[1]]
        <5>1. t[1] = r[1] /\ r[2] = Len(asked[t[1]]) + 1
              /\ \E f \in FrameType : asked'[t[1]] = Append(asked[t[1]], f)
          <6>1. t[1] = r[1]
            BY <2>1, <4>2, ActsAsks
          <6>2. ~UNCHANGED asked
            BY <4>2
          <6>3. /\ r[2] = Len(asked[r[1]]) + 1
                /\ \E f \in FrameType : asked'[r[1]] = Append(asked[r[1]], f)
            BY <6>2, ActsAsks
          <6> QED BY <6>1, <6>3
        <5>2. t[2] # r[2]
          BY <2>3, <5>1, CallsArePairs
        <5>3. Len(asked'[t[1]]) = Len(asked[t[1]]) + 1
          <6>1. asked[t[1]] \in Seq(FrameType)
            BY <2>1 DEF Shapes
          <6> QED BY <5>1, <6>1
        <5> QED BY <2>1, <5>1, <5>2, <5>3
      <4> QED BY <4>1, <4>2
    <3> QED BY <3>1, <3>2, <3>3, <3>4
  <2> QED BY <2>2, <2>3
<1>5. \A c \in Conns : /\ Len(asked'[c]) <= Len(script'[c])
                       /\ \A i \in DOMAIN asked'[c] : asked'[c][i] = script'[c][i]
  BY <1>1, <1>2
<1>6. script' \in Scripts /\ broken' \in [Conns -> BOOLEAN] /\ said' \in [Conns -> Seq(Message)]
  BY <1>2 DEF Shapes
<1>7. ASSUME NEW c \in Conns, NEW k \in DOMAIN queue'[c]
      PROVE  queue'[c][k].message.to \in DOMAIN asked'[c]
  <2>1. CASE k \in DOMAIN queue[c] /\ queue'[c][k] = queue[c][k]
    <3>1. PICK i : i = queue[c][k].message.to
      OBVIOUS
    <3>2. i \in DOMAIN asked[c]
      BY <2>1, <3>1 DEF Shapes
    <3>3. i \in DOMAIN asked'[c]
      BY <3>2, ActsAsks
    <3> QED BY <2>1, <3>1, <3>3
  <2>2. CASE c = r[1] /\ queue'[c][k].message.to = r[2]
    BY <2>2, ActsAsks
  <2> QED BY <1>7, <2>1, <2>2
<1> QED BY <1>1, <1>2, <1>4, <1>5, <1>6, <1>7 DEF Shapes

\* The connections of the other calls hear nothing of it.
LEMMA ActsOthers ==
  ASSUME Shapes, NEW r \in Calls, Acts(r), NEW d \in Conns, d # r[1], Speaks(d),
         queue'[d] = queue[d]
  PROVE  Speaks(d)'
<1>1. UNCHANGED <<link[d], broken[d], asked[d], ready[d], said[d], queue[d]>>
  <2>1. asked'[d] = asked[d]
    BY ActsAsks
  <2> QED BY <2>1 DEF Acts
<1>2. \A t \in Calls : t[1] = d => Calm(t)
  BY DEF Acts
<1> QED BY <1>1, <1>2, CalmStep

\* A response in the chain is heard by nobody else of the connection: where the
\* other calls are does not change.
LEMMA ActsTells ==
  ASSUME Shapes, NEW r \in Calls, Acts(r), Linked(r[1]), Speaks(r[1]),
         ready[r[1]] => ready'[r[1]],
         \/ Chain(r[1])' = Chain(r[1])
         \/ \E m \in Message : m.to = r[2] /\ Chain(r[1])' = Append(Chain(r[1]), m),
         NEW t \in Calls, t[1] = r[1], t # r
  PROVE  Tells(t)'
<1>1. r[1] \in Conns /\ t[2] # r[2] /\ Chain(r[1]) \in Seq(Message)
  BY CallsArePairs, ChainIs
<1>2. /\ \A kind : About(Chain(t[1])', t[2], kind) = About(Chain(t[1]), t[2], kind)
      /\ Answered(Chain(t[1])', t[2]) <=> Answered(Chain(t[1]), t[2])
  <2>1. PICK new : new = Chain(r[1])'
    OBVIOUS
  <2>2. \A kind : About(new, t[2], kind) = About(Chain(r[1]), t[2], kind)
    <3>1. CASE new = Chain(r[1])
      BY <3>1
    <3>2. CASE \E m \in Message : m.to = r[2] /\ new = Append(Chain(r[1]), m)
      <4>1. PICK m \in Message : m.to # t[2] /\ new = Append(Chain(r[1]), m)
        BY <1>1, <3>2
      <4>2. PICK old \in Seq(Message) : old = Chain(r[1])
        BY <1>1
      <4>3. \A kind : About(Append(old, m), t[2], kind) = About(old, t[2], kind)
        BY <4>1, AboutAppend
      <4> QED BY <4>1, <4>2, <4>3
    <3> QED BY <2>1, <3>1, <3>2
  <2> QED BY <2>1, <2>2 DEF Answered
<1>3. Calm(t) /\ Tells(t) /\ (ready[t[1]] => ready'[t[1]])
  BY DEF Acts, Speaks
<1>4. call[t].pc = "none" => call[t] = NoCall
  BY DEF Shapes
<1>5. CASE call[t].pc = "none"
  <2>1. call'[t] = NoCall
    BY <1>3, <1>4, <1>5 DEF Calm, NoCall
  <2> QED BY <2>1 DEF Tells, NoCall
<1>6. CASE call[t].pc # "none"
  <2>1. t[2] \in DOMAIN asked[t[1]]
    <3>1. ~(t[2] > Len(asked[t[1]])) /\ asked[t[1]] \in Seq(FrameType)
      BY <1>1, <1>6 DEF Shapes
    <3>2. t[2] \in Nat /\ t[2] >= 1
      BY CallsArePairs
    <3> QED BY <3>1, <3>2
  <2>2. Frame(t)' = Frame(t)
    BY <1>1, <2>1, ActsAsks DEF Frame
  <2> QED BY <1>2, <1>3, <2>2 DEF Tells, Calm
<1> QED BY <1>5, <1>6

\* What is awaited is still waited for, as r waits for nothing.
LEMMA ActsWaits ==
  ASSUME Shapes, NEW r \in Calls, Acts(r), Linked(r[1]), Speaks(r[1]),
         NEW k \in DOMAIN queue[r[1]], queue[r[1]][k].await, NEW m, m = queue[r[1]][k].message
  PROVE  Waiting(r[1], m)'
<1>1. <<r[1], m.to>> \in Calls /\ Waiting(r[1], m)
  BY CallsArePairs, AwaitedCalls DEF Speaks
<1>2. <<r[1], m.to>> # r
  BY <1>1 DEF Waiting, Acts
<1>3. call'[<<r[1], m.to>>].pc = call[<<r[1], m.to>>].pc
  BY <1>1, <1>2 DEF Acts, Calm
<1> QED BY <1>1, <1>3 DEF Waiting

\* A call that says nothing.
LEMMA SilentStep ==
  ASSUME CInv, Types, NEW r \in Calls, Acts(r), UNCHANGED <<queue, ready>>,
         Linked(r[1]) => Tells(r)'
  PROVE  CInv'
<1>1. Shapes /\ queue \in [Conns -> Seq(Item)] /\ r[1] \in Conns
  BY CallsArePairs DEF CInv, Shapes
<1>2. Shapes'
  BY <1>1, ActsShapes
<1>3. ASSUME NEW d \in Conns, d # r[1] PROVE Speaks(d)'
  BY <1>1, <1>3, ActsOthers DEF CInv
<1>4. Speaks(r[1])'
  <2> SUFFICES ASSUME Linked(r[1]) PROVE Speaks(r[1])'
    BY DEF Speaks, Linked, Acts
  <2>1. UNCHANGED <<link, said, broken>> /\ Speaks(r[1])
    BY <1>1 DEF Acts, CInv
  <2>2. Chain(r[1])' = Chain(r[1])
    BY <2>1 DEF Chain
  <2>3. link[r[1]] = "none" => asked'[r[1]] = <<>>
    BY <1>1, <2>1, ActsAsks DEF Speaks
  <2>4. Proper(asked'[r[1]], Chain(r[1])) /\ (ready[r[1]] => Inited(asked'[r[1]], Chain(r[1])))
    <3>1. asked[r[1]] \in Seq(FrameType) /\ Chain(r[1]) \in Seq(Message)
      BY <1>1, ChainIs DEF Shapes
    <3>2. /\ asked'[r[1]] = asked[r[1]] \/ \E f \in FrameType : asked'[r[1]] = Append(asked[r[1]], f)
          /\ \A i \in DOMAIN asked[r[1]] : i \in DOMAIN asked'[r[1]] /\ asked'[r[1]][i] = asked[r[1]][i]
      BY <1>1, ActsAsks
    <3>3. Proper(asked'[r[1]], Chain(r[1]))
      BY <2>1, <3>1, <3>2, AskKeeps DEF Speaks
    <3>4. ready[r[1]] => Inited(asked'[r[1]], Chain(r[1]))
      BY <2>1, <3>2 DEF Speaks, Inited
    <3> QED BY <3>3, <3>4
  <2>5. \A t \in Calls : t[1] = r[1] => Tells(t)'
    BY <1>1, <2>1, <2>2, ActsTells
  <2>6. ASSUME NEW k \in DOMAIN queue[r[1]], queue[r[1]][k].await
        PROVE  Waiting(r[1], queue[r[1]][k].message)'
    <3>1. PICK m : m = queue[r[1]][k].message
      OBVIOUS
    <3>2. Waiting(r[1], m)'
      BY <1>1, <2>1, <2>6, <3>1, ActsWaits
    <3>3. m = queue'[r[1]][k].message
      BY <3>1
    <3> QED BY <3>2, <3>3 DEF Waiting
  <2> QED BY <2>1, <2>2, <2>3, <2>4, <2>5, <2>6 DEF Speaks, Linked
<1> QED BY <1>2, <1>3, <1>4 DEF CInv

\* A call that says something it may say.
LEMMA SpeakStep ==
  ASSUME CInv, Types, NEW r \in Calls, Acts(r), NEW m \in Message, m.to = r[2],
         NEW await \in BOOLEAN, Put(r, m, await),
         Linked(r[1]) =>
           /\ MaySay(asked'[r[1]], Chain(r[1]), m)
           /\ ready[r[1]] => ready'[r[1]]
           /\ ready'[r[1]] => Inited(asked'[r[1]], Append(Chain(r[1]), m))
           /\ Tells(r)'
           /\ await => Waiting(r[1], m)'
  PROVE  CInv'
<1>1. Shapes /\ r[1] \in Conns
  BY CallsArePairs DEF CInv
<1>2. /\ Chain(r[1])' = Append(Chain(r[1]), m)
      /\ queue' \in [Conns -> Seq(Item)]
      /\ queue'[r[1]] = Append(queue[r[1]], [message |-> m, await |-> await])
      /\ \A d \in Conns : d # r[1] => queue'[d] = queue[d]
      /\ said' = said /\ broken' = broken
  BY <1>1, ChainPut
<1>3. Shapes'
  <2>1. PICK item, q : item = [message |-> m, await |-> await] /\ q = queue[r[1]]
    OBVIOUS
  <2>2. q \in Seq(Item) /\ item \in Item /\ item.message = m
    BY <1>1, <2>1 DEF Shapes, Item
  <2>3. \A k \in DOMAIN Append(q, item) :
          (k \in DOMAIN q /\ Append(q, item)[k] = q[k]) \/ Append(q, item)[k] = item
    BY <2>2
  <2>4. ASSUME NEW c \in Conns, NEW k \in DOMAIN queue'[c]
        PROVE  \/ k \in DOMAIN queue[c] /\ queue'[c][k] = queue[c][k]
               \/ c = r[1] /\ queue'[c][k].message.to = r[2]
    <3>1. CASE c # r[1]
      BY <1>2, <2>4, <3>1
    <3>2. CASE c = r[1]
      <4>1. queue'[c] = Append(q, item) /\ queue[c] = q
        BY <1>2, <2>1, <3>2
      <4>2. (k \in DOMAIN q /\ queue'[c][k] = q[k]) \/ queue'[c][k] = item
        BY <2>3, <2>4, <4>1
      <4> QED BY <2>2, <3>2, <4>1, <4>2
    <3> QED BY <3>1, <3>2
  <2> QED BY <1>1, <1>2, <2>4, ActsShapes
<1>4. ASSUME NEW d \in Conns, d # r[1] PROVE Speaks(d)'
  BY <1>1, <1>2, <1>4, ActsOthers DEF CInv
<1>5. Speaks(r[1])'
  <2> SUFFICES ASSUME Linked(r[1]) PROVE Speaks(r[1])'
    BY DEF Speaks, Linked, Acts
  <2>1. UNCHANGED <<link, said, broken>> /\ Speaks(r[1])
    BY <1>1 DEF Acts, CInv
  <2>2. link[r[1]] = "none" => asked'[r[1]] = <<>>
    BY <1>1, <2>1, ActsAsks DEF Speaks
  <2>3. Proper(asked'[r[1]], Append(Chain(r[1]), m))
    <3>1. asked[r[1]] \in Seq(FrameType) /\ Chain(r[1]) \in Seq(Message)
      BY <1>1, ChainIs DEF Shapes
    <3>2. asked'[r[1]] = asked[r[1]] \/ \E f \in FrameType : asked'[r[1]] = Append(asked[r[1]], f)
      BY <1>1, ActsAsks
    <3>3. Proper(asked'[r[1]], Chain(r[1]))
      BY <2>1, <3>1, <3>2, AskKeeps DEF Speaks
    <3>4. PICK a : a = asked'[r[1]]
      OBVIOUS
    <3> QED BY <3>1, <3>3, <3>4, SayKeeps
  <2>4. \A t \in Calls : t[1] = r[1] => Tells(t)'
    BY <1>1, <1>2, <2>1, ActsTells
  <2>5. ASSUME NEW k \in DOMAIN queue'[r[1]], queue'[r[1]][k].await
        PROVE  Waiting(r[1], queue[r[1]][k].message)'
    <3>1. PICK n : n = queue'[r[1]][k].message
      OBVIOUS
    <3>2. PICK item, q : item = [message |-> m, await |-> await] /\ q = queue[r[1]]
      OBVIOUS
    <3>3. q \in Seq(Item) /\ item \in Item
      BY <1>1, <3>2 DEF Shapes, Item
    <3>4. queue'[r[1]] = Append(q, item)
      BY <1>2, <3>2
    <3>5. \/ k \in DOMAIN q /\ queue'[r[1]][k] = q[k]
          \/ queue'[r[1]][k] = item
      BY <3>3, <3>4
    <3>6. CASE k \in DOMAIN q /\ queue'[r[1]][k] = q[k]
      <4>1. n = queue[r[1]][k].message /\ k \in DOMAIN queue[r[1]] /\ queue[r[1]][k].await
        BY <2>5, <3>1, <3>2, <3>6
      <4>2. Waiting(r[1], n)'
        BY <1>1, <2>1, <4>1, ActsWaits
      <4> QED BY <3>1, <4>2 DEF Waiting
    <3>7. CASE queue'[r[1]][k] = item
      <4>1. n = m /\ await
        BY <2>5, <3>1, <3>2, <3>7
      <4> QED BY <3>1, <4>1 DEF Waiting
    <3> QED BY <3>5, <3>6, <3>7
  <2> QED BY <1>2, <2>1, <2>2, <2>3, <2>4, <2>5 DEF Speaks, Linked
<1> QED BY <1>3, <1>4, <1>5 DEF CInv

\* Nothing has been said of a frame that is just taken up.
LEMMA NewIsUnspoken ==
  ASSUME NEW c, Linked(c), Speaks(c), NEW i, i \notin DOMAIN asked[c]
  PROVE  ~Answered(Chain(c), i) /\ \A kind : About(Chain(c), i, kind) = {}
<1>1. Proper(asked[c], Chain(c))
  BY DEF Speaks
<1>2. \A kind : About(Chain(c), i, kind) = {}
  BY <1>1, ProperSpeaks DEF About
<1> QED BY <1>2 DEF Answered

\* What was initialized is.
LEMMA InitedGrows ==
  ASSUME NEW a, NEW t \in Seq(Message), NEW m \in Message, Inited(a, t)
  PROVE  Inited(a, Append(t, m))
<1>1. PICK i \in DOMAIN a, k \in DOMAIN t :
        a[i].method = "initialize" /\ k \in About(t, i, "response") /\ t[k].body = "ok"
  BY DEF Inited, About
<1>2. k \in About(Append(t, m), i, "response")
  BY <1>1, AboutAppend
<1>3. Append(t, m)[k] = t[k]
  BY <1>1
<1> QED BY <1>1, <1>2, <1>3 DEF Inited

\* A call that answers.
LEMMA RespondStep ==
  ASSUME CInv, Types, NEW r \in Calls, Acts(r), NEW body \in Bodies,
         Put(r, Response(r[2], body), TRUE),
         call'[r].pc \in {"reply", "last", "answer"},
         Linked(r[1]) =>
           /\ call'[r].pc = "answer" => call'[r].task = "active"
           /\ ~Answered(Chain(r[1]), r[2])
           /\ MayAnswer(asked'[r[1]], Chain(r[1]), r[2], body)
           /\ ready[r[1]] => ready'[r[1]]
           /\ ready'[r[1]] => \/ Inited(asked'[r[1]], Chain(r[1]))
                              \/ asked'[r[1]][r[2]].method = "initialize" /\ body = "ok"
           /\ call'[r].task = "active" /\ asked'[r[1]][r[2]].method = "speech.synthesize"
                => About(Chain(r[1]), r[2], "started") # {}
  PROVE  CInv'
<1>1. /\ Shapes /\ r[1] \in Conns /\ r[2] \in Nat
  BY CallsArePairs DEF CInv
<1>2. PICK m \in Message : m = Response(r[2], body)
  BY <1>1 DEF Message, Response
<1>3. m.to = r[2] /\ m.kind = "response" /\ m.body = body
  BY <1>2 DEF Response
<1>4. Chain(r[1])' = Append(Chain(r[1]), m) /\ Chain(r[1]) \in Seq(Message)
  BY <1>1, <1>2, ChainPut, ChainIs
<1>5. r[2] \in DOMAIN asked'[r[1]]
  BY <1>1, ActsAsks
<1> SUFFICES ASSUME Linked(r[1])
             PROVE  /\ MaySay(asked'[r[1]], Chain(r[1]), m)
                    /\ ready[r[1]] => ready'[r[1]]
                    /\ ready'[r[1]] => Inited(asked'[r[1]], Append(Chain(r[1]), m))
                    /\ Tells(r)'
                    /\ Waiting(r[1], m)'
  BY <1>2, <1>3, SpeakStep
<1>6. MaySay(asked'[r[1]], Chain(r[1]), m)
  BY <1>2, <1>3, <1>5 DEF MaySay
<1>7. ASSUME ready'[r[1]] PROVE Inited(asked'[r[1]], Append(Chain(r[1]), m))
  <2>1. CASE Inited(asked'[r[1]], Chain(r[1]))
    <3>1. PICK a : a = asked'[r[1]]
      OBVIOUS
    <3>2. Inited(a, Append(Chain(r[1]), m))
      BY <1>4, <2>1, <3>1, InitedGrows
    <3> QED BY <3>1, <3>2
  <2>2. CASE asked'[r[1]][r[2]].method = "initialize" /\ body = "ok"
    <3>1. PICK t \in Seq(Message) : t = Chain(r[1])
      BY <1>4
    <3>2. Len(t) + 1 \in About(Append(t, m), r[2], "response") /\ Append(t, m)[Len(t) + 1] = m
      <4>1. About(Append(t, m), r[2], "response") = About(t, r[2], "response") \cup {Len(t) + 1}
        BY <1>3, AboutAppend
      <4>2. Append(t, m)[Len(t) + 1] = m
        OBVIOUS
      <4> QED BY <4>1, <4>2
    <3> QED BY <1>3, <1>5, <2>2, <3>1, <3>2 DEF Inited
  <2> QED BY <1>7, <2>1, <2>2
<1>8. Tells(r)'
  <2>1. PICK t \in Seq(Message) : t = Chain(r[1])
    BY <1>4
  <2>2. Answered(Append(t, m), r[2])
    BY <1>3, <2>1, AnsweredAppend
  <2>3. About(t, r[2], "started") \subseteq About(Append(t, m), r[2], "started")
    BY <2>1, AboutAppend
  <2>4. Frame(r)' = asked'[r[1]][r[2]]
    BY DEF Frame
  <2> QED BY <1>4, <2>1, <2>2, <2>3, <2>4 DEF Tells
<1>9. Waiting(r[1], m)'
  <2>1. r = <<r[1], m.to>>
    BY <1>3, CallsArePairs
  <2>2. call'[<<r[1], m.to>>].pc \in {"reply", "last", "answer"}
    BY <2>1
  <2> QED BY <1>3, <2>2 DEF Waiting
<1> QED BY <1>6, <1>7, <1>8, <1>9

-----------------------------------------------------------------------------
(* Frames.                                                                 *)

\* A frame that is taken up: its call is new and nothing was said of it.
LEMMA TakesIs ==
  ASSUME CInv, Types, NEW r \in Calls, r[2] \in DOMAIN script[r[1]],
         NEW f, f = script[r[1]][r[2]], Takes(r, f)
  PROVE  /\ UNCHANGED <<link, script, stopVars>> /\ Asks(r) /\ engine' = engine /\ crashed' = crashed
         /\ f \in FrameType /\ call[r] = NoCall
         /\ asked' \in [Conns -> Seq(FrameType)]
         /\ asked'[r[1]][r[2]] = f /\ Frame(r)' = f
         /\ \A i \in DOMAIN asked[r[1]] : i \in DOMAIN asked'[r[1]] /\ asked'[r[1]][i] = asked[r[1]][i]
         /\ Linked(r[1]) => /\ ~Answered(Chain(r[1]), r[2])
                            /\ \A kind : About(Chain(r[1]), r[2], kind) = {}
                            /\ ready[r[1]] => Inited(asked'[r[1]], Chain(r[1]))
<1>1. Shapes /\ r[1] \in Conns /\ Speaks(r[1]) /\ r[2] \in Nat
  BY CallsArePairs DEF CInv
<1>2. asked[r[1]] \in Seq(FrameType) /\ f \in FrameType
  BY <1>1, ScriptCalls DEF Shapes
<1>3. /\ link[r[1]] \in {"open", "ended"} /\ r[2] = Len(asked[r[1]]) + 1
      /\ asked' = [asked EXCEPT ![r[1]] = Append(asked[r[1]], f)]
      /\ UNCHANGED <<script, link, engine, stopVars, crashed>>
  BY DEF Takes
<1>4. Asks(r)
  BY <1>3 DEF Asks
<1>5. /\ asked'[r[1]] = Append(asked[r[1]], f)
      /\ asked' \in [Conns -> Seq(FrameType)]
  <2>1. Append(asked[r[1]], f) \in Seq(FrameType)
    BY <1>2
  <2> QED BY <1>1, <1>3, <2>1 DEF Shapes
<1>6. /\ asked'[r[1]][r[2]] = f /\ r[2] \notin DOMAIN asked[r[1]]
      /\ \A i \in DOMAIN asked[r[1]] : i \in DOMAIN asked'[r[1]] /\ asked'[r[1]][i] = asked[r[1]][i]
  BY <1>2, <1>3, <1>5
<1>7. call[r] = NoCall
  <2>1. r[2] > Len(asked[r[1]])
    BY <1>2, <1>3
  <2> QED BY <1>1, <2>1 DEF Shapes
<1>8. Linked(r[1]) => /\ ~Answered(Chain(r[1]), r[2])
                      /\ \A kind : About(Chain(r[1]), r[2], kind) = {}
                      /\ ready[r[1]] => Inited(asked'[r[1]], Chain(r[1]))
  <2> SUFFICES ASSUME Linked(r[1])
               PROVE  /\ ~Answered(Chain(r[1]), r[2])
                      /\ \A kind : About(Chain(r[1]), r[2], kind) = {}
                      /\ ready[r[1]] => Inited(asked'[r[1]], Chain(r[1]))
    OBVIOUS
  <2>1. ~Answered(Chain(r[1]), r[2]) /\ \A kind : About(Chain(r[1]), r[2], kind) = {}
    BY <1>1, <1>6, NewIsUnspoken
  <2>2. ready[r[1]] => Inited(asked'[r[1]], Chain(r[1]))
    BY <1>1, <1>6 DEF Speaks, Inited
  <2> QED BY <2>1, <2>2
<1>9. Frame(r)' = asked'[r[1]][r[2]]
  BY DEF Frame
<1> QED BY <1>2, <1>3, <1>4, <1>5, <1>6, <1>7, <1>8, <1>9

\* A frame that is answered as soon as it is taken up.
LEMMA TakeReplyStep ==
  ASSUME CInv, Types, NEW r \in Calls, r[2] \in DOMAIN script[r[1]],
         NEW f, f = script[r[1]][r[2]], Takes(r, f), NEW body \in Bodies,
         NEW pc \in {"reply", "last"}, Reply(r, body, pc),
         \/ ready' = ready
         \/ ready' = [ready EXCEPT ![r[1]] = TRUE] /\ f.method = "initialize" /\ body = "ok",
         body \in Refusals \/ f.method = "initialize" \/ ready[r[1]],
         body \notin {"accepted", "rejected", "request_cancelled"},
         body = "ok" => f.method \notin {"speech.cancel", "speech.synthesize"}
  PROVE  CInv'
<1>1. Shapes /\ r[1] \in Conns
  BY CallsArePairs DEF CInv
<1>2. /\ UNCHANGED <<link, script>> /\ Asks(r) /\ engine' = engine /\ crashed' = crashed
      /\ call[r] = NoCall /\ asked'[r[1]][r[2]] = f
      /\ Linked(r[1]) => /\ ~Answered(Chain(r[1]), r[2])
                         /\ \A kind : About(Chain(r[1]), r[2], kind) = {}
                         /\ ready[r[1]] => Inited(asked'[r[1]], Chain(r[1]))
  BY TakesIs
<1>3. /\ Put(r, Response(r[2], body), TRUE) /\ call' = [call EXCEPT ![r].pc = pc]
      /\ broken' = broken /\ said' = said
  BY DEF Reply, Put
<1>4. /\ call'[r] = [NoCall EXCEPT !.pc = pc] /\ call' \in [Calls -> CallRecord]
      /\ \A t \in Calls : t # r => call'[t] = call[t]
  BY <1>2, <1>3 DEF Types, CallRecord, NoCall, Pcs, Tasks
<1>5. call'[r].pc = pc /\ call'[r].task = "none"
  BY <1>4 DEF NoCall
<1>6. Acts(r)
  <2>1. ready' \in [Conns -> BOOLEAN] /\ \A c \in Conns : c # r[1] => ready'[c] = ready[c]
    BY <1>1 DEF Shapes
  <2>2. engine' \in Calls \cup {Idle, Down} /\ crashed' \in BOOLEAN
    BY <1>1, <1>2 DEF Shapes
  <2> QED BY <1>2, <1>3, <1>4, <1>5, <2>1, <2>2 DEF Acts, Calm, NoCall
<1>7. Linked(r[1]) => MayAnswer(asked'[r[1]], Chain(r[1]), r[2], body)
  BY <1>2 DEF MayAnswer
<1>8. ready[r[1]] => ready'[r[1]]
  BY <1>1 DEF Shapes
<1>9. ready'[r[1]] => ready[r[1]] \/ (f.method = "initialize" /\ body = "ok")
  OBVIOUS
<1> QED BY <1>2, <1>3, <1>5, <1>6, <1>7, <1>8, <1>9, RespondStep

\* The frames that are answered at once, except a cancel.
LEMMA AnsweredFrames ==
  ASSUME CInv, Types, NEW r \in Calls, r[2] \in DOMAIN script[r[1]],
         NEW f, f = script[r[1]][r[2]],
         \/ TakeGarbage(r, f) \/ TakeFirst(r, f) \/ TakeRefused(r, f)
         \/ TakeDiagnostics(r, f) \/ TakeDuplicate(r, f)
  PROVE  CInv'
<1>1. Shapes /\ r[1] \in Conns /\ f \in FrameType
  BY CallsArePairs, ScriptCalls DEF CInv
<1>2. f.fault \in Faults \cup {"none"} /\ Faults \subseteq Refusals /\ Refusals \subseteq Bodies
  BY <1>1 DEF FrameType, Refusals, Bodies
<1>3. /\ \A body \in Refusals : body \notin {"ok", "accepted", "rejected", "request_cancelled"}
      /\ {"uninitialized", "method_not_found", "invalid_params"} \subseteq Refusals
      /\ "ok" \in Bodies
  BY DEF Refusals, Faults, Bodies, Results
<1>4. ASSUME NEW body \in Refusals, NEW pc \in {"reply", "last"}, Takes(r, f), Reply(r, body, pc),
             ready' = ready
      PROVE  CInv'
  BY <1>2, <1>3, <1>4, TakeReplyStep
<1>5. CASE TakeGarbage(r, f)
  <2>1. f.fault \in Refusals
    BY <1>2, <1>5 DEF TakeGarbage
  <2> QED BY <1>4, <1>5, <2>1 DEF TakeGarbage
<1>6. CASE TakeFirst(r, f)
  <2>1. CASE f.method # "initialize"
    BY <1>3, <1>4, <1>6, <2>1 DEF TakeFirst
  <2>2. CASE f.method = "initialize" /\ f.fault # "none"
    BY <1>2, <1>4, <1>6, <2>2 DEF TakeFirst
  <2>3. CASE f.method = "initialize" /\ f.fault = "none"
    <3>1. Reply(r, "ok", "reply") /\ ready' = [ready EXCEPT ![r[1]] = TRUE] /\ Takes(r, f)
      BY <1>6, <2>3 DEF TakeFirst
    <3> QED BY <1>3, <2>3, <3>1, TakeReplyStep
  <2> QED BY <2>1, <2>2, <2>3
<1>7. CASE TakeRefused(r, f)
  BY <1>2, <1>3, <1>4, <1>7 DEF TakeRefused, Dispatches
<1>8. CASE TakeDiagnostics(r, f)
  <2>1. /\ Takes(r, f) /\ Reply(r, "ok", "reply") /\ ready' = ready /\ ready[r[1]]
        /\ f.method = "diagnostics.get"
    BY <1>8 DEF TakeDiagnostics, Dispatches
  <2> QED BY <1>3, <2>1, TakeReplyStep
<1>9. CASE TakeDuplicate(r, f)
  BY <1>3, <1>4, <1>9 DEF TakeDuplicate, Dispatches
<1> QED BY <1>5, <1>6, <1>7, <1>8, <1>9

\* An active call has its frame, and a synthesis that has one has been announced.
LEMMA ActiveIsAsked ==
  ASSUME CInv, NEW t \in Calls, call[t].task = "active"
  PROVE  /\ t[2] \in DOMAIN asked[t[1]] /\ Frame(t) = asked[t[1]][t[2]]
         /\ Linked(t[1]) /\ Frame(t).method = "speech.synthesize"
              => About(Chain(t[1]), t[2], "started") # {}
<1>1. t[1] \in Conns /\ t[2] \in Nat /\ t[2] >= 1 /\ asked[t[1]] \in Seq(FrameType)
  BY CallsArePairs DEF CInv, Shapes
<1>2. ~(t[2] > Len(asked[t[1]]))
  BY DEF CInv, Shapes, NoCall
<1>3. t[2] \in DOMAIN asked[t[1]]
  BY <1>1, <1>2
<1>4. Linked(t[1]) => Tells(t)
  BY <1>1 DEF CInv, Speaks
<1> QED BY <1>3, <1>4 DEF Tells, Frame

\* abort() reaches only active calls, and leaves them where they are.
LEMMA AbortIsCalm ==
  ASSUME Types, NEW calls, \A t \in calls : call[t].task = "active", NEW t \in Calls
  PROVE  \/ Abort(calls)[t] = call[t]
         \/ /\ call[t].task = "active"
            /\ Abort(calls)[t].pc = call[t].pc /\ Abort(calls)[t].task = call[t].task
            /\ Abort(calls)[t].chunks = call[t].chunks /\ Abort(calls)[t].lease = call[t].lease
<1>1. CASE t \in calls /\ ~call[t].aborted
  <2>1. call[t] \in CallRecord
    BY DEF Types
  <2>2. PICK n : Abort(calls)[t] = [call[t] EXCEPT !.aborted = TRUE, !.cancels = n]
    BY <1>1 DEF Abort
  <2> QED BY <1>1, <2>1, <2>2 DEF CallRecord
<1>2. CASE ~(t \in calls /\ ~call[t].aborted)
  BY <1>2 DEF Abort
<1> QED BY <1>1, <1>2

\* A cancel is accepted for a synthesis that has been announced.
LEMMA CancelSays ==
  ASSUME CInv, IInv, NEW r \in Calls, r[2] \in DOMAIN script[r[1]],
         NEW f, f = script[r[1]][r[2]], TakeCancel(r, f)
  PROVE  CInv'
<1>1. Shapes /\ r[1] \in Conns /\ Types /\ Takes(r, f)
  BY CallsArePairs DEF CInv, IInv, TakeCancel, Dispatches
<1>2. /\ UNCHANGED <<link, script>> /\ Asks(r) /\ engine' = engine /\ crashed' = crashed
      /\ call[r] = NoCall /\ asked'[r[1]][r[2]] = f
      /\ \A i \in DOMAIN asked[r[1]] : i \in DOMAIN asked'[r[1]] /\ asked'[r[1]][i] = asked[r[1]][i]
      /\ Linked(r[1]) => /\ ~Answered(Chain(r[1]), r[2])
                         /\ \A kind : About(Chain(r[1]), r[2], kind) = {}
                         /\ ready[r[1]] => Inited(asked'[r[1]], Chain(r[1]))
  BY <1>1, TakesIs
<1> DEFINE target == Cancelled(r, f)
           calls == Abort(target)
           body == IF target = {} THEN "rejected" ELSE "accepted"
<1>3. /\ call' = [calls EXCEPT ![r].pc = "reply"]
      /\ Put(r, Response(r[2], body), TRUE) /\ ready' = ready /\ ready[r[1]]
      /\ f.method = "speech.cancel"
  BY DEF TakeCancel, Dispatches
<1>4. \A t \in target : t \in Calls /\ t[1] = r[1] /\ call[t].task = "active"
                        /\ Frame(t).id = f.target /\ Frame(t).method = "speech.synthesize"
  BY DEF Cancelled, Active
<1>5. calls \in [Calls -> CallRecord]
  BY AbortTells
<1>6. \A t \in Calls : \/ calls[t] = call[t]
                       \/ /\ call[t].task = "active"
                          /\ calls[t].pc = call[t].pc /\ calls[t].task = call[t].task
                          /\ calls[t].chunks = call[t].chunks /\ calls[t].lease = call[t].lease
  BY <1>1, <1>4, AbortIsCalm
<1>7. ASSUME target # {}, Linked(r[1])
      PROVE  \E j \in DOMAIN asked'[r[1]] :
               /\ asked'[r[1]][j].method = "speech.synthesize" /\ asked'[r[1]][j].id = f.target
               /\ About(Chain(r[1]), j, "started") # {}
  <2>1. PICK t \in target : TRUE
    BY <1>7
  <2>2. /\ t[2] \in DOMAIN asked[r[1]] /\ Frame(t) = asked[r[1]][t[2]]
        /\ About(Chain(r[1]), t[2], "started") # {}
    BY <1>4, <1>7, <2>1, ActiveIsAsked
  <2> QED BY <1>2, <1>4, <2>1, <2>2
<1>8. body \in {"accepted", "rejected"} /\ (body = "accepted" => target # {}) /\ body \in Bodies
  BY DEF Bodies, Results
<1> HIDE DEF target, calls, body
<1>9. /\ call'[r].pc = "reply" /\ call'[r].task = "none" /\ call' \in [Calls -> CallRecord]
      /\ \A t \in Calls : t # r => call'[t] = calls[t]
  <2>1. calls[r] = NoCall
    BY <1>2, <1>6 DEF NoCall
  <2>2. PICK k \in CallRecord : k = [NoCall EXCEPT !.pc = "reply"]
    BY DEF NoCall, CallRecord, Pcs, Tasks
  <2>3. k.pc = "reply" /\ k.task = "none"
    BY <2>2 DEF NoCall
  <2>4. call' = [calls EXCEPT ![r] = k]
    BY <1>3, <1>5, <2>1, <2>2
  <2> QED BY <1>5, <2>3, <2>4
<1>10. Acts(r)
  <2>1. engine' \in Calls \cup {Idle, Down} /\ crashed' \in BOOLEAN /\ ready' \in [Conns -> BOOLEAN]
        /\ broken' = broken /\ said' = said
    BY <1>1, <1>2, <1>3 DEF Shapes, Put
  <2>2. \A t \in Calls : t # r => Calm(t)
    BY <1>6, <1>9 DEF Calm
  <2> QED BY <1>2, <1>3, <1>9, <2>1, <2>2 DEF Acts, NoCall
<1>11. Linked(r[1]) => MayAnswer(asked'[r[1]], Chain(r[1]), r[2], body)
  BY <1>2, <1>3, <1>7, <1>8 DEF MayAnswer, Refusals, Faults
<1> QED BY <1>1, <1>2, <1>3, <1>8, <1>9, <1>10, <1>11, RespondStep

\* What starts a synthesis is in the chain only for a synthesis.
LEMMA StartedIsSynthesis ==
  ASSUME NEW a, NEW t, Proper(a, t), NEW i, About(t, i, "started") # {}
  PROVE  i \in DOMAIN a /\ a[i].method = "speech.synthesize"
<1>1. PICK k \in DOMAIN t : t[k].to = i /\ t[k].kind = "started"
  BY DEF About
<1>2. MaySay(a, First(t, k - 1), t[k])
  BY DEF Proper
<1>3. PICK m, p : m = t[k] /\ p = First(t, k - 1)
  OBVIOUS
<1>4. MaySay(a, p, m) /\ m.to = i /\ m.kind = "started"
  BY <1>1, <1>2, <1>3
<1>5. m # Response(m.to, m.body) /\ m # Audio(m.to, Cardinality(About(p, m.to, "audio")))
      /\ m # Progress(m.to)
  BY <1>4 DEF Response, Audio, Progress
<1> QED BY <1>4, <1>5 DEF MaySay, MayStart

\* A frame that is dispatched without an answer yet.
LEMMA DispatchActs ==
  ASSUME CInv, Types, NEW r \in Calls, r[2] \in DOMAIN script[r[1]],
         NEW f, f = script[r[1]][r[2]], Dispatches(r, f), NEW k \in CallRecord,
         call' = [call EXCEPT ![r] = k], k.pc \notin {"none", "done"},
         UNCHANGED <<broken, said>>
  PROVE  Acts(r) /\ ready' = ready /\ ready[r[1]] /\ call'[r] = k
<1>1. Shapes /\ Takes(r, f)
  BY DEF CInv, Dispatches
<1>2. /\ UNCHANGED <<link, script>> /\ Asks(r) /\ engine' = engine /\ crashed' = crashed
      /\ call[r] = NoCall
  BY <1>1, TakesIs
<1>3. ready' = ready /\ ready[r[1]]
  BY DEF Dispatches
<1>4. call'[r] = k /\ call' \in [Calls -> CallRecord] /\ \A t \in Calls : t # r => call'[t] = call[t]
  BY DEF Types
<1>5. engine' \in Calls \cup {Idle, Down} /\ crashed' \in BOOLEAN /\ ready' \in [Conns -> BOOLEAN]
  BY <1>1, <1>2, <1>3 DEF Shapes
<1> QED BY <1>2, <1>3, <1>4, <1>5 DEF Acts, Calm, NoCall

\* A query waits for a service.
LEMMA QueryStep ==
  ASSUME CInv, Types, NEW r \in Calls, r[2] \in DOMAIN script[r[1]],
         NEW f, f = script[r[1]][r[2]], TakeQuery(r, f)
  PROVE  CInv'
<1>1. /\ Dispatches(r, f) /\ Takes(r, f) /\ f.method \in ServiceMethods \cup {"daemon.status"}
      /\ UNCHANGED <<queue, broken, said>>
  BY DEF TakeQuery, Dispatches, writeVars
<1>2. call[r] = NoCall /\ Frame(r)' = f
      /\ (Linked(r[1]) => ~Answered(Chain(r[1]), r[2]))
  BY <1>1, TakesIs
<1>3. PICK k \in CallRecord : k = [NoCall EXCEPT !.pc = "serve"]
  BY DEF NoCall, CallRecord, Pcs, Tasks
<1>4. call' = [call EXCEPT ![r] = k] /\ k.pc = "serve" /\ k.task = "none" /\ ~k.aborted
  <2>1. k.pc = "serve" /\ k.task = "none" /\ ~k.aborted
    BY <1>3 DEF NoCall
  <2>2. call' = [call EXCEPT ![r] = k]
    <3>1. call' = [call EXCEPT ![r] = [call[r] EXCEPT !.pc = "serve"]]
      BY DEF TakeQuery
    <3> QED BY <1>2, <1>3, <3>1
  <2> QED BY <2>1, <2>2
<1>5. Acts(r) /\ ready' = ready /\ ready[r[1]] /\ call'[r] = k
  BY <1>1, <1>4, DispatchActs
<1>6. Chain(r[1])' = Chain(r[1])
  BY <1>1 DEF Chain
<1>7. Linked(r[1]) => Tells(r)'
  BY <1>1, <1>2, <1>4, <1>5, <1>6 DEF Tells
<1> QED BY <1>1, <1>5, <1>7, SilentStep

\* An operation starts a task, and a clone reports its first phase.
LEMMA OperationStep ==
  ASSUME CInv, Types, NEW r \in Calls, r[2] \in DOMAIN script[r[1]],
         NEW f, f = script[r[1]][r[2]], TakeOperation(r, f)
  PROVE  CInv'
<1>1. /\ Dispatches(r, f) /\ Takes(r, f) /\ f.method \in OperationMethods
      /\ UNCHANGED <<broken, said>>
      /\ Put(r, Progress(r[2]), FALSE) \/ UNCHANGED queue
  BY DEF TakeOperation, Dispatches, writeVars, Put
<1>2. /\ call[r] = NoCall /\ Frame(r)' = f /\ asked'[r[1]][r[2]] = f
      /\ Linked(r[1]) => /\ ~Answered(Chain(r[1]), r[2])
                         /\ ready[r[1]] => Inited(asked'[r[1]], Chain(r[1]))
  BY <1>1, TakesIs
<1>3. PICK k \in CallRecord :
        k = [NoCall EXCEPT !.pc = "operate", !.task = "active", !.late = (stop # "no")]
  <2>1. PICK late \in BOOLEAN : late = (stop # "no")
    OBVIOUS
  <2>2. [NoCall EXCEPT !.pc = "operate", !.task = "active", !.late = late] \in CallRecord
    BY DEF NoCall, CallRecord, Pcs, Tasks
  <2> QED BY <2>1, <2>2
<1>4. call' = [call EXCEPT ![r] = k] /\ k.pc = "operate" /\ k.task = "active"
  <2>1. k.pc = "operate" /\ k.task = "active"
    BY <1>3 DEF NoCall
  <2>2. call' = [call EXCEPT ![r] = k]
    <3>1. call' = [call EXCEPT ![r] =
                     [call[r] EXCEPT !.pc = "operate", !.task = "active", !.late = (stop # "no")]]
      BY DEF TakeOperation, StartTask
    <3> QED BY <1>2, <1>3, <3>1
  <2> QED BY <2>1, <2>2
<1>5. Acts(r) /\ ready' = ready /\ ready[r[1]] /\ call'[r] = k
  BY <1>1, <1>4, DispatchActs
<1>6. f.method # "speech.synthesize"
  BY <1>1 DEF OperationMethods
<1>7. CASE UNCHANGED queue
  <2>1. Chain(r[1])' = Chain(r[1])
    BY <1>1, <1>7 DEF Chain
  <2>2. Linked(r[1]) => Tells(r)'
    BY <1>1, <1>2, <1>4, <1>5, <1>6, <2>1 DEF Tells
  <2> QED BY <1>5, <1>7, <2>2, SilentStep
<1>8. CASE Put(r, Progress(r[2]), FALSE)
  <2>1. Shapes /\ r[1] \in Conns /\ r[2] \in Nat /\ r[2] \in DOMAIN asked'[r[1]]
    BY <1>5, CallsArePairs, ActsAsks DEF CInv
  <2>2. PICK m \in Message : m = Progress(r[2])
    BY <2>1 DEF Message, Progress
  <2>3. m.to = r[2] /\ m.kind = "progress"
    BY <2>2 DEF Progress
  <2>4. Chain(r[1])' = Append(Chain(r[1]), m) /\ Chain(r[1]) \in Seq(Message)
    BY <1>8, <2>1, <2>2, ChainPut, ChainIs
  <2>5. ASSUME Linked(r[1])
        PROVE  /\ MaySay(asked'[r[1]], Chain(r[1]), m)
               /\ ready'[r[1]] => Inited(asked'[r[1]], Append(Chain(r[1]), m))
               /\ Tells(r)'
    <3>1. MaySay(asked'[r[1]], Chain(r[1]), m)
      BY <1>1, <1>2, <1>5, <2>1, <2>2, <2>3, <2>5 DEF MaySay
    <3>2. PICK a : a = asked'[r[1]]
      OBVIOUS
    <3>3. Inited(a, Append(Chain(r[1]), m))
      BY <1>2, <1>5, <2>4, <2>5, <3>2, InitedGrows
    <3>4. ~Answered(Append(Chain(r[1]), m), r[2])
      BY <1>2, <2>3, <2>4, <2>5, AnsweredAppend
    <3>5. Tells(r)'
      BY <1>1, <1>2, <1>4, <1>5, <1>6, <2>4, <3>4 DEF Tells
    <3> QED BY <3>1, <3>2, <3>3, <3>5
  <2> QED BY <1>5, <1>8, <2>2, <2>3, <2>5, SpeakStep
<1> QED BY <1>1, <1>7, <1>8

\* A synthesis is announced when none of its id is under way.
LEMMA SynthesisStep ==
  ASSUME CInv, Types, NEW r \in Calls, r[2] \in DOMAIN script[r[1]],
         NEW f, f = script[r[1]][r[2]], TakeSynthesis(r, f)
  PROVE  CInv'
<1>1. /\ Dispatches(r, f) /\ Takes(r, f) /\ f.method = "speech.synthesize" /\ ~IdInUse(r, f)
      /\ Put(r, Started(r[2]), TRUE) /\ UNCHANGED <<broken, said>>
  BY DEF TakeSynthesis, Dispatches, Put
<1>2. /\ call[r] = NoCall /\ Frame(r)' = f /\ asked'[r[1]][r[2]] = f
      /\ Linked(r[1]) => /\ ~Answered(Chain(r[1]), r[2])
                         /\ \A kind : About(Chain(r[1]), r[2], kind) = {}
                         /\ ready[r[1]] => Inited(asked'[r[1]], Chain(r[1]))
  BY <1>1, TakesIs
<1>3. PICK k \in CallRecord :
        k = [NoCall EXCEPT !.pc = "begin", !.task = "active", !.late = (stop # "no")]
  <2>1. PICK late \in BOOLEAN : late = (stop # "no")
    OBVIOUS
  <2>2. [NoCall EXCEPT !.pc = "begin", !.task = "active", !.late = late] \in CallRecord
    BY DEF NoCall, CallRecord, Pcs, Tasks
  <2> QED BY <2>1, <2>2
<1>4. call' = [call EXCEPT ![r] = k] /\ k.pc = "begin" /\ k.task = "active" /\ k.chunks = 0
  <2>1. k.pc = "begin" /\ k.task = "active" /\ k.chunks = 0
    BY <1>3 DEF NoCall
  <2>2. call' = [call EXCEPT ![r] = k]
    <3>1. call' = [call EXCEPT ![r] =
                     [call[r] EXCEPT !.pc = "begin", !.task = "active", !.late = (stop # "no")]]
      BY DEF TakeSynthesis, StartTask
    <3> QED BY <1>2, <1>3, <3>1
  <2> QED BY <2>1, <2>2
<1>5. Acts(r) /\ ready' = ready /\ ready[r[1]] /\ call'[r] = k
  BY <1>1, <1>4, DispatchActs
<1>6. Shapes /\ r[1] \in Conns /\ r[2] \in Nat /\ r[2] \in DOMAIN asked'[r[1]]
  BY <1>5, CallsArePairs, ActsAsks DEF CInv
<1>7. PICK m \in Message : m = Started(r[2])
  BY <1>6 DEF Message, Started
<1>8. m.to = r[2] /\ m.kind = "started"
  BY <1>7 DEF Started
<1>9. Chain(r[1])' = Append(Chain(r[1]), m) /\ Chain(r[1]) \in Seq(Message)
  BY <1>1, <1>6, <1>7, ChainPut, ChainIs
<1> SUFFICES ASSUME Linked(r[1])
             PROVE  /\ MaySay(asked'[r[1]], Chain(r[1]), m)
                    /\ ready'[r[1]] => Inited(asked'[r[1]], Append(Chain(r[1]), m))
                    /\ Tells(r)' /\ Waiting(r[1], m)'
  BY <1>1, <1>5, <1>7, <1>8, SpeakStep
<1>10. ASSUME NEW j \in DOMAIN asked'[r[1]], asked'[r[1]][j].id = f.id,
              About(Chain(r[1]), j, "started") # {}
       PROVE  Answered(Chain(r[1]), j)
  <2>1. Speaks(r[1]) /\ Proper(asked[r[1]], Chain(r[1]))
    BY <1>6 DEF CInv, Speaks
  <2>2. j \in DOMAIN asked[r[1]] /\ asked[r[1]][j].method = "speech.synthesize"
    BY <1>10, <2>1, StartedIsSynthesis
  <2>3. PICK t : t = <<r[1], j>>
    OBVIOUS
  <2>4. t \in Calls /\ t[1] = r[1] /\ t[2] = j
    <3>1. r[2] \in DOMAIN script[r[1]]
      OBVIOUS
    <3> QED BY <1>6, <2>2, <2>3, <3>1, ScriptCalls
  <2>5. Frame(t) = asked[r[1]][j] /\ asked'[r[1]][j] = asked[r[1]][j]
    BY <1>1, <1>6, <2>2, <2>4, TakesIs DEF Frame
  <2>6. Tells(t)
    BY <2>1, <2>4 DEF Speaks
  <2>7. call[t].task # "active"
    BY <1>1, <1>10, <2>4, <2>5 DEF IdInUse, Active
  <2>8. call[t].pc # "none"
    <3>1. j \in Nat /\ j <= Len(asked[r[1]]) /\ Len(asked[r[1]]) \in Nat
      <4>1. asked[r[1]] \in Seq(FrameType)
        BY <1>6 DEF Shapes
      <4> QED BY <2>2, <4>1
    <3> QED BY <1>6, <2>4, <3>1 DEF Shapes
  <2>9. call[t].pc # "serve"
    BY <2>2, <2>5, <2>6 DEF Tells, ServiceMethods
  <2>10. call[t].pc \in Pcs
    BY <2>4 DEF Types, CallRecord
  <2> QED BY <2>4, <2>6, <2>7, <2>8, <2>9, <2>10 DEF Tells, Pcs
<1>11. MaySay(asked'[r[1]], Chain(r[1]), m)
  <2>1. MayStart(asked'[r[1]], Chain(r[1]), r[2])
    BY <1>1, <1>2, <1>5, <1>10 DEF MayStart
  <2> QED BY <1>2, <1>6, <1>7, <1>8, <2>1 DEF MaySay
<1>12. ready'[r[1]] => Inited(asked'[r[1]], Append(Chain(r[1]), m))
  <2>1. PICK a : a = asked'[r[1]]
    OBVIOUS
  <2>2. Inited(a, Append(Chain(r[1]), m))
    BY <1>2, <1>5, <1>9, <2>1, InitedGrows
  <2> QED BY <2>1, <2>2
<1>13. Tells(r)'
  <2>1. PICK t \in Seq(Message) : t = Chain(r[1])
    BY <1>9
  <2>2. ~Answered(Append(t, m), r[2])
    BY <1>2, <1>8, <2>1, AnsweredAppend
  <2>3. About(Append(t, m), r[2], "audio") = {} /\ About(Append(t, m), r[2], "started") # {}
    <3>1. About(Append(t, m), r[2], "audio") = About(t, r[2], "audio")
      BY <1>8, AboutAppend
    <3>2. About(Append(t, m), r[2], "started") = About(t, r[2], "started") \cup {Len(t) + 1}
      BY <1>8, AboutAppend
    <3> QED BY <1>2, <2>1, <3>1, <3>2
  <2>4. Cardinality(About(Append(t, m), r[2], "audio")) = 0
    BY <2>3, FS_EmptySet
  <2> QED BY <1>1, <1>2, <1>4, <1>5, <1>9, <2>1, <2>2, <2>3, <2>4 DEF Tells
<1>14. Waiting(r[1], m)'
  <2>1. r = <<r[1], m.to>>
    BY <1>8, CallsArePairs
  <2>2. call'[<<r[1], m.to>>].pc = "begin"
    BY <1>4, <1>5, <2>1
  <2> QED BY <1>8, <2>2 DEF Waiting
<1> QED BY <1>11, <1>12, <1>13, <1>14

\* dispatchLine, whatever the frame is.
LEMMA FrameSays ==
  ASSUME CInv, IInv, NEW r \in Calls, TakeFrame(r)
  PROVE  CInv'
<1>1. PICK f : f = script[r[1]][r[2]]
  OBVIOUS
<1>2. r[2] \in DOMAIN script[r[1]] /\ Types
  BY DEF TakeFrame, IInv
<1>3. \/ TakeGarbage(r, f) \/ TakeFirst(r, f) \/ TakeRefused(r, f)
      \/ TakeDiagnostics(r, f) \/ TakeDuplicate(r, f)
      \/ TakeQuery(r, f) \/ TakeOperation(r, f) \/ TakeSynthesis(r, f) \/ TakeCancel(r, f)
  BY <1>1 DEF TakeFrame
<1>4. CASE \/ TakeGarbage(r, f) \/ TakeFirst(r, f) \/ TakeRefused(r, f)
           \/ TakeDiagnostics(r, f) \/ TakeDuplicate(r, f)
  BY <1>1, <1>2, <1>4, AnsweredFrames
<1>5. CASE TakeQuery(r, f)
  BY <1>1, <1>2, <1>5, QueryStep
<1>6. CASE TakeOperation(r, f)
  BY <1>1, <1>2, <1>6, OperationStep
<1>7. CASE TakeSynthesis(r, f)
  BY <1>1, <1>2, <1>7, SynthesisStep
<1>8. CASE TakeCancel(r, f)
  BY <1>1, <1>2, <1>8, CancelSays
<1> QED BY <1>3, <1>4, <1>5, <1>6, <1>7, <1>8

-----------------------------------------------------------------------------
(* What a call says after its frame.                                       *)

\* A call that goes on from an await of its own.
LEMMA GoesOn ==
  ASSUME CInv, Types, NEW r \in Calls, NEW k \in CallRecord, call' = [call EXCEPT ![r] = k],
         UNCHANGED <<connVars, broken, said, crashed>>, engine' \in Calls \cup {Idle, Down},
         call[r].pc \in {"serve", "operate", "run", "resolve", "stream"},
         k.pc \notin {"none", "done"}
  PROVE  /\ Acts(r) /\ asked' = asked /\ ready' = ready /\ call'[r] = k /\ Frame(r)' = Frame(r)
         /\ Linked(r[1]) => Tells(r) /\ Inited(asked[r[1]], Chain(r[1]))
<1>1. Shapes /\ r[1] \in Conns /\ Speaks(r[1])
  BY CallsArePairs DEF CInv
<1>2. UNCHANGED <<link, script, asked, ready>>
  BY DEF connVars
<1>3. call'[r] = k /\ call' \in [Calls -> CallRecord] /\ \A t \in Calls : t # r => call'[t] = call[t]
  BY DEF Types
<1>4. ready' \in [Conns -> BOOLEAN] /\ crashed' \in BOOLEAN
  BY <1>1, <1>2 DEF Shapes
<1>5. Acts(r)
  BY <1>2, <1>3, <1>4 DEF Acts, Asks, Calm
<1>6. Linked(r[1]) => Tells(r) /\ Inited(asked[r[1]], Chain(r[1]))
  BY <1>1 DEF Speaks, Tells
<1> QED BY <1>2, <1>3, <1>5, <1>6 DEF Frame

\* What a service or an operation may answer.
LEMMA OutcomesAre ==
  ASSUME NEW r, NEW body \in Outcomes(r)
  PROVE  /\ body \in Bodies /\ body \notin Refusals \cup {"accepted", "rejected"}
         /\ body = "request_cancelled" => call[r].aborted
<1>1. CASE body = "ok"
  BY <1>1 DEF Bodies, Results, Refusals, Faults
<1>2. CASE \E cause \in Causes : body = OperationError(Frame(r).method, cause, call[r].aborted)
  <2>1. PICK cause \in Causes : body = OperationError(Frame(r).method, cause, call[r].aborted)
    BY <1>2
  <2>2. /\ body \in {"request_cancelled", "resource_busy", "voice_extraction_failed",
                     "integrity_check_failed", "invalid_state"}
        /\ body = "request_cancelled" => call[r].aborted
    BY <2>1 DEF OperationError
  <2> QED BY <2>2 DEF Bodies, Errors, Refusals, Faults
<1> QED BY <1>1, <1>2 DEF Outcomes

\* A service has answered.
LEMMA AnswerQuerySays ==
  ASSUME CInv, Types, NEW r \in Calls, AnswerQuery(r)
  PROVE  CInv'
<1>1. PICK body : /\ body \in (IF Frame(r).method = "daemon.status" THEN {"ok"} ELSE Outcomes(r))
                  /\ Reply(r, body, "reply")
  BY DEF AnswerQuery
<1>2. /\ body \in Bodies /\ body \notin Refusals \cup {"accepted", "rejected"}
      /\ body = "request_cancelled" => call[r].aborted
  <2>1. body = "ok" \/ body \in Outcomes(r)
    BY <1>1
  <2>2. "ok" \in Outcomes(r)
    BY DEF Outcomes
  <2> QED BY <2>1, <2>2, OutcomesAre
<1>3. /\ call[r].pc = "serve" /\ UNCHANGED <<connVars, broken, said, crashed>> /\ engine' = engine
      /\ Put(r, Response(r[2], body), TRUE)
      /\ call' = [call EXCEPT ![r] = [call[r] EXCEPT !.pc = "reply"]]
  BY <1>1 DEF AnswerQuery, Reply, Put
<1>4. PICK k \in CallRecord : k = [call[r] EXCEPT !.pc = "reply"]
  BY DEF Types, CallRecord, Pcs
<1>5. k.pc = "reply" /\ k.task = call[r].task /\ call' = [call EXCEPT ![r] = k]
  <2>1. call[r] \in CallRecord
    BY DEF Types
  <2> QED BY <1>3, <1>4, <2>1 DEF CallRecord
<1>6. engine' \in Calls \cup {Idle, Down}
  BY <1>3 DEF CInv, Shapes
<1>7. /\ Acts(r) /\ asked' = asked /\ ready' = ready /\ call'[r] = k
      /\ Linked(r[1]) => Tells(r) /\ Inited(asked[r[1]], Chain(r[1]))
  BY <1>3, <1>5, <1>6, GoesOn
<1>8. ASSUME Linked(r[1])
      PROVE  /\ ~Answered(Chain(r[1]), r[2])
             /\ MayAnswer(asked'[r[1]], Chain(r[1]), r[2], body)
             /\ k.task = "none"
  <2>1. /\ ~Answered(Chain(r[1]), r[2]) /\ ~call[r].aborted /\ call[r].task = "none"
        /\ Frame(r).method \in ServiceMethods \cup {"daemon.status"}
    BY <1>3, <1>7, <1>8 DEF Tells
  <2>2. asked[r[1]][r[2]].method \notin {"speech.cancel", "speech.synthesize"}
    BY <2>1 DEF Frame, ServiceMethods
  <2>3. MayAnswer(asked'[r[1]], Chain(r[1]), r[2], body)
    BY <1>2, <1>7, <1>8, <2>1, <2>2 DEF MayAnswer
  <2> QED BY <1>5, <2>1, <2>3
<1> QED BY <1>2, <1>3, <1>5, <1>7, <1>8, RespondStep

\* An operation has ended.
LEMMA AnswerOperationSays ==
  ASSUME CInv, Types, NEW r \in Calls, AnswerOperation(r)
  PROVE  CInv'
<1>1. PICK body \in Outcomes(r) : Reply(r, body, "answer")
  BY DEF AnswerOperation
<1>2. body \in Bodies /\ body \notin Refusals \cup {"accepted", "rejected"}
  BY OutcomesAre
<1>3. /\ call[r].pc = "operate" /\ UNCHANGED <<connVars, broken, said, crashed>> /\ engine' = engine
      /\ Put(r, Response(r[2], body), TRUE)
      /\ call' = [call EXCEPT ![r] = [call[r] EXCEPT !.pc = "answer"]]
  BY <1>1 DEF AnswerOperation, Reply, Put
<1>4. PICK k \in CallRecord : k = [call[r] EXCEPT !.pc = "answer"]
  BY DEF Types, CallRecord, Pcs
<1>5. k.pc = "answer" /\ k.task = call[r].task /\ call' = [call EXCEPT ![r] = k]
  <2>1. call[r] \in CallRecord
    BY DEF Types
  <2> QED BY <1>3, <1>4, <2>1 DEF CallRecord
<1>6. engine' \in Calls \cup {Idle, Down}
  BY <1>3 DEF CInv, Shapes
<1>7. /\ Acts(r) /\ asked' = asked /\ ready' = ready /\ call'[r] = k
      /\ Linked(r[1]) => Tells(r) /\ Inited(asked[r[1]], Chain(r[1]))
  BY <1>3, <1>5, <1>6, GoesOn
<1>8. ASSUME Linked(r[1])
      PROVE  /\ ~Answered(Chain(r[1]), r[2]) /\ k.task = "active"
             /\ MayAnswer(asked'[r[1]], Chain(r[1]), r[2], body)
             /\ asked[r[1]][r[2]].method # "speech.synthesize"
  <2>1. /\ ~Answered(Chain(r[1]), r[2]) /\ call[r].task = "active"
        /\ Frame(r).method \in OperationMethods
    BY <1>3, <1>7, <1>8 DEF Tells
  <2>2. /\ asked[r[1]][r[2]].method \notin {"speech.cancel", "speech.synthesize"}
        /\ asked[r[1]][r[2]].method \in TaskMethods
    BY <2>1 DEF Frame, OperationMethods, TaskMethods
  <2>3. MayAnswer(asked'[r[1]], Chain(r[1]), r[2], body)
    BY <1>2, <1>7, <1>8, <2>2 DEF MayAnswer
  <2> QED BY <1>5, <2>1, <2>2, <2>3
<1> QED BY <1>2, <1>3, <1>5, <1>7, <1>8, RespondStep

\* A synthesis that settles answers.
LEMMA SettleSays ==
  ASSUME CInv, Types, NEW r \in Calls, NEW body \in Bodies, Settle(r, body),
         body \notin Refusals \cup {"accepted", "rejected"},
         call[r].pc \in {"run", "resolve", "stream"},
         UNCHANGED <<connVars, crashed>>, engine' \in Calls \cup {Idle, Down}
  PROVE  CInv'
<1>1. /\ Put(r, Response(r[2], body), TRUE) /\ UNCHANGED <<broken, said>>
      /\ call' = [call EXCEPT ![r] = [call[r] EXCEPT !.pc = "answer", !.lease = FALSE]]
  BY DEF Settle, Put
<1>2. PICK k \in CallRecord : k = [call[r] EXCEPT !.pc = "answer", !.lease = FALSE]
  BY DEF Types, CallRecord, Pcs
<1>3. k.pc = "answer" /\ k.task = call[r].task /\ call' = [call EXCEPT ![r] = k]
  <2>1. call[r] \in CallRecord
    BY DEF Types
  <2> QED BY <1>1, <1>2, <2>1 DEF CallRecord
<1>4. /\ Acts(r) /\ asked' = asked /\ ready' = ready /\ call'[r] = k
      /\ Linked(r[1]) => Tells(r) /\ Inited(asked[r[1]], Chain(r[1]))
  BY <1>1, <1>3, GoesOn
<1>5. ASSUME Linked(r[1])
      PROVE  /\ ~Answered(Chain(r[1]), r[2]) /\ k.task = "active"
             /\ MayAnswer(asked'[r[1]], Chain(r[1]), r[2], body)
             /\ About(Chain(r[1]), r[2], "started") # {}
  <2>1. /\ ~Answered(Chain(r[1]), r[2]) /\ call[r].task = "active"
        /\ asked[r[1]][r[2]].method = "speech.synthesize"
        /\ About(Chain(r[1]), r[2], "started") # {}
    BY <1>4, <1>5 DEF Tells, Frame
  <2>2. MayAnswer(asked'[r[1]], Chain(r[1]), r[2], body)
    BY <1>4, <1>5, <2>1 DEF MayAnswer, TaskMethods
  <2> QED BY <1>3, <2>1, <2>2
<1> QED BY <1>1, <1>3, <1>4, <1>5, RespondStep

\* What a synthesis answers, as an error.
LEMMA SynthesisErrorsAre ==
  ASSUME NEW code \in Errors, NEW aborted
  PROVE  /\ SynthesisError(code, aborted) \in Bodies
         /\ SynthesisError(code, aborted) \notin Refusals \cup {"accepted", "rejected"}
BY DEF SynthesisError, Bodies, Errors, Refusals, Faults

\* A synthesis that goes on without a word: the model is leased, or the voice
\* is resolved.
LEMMA QuietSynthesis ==
  ASSUME CInv, Types, NEW r \in Calls, NEW k \in CallRecord, call' = [call EXCEPT ![r] = k],
         k.task = call[r].task, k.chunks = call[r].chunks, k.pc \in {"resolve", "stream"},
         call[r].pc \in {"run", "resolve"},
         UNCHANGED <<connVars, writeVars, crashed>>, engine' \in Calls \cup {Idle, Down}
  PROVE  CInv'
<1>1. UNCHANGED <<queue, broken, said>>
  BY DEF writeVars
<1>2. /\ Acts(r) /\ asked' = asked /\ ready' = ready /\ call'[r] = k /\ Frame(r)' = Frame(r)
      /\ Linked(r[1]) => Tells(r) /\ Inited(asked[r[1]], Chain(r[1]))
  BY <1>1, GoesOn
<1>3. Chain(r[1])' = Chain(r[1])
  BY <1>1 DEF Chain
<1>4. Linked(r[1]) => Tells(r)'
  BY <1>2, <1>3 DEF Tells
<1> QED BY <1>1, <1>2, <1>4, SilentStep

\* A synthesis that takes its leases and resolves its voice.
LEMMA RunSays ==
  ASSUME CInv, Types, NEW r \in Calls, Run(r) \/ VoiceFails(r)
  PROVE  CInv'
<1>1. /\ call[r].pc \in {"run", "resolve"} /\ UNCHANGED <<connVars, crashed>> /\ engine' = engine
      /\ engine' \in Calls \cup {Idle, Down}
  BY DEF Run, VoiceFails, CInv, Shapes
<1>2. ASSUME NEW code \in Errors, Settle(r, SynthesisError(code, call[r].aborted)) PROVE CInv'
  BY <1>1, <1>2, SettleSays, SynthesisErrorsAre
<1>3. CASE /\ call[r].pc = "run" /\ UNCHANGED writeVars
           /\ call' = [call EXCEPT ![r].pc = "resolve", ![r].lease = TRUE]
  <2>1. PICK k \in CallRecord : k = [call[r] EXCEPT !.pc = "resolve", !.lease = TRUE]
    BY DEF Types, CallRecord, Pcs
  <2>2. k.pc = "resolve" /\ k.task = call[r].task /\ k.chunks = call[r].chunks
        /\ call' = [call EXCEPT ![r] = k]
    <3>1. call[r] \in CallRecord
      BY DEF Types
    <3> QED BY <1>3, <2>1, <3>1 DEF CallRecord
  <2> QED BY <1>1, <1>3, <2>2, QuietSynthesis
<1>4. {"invalid_state", "resource_busy", "synthesis_failed"} \subseteq Errors
  BY DEF Errors
<1> QED BY <1>2, <1>3, <1>4 DEF Run, VoiceFails

\* The synthesis is handed to the engine.
LEMMA StartSynthesisSays ==
  ASSUME CInv, Types, NEW r \in Calls, StartSynthesis(r)
  PROVE  CInv'
<1>1. PICK n \in Nat : n = IF call[r].aborted THEN 1 ELSE 0
  OBVIOUS
<1>2. /\ call[r].pc = "resolve" /\ UNCHANGED <<connVars, writeVars, crashed>>
      /\ call' = [call EXCEPT ![r] = [call[r] EXCEPT !.pc = "stream", !.cancels = n]]
      /\ engine' \in Calls \cup {Idle, Down}
  BY <1>1 DEF StartSynthesis, CInv, Shapes
<1>3. PICK k \in CallRecord : k = [call[r] EXCEPT !.pc = "stream", !.cancels = n]
  BY DEF Types, CallRecord, Pcs
<1>4. k.pc = "stream" /\ k.task = call[r].task /\ k.chunks = call[r].chunks
      /\ call' = [call EXCEPT ![r] = k]
  <2>1. call[r] \in CallRecord
    BY DEF Types
  <2> QED BY <1>2, <1>3, <2>1 DEF CallRecord
<1> QED BY <1>2, <1>4, QuietSynthesis

\* The engine is done with it, refuses it or is given up.
LEMMA EngineSays ==
  ASSUME CInv, Types, NEW r \in Calls, EngineAnswers(r) \/ EngineRefuses(r) \/ EngineTimesOut(r)
  PROVE  CInv'
<1>1. /\ call[r].pc = "stream" /\ UNCHANGED <<connVars, crashed>>
      /\ engine' \in Calls \cup {Idle, Down}
  BY DEF EngineAnswers, EngineRefuses, EngineTimesOut, CInv, Shapes
<1>2. ASSUME NEW code \in Errors, Settle(r, SynthesisError(code, call[r].aborted)) PROVE CInv'
  BY <1>1, <1>2, SettleSays, SynthesisErrorsAre
<1>3. CASE Settle(r, "ok")
  <2>1. "ok" \in Bodies /\ "ok" \notin Refusals \cup {"accepted", "rejected"}
    BY DEF Bodies, Results, Refusals, Faults
  <2> QED BY <1>1, <1>3, <2>1, SettleSays
<1>4. {"resource_busy", "synthesis_failed"} \subseteq Errors
  BY DEF Errors
<1>5. \/ Settle(r, "ok")
      \/ \E code \in {"resource_busy", "synthesis_failed"} :
           Settle(r, SynthesisError(code, call[r].aborted))
  BY DEF EngineAnswers, EngineRefuses, EngineTimesOut
<1> QED BY <1>2, <1>3, <1>4, <1>5

\* A report or a chunk is said while the call is where it was.
LEMMA CountSays ==
  ASSUME CInv, Types, NEW r \in Calls, NEW m \in Message, m.to = r[2], m.kind # "response",
         Put(r, m, FALSE), UNCHANGED <<connVars, engine, crashed>>,
         call[r].pc \in {"operate", "stream"},
         call' = [call EXCEPT ![r] = [call[r] EXCEPT !.chunks = call[r].chunks + 1]],
         Linked(r[1]) => MaySay(asked[r[1]], Chain(r[1]), m),
         call[r].pc = "stream" => m.kind = "audio"
  PROVE  CInv'
<1>1. Shapes /\ r[1] \in Conns /\ r[2] \in Nat /\ UNCHANGED <<broken, said>>
      /\ engine' \in Calls \cup {Idle, Down}
  BY CallsArePairs DEF CInv, Shapes, Put
<1>2. call[r] \in CallRecord /\ call[r].chunks \in Nat
  BY DEF Types, CallRecord
<1>3. PICK n \in Nat : n = call[r].chunks + 1
  BY <1>2
<1>4. PICK k \in CallRecord : /\ k.pc = call[r].pc /\ k.task = call[r].task
                              /\ k.chunks = call[r].chunks + 1
                              /\ call' = [call EXCEPT ![r] = k]
  <2>1. PICK k \in CallRecord : k = [call[r] EXCEPT !.chunks = n]
    BY <1>2 DEF CallRecord
  <2>2. k.pc = call[r].pc /\ k.task = call[r].task /\ k.chunks = n
    BY <1>2, <2>1 DEF CallRecord
  <2>3. call' = [call EXCEPT ![r] = k]
    BY <1>3, <2>1
  <2> QED BY <1>3, <2>2, <2>3
<1>5. /\ Acts(r) /\ asked' = asked /\ ready' = ready /\ call'[r] = k /\ Frame(r)' = Frame(r)
      /\ Linked(r[1]) => Tells(r) /\ Inited(asked[r[1]], Chain(r[1]))
  BY <1>1, <1>4, GoesOn
<1>6. Chain(r[1])' = Append(Chain(r[1]), m) /\ Chain(r[1]) \in Seq(Message)
  BY <1>1, ChainPut, ChainIs
<1>7. ASSUME Linked(r[1])
      PROVE  Inited(asked'[r[1]], Append(Chain(r[1]), m)) /\ Tells(r)'
  <2>1. PICK a, t : a = asked'[r[1]] /\ t = Chain(r[1])
    OBVIOUS
  <2>2. t \in Seq(Message) /\ Inited(a, t)
    BY <1>5, <1>6, <1>7, <2>1
  <2>3. Inited(a, Append(t, m))
    BY <2>2, InitedGrows
  <2>4. ~Answered(Append(t, m), r[2])
    BY <1>5, <1>7, <2>1, <2>2, AnsweredAppend DEF Tells
  <2>5. About(t, r[2], "started") \subseteq About(Append(t, m), r[2], "started")
    BY <2>2, AboutAppend
  <2>6. call[r].pc = "stream" =>
          Cardinality(About(Append(t, m), r[2], "audio")) = Cardinality(About(t, r[2], "audio")) + 1
    BY <2>2, AboutAppend
  <2>7. Tells(r)'
    BY <1>4, <1>5, <1>6, <1>7, <2>1, <2>4, <2>5, <2>6 DEF Tells
  <2> QED BY <2>1, <2>3, <2>7
<1> QED BY <1>5, <1>7, SpeakStep

\* An installation reports, a synthesis streams.
LEMMA ReportSays ==
  ASSUME CInv, Types, NEW r \in Calls, ReportProgress(r) \/ StreamChunk(r)
  PROVE  CInv'
<1>1. /\ Shapes /\ r[1] \in Conns /\ r[2] \in Nat /\ Speaks(r[1])
      /\ call[r].chunks \in Nat /\ UNCHANGED <<connVars, engine, crashed>>
      /\ call' = [call EXCEPT ![r] = [call[r] EXCEPT !.chunks = call[r].chunks + 1]]
  BY CallsArePairs DEF CInv, Types, CallRecord, ReportProgress, StreamChunk
<1>2. call[r].pc # "none" => r[2] \in DOMAIN asked[r[1]]
  <2>1. asked[r[1]] \in Seq(FrameType) /\ r[2] >= 1
    BY <1>1, CallsArePairs DEF Shapes
  <2> QED BY <1>1, <2>1 DEF Shapes
<1>3. Linked(r[1]) => Tells(r) /\ (ready[r[1]] => Inited(asked[r[1]], Chain(r[1])))
  BY <1>1 DEF Speaks
<1>4. CASE ReportProgress(r)
  <2>1. PICK m \in Message : m = Progress(r[2])
    BY <1>1 DEF Message, Progress
  <2>2. m.to = r[2] /\ m.kind = "progress"
    BY <2>1 DEF Progress
  <2>3. call[r].pc = "operate" /\ Put(r, m, FALSE)
    BY <1>4, <2>1 DEF ReportProgress
  <2>4. Linked(r[1]) => MaySay(asked[r[1]], Chain(r[1]), m)
    BY <1>2, <1>3, <2>1, <2>2, <2>3 DEF MaySay, Tells, Frame
  <2> QED BY <1>1, <2>2, <2>3, <2>4, CountSays
<1>5. CASE StreamChunk(r)
  <2>1. PICK m \in Message : m = Audio(r[2], call[r].chunks)
    BY <1>1 DEF Message, Audio
  <2>2. m.to = r[2] /\ m.kind = "audio"
    BY <2>1 DEF Audio
  <2>3. call[r].pc = "stream" /\ Put(r, m, FALSE)
    BY <1>5, <2>1 DEF StreamChunk
  <2>4. Linked(r[1]) => MaySay(asked[r[1]], Chain(r[1]), m)
    <3>1. Linked(r[1]) => /\ call[r].chunks = Cardinality(About(Chain(r[1]), r[2], "audio"))
                          /\ ~Answered(Chain(r[1]), r[2])
                          /\ About(Chain(r[1]), r[2], "started") # {}
      BY <1>3, <2>3 DEF Tells
    <3> QED BY <1>2, <2>1, <2>2, <2>3, <3>1 DEF MaySay
  <2> QED BY <1>1, <2>2, <2>3, <2>4, CountSays
<1> QED BY <1>4, <1>5

-----------------------------------------------------------------------------
(* What the sockets do.                                                    *)

\* Steps that take up no frame, and whose calls end or stay where they are.
LEMMA ShapesKept ==
  ASSUME Shapes, UNCHANGED <<script, asked, ready>>,
         broken' \in [Conns -> BOOLEAN], crashed' \in BOOLEAN,
         said' \in [Conns -> Seq(Message)], queue' \in [Conns -> Seq(Item)],
         engine' \in Calls \cup {Idle, Down},
         \A c \in Conns : \A k \in DOMAIN queue'[c] : queue'[c][k].message.to \in DOMAIN asked[c],
         \A r \in Calls :
           \/ call'[r] = call[r]
           \/ /\ call[r].pc # "none" /\ call'[r].pc # "none"
              /\ call'[r].pc = "done" => call'[r].task = "none" /\ ~call'[r].lease
  PROVE  Shapes'
<1>1. ASSUME NEW r \in Calls
      PROVE  /\ call'[r].pc = "none" <=> r[2] > Len(asked'[r[1]])
             /\ call'[r].pc = "none" => call'[r] = NoCall
             /\ call'[r].pc = "done" => call'[r].task = "none" /\ ~call'[r].lease
  BY DEF Shapes
<1>2. \A c \in Conns :
       /\ Len(asked'[c]) <= Len(script'[c])
       /\ \A i \in DOMAIN asked'[c] : asked'[c][i] = script'[c][i]
       /\ \A k \in DOMAIN queue'[c] : queue'[c][k].message.to \in DOMAIN asked'[c]
  BY DEF Shapes
<1>3. script' \in Scripts /\ ready' \in [Conns -> BOOLEAN] /\ asked' \in [Conns -> Seq(FrameType)]
  BY DEF Shapes
<1> QED BY <1>1, <1>2, <1>3 DEF Shapes

\* A socket that changes hands: where it can write afterwards it could before.
LEMMA LinkOnly ==
  ASSUME NEW c, Speaks(c), UNCHANGED <<asked, ready, queue, broken, said, call>>,
         Linked(c)' => Linked(c) /\ (link'[c] = "none" => link[c] = "none")
  PROVE  Speaks(c)'
<1> SUFFICES ASSUME Linked(c)' PROVE Speaks(c)'
  BY DEF Speaks
<1>1. Linked(c) /\ Chain(c)' = Chain(c)
  BY DEF Chain
<1>2. \A r \in Calls : r[1] = c => Tells(r)'
  <2> SUFFICES ASSUME NEW r \in Calls, r[1] = c PROVE Tells(r)'
    OBVIOUS
  <2>1. Tells(r)
    BY <1>1 DEF Speaks
  <2>2. Chain(r[1])' = Chain(r[1]) /\ Frame(r)' = Frame(r)
    BY <1>1 DEF Frame
  <2> QED BY <2>1, <2>2 DEF Tells
<1>3. \A k \in DOMAIN queue'[c] : queue'[c][k].await => Waiting(c, queue[c][k].message)'
  <2> SUFFICES ASSUME NEW k \in DOMAIN queue[c], queue[c][k].await
               PROVE  Waiting(c, queue[c][k].message)'
    OBVIOUS
  <2>1. PICK m : m = queue[c][k].message /\ m = queue'[c][k].message
    OBVIOUS
  <2>2. Waiting(c, m)
    BY <1>1, <2>1 DEF Speaks
  <2> QED BY <2>1, <2>2 DEF Waiting
<1> QED BY <1>1, <1>2, <1>3 DEF Speaks

\* Steps that leave the frames, the writes and the calls alone.
LEMMA BareStep ==
  ASSUME CInv, UNCHANGED <<script, asked, ready, writeVars, call>>, crashed' \in BOOLEAN,
         engine' \in Calls \cup {Idle, Down},
         \A c \in Conns : Linked(c)' => Linked(c) /\ (link'[c] = "none" => link[c] = "none")
  PROVE  CInv'
<1>1. UNCHANGED <<queue, broken, said>> /\ Shapes
  BY DEF writeVars, CInv
<1>2. Shapes'
  <2>1. /\ broken' \in [Conns -> BOOLEAN] /\ said' \in [Conns -> Seq(Message)]
        /\ queue' \in [Conns -> Seq(Item)]
        /\ \A c \in Conns : \A k \in DOMAIN queue'[c] : queue'[c][k].message.to \in DOMAIN asked[c]
    BY <1>1 DEF Shapes
  <2> QED BY <1>1, <2>1, ShapesKept
<1>3. ASSUME NEW c \in Conns PROVE Speaks(c)'
  BY <1>1, LinkOnly DEF CInv
<1> QED BY <1>2, <1>3 DEF CInv

\* Connections come and go, the engine fails, close() goes on.
LEMMA BareSteps ==
  ASSUME CInv, Types,
         \/ \E c \in Conns : Connect(c) \/ ClientLeaves(c) \/ WriteMeetsTheEnd(c)
         \/ EngineFails \/ Stopping \/ UNCHANGED vars
  PROVE  CInv'
<1>1. engine \in Calls \cup {Idle, Down} /\ crashed \in BOOLEAN /\ link \in [Conns -> Links]
  BY DEF CInv, Shapes, Types
<1>2. ASSUME NEW c \in Conns, Connect(c) \/ ClientLeaves(c) PROVE CInv'
  <2>1. /\ UNCHANGED <<script, asked, ready, writeVars, call, engine, crashed>>
        /\ \A d \in Conns : d # c => link'[d] = link[d]
        /\ link[c] # "none" => link'[c] = "left"
        /\ link'[c] # "none"
    BY <1>1, <1>2 DEF Connect, ClientLeaves
  <2>2. \A d \in Conns : Linked(d)' => Linked(d) /\ (link'[d] = "none" => link[d] = "none")
    BY <2>1 DEF Linked
  <2> QED BY <1>1, <2>1, <2>2, BareStep
<1>3. ASSUME NEW c \in Conns, WriteMeetsTheEnd(c) PROVE CInv'
  BY <1>1, <1>3, BareStep DEF WriteMeetsTheEnd, connVars, Linked
<1>4. CASE EngineFails
  BY <1>1, <1>4, BareStep DEF EngineFails, connVars, Linked
<1>5. CASE TasksSettled
  <2>1. \A d \in Conns : Linked(d)' => Linked(d) /\ (link'[d] = "none" => link[d] = "none")
    BY <1>5 DEF TasksSettled, Linked
  <2> QED BY <1>1, <1>5, <2>1, BareStep DEF TasksSettled
<1>6. CASE ServerClosed
  BY <1>1, <1>6, BareStep DEF ServerClosed, connVars, Linked
<1>7. CASE EngineClosed
  BY <1>1, <1>7, BareStep DEF EngineClosed, connVars, Linked
<1>8. CASE UNCHANGED vars
  BY <1>1, <1>8, BareStep DEF vars, connVars, Linked
<1> QED BY <1>2, <1>3, <1>4, <1>5, <1>6, <1>7, <1>8 DEF Stopping

\* A socket that leaves a connection, while the others go on.
LEMMA LeaveStep ==
  ASSUME CInv, Types, NEW c \in Conns, ~Linked(c)',
         \A d \in Conns : d # c => link'[d] = link[d] /\ queue'[d] = queue[d] /\ broken'[d] = broken[d],
         UNCHANGED <<asked, ready, said>>, Shapes',
         \A t \in Calls : t[1] # c => Calm(t)
  PROVE  CInv'
<1>1. ASSUME NEW d \in Conns, d # c PROVE Speaks(d)'
  <2>1. UNCHANGED <<link[d], broken[d], asked[d], ready[d], said[d], queue[d]>>
    BY <1>1
  <2>2. \A t \in Calls : t[1] = d => Calm(t)
    BY <1>1
  <2> QED BY <2>1, <2>2, CalmStep DEF CInv
<1>2. Speaks(c)'
  BY DEF Speaks
<1> QED BY <1>1, <1>2 DEF CInv

\* The daemon ends the socket after the answer of a call.
LEMMA EndSocketSays ==
  ASSUME CInv, Types, NEW r \in Calls, EndSocket(r)
  PROVE  CInv'
<1>1. /\ Shapes /\ r[1] \in Conns /\ link \in [Conns -> Links]
      /\ call[r].pc = "end" /\ call' = [call EXCEPT ![r] = Over(call[r])]
      /\ UNCHANGED <<script, asked, ready, queue, broken, said, engine, crashed>>
  BY CallsArePairs DEF CInv, Types, EndSocket, writeVars
<1>2. PICK l \in {"destroyed", "ended"} :
        link' = [link EXCEPT ![r[1]] = IF link[r[1]] # "open" THEN link[r[1]] ELSE l]
  <2>1. PICK l \in {"destroyed", "ended"} :
          l = IF Frame(r).fault = "too_long" THEN "destroyed" ELSE "ended"
    OBVIOUS
  <2> QED BY <2>1 DEF EndSocket
<1>3. link[r[1]] # "none"
  <2> SUFFICES ASSUME link[r[1]] = "none" PROVE FALSE
    OBVIOUS
  <2>1. asked[r[1]] = <<>>
    BY <1>1 DEF CInv, Speaks, Linked
  <2>2. r[2] > Len(asked[r[1]])
    BY <2>1, CallsArePairs
  <2> QED BY <1>1, <2>2 DEF Shapes
<1>4. ~Linked(r[1])' /\ \A d \in Conns : d # r[1] => link'[d] = link[d]
  BY <1>1, <1>2, <1>3 DEF Linked
<1>5. PICK k \in CallRecord : k = Over(call[r])
  BY OverIsQuiet DEF Types, Over, CallRecord, Pcs, Tasks
<1>6. k.pc = "done" /\ k.task = "none" /\ ~k.lease
  <2>1. call[r] \in CallRecord
    BY DEF Types
  <2> QED BY <1>5, <2>1 DEF Over, CallRecord
<1>7. call'[r] = k /\ \A t \in Calls : t # r => call'[t] = call[t]
  BY <1>1, <1>5 DEF Types
<1>8. Shapes'
  <2>1. /\ script \in Scripts /\ broken' \in [Conns -> BOOLEAN] /\ crashed' \in BOOLEAN
        /\ said' \in [Conns -> Seq(Message)] /\ queue' \in [Conns -> Seq(Item)]
        /\ engine' \in Calls \cup {Idle, Down}
        /\ \A c \in Conns : \A n \in DOMAIN queue'[c] : queue'[c][n].message.to \in DOMAIN asked[c]
    BY <1>1 DEF Shapes
  <2>2. \A t \in Calls :
           \/ call'[t] = call[t]
           \/ /\ call[t].pc # "none" /\ call'[t].pc # "none"
              /\ call'[t].pc = "done" => call'[t].task = "none" /\ ~call'[t].lease
    BY <1>1, <1>6, <1>7
  <2> QED BY <1>1, <2>1, <2>2, ShapesKept
<1>9. \A t \in Calls : t[1] # r[1] => Calm(t)
  BY <1>7 DEF Calm
<1> QED BY <1>1, <1>4, <1>8, <1>9, LeaveStep

\* abort() on active calls, whose tasks may then be dropped, leaves the shapes.
LEMMA AbortShapes ==
  ASSUME Shapes, Types, NEW calls, \A t \in calls : t \in Calls /\ call[t].task = "active",
         \A t \in Calls \ calls : call'[t] = call[t],
         \A t \in calls : call'[t].pc = call[t].pc,
         UNCHANGED <<script, asked, ready, queue, broken, said, engine, crashed>>
  PROVE  Shapes'
<1>1. /\ broken' \in [Conns -> BOOLEAN] /\ crashed' \in BOOLEAN
      /\ said' \in [Conns -> Seq(Message)] /\ queue' \in [Conns -> Seq(Item)]
      /\ engine' \in Calls \cup {Idle, Down}
      /\ \A c \in Conns : \A n \in DOMAIN queue'[c] : queue'[c][n].message.to \in DOMAIN asked[c]
  BY DEF Shapes
<1>2. ASSUME NEW t \in calls PROVE call[t].pc \notin {"none", "done"}
  <2>1. t \in Calls /\ call[t].task = "active"
    OBVIOUS
  <2>2. call[t].pc = "none" => call[t] = NoCall
    BY <2>1 DEF Shapes
  <2>3. call[t].pc = "done" => call[t].task = "none"
    BY <2>1 DEF Shapes
  <2> QED BY <2>1, <2>2, <2>3 DEF NoCall
<1>3. \A t \in Calls :
        \/ call'[t] = call[t]
        \/ /\ call[t].pc # "none" /\ call'[t].pc # "none"
           /\ call'[t].pc = "done" => call'[t].task = "none" /\ ~call'[t].lease
  BY <1>2
<1> QED BY <1>1, <1>3, ShapesKept

\* A socket's "close" event.
LEMMA SocketClosesSays ==
  ASSUME CInv, Types, NEW c \in Conns, SocketCloses(c)
  PROVE  CInv'
<1>1. /\ Shapes /\ call' = Drop(c, Abort(Active(c))) /\ link' = [link EXCEPT ![c] = "gone"]
      /\ link \in [Conns -> Links]
      /\ UNCHANGED <<script, asked, ready, queue, broken, said, engine, crashed>>
  BY DEF CInv, Types, SocketCloses, writeVars
<1>2. \A t \in Active(c) : t \in Calls /\ t[1] = c /\ call[t].task = "active"
  BY DEF Active
<1>3. \A t \in Calls :
        \/ Abort(Active(c))[t] = call[t]
        \/ /\ call[t].task = "active"
           /\ Abort(Active(c))[t].pc = call[t].pc /\ Abort(Active(c))[t].task = call[t].task
           /\ Abort(Active(c))[t].chunks = call[t].chunks
           /\ Abort(Active(c))[t].lease = call[t].lease
  BY <1>2, AbortIsCalm
<1>4. ASSUME NEW t \in Calls \ Active(c) PROVE call'[t] = call[t]
  <2>1. Abort(Active(c))[t] = call[t]
    BY <1>4 DEF Abort
  <2>2. ~(t[1] = c /\ call[t].task = "active")
    BY <1>4 DEF Active
  <2> QED BY <1>1, <2>1, <2>2 DEF Drop
<1>5. ASSUME NEW t \in Active(c) PROVE call'[t].pc = call[t].pc
  <2>1. PICK k : k = Abort(Active(c))[t] /\ k \in CallRecord
    <3>1. call[t] \in CallRecord
      BY <1>2 DEF Types
    <3>2. Abort(Active(c))[t] \in CallRecord
      <4>1. PICK n \in Nat : n = IF call[t].pc = "stream" THEN call[t].cancels + 1 ELSE call[t].cancels
        BY <3>1 DEF CallRecord
      <4>2. [call[t] EXCEPT !.aborted = TRUE, !.cancels = n] \in CallRecord
        BY <3>1 DEF CallRecord
      <4>3. t \in Calls
        BY <1>2
      <4>4. CASE ~call[t].aborted
        <5>1. Abort(Active(c))[t] = [call[t] EXCEPT !.aborted = TRUE, !.cancels = n]
          BY <4>1, <4>3, <4>4 DEF Abort
        <5> QED BY <4>2, <5>1
      <4>5. CASE call[t].aborted
        BY <3>1, <4>3, <4>5 DEF Abort
      <4> QED BY <4>4, <4>5
    <3> QED BY <3>2
  <2>2. k.pc = call[t].pc
    BY <1>2, <1>3, <2>1
  <2>3. call'[t] = k \/ call'[t] = [k EXCEPT !.task = "dropped"]
    BY <1>1, <1>2, <2>1 DEF Drop
  <2> QED BY <2>1, <2>2, <2>3 DEF CallRecord
<1>6. Shapes'
  BY <1>1, <1>2, <1>4, <1>5, AbortShapes
<1>7. \A t \in Calls : t[1] # c => Calm(t)
  BY <1>2, <1>4 DEF Calm
<1>8. ~Linked(c)' /\ \A d \in Conns : d # c => link'[d] = link[d]
  BY <1>1 DEF Linked
<1> QED BY <1>1, <1>6, <1>7, <1>8, LeaveStep

\* close() tells the tasks, and the connections hear nothing of it.
LEMMA CloseSays ==
  ASSUME CInv, Types, Close
  PROVE  CInv'
<1> DEFINE calls == UNION {Active(c) : c \in Conns}
<1>1. /\ Shapes /\ call' = Abort(calls)
      /\ UNCHANGED <<link, script, asked, ready, queue, broken, said, engine, crashed>>
  BY DEF CInv, Close, connVars, writeVars
<1>2. \A t \in calls : t \in Calls /\ call[t].task = "active"
  BY DEF Active
<1> HIDE DEF calls
<1>3. \A t \in Calls : Calm(t)
  BY <1>1, <1>2, AbortIsCalm DEF Calm
<1>4. Shapes'
  <2>1. \A t \in Calls \ calls : call'[t] = call[t]
    BY <1>1 DEF Abort
  <2>2. \A t \in calls : call'[t].pc = call[t].pc
    BY <1>2, <1>3 DEF Calm
  <2> QED BY <1>1, <1>2, <2>1, <2>2, AbortShapes
<1>5. ASSUME NEW c \in Conns PROVE Speaks(c)'
  BY <1>1, <1>3, CalmStep DEF CInv
<1> QED BY <1>4, <1>5 DEF CInv

\* Writes fail only where the socket can no longer write.
LEMMA FailWritesSays ==
  ASSUME CInv, Types, NEW c \in Conns, FailWrites(c)
  PROVE  CInv'
<1>1. /\ Shapes /\ Speaks(c) /\ queue' = [queue EXCEPT ![c] = <<>>]
      /\ broken' = [broken EXCEPT ![c] = TRUE] /\ crashed' \in BOOLEAN
      /\ broken[c] \/ link[c] \in {"destroyed", "gone"}
      /\ call' = [r \in Calls |-> IF r \in Awaiting(c) THEN Over(call[r]) ELSE call[r]]
      /\ UNCHANGED <<link, script, asked, ready, said, engine>>
  BY DEF CInv, FailWrites, connVars
<1>2. ~Linked(c)'
  BY <1>1 DEF Speaks, Linked
<1>3. \A d \in Conns : d # c => queue'[d] = queue[d] /\ broken'[d] = broken[d]
  BY <1>1 DEF Shapes
<1>4. ASSUME NEW t \in Awaiting(c) PROVE t[1] = c /\ t[2] \in DOMAIN asked[c]
  BY <1>1, <1>4 DEF Awaiting, Shapes
<1>5. ASSUME NEW t \in Calls, t \in Awaiting(c)
      PROVE  /\ call[t].pc # "none"
             /\ call'[t].pc = "done" /\ call'[t].task = "none" /\ ~call'[t].lease
  <2>1. t[1] = c /\ t[2] \in DOMAIN asked[c] /\ asked[c] \in Seq(FrameType)
    BY <1>1, <1>4, <1>5 DEF Shapes
  <2>2. ~(t[2] > Len(asked[c]))
    BY <2>1
  <2>3. call[t] \in CallRecord /\ call'[t] = Over(call[t])
    BY <1>1, <1>5 DEF Types
  <2>4. call[t].pc # "none"
    BY <1>1, <2>1, <2>2 DEF Shapes
  <2> QED BY <2>3, <2>4 DEF Over, CallRecord
<1>6. \A t \in Calls : t \notin Awaiting(c) => call'[t] = call[t]
  BY <1>1
<1>7. Shapes'
  <2>1. /\ broken' \in [Conns -> BOOLEAN] /\ said' \in [Conns -> Seq(Message)]
        /\ engine' \in Calls \cup {Idle, Down}
    BY <1>1 DEF Shapes
  <2>2. queue' \in [Conns -> Seq(Item)]
    <3>1. <<>> \in Seq(Item) /\ queue \in [Conns -> Seq(Item)]
      BY <1>1 DEF Shapes
    <3> QED BY <1>1, <3>1
  <2>3. \A d \in Conns : \A n \in DOMAIN queue'[d] : queue'[d][n].message.to \in DOMAIN asked[d]
    <3> SUFFICES ASSUME NEW d \in Conns, NEW n \in DOMAIN queue'[d]
                 PROVE  queue'[d][n].message.to \in DOMAIN asked[d]
      OBVIOUS
    <3>1. d # c
      BY <1>1 DEF Shapes
    <3> QED BY <1>1, <1>3, <3>1 DEF Shapes
  <2>4. \A t \in Calls :
          \/ call'[t] = call[t]
          \/ /\ call[t].pc # "none" /\ call'[t].pc # "none"
             /\ call'[t].pc = "done" => call'[t].task = "none" /\ ~call'[t].lease
    BY <1>5, <1>6
  <2> QED BY <1>1, <2>1, <2>2, <2>3, <2>4, ShapesKept
<1>8. \A t \in Calls : t[1] # c => Calm(t)
  BY <1>4, <1>6 DEF Calm
<1> QED BY <1>1, <1>2, <1>3, <1>7, <1>8, LeaveStep

\* What is awaited about a call is awaited once.
LEMMA AwaitedOnce ==
  ASSUME Shapes, NEW c \in Conns, Linked(c), Speaks(c),
         NEW j \in DOMAIN queue[c], NEW k \in DOMAIN queue[c], j < k,
         queue[c][j].await, queue[c][k].await
  PROVE  queue[c][j].message.to # queue[c][k].message.to
<1> SUFFICES ASSUME queue[c][j].message.to = queue[c][k].message.to PROVE FALSE
  OBVIOUS
<1>1. PICK t, a : t \in Seq(Message) /\ t = Chain(c) /\ a = asked[c]
  BY ChainIs
<1>2. PICK n, l, i : n = Len(said[c]) + j /\ l = Len(said[c]) + k /\ i = queue[c][k].message.to
  OBVIOUS
<1>3. n \in DOMAIN t /\ t[n] = queue[c][j].message /\ l \in DOMAIN t /\ t[l] = queue[c][k].message
  BY <1>1, <1>2, AwaitedCalls
<1>4. n < l
  <2>1. Len(said[c]) \in Nat /\ j \in Nat /\ k \in Nat
    <3>1. said[c] \in Seq(Message) /\ queue[c] \in Seq(Item)
      BY DEF Shapes
    <3> QED BY <3>1
  <2> QED BY <1>2, <2>1
<1>5. PICK p : p = First(t, l - 1)
  OBVIOUS
<1>6. n \in DOMAIN p /\ p[n] = t[n]
  <2>1. n \in Nat /\ l \in Nat /\ n >= 1
    BY <1>1, <1>3
  <2>2. n \in 1 .. (l - 1)
    BY <1>4, <2>1
  <2> QED BY <1>5, <2>2 DEF First
<1>7. MaySay(a, p, t[l])
  BY <1>1, <1>3, <1>5 DEF Speaks, Proper
<1>8. t[l].to = i /\ t[n].to = i /\ Waiting(c, t[n]) /\ Waiting(c, t[l])
  BY <1>2, <1>3 DEF Speaks
<1>9. ~Answered(p, i)
  BY <1>7, <1>8 DEF MaySay
<1>10. t[n].kind # "response"
  BY <1>6, <1>8, <1>9 DEF Answered, About
<1>11. t[n].kind = "started" /\ t[l].kind = "started"
  BY <1>8, <1>10 DEF Waiting
<1>12. About(p, i, "started") # {}
  BY <1>6, <1>8, <1>11 DEF About
<1>13. PICK m : m = t[l]
  OBVIOUS
<1>14. m # Response(m.to, m.body) /\ m # Audio(m.to, Cardinality(About(p, m.to, "audio")))
       /\ m # Progress(m.to)
  BY <1>11, <1>13 DEF Response, Audio, Progress
<1>15. MayStart(a, p, i)
  BY <1>7, <1>8, <1>13, <1>14 DEF MaySay
<1> QED BY <1>12, <1>15 DEF MayStart

\* Where a call goes when its awaited write is done.
LEMMA WrittenGoes ==
  ASSUME NEW k \in CallRecord, k.pc \in {"begin", "reply", "last", "answer"}
  PROVE  /\ Written(k) \in CallRecord
         /\ k.pc = "begin" => /\ Written(k).pc = "run" /\ Written(k).task = k.task
                              /\ Written(k).chunks = k.chunks
         /\ k.pc = "last" => Written(k).pc = "end" /\ Written(k).task = k.task
         /\ k.pc \in {"reply", "answer"} => /\ Written(k).pc = "done" /\ Written(k).task = "none"
                                            /\ ~Written(k).lease
BY DEF Written, Over, CallRecord, Pcs, Tasks

\* The socket takes a message: the chain is what it was, and the call that
\* awaited the write goes on.
LEMMA FlushSays ==
  ASSUME CInv, Types, NEW c \in Conns, Flush(c)
  PROVE  CInv'
<1>1. /\ Shapes /\ Speaks(c) /\ Linked(c) /\ queue[c] # <<>>
      /\ said' = [said EXCEPT ![c] = Append(said[c], Head(queue[c]).message)]
      /\ queue' = [queue EXCEPT ![c] = Tail(queue[c])]
      /\ UNCHANGED <<link, script, asked, ready, broken, engine, crashed>>
  BY DEF CInv, Flush, connVars, Linked
<1>2. PICK q \in Seq(Item), s \in Seq(Message) : q = queue[c] /\ s = said[c]
  BY <1>1 DEF Shapes
<1>3. PICK item \in Item : item = Head(q) /\ item = q[1]
  BY <1>1, <1>2
<1>4. PICK m \in Message : m = item.message
  BY DEF Item
<1>5. /\ q # <<>> /\ 1 \in DOMAIN q /\ Tail(q) \in Seq(Item) /\ Append(s, m) \in Seq(Message)
      /\ \A k \in DOMAIN Tail(q) : k + 1 \in DOMAIN q /\ 1 < k + 1 /\ Tail(q)[k] = q[k + 1]
  BY <1>1, <1>2
<1>6. /\ said'[c] = Append(s, m) /\ said' \in [Conns -> Seq(Message)]
      /\ queue'[c] = Tail(q) /\ queue' \in [Conns -> Seq(Item)]
      /\ \A d \in Conns : d # c => said'[d] = said[d] /\ queue'[d] = queue[d]
  <2>1. said \in [Conns -> Seq(Message)] /\ queue \in [Conns -> Seq(Item)]
    BY <1>1 DEF Shapes
  <2> QED BY <1>1, <1>2, <1>3, <1>4, <1>5, <2>1
<1>7. Chain(c)' = Chain(c)
  <2>1. Joined(Append(s, m), Tail(q)) = Joined(s, q)
    BY <1>3, <1>4, <1>5, JoinedFlush
  <2> QED BY <1>2, <1>6, <2>1 DEF Chain
<1>8. PICK r : r = <<c, m.to>>
  OBVIOUS
<1>9. r \in Calls /\ r[1] = c /\ r[2] = m.to
  BY <1>1, <1>2, <1>3, <1>4, <1>5, <1>8, AwaitedCalls
<1>10. item.await => Waiting(c, m)
  BY <1>1, <1>2, <1>3, <1>4, <1>5 DEF Speaks
<1>11. call[r] \in CallRecord /\ call \in [Calls -> CallRecord]
  BY <1>9 DEF Types
<1>12. /\ \A t \in Calls : t # r => call'[t] = call[t]
       /\ item.await => call'[r] = Written(call[r])
       /\ ~item.await => call' = call
  <2>1. call' = IF item.await THEN [call EXCEPT ![r] = Written(call[r])] ELSE call
    BY <1>2, <1>3, <1>4, <1>8 DEF Flush
  <2> HIDE DEF Written
  <2> QED BY <1>9, <1>11, <2>1
<1>13. item.await => call[r].pc \in {"begin", "reply", "last", "answer"}
  BY <1>8, <1>10 DEF Waiting
<1>14. \/ call'[r] = call[r]
       \/ /\ call[r].pc \in {"begin", "reply", "last", "answer"} /\ item.await
          /\ call[r].pc = "begin" => /\ call'[r].pc = "run" /\ call'[r].task = call[r].task
                                     /\ call'[r].chunks = call[r].chunks
          /\ call[r].pc = "last" => call'[r].pc = "end" /\ call'[r].task = call[r].task
          /\ call[r].pc \in {"reply", "answer"} => /\ call'[r].pc = "done" /\ call'[r].task = "none"
                                                   /\ ~call'[r].lease
  BY <1>11, <1>12, <1>13, WrittenGoes
<1>15. Shapes'
  <2>1. broken' \in [Conns -> BOOLEAN] /\ crashed' \in BOOLEAN /\ engine' \in Calls \cup {Idle, Down}
    BY <1>1 DEF Shapes
  <2>2. \A d \in Conns : \A k \in DOMAIN queue'[d] : queue'[d][k].message.to \in DOMAIN asked[d]
    <3>1. \A d \in Conns : \A k \in DOMAIN queue[d] : queue[d][k].message.to \in DOMAIN asked[d]
      BY <1>1 DEF Shapes
    <3>2. \A k \in DOMAIN Tail(q) : Tail(q)[k].message.to \in DOMAIN asked[c]
      BY <1>2, <1>5, <3>1
    <3> QED BY <1>6, <3>1, <3>2
  <2>3. \A t \in Calls :
          \/ call'[t] = call[t]
          \/ /\ call[t].pc # "none" /\ call'[t].pc # "none"
             /\ call'[t].pc = "done" => call'[t].task = "none" /\ ~call'[t].lease
    BY <1>12, <1>14
  <2> QED BY <1>1, <1>6, <2>1, <2>2, <2>3, ShapesKept
<1>16. ASSUME NEW d \in Conns, d # c PROVE Speaks(d)'
  <2>1. UNCHANGED <<link[d], broken[d], asked[d], ready[d], said[d], queue[d]>>
    BY <1>1, <1>6, <1>16
  <2>2. \A t \in Calls : t[1] = d => Calm(t)
    BY <1>9, <1>12, <1>16 DEF Calm
  <2> QED BY <1>1, <2>1, <2>2, CalmStep DEF CInv
<1>17. \A t \in Calls : t[1] = c => Tells(t)'
  <2> SUFFICES ASSUME NEW t \in Calls, t[1] = c PROVE Tells(t)'
    OBVIOUS
  <2>1. Tells(t)
    BY <1>1 DEF Speaks
  <2>2. Chain(t[1])' = Chain(t[1]) /\ Frame(t)' = Frame(t) /\ ready'[t[1]] = ready[t[1]]
    BY <1>1, <1>7 DEF Frame
  <2>3. CASE call'[t] = call[t]
    BY <2>1, <2>2, <2>3 DEF Tells
  <2>4. CASE call'[t] # call[t]
    <3>1. t = r
      BY <1>12, <2>4
    <3>2. CASE call[t].pc = "begin"
      <4>1. call'[t].pc = "run" /\ call'[t].task = call[t].task /\ call'[t].chunks = call[t].chunks
        BY <1>14, <2>4, <3>1, <3>2
      <4> QED BY <2>1, <2>2, <3>2, <4>1 DEF Tells
    <3>3. CASE call[t].pc = "last"
      <4>1. call'[t].pc = "end" /\ call'[t].task = call[t].task
        BY <1>14, <2>4, <3>1, <3>3
      <4> QED BY <2>1, <2>2, <3>3, <4>1 DEF Tells
    <3>4. CASE call[t].pc \in {"reply", "answer"}
      <4>1. call'[t].pc = "done" /\ call'[t].task = "none"
        BY <1>14, <2>4, <3>1, <3>4
      <4> QED BY <2>1, <2>2, <3>4, <4>1 DEF Tells
    <3> QED BY <1>14, <2>4, <3>1, <3>2, <3>3, <3>4
  <2> QED BY <2>3, <2>4
<1>18. ASSUME NEW k \in DOMAIN queue'[c], queue'[c][k].await
       PROVE  Waiting(c, queue[c][k].message)'
  <2>1. PICK n : n = queue'[c][k].message
    OBVIOUS
  <2>2. k + 1 \in DOMAIN queue[c] /\ 1 < k + 1 /\ queue[c][k + 1].await /\ n = queue[c][k + 1].message
    BY <1>2, <1>5, <1>6, <1>18, <2>1
  <2>3. Waiting(c, n) /\ <<c, n.to>> \in Calls
    BY <1>1, <2>2, AwaitedCalls DEF Speaks
  <2>4. item.await => n.to # m.to
    BY <1>1, <1>2, <1>3, <1>4, <1>5, <2>2, AwaitedOnce
  <2>5. call'[<<c, n.to>>] = call[<<c, n.to>>]
    <3>1. CASE item.await
      <4>1. <<c, n.to>> # r
        BY <1>9, <2>4, <3>1
      <4> QED BY <1>12, <2>3, <4>1
    <3>2. CASE ~item.await
      BY <1>12, <3>2
    <3> QED BY <3>1, <3>2
  <2>6. Waiting(c, n)'
    BY <2>3, <2>5 DEF Waiting
  <2> QED BY <2>1, <2>6 DEF Waiting
<1>19. Speaks(c)'
  <2>1. /\ ~broken'[c] /\ (link'[c] = "none" => asked'[c] = <<>>)
        /\ Proper(asked'[c], Chain(c)') /\ (ready'[c] => Inited(asked'[c], Chain(c)'))
    BY <1>1, <1>7 DEF Speaks
  <2> QED BY <1>17, <1>18, <2>1 DEF Speaks
<1> QED BY <1>15, <1>16, <1>19 DEF CInv

-----------------------------------------------------------------------------
(* Every behavior of the daemon.                                           *)

\* Nothing is said before the first frame.
LEMMA InitSpeaks == Init => CInv
<1> SUFFICES ASSUME Init PROVE CInv
  OBVIOUS
<1>1. \A c \in Conns : /\ asked[c] = <<>> /\ said[c] = <<>> /\ queue[c] = <<>>
                       /\ ~ready[c] /\ ~broken[c] /\ link[c] = "none"
  BY DEF Init
<1>2. \A r \in Calls : call[r] = NoCall
  BY DEF Init
<1>3. Shapes
  <2>1. \A r \in Calls : r[2] > Len(asked[r[1]])
    <3> SUFFICES ASSUME NEW r \in Calls PROVE r[2] > Len(asked[r[1]])
      OBVIOUS
    <3>1. r[1] \in Conns /\ r[2] \in Nat /\ r[2] >= 1
      BY CallsArePairs
    <3>2. asked[r[1]] = <<>> /\ Len(<<>>) = 0
      BY <1>1, <3>1
    <3> QED BY <3>1, <3>2
  <2>2. \A c \in Conns :
          /\ Len(asked[c]) <= Len(script[c])
          /\ \A i \in DOMAIN asked[c] : asked[c][i] = script[c][i]
          /\ \A k \in DOMAIN queue[c] : queue[c][k].message.to \in DOMAIN asked[c]
    <3> SUFFICES ASSUME NEW c \in Conns
                 PROVE  /\ Len(asked[c]) <= Len(script[c])
                        /\ DOMAIN asked[c] = {} /\ DOMAIN queue[c] = {}
      OBVIOUS
    <3>1. script[c] \in Seq(FrameType)
      BY DaemonAssumption DEF Init, FrameType
    <3> QED BY <1>1, <3>1
  <2>3. /\ script \in Scripts
        /\ ready \in [Conns -> BOOLEAN] /\ broken \in [Conns -> BOOLEAN]
        /\ asked \in [Conns -> Seq(FrameType)] /\ said \in [Conns -> Seq(Message)]
        /\ queue \in [Conns -> Seq(Item)]
        /\ engine \in Calls \cup {Idle, Down} /\ crashed \in BOOLEAN
    <3>1. <<>> \in Seq(FrameType) /\ <<>> \in Seq(Message) /\ <<>> \in Seq(Item)
      OBVIOUS
    <3> QED BY <3>1 DEF Init
  <2> QED BY <1>2, <2>1, <2>2, <2>3 DEF Shapes, NoCall
<1>4. ASSUME NEW c \in Conns PROVE Speaks(c)
  <2>1. DOMAIN Chain(c) = {}
    <3>1. said[c] = <<>> /\ queue[c] = <<>> /\ Len(<<>>) = 0
      BY <1>1
    <3>2. DOMAIN Chain(c) = 1 .. (0 + 0)
      BY <3>1 DEF Chain, Joined
    <3> QED BY <3>2
  <2>2. Proper(asked[c], Chain(c))
    BY <2>1 DEF Proper
  <2>3. \A r \in Calls : r[1] = c => Tells(r)
    BY <1>2 DEF Tells, NoCall
  <2>4. DOMAIN queue[c] = {}
    BY <1>1
  <2> QED BY <1>1, <2>2, <2>3, <2>4 DEF Speaks
<1> QED BY <1>3, <1>4 DEF CInv

\* Every step keeps the connections' promise.
LEMMA StepSpeaks == IInv /\ CInv /\ [Next]_vars => CInv'
<1> SUFFICES ASSUME IInv, CInv, [Next]_vars PROVE CInv'
  OBVIOUS
<1>1. Types
  BY DEF IInv
<1>2. CASE UNCHANGED vars
  BY <1>1, <1>2, BareSteps
<1>3. CASE Step
  <2>1. ASSUME NEW c \in Conns, Connect(c) \/ ClientLeaves(c) \/ Serve(c) PROVE CInv'
    <3>1. CASE Connect(c) \/ ClientLeaves(c) \/ WriteMeetsTheEnd(c)
      BY <1>1, <3>1, BareSteps
    <3>2. CASE SocketCloses(c)
      BY <1>1, <3>2, SocketClosesSays
    <3>3. CASE Flush(c)
      BY <1>1, <3>3, FlushSays
    <3>4. CASE FailWrites(c)
      BY <1>1, <3>4, FailWritesSays
    <3> QED BY <2>1, <3>1, <3>2, <3>3, <3>4 DEF Serve
  <2>2. ASSUME NEW r \in Calls, TakeFrame(r) PROVE CInv'
    BY <2>2, FrameSays
  <2>3. ASSUME NEW r \in Calls, Advance(r) PROVE CInv'
    <3>1. CASE EndSocket(r)
      BY <1>1, <3>1, EndSocketSays
    <3>2. CASE AnswerQuery(r)
      BY <1>1, <3>2, AnswerQuerySays
    <3>3. CASE AnswerOperation(r)
      BY <1>1, <3>3, AnswerOperationSays
    <3>4. CASE Run(r) \/ VoiceFails(r)
      BY <1>1, <3>4, RunSays
    <3>5. CASE StartSynthesis(r)
      BY <1>1, <3>5, StartSynthesisSays
    <3>6. CASE EngineAnswers(r) \/ EngineRefuses(r)
      BY <1>1, <3>6, EngineSays
    <3> QED BY <2>3, <3>1, <3>2, <3>3, <3>4, <3>5, <3>6 DEF Advance
  <2>4. ASSUME NEW r \in Calls, ReportProgress(r) \/ StreamChunk(r) PROVE CInv'
    BY <1>1, <2>4, ReportSays
  <2>5. ASSUME NEW r \in Calls, EngineTimesOut(r) PROVE CInv'
    BY <1>1, <2>5, EngineSays
  <2>6. CASE EngineFails \/ Stopping
    BY <1>1, <2>6, BareSteps
  <2>7. CASE Close
    BY <1>1, <2>7, CloseSays
  <2> QED BY <1>3, <2>1, <2>2, <2>3, <2>4, <2>5, <2>6, <2>7 DEF Step
<1> QED BY <1>2, <1>3 DEF Next, Ended

\* The promise holds throughout.
LEMMA Promise == Spec => [](IInv /\ CInv)
BY InitHolds, InitSpeaks, StepHolds, StepSpeaks, PTL DEF Spec

\* The variables have their types, what was taken up is a prefix of the script,
\* and a call that has not begun or is over holds no task and no lease.
THEOREM TypeTheorem == Spec => []TypeOK
<1>1. IInv /\ CInv => TypeOK
  <2> SUFFICES ASSUME IInv, CInv PROVE TypeOK
    OBVIOUS
  <2>1. Shapes /\ Types
    BY DEF IInv, CInv
  <2>2. /\ script \in Scripts
        /\ link \in [Conns -> Links] /\ ready \in [Conns -> BOOLEAN]
        /\ broken \in [Conns -> BOOLEAN]
        /\ engine \in Calls \cup {Idle, Down}
        /\ stop \in {"no", "waiting", "sockets", "engine", "closed"}
        /\ waits \subseteq Calls /\ crashed \in BOOLEAN
    BY <2>1 DEF Shapes, Types, Stages
  <2>3. ASSUME NEW c \in Conns
        PROVE  /\ IsPrefix(asked[c], script[c])
               /\ said[c] \in Seq(Message)
               /\ queue[c] \in Seq([message : Message, await : BOOLEAN])
    <3>1. PICK a, s : a = asked[c] /\ s = script[c]
      OBVIOUS
    <3>2. /\ a \in Seq(FrameType) /\ s \in Seq(FrameType) /\ Len(a) <= Len(s)
          /\ \A i \in DOMAIN a : a[i] = s[i]
      BY <2>1, <3>1, DaemonAssumption DEF Shapes, FrameType
    <3>3. \A i \in 1 .. Len(a) : i \in DOMAIN s /\ s[i] \in FrameType
      BY <3>2
    <3>4. SubSeq(s, 1, Len(a)) = a
      BY <3>2, <3>3
    <3>5. IsPrefix(a, s)
      BY <3>2, <3>4 DEF IsPrefix
    <3> QED BY <2>1, <3>1, <3>5 DEF Shapes, Item
  <2>4. ASSUME NEW r \in Calls
        PROVE  /\ call[r].pc \in {"none", "reply", "last", "end", "serve", "begin", "run", "resolve",
                                  "stream", "operate", "answer", "done"}
               /\ (call[r].pc = "none") = (r[2] > Len(asked[r[1]]))
               /\ call[r].pc \in {"none", "done"} => call[r].task = "none" /\ ~call[r].lease
    <3>1. call[r] \in CallRecord
      BY <2>1 DEF Types
    <3>2. call[r].pc \in Pcs
      BY <3>1 DEF CallRecord
    <3>3. /\ call[r].pc = "none" <=> r[2] > Len(asked[r[1]])
          /\ call[r].pc = "none" => call[r] = NoCall
          /\ call[r].pc = "done" => call[r].task = "none" /\ ~call[r].lease
      BY <2>1 DEF Shapes
    <3>4. call[r].pc \in {"none", "done"} => call[r].task = "none" /\ ~call[r].lease
      BY <3>3 DEF NoCall
    <3> QED BY <3>2, <3>3, <3>4 DEF Pcs
  <2> QED BY <2>2, <2>3, <2>4 DEF TypeOK
<1> QED BY <1>1, Promise, PTL

-----------------------------------------------------------------------------
(* The refinement of DaemonConnection.                                     *)

\* A frame is taken up without anything being written yet.
LEMMA TakesSilently ==
  ASSUME NEW r, TakeFrame(r)
  PROVE  said' = said /\ r[2] \in DOMAIN script[r[1]] /\ Takes(r, script[r[1]][r[2]])
<1>1. PICK f : f = script[r[1]][r[2]]
  OBVIOUS
<1>2. \/ TakeGarbage(r, f) \/ TakeFirst(r, f) \/ TakeRefused(r, f)
      \/ TakeDiagnostics(r, f) \/ TakeDuplicate(r, f)
      \/ TakeQuery(r, f) \/ TakeOperation(r, f) \/ TakeSynthesis(r, f) \/ TakeCancel(r, f)
  BY <1>1 DEF TakeFrame
<1>3. said' = said
  BY <1>2 DEF TakeGarbage, TakeFirst, TakeRefused, TakeDiagnostics, TakeDuplicate, TakeQuery,
              TakeOperation, TakeSynthesis, TakeCancel, Reply, Put, writeVars
<1>4. Takes(r, f)
  BY <1>2 DEF TakeGarbage, TakeFirst, TakeRefused, TakeDiagnostics, TakeDuplicate, TakeQuery,
              TakeOperation, TakeSynthesis, TakeCancel, Dispatches
<1> QED BY <1>1, <1>3, <1>4 DEF TakeFrame

\* What the socket takes next may be said now.
LEMMA HeadMayBeSaid ==
  ASSUME CInv, NEW c \in Conns, Flush(c)
  PROVE  /\ MaySay(asked[c], said[c], Head(queue[c]).message)
         /\ said' = [said EXCEPT ![c] = Append(said[c], Head(queue[c]).message)] /\ asked' = asked
<1>1. /\ Shapes /\ Speaks(c) /\ Linked(c) /\ queue[c] # <<>>
      /\ said' = [said EXCEPT ![c] = Append(said[c], Head(queue[c]).message)] /\ asked' = asked
  BY DEF CInv, Flush, connVars, Linked
<1>2. PICK q \in Seq(Item), s \in Seq(Message) : q = queue[c] /\ s = said[c]
  BY <1>1 DEF Shapes
<1>3. 1 \in DOMAIN q /\ Head(q) = q[1]
  BY <1>1, <1>2
<1>4. PICK t, n : t = Chain(c) /\ n = Len(s) + 1
  OBVIOUS
<1>5. n \in DOMAIN t /\ t[n] = Head(q).message
  BY <1>1, <1>2, <1>3, <1>4, AwaitedCalls
<1>6. First(t, n - 1) = s
  <2>1. \A k \in 1 .. Len(s) : t[k] = s[k]
    BY <1>2, <1>4, JoinedIs DEF Chain
  <2>2. n - 1 = Len(s)
    BY <1>4
  <2>3. s = [k \in 1 .. Len(s) |-> s[k]]
    OBVIOUS
  <2> QED BY <2>1, <2>2, <2>3 DEF First
<1>7. MaySay(asked[c], s, t[n])
  BY <1>1, <1>4, <1>5, <1>6 DEF Speaks, Proper
<1> QED BY <1>1, <1>2, <1>5, <1>7

\* The instance of a connection has the words of this module.
LEMMA SameWords ==
  ASSUME NEW c
  PROVE  /\ \A t, i, kind : Connection(c)!About(t, i, kind) = About(t, i, kind)
         /\ \A i, body : Connection(c)!Response(i, body) = Response(i, body)
         /\ \A i : Connection(c)!Started(i) = Started(i)
         /\ \A i : Connection(c)!Progress(i) = Progress(i)
         /\ \A i, n : Connection(c)!Audio(i, n) = Audio(i, n)
         /\ Connection(c)!Refusals = Refusals /\ Connection(c)!Bodies = Bodies
         /\ Connection(c)!TaskMethods = TaskMethods
         /\ Connection(c)!OperationMethods = OperationMethods
BY DEF Connection!About, About, Connection!Response, Response, Connection!Started, Started,
       Connection!Progress, Progress, Connection!Audio, Audio, Connection!Refusals, Refusals,
       Connection!Bodies, Bodies, Connection!Faults, Faults, Connection!Results, Results,
       Connection!Errors, Errors, Connection!TaskMethods, TaskMethods,
       Connection!OperationMethods, OperationMethods

\* Also its way to count.
LEMMA SameCount == ASSUME NEW c PROVE \A S : Connection(c)!Cardinality(S) = Cardinality(S)
BY DEF Connection!Cardinality, Cardinality

\* Where a connection is, and what it lets be answered.
LEMMA SameStates ==
  ASSUME NEW c
  PROVE  /\ \A i : Connection(c)!Answered(said[c], i) <=> Answered(said[c], i)
         /\ Connection(c)!Initialized <=> Inited(asked[c], said[c])
         /\ \A i : Connection(c)!Open(i) <=> i \in DOMAIN asked[c] /\ ~Answered(said[c], i)
         /\ \A i, body : MayAnswer(asked[c], said[c], i, body) => Connection(c)!Fits(i, body)
<1>1. \A i : Connection(c)!Answered(said[c], i) <=> Answered(said[c], i)
  BY SameWords DEF Connection!Answered, Answered
<1>2. Connection(c)!Initialized <=> Inited(asked[c], said[c])
  BY SameWords DEF Connection!Initialized, Inited
<1>3. \A i : Connection(c)!Open(i) <=> i \in DOMAIN asked[c] /\ ~Answered(said[c], i)
  BY <1>1 DEF Connection!Open
<1>4. ASSUME NEW i, NEW body, MayAnswer(asked[c], said[c], i, body) PROVE Connection(c)!Fits(i, body)
  BY <1>2, <1>4, SameWords DEF Connection!Fits, MayAnswer
<1> QED BY <1>1, <1>2, <1>3, <1>4

\* A message that may be said is one the connection says.
LEMMA SaysIsNext ==
  ASSUME NEW c \in Conns, NEW m, MaySay(asked[c], said[c], m),
         said'[c] = Append(said[c], m), asked'[c] = asked[c]
  PROVE  Connection(c)!Next
<1>1. m.to \in DOMAIN asked[c] /\ Connection(c)!Open(m.to) /\ Connection(c)!Say(m)
  BY SameStates DEF MaySay, Connection!Say
<1>2. \A i, kind : Connection(c)!About(said[c], i, kind) = About(said[c], i, kind)
  <2>1. PICK t : t = said[c]
    OBVIOUS
  <2>2. \A i, kind : Connection(c)!About(t, i, kind) = About(t, i, kind)
    BY SameWords
  <2> QED BY <2>1, <2>2
<1>3. CASE m = Response(m.to, m.body) /\ MayAnswer(asked[c], said[c], m.to, m.body)
  <2>1. m = Connection(c)!Response(m.to, m.body) /\ m.body \in Connection(c)!Bodies
    BY <1>3, SameWords DEF MayAnswer
  <2>2. Connection(c)!Fits(m.to, m.body)
    BY <1>3, SameStates
  <2>3. Connection(c)!Respond(m.to, m.body)
    BY <1>1, <2>1, <2>2 DEF Connection!Respond
  <2> QED BY <1>1, <2>1, <2>3 DEF Connection!Next
<1>4. CASE m = Started(m.to) /\ MayStart(asked[c], said[c], m.to)
  <2>1. m = Connection(c)!Started(m.to)
    BY <1>4, SameWords
  <2>2. PICK i : i = m.to
    OBVIOUS
  <2>3. /\ Connection(c)!Initialized /\ asked[c][i].method = "speech.synthesize"
        /\ Connection(c)!About(said[c], i, "started") = {}
    <3>1. Connection(c)!Initialized
      BY <1>4, SameStates DEF MayStart
    <3>2. asked[c][i].method = "speech.synthesize" /\ About(said[c], i, "started") = {}
      BY <1>4, <2>2 DEF MayStart
    <3> QED BY <1>2, <3>1, <3>2
  <2>4. ASSUME NEW j \in DOMAIN asked[c], asked[c][j].id = asked[c][i].id,
               Connection(c)!About(said[c], j, "started") # {}
        PROVE  Connection(c)!Answered(said[c], j)
    <3>1. About(said[c], j, "started") # {}
      BY <1>2, <2>4
    <3>2. Answered(said[c], j)
      BY <1>4, <2>2, <2>4, <3>1 DEF MayStart
    <3> QED BY <3>2, SameStates
  <2>5. Connection(c)!Start(i)
    BY <1>1, <2>1, <2>2, <2>3, <2>4 DEF Connection!Start
  <2> QED BY <1>1, <2>2, <2>5 DEF Connection!Next
<1>5. CASE m = Audio(m.to, Cardinality(About(said[c], m.to, "audio")))
           /\ About(said[c], m.to, "started") # {}
  <2>1. PICK i, S, n : i = m.to /\ S = About(said[c], i, "audio") /\ n = Cardinality(S)
    OBVIOUS
  <2>2. S = Connection(c)!About(said[c], i, "audio") /\ n = Connection(c)!Cardinality(S)
    BY <1>2, <2>1, SameCount
  <2>3. m = Audio(i, n)
    BY <1>5, <2>1
  <2>4. m = Connection(c)!Audio(i, n)
    BY <2>3, SameWords
  <2>5. Connection(c)!About(said[c], i, "started") # {}
    BY <1>2, <1>5, <2>1
  <2>6. Connection(c)!Stream(i)
    BY <1>1, <2>1, <2>2, <2>4, <2>5 DEF Connection!Stream
  <2> QED BY <1>1, <2>1, <2>6 DEF Connection!Next
<1>6. CASE m = Progress(m.to) /\ Inited(asked[c], said[c])
           /\ asked[c][m.to].method \in OperationMethods
  <2>1. m = Connection(c)!Progress(m.to)
    BY <1>6, SameWords
  <2>2. Connection(c)!Report(m.to)
    BY <1>1, <1>6, <2>1, SameWords, SameStates DEF Connection!Report
  <2> QED BY <1>1, <2>2 DEF Connection!Next
<1> QED BY <1>3, <1>4, <1>5, <1>6 DEF MaySay

\* A frame that is taken up is one the client may send.
LEMMA TakesIsAsk ==
  ASSUME Shapes, NEW r \in Calls, TakeFrame(r)
  PROVE  /\ Connection(r[1])!Next
         /\ \A c \in Conns : c # r[1] => UNCHANGED <<asked[c], said[c]>>
<1>1. PICK c, f : c = r[1] /\ f = script[c][r[2]]
  OBVIOUS
<1>2. /\ c \in Conns /\ said' = said /\ r[2] \in DOMAIN script[c] /\ script \in Scripts
      /\ asked' = [asked EXCEPT ![c] = Append(asked[c], f)] /\ asked \in [Conns -> Seq(FrameType)]
  <2>1. said' = said /\ r[2] \in DOMAIN script[c] /\ Takes(r, f)
    BY <1>1, TakesSilently
  <2>2. c \in Conns /\ script \in Scripts /\ asked \in [Conns -> Seq(FrameType)]
    BY <1>1, CallsArePairs DEF Shapes
  <2> QED BY <1>1, <2>1, <2>2 DEF Takes
<1>3. asked'[c] = Append(asked[c], f) /\ \A d \in Conns : d # c => asked'[d] = asked[d]
  BY <1>2
<1>4. f \in UNION {ToSet(s[c]) : s \in Scripts}
  <2>1. f \in ToSet(script[c])
    BY <1>1, <1>2 DEF ToSet
  <2> QED BY <1>2, <2>1
<1>5. Connection(c)!Ask(f)
  BY <1>2, <1>3 DEF Connection!Ask
<1>6. Connection(c)!Next
  BY <1>4, <1>5 DEF Connection!Next
<1> QED BY <1>1, <1>2, <1>3, <1>6

\* Every step is a step of each connection, or none.
LEMMA StepsOfConnections ==
  ASSUME IInv, CInv, [Next]_vars, NEW c \in Conns
  PROVE  [Connection(c)!Next]_(Connection(c)!vars)
<1>1. \/ UNCHANGED <<asked, said>>
      \/ \E r \in Calls : TakeFrame(r)
      \/ \E d \in Conns : Flush(d)
  <2>1. CASE UNCHANGED vars
    BY <2>1 DEF vars, connVars, writeVars
  <2>2. ASSUME NEW d \in Conns, Connect(d) \/ ClientLeaves(d) \/ Serve(d)
        PROVE  UNCHANGED <<asked, said>> \/ Flush(d)
    BY <2>2 DEF Serve, Connect, ClientLeaves, SocketCloses, FailWrites, WriteMeetsTheEnd,
       connVars,
       writeVars
  <2>3. ASSUME NEW r \in Calls, Advance(r) PROVE UNCHANGED <<asked, said>>
    <3>1. CASE EndSocket(r)
      BY <3>1 DEF EndSocket, writeVars
    <3>2. CASE AnswerQuery(r) \/ AnswerOperation(r)
      BY <3>2 DEF AnswerQuery, AnswerOperation, Reply, Put, connVars
    <3>3. CASE Run(r) \/ VoiceFails(r)
      BY <3>3 DEF Run, VoiceFails, Settle, Put, connVars, writeVars
    <3>4. CASE StartSynthesis(r)
      BY <3>4 DEF StartSynthesis, connVars, writeVars
    <3>5. CASE EngineAnswers(r) \/ EngineRefuses(r)
      BY <3>5 DEF EngineAnswers, EngineRefuses, Settle, Put, connVars
    <3> QED BY <2>3, <3>1, <3>2, <3>3, <3>4, <3>5 DEF Advance
  <2>4. ASSUME NEW r \in Calls, ReportProgress(r) \/ StreamChunk(r) \/ EngineTimesOut(r)
        PROVE  UNCHANGED <<asked, said>>
    BY <2>4 DEF ReportProgress, StreamChunk, EngineTimesOut, Settle, Put, connVars
  <2>5. EngineFails \/ Close \/ Stopping => UNCHANGED <<asked, said>>
    BY DEF EngineFails, Close, Stopping, TasksSettled, ServerClosed, EngineClosed, connVars,
       writeVars
  <2>6. CASE Step
    BY <2>2, <2>3, <2>4, <2>5, <2>6 DEF Step
  <2> QED BY <2>1, <2>6 DEF Next, Ended
<1>2. CASE UNCHANGED <<asked, said>>
  BY <1>2 DEF Connection!vars
<1>3. ASSUME NEW r \in Calls, TakeFrame(r)
      PROVE  [Connection(c)!Next]_(Connection(c)!vars)
  <2>1. CASE c = r[1]
    BY <1>3, <2>1, TakesIsAsk DEF CInv
  <2>2. CASE c # r[1]
    BY <1>3, <2>2, TakesIsAsk DEF CInv, Connection!vars
  <2> QED BY <2>1, <2>2
<1>4. ASSUME NEW d \in Conns, Flush(d)
      PROVE  [Connection(c)!Next]_(Connection(c)!vars)
  <2>1. PICK m : m = Head(queue[d]).message
    OBVIOUS
  <2>2. /\ MaySay(asked[d], said[d], m)
        /\ said' = [said EXCEPT ![d] = Append(said[d], m)] /\ asked' = asked
    BY <1>4, <2>1, HeadMayBeSaid
  <2>3. said \in [Conns -> Seq(Message)]
    BY DEF CInv, Shapes
  <2>4. CASE c = d
    BY <2>2, <2>3, <2>4, SaysIsNext
  <2>5. CASE c # d
    BY <2>2, <2>3, <2>5 DEF Connection!vars
  <2> QED BY <2>4, <2>5
<1> QED BY <1>1, <1>2, <1>3, <1>4

\* Each connection keeps what DaemonConnection promises, whatever is interleaved,
\* cancelled or sent twice on it and on the others (server.ts dispatchLine,
\* runSynthesis, runOperation and the chain of writes).
THEOREM RefinementTheorem == Spec => ImplementsConnection
<1>1. Init => \A c \in Conns : Connection(c)!Init
  BY DEF Init, Connection!Init
<1>2. IInv /\ CInv /\ [Next]_vars =>
        [\A c \in Conns : [Connection(c)!Next]_(Connection(c)!vars)]_vars
  BY StepsOfConnections
<1> QED BY <1>1, <1>2, Promise, PTL DEF Spec, ImplementsConnection
=============================================================================
