# VoxSpeech: verification project

VoxSpeech is a local text-to-speech product. A command-line program talks to a
daemon over a Unix socket; the daemon keeps the configuration, the models and
the cloned voices, and drives one engine process that holds the model and does
the synthesis. Daemon and engine talk newline-delimited JSON-RPC over the
engine's stdin and stdout; a separate downloader fetches models. This directory
models the parts of that system whose correctness depends on order: threads,
callbacks, awaits, timeouts, failures, processes and restarts. TLC checks the
models on small instances. TLAPS proves every safety property and both refinements
that TLC finds to hold, for every value of the constants; what is under fairness
stays with TLC.

## The system

| component | state it keeps | operations | module |
|---|---|---|---|
| engine server, `native/engine/src/server.cpp`, `codec.cpp`, `dispatcher.cpp` | engine state, active synthesis and its token, one-place mailbox, output queue | the seven protocol methods, framing failure, end of input | `EngineServer`, `EngineService`, proofs in `EngineServerProofs`, `EngineServiceProofs` |
| engine runtime, `runtime.hpp` and its implementations | the loaded model | load, synthesize, extract, shutdown | its contract, inside `EngineServer` |
| engine client, `packages/engine-client/src/client.ts` | pending requests, synthesis streams, closed flag, the child | spawn, requests, cancel, shutdown, every child event | `EngineClient`, `EngineClientProofs` |
| daemon server, `apps/daemon/src/server.ts` | connections, their active tasks, their write chains | initialize gate, the methods as five kinds of call, cancel, disconnect, `close()` | `DaemonServer`, `DaemonConnection`, proofs in `DaemonServerProofs`, `DaemonConnectionProofs` |
| engine-backed synthesis, `engine-synthesis.ts` | leases and the cancel of a request | run, cancel, close | `DaemonServer`; its leases in `ProductState` |
| config store, `packages/config/src/index.ts` | snapshot, update queue, the file | load, update, mutate | `ProductState`, `ProductStateProofs` |
| models, `apps/daemon/src/models/` | per-id queues, directories on disk | install, use, remove, verify, list | `ProductState` |
| voices, `apps/daemon/src/voices/` | per-id queues, leases, directories on disk | clone, use, remove, acquire a reference, list | `ProductState` |
| daemon composition, `runtime.ts` | the loaded model | start-up choice of the model | `ProductState`, partly |
| model downloader, `packages/model-downloader/src/` | lock file, staging file, the file itself | list, lock, verify, transfer, promote, release | `Downloader`, `DownloaderProofs` |
| daemon RPC client and command line, `apps/cli/src/` | pending requests, timers, streams, progress listeners | connect, request, synthesize, abort, operations, close; each command | `DaemonClient`, `DaemonClientProofs` |
| wire schemas | none | the kinds of messages | `EngineMessages`, `DaemonMessages` |
| PCM and reference files | none | rounding, Base64 | not modelled yet |
| fake synthesis, probe, build tools, glaze | none that matters here | | not modelled |

How they interact: the command line sends requests over a socket; every line
starts an asynchronous dispatch in the daemon; model and voice requests run on the
managers' per-id queues and share the configuration queue; synthesis takes a model
lease and a voice lease and becomes one engine request; the engine answers with
`speech.started`, `speech.audio` messages and a response, which travel back as
callbacks. Cancellation travels the other way, as a second request.

What is hard about it, and what must hold:

* engine server: three threads and four mutexes, for the state, the mailbox, the output
  queue and the two output streams (the last one, in `OutputChannels`, is held for one
  line by the writer or by whoever logs, and orders nothing else); a request that arrives in the
  instant a job ends, a cancel that arrives after it, a shutdown while a job waits.
  Every handled request is answered exactly once, one job at a time, audio in order.
* engine client: the child may crash with output still in the pipe, ignore signals,
  or answer after the timeout. Every promise settles once, no answer is lost, no
  process is left behind.
* daemon server: lines of one connection are dispatched concurrently, ids come twice,
  cancels cross results, clients go away in the middle of a stream, `close()` comes
  while requests arrive. Each connection sees one orderly protocol, what the engine
  works on is leased, and the engine is stopped last.
* product state: concurrent calls read shared state before an await and use it after
  it, any file operation can fail, and the machine can stop between two renames. A
  confirmed selection sticks, and nothing in use is removed.
* downloader: processes that share one lock file, one of them killed at any point; a
  restart with half a file. Only verified bytes get their final name.
* RPC client: answers, notifications, timeouts, aborts and a lost connection in any
  order. No proper daemon is taken for a broken one, and every program ends.

`PROJECT.json` lists each hazard at its line with the properties that watch it.

## Modules

The components form a chain in which each link talks to the abstract specification
of the next: `DaemonClient` to any daemon that keeps `DaemonConnection`, which
`DaemonServer` is shown to keep; `EngineClient` to any engine that keeps
`EngineService`, which `EngineServer` is shown to keep. So no client is checked
against one server but against everything a server may do. The proofs follow the
same chain: `EngineServiceProofs` and `DaemonConnectionProofs` prove once what every
behavior of the abstract specification shows, and the proofs about the clients
instantiate them.

`EngineMessages` and `DaemonMessages` have the requests and messages of the two
protocols. A message is its kind, the request it is about, a sequence number and an
abstract body: a result or the name of an error. On the engine's side ids are the
positions of the requests, which is what `client.ts` sends (it counts up). On the
daemon's side a message names the frame by its place on the connection; the id the
wire carries is a field of the frame, because a client may use an id twice.

`EngineService` is the abstract specification of the engine: what it may say on
stdout, with no threads in it. `Ask` takes whatever is a frame, which is all an engine
may rely on. One job at a time, at most one response per request,
`speech.started` once, audio numbered from 0, then the response, nothing after the
output is closed.

`EngineServer` is the engine process. A critical section that calls nothing that
blocks is one action. The worker queues a job's response and leaves `loading` or
`busy` under one lock, which is two actions here (`WorkerRespond`, `WorkerLeave`)
and a guard (`StateMutexFree`) on every other section of that mutex. `mainPc`,
`workerPc` and `writerPc` are where the threads are; `handleFrame` is one action per
method. `sent` keeps what the client wrote and, for each request, how much output
the client had read by then (`seen`): that is what the properties about what a
client may conclude are stated with.

`EngineClient` is `client.ts`. A JavaScript callback runs to its end, so each event
handler and each continuation is one action. The child may fail to start, exit,
crash, or ignore everything but SIGKILL; `piped` is how much of its output reached
the pipe.

`DaemonConnection` is what the daemon promises on one connection: each frame is
answered at most once, in any order; nothing is served before `initialize`; a
synthesis is announced, streamed in order, answered; no two syntheses of one id are
under way; a cancel is accepted only for a synthesis of its own connection; progress
precedes the answer of its operation.

`DaemonServer` is `server.ts` with `engine-synthesis.ts`. What follows an await runs
to its end, so an action is a stretch between two awaits. A call is a frame of a
connection, and `call[r].pc` is the await it has reached; `task` is its entry in the
map of active tasks. `queue[c]` is the promise chain `writes` of a connection: each
write says whether its caller awaits it, because that decides what a failing one
does: a rejection that nobody handles ends the process, unless a call whose result could
not be written chains its error on behind it (`TriesAgain`). A line that is too long and
has no end is refused again with every chunk that follows, which is a script of several
such frames. `Written` is what a call does when its write is done. The socket has a state of
its own (`Links`), with the time between a client's leaving and the daemon's noticing.
Product services and engine are their outcomes; the engine may be busy with a
synthesis that nobody waits for any more, and may go down for good. `close()` is four
steps: abort and note the tasks, wait for them, wait for the sockets, close the
engine.

`ProductState` is the daemon's state about models, voices and the configuration. A
call is a program counter that moves from await to await; `before[i]` records which
calls were over when call *i* began, which is how overlapping calls are told from
later ones. `Call` has the calls that `DaemonRequestSchema` lets through. A directory is `none`, `good` or `damaged`; a replacement is two renames
with the old directory `aside` in between; `legacy` is the directory an older version
made for a voice, which is read when the new one is not there. Verifying good files may fail
all the same, because reading them may; an installation whose rename has failed is content
when what is there verifies (`GiveUp`). `file` is the
configuration a reader sees, `durable` what survives a power failure, `snapshot` what
the daemon has in memory. `Crash` loses the calls in progress and starts the daemon
again.

`Downloader` is the model downloader as several processes that share a directory.
Every call on the file system is an action, and a process may be killed between any
two. `lock`, `stage` and `dest` are the files of a name; `Contents` tells a missing,
a partial, a wrong and a right file apart; the lock tells who owns it, whether the
owner has been written into it yet and whether it is five minutes old. Only the lock of
a dead process gets that old before the owner is in it: a process suspended for five
minutes between creating the file and writing to it is left out (`LockAges`). Any call on
the file system may fail (`LockFails`, `FileFails`, `WriteLockFails`), and the Hub may
break off its listing (`ListCut`). `Transfer` is
the transfer library putting bytes into the staging file of that name at any time
until it ends. The Hub is what it lists: pages of entries, redirects and errors. A
place is a page and a position on it, and the loop over the files goes from one
selected place to the next. `TreeAssumption` says that a repository has one entry at
a path, which is what a git tree is.

`DaemonClient` is `rpc-client.ts` with the program around it. A program is the list
of the requests a command makes, one after the other; a program with `api` set is
another user of the class, who makes requests concurrently and may abort a synthesis.
`request[i]` gathers what the client's maps hold about request *i*.

`MC...` modules give the constants values. The definitions named `Slip...` are no part
of any specification: each is a plausible mistake in the definition after it, and
`PROJECT.json` names the property that notices it.

## Runs

| run | bounds | distinct states | shows |
|---|---|---|---|
| `engine_any_order` | any 3 frames, any order, valid or not; one audio message per synthesis | 854 000 | types, mailbox, busy/idle, release order, state machine, and that the threads implement `EngineService` |
| `engine_session` | initialize, load, then 3 frames that interfere; one audio message | 246 000 | what a client may conclude from what it has read; cancels find their job and are prompt; shutdown answers everything; every handled request is answered and the process ends with its input |
| `engine_cancel` | as `engine_session` | | finding 1 |
| `client` | 3 requests, 2 audio messages, an engine that may crash at any moment | 709 000 | no false protocol failure, no lost answer, no child left, every promise settles, and once; `shutdown()` settles |
| `product` | any 3 calls on 2 models and 1 voice, 2 stores, one restart, failures anywhere | 1 088 000 | leases are what is in use, snapshot follows the file, a confirmed voice sticks, removals are complete and safe, every call ends |
| `product_use`, `product_clone` | as `product`, no restart | | findings 2 and 3 |
| `daemon` | 2 connections, scripts of up to 3 frames, two audio messages and one progress message, `close()` at any time | 344 000 | each connection keeps `DaemonConnection`; work is leased, cancelled once and told; the engine is stopped last; every request is answered, `close()` ends |
| `daemon_disconnect` | as `daemon`, no `close()` | | finding 4 |
| `downloader` | 2 processes, one may be killed; 5 repositories of up to 2 pages; 2 transfer attempts, 1 redirect; any file operation may fail | 194 000 | only verified bytes get their name, exit code 0 means installed, every process ends |
| `downloader_lock` | 3 processes, one may be killed; one file | | finding 5 |
| `daemon_client` | 4 commands and 2 concurrent users, 5 requests, 2 notifications each, 2 messages in transit | 181 000 | no false protocol failure unless a synthesis timed out, nothing unheard in a result, every program ends and leaves no directory |

Why the bounds are enough. For the safety properties the theorems below remove them.
For the rest, and for the mistakes the properties are to notice: Engine: the mailbox holds one job and there is one worker,
so two jobs and a third request (a cancel, a status or a shutdown) exhibit every
overlap. `MaxAhead` bounds the frames the client
writes ahead, `Awaited` makes it wait for the answers that take the engine to
`ready`, `MaxChunks` and `MaxAudio` bound a stream (`client` and `daemon` have the 2 that
an order needs). Client: `initialize`, one job and one further request (or `engine.shutdown`)
are the most that interact, as the session is given up as a whole. Product: a hazard
here is two calls that meet, and a third that confirms or observes; two models are
needed to select one while the other is removed; one voice is enough because only
calls about the same voice share anything but the configuration queue, which the
models also use. Daemon: connections share the engine, `close()` and nothing else, so
two are enough; on one of them a synthesis meets a cancel, its own id again and a
second synthesis, and every other method runs alone, because the dispatch of a frame
depends on others only through the ids in use. Downloader: with two processes one is dead and one finds its lock,
which is the case the stale lock is for; three are what finding 5 needs. Two files
and two pages make the loops turn once. RPC client: a request meets at most its own
cancel and one other request; `MaxTransit` lets a message be overtaken by a timeout
or an abort.

Symmetry is not used: the models, the connections' scripts and the stores differ.

## Fairness

* `EngineServer`: weak fairness of each of the three threads. The operating system
  runs a thread that can run, and `runtime.hpp`'s operations end by themselves
  (generation is capped). Fairness of the writer also says that its writes do not
  block for ever: the client reads its end of stdout, as `client.ts` does as long as it
  listens. The client owes no request and no end of its input.
* `EngineClient`: weak fairness of due callbacks, of each request's timer, of the
  two kill timers, and of the end of a process that got SIGKILL. The engine owes
  nothing, not even an answer, and the user owes nothing.
* `DaemonServer`: weak fairness of what each socket has to do (`Serve`), of each call
  (`Advance`) and of `close()` (`Stopping`). Node runs what is due. Services end
  (`EveryCallEnds` of `ProductState`), and the engine answers or its client times out
  (`EveryRequestSettles` of `EngineClient`). Fairness of `Flush` says that a client
  that stays connected, and reads, takes what is written to it; without it `close()` could wait
  for ever for a task that waits for a write, which the code accepts. No client owes
  a frame, and no chunk or progress message is owed.
* `ProductState`: weak fairness of the calls and of the configuration queue. File
  operations and downloads end, well or badly. A crash is never required.
* `Downloader`: weak fairness of each process that is not killed. Its file system
  answers; the requests of the listing, the redirects and the transfer end or time
  out. No kill and no signal is required.
* `DaemonClient`: weak fairness of callbacks and timers, of a program's next step, of
  the daemon reading a frame and of its answer to it, which is what
  `EveryRequestAnswered` of `DaemonServer` shows for a connection that stays open.

## Proofs

What follows holds for every sequence of frames, program, catalog, repository, set of
connections and all bounds. The assumptions are the named ones of the modules
(`OfferedAssumption`, `ClientAssumption`, `DownloaderAssumption`, ...): bounds are
numbers, constants have their types. `TreeAssumption` is the one that says more.

| theorem | property | module |
|---|---|---|
| `TypeCorrect`, `MailboxTheorem`, `BusyTheorem`, `ReleaseTheorem` | the invariants of `engine_any_order` | `EngineServerProofs` |
| `StateTheorem`, `CancelTheorem`, `PromptTheorem` | `StateMovesLegally`, `CancelFindsItsJob`, `CancelIsPrompt` | |
| `RefusalTheorem`, `ShutdownTheorem` | `BusyOnlyWhileUnanswered`, `ShutdownAnswersEverything` | |
| `Refinement` | `ImplementsService` | |
| `ServiceTheorem` | `Orderly`, what `client.ts` may rely on | `EngineServiceProofs` |
| `ClientTypes`, `NoFailureTheorem`, `HeardTheorem`, `ExitTheorem`, `NobodyTheorem` | the invariants of `client` | `EngineClientProofs` |
| `SettledTheorem` | `SettledIsFinal`, the safety half of `EveryRequestSettles` | |
| `TypeTheorem`, `AccountTheorem`, `StopTheorem` | the invariants of `daemon` | `DaemonServerProofs` |
| `RefinementTheorem` | `ImplementsConnection` | |
| `ConnectionTheorem` | `Orderly`, what `rpc-client.ts` may rely on | `DaemonConnectionProofs` |
| `ClientTypes`, `NoFailureTheorem`, `HeardTheorem` | the invariants of `daemon_client` | `DaemonClientProofs` |
| `TypeTheorem`, `SnapshotTheorem`, `VoiceUseTheorem`, `RemovedTheorem`, `DeleteTheorem`, `LeaseTheorem` | the invariants and action properties of `product` | `ProductStateProofs` |
| `TypeTheorem`, `VerifiedTheorem`, `InstalledTheorem` | the invariants and the action property of `downloader` | `DownloaderProofs` |
| `SpareTheorem`, `LockTheorem` | what finding 5 comes down to | |

None of the properties is inductive alone. Each module states its inductive
invariant first, as a conjunction of named parts, then what each kind of step does,
then one lemma per part that a step can disturb.

**Engine server.** That the mailbox is free when a job is posted holds because a job is
only accepted in `idle` or `ready`, which needs that in these states no accepted job
is anywhere between the main thread, the mailbox and the worker, which needs to be
known for every place of every thread. `IInv` is

* `TypeOK`;
* `Framing`: no frame that is too long gets past the decoder, and the main thread
  handles a frame only after taking one;
* `OneJob`: at most one of posting, mailbox and worker holds a job, the state says so
  until it is `stopping`, and the stages of shutdown come in order (stop flag, joined
  worker, released runtime);
* `JobMatchesState`: the job in progress is a load exactly when the state is `loading`;
* `Owed`: whoever still owes a response owes one that is not in the output, and the
  one about to be queued suits its request (`Suits`);
* `Streaming`: only a synthesis starts a stream or has a chunk, and the output is closed
  only at the end;
* `Active`: `activeSynthesis` is the synthesis in progress or nothing.

`PromptTheorem` needs one more invariant, `Told`: an accepted cancel in the output has
its token set. The two theorems about the whole output need `Ledger`: whoever is told
`resource_busy` had not read the answer to an earlier job (`Refusals`, which rests on
the response and the change of state being one critical section: while the state is
busy, the job that makes it so is unanswered in the output); every frame handed to
`handleFrame` is answered, has no id to answer, or somebody holds its answer
(`Accounted`, `Owing`); and after the answer to `engine.shutdown` nobody holds one
(`LastWord`). `Refinement` maps the job in progress (`CurrentJob`) and its stream to
`EngineService`'s `current`, the output queue to `log`, and shows that each action is
one step of the service or a stutter.

**Engine client.** `Orderly` of the service says that only asked requests are spoken of,
that nothing follows a response, that a stream is announced once, first, and numbered
0, 1, 2, ... The client's invariant relates its maps to what it has read: `Books` (a
request waits exactly until its answer is read, it times out or the session is given
up; a synthesis that waits has a stream), `Streaming` (a stream's `nextSequence` divides
the chunks that were read from those that were not), `Counting` (every chunk read was
heard), `Reasons` (why a session was given up) and `Told` (who gives up has told the
child). A message that a handler would take for a protocol failure then contradicts
`Orderly`, unless its request has timed out. `SettledTheorem` needs only that what waits
is unsettled: whoever settles or hears, settles or hears what waits (`StepFinal`).

**Daemon server.** For `AccountTheorem` and `StopTheorem` the invariant says of every
call what it holds (`Holds`: the leases from before the voice is resolved, one cancel
for an abort), who has told it (`Told`) and whether `close()` has counted it (`Awaits`).
That a task of a closed socket has been told needs that a task deleted from its map had
been aborted before, and that a socket that was never connected has no tasks, because
a connection that arrives during `close()` is closed at once. That the engine stops last
needs that each task is among those `close()` waits for, or came later. Most actions are
quiet: `QuietStep` settles them together.

For `RefinementTheorem` the invariant (`CInv`) is about the chain of writes of a
connection: what was written followed by what is queued. While the socket can still
write, the chain is `Proper`, that is, each message may follow those before it by
`DaemonConnection`; and each call, by its `pc`, is as far as the chain says (`Tells`: a
call that still runs is unanswered, a stream has queued as many chunks as it counted,
a task of a synthesis has announced it). A step that queues a message extends the
chain; a step that writes one moves the border. So `TakeFrame` is an `Ask` of the
connection, `Flush` is a `Respond`, `Start`, `Stream` or `Report`, by the kind of the
message, and everything else, on that connection and on all others, is a stutter.

**RPC client.** As for the engine client: `Entries`, `Waiting`, `Streaming` and `Counting`
tie what the client keeps about a request to the messages it has read of it.

**Product state.** `IInv` has where each call may be by what it is (`Placed`), that of the
calls about one id only one is under way (`Queued`, the per-id queues), that every change
in the configuration queue is its caller's only one and what that caller waits for
(`Changes`), that a renamed file is the oldest change applied to the snapshot (`Written`),
that the leases of a voice are as many as the syntheses that read or speak with it
(`Leases`, a part of `TypeOK`), and what follows for a
removal: nobody reads what is being deleted (`Unleased`), it is not loaded (`Unloaded`)
and not selected unless a `config.update` ran at the same time (`Unselected`). `Sticks` is
`VoiceUseSticks` for the snapshot as well as for the file.

**Downloader.** A step of a process is one of ten kinds (`Lists`, `Looks`, `Opens`, ...),
and only four of them touch a lock or another file. `LockInv` holds for any number of
processes: a lock whose owner lives is the lock of the file its owner works on (`Owned`),
an old lock has a dead owner (`Ages`), and whoever is about to unlink a lock has found
some other process dead (`Judged`). Of two processes the dead one is then the lock's
owner, so no lock of a living process is taken away (`SpareTheorem`); with three, the
dead one may be a third, which is finding 5. As long as no such lock is taken away,
any number of processes is safe (`LockTheorem`): who works on a file holds its lock
(`Held`), so what was verified is what is promoted (`Verified`), and what is in place
stays in place, which gives the exit code by going through the places in order
(`Installed`). That starts with the first file: of a process whose listing was broken off
`SuccessMeansInstalled` says nothing, and cannot.

Only model-checked: everything under fairness, because TLAPS does not do liveness:
`HandledIsAnswered`, `EndsAfterInput`, `EveryRequestSettles`, `ShutdownSettles`,
`EveryCallEnds`, `EveryRequestAnswered`, `CloseEnds`, `EveryProcessEnds`, `ProgramEnds`
(of `EveryRequestSettles`, that nothing is settled twice is proved).

Five hazards of the list are watched by no property, and `PROJECT.json` says of each why:
an output queue without a bound, the early return of `shutdown()`, a profile replaced
under a synthesis that reads it, the socket path of two daemons, and a timed-out request
that gives its lease back while the engine may still read.

## Findings

1. `engine_cancel`: `docs/protocol.md:306` says that after `accepted` the synthesis
   finally returns `cancelled`. `handleCancel` accepts while the runtime may have
   asked the token for the last time; the synthesis then returns its result.
2. `product_use`: `docs/decisions/p3-product-state.md:90` puts the clearing of the
   default into one serial transaction with the removal. `ModelManager.remove` compares
   before it queues, so the removal of one model can undo a confirmed selection
   of another.
3. `product_clone`: `docs/decisions/p3-product-state.md:108` calls clone an atomic
   upsert. The old profile is renamed away first; in between there is none, and a
   crash there loses it.
4. `daemon_disconnect`: no socket of the daemon has a listener for `error`, and the
   writes of progress and audio are promises nobody handles. A write that is due when
   the client has gone ends the whole daemon, with every other connection, although
   the documents promise an orderly abort of that client's work.
5. `downloader_lock`: `removeStaleLock` unlinks whatever has the lock's name by then.
   Of two processes that both found a dead owner, the slower one removes the lock the
   faster one has just taken; both then write one staging file, and bytes land that
   nobody verified.

What the models show besides, without a run of its own:

* `shutdown()` of an engine client whose session was given up returns before the child
  has ended (`docs/decisions/p2-engine-integration.md:187` says it waits).
* A request that arrives on an open socket while `close()` waits still starts a task,
  and nobody waits for that one (`p2-engine-integration.md:212` says that close first
  stops accepting syntheses). `EngineStopsLast` therefore exempts calls that are `late`.
* `acquireModel` is called outside the `try` of `run()`, so its error reaches the client
  as `synthesis_failed` whatever its code.
* In the RPC client an audio chunk that arrives after its synthesis timed out is a
  protocol failure, which fails all other requests; `NoFailureWithoutTimeout` states
  exactly that exemption.
* A signal during the last transfer attempt of a file ends the downloader with exit code
  1 instead of 130 if that attempt fails before it notices; an empty file is listed but
  refused by the download, so a repository that has one cannot be fetched as a whole.
* If the Hub breaks off the body of its listing, nobody listens for that: the promise of
  `requestJson` never settles, nothing is left that keeps Node running, and the command
  ends with exit code 0 and no file (`packages/model-downloader/README.md:35` calls 0
  success). `SuccessMeansInstalled` therefore speaks of processes that have come to a file.
* When a failed configuration write cannot be read back either (no descriptors left, for
  instance), snapshot and file part although the comment in `config/src/index.ts` says
  they never do. `unread` marks these states, and the properties about the snapshot
  exempt them.
* A removal after a change that was visible but not synced can leave a deleted model
  selected after a power failure (`RemovedStaysRemoved` speaks of the time before a
  restart).

## Not modelled, and why

The contents of messages and files (schema checks, Base64, WAV, YAML, checksums):
data, exercised by unit tests. In the engine: inference, GGUF loading, a throwing JSON
serialisation. In the engine client: a message over 1 MiB (it rejects only its own
request and leaves no trace), the stderr tail. In the product state: `list`, `show` and
`verify` (they change nothing), model leases (one exists only while that model is
loaded, and `isLoaded` already protects it), syncs of the model and voice directories,
and the version of a profile: a clone may replace the files of a voice that a running
synthesis has leased. In the daemon server: the socket's path when the daemon starts and
ends (two daemons that start together may remove each other's), a daemon without
product services, back pressure. In the start-up of `runtime.ts`: the unwinding when
the server cannot listen. In the downloader: manifests, proxies, progress,
connections. In the command line: arguments, printing; `setup` is a list of requests
like any other, and writes back a configuration it read earlier. Glaze is vendored; the
probe, the fake synthesis and the build scripts hold no state that others depend on.

## Plan

1. PCM rounding and Base64 as operators with a reference definition.
2. A version per profile, for a synthesis that runs while its voice is cloned again.
3. The model lease of `engine-synthesis.ts` next to the voice lease, and the start-up
   of the daemon's socket path.
4. Invariants that the liveness properties rest on (a process that waits is waited for),
   as far as they can be stated without fairness.
