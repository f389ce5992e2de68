----------------------------- MODULE Downloader -----------------------------
(***************************************************************************)
(* packages/model-downloader: processes that each download a repository    *)
(* into one directory, file by file: the listing of the Hub (hub.ts), the  *)
(* lock of a file (lock.ts), its transfer, verification and promotion      *)
(* (downloader.ts), and the exit code of the command (cli.ts).             *)
(*                                                                         *)
(* Processes share nothing but the file system: every call on it is an     *)
(* action, and a process may be killed between any two.  A process that is *)
(* started again is another process.  The Hub and EasyDl, the library that *)
(* transfers, are external.                                                *)
(***************************************************************************)
EXTENDS Naturals, Sequences, FiniteSets, SequencesExt

CONSTANTS
  Procs,
  Hubs,          \* what the Hub may list: sequences of pages of entries
  Includes,      \* --include: a glob is the set of names it matches
  Excludes,      \* --exclude
  MaxRedirects,  \* MAX_REDIRECTS
  MaxTries,      \* TRANSFER_ATTEMPTS
  MaxKilled      \* bound on the processes that are killed

\* A page lists files and directories; size 0 is a size, "invalid" is none.  The
\* Hub knows the SHA-256 of LFS files only.
Entries == [name : STRING, type : {"file", "directory"}, size : {"invalid", "zero", "some"},
            sha256 : BOOLEAN]

ASSUME DownloaderAssumption ==
  /\ Hubs \subseteq Seq(Seq(Entries)) \ {<<>>} /\ IsFiniteSet(Procs) /\ "nobody" \notin Procs
  /\ MaxRedirects \in Nat /\ MaxTries \in Nat \ {0} /\ MaxKilled \in Nat

\* A tree has one entry at a path, even if two pages list it.
ASSUME TreeAssumption ==
  \A h \in Hubs : \A k, l \in DOMAIN h :
    \A i \in DOMAIN h[k], j \in DOMAIN h[l] : h[k][i].name = h[l][j].name => h[k][i] = h[l][j]

VARIABLES
  hub,     \* the pages of the repository, never changed
  proc,    \* proc[p]: see ProcStart
  lock,    \* lock[n]: the .lock file of name n, or NoLock
  stage,   \* stage[n]: the .download file: see Contents
  dest     \* dest[n]: the file itself

vars == <<hub, proc, lock, stage, dest>>

\* A file is missing, has another size than expected, or has the size and the
\* wrong or the right bytes.
Contents == {"none", "part", "bad", "good"}

Names == UNION {{e.name : e \in ToSet(page)} : page \in UNION {ToSet(h) : h \in Hubs}}

\* The file a process has created with "wx"; written: it names its owner; old:
\* it is past MALFORMED_LOCK_STALE_MS.
NoLock == [owner |-> "nobody", written |-> FALSE, old |-> FALSE]
HeldBy(p) == [owner |-> p, written |-> FALSE, old |-> FALSE]

\* page and hops are the listing's; file is the place of the file in the listing;
\* retry: the second of two attempts to take the lock; owner: whom readOwner
\* has found; tries: the transfers begun; outcome: how the file ended.
ProcStart ==
  [pc |-> "list", page |-> 1, hops |-> 0, file |-> <<0, 0>>, retry |-> FALSE, owner |-> "nobody",
   tries |-> 0, aborted |-> FALSE, outcome |-> "none", code |-> 0]

Alive(p) == p # "nobody" /\ proc[p].pc \notin {"exited", "killed"}

\* The definitions named Slip... are not in Next: each is a plausible mistake in
\* the definition after it, for showing which property notices.

Init ==
  /\ hub \in Hubs
  /\ proc = [p \in Procs |-> ProcStart]
  /\ lock = [n \in Names |-> NoLock]
  /\ stage = [n \in Names |-> "none"] /\ dest = [n \in Names |-> "none"]

files == <<lock, stage, dest>>

Go(p, pc) == proc' = [proc EXCEPT ![p].pc = pc]

\* What a process knew is gone with it; where it was stays on record.
End(p, pc, code) ==
  proc' = [proc EXCEPT ![p] =
             [ProcStart EXCEPT !.pc = pc, !.file = proc[p].file, !.code = code]]
Exit(p, code) == End(p, "exited", code)

-----------------------------------------------------------------------------
(* Listing the repository: hub.ts, and the filters of cli.ts.              *)

\* A place is a page and a position on it.
Places == UNION {{k} \X DOMAIN hub[k] : k \in DOMAIN hub}
Listed(x) == hub[x[1]][x[2]]
Before(x, y) == x[1] < y[1] \/ (x[1] = y[1] /\ x[2] < y[2])
First(S) == CHOOSE x \in S : \A y \in S \ {x} : Before(x, y)

\* toModelFiles
IsFile(e) == e.type = "file"
Malformed(page) == \E e \in ToSet(page) : IsFile(e) /\ e.size = "invalid"

\* filterFiles
Selects(e) ==
  /\ Includes = {} \/ \E glob \in Includes : e.name \in glob
  /\ ~ \E glob \in Excludes : e.name \in glob

Selected == {x \in Places : IsFile(Listed(x)) /\ Selects(Listed(x))}
Remaining(p) == {x \in Selected : Before(proc[p].file, x)}
GoToFile(p, place) == proc' = [proc EXCEPT ![p].pc = "file", ![p].file = place]

\* requestJson and assertStatus: the request fails, or the status is an error.
ListFails(p) ==
  /\ proc[p].pc = "list"
  /\ Exit(p, 1) /\ UNCHANGED <<hub, files>>

\* The Hub ends the connection within its answer.  Nobody listens for that: the
\* promise never settles, nothing is left to wait for, and Node ends with code 0.
ListCut(p) ==
  /\ proc[p].pc = "list"
  /\ Exit(p, 0) /\ UNCHANGED <<hub, files>>

\* Slip: redirects are followed for ever.
SlipFollow(p) ==
  /\ proc[p].pc = "list"
  /\ proc' = [proc EXCEPT ![p].hops = @ + 1]
  /\ UNCHANGED <<hub, files>>

\* A mirror redirects the request; one hop too many is an error.
Redirected(p) ==
  /\ proc[p].pc = "list"
  /\ IF proc[p].hops = MaxRedirects THEN Exit(p, 1)
     ELSE proc' = [proc EXCEPT ![p].hops = @ + 1]
  /\ UNCHANGED <<hub, files>>

\* A page: the next one is asked for while its Link header names one.
ListPage(p) ==
  /\ proc[p].pc = "list"
  /\ IF Malformed(hub[proc[p].page]) THEN Exit(p, 1)
     ELSE IF proc[p].page < Len(hub)
       THEN proc' = [proc EXCEPT ![p].page = @ + 1, ![p].hops = 0]
     ELSE IF Selected = {} THEN Exit(p, 1)
     ELSE GoToFile(p, First(Selected))
  /\ UNCHANGED <<hub, files>>

-----------------------------------------------------------------------------
(* The lock of a file: lock.ts.                                            *)

File(p) == Listed(proc[p].file)
Name(p) == File(p).name

\* validateFile, and the directory.
BeginFile(p) ==
  /\ proc[p].pc = "file"
  /\ IF File(p).size # "some" THEN Exit(p, 1)
     ELSE proc' = [proc EXCEPT ![p].pc = "open", ![p].retry = FALSE, ![p].tries = 0,
                               ![p].owner = "nobody", ![p].outcome = "none"]
  /\ UNCHANGED <<hub, files>>

\* open(path, "wx")
OpenLock(p) ==
  /\ proc[p].pc = "open"
  /\ IF lock[Name(p)] = NoLock
       THEN lock' = [lock EXCEPT ![Name(p)] = HeldBy(p)] /\ Go(p, "write")
     ELSE /\ IF proc[p].retry THEN Exit(p, 1) ELSE Go(p, "owner")
          /\ UNCHANGED lock
  /\ UNCHANGED <<hub, stage, dest>>

\* The owner is written into the file that was opened, which may have lost its
\* name since.
WriteLock(p) ==
  /\ proc[p].pc = "write"
  /\ lock' = [lock EXCEPT ![Name(p)] = IF @.owner = p THEN [@ EXCEPT !.written = TRUE] ELSE @]
  /\ Go(p, "dest")
  /\ UNCHANGED <<hub, stage, dest>>

\* mkdir, or a call on the lock file, fails in a way that lock.ts does not expect.
LockFails(p) ==
  /\ proc[p].pc \in {"file", "open", "write", "owner", "stat", "unlink", "release", "unlock"}
  /\ Exit(p, 1) /\ UNCHANGED <<hub, files>>

\* The file of that name is unlinked when the write fails.
WriteLockFails(p) ==
  /\ proc[p].pc = "write"
  /\ lock' = [lock EXCEPT ![Name(p)] = NoLock]
  /\ Exit(p, 1)
  /\ UNCHANGED <<hub, stage, dest>>

\* readOwner: a file that is not written yet is like none.
ReadOwner(p) ==
  /\ proc[p].pc = "owner"
  /\ LET l == lock[Name(p)] IN
       proc' = [proc EXCEPT ![p].pc = IF l.written THEN "alive" ELSE "stat",
                            ![p].owner = IF l.written THEN l.owner ELSE "nobody"]
  /\ UNCHANGED <<hub, files>>

\* Slip: a lock is stale whoever owns it.
SlipStaleAnyway(p) ==
  /\ proc[p].pc = "alive"
  /\ Go(p, "unlink")
  /\ UNCHANGED <<hub, files>>

\* isProcessAlive, and DownloadLockedError if it is.
JudgeOwner(p) ==
  /\ proc[p].pc = "alive"
  /\ IF Alive(proc[p].owner) THEN Exit(p, 1) ELSE Go(p, "unlink")
  /\ UNCHANGED <<hub, files>>

Again(p) == proc' = [proc EXCEPT ![p].pc = "open", ![p].retry = TRUE]

StatLock(p) ==
  /\ proc[p].pc = "stat"
  /\ LET l == lock[Name(p)] IN
       IF l = NoLock THEN Again(p)
       ELSE IF l.old THEN Go(p, "unlink")
       ELSE Exit(p, 1)
  /\ UNCHANGED <<hub, files>>

\* unlink takes whatever file has the name now.
UnlinkStale(p) ==
  /\ proc[p].pc = "unlink"
  /\ lock' = [lock EXCEPT ![Name(p)] = NoLock]
  /\ Again(p)
  /\ UNCHANGED <<hub, stage, dest>>

\* Five minutes pass: only a process that was killed leaves its lock unwritten
\* that long.
LockAges(n) ==
  /\ lock[n] # NoLock /\ ~lock[n].old /\ ~Alive(lock[n].owner)
  /\ lock' = [lock EXCEPT ![n].old = TRUE]
  /\ UNCHANGED <<hub, proc, stage, dest>>

-----------------------------------------------------------------------------
(* One file: downloader.ts, with the lock held.                            *)

\* The file is over, and its lock is to be released.
Settle(p, outcome) == proc' = [proc EXCEPT ![p].pc = "release", ![p].outcome = outcome]

\* fileMatches
Matches(e, content) == content = "good" \/ (content = "bad" /\ ~e.sha256)

CheckDest(p) ==
  /\ proc[p].pc = "dest"
  /\ IF Matches(File(p), dest[Name(p)]) THEN Settle(p, "verified") ELSE Go(p, "stage")
  /\ UNCHANGED <<hub, files>>

CheckStage(p) ==
  /\ proc[p].pc = "stage"
  /\ IF Matches(File(p), stage[Name(p)]) THEN Go(p, "promote")
     ELSE IF proc[p].aborted THEN Settle(p, "aborted")
     ELSE Go(p, "resolve")
  /\ UNCHANGED <<hub, files>>

\* followRedirects looks at the signal before each hop.
Resolve(p) ==
  /\ proc[p].pc = "resolve"
  /\ IF proc[p].aborted THEN Settle(p, "aborted") ELSE Go(p, "transfer")
  /\ UNCHANGED <<hub, files>>

\* Slip: a failed attempt is not counted.
SlipTryForever(p) ==
  /\ proc[p].pc \in {"resolve", "transfer"}
  /\ Go(p, "resolve")
  /\ UNCHANGED <<hub, files>>

\* Resolving or transferring fails: another attempt, or the last error.
AttemptFails(p) ==
  /\ proc[p].pc \in {"resolve", "transfer"}
  /\ IF proc[p].tries + 1 < MaxTries
       THEN proc' = [proc EXCEPT ![p].pc = "resolve", ![p].tries = @ + 1]
       ELSE Settle(p, "failed")
  /\ UNCHANGED <<hub, files>>

\* EasyDl joins its chunks in the staging file.
Transfer(p) ==
  /\ proc[p].pc = "transfer" /\ stage[Name(p)] # "part"
  /\ stage' = [stage EXCEPT ![Name(p)] = "part"]
  /\ UNCHANGED <<hub, proc, lock, dest>>

\* wait() is TRUE: what has been transferred is checked.
TransferEnds(p) ==
  /\ proc[p].pc = "transfer"
  /\ \E content \in Contents \ {"none"} : stage' = [stage EXCEPT ![Name(p)] = content]
  /\ Go(p, "inspect")
  /\ UNCHANGED <<hub, lock, dest>>

\* wait() is FALSE: destroy() was called on the signal.
TransferStops(p) ==
  /\ proc[p].pc = "transfer" /\ proc[p].aborted
  /\ Settle(p, "aborted")
  /\ UNCHANGED <<hub, files>>

Inspect(p) ==
  /\ proc[p].pc = "inspect"
  /\ Go(p, IF Matches(File(p), stage[Name(p)]) THEN "promote" ELSE "discard")
  /\ UNCHANGED <<hub, files>>

\* removeFailedStage, then DownloadIntegrityError.
Discard(p) ==
  /\ proc[p].pc = "discard"
  /\ stage' = [stage EXCEPT ![Name(p)] = "none"]
  /\ Settle(p, "failed")
  /\ UNCHANGED <<hub, lock, dest>>

\* Reading, syncing, renaming or removing a file fails.
FileFails(p) ==
  /\ proc[p].pc \in {"dest", "stage", "inspect", "discard", "promote"}
  /\ Settle(p, "failed") /\ UNCHANGED <<hub, files>>

\* syncFile and rename, of whatever the staging file is now.
Promote(p) ==
  /\ proc[p].pc = "promote"
  /\ IF stage[Name(p)] = "none"
       THEN Settle(p, "failed") /\ UNCHANGED <<stage, dest>>
       ELSE /\ dest' = [dest EXCEPT ![Name(p)] = stage[Name(p)]]
            /\ stage' = [stage EXCEPT ![Name(p)] = "none"]
            /\ Settle(p, "installed")
  /\ UNCHANGED <<hub, lock>>

Good(outcome) == outcome \in {"verified", "installed"}

\* Release: the owner is read, and unlinked if it is still this process.
Release(p) ==
  /\ proc[p].pc = "release"
  /\ Go(p, IF lock[Name(p)].owner = p THEN "unlock" ELSE "next")
  /\ UNCHANGED <<hub, files>>

Unlock(p) ==
  /\ proc[p].pc = "unlock"
  /\ lock' = [lock EXCEPT ![Name(p)] = NoLock]
  /\ Go(p, "next")
  /\ UNCHANGED <<hub, stage, dest>>

\* Slip: the loop goes on after a file that failed.
SlipGoOn(p) ==
  /\ proc[p].pc = "next"
  /\ IF Remaining(p) # {} THEN GoToFile(p, First(Remaining(p)))
     ELSE Exit(p, IF Good(proc[p].outcome) THEN 0 ELSE 1)
  /\ UNCHANGED <<hub, files>>

\* runDownload: the next file, or the exit code.
NextFile(p) ==
  /\ proc[p].pc = "next"
  /\ CASE proc[p].outcome = "aborted" -> Exit(p, 130)
       [] proc[p].outcome = "failed" -> Exit(p, 1)
       [] Good(proc[p].outcome) /\ Remaining(p) # {} -> GoToFile(p, First(Remaining(p)))
       [] OTHER -> Exit(p, 0)
  /\ UNCHANGED <<hub, files>>

-----------------------------------------------------------------------------
\* SIGINT or SIGTERM once the listing is done: the signal aborts.
Abort(p) ==
  /\ Alive(p) /\ proc[p].pc # "list" /\ ~proc[p].aborted
  /\ proc' = [proc EXCEPT ![p].aborted = TRUE]
  /\ UNCHANGED <<hub, files>>

Killed == {p \in Procs : proc[p].pc = "killed"}

Kill(p) ==
  /\ Alive(p) /\ Cardinality(Killed) < MaxKilled
  /\ End(p, "killed", 0)
  /\ UNCHANGED <<hub, files>>

Listing(p) == ListFails(p) \/ ListCut(p) \/ Redirected(p) \/ ListPage(p)

Locking(p) ==
  \/ OpenLock(p)
  \/ WriteLock(p)
  \/ WriteLockFails(p)
  \/ LockFails(p)
  \/ ReadOwner(p)
  \/ JudgeOwner(p)
  \/ StatLock(p)
  \/ UnlinkStale(p)
  \/ Release(p)
  \/ Unlock(p)

\* What ends the transfer of an attempt; EasyDl and the requests have timeouts.
Download(p) ==
  \/ CheckDest(p)
  \/ CheckStage(p)
  \/ Resolve(p)
  \/ AttemptFails(p)
  \/ TransferEnds(p)
  \/ TransferStops(p)
  \/ Inspect(p)
  \/ FileFails(p)
  \/ Discard(p)
  \/ Promote(p)

Run(p) == Listing(p) \/ BeginFile(p) \/ Locking(p) \/ Download(p) \/ NextFile(p)

\* Every process has ended.
Over == (\A p \in Procs : ~Alive(p)) /\ UNCHANGED vars

Next ==
  \/ \E p \in Procs : Run(p) \/ Transfer(p) \/ Abort(p) \/ Kill(p)
  \/ \E n \in Names : LockAges(n)
  \/ Over

Spec == Init /\ [][Next]_vars

\* A process that is not killed goes on: its file system answers, and so do, or
\* time out, the Hub and the transfer.
FairSpec == Spec /\ \A p \in Procs : WF_vars(Run(p))

-----------------------------------------------------------------------------
(* Properties.                                                             *)

\* The variables have their types; a process that works on a file works on one
\* the listing has and the filters let through.
TypeOK ==
  /\ hub \in Hubs
  /\ \A p \in Procs :
       /\ proc[p].pc \in {"list", "file", "open", "write", "owner", "alive", "stat", "unlink",
                          "dest", "stage", "resolve", "transfer", "inspect", "discard",
                          "promote", "release", "unlock", "next", "exited", "killed"}
       /\ proc[p].pc \notin {"list", "exited", "killed"} => proc[p].file \in Selected
       /\ proc[p].tries < MaxTries /\ proc[p].hops <= MaxRedirects
       /\ proc[p].code \in {0, 1, 130}
  /\ \A n \in Names : lock[n].owner \in Procs \cup {"nobody"}
  /\ stage \in [Names -> Contents] /\ dest \in [Names -> Contents]

\* "Files land at their final path only after verification": what a rename puts
\* there is what would pass the verification (downloader.ts inspectFile, rename).
\* Nothing holds the staging file between the two but the lock.
LandsOnlyVerified ==
  [][\A x \in Selected :
       LET e == Listed(x) IN dest'[e.name] # dest[e.name] => Matches(e, dest'[e.name])]_vars

\* Exit code 0 of a process that has come to a file says that every file selected
\* is in place and verified, and it stays so, whatever other processes do (cli.ts
\* runDownload).  Of a process whose listing was cut off it says nothing.
SuccessMeansInstalled ==
  \A p \in Procs :
    proc[p].pc = "exited" /\ proc[p].code = 0 /\ proc[p].file # <<0, 0>> =>
      \A x \in Selected : Matches(Listed(x), dest[Listed(x).name])

\* A process ends, whoever holds the locks and however the transfers fail.
EveryProcessEnds == \A p \in Procs : <>~Alive(p)
=============================================================================
