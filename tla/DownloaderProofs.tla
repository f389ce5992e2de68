-------------------------- MODULE DownloaderProofs --------------------------
(***************************************************************************)
(* Theorems about Downloader for every repository, every filter and all    *)
(* bounds: the types for any number of processes; what lands at a final    *)
(* path, for any number of which none takes the lock of another that       *)
(* lives, and for any two.                                                 *)
(***************************************************************************)
EXTENDS Downloader, FiniteSetTheorems, WellFoundedInduction, TLAPS

Pcs == {"list", "file", "open", "write", "owner", "alive", "stat", "unlink",
        "dest", "stage", "resolve", "transfer", "inspect", "discard",
        "promote", "release", "unlock", "next", "exited", "killed"}
HoldingPcs == {"write", "dest", "stage", "resolve", "transfer", "inspect", "discard",
               "promote", "release", "unlock"}
Codes == {0, 1, 130}
Outcomes == {"verified", "installed", "failed", "aborted"}

ProcRecord ==
  [pc : Pcs, page : Nat, hops : 0 .. MaxRedirects, file : Nat \X Nat, retry : BOOLEAN,
   owner : Procs \cup {"nobody"}, tries : 0 .. (MaxTries - 1), aborted : BOOLEAN,
   outcome : Outcomes \cup {"none"}, code : Codes]
LockRecord == [owner : Procs \cup {"nobody"}, written : BOOLEAN, old : BOOLEAN]

Types ==
  /\ hub \in Hubs /\ proc \in [Procs -> ProcRecord]
  /\ lock \in [Names -> LockRecord]
  /\ stage \in [Names -> Contents] /\ dest \in [Names -> Contents]
  /\ \A p \in Procs :
       /\ proc[p].pc \notin {"list", "exited", "killed"} => proc[p].file \in Selected
       /\ proc[p].pc = "list" => proc[p].file = <<0, 0>>

-----------------------------------------------------------------------------
(* The invariants.                                                         *)

Holding(p) == proc[p].pc \in HoldingPcs

\* Who has created a lock that is still there, and lives, works on that file.
Owned ==
  \A n \in Names, p \in Procs :
    lock[n].owner = p /\ Alive(p) => Holding(p) /\ Name(p) = n

\* A lock has an owner, and one that is old has a dead one.
Ages ==
  \A n \in Names :
    lock[n] # NoLock => lock[n].owner \in Procs /\ (lock[n].old => ~Alive(lock[n].owner))

\* A process judges another, and takes a lock away because another is dead.
Judged ==
  \A p \in Procs :
    /\ proc[p].pc = "alive" => proc[p].owner \in Procs \ {p}
    /\ proc[p].pc = "unlink" => \E q \in Procs \ {p} : ~Alive(q)

LockInv == Types /\ Owned /\ Ages /\ Judged

\* The lock that is about to be taken away is not one of a process that lives.
\* Finding 5 is that this fails when three processes meet.
SparesTheLiving == \A p \in Procs : proc[p].pc = "unlink" => ~Alive(lock[Name(p)].owner)

\* Who works on a file has its lock.
Held == \A p \in Procs : Holding(p) => lock[Name(p)].owner = p

\* What is about to be promoted has been verified.
Verified == \A p \in Procs : proc[p].pc = "promote" => Matches(File(p), stage[Name(p)])

InPlace(x) == Matches(Listed(x), dest[Listed(x).name])

\* The files before the one a process works on are in place, and so is this one
\* if it ended well.
Installed ==
  \A p \in Procs :
    /\ proc[p].pc \notin {"list", "exited", "killed"} =>
         \A x \in Selected : Before(x, proc[p].file) => InPlace(x)
    /\ proc[p].pc \in {"release", "unlock", "next"} =>
         /\ proc[p].outcome \in Outcomes
         /\ Good(proc[p].outcome) => InPlace(proc[p].file)

FileInv == Held /\ Verified /\ Installed /\ SuccessMeansInstalled

-----------------------------------------------------------------------------
(* Places in the listing.                                                  *)

\* A nonempty set of numbers has a least one: the interval below it is minimal.
LEMMA LeastNumber ==
  ASSUME NEW S \in SUBSET Nat, S # {}
  PROVE  \E n \in S : \A m \in S : n <= m
<1> DEFINE T == {0 .. n : n \in S}
<1>1. \A n \in S : IsFiniteSet(0 .. n) /\ 0 .. n \in SUBSET Nat
  BY FS_Interval
<1>2. T \subseteq FiniteSubsetsOf(Nat) /\ T # {}
  <2>1. \A n \in S : 0 .. n \in FiniteSubsetsOf(Nat)
    BY <1>1 DEF FiniteSubsetsOf
  <2> QED
    BY <2>1
<1>3. PICK x \in T : \A y \in T : <<y, x>> \notin StrictSubsetOrdering(Nat)
  <2>1. IsWellFoundedOn(StrictSubsetOrdering(Nat), FiniteSubsetsOf(Nat))
    BY FS_StrictSubsetOrderingWellFounded
  <2> QED
    BY <1>2, <2>1, WFMin
<1>4. PICK n \in S : x = 0 .. n
  BY <1>3
<1>5. ASSUME NEW m \in S, m < n
      PROVE  FALSE
  <2>1. 0 .. m \in T /\ 0 .. m \in SUBSET Nat /\ 0 .. n \in SUBSET Nat
    OBVIOUS
  <2>2. 0 .. m \subseteq 0 .. n /\ n \in 0 .. n /\ n \notin 0 .. m
    BY <1>5
  <2>3. <<0 .. m, 0 .. n>> \in StrictSubsetOrdering(Nat)
    BY <2>1, <2>2 DEF StrictSubsetOrdering
  <2> QED
    BY <1>3, <1>4, <2>1, <2>3
<1> QED
  BY <1>5

\* First finds the first place of a nonempty set.
LEMMA FirstIsFirst ==
  ASSUME NEW S \in SUBSET (Nat \X Nat), S # {}
  PROVE  First(S) \in S /\ \A y \in S \ {First(S)} : Before(First(S), y)
<1> DEFINE K == {x[1] : x \in S}
<1>1. K \in SUBSET Nat /\ K # {}
  OBVIOUS
<1>2. PICK k \in K : \A m \in K : k <= m
  BY <1>1, LeastNumber
<1> DEFINE I == {x[2] : x \in {y \in S : y[1] = k}}
<1>3. I \in SUBSET Nat /\ I # {}
  BY <1>2
<1>4. PICK i \in I : \A m \in I : i <= m
  BY <1>3, LeastNumber
<1>5. PICK x \in S : x[1] = k /\ x[2] = i
  BY <1>4
<1>6. ASSUME NEW y \in S \ {x}
      PROVE  Before(x, y)
  <2>1. y[1] \in K /\ k <= y[1] /\ (y[1] = k => y[2] \in I /\ i <= y[2])
    BY <1>2, <1>4
  <2>2. x[1] # y[1] \/ x[2] # y[2]
    OBVIOUS
  <2>3. x[1] \in Nat /\ x[2] \in Nat /\ y[1] \in Nat /\ y[2] \in Nat
    OBVIOUS
  <2> QED
    BY <1>5, <2>1, <2>2, <2>3 DEF Before
<1> QED
  BY <1>6 DEF First

\* The selected places are places, with entries of the listing.
LEMMA SelectedTypes ==
  ASSUME hub \in Hubs
  PROVE  /\ Selected \in SUBSET (Nat \X Nat)
         /\ \A x \in Selected : Listed(x) \in Entries /\ Listed(x).name \in Names
<1>1. hub \in Seq(Seq(Entries))
  BY DownloaderAssumption
<1>2. SUFFICES ASSUME NEW x \in Selected
               PROVE  x \in Nat \X Nat /\ Listed(x) \in Entries /\ Listed(x).name \in Names
  OBVIOUS
<1>3. PICK k \in DOMAIN hub : x \in {k} \X DOMAIN hub[k]
  BY DEF Selected, Places
<1>4. k \in Nat /\ hub[k] \in Seq(Entries)
  BY <1>1
<1>5. PICK i \in DOMAIN hub[k] : x = <<k, i>>
  BY <1>3
<1>6. i \in Nat /\ hub[k][i] \in Entries
  BY <1>4, <1>5
<1>7. Listed(x) = hub[k][i]
  BY <1>5 DEF Listed
<1>8. hub[k][i].name \in Names
  BY DEF Names, ToSet
<1> QED
  BY <1>4, <1>5, <1>6, <1>7, <1>8

-----------------------------------------------------------------------------
(* The steps of a process, and the types.                                  *)

Step(p) == Run(p) \/ Transfer(p) \/ Abort(p) \/ Kill(p)

Kept(p) == proc'[p].file = proc[p].file

\* What every step of p leaves as it should be.
Moved(p) ==
  /\ hub' = hub /\ Alive(p)
  /\ proc' \in [Procs -> ProcRecord] /\ \A q \in Procs \ {p} : proc'[q] = proc[q]
  /\ proc'[p].pc \in {"list", "exited", "killed"} \/ proc'[p].file \in Selected

\* A process that has not ended is alive.
LEMMA Running ==
  ASSUME NEW p \in Procs, proc[p].pc \notin {"exited", "killed"}
  PROVE  Alive(p)
BY DownloaderAssumption DEF Alive

\* Go moves the program counter and nothing else.
LEMMA GoMoves ==
  ASSUME Types, NEW p \in Procs, NEW pc \in Pcs, Go(p, pc)
  PROVE  /\ proc'[p].pc = pc /\ Kept(p) /\ proc'[p].outcome = proc[p].outcome
         /\ proc' \in [Procs -> ProcRecord] /\ \A q \in Procs \ {p} : proc'[q] = proc[q]
<1> DEFINE r == [proc[p] EXCEPT !.pc = pc]
<1>1. proc[p] \in ProcRecord /\ proc \in [Procs -> ProcRecord]
  BY DEF Types
<1>2. r \in ProcRecord
  BY <1>1 DEF ProcRecord, Pcs
<1>3. proc' = [proc EXCEPT ![p] = r]
  BY DEF Go
<1>4. /\ proc'[p] = r /\ proc' \in [Procs -> ProcRecord]
      /\ \A q \in Procs \ {p} : proc'[q] = proc[q]
  BY <1>1, <1>2, <1>3
<1>5. r.pc = pc /\ r.file = proc[p].file /\ r.outcome = proc[p].outcome
  BY <1>1 DEF ProcRecord
<1> QED
  BY <1>4, <1>5 DEF Kept

\* A process that ends keeps its place.
LEMMA EndMoves ==
  ASSUME Types, NEW p \in Procs, NEW pc \in Pcs, NEW code \in Codes, End(p, pc, code)
  PROVE  /\ proc'[p].pc = pc /\ proc'[p].code = code /\ Kept(p)
         /\ proc' \in [Procs -> ProcRecord] /\ \A q \in Procs \ {p} : proc'[q] = proc[q]
<1> DEFINE r == [ProcStart EXCEPT !.pc = pc, !.file = proc[p].file, !.code = code]
<1>1. /\ proc[p] \in ProcRecord /\ proc \in [Procs -> ProcRecord]
      /\ proc[p].file \in Nat \X Nat
  BY DEF Types, ProcRecord
<1>2. ProcStart \in ProcRecord
  BY DownloaderAssumption DEF ProcStart, ProcRecord, Pcs, Codes
<1>3. r \in ProcRecord
  BY <1>1, <1>2 DEF ProcRecord
<1>4. proc' = [proc EXCEPT ![p] = r]
  BY DEF End
<1>5. /\ proc'[p] = r /\ proc' \in [Procs -> ProcRecord]
      /\ \A q \in Procs \ {p} : proc'[q] = proc[q]
  BY <1>1, <1>3, <1>4
<1>6. r.pc = pc /\ r.code = code /\ r.file = proc[p].file
  BY DEF ProcStart
<1> QED
  BY <1>5, <1>6 DEF Kept

\* Exit sets the exit code.
LEMMA ExitMoves ==
  ASSUME Types, NEW p \in Procs, NEW code \in Codes, Exit(p, code)
  PROVE  /\ proc'[p].pc = "exited" /\ proc'[p].code = code /\ Kept(p)
         /\ proc' \in [Procs -> ProcRecord] /\ \A q \in Procs \ {p} : proc'[q] = proc[q]
BY EndMoves DEF Exit, Pcs

\* Settle sets the outcome of the file.
LEMMA SettleMoves ==
  ASSUME Types, NEW p \in Procs, NEW outcome \in Outcomes, Settle(p, outcome)
  PROVE  /\ proc'[p].pc = "release" /\ proc'[p].outcome = outcome /\ Kept(p)
         /\ proc' \in [Procs -> ProcRecord] /\ \A q \in Procs \ {p} : proc'[q] = proc[q]
<1> DEFINE r == [proc[p] EXCEPT !.pc = "release", !.outcome = outcome]
<1>1. proc[p] \in ProcRecord /\ proc \in [Procs -> ProcRecord]
  BY DEF Types
<1>2. r \in ProcRecord
  BY <1>1 DEF ProcRecord, Pcs
<1>3. proc' = [proc EXCEPT ![p] = r]
  BY DEF Settle
<1>4. /\ proc'[p] = r /\ proc' \in [Procs -> ProcRecord]
      /\ \A q \in Procs \ {p} : proc'[q] = proc[q]
  BY <1>1, <1>2, <1>3
<1>5. r.pc = "release" /\ r.outcome = outcome /\ r.file = proc[p].file
  BY <1>1 DEF ProcRecord
<1> QED
  BY <1>4, <1>5 DEF Kept

\* Again sets the flag of the second attempt.
LEMMA AgainMoves ==
  ASSUME Types, NEW p \in Procs, Again(p)
  PROVE  /\ proc'[p].pc = "open" /\ Kept(p)
         /\ proc' \in [Procs -> ProcRecord] /\ \A q \in Procs \ {p} : proc'[q] = proc[q]
<1> DEFINE r == [proc[p] EXCEPT !.pc = "open", !.retry = TRUE]
<1>1. proc[p] \in ProcRecord /\ proc \in [Procs -> ProcRecord]
  BY DEF Types
<1>2. r \in ProcRecord
  BY <1>1 DEF ProcRecord, Pcs
<1>3. proc' = [proc EXCEPT ![p] = r]
  BY DEF Again
<1>4. /\ proc'[p] = r /\ proc' \in [Procs -> ProcRecord]
      /\ \A q \in Procs \ {p} : proc'[q] = proc[q]
  BY <1>1, <1>2, <1>3
<1>5. r.pc = "open" /\ r.file = proc[p].file
  BY <1>1 DEF ProcRecord
<1> QED
  BY <1>4, <1>5 DEF Kept

\* GoToFile sets the place.
LEMMA FileMoves ==
  ASSUME Types, NEW p \in Procs, NEW x \in Selected, GoToFile(p, x)
  PROVE  /\ proc'[p].pc = "file" /\ proc'[p].file = x
         /\ proc' \in [Procs -> ProcRecord] /\ \A q \in Procs \ {p} : proc'[q] = proc[q]
<1> DEFINE r == [proc[p] EXCEPT !.pc = "file", !.file = x]
<1>1. proc[p] \in ProcRecord /\ proc \in [Procs -> ProcRecord]
  BY DEF Types
<1>2. r \in ProcRecord
  <2>1. x \in Nat \X Nat
    BY SelectedTypes DEF Types
  <2> QED
    BY <1>1, <2>1 DEF ProcRecord, Pcs
<1>3. proc' = [proc EXCEPT ![p] = r]
  BY DEF GoToFile
<1>4. /\ proc'[p] = r /\ proc' \in [Procs -> ProcRecord]
      /\ \A q \in Procs \ {p} : proc'[q] = proc[q]
  BY <1>1, <1>2, <1>3
<1>5. r.pc = "file" /\ r.file = x
  BY <1>1 DEF ProcRecord
<1> QED
  BY <1>4, <1>5 DEF Kept

\* The repository does not change, and so neither do its entries.
LEMMA SameListing ==
  ASSUME hub' = hub
  PROVE  Selected' = Selected /\ \A x : Listed(x)' = Listed(x)
BY DEF Selected, Places, Listed

-----------------------------------------------------------------------------
(* Ten kinds of steps.                                                     *)

Apart(p) == proc[p].pc \notin HoldingPcs /\ proc'[p].pc \notin HoldingPcs

Lists(p) ==
  /\ proc[p].pc = "list" /\ UNCHANGED files
  /\ \/ proc'[p].pc \in {"list", "exited"} /\ Kept(p)
     \/ proc'[p].pc = "file" /\ Selected # {} /\ proc'[p].file = First(Selected)

\* Before the lock is taken.
Looks(p) ==
  /\ proc[p].pc \in {"file", "open", "owner", "alive", "stat"}
  /\ proc'[p].pc \in {"open", "owner", "alive", "stat", "unlink", "exited"}
  /\ Kept(p) /\ UNCHANGED files
  /\ proc'[p].pc = "exited" => proc'[p].code = 1
  /\ proc'[p].pc = "alive" => lock[Name(p)].written /\ proc'[p].owner = lock[Name(p)].owner
  /\ proc'[p].pc = "unlink" =>
       \/ proc[p].pc = "alive" /\ ~Alive(proc[p].owner)
       \/ lock[Name(p)].old

Opens(p) ==
  /\ proc[p].pc = "open" /\ proc'[p].pc = "write" /\ Kept(p)
  /\ lock[Name(p)] = NoLock /\ lock' = [lock EXCEPT ![Name(p)] = HeldBy(p)]
  /\ UNCHANGED <<stage, dest>>

Writes(p) ==
  /\ proc[p].pc = "write" /\ proc'[p].pc = "dest" /\ Kept(p)
  /\ lock' = [lock EXCEPT ![Name(p)] = IF @.owner = p THEN [@ EXCEPT !.written = TRUE] ELSE @]
  /\ UNCHANGED <<stage, dest>>

Unlinks(p) ==
  /\ \/ proc[p].pc = "write" /\ proc'[p].pc = "exited" /\ proc'[p].code = 1
     \/ proc[p].pc = "unlink" /\ proc'[p].pc = "open"
     \/ proc[p].pc = "unlock" /\ proc'[p].pc = "next" /\ proc'[p].outcome = proc[p].outcome
  /\ Kept(p) /\ lock' = [lock EXCEPT ![Name(p)] = NoLock]
  /\ UNCHANGED <<stage, dest>>

\* With the lock held.
Works(p) ==
  /\ proc[p].pc \in HoldingPcs /\ proc'[p].pc \in HoldingPcs /\ Kept(p) /\ UNCHANGED lock
  /\ proc'[p].pc # "unlock"
  /\ proc'[p].pc = "promote" => Matches(File(p), stage[Name(p)]) /\ UNCHANGED stage
  /\ proc'[p].pc = "release" =>
       /\ proc'[p].outcome \in Outcomes
       /\ Good(proc'[p].outcome) =>
            \/ Matches(File(p), dest[Name(p)]) /\ UNCHANGED dest
            \/ proc[p].pc = "promote" /\ dest' = [dest EXCEPT ![Name(p)] = stage[Name(p)]]
  /\ \/ UNCHANGED stage
     \/ \E content \in Contents : stage' = [stage EXCEPT ![Name(p)] = content]
  /\ \/ UNCHANGED dest
     \/ proc[p].pc = "promote" /\ dest' = [dest EXCEPT ![Name(p)] = stage[Name(p)]]

Releases(p) ==
  /\ proc[p].pc = "release" /\ Kept(p) /\ UNCHANGED files
  /\ proc'[p].outcome = proc[p].outcome
  /\ \/ proc'[p].pc = "unlock"
     \/ proc'[p].pc = "next" /\ lock[Name(p)].owner # p

GoesOn(p) ==
  /\ proc[p].pc = "next" /\ UNCHANGED files
  /\ \/ proc'[p].pc = "exited" /\ proc'[p].code \in {1, 130}
     \/ /\ proc'[p].pc = "exited" /\ proc[p].outcome \notin {"aborted", "failed"}
        /\ Good(proc[p].outcome) => Remaining(p) = {}
     \/ /\ proc'[p].pc = "file" /\ Good(proc[p].outcome) /\ Remaining(p) # {}
        /\ proc'[p].file = First(Remaining(p))

Hears(p) ==
  /\ proc'[p].pc = proc[p].pc /\ proc'[p].file = proc[p].file /\ proc'[p].owner = proc[p].owner
  /\ proc'[p].outcome = proc[p].outcome /\ proc'[p].code = proc[p].code
  /\ UNCHANGED files

\* Killed, or at its end because of the file system: a lock may stay behind.
Dies(p) ==
  /\ proc'[p].pc = "killed" \/ (proc'[p].pc = "exited" /\ proc'[p].code = 1)
  /\ UNCHANGED files

\* The listing.
LEMMA ListingMoves ==
  ASSUME Types, NEW p \in Procs, Listing(p)
  PROVE  Moved(p) /\ Lists(p)
<1>1. CASE ListFails(p) \/ ListCut(p)
  <2>1. /\ Exit(p, 1) \/ Exit(p, 0)
        /\ {0, 1} \subseteq Codes /\ hub' = hub /\ proc[p].pc = "list" /\ UNCHANGED files
    BY <1>1 DEF ListFails, ListCut, Codes
  <2> QED
    BY <2>1, ExitMoves, Running DEF Moved, Lists
<1>2. CASE Redirected(p)
  <2>1. hub' = hub /\ proc[p].pc = "list" /\ UNCHANGED files /\ 1 \in Codes
    BY <1>2 DEF Redirected, Codes
  <2>2. CASE Exit(p, 1)
    BY <2>1, <2>2, ExitMoves, Running DEF Moved, Lists
  <2>3. CASE proc[p].hops # MaxRedirects /\ proc' = [proc EXCEPT ![p].hops = @ + 1]
    <3> DEFINE r == [proc[p] EXCEPT !.hops = @ + 1]
    <3>1. r \in ProcRecord
      <4>1. proc[p] \in ProcRecord /\ proc[p].hops \in 0 .. MaxRedirects
        BY DEF Types, ProcRecord
      <4>2. proc[p].hops + 1 \in 0 .. MaxRedirects
        BY <2>3, <4>1, DownloaderAssumption
      <4> QED
        BY <4>1, <4>2 DEF ProcRecord
    <3>2. proc' = [proc EXCEPT ![p] = r]
      BY <2>3
    <3> QED
      BY <2>1, <3>1, <3>2, Running DEF Moved, Lists, Types, ProcRecord, Kept
  <2> QED
    BY <1>2, <2>2, <2>3 DEF Redirected
<1>3. CASE ListPage(p)
  <2>1. hub' = hub /\ proc[p].pc = "list" /\ UNCHANGED files /\ 1 \in Codes
    BY <1>3 DEF ListPage, Codes
  <2>2. CASE Exit(p, 1)
    BY <2>1, <2>2, ExitMoves, Running DEF Moved, Lists
  <2>3. CASE proc' = [proc EXCEPT ![p].page = @ + 1, ![p].hops = 0]
    <3> DEFINE r == [proc[p] EXCEPT !.page = @ + 1, !.hops = 0]
    <3>1. r \in ProcRecord
      <4>1. proc[p] \in ProcRecord /\ proc[p].page + 1 \in Nat /\ 0 \in 0 .. MaxRedirects
        BY DownloaderAssumption DEF Types, ProcRecord
      <4> QED
        BY <4>1 DEF ProcRecord
    <3>2. proc' = [proc EXCEPT ![p] = r]
      BY <2>3
    <3> QED
      BY <2>1, <3>1, <3>2, Running DEF Moved, Lists, Types, ProcRecord, Kept
  <2>4. CASE Selected # {} /\ GoToFile(p, First(Selected))
    <3>1. First(Selected) \in Selected
      BY <2>4, SelectedTypes, FirstIsFirst DEF Types
    <3> QED
      BY <2>1, <2>4, <3>1, FileMoves, Running DEF Moved, Lists
  <2> QED
    BY <1>3, <2>2, <2>3, <2>4 DEF ListPage
<1> QED
  BY <1>1, <1>2, <1>3 DEF Listing

\* A process that goes on with its file has moved.
LEMMA KeptMoves ==
  ASSUME Types, NEW p \in Procs, proc[p].pc \notin {"list", "exited", "killed"},
         hub' = hub, Kept(p), proc' \in [Procs -> ProcRecord],
         \A q \in Procs \ {p} : proc'[q] = proc[q]
  PROVE  Moved(p)
BY Running DEF Moved, Types, Kept

\* The checks before a file.
LEMMA BeginMoves ==
  ASSUME Types, NEW p \in Procs, BeginFile(p)
  PROVE  Moved(p) /\ Looks(p)
<1>1. hub' = hub /\ proc[p].pc = "file" /\ UNCHANGED files /\ 1 \in Codes
  BY DEF BeginFile, Codes
<1>2. CASE Exit(p, 1)
  BY <1>1, <1>2, ExitMoves, KeptMoves DEF Looks
<1>3. CASE ~Exit(p, 1)
  <2> DEFINE r == [proc[p] EXCEPT !.pc = "open", !.retry = FALSE, !.tries = 0,
                                  !.owner = "nobody", !.outcome = "none"]
  <2>1. proc[p] \in ProcRecord /\ proc \in [Procs -> ProcRecord] /\ 0 \in 0 .. (MaxTries - 1)
    BY DownloaderAssumption DEF Types
  <2>2. r \in ProcRecord
    BY <2>1 DEF ProcRecord, Pcs
  <2>3. proc' = [proc EXCEPT ![p] = r]
    BY <1>3 DEF BeginFile
  <2>4. proc'[p] = r /\ proc' \in [Procs -> ProcRecord] /\ \A q \in Procs \ {p} : proc'[q] = proc[q]
    BY <2>1, <2>2, <2>3
  <2>5. r.pc = "open" /\ r.file = proc[p].file
    BY <2>1 DEF ProcRecord
  <2> QED
    BY <1>1, <2>4, <2>5, KeptMoves DEF Looks, Kept
<1> QED
  BY <1>2, <1>3

\* The lock file and who is written in it.
LEMMA LockingMoves ==
  ASSUME Types, NEW p \in Procs, Locking(p)
  PROVE  /\ Moved(p)
         /\ Looks(p) \/ Opens(p) \/ Writes(p) \/ Unlinks(p) \/ Releases(p) \/ Dies(p)
<1>1. 1 \in Codes /\ {"write", "owner", "dest", "unlink", "unlock", "next"} \subseteq Pcs
  BY DEF Codes, Pcs
<1>2. CASE OpenLock(p)
  <2>1. hub' = hub /\ proc[p].pc = "open" /\ UNCHANGED <<stage, dest>>
    BY <1>2 DEF OpenLock
  <2>2. CASE lock[Name(p)] = NoLock
    <3>1. lock' = [lock EXCEPT ![Name(p)] = HeldBy(p)] /\ Go(p, "write")
      BY <1>2, <2>2 DEF OpenLock
    <3> QED
      BY <1>1, <2>1, <2>2, <3>1, GoMoves, KeptMoves DEF Opens
  <2>3. CASE lock[Name(p)] # NoLock
    <3>1. (Exit(p, 1) \/ Go(p, "owner")) /\ UNCHANGED files
      BY <1>2, <2>3 DEF OpenLock, files
    <3> QED
      BY <1>1, <2>1, <3>1, GoMoves, ExitMoves, KeptMoves DEF Looks
  <2> QED
    BY <2>2, <2>3
<1>3. CASE WriteLock(p)
  BY <1>1, <1>3, GoMoves, KeptMoves DEF WriteLock, Writes
<1>4. CASE WriteLockFails(p)
  BY <1>1, <1>4, ExitMoves, KeptMoves DEF WriteLockFails, Unlinks
<1>5. CASE ReadOwner(p)
  <2> DEFINE l == lock[Name(p)]
             r == [proc[p] EXCEPT !.pc = IF l.written THEN "alive" ELSE "stat",
                                  !.owner = IF l.written THEN l.owner ELSE "nobody"]
  <2>1. proc[p] \in ProcRecord /\ proc \in [Procs -> ProcRecord] /\ proc[p].pc = "owner"
        /\ hub' = hub /\ UNCHANGED files
    BY <1>5 DEF Types, ReadOwner
  <2>2. l.owner \in Procs \cup {"nobody"}
    <3>1. proc[p].file \in Selected
      BY <2>1 DEF Types
    <3>2. Name(p) \in Names
      BY <3>1, SelectedTypes DEF Types, Name, File
    <3> QED
      BY <3>2 DEF Types, LockRecord
  <2>3. r \in ProcRecord
    BY <2>1, <2>2 DEF ProcRecord, Pcs
  <2>4. proc' = [proc EXCEPT ![p] = r]
    BY <1>5 DEF ReadOwner
  <2>5. proc'[p] = r /\ proc' \in [Procs -> ProcRecord] /\ \A q \in Procs \ {p} : proc'[q] = proc[q]
    BY <2>1, <2>3, <2>4
  <2>6. /\ r.file = proc[p].file /\ r.pc \in {"alive", "stat"}
        /\ r.pc = "alive" => l.written /\ r.owner = l.owner
    BY <2>1 DEF ProcRecord
  <2> QED
    BY <2>1, <2>5, <2>6, KeptMoves DEF Looks, Kept
<1>6. CASE JudgeOwner(p)
  <2>1. hub' = hub /\ proc[p].pc = "alive" /\ UNCHANGED files
        /\ (Exit(p, 1) \/ (Go(p, "unlink") /\ ~Alive(proc[p].owner)))
    BY <1>6 DEF JudgeOwner
  <2> QED
    BY <1>1, <2>1, GoMoves, ExitMoves, KeptMoves DEF Looks
<1>7. CASE StatLock(p)
  <2>1. hub' = hub /\ proc[p].pc = "stat" /\ UNCHANGED files
        /\ (Exit(p, 1) \/ (Go(p, "unlink") /\ lock[Name(p)].old) \/ Again(p))
    BY <1>7 DEF StatLock
  <2> QED
    BY <1>1, <2>1, GoMoves, ExitMoves, AgainMoves, KeptMoves DEF Looks
<1>8. CASE UnlinkStale(p)
  BY <1>8, AgainMoves, KeptMoves DEF UnlinkStale, Unlinks
<1>9. CASE Release(p)
  <2>1. hub' = hub /\ proc[p].pc = "release" /\ UNCHANGED files
        /\ (Go(p, "unlock") \/ (Go(p, "next") /\ lock[Name(p)].owner # p))
    BY <1>9 DEF Release
  <2> QED
    BY <1>1, <2>1, GoMoves, KeptMoves DEF Releases
<1>10. CASE Unlock(p)
  BY <1>1, <1>10, GoMoves, KeptMoves DEF Unlock, Unlinks
<1>11. CASE LockFails(p)
  BY <1>1, <1>11, ExitMoves, KeptMoves DEF LockFails, Dies
<1> QED
  BY <1>2, <1>3, <1>4, <1>5, <1>6, <1>7, <1>8, <1>9, <1>10, <1>11 DEF Locking

\* Transfer, verification and promotion.
LEMMA DownloadMoves ==
  ASSUME Types, NEW p \in Procs, Download(p) \/ Transfer(p)
  PROVE  Moved(p) /\ Works(p)
<1>1. /\ Outcomes = {"verified", "installed", "failed", "aborted"}
      /\ {"stage", "promote", "resolve", "transfer", "inspect", "discard"} \subseteq Pcs
      /\ {"dest", "stage", "promote", "resolve", "transfer", "inspect", "discard", "release"}
           \subseteq HoldingPcs
      /\ ~Good("failed") /\ ~Good("aborted") /\ Contents = {"none", "part", "bad", "good"}
  BY DEF Outcomes, Pcs, HoldingPcs, Good, Contents
<1>2. CASE CheckDest(p)
  <2>1. hub' = hub /\ proc[p].pc = "dest" /\ UNCHANGED lock /\ UNCHANGED stage /\ UNCHANGED dest
        /\ \/ Matches(File(p), dest[Name(p)]) /\ Settle(p, "verified")
           \/ Go(p, "stage")
    BY <1>2 DEF CheckDest, files
  <2> QED
    BY <1>1, <2>1, GoMoves, SettleMoves, KeptMoves DEF Works
<1>3. CASE CheckStage(p)
  <2>1. hub' = hub /\ proc[p].pc = "stage" /\ UNCHANGED lock /\ UNCHANGED stage /\ UNCHANGED dest
        /\ \/ Matches(File(p), stage[Name(p)]) /\ Go(p, "promote")
           \/ Settle(p, "aborted") \/ Go(p, "resolve")
    BY <1>3 DEF CheckStage, files
  <2> QED
    BY <1>1, <2>1, GoMoves, SettleMoves, KeptMoves DEF Works
<1>4. CASE Resolve(p)
  <2>1. hub' = hub /\ proc[p].pc = "resolve" /\ UNCHANGED lock /\ UNCHANGED stage /\ UNCHANGED dest
        /\ (Settle(p, "aborted") \/ Go(p, "transfer"))
    BY <1>4 DEF Resolve, files
  <2> QED
    BY <1>1, <2>1, GoMoves, SettleMoves, KeptMoves DEF Works
<1>5. CASE AttemptFails(p)
  <2>1. hub' = hub /\ proc[p].pc \in {"resolve", "transfer"}
        /\ UNCHANGED lock /\ UNCHANGED stage /\ UNCHANGED dest
    BY <1>5 DEF AttemptFails, files
  <2>2. CASE Settle(p, "failed")
    BY <1>1, <2>1, <2>2, SettleMoves, KeptMoves DEF Works
  <2>3. CASE ~Settle(p, "failed")
    <3> DEFINE r == [proc[p] EXCEPT !.pc = "resolve", !.tries = @ + 1]
    <3>1. proc[p] \in ProcRecord /\ proc \in [Procs -> ProcRecord]
          /\ proc[p].tries + 1 < MaxTries /\ proc' = [proc EXCEPT ![p] = r]
      BY <1>5, <2>3 DEF Types, AttemptFails
    <3>2. proc[p].tries + 1 \in 0 .. (MaxTries - 1)
      BY <3>1, DownloaderAssumption DEF ProcRecord
    <3>3. r \in ProcRecord /\ r.pc = "resolve" /\ r.file = proc[p].file
      BY <3>1, <3>2 DEF ProcRecord, Pcs
    <3>4. proc'[p] = r /\ proc' \in [Procs -> ProcRecord]
          /\ \A q \in Procs \ {p} : proc'[q] = proc[q]
      BY <3>1, <3>3
    <3> QED
      BY <1>1, <2>1, <3>3, <3>4, KeptMoves DEF Works, Kept
  <2> QED
    BY <2>2, <2>3
<1>6. CASE TransferEnds(p)
  <2>1. hub' = hub /\ proc[p].pc = "transfer" /\ UNCHANGED lock /\ UNCHANGED dest /\ Go(p, "inspect")
        /\ \E content \in Contents : stage' = [stage EXCEPT ![Name(p)] = content]
    BY <1>6 DEF TransferEnds
  <2> QED
    BY <1>1, <2>1, GoMoves, KeptMoves DEF Works
<1>7. CASE TransferStops(p)
  <2>1. hub' = hub /\ proc[p].pc = "transfer" /\ Settle(p, "aborted")
        /\ UNCHANGED lock /\ UNCHANGED stage /\ UNCHANGED dest
    BY <1>7 DEF TransferStops, files
  <2> QED
    BY <1>1, <2>1, SettleMoves, KeptMoves DEF Works
<1>8. CASE Inspect(p)
  <2>1. hub' = hub /\ proc[p].pc = "inspect" /\ UNCHANGED lock /\ UNCHANGED stage /\ UNCHANGED dest
        /\ \/ Matches(File(p), stage[Name(p)]) /\ Go(p, "promote")
           \/ Go(p, "discard")
    BY <1>8 DEF Inspect, files
  <2> QED
    BY <1>1, <2>1, GoMoves, KeptMoves DEF Works
<1>9. CASE Discard(p)
  <2>1. hub' = hub /\ proc[p].pc = "discard" /\ UNCHANGED lock /\ UNCHANGED dest
        /\ Settle(p, "failed") /\ stage' = [stage EXCEPT ![Name(p)] = "none"]
    BY <1>9 DEF Discard
  <2> QED
    BY <1>1, <2>1, SettleMoves, KeptMoves DEF Works
<1>10. CASE Promote(p)
  <2>1. hub' = hub /\ proc[p].pc = "promote" /\ UNCHANGED lock
    BY <1>10 DEF Promote
  <2>2. CASE stage[Name(p)] = "none"
    <3>1. Settle(p, "failed") /\ UNCHANGED stage /\ UNCHANGED dest
      BY <1>10, <2>2 DEF Promote
    <3> QED
      BY <1>1, <2>1, <3>1, SettleMoves, KeptMoves DEF Works
  <2>3. CASE stage[Name(p)] # "none"
    <3>1. /\ Settle(p, "installed") /\ dest' = [dest EXCEPT ![Name(p)] = stage[Name(p)]]
          /\ stage' = [stage EXCEPT ![Name(p)] = "none"]
      BY <1>10, <2>3 DEF Promote
    <3> QED
      BY <1>1, <2>1, <3>1, SettleMoves, KeptMoves DEF Works
  <2> QED
    BY <2>2, <2>3
<1>11. CASE Transfer(p)
  <2>1. hub' = hub /\ proc[p].pc = "transfer" /\ UNCHANGED lock /\ UNCHANGED dest /\ UNCHANGED proc
        /\ stage' = [stage EXCEPT ![Name(p)] = "part"]
    BY <1>11 DEF Transfer
  <2>2. Kept(p) /\ proc' \in [Procs -> ProcRecord] /\ \A q \in Procs \ {p} : proc'[q] = proc[q]
    BY <2>1 DEF Types, Kept
  <2> QED
    BY <1>1, <2>1, <2>2, KeptMoves DEF Works
<1>12. CASE FileFails(p)
  <2>1. /\ hub' = hub /\ proc[p].pc \in {"dest", "stage", "inspect", "discard", "promote"}
        /\ Settle(p, "failed") /\ UNCHANGED lock /\ UNCHANGED stage /\ UNCHANGED dest
    BY <1>12 DEF FileFails, files
  <2> QED
    BY <1>1, <2>1, SettleMoves, KeptMoves DEF Works
<1> QED
  BY <1>2, <1>3, <1>4, <1>5, <1>6, <1>7, <1>8, <1>9, <1>10, <1>11, <1>12 DEF Download

\* The next file, or the exit code.
LEMMA NextMoves ==
  ASSUME Types, NEW p \in Procs, NextFile(p)
  PROVE  Moved(p) /\ GoesOn(p)
<1>1. hub' = hub /\ proc[p].pc = "next" /\ UNCHANGED files /\ {0, 1, 130} \subseteq Codes
  BY DEF NextFile, Codes
<1>2. CASE Exit(p, 130) \/ Exit(p, 1)
  BY <1>1, <1>2, ExitMoves, KeptMoves DEF GoesOn
<1>3. CASE Good(proc[p].outcome) /\ Remaining(p) # {} /\ GoToFile(p, First(Remaining(p)))
  <2>1. Remaining(p) \in SUBSET (Nat \X Nat) /\ Remaining(p) \subseteq Selected
    BY SelectedTypes DEF Types, Remaining
  <2>2. First(Remaining(p)) \in Selected
    BY <1>3, <2>1, FirstIsFirst
  <2> QED
    BY <1>1, <1>3, <2>2, FileMoves, Running DEF Moved, GoesOn
<1>4. CASE /\ proc[p].outcome \notin {"aborted", "failed"}
           /\ ~(Good(proc[p].outcome) /\ Remaining(p) # {}) /\ Exit(p, 0)
  BY <1>1, <1>4, ExitMoves, KeptMoves DEF GoesOn
<1> QED
  BY <1>2, <1>3, <1>4 DEF NextFile, Good

\* The signal.
LEMMA AbortMoves ==
  ASSUME Types, NEW p \in Procs, Abort(p)
  PROVE  Moved(p) /\ Hears(p)
<1> DEFINE r == [proc[p] EXCEPT !.aborted = TRUE]
<1>1. /\ proc[p] \in ProcRecord /\ proc \in [Procs -> ProcRecord]
      /\ proc' = [proc EXCEPT ![p] = r] /\ hub' = hub /\ UNCHANGED files
      /\ proc[p].pc \notin {"list", "exited", "killed"}
  BY DEF Types, Abort, Alive
<1>2. /\ r \in ProcRecord /\ r.pc = proc[p].pc /\ r.file = proc[p].file /\ r.owner = proc[p].owner
      /\ r.outcome = proc[p].outcome /\ r.code = proc[p].code
  BY <1>1 DEF ProcRecord
<1>3. proc'[p] = r /\ proc' \in [Procs -> ProcRecord] /\ \A q \in Procs \ {p} : proc'[q] = proc[q]
  BY <1>1, <1>2
<1> QED
  BY <1>1, <1>2, <1>3, KeptMoves DEF Hears, Kept

\* A process dies.
LEMMA KillMoves ==
  ASSUME Types, NEW p \in Procs, Kill(p)
  PROVE  Moved(p) /\ Dies(p)
<1>1. /\ End(p, "killed", 0) /\ Alive(p) /\ hub' = hub /\ UNCHANGED files
      /\ "killed" \in Pcs /\ 0 \in Codes
  BY DEF Kill, Pcs, Codes
<1> QED
  BY <1>1, EndMoves DEF Moved, Dies

\* Every step of a process is of one of ten kinds.
LEMMA StepKinds ==
  ASSUME Types, NEW p \in Procs, Step(p)
  PROVE  /\ Moved(p)
         /\ \/ Lists(p) \/ Looks(p) \/ Opens(p) \/ Writes(p) \/ Unlinks(p)
            \/ Works(p) \/ Releases(p) \/ GoesOn(p) \/ Hears(p) \/ Dies(p)
BY ListingMoves, BeginMoves, LockingMoves, DownloadMoves, NextMoves, AbortMoves, KillMoves
   DEF Step, Run

-----------------------------------------------------------------------------
(* The types.                                                              *)

Kinds(p) ==
  \/ Lists(p) \/ Looks(p) \/ Opens(p) \/ Writes(p) \/ Unlinks(p)
  \/ Works(p) \/ Releases(p) \/ GoesOn(p) \/ Hears(p) \/ Dies(p)

\* A process that works on a file works on one the listing has.
LEMMA NameTypes ==
  ASSUME Types, NEW p \in Procs, proc[p].pc \notin {"list", "exited", "killed"}
  PROVE  Name(p) \in Names /\ File(p) \in Entries
BY SelectedTypes DEF Types, Name, File

\* What a step does to a lock: it is taken, its owner is written, it is unlinked.
LEMMA LockChanges ==
  ASSUME Types, NEW p \in Procs, Kinds(p), NEW n \in Names, lock'[n] # lock[n]
  PROVE  /\ n = Name(p)
         /\ \/ Opens(p) /\ lock[n] = NoLock /\ lock'[n] = HeldBy(p)
            \/ /\ Writes(p) /\ lock[n].owner = p
               /\ lock'[n] = [lock[n] EXCEPT !.written = TRUE]
            \/ Unlinks(p) /\ lock'[n] = NoLock
<1>1. lock \in [Names -> LockRecord] /\ lock' # lock
  BY DEF Types
<1>2. CASE Opens(p)
  BY <1>1, <1>2 DEF Opens
<1>3. CASE Writes(p)
  BY <1>1, <1>3 DEF Writes
<1>4. CASE Unlinks(p)
  BY <1>1, <1>4 DEF Unlinks
<1> QED
  BY <1>1, <1>2, <1>3, <1>4 DEF Kinds, Lists, Looks, Works, Releases, GoesOn, Hears, Dies, files

\* What a step does to the other files.
LEMMA FileChanges ==
  ASSUME Types, NEW p \in Procs, Kinds(p), <<stage, dest>>' # <<stage, dest>>
  PROVE  Works(p)
BY DEF Kinds, Lists, Looks, Opens, Writes, Unlinks, Releases, GoesOn, Hears, Dies, files

\* The types are kept by a step of a process.
LEMMA StepTypes ==
  ASSUME Types, NEW p \in Procs, Moved(p), Kinds(p)
  PROVE  Types'
<1>1. hub' \in Hubs /\ proc' \in [Procs -> ProcRecord]
  BY DEF Types, Moved
<1>2. \A q \in Procs : proc'[q].pc \notin {"list", "exited", "killed"} => proc'[q].file \in Selected'
  BY SameListing DEF Types, Moved
<1>5. \A q \in Procs : proc'[q].pc = "list" => proc'[q].file = <<0, 0>>
  <2>1. proc'[p].pc = "list" => proc[p].pc = "list" /\ proc'[p].file = proc[p].file
    BY DEF Kinds, Lists, Looks, Opens, Writes, Unlinks, Works, Releases, GoesOn, Hears, Dies,
       HoldingPcs, Kept
  <2> QED
    BY <2>1 DEF Types, Moved
<1>3. lock' \in [Names -> LockRecord]
  <2>1. lock \in [Names -> LockRecord]
    BY DEF Types
  <2>2. NoLock \in LockRecord /\ HeldBy(p) \in LockRecord
        /\ \A l \in LockRecord : [l EXCEPT !.written = TRUE] \in LockRecord
    BY DEF NoLock, HeldBy, LockRecord
  <2>3. lock' = [n \in Names |-> lock'[n]]
    BY <2>1 DEF Kinds, Lists, Looks, Opens, Writes, Unlinks, Works, Releases, GoesOn, Hears,
       Dies,
                files
  <2>4. ASSUME NEW n \in Names
        PROVE  lock'[n] \in LockRecord
    BY <2>1, <2>2, LockChanges
  <2> QED
    BY <2>3, <2>4
<1>4. stage' \in [Names -> Contents] /\ dest' \in [Names -> Contents]
  <2>1. stage \in [Names -> Contents] /\ dest \in [Names -> Contents]
    BY DEF Types
  <2>2. CASE Works(p)
    <3>1. proc[p].pc \notin {"list", "exited", "killed"}
      BY <2>2 DEF Works, HoldingPcs
    <3>2. stage[Name(p)] \in Contents
      BY <2>1, <3>1, NameTypes
    <3> QED
      BY <2>1, <2>2, <3>2 DEF Works
  <2> QED
    BY <2>1, <2>2, FileChanges
<1> QED
  BY <1>1, <1>2, <1>3, <1>4, <1>5 DEF Types

\* The start has the types.
LEMMA InitTypes == ASSUME Init PROVE Types
<1>1. ProcStart \in ProcRecord
  BY DownloaderAssumption DEF ProcStart, ProcRecord, Pcs, Codes
<1>2. NoLock \in LockRecord
  BY DEF NoLock, LockRecord
<1> QED
  BY <1>1, <1>2 DEF Init, Types, Contents, ProcStart

\* A lock that ages.
LEMMA AgesKept ==
  ASSUME Types, NEW n \in Names, LockAges(n)
  PROVE  Types' /\ UNCHANGED <<hub, proc, stage, dest>> /\ lock' = [lock EXCEPT ![n].old = TRUE]
<1>1. UNCHANGED <<hub, proc, stage, dest>> /\ lock' = [lock EXCEPT ![n].old = TRUE]
  BY DEF LockAges
<1>2. lock' \in [Names -> LockRecord]
  BY <1>1 DEF Types, LockRecord
<1> QED
  BY <1>1, <1>2, SameListing DEF Types

\* Every step is one of a process, of a lock that ages, or of nobody.
LEMMA NextCases ==
  ASSUME Types, [Next]_vars
  PROVE  \/ \E p \in Procs : Moved(p) /\ Kinds(p)
         \/ \E n \in Names : LockAges(n)
         \/ UNCHANGED vars
BY StepKinds DEF Next, Step, Kinds, Over

\* The types hold throughout, for any number of processes.
LEMMA TypesInvariance == Spec => []Types
<1>1. Types /\ [Next]_vars => Types'
  <2> SUFFICES ASSUME Types, [Next]_vars PROVE Types'
    OBVIOUS
  <2>1. CASE UNCHANGED vars
    BY <2>1, SameListing DEF Types, vars
  <2> QED
    BY <2>1, NextCases, StepTypes, AgesKept
<1> QED
  BY InitTypes, <1>1, PTL DEF Spec

\* Type correctness, for any number of processes.
THEOREM TypeTheorem == Spec => []TypeOK
<1>1. Types => TypeOK
  BY DownloaderAssumption DEF Types, TypeOK, ProcRecord, LockRecord, Pcs, Codes
<1> QED
  BY TypesInvariance, <1>1, PTL

-----------------------------------------------------------------------------
(* Locks, for any number of processes.                                     *)

\* The other processes keep what they work on, and who is dead stays dead.
LEMMA Elsewhere ==
  ASSUME NEW p \in Procs, Moved(p)
  PROVE  /\ \A q \in Procs \ {p} :
              /\ Name(q)' = Name(q) /\ File(q)' = File(q) /\ (Holding(q)' <=> Holding(q))
              /\ Alive(q)' <=> Alive(q)
         /\ Kept(p) => Name(p)' = Name(p) /\ File(p)' = File(p)
         /\ \A q \in Procs : ~Alive(q) => ~Alive(q)'
         /\ Alive(p)
<1>1. hub' = hub /\ \A x : Listed(x)' = Listed(x)
  BY SameListing DEF Moved
<1>2. \A q \in Procs : proc'[q].file = proc[q].file => File(q)' = File(q)
  BY <1>1 DEF File, Listed
<1>3. \A q \in Procs : proc'[q].file = proc[q].file => Name(q)' = Name(q)
  BY <1>2 DEF Name
<1>4. Alive(p) /\ \A q \in Procs \ {p} : proc'[q] = proc[q]
  BY DEF Moved
<1>5. \A q \in Procs \ {p} : (Alive(q)' <=> Alive(q)) /\ (Holding(q)' <=> Holding(q))
  BY <1>4 DEF Alive, Holding
<1> QED
  BY <1>2, <1>3, <1>4, <1>5 DEF Kept

\* Owned is kept by a step of a process.
LEMMA OwnedStep ==
  ASSUME Types, Owned, NEW p \in Procs, Moved(p), Kinds(p)
  PROVE  Owned'
<1> SUFFICES ASSUME NEW n \in Names, NEW q \in Procs, lock'[n].owner = q, Alive(q)'
             PROVE  Holding(q)' /\ Name(q)' = n
  BY DEF Owned
<1>1. CASE Opens(p) /\ n = Name(p) /\ lock'[n] = HeldBy(p)
  BY <1>1, Elsewhere DEF HeldBy, Holding, HoldingPcs, Opens
<1>2. CASE ~(Opens(p) /\ n = Name(p) /\ lock'[n] = HeldBy(p))
  <2>1. lock[n].owner = q
    <3>1. CASE lock'[n] = NoLock
      BY <3>1, DownloaderAssumption DEF NoLock
    <3>2. CASE lock'[n] # NoLock /\ lock'[n] # lock[n]
      <4>1. lock[n].owner = p /\ lock'[n] = [lock[n] EXCEPT !.written = TRUE]
        BY <1>2, <3>2, LockChanges
      <4> QED
        BY <4>1 DEF Types, LockRecord
    <3> QED
      BY <3>1, <3>2
  <2>2. Alive(q)
    BY Elsewhere
  <2>3. Holding(q) /\ Name(q) = n
    BY <2>1, <2>2 DEF Owned
  <2>4. CASE q # p
    BY <2>3, <2>4, Elsewhere
  <2>5. CASE q = p
    <3>1. ~Unlinks(p)
      <4>1. SUFFICES ASSUME Unlinks(p) PROVE FALSE
        OBVIOUS
      <4>2. lock'[n] = NoLock
        BY <2>3, <2>5, <4>1 DEF Unlinks, Types
      <4> QED
        BY <4>2, DownloaderAssumption DEF NoLock
    <3>2. Kept(p) /\ Holding(p)'
      <4>1. proc'[p].pc \notin {"exited", "killed"}
        BY <2>5 DEF Alive
      <4>2. Writes(p) \/ Works(p) \/ Releases(p) \/ Hears(p)
        BY <2>3, <2>5, <3>1, <4>1
           DEF Kinds, Lists, Looks, Opens, GoesOn, Dies, Holding, HoldingPcs
      <4>3. Releases(p) => proc'[p].pc = "unlock"
        BY <2>1, <2>3, <2>5 DEF Releases
      <4> QED
        BY <2>3, <2>5, <4>2, <4>3
           DEF Writes, Works, Releases, Hears, Kept, Holding, HoldingPcs
    <3> QED
      BY <2>3, <2>5, <3>2, Elsewhere
  <2> QED
    BY <2>4, <2>5
<1> QED
  BY <1>1, <1>2

\* Ages is kept by a step of a process.
LEMMA AgesStep ==
  ASSUME Types, Ages, NEW p \in Procs, Moved(p), Kinds(p)
  PROVE  Ages'
<1> SUFFICES ASSUME NEW n \in Names, lock'[n] # NoLock
             PROVE  /\ lock'[n].owner \in Procs
                    /\ lock'[n].old => ~Alive(lock[n].owner)'
  BY DEF Ages
<1>1. CASE lock'[n] = lock[n]
  <2>1. lock'[n].owner \in Procs /\ (lock'[n].old => ~Alive(lock'[n].owner))
    BY <1>1 DEF Ages
  <2>2. PICK q \in Procs : q = lock'[n].owner
    BY <2>1
  <2>3. Alive(q)' <=> Alive(lock[n].owner)'
    BY <2>2 DEF Alive
  <2> QED
    BY <2>1, <2>2, <2>3, Elsewhere
<1>2. CASE lock'[n] = HeldBy(p)
  BY <1>2 DEF HeldBy
<1>3. CASE lock[n].owner = p /\ lock'[n] = [lock[n] EXCEPT !.written = TRUE]
  <2>1. lock'[n].owner = p /\ lock'[n].old = lock[n].old /\ p # "nobody"
    BY <1>3, DownloaderAssumption DEF Types, LockRecord
  <2>2. ~lock[n].old
    BY <1>3, Elsewhere, DownloaderAssumption DEF Ages, NoLock
  <2> QED
    BY <2>1, <2>2
<1> QED
  BY <1>1, <1>2, <1>3, LockChanges

\* Judged is kept by a step of a process.
LEMMA JudgedStep ==
  ASSUME LockInv, NEW p \in Procs, Moved(p), Kinds(p)
  PROVE  Judged'
<1> SUFFICES ASSUME NEW q \in Procs
             PROVE  /\ proc'[q].pc = "alive" => proc'[q].owner \in Procs \ {q}
                    /\ proc'[q].pc = "unlink" => \E r \in Procs \ {q} : ~Alive(r)'
  BY DEF Judged
<1>1. CASE q # p \/ Hears(p)
  <2>1. proc'[q].pc = proc[q].pc /\ proc'[q].owner = proc[q].owner
    BY <1>1 DEF Moved, Hears
  <2> QED
    BY <2>1, Elsewhere DEF LockInv, Judged
<1>2. CASE q = p /\ ~Hears(p)
  <2>1. SUFFICES ASSUME proc'[p].pc \in {"alive", "unlink"}
                 PROVE  /\ proc'[p].pc = "alive" => proc'[p].owner \in Procs \ {p}
                        /\ proc'[p].pc = "unlink" => \E r \in Procs \ {p} : ~Alive(r)'
    BY <1>2
  <2>2. Looks(p)
    BY <1>2, <2>1 DEF Kinds, Lists, Opens, Writes, Unlinks, Works, Releases, GoesOn, Dies,
       HoldingPcs
  <2>3. Alive(p) /\ ~Holding(p) /\ Name(p) \in Names
    BY <2>2, NameTypes, Elsewhere DEF LockInv, Looks, Holding, HoldingPcs
  <2>4. lock[Name(p)].owner # p
    BY <2>3 DEF LockInv, Owned
  <2>5. proc'[p].pc = "alive" => proc'[p].owner \in Procs \ {p}
    BY <2>2, <2>3, <2>4 DEF LockInv, Ages, Looks, NoLock
  <2>6. proc'[p].pc = "unlink" => \E r \in Procs \ {p} : ~Alive(r)
    BY <2>2, <2>3, <2>4 DEF LockInv, Ages, Judged, Looks, NoLock
  <2> QED
    BY <2>5, <2>6, Elsewhere
<1> QED
  BY <1>1, <1>2

\* What is known about locks holds throughout, for any number of processes.
LEMMA LockInvariance == Spec => []LockInv
<1>1. Init => LockInv
  <2> SUFFICES ASSUME Init PROVE LockInv
    OBVIOUS
  <2>1. Types /\ (\A n \in Names : lock[n] = NoLock) /\ \A p \in Procs : proc[p].pc = "list"
    BY InitTypes DEF Init, ProcStart
  <2> QED
    BY <2>1, DownloaderAssumption DEF LockInv, Owned, Ages, Judged, NoLock
<1>2. LockInv /\ [Next]_vars => LockInv'
  <2> SUFFICES ASSUME LockInv, [Next]_vars PROVE LockInv'
    OBVIOUS
  <2>1. ASSUME NEW p \in Procs, Moved(p), Kinds(p)
        PROVE  LockInv'
    BY <2>1, StepTypes, OwnedStep, AgesStep, JudgedStep DEF LockInv
  <2>2. ASSUME NEW n \in Names, LockAges(n)
        PROVE  LockInv'
    <3>1. Types' /\ UNCHANGED <<hub, proc>> /\ lock' = [lock EXCEPT ![n].old = TRUE]
      BY <2>2, AgesKept DEF LockInv
    <3>2. \A m \in Names : lock'[m].owner = lock[m].owner /\ lock'[m].written = lock[m].written
                           /\ (m # n => lock'[m].old = lock[m].old)
      BY <3>1 DEF LockInv, Types, LockRecord
    <3>3. \A p \in Procs : (Holding(p)' <=> Holding(p)) /\ Name(p)' = Name(p)
      BY <3>1 DEF Holding, Name, File, Listed
    <3>4. \A q : Alive(q)' <=> Alive(q)
      BY <3>1 DEF Alive
    <3>5. Owned'
      BY <3>2, <3>3, <3>4 DEF LockInv, Owned
    <3>6. lock[n].owner \in Procs /\ ~Alive(lock[n].owner)
      BY <2>2 DEF LockAges, LockInv, Ages
    <3>7. Ages'
      <4> SUFFICES ASSUME NEW m \in Names, lock'[m] # NoLock
                   PROVE  lock'[m].owner \in Procs /\ (lock'[m].old => ~Alive(lock[m].owner)')
        BY DEF Ages
      <4>1. lock[m] # NoLock /\ (m = n \/ lock'[m] = lock[m])
        BY <2>2, <3>1 DEF LockAges, LockInv, Types
      <4>2. lock[m].owner \in Procs /\ (lock'[m].old => ~Alive(lock[m].owner))
        BY <3>2, <3>6, <4>1 DEF LockInv, Ages
      <4>3. Alive(lock[m].owner)' <=> Alive(lock[m].owner)
        BY <3>1, <3>2 DEF Alive
      <4> QED
        BY <3>2, <4>2, <4>3
    <3>8. Judged'
      BY <3>1, <3>4 DEF LockInv, Judged
    <3> QED
      BY <3>1, <3>5, <3>7, <3>8 DEF LockInv
  <2>3. CASE UNCHANGED vars
    <3>1. Types'
      BY <2>3, SameListing DEF LockInv, Types, vars
    <3>2. Owned' /\ Ages' /\ Judged'
      BY <2>3 DEF LockInv, Owned, Ages, Judged, vars, Holding, Alive, Name, File, Listed
    <3> QED
      BY <3>1, <3>2 DEF LockInv
  <2> QED
    BY <2>1, <2>2, <2>3, NextCases DEF LockInv
<1> QED
  BY <1>1, <1>2, PTL DEF Spec

\* At most two processes share the directory.
AtMostTwo == \A p, q, r \in Procs : p = q \/ q = r \/ p = r

\* Of two processes, the one whose lock is taken away is the one that is dead.
LEMMA TwoSpare ==
  ASSUME LockInv, AtMostTwo
  PROVE  SparesTheLiving
<1> SUFFICES ASSUME NEW p \in Procs, proc[p].pc = "unlink", Alive(lock[Name(p)].owner)
             PROVE  FALSE
  BY DEF SparesTheLiving
<1>1. PICK q \in Procs \ {p} : ~Alive(q)
  BY DEF LockInv, Judged
<1>2. Name(p) \in Names
  BY NameTypes DEF LockInv
<1>3. PICK r \in Procs : lock[Name(p)].owner = r /\ Alive(r)
  BY <1>2 DEF LockInv, Types, LockRecord, Alive
<1>4. Holding(r)
  BY <1>2, <1>3 DEF LockInv, Owned
<1>5. r # p /\ r # q
  BY <1>1, <1>3, <1>4 DEF Holding, HoldingPcs
<1> QED
  BY <1>1, <1>5 DEF AtMostTwo

\* No lock of a process that lives is taken away while at most two processes
\* share a directory (lock.ts removeStaleLock); with three, one is (finding 5).
THEOREM SpareTheorem == ASSUME AtMostTwo PROVE Spec => []SparesTheLiving
<1>1. LockInv => SparesTheLiving
  BY TwoSpare
<1> QED
  BY LockInvariance, <1>1, PTL

-----------------------------------------------------------------------------
(* What lands, as long as no lock of a process that lives is taken away.   *)

\* Who works on a file lives, and has a name.
LEMMA HoldingTypes ==
  ASSUME Types, NEW p \in Procs, Holding(p)
  PROVE  Alive(p) /\ Name(p) \in Names /\ proc[p].file \in Selected
BY NameTypes, Running DEF Types, Holding, HoldingPcs

\* Held is kept by a step of a process.
LEMMA HeldStep ==
  ASSUME LockInv, SparesTheLiving, Held, NEW p \in Procs, Moved(p), Kinds(p)
  PROVE  Held'
<1> SUFFICES ASSUME NEW q \in Procs, Holding(q)' PROVE (lock[Name(q)].owner)' = q
  BY DEF Held
<1>1. CASE q # p
  <2> DEFINE n == Name(q)
  <2>1. Holding(q) /\ Name(q)' = n /\ lock[n].owner = q /\ Alive(q) /\ n \in Names
    BY <1>1, Elsewhere, HoldingTypes DEF Held, LockInv
  <2>2. SUFFICES ASSUME lock'[n] # lock[n] PROVE FALSE
    BY <2>1
  <2>3. n = Name(p) /\ lock[n] # NoLock
    <3>1. n = Name(p)
      BY <2>1, <2>2, LockChanges DEF LockInv
    <3>2. lock[n].owner \in Procs
      BY <2>1
    <3> QED
      BY <3>1, <3>2, DownloaderAssumption DEF NoLock
  <2>4. Unlinks(p)
    <3>1. lock[n].owner # p
      BY <1>1, <2>1
    <3> QED
      BY <2>1, <2>2, <2>3, <3>1, LockChanges DEF LockInv
  <2>5. CASE proc[p].pc = "unlink"
    BY <2>1, <2>3, <2>5 DEF SparesTheLiving
  <2>6. CASE proc[p].pc # "unlink"
    <3>1. Holding(p)
      BY <2>4, <2>6 DEF Unlinks, Holding, HoldingPcs
    <3> QED
      BY <1>1, <2>1, <2>3, <3>1 DEF Held
  <2> QED
    BY <2>5, <2>6
<1>2. CASE q = p
  <2>1. CASE Opens(p)
    <3>1. Name(p) \in Names
      BY <2>1, NameTypes DEF Opens, LockInv
    <3>2. lock'[Name(p)] = HeldBy(p) /\ Name(p)' = Name(p)
      BY <2>1, <3>1, Elsewhere DEF Opens, LockInv, Types
    <3> QED
      BY <1>2, <3>2 DEF HeldBy
  <2>2. CASE ~Opens(p)
    <3>1. Holding(p) /\ Kept(p) /\ ~Unlinks(p)
      BY <1>2, <2>2 DEF Kinds, Lists, Looks, Writes, Unlinks, Works, Releases, GoesOn, Hears,
         Dies,
                        Holding, HoldingPcs, Kept
    <3>2. lock[Name(p)].owner = p /\ Name(p)' = Name(p) /\ Name(p) \in Names
      BY <3>1, Elsewhere, HoldingTypes DEF Held, LockInv
    <3>3. lock'[Name(p)] = lock[Name(p)] \/ lock'[Name(p)] = [lock[Name(p)] EXCEPT !.written = TRUE]
      BY <2>2, <3>1, <3>2, LockChanges DEF LockInv
    <3>4. lock'[Name(p)].owner = p
      BY <3>2, <3>3 DEF LockInv, Types, LockRecord
    <3> QED
      BY <1>2, <3>2, <3>4
  <2> QED
    BY <2>1, <2>2
<1> QED
  BY <1>1, <1>2

\* Verified is kept: nobody else writes a staging file whose lock is held.
LEMMA VerifiedStep ==
  ASSUME LockInv, Held, Verified, NEW p \in Procs, Moved(p), Kinds(p)
  PROVE  Verified'
<1> SUFFICES ASSUME NEW q \in Procs, proc'[q].pc = "promote"
             PROVE  Matches(File(q)', stage'[Name(q)'])
  BY DEF Verified
<1>1. CASE q # p
  <2>1. Holding(q) /\ Name(q)' = Name(q) /\ File(q)' = File(q) /\ proc[q].pc = "promote"
    BY <1>1, Elsewhere DEF Moved, Holding, HoldingPcs
  <2>2. Matches(File(q), stage[Name(q)]) /\ Name(q) \in Names
    BY <2>1, HoldingTypes DEF Verified, LockInv
  <2>3. stage'[Name(q)] = stage[Name(q)]
    <3>1. CASE Works(p)
      <4>1. Name(p) # Name(q)
        BY <1>1, <2>1, <3>1 DEF Held, Works, Holding
      <4> QED
        BY <2>2, <3>1, <4>1 DEF Works, LockInv, Types
    <3>2. CASE ~Works(p)
      BY <3>2, FileChanges DEF LockInv
    <3> QED
      BY <3>1, <3>2
  <2> QED
    BY <2>1, <2>2, <2>3
<1>2. CASE q = p
  <2>1. Works(p) \/ Hears(p)
    BY <1>2 DEF Kinds, Lists, Looks, Opens, Writes, Unlinks, Releases, GoesOn, Dies
  <2>2. Name(p)' = Name(p) /\ File(p)' = File(p)
    BY <2>1, Elsewhere DEF Works, Hears, Kept
  <2>3. Matches(File(p), stage[Name(p)]) /\ stage' = stage
    BY <1>2, <2>1 DEF Works, Hears, Verified, files
  <2> QED
    BY <1>2, <2>2, <2>3
<1> QED
  BY <1>1, <1>2

\* Two places of one name have one entry.
LEMMA OneEntry ==
  ASSUME Types, NEW x \in Selected, NEW y \in Selected, Listed(x).name = Listed(y).name
  PROVE  Listed(x) = Listed(y)
<1>1. \A z \in Selected : \E k \in DOMAIN hub : \E i \in DOMAIN hub[k] : Listed(z) = hub[k][i]
  BY DEF Selected, Places, Listed
<1>2. PICK k \in DOMAIN hub : \E i \in DOMAIN hub[k] : Listed(x) = hub[k][i]
  BY <1>1
<1>3. PICK l \in DOMAIN hub : \E j \in DOMAIN hub[l] : Listed(y) = hub[l][j]
  BY <1>1
<1>4. PICK i \in DOMAIN hub[k] : Listed(x) = hub[k][i]
  BY <1>2
<1>5. PICK j \in DOMAIN hub[l] : Listed(y) = hub[l][j]
  BY <1>3
<1>6. hub \in Hubs
  BY DEF Types
<1> QED
  BY <1>4, <1>5, <1>6, TreeAssumption

\* What a step puts in place is verified.
LEMMA Lands ==
  ASSUME LockInv, Verified, NEW p \in Procs, Kinds(p), NEW x \in Selected,
         dest'[Listed(x).name] # dest[Listed(x).name]
  PROVE  Matches(Listed(x), dest'[Listed(x).name])
<1>1. Works(p) /\ proc[p].pc = "promote" /\ dest' = [dest EXCEPT ![Name(p)] = stage[Name(p)]]
  BY FileChanges DEF LockInv, Works
<1>2. Matches(File(p), stage[Name(p)]) /\ proc[p].file \in Selected
  BY <1>1 DEF Verified, LockInv, Types
<1>3. Listed(x).name = Name(p) /\ Listed(x).name \in Names
  BY <1>1, SelectedTypes DEF LockInv, Types
<1>4. Listed(x) = File(p)
  BY <1>2, <1>3, OneEntry DEF LockInv, Name, File
<1> QED
  BY <1>1, <1>2, <1>3, <1>4 DEF LockInv, Types

\* What is in place stays there.
LEMMA StaysInPlace ==
  ASSUME LockInv, Verified, NEW p \in Procs, Moved(p), Kinds(p), NEW x \in Selected, InPlace(x)
  PROVE  InPlace(x)'
<1>1. Listed(x)' = Listed(x)
  BY SameListing DEF Moved
<1>2. Matches(Listed(x), dest'[Listed(x).name])
  BY Lands DEF InPlace
<1> QED
  BY <1>1, <1>2 DEF InPlace

\* The place of a process that has one: nothing is between it and the next.
LEMMA NextPlace ==
  ASSUME Types, NEW p \in Procs, Remaining(p) # {}, proc[p].file \in Selected,
         NEW x \in Selected, Before(x, First(Remaining(p)))
  PROVE  Before(x, proc[p].file) \/ x = proc[p].file
<1> DEFINE f == First(Remaining(p))  y == proc[p].file
<1>1. Remaining(p) \in SUBSET (Nat \X Nat) /\ Selected \in SUBSET (Nat \X Nat)
  BY SelectedTypes DEF Remaining, Types
<1>2. f \in Nat \X Nat /\ \A z \in Remaining(p) \ {f} : Before(f, z)
  BY <1>1, FirstIsFirst
<1>3. x \in Nat \X Nat /\ y \in Nat \X Nat
  BY <1>1
<1>4. x \notin Remaining(p)
  <2>1. \A a, b \in Nat \X Nat : Before(a, b) => ~Before(b, a) /\ a # b
    BY DEF Before
  <2> QED
    BY <1>2, <1>3, <2>1
<1>5. ~Before(y, x)
  BY <1>4 DEF Remaining
<1>6. Before(x, y) \/ x = y
  <2>1. /\ x[1] \in Nat /\ x[2] \in Nat /\ y[1] \in Nat /\ y[2] \in Nat
        /\ x = <<x[1], x[2]>> /\ y = <<y[1], y[2]>>
    BY <1>3
  <2> QED
    BY <1>5, <2>1 DEF Before
<1> QED
  BY <1>6

\* Nothing is before the first place.
LEMMA NothingBefore ==
  ASSUME Types, NEW x \in Selected
  PROVE  ~Before(x, First(Selected))
<1>1. Selected \in SUBSET (Nat \X Nat)
  BY SelectedTypes DEF Types
<1>2. First(Selected) \in Nat \X Nat /\ \A z \in Selected \ {First(Selected)} : Before(First(Selected), z)
  BY <1>1, FirstIsFirst
<1>3. \A a, b \in Nat \X Nat : Before(a, b) => ~Before(b, a) /\ a # b
  BY DEF Before
<1> QED
  BY <1>1, <1>2, <1>3

\* When no file remains, all have been gone through.
LEMMA NothingRemains ==
  ASSUME Types, NEW p \in Procs, Remaining(p) = {}, proc[p].file \in Selected, NEW x \in Selected
  PROVE  Before(x, proc[p].file) \/ x = proc[p].file
<1> DEFINE y == proc[p].file
<1>1. x \in Nat \X Nat /\ y \in Nat \X Nat
  BY SelectedTypes DEF Types
<1>2. ~Before(y, x)
  BY DEF Remaining
<1>3. /\ x[1] \in Nat /\ x[2] \in Nat /\ y[1] \in Nat /\ y[2] \in Nat
      /\ x = <<x[1], x[2]>> /\ y = <<y[1], y[2]>>
  BY <1>1
<1> QED
  BY <1>2, <1>3 DEF Before

\* Installed is kept for a process that does not move.
LEMMA InstalledElsewhere ==
  ASSUME LockInv, Verified, Installed, NEW p \in Procs, Moved(p), Kinds(p),
         NEW q \in Procs, proc'[q].pc = proc[q].pc, proc'[q].file = proc[q].file,
         proc'[q].outcome = proc[q].outcome
  PROVE  /\ proc'[q].pc \notin {"list", "exited", "killed"} =>
              \A x \in Selected : Before(x, proc'[q].file) => InPlace(x)'
         /\ proc'[q].pc \in {"release", "unlock", "next"} =>
              /\ proc'[q].outcome \in Outcomes
              /\ Good(proc'[q].outcome) => InPlace(proc[q].file)'
<1>1. \A x \in Selected : InPlace(x) => InPlace(x)'
  BY StaysInPlace
<1>2. proc[q].pc \in {"release", "unlock", "next"} => proc[q].file \in Selected
  BY DEF LockInv, Types
<1>3. proc[q].pc \in {"release", "unlock", "next"} /\ Good(proc[q].outcome)
      => InPlace(proc[q].file)'
  <2> DEFINE y == proc[q].file
  <2>1. SUFFICES ASSUME proc[q].pc \in {"release", "unlock", "next"}, Good(proc[q].outcome)
                 PROVE  InPlace(proc[q].file)'
    OBVIOUS
  <2> QED
    BY <1>1, <1>2, <2>1 DEF Installed
<1> QED
  BY <1>1, <1>3 DEF Installed

\* Installed is kept for the process that moves.
LEMMA InstalledHere ==
  ASSUME LockInv, Verified, Installed, NEW p \in Procs, Moved(p), Kinds(p), ~Hears(p)
  PROVE  /\ proc'[p].pc \notin {"list", "exited", "killed"} =>
              \A x \in Selected : Before(x, proc'[p].file) => InPlace(x)'
         /\ proc'[p].pc \in {"release", "unlock", "next"} =>
              /\ proc'[p].outcome \in Outcomes
              /\ Good(proc'[p].outcome) => InPlace(proc[p].file)'
<1>1. \A x \in Selected : InPlace(x) => InPlace(x)'
  BY StaysInPlace
<1>2. CASE Lists(p)
  BY <1>2, NothingBefore DEF LockInv, Lists
<1>3. CASE Dies(p)
  BY <1>3 DEF Dies
<1>4. CASE GoesOn(p)
  <2>1. SUFFICES ASSUME proc'[p].pc = "file", NEW x \in Selected, Before(x, proc'[p].file)
                 PROVE  InPlace(x)'
    BY <1>4 DEF GoesOn
  <2>2. /\ proc[p].pc = "next" /\ Good(proc[p].outcome) /\ Remaining(p) # {}
        /\ proc'[p].file = First(Remaining(p)) /\ proc[p].file \in Selected
    BY <1>4, <2>1 DEF GoesOn, LockInv, Types
  <2>3. Before(x, proc[p].file) \/ x = proc[p].file
    BY <2>1, <2>2, NextPlace DEF LockInv
  <2> QED
    BY <1>1, <2>2, <2>3 DEF Installed
<1>5. CASE ~(Lists(p) \/ Dies(p) \/ GoesOn(p))
  <2>1. Kept(p) /\ proc[p].pc \notin {"list", "exited", "killed"}
    BY <1>5 DEF Kinds, Looks, Opens, Writes, Unlinks, Works, Releases, HoldingPcs
  <2>2. \A x \in Selected : Before(x, proc'[p].file) => InPlace(x)'
    BY <1>1, <2>1 DEF Installed, Kept
  <2>3. ASSUME proc'[p].pc \in {"release", "unlock", "next"}
        PROVE  /\ proc'[p].outcome \in Outcomes
               /\ Good(proc'[p].outcome) => InPlace(proc[p].file)'
    <3>1. Works(p) \/ Unlinks(p) \/ Releases(p)
      BY <1>5, <2>3 DEF Kinds, Looks, Opens, Writes
    <3>2. CASE Works(p)
      <4>1. proc'[p].pc = "release"
        BY <2>3, <3>2 DEF Works, HoldingPcs
      <4>2. proc'[p].outcome \in Outcomes
        BY <3>2, <4>1 DEF Works
      <4>3. ASSUME Good(proc'[p].outcome)
            PROVE  Matches(File(p), dest'[Name(p)])
        <5>1. CASE Matches(File(p), dest[Name(p)]) /\ UNCHANGED dest
          BY <5>1
        <5>2. CASE proc[p].pc = "promote" /\ dest' = [dest EXCEPT ![Name(p)] = stage[Name(p)]]
          <6>1. Name(p) \in Names
            BY <2>1, NameTypes DEF LockInv
          <6> QED
            BY <5>2, <6>1 DEF Verified, LockInv, Types
        <5> QED
          BY <3>2, <4>1, <4>3, <5>1, <5>2 DEF Works
      <4>4. Good(proc'[p].outcome) => InPlace(proc[p].file)'
        <5>1. Listed(proc[p].file)' = Listed(proc[p].file) /\ proc'[p].file = proc[p].file
          BY <2>1 DEF Moved, Listed, Kept
        <5> QED
          BY <4>3, <5>1 DEF InPlace, File, Name, Listed
      <4> QED
        BY <4>2, <4>4
    <3>3. CASE Unlinks(p) \/ Releases(p)
      <4>1. proc[p].pc \in {"release", "unlock", "next"} /\ proc'[p].outcome = proc[p].outcome
        BY <2>3, <3>3 DEF Unlinks, Releases
      <4>2. proc[p].file \in Selected /\ proc'[p].file = proc[p].file
        BY <2>1 DEF LockInv, Types, Kept
      <4>3. Good(proc[p].outcome) => InPlace(proc[p].file)'
        BY <1>1, <4>1, <4>2 DEF Installed
      <4> QED
        BY <4>1, <4>3 DEF Installed
    <3> QED
      BY <3>1, <3>2, <3>3
  <2> QED
    BY <2>2, <2>3
<1> QED
  BY <1>2, <1>3, <1>4, <1>5

\* Installed is kept by a step of a process.
LEMMA InstalledStep ==
  ASSUME LockInv, Verified, Installed, NEW p \in Procs, Moved(p), Kinds(p)
  PROVE  Installed'
<1>1. Selected' = Selected
  BY SameListing DEF Moved
<1>2. SUFFICES ASSUME NEW q \in Procs
               PROVE  /\ proc'[q].pc \notin {"list", "exited", "killed"} =>
                           \A x \in Selected : Before(x, proc'[q].file) => InPlace(x)'
                      /\ proc'[q].pc \in {"release", "unlock", "next"} =>
                           /\ proc'[q].outcome \in Outcomes
                           /\ Good(proc'[q].outcome) => InPlace(proc[q].file)'
  BY <1>1 DEF Installed
<1>3. CASE q # p \/ Hears(p)
  <2>1. /\ proc'[q].pc = proc[q].pc /\ proc'[q].file = proc[q].file
        /\ proc'[q].outcome = proc[q].outcome
    BY <1>3 DEF Moved, Hears
  <2> QED
    BY <2>1, InstalledElsewhere
<1>4. CASE q = p /\ ~Hears(p)
  BY <1>4, InstalledHere
<1> QED
  BY <1>3, <1>4

\* SuccessMeansInstalled is kept by a step of a process.
LEMMA SuccessStep ==
  ASSUME LockInv, Verified, Installed, SuccessMeansInstalled,
         NEW p \in Procs, Moved(p), Kinds(p)
  PROVE  SuccessMeansInstalled'
<1>1. Selected' = Selected /\ \A x : Listed(x)' = Listed(x)
  BY SameListing DEF Moved
<1>2. \A x \in Selected : InPlace(x) => InPlace(x)'
  BY StaysInPlace
<1>3. SUFFICES ASSUME NEW q \in Procs, proc'[q].pc = "exited", proc'[q].code = 0,
                      proc'[q].file # <<0, 0>>
               PROVE  \A x \in Selected : InPlace(x)
  <2>1. SUFFICES ASSUME NEW q \in Procs, proc'[q].pc = "exited", proc'[q].code = 0,
                        proc'[q].file # <<0, 0>>
                 PROVE  \A x \in Selected : InPlace(x)'
    BY <1>1 DEF SuccessMeansInstalled, InPlace
  <2> QED
    BY <1>2, <1>3, <2>1
<1>4. CASE q # p
  BY <1>3, <1>4 DEF Moved, SuccessMeansInstalled, InPlace
<1>5. CASE q = p
  <2>1. GoesOn(p)
    <3>1. proc[p].pc # "exited"
      BY Elsewhere DEF Alive
    <3>2. ~Lists(p)
      BY <1>3, <1>5 DEF Lists, Kept, LockInv, Types
    <3> QED
      BY <1>3, <1>5, <3>1, <3>2
         DEF Kinds, Looks, Opens, Writes, Unlinks, Works, Releases, Hears, Dies, HoldingPcs
  <2>2. proc[p].pc = "next" /\ proc[p].outcome \in Outcomes /\ proc[p].file \in Selected
    BY <2>1 DEF GoesOn, Installed, LockInv, Types
  <2>3. Good(proc[p].outcome) /\ Remaining(p) = {}
    BY <1>3, <1>5, <2>1, <2>2 DEF GoesOn, Outcomes, Good
  <2>4. \A x \in Selected : Before(x, proc[p].file) \/ x = proc[p].file
    BY <2>2, <2>3, NothingRemains DEF LockInv
  <2> QED
    BY <2>2, <2>3, <2>4 DEF Installed
<1> QED
  BY <1>4, <1>5

\* FileInv is an invariant while no lock of a process that lives is taken away.
LEMMA FileInvariance == Spec /\ []SparesTheLiving => []FileInv
<1>1. Init => FileInv
  <2> SUFFICES ASSUME Init PROVE FileInv
    OBVIOUS
  <2>1. \A p \in Procs : proc[p].pc = "list"
    BY DEF Init, ProcStart
  <2> QED
    BY <2>1 DEF FileInv, Held, Holding, HoldingPcs, Verified, Installed, SuccessMeansInstalled
<1>2. LockInv /\ SparesTheLiving /\ FileInv /\ [Next]_vars => FileInv'
  <2> SUFFICES ASSUME LockInv, SparesTheLiving, FileInv, [Next]_vars PROVE FileInv'
    OBVIOUS
  <2>1. ASSUME NEW p \in Procs, Moved(p), Kinds(p)
        PROVE  FileInv'
    BY <2>1, HeldStep, VerifiedStep, InstalledStep, SuccessStep DEF FileInv
  <2>2. ASSUME UNCHANGED <<hub, proc, stage, dest>>,
               \A n \in Names : lock'[n].owner = lock[n].owner
        PROVE  FileInv'
    <3>1. Selected' = Selected /\ \A x : Listed(x)' = Listed(x)
      BY <2>2, SameListing
    <3>2. Verified' /\ SuccessMeansInstalled'
      BY <2>2, <3>1 DEF FileInv, Verified, SuccessMeansInstalled, File, Name, Listed
    <3>3. \A x : InPlace(x)' <=> InPlace(x)
      BY <2>2, <3>1 DEF InPlace
    <3>4. Installed'
      BY <2>2, <3>1, <3>3 DEF FileInv, Installed
    <3>5. Held'
      <4> SUFFICES ASSUME NEW p \in Procs, Holding(p)'
                   PROVE  (lock[Name(p)].owner)' = p
        BY DEF Held
      <4>1. Holding(p) /\ Name(p)' = Name(p)
        BY <2>2 DEF Holding, Name, File, Listed
      <4> QED
        BY <2>2, <4>1, HoldingTypes DEF FileInv, Held, LockInv
    <3> QED
      BY <3>2, <3>4, <3>5 DEF FileInv
  <2>3. ASSUME NEW n \in Names, LockAges(n)
        PROVE  FileInv'
    <3>1. UNCHANGED <<hub, proc, stage, dest>> /\ lock' = [lock EXCEPT ![n].old = TRUE]
      BY <2>3, AgesKept DEF LockInv
    <3>2. \A m \in Names : lock'[m].owner = lock[m].owner
      BY <3>1 DEF LockInv, Types, LockRecord
    <3> QED
      BY <2>2, <3>1, <3>2
  <2>4. CASE UNCHANGED vars
    BY <2>2, <2>4 DEF vars
  <2> QED
    BY <2>1, <2>3, <2>4, NextCases DEF LockInv
<1> QED
  BY LockInvariance, <1>1, <1>2, PTL DEF Spec

\* As long as no lock of a process that lives is taken away, any number of
\* processes put only verified files at final paths (downloader.ts: "Files land
\* at their final path only after verification"), and exit code 0 means installed.
THEOREM LockTheorem ==
  Spec /\ []SparesTheLiving => LandsOnlyVerified /\ []SuccessMeansInstalled
<1>1. LockInv /\ FileInv /\ [Next]_vars =>
        [\A x \in Selected :
           LET e == Listed(x) IN dest'[e.name] # dest[e.name] => Matches(e, dest'[e.name])]_vars
  <2> SUFFICES ASSUME LockInv, FileInv, [Next]_vars, NEW x \in Selected,
                      dest'[Listed(x).name] # dest[Listed(x).name]
               PROVE  Matches(Listed(x), dest'[Listed(x).name])
    OBVIOUS
  <2>1. CASE UNCHANGED vars
    BY <2>1 DEF vars
  <2>2. ASSUME NEW n \in Names, LockAges(n)
        PROVE  FALSE
    BY <2>2, AgesKept DEF LockInv
  <2> QED
    BY <2>1, <2>2, NextCases, Lands DEF LockInv, FileInv
<1>2. FileInv => SuccessMeansInstalled
  BY DEF FileInv
<1> QED
  BY LockInvariance, FileInvariance, <1>1, <1>2, PTL DEF Spec, LandsOnlyVerified

\* Two processes put only verified files at final paths.
THEOREM VerifiedTheorem == ASSUME AtMostTwo PROVE Spec => LandsOnlyVerified
BY SpareTheorem, LockTheorem, PTL

\* Of two processes, one that ends with exit code 0 has installed everything,
\* whatever the other does: cli.ts goes on to the next file only from one that is
\* in place, and nothing in place is replaced by anything else.
THEOREM InstalledTheorem == ASSUME AtMostTwo PROVE Spec => []SuccessMeansInstalled
BY SpareTheorem, LockTheorem, PTL
=============================================================================
