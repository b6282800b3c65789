------------------------------ MODULE CacheLock ------------------------------
(***************************************************************************)
(* The package cache locks of util/cache_lock.rs, as several cargo         *)
(* processes use them at once.  Each process has a CacheLocker: two        *)
(* RecursiveLocks, each a file lock with a counter.  A call of lock or     *)
(* try_lock takes one file lock, or two in the order mutate, cache; every  *)
(* file lock taken is a step of its own, so that processes interleave      *)
(* between the two.  A process can be killed at any step, and the system   *)
(* then releases its file locks.                                           *)
(***************************************************************************)
EXTENDS Integers, FiniteSets

CONSTANTS
  Process,   \* the cargo processes that share CARGO_HOME
  ReadOnly,  \* those that may not write to it
  Budgets    \* {[Process -> how many times it locks]}: every command ends

ASSUME ReadOnlyProcesses == ReadOnly \subseteq Process
ASSUME BudgetsNatural == Budgets \subseteq [Process -> Nat]

VARIABLES
  count,        \* [Process -> [File -> RecursiveLock::count]]
  is_exclusive, \* [Process -> [File -> Style]], RecursiveLock::is_exclusive
  lock,         \* [Process -> [File -> Style or "none"]], what the system grants
  guards,       \* [Process -> [Mode -> the CacheLock guards alive]]
  pc,           \* [Process -> "run", or the file the call is locking]
  mode,         \* [Process -> the mode of the call]
  blocking,     \* [Process -> the BlockingMode of the call]
  calls         \* [Process -> calls left]

clvars == <<count, is_exclusive, lock, guards, pc, mode, blocking, calls>>

File == {"cache", "mutate"}
Style == {"shared", "exclusive"}
Mode == {"Shared", "DownloadExclusive", "MutateExclusive"}
BlockingMode == {"Blocking", "NonBlocking"}

CLInit ==
  /\ count = [p \in Process |-> [f \in File |-> 0]]
  /\ is_exclusive = [p \in Process |-> [f \in File |-> "shared"]]
  /\ lock = [p \in Process |-> [f \in File |-> "none"]]
  /\ guards = [p \in Process |-> [m \in Mode |-> 0]]
  /\ pc = [p \in Process |-> "run"]
  /\ mode = [p \in Process |-> "Shared"]
  /\ blocking = [p \in Process |-> "Blocking"]
  /\ calls \in Budgets
-----------------------------------------------------------------------------
(* File locks. *)

\* Both ways of opening the lock file ask for read and write access.
OpenRwExclusive(p) == p \notin ReadOnly

OpenRoShared(p) == p \notin ReadOnly

\* The system grants the lock when no other process holds it in conflict.
Grantable(p, f, style) == \A q \in Process \ {p} :
  IF style = "shared" THEN lock[q][f] # "exclusive" ELSE lock[q][f] = "none"

\* The style in which the call of p locks its files.
StyleOf(p) == IF mode[p] = "Shared" THEN "shared" ELSE "exclusive"

Opens(p) == IF StyleOf(p) = "shared" THEN OpenRoShared(p) ELSE OpenRwExclusive(p)
-----------------------------------------------------------------------------
(* Calls. *)

\* Mutants: a check is missing.
PanicsNotOnUpgrade(p, m) ==
  m = "Shared" /\ count[p]["cache"] > 0 /\ count[p]["mutate"] = 0

\* lock_exclusive and CacheState::lock panic on these; no call site does it.
Panics(p, m) ==
  \/ m = "Shared" /\ count[p]["cache"] > 0 /\ count[p]["mutate"] = 0
  \/ m = "MutateExclusive" /\ count[p]["mutate"] > 0 /\ is_exclusive[p]["mutate"] = "shared"

\* How the call sites nest: Gc::new and clean block for MutateExclusive with
\* nothing held or under MutateExclusive; auto_gc only tries.
CallSite(p, m, b) ==
  m = "MutateExclusive" /\ b = "Blocking" => count[p]["cache"] = 0 \/ count[p]["mutate"] > 0

Call(p, m, b) ==
  /\ pc[p] = "run"
  /\ calls[p] > 0
  /\ ~Panics(p, m)
  /\ CallSite(p, m, b)
  /\ pc' = [pc EXCEPT ![p] = IF m = "DownloadExclusive" THEN "cache" ELSE "mutate"]
  /\ mode' = [mode EXCEPT ![p] = m]
  /\ blocking' = [blocking EXCEPT ![p] = b]
  /\ calls' = [calls EXCEPT ![p] = @ - 1]
  /\ UNCHANGED <<count, is_exclusive, lock, guards>>

\* The call returns and its arguments are gone.
Return(p) ==
  /\ pc' = [pc EXCEPT ![p] = "run"]
  /\ mode' = [mode EXCEPT ![p] = "Shared"]
  /\ blocking' = [blocking EXCEPT ![p] = "Blocking"]
  /\ UNCHANGED calls

\* The file lock is taken: MutateExclusive goes on to the second file, the other
\* calls return a guard.
LockAcquired(p) ==
  /\ count' = [count EXCEPT ![p][pc[p]] = @ + 1]
  /\ IF mode[p] = "MutateExclusive" /\ pc[p] = "mutate"
     THEN /\ pc' = [pc EXCEPT ![p] = "cache"]
          /\ UNCHANGED <<guards, mode, blocking, calls>>
     ELSE /\ guards' = [guards EXCEPT ![p][mode[p]] = @ + 1]
          /\ Return(p)

\* RecursiveLock::decrement, on some of the files.
Decremented(p, files) ==
  /\ count' = [count EXCEPT ![p] = [f \in File |-> IF f \in files THEN @[f] - 1 ELSE @[f]]]
  /\ lock' = [lock EXCEPT ![p] = [f \in File |->
       IF f \in files /\ count[p][f] = 1 THEN "none" ELSE @[f]]]

\* The call returns without a guard; what it took of the first file it gives back.
Abandoned(p) ==
  /\ Decremented(p, IF mode[p] = "MutateExclusive" /\ pc[p] = "cache" THEN {"mutate"} ELSE {})
  /\ Return(p)
  /\ UNCHANGED guards

\* The process holds the file lock already.
Recursive(p) ==
  /\ pc[p] # "run"
  /\ count[p][pc[p]] > 0
  /\ LockAcquired(p)
  /\ UNCHANGED <<is_exclusive, lock>>

\* The file lock has to be asked of the system.
Asks(p) ==
  /\ pc[p] # "run"
  /\ count[p][pc[p]] = 0
  /\ is_exclusive' = [is_exclusive EXCEPT ![p][pc[p]] = StyleOf(p)]

Acquire(p) ==
  /\ Asks(p)
  /\ Opens(p)
  /\ Grantable(p, pc[p], StyleOf(p))
  /\ lock' = [lock EXCEPT ![p][pc[p]] = StyleOf(p)]
  /\ LockAcquired(p)

WouldBlock(p) ==
  /\ Asks(p)
  /\ Opens(p)
  /\ blocking[p] = "NonBlocking"
  /\ ~Grantable(p, pc[p], StyleOf(p))
  /\ Abandoned(p)

\* The file system is read-only to this process: the exclusive lock falls back to
\* a shared one, whose file is opened for writing too, and that is pretended.
Pretend(p) ==
  /\ Asks(p)
  /\ ~Opens(p) /\ ~OpenRoShared(p)
  /\ LockAcquired(p)
  /\ UNCHANGED lock

\* Any other error: a shared lock is pretended, an exclusive one is refused.
PretendOnError(p) ==
  /\ Asks(p)
  /\ StyleOf(p) = "shared"
  /\ Opens(p)
  /\ LockAcquired(p)
  /\ UNCHANGED lock

Fail(p) ==
  /\ Asks(p)
  /\ StyleOf(p) = "exclusive"
  /\ Opens(p)
  /\ Abandoned(p)

\* The files a guard stands for.
FilesOf(m) ==
  CASE m = "Shared" -> {"mutate"}
    [] m = "DownloadExclusive" -> {"cache"}
    [] m = "MutateExclusive" -> File

\* CacheLock::drop.
Drop(p, m) ==
  /\ pc[p] = "run"
  /\ guards[p][m] > 0
  /\ guards' = [guards EXCEPT ![p][m] = @ - 1]
  /\ Decremented(p, FilesOf(m))
  /\ UNCHANGED <<is_exclusive, pc, mode, blocking, calls>>

\* The process is killed; another cargo may take its place.
Crash(p) ==
  /\ pc[p] # "run" \/ \E f \in File : count[p][f] > 0
  /\ count' = [count EXCEPT ![p] = [f \in File |-> 0]]
  /\ is_exclusive' = [is_exclusive EXCEPT ![p] = [f \in File |-> "shared"]]
  /\ lock' = [lock EXCEPT ![p] = [f \in File |-> "none"]]
  /\ guards' = [guards EXCEPT ![p] = [m \in Mode |-> 0]]
  /\ Return(p)

LockStep(p) == Recursive(p) \/ Acquire(p) \/ WouldBlock(p) \/ Pretend(p)

CLNext == \E p \in Process :
  \/ \E m \in Mode, b \in BlockingMode : Call(p, m, b)
  \/ LockStep(p) \/ PretendOnError(p) \/ Fail(p)
  \/ \E m \in Mode : Drop(p, m)
  \/ Crash(p)

CLSpec == CLInit /\ [][CLNext]_clvars

Progress == \E p \in Process : LockStep(p) \/ \E m \in Mode : Drop(p, m)

\* Somebody who can take a file lock does, and every guard is dropped in the end:
\* the scopes that hold them are builds, resolutions and cleanups.  As calls are
\* bounded, no process need be treated fairly for all to get on.
CLFairSpec == CLSpec /\ WF_clvars(Progress)

-----------------------------------------------------------------------------
(* Properties. *)

\* Types of the lockers, the guards and the calls in progress.
CLTypeOK ==
  /\ count \in [Process -> [File -> Nat]]
  /\ is_exclusive \in [Process -> [File -> Style]]
  /\ lock \in [Process -> [File -> Style \union {"none"}]]
  /\ guards \in [Process -> [Mode -> Nat]]
  /\ pc \in [Process -> File \union {"run"}]
  /\ mode \in [Process -> Mode]
  /\ blocking \in [Process -> BlockingMode]
  /\ calls \in [Process -> Nat]

\* The part of the mutate count that belongs to a call still in progress.
Pending(p) == IF mode[p] = "MutateExclusive" /\ pc[p] = "cache" THEN 1 ELSE 0

\* The counters are the guards alive, whatever order guards are dropped in and
\* wherever a call fails: decrement never underflows, a failed MutateExclusive
\* leaves nothing behind, and a file lock is held only as long as it is counted.
CountsAreGuards == \A p \in Process :
  /\ count[p]["cache"] = guards[p]["DownloadExclusive"] + guards[p]["MutateExclusive"]
  /\ count[p]["mutate"] = guards[p]["Shared"] + guards[p]["MutateExclusive"] + Pending(p)
  /\ \A f \in File : lock[p][f] # "none" => count[p][f] > 0

\* What a process does with a guard whose file locks the system really granted.
Reads(p) == guards[p]["Shared"] > 0 /\ lock[p]["mutate"] # "none"
Downloads(p) == guards[p]["DownloadExclusive"] > 0 /\ lock[p]["cache"] # "none"
Mutates(p) == guards[p]["MutateExclusive"] > 0 /\ \A f \in File : lock[p][f] # "none"

\* While one cargo deletes from the caches (MutateExclusive), no other reads,
\* downloads or deletes; at most one downloads at a time.  Readers and a
\* downloader do run together.
CacheExclusion == \A p, q \in Process : p # q =>
  /\ Mutates(p) => ~Reads(q) /\ ~Downloads(q) /\ ~Mutates(q)
  /\ Downloads(p) => ~Downloads(q)

\* A process in lock that sleeps until another one lets go of the file.
Blocked(p) ==
  /\ pc[p] # "run"
  /\ count[p][pc[p]] = 0
  /\ Opens(p)
  /\ blocking[p] = "Blocking"
  /\ ~Grantable(p, pc[p], StyleOf(p))

WaitsFor(p) == {q \in Process \ {p} :
  IF StyleOf(p) = "shared" THEN lock[q][pc[p]] = "exclusive" ELSE lock[q][pc[p]] # "none"}

\* The rule of taking mutate before cache prevents deadlock: whoever holds the
\* cache file runs, and whoever holds the mutate file runs or waits for the cache.
WaitChainsEnd == \A p \in Process : Blocked(p) => \A q \in WaitsFor(p) : Blocked(q) =>
  /\ pc[p] = "mutate" /\ pc[q] = "cache"
  /\ \A r \in WaitsFor(q) : ~Blocked(r)

\* assert_package_cache_locked tells the truth: it passes exactly when the process
\* has a guard that covers the mode.  (For MutateExclusive, which nothing asserts,
\* it never fails wrongly.)
is_locked(p, m) ==
  CASE m = "Shared" -> count[p]["mutate"] > 0
    [] m = "DownloadExclusive" -> count[p]["cache"] > 0
    [] m = "MutateExclusive" -> count[p]["mutate"] > 0 /\ is_exclusive[p]["mutate"] = "exclusive"

IsLockedTruthful == \A p \in Process : pc[p] = "run" =>
  /\ \A m \in {"Shared", "DownloadExclusive"} :
       is_locked(p, m) <=> guards[p][m] > 0 \/ guards[p]["MutateExclusive"] > 0
  /\ guards[p]["MutateExclusive"] > 0 => is_locked(p, "MutateExclusive")

\* Guards are counted exactly, they exclude what they are for, and waiting for them ends.
LocksRight == CountsAreGuards /\ CacheExclusion /\ WaitChainsEnd /\ IsLockedTruthful

\* However calls and errors interleave, every call of lock and try_lock returns, and
\* no file stays locked once the guards are gone.
CallsReturn == []<>(\A p \in Process : pc[p] = "run" /\ \A f \in File : lock[p][f] = "none")
=============================================================================
