------------------------------ MODULE BuildDir ------------------------------
(***************************************************************************)
(* Several cargo processes in one build directory: the locks of            *)
(* compiler/layout.rs, the planning pass of compiler/mod.rs (compile), in  *)
(* which fingerprints decide what is dirty, and the jobs that then write   *)
(* each dirty unit and its fingerprint.  Without -Zfine-grain-locking the  *)
(* directory is locked as a whole; with it, builds share the directory and *)
(* compiler/locking.rs locks each unit.  Processes can fail or be killed   *)
(* at any step; the system then releases their locks.                      *)
(***************************************************************************)
EXTENDS Integers, FiniteSets

CONSTANTS
  Process,    \* the cargo processes
  Unit,       \* the units of the build
  Deps,       \* [Unit -> the units it reads]
  Jobs,       \* how many jobs a process runs at once
  Configs     \* commands, flags and system: see below

ASSUME DepsTyped == Deps \in [Unit -> SUBSET Unit]
ASSUME JobsPositive == Jobs \in Nat \ {0}
ASSUME ConfigsTyped == \A c \in Configs :
  /\ c.kind \in [Process -> {"check", "build", "clean", "none"}]
  /\ c.scripts \subseteq Unit
  /\ c.fine_grain \in BOOLEAN
  /\ c.atomic \in BOOLEAN

VARIABLES
  config,    \* what is run, and where: one of Configs
  phase,     \* [Process -> where it is in the command]
  dir,       \* [Process -> [{"build", "artifact"} -> how it holds the lock]]
  lock,      \* [Process -> [Unit -> how it holds the unit's lock]]
  job,       \* [Process -> [Unit -> what became of the unit]]
  status,    \* [Process -> [Unit -> the FsStatus it computed]]
  valid,     \* units whose fingerprint on disk is the one of the sources
  edited,    \* units whose dep-info is missing or older than their sources
  outdated,  \* units whose outputs are older than those of a dependency
  outputs    \* [Unit -> what is on disk of its outputs]

disk == <<valid, edited, outdated, outputs>>
bdvars == <<config, phase, dir, lock, job, status, valid, edited, outdated, outputs>>

Kind == config.kind              \* the command of each process; clean is with -p
Scripts == config.scripts        \* the units that run a build script
FineGrain == config.fine_grain   \* is -Zfine-grain-locking given?
AtomicDowngrade == config.atomic \* does an exclusive lock become a shared one in one step?

\* "planning": the unit's lock is held and its fingerprint examined; "queued":
\* dirty, in the job queue; "locking", ..., "downgrading": a job thread is at work;
\* "rmeta": the metadata is there, code generation goes on.
JobState == {"unplanned", "planning", "fresh", "queued", "locking", "compiling", "rmeta",
             "compiled", "locked", "downgrading", "done", "failed"}

Working == {"locking", "compiling", "rmeta", "compiled", "locked", "downgrading"}
Writing == {"compiling", "rmeta"}

Dependents(u) == {v \in Unit : u \in Deps[v]}

\* u and everything below it: what is in every set that has u and all that its members read.
Below == [u \in Unit |-> {v \in Unit :
  \A S \in SUBSET Unit : u \in S /\ (\A w \in S : Deps[w] \subseteq S) => v \in S}]

\* check_filesystem: outputs are there and newer, all the way down.
UpToDate(u) == \A v \in Below[u] : v \notin edited \union outdated /\ outputs[v] # "absent"

\* Anything may have been built before, and sources edited since.
BDInit ==
  /\ config \in Configs
  /\ phase = [p \in Process |-> IF Kind[p] = "none" THEN "done" ELSE "start"]
  /\ dir = [p \in Process |-> [d \in {"build", "artifact"} |-> "none"]]
  /\ lock = [p \in Process |-> [u \in Unit |-> "none"]]
  /\ job = [p \in Process |-> [u \in Unit |-> "unplanned"]]
  /\ status = [p \in Process |-> [u \in Unit |-> "unknown"]]
  /\ valid \in {S \in SUBSET Unit : \A u \in S : Deps[u] \subseteq S}
  /\ edited \in {S \in SUBSET Unit : Unit \ valid \subseteq S}
  /\ outdated = {}
  /\ outputs = [u \in Unit |-> IF u \in valid THEN "complete" ELSE "absent"]
-----------------------------------------------------------------------------
(* Locks of the whole directory. *)

\* No other process holds the lock in conflict with the style.
Free(p, held, style) == \A q \in Process \ {p} :
  IF style = "shared" THEN held[q] # "exclusive" ELSE held[q] = "none"

BuildDirStyle(p) == IF FineGrain /\ Kind[p] # "clean" THEN "shared" ELSE "exclusive"

LockBuildDir(p) ==
  /\ phase[p] = "start"
  /\ Free(p, [q \in Process |-> dir[q]["build"]], BuildDirStyle(p))
  /\ dir' = [dir EXCEPT ![p]["build"] = BuildDirStyle(p)]
  /\ phase' = [phase EXCEPT ![p] = "layout"]
  /\ UNCHANGED <<lock, job, status, disk>>

\* cargo check leaves the artifact directory alone.
LockArtifactDir(p) ==
  /\ phase[p] = "layout"
  /\ Kind[p] # "check" => Free(p, [q \in Process |-> dir[q]["artifact"]], "exclusive")
  /\ dir' = IF Kind[p] = "check" THEN dir ELSE [dir EXCEPT ![p]["artifact"] = "exclusive"]
  /\ phase' = [phase EXCEPT ![p] = IF Kind[p] = "clean" THEN "clean" ELSE "plan"]
  /\ UNCHANGED <<lock, job, status, disk>>

\* The process ends or is killed: all its locks are released.
Released(p) ==
  /\ phase' = [phase EXCEPT ![p] = "done"]
  /\ dir' = [dir EXCEPT ![p] = [d \in {"build", "artifact"} |-> "none"]]
  /\ lock' = [lock EXCEPT ![p] = [u \in Unit |-> "none"]]
  /\ job' = [job EXCEPT ![p] = [u \in Unit |-> "unplanned"]]
  /\ status' = [status EXCEPT ![p] = [u \in Unit |-> "unknown"]]

\* The fingerprints, with the dep-info, and the outputs of some units go; of more of
\* the one than of the other when the process is killed meanwhile.
Clean(p) ==
  /\ phase[p] = "clean"
  /\ \E fingerprints, files \in SUBSET Unit :
       /\ valid' = valid \ fingerprints
       /\ edited' = edited \union fingerprints
       /\ outputs' = [u \in Unit |-> IF u \in files THEN "absent" ELSE outputs[u]]
  /\ Released(p)
  /\ UNCHANGED outdated

Crash(p) ==
  /\ phase[p] # "done"
  /\ Released(p)
  /\ UNCHANGED disk
-----------------------------------------------------------------------------
(* Planning: compile and prepare_target. *)

UnitFree(p, u, style) == Free(p, [q \in Process |-> lock[q][u]], style)

\* compile goes from the roots to the dependencies, a unit at a time.
PlanUnit(p, u) ==
  /\ phase[p] = "plan"
  /\ job[p][u] = "unplanned"
  /\ \A v \in Unit : job[p][v] # "planning"
  /\ Dependents(u) # {} => \E v \in Dependents(u) : job[p][v] # "unplanned"
  /\ FineGrain => UnitFree(p, u, "shared")
  /\ lock' = IF FineGrain THEN [lock EXCEPT ![p][u] = "shared"] ELSE lock
  /\ job' = [job EXCEPT ![p][u] = "planning"]
  /\ UNCHANGED <<phase, dir, status, disk>>

\* calculate: the status of the unit and of all below it is computed the first time
\* it is needed, and kept.
Calculated(p, u) == [status EXCEPT ![p] = [v \in Unit |->
  IF v \in Below[u] /\ @[v] = "unknown"
  THEN IF UpToDate(v) THEN "fresh" ELSE "stale"
  ELSE @[v]]]

\* compare_old_fingerprint reads the fingerprint itself from disk.
PlanFresh(p, u) ==
  /\ job[p][u] = "planning"
  /\ status' = Calculated(p, u)
  /\ u \in valid /\ status'[p][u] = "fresh"
  /\ job' = [job EXCEPT ![p][u] = "fresh"]
  /\ UNCHANGED <<phase, dir, lock, disk>>

\* Mutant: the old fingerprint stays until the new one is written.
PlanDirtyKeepsFingerprint(p, u) ==
  /\ job[p][u] = "planning"
  /\ status' = Calculated(p, u)
  /\ ~(u \in valid /\ status'[p][u] = "fresh")
  /\ lock' = IF u \in Scripts THEN lock ELSE [lock EXCEPT ![p][u] = "none"]
  /\ job' = [job EXCEPT ![p][u] = "queued"]
  /\ UNCHANGED <<phase, dir, disk>>

\* The old fingerprint is cleared, and the unit's lock given back until its job
\* runs; a build script keeps the lock it has.
PlanDirty(p, u) ==
  /\ job[p][u] = "planning"
  /\ status' = Calculated(p, u)
  /\ ~(u \in valid /\ status'[p][u] = "fresh")
  /\ valid' = valid \ {u}
  /\ lock' = IF u \in Scripts THEN lock ELSE [lock EXCEPT ![p][u] = "none"]
  /\ job' = [job EXCEPT ![p][u] = "queued"]
  /\ UNCHANGED <<phase, dir, edited, outdated, outputs>>

Execute(p) ==
  /\ phase[p] = "plan"
  /\ \A u \in Unit : job[p][u] \in {"fresh", "queued"}
  /\ phase' = [phase EXCEPT ![p] = "execute"]
  /\ UNCHANGED <<dir, lock, job, status, disk>>
-----------------------------------------------------------------------------
(* Jobs. *)

\* The job queue starts a job when its inputs are there: of a library the metadata,
\* of a build script all it does.
InputReady(p, d) ==
  job[p][d] \in {"fresh", "done"} \union
    IF d \in Scripts THEN {} ELSE {"rmeta", "compiled", "locked", "downgrading"}

StartJob(p, u) ==
  /\ phase[p] = "execute"
  /\ job[p][u] = "queued"
  /\ \A d \in Deps[u] : InputReady(p, d)
  /\ \A v \in Unit : job[p][v] # "failed"
  /\ Cardinality({v \in Unit : job[p][v] \in Working}) < Jobs
  /\ job' = [job EXCEPT ![p][u] = "locking"]
  /\ UNCHANGED <<phase, dir, lock, status, disk>>

\* Only jobs that run the compiler lock their unit.
LocksUnit(u) == FineGrain /\ u \notin Scripts

\* The job begins to write: its outputs are newer than what they are made of, and
\* older than them is what was made from them.
LockExclusive(p, u) ==
  /\ job[p][u] = "locking"
  /\ LocksUnit(u) => UnitFree(p, u, "exclusive")
  /\ lock' = IF LocksUnit(u) THEN [lock EXCEPT ![p][u] = "exclusive"] ELSE lock
  /\ job' = [job EXCEPT ![p][u] = "compiling"]
  /\ outputs' = [outputs EXCEPT ![u] = "partial"]
  /\ outdated' = (outdated \ {u}) \union Dependents(u)
  /\ UNCHANGED <<phase, dir, status, valid, edited>>

RmetaProduced(p, u) ==
  /\ job[p][u] = "compiling"
  /\ job' = [job EXCEPT ![p][u] = "rmeta"]
  /\ UNCHANGED <<phase, dir, lock, status, disk>>

\* With the last output the dep-info is there too.
Compiled(p, u) ==
  /\ job[p][u] = "rmeta"
  /\ edited' = edited \ {u}
  /\ outputs' = [outputs EXCEPT ![u] = "complete"]
  /\ job' = [job EXCEPT ![p][u] = "compiled"]
  /\ UNCHANGED <<phase, dir, lock, status, valid, outdated>>

WriteFingerprint(p, u) ==
  /\ job[p][u] = "compiled"
  /\ valid' = valid \union {u}
  /\ job' = [job EXCEPT ![p][u] = IF LocksUnit(u) THEN "locked" ELSE "done"]
  /\ UNCHANGED <<phase, dir, lock, status, edited, outdated, outputs>>

\* Where the system converts a lock in two steps, others may get it in between.
DowngradeRelease(p, u) ==
  /\ ~AtomicDowngrade
  /\ job[p][u] = "locked"
  /\ lock' = [lock EXCEPT ![p][u] = "none"]
  /\ job' = [job EXCEPT ![p][u] = "downgrading"]
  /\ UNCHANGED <<phase, dir, status, disk>>

DowngradeToShared(p, u) ==
  /\ job[p][u] = IF AtomicDowngrade THEN "locked" ELSE "downgrading"
  /\ UnitFree(p, u, "shared")
  /\ lock' = [lock EXCEPT ![p][u] = "shared"]
  /\ job' = [job EXCEPT ![p][u] = "done"]
  /\ UNCHANGED <<phase, dir, status, disk>>

\* The compiler fails: the rest of the job is skipped, the lock stays.
JobFails(p, u) ==
  /\ job[p][u] \in Writing
  /\ job' = [job EXCEPT ![p][u] = "failed"]
  /\ UNCHANGED <<phase, dir, lock, status, disk>>

\* Nothing is left to do, or a job failed and the others ended.
Exit(p) ==
  /\ phase[p] = "execute"
  /\ \A u \in Unit : job[p][u] \notin Working
  /\ (\E u \in Unit : job[p][u] = "failed") \/ (\A u \in Unit : job[p][u] \in {"fresh", "done"})
  /\ Released(p)
  /\ UNCHANGED disk

Step(p) ==
  /\ UNCHANGED config
  /\ \/ LockBuildDir(p) \/ LockArtifactDir(p) \/ Clean(p) \/ Execute(p) \/ Exit(p)
     \/ \E u \in Unit :
          \/ PlanUnit(p, u) \/ PlanFresh(p, u) \/ PlanDirty(p, u)
          \/ StartJob(p, u) \/ LockExclusive(p, u) \/ RmetaProduced(p, u) \/ Compiled(p, u)
          \/ WriteFingerprint(p, u) \/ DowngradeRelease(p, u) \/ DowngradeToShared(p, u)

Fault(p) == UNCHANGED config /\ (Crash(p) \/ \E u \in Unit : JobFails(p, u))

BDNext == \E p \in Process : Step(p) \/ Fault(p)

BDSpec == BDInit /\ [][BDNext]_bdvars

\* Every process that can go on does; compilers end.
BDFairSpec == BDSpec /\ \A p \in Process : WF_bdvars(Step(p))
-----------------------------------------------------------------------------
(* Properties. *)

Writes(p, u) == job[p][u] \in Writing

\* "We will hold this shared lock for the remainder of compilation to prevent other
\* cargo from re-compiling while we are still using the unit", compile: a unit that a
\* process writes, found fresh or has built is not written by another until the process
\* ends. (A build script only ever has the shared lock, and two cargos may run it at once.)
UsedUnitsKept == \A p, q \in Process, u \in Unit :
  p # q /\ (LocksUnit(u) \/ ~FineGrain) /\ (Writes(p, u) \/ job[p][u] \in {"fresh", "done"})
    => ~Writes(q, u)

\* Without -Zfine-grain-locking, what a process found fresh, by a status it may have
\* computed long before, or has built, is complete and stays so until the process ends:
\* neither other builds nor cargo clean take it away.
UsedUnitsComplete == ~FineGrain =>
  \A p \in Process, u \in Unit : job[p][u] \in {"fresh", "done"} => outputs[u] = "complete"

\* "Clearing the fingerprint ... ensures that Cargo never mistakes a partially
\* written output as up-to-date", prepare_target: whenever and wherever processes
\* are killed, what the next planning pass would find fresh is complete.
FreshIsComplete == \A u \in Unit :
  u \in valid /\ UpToDate(u) /\ (\A p \in Process : ~Writes(p, u)) => outputs[u] = "complete"

\* The same, where the build directory is locked as a whole.
LockedFreshIsComplete == ~FineGrain => FreshIsComplete

\* What a build uses or would find fresh is complete, and nobody writes what another uses.
UnitsComplete == UsedUnitsComplete /\ LockedFreshIsComplete /\ UsedUnitsKept

\* Without -Zfine-grain-locking no processes wait for each other: every process ends.
AllEnded == FineGrain \/ \A p \in Process : phase[p] = "done"
=============================================================================
