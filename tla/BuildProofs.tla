---------------------------- MODULE BuildProofs -----------------------------
(***************************************************************************)
(* Proofs about what a build shares: the build directory, among cargo      *)
(* processes, and the message queue, among the threads of one.             *)
(***************************************************************************)
EXTENDS BuildDir, MessageQueue, FiniteSetTheorems, TLAPS

-----------------------------------------------------------------------------
(***************************************************************************)
(* The build directory, for any number of cargo processes, any graph of    *)
(* units and any number of jobs.                                           *)
(***************************************************************************)

Held == {"none", "shared", "exclusive"}

\* The values the variables take.
BDTypeOK ==
  /\ config \in Configs
  /\ phase \in [Process -> {"start", "layout", "clean", "plan", "execute", "done"}]
  /\ dir \in [Process -> [{"build", "artifact"} -> Held]]
  /\ lock \in [Process -> [Unit -> Held]]
  /\ job \in [Process -> [Unit -> JobState]]
  /\ status \in [Process -> [Unit -> {"unknown", "fresh", "stale"}]]
  /\ valid \in SUBSET Unit /\ edited \in SUBSET Unit /\ outdated \in SUBSET Unit
  /\ outputs \in [Unit -> {"absent", "partial", "complete"}]

\* With -Zfine-grain-locking a job that writes has its unit's lock for itself, and a
\* process has the shared lock of what it uses.
UnitsLocked == FineGrain => \A p \in Process, u \in Unit :
  /\ LocksUnit(u) /\ job[p][u] \in {"compiling", "rmeta", "compiled", "locked", "failed"}
       => lock[p][u] = "exclusive"
  /\ LocksUnit(u) /\ job[p][u] \in {"planning", "fresh", "done"} => lock[p][u] = "shared"
  /\ lock[p][u] = "exclusive" => \A q \in Process \ {p} : lock[q][u] = "none"

Active(p) == phase[p] \in {"layout", "clean", "plan", "execute"}

\* Without it, one process at a time is between taking and releasing the directory; the
\* others have planned nothing.
DirOwned == ~FineGrain => \A p \in Process :
  /\ Active(p) => dir[p]["build"] = "exclusive"
  /\ dir[p]["build"] = "exclusive" => \A q \in Process \ {p} : dir[q]["build"] = "none"

\* What a job may be at, in each phase of its process.
JobsInPhase == \A p \in Process, u \in Unit :
  /\ job[p][u] # "unplanned" => phase[p] \in {"plan", "execute"}
  /\ job[p][u] = "planning" => phase[p] = "plan"
  /\ job[p][u] \in Working \union {"done", "failed"} => phase[p] = "execute"
  /\ status[p][u] # "unknown" => phase[p] \in {"plan", "execute"}

\* Without it, a unit has no fingerprint while its outputs are in pieces ...
Whole(u) == u \in valid => outputs[u] # "partial"

\* ... a job that is to write a unit has cleared its fingerprint, one that has written it
\* completed it, and what was found up to date remains so until the first job runs.
DiskAt(p, u) ==
  /\ job[p][u] \in {"queued", "locking", "compiling", "rmeta", "compiled", "failed"} => u \notin valid
  /\ job[p][u] \in {"fresh", "compiled", "locked", "downgrading", "done"} => outputs[u] = "complete"
  /\ phase[p] = "plan" /\ status[p][u] = "fresh" => UpToDate(u)

DiskInv == ~FineGrain =>
  (\A u \in Unit : Whole(u)) /\ (\A p \in Process, u \in Unit : DiskAt(p, u))

BDInv == BDTypeOK /\ UnitsLocked /\ DirOwned /\ JobsInPhase /\ DiskInv
-----------------------------------------------------------------------------
(* Types. *)

\* What a process that ends leaves behind is well typed.
LEMMA ReleasedTyped ==
  ASSUME BDTypeOK, NEW p \in Process, Released(p)
  PROVE  /\ phase' \in [Process -> {"start", "layout", "clean", "plan", "execute", "done"}]
         /\ dir' \in [Process -> [{"build", "artifact"} -> Held]]
         /\ lock' \in [Process -> [Unit -> Held]]
         /\ job' \in [Process -> [Unit -> JobState]]
         /\ status' \in [Process -> [Unit -> {"unknown", "fresh", "stale"}]]
  BY DEF BDTypeOK, Released, Held, JobState

\* The cached statuses stay well typed when calculate adds some.
LEMMA CalculatedTyped ==
  ASSUME BDTypeOK, NEW p \in Process, NEW u \in Unit
  PROVE  Calculated(p, u) \in [Process -> [Unit -> {"unknown", "fresh", "stale"}]]
  BY DEF BDTypeOK, Calculated

\* Every step keeps the types.
LEMMA TypeStep ==
  ASSUME BDTypeOK, [BDNext]_bdvars
  PROVE  BDTypeOK'
  <1>1. CASE UNCHANGED bdvars
    BY <1>1 DEF BDTypeOK, bdvars
  <1>2. ASSUME NEW p \in Process, UNCHANGED config, LockBuildDir(p) PROVE BDTypeOK'
    BY <1>2 DEF BDTypeOK, LockBuildDir, BuildDirStyle, disk, Held
  <1>3. ASSUME NEW p \in Process, UNCHANGED config, LockArtifactDir(p) PROVE BDTypeOK'
    BY <1>3 DEF BDTypeOK, LockArtifactDir, disk, Held
  <1>4. ASSUME NEW p \in Process, UNCHANGED config, Clean(p) PROVE BDTypeOK'
    BY <1>4, ReleasedTyped DEF BDTypeOK, Clean
  <1>5. ASSUME NEW p \in Process, UNCHANGED config, Execute(p) PROVE BDTypeOK'
    BY <1>5 DEF BDTypeOK, Execute, disk
  <1>6. ASSUME NEW p \in Process, UNCHANGED config, Exit(p) PROVE BDTypeOK'
    BY <1>6, ReleasedTyped DEF BDTypeOK, Exit, disk
  <1>7. ASSUME NEW p \in Process, UNCHANGED config, Crash(p) PROVE BDTypeOK'
    BY <1>7, ReleasedTyped DEF BDTypeOK, Crash, disk
  <1>8. ASSUME NEW p \in Process, NEW u \in Unit, UNCHANGED config, PlanUnit(p, u) PROVE BDTypeOK'
    BY <1>8 DEF BDTypeOK, PlanUnit, disk, Held, JobState
  <1>9. ASSUME NEW p \in Process, NEW u \in Unit, UNCHANGED config, PlanFresh(p, u) PROVE BDTypeOK'
    BY <1>9, CalculatedTyped DEF BDTypeOK, PlanFresh, disk, JobState
  <1>10. ASSUME NEW p \in Process, NEW u \in Unit, UNCHANGED config, PlanDirty(p, u) PROVE BDTypeOK'
    BY <1>10, CalculatedTyped DEF BDTypeOK, PlanDirty, Held, JobState
  <1>11. ASSUME NEW p \in Process, NEW u \in Unit, UNCHANGED config, StartJob(p, u) PROVE BDTypeOK'
    BY <1>11 DEF BDTypeOK, StartJob, disk, JobState
  <1>12. ASSUME NEW p \in Process, NEW u \in Unit, UNCHANGED config, LockExclusive(p, u) PROVE BDTypeOK'
    BY <1>12, DepsTyped DEF BDTypeOK, LockExclusive, Dependents, Held, JobState
  <1>13. ASSUME NEW p \in Process, NEW u \in Unit, UNCHANGED config, RmetaProduced(p, u) PROVE BDTypeOK'
    BY <1>13 DEF BDTypeOK, RmetaProduced, disk, JobState
  <1>14. ASSUME NEW p \in Process, NEW u \in Unit, UNCHANGED config, Compiled(p, u) PROVE BDTypeOK'
    BY <1>14 DEF BDTypeOK, Compiled, JobState
  <1>15. ASSUME NEW p \in Process, NEW u \in Unit, UNCHANGED config, WriteFingerprint(p, u) PROVE BDTypeOK'
    BY <1>15 DEF BDTypeOK, WriteFingerprint, JobState
  <1>16. ASSUME NEW p \in Process, NEW u \in Unit, UNCHANGED config, DowngradeRelease(p, u) PROVE BDTypeOK'
    BY <1>16 DEF BDTypeOK, DowngradeRelease, disk, Held, JobState
  <1>17. ASSUME NEW p \in Process, NEW u \in Unit, UNCHANGED config, DowngradeToShared(p, u) PROVE BDTypeOK'
    BY <1>17 DEF BDTypeOK, DowngradeToShared, disk, Held, JobState
  <1>18. ASSUME NEW p \in Process, NEW u \in Unit, UNCHANGED config, JobFails(p, u) PROVE BDTypeOK'
    BY <1>18 DEF BDTypeOK, JobFails, disk, JobState
  <1>19. QED
    BY <1>1, <1>2, <1>3, <1>4, <1>5, <1>6, <1>7, <1>8, <1>9, <1>10, <1>11, <1>12,
       <1>13, <1>14, <1>15, <1>16, <1>17, <1>18
    DEF BDNext, Step, Fault
-----------------------------------------------------------------------------
(* Locks and phases. *)

\* The build directory passes from one process to the next: LockBuildDir waits for the
\* holder to end.
LEMMA DirStep ==
  ASSUME BDTypeOK, DirOwned, [BDNext]_bdvars
  PROVE  DirOwned'
  <1>1. CASE UNCHANGED bdvars
    BY <1>1 DEF BDTypeOK, DirOwned, FineGrain, Active, bdvars
  <1>2. ASSUME NEW p \in Process, UNCHANGED config, LockBuildDir(p) PROVE DirOwned'
    BY <1>2 DEF BDTypeOK, DirOwned, FineGrain, Active, LockBuildDir, BuildDirStyle, Free
  <1>3. ASSUME NEW p \in Process, UNCHANGED config, LockArtifactDir(p) PROVE DirOwned'
    BY <1>3 DEF BDTypeOK, DirOwned, FineGrain, Active, LockArtifactDir
  <1>4. ASSUME NEW p \in Process, UNCHANGED config, Clean(p) PROVE DirOwned'
    BY <1>4 DEF BDTypeOK, DirOwned, FineGrain, Active, Clean, Released
  <1>5. ASSUME NEW p \in Process, UNCHANGED config, Execute(p) PROVE DirOwned'
    BY <1>5 DEF BDTypeOK, DirOwned, FineGrain, Active, Execute
  <1>6. ASSUME NEW p \in Process, UNCHANGED config, Exit(p) PROVE DirOwned'
    BY <1>6 DEF BDTypeOK, DirOwned, FineGrain, Active, Exit, Released
  <1>7. ASSUME NEW p \in Process, UNCHANGED config, Crash(p) PROVE DirOwned'
    BY <1>7 DEF BDTypeOK, DirOwned, FineGrain, Active, Crash, Released
  <1>8. ASSUME NEW p \in Process, NEW u \in Unit, UNCHANGED config, PlanUnit(p, u) PROVE DirOwned'
    BY <1>8 DEF BDTypeOK, DirOwned, FineGrain, Active, PlanUnit
  <1>9. ASSUME NEW p \in Process, NEW u \in Unit, UNCHANGED config, PlanFresh(p, u) PROVE DirOwned'
    BY <1>9 DEF BDTypeOK, DirOwned, FineGrain, Active, PlanFresh
  <1>10. ASSUME NEW p \in Process, NEW u \in Unit, UNCHANGED config, PlanDirty(p, u) PROVE DirOwned'
    BY <1>10 DEF BDTypeOK, DirOwned, FineGrain, Active, PlanDirty
  <1>11. ASSUME NEW p \in Process, NEW u \in Unit, UNCHANGED config, StartJob(p, u) PROVE DirOwned'
    BY <1>11 DEF BDTypeOK, DirOwned, FineGrain, Active, StartJob
  <1>12. ASSUME NEW p \in Process, NEW u \in Unit, UNCHANGED config, LockExclusive(p, u) PROVE DirOwned'
    BY <1>12 DEF BDTypeOK, DirOwned, FineGrain, Active, LockExclusive
  <1>13. ASSUME NEW p \in Process, NEW u \in Unit, UNCHANGED config, RmetaProduced(p, u) PROVE DirOwned'
    BY <1>13 DEF BDTypeOK, DirOwned, FineGrain, Active, RmetaProduced
  <1>14. ASSUME NEW p \in Process, NEW u \in Unit, UNCHANGED config, Compiled(p, u) PROVE DirOwned'
    BY <1>14 DEF BDTypeOK, DirOwned, FineGrain, Active, Compiled
  <1>15. ASSUME NEW p \in Process, NEW u \in Unit, UNCHANGED config, WriteFingerprint(p, u) PROVE DirOwned'
    BY <1>15 DEF BDTypeOK, DirOwned, FineGrain, Active, WriteFingerprint
  <1>16. ASSUME NEW p \in Process, NEW u \in Unit, UNCHANGED config, DowngradeRelease(p, u) PROVE DirOwned'
    BY <1>16 DEF BDTypeOK, DirOwned, FineGrain, Active, DowngradeRelease
  <1>17. ASSUME NEW p \in Process, NEW u \in Unit, UNCHANGED config, DowngradeToShared(p, u) PROVE DirOwned'
    BY <1>17 DEF BDTypeOK, DirOwned, FineGrain, Active, DowngradeToShared
  <1>18. ASSUME NEW p \in Process, NEW u \in Unit, UNCHANGED config, JobFails(p, u) PROVE DirOwned'
    BY <1>18 DEF BDTypeOK, DirOwned, FineGrain, Active, JobFails
  <1>19. QED
    BY <1>1, <1>2, <1>3, <1>4, <1>5, <1>6, <1>7, <1>8, <1>9, <1>10, <1>11, <1>12,
       <1>13, <1>14, <1>15, <1>16, <1>17, <1>18, SMTT(30)
      DEF BDNext, Step, Fault

\* A job gets its unit's lock for itself when nobody else has it, and keeps it until its
\* fingerprint is written.
LEMMA LocksStep ==
  ASSUME BDTypeOK, UnitsLocked, [BDNext]_bdvars
  PROVE  UnitsLocked'
  <1>1. CASE UNCHANGED bdvars
    BY <1>1 DEF BDTypeOK, UnitsLocked, FineGrain, Scripts, LocksUnit, bdvars
  <1>2. ASSUME NEW p \in Process, UNCHANGED config, LockBuildDir(p) PROVE UnitsLocked'
    BY <1>2 DEF BDTypeOK, UnitsLocked, FineGrain, Scripts, LocksUnit, LockBuildDir
  <1>3. ASSUME NEW p \in Process, UNCHANGED config, LockArtifactDir(p) PROVE UnitsLocked'
    BY <1>3 DEF BDTypeOK, UnitsLocked, FineGrain, Scripts, LocksUnit, LockArtifactDir
  <1>4. ASSUME NEW p \in Process, UNCHANGED config, Clean(p) PROVE UnitsLocked'
    BY <1>4 DEF BDTypeOK, UnitsLocked, FineGrain, Scripts, LocksUnit, Clean, Released
  <1>5. ASSUME NEW p \in Process, UNCHANGED config, Execute(p) PROVE UnitsLocked'
    BY <1>5 DEF BDTypeOK, UnitsLocked, FineGrain, Scripts, LocksUnit, Execute
  <1>6. ASSUME NEW p \in Process, UNCHANGED config, Exit(p) PROVE UnitsLocked'
    BY <1>6 DEF BDTypeOK, UnitsLocked, FineGrain, Scripts, LocksUnit, Exit, Released
  <1>7. ASSUME NEW p \in Process, UNCHANGED config, Crash(p) PROVE UnitsLocked'
    BY <1>7 DEF BDTypeOK, UnitsLocked, FineGrain, Scripts, LocksUnit, Crash, Released
  <1>8. ASSUME NEW p \in Process, NEW u \in Unit, UNCHANGED config, PlanUnit(p, u) PROVE UnitsLocked'
    BY <1>8 DEF BDTypeOK, UnitsLocked, FineGrain, Scripts, LocksUnit, PlanUnit, UnitFree, Free
  <1>9. ASSUME NEW p \in Process, NEW u \in Unit, UNCHANGED config, PlanFresh(p, u) PROVE UnitsLocked'
    BY <1>9 DEF BDTypeOK, UnitsLocked, FineGrain, Scripts, LocksUnit, PlanFresh
  <1>10. ASSUME NEW p \in Process, NEW u \in Unit, UNCHANGED config, PlanDirty(p, u) PROVE UnitsLocked'
    BY <1>10 DEF BDTypeOK, UnitsLocked, FineGrain, Scripts, LocksUnit, PlanDirty
  <1>11. ASSUME NEW p \in Process, NEW u \in Unit, UNCHANGED config, StartJob(p, u) PROVE UnitsLocked'
    BY <1>11 DEF BDTypeOK, UnitsLocked, FineGrain, Scripts, LocksUnit, StartJob
  <1>12. ASSUME NEW p \in Process, NEW u \in Unit, UNCHANGED config, LockExclusive(p, u) PROVE UnitsLocked'
    BY <1>12 DEF BDTypeOK, UnitsLocked, FineGrain, Scripts, LocksUnit, LockExclusive, UnitFree, Free
  <1>13. ASSUME NEW p \in Process, NEW u \in Unit, UNCHANGED config, RmetaProduced(p, u) PROVE UnitsLocked'
    BY <1>13 DEF BDTypeOK, UnitsLocked, FineGrain, Scripts, LocksUnit, RmetaProduced
  <1>14. ASSUME NEW p \in Process, NEW u \in Unit, UNCHANGED config, Compiled(p, u) PROVE UnitsLocked'
    BY <1>14 DEF BDTypeOK, UnitsLocked, FineGrain, Scripts, LocksUnit, Compiled
  <1>15. ASSUME NEW p \in Process, NEW u \in Unit, UNCHANGED config, WriteFingerprint(p, u) PROVE UnitsLocked'
    BY <1>15 DEF BDTypeOK, UnitsLocked, FineGrain, Scripts, LocksUnit, WriteFingerprint
  <1>16. ASSUME NEW p \in Process, NEW u \in Unit, UNCHANGED config, DowngradeRelease(p, u) PROVE UnitsLocked'
    BY <1>16 DEF BDTypeOK, UnitsLocked, FineGrain, Scripts, LocksUnit, DowngradeRelease
  <1>17. ASSUME NEW p \in Process, NEW u \in Unit, UNCHANGED config, DowngradeToShared(p, u) PROVE UnitsLocked'
    BY <1>17 DEF BDTypeOK, UnitsLocked, FineGrain, Scripts, LocksUnit, DowngradeToShared, UnitFree, Free
  <1>18. ASSUME NEW p \in Process, NEW u \in Unit, UNCHANGED config, JobFails(p, u) PROVE UnitsLocked'
    BY <1>18 DEF BDTypeOK, UnitsLocked, FineGrain, Scripts, LocksUnit, JobFails, Writing
  <1>19. QED
    BY <1>1, <1>2, <1>3, <1>4, <1>5, <1>6, <1>7, <1>8, <1>9, <1>10, <1>11, <1>12,
       <1>13, <1>14, <1>15, <1>16, <1>17, <1>18, SMTT(30)
      DEF BDNext, Step, Fault

\* Jobs move on with their process.
LEMMA PhaseStep ==
  ASSUME BDTypeOK, JobsInPhase, [BDNext]_bdvars
  PROVE  JobsInPhase'
  <1>1. CASE UNCHANGED bdvars
    BY <1>1 DEF BDTypeOK, JobsInPhase, Working, bdvars
  <1>2. ASSUME NEW p \in Process, UNCHANGED config, LockBuildDir(p) PROVE JobsInPhase'
    BY <1>2 DEF BDTypeOK, JobsInPhase, Working, LockBuildDir
  <1>3. ASSUME NEW p \in Process, UNCHANGED config, LockArtifactDir(p) PROVE JobsInPhase'
    BY <1>3 DEF BDTypeOK, JobsInPhase, Working, LockArtifactDir
  <1>4. ASSUME NEW p \in Process, UNCHANGED config, Clean(p) PROVE JobsInPhase'
    BY <1>4 DEF BDTypeOK, JobsInPhase, Working, Clean, Released
  <1>5. ASSUME NEW p \in Process, UNCHANGED config, Execute(p) PROVE JobsInPhase'
    <2> SUFFICES ASSUME NEW q \in Process, NEW v \in Unit
                 PROVE  /\ job'[q][v] # "unplanned" => phase'[q] \in {"plan", "execute"}
                        /\ job'[q][v] = "planning" => phase'[q] = "plan"
                        /\ job'[q][v] \in Working \union {"done", "failed"} => phase'[q] = "execute"
                        /\ status'[q][v] # "unknown" => phase'[q] \in {"plan", "execute"}
      BY DEF JobsInPhase
    <2>1. CASE q = p
      BY <1>5, <2>1, Zenon DEF BDTypeOK, JobsInPhase, Execute
    <2>2. CASE q # p
      BY <1>5, <2>2 DEF BDTypeOK, JobsInPhase, Execute
    <2>3. QED
      BY <2>1, <2>2
  <1>6. ASSUME NEW p \in Process, UNCHANGED config, Exit(p) PROVE JobsInPhase'
    BY <1>6 DEF BDTypeOK, JobsInPhase, Working, Exit, Released
  <1>7. ASSUME NEW p \in Process, UNCHANGED config, Crash(p) PROVE JobsInPhase'
    BY <1>7 DEF BDTypeOK, JobsInPhase, Working, Crash, Released
  <1>8. ASSUME NEW p \in Process, NEW u \in Unit, UNCHANGED config, PlanUnit(p, u) PROVE JobsInPhase'
    BY <1>8 DEF BDTypeOK, JobsInPhase, Working, PlanUnit
  <1>9. ASSUME NEW p \in Process, NEW u \in Unit, UNCHANGED config, PlanFresh(p, u) PROVE JobsInPhase'
    BY <1>9 DEF BDTypeOK, JobsInPhase, Working, PlanFresh, Calculated
  <1>10. ASSUME NEW p \in Process, NEW u \in Unit, UNCHANGED config, PlanDirty(p, u) PROVE JobsInPhase'
    BY <1>10 DEF BDTypeOK, JobsInPhase, Working, PlanDirty, Calculated
  <1>11. ASSUME NEW p \in Process, NEW u \in Unit, UNCHANGED config, StartJob(p, u) PROVE JobsInPhase'
    BY <1>11 DEF BDTypeOK, JobsInPhase, Working, StartJob
  <1>12. ASSUME NEW p \in Process, NEW u \in Unit, UNCHANGED config, LockExclusive(p, u) PROVE JobsInPhase'
    BY <1>12 DEF BDTypeOK, JobsInPhase, Working, LockExclusive
  <1>13. ASSUME NEW p \in Process, NEW u \in Unit, UNCHANGED config, RmetaProduced(p, u) PROVE JobsInPhase'
    BY <1>13 DEF BDTypeOK, JobsInPhase, Working, RmetaProduced
  <1>14. ASSUME NEW p \in Process, NEW u \in Unit, UNCHANGED config, Compiled(p, u) PROVE JobsInPhase'
    BY <1>14 DEF BDTypeOK, JobsInPhase, Working, Compiled
  <1>15. ASSUME NEW p \in Process, NEW u \in Unit, UNCHANGED config, WriteFingerprint(p, u) PROVE JobsInPhase'
    BY <1>15 DEF BDTypeOK, JobsInPhase, Working, WriteFingerprint
  <1>16. ASSUME NEW p \in Process, NEW u \in Unit, UNCHANGED config, DowngradeRelease(p, u) PROVE JobsInPhase'
    BY <1>16 DEF BDTypeOK, JobsInPhase, Working, DowngradeRelease
  <1>17. ASSUME NEW p \in Process, NEW u \in Unit, UNCHANGED config, DowngradeToShared(p, u) PROVE JobsInPhase'
    BY <1>17 DEF BDTypeOK, JobsInPhase, Working, DowngradeToShared
  <1>18. ASSUME NEW p \in Process, NEW u \in Unit, UNCHANGED config, JobFails(p, u) PROVE JobsInPhase'
    BY <1>18 DEF BDTypeOK, JobsInPhase, Working, JobFails, Writing
  <1>19. QED
    BY <1>1, <1>2, <1>3, <1>4, <1>5, <1>6, <1>7, <1>8, <1>9, <1>10, <1>11, <1>12,
       <1>13, <1>14, <1>15, <1>16, <1>17, <1>18, SMTT(30)
      DEF BDNext, Step, Fault
-----------------------------------------------------------------------------
(* Fingerprints and outputs. *)

\* A unit is among those below it.
LEMMA BelowSelf ==
  ASSUME NEW u \in Unit
  PROVE  u \in Below[u]
  BY DEF Below

\* What is up to date depends on the dep-info, the ages and the presence of outputs only.
LEMMA UpToDateSame ==
  ASSUME NEW u \in Unit, UNCHANGED <<edited, outdated, outputs>>
  PROVE  UpToDate(u)' <=> UpToDate(u)
  BY DEF UpToDate

\* While a process has the directory, the others have planned nothing.
LEMMA OthersIdle ==
  ASSUME BDTypeOK, DirOwned, JobsInPhase, ~FineGrain,
         NEW p \in Process, Active(p), NEW q \in Process, q # p, NEW u \in Unit
  PROVE  phase[q] # "plan" /\ job[q][u] = "unplanned" /\ status[q][u] = "unknown"
  <1>1. ~Active(q)
    BY SMTT(30) DEF DirOwned
  <1>2. QED
    BY <1>1 DEF JobsInPhase, Active

\* A step of a process leaves the jobs, the phase and the statuses of the others alone.
LEMMA OthersStay ==
  ASSUME BDTypeOK, NEW p \in Process, Step(p) \/ Fault(p), NEW q \in Process, q # p
  PROVE  job'[q] = job[q] /\ phase'[q] = phase[q] /\ status'[q] = status[q]
  <1>1. ASSUME LockBuildDir(p) PROVE job'[q] = job[q] /\ phase'[q] = phase[q] /\ status'[q] = status[q]
    BY <1>1 DEF BDTypeOK, LockBuildDir
  <1>2. ASSUME LockArtifactDir(p) PROVE job'[q] = job[q] /\ phase'[q] = phase[q] /\ status'[q] = status[q]
    BY <1>2 DEF BDTypeOK, LockArtifactDir
  <1>3. ASSUME Clean(p) PROVE job'[q] = job[q] /\ phase'[q] = phase[q] /\ status'[q] = status[q]
    BY <1>3 DEF BDTypeOK, Clean, Released
  <1>4. ASSUME Execute(p) PROVE job'[q] = job[q] /\ phase'[q] = phase[q] /\ status'[q] = status[q]
    BY <1>4 DEF BDTypeOK, Execute
  <1>5. ASSUME Exit(p) PROVE job'[q] = job[q] /\ phase'[q] = phase[q] /\ status'[q] = status[q]
    BY <1>5 DEF BDTypeOK, Exit, Released
  <1>6. ASSUME Crash(p) PROVE job'[q] = job[q] /\ phase'[q] = phase[q] /\ status'[q] = status[q]
    BY <1>6 DEF BDTypeOK, Crash, Released
  <1>7. ASSUME NEW u \in Unit, PlanUnit(p, u) PROVE job'[q] = job[q] /\ phase'[q] = phase[q] /\ status'[q] = status[q]
    BY <1>7 DEF BDTypeOK, PlanUnit
  <1>8. ASSUME NEW u \in Unit, PlanFresh(p, u) PROVE job'[q] = job[q] /\ phase'[q] = phase[q] /\ status'[q] = status[q]
    BY <1>8 DEF BDTypeOK, PlanFresh, Calculated
  <1>9. ASSUME NEW u \in Unit, PlanDirty(p, u) PROVE job'[q] = job[q] /\ phase'[q] = phase[q] /\ status'[q] = status[q]
    BY <1>9 DEF BDTypeOK, PlanDirty, Calculated
  <1>10. ASSUME NEW u \in Unit, StartJob(p, u) PROVE job'[q] = job[q] /\ phase'[q] = phase[q] /\ status'[q] = status[q]
    BY <1>10 DEF BDTypeOK, StartJob
  <1>11. ASSUME NEW u \in Unit, LockExclusive(p, u) PROVE job'[q] = job[q] /\ phase'[q] = phase[q] /\ status'[q] = status[q]
    BY <1>11 DEF BDTypeOK, LockExclusive
  <1>12. ASSUME NEW u \in Unit, RmetaProduced(p, u) PROVE job'[q] = job[q] /\ phase'[q] = phase[q] /\ status'[q] = status[q]
    BY <1>12 DEF BDTypeOK, RmetaProduced
  <1>13. ASSUME NEW u \in Unit, Compiled(p, u) PROVE job'[q] = job[q] /\ phase'[q] = phase[q] /\ status'[q] = status[q]
    BY <1>13 DEF BDTypeOK, Compiled
  <1>14. ASSUME NEW u \in Unit, WriteFingerprint(p, u) PROVE job'[q] = job[q] /\ phase'[q] = phase[q] /\ status'[q] = status[q]
    BY <1>14 DEF BDTypeOK, WriteFingerprint
  <1>15. ASSUME NEW u \in Unit, DowngradeRelease(p, u) PROVE job'[q] = job[q] /\ phase'[q] = phase[q] /\ status'[q] = status[q]
    BY <1>15 DEF BDTypeOK, DowngradeRelease
  <1>16. ASSUME NEW u \in Unit, DowngradeToShared(p, u) PROVE job'[q] = job[q] /\ phase'[q] = phase[q] /\ status'[q] = status[q]
    BY <1>16 DEF BDTypeOK, DowngradeToShared
  <1>17. ASSUME NEW u \in Unit, JobFails(p, u) PROVE job'[q] = job[q] /\ phase'[q] = phase[q] /\ status'[q] = status[q]
    BY <1>17, SMTT(30) DEF BDTypeOK, JobFails
  <1>18. QED
    BY <1>1, <1>2, <1>3, <1>4, <1>5, <1>6, <1>7, <1>8, <1>9, <1>10, <1>11, <1>12,
       <1>13, <1>14, <1>15, <1>16, <1>17, SMTT(30)
      DEF Step, Fault

\* So what the invariant says of the others stays true while a process has the directory.
LEMMA OthersDisk ==
  ASSUME BDTypeOK, DirOwned, JobsInPhase, ~FineGrain,
         NEW p \in Process, Active(p), Step(p) \/ Fault(p), NEW q \in Process, q # p, NEW u \in Unit
  PROVE  DiskAt(q, u)'
  <1>1. job'[q][u] = "unplanned" /\ phase'[q] # "plan"
    BY OthersIdle, OthersStay
  <1>2. QED
    BY <1>1 DEF DiskAt

\* calculate tells what is up to date: now, or when it was asked before in this planning pass.
LEMMA CalculatedFresh ==
  ASSUME BDTypeOK, NEW p \in Process, phase[p] = "plan", \A v \in Unit : DiskAt(p, v),
         NEW u \in Unit, NEW w \in Unit, Calculated(p, u)[p][w] = "fresh"
  PROVE  UpToDate(w)
  BY DEF BDTypeOK, DiskAt, Calculated

\* What has a fingerprint and is up to date is complete.
LEMMA FreshComplete ==
  ASSUME BDTypeOK, NEW u \in Unit, Whole(u), u \in valid, UpToDate(u)
  PROVE  outputs[u] = "complete"
  BY BelowSelf DEF BDTypeOK, Whole, UpToDate

\* What the process that has the directory does to fingerprints and outputs: planning clears
\* the fingerprint of what is to be built before anything is written, and a job writes it
\* again when the outputs are complete.
LEMMA OwnDisk ==
  ASSUME BDTypeOK, JobsInPhase, ~FineGrain, \A u \in Unit : Whole(u),
         NEW p \in Process, Step(p) \/ Fault(p), \A u \in Unit : DiskAt(p, u), NEW w \in Unit
  PROVE  Whole(w)' /\ DiskAt(p, w)'
  <1>1. ASSUME LockBuildDir(p) PROVE Whole(w)' /\ DiskAt(p, w)'
    <2>1. Whole(w)'
      BY <1>1 DEF BDTypeOK, JobsInPhase, Whole, DiskAt, LockBuildDir, disk
    <2>2. DiskAt(p, w)'
      BY <1>1, UpToDateSame DEF BDTypeOK, JobsInPhase, Whole, DiskAt, LockBuildDir, disk
    <2>3. QED
      BY <2>1, <2>2
  <1>2. ASSUME LockArtifactDir(p) PROVE Whole(w)' /\ DiskAt(p, w)'
    <2>1. Whole(w)'
      BY <1>2 DEF BDTypeOK, JobsInPhase, Whole, DiskAt, LockArtifactDir, disk
    <2>2. DiskAt(p, w)'
      BY <1>2, UpToDateSame, Zenon DEF BDTypeOK, JobsInPhase, Whole, DiskAt, LockArtifactDir, disk
    <2>3. QED
      BY <2>1, <2>2
  <1>3. ASSUME Clean(p) PROVE Whole(w)' /\ DiskAt(p, w)'
    <2>1. Whole(w)'
      BY <1>3 DEF BDTypeOK, JobsInPhase, Whole, DiskAt, Clean, Released
    <2>2. DiskAt(p, w)'
      BY <1>3, UpToDateSame DEF BDTypeOK, JobsInPhase, Whole, DiskAt, Clean, Released
    <2>3. QED
      BY <2>1, <2>2
  <1>4. ASSUME Execute(p) PROVE Whole(w)' /\ DiskAt(p, w)'
    <2>1. Whole(w)'
      BY <1>4 DEF BDTypeOK, JobsInPhase, Whole, DiskAt, Execute, disk
    <2>2. DiskAt(p, w)'
      BY <1>4, UpToDateSame DEF BDTypeOK, JobsInPhase, Whole, DiskAt, Execute, disk
    <2>3. QED
      BY <2>1, <2>2
  <1>5. ASSUME Exit(p) PROVE Whole(w)' /\ DiskAt(p, w)'
    <2>1. Whole(w)'
      BY <1>5 DEF BDTypeOK, JobsInPhase, Whole, DiskAt, Exit, disk, Released
    <2>2. DiskAt(p, w)'
      BY <1>5, UpToDateSame DEF BDTypeOK, JobsInPhase, Whole, DiskAt, Exit, disk, Released
    <2>3. QED
      BY <2>1, <2>2
  <1>6. ASSUME Crash(p) PROVE Whole(w)' /\ DiskAt(p, w)'
    <2>1. Whole(w)'
      BY <1>6 DEF BDTypeOK, JobsInPhase, Whole, DiskAt, Crash, disk, Released
    <2>2. DiskAt(p, w)'
      BY <1>6, UpToDateSame DEF BDTypeOK, JobsInPhase, Whole, DiskAt, Crash, disk, Released
    <2>3. QED
      BY <2>1, <2>2
  <1>7. ASSUME NEW u \in Unit, PlanUnit(p, u) PROVE Whole(w)' /\ DiskAt(p, w)'
    <2>1. Whole(w)'
      BY <1>7 DEF BDTypeOK, JobsInPhase, Whole, DiskAt, PlanUnit, disk
    <2>2. DiskAt(p, w)'
      BY <1>7, UpToDateSame DEF BDTypeOK, JobsInPhase, Whole, DiskAt, PlanUnit, disk
    <2>3. QED
      BY <2>1, <2>2
  <1>8. ASSUME NEW u \in Unit, PlanFresh(p, u) PROVE Whole(w)' /\ DiskAt(p, w)'
    <2>1. Whole(w)'
      BY <1>8, SMTT(30) DEF BDTypeOK, JobsInPhase, Whole, DiskAt, PlanFresh, disk
    <2>2. DiskAt(p, w)'
      <3>1. phase[p] = "plan" /\ phase' = phase
        BY <1>8 DEF JobsInPhase, PlanFresh
      <3>2. status'[p][w] = "fresh" => UpToDate(w)'
        BY <1>8, <3>1, CalculatedFresh, UpToDateSame DEF PlanFresh, disk
      <3>3. outputs[u] = "complete"
        BY <1>8, <3>1, CalculatedFresh, FreshComplete DEF PlanFresh
      <3>4. QED
        BY <1>8, <3>1, <3>2, <3>3 DEF BDTypeOK, DiskAt, PlanFresh, disk
    <2>3. QED
      BY <2>1, <2>2, SMTT(30)
  <1>9. ASSUME NEW u \in Unit, PlanDirty(p, u) PROVE Whole(w)' /\ DiskAt(p, w)'
    <2>1. Whole(w)'
      BY <1>9, SMTT(30) DEF BDTypeOK, JobsInPhase, Whole, DiskAt, PlanDirty
    <2>2. DiskAt(p, w)'
      <3>1. phase[p] = "plan" /\ phase' = phase
        BY <1>9 DEF JobsInPhase, PlanDirty
      <3>2. status'[p][w] = "fresh" => UpToDate(w)'
        BY <1>9, <3>1, CalculatedFresh, UpToDateSame DEF PlanDirty
      <3>3. QED
        BY <1>9, <3>1, <3>2 DEF BDTypeOK, DiskAt, PlanDirty
    <2>3. QED
      BY <2>1, <2>2, SMTT(30)
  <1>10. ASSUME NEW u \in Unit, StartJob(p, u) PROVE Whole(w)' /\ DiskAt(p, w)'
    <2>1. Whole(w)'
      BY <1>10, SMTT(30) DEF BDTypeOK, JobsInPhase, Whole, DiskAt, StartJob, disk
    <2>2. DiskAt(p, w)'
      BY <1>10, UpToDateSame DEF BDTypeOK, JobsInPhase, Whole, DiskAt, StartJob, disk
    <2>3. QED
      BY <2>1, <2>2, SMTT(30)
  <1>11. ASSUME NEW u \in Unit, LockExclusive(p, u) PROVE Whole(w)' /\ DiskAt(p, w)'
    <2>1. Whole(w)'
      BY <1>11 DEF BDTypeOK, JobsInPhase, Whole, DiskAt, LockExclusive, Working
    <2>2. DiskAt(p, w)'
      BY <1>11, UpToDateSame DEF BDTypeOK, JobsInPhase, Whole, DiskAt, LockExclusive, Working
    <2>3. QED
      BY <2>1, <2>2
  <1>12. ASSUME NEW u \in Unit, RmetaProduced(p, u) PROVE Whole(w)' /\ DiskAt(p, w)'
    <2>1. Whole(w)'
      BY <1>12 DEF BDTypeOK, JobsInPhase, Whole, DiskAt, RmetaProduced, disk
    <2>2. DiskAt(p, w)'
      BY <1>12, UpToDateSame DEF BDTypeOK, JobsInPhase, Whole, DiskAt, RmetaProduced, disk
    <2>3. QED
      BY <2>1, <2>2
  <1>13. ASSUME NEW u \in Unit, Compiled(p, u) PROVE Whole(w)' /\ DiskAt(p, w)'
    <2>1. Whole(w)'
      BY <1>13 DEF BDTypeOK, JobsInPhase, Whole, DiskAt, Compiled, Working
    <2>2. DiskAt(p, w)'
      BY <1>13, UpToDateSame DEF BDTypeOK, JobsInPhase, Whole, DiskAt, Compiled, Working
    <2>3. QED
      BY <2>1, <2>2
  <1>14. ASSUME NEW u \in Unit, WriteFingerprint(p, u) PROVE Whole(w)' /\ DiskAt(p, w)'
    <2>1. Whole(w)'
      BY <1>14 DEF BDTypeOK, JobsInPhase, Whole, DiskAt, WriteFingerprint, Working, LocksUnit
    <2>2. DiskAt(p, w)'
      BY <1>14, UpToDateSame DEF BDTypeOK, JobsInPhase, Whole, DiskAt, WriteFingerprint, Working, LocksUnit
    <2>3. QED
      BY <2>1, <2>2
  <1>15. ASSUME NEW u \in Unit, DowngradeRelease(p, u) PROVE Whole(w)' /\ DiskAt(p, w)'
    <2>1. Whole(w)'
      BY <1>15 DEF BDTypeOK, JobsInPhase, Whole, DiskAt, DowngradeRelease, disk
    <2>2. DiskAt(p, w)'
      BY <1>15, UpToDateSame DEF BDTypeOK, JobsInPhase, Whole, DiskAt, DowngradeRelease, disk
    <2>3. QED
      BY <2>1, <2>2
  <1>16. ASSUME NEW u \in Unit, DowngradeToShared(p, u) PROVE Whole(w)' /\ DiskAt(p, w)'
    <2>1. Whole(w)'
      BY <1>16 DEF BDTypeOK, JobsInPhase, Whole, DiskAt, DowngradeToShared, disk
    <2>2. DiskAt(p, w)'
      BY <1>16, UpToDateSame DEF BDTypeOK, JobsInPhase, Whole, DiskAt, DowngradeToShared, disk
    <2>3. QED
      BY <2>1, <2>2
  <1>17. ASSUME NEW u \in Unit, JobFails(p, u) PROVE Whole(w)' /\ DiskAt(p, w)'
    <2>1. Whole(w)'
      BY <1>17 DEF BDTypeOK, JobsInPhase, Whole, DiskAt, JobFails, disk, Writing
    <2>2. DiskAt(p, w)'
      BY <1>17, UpToDateSame DEF BDTypeOK, JobsInPhase, Whole, DiskAt, JobFails, disk, Writing
    <2>3. QED
      BY <2>1, <2>2
  <1>18. QED
    BY <1>1, <1>2, <1>3, <1>4, <1>5, <1>6, <1>7, <1>8, <1>9, <1>10, <1>11, <1>12,
       <1>13, <1>14, <1>15, <1>16, <1>17, SMTT(30)
      DEF Step, Fault

\* Nothing is written before the directory is locked, nor after it is released.
LEMMA OnlyActiveWrite ==
  ASSUME JobsInPhase, NEW p \in Process, ~Active(p), Step(p) \/ Fault(p)
  PROVE  UNCHANGED disk
  <1>1. phase[p] \notin {"layout", "clean", "plan", "execute"} /\ \A u \in Unit : job[p][u] = "unplanned"
    BY SMTT(30) DEF JobsInPhase, Active
  <1>2. CASE Step(p)
    BY <1>1, <1>2, Zenon DEF Step, LockBuildDir, LockArtifactDir, Clean, Execute, Exit, PlanUnit, PlanFresh,
                      PlanDirty, StartJob, LockExclusive, RmetaProduced, Compiled, WriteFingerprint,
                      DowngradeRelease, DowngradeToShared
  <1>3. CASE Fault(p)
    BY <1>1, <1>3 DEF Fault, Crash, JobFails
  <1>4. QED
    BY <1>2, <1>3

\* Every step keeps it.
LEMMA DiskStep ==
  ASSUME BDTypeOK, DirOwned, JobsInPhase, DiskInv, [BDNext]_bdvars
  PROVE  DiskInv'
  <1>1. CASE UNCHANGED bdvars
    BY <1>1, UpToDateSame DEF DiskInv, DiskAt, Whole, FineGrain, bdvars
  <1>2. ASSUME NEW p \in Process, Step(p) \/ Fault(p) PROVE DiskInv'
    <2>1. FineGrain' = FineGrain
      BY <1>2 DEF Step, Fault, FineGrain
    <2>2. SUFFICES ASSUME ~FineGrain, NEW q \in Process, NEW w \in Unit
                   PROVE  Whole(w)' /\ DiskAt(q, w)'
      BY <2>1 DEF DiskInv
    <2>3. Whole(w)' /\ DiskAt(p, w)'
      BY <1>2, <2>2, OwnDisk DEF DiskInv
    <2>4. CASE q # p /\ Active(p)
      BY <1>2, <2>2, <2>3, <2>4, OthersDisk, SMTT(30)
    <2>5. CASE q # p /\ ~Active(p)
      <3>1. UNCHANGED disk
        BY <1>2, <2>5, OnlyActiveWrite
      <3>2. QED
        BY <1>2, <2>2, <2>3, <2>5, <3>1, OthersStay, UpToDateSame DEF DiskInv, DiskAt, disk
    <2>6. QED
      BY <2>3, <2>4, <2>5
  <1>3. QED
    BY <1>1, <1>2 DEF BDNext
-----------------------------------------------------------------------------
(* Results. *)

\* The invariant holds in every reachable state.
THEOREM BDInvariant == BDSpec => []BDInv
  <1>1. BDInit => BDInv
    <2> SUFFICES ASSUME BDInit PROVE BDInv
      OBVIOUS
    <2>1. BDTypeOK
      BY DEF BDInit, BDTypeOK, Held, JobState
    <2>2. UnitsLocked /\ DirOwned /\ JobsInPhase
      BY DEF BDInit, UnitsLocked, DirOwned, JobsInPhase, Active, Working
    <2>3. DiskInv
      BY DEF BDInit, DiskInv, Whole, DiskAt
    <2>4. QED
      BY <2>1, <2>2, <2>3 DEF BDInv
  <1>2. BDInv /\ [BDNext]_bdvars => BDInv'
    BY TypeStep, LocksStep, DirStep, PhaseStep, DiskStep DEF BDInv
  <1>3. QED
    BY <1>1, <1>2, PTL DEF BDSpec

\* What a build found fresh or has built is complete until it ends, what a later build would
\* find fresh is complete wherever earlier ones were killed (both where the directory is
\* locked as a whole), and no process writes a unit that another uses: compile and
\* prepare_target of compiler/, the locks of layout.rs and locking.rs, for any graph of units
\* and any number of processes.
THEOREM UnitsSafe == BDSpec => []UnitsComplete
  <1>1. BDInv => UnitsComplete
    <2> SUFFICES ASSUME BDInv PROVE UnitsComplete
      OBVIOUS
    <2>1. UsedUnitsComplete
      BY DEF BDInv, DiskInv, DiskAt, UsedUnitsComplete
    <2>2. LockedFreshIsComplete
      BY FreshComplete DEF BDInv, DiskInv, LockedFreshIsComplete, FreshIsComplete
    <2>3. UsedUnitsKept
      <3> SUFFICES ASSUME NEW p \in Process, NEW q \in Process, p # q, NEW u \in Unit,
                          LocksUnit(u) \/ ~FineGrain, Writes(q, u),
                          Writes(p, u) \/ job[p][u] \in {"fresh", "done"}
                   PROVE  FALSE
        BY DEF UsedUnitsKept
      <3>1. CASE FineGrain
        BY <3>1 DEF BDInv, UnitsLocked, Writes, Writing
      <3>2. CASE ~FineGrain
        <4>1. Active(q)
          BY DEF BDInv, JobsInPhase, Writes, Writing, Working, Active
        <4>2. job[p][u] = "unplanned"
          BY <3>2, <4>1, OthersIdle DEF BDInv
        <4>3. QED
          BY <4>2 DEF Writes, Writing
      <3>3. QED
        BY <3>1, <3>2, SMTT(30)
    <2>4. QED
      BY <2>1, <2>2, <2>3 DEF UnitsComplete
  <1>2. QED
    BY <1>1, BDInvariant, PTL

-----------------------------------------------------------------------------
(***************************************************************************)
(* No wakeup of the message queue is lost, for any number of threads, any  *)
(* bound and any number of messages; and the queue implements its abstract *)
(* specification BoundedQueue.                                             *)
(***************************************************************************)

\* How the method, the place in it and the item of a thread go together.
CallsWellFormed == \A t \in Thread :
  /\ pc[t] = "idle" <=> op[t] = "none"
  /\ pc[t] = "notify" => op[t] = "push"
  /\ pc[t] = "waiting" => op[t] \in {"pop", "push_bounded"}
  /\ op[t] \in {"none", "pop", "try_pop_all"} /\ pc[t] # "return" => data[t] = <<>>
  /\ pc[t] = "notify" => data[t] = <<>>
  /\ op[t] \in {"push", "push_bounded"} /\ pc[t] \in {"called", "waiting"} =>
       \E i \in Item : data[t] = <<i>>

Shape == MQTypeOK /\ CallsWellFormed

\* The inductive invariant.
MQInv == Shape /\ PopperNotForgotten /\ PusherNotForgotten

-----------------------------------------------------------------------------
(* Finite sets of threads. *)

\* There are finitely many threads, so every set of them has a cardinality.
LEMMA ThreadSets ==
  ASSUME NEW S \in SUBSET Thread
  PROVE  IsFiniteSet(S) /\ Cardinality(S) \in Nat
<1>1. IsFiniteSet(Thread)
  BY ThreadsFinite, FS_Union, Zenon DEF Thread
<1> QED
  BY <1>1, FS_Subset, FS_CardinalityType

\* One more thread, one more in the count.
LEMMA OneMore ==
  ASSUME NEW S \in SUBSET Thread, NEW t \in Thread \ S
  PROVE  Cardinality(S \union {t}) = Cardinality(S) + 1
BY ThreadSets, FS_AddElement

\* A set is at least as large as a part of it.
LEMMA NotFewer ==
  ASSUME NEW S \in SUBSET Thread, NEW T \in SUBSET S
  PROVE  Cardinality(T) <= Cardinality(S)
BY ThreadSets, FS_Subset

\* One thread less, one less in the count.
LEMMA OneLess ==
  ASSUME NEW S \in SUBSET Thread, NEW t \in S
  PROVE  Cardinality(S \ {t}) = Cardinality(S) - 1
BY ThreadSets, FS_RemoveElement

-----------------------------------------------------------------------------
(* Types. *)

\* Pushing one item makes the queue one longer, popping one makes it shorter.
LEMMA Lengths ==
  ASSUME NEW s \in Seq(Item), NEW i \in Item
  PROVE  /\ s \o <<i>> \in Seq(Item) /\ Len(s \o <<i>>) = Len(s) + 1
         /\ s # <<>> => /\ Tail(s) \in Seq(Item) /\ Len(Tail(s)) = Len(s) - 1
                        /\ Head(s) \in Item /\ Len(s) >= 1
         /\ Len(s) \in Nat
         /\ s = <<>> <=> Len(s) = 0
OBVIOUS

\* The item a producer sends next is one of the items.
LEMMA NextItem ==
  ASSUME NEW t \in Producer, NEW n \in Nat, n < Quota[t]
  PROVE  <<t, n + 1>> \in Item /\ n + 1 <= Quota[t]
<1>1. Quota[t] \in Nat
  BY QuotaNatural
<1>2. n + 1 \in 1 .. Quota[t] /\ n + 1 <= Quota[t]
  BY <1>1
<1>3. <<t, n + 1>> \in {t} \X (1 .. Quota[t])
  BY <1>2, SMTT(30)
<1> QED
  BY <1>2, <1>3, Zenon DEF Item

\* Every step keeps the types and the form of the calls.
LEMMA ShapeInductive == Shape /\ [MQNext]_mqvars => Shape'
<1> SUFFICES ASSUME Shape, [MQNext]_mqvars PROVE Shape'
  BY SMTT(30)
<1> USE DEF Shape, MQTypeOK, CallsWellFormed
<1>1. ASSUME NEW t \in Producer, NEW m \in {"push", "push_bounded"}, StartPush(t, m)
      PROVE  Shape'
  <2>1. <<t, sent[t] + 1>> \in Item /\ sent[t] + 1 <= Quota[t]
    BY <1>1, NextItem DEF StartPush
  <2>2. PICK i \in Item : data' = [data EXCEPT ![t] = <<i>>]
    BY <1>1, <2>1, Zenon DEF StartPush
  <2>3. sent' \in [Producer -> Nat] /\ \A p \in Producer : sent'[p] <= Quota[p]
    BY <1>1, <2>1 DEF StartPush
  <2>4. /\ op' = [op EXCEPT ![t] = m] /\ pc' = [pc EXCEPT ![t] = "called"]
        /\ pc[t] = "idle" /\ UNCHANGED <<items, popper_cv, bounded_cv>>
        /\ t \in Thread
    BY <1>1 DEF StartPush, Thread
  <2>5. MQTypeOK'
    BY <2>2, <2>3, <2>4
  <2>6. CallsWellFormed'
    BY <2>2, <2>4, SMTT(30)
  <2> QED
    BY <2>5, <2>6
<1>2. ASSUME NEW t \in Consumer, StartConsumer(t) PROVE Shape'
  BY <1>2 DEF StartConsumer, StartPop, Thread
<1>3. ASSUME NEW t \in Thread, Push(t) PROVE Shape'
  BY <1>3, Lengths DEF Push, HasLock
<1>4. ASSUME NEW t \in Thread, PushNotify(t) PROVE Shape'
  BY <1>4 DEF PushNotify, Done, NotifyOne
<1>5. ASSUME NEW t \in Thread, PushBoundedWait(t) PROVE Shape'
  BY <1>5 DEF PushBoundedWait, HasLock, Sleep
<1>6. ASSUME NEW t \in Thread, PushBounded(t) PROVE Shape'
  BY <1>6, Lengths DEF PushBounded, HasLock, Done, NotifyOne
<1>7. ASSUME NEW t \in Thread, PopWait(t) PROVE Shape'
  BY <1>7 DEF PopWait, HasLock, Sleep
<1>8. ASSUME NEW t \in Thread, Pop(t) PROVE Shape'
  BY <1>8, Lengths DEF Pop, HasLock, Done, NotifyOne
<1>9. ASSUME NEW t \in Thread, PopTimeout(t) PROVE Shape'
  BY <1>9 DEF PopTimeout, Done
<1>10. ASSUME NEW t \in Thread, TryPopAll(t) PROVE Shape'
  BY <1>10 DEF TryPopAll, HasLock, Done
<1>11. ASSUME NEW t \in Thread, Return(t) PROVE Shape'
  BY <1>11 DEF Return
<1>12. ASSUME NEW t \in Thread, SpuriousWakeup(t) PROVE Shape'
  BY <1>12 DEF SpuriousWakeup
<1>13. CASE UNCHANGED mqvars
  BY <1>13, SMTT(30) DEF mqvars
<1> QED
  BY <1>1, <1>2, <1>3, <1>4, <1>5, <1>6, <1>7, <1>8, <1>9, <1>10, <1>11, <1>12, <1>13, Zenon
      DEF MQNext, Method
-----------------------------------------------------------------------------
(* Wakeups. *)

\* The threads woken from pop, and those about to notify.
WokenPoppers == Woken("pop", popper_cv)

\* The threads woken from push_bounded.
WokenPushers == Woken("push_bounded", bounded_cv)

\* Every step keeps a thread or a notification for each item, while one sleeps in
\* pop.
LEMMA PopperInductive ==
  Shape /\ PopperNotForgotten /\ [MQNext]_mqvars => PopperNotForgotten'
<1> SUFFICES ASSUME Shape, PopperNotForgotten, [MQNext]_mqvars, popper_cv' # {}
             PROVE  Len(items') <= Cardinality(WokenPoppers') + Cardinality(Notifying')
  BY DEF PopperNotForgotten, WokenPoppers
<1> USE DEF Shape, MQTypeOK, CallsWellFormed
<1>a. /\ WokenPoppers \in SUBSET Thread /\ WokenPoppers' \in SUBSET Thread
      /\ Notifying \in SUBSET Thread /\ Notifying' \in SUBSET Thread
  BY DEF WokenPoppers, Woken, Notifying
<1>b. /\ Cardinality(WokenPoppers) \in Nat /\ Cardinality(WokenPoppers') \in Nat
      /\ Cardinality(Notifying) \in Nat /\ Cardinality(Notifying') \in Nat
  BY <1>a, ThreadSets
<1>c. popper_cv # {} => Len(items) <= Cardinality(WokenPoppers) + Cardinality(Notifying)
  BY DEF PopperNotForgotten, WokenPoppers
<1>d. Len(items) \in Nat
  BY Lengths
<1>1. ASSUME NEW t \in Producer, NEW m \in {"push", "push_bounded"}, StartPush(t, m)
      PROVE  UNCHANGED <<items, popper_cv, WokenPoppers, Notifying>>
  BY <1>1 DEF StartPush, WokenPoppers, Woken, Notifying, Thread
<1>2. ASSUME NEW t \in Consumer, StartConsumer(t)
      PROVE  UNCHANGED <<items, popper_cv, WokenPoppers, Notifying>>
  BY <1>2 DEF StartConsumer, StartPop, WokenPoppers, Woken, Notifying, Thread
<1>3. ASSUME NEW t \in Thread, Push(t)
      PROVE  Len(items') <= Cardinality(WokenPoppers') + Cardinality(Notifying')
  <2>1. UNCHANGED <<popper_cv, WokenPoppers>>
    BY <1>3 DEF Push, HasLock, WokenPoppers, Woken
  <2>2. Notifying' = Notifying \union {t} /\ t \notin Notifying
    BY <1>3 DEF Push, HasLock, Notifying
  <2>3. Len(items') = Len(items) + 1
    BY <1>3, Lengths, ZenonT(30) DEF Push, HasLock
  <2>4. Cardinality(Notifying') = Cardinality(Notifying) + 1
    BY <2>2, <1>a, OneMore
  <2> QED
    BY <1>b, <1>c, <1>d, <2>1, <2>3, <2>4, SMTT(30)
<1>4. ASSUME NEW t \in Thread, PushNotify(t)
      PROVE  Len(items') <= Cardinality(WokenPoppers') + Cardinality(Notifying')
  <2>1. PICK w \in popper_cv : popper_cv' = popper_cv \ {w}
    BY <1>4 DEF PushNotify, NotifyOne
  <2>2. WokenPoppers' = WokenPoppers \union {w} /\ w \in Thread \ WokenPoppers
    BY <1>4, <2>1 DEF PushNotify, Done, WokenPoppers, Woken
  <2>3. Notifying' = Notifying \ {t} /\ t \in Notifying
    BY <1>4 DEF PushNotify, Done, Notifying
  <2>4. Cardinality(WokenPoppers') = Cardinality(WokenPoppers) + 1
    BY <2>2, <1>a, OneMore, Zenon
  <2>5. Cardinality(Notifying') = Cardinality(Notifying) - 1
    BY <2>3, <1>a, OneLess, Zenon
  <2>6. items' = items
    BY <1>4 DEF PushNotify
  <2> QED
    BY <1>b, <1>c, <1>d, <2>1, <2>4, <2>5, <2>6, SMTT(30)
<1>5. ASSUME NEW t \in Thread, PushBoundedWait(t)
      PROVE  UNCHANGED <<items, popper_cv, WokenPoppers, Notifying>>
  BY <1>5 DEF PushBoundedWait, HasLock, Sleep, WokenPoppers, Woken, Notifying
<1>6. ASSUME NEW t \in Thread, PushBounded(t)
      PROVE  Len(items') <= Cardinality(WokenPoppers') + Cardinality(Notifying')
  <2>1. PICK w \in popper_cv : popper_cv' = popper_cv \ {w}
    BY <1>6 DEF PushBounded, NotifyOne
  <2>2. WokenPoppers' = WokenPoppers \union {w} /\ w \in Thread \ WokenPoppers
    BY <1>6, <2>1 DEF PushBounded, HasLock, Done, WokenPoppers, Woken
  <2>3. Notifying' = Notifying
    BY <1>6 DEF PushBounded, HasLock, Done, Notifying
  <2>4. Cardinality(WokenPoppers') = Cardinality(WokenPoppers) + 1
    BY <2>2, <1>a, OneMore, SMTT(30)
  <2>5. Len(items') = Len(items) + 1
    BY <1>6, Lengths, Zenon DEF PushBounded, HasLock
  <2> QED
    BY <1>b, <1>c, <1>d, <2>1, <2>3, <2>4, <2>5, SMTT(30)
<1>7. ASSUME NEW t \in Thread, PopWait(t)
      PROVE  Len(items') <= Cardinality(WokenPoppers') + Cardinality(Notifying')
  <2>1. Len(items') = 0
    BY <1>7 DEF PopWait, Sleep
  <2> QED
    BY <1>b, <2>1
<1>8. ASSUME NEW t \in Thread, Pop(t)
      PROVE  Len(items') <= Cardinality(WokenPoppers') + Cardinality(Notifying')
  <2>1. Len(items') = Len(items) - 1
    BY <1>8, Lengths DEF Pop
  <2>2. Notifying' = Notifying /\ popper_cv' = popper_cv
    BY <1>8 DEF Pop, HasLock, Done, Notifying
  <2>3. CASE pc[t] = "called"
    <3>1. WokenPoppers' = WokenPoppers
      BY <1>8, <2>3 DEF Pop, HasLock, Done, WokenPoppers, Woken
    <3> QED
      BY <1>b, <1>c, <1>d, <2>1, <2>2, <3>1, SMTT(30)
  <2>4. CASE pc[t] = "waiting"
    <3>1. WokenPoppers' = WokenPoppers \ {t} /\ t \in WokenPoppers
      BY <1>8, <2>4 DEF Pop, HasLock, Done, WokenPoppers, Woken
    <3>2. Cardinality(WokenPoppers') = Cardinality(WokenPoppers) - 1
      BY <3>1, <1>a, OneLess
    <3> QED
      BY <1>b, <1>c, <1>d, <2>1, <2>2, <3>2, SMTT(30)
  <2> QED
    BY <1>8, <2>3, <2>4 DEF Pop, HasLock
<1>9. ASSUME NEW t \in Thread, PopTimeout(t)
      PROVE  Len(items') <= Cardinality(WokenPoppers') + Cardinality(Notifying')
  <2>1. Len(items') = 0
    BY <1>9 DEF PopTimeout
  <2> QED
    BY <1>b, <2>1
<1>10. ASSUME NEW t \in Thread, TryPopAll(t)
       PROVE  Len(items') <= Cardinality(WokenPoppers') + Cardinality(Notifying')
  <2>1. Len(items') = 0
    BY <1>10 DEF TryPopAll
  <2> QED
    BY <1>b, <2>1
<1>11. ASSUME NEW t \in Thread, Return(t)
       PROVE  UNCHANGED <<items, popper_cv, WokenPoppers, Notifying>>
  BY <1>11 DEF Return, WokenPoppers, Woken, Notifying
<1>12. ASSUME NEW t \in Thread, SpuriousWakeup(t)
       PROVE  Len(items') <= Cardinality(WokenPoppers') + Cardinality(Notifying')
  <2>1. UNCHANGED <<items, Notifying>> /\ popper_cv # {}
    BY <1>12 DEF SpuriousWakeup, Notifying
  <2>2. WokenPoppers \in SUBSET WokenPoppers'
    BY <1>12 DEF SpuriousWakeup, WokenPoppers, Woken
  <2>3. Cardinality(WokenPoppers) <= Cardinality(WokenPoppers')
    BY <2>2, <1>a, NotFewer
  <2> QED
    BY <1>b, <1>c, <1>d, <2>1, <2>3, SMTT(30)
<1>13. CASE UNCHANGED mqvars
  BY <1>13 DEF mqvars, PopperNotForgotten, WokenPoppers, Woken, Notifying
<1>14. UNCHANGED <<items, popper_cv, WokenPoppers, Notifying>> =>
         Len(items') <= Cardinality(WokenPoppers') + Cardinality(Notifying')
  BY <1>c, SMTT(30)
<1> QED
  BY <1>1, <1>2, <1>3, <1>4, <1>5, <1>6, <1>7, <1>8, <1>9, <1>10, <1>11, <1>12, <1>13,
     <1>14, SMTT(30) DEF MQNext, Method

\* Every step keeps enough woken threads for the room there is, while one sleeps
\* in push_bounded.
LEMMA PusherInductive ==
  Shape /\ PusherNotForgotten /\ [MQNext]_mqvars => PusherNotForgotten'
<1> SUFFICES ASSUME Shape, PusherNotForgotten, [MQNext]_mqvars, bounded_cv' # {}
             PROVE  Len(items') + Cardinality(WokenPushers') >= Bound
  BY DEF PusherNotForgotten, WokenPushers
<1> USE DEF Shape, MQTypeOK, CallsWellFormed
<1>a. WokenPushers \in SUBSET Thread /\ WokenPushers' \in SUBSET Thread
  BY DEF WokenPushers, Woken
<1>b. Cardinality(WokenPushers) \in Nat /\ Cardinality(WokenPushers') \in Nat
  BY <1>a, ThreadSets
<1>c. bounded_cv # {} => Len(items) + Cardinality(WokenPushers) >= Bound
  BY DEF PusherNotForgotten, WokenPushers
<1>d. Len(items) \in Nat /\ Bound \in Nat
  BY Lengths, CapacityPositive, SMTT(30)
<1>1. ASSUME NEW t \in Producer, NEW m \in {"push", "push_bounded"}, StartPush(t, m)
      PROVE  UNCHANGED <<items, bounded_cv, WokenPushers>>
  BY <1>1, SMTT(30) DEF StartPush, WokenPushers, Woken, Thread
<1>2. ASSUME NEW t \in Consumer, StartConsumer(t)
      PROVE  UNCHANGED <<items, bounded_cv, WokenPushers>>
  BY <1>2 DEF StartConsumer, StartPop, WokenPushers, Woken, Thread
<1>3. ASSUME NEW t \in Thread, Push(t)
      PROVE  Len(items') + Cardinality(WokenPushers') >= Bound
  <2>1. UNCHANGED <<bounded_cv, WokenPushers>>
    BY <1>3 DEF Push, HasLock, WokenPushers, Woken
  <2>2. Len(items') = Len(items) + 1
    BY <1>3, Lengths, SMTT(30) DEF Push, HasLock
  <2> QED
    BY <1>b, <1>c, <1>d, <2>1, <2>2, SMTT(30)
<1>4. ASSUME NEW t \in Thread, PushNotify(t)
      PROVE  UNCHANGED <<items, bounded_cv, WokenPushers>>
  BY <1>4 DEF PushNotify, Done, WokenPushers, Woken
<1>5. ASSUME NEW t \in Thread, PushBoundedWait(t)
      PROVE  Len(items') + Cardinality(WokenPushers') >= Bound
  <2>1. items' = items /\ Len(items) >= Bound
    BY <1>5 DEF PushBoundedWait, Sleep
  <2> QED
    BY <1>b, <1>d, <2>1, SMTT(30)
<1>6. ASSUME NEW t \in Thread, PushBounded(t)
      PROVE  Len(items') + Cardinality(WokenPushers') >= Bound
  <2>1. Len(items') = Len(items) + 1
    BY <1>6, Lengths, Zenon DEF PushBounded, HasLock
  <2>2. bounded_cv' = bounded_cv
    BY <1>6 DEF PushBounded
  <2>3. CASE pc[t] = "called"
    <3>1. WokenPushers' = WokenPushers
      BY <1>6, <2>3, SMTT(30) DEF PushBounded, HasLock, Done, WokenPushers, Woken
    <3> QED
      BY <1>b, <1>c, <1>d, <2>1, <2>2, <3>1, SMTT(30)
  <2>4. CASE pc[t] = "waiting"
    <3>1. WokenPushers' = WokenPushers \ {t} /\ t \in WokenPushers
      BY <1>6, <2>4, SMTT(30) DEF PushBounded, HasLock, Done, WokenPushers, Woken
    <3>2. Cardinality(WokenPushers') = Cardinality(WokenPushers) - 1
      BY <3>1, <1>a, OneLess, SMTT(30)
    <3> QED
      BY <1>b, <1>c, <1>d, <2>1, <2>2, <3>2, SMTT(30)
  <2> QED
    BY <1>6, <2>3, <2>4 DEF PushBounded, HasLock
<1>7. ASSUME NEW t \in Thread, PopWait(t)
      PROVE  UNCHANGED <<items, bounded_cv, WokenPushers>>
  BY <1>7 DEF PopWait, HasLock, Sleep, WokenPushers, Woken
<1>8. ASSUME NEW t \in Thread, Pop(t)
      PROVE  Len(items') + Cardinality(WokenPushers') >= Bound
  <2>1. Len(items') = Len(items) - 1
    BY <1>8, Lengths, SMTT(30) DEF Pop
  <2>2. CASE Len(items) - 1 < Bound
    <3>1. PICK w \in bounded_cv : bounded_cv' = bounded_cv \ {w}
      BY <1>8, <2>2 DEF Pop, NotifyOne
    <3>2. WokenPushers' = WokenPushers \union {w} /\ w \in Thread \ WokenPushers
      BY <1>8, <3>1 DEF Pop, HasLock, Done, WokenPushers, Woken
    <3>3. Cardinality(WokenPushers') = Cardinality(WokenPushers) + 1
      BY <3>2, <1>a, OneMore, Zenon
    <3> QED
      BY <1>b, <1>c, <1>d, <2>1, <3>1, <3>3, SMTT(30)
  <2> QED
    BY <1>b, <1>d, <2>1, <2>2, SMTT(30)
<1>9. ASSUME NEW t \in Thread, PopTimeout(t)
      PROVE  UNCHANGED <<items, bounded_cv, WokenPushers>>
  BY <1>9 DEF PopTimeout, Done, WokenPushers, Woken
<1>10. ASSUME NEW t \in Thread PROVE ~TryPopAll(t)
  BY DEF TryPopAll
<1>11. ASSUME NEW t \in Thread, Return(t)
       PROVE  UNCHANGED <<items, bounded_cv, WokenPushers>>
  BY <1>11 DEF Return, WokenPushers, Woken
<1>12. ASSUME NEW t \in Thread, SpuriousWakeup(t)
       PROVE  Len(items') + Cardinality(WokenPushers') >= Bound
  <2>1. UNCHANGED items /\ bounded_cv # {}
    BY <1>12 DEF SpuriousWakeup
  <2>2. WokenPushers \in SUBSET WokenPushers'
    BY <1>12 DEF SpuriousWakeup, WokenPushers, Woken
  <2>3. Cardinality(WokenPushers) <= Cardinality(WokenPushers')
    BY <2>2, <1>a, NotFewer, SMTT(30)
  <2> QED
    BY <1>b, <1>c, <1>d, <2>1, <2>3, SMTT(30)
<1>13. CASE UNCHANGED mqvars
  BY <1>13 DEF mqvars, PusherNotForgotten, WokenPushers, Woken
<1>14. UNCHANGED <<items, bounded_cv, WokenPushers>> =>
         Len(items') + Cardinality(WokenPushers') >= Bound
  BY <1>c
<1> QED
  BY <1>1, <1>2, <1>3, <1>4, <1>5, <1>6, <1>7, <1>8, <1>9, <1>10, <1>11, <1>12, <1>13,
     <1>14, SMTT(30) DEF MQNext, Method

\* No thread has been called yet: the invariant holds at the start.
LEMMA MQInvInit == MQInit => MQInv
<1> SUFFICES ASSUME MQInit PROVE MQInv
  OBVIOUS
<1>1. Shape
  BY QuotaNatural DEF MQInit, Shape, MQTypeOK, CallsWellFormed
<1>2. popper_cv = {} /\ bounded_cv = {}
  BY DEF MQInit
<1> QED
  BY <1>1, <1>2 DEF MQInv, PopperNotForgotten, PusherNotForgotten

\* Types, the form of the calls and the account of wakeups hold for all time.
THEOREM MQInvariant == MQSpec => []MQInv
<1>1. MQInit => MQInv
  BY MQInvInit
<1>2. MQInv /\ [MQNext]_mqvars => MQInv'
  BY ShapeInductive, PopperInductive, PusherInductive DEF MQInv
<1> QED
  BY <1>1, <1>2, PTL DEF MQSpec

\* No wakeup of pop is lost: the notification that push sends after releasing the
\* mutex still reaches a thread for every item.
THEOREM NoPopperForgotten == MQSpec => []PopperNotForgotten
<1>1. MQInv => PopperNotForgotten
  BY DEF MQInv
<1> QED
  BY <1>1, MQInvariant, PTL

\* No wakeup of push_bounded is lost: the single notification of pop and the
\* broadcast of try_pop_all suffice, though push fills the queue past its bound.
THEOREM NoPusherForgotten == MQSpec => []PusherNotForgotten
<1>1. MQInv => PusherNotForgotten
  BY DEF MQInv
<1> QED
  BY <1>1, MQInvariant, PTL

-----------------------------------------------------------------------------
(* Refinement. *)

\* A step that changes one thread's call changes one entry of the mapped state.
LEMMA OneCall ==
  ASSUME NEW t \in Thread, NEW o, NEW p, NEW d, Shape,
         op' = [op EXCEPT ![t] = o], pc' = [pc EXCEPT ![t] = p],
         data' = [data EXCEPT ![t] = d]
  PROVE  CallOf' = [CallOf EXCEPT ![t] = [op |-> o, stage |-> Stage(p),
                                          data |-> d]]
BY Zenon DEF CallOf, Shape, MQTypeOK

\* Every step of the queue with its condition variables is one step of the
\* abstract queue, or none.
LEMMA StepSimulation == Shape /\ [MQNext]_mqvars => [BQ!BQNext]_(BQ!bqvars)
<1> SUFFICES ASSUME Shape, [MQNext]_mqvars PROVE [BQ!BQNext]_(BQ!bqvars)
  OBVIOUS
<1>a. /\ op \in [Thread -> {"none", "push", "push_bounded", "pop", "try_pop_all"}]
      /\ pc \in [Thread -> {"idle", "called", "waiting", "notify", "return"}]
      /\ data \in [Thread -> Seq(Item)]
      /\ items \in Seq(Item)
      /\ CallsWellFormed
  BY SMTT(30) DEF Shape, MQTypeOK
<1>b. \A t \in Thread : /\ CallOf[t].op = op[t]
                        /\ CallOf[t].stage = Stage(pc[t])
                        /\ CallOf[t].data = data[t]
                        /\ CallOf[t] = [op |-> op[t], stage |-> Stage(pc[t]),
                                        data |-> data[t]]
  BY DEF CallOf
<1>1. ASSUME NEW t \in Producer, NEW m \in {"push", "push_bounded"}, StartPush(t, m)
      PROVE  BQ!Start(t) /\ t \in Thread
  <2>1. t \in Thread
    BY SMTT(30) DEF Thread
  <2>2. <<t, sent[t] + 1>> \in Item
    BY <1>1, NextItem DEF StartPush, Shape, MQTypeOK
  <2>3. PICK i \in Item : data' = [data EXCEPT ![t] = <<i>>]
    BY <1>1, <2>2, Zenon DEF StartPush
  <2>4. CallOf' = [CallOf EXCEPT ![t] = [op |-> m, stage |-> Stage("called"),
                                         data |-> <<i>>]]
    BY <1>1, <2>1, <2>3, OneCall, ZenonT(30) DEF StartPush
  <2>5. [op |-> m, stage |-> Stage("called"), data |-> <<i>>] \in BQ!Calls
    BY <2>3 DEF BQ!Calls, Stage
  <2>6. CallOf[t] = BQ!NoCall
    BY <1>1, <1>a, <1>b, <2>1, SMTT(30) DEF BQ!NoCall, Stage, StartPush, CallsWellFormed
  <2>7. items' = items
    BY <1>1, SMTT(30) DEF StartPush
  <2>8. CallOf'[t] = [op |-> m, stage |-> Stage("called"), data |-> <<i>>]
    BY <2>1, <2>4 DEF CallOf
  <2> QED
    BY <2>1, <2>4, <2>5, <2>6, <2>7, <2>8, Zenon DEF BQ!Start
<1>2. ASSUME NEW t \in Consumer, NEW m \in {"pop", "try_pop_all"}, StartPop(t, m)
      PROVE  BQ!Start(t) /\ t \in Thread
  <2>1. t \in Thread
    BY DEF Thread
  <2>2. /\ op' = [op EXCEPT ![t] = m] /\ pc' = [pc EXCEPT ![t] = "called"]
        /\ data' = [data EXCEPT ![t] = <<>>]
    BY <1>2, <1>a, <2>1 DEF StartPop, CallsWellFormed
  <2>3. CallOf' = [CallOf EXCEPT ![t] = [op |-> m, stage |-> Stage("called"),
                                         data |-> <<>>]]
    BY <2>1, <2>2, OneCall, Zenon
  <2>4. [op |-> m, stage |-> Stage("called"), data |-> <<>>] \in BQ!Calls
    BY SMTT(30) DEF BQ!Calls, Stage
  <2>5. CallOf[t] = BQ!NoCall
    BY <1>2, <1>a, <1>b, <2>1 DEF BQ!NoCall, Stage, StartPop, CallsWellFormed
  <2>6. items' = items
    BY <1>2, SMTT(30) DEF StartPop
  <2>7. CallOf'[t] = [op |-> m, stage |-> Stage("called"), data |-> <<>>]
    BY <2>1, <2>3 DEF CallOf
  <2> QED
    BY <2>1, <2>3, <2>4, <2>5, <2>6, <2>7, Zenon DEF BQ!Start
<1>3. ASSUME NEW t \in Thread, Push(t) PROVE BQ!Push(t)
  <2>1. /\ op' = [op EXCEPT ![t] = "push"] /\ pc' = [pc EXCEPT ![t] = "notify"]
        /\ data' = [data EXCEPT ![t] = <<>>]
    BY <1>3, <1>a DEF Push, HasLock
  <2>2. CallOf' = [CallOf EXCEPT ![t] = [op |-> "push", stage |-> Stage("notify"),
                                         data |-> <<>>]]
    BY <2>1, OneCall, Zenon
  <2> QED
    BY <1>3, <1>a, <1>b, <2>2, Zenon DEF BQ!Push, BQ!Effect, Stage, Push, HasLock
<1>4. ASSUME NEW t \in Thread, PushNotify(t) PROVE UNCHANGED <<items, CallOf>>
  BY <1>4, <1>a, SMTT(30) DEF PushNotify, Done, CallsWellFormed, CallOf, Stage
<1>5. ASSUME NEW t \in Thread, PushBoundedWait(t) PROVE UNCHANGED <<items, CallOf>>
  BY <1>5, <1>a DEF PushBoundedWait, HasLock, Sleep, CallOf, Stage
<1>6. ASSUME NEW t \in Thread, PushBounded(t) PROVE BQ!PushBounded(t)
  <2>1. /\ op' = [op EXCEPT ![t] = "push_bounded"] /\ pc' = [pc EXCEPT ![t] = "return"]
        /\ data' = [data EXCEPT ![t] = <<>>]
    BY <1>6, <1>a DEF PushBounded, HasLock, Done
  <2>2. CallOf' = [CallOf EXCEPT ![t] = [op |-> "push_bounded", stage |-> Stage("return"),
                                         data |-> <<>>]]
    BY <2>1, OneCall, Zenon
  <2> QED
    BY <1>6, <1>a, <1>b, <2>2, Zenon DEF BQ!PushBounded, BQ!Effect, Stage, PushBounded, HasLock, Done
<1>7. ASSUME NEW t \in Thread, PopWait(t) PROVE UNCHANGED <<items, CallOf>>
  BY <1>7, <1>a DEF PopWait, HasLock, Sleep, CallOf, Stage
<1>8. ASSUME NEW t \in Thread, Pop(t) PROVE BQ!Pop(t)
  <2>1. /\ op' = [op EXCEPT ![t] = "pop"] /\ pc' = [pc EXCEPT ![t] = "return"]
        /\ data' = [data EXCEPT ![t] = <<Head(items)>>]
    BY <1>8, <1>a DEF Pop, HasLock, Done
  <2>2. CallOf' = [CallOf EXCEPT ![t] = [op |-> "pop", stage |-> Stage("return"),
                                         data |-> <<Head(items)>>]]
    BY <2>1, OneCall, Zenon
  <2> QED
    BY <1>8, <1>a, <1>b, <2>2, Zenon DEF BQ!Pop, BQ!Effect, Stage, Pop, HasLock, Done
<1>9. ASSUME NEW t \in Thread, PopTimeout(t) PROVE BQ!PopNone(t)
  <2>1. /\ op' = [op EXCEPT ![t] = "pop"] /\ pc' = [pc EXCEPT ![t] = "return"]
        /\ data' = [data EXCEPT ![t] = <<>>]
    BY <1>9, <1>a DEF PopTimeout, Done
  <2>2. CallOf' = [CallOf EXCEPT ![t] = [op |-> "pop", stage |-> Stage("return"),
                                         data |-> <<>>]]
    BY <2>1, OneCall, Zenon
  <2> QED
    BY <1>9, <1>a, <1>b, <2>2, Zenon DEF BQ!PopNone, BQ!Effect, Stage, PopTimeout, Done
<1>10. ASSUME NEW t \in Thread, TryPopAll(t) PROVE BQ!TryPopAll(t)
  <2>1. /\ op' = [op EXCEPT ![t] = "try_pop_all"] /\ pc' = [pc EXCEPT ![t] = "return"]
        /\ data' = [data EXCEPT ![t] = items]
    BY <1>10, <1>a DEF TryPopAll, HasLock, Done
  <2>2. CallOf' = [CallOf EXCEPT ![t] = [op |-> "try_pop_all", stage |-> Stage("return"),
                                         data |-> items]]
    BY <2>1, OneCall, Zenon
  <2> QED
    BY <1>10, <1>a, <1>b, <2>2, Zenon DEF BQ!TryPopAll, BQ!Effect, Stage, TryPopAll, HasLock, Done
<1>11. ASSUME NEW t \in Thread, Return(t) PROVE BQ!Return(t)
  <2>1. /\ op' = [op EXCEPT ![t] = "none"] /\ pc' = [pc EXCEPT ![t] = "idle"]
        /\ data' = [data EXCEPT ![t] = <<>>]
    BY <1>11, <1>a DEF Return
  <2>2. CallOf' = [CallOf EXCEPT ![t] = [op |-> "none", stage |-> Stage("idle"),
                                         data |-> <<>>]]
    BY <2>1, OneCall, Zenon
  <2> QED
    BY <1>11, <1>a, <1>b, <2>2, Zenon DEF BQ!Return, BQ!NoCall, Stage, Return
<1>12. ASSUME NEW t \in Thread, SpuriousWakeup(t) PROVE UNCHANGED <<items, CallOf>>
  BY <1>12, <1>a, SMTT(30) DEF SpuriousWakeup, CallOf
<1>13. CASE UNCHANGED mqvars
  BY <1>13 DEF mqvars, BQ!bqvars, CallOf
<1> QED
  BY <1>1, <1>2, <1>3, <1>4, <1>5, <1>6, <1>7, <1>8, <1>9, <1>10, <1>11, <1>12, <1>13, SMTT(30)
      DEF MQNext, Method, StartConsumer, BQ!BQNext, BQ!bqvars

\* The message queue of util/queue.rs implements the queue JobQueue is written
\* against: the condition variables only delay calls, they never show.
THEOREM MessageQueueImplementsBoundedQueue == MQSpec => IsBoundedQueue
<1>1. MQInit => BQ!BQInit
  BY DEF MQInit, BQ!BQInit, BQ!NoCall, Stage, CallOf
<1>2. MQInv => Shape
  BY DEF MQInv
<1> QED
  BY <1>1, <1>2, MQInvariant, StepSimulation, PTL DEF MQSpec, IsBoundedQueue, BQ!BQSpec

\* No wakeup is lost: neither a thread waiting for an item nor one waiting for room
\* sleeps on while there is one that nobody was woken for.
THEOREM NoWakeupLost == MQSpec => []NobodyForgotten
<1>1. PopperNotForgotten /\ PusherNotForgotten => NobodyForgotten
  BY DEF NobodyForgotten
<1> QED
  BY <1>1, NoPopperForgotten, NoPusherForgotten, PTL
=============================================================================
