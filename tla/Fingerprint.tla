---------------------------- MODULE Fingerprint ----------------------------
(***************************************************************************)
(* How cargo decides that a unit need not be built again                   *)
(* (compiler/fingerprint, compiler/custom_build.rs, compiler/mod.rs): the  *)
(* hash of everything known before the build, stored beside the outputs,   *)
(* and the modification times of outputs, dep-info files and sources.      *)
(*                                                                         *)
(* One build directory, used by one cargo after another (BuildDir has the  *)
(* locking), while the user edits sources at any moment, kills cargo, and  *)
(* comes back with another environment or other settings.  Each stamp of   *)
(* the clock differs from the others: what edits within one tick of the    *)
(* file system do is discussed in fingerprint/mod.rs and in the README.    *)
(***************************************************************************)
EXTENDS Naturals, Sequences, FiniteSets, FiniteSetsExt

CONSTANTS
  Projects,     \* unit graphs: see MCFingerprint for the fields
  MaxBuilds,  \* bound: builds started
  MaxEvents   \* bound: edits, kills and failing units

VARIABLES
  project,   \* the unit graph
  clock,   \* the last time stamp given
  file,    \* sources: their contents (as a number) and mtime
  disk,    \* the build directory, per unit
  proc,    \* the cargo process
  fp,      \* its Fingerprint of each unit
  job,     \* its job for each unit
  file_cache,   \* its mtime_cache and checksum_cache: files as first looked at
  builds, events,
  settled  \* ghost: what was built and not disturbed since

fvars == <<project, clock, file, disk, proc, fp, job, file_cache, builds, events, settled>>

Unit == DOMAIN project.kind
Kind(u) == project.kind[u]
Deps(u) == project.deps[u]

RECURSIVE Below(_)
Below(u) == {u} \union UNION {Below(d) : d \in Deps(u)}

\* BuildRunner::outputs: a library has metadata and objects, `cargo check` leaves
\* the metadata only; an overridden build script has none.
Outputs(u) ==
  CASE Kind(u) = "lib" -> {"rmeta", "rlib"}
    [] Kind(u) = "check" -> {"rmeta"}
    [] Kind(u) = "bin" -> {"exe"}
    [] Kind(u) = "run" -> {"stdout"}
    [] Kind(u) = "doc" -> {"html"}
    [] Kind(u) = "override" -> {}

Compiled(u) == Kind(u) \in {"lib", "check", "bin"}

OnlyRequiresRmeta(u, d) == Kind(u) = "lib" /\ Kind(d) = "lib"

NoHash == [unit |-> "none"]
Cleared == [unit |-> "cleared"]
Absent == [mtime |-> 0, made |-> [unit |-> "none"]]
NoDepInfo == [mtime |-> 0, data |-> <<>>, env |-> "-"]
Silent == [changed |-> {}, env |-> FALSE]
NoJob == [st |-> "none", at |-> 0, made |-> [unit |-> "none"]]
NewFingerprint == [local |-> <<>>, memo |-> NoHash, fs |-> "stale"]
Idle == [phase |-> "idle", root |-> "none", env |-> "-", setting |-> "-", forced |-> FALSE,
         todo |-> <<>>, failed |-> FALSE, edited |-> FALSE]
NotSettled == [units |-> {}, env |-> "-", setting |-> "-"]

FInit ==
  /\ project \in Projects
  /\ clock = 1
  /\ file = [f \in project.source |-> [data |-> 0, mtime |-> 1]]
  /\ disk = [u \in Unit |-> [hash |-> NoHash, dep_info |-> NoDepInfo, printed |-> Silent,
                             outs |-> [o \in Outputs(u) |-> Absent]]]
  /\ proc = Idle
  /\ fp = [u \in Unit |-> NewFingerprint]
  /\ job = [u \in Unit |-> NoJob]
  /\ file_cache = <<>>
  /\ builds = 0
  /\ events = 0
  /\ settled = NotSettled

-----------------------------------------------------------------------------
\* What a unit is made from.

\* The script's directives depend on its source: editing build.rs changes them.
Prints(script) == project.prints[script.data["build.rs"] % 2]

\* The script of a run unit is the one compiled unit among its dependencies.
Script(u) == CHOOSE d \in Deps(u) : Kind(d) = "bin"

\* `produced[d]`: what is read of a unit below.  A script that prints no directive may
\* read any file of its package, one that does reads what it declares.
MadeOf(u, now, produced, env, setting) ==
  IF Kind(u) = "run"
  THEN LET said == Prints(produced[Script(u)]) IN
       [unit |-> u,
        data |-> [f \in IF said = Silent THEN DOMAIN now ELSE said.changed |-> now[f].data],
        env |-> IF said.env THEN env ELSE "-",
        deps |-> produced]
  ELSE [unit |-> u,
        data |-> [f \in project.reads[u] |-> now[f].data],
        env |-> IF u \in project.env THEN env ELSE "-",
        setting |-> setting,
        deps |-> produced]

\* A binary is linked from everything below it.
Inputs(u) == IF Kind(u) = "bin" THEN Below(u) \ {u} ELSE Deps(u)

Overridden(setting) == [unit |-> "override", setting |-> setting]

Produced(u, d) ==
  IF Kind(d) = "override" THEN Overridden(proc.setting)
  ELSE disk[d].outs[IF OnlyRequiresRmeta(u, d) THEN "rmeta"
                    ELSE CHOOSE o \in Outputs(d) : o # "rmeta" \/ Outputs(d) = {o}].made

\* What a build from nothing would produce.
RECURSIVE Expected(_)
Expected(u) ==
  IF Kind(u) = "override" THEN Overridden(proc.setting)
  ELSE MadeOf(u, file, [d \in Inputs(u) |-> Expected(d)], proc.env, proc.setting)

-----------------------------------------------------------------------------
\* calculate: the fingerprint of each unit, the ones below first.

\* PathSource::fingerprint: the newest file of the package.
PkgFingerprint == [kind |-> "precalculated", mtime |-> Max({file[f].mtime : f \in DOMAIN file})]

LocalFingerprintsDeps(said) ==
  (IF said.changed = {} THEN <<>> ELSE <<[kind |-> "rerun-if-changed", paths |-> said.changed]>>)
    \o (IF said.env THEN <<[kind |-> "rerun-if-env-changed", val |-> proc.env]>> ELSE <<>>)

BuildScriptLocal(said) ==
  IF said = Silent THEN <<PkgFingerprint>> ELSE LocalFingerprintsDeps(said)

Local(u) ==
  CASE Kind(u) = "run" -> BuildScriptLocal(disk[u].printed)
    [] Kind(u) = "override" -> <<[kind |-> "overridden", val |-> proc.setting]>>
    [] Kind(u) = "doc" -> <<PkgFingerprint>>
    [] OTHER -> <<[kind |-> "dep-info"]>>

Newest(u) == Max({disk[u].outs[o].mtime : o \in Outputs(u)})

\* The files find_stale_file looks at, and the file they are compared with.
Checked(u) ==
  (CASE Kind(u) = "run" -> disk[u].printed.changed
     [] Compiled(u) -> DOMAIN disk[u].dep_info.data
     [] OTHER -> {}) \ project.home

Reference(u) == IF Kind(u) = "run" THEN disk[u].outs["stdout"].mtime ELSE disk[u].dep_info.mtime

LookedAt(f) == IF f \in DOMAIN file_cache THEN file_cache[f] ELSE file[f]

StaleFile(u, f) ==
  IF project.checksum /\ Compiled(u)
  THEN LookedAt(f).data # disk[u].dep_info.data[f]
  ELSE LookedAt(f).mtime > Reference(u)

\* Nothing else looks stale before the files are examined.
DependencyNewer(u, d) ==
  \/ fp[d].fs = "stale"
  \/ Outputs(d) # {} /\ (IF OnlyRequiresRmeta(u, d) THEN disk[d].outs["rmeta"].mtime
                                                    ELSE Newest(d)) > Newest(u)

UpToDateBelow(u) ==
  /\ \A o \in Outputs(u) : disk[u].outs[o].mtime # 0
  /\ \A d \in Deps(u) : ~DependencyNewer(u, d)
  /\ Compiled(u) => /\ disk[u].dep_info.mtime # 0
                    /\ disk[u].dep_info.env \in {"-", proc.env}

\* The examination stops at the first stale file it comes upon.
CheckFilesystem(u, fs, seen) ==
  IF Outputs(u) = {} THEN fs = "ok" /\ seen = {}
  ELSE IF ~UpToDateBelow(u) THEN fs = "stale" /\ seen = {}
  ELSE LET stale == {f \in Checked(u) : StaleFile(u, f)} IN
       IF stale = {} THEN fs = "ok" /\ seen = Checked(u)
       ELSE fs = "stale" /\ Cardinality(seen \intersect stale) = 1

Order(root) == SelectSeq(project.order, LAMBDA u : u \in Below(root))

StartBuild ==
  /\ proc.phase \in {"idle", "done"} /\ builds < MaxBuilds
  /\ builds' = builds + 1
  /\ \E root \in project.roots, env \in project.envs, setting \in project.settings, forced \in project.forced :
       /\ proc' = [Idle EXCEPT !.phase = "calculate", !.root = root, !.env = env,
                               !.setting = setting, !.forced = forced, !.todo = Order(root)]
       /\ settled' = IF settled.env = env /\ settled.setting = setting /\ ~forced
                     THEN settled ELSE NotSettled
  /\ fp' = [u \in Unit |-> NewFingerprint]
  /\ job' = [u \in Unit |-> NoJob]
  /\ file_cache' = <<>>
  /\ UNCHANGED <<project, clock, file, disk, events>>

Reversed(s) == [i \in 1..Len(s) |-> s[Len(s) + 1 - i]]

\* Then prepare_target for the root first, and for what is below it after.
Advance(phase, order) ==
  proc' = IF Len(proc.todo) > 1 THEN [proc EXCEPT !.todo = Tail(@)]
          ELSE [proc EXCEPT !.phase = phase, !.todo = order]

Calculate ==
  /\ proc.phase = "calculate"
  /\ \E u \in {Head(proc.todo)} :
       \E fs \in {"ok", "stale"}, seen \in SUBSET Checked(u) :
         /\ CheckFilesystem(u, fs, seen)
         /\ fp' = [fp EXCEPT ![u].local = Local(u), ![u].fs = fs]
         /\ file_cache' = [f \in DOMAIN file_cache \union seen |-> LookedAt(f)]
  /\ Advance("prepare", Reversed(Order(proc.root)))
  /\ UNCHANGED <<project, clock, file, disk, job, builds, events, settled>>

\* Fingerprint::hash_u64, remembered for the unit and for all below it.
RECURSIVE HashU64(_, _)
HashU64(f, u) ==
  IF f[u].memo # NoHash THEN f[u].memo
  ELSE [unit |-> u, setting |-> IF Kind(u) \in {"run", "override"} THEN "-" ELSE proc.setting,
        local |-> f[u].local, deps |-> [d \in Deps(u) |-> HashU64(f, d)]]

Memoized(f, u) == [x \in Unit |-> IF x \in Below(u) THEN [f[x] EXCEPT !.memo = HashU64(f, x)] ELSE f[x]]

CompareOldFingerprint(u) ==
  /\ disk[u].hash = HashU64(fp, u)
  /\ fp[u].fs = "ok"
  /\ ~(proc.forced /\ u = proc.root)

\* "never mistakes a partially written output as up-to-date".
ClearOld(old) == IF old = NoHash THEN NoHash ELSE Cleared

PrepareTarget ==
  /\ proc.phase = "prepare"
  /\ \E u \in {Head(proc.todo)} :
       /\ \/ /\ CompareOldFingerprint(u)
             /\ job' = [job EXCEPT ![u].st = "done"]
             /\ UNCHANGED disk
          \/ /\ ~CompareOldFingerprint(u)
             /\ job' = [job EXCEPT ![u].st = "queued"]
             /\ disk' = [disk EXCEPT ![u].hash = ClearOld(@)]
       /\ fp' = Memoized(fp, u)
  /\ Advance("clear_memoized", <<>>)
  /\ UNCHANGED <<project, clock, file, file_cache, builds, events, settled>>

ClearMemoized == [u \in Unit |-> [fp[u] EXCEPT !.memo = NoHash]]

Execute ==
  /\ proc.phase = "clear_memoized"
  /\ fp' = ClearMemoized
  /\ proc' = [proc EXCEPT !.phase = "execute"]
  /\ UNCHANGED <<project, clock, file, disk, job, file_cache, builds, events, settled>>

-----------------------------------------------------------------------------
\* The jobs of dirty units; JobQueue has the scheduling.

Running == {u \in Unit : job[u].st \in {"invoked", "read", "meta", "written"}}

Ready(u) ==
  \A d \in Inputs(u) :
    job[d].st = "done" \/ (OnlyRequiresRmeta(u, d) /\ job[d].st \in {"meta", "written"})

\* The outputs that rustc must not find are removed; the moment is noted.
Invoke(u) ==
  /\ proc.phase = "execute" /\ ~proc.failed
  /\ job[u].st = "queued" /\ Ready(u) /\ Kind(u) # "override"
  /\ clock' = clock + 1
  /\ job' = [job EXCEPT ![u].st = "invoked", ![u].at = clock + 1]
  /\ disk' = [disk EXCEPT ![u].outs = [o \in Outputs(u) |-> IF o \in {"rlib", "exe"} THEN Absent ELSE @[o]]]
  /\ UNCHANGED <<project, file, proc, fp, file_cache, builds, events, settled>>

\* rustc, rustdoc or the build script reads its inputs (external).
ReadInputs(u) ==
  /\ job[u].st = "invoked"
  /\ job' = [job EXCEPT ![u].st = "read",
                        ![u].made = MadeOf(u, file, [d \in Inputs(u) |-> Produced(u, d)],
                                           proc.env, proc.setting)]
  /\ UNCHANGED <<project, clock, file, disk, proc, fp, file_cache, builds, events, settled>>

\* An incremental rustc leaves the metadata alone when it would be the same (external).
Emitted(old, made) == {[mtime |-> clock + 1, made |-> made]} \union {x \in {old} : x.made = made}

EmitMetadata(u) ==
  /\ job[u].st = "read" /\ Kind(u) = "lib"
  /\ clock' = clock + 1
  /\ job' = [job EXCEPT ![u].st = "meta"]
  /\ \E out \in Emitted(disk[u].outs["rmeta"], job[u].made) :
       disk' = [disk EXCEPT ![u].outs["rmeta"] = out]
  /\ UNCHANGED <<project, file, proc, fp, file_cache, builds, events, settled>>

\* Mutant: the dep-info keeps the time at which it is written.
DepInfoLate(u) ==
  [mtime |-> clock + 1,
   data |-> IF u \in project.local THEN job[u].made.data ELSE <<>>,
   env |-> job[u].made.env]

\* translate_dep_info: files of the package count for path dependencies only.
DepInfo(u) ==
  [mtime |-> job[u].at,
   data |-> IF u \in project.local THEN job[u].made.data ELSE <<>>,
   env |-> job[u].made.env]

\* The rest of the work of rustc, rustdoc and of custom_build: what cargo dates back.
Finished(u, out) ==
  CASE Kind(u) = "lib" -> [disk[u] EXCEPT !.outs["rlib"] = [out EXCEPT !.mtime = clock + 1], !.dep_info = DepInfo(u)]
    [] Kind(u) = "bin" -> [disk[u] EXCEPT !.outs["exe"] = out, !.dep_info = DepInfo(u)]
    [] Kind(u) = "check" -> [disk[u] EXCEPT !.outs["rmeta"] = [out EXCEPT !.mtime = job[u].at],
                                            !.dep_info = DepInfo(u)]
    [] Kind(u) = "run" -> [disk[u] EXCEPT !.outs["stdout"] = [out EXCEPT !.mtime = job[u].at],
                                          !.printed = Prints(job[u].made.deps[Script(u)])]
    [] Kind(u) = "doc" -> [disk[u] EXCEPT !.outs["html"] = out]

Finish(u) ==
  /\ job[u].st = IF Kind(u) = "lib" THEN "meta" ELSE "read"
  /\ clock' = clock + 1
  /\ job' = [job EXCEPT ![u].st = "written"]
  /\ \E out \in IF Kind(u) = "check" THEN Emitted(disk[u].outs["rmeta"], job[u].made)
                ELSE {[mtime |-> clock + 1, made |-> job[u].made]} :
       disk' = [disk EXCEPT ![u] = Finished(u, out)]
  /\ UNCHANGED <<project, file, proc, fp, file_cache, builds, events, settled>>

\* The local part of a build script's fingerprint is that of the directives just
\* printed; if there are none, it stays what it was.
Relocated(u) ==
  IF Kind(u) = "run" /\ disk[u].printed # Silent
  THEN [fp EXCEPT ![u].local = LocalFingerprintsDeps(disk[u].printed)]
  ELSE fp

WriteFingerprint(u) ==
  /\ \/ job[u].st = "written"
     \/ job[u].st = "queued" /\ Kind(u) = "override" /\ proc.phase = "execute" /\ ~proc.failed
  /\ \E f \in {Relocated(u)} :
       /\ disk' = [disk EXCEPT ![u].hash = HashU64(f, u)]
       /\ fp' = Memoized(f, u)
  /\ job' = [job EXCEPT ![u].st = "done"]
  /\ UNCHANGED <<project, clock, file, proc, file_cache, builds, events, settled>>

\* rustc, rustdoc or the script fails: its outputs stay as they are.
Fail(u) ==
  /\ job[u].st \in {"read", "meta"} /\ events < MaxEvents
  /\ events' = events + 1
  /\ job' = [job EXCEPT ![u].st = "failed"]
  /\ proc' = [proc EXCEPT !.failed = TRUE]
  /\ UNCHANGED <<project, clock, file, disk, fp, file_cache, builds, settled>>

\* Ghost: two ways in which a build leaves something for the next.  A script that stops
\* printing directives ("it's basically buggy", fingerprint/mod.rs:570).  A unit whose
\* fingerprint alone was missing, cargo having been killed before writing it: it is built
\* again, under units still called fresh that are older than it from then on.
LeftOver ==
  \E u \in Below(proc.root) :
    \/ Kind(u) = "run" /\ disk[u].printed = Silent /\ fp[u].local # <<PkgFingerprint>>
    \/ job[u].at = 0 /\ \E d \in Deps(u) : job[d].at > 0

End ==
  /\ proc.phase = "execute" /\ Running = {}
  /\ proc.failed \/ \A u \in Below(proc.root) : job[u].st = "done"
  /\ proc' = [proc EXCEPT !.phase = "done"]
  /\ settled' = IF proc.failed \/ proc.edited \/ LeftOver THEN settled
                ELSE [units |-> Below(proc.root), env |-> proc.env, setting |-> proc.setting]
  /\ UNCHANGED <<project, clock, file, disk, fp, job, file_cache, builds, events>>

-----------------------------------------------------------------------------
\* The user.

Edit ==
  /\ events < MaxEvents /\ builds > 0
  /\ events' = events + 1
  /\ clock' = clock + 1
  /\ \E f \in project.source \ project.home :
       file' = [file EXCEPT ![f] = [data |-> @.data + 1, mtime |-> clock + 1]]
  /\ proc' = [proc EXCEPT !.edited = TRUE]
  /\ settled' = NotSettled
  /\ UNCHANGED <<project, disk, fp, job, file_cache, builds>>

\* Whatever was being written may be left half done, and newer than all else.
Kill ==
  /\ proc.phase \notin {"idle", "done"} /\ events < MaxEvents
  /\ events' = events + 1
  /\ clock' = clock + 1
  /\ \E half \in SUBSET {u \in Running : job[u].st \in {"read", "meta"}} :
       disk' = [u \in Unit |->
         IF u \notin half THEN disk[u]
         ELSE [disk[u] EXCEPT !.outs = [o \in Outputs(u) |->
                IF o = "rmeta" /\ job[u].st = "meta" THEN @[o]
                ELSE [mtime |-> clock + 1, made |-> [unit |-> "half"]]]]]
  /\ proc' = Idle
  /\ fp' = [u \in Unit |-> NewFingerprint]
  /\ job' = [u \in Unit |-> NoJob]
  /\ file_cache' = <<>>
  /\ settled' = NotSettled
  /\ UNCHANGED <<project, file, builds>>

FNext ==
  \/ StartBuild \/ Calculate \/ PrepareTarget \/ Execute \/ End \/ Edit \/ Kill
  \/ \E u \in Unit : \/ Invoke(u) \/ ReadInputs(u) \/ EmitMetadata(u) \/ Finish(u)
                     \/ WriteFingerprint(u) \/ Fail(u)

FSpec == FInit /\ [][FNext]_fvars

-----------------------------------------------------------------------------
\* Properties.

\* A build that succeeds, with no edit after it started, leaves every output of its units
\* as a build from nothing would make it: no edit before, during or after an earlier
\* build, no interruption, failure or change of environment or settings makes
\* compare_old_fingerprint call fresh a unit that is not.
FreshIsCurrent ==
  proc.phase = "done" /\ ~proc.failed /\ ~proc.edited =>
    \A u \in Below(proc.root) : \A o \in Outputs(u) : disk[u].outs[o].made = Expected(u)

\* What a successful, undisturbed build has brought up to date is fresh for the next one
\* with the same environment and settings: "to ensure that after a build completes
\* everything is up-to-date" (Fingerprint::clear_memoized, and the mtimes dated back).
Settles ==
  \A u \in settled.units :
    proc.phase \in {"prepare", "clear_memoized", "execute"} => job[u].st \in {"none", "done"}

\* Fingerprints call fresh what is up to date, and nothing else.
FingerprintsRight == FreshIsCurrent /\ Settles
=============================================================================
