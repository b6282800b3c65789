------------------------------ MODULE Outputs ------------------------------
(***************************************************************************)
(* Where the units of a build put their files (CompilationFiles), and the  *)
(* warning for two that put the same file (BuildRunner::check_collisions). *)
(* Jobs of different units run at the same time, in any order their        *)
(* dependencies allow: of two that write one file, either may be last.     *)
(*                                                                         *)
(* A hash is what is hashed.  A path is a tuple of its parts.              *)
(***************************************************************************)
EXTENDS Integers, FiniteSets, Sequences

CONSTANT OutputWorlds  \* sets of worlds: a unit graph, its roots, and the options

VARIABLES outworld,
          metas,       \* CompilationFiles.metas
          reported,    \* paths check_collisions warned about
          written,     \* whose contents each file has
          binaries,    \* Compilation.binaries and tests: the files of each root
          outat        \* "prepare", "check", "compile", "collected", "error"

outvars == <<outworld, metas, reported, written, binaries, outat>>

Unit(u) == outworld.units[u]
OutputUnits == DOMAIN outworld.units
Opt(name) == name \in outworld.options

IsAnyTest(unit) == unit.mode = "test"
IsDoc(unit) == unit.mode \in {"doc", "doctest"}
IsExecutable(unit) == unit.target.kind = "bin"

\* cdylib and dylib, and executables where their name is part of the interface
FixedName(unit) ==
  unit.target.kind = "dylib" \/ (IsExecutable(unit) /\ Opt("msvc"))

use_extra_filename(unit) ==
  /\ ~IsDoc(unit)
  /\ \/ IsAnyTest(unit) \/ unit.mode = "check"
     \/ /\ Opt("new_layout") /\ unit.target.kind \notin {"build", "dylib", "bin"}
     \/ /\ ~Opt("new_layout") /\ ~(FixedName(unit) /\ unit.pkg.is_path)

use_pkg_dir(unit) ==
  /\ ~IsDoc(unit)
  /\ \/ Opt("new_layout") \/ IsAnyTest(unit) \/ unit.mode = "check"
     \/ ~(FixedName(unit) /\ unit.pkg.is_path)

\* what both hashes have in common
SharedHash(unit) ==
  [pkg |-> unit.pkg.name, features |-> unit.features, profile |-> unit.profile, mode |-> unit.mode,
   kind |-> unit.kind, target |-> unit.target,
   differs |-> unit.kind = "host" /\ ~Opt("target_applies_to_host") /\ unit.rustflags # "host"]

\* the sorted list of the dependencies' hashes
AsBag(f) == [h \in {f[d] : d \in DOMAIN f} |-> Cardinality({d \in DOMAIN f : f[d] = h})]

UnitId(unit, dep_ids) ==
  [shared |-> SharedHash(unit), deps |-> AsBag(dep_ids),
   flags |-> IF Opt("remap") THEN "" ELSE unit.rustflags]

\* metadata_of and compute_metadata, units numbered after their dependencies
Metas ==
  LET meta[u \in OutputUnits] ==
        LET unit == Unit(u)
            deps == [d \in unit.deps |-> meta[d]]
        IN [unit_id |-> UnitId(unit, [d \in unit.deps |-> deps[d].unit_id]),
            c_metadata |-> <<SharedHash(unit), AsBag([d \in unit.deps |-> deps[d].c_metadata])>>,
            c_extra_filename |-> use_extra_filename(unit), pkg_dir |-> use_pkg_dir(unit)]
  IN meta

PkgDir(u) ==
  <<Unit(u).pkg.name, IF metas[u].pkg_dir THEN <<metas[u].unit_id>> ELSE <<>> >>

ArtifactDirOf(u) == <<"artifact-dir", Unit(u).kind>>

output_dir(u) ==
  LET unit == Unit(u)
  IN CASE IsDoc(unit) -> <<"doc", unit.kind>>
       [] unit.target.kind = "build" -> <<"build", "host", PkgDir(u)>>
       [] unit.target.kind # "build" /\ ~IsDoc(unit) /\ unit.artifact ->
            <<"artifact", unit.kind, PkgDir(u)>>
       [] OTHER -> IF Opt("new_layout") THEN <<"deps", unit.kind, PkgDir(u)>> ELSE <<"deps", unit.kind>>

\* the kinds of files rustc makes (TargetInfo::rustc_outputs)
rustc_outputs(unit) ==
  CASE unit.mode = "check" -> {"rmeta"}
    [] unit.mode = "test" -> {"exe"}
    [] OTHER -> CASE unit.target.kind = "lib" -> {"rlib", "rmeta"}
                  [] unit.target.kind = "dylib" -> {"so"}
                  [] OTHER -> {"exe"}

\* a set of at most one path
uplift_to(u, file_type, from_path) ==
  LET unit == Unit(u)
      filename == <<unit.target.name, file_type>>
      to == IF unit.target.kind = "build" THEN output_dir(u) \o filename ELSE ArtifactDirOf(u) \o filename
  IN IF \/ unit.mode # "build" \/ file_type = "rmeta" \/ unit.artifact
        \/ (Opt("new_layout") /\ unit.target.kind = "build")
        \/ (unit.target.kind \notin {"bin", "build", "dylib"} /\ u \notin outworld.roots)
        \/ to = from_path
     THEN {} ELSE {to}

calc_outputs_rustc(u) ==
  LET unit == Unit(u)
      path(t) == output_dir(u) \o
                 (IF metas[u].c_extra_filename THEN <<unit.target.name, t, metas[u].unit_id>>
                  ELSE <<unit.target.name, t>>)
  IN {[path |-> path(t), hardlink |-> uplift_to(u, t, path(t)),
       export |-> IF Opt("export") /\ unit.target.kind # "build" /\ uplift_to(u, t, path(t)) # {}
                  THEN {<<"export", unit.target.name, t>>} ELSE {}] : t \in rustc_outputs(unit)}

calc_outputs(u) ==
  CASE Unit(u).mode = "doc" ->
         {[path |-> output_dir(u) \o <<Unit(u).target.name, "index.html">>, hardlink |-> {}, export |-> {}]}
    [] Unit(u).mode \in {"run-custom-build", "doctest"} -> {}
    [] OTHER -> calc_outputs_rustc(u)

\* the fingerprint, the cached messages and the dep-info lie side by side
fingerprint_file_path(u) ==
  LET unit == Unit(u)
  IN <<"fingerprint", unit.kind, PkgDir(u),
       CASE IsAnyTest(unit) -> "test-" [] IsDoc(unit) -> "doc-"
         [] unit.mode = "run-custom-build" -> "run-" [] OTHER -> "",
       unit.target.kind, unit.target.name>>

build_script_out_dir(u) == <<"build", Unit(u).kind, PkgDir(u), "out">>

OutputPaths(u) ==
  UNION {{o.path} \union o.hardlink \union o.export : o \in calc_outputs(u)}

\* all the files a unit's job writes
Writes(u) ==
  OutputPaths(u) \union {fingerprint_file_path(u)}
    \union (IF Unit(u).mode = "run-custom-build" THEN {build_script_out_dir(u)} ELSE {})

----------------------------------------------------------------------------
OutputsInit ==
  /\ \E family \in OutputWorlds : outworld \in family
  /\ metas = <<>> /\ reported = {} /\ written = <<>> /\ binaries = <<>> /\ outat = "prepare"

PrepareUnits ==
  /\ outat = "prepare"
  /\ metas' = Metas
  /\ outat' = "check"
  /\ UNCHANGED <<outworld, reported, written, binaries>>

\* two documented targets of the packages that were asked for, with one name
DocCollision ==
  \E u, v \in OutputUnits :
    /\ u # v /\ Unit(u).kind = Unit(v).kind /\ Unit(u).target.name = Unit(v).target.name
    /\ (Unit(u).target.kind \in {"lib", "dylib"}) = (Unit(v).target.kind \in {"lib", "dylib"})
    /\ \A w \in {u, v} : Unit(w).mode = "doc" /\ \E r \in outworld.roots : Unit(r).pkg = Unit(w).pkg

check_collisions ==
  /\ outat = "check"
  /\ reported' = {p \in UNION {OutputPaths(u) : u \in OutputUnits} :
                    \E u, v \in OutputUnits : u # v /\ p \in OutputPaths(u) /\ p \in OutputPaths(v)}
  /\ outat' = IF DocCollision THEN "error" ELSE "compile"
  /\ UNCHANGED <<outworld, metas, written, binaries>>

Compiled == {u \in OutputUnits : \E f \in DOMAIN written : u \in written[f]}

\* a unit's job: `written` keeps all the units that have written a file
Compile(u) ==
  /\ outat = "compile" /\ u \notin Compiled /\ Unit(u).mode # "doctest"
  /\ \A d \in Unit(u).deps : d \in Compiled
  /\ written' = [f \in DOMAIN written \union Writes(u) |->
                   (IF f \in DOMAIN written THEN written[f] ELSE {})
                     \union (IF f \in Writes(u) THEN {u} ELSE {})]
  /\ UNCHANGED <<outworld, metas, reported, binaries, outat>>

bin_dst(o) == IF o.hardlink # {} THEN o.hardlink ELSE {o.path}

collect_tests_and_executables(u) ==
  LET unit == Unit(u)
  IN CASE unit.mode = "test" -> {o.path : o \in calc_outputs(u)}
       [] OTHER -> IF IsExecutable(unit) /\ unit.mode = "build"
                   THEN UNION {bin_dst(o) : o \in calc_outputs(u)} ELSE {}

Collect ==
  /\ outat = "compile" /\ \A u \in OutputUnits : u \in Compiled \/ Unit(u).mode = "doctest"
  /\ binaries' = [u \in outworld.roots |-> collect_tests_and_executables(u)]
  /\ outat' = "collected"
  /\ UNCHANGED <<outworld, metas, reported, written>>

OutputsNext ==
  PrepareUnits \/ check_collisions \/ (\E u \in OutputUnits : Compile(u)) \/ Collect

----------------------------------------------------------------------------
\* Two units never write one file unnoticed: when they share an output, a
\* fingerprint, cached messages or an OUT_DIR, check_collisions has warned of
\* some file of theirs.  It looks at the outputs only, so this is what the
\* metadata hash has to make true (compute_metadata).  The exception is a binary
\* built for itself and as an artifact dependency: its outputs are apart, but
\* being an artifact is not hashed, and the two may share their fingerprint and
\* cached messages, unnoticed.
SharedFilesReported ==
  \A f \in DOMAIN written : \A u, v \in written[f] :
    u # v =>
      \/ OutputPaths(u) \intersect OutputPaths(v) \intersect reported # {}
      \/ Unit(u).artifact # Unit(v).artifact /\ f = fingerprint_file_path(u)

\* What cargo run and cargo test start is the unit they asked for, or the user
\* was warned of the file (collect_tests_and_executables).
RunsItsOwn ==
  \A u \in DOMAIN binaries : \A p \in binaries[u] : written[p] = {u} \/ p \in reported

\* A file with a hash in its name has one writer: all that tells two units of
\* one build apart, their dependencies included, is in the hash.
HashedFilesApart ==
  \A u, v \in Compiled : u # v /\ metas[u].c_extra_filename =>
    {o.path : o \in calc_outputs(u)} \intersect {o.path : o \in calc_outputs(v)} = {}

\* What CompilationFiles and check_collisions together promise about files.
OutputsApart == SharedFilesReported /\ RunsItsOwn /\ HashedFilesApart

=============================================================================
