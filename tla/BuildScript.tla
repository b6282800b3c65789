----------------------------- MODULE BuildScript -----------------------------
(***************************************************************************)
(* Build scripts (custom_build): running them or reusing what they printed *)
(* before, what they tell each other, and what rustc and the programs that *)
(* cargo runs are told because of them.                                    *)
(*                                                                         *)
(* A unit is [pkg, of], `of` being "lib", "bin", "script" (compiling the   *)
(* script) or "run".  The units of a build follow from the packages.  The  *)
(* build directory may be moved between two builds; a script may change.   *)
(* bsworld.dest is where the artifact directory is: "around" the build       *)
(* directory (build.build-dir is not set), "apart" from it, or "none": a     *)
(* `cargo check` without --timings does not open one.                       *)
(***************************************************************************)
EXTENDS Integers, SequencesExt

CONSTANTS ScriptWorlds, \* sets of worlds
          Places        \* where the build directory can be

VARIABLES bsworld,               \* packages, and what may happen
          place,                 \* where the build directory is
          saved,                 \* the files of a script's last run
          edition,               \* which of its texts a script has
          build_scripts,         \* BuildScripts of each unit, by build_map
          build_script_outputs,  \* BuildScriptOutputs
          job,                   \* the state of each unit's job
          told,                  \* what the last rustc or script was told
          bsat                   \* "idle", "planning", "running", "failed" or "panicked"

scriptvars == <<bsworld, place, saved, edition, build_scripts, build_script_outputs, job, told, bsat>>

Packages == 1..Len(bsworld.packages)
Pack(p) == bsworld.packages[p]
ScriptUnit(p, of) == [pkg |-> p, of |-> of]
Run(p) == ScriptUnit(p, "run")
HasScript(p) == Pack(p).script # "none"

\* The configuration's target.<triple>.<links> stands for a script.
Overridden(p) == Pack(p).links /\ Pack(p).override
OverrideLines(p) == <<[key |-> "link-search", value |-> <<"overridden", p>>],
                      [key |-> "link-lib", value |-> <<"overridden", p>>],
                      [key |-> "metadata", value |-> <<"overridden", p>>]>>

ScriptRuns ==
  {ScriptUnit(p, "lib") : p \in Packages} \union {ScriptUnit(p, "bin") : p \in {p \in Packages : Pack(p).bin}}
    \union {Run(p) : p \in {p \in Packages : HasScript(p)}}
    \union {ScriptUnit(p, "script") : p \in {p \in Packages : HasScript(p) /\ ~Overridden(p)}}

\* unit_deps: the units are those compute_deps and connect_run_custom_build_deps make;
\* an overridden script is not compiled
UnitDeps(u) ==
  LET own == IF HasScript(u.pkg) THEN {Run(u.pkg)} ELSE {}
      libs == {ScriptUnit(d, "lib") : d \in Pack(u.pkg).normal}
  IN CASE u.of = "lib" -> own \union libs
       [] u.of = "bin" -> own \union libs \union {ScriptUnit(u.pkg, "lib")}
       [] u.of = "script" -> {ScriptUnit(d, "lib") : d \in Pack(u.pkg).build}
       [] u.of = "run" -> (IF Overridden(u.pkg) THEN {} ELSE {ScriptUnit(u.pkg, "script")})
                          \union {Run(d) : d \in {d \in Pack(u.pkg).normal : HasScript(d) /\ Pack(d).links}}

IsForHost(u) == u.of \in {"script", "run"} \/ Pack(u.pkg).macro
HasLinkable(u) == u.of = "lib"

\* dependencies in the order of their package ids
SortedDeps(u) ==
  LET of(k) == {d \in UnitDeps(u) : d.pkg = k}
  IN FlattenSeq([k \in Packages |-> SetToSeq(of(k))])

Dedup(seq) == FoldLeft(LAMBDA s, x : IF x \in ToSet(s) THEN s ELSE Append(s, x), <<>>, seq)

RECURSIVE BuildOne(_)
\* build_map: the scripts whose libraries the unit links, its own first
BuildOne(u) ==
  LET deps == SortedDeps(u)
  IN Dedup((IF u.of \in {"lib", "bin"} /\ HasScript(u.pkg) THEN <<u.pkg>> ELSE <<>>)
           \o FlattenSeq([i \in DOMAIN deps |->
                            IF ~IsForHost(deps[i]) /\ HasLinkable(deps[i]) THEN BuildOne(deps[i]) ELSE <<>>]))

ToLink(u) == build_scripts[u].to_link

\* the scripts whose libraries the compiler, or the script that runs, loads
Plugins(u) == build_scripts[u].plugins

OutDir(p) == <<place, p>>

\* What script p prints in its edition e, run with `dir` for OUT_DIR.
Printed(p, e, dir) ==
  LET line(key, value) == [key |-> key, value |-> value]
      kind == Pack(p).script
      extra == CASE kind = "unknown key" -> <<line("unknown", dir)>>
                 [] kind = "error" /\ e = 0 -> <<line("error", dir)>>
                 [] OTHER -> <<>>
  IN <<line("link-search", <<"external", p>>), line("link-search", dir), line("link-lib", <<"lib", p, e>>),
       line("link-arg-bins", <<"bins", p, e>>), line("cdylib-link-arg", <<"cdylib", p, e>>),
       line("cfg", <<"cfg", p, e>>), line("metadata", <<"metadata", p, e>>)>> \o extra

LibraryPathIsOurs(path, out) == path = out

ParseError == [ok |-> FALSE, lines |-> <<>>]

\* BuildOutput::parse: the out dir of the run that printed the lines becomes today's
ParseOutput(p, lines, when_generated, today) ==
  IF (\E i \in DOMAIN lines : lines[i].key = "unknown")
     \/ ((\E i \in DOMAIN lines : lines[i].key = "link-arg-bins") /\ ~Pack(p).bin)
  THEN ParseError
  ELSE [ok |-> TRUE,
        lines |-> [i \in DOMAIN lines |->
                     IF lines[i].value = when_generated THEN [lines[i] EXCEPT !.value = today] ELSE lines[i]]]

Values(lines, key) ==
  LET of == SelectSeq(lines, LAMBDA l : l.key = key) IN [i \in DOMAIN of |-> of[i].value]

NotSaved == <<>>

RECURSIVE ScriptsBehind(_)
ScriptsBehind(p) == {p} \union UNION {ScriptsBehind(d.pkg) : d \in {d \in UnitDeps(Run(p)) : d.of = "run"}}

\* What a run depends on: it is fresh while this is what its fingerprint holds.
RunFingerprint(p) == [q \in ScriptsBehind(p) |-> edition[q]]

----------------------------------------------------------------------------
ScriptInit ==
  /\ \E family \in ScriptWorlds : bsworld \in family
  /\ place \in Places
  /\ saved = [p \in Packages |-> [stdout |-> NotSaved, root_output |-> NotSaved, fingerprint |-> NotSaved]]
  /\ edition = [p \in Packages |-> 0]
  /\ build_script_outputs = [p \in {} |-> <<>>] /\ build_scripts = [u \in {} |-> <<>>]
  /\ job = [u \in {} |-> ""] /\ told = <<>>
  /\ bsat = "idle"

\* build_map: only the overrides have an output yet
BuildMap ==
  /\ bsat = "idle"
  /\ build_script_outputs' = [p \in {p \in Packages : HasScript(p) /\ Overridden(p)} |-> OverrideLines(p)]
  /\ build_scripts' = [u \in ScriptRuns |->
                         [to_link |-> BuildOne(u),
                          plugins |-> UNION {ToSet(BuildOne(d)) : d \in {d \in UnitDeps(u) : IsForHost(d)}}]]
  /\ job' = [u \in {} |-> ""] /\ told' = <<>>
  /\ bsat' = "planning"
  /\ UNCHANGED <<bsworld, place, saved, edition>>

\* prev_build_output: the lines of the last run, and its out dir
PrevLines(p) == saved[p].stdout
PrevOutDir(p) == IF saved[p].root_output = NotSaved THEN OutDir(p) ELSE saved[p].root_output

SetSaved(p, field, value) == saved' = [saved EXCEPT ![p] = [@ EXCEPT ![field] = value]]

PlanRunKeepsFingerprint(p) ==
  /\ Run(p) \notin DOMAIN job
  /\ job' = (Run(p) :> (IF p \in DOMAIN build_script_outputs THEN "overridden"
                        ELSE IF saved[p].fingerprint = <<RunFingerprint(p)>> THEN "fresh" ELSE "dirty")) @@ job
  /\ UNCHANGED saved

\* custom_build::prepare and build_work; prepare_target clears the fingerprint
\* of a dirty unit
PlanRun(p) ==
  /\ Run(p) \notin DOMAIN job
  /\ LET fresh == saved[p].fingerprint = <<RunFingerprint(p)>>
     IN IF p \in DOMAIN build_script_outputs
        THEN job' = (Run(p) :> "overridden") @@ job /\ UNCHANGED saved
        ELSE IF fresh THEN job' = (Run(p) :> "fresh") @@ job /\ UNCHANGED saved
        ELSE job' = (Run(p) :> "dirty") @@ job /\ SetSaved(p, "fingerprint", NotSaved)

PlanUnits ==
  /\ bsat = "planning"
  /\ \E p \in Packages : HasScript(p) /\ PlanRun(p)
  /\ UNCHANGED <<bsworld, place, edition, build_scripts, build_script_outputs, told, bsat>>

Planned ==
  /\ bsat = "planning"
  /\ \A p \in Packages : HasScript(p) => Run(p) \in DOMAIN job
  /\ job' = job @@ [u \in ScriptRuns |-> "dirty"]
  /\ bsat' = "running"
  /\ UNCHANGED <<bsworld, place, saved, edition, build_scripts, build_script_outputs, told>>

ReadyJob(u) == bsat = "running" /\ \A d \in UnitDeps(u) : job[d] = "done"

JobTo(u, state) == job' = [job EXCEPT ![u] = state]

\* BuildScriptOutputs::insert, which panics when there is an entry
InsertOutput(p, lines, after) ==
  IF p \in DOMAIN build_script_outputs
  THEN bsat' = "panicked" /\ UNCHANGED <<build_script_outputs, job>>
  ELSE /\ build_script_outputs' = (p :> lines) @@ build_script_outputs
       /\ JobTo(Run(p), after) /\ bsat' = IF after = "failed" THEN "failed" ELSE bsat

Metadata(p) ==
  {<<d.pkg, Values(build_script_outputs[d.pkg], "metadata")>> : d \in {d \in UnitDeps(Run(p)) : d.of = "run"}}

\* filter_dynamic_search_path: what lies in the artifact directory of the host
InsideDest(path) == bsworld.dest = "around" /\ path[1] = place

\* add_plugin_deps, which is not called when there is no artifact directory
SearchPath(u) ==
  {path \in UNION {ToSet(Values(build_script_outputs[q], "link-search")) : q \in Plugins(u)} :
     bsworld.dest # "none" /\ InsideDest(path)}

\* the script runs, and fails or prints
RunScript(p) ==
  /\ job[Run(p)] = "dirty" /\ ReadyJob(Run(p))
  /\ LET lines == Printed(p, edition[p], OutDir(p))
         errors == \E i \in DOMAIN lines : lines[i].key = "error"
     IN /\ told' = <<Run(p), [metadata |-> Metadata(p), search |-> SearchPath(Run(p)), out |-> OutDir(p)]>>
        /\ IF Pack(p).script = "exit code" \/ errors
           THEN InsertOutput(p, <<>>, "failed") /\ UNCHANGED saved
           ELSE /\ SetSaved(p, "stdout", lines) /\ JobTo(Run(p), "stdout")
                /\ UNCHANGED <<build_script_outputs, bsat>>
  /\ UNCHANGED <<bsworld, place, edition, build_scripts>>

SaveRootOutput(p) ==
  /\ bsat = "running" /\ job[Run(p)] = "stdout"
  /\ SetSaved(p, "root_output", OutDir(p))
  /\ JobTo(Run(p), "root-output")
  /\ UNCHANGED <<bsworld, place, edition, build_scripts, build_script_outputs, told, bsat>>

\* the end of the dirty job: parse and insert
ParseAndInsert(p) ==
  /\ bsat = "running" /\ job[Run(p)] = "root-output"
  /\ \E parsed \in {ParseOutput(p, saved[p].stdout, OutDir(p), OutDir(p))} :
       IF parsed.ok THEN InsertOutput(p, parsed.lines, "inserted")
       ELSE JobTo(Run(p), "failed") /\ bsat' = "failed" /\ UNCHANGED build_script_outputs
  /\ UNCHANGED <<bsworld, place, saved, edition, build_scripts, told>>

\* write_fingerprint, which the job of prepare_target does after
WriteRunFingerprint(p) ==
  /\ bsat = "running" /\ job[Run(p)] = "inserted"
  /\ SetSaved(p, "fingerprint", <<RunFingerprint(p)>>)
  /\ JobTo(Run(p), "done")
  /\ UNCHANGED <<bsworld, place, edition, build_scripts, build_script_outputs, told, bsat>>

\* the fresh job: what was printed before, if it still parses
ReuseOutput(p) ==
  /\ job[Run(p)] = "fresh" /\ ReadyJob(Run(p))
  /\ \E parsed \in {ParseOutput(p, PrevLines(p), PrevOutDir(p), OutDir(p))} :
       IF parsed.ok THEN InsertOutput(p, parsed.lines, "done")
       ELSE JobTo(Run(p), "failed") /\ bsat' = "failed" /\ UNCHANGED build_script_outputs
  /\ UNCHANGED <<bsworld, place, saved, edition, build_scripts, told>>

\* an overridden script: nothing but the fingerprint
SkipOverridden(p) ==
  /\ job[Run(p)] = "overridden" /\ ReadyJob(Run(p))
  /\ JobTo(Run(p), "done")
  /\ UNCHANGED <<bsworld, place, saved, edition, build_scripts, build_script_outputs, told, bsat>>

\* LinkArgTarget::applies_to, and whose arguments are passed on
LinkArgs(u) ==
  LET of(q) == (IF u.of = "bin" /\ q = u.pkg THEN Values(build_script_outputs[q], "link-arg-bins") ELSE <<>>)
               \o (IF u.of = "lib" /\ Pack(u.pkg).cdylib THEN Values(build_script_outputs[q], "cdylib-link-arg") ELSE <<>>)
  IN FlattenSeq([i \in DOMAIN ToLink(u) |-> of(ToLink(u)[i])])

\* add_native_deps: paths into the build directory before the others
LibraryPaths(u) ==
  LET all == FlattenSeq([i \in DOMAIN ToLink(u) |-> Values(build_script_outputs[ToLink(u)[i]], "link-search")])
      ours(path) == \E q \in ToSet(ToLink(u)) : LibraryPathIsOurs(path, OutDir(q))
  IN SelectSeq(all, LAMBDA path : ours(path)) \o SelectSeq(all, LAMBDA path : ~ours(path))

PassLFlag(u) == u.of = "lib"

LibraryLinks(u) ==
  IF PassLFlag(u) /\ u.pkg \in ToSet(ToLink(u)) THEN Values(build_script_outputs[u.pkg], "link-lib") ELSE <<>>

\* add_custom_flags
CustomFlags(u) ==
  IF u.of \in {"lib", "bin"} /\ HasScript(u.pkg) THEN Values(build_script_outputs[u.pkg], "cfg") ELSE <<>>

\* the rustc job
Rustc(u) ==
  /\ u.of # "run" /\ job[u] = "dirty" /\ ReadyJob(u)
  /\ told' = <<u, [paths |-> LibraryPaths(u), links |-> LibraryLinks(u), link_args |-> LinkArgs(u),
                    cfgs |-> CustomFlags(u), search |-> SearchPath(u)]>>
  /\ JobTo(u, "done")
  /\ UNCHANGED <<bsworld, place, saved, edition, build_scripts, build_script_outputs, bsat>>

RunUnits == {u \in ScriptRuns : u.of = "run"}

Gone ==
  /\ bsat' = "idle" /\ job' = [u \in {} |-> ""] /\ told' = <<>>
  /\ build_script_outputs' = [p \in {} |-> <<>>] /\ build_scripts' = [u \in {} |-> <<>>]
  /\ UNCHANGED <<bsworld, place, saved, edition>>

BuildEnds ==
  /\ bsat = "failed" \/ (bsat = "running" /\ \A u \in ScriptRuns : job[u] = "done")
  /\ Gone

KillBuild ==
  /\ bsat \in {"planning", "running"} /\ bsworld.kills
  /\ Gone

\* between two builds
MoveBuildDir ==
  /\ bsat = "idle"
  /\ place' \in Places \ {place}
  /\ UNCHANGED <<bsworld, saved, edition, build_scripts, build_script_outputs, job, told, bsat>>

EditScript(p) ==
  /\ bsat = "idle" /\ HasScript(p)
  /\ \E e \in bsworld.editions \ {edition[p]} : edition' = [edition EXCEPT ![p] = e]
  /\ UNCHANGED <<bsworld, place, saved, build_scripts, build_script_outputs, job, told, bsat>>

ScriptNext ==
  \/ BuildMap \/ PlanUnits \/ Planned \/ BuildEnds \/ KillBuild \/ MoveBuildDir
  \/ \E p \in Packages : EditScript(p)
  \/ /\ bsat = "running"
     /\ \/ \E u \in RunUnits :
             \/ RunScript(u.pkg) \/ SaveRootOutput(u.pkg) \/ ParseAndInsert(u.pkg)
             \/ WriteRunFingerprint(u.pkg) \/ ReuseOutput(u.pkg) \/ SkipOverridden(u.pkg)
        \/ \E u \in ScriptRuns : Rustc(u)

----------------------------------------------------------------------------
\* The packages whose native libraries end up in what unit u links.
RECURSIVE Behind(_)
Behind(u) == {u} \union UNION {Behind(d) : d \in {d \in UnitDeps(u) : d.of = "lib" /\ ~Pack(d.pkg).macro}}

LinkedScripts(u) == {v.pkg : v \in {v \in Behind(u) : v.of \in {"lib", "bin"} /\ HasScript(v.pkg)}}

\* The scripts whose libraries may be loaded by the program that does u's work:
\* those behind its procedural macros, or behind the build script that it is.
LoadedScripts(u) == UNION {LinkedScripts(d) : d \in {d \in UnitDeps(u) : IsForHost(d)}}

PluginDirs(u) == {OutDir(q) : q \in {q \in LoadedScripts(u) : ~Overridden(q)}}

LinesNow(p) == IF Overridden(p) THEN OverrideLines(p) ELSE Printed(p, edition[p], OutDir(p))

\* Whether a script ran or an earlier run was reused, and wherever the build
\* directory was then, rustc is told what the script of today would print today:
\* search paths of every script behind the unit that are right, those of the
\* build directory first, libraries and flags of the package's own script only.
\* Its dynamic search path has the out dirs of the scripts behind the procedural
\* macros when the build directory lies in the artifact directory, and none when
\* it is apart or `cargo check` opened no artifact directory, though the comment on
\* BuildScripts::plugins promises those in `target` (add_native_deps,
\* add_plugin_deps, add_custom_flags, prev_build_output).
ScriptsHeeded ==
  told # <<>> /\ told[1].of # "run" =>
    LET u == told[1]
        now == told[2]
        own == IF u.of \in {"lib", "bin"} /\ HasScript(u.pkg) THEN LinesNow(u.pkg) ELSE <<>>
    IN /\ ToSet(now.paths) = UNION {ToSet(Values(LinesNow(q), "link-search")) : q \in LinkedScripts(u)}
       /\ \A i, j \in DOMAIN now.paths : i < j /\ now.paths[j][1] \in Places => now.paths[i][1] \in Places
       /\ now.links = IF u.of = "lib" THEN Values(own, "link-lib") ELSE <<>>
       /\ now.cfgs = Values(own, "cfg")
       /\ now.search = IF bsworld.dest = "around" THEN PluginDirs(u) ELSE {}
       /\ u.of = "bin" => now.link_args = Values(own, "link-arg-bins")
       /\ u.of = "lib" /\ Pack(u.pkg).cdylib =>
            ToSet(now.link_args) = UNION {ToSet(Values(LinesNow(q), "cdylib-link-arg")) : q \in LinkedScripts(u)}

\* A script hears from every script with a `links` key that its package depends
\* on, overridden or not, and finds the libraries of its own build dependencies
\* when the build directory lies in the artifact directory; each is run once in a
\* build (lib_deps, add_plugin_deps, BuildScriptOutputs::insert).
ScriptsInformed ==
  /\ bsat # "panicked"
  /\ told # <<>> /\ told[1].of = "run" =>
       LET p == told[1].pkg
       IN /\ told[2].metadata = {<<d, Values(LinesNow(d), "metadata")>> :
                                   d \in {d \in Pack(p).normal : HasScript(d) /\ Pack(d).links}}
          /\ told[2].search = IF bsworld.dest = "around" THEN PluginDirs(told[1]) ELSE {}

ScriptsRight == ScriptsHeeded /\ ScriptsInformed
=============================================================================
