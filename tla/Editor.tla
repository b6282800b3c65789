------------------------------- MODULE Editor -------------------------------
(***************************************************************************)
(* `cargo add` and `cargo remove`: how a dependency is resolved against    *)
(* the manifest, the workspace and the registry, how its entry is written  *)
(* or rewritten, how the features table is cleaned up after it, and how    *)
(* `cargo remove` then cleans up the workspace's manifest.                 *)
(*                                                                         *)
(* An optional value is a set of at most one element.  An entry of a       *)
(* dependency table is a function from the keys it has; a table of one key *)
(* also stands for the string form.  A feature value is a triple of its    *)
(* kind, a name and the dependency's feature ("" when it has none).        *)
(* Versions are the minor numbers of one major version, so that a          *)
(* requirement matches itself and everything above.  Formatting, comments, *)
(* order, git references, `base`, `public` and Error entries are left out. *)
(***************************************************************************)
EXTENDS Integers, FiniteSets, TLC

CONSTANTS EditWorlds,    \* what is there before the first command
          EditCommands,  \* the commands a user may give
          MaxEdits       \* bound on the commands given

ASSUME EditBound == MaxEdits \in Nat

VARIABLES edworld,   \* the index, the directories and the members
          manifest,  \* Cargo.toml of the package being edited
          wsroot,    \* Cargo.toml of the workspace
          edcmd,     \* the last command, and what the manifests were before it
          edat,      \* where `cargo remove` is
          edleft     \* commands left

editvars == <<edworld, manifest, wsroot, edcmd, edat, edleft>>

Sections == {"normal", "dev", "build", "target"}
The(option) == CHOOSE x \in option : TRUE
OrElse(option, default) == IF option = {} THEN default ELSE The(option)
Got(item, key) == IF key \in DOMAIN item THEN {item[key]} ELSE {}
Opt(key, option) == IF option = {} THEN <<>> ELSE key :> The(option)
Without(item, keys) == [k \in DOMAIN item \ keys |-> item[k]]

---------------------------------------------------------------------------
(* Entries of dependency tables.                                           *)

New(name) == [name |-> name, rename |-> {}, source |-> {}, registry |-> {},
              optional |-> {}, default_features |-> {}, features |-> {}]

SourceAt(kind, version, at) == [kind |-> kind, version |-> version, at |-> at]

toml_key(dep) == OrElse(dep.rename, dep.name)

from_toml(key, item) ==
    [name |-> OrElse(Got(item, "package"), key),
     rename |-> IF Got(item, "package") = {} THEN {} ELSE {key},
     source |-> {IF "git" \in DOMAIN item THEN SourceAt("git", Got(item, "version"), item["git"])
                 ELSE IF "path" \in DOMAIN item
                 THEN SourceAt("path", Got(item, "version"), item["path"])
                 ELSE IF "version" \in DOMAIN item THEN SourceAt("registry", Got(item, "version"), "")
                 ELSE SourceAt("workspace", {}, "")},
     registry |-> Got(item, "registry"), optional |-> Got(item, "optional"),
     default_features |-> Got(item, "default-features"), features |-> Got(item, "features")]

clear_version(dep) ==
    [dep EXCEPT !.source = IF @ = {} \/ The(@).kind = "workspace" THEN @
                           ELSE IF The(@).kind = "registry" THEN {}
                           ELSE {[The(@) EXCEPT !.version = {}]}]

\* The keys that say where a dependency comes from.
SourceKeys(dep) ==
    LET src == The(dep.source) IN
    CASE src.kind = "registry"  -> Opt("version", src.version)
      [] src.kind = "path"      -> Opt("version", src.version) @@ ("path" :> src.at)
      [] src.kind = "git"       -> Opt("version", src.version) @@ ("git" :> src.at)
      [] src.kind = "workspace" -> "workspace" :> TRUE

RegistryKey(dep) ==
    IF "version" \in DOMAIN SourceKeys(dep) THEN Opt("registry", dep.registry) ELSE <<>>

PackageKey(dep) == IF dep.rename = {} THEN <<>> ELSE "package" :> dep.name

IsPlain(dep) ==
    /\ dep.optional # {TRUE} /\ dep.features = {} /\ dep.default_features # {FALSE}
    /\ The(dep.source).kind \in {"registry", "workspace"} /\ dep.registry = {} /\ dep.rename = {}

to_toml(dep) ==
    IF IsPlain(dep) THEN SourceKeys(dep)
    ELSE SourceKeys(dep) @@ RegistryKey(dep) @@ PackageKey(dep)
           @@ Opt("default-features", dep.default_features)
           @@ Opt("features", dep.features) @@ Opt("optional", dep.optional)

\* The path of the old source survives.
update_tomlKeepsPath(dep, item) ==
    IF Cardinality(DOMAIN item) = 1 THEN to_toml(dep)
    ELSE SourceKeys(dep) @@ RegistryKey(dep) @@ PackageKey(dep)
           @@ Opt("default-features", dep.default_features) @@ Opt("optional", dep.optional)
           @@ Opt("features", {fs \union OrElse(Got(item, "features"), {}) : fs \in dep.features})
           @@ Without(item, {"version", "git", "workspace", "registry", "default-features",
                             "features", "optional"}
                            \union (IF The(dep.source).kind = "workspace" THEN {"package"} ELSE {}))

\* An entry of several keys is updated key by key; its `package` is only ever overwritten.
update_toml(dep, item) ==
    IF Cardinality(DOMAIN item) = 1 THEN to_toml(dep)
    ELSE SourceKeys(dep) @@ RegistryKey(dep) @@ PackageKey(dep)
           @@ Opt("default-features", dep.default_features) @@ Opt("optional", dep.optional)
           @@ Opt("features", {fs \union OrElse(Got(item, "features"), {}) : fs \in dep.features})
           @@ Without(item, {"version", "path", "git", "workspace", "registry", "default-features",
                             "features", "optional"}
                            \union (IF The(dep.source).kind = "workspace" THEN {"package"} ELSE {}))

insert_into_table(mf, section, dep) ==
    LET key == toml_key(dep)
        old == Got(mf.deps[section], key)
    IN  [mf EXCEPT !.deps[section] =
            (key :> IF old = {} THEN to_toml(dep) ELSE update_toml(dep, The(old))) @@ @]

---------------------------------------------------------------------------
(* The features table.                                                     *)

is_explicit_dep_activation(mf, key) ==
    \E f \in DOMAIN mf.features : <<"dep", key, "">> \in mf.features[f]

IsOptional(item) == "optional" \in DOMAIN item /\ item["optional"]

dep_status(mf, key) ==
    LET entries == {mf.deps[s][key] : s \in {t \in Sections : key \in DOMAIN mf.deps[t]}}
    IN  IF entries = {} THEN "none"
        ELSE IF \E e \in entries : IsOptional(e) THEN "optional" ELSE "required"

\* Whether `value` no longer means anything.
Dropped(value, key, status, explicit) ==
    /\ value[2] = key
    /\ \/ status = "none" /\ (value[1] = "feature" => ~explicit)
       \/ status = "required" /\ (value[1] = "dep" \/ (value[1] = "feature" /\ ~explicit))

fix_feature_activations(values, key, status, explicit) ==
    {IF status = "required" /\ v[1] = "weak" /\ v[2] = key THEN <<"depfeature", key, v[3]>> ELSE v :
        v \in {u \in values : ~Dropped(u, key, status, explicit)}}

gc_dep(mf, key) ==
    [mf EXCEPT !.features =
        [f \in DOMAIN @ |-> fix_feature_activations(@[f], key, dep_status(mf, key),
                                                    is_explicit_dep_activation(mf, key))]]

---------------------------------------------------------------------------
(* `cargo add`: what an argument stands for.                               *)

Underscored(name) == IF name = "x-y" THEN "x_y" ELSE name
Dashed(name) == IF name = "x_y" THEN "x-y" ELSE name

\* QueryKind::Normalized: names are compared without regard to - and _.
Normalized(packages, name) == {p \in packages : Underscored(p.name) = Underscored(name)}

Matching(packages, version) == {p \in packages : version = {} \/ The(version) <= p.version}

\* The packages a source has, to the registry's query.
PackagesOf(src) ==
    IF src = {} \/ The(src).kind = "registry" THEN edworld.index ELSE edworld.places[The(src).at]

populate_dependency(dep, arg) ==
    [dep EXCEPT !.registry = IF arg.registry = {} THEN @ ELSE arg.registry,
                !.optional = IF arg.optional = {} THEN @ ELSE arg.optional \ {FALSE},
                !.default_features = IF arg.default_features = {} THEN @
                                     ELSE arg.default_features \ {TRUE},
                !.features = IF arg.features = {} THEN @
                             ELSE {OrElse(@, {}) \union The(arg.features)},
                !.rename = IF arg.rename = {} THEN @ ELSE arg.rename]

\* select_package, and the package inferred when the argument names none.
InPlace(arg, kind, at) ==
    LET found == IF arg.name = {} THEN edworld.places[at]
                 ELSE Normalized(edworld.places[at], The(arg.name))
    IN  IF arg.version # {} \/ Cardinality(found) # 1 THEN {}
        ELSE {[New(p.name) EXCEPT !.source = {SourceAt(kind, {p.version}, at)}] : p \in found}

\* The dependency the argument alone describes.
SelectedDep(arg) ==
    {populate_dependency(dep, arg) : dep \in
        IF arg.git # {} THEN InPlace(arg, "git", The(arg.git))
        ELSE IF arg.path # {} THEN InPlace(arg, "path", The(arg.path))
        ELSE {[New(The(arg.name)) EXCEPT !.source = {SourceAt("registry", {v}, "") : v \in arg.version}]}}

\* The first of the names under which `found` has something; another
\* spelling only counts for a registry dependency.
fuzzy_lookup(dep, found) ==
    LET Counts(name) == /\ name \in DOMAIN found
                        /\ name = dep.name \/ The(found[name].source).kind = "registry"
    IN  IF dep.rename # {} THEN [dep |-> dep, hit |-> Got(found, The(dep.rename))]
        ELSE IF Counts(dep.name) THEN [dep |-> dep, hit |-> {found[dep.name]}]
        ELSE IF Counts(Underscored(dep.name))
        THEN [dep |-> [dep EXCEPT !.name = Underscored(@)], hit |-> {found[Underscored(dep.name)]}]
        ELSE IF Counts(Dashed(dep.name))
        THEN [dep |-> [dep EXCEPT !.name = Dashed(@)], hit |-> {found[Dashed(dep.name)]}]
        ELSE [dep |-> dep, hit |-> {}]

KeyRank(section, own) ==
    CASE section = own -> 7 [] section = "target" -> 6 [] section = "normal" -> 5
      [] section = "build" -> 3 [] section = "dev" -> 1

\* What the manifest already says of `key`: the entry of the section being
\* edited, or the source of the entry of another section.
get_existing_dependency(mf, key, section) ==
    LET having == {s \in Sections : key \in DOMAIN mf.deps[s]}
        best == CHOOSE s \in having : \A t \in having : KeyRank(t, section) <= KeyRank(s, section)
        dep == from_toml(key, mf.deps[best][key])
        unrelated == [New(dep.name) EXCEPT !.source = dep.source, !.registry = dep.registry]
    IN  IF best = section THEN dep
        ELSE IF The(dep.source).kind # "registry" /\ section = "dev" THEN clear_version(unrelated)
        ELSE unrelated

ExistingDeps(mf, section) ==
    [key \in UNION {DOMAIN mf.deps[s] : s \in Sections} |-> get_existing_dependency(mf, key, section)]

WorkspaceDeps == [key \in DOMAIN wsroot.deps |-> from_toml(key, wsroot.deps[key])]

\* The selected dependency over what the manifest has of it.
OverOld(found, arg) ==
    IF found.hit = {} THEN found.dep
    ELSE LET old == The(found.hit) IN
         IF old.name # found.dep.name
         THEN [found.dep EXCEPT !.optional = IF @ = {} THEN old.optional ELSE @]
         ELSE populate_dependency(
                [old EXCEPT !.source = IF found.dep.source = {} THEN @ ELSE found.dep.source], arg)

\* latest_compatible: the newest version the package's rust-version can use.
get_latest_dependency(dep) ==
    LET usable == {p \in Normalized(edworld.index, dep.name) : p.rust <= edworld.rust}
        newest == CHOOSE p \in usable : \A q \in usable : q.version <= p.version
    IN  IF usable = {} THEN {}
        ELSE {[dep EXCEPT !.name = newest.name, !.source = {SourceAt("registry", {newest.version}, "")}]}

\* A source for a dependency that has none yet.
Sourced(dep, section) ==
    IF dep.source # {} THEN {dep}
    ELSE LET inws == fuzzy_lookup(dep, WorkspaceDeps)
             member == {p \in edworld.members : p.name = inws.dep.name}
         IN  IF inws.hit # {} THEN {[inws.dep EXCEPT !.source = {SourceAt("workspace", {}, "")}]}
             ELSE IF member # {}
             THEN {[inws.dep EXCEPT !.source =
                      {SourceAt("path", IF section = "dev" THEN {} ELSE {p.version}, p.at)}] : p \in member}
             ELSE get_latest_dependency(inws.dep)

check_invalid_ws_keys(dep, arg) ==
    \/ The(dep.source).kind # "workspace"
    \/ arg.default_features = {} /\ arg.registry = {} /\ arg.rename = {}

\* The version of a source that needs none is dropped in dev-dependencies,
\* unless the manifest already had one.
VersionSettled(dep, old, section) ==
    IF /\ The(dep.source).kind # "registry" /\ section = "dev"
       /\ \A o \in old : o.source = {} \/ The(o.source).version = {}
    THEN clear_version(dep) ELSE dep

\* query_dependency: a workspace dependency stands for the workspace's entry.
Queried(dep) ==
    IF The(dep.source).kind = "workspace" THEN from_toml(toml_key(dep), wsroot.deps[toml_key(dep)])
    ELSE dep

\* populate_available_features and the check that all the features exist.
FeaturesKnown(dep) ==
    \E q \in {Queried(dep)} :
      \E least \in Matching({p \in PackagesOf(q.source) : p.name = q.name}, The(q.source).version) :
        /\ \A p \in Matching({r \in PackagesOf(q.source) : r.name = q.name}, The(q.source).version) :
              least.version <= p.version
        /\ OrElse(dep.features, {}) \subseteq least.features
        /\ The(dep.source).kind = "workspace" => OrElse(q.features, {}) \subseteq least.features

resolve_dependency(mf, arg, section) ==
    UNION {UNION {{VersionSettled(dep, found.hit, section) :
                     dep \in {d \in Sourced(OverOld(found, arg), section) : check_invalid_ws_keys(d, arg)}} :
               found \in {fuzzy_lookup(selected, ExistingDeps(mf, section))}} :
        selected \in SelectedDep(arg)}

NotItself(dep) == ~(The(dep.source).kind = "path" /\ The(dep.source).at = "self")

\* `dep = ["dep:dep"]`, for a dependency that becomes optional.
OptionalFeature(mf, dep) ==
    IF dep.optional = {TRUE} /\ edworld.namespaced /\ ~is_explicit_dep_activation(mf, toml_key(dep))
    THEN [mf EXCEPT !.features = (toml_key(dep) :> {<<"dep", toml_key(dep), "">>}) @@ @]
    ELSE mf

\* The manifest after one of the dependencies has been inserted.
Inserted(mf, section, dep) ==
    gc_dep(OptionalFeature(insert_into_table(mf, section, dep), dep), toml_key(dep))

\* The manifests `cargo add` may write: none when an argument is refused.
\* All the arguments are resolved against the manifest as it was.
Added(mf, args, section) ==
    LET first == {d \in resolve_dependency(mf, args[1], section) : NotItself(d) /\ FeaturesKnown(d)}
        second == {d \in resolve_dependency(mf, args[2], section) : NotItself(d) /\ FeaturesKnown(d)}
    IN  IF DOMAIN args = {1} THEN {Inserted(mf, section, d) : d \in first}
        ELSE {Inserted(Inserted(mf, section, d), section, e) : d \in first, e \in second}

---------------------------------------------------------------------------
(* The commands.                                                           *)

EditInit ==
    /\ edworld \in EditWorlds
    /\ manifest = edworld.manifest /\ wsroot = edworld.wsroot
    /\ edcmd = [kind |-> "none", section |-> "", args |-> <<>>, key |-> "", was |-> edworld.manifest]
    /\ edat = "idle" /\ edleft = MaxEdits

\* `add`: everything is decided before the manifest is replaced, at once.
Add(section, args, mode) ==
    /\ edat = "idle" /\ edleft > 0
    /\ \E new \in Added(manifest, args, section) :
         /\ mode = "locked" => new = manifest
         /\ manifest' = IF mode = "dry_run" THEN manifest ELSE new
    /\ edcmd' = [kind |-> IF mode = "dry_run" THEN "dry" ELSE "add", section |-> section,
                 args |-> args, key |-> "", was |-> manifest]
    /\ edleft' = edleft - 1
    /\ UNCHANGED <<edworld, wsroot, edat>>

\* `remove`, which replaces the manifest before the workspace is cleaned up.
Remove(section, key) ==
    /\ edat = "idle" /\ edleft > 0
    /\ key \in DOMAIN manifest.deps[section]
    /\ manifest' = gc_dep([manifest EXCEPT !.deps[section] = Without(@, {key})], key)
    /\ edcmd' = [kind |-> "remove", section |-> section, args |-> <<>>, key |-> key, was |-> manifest]
    /\ edat' = "gc_workspace" /\ edleft' = edleft - 1
    /\ UNCHANGED <<edworld, wsroot>>

\* Every dependency of every member, the inherited ones as the workspace has them.
DirectDeps(mf) ==
    LET own == UNION {{from_toml(k, mf.deps[s][k]) : k \in DOMAIN mf.deps[s]} : s \in Sections}
    IN  {IF The(d.source).kind = "workspace" /\ toml_key(d) \in DOMAIN wsroot.deps
         THEN from_toml(toml_key(d), wsroot.deps[toml_key(d)]) ELSE d :
            d \in own \union edworld.others}

spec_has_match(name, deps) ==
    \E d \in deps : d.name = name /\ The(d.source).kind # "workspace"

Inherited(mf, key) ==
    \/ \E s \in Sections : key \in DOMAIN mf.deps[s] /\ "workspace" \in DOMAIN mf.deps[s][key]
    \/ \E d \in edworld.others : toml_key(d) = key /\ The(d.source).kind = "workspace"

gc_workspace ==
    /\ edat = "gc_workspace"
    /\ wsroot' = [wsroot EXCEPT
         !.deps = Without(@, {k \in DOMAIN @ : ~Inherited(manifest, k)}),
         !.profile = {name \in @ : spec_has_match(name, DirectDeps(manifest))}]
    /\ edat' = "gc_patches"
    /\ UNCHANGED <<edworld, manifest, edcmd, edleft>>

\* Reach of the resolve: a patch is unused when nothing depends on its package.
UnusedPatches ==
    {p \in wsroot.patch : ~\E d \in DirectDeps(manifest) : d.name = p}

gc_unused_patches ==
    /\ edat = "gc_patches"
    /\ wsroot' = [wsroot EXCEPT !.patch = @ \ UnusedPatches]
    /\ edat' = "idle"
    /\ UNCHANGED <<edworld, manifest, edcmd, edleft>>

\* The process is killed: each manifest is replaced as a whole or not at all.
KillEditor ==
    /\ edat # "idle" /\ edat' = "idle"
    /\ UNCHANGED <<edworld, manifest, wsroot, edcmd, edleft>>

EditNext ==
    \/ \E c \in EditCommands : c.kind = "add" /\ Add(c.section, c.args, c.mode)
    \/ \E c \in EditCommands : c.kind = "remove" /\ Remove(c.section, c.key)
    \/ gc_workspace
    \/ gc_unused_patches
    \/ KillEditor

---------------------------------------------------------------------------
(* Properties.                                                             *)

DepNames(mf) == UNION {DOMAIN mf.deps[s] : s \in Sections}
OptionalDeps(mf) == {k \in DepNames(mf) : \E s \in Sections :
                        k \in DOMAIN mf.deps[s] /\ IsOptional(mf.deps[s][k])}
Values(mf) == UNION {mf.features[f] : f \in DOMAIN mf.features}
Explicit(mf) == {k \in DepNames(mf) : <<"dep", k, "">> \in Values(mf)}
Implicit(mf) == OptionalDeps(mf) \ (DOMAIN mf.features \union Explicit(mf))

\* A value the manifest parser accepts.
Meaningful(mf, v) ==
    CASE v[1] = "feature"    -> v[2] \in DOMAIN mf.features \union Implicit(mf)
      [] v[1] = "dep"        -> v[2] \in OptionalDeps(mf)
      [] v[1] = "depfeature" -> v[2] \in DepNames(mf)
      [] v[1] = "weak"       -> v[2] \in OptionalDeps(mf)

\* The manifest parses: every feature value means something, every optional
\* dependency is reachable, and what is inherited exists.
Parses(mf, root) ==
    /\ \A v \in Values(mf) : Meaningful(mf, v)
    /\ \A k \in OptionalDeps(mf) :
         k \in Implicit(mf) \/ \E v \in Values(mf) : v[1] # "feature" /\ v[2] = k
    /\ \A s \in Sections : \A k \in DOMAIN mf.deps[s] :
         /\ {"version", "path", "git", "workspace"} \intersect DOMAIN mf.deps[s][k] # {}
         /\ "workspace" \in DOMAIN mf.deps[s][k] => k \in DOMAIN root.deps

\* After any sequence of `cargo add` and `cargo remove`, killed or not, the
\* manifests still parse: no feature names a dependency that is gone or not
\* optional, and no inherited dependency lost its workspace entry.
StillParses == Parses(manifest, wsroot)

\* The entry says what the user asked for, whatever was there before.
SaysSo(item, key, arg) ==
    /\ arg.rename # {} => key = The(arg.rename)
    /\ arg.path # {} => Got(item, "path") = arg.path /\ "git" \notin DOMAIN item
    /\ arg.git # {} => Got(item, "git") = arg.git /\ "path" \notin DOMAIN item
    /\ arg.version # {} => /\ Got(item, "version") = arg.version
                           /\ {"path", "git"} \intersect DOMAIN item = {}
    /\ arg.optional # {} => IsOptional(item) = The(arg.optional)
    /\ arg.default_features # {} => (Got(item, "default-features") # {FALSE}) = The(arg.default_features)
    /\ OrElse(arg.features, {}) \subseteq OrElse(Got(item, "features"), {})

NamesIt(item, key, arg) ==
    arg.name # {} => Underscored(OrElse(Got(item, "package"), key)) = Underscored(The(arg.name))

\* The entry was there before, for another package under this name.
WasRenamed(key) ==
    key \in DOMAIN edcmd.was.deps[edcmd.section] /\ "package" \in DOMAIN edcmd.was.deps[edcmd.section][key]

\* After `cargo add` the section has an entry for each argument that, read
\* back, is the dependency that was asked for; and giving the same command
\* again changes no entry.
AddedAsAsked ==
    edcmd.kind = "add" =>
      /\ \A i \in DOMAIN edcmd.args : \E key \in DOMAIN manifest.deps[edcmd.section] :
            \/ /\ SaysSo(manifest.deps[edcmd.section][key], key, edcmd.args[i])
               /\ NamesIt(manifest.deps[edcmd.section][key], key, edcmd.args[i])
            \/ {key} = edcmd.args[i].name /\ WasRenamed(key)
      /\ {again.deps : again \in Added(manifest, edcmd.args, edcmd.section)} = {manifest.deps}

\* Removing a dependency leaves no mention of it, keeps every other entry
\* as it was, and once the workspace is cleaned up keeps exactly what is
\* still inherited.
RemovedCleanly ==
    edcmd.kind = "remove" =>
      /\ edcmd.key \notin DOMAIN manifest.deps[edcmd.section]
      /\ edcmd.key \notin DepNames(manifest) =>
            \A v \in Values(manifest) : v[2] = edcmd.key => v[1] = "feature"
      /\ \A s \in Sections : \A k \in DOMAIN edcmd.was.deps[s] :
            \/ s = edcmd.section /\ k = edcmd.key
            \/ k \in DOMAIN manifest.deps[s] /\ manifest.deps[s][k] = edcmd.was.deps[s][k]
      /\ edat = "gc_patches" => \A k \in DOMAIN wsroot.deps : Inherited(manifest, k)

\* `cargo add` and `cargo remove` leave manifests that parse and say what was
\* asked.
EditsRight == StillParses /\ AddedAsAsked /\ RemovedCleanly

=============================================================================
