----------------------------- MODULE Manifest -----------------------------
(***************************************************************************)
(* Reading a package's manifest (workspace/parser): targets are inferred   *)
(* from the files of the package, dependencies inherited from the          *)
(* workspace, and the result is the manifest cargo builds from; and what   *)
(* cargo package puts in the tarball (prepare_for_publish), which is read  *)
(* again wherever the package is unpacked.                                 *)
(*                                                                         *)
(* A path is a tuple: <<dir, stem>>, or <<dir, name, "main">> for          *)
(* dir/name/main.rs.  Option<bool> is Unset, "true" or "false"; an absent  *)
(* list of targets is empty.  A target whose path cannot be found has the  *)
(* path Missing: for a binary the parser stops there, for a test it leaves *)
(* a critical warning, on which the command stops.                         *)
(***************************************************************************)
EXTENDS Integers, SequencesExt

CONSTANTS ManifestWorlds,  \* sets of worlds: a manifest, the workspace's dependencies, the files
          NameRank         \* the alphabetical order of the names

VARIABLES mfworld,   \* what the author wrote
          parsed,    \* the manifest of the source directory
          packaged,  \* the files chosen for the tarball
          prepared,  \* the manifest written to the tarball
          unpacked   \* the manifest as read from the unpacked tarball

mfvars == <<mfworld, parsed, packaged, prepared, unpacked>>

Unset == "unset"
NoPath == <<Unset>>
Missing == <<"missing">>
LibRs == <<"src", "lib">>
MainRs == <<"src", "main">>
BuildRs == <<"", "build">>
Failed == [is |-> "error"]
NotYet == [is |-> "not yet"]

----------------------------------------------------------------------------
\* targets

are_normalized_(targets, autodiscover) ==
  autodiscover = "false" /\ \A i \in DOMAIN targets : targets[i].name # Unset /\ targets[i].path # NoPath

infer_from_directory(dir, files) ==
  {[name |-> f[2], path |-> f] : f \in {f \in files : f[1] = dir /\ (Len(f) = 2 \/ f[3] = "main")}}

inferred_bins(package, files) ==
  {[name |-> package, path |-> MainRs] : f \in files \intersect {MainRs}}
    \union infer_from_directory("src/bin", files)

AsSeq(targets) == FoldSet(LAMBDA t, s : <<t>> \o s, <<>>, targets)

toml_targets_and_inferred(targets, inferred, autodiscover, edition) ==
  LET seen(t) == \E i \in DOMAIN targets : targets[i].name = t.name \/ targets[i].path = t.path
      rem == {t \in inferred : ~seen(t)}
      discover == autodiscover = "true" \/ (autodiscover = Unset /\ edition # 2015)
      all == IF targets = <<>> THEN (IF autodiscover = "false" THEN <<>> ELSE AsSeq(inferred))
             ELSE IF discover THEN targets \o AsSeq(rem) ELSE targets
  IN SortSeq(all, LAMBDA s, t : NameRank[s.name] < NameRank[t.name])

\* `legacy` is what the 2015 edition falls back to, or Missing
target_path(t, inferred, legacy, edition) ==
  LET matching == {i \in inferred : i.name = t.name}
  IN CASE t.path # NoPath -> t.path
       [] t.path = NoPath /\ Cardinality(matching) = 1 -> (CHOOSE i \in matching : TRUE).path
       [] OTHER -> IF edition = 2015 THEN legacy ELSE Missing

legacy_bin_path(name, has_lib, files) ==
  CASE ~has_lib /\ <<"src", name>> \in files -> <<"src", name>>
    [] (has_lib \/ <<"src", name>> \notin files) /\ MainRs \in files -> MainRs
    [] OTHER -> IF <<"src/bin", "main">> \in files THEN <<"src/bin", "main">> ELSE Missing

normalize_lib(t, files) ==
  LET inferred == files \intersect {LibRs}
      lib == IF t.lib # <<>> THEN t.lib[1] ELSE [name |-> Unset, path |-> LibRs]
      name == IF lib.name = Unset THEN t.name ELSE lib.name
      path == CASE lib.path # NoPath -> lib.path
                [] lib.path = NoPath /\ inferred # {} -> LibRs
                [] OTHER -> IF t.edition = 2015 /\ <<"src", name>> \in files
                            THEN <<"src", name>> ELSE Missing
  IN IF are_normalized_(t.lib, t.autolib) \/ (t.lib = <<>> /\ inferred = {}) THEN t.lib
     ELSE <<[name |-> name, path |-> path]>>

normalize_bins(t, files, has_lib) ==
  LET inferred == inferred_bins(t.name, files)
      bins == toml_targets_and_inferred(t.bin, inferred, t.autobins, t.edition)
  IN IF are_normalized_(t.bin, t.autobins) THEN t.bin
     ELSE [i \in DOMAIN bins |->
             [bins[i] EXCEPT !.path = target_path(bins[i], inferred,
                                        legacy_bin_path(bins[i].name, has_lib, files), t.edition)]]

\* tests, and in the same way examples and benches
normalize_targets(t, files) ==
  LET inferred == infer_from_directory("tests", files)
      tests == toml_targets_and_inferred(t.test, inferred, t.autotests, t.edition)
  IN IF are_normalized_(t.test, t.autotests) THEN t.test
     ELSE [i \in DOMAIN tests |->
             [tests[i] EXCEPT !.path = target_path(tests[i], inferred, Missing, t.edition)]]

\* a script, or "false" for none
normalize_build(build, files) ==
  CASE build = NoPath -> IF BuildRs \in files THEN BuildRs ELSE <<"false">>
    [] build = <<"true">> -> BuildRs
    [] OTHER -> build

----------------------------------------------------------------------------
\* dependencies

DefaultIgnored(d, w, edition) ==
  edition = 2024 /\ d.default = "false" /\ w.default # "false"

inner_dependency_inherit_with(d, w) ==
  [d EXCEPT !.inherits = FALSE, !.version = w.version, !.source = w.source,
            !.default = IF d.default = "true" /\ w.default = "false" THEN "true" ELSE w.default,
            !.features = w.features \union d.features]

normalize_dependencies(t, ws) ==
  {IF d.inherits THEN inner_dependency_inherit_with(d, ws[d.name]) ELSE d : d \in t.deps}

Inheritable(t, ws) ==
  \A d \in t.deps : d.inherits => d.name \in DOMAIN ws /\ ~DefaultIgnored(d, ws[d.name], t.edition)

dep_to_dependency(d) ==
  [name |-> d.name, kind |-> d.kind, source |-> d.source, version |-> d.version,
   features |-> d.features, default_features |-> d.default # "false", optional |-> d.optional]

\* Summary::new and build_feature_map: every optional dependency no feature names gets its own
DepValue(name) == [kind |-> "dep", name |-> name]

FeatureMap(features, deps) ==
  LET explicit == {v.name : v \in {v \in UNION {features[f] : f \in DOMAIN features} : v.kind = "dep"}}
      implicit == {d.name : d \in {d \in deps : d.optional}} \ (DOMAIN features \union explicit)
  IN [f \in DOMAIN features \union implicit |->
        IF f \in DOMAIN features THEN features[f] ELSE {DepValue(f)}]

FeatureMapValid(features, deps) ==
  LET names == {d.name : d \in deps}
      optional == {d.name : d \in {d \in deps : d.optional}}
      map == FeatureMap(features, deps)
      values == UNION {map[f] : f \in DOMAIN map}
  IN /\ \A d \in deps : d.optional => d.kind # "dev"
     /\ \A v \in values :
          /\ v.kind = "feature" => v.name \in DOMAIN features \/ (v.name \in optional /\ v.name \in DOMAIN map)
          /\ v.kind = "dep" => v.name \in optional
          /\ v.kind = "depfeature" => v.name \in names
          /\ v.kind = "weak" => v.name \in optional
     /\ optional \subseteq {v.name : v \in {v \in values : v.kind # "feature"}}

----------------------------------------------------------------------------
\* manifests

normalize_toml(t, ws, files) ==
  LET lib == normalize_lib(t, files)
  IN [t EXCEPT !.autolib = "false", !.autobins = "false", !.autotests = "false",
               !.lib = lib, !.bin = normalize_bins(t, files, lib # <<>>),
               !.test = normalize_targets(t, files), !.build = normalize_build(t.build, files),
               !.deps = normalize_dependencies(t, ws)]

Unique(targets) ==
  \A i, j \in DOMAIN targets : targets[i].name = targets[j].name => i = j

Found(targets) ==
  \A i \in DOMAIN targets : targets[i].path # Missing /\ targets[i].name # Unset

to_targets(t) ==
  {<<"lib", target>> : target \in ToSet(t.lib)} \union {<<"bin", target>> : target \in ToSet(t.bin)}
    \union {<<"test", target>> : target \in ToSet(t.test)}
    \union {<<"build", [name |-> "build-script", path |-> b]>> : b \in {t.build} \ {<<"false">>}}

\* the errors of to_real_manifest
RealManifestValid(t) ==
  LET deps == {dep_to_dependency(d) : d \in t.deps}
  IN /\ \A targets \in {t.lib, t.bin, t.test} : Found(targets) /\ Unique(targets)
     /\ \E target \in to_targets(t) : target[1] # "build"
     /\ t.links => t.build # <<"false">>
     /\ \A d \in t.deps : d.source = "registry" => d.version
     /\ \A d, e \in deps : d.name = e.name => d.source = e.source
     /\ FeatureMapValid(t.features, deps)
     /\ t.default_run # Unset => \E i \in DOMAIN t.bin : t.bin[i].name = t.default_run

to_real_manifest(t) ==
  LET deps == {dep_to_dependency(d) : d \in t.deps}
  IN IF RealManifestValid(t)
     THEN [is |-> "ok", toml |-> t, targets |-> to_targets(t), deps |-> deps,
           features |-> FeatureMap(t.features, deps)]
     ELSE Failed

read_toml(t, ws, files) ==
  IF Inheritable(t, ws) THEN to_real_manifest(normalize_toml(t, ws, files)) ELSE Failed

----------------------------------------------------------------------------
\* publishing

prepare_targets_for_publish(targets, files) == SelectSeq(targets, LAMBDA t : t.path \in files)

map_deps(deps) ==
  {[d EXCEPT !.source = "registry"] : d \in {d \in deps : d.kind = "dev" => d.version}}

strip_featuresNot(features, deps) == features

strip_features(features, deps) ==
  [f \in DOMAIN features |->
     {v \in features[f] : v.kind = "feature" \/ \E d \in deps : d.name = v.name}]

prepare_toml_for_publish(t, files) ==
  [t EXCEPT !.build = IF t.build \in files THEN t.build ELSE <<"false">>,
            !.lib = prepare_targets_for_publish(t.lib, files),
            !.bin = prepare_targets_for_publish(t.bin, files),
            !.test = prepare_targets_for_publish(t.test, files),
            !.deps = map_deps(t.deps),
            !.features = strip_features(t.features, map_deps(t.deps))]

ManifestInit ==
  /\ \E family \in ManifestWorlds : mfworld \in family
  /\ parsed = NotYet /\ packaged = {} /\ prepared = NotYet /\ unpacked = NotYet

ReadManifest ==
  /\ parsed = NotYet
  /\ parsed' = read_toml(mfworld.toml, mfworld.ws, mfworld.files)
  /\ UNCHANGED <<mfworld, packaged, prepared, unpacked>>

\* include and exclude choose the files
PrepareForPublish ==
  /\ parsed.is = "ok" /\ prepared = NotYet
  /\ \E left_out \in mfworld.left_out :
       /\ packaged' = mfworld.files \ left_out
       /\ prepared' = to_real_manifest(prepare_toml_for_publish(parsed.toml, mfworld.files \ left_out))
  /\ UNCHANGED <<mfworld, parsed, unpacked>>

\* the tarball's manifest has no workspace
Unpack ==
  /\ prepared.is = "ok" /\ unpacked = NotYet
  /\ unpacked' = read_toml(prepared.toml, <<>>, packaged)
  /\ UNCHANGED <<mfworld, parsed, packaged, prepared>>

ManifestNext == ReadManifest \/ PrepareForPublish \/ Unpack

----------------------------------------------------------------------------
\* The package that others build is the one its author built: unpacked, a
\* tarball has exactly the targets of the source directory whose file was
\* packaged (prepare_target_for_publish), nothing more inferred from the files
\* around it, and its manifest parses.
PublishedTargets ==
  unpacked # NotYet =>
    unpacked.is = "ok" /\ unpacked.targets = {t \in parsed.targets : t[2].path \in packaged}

\* ... and the same dependencies, from a registry (map_deps), but for the
\* development dependencies without a version, with the same features, which
\* name only dependencies that are still there (strip_features).
PublishedDependencies ==
  unpacked.is = "ok" =>
    /\ unpacked.deps = {[d EXCEPT !.source = "registry"] :
                          d \in {d \in parsed.deps : d.kind = "dev" => d.version}}
    /\ DOMAIN unpacked.features = DOMAIN parsed.features
    /\ \A f \in DOMAIN parsed.features : \A v \in parsed.features[f] \ unpacked.features[f] :
         \A d \in parsed.deps : d.name = v.name => d.kind = "dev" /\ ~d.version
    /\ \A f \in DOMAIN parsed.features : unpacked.features[f] \subseteq parsed.features[f]

\* A normalized manifest (normalize_toml) is normal: reading it again gives the
\* same manifest, whatever files have come or gone.
NormalizedIsNormal ==
  parsed.is = "ok" =>
    \A files \in {{}, mfworld.files, packaged} : normalize_toml(parsed.toml, <<>>, files) = parsed.toml

\* What a member says of an inherited dependency counts: its features are among
\* those it gets and, from the 2024 edition on, so does its default-features
\* (inner_dependency_inherit_with).
InheritanceHonoured ==
  parsed.is = "ok" =>
    \A d \in mfworld.toml.deps : \E e \in parsed.deps :
      /\ e.name = d.name /\ e.kind = d.kind /\ d.features \subseteq e.features
      /\ mfworld.toml.edition = 2024 /\ d.default # Unset => e.default_features = (d.default = "true")

\* A package that builds can be published: prepare_for_publish refuses one only
\* for what its tarball lacks, a target, the binary to run, the build script of
\* a package with `links`, or the version of a dependency.
RefusedForLack ==
  prepared.is = "error" =>
    \/ \A t \in parsed.targets : t[1] # "build" => t[2].path \notin packaged
    \/ \E t \in parsed.targets :
         /\ t[2].path \notin packaged
         /\ \/ t[1] = "bin" /\ t[2].name = mfworld.toml.default_run
            \/ t[1] = "build" /\ mfworld.toml.links
    \/ \E d \in parsed.deps : d.kind # "dev" /\ ~d.version

\* All of the above.
PublishedMeansSame ==
  RefusedForLack /\ PublishedTargets /\ PublishedDependencies /\ NormalizedIsNormal /\ InheritanceHonoured
=============================================================================
