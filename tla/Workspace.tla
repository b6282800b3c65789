---------------------------- MODULE Workspace ----------------------------
(***************************************************************************)
(* How cargo finds the workspace of a manifest (workspace/workspace.rs):   *)
(* the root is searched in the directories above, with a cache of the      *)
(* roots read so far in this process; the members are the listed paths and *)
(* their path dependencies; the result is validated.  Also the fast path   *)
(* of cargo locate-project --workspace, which does not load the members.   *)
(*                                                                         *)
(* A directory is the sequence of its components, and stands for the       *)
(* Cargo.toml in it.  A world gives each manifest: its kind ("virtual",    *)
(* "root" for a package with [workspace], "member"), its name, the entries *)
(* of members and exclude joined to its directory (the component "*" is a  *)
(* glob), default_members, package.workspace as pointer, whether it        *)
(* inherits a field from the workspace, and its path dependencies.         *)
(* Single-file packages are left out.                                      *)
(***************************************************************************)
EXTENDS Integers, SequencesExt, FiniteSets

CONSTANT WsWorlds  \* sets of worlds

VARIABLES
  wsworld,         \* the manifests on disk, the directory cargo starts in
  ws_roots,        \* GlobalContext::ws_roots: the roots read so far
  root_manifest,
  members,         \* in the order they were found
  default_members,
  pending,         \* calls of find_path_deps still to make
  wsat             \* how far Workspace::new has got

wsvars == <<wsworld, ws_roots, root_manifest, members, default_members, pending, wsat>>

NoDir == <<"none">>

Toml(d) == wsworld.manifests[d]

Exists(d) == d \in DOMAIN wsworld.manifests

IsWsRoot(d) == Toml(d).kind # "member"

\* paths::normalize_path
Normalize(path) ==
  FoldLeft(LAMBDA p, c : IF c = ".." THEN Front(p) ELSE Append(p, c), <<>>, path)

\* WorkspaceRootConfig::is_excluded: a plain member entry overrides exclude,
\* a glob or a path with .. is compared as it is written
is_excluded(root, d) ==
  /\ ~ \E i \in DOMAIN Toml(root).members : IsPrefix(Toml(root).members[i], d)
  /\ \E ex \in Toml(root).exclude : IsPrefix(ex, d)

\* WorkspaceRootConfig::members_paths
expand_member_path(path) ==
  IF Last(path) = "*"
  THEN SetToSortSeq({d \in wsworld.dirs : Len(d) = Len(path) /\ IsPrefix(Front(path), d)},
                    LAMBDA d, e : d[Len(d)] = "a" /\ d # e)
  ELSE IF Normalize(path) \in wsworld.dirs THEN <<path>> ELSE <<>>

members_paths(globs) ==
  FlattenSeq([i \in DOMAIN globs |->
                IF expand_member_path(globs[i]) = <<>> THEN <<globs[i]>>
                ELSE expand_member_path(globs[i])])

\* WorkspaceConfig::get_ws_root of the manifest in d, looking from `from`
get_ws_root(d, from) ==
  IF IsWsRoot(d) THEN (IF is_excluded(d, from) THEN NoDir ELSE d) ELSE Toml(d).pointer

---------------------------------------------------------------------------
(***************************************************************************)
(* Reading manifests.  The results carry the cache, which every manifest   *)
(* read adds to: one that inherits from its workspace reads the root, and  *)
(* the manifests on the way to it.                                         *)
(***************************************************************************)
Got(ok, root, roots) == [ok |-> ok, root |-> root, roots |-> roots]

\* the directories above d that find_root_iter yields: up to CARGO_HOME when
\* d is below it, up to a target/package directory
find_root_iter(d) ==
  LET above == [i \in 1 .. Len(d) |-> SubSeq(d, 1, Len(d) - i)]
      stops == {i \in DOMAIN above : \/ above[i] \in wsworld.packaged
                                     \/ i > 1 /\ above[i - 1] = wsworld.home}
  IN  SelectSeq(IF stops = {} THEN above ELSE SubSeq(above, 1, Min(stops) - 1), Exists)

\* the cached root nearest to d
CachedRoots(roots, d) == {r \in roots : IsPrefix(r, d) /\ ~is_excluded(r, d)}

CachedRoot(roots, d) ==
  CHOOSE r \in CachedRoots(roots, d) : \A s \in CachedRoots(roots, d) : Len(s) <= Len(r)

RECURSIVE read_manifest(_, _), Walk(_, _, _)

\* find_workspace_root_with_loader
FindAbove(roots, d) ==
  IF CachedRoots(roots, d) # {} THEN Got(TRUE, CachedRoot(roots, d), roots)
  ELSE Walk(roots, d, find_root_iter(d))

Walk(roots, d, above) ==
  IF above = <<>> THEN Got(TRUE, NoDir, roots)
  ELSE LET read == read_manifest(roots, Head(above))
       IN  IF ~read.ok THEN read
           ELSE IF get_ws_root(Head(above), d) # NoDir
                THEN Got(TRUE, get_ws_root(Head(above), d), read.roots)
                ELSE Walk(read.roots, d, Tail(above))

\* inheritable_from_path
InheritFrom(roots, r) ==
  IF r \in roots THEN Got(TRUE, r, roots)
  ELSE LET read == read_manifest(roots, r) IN [read EXCEPT !.ok = @ /\ IsWsRoot(r)]

read_manifest(roots, d) ==
  IF ~Exists(d) THEN Got(FALSE, NoDir, roots)
  ELSE IF IsWsRoot(d) THEN Got(TRUE, d, roots \union {d})
  ELSE IF ~Toml(d).inherits THEN Got(TRUE, NoDir, roots)
  ELSE IF Toml(d).pointer # NoDir THEN InheritFrom(roots, Toml(d).pointer)
  ELSE LET found == FindAbove(roots, d)
       IN  IF ~found.ok \/ found.root = NoDir THEN [found EXCEPT !.ok = FALSE]
           ELSE InheritFrom(found.roots, found.root)

\* Workspace::find_root
find_root(roots, d) ==
  LET read == read_manifest(roots, d)
  IN  IF ~read.ok THEN read
      ELSE IF get_ws_root(d, d) # NoDir THEN Got(TRUE, get_ws_root(d, d), read.roots)
      ELSE FindAbove(read.roots, d)

\* is_explicitly_listed_member
ListedMember(root, d) ==
  d = root \/ \E i \in DOMAIN members_paths(Toml(root).members) :
                Normalize(members_paths(Toml(root).members)[i]) = d

RECURSIVE WalkListed(_, _, _)
WalkListed(roots, d, above) ==
  IF above = <<>> THEN Got(TRUE, NoDir, roots)
  ELSE LET read == read_manifest(roots, Head(above))
       IN  IF ~read.ok THEN read
           ELSE IF IsWsRoot(Head(above)) /\ ListedMember(Head(above), d) /\ ~is_excluded(Head(above), d)
                THEN Got(TRUE, Head(above), read.roots)
                ELSE WalkListed(read.roots, d, Tail(above))

\* find_workspace_root_with_membership_check
FastPath(roots, d) ==
  LET read == read_manifest(roots, d)
      to == Toml(d).pointer
      pointed == read_manifest(read.roots, to)
  IN  IF ~read.ok THEN read
      ELSE IF IsWsRoot(d)
           THEN Got(TRUE, IF Toml(d).default_members # <<NoDir>> THEN NoDir ELSE d, read.roots)
      ELSE IF to # NoDir
           THEN IF ~pointed.ok THEN pointed
                ELSE Got(TRUE, IF IsWsRoot(to) /\ ListedMember(to, d) /\ ~is_excluded(to, d)
                               THEN to ELSE NoDir, pointed.roots)
      ELSE IF CachedRoots(read.roots, d) # {}
           THEN Got(TRUE, CachedRoot(read.roots, d), read.roots)
      ELSE WalkListed(read.roots, d, find_root_iter(d))

---------------------------------------------------------------------------
(***************************************************************************)
(* Workspace::new                                                          *)
(***************************************************************************)
WorkspaceInit ==
  /\ \E family \in WsWorlds : wsworld \in family
  /\ ws_roots = {}
  /\ root_manifest = NoDir
  /\ members = <<>>
  /\ default_members = <<>>
  /\ pending = <<>>
  /\ wsat = "new"

Bail == /\ wsat' = "error"
        /\ UNCHANGED <<wsworld, ws_roots, root_manifest, members, default_members, pending>>

\* Workspace::load_workspace_config: the root must be one
load_workspace_config(roots, root) ==
  LET read == read_manifest(roots, root) IN [read EXCEPT !.ok = @ /\ IsWsRoot(root)]

\* the calls of find_path_deps that find_members makes
find_members(root) ==
  LET listed == members_paths(Toml(root).members)
  IN  [i \in DOMAIN listed |-> [dir |-> Normalize(listed[i]), dep |-> FALSE]]
        \o <<[dir |-> root, dep |-> FALSE]>>

FindRoot ==
  /\ wsat = "new"
  /\ \E found \in {find_root(ws_roots, wsworld.start)} :
       IF ~found.ok THEN Bail
       ELSE IF found.root = NoDir
            THEN /\ wsat' = "done"
                 /\ ws_roots' = found.roots
                 /\ members' = <<wsworld.start>>
                 /\ default_members' = <<wsworld.start>>
                 /\ UNCHANGED <<wsworld, root_manifest, pending>>
       ELSE \E config \in {load_workspace_config(found.roots, found.root)} :
              IF ~config.ok THEN Bail
              ELSE /\ wsat' = "find_members"
                   /\ ws_roots' = config.roots
                   /\ root_manifest' = found.root
                   /\ pending' = find_members(found.root)
                   /\ UNCHANGED <<wsworld, members, default_members>>

\* one call of find_path_deps, which calls itself for the path dependencies
FindPathDeps ==
  /\ wsat = "find_members"
  /\ pending # <<>>
  /\ \E d \in {Head(pending).dir}, looked \in {find_root(ws_roots, Head(pending).dir)} :
     LET outside == Head(pending).dep /\ ~IsPrefix(root_manifest, d)
         roots == IF outside THEN looked.roots ELSE ws_roots
         read == read_manifest(roots, d)
     IN  IF Contains(members, d)
         THEN /\ pending' = Tail(pending)
              /\ UNCHANGED <<wsworld, ws_roots, root_manifest, members, default_members, wsat>>
         ELSE IF outside /\ ~looked.ok THEN Bail
         ELSE IF (outside /\ looked.root # root_manifest) \/ is_excluded(root_manifest, d)
         THEN /\ pending' = Tail(pending)
              /\ ws_roots' = roots
              /\ UNCHANGED <<wsworld, root_manifest, members, default_members, wsat>>
         ELSE IF ~read.ok THEN Bail
         ELSE /\ members' = Append(members, d)
              /\ ws_roots' = read.roots
              /\ LET deps == IF Toml(d).kind = "virtual" THEN <<>> ELSE Toml(d).deps
                 IN  pending' = [i \in DOMAIN deps |-> [dir |-> deps[i], dep |-> TRUE]] \o Tail(pending)
              /\ UNCHANGED <<wsworld, root_manifest, default_members, wsat>>

\* the rest of find_members: default_members
SetDefaultMembers ==
  /\ wsat = "find_members"
  /\ pending = <<>>
  /\ LET root == Toml(root_manifest)
         given == wsworld.start = root_manifest /\ root.default_members # <<NoDir>>
         default == [i \in DOMAIN members_paths(root.default_members) |->
                       Normalize(members_paths(root.default_members)[i])]
         skipped(d) == Contains(members_paths(root.members), d) /\ is_excluded(root_manifest, d)
     IN  IF given /\ \E i \in DOMAIN default : ~Contains(members, default[i]) /\ ~skipped(default[i])
         THEN Bail
         ELSE /\ wsat' = "validate"
              /\ default_members' =
                   IF given THEN SelectSeq(default, LAMBDA d : Contains(members, d))
                   ELSE IF Toml(wsworld.start).kind = "virtual" THEN members
                   ELSE <<wsworld.start>>
              /\ pending' = [i \in DOMAIN members |-> [dir |-> members[i], dep |-> FALSE]]
              /\ UNCHANGED <<wsworld, ws_roots, root_manifest, members>>

\* validate_unique_names and validate_workspace_roots
NamesUnique ==
  \A i, j \in DOMAIN members :
    i # j /\ Toml(members[i]).kind # "virtual" /\ Toml(members[j]).kind # "virtual"
      => Toml(members[i]).name # Toml(members[j]).name

OneRoot == \E i \in DOMAIN members : \A j \in DOMAIN members : IsWsRoot(members[j]) <=> j = i

\* a validation content with any root
ValidateMemberAnyRoot ==
  /\ wsat = "validate"
  /\ NamesUnique /\ OneRoot
  /\ pending # <<>>
  /\ \E found \in {find_root(ws_roots, Head(pending).dir)} :
       IF ~found.ok \/ found.root = NoDir THEN Bail
       ELSE /\ pending' = Tail(pending)
            /\ ws_roots' = found.roots
            /\ UNCHANGED <<wsworld, root_manifest, members, default_members, wsat>>

\* validate_members, one member
ValidateMember ==
  /\ wsat = "validate"
  /\ NamesUnique /\ OneRoot
  /\ pending # <<>>
  /\ \E found \in {find_root(ws_roots, Head(pending).dir)} :
       IF ~found.ok \/ found.root # root_manifest THEN Bail
       ELSE /\ pending' = Tail(pending)
            /\ ws_roots' = found.roots
            /\ UNCHANGED <<wsworld, root_manifest, members, default_members, wsat>>

\* error_if_manifest_not_in_members ends the validation
Validated ==
  /\ wsat = "validate"
  /\ (~NamesUnique \/ ~OneRoot) \/ pending = <<>>
  /\ IF NamesUnique /\ OneRoot /\ Contains(members, wsworld.start)
     THEN wsat' = "done" /\ UNCHANGED <<wsworld, ws_roots, root_manifest, members, default_members, pending>>
     ELSE Bail

WorkspaceNext == FindRoot \/ FindPathDeps \/ SetDefaultMembers \/ ValidateMember \/ Validated

---------------------------------------------------------------------------
\* Validation promises that the members agree on the root: cargo started in
\* the directory of any member, with nothing cached, finds the same one.
MembersAgree ==
  wsat = "done" /\ root_manifest # NoDir =>
    \A i \in DOMAIN members : find_root({}, members[i]).root = root_manifest

\* What locate-project answers without loading the members is the root that
\* loading them gives.
LocateAgrees ==
  wsat = "done" /\ FastPath({}, wsworld.start).ok /\ FastPath({}, wsworld.start).root # NoDir =>
    FastPath({}, wsworld.start).root = root_manifest

\* A listed or depended-on package is left out only when it is excluded or
\* belongs elsewhere: the members are closed under path dependencies.
MembersClosed ==
  wsat = "done" /\ root_manifest # NoDir =>
    \A i \in DOMAIN members :
      Toml(members[i]).kind # "virtual" =>
        \A k \in DOMAIN Toml(members[i]).deps :
          LET d == Toml(members[i]).deps[k]
          IN  \/ Contains(members, d)
              \/ is_excluded(root_manifest, d)
              \/ find_root({}, d).root # root_manifest

\* Default members are members, and the package cargo was started in is one
\* of the members.
DefaultsAreMembers ==
  wsat = "done" => Contains(members, wsworld.start)
                   /\ \A i \in DOMAIN default_members : Contains(members, default_members[i])

\* Opening a workspace: the members agree on the root and are complete, and
\* locate-project says the same.
WorkspaceConsistent == MembersAgree /\ LocateAgrees /\ MembersClosed /\ DefaultsAreMembers

-----------------------------------------------------------------------------
(***************************************************************************)
(* Which packages a command works on and with which features: the -p,      *)
(* --workspace and --exclude flags (ops/cargo_compile/packages.rs) become  *)
(* package specs, and the --features flags are dealt out to the workspace  *)
(* members, in the way of resolver 1 or of the later ones                  *)
(* (members_with_features in workspace/workspace.rs).                      *)
(*                                                                         *)
(* A case gives the members (version, features, optional and other         *)
(* dependencies), the current package ("" in a virtual workspace), the     *)
(* flags and the requested features; a feature `f` is <<"", f>>, a feature *)
(* `d/f` is <<d, f>>; a spec has version 0 when it names none; a glob is   *)
(* the set of names it matches.                                            *)
(***************************************************************************)
CONSTANT SelectionCases

VARIABLES case, specs, dealt, selat

selvars == <<case, specs, dealt, selat>>

Members == DOMAIN case.members

SpecMatches(spec, name) ==
  spec.name = name /\ spec.version \in {0, case.members[name].version}

to_spec(name) == [name |-> name, version |-> case.members[name].version]

\* the members an id or a glob of opt_patterns_and_ids stands for
NamedById(name) == \E id \in case.flags.ids : SpecMatches(id, name)

Globbed(name) == \E i \in DOMAIN case.flags.globs : name \in case.flags.globs[i]

\* each member takes at most one id off the list
IdsNotFound ==
  Cardinality(case.flags.ids) > Cardinality({name \in Members : NamedById(name)})

\* match_patterns stops at the first glob that matches, and is not asked about
\* a member an id has named
GlobFound(i) ==
  \E name \in case.flags.globs[i] \intersect Members :
    /\ case.flags.kind = "packages" \/ ~NamedById(name)
    /\ \A j \in 1 .. i - 1 : name \notin case.flags.globs[j]

GlobsNotFound == \E i \in DOMAIN case.flags.globs : ~GlobFound(i)

SelectionInit ==
  /\ case \in SelectionCases
  /\ specs = {}
  /\ dealt = <<>>
  /\ selat = "specs"

\* Packages::to_package_id_specs
Selected ==
  CASE case.flags.kind = "default" -> {to_spec(name) : name \in case.default}
    [] case.flags.kind = "all" -> {to_spec(name) : name \in Members}
    [] case.flags.kind = "opt_out" -> {to_spec(name) : name \in {n \in Members : ~NamedById(n) /\ ~Globbed(n)}}
    [] case.flags.kind = "packages" ->
         case.flags.ids \union {to_spec(name) : name \in {n \in Members : Globbed(n)}}

ToPackageIdSpecs ==
  /\ selat = "specs"
  /\ IF \/ case.flags.kind = "all" /\ (IdsNotFound \/ GlobsNotFound)
        \/ case.flags.kind = "packages" /\ GlobsNotFound
        \/ Selected = {}
     THEN selat' = "error" /\ UNCHANGED specs
     ELSE selat' = "features" /\ specs' = Selected
  /\ UNCHANGED <<case, dealt>>

---------------------------------------------------------------------------
(***************************************************************************)
(* The features of each member.                                            *)
(***************************************************************************)
Matched(name) == \E spec \in specs : SpecMatches(spec, name)

Cli(features, all, default) == [features |-> features, all |-> all, default |-> default]

\* a feature or an optional dependency of the member
Defines(name, f) == f \in case.members[name].features \union case.members[name].optional

\* collect_matching_features: what each requested feature means for the member
Meaning(name, feature) ==
  IF feature[1] = "" THEN (IF Defines(name, feature[2]) THEN {feature} ELSE {})
  ELSE IF feature[1] \in case.members[name].deps THEN {feature}
  ELSE IF feature[1] = name /\ Defines(name, feature[2]) THEN {<<"", feature[2]>>}
  ELSE {}

allows_new_cli_feature_behavior == case.current = "" \/ case.resolver > 1

\* members_with_features_new
DealNew ==
  LET matched == {name \in Members : Matched(name)}
      found == {f \in case.cli.features : \E name \in matched : Meaning(name, f) # {}}
  IN  IF matched = {}
      THEN IF case.cli # Cli({}, FALSE, TRUE) THEN selat' = "error" /\ UNCHANGED dealt
           ELSE selat' = "done" /\ dealt' = [name \in Members |-> Cli({}, TRUE, FALSE)]
      ELSE IF found # case.cli.features THEN selat' = "error" /\ UNCHANGED dealt
      ELSE /\ selat' = "done"
           /\ dealt' = [name \in matched |->
                          Cli(UNION {Meaning(name, f) : f \in case.cli.features},
                              case.cli.all, case.cli.default)]

\* members_with_features_old: d/f is for the member d when it is asked for by
\* name, everything else for the current package
ForMember(feature) ==
  /\ feature[1] \in Members \ {case.current}
  /\ \E spec \in specs : spec.name = feature[1]

DealOld ==
  LET given == {name \in Members : name = case.current \/ Matched(name)}
      own(name) == {<<"", f[2]>> : f \in {g \in case.cli.features : ForMember(g) /\ g[1] = name}}
      cwd == {f \in case.cli.features : ~ForMember(f)}
  IN  \* the assertion that no feature of a member is left over
      IF \E f \in case.cli.features : ForMember(f) /\ ~Matched(f[1])
      THEN selat' = "panic" /\ UNCHANGED dealt
      ELSE /\ selat' = "done"
           /\ dealt' = [name \in given |->
                          IF name = case.current THEN Cli(cwd, case.cli.all, case.cli.default)
                          ELSE Cli(own(name), case.cli.all, TRUE)]

MembersWithFeatures ==
  /\ selat = "features"
  /\ IF allows_new_cli_feature_behavior THEN DealNew ELSE DealOld
  /\ UNCHANGED <<case, specs>>

SelectionNext == ToPackageIdSpecs \/ MembersWithFeatures

---------------------------------------------------------------------------
\* No requested feature is silently ignored: each one reaches a member, and
\* a member asked for is given what it defines of them.
FeaturesReach ==
  selat = "done" =>
    /\ \A f \in case.cli.features :
         \E name \in DOMAIN dealt : {f, <<"", f[2]>>} \intersect dealt[name].features # {}
    /\ \A name \in DOMAIN dealt :
         Matched(name) /\ allows_new_cli_feature_behavior =>
           \A f \in case.cli.features : Meaning(name, f) \subseteq dealt[name].features

\* members_with_features_old asserts that every feature meant for a member
\* was given to it.
NothingLeftOver == selat # "panic"

\* Excluded packages are not worked on, and members named on the command
\* line are.
FlagsHonoured ==
  selat = "done" =>
    \A name \in Members :
      NamedById(name) \/ Globbed(name) =>
        /\ case.flags.kind = "opt_out" => ~Matched(name)
        /\ case.flags.kind \in {"packages", "all"} => name \in DOMAIN dealt

\* Every flag has its effect: packages named are selected, those excluded
\* are not, and no feature is lost.
FlagsApplied == FeaturesReach /\ FlagsHonoured /\ NothingLeftOver
=============================================================================
