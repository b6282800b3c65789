------------------------------ MODULE Profiles ------------------------------
(***************************************************************************)
(* Build profiles (workspace/profiles.rs): those of the manifest merged    *)
(* with those of the configuration, the makers of the profiles along their *)
(* inheritance, and the profile of a unit after its overrides.             *)
(*                                                                         *)
(* A world has manifest and config, functions from the profiles defined    *)
(* there to what they inherit (or NoProfile), set, the settings given, as  *)
(* <<place, profile, layer, setting>>, and requested. A value is the place *)
(* and the profile it was given in.                                        *)
(***************************************************************************)
EXTENDS Integers, Sequences, TLC, FiniteSets

CONSTANTS ProfileWorlds

VARIABLES
  pworld,
  profiles,      \* what merge_config_profiles has so far, by name
  check_to_add,
  by_name,       \* the tomls of the makers
  todo,          \* the profiles add_maker is still called for, in order
  at             \* "merge", "add", "makers", "done", "error"

profvars == <<pworld, profiles, check_to_add, by_name, todo, at>>

NoProfile == "none"
NotSet == <<"default">>
Layer == {"base", "build", "all", "spec"}
Setting == {"opt_level", "strip"}
Roots == {"dev", "release"}
Predefined == [test |-> "dev", bench |-> "release", doc |-> "dev"]
Names == <<"bench", "dev", "doc", "p", "q", "release", "test">>

ProfileToml(place, name) ==
  [inherits |-> pworld[place][name],
   set |-> [l \in Layer |-> [s \in Setting |->
              IF <<place, name, l, s>> \in pworld.set THEN <<place, name>> ELSE NotSet]]]
EmptyToml(inherits) == [inherits |-> inherits, set |-> [l \in Layer |-> [s \in Setting |-> NotSet]]]

\* Mutant: what is there stays.
MergeKeeps(toml, other) ==
  [inherits |-> IF other.inherits # NoProfile THEN other.inherits ELSE toml.inherits,
   set |-> [l \in Layer |-> [s \in Setting |->
              IF toml.set[l][s] # NotSet THEN toml.set[l][s] ELSE other.set[l][s]]]]

\* TomlProfile::merge.
Merge(toml, other) ==
  [inherits |-> IF other.inherits # NoProfile THEN other.inherits ELSE toml.inherits,
   set |-> [l \in Layer |-> [s \in Setting |->
              IF other.set[l][s] # NotSet THEN other.set[l][s] ELSE toml.set[l][s]]]]

ProfileInit ==
  /\ pworld \in ProfileWorlds
  /\ profiles = [n \in {} |-> EmptyToml(NoProfile)]
  /\ check_to_add = {} /\ by_name = [n \in {} |-> EmptyToml(NoProfile)]
  /\ todo = <<>> /\ at = "merge"

Configured(name) == name \in DOMAIN pworld.config

\* merge_config_profiles: the profiles of the manifest with their configuration, ...
MergeConfig ==
  /\ at = "merge"
  /\ profiles' = [n \in DOMAIN pworld.manifest |->
       IF Configured(n) THEN Merge(ProfileToml("manifest", n), ProfileToml("config", n)) ELSE ProfileToml("manifest", n)]
  /\ check_to_add' = {pworld.requested} \union {"dev", "release", "test", "bench"}
                       \union ({profiles'[n].inherits : n \in DOMAIN profiles'} \ {NoProfile})
  /\ at' = "add"
  /\ UNCHANGED <<pworld, by_name, todo>>

\* ... then those only configured that are needed, and those these inherit.
AddConfigured ==
  /\ at = "add" /\ check_to_add # {}
  /\ \E new \in {{n \in check_to_add \ DOMAIN profiles : Configured(n)}} :
       /\ profiles' = [n \in new |-> ProfileToml("config", n)] @@ profiles
       /\ check_to_add' = {pworld.config[n] : n \in new} \ {NoProfile}
  /\ UNCHANGED <<pworld, by_name, todo, at>>

\* Profiles::new: the root profiles have their makers first; the predefined ones inherit.
AddPredefined ==
  /\ at = "add" /\ check_to_add = {}
  /\ by_name' = [n \in Roots |-> IF n \in DOMAIN profiles THEN profiles[n] ELSE EmptyToml(NoProfile)]
  /\ profiles' = [n \in DOMAIN Predefined |->
                    IF n \in DOMAIN profiles THEN Merge(EmptyToml(Predefined[n]), profiles[n])
                    ELSE EmptyToml(Predefined[n])] @@ profiles
  /\ todo' = SelectSeq(Names, LAMBDA n : n \in DOMAIN profiles')
  /\ at' = "makers"
  /\ UNCHANGED <<pworld, check_to_add>>

\* process_chain: the toml of a profile merged into those it inherits. set: the names seen.
BrokenProfiles == EmptyToml("error")
RECURSIVE ProcessChain(_, _)
ProcessChain(name, set) ==
  LET parent == profiles[name].inherits
      maker == CASE parent \in Roots -> by_name[parent]
                 [] parent = NoProfile \/ parent \in set -> BrokenProfiles
                 [] parent \notin DOMAIN profiles -> BrokenProfiles
                 [] OTHER -> ProcessChain(parent, set \union {parent})
  IN  IF maker = BrokenProfiles THEN BrokenProfiles ELSE Merge(maker, profiles[name])

add_maker ==
  /\ at = "makers" /\ todo # <<>>
  /\ \E name \in {Head(todo)} :
       IF name \in Roots
       THEN /\ at' = IF profiles[name].inherits # NoProfile THEN "error" ELSE at
            /\ UNCHANGED by_name
       ELSE \E maker \in {ProcessChain(name, {name})} :
              /\ at' = IF maker = BrokenProfiles THEN "error" ELSE at
              /\ by_name' = IF maker = BrokenProfiles THEN by_name ELSE name :> maker @@ by_name
  /\ todo' = Tail(todo)
  /\ UNCHANGED <<pworld, profiles, check_to_add>>

\* The requested profile must have a maker.
ProfilesReady ==
  /\ at = "makers" /\ todo = <<>>
  /\ at' = IF pworld.requested \in DOMAIN by_name THEN "done" ELSE "error"
  /\ UNCHANGED <<pworld, profiles, check_to_add, by_name, todo>>

ProfileNext == MergeConfig \/ AddConfigured \/ AddPredefined \/ add_maker \/ ProfilesReady
-----------------------------------------------------------------------------
\* merge_profile: strip has no setting to keep.
MergeProfile(profile, settings) ==
  [s \in Setting |-> IF s = "strip" \/ settings[s] # NotSet THEN settings[s] ELSE profile[s]]

\* ProfileMaker::get_profile and merge_toml_overrides, for a package that has a spec of its own.
GetUnitProfile(is_member, is_for_host) ==
  LET toml == by_name[pworld.requested].set
      base == MergeProfile([s \in Setting |-> NotSet], toml["base"])
      host == IF is_for_host
              THEN LET reset == [base EXCEPT !["opt_level"] = NotSet]
                   IN  IF \A s \in Setting : toml["build"][s] = NotSet THEN reset
                       ELSE MergeProfile(reset, toml["build"])
              ELSE base
      all == IF is_member \/ \A s \in Setting : toml["all"][s] = NotSet THEN host
             ELSE MergeProfile(host, toml["all"])
  IN  IF \A s \in Setting : toml["spec"][s] = NotSet THEN all ELSE MergeProfile(all, toml["spec"])
-----------------------------------------------------------------------------
(* What the profiles reference says (profiles.md, Overrides), for each layer of overrides. *)

\* A profile is what it inherits, its manifest, its configuration.
InheritsOf(n) ==
  CASE Configured(n) /\ pworld.config[n] # NoProfile -> pworld.config[n]
    [] n \in DOMAIN pworld.manifest /\ pworld.manifest[n] # NoProfile -> pworld.manifest[n]
    [] n \in DOMAIN Predefined -> Predefined[n]
    [] OTHER -> NoProfile

Ancestor(n, k) ==
  LET up[i \in 0..k] == IF i = 0 THEN n ELSE IF up[i - 1] = NoProfile THEN NoProfile ELSE InheritsOf(up[i - 1])
  IN  up[k]
Chain(n) == {k \in 0..Cardinality({Names[i] : i \in 1..Len(Names)}) : Ancestor(n, k) # NoProfile}

Given(place, n, l, s) == n \in DOMAIN pworld[place] /\ <<place, n, l, s>> \in pworld.set

\* The settings for a layer, the strongest first.
Sources(l, s) ==
  {<<k, place>> \in Chain(pworld.requested) \X {"config", "manifest"} :
     Given(place, Ancestor(pworld.requested, k), l, s)}
Strongest(sources) ==
  CHOOSE x \in sources : \A y \in sources : x[1] < y[1] \/ (x[1] = y[1] /\ (x[2] = "config" \/ x = y))

Layers(is_member, is_for_host, s) ==
  <<"spec">> \o (IF is_member THEN <<>> ELSE <<"all">>) \o (IF is_for_host THEN <<"build">> ELSE <<>>)
    \o (IF is_for_host /\ s = "opt_level" THEN <<>> ELSE <<"base">>)

FirstMatch(layers, s) ==
  LET given == {i \in 1..Len(layers) : Sources(layers[i], s) # {}}
  IN  IF given = {} THEN NotSet
      ELSE LET first == CHOOSE i \in given : \A j \in given : i <= j
               x == Strongest(Sources(layers[first], s))
           IN  <<x[2], Ancestor(pworld.requested, x[1])>>

FirstMatchWins(s) ==
  at = "done" =>
    \A is_member, is_for_host \in BOOLEAN :
      GetUnitProfile(is_member, is_for_host)[s] = FirstMatch(Layers(is_member, is_for_host, s), s)

\* Whatever is inherited and configured, a unit has the setting of the first of its package,
\* all dependencies, build-override and the profile that gives it; where several give it for
\* that layer, the profile's own before what it inherits, and of one profile the configuration
\* before the manifest.  The layers come first: merge_config_profiles merges layer by layer, so
\* that an override of the manifest beats what the configuration says of the profile itself,
\* though the comment on ProfileMaker puts all of the configuration before the manifest.
ProfilePrecedence == FirstMatchWins("opt_level")
=============================================================================
