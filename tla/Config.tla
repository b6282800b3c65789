------------------------------- MODULE Config -------------------------------
(***************************************************************************)
(* The configuration (GlobalContext): the files found on the way up from   *)
(* the current directory, the files they include, the --config arguments,  *)
(* the environment and the credentials, merged into one table from which   *)
(* keys are read; and the second load that cargo install makes.            *)
(*                                                                         *)
(* A value is the name of the place it comes from, so that a merged table  *)
(* tells whose values won.  A key is a section and a name in it.           *)
(***************************************************************************)
EXTENDS Integers, SequencesExt

CONSTANT ConfigWorlds  \* sets of worlds

VARIABLES cfworld,            \* files, directories, arguments, environment
          values,             \* GlobalContext.values
          cli_table,          \* the --config arguments merged so far
          credential_values,  \* None before load_credentials
          net_config,         \* the cell filled by the first net_config()
          cfleft,             \* directories and arguments still to load
          cfat                \* "walk", "cli", "configured", "reloaded" or "error"

confvars == <<cfworld, values, cli_table, credential_values, net_config, cfleft, cfat>>

\* Definition: BuiltIn, Path, Environment and Cli, by priority
Path == 1
Environment == 2
CliConfig == 3

NoTable == <<>>
Env == <<"environment">>

is_nonmergeable_list(parts) == parts = <<"doc", "browser">>

Sorted(items) ==
  SelectSeq(items, LAMBDA i : i.by = Path) \o SelectSeq(items, LAMBDA i : i.by = Environment)
    \o SelectSeq(items, LAMBDA i : i.by = CliConfig)

\* merge_helper on two values that are not tables
MergeLeaf(old, from, force, parts) ==
  LET replaces == force \/ from.by > old.by
      list == IF is_nonmergeable_list(parts) THEN (IF replaces THEN from.items ELSE old.items)
              ELSE IF force THEN old.items \o from.items ELSE from.items \o old.items
  IN IF old.type = "list" THEN [old EXCEPT !.items = Sorted(list)]
     ELSE IF replaces THEN from ELSE old

Sections(cv) == {k[1] : k \in DOMAIN cv}

\* The keys of `from`, as its hash maps list them.
KeysInOrder(from) == SelectSeq(cfworld.order, LAMBDA k : k \in DOMAIN from)

\* What merge_helper has in `parts` when it comes to each key: every table and
\* key that is in both is pushed, and none is popped.
PartsAt(cv, from, i) ==
  LET keys == KeysInOrder(from)
      pushed(j) == (IF j > 1 /\ keys[j - 1][1] = keys[j][1] THEN <<>>
                    ELSE IF keys[j][1] \in Sections(cv) THEN <<keys[j][1]>> ELSE <<>>)
                   \o (IF keys[j] \in DOMAIN cv THEN <<keys[j][2]>> ELSE <<>>)
  IN FlattenSeq([j \in 1..i |-> pushed(j)])

MergeFails(cv, from) == \E k \in DOMAIN cv \intersect DOMAIN from : cv[k].type # from[k].type

\* ConfigValue::merge, where it does not fail
MergeConfigValue(cv, from, force) ==
  LET keys == KeysInOrder(from)
      at(k) == CHOOSE i \in DOMAIN keys : keys[i] = k
  IN [k \in DOMAIN cv \union DOMAIN from |->
        IF k \notin DOMAIN from THEN cv[k]
        ELSE IF k \notin DOMAIN cv THEN from[k]
        ELSE MergeLeaf(cv[k], from[k], force, PartsAt(cv, from, at(k)))]

\* CV::from_toml
FromToml(has, name, by) ==
  [k \in DOMAIN has |-> [type |-> has[k], by |-> by, items |-> <<[v |-> name, by |-> by]>>]]

Loaded(cv, seen) == [ok |-> TRUE, cv |-> cv, seen |-> seen]
RefusedConfig == [ok |-> FALSE, cv |-> NoTable, seen |-> {}]

RECURSIVE load_file(_, _, _), load_includes(_, _, _, _, _)

\* _load_file: `seen` also holds the files that were included and are done
load_file(file, seen, by) ==
  IF file \in seen \/ file \notin DOMAIN cfworld.files THEN RefusedConfig
  ELSE load_includes(FromToml(cfworld.files[file].has, file, by), cfworld.files[file].include,
                     NoTable, seen \union {file}, by)

\* `root` is what the includes before these have given
load_includes(value, includes, root, seen, by) ==
  IF includes = <<>>
  THEN IF MergeFails(root, value) THEN RefusedConfig ELSE Loaded(MergeConfigValue(root, value, TRUE), seen)
  ELSE LET include == Head(includes)
           loaded == load_file(include.path, seen, by)
       IN IF include.optional /\ include.path \notin DOMAIN cfworld.files
          THEN load_includes(value, Tail(includes), root, seen, by)
          ELSE IF ~loaded.ok \/ MergeFails(root, loaded.cv) THEN RefusedConfig
          ELSE load_includes(value, Tail(includes), MergeConfigValue(root, loaded.cv, TRUE), loaded.seen, by)

\* get_file_path: the file without an extension hides the other
get_file_path(dir, name, name_toml) ==
  {f \in {<<dir, name>>, <<dir, name_toml>>} :
     /\ f \in DOMAIN cfworld.files
     /\ f[2] = name_toml => <<dir, name>> \notin DOMAIN cfworld.files}

WalkedTwice(dirs) == Append(dirs, cfworld.home)

\* walk_tree: up from `dirs`, then CARGO_HOME unless it was passed
Walked(dirs) ==
  IF cfworld.home \in ToSet(dirs) THEN dirs ELSE Append(dirs, cfworld.home)

----------------------------------------------------------------------------
ConfigInit ==
  /\ \E family \in ConfigWorlds : cfworld \in family
  /\ values = NoTable /\ cli_table = NoTable /\ credential_values = NoTable
  /\ net_config = <<>>
  /\ cfleft = [dirs |-> Walked(cfworld.dirs), args |-> <<>>, seen |-> {},
               reloads |-> cfworld.reload_dirs # <<>>]
  /\ cfat = "walk"

ConfigFails ==
  /\ cfat' = "error"
  /\ UNCHANGED <<cfworld, values, cli_table, credential_values, net_config, cfleft>>

\* load_values_from, one directory
LoadDirectory ==
  /\ cfat = "walk" /\ cfleft.dirs # <<>>
  /\ LET files == get_file_path(Head(cfleft.dirs), "config", "config.toml")
         file == CHOOSE f \in files : TRUE
     IN IF files = {}
        THEN /\ cfleft' = [cfleft EXCEPT !.dirs = Tail(@)]
             /\ UNCHANGED <<cfworld, values, cli_table, credential_values, net_config, cfat>>
        ELSE \E loaded \in {load_file(file, {}, Path)} :
               IF ~loaded.ok \/ MergeFails(values, loaded.cv) THEN ConfigFails
               ELSE /\ values' = MergeConfigValue(values, loaded.cv, FALSE)
                    /\ cfleft' = [cfleft EXCEPT !.dirs = Tail(@)]
                    /\ UNCHANGED <<cfworld, cli_table, credential_values, net_config, cfat>>

WalkDone ==
  /\ cfat = "walk" /\ cfleft.dirs = <<>>
  /\ cfat' = "cli" /\ cli_table' = NoTable
  /\ cfleft' = [cfleft EXCEPT !.args = cfworld.cli]
  /\ UNCHANGED <<cfworld, values, credential_values, net_config>>

\* The keys no argument may set (a registry's name in [registries] is left out).
IsSecret(key) == key[1] \in {"registry", "registries"} /\ key[2] \in {"token", "secret-key"}

\* cli_args_as_table, one argument: what an argument includes that is not a file is
\* looked at without the files seen before
LoadArgument ==
  /\ cfat = "cli" /\ cfleft.args # <<>>
  /\ \E arg \in {Head(cfleft.args)} :
       \E loaded \in {IF arg.is_file THEN load_file(arg.name, cfleft.seen, CliConfig)
                      ELSE load_includes(FromToml(arg.has, arg.name, CliConfig), arg.include, NoTable, {}, CliConfig)} :
         IF \/ ~arg.is_file /\ \E key \in DOMAIN arg.has : IsSecret(key)
            \/ ~loaded.ok \/ MergeFails(cli_table, loaded.cv)
         THEN ConfigFails
         ELSE /\ cli_table' = MergeConfigValue(cli_table, loaded.cv, TRUE)
              /\ cfleft' = [cfleft EXCEPT !.args = Tail(@), !.seen = IF arg.is_file THEN loaded.seen ELSE @]
              /\ UNCHANGED <<cfworld, values, credential_values, net_config, cfat>>

\* get_cv
GetCv(table, key) ==
  IF credential_values # NoTable /\ key \in DOMAIN credential_values THEN <<credential_values[key]>>
  ELSE IF key \in DOMAIN table THEN <<table[key]>> ELSE <<>>

EnvItem == [v |-> Env, by |-> Environment]

\* get_integer, get_bool, get_string
GetTyped(table, key) ==
  LET cv == GetCv(table, key)
  IN IF cv = <<>> THEN (IF key \in cfworld.env THEN <<Env>> ELSE <<>>)
     ELSE IF key \in cfworld.env /\ ~(cv[1].by > Environment) THEN <<Env>> ELSE <<cv[1].items[1].v>>

Panicked == <<<<"panicked">>>>

\* deserialize_seq, StringList: get_env_list, with its assertion that a list that is not
\* merged comes from one kind of place
GetList(table, key) ==
  LET cv == GetCv(table, key)
      output == IF cv = <<>> THEN <<>> ELSE cv[1].items
      mixed == \E i, j \in DOMAIN output : output[i].by # output[j].by
      kept == IF is_nonmergeable_list(key) THEN <<>> ELSE output
      listed == IF key \notin cfworld.env
                   \/ (is_nonmergeable_list(key) /\ output # <<>> /\ output[1].by > Environment)
                THEN output ELSE Sorted(Append(kept, EnvItem))
  IN IF key \in cfworld.env /\ is_nonmergeable_list(key) /\ mixed THEN Panicked
     ELSE [i \in DOMAIN listed |-> listed[i].v]

Offline == <<"net", "offline">>

\* merge_cli_args, then the rest of configure or of reload_rooted_at:
\* configure asks for net_config and keeps what it gets
MergeCliArgs ==
  /\ cfat = "cli" /\ cfleft.args = <<>>
  /\ IF MergeFails(values, cli_table) THEN ConfigFails
     ELSE /\ values' = MergeConfigValue(values, cli_table, TRUE)
          /\ net_config' = IF net_config = <<>>
                           THEN <<GetTyped(MergeConfigValue(values, cli_table, TRUE), Offline)>> ELSE net_config
          /\ cfat' = IF cfleft.reloads THEN "configured" ELSE "reloaded"
          /\ UNCHANGED <<cfworld, cli_table, credential_values, cfleft>>

\* cargo install: reload_rooted_at
ReloadRootedAt ==
  /\ cfat = "configured"
  /\ values' = NoTable
  /\ cfleft' = [dirs |-> Walked(cfworld.reload_dirs), args |-> <<>>, seen |-> {}, reloads |-> FALSE]
  /\ cfat' = "walk"
  /\ UNCHANGED <<cfworld, cli_table, credential_values, net_config>>

\* load_credentials: only the sections the file has are copied
LoadCredentials ==
  /\ cfat = "reloaded" /\ credential_values = NoTable
  /\ LET files == get_file_path(cfworld.home, "credentials", "credentials.toml")
     IN /\ files # {}
        /\ \E loaded \in {load_file(CHOOSE f \in files : TRUE, {}, Path)} :
             LET base == [k \in {k \in DOMAIN values : k[1] \in Sections(loaded.cv)} |-> values[k]]
             IN IF ~loaded.ok \/ MergeFails(base, loaded.cv) THEN ConfigFails
                ELSE /\ credential_values' = MergeConfigValue(base, loaded.cv, TRUE)
                     /\ UNCHANGED <<cfworld, values, cli_table, net_config, cfleft, cfat>>

ConfigNext ==
  LoadDirectory \/ WalkDone \/ LoadArgument \/ MergeCliArgs \/ ReloadRootedAt \/ LoadCredentials

----------------------------------------------------------------------------
\* The places a configuration comes from, those with less to say first: the
\* files from the home directory to the current one, each after the files it
\* includes; the environment; the arguments from left to right.
RECURSIVE Flat(_)
Flat(file) ==
  IF file \notin DOMAIN cfworld.files THEN <<>>
  ELSE Append(FlattenSeq([i \in DOMAIN cfworld.files[file].include |-> Flat(cfworld.files[file].include[i].path)]), file)

FlatArgument(arg) ==
  IF arg.is_file THEN Flat(arg.name)
  ELSE Append(FlattenSeq([i \in DOMAIN arg.include |-> Flat(arg.include[i].path)]), arg.name)

FilesOf(dir) ==
  IF <<dir, "config">> \in DOMAIN cfworld.files THEN Flat(<<dir, "config">>) ELSE Flat(<<dir, "config.toml">>)

FromFiles(dirs) ==
  (IF cfworld.home \in ToSet(dirs) THEN <<>> ELSE FilesOf(cfworld.home))
    \o FlattenSeq([i \in DOMAIN dirs |-> FilesOf(dirs[Len(dirs) + 1 - i])])

FromCredentials ==
  IF credential_values = NoTable THEN <<>>
  ELSE Flat(CHOOSE f \in get_file_path(cfworld.home, "credentials", "credentials.toml") : TRUE)

FromArguments == FlattenSeq([i \in DOMAIN cfworld.cli |-> FlatArgument(cfworld.cli[i])])

Has(place, key) ==
  \/ place \in DOMAIN cfworld.files /\ key \in DOMAIN cfworld.files[place].has
  \/ \E i \in DOMAIN cfworld.cli : ~cfworld.cli[i].is_file /\ cfworld.cli[i].name = place
                                   /\ key \in DOMAIN cfworld.cli[i].has

Saying(key, dirs) ==
  SelectSeq(FromFiles(dirs) \o FromCredentials, LAMBDA p : Has(p, key))
    \o (IF key \in cfworld.env THEN <<Env>> ELSE <<>>)
    \o SelectSeq(FromArguments, LAMBDA p : Has(p, key))

LastOf(seq) == IF seq = <<>> THEN <<>> ELSE <<Last(seq)>>

LoadedFrom == IF cfworld.reload_dirs = <<>> THEN cfworld.dirs ELSE cfworld.reload_dirs

\* A key has the value of the place with the most to say; a list joins what all
\* say, in that order (get, get_env_list, ConfigValue::merge).
PrecedenceKept ==
  cfat = "reloaded" =>
    \A key \in cfworld.keys :
      /\ key \in DOMAIN values /\ values[key].type = "scalar" =>
           GetTyped(values, key) = LastOf(Saying(key, LoadedFrom))
      /\ key \in DOMAIN values /\ values[key].type = "list" /\ ~is_nonmergeable_list(key) =>
           GetList(values, key) = Saying(key, LoadedFrom)

\* "The higher priority list should replace the lower priority list" where the
\* list is a program and its arguments (NON_MERGEABLE_LISTS).
ListsReplaced ==
  cfat = "reloaded" =>
    \A key \in cfworld.keys :
      key \in DOMAIN values /\ values[key].type = "list" /\ is_nonmergeable_list(key) =>
        GetList(values, key) = LastOf(Saying(key, LoadedFrom))

Acyclic(file, n) ==
  LET reach[i \in 0..n] == IF i = 0 THEN {file}
        ELSE UNION {{cfworld.files[f].include[j].path : j \in DOMAIN cfworld.files[f].include} :
                      f \in reach[i - 1] \intersect DOMAIN cfworld.files}
  IN reach[n] = {}

\* Loading fails for files that include each other or are missing, for keys that
\* are a list here and not there, for arguments with secrets, and for nothing else.
ErrorsExplained ==
  cfat = "error" =>
    \/ \E i \in DOMAIN cfworld.cli : ~cfworld.cli[i].is_file /\ \E key \in DOMAIN cfworld.cli[i].has : IsSecret(key)
    \/ \E f \in DOMAIN cfworld.files : ~Acyclic(f, Cardinality(DOMAIN cfworld.files))
    \/ \E f \in DOMAIN cfworld.files : \E i \in DOMAIN cfworld.files[f].include :
         ~cfworld.files[f].include[i].optional /\ cfworld.files[f].include[i].path \notin DOMAIN cfworld.files
    \/ \E flat \in {Flat(f) : f \in DOMAIN cfworld.files} \union {FromArguments} :
         \E i, j \in DOMAIN flat : i # j /\ flat[i] = flat[j]
    \/ LET all == [f \in DOMAIN cfworld.files |-> cfworld.files[f].has]
           inline == {cfworld.cli[i].has : i \in {i \in DOMAIN cfworld.cli : ~cfworld.cli[i].is_file}}
           tables == {all[f] : f \in DOMAIN all} \union inline
       IN \E a, b \in tables : \E k \in DOMAIN a \intersect DOMAIN b : a[k] # b[k]

\* What the configuration promises its readers.
ConfigMerged == PrecedenceKept /\ ListsReplaced /\ ErrorsExplained

=============================================================================
