------------------------------ MODULE CargoHome ------------------------------
(***************************************************************************)
(* The download caches of CARGO_HOME and their garbage collection, as      *)
(* several cargos use them: registry sources (sources/registry), git       *)
(* sources (sources/git), the last-use tracker                             *)
(* (workspace/global_cache_tracker.rs) and automatic collection            *)
(* (workspace/gc.rs).  The caches hold one registry, with an index and     *)
(* packages that each have a .crate file and an unpacked src directory,    *)
(* and one git database with checkouts.  The package cache lock is the one *)
(* CacheLock models, taken in one step.  Processes can be killed, and time *)
(* passes.                                                                 *)
(***************************************************************************)
EXTENDS Integers, FiniteSets

CONSTANTS
  Process,        \* the cargo processes
  Kind,           \* [Process -> "build" or "clean", the latter being cargo clean gc]
  Package,        \* the packages of the registry, which every build needs; a name is a
                  \* number, by which names are ordered
  Rev,            \* the revisions of the git repository, which every build needs
  MaxAge,         \* [Table -> the age at which automatic collection deletes]
  CleanOpts,      \* the options cargo clean gc is called with
  Resolution,     \* UPDATE_RESOLUTION
  Frequency,      \* cache.auto-clean-frequency
  End,            \* time stops here
  GcInterrupted   \* may a collection be interrupted within a directory, or only between paths?

Table == {"index", "crate", "src", "db", "co"}
SizeOpt == {"crate_size", "src_size", "git_size", "download_size"}
Unset == -1

ASSUME NamesOrdered == Package \union Rev \subseteq Nat
ASSUME KindsKnown == Kind \in [Process -> {"build", "clean"}]
ASSUME AgesNatural == MaxAge \in [Table -> Nat]
ASSUME TimesNatural == {Resolution, Frequency, End} \subseteq Nat
ASSUME OptsTyped == CleanOpts \subseteq [Table \union SizeOpt -> Nat \union {Unset}]
ASSUME GcInterruptedBoolean == GcInterrupted \in BOOLEAN

VARIABLES
  now,           \* the clock
  files,          \* [Item -> what is there]
  row,           \* [Item -> its timestamp in the tracker, Unset without a row]
  last_auto_gc,  \* global_data.last_auto_gc
  phase,         \* [Process -> where it is in its command]
  started,       \* [Process -> DeferredGlobalLastUse::now]
  deferred,      \* [Process -> the items marked as used and not saved]
  todo,          \* [Process -> the sources and packages it has yet to get]
  hand,          \* [Process -> the item it writes, and the next step]
  plan,          \* [Process -> the paths to delete, and the rows of the transaction]
  recorded,      \* processes whose uses were all saved
  forced         \* has cargo clean gc deleted anything?

home == <<files, row, last_auto_gc>>
chvars == <<now, files, row, last_auto_gc, phase, started, deferred, todo, hand, plan,
            recorded, forced>>

Index == <<"index", 0>>
Db == <<"db", 0>>
Item == {Index, Db} \union ({"crate", "src"} \X Package) \union ({"co"} \X Rev)
Crate(c) == <<"crate", c>>
Src(c) == <<"src", c>>
Co(r) == <<"co", r>>
TableOf(i) == i[1]
Children(i) == {j \in Item :
  \/ i = Index /\ TableOf(j) \in {"crate", "src"}
  \/ i = Db /\ TableOf(j) = "co"}
Parent(i) == CHOOSE j \in {Index, Db} : i \in Children(j)
Used == ({"src"} \X Package) \union ({"co"} \X Rev)

\* What the disk holds of an item: "absent"; "empty": a .crate file of length 0;
\* "partial": some of the files, or of the bytes; "unmarked": unpacked, with an empty .cargo-ok; "ready": complete and, if
\* a directory, with .cargo-ok; "torn": with .cargo-ok, but files are missing.

\* The package cache lock a process holds.
Lock(p) ==
  CASE phase[p] \in {"resolve", "download"} -> "DownloadExclusive"
    [] phase[p] \in {"gc", "delete"} -> "MutateExclusive"
    [] phase[p] = "building" -> "Shared"
    [] OTHER -> "none"

\* CacheLock's exclusion.
CanLock(p, m) == \A q \in Process \ {p} :
  CASE m = "MutateExclusive" -> Lock(q) = "none"
    [] m = "DownloadExclusive" -> Lock(q) \in {"none", "Shared"}
    [] m = "Shared" -> Lock(q) # "MutateExclusive"

EmptyHand == <<"none", Index>>
NoPlan == [paths |-> {}, rows |-> [i \in Item |-> Unset]]
GoTo(p, ph) == phase' = [phase EXCEPT ![p] = ph]

\* A home that is new, one tracked long ago, or one of a cargo without tracker.
CHInit ==
  /\ now = MaxAge["index"]
  /\ \E c \in {"absent", "ready"}, t \in {0, Unset} :
       /\ c = "absent" => t = Unset
       /\ files = [i \in Item |-> c]
       /\ row = [i \in Item |-> t]
  /\ last_auto_gc = 0
  /\ phase = [p \in Process |-> "start"]
  /\ started = [p \in Process |-> now]
  /\ deferred = [p \in Process |-> {}]
  /\ todo = [p \in Process |-> {}]
  /\ hand = [p \in Process |-> EmptyHand]
  /\ plan = [p \in Process |-> NoPlan]
  /\ recorded = Process
  /\ forced = FALSE
-----------------------------------------------------------------------------
(* A command: resolution, downloads, collection, the build. *)

\* resolve_with_previous: the index is updated and loaded, git sources checked out.
Resolve(p) ==
  /\ phase[p] = "start" /\ Kind[p] = "build"
  /\ CanLock(p, "DownloadExclusive")
  /\ GoTo(p, "resolve")
  /\ started' = [started EXCEPT ![p] = now]
  /\ files' = [files EXCEPT ![Index] = "ready"]
  /\ deferred' = [deferred EXCEPT ![p] = {Index}]
  /\ todo' = [todo EXCEPT ![p] = {"co"} \X Rev]
  /\ UNCHANGED <<now, row, last_auto_gc, hand, plan, recorded, forced>>

\* Mutant: only the packages that have been downloaded before are waited for.
DownloadMissesNew(p) ==
  /\ phase[p] = "resolved"
  /\ CanLock(p, "DownloadExclusive")
  /\ GoTo(p, "download")
  /\ todo' = [todo EXCEPT ![p] = {i \in ({"crate"} \X Package) : files[i] # "absent"} \union ({"co"} \X Rev)]
  /\ UNCHANGED <<now, home, started, deferred, hand, plan, recorded, forced>>

\* Downloads::download.
Download(p) ==
  /\ phase[p] = "resolved"
  /\ CanLock(p, "DownloadExclusive")
  /\ GoTo(p, "download")
  /\ todo' = [todo EXCEPT ![p] = ({"crate"} \X Package) \union ({"co"} \X Rev)]
  /\ UNCHANGED <<now, home, started, deferred, hand, plan, recorded, forced>>

\* DeferredGlobalLastUse::save: a timestamp is only written when it is much newer.
Saved(r, items, time) == [i \in Item |->
  IF i \in items /\ (r[i] = Unset \/ r[i] < time - Resolution) THEN time ELSE r[i]]

\* The last futures or queries are done: the uses are saved and the lock released.
\* save_no_error forgets the uses that it cannot save.
Save(p, ok) ==
  /\ phase[p] \in {"resolve", "download"} /\ todo[p] = {} /\ hand[p] = EmptyHand
  /\ row' = IF ok THEN Saved(row, deferred[p], started[p]) ELSE row
  /\ recorded' = IF ok THEN recorded ELSE recorded \ {p}
  /\ deferred' = [deferred EXCEPT ![p] = {}]
  /\ GoTo(p, IF phase[p] = "resolve" THEN "resolved" ELSE "fetched")
  /\ UNCHANGED <<now, files, last_auto_gc, started, todo, hand, plan, forced>>

\* BuildRunner::compile takes the shared lock for as long as it builds.
Build(p) ==
  /\ phase[p] = "collected"
  /\ CanLock(p, "Shared")
  /\ GoTo(p, "building")
  /\ UNCHANGED <<now, home, started, deferred, todo, hand, plan, recorded, forced>>

\* The command ends, as planned or with an error, or is killed; uses not saved by
\* then are lost.
Ended(p) ==
  /\ GoTo(p, "done")
  /\ deferred' = [deferred EXCEPT ![p] = {}]
  /\ todo' = [todo EXCEPT ![p] = {}]
  /\ hand' = [hand EXCEPT ![p] = EmptyHand]
  /\ plan' = [plan EXCEPT ![p] = NoPlan]
  /\ UNCHANGED <<now, row, last_auto_gc, started, recorded, forced>>

Finish(p) == phase[p] = "building" /\ Ended(p) /\ UNCHANGED files

MayStop(p) == phase[p] = "delete" /\ ~GcInterrupted => \A i \in plan[p].paths : files[i] # "torn"

Kill(p) ==
  /\ phase[p] \notin {"start", "done"}
  /\ MayStop(p)
  /\ Ended(p)
  /\ UNCHANGED files
-----------------------------------------------------------------------------
(* Registry sources. *)

Mark(p, items) == deferred' = [deferred EXCEPT ![p] = @ \union items]
Proceed(p, step, i) == hand' = [hand EXCEPT ![p] = <<step, i>>]
Write(i, content) == files' = [files EXCEPT ![i] = content]
AtHand(p, step, t) == hand[p][1] = step /\ TableOf(hand[p][2]) = t
Done(p, i) ==
  /\ todo' = [todo EXCEPT ![p] = @ \ {i}]
  /\ hand' = [hand EXCEPT ![p] = EmptyHand]

\* download::download: a .crate file that is not empty is taken for downloaded.
CrateThere(p, c) ==
  /\ phase[p] = "download" /\ hand[p] = EmptyHand /\ Crate(c) \in todo[p]
  /\ files[Crate(c)] \notin {"absent", "empty"}
  /\ Mark(p, {Index, Crate(c)})
  /\ Proceed(p, "unpack", Crate(c))
  /\ UNCHANGED <<now, home, phase, started, todo, plan, recorded, forced>>

\* download::finish_download, with data whose checksum is right: the file is opened,
\* created if need be, and written in place.
CrateOpen(p, c) ==
  /\ phase[p] = "download" /\ hand[p] = EmptyHand /\ Crate(c) \in todo[p]
  /\ files[Crate(c)] \in {"absent", "empty"}
  /\ Mark(p, {Index, Crate(c)})
  /\ Write(Crate(c), "empty")
  /\ Proceed(p, "write", Crate(c))
  /\ UNCHANGED <<now, row, last_auto_gc, phase, started, todo, plan, recorded, forced>>

CrateWrite(p) ==
  /\ AtHand(p, "write", "crate")
  /\ LET i == hand[p][2] IN
       IF files[i] = "empty" THEN Write(i, "partial") /\ UNCHANGED hand
                            ELSE Write(i, "ready") /\ Proceed(p, "unpack", i)
  /\ UNCHANGED <<now, row, last_auto_gc, phase, started, deferred, todo, plan, recorded, forced>>

\* get_package: the retries are exhausted, or the checksum is wrong.
DownloadFails(p) ==
  /\ phase[p] = "download" /\ hand[p] = EmptyHand
  /\ \E c \in Package : Crate(c) \in todo[p] /\ files[Crate(c)] \in {"absent", "empty"}
  /\ Ended(p) /\ UNCHANGED files

\* unpack_package, when .cargo-ok says that the source is there.
Unpacked(p) ==
  /\ AtHand(p, "unpack", "crate")
  /\ LET i == hand[p][2] IN
       /\ files[Src(i[2])] \in {"ready", "torn"}
       /\ Mark(p, {Index, Src(i[2])})
       /\ Done(p, i)
  /\ UNCHANGED <<now, home, phase, started, plan, recorded, forced>>

\* unpack_package, otherwise: a directory with another .cargo-ok is removed first;
\* the tarball is unpacked over what is there.
Unpack(p) ==
  /\ AtHand(p, "unpack", "crate")
  /\ LET i == hand[p][2] IN
       /\ files[Src(i[2])] \notin {"ready", "torn"}
       /\ Write(Src(i[2]), "partial")
       /\ Proceed(p, "mark", Src(i[2]))
  /\ UNCHANGED <<now, row, last_auto_gc, phase, started, deferred, todo, plan, recorded, forced>>

\* The tarball is truncated, and unpack returns the error.
UnpackFails(p) ==
  /\ AtHand(p, "mark", "src")
  /\ files[hand[p][2]] = "partial"
  /\ files[Crate(hand[p][2][2])] # "ready"
  /\ Ended(p) /\ UNCHANGED files

\* .cargo-ok is created, then written.
MarkUnpacked(p) ==
  /\ AtHand(p, "mark", "src")
  /\ LET i == hand[p][2] IN
       IF files[i] = "partial"
       THEN files[Crate(i[2])] = "ready" /\ Write(i, "unmarked") /\ UNCHANGED <<hand, todo, deferred>>
       ELSE Write(i, "ready") /\ Mark(p, {Index, i}) /\ Done(p, Crate(i[2]))
  /\ UNCHANGED <<now, row, last_auto_gc, phase, started, plan, recorded, forced>>
-----------------------------------------------------------------------------
(* Git sources. *)

\* fetch_db and GitRemote::checkout: a database without the revision is fetched into;
\* the first time, it is created.
FetchDb(p, r) ==
  /\ phase[p] = "resolve" /\ hand[p] = EmptyHand /\ Co(r) \in todo[p]
  /\ files[Db] # "ready"
  /\ Write(Db, IF files[Db] = "absent" THEN "partial" ELSE "ready")
  /\ UNCHANGED <<now, row, last_auto_gc, phase, started, deferred, todo, hand, plan, recorded, forced>>

FetchDbFails(p) ==
  /\ phase[p] = "resolve" /\ hand[p] = EmptyHand /\ todo[p] # {}
  /\ files[Db] # "ready"
  /\ Ended(p) /\ UNCHANGED files

\* copy_to, when the checkout is fresh; in the download phase GitSource::download,
\* which only marks it.
CheckoutThere(p, r) ==
  /\ hand[p] = EmptyHand /\ Co(r) \in todo[p]
  /\ phase[p] = "resolve" => files[Db] = "ready" /\ files[Co(r)] \in {"ready", "torn"}
  /\ Mark(p, {Db, Co(r)})
  /\ Done(p, Co(r))
  /\ UNCHANGED <<now, home, phase, started, plan, recorded, forced>>

\* clone_into: what is there is removed, the database is cloned.
CloneInto(p, r) ==
  /\ phase[p] = "resolve" /\ hand[p] = EmptyHand /\ Co(r) \in todo[p]
  /\ files[Db] = "ready" /\ files[Co(r)] \notin {"ready", "torn"}
  /\ Write(Co(r), "partial")
  /\ Proceed(p, "reset", Co(r))
  /\ UNCHANGED <<now, row, last_auto_gc, phase, started, deferred, todo, plan, recorded, forced>>

\* reset, update_submodules and mark_ok; then mark_used.
CheckoutReady(p) ==
  /\ AtHand(p, "reset", "co")
  /\ LET i == hand[p][2] IN Write(i, "ready") /\ Mark(p, {Db, i}) /\ Done(p, i)
  /\ UNCHANGED <<now, row, last_auto_gc, phase, started, plan, recorded, forced>>
-----------------------------------------------------------------------------
(* Collection: GlobalCacheTracker::clean_inner. *)

OnDisk(i) == files[i] # "absent"
Rows(pl, t) == {i \in Item \ pl.gone : TableOf(i) \in t /\ pl.rows[i] # Unset}

\* sync_db_with_files: directories without a row get one; rows without a file go;
\* a parent that is gone takes its rows along, and what is left below it is deleted;
\* files of a known parent get a row.
SyncDbWithFiles(r) ==
  LET gone == {i \in {Index, Db} : r[i] # Unset /\ ~OnDisk(i)}
      parents == {i \in {Index, Db} : OnDisk(i)}
      known == parents \union UNION {Children(i) : i \in parents}
  IN [paths |-> {i \in UNION {Children(g) : g \in gone} : OnDisk(i)},
      gone |-> {},
      rows |-> [i \in Item |->
        IF i \notin known \/ ~OnDisk(i) THEN Unset ELSE IF r[i] = Unset THEN now ELSE r[i]]]

\* Mutant: an index is deleted without what belongs to it.
OldIndexOnly(pl, t, age) == {i \in Rows(pl, {t}) : age # Unset /\ pl.rows[i] < now - age}

\* The get_*_to_clean of an age: a parent takes its children along.
Old(pl, t, age) ==
  LET old == {i \in Rows(pl, {t}) : age # Unset /\ pl.rows[i] < now - age}
  IN old \union UNION {Children(i) : i \in old}

\* The get_*_to_clean of a size: the least recently used go until the rest fits.
\* Every item has size 1; among equals the name decides (foo is before foo.crate).
Excess(pl, t, size) ==
  LET rows == Rows(pl, t)
      r == pl.rows
      Before(i) == {j \in rows : \/ r[j] < r[i]
                                 \/ r[j] = r[i] /\ j[2] < i[2]
                                 \/ r[j] = r[i] /\ j[2] = i[2] /\ TableOf(j) = "src" /\ TableOf(i) = "crate"}
      oldest == {i \in rows : size # Unset /\ Cardinality(Before(i)) < Cardinality(rows) - size}
  IN oldest \union UNION {Children(i) : i \in oldest}

\* A step of clean_inner: rows are deleted, with those of their children (ON DELETE
\* CASCADE), and paths are added to those to delete.
After(pl, items) == [pl EXCEPT
  !.paths = @ \union items,
  !.gone = @ \union items \union UNION {Children(i) : i \in items}]

\* The steps of clean_inner, in order.
Cleaned(opts) ==
  LET s == SyncDbWithFiles(row)
      s1 == After(s, Old(s, "index", opts["index"]))
      s2 == After(s1, Old(s1, "src", opts["src"]))
      s3 == After(s2, Old(s2, "crate", opts["crate"]))
      s4 == After(s3, Old(s3, "db", opts["db"]))
      s5 == After(s4, Old(s4, "co", opts["co"]))
      s6 == After(s5, Excess(s5, {"crate"}, opts["crate_size"]))
      s7 == After(s6, Excess(s6, {"src"}, opts["src_size"]))
      s8 == After(s7, Excess(s7, {"db", "co"}, opts["git_size"]))
      s9 == After(s8, Excess(s8, {"crate", "src"}, opts["download_size"]))
  IN [paths |-> s9.paths,
      rows |-> [i \in Item |-> IF i \in s9.gone THEN Unset ELSE s.rows[i]]]

AutoOpts == [t \in Table \union SizeOpt |-> IF t \in Table THEN MaxAge[t] ELSE Unset]

\* auto_gc, after the downloads: it is left out when another cargo holds a lock.
AutoGc(p) ==
  /\ phase[p] = "fetched"
  /\ GoTo(p, IF CanLock(p, "MutateExclusive") THEN "gc" ELSE "collected")
  /\ UNCHANGED <<now, home, started, deferred, todo, hand, plan, recorded, forced>>

\* Gc::auto: too early, or disabled, or offline.
NotYet(p) ==
  /\ phase[p] = "gc" /\ Kind[p] = "build"
  /\ last_auto_gc + Frequency >= now
  /\ GoTo(p, "collected")
  /\ UNCHANGED <<now, home, started, deferred, todo, hand, plan, recorded, forced>>

Collect(p) ==
  /\ phase[p] = "gc" /\ Kind[p] = "build"
  /\ last_auto_gc + Frequency < now
  /\ plan' = [plan EXCEPT ![p] = Cleaned(AutoOpts)]
  /\ GoTo(p, "delete")
  /\ UNCHANGED <<now, home, started, deferred, todo, hand, recorded, forced>>

\* cargo clean gc.
CleanGc(p, opts) ==
  /\ phase[p] = "start" /\ Kind[p] = "clean"
  /\ CanLock(p, "MutateExclusive")
  /\ plan' = [plan EXCEPT ![p] = Cleaned(opts)]
  /\ forced' = TRUE
  /\ GoTo(p, "delete")
  /\ UNCHANGED <<now, home, started, deferred, todo, hand, recorded>>

\* remove_paths walks one path after the other and deletes its files one by one.
Delete(p, i) ==
  /\ phase[p] = "delete"
  /\ i \in plan[p].paths /\ OnDisk(i)
  /\ \A j \in plan[p].paths \ {i} : files[j] # "torn" \/ GcInterrupted
  /\ Write(i, IF files[i] = "ready" /\ TableOf(i) # "crate" THEN "torn" ELSE "absent")
  /\ UNCHANGED <<now, row, last_auto_gc, phase, started, deferred, todo, hand, plan, recorded, forced>>

\* All paths are gone: the transaction is committed.
Commit(p) ==
  /\ phase[p] = "delete"
  /\ \A i \in plan[p].paths : ~OnDisk(i)
  /\ row' = plan[p].rows
  /\ last_auto_gc' = IF Kind[p] = "build" THEN now ELSE last_auto_gc
  /\ plan' = [plan EXCEPT ![p] = NoPlan]
  /\ GoTo(p, IF Kind[p] = "build" THEN "collected" ELSE "done")
  /\ UNCHANGED <<now, files, started, deferred, todo, hand, recorded, forced>>

\* A path cannot be deleted: the transaction is rolled back, auto_gc only warns.
DeleteFails(p) ==
  /\ phase[p] = "delete" /\ MayStop(p)
  /\ \E i \in plan[p].paths : OnDisk(i)
  /\ plan' = [plan EXCEPT ![p] = NoPlan]
  /\ GoTo(p, IF Kind[p] = "build" THEN "collected" ELSE "done")
  /\ UNCHANGED <<now, home, started, deferred, todo, hand, recorded, forced>>

\* Commands take less time than the age of anything automatic collection deletes.
Tick ==
  /\ now < End
  /\ \A p \in Process, t \in Table :
       phase[p] \notin {"start", "done"} => now + 1 - started[p] <= MaxAge[t] - Resolution
  /\ now' = now + 1
  /\ UNCHANGED <<home, phase, started, deferred, todo, hand, plan, recorded, forced>>

Step(p) ==
  \/ Resolve(p) \/ Download(p) \/ Build(p) \/ Finish(p)
  \/ \E ok \in BOOLEAN : Save(p, ok)
  \/ \E c \in Package : CrateThere(p, c) \/ CrateOpen(p, c)
  \/ CrateWrite(p) \/ DownloadFails(p) \/ Unpacked(p) \/ Unpack(p) \/ UnpackFails(p) \/ MarkUnpacked(p)
  \/ \E r \in Rev : FetchDb(p, r) \/ CheckoutThere(p, r) \/ CloneInto(p, r)
  \/ FetchDbFails(p) \/ CheckoutReady(p)
  \/ AutoGc(p) \/ NotYet(p) \/ Collect(p)
  \/ \E opts \in CleanOpts : CleanGc(p, opts)
  \/ \E i \in Item : Delete(p, i)
  \/ Commit(p) \/ DeleteFails(p)

CHNext == Tick \/ \E p \in Process : Step(p) \/ Kill(p)

CHSpec == CHInit /\ [][CHNext]_chvars
-----------------------------------------------------------------------------
(* Properties. *)

\* What a build reads is complete and stays so, from the moment it was fetched, though
\* the cache is not locked between the downloads and the build, and whatever was killed
\* before: a .cargo-ok file stands for a source unpacked or checked out to the end, and
\* automatic collection deletes nothing that a running cargo has recorded as used.
UsedStaysComplete == \A p \in Process :
  /\ phase[p] \in {"fetched", "gc", "delete", "collected", "building"}
  /\ Kind[p] = "build" /\ p \in recorded /\ ~forced
  => \A i \in Used : files[i] = "ready"

\* What stays behind of a collection is known to the next one: when it commits, the
\* rows are those of the files on disk, below every parent that was known.
Known(i) == i \in {Index, Db} \/ row[Parent(i)] # Unset \/ OnDisk(Parent(i))

CollectedInSync == [][\A p \in Process : Commit(p) =>
  \A i \in Item : Known(i) => (row'[i] # Unset <=> OnDisk(i))]_chvars

=============================================================================
