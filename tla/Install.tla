------------------------------- MODULE Install -------------------------------
(***************************************************************************)
(* cargo install and cargo uninstall (ops/cargo_install.rs,                *)
(* ops/cargo_uninstall.rs): the executables in the bin directory of an     *)
(* installation root and the two listings that track them, .crates.toml    *)
(* and .crates2.json (ops/common_for_install_and_uninstall.rs).  Several   *)
(* cargos run, executables cannot be moved or removed, listings cannot be  *)
(* written, processes are killed.                                          *)
(***************************************************************************)
EXTENDS Integers, FiniteSets, Functions, FiniteSetsExt

CONSTANTS
  MaxConcurrent, MaxFaults, \* bounds: cargos running at a time; failures and kills
  Installer,    \* the cargo processes, numbered: they start in this order
  Crate,        \* package ids, as records: see CrateTyped
  Command,      \* what a process may be asked to do
  OldListing    \* listings to start from, written by a cargo without .crates2.json

ASSUME InstallersNumbered == Installer \subseteq Nat
ASSUME CrateTyped == \A c \in Crate : c.path \in BOOLEAN /\ c.bins \subseteq Nat /\ c.name \in STRING
ASSUME CommandTyped == \A c \in Command :
  /\ c.crate \in Crate /\ c.bins \subseteq c.crate.bins
  /\ c.op \in {"install", "uninstall"}
  /\ c.op = "install" => {c.force, c.no_track, c.dry_run} \subseteq BOOLEAN

VARIABLES
  dst,          \* [the executables there -> what they were built from]
  crates_toml,  \* the file: its text, and the crates in it with their executables
  crates2_json, \* the file: its text, and the crates in it with executables and options
  inst,         \* [Installer -> the state of the process]
  faults,       \* how many operations have failed, or processes been killed
  unlisted      \* history: [the executables that may not be as listed -> by whom, or Nobody]

ivars == <<dst, crates_toml, crates2_json, inst, faults, unlisted>>

Listing(map) == [text |-> "valid", map |-> map]
Empty == [text |-> "valid", map |-> <<>>]
Garbled == [text |-> "garbled", map |-> <<>>]

\* InstallInfo::from_v1: no features, and any target.
DefaultOpts == 0

NotStarted == [pc |-> "start"]
InstAt(p, pc) == inst[p].pc = pc
Ended(p) == inst' = [inst EXCEPT ![p] = [pc |-> "done"]]
Fault == faults < MaxFaults /\ faults' = faults + 1
InstTurn(p) == /\ \A q \in Installer : q < p => ~InstAt(q, "start")
           /\ Cardinality({q \in Installer : inst[q].pc \notin {"start", "done"}}) < MaxConcurrent

IInit ==
  /\ \E old \in OldListing :
       /\ crates_toml = Listing(old)
       /\ dst = [b \in UNION Range(old) |->
                   [crate |-> CHOOSE c \in DOMAIN old : b \in old[c], opts |-> DefaultOpts]]
  /\ crates2_json = Empty
  /\ inst = [p \in Installer |-> NotStarted]
  /\ unlisted = <<>> /\ faults = 0

\* The history: p changes executables, which it lists when it has written both listings;
\* executables whose options the listings have wrong are nobody's.
Nobody == <<>>
With(bins, who) == [b \in DOMAIN unlisted \union bins |-> IF b \in bins THEN who ELSE unlisted[b]]
Changed(p, bins) == unlisted' = With(bins, <<p>>)
NowListed(p, mixed) ==
  unlisted' = [b \in {e \in DOMAIN unlisted : unlisted[e] # <<p>>} \union mixed |-> With(mixed, Nobody)[b]]
OptionsLost == unlisted' = With({b \in DOMAIN dst : dst[b].opts # DefaultOpts}, Nobody)
-----------------------------------------------------------------------------
(* InstallTracker. *)

\* Mutant: the second listing keeps its own executables.
SyncV1AddsOnly(v2, v1) == [c \in DOMAIN v1 |->
  IF c \in DOMAIN v2 THEN v2[c] ELSE [bins |-> v1[c], opts |-> DefaultOpts]]

\* sync_v1: the first listing decides which crates and executables there are.
SyncV1(v2, v1) == [c \in DOMAIN v1 |->
  [bins |-> v1[c], opts |-> IF c \in DOMAIN v2 THEN v2[c].opts ELSE DefaultOpts]]

\* InstallTracker::load, when both files can be parsed.
Readable == crates_toml.text = "valid" /\ crates2_json.text = "valid"
TrackerLoaded == [v1 |-> crates_toml.map, v2 |-> SyncV1(crates2_json.map, crates_toml.map)]

\* The locks on both files, held from load to the end of the command.
Unlocked == \A p \in Installer : inst[p].pc \notin {"move", "replace", "mark", "save", "save2", "remove"}

\* find_duplicates: the executables in the way, with the crates they belong to.
Owners(v2, b) == {c \in DOMAIN v2 : b \in v2[c].bins}
InTheWay(cmd) == cmd.bins \intersect DOMAIN dst

\* check_upgrade says Fresh: all that is in the way is this version, with the same
\* options and exactly these executables.
IsUpToDate(cmd, v2) ==
  /\ ~cmd.force /\ ~cmd.crate.path /\ InTheWay(cmd) # {}
  /\ \A b \in InTheWay(cmd) : \E c \in Owners(v2, b) :
       c = cmd.crate /\ v2[c] = [bins |-> cmd.bins, opts |-> cmd.opts]

\* check_upgrade bails: something belongs to another crate, or to nobody known.
Refused(cmd, v2) ==
  /\ ~cmd.force
  /\ \E b \in InTheWay(cmd) : \A c \in Owners(v2, b) : c.name # cmd.crate.name

\* mark_installed, on one listing: executables change hands, and crates that have
\* none left go.
Without(bins, lost) == [c \in {d \in DOMAIN bins : bins[d] \ lost # {}} |-> bins[c] \ lost]
MarkInstalled(v1, crate, done) ==
  LET rest == Without(v1, done)
  IN  [c \in DOMAIN rest \union {crate} |->
         (IF c \in DOMAIN rest THEN rest[c] ELSE {}) \union (IF c = crate THEN done ELSE {})]

BinsOf(v2) == [c \in DOMAIN v2 |-> v2[c].bins]

\* Mutant: the entry of a crate that is listed already keeps its options.
MarkInstalled2KeepsOptions(v2, crate, done, opts) ==
  LET bins == MarkInstalled(BinsOf(v2), crate, done)
  IN  [c \in DOMAIN bins |-> [bins |-> bins[c], opts |-> IF c \notin DOMAIN v2 THEN opts ELSE v2[c].opts]]

MarkInstalled2(v2, crate, done, opts) ==
  LET bins == MarkInstalled(BinsOf(v2), crate, done)
  IN  [c \in DOMAIN bins |-> [bins |-> bins[c], opts |-> IF c = crate THEN opts ELSE v2[c].opts]]

\* remove and remove_bin: a crate that loses its last executable goes.
Removed(v1, crates, lost) ==
  [c \in {d \in DOMAIN v1 : d \in crates => v1[d] \ lost # {}} |-> v1[c] \ (IF c \in crates THEN lost ELSE {})]
Removed2(v2, crates, lost) ==
  LET bins == Removed(BinsOf(v2), crates, lost) IN [c \in DOMAIN bins |-> [v2[c] EXCEPT !.bins = bins[c]]]
-----------------------------------------------------------------------------
(* cargo install. *)

\* InstallablePackage::new: nothing is built when the crate is installed already.
New(p, cmd) ==
  /\ InstAt(p, "start") /\ cmd.op = "install"
  /\ InstTurn(p)
  /\ cmd.no_track \/ Unlocked
  /\ IF IF cmd.no_track THEN ~cmd.force /\ InTheWay(cmd) # {}
                        ELSE ~Readable \/ IsUpToDate(cmd, TrackerLoaded.v2) \/ Refused(cmd, TrackerLoaded.v2)
     THEN Ended(p)
     ELSE inst' = [inst EXCEPT ![p] = [pc |-> "compile", cmd |-> cmd]]
  /\ UNCHANGED <<faults, dst, crates_toml, crates2_json, unlisted>>

\* install_one after compilation: the listings are read again, and what is in the way
\* is found anew.
InstallOne(p) ==
  /\ InstAt(p, "compile")
  /\ LET cmd == inst[p].cmd IN
     /\ cmd.no_track \/ Unlocked
     /\ IF IF cmd.no_track THEN ~cmd.force /\ InTheWay(cmd) # {} ELSE ~Readable \/ Refused(cmd, TrackerLoaded.v2)
        THEN Ended(p)
        ELSE inst' = [inst EXCEPT ![p] =
               [pc |-> IF cmd.dry_run THEN "mark" ELSE "move", cmd |-> cmd,
                tracker |-> IF cmd.no_track THEN [v1 |-> <<>>, v2 |-> <<>>] ELSE TrackerLoaded,
                in_the_way |-> InTheWay(cmd), moved |-> {}, done |-> {}, mixed |-> {}, failed |-> FALSE]]
  /\ UNCHANGED <<faults, dst, crates_toml, crates2_json, unlisted>>

ToInstall(r) == r.cmd.bins \ (r.in_the_way \union r.done)
ToReplace(r) == r.in_the_way \ r.done
Built(cmd) == [crate |-> cmd.crate, opts |-> cmd.opts]
Put(b, x) == [e \in DOMAIN dst \union {b} |-> IF e = b THEN x ELSE dst[e]]
Drop(lost) == [e \in DOMAIN dst \ lost |-> dst[e]]

\* New executables are moved into place first, in the order of their names.
Move(p) ==
  /\ InstAt(p, "move")
  /\ LET r == inst[p] IN
     IF ToInstall(r) = {}
     THEN inst' = [inst EXCEPT ![p].pc = "replace"] /\ UNCHANGED <<dst, unlisted>>
     ELSE LET b == Min(ToInstall(r)) IN
          /\ dst' = Put(b, Built(r.cmd)) /\ Changed(p, {b})
          /\ inst' = [inst EXCEPT ![p].done = @ \union {b}, ![p].moved = @ \union {b}]
  /\ UNCHANGED <<faults, crates_toml, crates2_json>>

\* Transaction::drop takes back what was moved.
MoveFails(p) ==
  /\ InstAt(p, "move") /\ ToInstall(inst[p]) # {}
  /\ dst' = Drop(inst[p].moved) /\ Changed(p, inst[p].moved)
  /\ Ended(p)
  /\ Fault
  /\ UNCHANGED <<crates_toml, crates2_json>>

Replace(p) ==
  /\ InstAt(p, "replace")
  /\ LET r == inst[p] IN
     IF ToReplace(r) = {}
     THEN inst' = [inst EXCEPT ![p].pc = "mark"] /\ UNCHANGED <<dst, unlisted>>
     ELSE LET b == Min(ToReplace(r)) IN
          /\ dst' = Put(b, Built(r.cmd)) /\ Changed(p, {b})
          /\ inst' = [inst EXCEPT ![p].done = @ \union {b}]
  /\ UNCHANGED <<faults, crates_toml, crates2_json>>

\* The error is kept until the listings are written.
ReplaceFails(p) ==
  /\ InstAt(p, "replace") /\ ToReplace(inst[p]) # {}
  /\ inst' = [inst EXCEPT ![p].pc = "mark", ![p].failed = TRUE]
  /\ Fault
  /\ UNCHANGED <<dst, crates_toml, crates2_json, unlisted>>

\* --no-track: nothing is listed, and the error of a replacement is not reported.
MarkNothing(p) ==
  /\ InstAt(p, "mark") /\ inst[p].cmd.no_track
  /\ Ended(p)
  /\ UNCHANGED <<faults, dst, crates_toml, crates2_json, unlisted>>

\* remove_orphaned_bins: of the crates of the same name that were in the way, what
\* this version does not have.
Orphans(r, v1) ==
  LET stomped == {c \in DOMAIN v1 : /\ c.name = r.cmd.crate.name
                                    /\ \E b \in r.in_the_way : c \in Owners(r.tracker.v2, b)}
  IN  [c \in {d \in stomped : v1[d] \ r.cmd.crate.bins # {}} |-> v1[c] \ r.cmd.crate.bins]

\* It goes through the crates in any order, and stops at the first file that stays.
OrphanSteps(orphans) ==
  {[crates |-> DOMAIN orphans, stay |-> {}]} \union
  UNION {{[crates |-> cs \union {c}, stay |-> {b \in orphans[c] : b >= first}] :
            cs \in SUBSET DOMAIN orphans, first \in orphans[c] \intersect DOMAIN dst} : c \in DOMAIN orphans}

\* Executables that other options built stay listed under the new ones.
Mixed(r) == LET v2 == r.tracker.v2 c == r.cmd.crate IN
  IF c \in DOMAIN v2 /\ v2[c].opts # r.cmd.opts THEN v2[c].bins \ r.done ELSE {}

\* mark_installed and remove_orphaned_bins, which only warns of a file that stays.
Mark(p) ==
  /\ InstAt(p, "mark") /\ ~inst[p].cmd.no_track
  /\ LET r == inst[p]
         v1 == MarkInstalled(r.tracker.v1, r.cmd.crate, r.done)
         v2 == MarkInstalled2(r.tracker.v2, r.cmd.crate, r.done, r.cmd.opts)
         orphans == Orphans(r, v1)
     IN /\ \E step \in OrphanSteps(orphans) :
             LET lost == UNION {orphans[c] : c \in step.crates}
                 dropped == IF r.cmd.dry_run THEN {} ELSE lost \ step.stay
             IN /\ IF step.stay = {} THEN UNCHANGED faults ELSE ~r.cmd.dry_run /\ Fault
                /\ dst' = Drop(dropped) /\ Changed(p, dropped)
                /\ inst' = [inst EXCEPT ![p].pc = "save", ![p].mixed = Mixed(r), ![p].tracker =
                     [v1 |-> Removed(v1, step.crates, lost), v2 |-> Removed2(v2, step.crates, lost)]]
  /\ UNCHANGED <<crates_toml, crates2_json>>

\* save: each file is truncated and written.
Save(p) ==
  /\ InstAt(p, "save")
  /\ crates_toml' = Listing(inst[p].tracker.v1)
  /\ inst' = [inst EXCEPT ![p].pc = "save2"]
  /\ UNCHANGED <<faults, dst, crates2_json, unlisted>>

Save2(p) ==
  /\ InstAt(p, "save2")
  /\ crates2_json' = Listing(inst[p].tracker.v2)
  /\ NowListed(p, inst[p].mixed)
  /\ inst' = [inst EXCEPT ![p].pc = IF inst[p].cmd.op = "install" THEN "end" ELSE "remove"]
  /\ UNCHANGED <<faults, dst, crates_toml>>

\* A file is truncated and cannot be written, or in part.  install_one then attaches
\* the error to that of the replacement, if there is one; uninstall returns it.
SaveFails(p, left) ==
  /\ \/ InstAt(p, "save") /\ crates_toml' = left /\ UNCHANGED <<crates2_json, unlisted>>
     \/ InstAt(p, "save2") /\ crates2_json' = left /\ OptionsLost /\ UNCHANGED crates_toml
  /\ inst' = [inst EXCEPT ![p].pc = IF inst[p].cmd.op = "install" THEN "end" ELSE "done"]
  /\ Fault
  /\ UNCHANGED dst

\* The end of install_one: after a failed replacement the transaction takes back what
\* was moved, also what has been listed.
InstallEnds(p) ==
  /\ InstAt(p, "end")
  /\ LET lost == IF inst[p].failed THEN inst[p].moved ELSE {}
     IN  dst' = Drop(lost) /\ Changed(p, lost)
  /\ Ended(p)
  /\ UNCHANGED <<faults, crates_toml, crates2_json>>
-----------------------------------------------------------------------------
(* cargo uninstall. *)

\* uninstall_pkgid: the executables to remove, all of them or those named.
Uninstall(p, cmd) ==
  /\ InstAt(p, "start") /\ cmd.op = "uninstall"
  /\ InstTurn(p)
  /\ Unlocked
  /\ IF /\ Readable
        /\ cmd.crate \in DOMAIN TrackerLoaded.v1
        /\ TrackerLoaded.v1[cmd.crate] \subseteq DOMAIN dst
        /\ cmd.bins \subseteq TrackerLoaded.v1[cmd.crate]
     THEN inst' = [inst EXCEPT ![p] = [pc |-> "remove", cmd |-> cmd, tracker |-> TrackerLoaded,
            mixed |-> {}, left |-> IF cmd.bins = {} THEN TrackerLoaded.v1[cmd.crate] ELSE cmd.bins]]
     ELSE Ended(p)
  /\ UNCHANGED <<faults, dst, crates_toml, crates2_json, unlisted>>

\* remove_bin_then_save; the file may refuse to go.
RemoveBins(p) ==
  /\ InstAt(p, "remove")
  /\ LET r == inst[p] IN
     \/ r.left = {} /\ Ended(p) /\ UNCHANGED <<dst, faults, unlisted>>
     \/ r.left # {} /\ Ended(p) /\ Fault /\ UNCHANGED <<dst, unlisted>>
     \/ /\ r.left # {} /\ UNCHANGED faults
        /\ dst' = Drop({Min(r.left)}) /\ Changed(p, {Min(r.left)})
        /\ inst' = [inst EXCEPT ![p].pc = "save", ![p].left = @ \ {Min(r.left)},
             ![p].tracker = [v1 |-> Removed(r.tracker.v1, {r.cmd.crate}, {Min(r.left)}),
                             v2 |-> Removed2(r.tracker.v2, {r.cmd.crate}, {Min(r.left)})]]
  /\ UNCHANGED <<crates_toml, crates2_json>>
-----------------------------------------------------------------------------
\* A process is killed, at worst while it writes a listing.
IKill(p) ==
  /\ inst[p].pc \notin {"start", "compile", "done"}
  /\ crates_toml' \in {crates_toml} \union (IF InstAt(p, "save") THEN {Empty, Garbled} ELSE {})
  /\ \/ UNCHANGED <<crates2_json, unlisted>>
     \/ InstAt(p, "save2") /\ crates2_json' \in {Empty, Garbled} /\ OptionsLost
  /\ Ended(p)
  /\ Fault
  /\ UNCHANGED dst

INext == \E p \in Installer :
  \/ \E cmd \in Command : New(p, cmd) \/ Uninstall(p, cmd)
  \/ InstallOne(p) \/ Move(p) \/ MoveFails(p) \/ Replace(p) \/ ReplaceFails(p)
  \/ MarkNothing(p) \/ Mark(p)
  \/ Save(p) \/ Save2(p) \/ InstallEnds(p) \/ RemoveBins(p) \/ IKill(p)
  \/ \E left \in {Empty, Garbled} : SaveFails(p, left)

ISpec == IInit /\ [][INext]_ivars
-----------------------------------------------------------------------------
(* Properties. *)

BinsListed == UNION Range(crates_toml.map)

\* "corrupt metadata, `{}` does not exist when it should", uninstall_pkgid: whatever fails
\* and whoever is killed, an executable that is listed is there, unless the cargo that
\* changed it last did not get to list it.
TrackedBinsExist == Unlocked => BinsListed \ DOMAIN unlisted \subseteq DOMAIN dst

\* Whatever fails and whoever is killed, also between the two files: an executable
\* belongs to one crate, and the listings in memory name the same crates and
\* executables, which remove and remove_bin would panic about; what is listed is there.
ListingsConsistent ==
  /\ \A c, d \in DOMAIN crates_toml.map :
       c # d => crates_toml.map[c] \intersect crates_toml.map[d] = {}
  /\ \A p \in Installer : InstAt(p, "save") => inst[p].tracker.v1 = BinsOf(inst[p].tracker.v2)
  /\ TrackedBinsExist

Current(cmd, b) == b \in DOMAIN dst /\ dst[b] = Built(cmd)
SaidFresh(cmd) ==
  cmd.op = "install" /\ ~cmd.no_track /\ Unlocked /\ Readable /\ IsUpToDate(cmd, TrackerLoaded.v2)

\* "Fresh" is the truth, also after failures and kills: when a crate would be ignored as
\* installed, its executables were built from it with these options, but for those that
\* the cargo that changed them last did not get to list (--no-track, killed, or a listing
\* not written), those that a failed replacement took back, and those whose options the
\* listings have wrong: all when .crates2.json was lost, and those an install with other
\* options of some of a crate's executables left alone (mark_installed).
IgnoredIsCurrent ==
  \A cmd \in Command : SaidFresh(cmd) => \A b \in cmd.bins \ DOMAIN unlisted : Current(cmd, b)

\* "If any of the following values change, then Cargo will reinstall the package: [...] The
\* chosen features.  The profile.  The target." (cargo-install.md): when nothing failed, an
\* executable that was built with other options is not ignored.
ReinstalledWhenChanged ==
  faults = 0 => \A cmd \in Command : SaidFresh(cmd) => \A b \in cmd.bins : Current(cmd, b)
=============================================================================
