------------------------------ MODULE Resolver ------------------------------
(***************************************************************************)
(* Dependency resolution (resolver/mod.rs): the activation loop with its   *)
(* backtracking, the cache of past conflicts (conflict_cache.rs), the      *)
(* context of what is activated (context.rs), the queue of dependencies    *)
(* left (types.rs), the features of a package (dep_cache.rs) and the       *)
(* candidates of a dependency in their order of preference                 *)
(* (version_prefs.rs).  A registry may answer later: a dependency without  *)
(* an answer is left out, and the loop starts again when the answers are   *)
(* there (util/local_poll_adapter.rs).                                     *)
(*                                                                         *)
(* A package id is a number, by which ids are ordered.  A summary has a    *)
(* name, a version, a compat class (SemverCompatibility), a source, a      *)
(* links value (or NoLinks), dependencies and a table of features.         *)
(***************************************************************************)
EXTENDS Integers, FiniteSets, SequencesExt

CONSTANT Worlds   \* the inputs of resolve that are checked

None == 0
NoLinks == "-"

VARIABLES
  world,      \* the input
  arrived,    \* names whose index data is loaded
  pending,    \* names being loaded: LocalPollAdapter::pool
  memo,       \* RegistryQueryer::summary_cache, of the summaries built without an answer
  cx,         \* ResolverContext
  stack,      \* backtrack_stack
  remaining,  \* remaining_deps
  cache,      \* past_conflicting_activations: a dependency and what it conflicts with
  cur,        \* the locals of the loop: the dependency being activated
  loop_at,    \* where the loop is
  resolved

rvars == <<world, arrived, pending, memo, cx, stack, remaining, cache, cur, loop_at, resolved>>

Id == DOMAIN world.pkgs
Pkg(i) == world.pkgs[i]
Key(i) == <<Pkg(i).name, Pkg(i).compat, Pkg(i).source>>
-----------------------------------------------------------------------------
(* Queries. *)

ShouldPrefer(i) == i \in world.prefer

\* RegistryQueryerAsync::query: yanked and too new versions are left out unless they
\* are preferred, and what was published after the publish time always.
Offered(i) ==
  /\ Pkg(i).state \in {"yanked", "too_new"} => ShouldPrefer(i)
  /\ Pkg(i).state # "unpublished"

\* sort_summaries.
Before(first, i, j) ==
  IF ShouldPrefer(i) # ShouldPrefer(j) THEN ShouldPrefer(i)
  ELSE IF Pkg(i).msrv # Pkg(j).msrv THEN Pkg(i).msrv > Pkg(j).msrv
  ELSE IF first \/ world.minimal THEN Pkg(i).version < Pkg(j).version
  ELSE Pkg(i).version > Pkg(j).version

Matches(dep, i) ==
  /\ Pkg(i).name = dep.name /\ Pkg(i).version \in dep.req
  /\ Pkg(i).source \in {dep.source, "patch"}

\* With first_version only the first one is left.
Candidates(dep, first) ==
  LET sorted == SetToSortSeq({i \in Id : Matches(dep, i) /\ Offered(i)},
                             LAMBDA i, j : Before(first, i, j))
  IN IF first /\ sorted # <<>> THEN <<sorted[1]>> ELSE sorted

\* LocalPollAdapter::poll.
Poll(dep) ==
  IF world.answers[dep.name] = "now" THEN "ready"
  ELSE IF dep.name \notin arrived THEN "pending"
  ELSE IF world.answers[dep.name] = "error" THEN "error" ELSE "ready"
-----------------------------------------------------------------------------
(* Features: Requirements and resolve_features. *)

IsOptional(s, toml) == \E n \in DOMAIN s.deps : s.deps[n].toml = toml /\ s.deps[n].optional

\* The features a value of the table requires: "feat", or "dep/feat" where dep is
\* optional and a feature.
Requires(s, v) ==
  IF v.kind = "feat" THEN {v.feat}
  ELSE IF v.kind = "dep/feat" /\ ~v.weak /\ IsOptional(s, v.dep) THEN {v.dep} \intersect DOMAIN s.features
  ELSE {}

\* require_feature of each.
RequireFeatures(s, feats) ==
  LET grow[n \in Nat] ==
        IF n = 0 THEN feats
        ELSE grow[n - 1] \union
             UNION {UNION {Requires(s, v) : v \in s.features[f]} : f \in grow[n - 1] \intersect DOMAIN s.features}
  IN grow[Cardinality(DOMAIN s.features)]

RequestedFeatures(s, opts) ==
  IF opts.all THEN DOMAIN s.features \union opts.features
  ELSE opts.features \union (IF opts.default THEN {"default"} \intersect DOMAIN s.features ELSE {})

\* resolve_features: the features used, and the dependencies with the features each is
\* asked for; an error is a conflict with the parent, and fatal without one.
Asked(values, toml) == {v \in values : v.kind # "feat" /\ v.dep = toml}

WithFeatures(values, dep) ==
  [dep |-> dep,
   features |-> dep.features \union {v.feat : v \in {w \in Asked(values, dep.toml) : w.kind = "dep/feat"}}]

WantedDeps(s, values, dev) ==
  LET wanted(dep) == (dep.dev => dev) /\ (dep.optional => Asked(values, dep.toml) # {})
      annotated(dep) == WithFeatures(values, dep)
  IN FoldLeft(LAMBDA acc, dep : Append(acc, annotated(dep)), <<>>, SelectSeq(s.deps, wanted))

FeaturesOf(s, used, known, dev) ==
  [used |-> used,
   cyclic |-> \E f \in known : \E v \in s.features[f] : v.kind = "feat" /\ v.feat = f,
   missing |-> used # known,
   deps |-> WantedDeps(s, UNION {s.features[f] : f \in known}, dev)]

ResolveFeatures(s, used, dev) == FeaturesOf(s, used, used \intersect DOMAIN s.features, dev)

\* build_deps: the dependencies that have their answer, those with few candidates
\* first; a summary built before is taken from the cache.
ByCandidates(deps) ==
  LET order == SetToSortSeq(DOMAIN deps, LAMBDA n, k :
        Len(deps[n].cands) < Len(deps[k].cands) \/ (Len(deps[n].cands) = Len(deps[k].cands) /\ n < k))
  IN [n \in DOMAIN deps |-> deps[order[n]]]

Built(rf, first) ==
  LET ready(d) == Poll(d.dep) = "ready"
      queried(acc, d) == Append(acc,
        [dep |-> d.dep, features |-> d.features, cands |-> Candidates(d.dep, first)])
  IN [used |-> rf.used,
      kind |-> IF rf.cyclic THEN "fatal" ELSE IF rf.missing THEN "conflict"
               ELSE IF \E d \in ToSet(rf.deps) : Poll(d.dep) = "error" THEN "fatal" ELSE "ok",
      waits |-> {d.dep.name : d \in {e \in ToSet(rf.deps) : Poll(e.dep) = "pending"}},
      deps |-> ByCandidates(FoldLeft(queried, <<>>, SelectSeq(rf.deps, ready)))]

BuildDeps(i, opts, first) ==
  IF \E m \in memo : m.id = i /\ m.opts = opts
  THEN [(CHOOSE m \in memo : m.id = i /\ m.opts = opts).out EXCEPT !.waits = {}]
  ELSE Built(ResolveFeatures(Pkg(i), RequireFeatures(Pkg(i), RequestedFeatures(Pkg(i), opts)), opts.dev), first)
-----------------------------------------------------------------------------
(* ResolverContext. *)

EmptyContext == [age |-> 0, activations |-> <<>>, features |-> [i \in Id |-> {}],
                 links |-> <<>>, parents |-> {}]

Put(f, k, v) == [x \in DOMAIN f \union {k} |-> IF x = k THEN v ELSE f[x]]

\* is_active: the age at which i was activated.
IsActive(c, i) == Key(i) \in DOMAIN c.activations /\ c.activations[Key(i)].id = i
AgeOf(c, i) == c.activations[Key(i)].age

\* is_conflicting.
IsConflicting(c, ids) == \A i \in ids : IsActive(c, i)
MaxAge(c, ids) == Max({0} \union {AgeOf(c, i) : i \in ids})

\* flag_activated, with the dependency that asked for i, if any: the first time, i is
\* entered, and if it is a patch also under the source of that dependency.
EnterPatch(c, patched, entry, prev) ==
  [kind |-> IF prev = {} THEN "new" ELSE "conflict", with |-> Max({None} \union prev),
   cx |-> [c EXCEPT !.activations = [k \in DOMAIN @ \union patched |-> IF k \in patched THEN entry ELSE @[k]]]]

Enter(c, patched, entry) ==
  EnterPatch(c, patched, entry, {c.activations[k].id : k \in patched \intersect DOMAIN c.activations})

FlagActivated(c, i, opts, deps) ==
  LET s == Pkg(i) IN
  IF Key(i) \notin DOMAIN c.activations
  THEN IF s.links \in DOMAIN c.links THEN [kind |-> "fatal", cx |-> c, with |-> None]
       ELSE Enter([c EXCEPT !.activations = Put(@, Key(i), [id |-> i, age |-> c.age]),
                            !.links = IF s.links = NoLinks THEN @ ELSE Put(@, s.links, i)],
                  {<<s.name, s.compat, d.source>> : d \in {e \in deps : e.source # s.source}},
                  [id |-> i, age |-> c.age])
  ELSE [kind |-> IF /\ ~opts.cli /\ opts.features \subseteq c.features[i]
                    /\ opts.default => "default" \in c.features[i] \/ "default" \notin DOMAIN s.features
                 THEN "activated" ELSE "new",
        cx |-> c, with |-> None]

\* activate, asked for by a parent's dependency, if any: i is entered, then what replaces
\* it, and the dependencies of the latter are built.
NoFrame(kind, with, c) ==
  [kind |-> kind, with |-> with, cx |-> c, parent |-> None, deps |-> <<>>, waits |-> {}, memo |-> {}]

Frame(c, r, opts, parent, b) ==
  IF b.kind = "ok"
  THEN [kind |-> "frame", with |-> None, cx |-> [c EXCEPT !.features[r] = @ \union b.used],
        parent |-> r, deps |-> b.deps, waits |-> b.waits,
        memo |-> IF b.waits = {} THEN {} ELSE {[id |-> r, opts |-> opts, out |-> b]}]
  ELSE IF b.kind = "conflict" /\ parent # None THEN NoFrame("conflict", parent, c)
  ELSE NoFrame("fatal", None, c)

ActivateFlagged(activated, flag, r, opts, parent, first) ==
  IF flag.kind \in {"fatal", "conflict"} THEN NoFrame(flag.kind, flag.with, flag.cx)
  ELSE IF activated /\ flag.kind = "activated" THEN NoFrame("none", None, flag.cx)
  ELSE Frame(flag.cx, r, opts, parent, BuildDeps(r, opts, first))

ActivateReplaced(own, i, opts, parent, first) ==
  IF own.kind \in {"fatal", "conflict"} \/ i \notin DOMAIN world.replace
  THEN ActivateFlagged(TRUE, own, i, opts, parent, first)
  ELSE ActivateFlagged(own.kind = "activated", FlagActivated(own.cx, world.replace[i], opts, {}),
                       world.replace[i], opts, parent, first)

Activate(c, parent, deps, i, first, opts) ==
  ActivateReplaced(
    FlagActivated([c EXCEPT !.age = @ + 1, !.parents = @ \union {<<i, parent, d>> : d \in deps}], i, opts, deps),
    i, opts, parent, first)
-----------------------------------------------------------------------------
(* ConflictCache: for each dependency, a trie of the sets of packages with which it has  *)
(* no candidate.                                                                       *)

Prefix(s, t) == s \subseteq t /\ \A i \in s, j \in t \ s : i < j

\* ConflictStoreTrie::insert: what has a prefix in the trie is not added, and what it is
\* a prefix of is dropped.
Insert(store, dep, con) ==
  IF \E e \in store : e.dep = dep /\ Prefix(e.con, con) THEN store
  ELSE {e \in store : ~(e.dep = dep /\ Prefix(con, e.con))} \union {[dep |-> dep, con |-> con]}

\* ConflictStoreTrie::find: of the active sets with all of must, younger than limit
\* but for must itself, the oldest, and the first of these.
Youngest(con, Age(_)) == Max({0} \union {Age(i) : i \in con})

Oldest(sets, must, Age(_)) ==
  {a \in sets : \A b \in sets \ {a} :
     \/ Youngest(a \ must, Age) < Youngest(b \ must, Age)
     \/ /\ Youngest(a \ must, Age) = Youngest(b \ must, Age)
        /\ Min((a \ b) \union (b \ a)) \in a}

Find(store, dep, Active(_), Age(_), must, limit) ==
  Oldest({con \in {e.con : e \in {d \in store : d.dep = dep}} :
            /\ must \subseteq con
            /\ \A i \in con : Active(i)
            /\ \A i \in con \ must : limit # None => Age(i) < limit}, must, Age)

\* find_conflicting.
FindConflicting(store, c, dep, must) ==
  Find(store, dep, LAMBDA i : IsActive(c, i), LAMBDA i : AgeOf(c, i), must, None)

\* is_path_from_to, up the parents.
Ancestors(c, i) ==
  LET up(ids) == ids \union {e[2] : e \in {f \in c.parents : f[1] \in ids}}
      reach[n \in Nat] == IF n = 0 THEN {e[2] : e \in {f \in c.parents : f[1] = i}} ELSE up(reach[n - 1])
  IN reach[Cardinality(Id)]

\* generalize_conflicting: if a parent of the youngest package in the conflict could take
\* none of its other candidates either, the conflict is with that parent.  The hash
\* order of a parent's dependencies decides which of them it is.
ConflictWith(c, store, dep, age, o) ==
  Find(store, dep, LAMBDA i : i = o \/ IsActive(c, i),
       LAMBDA i : IF i = o THEN age ELSE AgeOf(c, i), {o}, age)

\* Mutant: one of the other candidates is enough.
AllConflictOne(c, store, dep, age, others) == \E o \in others : ConflictWith(c, store, dep, age, o) # {}

AllConflict(c, store, dep, age, others) == \A o \in others : ConflictWith(c, store, dep, age, o) # {}

Substitute(c, store, dep, con, age, parent, others) ==
  ((con \union UNION {UNION ConflictWith(c, store, dep, age, o) : o \in others}) \ others) \union {parent}

Others(dep) == ToSet(Candidates(dep, FALSE))

GeneralizeAt(c, store, dep, con, critical, age) ==
  LET works == {e \in c.parents : /\ e[1] = critical /\ IsActive(c, e[2]) /\ AgeOf(c, e[2]) < age
                                  /\ AllConflict(c, store, dep, age, Others(e[3]))}
  IN {Substitute(c, store, dep, con, age, e[2], Others(e[3])) : e \in {f \in works : \A g \in works : f[2] <= g[2]}}

Generalize(c, store, parent, dep, con) ==
  UNION {GeneralizeAt(c, store, dep, con, critical, AgeOf(c, critical)) :
    critical \in {i \in con : /\ IsConflicting(c, con)
                              /\ i \notin Ancestors(c, parent)
                              /\ \A j \in con \ {i} : \/ AgeOf(c, j) < AgeOf(c, i)
                                                      \/ AgeOf(c, j) = AgeOf(c, i) /\ j < i}}
-----------------------------------------------------------------------------
(* The loop: activate_deps_loop. *)

\* RemainingCandidates::next: the next candidate that is compatible with what is
\* activated, and one more to know that there is one.
Compatible(c, i) ==
  /\ Key(i) \in DOMAIN c.activations => c.activations[Key(i)].id = i
  /\ Pkg(i).links \in DOMAIN c.links => c.links[Pkg(i).links] = i
InTheWay(c, i) ==
  IF Key(i) \in DOMAIN c.activations /\ c.activations[Key(i)].id # i THEN c.activations[Key(i)].id
  ELSE c.links[Pkg(i).links]

Next(cands, con, c, upto, candidate, more) ==
  [candidate |-> candidate,
   has_another |-> more,
   cands |-> [rest |-> SubSeq(cands.rest, upto + 1, Len(cands.rest)),
              another |-> IF more THEN cands.rest[upto] ELSE None],
   con |-> con \union {InTheWay(c, i) : i \in {j \in ToSet(SubSeq(cands.rest, 1, upto)) : ~Compatible(c, j)}}]

NextOf(cands, con, c, good) ==
  LET need == IF cands.another = None THEN 2 ELSE 1
      more == Len(good) >= need
  IN Next(cands, con, c, IF more THEN good[need] ELSE Len(cands.rest),
          IF cands.another # None THEN cands.another ELSE IF good # <<>> THEN cands.rest[good[1]] ELSE None, more)

NextCandidate(cands, con, c) ==
  NextOf(cands, con, c, SetToSortSeq({n \in DOMAIN cands.rest : Compatible(c, cands.rest[n])}, <))

\* find_candidate: the top of the stack, or the youngest frame that is older than the
\* conflict; 0 if there is none.
FindCandidate(c, st, parent, backtracked, con) ==
  LET ids == con \union {parent}
      older == {n \in DOMAIN st : st[n].cx.age < MaxAge(c, ids)}
  IN IF backtracked \/ ~IsConflicting(c, ids) THEN Len(st) ELSE Max({0} \union older)

\* The order of DepsFrame, and of their insertion.
MinCandidates(f) == IF f.deps = <<>> THEN 0 ELSE Len(f.deps[1].cands)
FrameBefore(f, g) ==
  IF f.err # g.err THEN f.err
  ELSE IF MinCandidates(f) # MinCandidates(g) THEN MinCandidates(f) < MinCandidates(g)
  ELSE f.time < g.time

Push(rem, parent, deps, err) ==
  [time |-> rem.time + 1,
   frames |-> rem.frames \union {[parent |-> parent, deps |-> deps, err |-> err, time |-> rem.time]}]

NoDep == [parent |-> None]

RInit ==
  /\ world \in Worlds
  /\ arrived = {} /\ pending = {} /\ memo = {}
  /\ cx = EmptyContext
  /\ stack = <<>>
  /\ remaining = [time |-> 0, frames |-> {}]
  /\ cache = {}
  /\ cur = NoDep
  /\ loop_at = "start"
  /\ resolved = "none"

Ends(how) == resolved' = how /\ loop_at' = "done" /\ cur' = NoDep

\* The roots are activated.
Start ==
  /\ loop_at = "start"
  /\ LET with(acc, a) ==
           [cx |-> a.cx, fatal |-> acc.fatal \/ a.kind = "fatal",
            remaining |-> IF a.kind = "frame" THEN Push(acc.remaining, a.parent, a.deps, FALSE) ELSE acc.remaining,
            waits |-> acc.waits \union a.waits, memo |-> acc.memo \union a.memo]
         root(acc, r) == with(acc, Activate(acc.cx, None, {}, r.id, world.direct_minimal, r.opts))
     IN \E all \in {FoldLeft(root, [cx |-> EmptyContext, fatal |-> FALSE, waits |-> {}, memo |-> memo,
                                    remaining |-> [time |-> 0, frames |-> {}]], world.roots)} :
          /\ cx' = all.cx /\ remaining' = all.remaining
          /\ pending' = pending \union all.waits /\ memo' = all.memo
          /\ IF all.fatal THEN Ends("fatal") ELSE loop_at' = "pop" /\ UNCHANGED <<cur, resolved>>
  /\ stack' = <<>>
  /\ UNCHANGED <<world, arrived, cache>>

\* pop_most_constrained.
PopMostConstrained ==
  /\ loop_at = "pop"
  /\ LET frames == {f \in remaining.frames : f.deps # <<>>} IN
       \/ /\ frames = {} /\ loop_at' = "wait"
          /\ UNCHANGED <<remaining, cur>>
       \/ \E f \in frames :
            /\ \A g \in frames \ {f} : FrameBefore(f, g)
            /\ remaining' = [remaining EXCEPT !.frames = (frames \ {f}) \union {[f EXCEPT !.deps = Tail(@)]}]
            /\ cur' = [parent |-> f.parent, dep |-> f.deps[1].dep, features |-> f.deps[1].features,
                       cands |-> [rest |-> f.deps[1].cands, another |-> None], con |-> {},
                       backtracked |-> FALSE,
                       err |-> f.err /\ FindConflicting(cache, cx, f.deps[1].dep, {}) # {},
                       candidate |-> None, has_another |-> FALSE]
            /\ loop_at' = "next"
  /\ UNCHANGED <<world, arrived, pending, memo, cx, stack, cache, resolved>>

\* There is a candidate; only the last one is tried for an error message.
NextOne ==
  /\ loop_at = "next"
  /\ \E n \in {NextCandidate(cur.cands, cur.con, cx)} :
       /\ n.candidate # None
       /\ cur' = [cur EXCEPT !.cands = n.cands, !.con = n.con,
                             !.candidate = n.candidate, !.has_another = n.has_another]
       /\ loop_at' = IF cur.err /\ ~cur.backtracked /\ n.has_another THEN "next" ELSE "try"
  /\ UNCHANGED <<world, arrived, pending, memo, cx, stack, remaining, cache, resolved>>

\* The assertions on the way back: "parent not currently active!?", "an already used dep
\* now pending!?", "not currently active!?", new_age < backtrack_critical_age, the one
\* of find_candidate and "why did we save a frame that has no next?".
BacktrackAsserts(learn, con, g, k) ==
  LET ids == g \union {cur.parent}
      jumps == ~cur.backtracked /\ IsConflicting(cx, ids)
      critical == {i \in con : AgeOf(cx, i) = MaxAge(cx, con)}
  IN /\ learn /\ con # {} /\ IsConflicting(cx, con) =>
          \A e \in cx.parents : e[1] \in critical => IsActive(cx, e[2]) /\ Poll(e[3]) = "ready"
     /\ g # con => IsConflicting(cx, g) /\ MaxAge(cx, g) < MaxAge(cx, con)
     /\ jumps => \A n \in DOMAIN stack : n >= k =>
          /\ IsConflicting(stack[n].cx, ids) <=> n > k
          /\ n > k => MaxAge(stack[n].cx, ids) = MaxAge(cx, ids)
     /\ k # 0 => NextCandidate(stack[k].cands, stack[k].con, stack[k].cx).candidate # None

\* The loop goes back to a frame of the stack that may solve the conflict.
BackTo(k, f, m) ==
  /\ cx' = f.cx /\ remaining' = f.remaining
  /\ cur' = [cur EXCEPT !.parent = f.parent, !.dep = f.dep, !.features = f.features,
                        !.cands = m.cands, !.con = m.con, !.backtracked = TRUE,
                        !.candidate = m.candidate, !.has_another = m.has_another]
  /\ stack' = SubSeq(stack, 1, k - 1)
  /\ loop_at' = "try" /\ UNCHANGED resolved

\* There is none: the conflict is remembered, and generalized if it can be.
Exhausted ==
  /\ loop_at = "next"
  /\ \E n \in {NextCandidate(cur.cands, cur.con, cx)}, learn \in {~cur.err /\ ~cur.backtracked} :
       /\ n.candidate = None
       /\ \E store \in {IF learn THEN Insert(cache, cur.dep, n.con) ELSE cache} :
          \E general \in {IF learn THEN Generalize(cx, store, cur.parent, cur.dep, n.con) ELSE {}} :
          \E g \in IF general = {} THEN {n.con} ELSE general :
          \E k \in {FindCandidate(cx, stack, cur.parent, cur.backtracked, g)} :
            /\ cache' = IF general = {} THEN store ELSE Insert(store, cur.dep, g)
            /\ IF ~BacktrackAsserts(learn, n.con, g, k)
               THEN Ends("panic") /\ UNCHANGED <<cx, remaining, stack>>
               ELSE IF k = 0
               THEN Ends("error") /\ UNCHANGED <<cx, remaining>> /\ stack' = <<>>
               ELSE BackTo(k, stack[k], NextCandidate(stack[k].cands, stack[k].con, stack[k].cx))
  /\ UNCHANGED <<world, arrived, pending, memo>>

\* What the cache knows of a frame about to be pushed: a dependency of it, or one that is
\* left and conflicts with the candidate, has no candidate.
PastOwn(a) == {n \in DOMAIN a.deps : FindConflicting(cache, a.cx, a.deps[n].dep, {}) # {}}

PastOthers(c) == UNION {{<<f, n>> : n \in {k \in DOMAIN f.deps :
  FindConflicting(cache, c, f.deps[k].dep, {cur.candidate}) # {}}} : f \in remaining.frames}

FirstOf(others) == CHOOSE x \in others : \A y \in others \ {x} :
  IF x[1] = y[1] THEN x[2] < y[2] ELSE FrameBefore(x[1], y[1])

PastFirst(c, x) ==
  (UNION FindConflicting(cache, c, x[1].deps[x[2]].dep, {cur.candidate}) \ {cur.candidate}) \union {x[1].parent}

PastConflict(a, own, others) ==
  IF a.kind # "frame" \/ cur.err THEN {}
  ELSE IF own # {} THEN {UNION FindConflicting(cache, a.cx, a.deps[Min(own)].dep, {}) \ {cur.candidate}}
  ELSE IF others # {} THEN {PastFirst(a.cx, FirstOf(others))}
  ELSE {}

\* A candidate is activated.  It is given up when the cache knows that it must fail,
\* unless an error message needs it.
Saved == [cx |-> cx, remaining |-> remaining, cands |-> cur.cands, parent |-> cur.parent,
          dep |-> cur.dep, features |-> cur.features, con |-> cur.con]

TryFrame(a, doomed, con, forError) ==
  IF a.kind = "fatal" THEN Ends("fatal") /\ UNCHANGED <<cx, remaining, stack>>
  ELSE IF a.kind = "none" \/ (a.kind = "frame" /\ (doomed => forError))
  THEN /\ cx' = a.cx
       /\ remaining' = IF a.kind = "none" THEN remaining ELSE Push(remaining, a.parent, a.deps, doomed)
       /\ stack' = (IF forError THEN <<>> ELSE stack) \o (IF cur.has_another THEN <<Saved>> ELSE <<>>)
       /\ cur' = NoDep /\ loop_at' = "pop" /\ UNCHANGED resolved
  ELSE /\ cx' = IF cur.has_another THEN cx ELSE a.cx
       /\ cur' = [cur EXCEPT !.con = con]
       /\ loop_at' = "next" /\ UNCHANGED <<remaining, stack, resolved>>

Try ==
  /\ loop_at = "try"
  /\ \E a \in {Activate(cx, cur.parent, {cur.dep}, cur.candidate, FALSE,
                         [cli |-> FALSE, dev |-> FALSE, all |-> FALSE,
                          features |-> cur.features, default |-> cur.dep.default])} :
     \E past \in {PastConflict(a, PastOwn(a), PastOthers(a.cx))} :
     \E doomed \in {a.kind = "frame" /\ (cur.err \/ past # {})},
        con \in {cur.con \union UNION past \union (IF a.kind = "conflict" THEN {a.with} ELSE {})} :
       /\ pending' = pending \union a.waits /\ memo' = memo \union a.memo
       /\ TryFrame(a, doomed, con, /\ doomed /\ ~cur.has_another
                                   /\ \/ cur.err
                                      \/ FindCandidate(a.cx, stack, cur.parent, cur.backtracked, con) = 0)
  /\ UNCHANGED <<world, arrived, cache>>

\* check_cycles, of the dependencies that are not for development only.
Cyclic(c) ==
  LET edges == {<<e[2], IF e[1] \in DOMAIN world.replace THEN world.replace[e[1]] ELSE e[1]>> :
                  e \in {f \in c.parents : ~f[3].dev}}
      step(ids) == {e[2] : e \in {f \in edges : f[1] \in ids}}
      reach[n \in Nat] == [i \in Id |-> IF n = 0 THEN step({i}) ELSE reach[n - 1][i] \union step(reach[n - 1][i])]
  IN \E i \in Id : i \in reach[Cardinality(Id)][i]

\* Mutant: what was pending stays so.
WaitInVain ==
  /\ loop_at = "wait"
  /\ IF pending = {} /\ memo = {}
     THEN Ends(IF Cyclic(cx) THEN "cyclic" ELSE "ok") /\ UNCHANGED <<arrived, pending, memo, cx, stack, remaining>>
     ELSE /\ pending' = {} /\ memo' = {} /\ UNCHANGED arrived
          /\ cx' = EmptyContext /\ stack' = <<>> /\ remaining' = [time |-> 0, frames |-> {}]
          /\ loop_at' = "start" /\ UNCHANGED <<cur, resolved>>
  /\ UNCHANGED <<world, cache>>

\* RegistryQueryer::wait, and resolve's loop: when answers were missing, everything
\* starts again, but for the cache of conflicts.
Wait ==
  /\ loop_at = "wait"
  /\ IF pending = {} /\ memo = {}
     THEN Ends(IF Cyclic(cx) THEN "cyclic" ELSE "ok") /\ UNCHANGED <<arrived, pending, memo, cx, stack, remaining>>
     ELSE /\ arrived' = arrived \union pending /\ pending' = {} /\ memo' = {}
          /\ cx' = EmptyContext /\ stack' = <<>> /\ remaining' = [time |-> 0, frames |-> {}]
          /\ loop_at' = "start" /\ UNCHANGED <<cur, resolved>>
  /\ UNCHANGED <<world, cache>>

RNext == Start \/ PopMostConstrained \/ NextOne \/ Exhausted \/ Try \/ Wait

RSpec == RInit /\ [][RNext]_rvars
\* The loop runs on: weak fairness of RNext, which is enabled until the loop is done.
RFairSpec == RSpec /\ ([]<>(loop_at = "done") \/ []<><<TRUE>>_rvars)
-----------------------------------------------------------------------------
(* Properties. *)

\* A solution, apart from how it is found: packages and the features of each, of which no
\* two are semver compatible or have the same links, and in which every dependency that
\* is needed has a candidate with the features it is asked for.
IsRoot(i) == \E n \in DOMAIN world.roots : world.roots[n].id = i

Gets(i, dep, features, feats) ==
  LET r == IF i \in DOMAIN world.replace THEN world.replace[i] ELSE i
      wanted == features \union (IF dep.default THEN {"default"} \intersect DOMAIN Pkg(r).features ELSE {})
  IN wanted \subseteq feats[r]

SatisfiedIn(ids, feats, rf, i) ==
  /\ ~rf.missing /\ ~rf.cyclic /\ rf.used = feats[i]
  /\ \A d \in ToSet(rf.deps) : \E c \in ids \intersect Others(d.dep) : Gets(c, d.dep, d.features, feats)

IsSolution(ids, feats) ==
  /\ \A n \in DOMAIN world.roots :
       /\ world.roots[n].id \in ids
       /\ RequestedFeatures(Pkg(world.roots[n].id), world.roots[n].opts) \subseteq feats[world.roots[n].id]
  /\ \A i, j \in ids : i # j =>
       Key(i) # Key(j) /\ (Pkg(i).links = NoLinks \/ Pkg(i).links # Pkg(j).links)
  /\ \A i \in ids \intersect DOMAIN world.replace : world.replace[i] \in ids
  /\ \A i \in ids \ DOMAIN world.replace :
       SatisfiedIn(ids, feats, ResolveFeatures(Pkg(i), RequireFeatures(Pkg(i), feats[i]), IsRoot(i)), i)

Solvable ==
  LET featured == {i \in Id : DOMAIN Pkg(i).features # {}}
      names == UNION {DOMAIN Pkg(i).features : i \in featured}
  IN \E ids \in SUBSET Id, g \in [featured -> SUBSET names] :
       IsSolution(ids, [i \in Id |-> IF i \in featured THEN g[i] ELSE {}])

\* What resolve returns is a solution: backtracking leaves no dependency without its
\* package, no package without one that depends on it, and no missing answer behind.
ResultIsSolution == resolved = "ok" =>
  LET ids == {i \in Id : IsActive(cx, i)}
      roots == {world.roots[n].id : n \in DOMAIN world.roots}
  IN /\ IsSolution(ids, cx.features)
     /\ \A e \in cx.parents : {e[1], e[2]} \subseteq ids
     /\ \A i \in ids \ roots : \E e \in cx.parents : i = e[1] \/ (e[1] \in DOMAIN world.replace /\ i = world.replace[e[1]])

\* "only if *nothing* works do we actually return an error up the stack".
ErrorMeansNone == resolved = "error" /\ ~world.direct_minimal => ~Solvable

\* The assertions of the loop hold.
NoPanic == resolved # "panic"

\* The resolver's answer is right, whichever it is.
ResolvedRight == ResultIsSolution /\ ErrorMeansNone /\ NoPanic

\* Resolution ends.
Resolves == (loop_at # "start") ~> (loop_at = "done")
=============================================================================
