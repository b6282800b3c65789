------------------------------- MODULE MCJobs -------------------------------
(***************************************************************************)
(* Loops that must come to an end, side by side: the job queue of a build, *)
(* the locks of the package cache, the resolver.  They share no state in   *)
(* these models: a behaviour is one of one component, and the others stay  *)
(* where they begin.                                                       *)
(***************************************************************************)
EXTENDS JobQueue, CacheLock, Resolver

-----------------------------------------------------------------------------
(* Builds of three units where jobs may fail, and of two where writing to the
   shell and acquiring tokens may fail too. *)

MCUnit == {"a", "b", "c"}

Plain == [units |-> MCUnit, deps |-> [u \in MCUnit |-> {}],
          upstream |-> {}, build_mode |-> MCUnit, unneeded |-> {}, scrape |-> {},
          scripts |-> {}, fresh |-> {}, keep_going |-> FALSE, deny_warnings |-> FALSE,
          io_fails |-> FALSE, jobserver_fails |-> FALSE,
          chatter |-> [u \in MCUnit |-> 0]]

\* The example of enqueue: the binary a links b, b needs the metadata of c.
Chain == [Plain EXCEPT !.deps = [a |-> {"b"}, b |-> {"c"}, c |-> {}],
                       !.upstream = {"a"}, !.unneeded = {"a"}]

\* a needs b, and c is ready at the same time as b but has a lower priority.
Fork == [Plain EXCEPT !.deps = [a |-> {"b"}, b |-> {}, c |-> {}]]

\* The test a runs the binary b, which links the library c: the test waits for c
\* but not for b.
Tested == [Plain EXCEPT !.deps = [a |-> {"b"}, b |-> {"c"}, c |-> {}],
                        !.upstream = {"a", "b"}, !.unneeded = {"a", "b"}]

Chatty(us) == [u \in MCUnit |-> IF u \in us THEN 1 ELSE 0]

Failing == [Plain EXCEPT !.units = {"a", "b"}, !.io_fails = TRUE, !.jobserver_fails = TRUE,
                          !.chatter = Chatty({"b"})]

\* The documentation a is rendered with the examples scraped from b.
Scraped == [Failing EXCEPT !.deps = [a |-> {"b"}, b |-> {}, c |-> {}], !.scrape = {"b"},
                           !.build_mode = {}]

\* The library a is compiled after its build script b has run.
Scripted == [Failing EXCEPT !.deps = [a |-> {"b"}, b |-> {}, c |-> {}], !.scripts = {"b"},
                            !.build_mode = {"a"}]

\* Units that do not know each other.
Parallel == Failing

MCBuilds ==
  {[Chain EXCEPT !.fresh = f, !.deny_warnings = TRUE, !.chatter = Chatty({"b", "c"})] :
     f \in {{}, {"c"}}}
  \union {[Fork EXCEPT !.fresh = {"c"}, !.keep_going = TRUE, !.chatter = Chatty({"b"})],
          Fork, Tested, [Parallel EXCEPT !.deny_warnings = TRUE],
          [Parallel EXCEPT !.fresh = {"b"}, !.keep_going = TRUE]}
  \union {[b EXCEPT !.fresh = f, !.keep_going = k, !.deny_warnings = ~k] :
            b \in {Scraped, Scripted}, f \in {{}, {"b"}}, k \in BOOLEAN}
-----------------------------------------------------------------------------
(* Cargos sharing one CARGO_HOME, which ro may only read: enough for one that
   waits for the mutate file of one that waits for the cache file of a third. *)

CONSTANTS p1, p2, p3, ro

const_Process == {p1, p2, p3, ro}
const_Budgets == {[p \in const_Process |-> IF p = p1 THEN 2 ELSE IF p = idle THEN 0 ELSE 1] :
                    idle \in {p3, ro}}
-----------------------------------------------------------------------------
(* The resolver: small registries, in which a root depends on a and b, which
   may depend on c, which may depend on d, most of them in two versions. *)

Dep(name, req) == [toml |-> name, name |-> name, req |-> req, source |-> "registry",
                   optional |-> FALSE, default |-> TRUE, features |-> {}, dev |-> FALSE]
Summary(name, version, compat, deps) ==
  [name |-> name, version |-> version, compat |-> compat, source |-> "registry", links |-> NoLinks,
   deps |-> deps, features |-> <<>>, state |-> "published", msrv |-> 1]

Everything == [cli |-> TRUE, dev |-> TRUE, all |-> TRUE, features |-> {}, default |-> TRUE]
Name == {"a", "b", "c", "d"}
Now == [n \in Name |-> "now"]
World(pkgs) == [pkgs |-> pkgs, roots |-> <<[id |-> 1, opts |-> Everything]>>, prefer |-> {},
                minimal |-> FALSE, direct_minimal |-> FALSE, replace |-> <<>>, answers |-> Now]

On(name) == {<<>>} \union {<<Dep(name, req)>> : req \in {{1}, {2}, {1, 2}}}

\* Two branches that meet in c and d; c in compatible or incompatible versions.
Versions ==
  {World(<<Summary("root", 1, 1, <<Dep("a", {1, 2}), Dep("b", {1, 2})>>),
           Summary("a", 1, 1, a1), Summary("a", 2, 1, a2),
           Summary("b", 1, 1, b1), Summary("b", 2, 1, b2),
           Summary("c", 1, 1, c1), Summary("c", 2, cc, c2),
           Summary("d", 1, 1, <<>>), Summary("d", 2, 1, <<>>)>>) :
     a1 \in On("c") \union {<<Dep("d", {1, 2})>>}, a2 \in On("c") \union {<<Dep("d", {1, 2})>>}, b1 \in {<<>>, <<Dep("d", {3})>>},
     b2 \in {<<Dep("c", {1, 2})>>, <<Dep("d", {2})>>, <<Dep("c", {1}), Dep("d", {1})>>},
     c1 \in {<<Dep("d", {1})>>, <<Dep("d", {3})>>}, c2 \in On("d"), cc \in {1, 2}}

\* Answers that come late, or not; versions that are preferred, yanked or old.
Answers ==
  {[World(<<Summary("root", 1, 1, <<Dep("a", {1, 2}), Dep("b", {1})>>),
            Summary("a", 1, 1, <<Dep("c", {1, 2})>>), [Summary("a", 2, 1, <<Dep("c", {2})>>) EXCEPT !.state = state],
            Summary("b", 1, 1, <<Dep("c", {1, 2}), [Dep("a", {1}) EXCEPT !.dev = TRUE]>>),
            [Summary("c", 1, 1, <<Dep("d", {1})>>) EXCEPT !.msrv = msrv], Summary("c", 2, 1, c2), Summary("d", 1, 1, d1)>>)
     EXCEPT !.answers = [Now EXCEPT !["c"] = c, !["d"] = d], !.prefer = prefer,
            !.direct_minimal = minimal, !.minimal = minimal] :
     state \in {"published", "yanked", "too_new", "unpublished"}, msrv \in {1, 2}, prefer \in {{}, {3}, {5}},
     c2 \in {<<>>, <<Dep("d", {2})>>}, d1 \in {<<>>, <<Dep("a", {1, 2})>>},
     c \in {"now", "later"}, d \in {"now", "later", "error"}, minimal \in BOOLEAN}

\* A second workspace member; a links value, a patch of c, or a replacement of it.
Sources ==
  {[World(<<Summary("root", 1, 1, <<Dep("a", {1, 2}), Dep("b", {1, 2})>>),
            Summary("a", 1, 1, <<Dep("c", {1})>>), Summary("a", 2, 1, <<Dep("c", {1, 2})>>),
            Summary("b", 1, 1, <<>>), [Summary("b", 2, 1, <<Dep("c", b2)>>) EXCEPT !.links = links],
            Summary("c", 1, 1, <<>>), [Summary("c", 2, 1, <<>>) EXCEPT !.source = source, !.links = links],
            [Summary("c", 1, 1, <<Dep("d", {1})>>) EXCEPT !.source = "replacement", !.links = rlinks],
            Summary("d", 1, 1, d1), [Summary("m", 1, 1, <<Dep("c", m)>>) EXCEPT !.source = "path"]>>)
     EXCEPT !.replace = replace, !.roots = Append(@, [id |-> 10, opts |-> Everything])] :
     m \in {{1}, {1, 2}}, b2 \in {{1}, {2}, {1, 2}}, links \in {NoLinks, "z"}, source \in {"registry", "patch"},
     replace \in {<<>>, [i \in {6} |-> 8]}, rlinks \in {NoLinks, "z"}, d1 \in {<<>>, <<Dep("b", {1})>>}}

Feat(f) == [kind |-> "feat", feat |-> f]
ByDep(d) == [kind |-> "dep", dep |-> d]
DepFeat(d, f, weak) == [kind |-> "dep/feat", dep |-> d, feat |-> f, weak |-> weak]
With(dep, feats) == [dep EXCEPT !.features = feats]
Optional(dep) == [dep EXCEPT !.optional = TRUE]

\* Version 2 of a wants feature x of b, which passes feature f on to c.
Features(c1s) ==
  {World(<<Summary("root", 1, 1, <<Dep("a", {1, 2})>>),
           Summary("a", 1, 1, a1), Summary("a", 2, 1, <<With(Dep("b", {1}), {"x"})>>),
           [Summary("b", 1, 1, <<bc>>) EXCEPT !.features = [x |-> vs, y |-> {Feat("x")}, default |-> def]],
           [Summary("c", 1, 1, c1) EXCEPT !.features = f1],
           [Summary("c", 2, cc, <<>>) EXCEPT !.features = f2]>>) :
     a1 \in {<<>>, <<Dep("b", {1})>>, <<Dep("b", {1}), Dep("c", {1})>>},
     bc \in {Dep("c", {1, 2}), Optional(Dep("c", {1, 2}))}, def \in {{}, {Feat("y")}},
     vs \in {{ByDep("c")}, {DepFeat("c", "f", TRUE)}, {DepFeat("c", "f", FALSE)}},
     c1 \in c1s, f1 \in {<<>>, [f |-> {}]}, f2 \in {<<>>, [f |-> {}]}, cc \in {1, 2}}

const_Worlds == Versions \union Answers \union Sources \union Features({<<>>})
const_Features == Features({<<Dep("d", {1})>>})
-----------------------------------------------------------------------------
(* Side by side. *)

VARIABLE component

AnyOf(S) == CHOOSE x \in S : TRUE

\* Where the others stay does not matter: in one of their initial states.
Elsewhere ==
  /\ IF component = "jobs" THEN TRUE ELSE build = AnyOf(Builds) /\ JQInit
  /\ IF component = "locks" THEN TRUE ELSE calls = AnyOf(Budgets) /\ CLInit
  /\ IF component = "resolver" THEN TRUE ELSE world = AnyOf(Worlds) /\ RInit

Init ==
  /\ component \in {"jobs", "locks", "resolver"}
  /\ Elsewhere
  /\ CASE component = "jobs" -> JQInit
       [] component = "locks" -> CLInit
       [] component = "resolver" -> RInit

Building == component = "jobs" /\ UNCHANGED <<component, clvars, rvars>>
Locking == component = "locks" /\ UNCHANGED <<component, jqvars, rvars>>
Resolving == component = "resolver" /\ UNCHANGED <<component, jqvars, clvars>>

LoopsNext ==
  \/ Building /\ JQNext
  \/ Locking /\ CLNext
  \/ Resolving /\ RNext

vars == <<component, jqvars, clvars, rvars>>

\* The resolver's loop runs on: it is done, or takes a step, again and again.
Spec ==
  /\ Init /\ [][LoopsNext]_vars
  /\ WF_vars(Building /\ MainThread) /\ \A u \in Unit : WF_vars(Building /\ JobThread(u))
  /\ WF_vars(Locking /\ Progress)
  /\ []<>(loop_at = "done" \/ component # "resolver") \/ []<><<TRUE>>_rvars

\* The resolver alone.
ResolverSpec == component = "resolver" /\ Spec

\* A build that was begun ends, and so does every call of the package cache's locks.
JobsEnd == Terminates /\ CallsReturn
=============================================================================
