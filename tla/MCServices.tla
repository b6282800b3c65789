----------------------------- MODULE MCServices -----------------------------
(***************************************************************************)
(* Components that depend on what is outside of cargo, a registry's index, *)
(* a git remote, the processes of cargo fix, side by side.  They share no  *)
(* state in these models: a behaviour is one of one component, and the     *)
(* others stay where they begin.                                           *)
(***************************************************************************)
EXTENDS RegistryIndex, Fix, Rustfix, GitSource

-----------------------------------------------------------------------------
(* The index of a registry. *)

Sparse(etag, auth, off, torn) ==
  [kind |-> "sparse", etag |-> etag, auth |-> auth, offline |-> off, torn |-> torn]
Other(kind, off) == [kind |-> kind, etag |-> TRUE, auth |-> FALSE, offline |-> off, torn |-> FALSE]

CONSTANTS serde, libc
const_Name == {serde, libc}
const_Published == {[x \in const_Name |-> IF x = serde THEN k ELSE 1] : k \in {0}}
const_Registry ==
  {Sparse(TRUE, TRUE, FALSE, FALSE), Sparse(FALSE, FALSE, FALSE, FALSE), Sparse(TRUE, FALSE, TRUE, FALSE),
   Other("git", FALSE), Other("git", TRUE), Other("local", FALSE)}
GitOnly == {Other("git", FALSE)}
-----------------------------------------------------------------------------
(* cargo fix: two crates, with a file of their own or one they share. *)

CONSTANTS px, py, fx, fy

MCProxy == {px, py}
MCFile == {fx, fy}

Simple ==
  [files |-> (px :> {fx}) @@ (py :> {fy}), lints |-> (fx :> {1, 2, 3}) @@ (fy :> {4}),
   bad |-> {}, stuck |-> {}, overlap |-> {1, 2}, broken |-> {}, broken_code |-> FALSE, skipped |-> {}]

Shared == (px :> {fx}) @@ (py :> {fx, fy})

\* The suggestions for a file that two crates share compile in both.
MCSources ==
  {Simple, [Simple EXCEPT !.bad = {2}], [Simple EXCEPT !.bad = {3}, !.broken_code = TRUE],
   [Simple EXCEPT !.stuck = {4}, !.broken = {px}, !.skipped = {py}],
   [Simple EXCEPT !.stuck = {1, 4}], [Simple EXCEPT !.files = Shared],
   [Simple EXCEPT !.files = Shared, !.broken = {py}]}

-----------------------------------------------------------------------------
(* Suggestions. *)

const_Range == {r \in [start : 0 .. 3, end : 0 .. 3] : r.start <= r.end \/ r.end = 0}
const_R(d) == {[start |-> r.start, end |-> r.end, data |-> <<d>>] : r \in const_Range}
const_SuggestionLists ==
  {<<<<a>>, <<b, c>>, <<d>>>> : a \in const_R(1), b \in const_R(2), c \in const_R(3), d \in const_R(4)}
-----------------------------------------------------------------------------
(* A git dependency: two commits, one of them with a submodule. *)

CONSTANTS o1, o2, s1
MCSubOf == [o \in {o1, o2} |-> IF o = o1 THEN s1 ELSE NoOid]

Open == [kind |-> "open", url |-> "none", user |-> "none", helper |-> "none", accepts |-> {}, drops |-> {}]
Ssh(accepts, drops) ==
  [kind |-> "ssh", url |-> "none", user |-> "me", helper |-> "other", accepts |-> accepts, drops |-> drops]
Ask(locked, off, github, remote) ==
  [locked |-> locked, offline |-> off, github |-> github, server |-> remote]

MCGitRequests ==
  {Ask(locked, off, github, Open) : locked \in {NoOid, o1}, off \in BOOLEAN, github \in BOOLEAN}
    \union {Ask(NoOid, FALSE, FALSE, Ssh(a, d)) : <<a, d>> \in {<<{"git"}, {}>>, <<{}, {}>>, <<{"git"}, {"me"}>>}}

-----------------------------------------------------------------------------
(* Side by side. *)

VARIABLE component

AnyOf(S) == CHOOSE x \in S : TRUE

\* Where the others stay does not matter: in one of their initial states.
Others ==
  /\ IF component = "index" THEN TRUE ELSE registry = AnyOf(Registry) /\ server = AnyOf(Published) /\ cargo = NewCargo(TRUE) /\ XInit
  /\ IF component = "fix" THEN TRUE ELSE source = AnyOf(Sources) /\ FxInit
  /\ IF component = "rustfix" THEN TRUE ELSE suggestions = AnyOf(SuggestionLists) /\ RfInit
  /\ IF component = "git" THEN TRUE ELSE tip = AnyOf(Oid) /\ GitInit

Init ==
  /\ component \in {"index", "fix", "rustfix", "git"}
  /\ Others
  /\ CASE component = "index" -> XInit
       [] component = "fix" -> FxInit
       [] component = "rustfix" -> RfInit
       [] component = "git" -> GitInit

Indexing == component = "index" /\ UNCHANGED <<component, fxvars, rfvars, gitvars>>
Fixing == component = "fix" /\ UNCHANGED <<component, rvars, rfvars, gitvars>>
Replacing == component = "rustfix" /\ UNCHANGED <<component, rvars, fxvars, gitvars>>
Updating == component = "git" /\ UNCHANGED <<component, rvars, fxvars, rfvars>>

Next ==
  \/ Indexing /\ XNext
  \/ Fixing /\ FxNext
  \/ Replacing /\ RfNext
  \/ Updating /\ GitNext

vars == <<component, rvars, fxvars, rfvars, gitvars>>

Spec ==
  /\ Init /\ [][Next]_vars
  /\ WF_vars(Indexing /\ \E t \in Task : QueryStep(t))
  /\ WF_vars(Fixing /\ LockStep) /\ WF_vars(Fixing /\ (OnMessage \/ DropClient)) /\ WF_vars(Fixing /\ FixReturns)
  /\ \A p \in Proxy : WF_vars(Fixing /\ ProxyStep(p))
  /\ WF_vars(Updating /\ GitStep)

\* The index alone.
IndexSpec == component = "index" /\ Spec

\* What cargo waits for comes: an answer of the registry, the lock of cargo fix, the end of
\* an update from a git repository.
ServicesEnd == QueriesAnswered /\ FixEnds /\ UpdateEnds
=============================================================================
