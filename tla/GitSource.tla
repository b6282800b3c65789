----------------------------- MODULE GitSource ------------------------------
(***************************************************************************)
(* Updating a git dependency (sources/git/source.rs and utils.rs): find or *)
(* fetch the revision in the database, check it out, update its submodule  *)
(* from a database of its own, and mark the checkout ready.  The remote    *)
(* moves, transfers fail, databases get corrupt, and cargo is killed.      *)
(*                                                                         *)
(* One cargo at a time: update runs under the exclusive package cache      *)
(* lock.  A remote never deletes its reference; shallow clones and the     *)
(* fetching back ends' own protocols are left out.                         *)
(***************************************************************************)
EXTENDS Naturals, FiniteSets, Sequences

CONSTANTS Oid,          \* commits of the main repository
          SubOid,       \* commits of the submodule's
          SubOf,        \* commit -> the submodule's commit it records, or NoOid
          NoOid,
          GitRequests,  \* what a run of cargo is asked for
          NetRetries,   \* net.retry
          MaxMoves, MaxGitRuns, MaxGitFaults

ASSUME GitBounds == {NetRetries, MaxMoves, MaxGitRuns, MaxGitFaults} \subseteq Nat

\* A request is for a commit of the repository or for what its reference names; no server
\* accepts the name that stands for none.
ASSUME GitTyped ==
  /\ SubOf \in [Oid -> SubOid \union {NoOid}]
  /\ NoOid \notin Oid \union SubOid
  /\ \A request \in GitRequests :
       request.locked \in Oid \union {NoOid} /\ "none" \notin request.server.accepts

VARIABLES tip,       \* the commit the remote's reference names
          pushed,    \* commits the remote has
          db,        \* per repository: the local database
          checkout,  \* commit -> its directory under git/checkouts
          gitrun,       \* the run of cargo
          gitspent      \* moves of the remote, runs and faults so far

gitvars == <<tip, pushed, db, checkout, gitrun, gitspent>>

GitRepo == {"main", "sub"}
NoDb == [opens |-> FALSE, ref |-> NoOid, commits |-> {}, corrupt |-> FALSE]
FreshDb == [NoDb EXCEPT !.opens = TRUE]
NoCheckout == [head |-> NoOid, files |-> NoOid, sub |-> NoOid, ok |-> FALSE]
NoRun == [at |-> "none", request |-> [locked |-> NoOid], which |-> "main", want |-> NoOid, kept |-> FALSE,
          fetch |-> NoOid, retries |-> 0, reinit |-> FALSE, rev |-> NoOid, main |-> NoOid, seen |-> {}]

GitInit ==
  /\ tip \in Oid /\ pushed = {tip}
  /\ db = [r \in GitRepo |-> NoDb]
  /\ checkout = [o \in Oid |-> NoCheckout]
  /\ gitrun = NoRun
  /\ gitspent = [moves |-> 0, runs |-> 0, faults |-> 0]

GitAt(pc) == gitrun.at = pc
GitGoto(pc) == gitrun' = [gitrun EXCEPT !.at = pc]
Db == db[gitrun.which]
GitSpend(what, limit) == gitspent[what] < limit /\ gitspent' = [gitspent EXCEPT ![what] = @ + 1]
GitRunning == gitrun.at \notin {"none", "done", "failed"}
GitRequest == gitrun.request

-----------------------------------------------------------------------------
(* What the remote does.                                                   *)
MoveTip(o) ==
  /\ GitSpend("moves", MaxMoves) /\ o # tip
  /\ tip' = o /\ pushed' = pushed \union {o}
  /\ gitrun' = IF GitRunning THEN [gitrun EXCEPT !.seen = @ \union {o}] ELSE gitrun
  /\ UNCHANGED <<db, checkout>>

-----------------------------------------------------------------------------
(* with_authentication.  The transport asks for a user name first when the *)
(* URL has none, then for a key until one is taken or an error returned.   *)
Popped(server) ==
  (IF server.helper # "none" THEN <<server.helper>> ELSE <<>>)
    \o (IF server.user # "none" THEN <<server.user>> ELSE <<>>) \o <<"git">>

\* How often one session asks for a key: again when the agent's was refused, but not when the
\* server took it or hung up, which is an error that is not retried.
KeyAttempts(server, user) == IF user \in server.accepts \union server.drops THEN 1 ELSE 2

\* A session for each user name, of which the loop ends with the first that did not ask twice.
AuthenticateAs(server, users) ==
  \E n \in 1 .. Len(users) :
    /\ users[n] \in server.accepts \ server.drops
    /\ \A m \in 1 .. n - 1 : KeyAttempts(server, users[m]) = 2

WithAuthentication(server) ==
  CASE server.kind = "open" -> TRUE
    [] server.kind = "ssh" /\ server.url # "none" -> server.url \in server.accepts \ server.drops
    [] server.kind = "ssh" /\ server.url = "none" -> AuthenticateAs(server, Popped(server))
    [] server.kind = "password" -> server.helper \in server.accepts

-----------------------------------------------------------------------------
StartUpdate(request) ==
  /\ ~GitRunning /\ GitSpend("runs", MaxGitRuns)
  /\ request.locked \in Oid => request.locked \in pushed
  /\ gitrun' = [NoRun EXCEPT !.at = "db", !.request = request, !.want = request.locked, !.seen = {tip}]
  /\ UNCHANGED <<tip, pushed, db, checkout>>

GitLocked == gitrun.want # NoOid
DbContains(d, o) == d.opens /\ o \in d.commits
ResolveGitRef(d) == IF GitLocked THEN (IF DbContains(d, gitrun.want) THEN gitrun.want ELSE NoOid) ELSE d.ref

FetchDb ==
  /\ GitAt("db")
  /\ gitrun' = IF GitLocked /\ DbContains(Db, gitrun.want) THEN [gitrun EXCEPT !.at = "copy", !.rev = gitrun.want]
            ELSE IF ~GitLocked /\ Db.opens /\ GitRequest.offline
                 THEN IF ResolveGitRef(Db) = NoOid THEN [gitrun EXCEPT !.at = "failed"]
                      ELSE [gitrun EXCEPT !.at = "copy", !.rev = ResolveGitRef(Db)]
            ELSE IF GitRequest.offline THEN [gitrun EXCEPT !.at = "failed"]
            ELSE [gitrun EXCEPT !.at = IF Db.opens THEN "fast" ELSE "init", !.kept = Db.opens]
  /\ UNCHANGED <<tip, pushed, db, checkout, gitspent>>

\* GitRemote::checkout without a usable database: remove it and start over
InitDb ==
  /\ GitAt("init")
  /\ db' = [db EXCEPT ![gitrun.which] = FreshDb]
  /\ gitrun' = [gitrun EXCEPT !.at = "fast", !.kept = FALSE]
  /\ UNCHANGED <<tip, pushed, checkout, gitspent>>

RemoteTip == IF gitrun.which = "main" THEN tip ELSE gitrun.want

\* github_fast_path: nothing to do, the commit to ask for, or no answer
GithubFastPath ==
  /\ GitAt("fast")
  /\ \/ /\ GitRequest.github
        /\ gitrun' = IF ResolveGitRef(Db) # NoOid /\ (GitLocked \/ ResolveGitRef(Db) = RemoteTip)
                  THEN [gitrun EXCEPT !.at = "resolve"]
                  ELSE [gitrun EXCEPT !.at = "gc", !.fetch = IF GitLocked THEN gitrun.want ELSE RemoteTip]
        /\ UNCHANGED gitspent
     \/ /\ IF GitRequest.github THEN GitSpend("faults", MaxGitFaults) ELSE UNCHANGED gitspent
        /\ gitrun' = [gitrun EXCEPT !.at = "gc", !.fetch = NoOid]
  /\ UNCHANGED <<tip, pushed, db, checkout>>

\* maybe_gc_repo: a failing `git gc` starts the database over
MaybeGcRepo ==
  /\ GitAt("gc") /\ GitGoto("fetch")
  /\ \/ UNCHANGED <<db, gitspent>>
     \/ GitSpend("faults", MaxGitFaults) /\ db' = [db EXCEPT ![gitrun.which] = FreshDb]
  /\ UNCHANGED <<tip, pushed, checkout>>

\* Refspecs: the one commit by the fast path, one reference, or everything.
Fetched(d) ==
  CASE ~GitLocked -> [d EXCEPT !.ref = RemoteTip, !.commits = @ \union {RemoteTip}]
    [] GitLocked /\ gitrun.fetch # NoOid ->
         [d EXCEPT !.commits = @ \union (IF gitrun.which = "sub" \/ gitrun.want \in pushed THEN {gitrun.want} ELSE {})]
    [] GitLocked /\ gitrun.fetch = NoOid -> [d EXCEPT !.ref = RemoteTip, !.commits = @ \union {RemoteTip}]

FetchOk ==
  /\ GitAt("fetch") /\ ~Db.corrupt /\ WithAuthentication(GitRequest.server)
  /\ db' = [db EXCEPT ![gitrun.which] = Fetched(@)]
  /\ GitGoto("resolve")
  /\ UNCHANGED <<tip, pushed, checkout, gitspent>>

\* An error of the object database or a reference: reinitialize, once a try.
FetchCorrupt ==
  /\ GitAt("fetch") /\ Db.corrupt
  /\ IF gitrun.reinit THEN GitGoto("failed") /\ UNCHANGED db
     ELSE /\ db' = [db EXCEPT ![gitrun.which] = FreshDb]
          /\ gitrun' = [gitrun EXCEPT !.reinit = TRUE]
  /\ UNCHANGED <<tip, pushed, checkout, gitspent>>

\* with_retry: a spurious error is tried again, net.retry times
FetchFails ==
  /\ GitAt("fetch") /\ GitSpend("faults", MaxGitFaults)
  /\ gitrun' = IF gitrun.retries < NetRetries THEN [gitrun EXCEPT !.retries = @ + 1, !.reinit = FALSE]
            ELSE [gitrun EXCEPT !.at = "failed"]
  /\ UNCHANGED <<tip, pushed, db, checkout>>

FetchDenied ==
  /\ GitAt("fetch") /\ ~WithAuthentication(GitRequest.server) /\ GitGoto("failed")
  /\ UNCHANGED <<tip, pushed, db, checkout, gitspent>>

\* GitRemote::checkout: a database of old that does not have it is replaced
ResolveFetched ==
  /\ GitAt("resolve")
  /\ gitrun' = IF ResolveGitRef(Db) # NoOid THEN [gitrun EXCEPT !.at = "copy", !.rev = ResolveGitRef(Db)]
            ELSE IF gitrun.kept THEN [gitrun EXCEPT !.at = "init", !.retries = 0, !.reinit = FALSE]
            ELSE [gitrun EXCEPT !.at = "failed"]
  /\ UNCHANGED <<tip, pushed, db, checkout, gitspent>>

-----------------------------------------------------------------------------
(* GitDatabase::copy_to.  The submodule is checked out inside the main     *)
(* checkout.                                                               *)
IsCheckoutFresh(o) == checkout[o].head = o /\ checkout[o].ok

CopyTo ==
  /\ GitAt("copy") /\ gitrun.which = "main"
  /\ GitGoto(IF IsCheckoutFresh(gitrun.rev) THEN "done" ELSE "clone")
  /\ UNCHANGED <<tip, pushed, db, checkout, gitspent>>

\* clone_into up to the reset: the directory anew, HEAD where the database's is
CloneInto ==
  /\ GitAt("clone")
  /\ checkout' = [checkout EXCEPT ![gitrun.rev] = [NoCheckout EXCEPT !.head = db.main.ref]]
  /\ GitGoto("reset")
  /\ UNCHANGED <<tip, pushed, db, gitspent>>

\* Mutant of ResetCheckout: marked ready before the submodules are there.
ResetCheckoutOk ==
  /\ GitAt("reset")
  /\ checkout' = [checkout EXCEPT ![gitrun.rev].head = gitrun.rev, ![gitrun.rev].files = gitrun.rev, ![gitrun.rev].ok = TRUE]
  /\ GitGoto("submodules")
  /\ UNCHANGED <<tip, pushed, db, gitspent>>

\* the guard removes .cargo-ok before the files are written
ResetCheckout ==
  /\ GitAt("reset") /\ ~db.main.corrupt
  /\ checkout' = [checkout EXCEPT ![gitrun.rev].head = gitrun.rev, ![gitrun.rev].files = gitrun.rev, ![gitrun.rev].ok = FALSE]
  /\ GitGoto("submodules")
  /\ UNCHANGED <<tip, pushed, db, gitspent>>

UpdateSubmodules ==
  /\ GitAt("submodules")
  /\ gitrun' = IF SubOf[gitrun.rev] = NoOid THEN [gitrun EXCEPT !.at = "mark"]
            ELSE [gitrun EXCEPT !.at = "db", !.which = "sub", !.main = gitrun.rev, !.want = SubOf[gitrun.rev],
                             !.rev = NoOid, !.retries = 0, !.reinit = FALSE]
  /\ UNCHANGED <<tip, pushed, db, checkout, gitspent>>

CopySubmodule ==
  /\ GitAt("copy") /\ gitrun.which = "sub" /\ ~db.sub.corrupt
  /\ checkout' = [checkout EXCEPT ![gitrun.main].sub = gitrun.rev]
  /\ gitrun' = [gitrun EXCEPT !.at = "mark", !.which = "main", !.rev = gitrun.main, !.want = GitRequest.locked]
  /\ UNCHANGED <<tip, pushed, db, gitspent>>

MarkOk ==
  /\ GitAt("mark")
  /\ checkout' = [checkout EXCEPT ![gitrun.rev].ok = TRUE]
  /\ GitGoto("done")
  /\ UNCHANGED <<tip, pushed, db, gitspent>>

\* the commit is known but objects of it are missing
CopyFails ==
  /\ \/ GitAt("reset") /\ db.main.corrupt
     \/ GitAt("copy") /\ gitrun.which = "sub" /\ db.sub.corrupt
  /\ GitGoto("failed")
  /\ UNCHANGED <<tip, pushed, db, checkout, gitspent>>

\* Killed; in the middle of a transfer the database may not open any more, or
\* open with objects missing.
KillGit ==
  /\ GitRunning /\ GitSpend("faults", MaxGitFaults) /\ GitGoto("failed")
  /\ \/ UNCHANGED db
     \/ GitAt("fetch") /\ \E d \in {NoDb, [Db EXCEPT !.corrupt = TRUE]} : db' = [db EXCEPT ![gitrun.which] = d]
  /\ UNCHANGED <<tip, pushed, checkout>>

GitStep ==
  \/ FetchDb \/ InitDb \/ GithubFastPath \/ MaybeGcRepo
  \/ FetchOk \/ FetchCorrupt \/ FetchFails \/ FetchDenied \/ ResolveFetched
  \/ CopyTo \/ CloneInto \/ ResetCheckout \/ UpdateSubmodules \/ CopySubmodule \/ CopyFails \/ MarkOk

GitNext ==
  \/ \E o \in Oid : MoveTip(o)
  \/ \E request \in GitRequests : StartUpdate(request)
  \/ GitStep \/ KillGit

GitSpec == GitInit /\ [][GitNext]_gitvars /\ WF_gitvars(GitStep)

-----------------------------------------------------------------------------
\* A finished update yields the locked revision or, online, a commit the
\* reference named during this very run (GitRemote::checkout: "gets the
\* up-to-date commit"), whatever stale, corrupt or half-fetched database it
\* began with, also through the fast path that fetches nothing.
UpToDateRevision ==
  GitAt("done") =>
    IF GitRequest.locked # NoOid THEN gitrun.rev = GitRequest.locked
    ELSE GitRequest.offline \/ gitrun.rev \in gitrun.seen

\* The checkout of a finished update is whole: the files of the revision and
\* the submodule at the commit it records, however earlier runs were cut off.
CheckoutWhole ==
  GitAt("done") => /\ checkout[gitrun.rev].files = gitrun.rev
                /\ checkout[gitrun.rev].sub = SubOf[gitrun.rev]

\* A server that takes the agent's key for any user name cargo knows of is
\* not failed for the names tried before, unless it hangs up on one of them:
\* the loop that goes on after two requests for a key is not left too early.
AuthTriesEveryUser ==
  \A request \in GitRequests :
    LET server == request.server
    IN server.kind = "ssh" /\ server.url = "none"
       /\ {server.helper, server.user, "git"} \intersect server.accepts # {}
       /\ {server.helper, server.user, "git"} \intersect server.drops = {}
         => WithAuthentication(server)

GitUpdated == UpToDateRevision /\ CheckoutWhole /\ AuthTriesEveryUser

\* Every run ends, answered or failed: retries and reinitialization are
\* bounded and a replaced database is not replaced again.
UpdateEnds == GitRunning ~> ~GitRunning
=============================================================================
