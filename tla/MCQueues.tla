------------------------------ MODULE MCQueues ------------------------------
(***************************************************************************)
(* Four components that share no state, side by side: a behaviour is one   *)
(* of one component, and the others stay where they begin.                 *)
(*   The build directory: cargos that build lib, app (which uses lib) and  *)
(*   tool in it.                                                           *)
(*   The dependency queue: every dependency graph over three nodes and the *)
(*   two artifacts of a unit, queued in every order, with two costs.       *)
(*   The message queue: three producers, one of which can fill the queue   *)
(*   while the others wait, and one consumer.                              *)
(*   The HTTP client: two callers.                                         *)
(***************************************************************************)
EXTENDS BuildDir, DependencyQueue, MessageQueue, HttpClient, TLC

CONSTANTS n1, n2, n3, p1, p2, p3, c1, lib, app, tool

MCProcess == {p1, p2, p3}
MCUnit == {lib, app, tool}
MCDeps == [u \in MCUnit |-> IF u = app THEN {lib} ELSE {}]

Mixed == (p1 :> "build") @@ (p2 :> "check") @@ (p3 :> "clean")
Checks == (p1 :> "check") @@ (p2 :> "check") @@ (p3 :> "none")

\* One lock for the directory; unit locks that are converted in two steps.
MCConfigs ==
  {[kind |-> Mixed, scripts |-> {lib}, fine_grain |-> FALSE, atomic |-> FALSE],
   [kind |-> Checks, scripts |-> {tool}, fine_grain |-> TRUE, atomic |-> FALSE]}

\* Unit locks on a system that converts them in one step.
MCAtomic == {[kind |-> Checks, scripts |-> {}, fine_grain |-> TRUE, atomic |-> TRUE]}

MCNode == {n1, n2, n3}
MCEdge == {"All", "Metadata"}
MCCosts == {1, 2}

MCProducer == {p1, p2, p3}
MCConsumer == {c1}
MCFetch == {p1, p2}
MCQuota == (p1 :> 2) @@ (p2 :> 1) @@ (p3 :> 1)

VARIABLE component

Init ==
  /\ component \in {"directory", "dependencies", "messages", "http"}
  /\ BDInit /\ DQInit /\ MQInit /\ HInit
  /\ component # "directory" => config = (CHOOSE c \in Configs : TRUE) /\ valid = {} /\ edited = Unit

Directory == component = "directory" /\ UNCHANGED <<component, qvars, mqvars, hvars>>
Dependencies == component = "dependencies" /\ UNCHANGED <<component, bdvars, mqvars, hvars>>
Messages == component = "messages" /\ UNCHANGED <<component, bdvars, qvars, hvars>>
Http == component = "http" /\ UNCHANGED <<component, bdvars, qvars, mqvars>>

Next ==
  \/ Directory /\ BDNext
  \/ Dependencies /\ DQNext
  \/ Messages /\ MQNext
  \/ Http /\ HNext

vars == <<component, bdvars, qvars, mqvars, hvars>>

\* As in BDFairSpec, DQFairSpec, MQFairSpec and HFairSpec; what is fair in one component is
\* put together with what is fair in another, for only one of them ever goes on.
OfThread(t) ==
  \/ Directory /\ Step(t)
  \/ Messages /\ t \in Producer /\ Method(t)
  \/ Http /\ t \in Fetch /\ Request(t)
OfWorker == (Dependencies /\ CallDequeue) \/ (Messages /\ \E t \in Consumer : Method(t)) \/ (Http /\ WorkerStep)
OfOthers == (Dependencies /\ CallFinish) \/ (Messages /\ \E t \in Consumer : StartConsumer(t)) \/ (Http /\ TimePasses)

Spec ==
  /\ Init /\ [][Next]_vars
  /\ \A t \in MCProcess : WF_vars(OfThread(t))
  /\ WF_vars(OfWorker) /\ WF_vars(OfOthers) /\ WF_vars(Http /\ ClientDrop)

\* The build directory alone.
DirectorySpec == component = "directory" /\ Spec

\* Work goes on in all four: cargos that share a build directory end (AllEnded), the queue of
\* units is emptied (Emptied), every push returns (AllPushed), and every HTTP request is
\* answered (AllAnswered). Those that stay where they begin have nothing to do.
QueuesProgress ==
  []<>((AllEnded \/ component # "directory") /\ Emptied /\ AllPushed /\ AllAnswered)
=============================================================================
