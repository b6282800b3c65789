--------------------------- MODULE DependencyQueue ---------------------------
(***************************************************************************)
(* The dependency queue of util/dependency_queue.rs: a map from every      *)
(* queued node to the (node, edge) pairs it still waits for.  A node is    *)
(* handed out by dequeue once it waits for nothing; finish(node, edge)     *)
(* says that node has produced edge and strikes the pair from every node   *)
(* that depends on it.                                                     *)
(*                                                                         *)
(* The module models the queue under its contract: every dependency is     *)
(* itself queued, the graph has no cycle, and a node that was handed out   *)
(* produces each of its edges at most once.  The job queue is shown to     *)
(* keep that contract (module JobQueue, property FinishOnce).              *)
(***************************************************************************)
EXTENDS Integers, FiniteSets, Functions, Relation

CONSTANTS
  Node,    \* the keys N of the queue: the compilation units
  Edge,    \* the edge labels E: the artifacts of a unit
  Costs    \* the costs a caller may attach to a node

ASSUME NodesFinite == IsFiniteSet(Node)
ASSUME CostsNatural == Costs \subseteq Nat

VARIABLES
  dep_map,          \* [queued nodes -> set of <<node, edge>> still awaited]
  reverse_dep_map,  \* [Node -> [Edge -> set of nodes that depend on the pair]]
  cost,             \* [queued or handed out nodes -> cost]
  priority,         \* [the same nodes -> priority], set by queue_finished
  finished          \* the pairs finish was called with (history)

qvars == <<dep_map, reverse_dep_map, cost, priority, finished>>

Pair == Node \X Edge

\* The nodes handed out by dequeue so far.
Dequeued == DOMAIN cost \ DOMAIN dep_map

\* queue_finished has been called: dequeue may be.
Prepared == DOMAIN cost # {} /\ DOMAIN priority = DOMAIN cost

EmptyMap == [x \in {} |-> x]

DQInit ==
  /\ dep_map = EmptyMap
  /\ reverse_dep_map = [n \in Node |-> [e \in Edge |-> {}]]
  /\ cost = EmptyMap
  /\ priority = EmptyMap
  /\ finished = {}

-----------------------------------------------------------------------------
(* The operations of the queue. *)

\* f with the value v at the new argument x (HashMap::insert).
Insert(f, x, v) == [y \in DOMAIN f \union {x} |-> IF y = x THEN v ELSE f[y]]

\* queue: add a node with the pairs it depends on.
Queue(key, dependencies, c) ==
  /\ key \notin DOMAIN cost
  /\ ~Prepared
  /\ dep_map' = Insert(dep_map, key, dependencies)
  /\ reverse_dep_map' = [n \in Node |-> [e \in Edge |->
       reverse_dep_map[n][e] \union {k \in {key} : <<n, e>> \in dependencies}]]
  /\ cost' = Insert(cost, key, c)
  /\ UNCHANGED <<priority, finished>>

\* One level of reverse dependencies: m depends on some edge of n.
IsReverseDep == [p \in Node \X Node |->
  \E e \in Edge : p[2] \in reverse_dep_map[p[1]][e]]

\* The set that depth computes for a key: the nodes that depend on it, directly
\* or not, and the key itself.
Depth(key) == {m \in DOMAIN dep_map :
                 ReflexiveTransitiveClosure(IsReverseDep, Node)[key, m]}

\* The assertion "cycle in DependencyQueue" of depth does not fire: there is no cycle,
\* for in any set of nodes one depends on none of them.
Acyclic == \A S \in SUBSET Node : S # {} =>
  \E n \in S : \A m \in S, e \in Edge : n \notin reverse_dep_map[m][e]

\* The caller's contract: what is depended on is queued.
DepsQueued == \A n \in DOMAIN dep_map : \A p \in dep_map[n] : p[1] \in DOMAIN dep_map

\* A node's own cost counts twice: depth's set holds the key itself.
QueueFinished ==
  /\ ~Prepared
  /\ DOMAIN dep_map # {}
  /\ DepsQueued
  /\ Acyclic
  /\ priority' = [n \in DOMAIN dep_map |-> cost[n] + SumFunctionOnSet(cost, Depth(n))]
  /\ UNCHANGED <<dep_map, reverse_dep_map, cost, finished>>

\* Mutant: a node with one dependency left is taken for ready.
ReadyTooSoon == {n \in DOMAIN dep_map : Cardinality(dep_map[n]) <= 1}

\* The nodes that wait for nothing.
Ready == {n \in DOMAIN dep_map : dep_map[n] = {}}

\* dequeue picks a ready node of the highest priority; ties fall to the order
\* of a hash map.
IsNext(n) == n \in Ready /\ \A m \in Ready : priority[m] <= priority[n]

Dequeue(n) ==
  /\ Prepared
  /\ IsNext(n)
  /\ dep_map' = Restrict(dep_map, DOMAIN dep_map \ {n})
  /\ UNCHANGED <<reverse_dep_map, cost, priority, finished>>

\* finish: strike the pair from every reverse dependency.  A reverse dependency
\* that is no longer queued would fail the unwrap, one that does not await the
\* pair any more would fail the assertion: see FinishNeverPanics.
Finish(node, edge) ==
  /\ dep_map' = [n \in DOMAIN dep_map |->
       IF n \in reverse_dep_map[node][edge]
         THEN dep_map[n] \ {<<node, edge>>} ELSE dep_map[n]]
  /\ finished' = finished \union {<<node, edge>>}
  /\ UNCHANGED <<reverse_dep_map, cost, priority>>

-----------------------------------------------------------------------------
(* The queue with a caller that keeps the contract. *)

\* The callers pass a HashMap<Unit, Artifact>: one edge for each node depended
\* on.  A graph with a cycle would fail the assertion of depth.
CallQueue == ~Prepared /\ \E n \in Node, ds \in SUBSET Pair, c \in Costs :
  /\ \A p, q \in ds : p[1] = q[1] => p = q
  /\ Queue(n, ds, c)
  /\ Acyclic'

CallDequeue == \E n \in Node : Dequeue(n)

CallFinish == \E n \in Dequeued, e \in Edge :
  /\ <<n, e>> \notin finished
  /\ Finish(n, e)

DQNext == CallQueue \/ QueueFinished \/ CallDequeue \/ CallFinish

DQSpec == DQInit /\ [][DQNext]_qvars

\* A job that was handed out produces every edge, once, and a caller that can
\* dequeue does: the loop of spawn_work_if_possible.
DQFairSpec ==
  /\ DQSpec
  /\ WF_qvars(CallDequeue)
  /\ WF_qvars(CallFinish)

-----------------------------------------------------------------------------
(* Properties. *)

\* The pairs n was queued with, read from the reverse map, which never changes
\* once the node is in.
DepsOf(n) == {p \in Pair : n \in reverse_dep_map[p[1]][p[2]]}

\* Types: only nodes with a cost are queued, and they have a priority once
\* queue_finished has run.
DQTypeOK ==
  /\ DOMAIN cost \subseteq Node
  /\ DOMAIN dep_map \subseteq DOMAIN cost
  /\ dep_map \in [DOMAIN dep_map -> SUBSET Pair]
  /\ reverse_dep_map \in [Node -> [Edge -> SUBSET DOMAIN cost]]
  /\ cost \in [DOMAIN cost -> Costs]
  /\ DOMAIN priority \in {{}, DOMAIN cost}
  /\ finished \subseteq Dequeued \X Edge

\* A queued node awaits exactly the pairs it was queued with that have not been
\* produced: dep_map and reverse_dep_map, updated by different loops of queue
\* and finish, never drift apart.
AwaitsTheRest == \A n \in DOMAIN dep_map : dep_map[n] = DepsOf(n) \ finished

\* A node handed out by dequeue had every pair it depends on produced: "A
\* package is ready to be built when it has 0 un-built dependencies".
DequeuedReady == \A n \in Dequeued : DepsOf(n) \subseteq finished

\* finish(node, edge) called for a handed-out node's unproduced edge finds every
\* reverse dependency still queued and still waiting for that pair: neither
\* dep_map.get_mut(dep).unwrap() nor assert!(edges.remove(&key)) panics.
FinishNeverPanics ==
  \A p \in (Dequeued \X Edge) \ finished : \A d \in reverse_dep_map[p[1]][p[2]] :
    d \in DOMAIN dep_map /\ p \in dep_map[d]

\* What the job queue relies on: nothing is handed out too early, and finish does not panic.
DependenciesHonoured == DequeuedReady /\ FinishNeverPanics

\* Once queue_finished accepted the graph, everything is handed out: finish is
\* never waited for by a node nobody can produce it for.
Emptied == Prepared => DOMAIN dep_map = {}
=============================================================================
