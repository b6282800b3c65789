----------------------- MODULE DependencyQueueProofs ------------------------
(***************************************************************************)
(* The safety of the dependency queue for every finite graph: the          *)
(* assertions of finish never fail and a node is handed out only when all  *)
(* it depends on has been produced.                                        *)
(***************************************************************************)
EXTENDS DependencyQueue, TLAPS

\* No node is handed out before queue_finished has run: a node queued later could
\* otherwise depend on a pair that was produced before, and wait for ever.
PreparedFirst == ~Prepared => Dequeued = {}

\* The inductive invariant: the two maps agree, what was handed out was ready, and
\* the calls came in order.
DQInv == DQTypeOK /\ AwaitsTheRest /\ DequeuedReady /\ PreparedFirst

\* finish strikes the pairs of a node that was handed out, and its reverse
\* dependencies are then still queued: this is a consequence of the invariant.
LEMMA NoPanic == DQInv => FinishNeverPanics
<1> SUFFICES ASSUME DQInv,
                    NEW p \in (Dequeued \X Edge) \ finished,
                    NEW d \in reverse_dep_map[p[1]][p[2]]
             PROVE  d \in DOMAIN dep_map /\ p \in dep_map[d]
  BY DEF FinishNeverPanics
<1> USE DEF DQInv, DQTypeOK
<1>1. p \in Pair /\ p[1] \in Node /\ p[2] \in Edge
  BY DEF Pair, Dequeued
<1>2. d \in DOMAIN cost /\ p \in DepsOf(d)
  BY <1>1 DEF DepsOf
<1>3. d \in DOMAIN dep_map
  BY <1>2 DEF DequeuedReady, Dequeued
<1> QED
  BY <1>2, <1>3 DEF AwaitsTheRest

\* Queueing a node: it depends on the pairs it comes with, and no other node's
\* dependencies change.
LEMMA QueueAddsDeps ==
  ASSUME DQInv, NEW key \in Node, NEW ds \in SUBSET Pair, NEW c, Queue(key, ds, c)
  PROVE  /\ DepsOf(key)' = ds
         /\ \A n \in DOMAIN cost : DepsOf(n)' = DepsOf(n)
         /\ DOMAIN cost' = DOMAIN cost \union {key}
         /\ ~Prepared'
<1> USE DEF DQInv, DQTypeOK
<1>1. \A p \in Pair : reverse_dep_map'[p[1]][p[2]] =
        IF p \in ds THEN reverse_dep_map[p[1]][p[2]] \union {key}
        ELSE reverse_dep_map[p[1]][p[2]]
  <2> SUFFICES ASSUME NEW p \in Pair
               PROVE  reverse_dep_map'[p[1]][p[2]] =
                        IF p \in ds THEN reverse_dep_map[p[1]][p[2]] \union {key}
                        ELSE reverse_dep_map[p[1]][p[2]]
    BY Zenon
  <2>1. p[1] \in Node /\ p[2] \in Edge /\ p = <<p[1], p[2]>>
    BY DEF Pair
  <2> QED
    BY <2>1 DEF Queue
<1>2. \A p \in Pair : key \notin reverse_dep_map[p[1]][p[2]]
  BY DEF Queue, Pair
<1>3. DepsOf(key)' = ds
  BY <1>1, <1>2, Zenon DEF DepsOf
<1>4. ASSUME NEW n \in DOMAIN cost PROVE DepsOf(n)' = DepsOf(n)
  <2>1. n # key
    BY DEF Queue
  <2>2. \A p \in Pair : n \in reverse_dep_map'[p[1]][p[2]] <=> n \in reverse_dep_map[p[1]][p[2]]
    BY <2>1, <1>1, Zenon
  <2> QED
    BY <2>2 DEF DepsOf
<1>5. DOMAIN cost' = DOMAIN cost \union {key}
  BY DEF Queue, Insert
<1>6. DOMAIN priority' = {}
  BY Zenon DEF Queue, Prepared
<1> QED
  BY <1>3, <1>4, <1>5, <1>6 DEF Prepared

\* Its pairs enter both maps.
LEMMA QueueKeepsInv ==
  ASSUME DQInv, NEW key \in Node, NEW ds \in SUBSET Pair, NEW c \in Costs, Queue(key, ds, c)
  PROVE  DQInv'
<1> USE DEF DQInv, DQTypeOK
<1>1. Dequeued = {} /\ finished = {} /\ DOMAIN cost = DOMAIN dep_map
  BY DEF Queue, PreparedFirst, Dequeued
<1>2. /\ DOMAIN cost' = DOMAIN cost \union {key}
      /\ DOMAIN dep_map' = DOMAIN dep_map \union {key}
      /\ dep_map'[key] = ds
      /\ \A n \in DOMAIN dep_map : dep_map'[n] = dep_map[n]
      /\ cost' \in [DOMAIN cost' -> Costs]
  BY DEF Queue, Insert
<1>3. reverse_dep_map' \in [Node -> [Edge -> SUBSET DOMAIN cost']]
  BY <1>2 DEF Queue
<1>4. DOMAIN priority = {}
  BY Zenon DEF Queue, Prepared
<1>5. DQTypeOK'
  <2>1. dep_map' \in [DOMAIN dep_map' -> SUBSET Pair]
    BY DEF Queue, Insert
  <2>2. finished' = {} /\ DOMAIN priority' = {}
    BY <1>1, <1>4 DEF Queue
  <2>3. DOMAIN dep_map' \subseteq DOMAIN cost' /\ DOMAIN cost' \subseteq Node
    BY <1>1, <1>2
  <2> QED
    BY <1>2, <1>3, <2>1, <2>2, <2>3
<1>6. AwaitsTheRest'
  <2> SUFFICES ASSUME NEW n \in DOMAIN dep_map'
               PROVE  dep_map'[n] = DepsOf(n)'
    BY <1>1 DEF AwaitsTheRest, Queue
  <2>1. DepsOf(key)' = ds /\ \A m \in DOMAIN cost : DepsOf(m)' = DepsOf(m)
    BY QueueAddsDeps, Zenon
  <2> QED
    BY <2>1, <1>1, <1>2 DEF AwaitsTheRest
<1>7. Dequeued' = {}
  BY <1>1, <1>2 DEF Dequeued
<1> QED
  BY <1>5, <1>6, <1>7 DEF DequeuedReady, PreparedFirst

\* queue_finished only sets the priorities, whatever they are.
LEMMA PrioritiesKeepInv ==
  ASSUME DQInv, ~Prepared, DOMAIN dep_map # {}, DOMAIN priority' = DOMAIN dep_map,
         UNCHANGED <<dep_map, reverse_dep_map, cost, finished>>
  PROVE  DQInv' /\ Prepared'
<1> USE DEF DQInv, DQTypeOK
<1>1. DOMAIN cost = DOMAIN dep_map
  BY DEF PreparedFirst, Dequeued
<1>2. DOMAIN priority' = DOMAIN cost
  BY <1>1
<1> QED
  BY <1>1, <1>2 DEF AwaitsTheRest, DequeuedReady, PreparedFirst, Dequeued, DepsOf, Prepared

\* queue_finished keeps the invariant.
LEMMA QueueFinishedKeepsInv == DQInv /\ QueueFinished => DQInv'
BY PrioritiesKeepInv DEF QueueFinished

\* dequeue hands out a node that waits for nothing.
LEMMA DequeueKeepsInv ==
  ASSUME DQInv, NEW n \in Node, Dequeue(n)
  PROVE  DQInv'
<1> USE DEF DQInv, DQTypeOK
<1>1. /\ n \in DOMAIN dep_map /\ dep_map[n] = {}
      /\ DOMAIN dep_map' = DOMAIN dep_map \ {n}
      /\ \A m \in DOMAIN dep_map' : dep_map'[m] = dep_map[m]
  BY DEF Dequeue, IsNext, Ready, Restrict
<1>2. Dequeued' = Dequeued \union {n}
  BY <1>1 DEF Dequeued, Dequeue
<1>3. DQTypeOK'
  BY <1>1, <1>2 DEF Dequeue, Restrict
<1>4. AwaitsTheRest'
  BY <1>1, Zenon DEF AwaitsTheRest, DepsOf, Dequeue
<1>5. DequeuedReady'
  BY <1>1, <1>2 DEF AwaitsTheRest, DequeuedReady, DepsOf, Dequeue
<1> QED
  BY <1>3, <1>4, <1>5, Zenon DEF PreparedFirst, Prepared, Dequeue

\* finish strikes the pair wherever it is awaited.
LEMMA FinishKeepsInv ==
  ASSUME DQInv, NEW n \in Dequeued, NEW e \in Edge, Finish(n, e)
  PROVE  DQInv'
<1> USE DEF DQInv, DQTypeOK
<1>1. n \in Node /\ <<n, e>> \in Pair
  BY DEF Dequeued, Pair
<1>2. /\ DOMAIN dep_map' = DOMAIN dep_map
      /\ Dequeued' = Dequeued
      /\ \A m : DepsOf(m)' = DepsOf(m)
  BY DEF Finish, Dequeued, DepsOf
<1>3. DQTypeOK'
  BY <1>2 DEF Finish
<1>4. AwaitsTheRest'
  <2> SUFFICES ASSUME NEW m \in DOMAIN dep_map
               PROVE  dep_map'[m] = DepsOf(m) \ finished'
    BY <1>2 DEF AwaitsTheRest
  <2>1. m \in reverse_dep_map[n][e] <=> <<n, e>> \in DepsOf(m)
    BY <1>1 DEF DepsOf
  <2> QED
    BY <2>1, Zenon DEF Finish, AwaitsTheRest
<1>5. DequeuedReady'
  BY <1>2 DEF DequeuedReady, Finish
<1> QED
  BY <1>2, <1>3, <1>4, <1>5 DEF PreparedFirst, Prepared, Finish

\* The invariant holds of every behaviour of the queue, whatever the finite graph,
\* the costs and the order of the calls.
THEOREM DQInvariant == DQSpec => []DQInv
<1>1. DQInit => DQInv
  BY DEF DQInit, DQInv, DQTypeOK, AwaitsTheRest, DequeuedReady, PreparedFirst, Dequeued,
         DepsOf, Prepared, EmptyMap, Pair
<1>2. DQInv /\ [DQNext]_qvars => DQInv'
  <2> SUFFICES ASSUME DQInv, [DQNext]_qvars PROVE DQInv'
    OBVIOUS
  <2>1. CASE CallQueue
    BY <2>1, QueueKeepsInv DEF CallQueue
  <2>2. CASE QueueFinished
    BY <2>2, QueueFinishedKeepsInv
  <2>3. CASE CallDequeue
    BY <2>3, DequeueKeepsInv DEF CallDequeue
  <2>4. CASE CallFinish
    BY <2>4, FinishKeepsInv DEF CallFinish
  <2>5. CASE UNCHANGED qvars
    BY <2>5 DEF qvars, DQInv, DQTypeOK, AwaitsTheRest, DequeuedReady, PreparedFirst,
                Dequeued, DepsOf, Prepared
  <2> QED
    BY <2>1, <2>2, <2>3, <2>4, <2>5 DEF DQNext
<1> QED
  BY <1>1, <1>2, PTL DEF DQSpec

\* The unwrap and the assertion of finish never panic: every reverse dependency of
\* an edge not yet produced is still queued and waits for it.
THEOREM FinishSafe == DQSpec => []FinishNeverPanics
BY DQInvariant, NoPanic, PTL

\* dequeue hands a node out only when everything it depends on was produced.
THEOREM DequeueSafe == DQSpec => []DequeuedReady
<1>1. DQInv => DequeuedReady
  BY DEF DQInv
<1> QED
  BY <1>1, DQInvariant, PTL

\* Both promises of the queue to the main thread: what it hands out can be built,
\* and being told of what was built never fails.
THEOREM QueueSafe == DQSpec => []DependenciesHonoured
<1>1. FinishNeverPanics /\ DequeuedReady => DependenciesHonoured
  BY DEF DependenciesHonoured
<1> QED
  BY <1>1, FinishSafe, DequeueSafe, PTL
=============================================================================
