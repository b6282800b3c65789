---------------------------- MODULE MessageQueue ----------------------------
(***************************************************************************)
(* The queue of util/queue.rs at the level of its mutex and its two        *)
(* condition variables.  What a thread does between taking the mutex and   *)
(* releasing it, or going to sleep on a condition variable, is one step.   *)
(* A thread that sleeps is in the set of its condition variable; a woken   *)
(* one is no longer there and looks at the queue again once it has the     *)
(* mutex.                                                                  *)
(***************************************************************************)
EXTENDS Integers, Sequences, FiniteSets

CONSTANTS
  Producer,  \* the threads that push: the jobs and the jobserver's helper
  Consumer,  \* the threads that pop: the main thread
  Quota,     \* bound: [Producer -> how many messages it sends]
  Bound      \* Queue::bound

ASSUME ThreadsFinite == IsFiniteSet(Producer) /\ IsFiniteSet(Consumer)
ASSUME RolesDisjoint == Producer \intersect Consumer = {}
ASSUME QuotaNatural == Quota \in [Producer -> Nat]
ASSUME CapacityPositive == Bound \in Nat \ {0}

Thread == Producer \union Consumer
Item == UNION {{t} \X (1 .. Quota[t]) : t \in Producer}

VARIABLES
  items,       \* State::items
  popper_cv,   \* the threads asleep in pop
  bounded_cv,  \* the threads asleep in push_bounded
  op,          \* [Thread -> the method it is in]
  pc,          \* [Thread -> where it is in that method]
  data,        \* [Thread -> the item it pushes, or what it popped]
  sent         \* [Producer -> how many items it has sent]

mqvars == <<items, popper_cv, bounded_cv, op, pc, data, sent>>

MQInit ==
  /\ items = <<>>
  /\ popper_cv = {}
  /\ bounded_cv = {}
  /\ op = [t \in Thread |-> "none"]
  /\ pc = [t \in Thread |-> "idle"]
  /\ data = [t \in Thread |-> <<>>]
  /\ sent = [t \in Producer |-> 0]

\* Condvar::notify_one: the sets that may be left asleep.
NotifyOne(cv) == IF cv = {} THEN {{}} ELSE {cv \ {t} : t \in cv}

\* A thread holds the mutex for the first time in this call, or again after it
\* was woken.
HasLock(t, method, cv) ==
  /\ op[t] = method
  /\ pc[t] \in {"called", "waiting"}
  /\ t \notin cv

\* The call returns to the caller, which looks at the result at its leisure.
Done(t, results) ==
  /\ pc' = [pc EXCEPT ![t] = "return"]
  /\ data' = [data EXCEPT ![t] = results]
  /\ UNCHANGED <<op, sent>>

Sleep(t) ==
  /\ pc' = [pc EXCEPT ![t] = "waiting"]
  /\ UNCHANGED <<items, op, data, sent>>

-----------------------------------------------------------------------------
(* Calls and returns. *)

StartPush(t, method) ==
  /\ pc[t] = "idle"
  /\ sent[t] < Quota[t]
  /\ op' = [op EXCEPT ![t] = method]
  /\ pc' = [pc EXCEPT ![t] = "called"]
  /\ sent' = [sent EXCEPT ![t] = @ + 1]
  /\ data' = [data EXCEPT ![t] = <<<<t, sent[t] + 1>>>>]
  /\ UNCHANGED <<items, popper_cv, bounded_cv>>

StartPop(t, method) ==
  /\ pc[t] = "idle"
  /\ op' = [op EXCEPT ![t] = method]
  /\ pc' = [pc EXCEPT ![t] = "called"]
  /\ UNCHANGED <<items, popper_cv, bounded_cv, data, sent>>

Return(t) ==
  /\ pc[t] = "return"
  /\ op' = [op EXCEPT ![t] = "none"]
  /\ pc' = [pc EXCEPT ![t] = "idle"]
  /\ data' = [data EXCEPT ![t] = <<>>]
  /\ UNCHANGED <<items, popper_cv, bounded_cv, sent>>

-----------------------------------------------------------------------------
(* The methods. *)

\* push: the guard of the mutex is a temporary of the first statement, so the
\* notification comes in a step of its own.
Push(t) ==
  /\ HasLock(t, "push", {})
  /\ items' = items \o data[t]
  /\ pc' = [pc EXCEPT ![t] = "notify"]
  /\ data' = [data EXCEPT ![t] = <<>>]
  /\ UNCHANGED <<popper_cv, bounded_cv, op, sent>>

PushNotify(t) ==
  /\ pc[t] = "notify"
  /\ popper_cv' \in NotifyOne(popper_cv)
  /\ Done(t, <<>>)
  /\ UNCHANGED <<items, bounded_cv>>

PushBoundedWait(t) ==
  /\ HasLock(t, "push_bounded", bounded_cv)
  /\ Len(items) >= Bound
  /\ bounded_cv' = bounded_cv \union {t}
  /\ Sleep(t)
  /\ UNCHANGED popper_cv

\* Mutant: a thread that was woken does not look at the length again.
PushBoundedUnchecked(t) ==
  /\ HasLock(t, "push_bounded", bounded_cv)
  /\ pc[t] = "waiting" \/ Len(items) < Bound
  /\ items' = items \o data[t]
  /\ popper_cv' \in NotifyOne(popper_cv)
  /\ Done(t, <<>>)
  /\ UNCHANGED bounded_cv

PushBounded(t) ==
  /\ HasLock(t, "push_bounded", bounded_cv)
  /\ Len(items) < Bound
  /\ items' = items \o data[t]
  /\ popper_cv' \in NotifyOne(popper_cv)
  /\ Done(t, <<>>)
  /\ UNCHANGED bounded_cv

PopWait(t) ==
  /\ HasLock(t, "pop", popper_cv)
  /\ items = <<>>
  /\ popper_cv' = popper_cv \union {t}
  /\ Sleep(t)
  /\ UNCHANGED bounded_cv

\* pop finds an item: the pusher that is woken, if there is room, is one of those
\* asleep.
Pop(t) ==
  /\ HasLock(t, "pop", popper_cv)
  /\ items # <<>>
  /\ items' = Tail(items)
  /\ bounded_cv' \in IF Len(items) - 1 < Bound THEN NotifyOne(bounded_cv) ELSE {bounded_cv}
  /\ Done(t, <<Head(items)>>)
  /\ UNCHANGED popper_cv

\* wait_timeout_while gives up: the time is over and the queue still empty.
PopTimeout(t) ==
  /\ op[t] = "pop"
  /\ pc[t] = "waiting"
  /\ items = <<>>
  /\ popper_cv' = popper_cv \ {t}
  /\ Done(t, <<>>)
  /\ UNCHANGED <<items, bounded_cv>>

\* Mutant: emptying the queue wakes one pusher.
TryPopAllWakesOne(t) ==
  /\ HasLock(t, "try_pop_all", {})
  /\ items' = <<>>
  /\ bounded_cv' \in NotifyOne(bounded_cv)
  /\ Done(t, items)
  /\ UNCHANGED popper_cv

\* try_pop_all wakes every pusher, all the room being free.
TryPopAll(t) ==
  /\ HasLock(t, "try_pop_all", {})
  /\ items' = <<>>
  /\ bounded_cv' = {}
  /\ Done(t, items)
  /\ UNCHANGED popper_cv

\* A condition variable may wake a thread for no reason, or for its timer.
SpuriousWakeup(t) ==
  /\ pc[t] = "waiting"
  /\ popper_cv' = popper_cv \ {t}
  /\ bounded_cv' = bounded_cv \ {t}
  /\ UNCHANGED <<items, op, pc, data, sent>>
-----------------------------------------------------------------------------
\* The steps of a thread inside a call.
Method(t) ==
  \/ Push(t) \/ PushNotify(t) \/ PushBoundedWait(t) \/ PushBounded(t)
  \/ PopWait(t) \/ Pop(t) \/ TryPopAll(t) \/ Return(t)

StartConsumer(t) == \E m \in {"pop", "try_pop_all"} : StartPop(t, m)

MQNext ==
  \/ \E t \in Producer, m \in {"push", "push_bounded"} : StartPush(t, m)
  \/ \E t \in Consumer : StartConsumer(t)
  \/ \E t \in Thread : Method(t) \/ PopTimeout(t) \/ SpuriousWakeup(t)

MQSpec == MQInit /\ [][MQNext]_mqvars

\* Threads run and the consumers keep coming back, as the main loop does; no
\* timer ever has to expire.
MQFairSpec ==
  /\ MQSpec
  /\ \A t \in Thread : WF_mqvars(Method(t))
  /\ \A t \in Consumer : WF_mqvars(StartConsumer(t))
-----------------------------------------------------------------------------
(* Properties. *)

\* Types, and where a thread can sleep.
MQTypeOK ==
  /\ items \in Seq(Item)
  /\ op \in [Thread -> {"none", "push", "push_bounded", "pop", "try_pop_all"}]
  /\ pc \in [Thread -> {"idle", "called", "waiting", "notify", "return"}]
  /\ data \in [Thread -> Seq(Item)]
  /\ sent \in [Producer -> Nat]
  /\ \A t \in Producer : sent[t] <= Quota[t]
  /\ popper_cv \subseteq {t \in Thread : op[t] = "pop" /\ pc[t] = "waiting"}
  /\ bounded_cv \subseteq {t \in Thread : op[t] = "push_bounded" /\ pc[t] = "waiting"}

\* The threads that were woken from a method's condition variable and have not
\* looked at the queue again.
Woken(method, cv) == {t \in Thread : op[t] = method /\ pc[t] = "waiting"} \ cv

Notifying == {t \in Thread : pc[t] = "notify"}

\* No wakeup of pop is lost: while a thread sleeps in pop, every item in the queue
\* has a woken thread or a notification on its way for it.
PopperNotForgotten == popper_cv # {} =>
  Len(items) <= Cardinality(Woken("pop", popper_cv)) + Cardinality(Notifying)

\* No wakeup of push_bounded is lost, though pop wakes a single thread and push
\* goes past the bound: while a thread sleeps in push_bounded, woken ones account
\* for all the room there is.
PusherNotForgotten == bounded_cv # {} =>
  Len(items) + Cardinality(Woken("push_bounded", bounded_cv)) >= Bound

\* No wakeup is lost, of neither method that sleeps.
NobodyForgotten == PopperNotForgotten /\ PusherNotForgotten

\* A call has taken effect once the queue was changed, though push has a
\* notification to send still.
Stage(p) == IF p \in {"notify", "return"} THEN "after" ELSE "before"

CallOf == [t \in Thread |-> [op |-> op[t], stage |-> Stage(pc[t]), data |-> data[t]]]

BQ == INSTANCE BoundedQueue WITH call <- CallOf

\* The queue is the one its users rely on: each call takes effect at once, items
\* come out in order, once, and push_bounded respects the bound.
IsBoundedQueue == BQ!BQSpec

\* No push waits for ever as long as somebody pops, one item at a time or all, and
\* though no timer expires: the producers, which push as often as Quota has it, all return.
AllPushed == \A t \in Producer : pc[t] = "idle"
=============================================================================
