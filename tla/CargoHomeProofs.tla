--------------------------- MODULE CargoHomeProofs --------------------------
(***************************************************************************)
(* Proofs about what processes share in the home directory of cargo: the   *)
(* locks of the package cache, and the clones of git repositories.         *)
(***************************************************************************)
EXTENDS CacheLock, GitSource, TLAPS

-----------------------------------------------------------------------------
(***************************************************************************)
(* The package cache lock, for any number of processes.  The inductive     *)
(* invariant CLInv adds to CountsAreGuards what each file lock is held as  *)
(* (HeldAs), what guards it carries (GuardsExclusive), that the system     *)
(* never grants conflicting locks (FilesExclusive), and in which order     *)
(* files are asked for (AskOrder), from which exclusion and the absence of *)
(* deadlock follow without further induction.                              *)
(***************************************************************************)

\* A file lock is held in the style the locker believes.
HeldAs(p) == \A f \in File : lock[p][f] # "none" => lock[p][f] = is_exclusive[p][f]

\* No guard that promises exclusion rests on a lock taken as shared.
GuardsExclusive(p) ==
  /\ count[p]["cache"] > 0 => is_exclusive[p]["cache"] = "exclusive"
  /\ guards[p]["MutateExclusive"] > 0 \/ Pending(p) > 0 => is_exclusive[p]["mutate"] = "exclusive"

\* What CacheState::lock and the call sites established when the call began.
AskOrder(p) ==
  /\ pc[p] = "mutate" => mode[p] # "DownloadExclusive"
  /\ pc[p] = "cache" => mode[p] # "Shared"
  /\ pc[p] = "mutate" => ~Panics(p, mode[p]) /\ CallSite(p, mode[p], blocking[p])

FilesExclusive == \A p, q \in Process, f \in File :
  p # q /\ lock[p][f] = "exclusive" => lock[q][f] = "none"

\* The inductive invariant.
CLInv ==
  /\ CLTypeOK
  /\ CountsAreGuards
  /\ FilesExclusive
  /\ \A p \in Process : HeldAs(p) /\ GuardsExclusive(p) /\ AskOrder(p)
-----------------------------------------------------------------------------
\* Before its first call a process holds nothing and asks for nothing.
LEMMA InvInit == CLInit => CLInv
BY BudgetsNatural DEF CLInit, CLInv, CLTypeOK, CountsAreGuards, FilesExclusive, HeldAs,
   GuardsExclusive, AskOrder, Pending, File, Style, Mode, BlockingMode

\* What taking a file lock does to the types and the counts.
LEMMA AcquiredTypes ==
  ASSUME CLTypeOK, NEW p \in Process, pc[p] # "run", LockAcquired(p)
  PROVE  /\ count' \in [Process -> [File -> Nat]]
         /\ guards' \in [Process -> [Mode -> Nat]]
         /\ pc' \in [Process -> File \union {"run"}]
         /\ mode' \in [Process -> Mode]
         /\ blocking' \in [Process -> BlockingMode]
         /\ calls' \in [Process -> Nat]
<1>1. /\ count[p] \in [File -> Nat] /\ pc[p] \in File
      /\ guards[p] \in [Mode -> Nat] /\ mode[p] \in Mode
  BY DEF CLTypeOK
<1>2. [count[p] EXCEPT ![pc[p]] = @ + 1] \in [File -> Nat]
  BY <1>1
<1>3. count' \in [Process -> [File -> Nat]]
  BY <1>1, <1>2 DEF LockAcquired, CLTypeOK
<1>4. [guards[p] EXCEPT ![mode[p]] = @ + 1] \in [Mode -> Nat]
  BY <1>1
<1>5. guards' \in [Process -> [Mode -> Nat]]
  BY <1>1, <1>4, Zenon DEF LockAcquired, CLTypeOK
<1> QED
  BY <1>3, <1>5, Zenon DEF LockAcquired, Return, CLTypeOK, File, Mode, BlockingMode

\* The counters stay those of the guards when a lock is taken or counted once more.
LEMMA AcquiredCounts ==
  ASSUME CLInv, NEW p \in Process, pc[p] # "run", LockAcquired(p), NEW q \in Process
  PROVE  /\ count'[q]["cache"] = guards'[q]["DownloadExclusive"] + guards'[q]["MutateExclusive"]
         /\ count'[q]["mutate"]
              = guards'[q]["Shared"] + guards'[q]["MutateExclusive"] + Pending(q)'
         /\ \A f \in File : count'[q][f] >= count[q][f]
         /\ count'[p][pc[p]] > 0
<1> USE DEF CLInv, CLTypeOK, File, Mode
<1>a. /\ count[q]["cache"] = guards[q]["DownloadExclusive"] + guards[q]["MutateExclusive"]
      /\ count[q]["mutate"] = guards[q]["Shared"] + guards[q]["MutateExclusive"] + Pending(q)
  BY DEF CountsAreGuards
<1>b. count[q]["cache"] \in Nat /\ count[q]["mutate"] \in Nat /\ \A m \in Mode : guards[q][m] \in Nat
  OBVIOUS
<1>1. CASE q # p
  BY <1>1 DEF LockAcquired, Return, CountsAreGuards, Pending
<1>2. CASE q = p /\ pc[p] = "cache" /\ mode[p] = "DownloadExclusive"
  <2>1. /\ count' = [count EXCEPT ![p]["cache"] = @ + 1]
        /\ guards' = [guards EXCEPT ![p]["DownloadExclusive"] = @ + 1]
        /\ pc'[p] = "run"
    BY <1>2 DEF LockAcquired, Return
  <2>2. Pending(q)' = 0 /\ Pending(q) = 0
    BY <1>2, <2>1 DEF Pending
  <2>3. /\ count'[q]["cache"] = count[q]["cache"] + 1 /\ count'[q]["mutate"] = count[q]["mutate"]
        /\ guards'[q]["DownloadExclusive"] = guards[q]["DownloadExclusive"] + 1
        /\ guards'[q]["Shared"] = guards[q]["Shared"]
        /\ guards'[q]["MutateExclusive"] = guards[q]["MutateExclusive"]
    BY <1>2, <2>1
  <2> QED
    BY <1>2, <1>a, <1>b, <2>2, <2>3
<1>3. CASE q = p /\ pc[p] = "cache" /\ mode[p] = "MutateExclusive"
  <2>1. /\ count' = [count EXCEPT ![p]["cache"] = @ + 1]
        /\ guards' = [guards EXCEPT ![p]["MutateExclusive"] = @ + 1]
        /\ pc'[p] = "run"
    BY <1>3 DEF LockAcquired, Return
  <2>2. Pending(q)' = 0 /\ Pending(q) = 1
    BY <1>3, <2>1 DEF Pending
  <2>3. /\ count'[q]["cache"] = count[q]["cache"] + 1 /\ count'[q]["mutate"] = count[q]["mutate"]
        /\ guards'[q]["MutateExclusive"] = guards[q]["MutateExclusive"] + 1
        /\ guards'[q]["Shared"] = guards[q]["Shared"]
        /\ guards'[q]["DownloadExclusive"] = guards[q]["DownloadExclusive"]
    BY <1>3, <2>1
  <2> QED
    BY <1>3, <1>a, <1>b, <2>2, <2>3
<1>4. CASE q = p /\ pc[p] = "mutate" /\ mode[p] = "Shared"
  <2>1. /\ count' = [count EXCEPT ![p]["mutate"] = @ + 1]
        /\ guards' = [guards EXCEPT ![p]["Shared"] = @ + 1]
        /\ pc'[p] = "run"
    BY <1>4 DEF LockAcquired, Return
  <2>2. Pending(q)' = 0 /\ Pending(q) = 0
    BY <1>4, <2>1 DEF Pending
  <2>3. /\ count'[q]["mutate"] = count[q]["mutate"] + 1 /\ count'[q]["cache"] = count[q]["cache"]
        /\ guards'[q]["Shared"] = guards[q]["Shared"] + 1
        /\ guards'[q]["DownloadExclusive"] = guards[q]["DownloadExclusive"]
        /\ guards'[q]["MutateExclusive"] = guards[q]["MutateExclusive"]
    BY <1>4, <2>1
  <2> QED
    BY <1>4, <1>a, <1>b, <2>2, <2>3
<1>5. CASE q = p /\ pc[p] = "mutate" /\ mode[p] = "MutateExclusive"
  BY <1>5 DEF LockAcquired, Return, CountsAreGuards, Pending
<1> QED
  BY <1>1, <1>2, <1>3, <1>4, <1>5 DEF AskOrder

\* What giving file locks back does to each counter and each file.
LEMMA DecrementedTypes ==
  ASSUME CLTypeOK, NEW p \in Process, NEW files \in SUBSET File, Decremented(p, files),
         \A f \in files : count[p][f] > 0
  PROVE  /\ count' \in [Process -> [File -> Nat]]
         /\ lock' \in [Process -> [File -> Style \union {"none"}]]
         /\ \A q \in Process, f \in File :
              /\ count'[q][f] = IF q = p /\ f \in files THEN count[q][f] - 1 ELSE count[q][f]
              /\ lock'[q][f] = IF q = p /\ f \in files /\ count[p][f] = 1
                               THEN "none" ELSE lock[q][f]
<1>1. \A f \in files : count[p][f] - 1 \in Nat
  BY DEF CLTypeOK
<1>2. [f \in File |-> IF f \in files THEN count[p][f] - 1 ELSE count[p][f]] \in [File -> Nat]
  BY <1>1 DEF CLTypeOK
<1>3. count' \in [Process -> [File -> Nat]]
  BY <1>2 DEF CLTypeOK, Decremented
<1>4. lock' \in [Process -> [File -> Style \union {"none"}]]
  BY DEF CLTypeOK, Decremented
<1> QED
  BY <1>3, <1>4 DEF CLTypeOK, Decremented

\* A call that is given up counts a file it gives back.
LEMMA AbandonedDecrements ==
  ASSUME CLInv, NEW p \in Process, Abandoned(p)
  PROVE  \E files \in SUBSET File : Decremented(p, files) /\ \A f \in files : count[p][f] > 0
<1>1. CASE mode[p] = "MutateExclusive" /\ pc[p] = "cache"
  <2>1. Decremented(p, {"mutate"})
    BY <1>1 DEF Abandoned
  <2>2. guards[p]["Shared"] \in Nat /\ guards[p]["MutateExclusive"] \in Nat
    BY DEF CLInv, CLTypeOK, Mode
  <2>3. count[p]["mutate"] > 0
    BY <1>1, <2>2 DEF CLInv, CountsAreGuards, Pending
  <2> QED
    BY <2>1, <2>3 DEF File
<1>2. CASE ~(mode[p] = "MutateExclusive" /\ pc[p] = "cache")
  <2>1. Decremented(p, {})
    BY <1>2 DEF Abandoned
  <2> QED
    BY <2>1
<1> QED
  BY <1>1, <1>2

\* The files of a guard, which its drop gives back, are counted.
LEMMA GuardCounted ==
  ASSUME CLInv, NEW p \in Process, NEW m \in Mode, pc[p] = "run", guards[p][m] > 0
  PROVE  /\ FilesOf(m) \in SUBSET File
         /\ \A f \in FilesOf(m) : count[p][f] > 0
         /\ count[p]["cache"] = guards[p]["DownloadExclusive"] + guards[p]["MutateExclusive"]
         /\ count[p]["mutate"] = guards[p]["Shared"] + guards[p]["MutateExclusive"]
<1>1. \A n \in Mode : guards[p][n] \in Nat
  BY DEF CLInv, CLTypeOK
<1>2. /\ count[p]["cache"] = guards[p]["DownloadExclusive"] + guards[p]["MutateExclusive"]
      /\ count[p]["mutate"] = guards[p]["Shared"] + guards[p]["MutateExclusive"]
  BY <1>1 DEF CLInv, CountsAreGuards, Pending, Mode
<1>3. CASE m = "Shared"
  BY <1>1, <1>2, <1>3 DEF FilesOf, Mode, File
<1>4. CASE m = "DownloadExclusive"
  BY <1>1, <1>2, <1>4 DEF FilesOf, Mode, File
<1>5. CASE m = "MutateExclusive"
  BY <1>1, <1>2, <1>5 DEF FilesOf, Mode, File
<1> QED
  BY <1>3, <1>4, <1>5 DEF Mode

\* Every step of a locker keeps the invariant.
LEMMA InvStep == CLInv /\ [CLNext]_clvars => CLInv'
<1> SUFFICES ASSUME CLInv, [CLNext]_clvars PROVE CLInv'
  OBVIOUS
<1> USE DEF CLInv, CLTypeOK, File, Style, Mode, BlockingMode
<1>1. ASSUME NEW p \in Process, NEW m \in Mode, NEW b \in BlockingMode, Call(p, m, b) PROVE CLInv'
  <2>1. CLTypeOK'
    BY <1>1 DEF Call
  <2>2. CountsAreGuards'
    BY <1>1 DEF Call, CountsAreGuards, Pending
  <2>3. FilesExclusive'
    BY <1>1 DEF Call, FilesExclusive
  <2>4. \A q \in Process : HeldAs(q)'
    BY <1>1 DEF Call, HeldAs, CountsAreGuards
  <2>5. \A q \in Process : GuardsExclusive(q)'
    BY <1>1 DEF Call, GuardsExclusive, CountsAreGuards, AskOrder, Pending, Panics
  <2>6. \A q \in Process : AskOrder(q)'
    BY <1>1 DEF Call, AskOrder, Panics, CallSite
  <2> QED
    BY <2>1, <2>2, <2>3, <2>4, <2>5, <2>6
<1>2. ASSUME NEW p \in Process, Recursive(p) PROVE CLInv'
  <2>0. pc[p] # "run" /\ LockAcquired(p)
    BY <1>2 DEF Recursive
  <2>1. CLTypeOK'
    BY <1>2, <2>0, AcquiredTypes DEF Recursive
  <2>2. CountsAreGuards'
    BY <1>2, <2>0, <2>1, AcquiredCounts DEF Recursive, CountsAreGuards
  <2>3. FilesExclusive'
    BY <1>2 DEF Recursive, LockAcquired, Return, FilesExclusive
  <2>4. \A q \in Process : HeldAs(q)'
    BY <1>2 DEF Recursive, LockAcquired, Return, HeldAs, CountsAreGuards
  <2>5. \A q \in Process : GuardsExclusive(q)'
    BY <1>2 DEF Recursive, LockAcquired, Return, GuardsExclusive, CountsAreGuards, AskOrder, Pending, Panics
  <2>6. \A q \in Process : AskOrder(q)'
    BY <1>2 DEF Recursive, LockAcquired, Return, AskOrder, Panics, CallSite
  <2> QED
    BY <2>1, <2>2, <2>3, <2>4, <2>5, <2>6
<1>3. ASSUME NEW p \in Process, Acquire(p) PROVE CLInv'
  <2>0. pc[p] # "run" /\ LockAcquired(p)
    BY <1>3 DEF Acquire, Asks
  <2>1. CLTypeOK'
    BY <1>3, <2>0, AcquiredTypes DEF Acquire, Asks, StyleOf
  <2>2. CountsAreGuards'
    BY <1>3, <2>0, <2>1, AcquiredCounts DEF Acquire, Asks, CountsAreGuards
  <2>3. FilesExclusive'
    BY <1>3 DEF Acquire, Asks, LockAcquired, Return, StyleOf, FilesExclusive, Grantable
  <2>4. \A q \in Process : HeldAs(q)'
    BY <1>3 DEF Acquire, Asks, LockAcquired, Return, StyleOf, HeldAs, CountsAreGuards
  <2>5. \A q \in Process : GuardsExclusive(q)'
    BY <1>3 DEF Acquire, Asks, LockAcquired, Return, StyleOf, GuardsExclusive, CountsAreGuards, AskOrder, Pending, Panics
  <2>6. \A q \in Process : AskOrder(q)'
    BY <1>3 DEF Acquire, Asks, LockAcquired, Return, StyleOf, AskOrder, Panics, CallSite
  <2> QED
    BY <2>1, <2>2, <2>3, <2>4, <2>5, <2>6
<1>4. ASSUME NEW p \in Process, WouldBlock(p) PROVE CLInv'
  <2>0. PICK files \in SUBSET File : Decremented(p, files) /\ \A f \in files : count[p][f] > 0
    BY <1>4, AbandonedDecrements, SMTT(30) DEF WouldBlock
  <2>1. CLTypeOK'
    BY <1>4, <2>0, DecrementedTypes, Zenon DEF WouldBlock, Asks, Abandoned, Return, StyleOf
  <2>2. CountsAreGuards'
    BY <1>4 DEF WouldBlock, Asks, Abandoned, Decremented, Return, StyleOf, CountsAreGuards, Pending
  <2>3. FilesExclusive'
    BY <1>4 DEF WouldBlock, Asks, Abandoned, Decremented, Return, StyleOf, FilesExclusive
  <2>4. \A q \in Process : HeldAs(q)'
    BY <1>4 DEF WouldBlock, Asks, Abandoned, Decremented, Return, StyleOf, HeldAs, CountsAreGuards
  <2>5. \A q \in Process : GuardsExclusive(q)'
    BY <1>4 DEF WouldBlock, Asks, Abandoned, Decremented, Return, StyleOf, GuardsExclusive, CountsAreGuards, AskOrder, Pending, Panics
  <2>6. \A q \in Process : AskOrder(q)'
    BY <1>4 DEF WouldBlock, Asks, Abandoned, Decremented, Return, StyleOf, AskOrder, Panics, CallSite
  <2> QED
    BY <2>1, <2>2, <2>3, <2>4, <2>5, <2>6
<1>5. ASSUME NEW p \in Process, Pretend(p) PROVE CLInv'
  <2>0. pc[p] # "run" /\ LockAcquired(p)
    BY <1>5 DEF Pretend, Asks
  <2>1. CLTypeOK'
    BY <1>5, <2>0, AcquiredTypes DEF Pretend, Asks, StyleOf
  <2>2. CountsAreGuards'
    BY <1>5, <2>0, <2>1, AcquiredCounts DEF Pretend, Asks, CountsAreGuards
  <2>3. FilesExclusive'
    BY <1>5 DEF Pretend, Asks, LockAcquired, Return, StyleOf, FilesExclusive
  <2>4. \A q \in Process : HeldAs(q)'
    BY <1>5 DEF Pretend, Asks, LockAcquired, Return, StyleOf, HeldAs, CountsAreGuards
  <2>5. \A q \in Process : GuardsExclusive(q)'
    BY <1>5 DEF Pretend, Asks, LockAcquired, Return, StyleOf, GuardsExclusive, CountsAreGuards, AskOrder, Pending, Panics
  <2>6. \A q \in Process : AskOrder(q)'
    BY <1>5 DEF Pretend, Asks, LockAcquired, Return, StyleOf, AskOrder, Panics, CallSite
  <2> QED
    BY <2>1, <2>2, <2>3, <2>4, <2>5, <2>6
<1>6. ASSUME NEW p \in Process, PretendOnError(p) PROVE CLInv'
  <2>0. pc[p] # "run" /\ LockAcquired(p)
    BY <1>6 DEF PretendOnError, Asks
  <2>1. CLTypeOK'
    BY <1>6, <2>0, AcquiredTypes DEF PretendOnError, Asks, StyleOf
  <2>2. CountsAreGuards'
    BY <1>6, <2>0, <2>1, AcquiredCounts DEF PretendOnError, Asks, CountsAreGuards
  <2>3. FilesExclusive'
    BY <1>6 DEF PretendOnError, Asks, LockAcquired, Return, StyleOf, FilesExclusive
  <2>4. \A q \in Process : HeldAs(q)'
    BY <1>6 DEF PretendOnError, Asks, LockAcquired, Return, StyleOf, HeldAs, CountsAreGuards
  <2>5. \A q \in Process : GuardsExclusive(q)'
    <3>1. mode[p] = "Shared" /\ pc[p] = "mutate"
      BY <1>6 DEF PretendOnError, Asks, StyleOf, AskOrder
    <3>2. /\ guards[p]["Shared"] \in Nat /\ guards[p]["MutateExclusive"] \in Nat
          /\ count[p]["mutate"] = 0 /\ Pending(p) = 0
      BY <1>6, <3>1 DEF PretendOnError, Asks, Pending
    <3>3. guards[p]["MutateExclusive"] = 0
      BY <3>2 DEF CountsAreGuards
    <3>4. /\ guards' = [guards EXCEPT ![p]["Shared"] = @ + 1] /\ pc'[p] = "run"
          /\ count' = [count EXCEPT ![p]["mutate"] = @ + 1]
          /\ is_exclusive' = [is_exclusive EXCEPT ![p]["mutate"] = "shared"]
          /\ \A q \in Process : q # p => Pending(q)' = Pending(q)
      BY <1>6, <3>1, ZenonT(30) DEF PretendOnError, Asks, LockAcquired, Return, StyleOf, Pending
    <3>5. Pending(p)' = 0
      BY <3>4 DEF Pending
    <3> QED
      BY <3>3, <3>4, <3>5 DEF GuardsExclusive
  <2>6. \A q \in Process : AskOrder(q)'
    BY <1>6 DEF PretendOnError, Asks, LockAcquired, Return, StyleOf, AskOrder, Panics, CallSite
  <2> QED
    BY <2>1, <2>2, <2>3, <2>4, <2>5, <2>6
<1>7. ASSUME NEW p \in Process, Fail(p) PROVE CLInv'
  <2>0. PICK files \in SUBSET File : Decremented(p, files) /\ \A f \in files : count[p][f] > 0
    BY <1>7, AbandonedDecrements, SMTT(30) DEF Fail
  <2>1. CLTypeOK'
    BY <1>7, <2>0, DecrementedTypes, Zenon DEF Fail, Asks, Abandoned, Return, StyleOf
  <2>2. CountsAreGuards'
    BY <1>7 DEF Fail, Asks, Abandoned, Decremented, Return, StyleOf, CountsAreGuards, Pending
  <2>3. FilesExclusive'
    BY <1>7 DEF Fail, Asks, Abandoned, Decremented, Return, StyleOf, FilesExclusive
  <2>4. \A q \in Process : HeldAs(q)'
    BY <1>7 DEF Fail, Asks, Abandoned, Decremented, Return, StyleOf, HeldAs, CountsAreGuards
  <2>5. \A q \in Process : GuardsExclusive(q)'
    BY <1>7 DEF Fail, Asks, Abandoned, Decremented, Return, StyleOf, GuardsExclusive, CountsAreGuards, AskOrder, Pending, Panics
  <2>6. \A q \in Process : AskOrder(q)'
    BY <1>7 DEF Fail, Asks, Abandoned, Decremented, Return, StyleOf, AskOrder, Panics, CallSite
  <2> QED
    BY <2>1, <2>2, <2>3, <2>4, <2>5, <2>6
<1>8. ASSUME NEW p \in Process, NEW m \in Mode, Drop(p, m) PROVE CLInv'
  <2>0. /\ pc[p] = "run" /\ guards[p][m] > 0 /\ Decremented(p, FilesOf(m))
        /\ guards' = [guards EXCEPT ![p][m] = @ - 1]
        /\ UNCHANGED <<is_exclusive, pc, mode, blocking, calls>>
    BY <1>8 DEF Drop
  <2>a. guards[p][m] - 1 \in Nat
    BY <2>0
  <2>b. guards' \in [Process -> [Mode -> Nat]]
    BY <2>0, <2>a
  <2>c. /\ FilesOf(m) \in SUBSET File
        /\ \A f \in FilesOf(m) : count[p][f] > 0
        /\ count[p]["cache"] = guards[p]["DownloadExclusive"] + guards[p]["MutateExclusive"]
        /\ count[p]["mutate"] = guards[p]["Shared"] + guards[p]["MutateExclusive"]
    BY <2>0, GuardCounted
  <2>d. /\ count' \in [Process -> [File -> Nat]]
        /\ lock' \in [Process -> [File -> Style \union {"none"}]]
        /\ \A f \in File :
             /\ count'[p][f] = IF f \in FilesOf(m) THEN count[p][f] - 1 ELSE count[p][f]
             /\ lock'[p][f] = IF f \in FilesOf(m) /\ count[p][f] = 1
                              THEN "none" ELSE lock[p][f]
    <3>1. PICK files \in SUBSET File : files = FilesOf(m)
      BY <2>c, SMTT(30)
    <3>2. Decremented(p, files) /\ \A f \in files : count[p][f] > 0
      BY <2>0, <2>c, <3>1
    <3>3. CLTypeOK
      OBVIOUS
    <3> QED
      <4> HIDE DEF CLTypeOK, CLInv, File, Style
      <4> QED
        BY <3>1, <3>2, <3>3, DecrementedTypes
  <2>1. CLTypeOK'
    BY <2>0, <2>b, <2>d
  <2>2. CountsAreGuards'
    <3>1. ASSUME NEW q \in Process, q # p
          PROVE  /\ count'[q] = count[q] /\ guards'[q] = guards[q] /\ lock'[q] = lock[q]
                 /\ Pending(q)' = Pending(q)
      BY <2>0, <3>1 DEF Decremented, Pending
    <3>2. Pending(p)' = 0
      BY <2>0 DEF Pending
    <3>3. /\ count'[p]["cache"] = guards'[p]["DownloadExclusive"] + guards'[p]["MutateExclusive"]
          /\ count'[p]["mutate"] = guards'[p]["Shared"] + guards'[p]["MutateExclusive"]
      <4>1. \A n \in Mode : /\ guards[p][n] \in Nat
                            /\ guards'[p][n] = IF n = m THEN guards[p][n] - 1 ELSE guards[p][n]
        BY <2>0
      <4>2. CASE m = "Shared"
        BY <4>1, <4>2, <2>c, <2>d DEF FilesOf
      <4>3. CASE m = "DownloadExclusive"
        BY <4>1, <4>3, <2>c, <2>d DEF FilesOf
      <4>4. CASE m = "MutateExclusive"
        BY <4>1, <4>4, <2>c, <2>d DEF FilesOf
      <4> QED
        BY <4>2, <4>3, <4>4
    <3>4. \A f \in File : lock'[p][f] # "none" => count'[p][f] > 0
      BY <2>c, <2>d DEF CountsAreGuards
    <3>5. count'[p]["mutate"]
            = guards'[p]["Shared"] + guards'[p]["MutateExclusive"] + Pending(p)'
      BY <3>2, <3>3, <2>b
    <3> QED
      BY <3>1, <3>3, <3>4, <3>5 DEF CountsAreGuards
  <2>3. FilesExclusive'
    BY <1>8 DEF Drop, Decremented, FilesExclusive
  <2>4. \A q \in Process : HeldAs(q)'
    BY <1>8 DEF Drop, Decremented, HeldAs, CountsAreGuards
  <2>5. \A q \in Process : GuardsExclusive(q)'
    BY <1>8 DEF Drop, Decremented, GuardsExclusive, CountsAreGuards, AskOrder, Pending, Panics
  <2>6. \A q \in Process : AskOrder(q)'
    BY <1>8 DEF Drop, Decremented, AskOrder, Panics, CallSite
  <2> QED
    BY <2>1, <2>2, <2>3, <2>4, <2>5, <2>6
<1>9. ASSUME NEW p \in Process, Crash(p) PROVE CLInv'
  <2>1. CLTypeOK'
    BY <1>9 DEF Crash, Return
  <2>2. CountsAreGuards'
    BY <1>9 DEF Crash, Return, CountsAreGuards, Pending
  <2>3. FilesExclusive'
    BY <1>9 DEF Crash, Return, FilesExclusive
  <2>4. \A q \in Process : HeldAs(q)'
    BY <1>9 DEF Crash, Return, HeldAs, CountsAreGuards
  <2>5. \A q \in Process : GuardsExclusive(q)'
    BY <1>9 DEF Crash, Return, GuardsExclusive, CountsAreGuards, AskOrder, Pending, Panics
  <2>6. \A q \in Process : AskOrder(q)'
    BY <1>9 DEF Crash, Return, AskOrder, Panics, CallSite
  <2> QED
    BY <2>1, <2>2, <2>3, <2>4, <2>5, <2>6
<1>10. CASE UNCHANGED clvars
  BY <1>10 DEF clvars, CountsAreGuards, FilesExclusive, HeldAs, GuardsExclusive, AskOrder,
     Pending, Panics, CallSite
<1> QED
  BY <1>1, <1>2, <1>3, <1>4, <1>5, <1>6, <1>7, <1>8, <1>9, <1>10 DEF CLNext, LockStep

\* The inductive invariant holds of every state the lockers reach.
THEOREM CLInvariant == CLSpec => []CLInv
BY InvInit, InvStep, PTL DEF CLSpec

\* Counters and file locks are those of the guards alive, whatever fails and in
\* whatever order guards are dropped.
THEOREM CountersExact == CLSpec => []CountsAreGuards
<1>1. CLInv => CountsAreGuards
  BY DEF CLInv
<1> QED
  BY <1>1, CLInvariant, PTL

\* No cargo reads, downloads or deletes while another deletes, and one downloads
\* at a time.
THEOREM CachesExcluded == CLSpec => []CacheExclusion
<1>1. ASSUME CLInv PROVE CacheExclusion
  <2> SUFFICES ASSUME NEW p \in Process, NEW q \in Process, p # q
               PROVE  /\ Mutates(p) => ~Reads(q) /\ ~Downloads(q) /\ ~Mutates(q)
                      /\ Downloads(p) => ~Downloads(q)
    BY DEF CacheExclusion
  <2>1. \A m \in Mode : guards[p][m] \in Nat
    BY <1>1 DEF CLInv, CLTypeOK
  <2>2. Mutates(p) \/ Downloads(p) => lock[q]["cache"] = "none"
    <3>1. Mutates(p) \/ Downloads(p) => count[p]["cache"] > 0 /\ lock[p]["cache"] # "none"
      BY <1>1, <2>1 DEF CLInv, CountsAreGuards, Mutates, Downloads, Mode, File
    <3> QED
      BY <1>1, <3>1 DEF CLInv, HeldAs, GuardsExclusive, FilesExclusive, File
  <2>3. Mutates(p) => lock[q]["mutate"] = "none"
    BY <1>1 DEF CLInv, HeldAs, GuardsExclusive, FilesExclusive, Mutates, File
  <2> QED
    BY <2>2, <2>3 DEF Mutates, Downloads, Reads, File
<1> QED
  BY <1>1, CLInvariant, PTL

\* Mutate is locked before cache, so no circle of cargos waits on each other.
THEOREM NoDeadlock == CLSpec => []WaitChainsEnd
<1>1. ASSUME CLInv, NEW p \in Process, Blocked(p), pc[p] = "cache", NEW q \in WaitsFor(p)
      PROVE  ~Blocked(q)
  <2>1. q \in Process /\ lock[q]["cache"] # "none"
    BY <1>1 DEF WaitsFor
  <2>2. count[q]["cache"] > 0
    BY <1>1, <2>1 DEF CLInv, CountsAreGuards, File
  <2> QED
    BY <1>1, <2>1, <2>2, SMTT(30) DEF CLInv, CLTypeOK, Blocked, AskOrder, Panics, CallSite, File, Mode
<1>2. ASSUME CLInv, NEW p \in Process, Blocked(p), pc[p] = "mutate", NEW q \in WaitsFor(p),
             Blocked(q)
      PROVE  pc[q] = "cache" /\ q \in Process
  <2>1. q \in Process /\ lock[q]["mutate"] # "none"
    BY <1>2 DEF WaitsFor
  <2>2. count[q]["mutate"] > 0
    BY <1>2, <2>1 DEF CLInv, CountsAreGuards, File
  <2> QED
    BY <1>2, <2>1, <2>2 DEF CLInv, CLTypeOK, Blocked, File
<1>3. CLInv => \A p \in Process : Blocked(p) => pc[p] \in {"cache", "mutate"}
  BY SMTT(30) DEF CLInv, CLTypeOK, Blocked, File
<1>4. CLInv => WaitChainsEnd
  BY <1>1, <1>2, <1>3 DEF WaitChainsEnd, WaitsFor
<1> QED
  BY <1>4, CLInvariant, PTL

\* What assert_package_cache_locked checks is what the process holds.
THEOREM AssertionsTruthful == CLSpec => []IsLockedTruthful
<1>1. ASSUME CLInv PROVE IsLockedTruthful
  <2> SUFFICES ASSUME NEW p \in Process, pc[p] = "run"
               PROVE  /\ \A m \in {"Shared", "DownloadExclusive"} :
                           is_locked(p, m) <=> guards[p][m] > 0 \/ guards[p]["MutateExclusive"] > 0
                      /\ guards[p]["MutateExclusive"] > 0 => is_locked(p, "MutateExclusive")
    BY DEF IsLockedTruthful
  <2>1. \A m \in Mode : guards[p][m] \in Nat
    BY <1>1 DEF CLInv, CLTypeOK
  <2>2. /\ count[p]["cache"] = guards[p]["DownloadExclusive"] + guards[p]["MutateExclusive"]
        /\ count[p]["mutate"] = guards[p]["Shared"] + guards[p]["MutateExclusive"]
    BY <1>1, <2>1 DEF CLInv, CountsAreGuards, Pending, Mode
  <2> QED
    BY <1>1, <2>1, <2>2 DEF CLInv, GuardsExclusive, is_locked, Mode
<1> QED
  BY <1>1, CLInvariant, PTL

\* The locks of the package cache keep all four promises together.
THEOREM LocksSafe == CLSpec => []LocksRight
<1>1. CountsAreGuards /\ CacheExclusion /\ WaitChainsEnd /\ IsLockedTruthful => LocksRight
  BY DEF LocksRight
<1> QED
  BY <1>1, CountersExact, CachesExcluded, NoDeadlock, AssertionsTruthful, PTL

-----------------------------------------------------------------------------
(***************************************************************************)
(* A git dependency, for any commits, requests and servers.  The inductive *)
(* invariant GitInv says what a run knows of the clone and the checkout at *)
(* each of its steps; a crash may come between any two.                    *)
(***************************************************************************)

GitCommit == Oid \union SubOid \union {NoOid}

DbType == [opens : BOOLEAN, ref : GitCommit, commits : SUBSET GitCommit, corrupt : BOOLEAN]
CheckoutType == [head : GitCommit, files : GitCommit, sub : GitCommit, ok : BOOLEAN]
GitRunType ==
  [at : {"none", "db", "init", "fast", "gc", "fetch", "resolve", "copy", "clone", "reset", "submodules",
         "mark", "done", "failed"},
   request : GitRequests \union {[locked |-> NoOid]}, which : GitRepo, want : GitCommit, kept : BOOLEAN,
   fetch : GitCommit, retries : Nat, reinit : BOOLEAN, rev : GitCommit, main : GitCommit, seen : SUBSET Oid]

GitTypeOK ==
  /\ tip \in Oid /\ pushed \subseteq Oid
  /\ db \in [GitRepo -> DbType]
  /\ checkout \in [Oid -> CheckoutType]
  /\ gitrun \in GitRunType

\* Where the run is with respect to the repository it updates: what it wants, and the commit it
\* has found in the database, of the submodule or of the repository itself.
RunInv ==
  /\ GitRunning => tip \in gitrun.seen
  /\ gitrun.which = "main" => gitrun.want = GitRequest.locked
  /\ gitrun.which = "sub" =>
       /\ gitrun.at \in {"db", "init", "fast", "gc", "fetch", "resolve", "copy", "failed"}
       /\ gitrun.main \in Oid /\ gitrun.want = SubOf[gitrun.main] /\ gitrun.want # NoOid
       /\ gitrun.at = "copy" => gitrun.rev = gitrun.want

\* A commit that may be used: the locked one, or one the reference named during the run.
GoodRevision(o) ==
  /\ o \in Oid
  /\ IF GitRequest.locked # NoOid THEN o = GitRequest.locked
     ELSE GitRequest.offline \/ o \in gitrun.seen

\* The revision is good once it is found, the reference before that, once it was fetched or
\* seen to be what the remote's is.
RevisionInv ==
  /\ db["main"].ref \in Oid \union {NoOid}
  /\ gitrun.which = "main" /\ gitrun.at \in {"copy", "clone", "reset", "submodules", "mark", "done"} =>
       GoodRevision(gitrun.rev)
  /\ gitrun.which = "sub" => GoodRevision(gitrun.main)
  /\ gitrun.which = "main" /\ gitrun.at = "resolve" /\ ~GitLocked =>
       db["main"].ref \in gitrun.seen \union {NoOid}

Whole(o) == checkout[o].files = o /\ checkout[o].sub = SubOf[o]

\* What the mark says is true, and the checkout being made is as far as the run.
CheckoutInv ==
  /\ \A o \in Oid : checkout[o].ok => Whole(o)
  /\ gitrun.at = "reset" => checkout[gitrun.rev].sub = NoOid
  /\ gitrun.at = "submodules" => checkout[gitrun.rev].files = gitrun.rev /\ checkout[gitrun.rev].sub = NoOid
  /\ gitrun.which = "sub" => checkout[gitrun.main].files = gitrun.main /\ ~checkout[gitrun.main].ok
  /\ gitrun.at \in {"reset", "submodules"} => ~checkout[gitrun.rev].ok
  /\ gitrun.at \in {"mark", "done"} => Whole(gitrun.rev)

GitInv == GitTypeOK /\ RunInv /\ RevisionInv /\ CheckoutInv

\* The clone that is not there, and the new one.
LEMMA DbsTyped == NoDb \in DbType /\ FreshDb \in DbType
BY Zenon DEF NoDb, FreshDb, DbType, GitCommit

\* A reference that resolves gives a commit.
LEMMA RefTyped ==
  ASSUME GitTypeOK
  PROVE  Db \in DbType /\ ResolveGitRef(Db) \in GitCommit /\ RemoteTip \in GitCommit
<1>1. Db \in DbType
  BY DEF GitTypeOK, GitRunType, Db
<1>2. ResolveGitRef(Db) \in GitCommit
  BY <1>1 DEF GitTypeOK, GitRunType, DbType, GitCommit, ResolveGitRef
<1>3. RemoteTip \in GitCommit
  BY DEF GitTypeOK, GitRunType, GitCommit, RemoteTip
<1> QED
  BY <1>1, <1>2, <1>3

\* What the fast path may come to.
LEMMA FastPath ==
  ASSUME GitTypeOK, GithubFastPath
  PROVE  \/ /\ gitrun' = [gitrun EXCEPT !.at = "resolve"]
            /\ ResolveGitRef(Db) # NoOid /\ (GitLocked \/ ResolveGitRef(Db) = RemoteTip)
         \/ \E c \in GitCommit : gitrun' = [gitrun EXCEPT !.at = "gc", !.fetch = c]
<1>1. gitrun.want \in GitCommit /\ NoOid \in GitCommit
  BY DEF GitTypeOK, GitRunType, GitCommit
<1>2. CASE gitrun' = [gitrun EXCEPT !.at = "gc", !.fetch = NoOid]
  BY <1>1, <1>2, Zenon
<1>3. CASE gitrun' = IF ResolveGitRef(Db) # NoOid /\ (GitLocked \/ ResolveGitRef(Db) = RemoteTip)
                     THEN [gitrun EXCEPT !.at = "resolve"]
                     ELSE [gitrun EXCEPT !.at = "gc", !.fetch = IF GitLocked THEN gitrun.want ELSE RemoteTip]
  BY <1>1, <1>3, RefTyped, Zenon
<1> QED
  BY <1>2, <1>3, Zenon DEF GithubFastPath

\* Every step keeps the types.
LEMMA GitTypeStep ==
  ASSUME GitTypeOK, RunInv, RevisionInv, [GitNext]_gitvars
  PROVE  GitTypeOK'
<1>1. ASSUME NEW o \in Oid, MoveTip(o) PROVE  GitTypeOK'
  BY <1>1, GitTyped DEF GitTypeOK, RunInv, RevisionInv, GoodRevision, GitRepo, GitCommit, GitRunType, DbType, CheckoutType, MoveTip, GitRunning
<1>2. ASSUME NEW request \in GitRequests, StartUpdate(request) PROVE  GitTypeOK'
  BY <1>2, GitTyped, Zenon DEF GitTypeOK, RunInv, RevisionInv, GoodRevision, GitRepo, GitCommit, GitRunType, DbType, CheckoutType, StartUpdate, GitRunning, NoRun
<1>3. ASSUME FetchDb PROVE  GitTypeOK'
  <2>1. tip' \in Oid /\ pushed' \subseteq Oid /\ checkout' \in [Oid -> CheckoutType]
    BY <1>3 DEF GitTypeOK, FetchDb
  <2>2. db' \in [GitRepo -> DbType]
    BY <1>3 DEF GitTypeOK, FetchDb
  <2>3. gitrun' \in GitRunType
    <3>1. ResolveGitRef(Db) \in GitCommit /\ Db.opens \in BOOLEAN
      BY RefTyped DEF DbType
    <3>2. CASE gitrun' = [gitrun EXCEPT !.at = "copy", !.rev = gitrun.want]
      BY <3>2, Zenon DEF GitTypeOK, GitRunType
    <3>3. CASE gitrun' = [gitrun EXCEPT !.at = "copy", !.rev = ResolveGitRef(Db)]
      BY <3>1, <3>3, Zenon DEF GitTypeOK, GitRunType
    <3>4. CASE gitrun' = [gitrun EXCEPT !.at = "failed"]
      BY <3>4 DEF GitTypeOK, GitRunType
    <3>5. CASE gitrun' = [gitrun EXCEPT !.at = IF Db.opens THEN "fast" ELSE "init", !.kept = Db.opens]
      BY <3>1, <3>5, Zenon DEF GitTypeOK, GitRunType
    <3> QED
      BY <3>2, <3>3, <3>4, <3>5, <1>3 DEF FetchDb
  <2> QED
    BY <2>1, <2>2, <2>3 DEF GitTypeOK
<1>4. ASSUME InitDb PROVE  GitTypeOK'
  BY <1>4, GitTyped, Zenon DEF GitTypeOK, RunInv, RevisionInv, GoodRevision, GitRepo, GitCommit, GitRunType, DbType, CheckoutType, InitDb, GitAt, FreshDb, NoDb
<1>5. ASSUME GithubFastPath PROVE  GitTypeOK'
  <2>1. tip' \in Oid /\ pushed' \subseteq Oid /\ checkout' \in [Oid -> CheckoutType]
    BY <1>5 DEF GitTypeOK, GithubFastPath
  <2>2. db' \in [GitRepo -> DbType]
    BY <1>5 DEF GitTypeOK, GithubFastPath
  <2>3. gitrun' \in GitRunType
    BY <1>5, FastPath, ZenonT(30) DEF GitTypeOK, GitRunType
  <2> QED
    BY <2>1, <2>2, <2>3 DEF GitTypeOK
<1>6. ASSUME MaybeGcRepo PROVE  GitTypeOK'
  <2>1. tip' \in Oid /\ pushed' \subseteq Oid /\ checkout' \in [Oid -> CheckoutType]
    BY <1>6 DEF GitTypeOK, MaybeGcRepo
  <2>2. db' \in [GitRepo -> DbType]
    BY <1>6, DbsTyped DEF GitTypeOK, MaybeGcRepo
  <2>3. gitrun' \in GitRunType
    BY <1>6, GitTyped DEF GitTypeOK, GitRunType, MaybeGcRepo, GitAt, GitGoto, FreshDb, NoDb
  <2> QED
    BY <2>1, <2>2, <2>3 DEF GitTypeOK
<1>7. ASSUME FetchOk PROVE  GitTypeOK'
  <2>1. tip' \in Oid /\ pushed' \subseteq Oid /\ checkout' \in [Oid -> CheckoutType]
    BY <1>7 DEF GitTypeOK, FetchOk
  <2>2. db' \in [GitRepo -> DbType]
    <3>1. Fetched(Db) \in DbType
      <4>1. [Db EXCEPT !.ref = RemoteTip, !.commits = @ \union {RemoteTip}] \in DbType
        BY RefTyped, Zenon DEF DbType
      <4>2. \A S \in SUBSET GitCommit : [Db EXCEPT !.commits = @ \union S] \in DbType
        BY RefTyped DEF DbType
      <4>3. gitrun.want \in GitCommit
        BY DEF GitTypeOK, GitRunType
      <4> QED
        BY <4>1, <4>2, <4>3, Zenon DEF Fetched
    <3> QED
      BY <3>1, <1>7 DEF GitTypeOK, GitRunType, FetchOk, Db
  <2>3. gitrun' \in GitRunType
    BY <1>7, GitTyped DEF GitTypeOK, GitRunType, FetchOk, GitAt, GitGoto, Fetched, GitLocked, Db, RemoteTip
  <2> QED
    BY <2>1, <2>2, <2>3 DEF GitTypeOK
<1>8. ASSUME FetchCorrupt PROVE  GitTypeOK'
  <2>1. tip' \in Oid /\ pushed' \subseteq Oid /\ checkout' \in [Oid -> CheckoutType]
    BY <1>8 DEF GitTypeOK, FetchCorrupt
  <2>2. db' \in [GitRepo -> DbType]
    BY <1>8, DbsTyped DEF GitTypeOK, FetchCorrupt
  <2>3. gitrun' \in GitRunType
    <3>1. CASE gitrun.reinit
      BY <3>1, <1>8 DEF GitTypeOK, GitRunType, FetchCorrupt, GitGoto
    <3>2. CASE gitrun' = [gitrun EXCEPT !.reinit = TRUE]
      BY <3>2, Zenon DEF GitTypeOK, GitRunType
    <3> QED
      BY <3>1, <3>2, <1>8 DEF FetchCorrupt
  <2> QED
    BY <2>1, <2>2, <2>3 DEF GitTypeOK
<1>9. ASSUME FetchFails PROVE  GitTypeOK'
  <2>1. tip' \in Oid /\ pushed' \subseteq Oid /\ checkout' \in [Oid -> CheckoutType]
    BY <1>9 DEF GitTypeOK, FetchFails
  <2>2. db' \in [GitRepo -> DbType]
    BY <1>9 DEF GitTypeOK, FetchFails
  <2>3. gitrun' \in GitRunType
    <3>1. CASE gitrun' = [gitrun EXCEPT !.retries = @ + 1, !.reinit = FALSE]
      <4>1. PICK n \in Nat : n = gitrun.retries + 1
        BY DEF GitTypeOK, GitRunType
      <4>2. gitrun' = [gitrun EXCEPT !.retries = n, !.reinit = FALSE]
        BY <3>1, <4>1
      <4> QED
        BY <4>2, Zenon DEF GitTypeOK, GitRunType
    <3>2. CASE gitrun' = [gitrun EXCEPT !.at = "failed"]
      BY <3>2 DEF GitTypeOK, GitRunType
    <3> QED
      BY <3>1, <3>2, <1>9 DEF FetchFails
  <2> QED
    BY <2>1, <2>2, <2>3 DEF GitTypeOK
<1>10. ASSUME FetchDenied PROVE  GitTypeOK'
  BY <1>10, GitTyped DEF GitTypeOK, RunInv, RevisionInv, GoodRevision, GitRepo, GitCommit, GitRunType, DbType, CheckoutType, FetchDenied, GitAt, GitGoto
<1>11. ASSUME ResolveFetched PROVE  GitTypeOK'
  <2>1. tip' \in Oid /\ pushed' \subseteq Oid /\ checkout' \in [Oid -> CheckoutType]
    BY <1>11 DEF GitTypeOK, ResolveFetched
  <2>2. db' \in [GitRepo -> DbType]
    BY <1>11 DEF GitTypeOK, ResolveFetched
  <2>3. gitrun' \in GitRunType
    <3>1. CASE gitrun' = [gitrun EXCEPT !.at = "copy", !.rev = ResolveGitRef(Db)]
      BY <3>1, RefTyped, Zenon DEF GitTypeOK, GitRunType
    <3>2. CASE gitrun' = [gitrun EXCEPT !.at = "init", !.retries = 0, !.reinit = FALSE]
      BY <3>2, Zenon DEF GitTypeOK, GitRunType
    <3>3. CASE gitrun' = [gitrun EXCEPT !.at = "failed"]
      BY <3>3 DEF GitTypeOK, GitRunType
    <3> QED
      BY <3>1, <3>2, <3>3, <1>11 DEF ResolveFetched
  <2> QED
    BY <2>1, <2>2, <2>3 DEF GitTypeOK
<1>12. ASSUME CopyTo PROVE  GitTypeOK'
  BY <1>12, GitTyped DEF GitTypeOK, RunInv, RevisionInv, GoodRevision, GitRepo, GitCommit, GitRunType, DbType, CheckoutType, CopyTo, GitAt, GitGoto, IsCheckoutFresh
<1>13. ASSUME CloneInto PROVE  GitTypeOK'
  BY <1>13, GitTyped, Zenon DEF GitTypeOK, RunInv, RevisionInv, GoodRevision, GitRepo, GitCommit, GitRunType, DbType, CheckoutType, CloneInto, GitAt, GitGoto, NoCheckout
<1>14. ASSUME ResetCheckout PROVE  GitTypeOK'
  <2>1. tip' \in Oid /\ pushed' \subseteq Oid /\ checkout' \in [Oid -> CheckoutType]
    <3>1. gitrun.rev \in Oid
      BY <1>14 DEF ResetCheckout, GitAt, RunInv, RevisionInv, GoodRevision, GitTypeOK, GitRunType, GitRepo
    <3> QED
      BY <3>1, <1>14 DEF GitTypeOK, CheckoutType, GitCommit, ResetCheckout
  <2>2. db' \in [GitRepo -> DbType]
    BY <1>14 DEF GitTypeOK, ResetCheckout
  <2>3. gitrun' \in GitRunType
    BY <1>14, GitTyped DEF GitTypeOK, GitRunType, ResetCheckout, GitAt, GitGoto
  <2> QED
    BY <2>1, <2>2, <2>3 DEF GitTypeOK
<1>15. ASSUME UpdateSubmodules PROVE  GitTypeOK'
  <2>1. tip' \in Oid /\ pushed' \subseteq Oid /\ checkout' \in [Oid -> CheckoutType]
    BY <1>15 DEF GitTypeOK, UpdateSubmodules
  <2>2. db' \in [GitRepo -> DbType]
    BY <1>15 DEF GitTypeOK, UpdateSubmodules
  <2>3. gitrun' \in GitRunType
    <3>1. SubOf[gitrun.rev] \in GitCommit
      <4>1. gitrun.rev \in Oid
        BY <1>15 DEF UpdateSubmodules, GitAt, RunInv, RevisionInv, GoodRevision, GitTypeOK, GitRunType, GitRepo
      <4> QED
        BY <4>1, GitTyped DEF GitCommit
    <3>2. CASE gitrun' = [gitrun EXCEPT !.at = "mark"]
      BY <3>2 DEF GitTypeOK, GitRunType
    <3>3. CASE gitrun' = [gitrun EXCEPT !.at = "db", !.which = "sub", !.main = gitrun.rev, !.want = SubOf[gitrun.rev],
                             !.rev = NoOid, !.retries = 0, !.reinit = FALSE]
      BY <3>1, <3>3, Zenon DEF GitTypeOK, GitRunType, GitRepo, GitCommit
    <3> QED
      BY <3>2, <3>3, <1>15 DEF UpdateSubmodules
  <2> QED
    BY <2>1, <2>2, <2>3 DEF GitTypeOK
<1>16. ASSUME CopySubmodule PROVE  GitTypeOK'
  <2>1. tip' \in Oid /\ pushed' \subseteq Oid /\ checkout' \in [Oid -> CheckoutType]
    BY <1>16, Zenon DEF GitTypeOK, GitRunType, CheckoutType, CopySubmodule
  <2>2. db' \in [GitRepo -> DbType]
    BY <1>16 DEF GitTypeOK, CopySubmodule
  <2>3. gitrun' \in GitRunType
    <3>1. GitRequest.locked \in GitCommit
      BY GitTyped DEF GitTypeOK, GitRunType, GitCommit, GitRequest
    <3> QED
      BY <3>1, <1>16, Zenon DEF GitTypeOK, GitRunType, GitRepo, CopySubmodule
  <2> QED
    BY <2>1, <2>2, <2>3 DEF GitTypeOK
<1>17. ASSUME CopyFails PROVE  GitTypeOK'
  BY <1>17, GitTyped DEF GitTypeOK, RunInv, RevisionInv, GoodRevision, GitRepo, GitCommit, GitRunType, DbType, CheckoutType, CopyFails, GitAt, GitGoto
<1>18. ASSUME MarkOk PROVE  GitTypeOK'
  <2>1. tip' \in Oid /\ pushed' \subseteq Oid /\ checkout' \in [Oid -> CheckoutType]
    BY <1>18, Zenon DEF GitTypeOK, CheckoutType, MarkOk
  <2>2. db' \in [GitRepo -> DbType]
    BY <1>18 DEF GitTypeOK, MarkOk
  <2>3. gitrun' \in GitRunType
    BY <1>18, GitTyped DEF GitTypeOK, GitRunType, MarkOk, GitAt, GitGoto
  <2> QED
    BY <2>1, <2>2, <2>3 DEF GitTypeOK
<1>19. ASSUME KillGit PROVE  GitTypeOK'
  <2>1. tip' \in Oid /\ pushed' \subseteq Oid /\ checkout' \in [Oid -> CheckoutType]
    BY <1>19 DEF GitTypeOK, KillGit
  <2>2. db' \in [GitRepo -> DbType]
    <3>1. [Db EXCEPT !.corrupt = TRUE] \in DbType
      BY RefTyped, Zenon DEF DbType
    <3> QED
      BY <3>1, <1>19, DbsTyped DEF GitTypeOK, KillGit
  <2>3. gitrun' \in GitRunType
    BY <1>19, GitTyped, SMTT(30) DEF GitTypeOK, GitRunType, KillGit, GitAt, GitGoto, NoDb, Db, GitRunning
  <2> QED
    BY <2>1, <2>2, <2>3 DEF GitTypeOK
<1>20. ASSUME UNCHANGED gitvars PROVE  GitTypeOK'
  BY <1>20, GitTyped DEF GitTypeOK, RunInv, RevisionInv, GoodRevision, GitRepo, GitCommit, GitRunType, DbType, CheckoutType, gitvars
<1> QED
  BY <1>1, <1>2, <1>3, <1>4, <1>5, <1>6, <1>7, <1>8, <1>9, <1>10, <1>11, <1>12, <1>13, <1>14, <1>15, <1>16, <1>17, <1>18, <1>19, <1>20 DEF GitNext, GitStep

\* Every step keeps what the run wants in step with where it is.
LEMMA RunStep ==
  ASSUME GitTypeOK, RunInv, RevisionInv, [GitNext]_gitvars
  PROVE  RunInv'
<1>1. ASSUME NEW o \in Oid, MoveTip(o) PROVE  RunInv'
  BY <1>1, GitTyped DEF GitTypeOK, RunInv, RevisionInv, GoodRevision, GitRepo, GitCommit, GitRunType, DbType, CheckoutType, GitRunning, GitRequest, MoveTip
<1>2. ASSUME NEW request \in GitRequests, StartUpdate(request) PROVE  RunInv'
  BY <1>2, GitTyped DEF GitTypeOK, RunInv, RevisionInv, GoodRevision, GitRepo, GitCommit, GitRunType, DbType, CheckoutType, GitRunning, GitRequest, StartUpdate, NoRun
<1>3. ASSUME FetchDb PROVE  RunInv'
  BY <1>3, GitTyped DEF GitTypeOK, RunInv, RevisionInv, GoodRevision, GitRepo, GitCommit, GitRunType, DbType, CheckoutType, GitRunning, GitRequest, FetchDb, GitAt, ResolveGitRef, DbContains, GitLocked, Db
<1>4. ASSUME InitDb PROVE  RunInv'
  BY <1>4, GitTyped DEF GitTypeOK, RunInv, RevisionInv, GoodRevision, GitRepo, GitCommit, GitRunType, DbType, CheckoutType, GitRunning, GitRequest, InitDb, GitAt, FreshDb, NoDb
<1>5. ASSUME GithubFastPath PROVE  RunInv'
  BY <1>5, FastPath, Zenon DEF GitTypeOK, RunInv, RevisionInv, GoodRevision, GitRepo, GitCommit, GitRunType, DbType, CheckoutType, GitRunning, GitRequest, GithubFastPath, GitAt
<1>6. ASSUME MaybeGcRepo PROVE  RunInv'
  BY <1>6, GitTyped DEF GitTypeOK, RunInv, RevisionInv, GoodRevision, GitRepo, GitCommit, GitRunType, DbType, CheckoutType, GitRunning, GitRequest, MaybeGcRepo, GitAt, GitGoto, FreshDb, NoDb
<1>7. ASSUME FetchOk PROVE  RunInv'
  BY <1>7, GitTyped DEF GitTypeOK, RunInv, RevisionInv, GoodRevision, GitRepo, GitCommit, GitRunType, DbType, CheckoutType, GitRunning, GitRequest, FetchOk, GitAt, GitGoto, Fetched, GitLocked, Db, RemoteTip
<1>8. ASSUME FetchCorrupt PROVE  RunInv'
  BY <1>8, GitTyped DEF GitTypeOK, RunInv, RevisionInv, GoodRevision, GitRepo, GitCommit, GitRunType, DbType, CheckoutType, GitRunning, GitRequest, FetchCorrupt, GitAt, GitGoto, FreshDb, NoDb, Db
<1>9. ASSUME FetchFails PROVE  RunInv'
  BY <1>9, GitTyped DEF GitTypeOK, RunInv, RevisionInv, GoodRevision, GitRepo, GitCommit, GitRunType, DbType, CheckoutType, GitRunning, GitRequest, FetchFails, GitAt
<1>10. ASSUME FetchDenied PROVE  RunInv'
  BY <1>10, GitTyped DEF GitTypeOK, RunInv, RevisionInv, GoodRevision, GitRepo, GitCommit, GitRunType, DbType, CheckoutType, GitRunning, GitRequest, FetchDenied, GitAt, GitGoto
<1>11. ASSUME ResolveFetched PROVE  RunInv'
  BY <1>11, GitTyped DEF GitTypeOK, RunInv, RevisionInv, GoodRevision, GitRepo, GitCommit, GitRunType, DbType, CheckoutType, GitRunning, GitRequest, ResolveFetched, GitAt, ResolveGitRef, DbContains, GitLocked, Db
<1>12. ASSUME CopyTo PROVE  RunInv'
  BY <1>12, GitTyped DEF GitTypeOK, RunInv, RevisionInv, GoodRevision, GitRepo, GitCommit, GitRunType, DbType, CheckoutType, GitRunning, GitRequest, CopyTo, GitAt, GitGoto, IsCheckoutFresh
<1>13. ASSUME CloneInto PROVE  RunInv'
  BY <1>13, GitTyped DEF GitTypeOK, RunInv, RevisionInv, GoodRevision, GitRepo, GitCommit, GitRunType, DbType, CheckoutType, GitRunning, GitRequest, CloneInto, GitAt, GitGoto, NoCheckout
<1>14. ASSUME ResetCheckout PROVE  RunInv'
  BY <1>14, GitTyped DEF GitTypeOK, RunInv, RevisionInv, GoodRevision, GitRepo, GitCommit, GitRunType, DbType, CheckoutType, GitRunning, GitRequest, ResetCheckout, GitAt, GitGoto
<1>15. ASSUME UpdateSubmodules PROVE  RunInv'
  BY <1>15, GitTyped DEF GitTypeOK, RunInv, RevisionInv, GoodRevision, GitRepo, GitCommit, GitRunType, DbType, CheckoutType, GitRunning, GitRequest, UpdateSubmodules, GitAt
<1>16. ASSUME CopySubmodule PROVE  RunInv'
  BY <1>16, GitTyped DEF GitTypeOK, RunInv, RevisionInv, GoodRevision, GitRepo, GitCommit, GitRunType, DbType, CheckoutType, GitRunning, GitRequest, CopySubmodule, GitAt
<1>17. ASSUME CopyFails PROVE  RunInv'
  BY <1>17, GitTyped DEF GitTypeOK, RunInv, RevisionInv, GoodRevision, GitRepo, GitCommit, GitRunType, DbType, CheckoutType, GitRunning, GitRequest, CopyFails, GitAt, GitGoto
<1>18. ASSUME MarkOk PROVE  RunInv'
  BY <1>18, GitTyped DEF GitTypeOK, RunInv, RevisionInv, GoodRevision, GitRepo, GitCommit, GitRunType, DbType, CheckoutType, GitRunning, GitRequest, MarkOk, GitAt, GitGoto
<1>19. ASSUME KillGit PROVE  RunInv'
  BY <1>19, GitTyped, SMTT(30) DEF GitTypeOK, RunInv, RevisionInv, GoodRevision, GitRepo, GitCommit, GitRunType, DbType, CheckoutType, GitRunning, GitRequest, KillGit, GitAt, GitGoto, NoDb, Db
<1>20. ASSUME UNCHANGED gitvars PROVE  RunInv'
  BY <1>20, GitTyped DEF GitTypeOK, RunInv, RevisionInv, GoodRevision, GitRepo, GitCommit, GitRunType, DbType, CheckoutType, GitRunning, GitRequest, gitvars
<1> QED
  BY <1>1, <1>2, <1>3, <1>4, <1>5, <1>6, <1>7, <1>8, <1>9, <1>10, <1>11, <1>12, <1>13, <1>14, <1>15, <1>16, <1>17, <1>18, <1>19, <1>20 DEF GitNext, GitStep

\* Every step keeps the revision, or the reference it is taken from, up to date.
LEMMA RevisionStep ==
  ASSUME GitTypeOK, RunInv, RevisionInv, [GitNext]_gitvars
  PROVE  RevisionInv'
<1>1. ASSUME NEW o \in Oid, MoveTip(o) PROVE  RevisionInv'
  BY <1>1, GitTyped DEF GitTypeOK, RunInv, RevisionInv, GoodRevision, GitRepo, GitCommit, GitRunType, DbType, CheckoutType, GitRunning, GitRequest, GitLocked, MoveTip
<1>2. ASSUME NEW request \in GitRequests, StartUpdate(request) PROVE  RevisionInv'
  BY <1>2, GitTyped DEF GitTypeOK, RunInv, RevisionInv, GoodRevision, GitRepo, GitCommit, GitRunType, DbType, CheckoutType, GitRunning, GitRequest, GitLocked, StartUpdate, NoRun
<1>3. ASSUME FetchDb PROVE  RevisionInv'
  BY <1>3, GitTyped DEF GitTypeOK, RunInv, RevisionInv, GoodRevision, GitRepo, GitCommit, GitRunType, DbType, CheckoutType, GitRunning, GitRequest, GitLocked, FetchDb, GitAt, ResolveGitRef, DbContains, Db
<1>4. ASSUME InitDb PROVE  RevisionInv'
  BY <1>4, GitTyped DEF GitTypeOK, RunInv, RevisionInv, GoodRevision, GitRepo, GitCommit, GitRunType, DbType, CheckoutType, GitRunning, GitRequest, GitLocked, InitDb, GitAt, FreshDb, NoDb
<1>5. ASSUME GithubFastPath PROVE  RevisionInv'
  <2>1. UNCHANGED <<db, tip>> /\ gitrun.at = "fast"
    BY <1>5 DEF GithubFastPath, GitAt
  <2>2. CASE /\ gitrun' = [gitrun EXCEPT !.at = "resolve"]
             /\ ResolveGitRef(Db) # NoOid /\ (GitLocked \/ ResolveGitRef(Db) = RemoteTip)
    <3>1. gitrun.which = "main" /\ ~GitLocked => db["main"].ref \in gitrun.seen
      BY <2>1, <2>2 DEF ResolveGitRef, RemoteTip, Db, RunInv, GitRunning
    <3> QED
      BY <2>1, <2>2, <3>1 DEF RevisionInv, GoodRevision, GitRequest, GitLocked, GitTypeOK, GitRunType
  <2>3. CASE \E c \in GitCommit : gitrun' = [gitrun EXCEPT !.at = "gc", !.fetch = c]
    BY <2>1, <2>3 DEF RevisionInv, GoodRevision, GitRequest, GitLocked, GitTypeOK, GitRunType
  <2> QED
    BY <2>2, <2>3, <1>5, FastPath, Zenon
<1>6. ASSUME MaybeGcRepo PROVE  RevisionInv'
  BY <1>6, GitTyped DEF GitTypeOK, RunInv, RevisionInv, GoodRevision, GitRepo, GitCommit, GitRunType, DbType, CheckoutType, GitRunning, GitRequest, GitLocked, MaybeGcRepo, GitAt, GitGoto, FreshDb, NoDb
<1>7. ASSUME FetchOk PROVE  RevisionInv'
  BY <1>7, GitTyped DEF GitTypeOK, RunInv, RevisionInv, GoodRevision, GitRepo, GitCommit, GitRunType, DbType, CheckoutType, GitRunning, GitRequest, GitLocked, FetchOk, GitAt, GitGoto, Fetched, Db, RemoteTip
<1>8. ASSUME FetchCorrupt PROVE  RevisionInv'
  BY <1>8, GitTyped DEF GitTypeOK, RunInv, RevisionInv, GoodRevision, GitRepo, GitCommit, GitRunType, DbType, CheckoutType, GitRunning, GitRequest, GitLocked, FetchCorrupt, GitAt, GitGoto, FreshDb, NoDb, Db
<1>9. ASSUME FetchFails PROVE  RevisionInv'
  BY <1>9, GitTyped DEF GitTypeOK, RunInv, RevisionInv, GoodRevision, GitRepo, GitCommit, GitRunType, DbType, CheckoutType, GitRunning, GitRequest, GitLocked, FetchFails, GitAt
<1>10. ASSUME FetchDenied PROVE  RevisionInv'
  BY <1>10, GitTyped DEF GitTypeOK, RunInv, RevisionInv, GoodRevision, GitRepo, GitCommit, GitRunType, DbType, CheckoutType, GitRunning, GitRequest, GitLocked, FetchDenied, GitAt, GitGoto
<1>11. ASSUME ResolveFetched PROVE  RevisionInv'
  BY <1>11, GitTyped DEF GitTypeOK, RunInv, RevisionInv, GoodRevision, GitRepo, GitCommit, GitRunType, DbType, CheckoutType, GitRunning, GitRequest, GitLocked, ResolveFetched, GitAt, ResolveGitRef, DbContains, Db
<1>12. ASSUME CopyTo PROVE  RevisionInv'
  BY <1>12, GitTyped DEF GitTypeOK, RunInv, RevisionInv, GoodRevision, GitRepo, GitCommit, GitRunType, DbType, CheckoutType, GitRunning, GitRequest, GitLocked, CopyTo, GitAt, GitGoto, IsCheckoutFresh
<1>13. ASSUME CloneInto PROVE  RevisionInv'
  BY <1>13, GitTyped DEF GitTypeOK, RunInv, RevisionInv, GoodRevision, GitRepo, GitCommit, GitRunType, DbType, CheckoutType, GitRunning, GitRequest, GitLocked, CloneInto, GitAt, GitGoto, NoCheckout
<1>14. ASSUME ResetCheckout PROVE  RevisionInv'
  BY <1>14, GitTyped DEF GitTypeOK, RunInv, RevisionInv, GoodRevision, GitRepo, GitCommit, GitRunType, DbType, CheckoutType, GitRunning, GitRequest, GitLocked, ResetCheckout, GitAt, GitGoto
<1>15. ASSUME UpdateSubmodules PROVE  RevisionInv'
  BY <1>15, GitTyped DEF GitTypeOK, RunInv, RevisionInv, GoodRevision, GitRepo, GitCommit, GitRunType, DbType, CheckoutType, GitRunning, GitRequest, GitLocked, UpdateSubmodules, GitAt
<1>16. ASSUME CopySubmodule PROVE  RevisionInv'
  BY <1>16, GitTyped DEF GitTypeOK, RunInv, RevisionInv, GoodRevision, GitRepo, GitCommit, GitRunType, DbType, CheckoutType, GitRunning, GitRequest, GitLocked, CopySubmodule, GitAt
<1>17. ASSUME CopyFails PROVE  RevisionInv'
  BY <1>17, GitTyped DEF GitTypeOK, RunInv, RevisionInv, GoodRevision, GitRepo, GitCommit, GitRunType, DbType, CheckoutType, GitRunning, GitRequest, GitLocked, CopyFails, GitAt, GitGoto
<1>18. ASSUME MarkOk PROVE  RevisionInv'
  BY <1>18, GitTyped DEF GitTypeOK, RunInv, RevisionInv, GoodRevision, GitRepo, GitCommit, GitRunType, DbType, CheckoutType, GitRunning, GitRequest, GitLocked, MarkOk, GitAt, GitGoto
<1>19. ASSUME KillGit PROVE  RevisionInv'
  BY <1>19, GitTyped, SMTT(30) DEF GitTypeOK, RunInv, RevisionInv, GoodRevision, GitRepo, GitCommit, GitRunType, DbType, CheckoutType, GitRunning, GitRequest, GitLocked, KillGit, GitAt, GitGoto, NoDb, Db
<1>20. ASSUME UNCHANGED gitvars PROVE  RevisionInv'
  BY <1>20, GitTyped DEF GitTypeOK, RunInv, RevisionInv, GoodRevision, GitRepo, GitCommit, GitRunType, DbType, CheckoutType, GitRunning, GitRequest, GitLocked, gitvars
<1> QED
  BY <1>1, <1>2, <1>3, <1>4, <1>5, <1>6, <1>7, <1>8, <1>9, <1>10, <1>11, <1>12, <1>13, <1>14, <1>15, <1>16, <1>17, <1>18, <1>19, <1>20 DEF GitNext, GitStep

\* Every step keeps the marks of the checkouts true.
LEMMA CheckoutStep ==
  ASSUME GitTypeOK, RunInv, RevisionInv, CheckoutInv, [GitNext]_gitvars
  PROVE  CheckoutInv'
<1>1. ASSUME NEW o \in Oid, MoveTip(o) PROVE  CheckoutInv'
  BY <1>1, GitTyped DEF GitTypeOK, RunInv, RevisionInv, GoodRevision, GitRepo, GitCommit, GitRunType, DbType, CheckoutType, CheckoutInv, Whole, MoveTip, GitRunning
<1>2. ASSUME NEW request \in GitRequests, StartUpdate(request) PROVE  CheckoutInv'
  BY <1>2, GitTyped DEF GitTypeOK, RunInv, RevisionInv, GoodRevision, GitRepo, GitCommit, GitRunType, DbType, CheckoutType, CheckoutInv, Whole, StartUpdate, GitRunning, NoRun
<1>3. ASSUME FetchDb PROVE  CheckoutInv'
  BY <1>3, GitTyped DEF GitTypeOK, RunInv, RevisionInv, GoodRevision, GitRepo, GitCommit, GitRunType, DbType, CheckoutType, CheckoutInv, Whole, FetchDb, GitAt, ResolveGitRef, DbContains, GitLocked, Db, GitRequest
<1>4. ASSUME InitDb PROVE  CheckoutInv'
  BY <1>4, GitTyped DEF GitTypeOK, RunInv, RevisionInv, GoodRevision, GitRepo, GitCommit, GitRunType, DbType, CheckoutType, CheckoutInv, Whole, InitDb, GitAt, FreshDb, NoDb
<1>5. ASSUME GithubFastPath PROVE  CheckoutInv'
  BY <1>5, FastPath, ZenonT(30) DEF GitTypeOK, RunInv, RevisionInv, GoodRevision, GitRepo, GitCommit, GitRunType, DbType, CheckoutType, CheckoutInv, Whole, GithubFastPath, GitAt
<1>6. ASSUME MaybeGcRepo PROVE  CheckoutInv'
  BY <1>6, GitTyped DEF GitTypeOK, RunInv, RevisionInv, GoodRevision, GitRepo, GitCommit, GitRunType, DbType, CheckoutType, CheckoutInv, Whole, MaybeGcRepo, GitAt, GitGoto, FreshDb, NoDb
<1>7. ASSUME FetchOk PROVE  CheckoutInv'
  BY <1>7, GitTyped DEF GitTypeOK, RunInv, RevisionInv, GoodRevision, GitRepo, GitCommit, GitRunType, DbType, CheckoutType, CheckoutInv, Whole, FetchOk, GitAt, GitGoto, Fetched, GitLocked, Db, RemoteTip
<1>8. ASSUME FetchCorrupt PROVE  CheckoutInv'
  BY <1>8, GitTyped DEF GitTypeOK, RunInv, RevisionInv, GoodRevision, GitRepo, GitCommit, GitRunType, DbType, CheckoutType, CheckoutInv, Whole, FetchCorrupt, GitAt, GitGoto, FreshDb, NoDb, Db
<1>9. ASSUME FetchFails PROVE  CheckoutInv'
  BY <1>9, GitTyped DEF GitTypeOK, RunInv, RevisionInv, GoodRevision, GitRepo, GitCommit, GitRunType, DbType, CheckoutType, CheckoutInv, Whole, FetchFails, GitAt
<1>10. ASSUME FetchDenied PROVE  CheckoutInv'
  BY <1>10, GitTyped DEF GitTypeOK, RunInv, RevisionInv, GoodRevision, GitRepo, GitCommit, GitRunType, DbType, CheckoutType, CheckoutInv, Whole, FetchDenied, GitAt, GitGoto
<1>11. ASSUME ResolveFetched PROVE  CheckoutInv'
  BY <1>11, GitTyped DEF GitTypeOK, RunInv, RevisionInv, GoodRevision, GitRepo, GitCommit, GitRunType, DbType, CheckoutType, CheckoutInv, Whole, ResolveFetched, GitAt, ResolveGitRef, DbContains, GitLocked, Db
<1>12. ASSUME CopyTo PROVE  CheckoutInv'
  BY <1>12, GitTyped DEF GitTypeOK, RunInv, RevisionInv, GoodRevision, GitRepo, GitCommit, GitRunType, DbType, CheckoutType, CheckoutInv, Whole, CopyTo, GitAt, GitGoto, IsCheckoutFresh
<1>13. ASSUME CloneInto PROVE  CheckoutInv'
  BY <1>13, GitTyped DEF GitTypeOK, RunInv, RevisionInv, GoodRevision, GitRepo, GitCommit, GitRunType, DbType, CheckoutType, CheckoutInv, Whole, CloneInto, GitAt, GitGoto, NoCheckout
<1>14. ASSUME ResetCheckout PROVE  CheckoutInv'
  BY <1>14, GitTyped DEF GitTypeOK, RunInv, RevisionInv, GoodRevision, GitRepo, GitCommit, GitRunType, DbType, CheckoutType, CheckoutInv, Whole, ResetCheckout, GitAt, GitGoto
<1>15. ASSUME UpdateSubmodules PROVE  CheckoutInv'
  BY <1>15, GitTyped DEF GitTypeOK, RunInv, RevisionInv, GoodRevision, GitRepo, GitCommit, GitRunType, DbType, CheckoutType, CheckoutInv, Whole, UpdateSubmodules, GitAt
<1>16. ASSUME CopySubmodule PROVE  CheckoutInv'
  BY <1>16, GitTyped DEF GitTypeOK, RunInv, RevisionInv, GoodRevision, GitRepo, GitCommit, GitRunType, DbType, CheckoutType, CheckoutInv, Whole, CopySubmodule, GitAt, GitRequest
<1>17. ASSUME CopyFails PROVE  CheckoutInv'
  BY <1>17, GitTyped DEF GitTypeOK, RunInv, RevisionInv, GoodRevision, GitRepo, GitCommit, GitRunType, DbType, CheckoutType, CheckoutInv, Whole, CopyFails, GitAt, GitGoto
<1>18. ASSUME MarkOk PROVE  CheckoutInv'
  BY <1>18, GitTyped DEF GitTypeOK, RunInv, RevisionInv, GoodRevision, GitRepo, GitCommit, GitRunType, DbType, CheckoutType, CheckoutInv, Whole, MarkOk, GitAt, GitGoto
<1>19. ASSUME KillGit PROVE  CheckoutInv'
  BY <1>19, GitTyped, SMTT(30) DEF GitTypeOK, RunInv, RevisionInv, GoodRevision, GitRepo, GitCommit, GitRunType, DbType, CheckoutType, CheckoutInv, Whole, KillGit, GitAt, GitGoto, NoDb, Db, GitRunning
<1>20. ASSUME UNCHANGED gitvars PROVE  CheckoutInv'
  BY <1>20, GitTyped DEF GitTypeOK, RunInv, RevisionInv, GoodRevision, GitRepo, GitCommit, GitRunType, DbType, CheckoutType, CheckoutInv, Whole, gitvars
<1> QED
  BY <1>1, <1>2, <1>3, <1>4, <1>5, <1>6, <1>7, <1>8, <1>9, <1>10, <1>11, <1>12, <1>13, <1>14, <1>15, <1>16, <1>17, <1>18, <1>19, <1>20 DEF GitNext, GitStep

\* The inductive invariant of updating a git dependency (GitSource::update, GitDatabase::copy_to):
\* types, what the run wants, where its revision comes from, and what the checkouts hold.
THEOREM GitInvariant == GitSpec => []GitInv
<1>1. ASSUME GitInit PROVE GitInv
  <2>1. NoDb \in DbType /\ NoCheckout \in CheckoutType
    BY Zenon DEF NoDb, NoCheckout, DbType, CheckoutType, GitCommit
  <2>2. NoRun \in GitRunType
    BY DEF NoRun, GitRunType, GitRepo, GitCommit
  <2>3. GitTypeOK
    BY <1>1, <2>1, <2>2 DEF GitInit, GitTypeOK
  <2>4. db["main"].ref = NoOid /\ (\A o \in Oid : ~checkout[o].ok)
    BY <1>1 DEF GitInit, NoDb, NoCheckout, GitRepo
  <2>5. gitrun.at = "none" /\ gitrun.which = "main" /\ gitrun.want = NoOid /\ gitrun.request.locked = NoOid
    BY <1>1, SMTT(30) DEF GitInit, NoRun
  <2>6. RunInv /\ RevisionInv /\ CheckoutInv
    BY <2>4, <2>5 DEF RunInv, RevisionInv, CheckoutInv, GitRunning, GitRequest
  <2> QED
    BY <2>3, <2>6 DEF GitInv
<1>2. GitInv /\ [GitNext]_gitvars => GitInv'
  BY GitTypeStep, RunStep, RevisionStep, CheckoutStep DEF GitInv
<1> QED
  BY <1>1, <1>2, PTL DEF GitSpec

\* Every name cargo knows of is among those with_authentication tries in turn, and a name that is
\* refused asks for a key twice, so that the loop goes on.
LEMMA EveryUserTried == AuthTriesEveryUser
<1> SUFFICES ASSUME NEW server, server.kind = "ssh", server.url = "none", "none" \notin server.accepts,
                    {server.helper, server.user, "git"} \intersect server.accepts # {},
                    {server.helper, server.user, "git"} \intersect server.drops = {}
             PROVE  WithAuthentication(server)
  BY GitTyped DEF AuthTriesEveryUser
<1> DEFINE users == Popped(server)
<1> DEFINE Reached(n) == /\ n \in 1 .. Len(users)
                         /\ users[n] \in server.accepts \ server.drops
                         /\ \A m \in 1 .. n - 1 : KeyAttempts(server, users[m]) = 2
<1>1. \A m \in 1 .. Len(users) : users[m] \notin server.drops
  BY DEF Popped
<1>2. \A m \in 1 .. Len(users) : users[m] \notin server.accepts => KeyAttempts(server, users[m]) = 2
  BY <1>1 DEF KeyAttempts
<1>3. CASE server.helper \in server.accepts
  <2>1. Reached(1)
    BY <1>1, <1>3 DEF Popped
  <2> QED
    BY <2>1 DEF WithAuthentication, AuthenticateAs
<1>4. CASE server.helper \notin server.accepts /\ server.user \in server.accepts
  <2>1. Reached(IF server.helper = "none" THEN 1 ELSE 2)
    BY <1>1, <1>2, <1>4 DEF Popped
  <2> QED
    BY <2>1 DEF WithAuthentication, AuthenticateAs
<1>5. CASE server.helper \notin server.accepts /\ server.user \notin server.accepts
  <2>1. Len(users) \in 1 .. 3 /\ users[Len(users)] = "git"
    BY DEF Popped
  <2>2. \A m \in 1 .. Len(users) - 1 : users[m] \notin server.accepts
    BY <1>5 DEF Popped
  <2>3. Reached(Len(users))
    BY <1>1, <1>2, <1>5, <2>1, <2>2
  <2> QED
    BY <2>3 DEF WithAuthentication, AuthenticateAs
<1> QED
  BY <1>3, <1>4, <1>5

\* A finished update yields the locked revision or one the reference named during the run, in a
\* checkout that is whole, whatever moved, failed or was killed before, and a server that takes
\* a key is not failed for the names tried before.
THEOREM GitSafe == GitSpec => []GitUpdated
<1>1. GitInv => UpToDateRevision
  BY SMTT(30) DEF GitInv, RunInv, RevisionInv, GoodRevision, UpToDateRevision, GitAt, GitRequest, GitTypeOK, GitRunType, GitRepo
<1>2. GitInv => CheckoutWhole
  BY DEF GitInv, CheckoutInv, Whole, CheckoutWhole, GitAt
<1>3. GitInv => GitUpdated
  BY <1>1, <1>2, EveryUserTried DEF GitUpdated
<1> QED
  BY <1>3, GitInvariant, PTL
=============================================================================
