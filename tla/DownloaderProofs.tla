-------------------------- MODULE DownloaderProofs --------------------------
(***************************************************************************)
(* What holds of the worker pool for every number of entries and threads,  *)
(* whichever thrd_create calls fail.  Mutual exclusion (InCritical) and    *)
(* what a worker has read inside its critical section (ReadIsCurrent) are  *)
(* what makes a claim exclusive and a count exact.                         *)
(***************************************************************************)
EXTENDS Downloader, FiniteSetTheorems, TLAPS

(* The pool has at least one slot.                                          *)
LEMMA PoolType == Pool \in Nat \ {0} /\ Slots \subseteq Nat /\ Free \notin Slots
  BY DownloaderAssumption DEF Pool, Slots, Free

(* TypeOK alone is not inductive: that `spawned` stays within the pool      *)
(* needs that it counts no slot the spawn loop has not reached.             *)
SpawnCount ==
    main \in {"alloc", "spawn"} => cur < Pool /\ spawned <= cur

TypeInv == TypeOK /\ SpawnCount

LEMMA InitType == Init => TypeInv
  <1> SUFFICES ASSUME Init PROVE TypeInv
    OBVIOUS
  <1>1. [f \in Fields |-> 0] \in Totals
    BY DEF Totals
  <1>2. "bytes" \in Fields
    BY DEF Fields
  <1>. QED
    BY <1>1, <1>2, PoolType DEF Init, TypeInv, TypeOK, SpawnCount

LEMMA WorkerType == ASSUME TypeOK, NEW w \in Slots, Worker(w) PROVE TypeOK'
  <1> USE DEF TypeOK, shared, caller, Goto
  <1>1. CASE NextLock(w)
    BY <1>1 DEF NextLock, Acquire
  <1>2. CASE NextUnlock(w)
    BY <1>2 DEF NextUnlock, Release
  <1>3. ASSUME NEW from, NEW kind \in Kinds, CountAs(w, from, kind)
        PROVE  TypeOK'
    BY <1>3 DEF CountAs, Fields
  <1>4. CASE PickNameless(w)
    BY <1>4 DEF PickNameless
  <1>5. CASE PickFiltered(w) \/ PickRestricted(w) \/ PickPresent(w)
               \/ PickUnopenable(w) \/ EndTransfer(w)
    <2>1. {"downloaded", "skipped", "failed", "restricted", "filtered"} = Kinds
      BY DEF Kinds
    <2>. QED
      BY <1>3, <1>5, <2>1
         DEF PickFiltered, PickRestricted, PickPresent, PickUnopenable, EndTransfer
  <1>6. CASE BeginTransfer(w)
    BY <1>6 DEF BeginTransfer
  <1>7. CASE Chunk(w)
    BY <1>7 DEF Chunk, Fields
  <1>8. CASE BumpLock(w)
    BY <1>8 DEF BumpLock, Acquire, Totals
  <1>9. CASE BumpStore(w)
    <2>1. total' \in Totals
      BY <1>9 DEF BumpStore, Totals
    <2>2. Settled(w) \in [Files -> Kinds \union {"pending", "unnamed"}]
      BY DEF Settled
    <2>. QED
      BY <1>9, <2>1, <2>2 DEF BumpStore
  <1>10. CASE BumpPush(w)
    BY <1>10 DEF BumpPush, Release
  <1>. QED
    BY <1>1, <1>2, <1>4, <1>5, <1>6, <1>7, <1>8, <1>9, <1>10 DEF Worker

(* A worker's step leaves the calling thread alone.                         *)
LEMMA CallerUntouched ==
    ASSUME NEW w \in Slots, Worker(w) PROVE UNCHANGED <<caller, listing>>
  BY DEF Worker, NextLock, NextUnlock, PickNameless, PickFiltered,
         PickRestricted, PickPresent, PickUnopenable, BeginTransfer, Chunk,
         EndTransfer, CountAs, BumpLock, BumpStore, BumpPush

LEMMA CallerType == TypeInv /\ Caller => TypeInv'
  <1> SUFFICES ASSUME TypeInv, Caller PROVE TypeInv'
    OBVIOUS
  <1> USE PoolType DEF TypeInv, TypeOK, SpawnCount, shared, worker
  <1>1. CASE Alloc
    BY <1>1 DEF Alloc
  <1>2. CASE AllocFails
    BY <1>2 DEF AllocFails
  <1>3. CASE Spawn
    <2>1. /\ main' \in {"spawn", "join"} /\ cur' \in 0..Pool
          /\ spawned' \in 0..Pool /\ SpawnCount'
      BY <1>3 DEF Spawn, Advance
    <2>2. /\ pc' \in [Slots -> {"none", "loop", "next", "pick", "xfer", "chunk",
                                "count", "bump", "push", "done"}]
          /\ handle' \in [Slots -> BOOLEAN]
      BY <1>3 DEF Spawn
    <2>. QED
      BY <1>3, <2>1, <2>2 DEF Spawn
  <1>4. CASE SpawnFails
    BY <1>4 DEF SpawnFails, Advance
  <1>5. CASE Join
    BY <1>5 DEF Join
  <1>6. CASE JoinUnset
    BY <1>6 DEF JoinUnset
  <1>7. CASE Return
    BY <1>7 DEF Return
  <1>8. CASE Stray
    BY <1>8 DEF Stray
  <1>. QED
    BY <1>1, <1>2, <1>3, <1>4, <1>5, <1>6, <1>7, <1>8 DEF Caller

LEMMA NextType == TypeInv /\ [Next]_vars => TypeInv'
  <1> SUFFICES ASSUME TypeInv, [Next]_vars PROVE TypeInv'
    OBVIOUS
  <1>1. ASSUME UNCHANGED vars PROVE TypeInv'
    BY <1>1 DEF vars, shared, worker, caller, TypeInv, TypeOK, SpawnCount
  <1>2. ASSUME NEW w \in Slots, Worker(w) PROVE TypeInv'
    <2>1. TypeOK'
      BY <1>2, WorkerType DEF TypeInv
    <2>2. UNCHANGED caller
      BY <1>2, CallerUntouched
    <2>. QED
      BY <2>1, <2>2 DEF TypeInv, SpawnCount, caller
  <1>. QED
    BY <1>1, <1>2, CallerType DEF Next, Finished

(* Every reachable state has the types of DownloadShared and of the locals  *)
(* of download_all and download_one.                                        *)
THEOREM DownloaderTypes == Spec => []TypeOK
  <1>1. TypeInv => TypeOK
    BY DEF TypeInv
  <1>. QED
    BY <1>1, InitType, NextType, PTL DEF Spec

-----------------------------------------------------------------------------
(* The inductive invariant.                                                 *)

(* Slots the spawn loop has not reached have no thread.                     *)
NotYetSpawned ==
    main \in {"alloc", "spawn"} => \A w \in Slots : w >= cur => pc[w] = "none"

(* The mutex is held by the one worker inside a critical section.           *)
InCritical ==
    \A w \in Slots : pc[w] \in {"next", "bump", "push"} <=> holder = w

(* What a worker read under the mutex is still so when it writes.           *)
ReadIsCurrent ==
    \A w \in Slots :
        /\ pc[w] = "next" => reg[w] = next
        /\ pc[w] = "bump" => reg[w] = total[field[w]]
        /\ pc[w] = "push" => snap[w] = total

(* Entries in hand were claimed and are undecided; entries from next on     *)
(* nobody has claimed.                                                      *)
InHand ==
    \A w \in Slots : Handling(w) =>
        idx[w] \in Files /\ idx[w] < next /\ verdict[idx[w]] = "pending"

Unclaimed == \A i \in Files : i >= next => verdict[i] = "pending"

Apart ==
    \A v, w \in Slots : Handling(v) /\ Handling(w) /\ idx[v] = idx[w] => v = w

PoolInv ==
    /\ TypeInv /\ NotYetSpawned /\ InCritical /\ ReadIsCurrent
    /\ InHand /\ Unclaimed /\ Apart

LEMMA InitPoolInv == Init => PoolInv
  <1> SUFFICES ASSUME Init PROVE PoolInv
    OBVIOUS
  <1>1. TypeInv
    BY InitType
  <1>2. \A w \in Slots : pc[w] = "none" /\ ~Handling(w)
    BY DEF Init, Handling
  <1>3. \A i \in Files : verdict[i] = "pending"
    BY DEF Init
  <1>. QED
    BY <1>1, <1>2, <1>3, PoolType
       DEF PoolInv, Init, NotYetSpawned, InCritical, ReadIsCurrent, InHand,
           Unclaimed, Apart

(* The calling thread disturbs none of it: it only starts workers that were *)
(* not there.                                                               *)
LEMMA CallerPoolInv == PoolInv /\ Caller => PoolInv'
  <1> SUFFICES ASSUME PoolInv, Caller PROVE PoolInv'
    OBVIOUS
  <1>1. TypeInv'
    BY CallerType DEF PoolInv
  <1>2. CASE Spawn
    <2>1. /\ cur \in Slots /\ pc[cur] = "none"
          /\ pc' = [pc EXCEPT ![cur] = "loop"]
          /\ UNCHANGED <<shared, idx, field, reg, snap, verdict>>
      BY <1>2, PoolType
         DEF Spawn, PoolInv, NotYetSpawned, TypeInv, TypeOK, SpawnCount, Slots
    <2>2. \A w \in Slots : /\ pc'[w] = IF w = cur THEN "loop" ELSE pc[w]
                           /\ Handling(w)' = Handling(w)
      BY <2>1 DEF PoolInv, TypeInv, TypeOK, Handling
    <2>3. NotYetSpawned'
      BY <1>2, <2>2, PoolType
         DEF Spawn, Advance, PoolInv, NotYetSpawned, TypeInv, TypeOK, Slots
    <2>. QED
      BY <1>1, <2>1, <2>2, <2>3
         DEF shared, PoolInv, InCritical, ReadIsCurrent, InHand, Unclaimed, Apart
  <1>3. ASSUME UNCHANGED <<shared, worker, verdict>>, NotYetSpawned' PROVE PoolInv'
    BY <1>1, <1>3
       DEF shared, worker, PoolInv, InCritical, ReadIsCurrent, InHand, Unclaimed,
           Apart, Handling
  <1>4. CASE Alloc \/ SpawnFails
    <2>1. NotYetSpawned'
      BY <1>4, PoolType
         DEF Alloc, SpawnFails, Advance, worker, PoolInv, NotYetSpawned, TypeInv,
             TypeOK, Slots
    <2>. QED
      BY <1>3, <1>4, <2>1 DEF Alloc, SpawnFails
  <1>5. CASE AllocFails \/ Join \/ JoinUnset \/ Return \/ Stray
    <2>1. main' \notin {"alloc", "spawn"}
      BY <1>5 DEF AllocFails, Join, JoinUnset, Return, Stray
    <2>. QED
      BY <1>3, <1>5, <2>1
         DEF AllocFails, Join, JoinUnset, Return, Stray, NotYetSpawned
  <1>. QED
    BY <1>2, <1>4, <1>5 DEF Caller

(* A worker's step that touches nothing shared, between two states in which *)
(* it handles an entry, or none.                                            *)
LEMMA QuietPoolInv ==
    ASSUME PoolInv, NEW w \in Slots, TypeInv', NotYetSpawned',
           UNCHANGED <<shared, idx, reg, snap, verdict>>,
           NEW from \in {"pick", "xfer"}, NEW to \in {"xfer", "chunk", "count"},
           Goto(w, from, to),
           \A v \in Slots : v # w => field'[v] = field[v]
    PROVE  PoolInv'
  <1>1. \A v \in Slots : pc'[v] = IF v = w THEN to ELSE pc[v]
    BY DEF Goto, PoolInv, TypeInv, TypeOK
  <1>2. \A v \in Slots : Handling(v)' = Handling(v)
    BY <1>1 DEF Goto, Handling
  <1>3. pc[w] \notin {"next", "bump", "push"}
    BY DEF Goto
  <1>4. InCritical' /\ ReadIsCurrent'
    BY <1>1, <1>3 DEF shared, PoolInv, InCritical, ReadIsCurrent
  <1>5. InHand' /\ Unclaimed' /\ Apart'
    BY <1>2 DEF shared, PoolInv, InHand, Unclaimed, Apart
  <1>. QED
    BY <1>4, <1>5 DEF PoolInv

(* Giving the entry in hand its verdict keeps the claims of all others.     *)
LEMMA SettlingKeeps ==
    ASSUME PoolInv, NEW w \in Slots, next' = next, idx' = idx,
           idx[w] \in Files, idx[w] < next,
           \A j \in Files : j # idx[w] => verdict'[j] = verdict[j],
           ~Handling(w)', \A v \in Slots : v # w => Handling(v)' = Handling(v),
           \A v \in Slots : Handling(v)' => idx[v] # idx[w]
    PROVE  InHand' /\ Unclaimed' /\ Apart'
  <1>0. next \in Nat /\ Files \subseteq Nat
    BY DownloaderAssumption DEF PoolInv, TypeInv, TypeOK, Files
  <1>1. \A v \in Slots : Handling(v)' => Handling(v) /\ idx[v] # idx[w]
    OBVIOUS
  <1>2. InHand'
    BY <1>1 DEF PoolInv, InHand
  <1>3. Unclaimed'
    BY <1>0 DEF PoolInv, Unclaimed
  <1>4. Apart'
    BY <1>1 DEF PoolInv, Apart
  <1>. QED
    BY <1>2, <1>3, <1>4

LEMMA WorkerPoolInv == ASSUME PoolInv, NEW w \in Slots, Worker(w) PROVE PoolInv'
  <1>0. next \in Nat /\ Files \subseteq Nat
    BY DownloaderAssumption DEF PoolInv, TypeInv, TypeOK, Files
  <1>1. UNCHANGED <<caller, listing>>
    BY CallerUntouched
  <1>2. TypeInv'
    BY <1>1, WorkerType DEF PoolInv, TypeInv, SpawnCount, caller
  <1>3. /\ pc[w] # "none"
        /\ \E to \in {"loop", "next", "pick", "xfer", "chunk", "count", "bump",
                      "push", "done"} : pc' = [pc EXCEPT ![w] = to]
    BY DEF Worker, NextLock, NextUnlock, PickNameless, PickFiltered,
           PickRestricted, PickPresent, PickUnopenable, BeginTransfer, Chunk,
           EndTransfer, CountAs, BumpLock, BumpStore, BumpPush, Goto
  <1>4. NotYetSpawned'
    BY <1>1, <1>3 DEF caller, PoolInv, NotYetSpawned, TypeInv, TypeOK
  <1>5. CASE NextLock(w)
    <2>1. /\ holder = Free /\ holder' = w /\ pc[w] = "loop"
          /\ \A v \in Slots : pc'[v] = IF v = w THEN "next" ELSE pc[v]
          /\ \A v \in Slots : reg'[v] = IF v = w THEN next ELSE reg[v]
          /\ UNCHANGED <<next, total, idx, field, snap, verdict>>
      BY <1>5 DEF NextLock, Acquire, Goto, PoolInv, TypeInv, TypeOK
    <2>2. \A v \in Slots : Handling(v)' = Handling(v)
      BY <2>1 DEF Handling
    <2>3. InCritical' /\ ReadIsCurrent'
      BY <2>1, PoolType DEF PoolInv, InCritical, ReadIsCurrent
    <2>. QED
      BY <1>2, <1>4, <2>1, <2>2, <2>3 DEF PoolInv, InHand, Unclaimed, Apart
  <1>6. CASE NextUnlock(w)
    <2> DEFINE i == reg[w]
    <2>1. /\ holder = w /\ holder' = Free /\ pc[w] = "next" /\ i = next
          /\ \A v \in Slots : pc'[v] = IF v # w THEN pc[v]
                                        ELSE IF i < Count THEN "pick" ELSE "done"
          /\ \A v \in Slots : idx'[v] = IF v = w THEN i ELSE idx[v]
          /\ next' = i + 1
          /\ UNCHANGED <<total, field, reg, snap, verdict>>
      BY <1>6
         DEF NextUnlock, Release, Goto, PoolInv, TypeInv, TypeOK, InCritical,
             ReadIsCurrent
    <2>2. \A v \in Slots : v # w => Handling(v)' = Handling(v)
      BY <2>1 DEF Handling
    <2>3. ~Handling(w) /\ (Handling(w)' => i \in Files)
      BY <2>1, DownloaderAssumption
         DEF Handling, Files, PoolInv, TypeInv, TypeOK
    <2>4. InCritical' /\ ReadIsCurrent'
      BY <2>1, PoolType DEF PoolInv, InCritical, ReadIsCurrent
    <2>10. next' = next + 1 /\ verdict' = verdict /\ idx' \in [Slots -> Nat]
      BY <1>2, <2>1 DEF TypeInv, TypeOK
    <2>5. Unclaimed'
      BY <1>0, <2>10 DEF PoolInv, Unclaimed
    <2>6. \A v \in Slots : v # w /\ Handling(v)' =>
             idx'[v] \in Files /\ idx'[v] < next /\ verdict[idx'[v]] = "pending"
      BY <2>1, <2>2 DEF PoolInv, InHand
    <2>7. \A v \in Slots : v = w /\ Handling(v)' =>
             idx'[v] = next /\ next \in Files /\ verdict[next] = "pending"
      BY <1>0, <2>1, <2>3 DEF PoolInv, Unclaimed
    <2>8. InHand'
      <3>1. \A v \in Slots : Handling(v)' =>
               idx'[v] \in Files /\ idx'[v] <= next /\ verdict[idx'[v]] = "pending"
        BY <1>0, <2>10, <2>6, <2>7
      <3>2. \A v \in Slots : Handling(v)' =>
               idx'[v] \in Files /\ idx'[v] < next' /\ verdict'[idx'[v]] = "pending"
        BY <1>0, <2>10, <3>1
      <3>. QED
        BY <3>2 DEF InHand
    <2>9. Apart'
      <3> SUFFICES ASSUME NEW u \in Slots, NEW v \in Slots, Handling(u)',
                          Handling(v)', idx'[u] = idx'[v]
                   PROVE  u = v
        BY DEF Apart
      <3>1. CASE u # w /\ v # w
        BY <2>1, <2>2, <3>1 DEF PoolInv, Apart
      <3>2. CASE u = w \/ v = w
        BY <1>0, <2>6, <2>7, <3>2
      <3>. QED
        BY <3>1, <3>2
    <2>. QED
      BY <1>2, <1>4, <2>4, <2>5, <2>8, <2>9 DEF PoolInv
  <1>7. CASE PickNameless(w)
    <2>1. /\ pc[w] = "pick" /\ Handling(w)
          /\ \A v \in Slots : pc'[v] = IF v = w THEN "loop" ELSE pc[v]
          /\ verdict' = [verdict EXCEPT ![idx[w]] = "unnamed"]
          /\ UNCHANGED <<shared, idx, field, reg, snap>>
      BY <1>7 DEF PickNameless, Goto, PoolInv, TypeInv, TypeOK, Handling
    <2>2. /\ ~Handling(w)'
          /\ \A v \in Slots : v # w => Handling(v)' = Handling(v)
      BY <2>1 DEF Handling
    <2>3. \A v \in Slots : Handling(v)' => idx[v] # idx[w]
      BY <2>1, <2>2 DEF PoolInv, Apart
    <2>4. InCritical' /\ ReadIsCurrent'
      BY <2>1 DEF shared, PoolInv, InCritical, ReadIsCurrent
    <2>5. InHand' /\ Unclaimed' /\ Apart'
      <3>1. next' = next /\ idx' = idx
        BY <2>1 DEF shared
      <3>2. idx[w] \in Files /\ idx[w] < next
        BY <2>1 DEF PoolInv, InHand
      <3>3. \A j \in Files : j # idx[w] => verdict'[j] = verdict[j]
        BY <2>1 DEF PoolInv, TypeInv, TypeOK
      <3>. QED
        BY <3>1, <3>2, <3>3, <2>2, <2>3, SettlingKeeps
    <2>. QED
      BY <1>2, <1>4, <2>4, <2>5 DEF PoolInv
  <1>8. CASE \/ PickFiltered(w) \/ PickRestricted(w) \/ PickPresent(w)
             \/ PickUnopenable(w) \/ EndTransfer(w)
    <2>1. PICK from \in {"pick", "xfer"}, kind \in Kinds : CountAs(w, from, kind)
      BY <1>8
         DEF PickFiltered, PickRestricted, PickPresent, PickUnopenable,
             EndTransfer, Kinds
    <2>2. \A v \in Slots : v # w => field'[v] = field[v]
      BY <2>1 DEF CountAs, PoolInv, TypeInv, TypeOK
    <2>. QED
      BY <1>2, <1>4, <2>1, <2>2, QuietPoolInv DEF CountAs
  <1>9. CASE BeginTransfer(w)
    BY <1>2, <1>4, <1>9, QuietPoolInv DEF BeginTransfer
  <1>10. CASE Chunk(w)
    <2>1. \A v \in Slots : v # w => field'[v] = field[v]
      BY <1>10 DEF Chunk, PoolInv, TypeInv, TypeOK
    <2>. QED
      BY <1>2, <1>4, <1>10, <2>1, QuietPoolInv DEF Chunk
  <1>11. CASE BumpLock(w)
    <2>1. /\ holder = Free /\ holder' = w /\ pc[w] \in {"count", "chunk"}
          /\ \A v \in Slots : pc'[v] = IF v = w THEN "bump" ELSE pc[v]
          /\ \A v \in Slots : reg'[v] = IF v = w THEN total[field[w]] ELSE reg[v]
          /\ UNCHANGED <<next, total, idx, field, snap, verdict>>
      BY <1>11 DEF BumpLock, Acquire, Goto, PoolInv, TypeInv, TypeOK
    <2>2. \A v \in Slots : Handling(v)' = Handling(v)
      BY <2>1 DEF Handling
    <2>3. InCritical' /\ ReadIsCurrent'
      BY <2>1, PoolType DEF PoolInv, InCritical, ReadIsCurrent
    <2>. QED
      BY <1>2, <1>4, <2>1, <2>2, <2>3 DEF PoolInv, InHand, Unclaimed, Apart
  <1>12. CASE BumpStore(w)
    <2>1. /\ holder = w /\ pc[w] = "bump" /\ Handling(w)
          /\ \A v \in Slots : pc'[v] = IF v = w THEN "push" ELSE pc[v]
          /\ \A v \in Slots : snap'[v] = IF v = w THEN total' ELSE snap[v]
          /\ UNCHANGED <<next, holder, idx, field, reg>>
      BY <1>12
         DEF BumpStore, Goto, PoolInv, TypeInv, TypeOK, InCritical, Handling
    <2>2. \A v \in Slots : v # w => /\ Handling(v)' = Handling(v)
                                   /\ pc[v] \notin {"next", "bump", "push"}
      BY <2>1 DEF Handling, PoolInv, InCritical
    <2>3. InCritical' /\ ReadIsCurrent'
      BY <2>1, <2>2 DEF PoolInv, InCritical, ReadIsCurrent
    <2>4. CASE field[w] \in Kinds
      <3>1. verdict' = [verdict EXCEPT ![idx[w]] = field[w]] /\ "bytes" \notin Kinds
        BY <1>12, <2>4 DEF BumpStore, Settled, Kinds
      <3>2. ~Handling(w)'
        BY <2>1, <2>4, <3>1 DEF Handling
      <3>3. \A v \in Slots : Handling(v)' => idx[v] # idx[w]
        BY <2>1, <2>2, <3>2 DEF PoolInv, Apart
      <3>4. InHand' /\ Unclaimed' /\ Apart'
        <4>1. next' = next /\ idx' = idx
          BY <2>1
        <4>2. idx[w] \in Files /\ idx[w] < next
          BY <2>1 DEF PoolInv, InHand
        <4>3. \A j \in Files : j # idx[w] => verdict'[j] = verdict[j]
          BY <3>1 DEF PoolInv, TypeInv, TypeOK
        <4>. QED
          BY <4>1, <4>2, <4>3, <2>2, <3>2, <3>3, SettlingKeeps
      <3>. QED
        BY <1>2, <1>4, <2>3, <3>4 DEF PoolInv
    <2>5. CASE field[w] \notin Kinds
      <3>1. verdict' = verdict
        BY <1>12, <2>5 DEF BumpStore, Settled
      <3>2. \A v \in Slots : Handling(v)' => Handling(v)
        BY <2>1, <2>2
      <3>. QED
        BY <1>2, <1>4, <2>1, <2>3, <3>1, <3>2
           DEF PoolInv, InHand, Unclaimed, Apart
    <2>. QED
      BY <2>4, <2>5
  <1>13. CASE BumpPush(w)
    <2>1. /\ holder = w /\ holder' = Free /\ pc[w] = "push"
          /\ \A v \in Slots : pc'[v] = IF v # w THEN pc[v]
                                        ELSE IF field[w] \in Kinds THEN "loop" ELSE "xfer"
          /\ UNCHANGED <<next, total, idx, field, reg, snap, verdict>>
      BY <1>13 DEF BumpPush, Release, Goto, PoolInv, TypeInv, TypeOK, InCritical
    <2>2. Fields = Kinds \union {"bytes"} /\ field[w] \in Fields
      BY DEF Fields, PoolInv, TypeInv, TypeOK
    <2>3. \A v \in Slots : Handling(v)' => Handling(v)
      BY <2>1, <2>2 DEF Handling
    <2>4. InCritical' /\ ReadIsCurrent'
      BY <2>1, PoolType DEF PoolInv, InCritical, ReadIsCurrent
    <2>. QED
      BY <1>2, <1>4, <2>1, <2>3, <2>4 DEF PoolInv, InHand, Unclaimed, Apart
  <1>. QED
    BY <1>5, <1>6, <1>7, <1>8, <1>9, <1>10, <1>11, <1>12, <1>13 DEF Worker

LEMMA NextPoolInv == PoolInv /\ [Next]_vars => PoolInv'
  <1> SUFFICES ASSUME PoolInv, [Next]_vars PROVE PoolInv'
    OBVIOUS
  <1>1. ASSUME UNCHANGED vars PROVE PoolInv'
    <2>1. TypeInv'
      BY NextType DEF PoolInv
    <2>. QED
      BY <1>1, <2>1
         DEF vars, shared, worker, caller, PoolInv, NotYetSpawned, InCritical,
             ReadIsCurrent, InHand, Unclaimed, Apart, Handling
  <1>. QED
    BY <1>1, CallerPoolInv, WorkerPoolInv DEF Next, Finished

(* No two workers ever have the same entry in hand, and none is handled     *)
(* again once it has a verdict, for any number of entries and threads and   *)
(* whichever thrd_create calls fail.                                        *)
THEOREM EachFileOneWorker == Spec => []OneWorkerPerFile
  <1>1. PoolInv => OneWorkerPerFile
    BY DEF PoolInv, InHand, Apart, OneWorkerPerFile
  <1>. QED
    BY <1>1, InitPoolInv, NextPoolInv, PTL DEF Spec

-----------------------------------------------------------------------------
(* The totals and what the dashboard is told of them.                       *)

(* Outside the third step of a critical section the dashboard knows the     *)
(* totals, and at no time does it know more.                                *)
Told ==
    /\ DashOn => agg = total \/ \E w \in Slots : pc[w] = "push"
    /\ \A f \in Fields : agg[f] <= total[f]

(* All but two steps of a worker leave the totals and the footer as they    *)
(* are, and no other worker's critical section ends.                        *)
LEMMA QuietFooter ==
    ASSUME PoolInv, NEW w \in Slots, Worker(w), ~BumpStore(w), ~BumpPush(w)
    PROVE  /\ UNCHANGED <<agg, total>>
           /\ \A v \in Slots : pc[v] = "push" => pc'[v] = "push"
  <1> USE DEF shared, Goto, PoolInv, TypeInv, TypeOK
  <1>1. CASE NextLock(w) \/ NextUnlock(w) \/ PickNameless(w) \/ BumpLock(w)
    BY <1>1 DEF NextLock, NextUnlock, PickNameless, BumpLock
  <1>2. CASE BeginTransfer(w) \/ Chunk(w)
    BY <1>2 DEF BeginTransfer, Chunk
  <1>3. CASE PickFiltered(w) \/ PickRestricted(w) \/ PickPresent(w)
               \/ PickUnopenable(w) \/ EndTransfer(w)
    BY <1>3 DEF PickFiltered, PickRestricted, PickPresent, PickUnopenable,
                EndTransfer, CountAs
  <1>. QED
    BY <1>1, <1>2, <1>3 DEF Worker

(* The store adds one to the total it read, the push hands over the totals  *)
(* as they still are.                                                       *)
LEMMA StoreAdds ==
    ASSUME PoolInv, NEW w \in Slots, BumpStore(w)
    PROVE  /\ total' = [total EXCEPT ![field[w]] = @ + 1]
           /\ field[w] \in Fields
           /\ agg' = agg /\ pc'[w] = "push"
  BY DEF BumpStore, Goto, PoolInv, TypeInv, TypeOK, ReadIsCurrent

LEMMA PushHandsOver ==
    ASSUME PoolInv, NEW w \in Slots, BumpPush(w)
    PROVE  total' = total /\ agg' = IF DashOn THEN total ELSE agg
  BY DEF BumpPush, Goto, PoolInv, ReadIsCurrent

LEMMA WorkerTold ==
    ASSUME PoolInv, Told, NEW w \in Slots, Worker(w)
    PROVE  Told' /\ \A f \in Fields : agg[f] <= agg'[f]
  <1>0. /\ \A f \in Fields : agg[f] \in Nat /\ total[f] \in Nat
        /\ total \in Totals
    BY DEF PoolInv, TypeInv, TypeOK, Totals
  <1>1. CASE BumpStore(w)
    <2>1. \A f \in Fields : total'[f] = IF f = field[w] THEN total[f] + 1 ELSE total[f]
      BY <1>0, <1>1, StoreAdds DEF Totals
    <2>. QED
      BY <1>0, <1>1, <2>1, StoreAdds DEF Told
  <1>2. CASE BumpPush(w)
    BY <1>0, <1>2, PushHandsOver DEF Told
  <1>3. CASE ~BumpStore(w) /\ ~BumpPush(w)
    BY <1>0, <1>3, QuietFooter DEF Told
  <1>. QED
    BY <1>1, <1>2, <1>3

LEMMA NextTold ==
    ASSUME PoolInv, Told, [Next]_vars
    PROVE  Told' /\ \A f \in Fields : agg[f] <= agg'[f]
  <1>0. \A f \in Fields : agg[f] \in Nat
    BY DEF PoolInv, TypeInv, TypeOK, Totals
  <1>1. CASE Caller
    <2>1. UNCHANGED <<agg, total>> /\ \A v \in Slots : pc[v] = "push" => pc'[v] = "push"
      BY <1>1
         DEF Caller, Alloc, AllocFails, Spawn, SpawnFails, Join, JoinUnset, Return,
             Stray, shared, worker, PoolInv, TypeInv, TypeOK, NotYetSpawned, SpawnCount
    <2>. QED
      BY <1>0, <2>1 DEF Told
  <1>2. CASE UNCHANGED vars
    BY <1>0, <1>2 DEF vars, shared, worker, Told
  <1>. QED
    BY <1>1, <1>2, WorkerTold DEF Next, Finished

LEMMA InitTold == Init => Told
  BY DEF Init, Told

(* Whenever the mutex is free the dashboard has the latest totals, for any  *)
(* number of entries and threads: between two critical sections nothing is  *)
(* counted that was not handed over.                                        *)
THEOREM FooterIsFresh == Spec => []AggFresh
  <1>1. PoolInv /\ Told => AggFresh
    BY PoolType DEF PoolInv, InCritical, Told, AggFresh
  <1>2. PoolInv /\ Told /\ [Next]_vars => Told'
    BY NextTold
  <1>. QED
    BY <1>1, <1>2, InitTold, InitPoolInv, NextPoolInv, PTL DEF Spec

(* The footer never goes back, although its copies are taken and handed     *)
(* over in two steps: a copy cannot be overtaken by a later one.            *)
THEOREM FooterMonotone == Spec => FooterNeverGoesBack
  <1>1. PoolInv /\ Told /\ [Next]_vars => [\A f \in Fields : agg[f] <= agg'[f]]_vars
    BY NextTold
  <1>2. PoolInv /\ Told /\ [Next]_vars => Told'
    BY NextTold
  <1>. QED
    BY <1>1, <1>2, InitTold, InitPoolInv, NextPoolInv, PTL DEF Spec, FooterNeverGoesBack

-----------------------------------------------------------------------------
(* Every verdict is counted, and every claimed entry gets to one.           *)

(* The entries with verdict k.                                              *)
With(k) == {i \in Files : verdict[i] = k}

LEMMA FilesFinite == IsFiniteSet(Files)
  BY DownloaderAssumption, FS_Interval DEF Files

LEMMA WithFinite == ASSUME NEW k PROVE IsFiniteSet(With(k))
  BY FilesFinite, FS_Subset DEF With

(* A verdict that is given to an entry without one adds to its own count    *)
(* and to no other.                                                         *)
LEMMA VerdictAdds ==
    ASSUME PoolInv, NEW x \in Files, verdict[x] = "pending", NEW kind,
           kind # "pending", verdict' = [verdict EXCEPT ![x] = kind], NEW k \in Kinds
    PROVE  Cardinality(With(k)') =
             IF k = kind THEN Cardinality(With(k)) + 1 ELSE Cardinality(With(k))
  <1>0. k # "pending"
    BY DEF Kinds
  <1>1. \A i \in Files : verdict'[i] = IF i = x THEN kind ELSE verdict[i]
    BY DEF PoolInv, TypeInv, TypeOK
  <1>2. CASE k = kind
    <2>1. With(k)' = With(k) \cup {x} /\ x \notin With(k)
      BY <1>0, <1>1, <1>2 DEF With
    <2>. QED
      BY <1>2, <2>1, WithFinite, FS_AddElement
  <1>3. CASE k # kind
    <2>1. With(k)' = With(k)
      BY <1>0, <1>1, <1>3 DEF With
    <2>. QED
      BY <1>3, <2>1
  <1>. QED
    BY <1>2, <1>3

Counted == \A k \in Kinds : total[k] = Cardinality(With(k))

LEMMA WorkerCounted ==
    ASSUME PoolInv, Counted, NEW w \in Slots, Worker(w)
    PROVE  Counted'
  <1> USE DEF shared, Goto, PoolInv, TypeInv, TypeOK
  <1>1. CASE BumpStore(w)
    <2>0. \A f \in Fields : total'[f] = IF f = field[w] THEN total[f] + 1 ELSE total[f]
      BY <1>1, StoreAdds DEF Totals
    <2>1. CASE field[w] \in Kinds
      <3>1. idx[w] \in Files /\ verdict[idx[w]] = "pending"
        BY <1>1 DEF BumpStore, InHand, Handling
      <3>2. verdict' = [verdict EXCEPT ![idx[w]] = field[w]] /\ field[w] # "pending"
        BY <1>1, <2>1 DEF BumpStore, Settled, Kinds
      <3>3. ASSUME NEW k \in Kinds
            PROVE  Cardinality(With(k)') = IF k = field[w] THEN Cardinality(With(k)) + 1
                                                           ELSE Cardinality(With(k))
        BY <3>1, <3>2, VerdictAdds
      <3>4. Kinds \subseteq Fields
        BY DEF Fields
      <3>. QED
        BY <2>0, <3>3, <3>4 DEF Counted
    <2>2. CASE field[w] \notin Kinds
      <3>1. verdict' = verdict /\ \A k \in Kinds : total'[k] = total[k]
        BY <1>1, <2>0, <2>2 DEF BumpStore, Settled, Fields
      <3>. QED
        BY <3>1 DEF Counted, With
    <2>. QED
      BY <2>1, <2>2
  <1>2. CASE PickNameless(w)
    <2>1. idx[w] \in Files /\ verdict[idx[w]] = "pending"
      BY <1>2 DEF PickNameless, InHand, Handling
    <2>2. verdict' = [verdict EXCEPT ![idx[w]] = "unnamed"] /\ total' = total
      BY <1>2 DEF PickNameless
    <2>3. ASSUME NEW k \in Kinds PROVE Cardinality(With(k)') = Cardinality(With(k))
      <3>1. k # "unnamed"
        BY DEF Kinds
      <3>. QED
        BY <2>1, <2>2, <3>1, VerdictAdds
    <2>. QED
      BY <2>2, <2>3 DEF Counted
  <1>3. CASE ~BumpStore(w) /\ ~PickNameless(w)
    <2>1. total' = total /\ verdict' = verdict
      BY <1>3 DEF Worker, NextLock, NextUnlock, BumpLock, BumpPush, BeginTransfer, Chunk,
                  PickFiltered, PickRestricted, PickPresent, PickUnopenable,
                  EndTransfer, CountAs
    <2>. QED
      BY <2>1 DEF Counted, With
  <1>. QED
    BY <1>1, <1>2, <1>3

(* The totals are those of the verdicts after every step, for any number of *)
(* entries and threads: the mutex loses no count, bytes are no files, and   *)
(* no entry is counted twice.                                               *)
THEOREM TotalsExact == Spec => []TotalsMatchVerdicts
  <1>1. Init => Counted
    <2>1. ASSUME Init, NEW k \in Kinds PROVE With(k) = {} /\ total[k] = 0
      BY <2>1 DEF Init, With, Kinds, Fields
    <2>. QED
      BY <2>1, FS_EmptySet DEF Counted
  <1>2. PoolInv /\ Counted /\ [Next]_vars => Counted'
    <2> SUFFICES ASSUME PoolInv, Counted, [Next]_vars PROVE Counted'
      OBVIOUS
    <2>1. CASE Caller
      <3>1. total' = total /\ verdict' = verdict
        BY <2>1 DEF Caller, Alloc, AllocFails, Spawn, SpawnFails, Join, JoinUnset,
                    Return, Stray, shared
      <3>. QED
        BY <3>1 DEF Counted, With
    <2>2. CASE UNCHANGED vars
      BY <2>2 DEF vars, shared, Counted, With
    <2>. QED
      BY <2>1, <2>2, WorkerCounted DEF Next, Finished
  <1>3. Counted => TotalsMatchVerdicts
    BY DEF Counted, With, TotalsMatchVerdicts
  <1>. QED
    BY <1>1, <1>2, <1>3, InitPoolInv, NextPoolInv, PTL DEF Spec

(* A step of a worker leaves the entries of the others in their hands, and  *)
(* the worker gives up its own only together with a verdict on it.          *)
LEMMA HandsKept ==
    ASSUME PoolInv, NEW w \in Slots, Worker(w)
    PROVE  /\ \A v \in Slots \ {w} : Handling(v) => Handling(v)' /\ idx'[v] = idx[v]
           /\ Handling(w) => \/ Handling(w)' /\ idx'[w] = idx[w]
                             \/ verdict'[idx[w]] # "pending"
           /\ \A i \in Files : verdict'[i] = "pending" => verdict[i] = "pending"
  <1> USE DEF shared, Goto, Handling, PoolInv, TypeInv, TypeOK
  <1>1. CASE NextLock(w) \/ NextUnlock(w)
    BY <1>1 DEF NextLock, NextUnlock
  <1>2. CASE PickNameless(w)
    BY <1>2 DEF PickNameless, InHand
  <1>3. CASE BeginTransfer(w) \/ Chunk(w)
    BY <1>3 DEF BeginTransfer, Chunk
  <1>4. CASE PickFiltered(w) \/ PickRestricted(w) \/ PickPresent(w)
               \/ PickUnopenable(w) \/ EndTransfer(w)
    BY <1>4 DEF PickFiltered, PickRestricted, PickPresent, PickUnopenable,
                EndTransfer, CountAs
  <1>5. CASE BumpLock(w)
    BY <1>5 DEF BumpLock
  <1>6. CASE BumpStore(w)
    <2>1. field[w] \in Kinds \/ field[w] = "bytes"
      BY DEF Fields
    <2>2. \A k \in Kinds : k # "pending"
      BY DEF Kinds
    <2>3. idx[w] \in Files
      BY <1>6 DEF BumpStore, InHand
    <2>4. "bytes" \notin Kinds
      BY DEF Kinds
    <2>. QED
      BY <1>6, <2>1, <2>2, <2>3, <2>4 DEF BumpStore, Settled
  <1>7. CASE BumpPush(w)
    <2>1. field[w] \in Kinds \/ field[w] = "bytes"
      BY DEF Fields
    <2>2. "bytes" \notin Kinds
      BY DEF Kinds
    <2>. QED
      BY <1>7, <2>1, <2>2 DEF BumpPush
  <1>. QED
    BY <1>1, <1>2, <1>3, <1>4, <1>5, <1>6, <1>7 DEF Worker

(* The one step that claims an entry puts it in the hands of who claimed    *)
(* it.                                                                      *)
LEMMA ClaimTaken ==
    ASSUME PoolInv, NEW w \in Slots, Worker(w),
           NEW i \in Files, i < next', ~(i < next)
    PROVE  Handling(w)' /\ idx'[w] = i
  <1>0. next \in Nat /\ i \in 0..Count-1 /\ Count \in Nat
    BY DownloaderAssumption DEF PoolInv, TypeInv, TypeOK, Files
  <1>1. NextUnlock(w)
    BY DEF Worker, NextLock, BumpLock, BumpStore, BumpPush, BeginTransfer, Chunk,
           PickNameless, PickFiltered, PickRestricted, PickPresent, PickUnopenable,
           EndTransfer, CountAs, shared
  <1>2. reg[w] = next /\ next' = next + 1 /\ i = next /\ idx'[w] = next
    BY <1>0, <1>1
       DEF NextUnlock, Goto, PoolInv, ReadIsCurrent, TypeInv, TypeOK
  <1>3. pc'[w] = "pick"
    BY <1>0, <1>1, <1>2 DEF NextUnlock, Goto, PoolInv, TypeInv, TypeOK
  <1>. QED
    BY <1>2, <1>3 DEF Handling

(* No entry falls between next_index and count_one: until it has a verdict  *)
(* some worker has it in hand, for any number of entries and threads.       *)
THEOREM NoEntryLost == Spec => []NoneLost
  <1>1. Init => NoneLost
    BY DownloaderAssumption DEF Init, NoneLost, Files
  <1>2. PoolInv /\ NoneLost /\ [Next]_vars => NoneLost'
    <2> SUFFICES ASSUME PoolInv, NoneLost, [Next]_vars,
                        NEW i \in Files, i < next', verdict'[i] = "pending"
                 PROVE  \E v \in Slots : Handling(v)' /\ idx'[v] = i
      BY DEF NoneLost
    <2>1. ASSUME NEW w \in Slots, Worker(w)
          PROVE  \E v \in Slots : Handling(v)' /\ idx'[v] = i
      <3>1. CASE i < next
        <4>1. PICK v \in Slots : Handling(v) /\ idx[v] = i
          BY <2>1, <3>1, HandsKept DEF NoneLost
        <4>. QED
          BY <2>1, <4>1, HandsKept
      <3>2. CASE ~(i < next)
        BY <2>1, <3>2, ClaimTaken
      <3>. QED
        BY <3>1, <3>2
    <2>2. CASE Caller
      <3>1. UNCHANGED <<next, verdict, idx, field>>
        BY <2>2 DEF Caller, Alloc, AllocFails, Spawn, SpawnFails, Join, JoinUnset,
                    Return, Stray, shared, worker
      <3>2. \A v \in Slots : pc[v] # "none" => pc'[v] = pc[v]
        BY <2>2
           DEF Caller, Alloc, AllocFails, Spawn, SpawnFails, Join, JoinUnset, Return,
               Stray, worker, PoolInv, TypeInv, TypeOK, NotYetSpawned, SpawnCount
      <3>. QED
        BY <3>1, <3>2 DEF NoneLost, Handling
    <2>3. CASE UNCHANGED vars
      BY <2>3 DEF vars, shared, worker, NoneLost, Handling
    <2>. QED
      BY <2>1, <2>2, <2>3 DEF Next, Finished
  <1>. QED
    BY <1>1, <1>2, InitPoolInv, NextPoolInv, PTL DEF Spec

-----------------------------------------------------------------------------
(* The return.  The join loop counts handles from 0; that the first         *)
(* `spawned` of them are the filled ones needs that no thrd_create failed   *)
(* but for the last slot.                                                   *)
OnlyLastFails == Failable \subseteq {Pool - 1}

(* The filled handles, and the threads, are those of the first `spawned`    *)
(* slots, and those that were joined have ended.                            *)
Ranked ==
    /\ main = "alloc" => cur = 0
    /\ main \in {"alloc", "spawn"} => spawned = cur /\ cur < Pool
    /\ main \in {"alloc", "spawn", "join"} =>
          \A w \in Slots : (handle[w] <=> w < spawned) /\ (pc[w] # "none" <=> w < spawned)
    /\ main = "join" => cur <= spawned /\ \A w \in Slots : w < cur => pc[w] = "done"
    /\ main = "returned" => \A w \in Slots : ~Live(w)

LEMMA InitRanked == Init => Ranked
  BY PoolType DEF Init, Ranked, Slots

LEMMA WorkerRanked == ASSUME PoolInv, Ranked, NEW w \in Slots, Worker(w) PROVE Ranked'
  <1>1. UNCHANGED <<caller, listing>> /\ main \notin {"returned", "dead"}
    BY CallerUntouched DEF Worker
  <1>2. /\ pc[w] \notin {"none", "done"}
        /\ \E to \in {"loop", "next", "pick", "xfer", "chunk", "count", "bump",
                      "push", "done"} : pc' = [pc EXCEPT ![w] = to]
    BY DEF Worker, NextLock, NextUnlock, PickNameless, PickFiltered,
           PickRestricted, PickPresent, PickUnopenable, BeginTransfer, Chunk,
           EndTransfer, CountAs, BumpLock, BumpStore, BumpPush, Goto
  <1>3. /\ \A v \in Slots : pc[v] = "none" <=> pc'[v] = "none"
        /\ \A v \in Slots : pc[v] = "done" => pc'[v] = "done"
    BY <1>2 DEF PoolInv, TypeInv, TypeOK
  <1>. QED
    BY <1>1, <1>3 DEF caller, Ranked

LEMMA CallerRanked == ASSUME OnlyLastFails, PoolInv, Ranked, Caller PROVE Ranked'
  <1>0. /\ Pool \in Nat \ {0} /\ Slots = 0..Pool-1
        /\ cur \in 0..Pool /\ spawned \in 0..Pool
    BY PoolType DEF PoolInv, TypeInv, TypeOK, Slots
  <1>1. CASE Alloc
    BY <1>1 DEF Alloc, worker, Ranked
  <1>2. CASE AllocFails
    <2>1. \A w \in Slots : ~Live(w)
      BY <1>0, <1>2 DEF AllocFails, PoolInv, NotYetSpawned, Ranked, Live
    <2>. QED
      BY <1>2, <2>1 DEF AllocFails, worker, Ranked, Live
  <1>3. CASE Spawn
    <2>1. cur \in Slots /\ spawned = cur /\ cur < Pool
      BY <1>0, <1>3 DEF Spawn, Ranked
    <2>2. \A w \in Slots : /\ pc'[w] = IF w = cur THEN "loop" ELSE pc[w]
                           /\ handle'[w] = IF w = cur THEN TRUE ELSE handle[w]
      BY <1>3 DEF Spawn, PoolInv, TypeInv, TypeOK
    <2>3. ASSUME NEW w \in Slots
          PROVE  (handle'[w] <=> w < spawned') /\ (pc'[w] # "none" <=> w < spawned')
      <3>1. spawned' = cur + 1 /\ w \in Nat /\ (w < cur + 1 <=> w < cur \/ w = cur)
        BY <1>0, <1>3, <2>1 DEF Spawn
      <3>2. (handle[w] <=> w < cur) /\ (pc[w] # "none" <=> w < cur)
        BY <1>3, <2>1 DEF Spawn, Ranked
      <3>. QED
        BY <2>2, <3>1, <3>2
    <2>4. CASE cur + 1 < Pool
      BY <1>0, <1>3, <2>1, <2>3, <2>4 DEF Spawn, Advance, Ranked
    <2>5. CASE ~(cur + 1 < Pool)
      BY <1>0, <1>3, <2>1, <2>3, <2>5 DEF Spawn, Advance, Ranked
    <2>. QED
      BY <2>4, <2>5
  <1>4. CASE SpawnFails
    <2>1. cur = Pool - 1 /\ spawned = cur
      BY <1>4 DEF SpawnFails, OnlyLastFails, Ranked
    <2>2. main' = "join" /\ cur' = 0 /\ UNCHANGED <<spawned, handle, pc>>
      BY <1>0, <1>4, <2>1 DEF SpawnFails, Advance, worker
    <2>. QED
      BY <1>0, <1>4, <2>1, <2>2 DEF SpawnFails, Ranked
  <1>5. CASE Join
    BY <1>0, <1>5 DEF Join, worker, Ranked
  <1>6. CASE JoinUnset
    BY <1>0, <1>6 DEF JoinUnset, Ranked
  <1>7. CASE Return
    <2>1. \A w \in Slots : ~Live(w)
      BY <1>0, <1>7 DEF Return, Ranked, Live
    <2>. QED
      BY <1>7, <2>1 DEF Return, worker, Ranked, Live
  <1>8. CASE Stray
    BY <1>8 DEF Stray, Ranked
  <1>. QED
    BY <1>1, <1>2, <1>3, <1>4, <1>5, <1>6, <1>7, <1>8 DEF Caller

LEMMA NextRanked == ASSUME OnlyLastFails, PoolInv, Ranked, [Next]_vars PROVE Ranked'
  <1>1. CASE UNCHANGED vars
    BY <1>1 DEF vars, worker, caller, Ranked, Live
  <1>. QED
    BY <1>1, CallerRanked, WorkerRanked DEF Next, Finished

(* Where every thread but perhaps the last is created, none of them still   *)
(* runs when download_all returns, for any number of entries and threads.   *)
THEOREM NothingLeftRunning ==
    ASSUME OnlyLastFails PROVE Spec => []WorkersDoneAtReturn
  <1>1. Ranked => WorkersDoneAtReturn
    BY DEF Ranked, WorkersDoneAtReturn
  <1>2. PoolInv /\ Ranked /\ [Next]_vars => Ranked'
    BY NextRanked
  <1>. QED
    BY <1>1, <1>2, InitRanked, InitPoolInv, NextPoolInv, PTL DEF Spec

(* What a return value of 0 rests on: a thread exists, a worker ends only   *)
(* past the last entry, a wanted entry gets no verdict of the flags.        *)
SomeoneWorks == main = "join" => spawned >= 1

EndsPastLast == \A w \in Slots : pc[w] = "done" => next >= Count

ByFlags == {"unnamed", "filtered", "restricted"}

WantedStays ==
    /\ \A i \in Files : Wanted(i) => verdict[i] \notin ByFlags
    /\ \A w \in Slots : pc[w] \in {"chunk", "count", "bump"} /\ Wanted(idx[w]) =>
          field[w] \notin ByFlags

ReturnsLast == rc # -1 => main \in {"returned", "dead"}

ReturnInv ==
    Ranked /\ SomeoneWorks /\ EndsPastLast /\ WantedStays /\ ReturnsLast /\ ZeroMeansAllThere

LEMMA InitReturnInv == Init => ReturnInv
  <1>1. Init => \A i \in Files : verdict[i] \notin ByFlags
    BY DEF Init, ByFlags
  <1>. QED
    BY <1>1, InitRanked
       DEF Init, ReturnInv, SomeoneWorks, EndsPastLast, WantedStays, ReturnsLast,
           ZeroMeansAllThere

LEMMA WorkerReturnInv ==
    ASSUME PoolInv, ReturnInv, NEW w \in Slots, Worker(w) PROVE ReturnInv'
  <1>0. next \in Nat /\ Count \in Nat
    BY DownloaderAssumption DEF PoolInv, TypeInv, TypeOK
  <1>1. UNCHANGED <<caller, listing>> /\ main \notin {"returned", "dead"} /\ rc = -1
    BY CallerUntouched DEF Worker, ReturnInv, ReturnsLast
  <1>2. Ranked' /\ SomeoneWorks' /\ ReturnsLast' /\ ZeroMeansAllThere'
    BY <1>1, WorkerRanked DEF caller, ReturnInv, SomeoneWorks, ReturnsLast, ZeroMeansAllThere
  <1>3. EndsPastLast' /\ WantedStays'
    <2> USE <1>0, <1>1 DEF shared, Goto, ReturnInv, EndsPastLast, WantedStays,
                           Wanted, ByFlags, PoolInv, TypeInv, TypeOK
    <2>1. CASE NextLock(w) \/ BeginTransfer(w)
      BY <2>1 DEF NextLock, BeginTransfer
    <2>2. CASE NextUnlock(w)
      BY <2>2 DEF NextUnlock, ReadIsCurrent
    <2>3. CASE PickNameless(w)
      BY <2>3 DEF PickNameless
    <2>4. CASE PickFiltered(w)
      BY <2>4 DEF PickFiltered, CountAs
    <2>5. CASE PickRestricted(w)
      BY <2>5 DEF PickRestricted, CountAs
    <2>6. CASE PickPresent(w) \/ PickUnopenable(w) \/ EndTransfer(w)
      BY <2>6 DEF PickPresent, PickUnopenable, EndTransfer, CountAs
    <2>7. CASE Chunk(w)
      BY <2>7 DEF Chunk
    <2>8. CASE BumpLock(w)
      BY <2>8 DEF BumpLock
    <2>9. CASE BumpStore(w)
      BY <2>9 DEF BumpStore, Settled
    <2>10. CASE BumpPush(w)
      BY <2>10 DEF BumpPush
    <2>. QED
      BY <2>1, <2>2, <2>3, <2>4, <2>5, <2>6, <2>7, <2>8, <2>9, <2>10 DEF Worker
  <1>. QED
    BY <1>2, <1>3 DEF ReturnInv

(* When download_all returns, every entry has its verdict.                  *)
LEMMA ReturnsSettled ==
    ASSUME PoolInv, NoneLost, Ranked, SomeoneWorks, EndsPastLast, Return, NEW i \in Files
    PROVE  verdict[i] # "pending"
  <1>0. /\ Pool \in Nat \ {0} /\ Slots = 0..Pool-1 /\ spawned \in 0..Pool
        /\ i < Count /\ i \in Nat /\ Count \in Nat /\ next \in Nat
    BY PoolType, DownloaderAssumption DEF PoolInv, TypeInv, TypeOK, Slots, Files
  <1>1. \A w \in Slots : IF w < spawned THEN pc[w] = "done" ELSE pc[w] = "none"
    BY <1>0 DEF Return, Ranked
  <1>2. 0 \in Slots /\ 0 < spawned
    BY <1>0 DEF Return, SomeoneWorks
  <1>3. i < next
    BY <1>0, <1>1, <1>2 DEF EndsPastLast
  <1>4. \A w \in Slots : ~Handling(w)
    BY <1>1 DEF Handling
  <1>. QED
    BY <1>3, <1>4 DEF NoneLost

(* With no failure counted when everybody has ended, every wanted entry was *)
(* downloaded or was there.                                                 *)
LEMMA ZeroIsEarned ==
    ASSUME PoolInv, Counted, NoneLost, ReturnInv, Return, rc' = 0,
           NEW i \in Files, Wanted(i)
    PROVE  verdict[i] \in {"downloaded", "skipped"}
  <1>5. verdict[i] # "pending"
    BY ReturnsSettled DEF ReturnInv
  <1>6. "failed" \in Kinds /\ total["failed"] = 0
    <2>1. "failed" \in Kinds /\ total["failed"] \in Nat
      BY DEF Kinds, Fields, PoolInv, TypeInv, TypeOK, Totals
    <2>. QED
      BY <2>1 DEF Return
  <1>7. With("failed") = {}
    BY <1>6, WithFinite, FS_EmptySet DEF Counted
  <1>8. verdict[i] # "failed"
    BY <1>7 DEF With
  <1>9. verdict[i] \notin ByFlags
    BY DEF ReturnInv, WantedStays
  <1>10. verdict[i] \in Kinds \union {"pending", "unnamed"}
    BY DEF PoolInv, TypeInv, TypeOK
  <1>. QED
    BY <1>5, <1>8, <1>9, <1>10 DEF Kinds, ByFlags

LEMMA CallerReturnInv ==
    ASSUME OnlyLastFails, 0 \notin Failable, PoolInv, Counted, NoneLost, ReturnInv, Caller
    PROVE  ReturnInv'
  <1>0. Pool \in Nat \ {0} /\ cur \in 0..Pool /\ spawned \in 0..Pool
    BY PoolType DEF PoolInv, TypeInv, TypeOK
  <1>1. Ranked'
    BY CallerRanked DEF ReturnInv
  <1>2. UNCHANGED <<next, idx, field, verdict, listing>>
    BY DEF Caller, Alloc, AllocFails, Spawn, SpawnFails, Join, JoinUnset,
           Return, Stray, shared, worker
  <1>3. \A w \in Slots : pc'[w] = pc[w] \/ pc'[w] = "loop"
    BY DEF Caller, Alloc, AllocFails, Spawn, SpawnFails, Join, JoinUnset, Return,
           Stray, worker, PoolInv, TypeInv, TypeOK
  <1>4. EndsPastLast' /\ WantedStays'
    BY <1>2, <1>3 DEF ReturnInv, EndsPastLast, WantedStays, Wanted
  <1>5. SomeoneWorks'
    <2>1. CASE SpawnFails
      BY <1>0, <2>1 DEF SpawnFails, Advance, OnlyLastFails, ReturnInv, Ranked, SomeoneWorks
    <2>2. CASE ~SpawnFails
      BY <1>0, <2>2
         DEF Caller, Alloc, AllocFails, Spawn, Advance, Join, JoinUnset, Return,
             Stray, ReturnInv, Ranked, SomeoneWorks
    <2>. QED
      BY <2>1, <2>2
  <1>6. ReturnsLast'
    BY DEF Caller, Alloc, AllocFails, Spawn, SpawnFails, Advance, Join, JoinUnset, Return,
           Stray, ReturnInv, ReturnsLast
  <1>7. ZeroMeansAllThere'
    <2>1. CASE Return
      BY <1>2, <2>1, ZeroIsEarned DEF ZeroMeansAllThere, Wanted
    <2>2. CASE ~Return
      <3>1. rc' # 0 \/ rc' = rc
        BY <2>2 DEF Caller, Alloc, AllocFails, Spawn, SpawnFails, Join, JoinUnset, Stray
      <3>. QED
        BY <1>2, <3>1 DEF ReturnInv, ZeroMeansAllThere, Wanted
    <2>. QED
      BY <2>1, <2>2
  <1>. QED
    BY <1>1, <1>4, <1>5, <1>6, <1>7 DEF ReturnInv

LEMMA NextReturnInv ==
    ASSUME OnlyLastFails, 0 \notin Failable, PoolInv, Counted, NoneLost, ReturnInv,
           [Next]_vars
    PROVE  ReturnInv'
  <1>1. CASE UNCHANGED vars
    BY <1>1 DEF vars, shared, worker, caller, ReturnInv, Ranked, Live, SomeoneWorks,
                EndsPastLast, WantedStays, Wanted, ReturnsLast, ZeroMeansAllThere
  <1>. QED
    BY <1>1, WorkerReturnInv, CallerReturnInv DEF Next, Finished

(* "@return 0 on success": with the first thread created, and all others    *)
(* but perhaps the last, a 0 says that every wanted file was downloaded or  *)
(* was there, for any number of entries and threads.                        *)
THEOREM ZeroIsSuccess ==
    ASSUME OnlyLastFails, 0 \notin Failable PROVE Spec => []ZeroMeansAllThere
  <1>1. ReturnInv => ZeroMeansAllThere
    BY DEF ReturnInv
  <1>2. PoolInv /\ Counted /\ NoneLost /\ ReturnInv /\ [Next]_vars => ReturnInv'
    BY NextReturnInv
  <1>3. TotalsMatchVerdicts => Counted
    BY DEF TotalsMatchVerdicts, Counted, With
  <1>. QED
    BY <1>1, <1>2, <1>3, InitReturnInv, InitPoolInv, NextPoolInv, TotalsExact,
       NoEntryLost, PTL DEF Spec

-----------------------------------------------------------------------------
(* The pool takes no step that Batch does not.                              *)

(* What a worker is about to count is what Batch allows for its entry.      *)
Judged ==
    \A w \in Slots :
        LET i == idx[w] IN
        /\ pc[w] \in {"xfer", "chunk"} => Wanted(i)
        /\ pc[w] = "chunk" => field[w] = "bytes"
        /\ pc[w] = "count" => listing[i].named /\ field[w] \in B!Allowed(i)
        /\ pc[w] \in {"bump", "push"} =>
              IF field[w] = "bytes" THEN Wanted(i)
                                    ELSE listing[i].named /\ field[w] \in B!Allowed(i)

(* Before the workers exist nothing is claimed.                             *)
Untouched == main = "alloc" => next = 0

LEMMA WorkerJudged == ASSUME PoolInv, Judged, NEW w \in Slots, Worker(w) PROVE Judged'
  <1> USE CallerUntouched
      DEF shared, caller, Goto, Judged, Wanted, B!Allowed, PoolInv, TypeInv, TypeOK
  <1>1. CASE NextLock(w) \/ NextUnlock(w)
    BY <1>1 DEF NextLock, NextUnlock
  <1>2. CASE PickNameless(w) \/ BeginTransfer(w)
    BY <1>2 DEF PickNameless, BeginTransfer
  <1>3. CASE PickFiltered(w)
    BY <1>3 DEF PickFiltered, CountAs
  <1>4. CASE PickRestricted(w)
    BY <1>4 DEF PickRestricted, CountAs
  <1>5. CASE PickPresent(w) \/ PickUnopenable(w)
    BY <1>5 DEF PickPresent, PickUnopenable, CountAs
  <1>6. CASE EndTransfer(w)
    BY <1>6 DEF EndTransfer, CountAs
  <1>7. CASE Chunk(w)
    BY <1>7 DEF Chunk
  <1>8. CASE BumpLock(w)
    BY <1>8 DEF BumpLock
  <1>9. CASE BumpStore(w)
    BY <1>9 DEF BumpStore
  <1>10. CASE BumpPush(w)
    <2>1. "bytes" \notin Kinds /\ Fields = Kinds \union {"bytes"}
      BY DEF Kinds, Fields
    <2>. QED
      BY <1>10, <2>1 DEF BumpPush
  <1>. QED
    BY <1>1, <1>2, <1>3, <1>4, <1>5, <1>6, <1>7, <1>8, <1>9, <1>10 DEF Worker

LEMMA NextJudged == ASSUME PoolInv, Judged, [Next]_vars PROVE Judged'
  <1>1. CASE Caller
    <2>1. UNCHANGED <<idx, field, listing>>
      BY <1>1 DEF Caller, Alloc, AllocFails, Spawn, SpawnFails, Join, JoinUnset,
                  Return, Stray, shared, worker
    <2>2. \A w \in Slots : pc'[w] = pc[w] \/ pc'[w] = "loop"
      BY <1>1 DEF Caller, Alloc, AllocFails, Spawn, SpawnFails, Join, JoinUnset, Return,
                  Stray, worker, PoolInv, TypeInv, TypeOK
    <2>. QED
      BY <2>1, <2>2 DEF Judged, Wanted, B!Allowed
  <1>2. CASE UNCHANGED vars
    BY <1>2 DEF vars, worker, Judged, Wanted, B!Allowed
  <1>. QED
    BY <1>1, <1>2, WorkerJudged DEF Next, Finished

LEMMA NextUntouched == ASSUME PoolInv, Ranked, Untouched, [Next]_vars PROVE Untouched'
  <1>1. ASSUME NEW w \in Slots, Worker(w) PROVE Untouched'
    <2>1. pc[w] # "none" /\ main' = main /\ w >= 0
      BY <1>1, CallerUntouched, PoolType
         DEF Worker, NextLock, NextUnlock, PickNameless, PickFiltered,
             PickRestricted, PickPresent, PickUnopenable, BeginTransfer, Chunk,
             EndTransfer, CountAs, BumpLock, BumpStore, BumpPush, Goto, caller, Slots
    <2>2. main # "alloc"
      BY <2>1 DEF PoolInv, NotYetSpawned, Ranked
    <2>. QED
      BY <2>1, <2>2 DEF Untouched
  <1>2. CASE Caller
    BY <1>2 DEF Caller, Alloc, AllocFails, Spawn, SpawnFails, Advance, Join, JoinUnset,
                Return, Stray, shared, Untouched
  <1>3. CASE UNCHANGED vars
    BY <1>3 DEF vars, shared, caller, Untouched
  <1>. QED
    BY <1>1, <1>2, <1>3 DEF Next, Finished

(* Only the store of a count, and passing over an entry without a name, are *)
(* steps of Batch; all others of a worker are stutters.                     *)
LEMMA WorkerIsBatch ==
    ASSUME PoolInv, ReturnInv, Judged, NEW w \in Slots, Worker(w)
    PROVE  [B!Next]_(B!vars)
  <1>1. rc = -1 /\ UNCHANGED <<rc, listing>>
    BY CallerUntouched DEF Worker, caller, ReturnInv, ReturnsLast
  <1>2. CASE BumpStore(w)
    <2>0. \A f \in Fields : total'[f] = IF f = field[w] THEN total[f] + 1 ELSE total[f]
      BY <1>2, StoreAdds DEF PoolInv, TypeInv, TypeOK, Totals
    <2>1. CASE field[w] \in Kinds
      <3>0. field[w] # "bytes" /\ Kinds \subseteq Fields /\ B!Kinds = Kinds
        BY <2>1 DEF Kinds, Fields, B!Kinds
      <3>1. idx[w] \in Files /\ verdict[idx[w]] = "pending"
        BY <1>2 DEF BumpStore, Goto, Handling, PoolInv, InHand
      <3>2. listing[idx[w]].named /\ field[w] \in B!Allowed(idx[w])
        BY <1>2, <3>0 DEF BumpStore, Goto, Judged
      <3>3. verdict' = [verdict EXCEPT ![idx[w]] = field[w]]
        BY <1>2, <2>1 DEF BumpStore, Settled
      <3>4. [k \in Kinds |-> total'[k]]
              = [[k \in Kinds |-> total[k]] EXCEPT ![field[w]] = @ + 1]
        BY <2>0, <2>1, <3>0
      <3>5. PICK i \in Files : i = idx[w]
        BY <3>1
      <3>6. B!Settle(i)
        BY <1>1, <3>1, <3>2, <3>3, <3>4, <3>5 DEF B!Settle
      <3>. QED
        BY <3>6 DEF B!Next
    <2>2. CASE field[w] \notin Kinds
      <3>1. verdict' = verdict /\ \A k \in Kinds : total'[k] = total[k]
        BY <1>2, <2>0, <2>2 DEF BumpStore, Settled, Fields
      <3>2. [k \in Kinds |-> total'[k]] = [k \in Kinds |-> total[k]]
        BY <3>1
      <3>. QED
        BY <1>1, <3>1, <3>2 DEF B!vars
    <2>. QED
      BY <2>1, <2>2
  <1>3. CASE PickNameless(w)
    <2>1. idx[w] \in Files /\ verdict[idx[w]] = "pending"
      BY <1>3 DEF PickNameless, Goto, Handling, PoolInv, InHand
    <2>2. B!PassOver(idx[w])
      BY <1>1, <1>3, <2>1 DEF PickNameless, shared, B!PassOver
    <2>. QED
      BY <2>1, <2>2 DEF B!Next
  <1>4. CASE ~BumpStore(w) /\ ~PickNameless(w)
    <2>1. total' = total /\ verdict' = verdict
      BY <1>4 DEF Worker, NextLock, NextUnlock, BumpLock, BumpPush, BeginTransfer, Chunk,
                  PickFiltered, PickRestricted, PickPresent, PickUnopenable,
                  EndTransfer, CountAs, shared
    <2>. QED
      BY <1>1, <2>1 DEF B!vars
  <1>. QED
    BY <1>2, <1>3, <1>4

LEMMA CallerIsBatch ==
    ASSUME PoolInv, NoneLost, ReturnInv, Untouched, Caller
    PROVE  [B!Next]_(B!vars)
  <1>1. UNCHANGED <<total, verdict, listing>>
    BY DEF Caller, Alloc, AllocFails, Spawn, SpawnFails, Join, JoinUnset,
           Return, Stray, shared
  <1>2. CASE Return
    <2>1. \A i \in Files : verdict[i] # "pending"
      BY <1>2, ReturnsSettled DEF ReturnInv
    <2>2. rc = -1 /\ "failed" \in Kinds
      BY <1>2 DEF Return, ReturnInv, ReturnsLast, Kinds
    <2>3. B!Return
      BY <1>1, <1>2, <2>1, <2>2 DEF Return, B!Return
    <2>. QED
      BY <2>3 DEF B!Next
  <1>3. CASE AllocFails
    <2>1. \A i \in Files : verdict[i] = "pending"
      BY <1>3, DownloaderAssumption DEF AllocFails, Untouched, PoolInv, Unclaimed, Files
    <2>2. rc = -1
      BY <1>3 DEF AllocFails, ReturnInv, ReturnsLast
    <2>3. B!Refuse
      BY <1>1, <1>3, <2>1, <2>2 DEF AllocFails, B!Refuse
    <2>. QED
      BY <2>3 DEF B!Next
  <1>4. CASE ~Return /\ ~AllocFails
    <2>1. rc' = rc
      BY <1>4 DEF Caller, Alloc, Spawn, SpawnFails, Join, JoinUnset, Stray
    <2>. QED
      BY <1>1, <2>1 DEF B!vars
  <1>. QED
    BY <1>2, <1>3, <1>4

LEMMA StepIsBatch ==
    ASSUME PoolInv, NoneLost, ReturnInv, Judged, Untouched, [Next]_vars
    PROVE  [B!Next]_(B!vars)
  <1>1. CASE UNCHANGED vars
    BY <1>1 DEF vars, shared, caller, B!vars
  <1>. QED
    BY <1>1, WorkerIsBatch, CallerIsBatch DEF Next, Finished

(* The safety of ImplementsBatch: where the first thread is created, and    *)
(* all others but perhaps the last, the pool begins as Batch does and each  *)
(* of its steps is one of Batch or none, for any number of entries and      *)
(* threads.                                                                 *)
THEOREM PoolRefinesBatch ==
    ASSUME OnlyLastFails, 0 \notin Failable
    PROVE  Spec => B!Init /\ [][B!Next]_(B!vars)
  <1>1. Init => B!Init /\ Judged /\ Untouched
    <2> SUFFICES ASSUME Init PROVE B!Init /\ Judged /\ Untouched
      OBVIOUS
    <2>1. [k \in Kinds |-> total[k]] = [k \in B!Kinds |-> 0]
      BY DEF Init, Kinds, Fields, B!Kinds
    <2>. QED
      BY <2>1 DEF Init, B!Init, Judged, Untouched
  <1>2. PoolInv /\ Counted /\ NoneLost /\ ReturnInv /\ [Next]_vars => ReturnInv'
    BY NextReturnInv
  <1>3. PoolInv /\ ReturnInv /\ Judged /\ Untouched /\ [Next]_vars => Judged' /\ Untouched'
    BY NextJudged, NextUntouched DEF ReturnInv
  <1>4. PoolInv /\ NoneLost /\ ReturnInv /\ Judged /\ Untouched /\ [Next]_vars
          => [B!Next]_(B!vars)
    BY StepIsBatch
  <1>5. TotalsMatchVerdicts => Counted
    BY DEF TotalsMatchVerdicts, Counted, With
  <1>. QED
    BY <1>1, <1>2, <1>3, <1>4, <1>5, InitReturnInv, InitPoolInv, NextPoolInv, TotalsExact,
       NoEntryLost, PTL DEF Spec

=============================================================================
