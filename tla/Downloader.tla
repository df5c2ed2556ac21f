----------------------------- MODULE Downloader -----------------------------
(***************************************************************************)
(* download_all (downloader.c): the calling thread starts a pool of        *)
(* workers over one listing, joins them and returns; each worker claims    *)
(* the next entry, handles it and counts it.  What the workers share is    *)
(* DownloadShared, under one mutex, and the totals the dashboard was last  *)
(* told.  A critical section is three steps -- lock and read, write,       *)
(* publish and unlock -- so that the mutex is what makes it atomic, not    *)
(* the model.  What happens to the local file is module Transfer's matter: *)
(* here a transfer is chunks and then one of its results.                  *)
(***************************************************************************)
EXTENDS Integers, FiniteSets

CONSTANTS
    Count,         \* entries of the listing
    Threads,       \* the `threads` argument
    Listings,      \* what the listing may say of its entries
    Failable,      \* slots whose thrd_create may fail
    DashOn,        \* dash_active()
    MaxChunks      \* bound: chunks counted in bytes_done

ASSUME DownloaderAssumption ==
    /\ Count \in Nat
    /\ Threads \in Int
    /\ \A l \in Listings :
          l \in [0..Count-1 -> [named : BOOLEAN, filtered : BOOLEAN,
                                restricted : BOOLEAN]]
    /\ DashOn \in BOOLEAN
    /\ MaxChunks \in Nat

Files == 0..Count-1
Kinds == {"downloaded", "skipped", "failed", "restricted", "filtered"}
Fields == Kinds \union {"bytes"}    \* DownloadStats and bytes_done

(* The size of the pool: at least one thread, at most one per file.         *)
Pool ==
    LET asked  == IF Threads > 0 THEN Threads ELSE 1
        capped == IF asked > Count THEN Count ELSE asked
    IN  IF capped < 1 THEN 1 ELSE capped

Slots == 0..Pool-1
Free == -1         \* nobody holds the mutex

VARIABLES
    listing,       \* names, filtered, restricted
    next,          \* DownloadShared.next
    total,         \* DownloadShared.stats and .bytes_done
    holder,        \* who holds DownloadShared.mutex
    agg,           \* g_agg of the dashboard
    pc,            \* worker: where it is
    idx,           \* worker: the entry it handles
    field,         \* worker: the total it is about to bump
    reg,           \* worker: the value it read
    snap,          \* worker: its DashCounters copy
    main,          \* the calling thread: where it is
    cur,           \* the calling thread: its loop variable
    spawned,       \* the calling thread: threads counted as created
    handle,        \* workers[]: TRUE once thrd_create filled it
    rc,            \* return value, -1 before
    verdict        \* history: how each entry ended

shared  == <<next, total, holder, agg>>
worker  == <<pc, idx, field, reg, snap>>
caller  == <<main, cur, spawned, handle, rc>>
vars    == <<listing, shared, worker, caller, verdict>>

Init ==
    /\ listing \in Listings
    /\ next = 0 /\ holder = Free
    /\ total = [f \in Fields |-> 0] /\ agg = [f \in Fields |-> 0]
    /\ pc = [w \in Slots |-> "none"]
    /\ idx = [w \in Slots |-> 0]
    /\ field = [w \in Slots |-> "bytes"]
    /\ reg = [w \in Slots |-> 0]
    /\ snap = [w \in Slots |-> [f \in Fields |-> 0]]
    /\ main = "alloc" /\ cur = 0 /\ spawned = 0 /\ rc = -1
    /\ handle = [w \in Slots |-> FALSE]
    /\ verdict = [i \in Files |-> "pending"]

-----------------------------------------------------------------------------
(* The mutex and the worker's program counter.                              *)

(* Mutant: the mutex is not waited for.                                     *)
AcquireNothing(w) == holder' = w

Acquire(w) == holder = Free /\ holder' = w
Release(w) == holder' = Free

Goto(w, from, to) ==
    /\ pc[w] = from
    /\ pc' = [pc EXCEPT ![w] = to]

(* next_index: i = next++ under the mutex, then i < count.                  *)
NextLock(w) ==
    /\ Goto(w, "loop", "next")
    /\ Acquire(w)
    /\ reg' = [reg EXCEPT ![w] = next]
    /\ UNCHANGED <<listing, next, total, agg, idx, field, snap, caller, verdict>>

(* Mutant: past the end of the listing the worker asks again.               *)
NextUnlockForever(w) ==
    /\ Goto(w, "next", IF reg[w] < Count THEN "pick" ELSE "loop")
    /\ next' = IF reg[w] < Count THEN reg[w] + 1 ELSE reg[w]
    /\ idx' = [idx EXCEPT ![w] = reg[w]]
    /\ Release(w)
    /\ UNCHANGED <<listing, total, agg, field, reg, snap, caller, verdict>>

NextUnlock(w) ==
    /\ Goto(w, "next", IF reg[w] < Count THEN "pick" ELSE "done")
    /\ next' = reg[w] + 1
    /\ idx' = [idx EXCEPT ![w] = reg[w]]
    /\ Release(w)
    /\ UNCHANGED <<listing, total, agg, field, reg, snap, caller, verdict>>

(* The early exits of download_one's loop, in their order.                  *)
PickNameless(w) ==
    /\ Goto(w, "pick", "loop")
    /\ ~listing[idx[w]].named
    /\ verdict' = [verdict EXCEPT ![idx[w]] = "unnamed"]
    /\ UNCHANGED <<listing, shared, idx, field, reg, snap, caller>>

(* Mutant: the loop goes on without count_one.                              *)
CountAsNothing(w, from, kind) ==
    /\ Goto(w, from, "loop")
    /\ UNCHANGED <<listing, shared, idx, field, reg, snap, caller, verdict>>

CountAs(w, from, kind) ==
    /\ Goto(w, from, "count")
    /\ field' = [field EXCEPT ![w] = kind]
    /\ UNCHANGED <<listing, shared, idx, reg, snap, caller, verdict>>

PickFiltered(w) ==
    /\ CountAs(w, "pick", "filtered")
    /\ listing[idx[w]].named /\ listing[idx[w]].filtered

PickRestricted(w) ==
    /\ CountAs(w, "pick", "restricted")
    /\ listing[idx[w]].named /\ ~listing[idx[w]].filtered
    /\ listing[idx[w]].restricted

Wanted(i) == listing[i].named /\ ~listing[i].filtered /\ ~listing[i].restricted

(* A wanted file is already there, or cannot be opened, or is requested.    *)
PickPresent(w)    == CountAs(w, "pick", "skipped") /\ Wanted(idx[w])
PickUnopenable(w) == CountAs(w, "pick", "failed") /\ Wanted(idx[w])

BeginTransfer(w) ==
    /\ Goto(w, "pick", "xfer")
    /\ Wanted(idx[w])
    /\ UNCHANGED <<listing, shared, idx, field, reg, snap, caller, verdict>>

(* progress_display with a dashboard: the chunk goes to bytes_done.         *)
Chunk(w) ==
    /\ DashOn
    /\ total["bytes"] < MaxChunks
    /\ Goto(w, "xfer", "chunk")
    /\ field' = [field EXCEPT ![w] = "bytes"]
    /\ UNCHANGED <<listing, shared, idx, reg, snap, caller, verdict>>

EndTransfer(w) ==
    \E kind \in {"downloaded", "skipped", "failed"} : CountAs(w, "xfer", kind)

(* The critical section of count_one and of progress_display: bump a total, *)
(* copy all of them, hand the copy to dash_set_agg, unlock.                 *)
BumpLock(w) ==
    /\ \/ Goto(w, "count", "bump")
       \/ Goto(w, "chunk", "bump")
    /\ Acquire(w)
    /\ reg' = [reg EXCEPT ![w] = total[field[w]]]
    /\ UNCHANGED <<listing, next, total, agg, idx, field, snap, caller, verdict>>

Settled(w) ==
    IF field[w] \in Kinds THEN [verdict EXCEPT ![idx[w]] = field[w]] ELSE verdict

(* Mutant: the copy for the dashboard is taken before the count.            *)
BumpStoreAfterCopy(w) ==
    /\ Goto(w, "bump", "push")
    /\ total' = [total EXCEPT ![field[w]] = reg[w] + 1]
    /\ snap' = [snap EXCEPT ![w] = total]
    /\ verdict' = Settled(w)
    /\ UNCHANGED <<listing, next, holder, agg, idx, field, reg, caller>>

BumpStore(w) ==
    /\ Goto(w, "bump", "push")
    /\ total' = [total EXCEPT ![field[w]] = reg[w] + 1]
    /\ snap' = [snap EXCEPT ![w] = total']
    /\ verdict' = Settled(w)
    /\ UNCHANGED <<listing, next, holder, agg, idx, field, reg, caller>>

BumpPush(w) ==
    /\ Goto(w, "push", IF field[w] \in Kinds THEN "loop" ELSE "xfer")
    /\ agg' = IF DashOn THEN snap[w] ELSE agg
    /\ Release(w)
    /\ UNCHANGED <<listing, next, total, idx, field, reg, snap, caller, verdict>>

-----------------------------------------------------------------------------
(* The calling thread.                                                      *)

Alloc ==
    /\ main = "alloc"
    /\ main' = "spawn"
    /\ UNCHANGED <<listing, shared, worker, cur, spawned, handle, rc, verdict>>

AllocFails ==
    /\ main = "alloc"
    /\ main' = "returned"
    /\ rc' = 1
    /\ UNCHANGED <<listing, shared, worker, cur, spawned, handle, verdict>>

(* The spawn loop; its end starts the join loop from 0 again.               *)
(* Mutant: off by one.                                                      *)
AdvanceTooFar ==
    /\ cur' = IF cur < Pool THEN cur + 1 ELSE 0
    /\ main' = IF cur < Pool THEN "spawn" ELSE "join"

Advance ==
    /\ cur' = IF cur + 1 < Pool THEN cur + 1 ELSE 0
    /\ main' = IF cur + 1 < Pool THEN "spawn" ELSE "join"

Spawn ==
    /\ main = "spawn"
    /\ pc' = [pc EXCEPT ![cur] = "loop"]
    /\ handle' = [handle EXCEPT ![cur] = TRUE]
    /\ spawned' = spawned + 1
    /\ Advance
    /\ UNCHANGED <<listing, shared, idx, field, reg, snap, rc, verdict>>

SpawnFails ==
    /\ main = "spawn"
    /\ cur \in Failable
    /\ Advance
    /\ UNCHANGED <<listing, shared, worker, spawned, handle, rc, verdict>>

(* Mutant: the join loop does not wait.                                     *)
JoinWithoutWaiting ==
    /\ main = "join" /\ cur < spawned
    /\ cur' = cur + 1
    /\ UNCHANGED <<listing, shared, worker, main, spawned, handle, rc, verdict>>

Join ==
    /\ main = "join" /\ cur < spawned
    /\ handle[cur] /\ pc[cur] = "done"
    /\ cur' = cur + 1
    /\ UNCHANGED <<listing, shared, worker, main, spawned, handle, rc, verdict>>

(* thrd_join of an entry thrd_create never filled: undefined, the process   *)
(* dies or the call returns at once.                                        *)
JoinUnset ==
    /\ main = "join" /\ cur < spawned
    /\ ~handle[cur]
    /\ \/ main' = "dead" /\ cur' = cur
       \/ main' = main /\ cur' = cur + 1
    /\ UNCHANGED <<listing, shared, worker, spawned, handle, rc, verdict>>

(* Mutant: one failure is not enough.                                       *)
ReturnLenient ==
    /\ main = "join" /\ cur = spawned
    /\ main' = "returned"
    /\ rc' = IF total["failed"] > 1 THEN 1 ELSE 0
    /\ UNCHANGED <<listing, shared, worker, cur, spawned, handle, verdict>>

Return ==
    /\ main = "join" /\ cur = spawned
    /\ main' = "returned"
    /\ rc' = IF total["failed"] > 0 THEN 1 ELSE 0
    /\ UNCHANGED <<listing, shared, worker, cur, spawned, handle, verdict>>

Live(w) == pc[w] \notin {"none", "done"}

(* A worker that outlives the call runs on the freed frame and the          *)
(* destroyed mutex; the model follows it no further.                        *)
Stray ==
    /\ main = "returned"
    /\ \E w \in Slots : Live(w)
    /\ main' = "dead"
    /\ UNCHANGED <<listing, shared, worker, cur, spawned, handle, rc, verdict>>

Finished ==
    /\ main = "dead" \/ (main = "returned" /\ \A w \in Slots : ~Live(w))
    /\ UNCHANGED vars

-----------------------------------------------------------------------------

Worker(w) ==
    /\ main \notin {"returned", "dead"}
    /\ \/ NextLock(w) \/ NextUnlock(w)
       \/ PickNameless(w) \/ PickFiltered(w) \/ PickRestricted(w)
       \/ PickPresent(w) \/ PickUnopenable(w)
       \/ BeginTransfer(w) \/ Chunk(w) \/ EndTransfer(w)
       \/ BumpLock(w) \/ BumpStore(w) \/ BumpPush(w)

Caller == Alloc \/ AllocFails \/ Spawn \/ SpawnFails \/ Join \/ JoinUnset
          \/ Return \/ Stray

Next == Caller \/ (\E w \in Slots : Worker(w)) \/ Finished

Spec == Init /\ [][Next]_vars

(* Threads run, and a transfer ends (module Transfer, RunEnds).  Each       *)
(* worker locks the mutex a bounded number of times, so weak fairness is    *)
(* enough for the lock.                                                     *)
FairSpec == Spec /\ WF_vars(Caller) /\ \A w \in Slots : WF_vars(Worker(w))

-----------------------------------------------------------------------------

Totals == [Fields -> Nat]

(* Type invariant of DownloadShared, the workers' locals, the calling       *)
(* thread's locals and the dashboard's totals.                              *)
TypeOK ==
    /\ listing \in Listings
    /\ next \in Nat
    /\ total \in Totals /\ agg \in Totals
    /\ holder \in Slots \union {Free}
    /\ pc \in [Slots -> {"none", "loop", "next", "pick", "xfer", "chunk",
                         "count", "bump", "push", "done"}]
    /\ idx \in [Slots -> Nat]
    /\ field \in [Slots -> Fields]
    /\ reg \in [Slots -> Nat]
    /\ snap \in [Slots -> Totals]
    /\ main \in {"alloc", "spawn", "join", "returned", "dead"}
    /\ cur \in 0..Pool
    /\ spawned \in 0..Pool
    /\ handle \in [Slots -> BOOLEAN]
    /\ rc \in {-1, 0, 1}
    /\ verdict \in [Files -> Kinds \union {"pending", "unnamed"}]

(* The worker has an entry in hand and has not counted it yet.              *)
Handling(w) ==
    \/ pc[w] \in {"pick", "xfer", "chunk", "count", "bump"}
    \/ pc[w] = "push" /\ field[w] = "bytes"

(* "each file is handled by exactly one worker" (downloader.c:103): no two  *)
(* workers have the same entry in hand, and an entry in hand has no verdict *)
(* yet, so none is fetched twice either.                                    *)
OneWorkerPerFile ==
    \A v \in Slots : Handling(v) =>
        /\ idx[v] \in Files /\ verdict[idx[v]] = "pending"
        /\ \A w \in Slots : Handling(w) /\ idx[v] = idx[w] => v = w

(* An entry that was claimed and has no verdict is in some worker's hands:  *)
(* none is lost between next_index and count_one.                           *)
NoneLost ==
    \A i \in Files : i < next /\ verdict[i] = "pending" =>
        \E w \in Slots : Handling(w) /\ idx[w] = i

(* The totals are those of the verdicts, at every step: no worker's count   *)
(* is lost to another's.                                                    *)
TotalsMatchVerdicts ==
    \A k \in Kinds : total[k] = Cardinality({i \in Files : verdict[i] = k})

(* Whenever the mutex is free the dashboard has been told the latest        *)
(* totals; so the footer that remains on the screen is the final one.       *)
AggFresh == DashOn /\ holder = Free => agg = total

(* What the footer shows never goes back.                                   *)
FooterNeverGoesBack == [][\A f \in Fields : agg[f] <= agg'[f]]_vars

(* Nothing is left running when download_all returns: its frame, the mutex  *)
(* and after them the dashboard go away ("Call after all workers complete", *)
(* dashboard.h).                                                            *)
WorkersDoneAtReturn == main = "returned" => \A w \in Slots : ~Live(w)

(* "@return 0 on success (no failures)" (downloader.h): after a 0 every     *)
(* wanted file was downloaded or found in place.                            *)
ZeroMeansAllThere ==
    rc = 0 => \A i \in Files :
                 Wanted(i) => verdict[i] \in {"downloaded", "skipped"}

(* download_all returns.                                                    *)
Termination == <>(main = "returned")

(* The pool does what Batch promises.                                       *)
B == INSTANCE Batch WITH
        stats <- [k \in Kinds |-> total[k]]

ImplementsBatch == B!Spec

=============================================================================
