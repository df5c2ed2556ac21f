--------------------------- MODULE DashboardProofs ---------------------------
(***************************************************************************)
(* What holds of the dashboard for every number of workers, files and       *)
(* slots, every size of the ring and every terminal.                       *)
(***************************************************************************)
EXTENDS Dashboard, FiniteSetTheorems, TLAPS

LEMMA HeightType == g_height \in Nat /\ g_height >= HEIGHT_MIN /\ g_height <= HEIGHT_MAX
  BY DashboardAssumption DEF g_height, Clamped, HEIGHT_MAX, Fixed, LAUNCH_IN

(* layout() spends every row the fixed ones leave, and keeps both minima.   *)
LEMMA LayoutFits ==
    ASSUME NEW act \in Nat
    PROVE  /\ Layout(act).dl \in Nat /\ Layout(act).lg \in Nat
           /\ Layout(act).dl + Layout(act).lg = g_height - Fixed
           /\ Layout(act).dl >= DL_MIN /\ Layout(act).lg >= LG_MIN
  <1>1. Fixed = 14
    BY DEF Fixed, LAUNCH_IN
  <1>2. /\ DL_MIN \in Nat \ {0} /\ LG_MIN \in Nat \ {0} /\ HEIGHT_MIN \in Nat
        /\ HEIGHT_MIN >= 14 + DL_MIN + LG_MIN
    BY <1>1, DashboardAssumption DEF HEIGHT_MAX
  <1>. QED
    BY <1>1, <1>2, HeightType DEF Layout

(* The slots in use are slots of workers, so there are finitely many.       *)
SlotsOfWorkers == DOMAIN g_slots \subseteq Workers

LEMMA SlotCount == SlotsOfWorkers => Cardinality(DOMAIN g_slots) \in Nat
  <1>1. IsFiniteSet(Workers)
    BY DashboardAssumption, FS_Interval DEF Workers
  <1>. QED
    BY <1>1, FS_Subset, FS_CardinalityType DEF SlotsOfWorkers

(* What a frame owes to layout(); a frame that was never drawn owes nothing. *)
Texts == {i \in DOMAIN frame.log : frame.log[i] # 0}

Budgeted ==
    frame # NoFrame =>
        \E lg \in Nat :
            /\ frame.dl \in Nat
            /\ DOMAIN frame.log = 0..(lg - 1)
            /\ frame.dl + lg = g_height - Fixed
            /\ frame.dl >= DL_MIN /\ lg >= LG_MIN
            /\ frame.lines = 11 + frame.dl + lg + Cardinality(Texts)

LEMMA RepaintBudget ==
    ASSUME SlotsOfWorkers', Repaint
    PROVE  Budgeted'
  <1> DEFINE lo == Layout(Cardinality(DOMAIN g_slots'))
             rows == [i \in 0..(lo.lg - 1) |-> LogRow(g_log', g_log_count', g_log_next', i)]
             texts == {i \in DOMAIN rows : rows[i] # 0}
  <1>1. Cardinality(DOMAIN g_slots') \in Nat
    <2>1. IsFiniteSet(Workers)
      BY DashboardAssumption, FS_Interval DEF Workers
    <2>. QED
      BY <2>1, FS_Subset, FS_CardinalityType DEF SlotsOfWorkers
  <1>2. /\ lo.dl \in Nat /\ lo.lg \in Nat
        /\ lo.dl + lo.lg = g_height - Fixed
        /\ lo.dl >= DL_MIN /\ lo.lg >= LG_MIN
    BY <1>1, LayoutFits
  <1>3. /\ frame'.dl = lo.dl /\ frame'.log = rows
        /\ frame'.lines = 8 + LAUNCH_IN \div 2 + lo.dl + lo.lg + Cardinality(texts)
    BY DEF Repaint, Rendered
  <1>4. DOMAIN rows = 0..(lo.lg - 1)
    OBVIOUS
  <1>5. LAUNCH_IN \div 2 = 3
    BY DEF LAUNCH_IN
  <1> HIDE DEF lo, rows
  <1>6. Texts' = texts
    BY <1>3 DEF Texts
  <1>7. frame'.lines = 11 + lo.dl + lo.lg + Cardinality(texts)
    BY <1>2, <1>3, <1>5
  <1>. QED
    BY <1>2, <1>3, <1>4, <1>6, <1>7 DEF Budgeted

LEMMA WorkerBudget ==
    ASSUME SlotsOfWorkers, Budgeted, NEW w \in Workers, Worker(w)
    PROVE  SlotsOfWorkers' /\ Budgeted'
  <1>1. SlotsOfWorkers'
    <2>1. CASE BeginWorker(w)
      BY <2>1 DEF BeginWorker, SlotsOfWorkers
    <2>2. CASE EndWorker(w)
      BY <2>2 DEF EndWorker, SlotsOfWorkers
    <2>3. CASE SetWorker(w)
      BY <2>3 DEF SetWorker, SlotsOfWorkers
    <2>4. CASE ~(BeginWorker(w) \/ EndWorker(w) \/ SetWorker(w))
      <3>1. UNCHANGED g_slots
        BY <2>4 DEF Worker, Take, Pass, Log, Deliver, Tick, EndTransfer, Count, dash
      <3>. QED
        BY <3>1 DEF SlotsOfWorkers
    <2>. QED
      BY <2>1, <2>2, <2>3, <2>4
  <1>2. Repaint \/ UNCHANGED frame
    BY DEF Worker, Take, Pass, Log, BeginWorker, Deliver, SetWorker, Tick,
           EndTransfer, EndWorker, Count, dash
  <1>3. CASE Repaint
    BY <1>1, <1>3, RepaintBudget
  <1>4. CASE UNCHANGED frame
    <2>1. Budgeted'
      BY <1>4 DEF Budgeted, Texts
    <2>. QED
      BY <1>1, <2>1
  <1>. QED
    BY <1>2, <1>3, <1>4

BudgetInv == SlotsOfWorkers /\ Budgeted

LEMMA BudgetSuffices == Budgeted => RowBudget
  <1> SUFFICES ASSUME Budgeted, frame # NoFrame
               PROVE  /\ frame.dl >= DL_MIN
                      /\ Cardinality(DOMAIN frame.log) >= LG_MIN
                      /\ frame.lines = g_height - 3 + Cardinality(Texts)
    BY DEF RowBudget, Texts
  <1>1. PICK lg \in Nat : /\ frame.dl \in Nat
                          /\ DOMAIN frame.log = 0..(lg - 1)
                          /\ frame.dl + lg = g_height - Fixed
                          /\ frame.dl >= DL_MIN /\ lg >= LG_MIN
                          /\ frame.lines = 11 + frame.dl + lg + Cardinality(Texts)
    BY DEF Budgeted
  <1>2. IsFiniteSet(0..(lg - 1)) /\ Cardinality(0..(lg - 1)) = lg
    BY DashboardAssumption, <1>1, FS_Interval
  <1>3. Cardinality(Texts) \in Nat
    <2>1. Texts \subseteq 0..(lg - 1)
      BY <1>1 DEF Texts
    <2>. QED
      BY <1>2, <2>1, FS_Subset, FS_CardinalityType
  <1>4. Fixed = 14
    BY DEF Fixed, LAUNCH_IN
  <1>5. frame.lines = g_height - 3 + Cardinality(Texts)
    BY <1>1, <1>3, <1>4, HeightType
  <1>. QED
    BY <1>1, <1>2, <1>5

(* What the budget of layout() comes to, on every terminal and for any      *)
(* number of downloads: both minima are kept, and the frame is no taller    *)
(* than the terminal as long as its log panel has at most three texts.      *)
THEOREM RowBudgetHolds == Spec => []RowBudget
  <1>1. Init => BudgetInv
    BY DEF Init, BudgetInv, SlotsOfWorkers, Budgeted
  <1>2. BudgetInv /\ [Next]_vars => BudgetInv'
    <2> SUFFICES ASSUME BudgetInv, [Next]_vars PROVE BudgetInv'
      OBVIOUS
    <2>1. CASE UNCHANGED vars \/ Second \/ Join
      <3>1. UNCHANGED <<g_slots, frame>>
        BY <2>1 DEF vars, Second, Join, dash
      <3>. QED
        BY <3>1 DEF BudgetInv, SlotsOfWorkers, Budgeted, Texts
    <2>2. CASE Shutdown
      <3>1. SlotsOfWorkers'
        BY <2>2 DEF Shutdown, BudgetInv, SlotsOfWorkers
      <3>. QED
        BY <2>2, <3>1, RepaintBudget DEF Shutdown, BudgetInv
    <2>3. ASSUME NEW w \in Workers, Worker(w) PROVE BudgetInv'
      BY <2>3, WorkerBudget DEF BudgetInv
    <2>. QED
      BY <2>1, <2>2, <2>3 DEF Next
  <1>3. BudgetInv => RowBudget
    BY BudgetSuffices DEF BudgetInv
  <1>. QED
    BY <1>1, <1>2, <1>3, PTL DEF Spec

-----------------------------------------------------------------------------
(* The join loop.  Whoever is before its index, or was never alive, has     *)
(* stopped.                                                                *)
JoinInv ==
    /\ alive \in {Workers \ f : f \in SUBSET Failable} \cup {{}}
    /\ joined \in Nat
    /\ \A w \in Workers : (w \in alive => w < joined) => pc[w] = "stop"
    /\ destroyed => joined = Cardinality(alive)
    /\ pc \in [Workers -> Places]

LEMMA AfterType == ASSUME NEW w \in Workers, pc[w] \in Calls PROVE After(w) \subseteq Places
  BY DEF After, Calls, LogCalls, Places

LEMMA WorkerMoves ==
    ASSUME NEW w \in Workers, Worker(w)
    PROVE  /\ pc[w] # "stop"
           /\ pc' = pc \/ \E x \in Places : pc' = [pc EXCEPT ![w] = x]
           /\ UNCHANGED <<alive, joined, g_active, destroyed>>
  <1>1. UNCHANGED <<alive, joined, g_active, destroyed>>
    BY DEF Worker, Take, Pass, Log, BeginWorker, Deliver, SetWorker, Tick,
           EndTransfer, EndWorker, Count, dash, pool
  <1>2. pc[w] # "stop"
    BY DEF Worker, Take, Pass, Log, BeginWorker, Deliver, SetWorker, Tick,
           EndTransfer, EndWorker, Count, Calls, LogCalls
  <1>3. pc' = pc \/ \E x \in Places : pc' = [pc EXCEPT ![w] = x]
    <2>1. CASE Take(w) \/ EndTransfer(w) \/ Count(w) \/ Deliver(w)
      <3>1. pc' = pc \/ \E x \in {"take", "result", "get", "stop", "end", "set"} :
                             pc' = [pc EXCEPT ![w] = x]
        BY <2>1 DEF Take, EndTransfer, Count, Deliver, GoTo
      <3>. QED
        BY <3>1 DEF Places, Calls, LogCalls
    <2>2. CASE Pass(w)
      <3>1. pc[w] \in Calls /\ (pc' = pc \/ GoOn(w))
        BY <2>2 DEF Pass
      <3>. QED
        BY <3>1, AfterType DEF GoOn, GoTo
    <2>3. CASE Log(w) \/ BeginWorker(w) \/ SetWorker(w) \/ Tick(w) \/ EndWorker(w)
      <3>1. pc[w] \in Calls /\ GoOn(w)
        BY <2>3 DEF Log, BeginWorker, SetWorker, Tick, EndWorker, Returns, Calls
      <3>. QED
        BY <3>1, AfterType DEF GoOn, GoTo
    <2>. QED
      BY <2>1, <2>2, <2>3 DEF Worker
  <1>. QED
    BY <1>1, <1>2, <1>3

(* The join loop has waited for every worker before its index.              *)
THEOREM JoinInvHolds == Spec => []JoinInv
  <1>1. Init => JoinInv
    <2> SUFFICES ASSUME Init PROVE JoinInv
      OBVIOUS
    <2>1. /\ alive \in {Workers \ f : f \in SUBSET Failable} \cup {{}}
          /\ joined = 0 /\ ~destroyed
          /\ pc = [w \in Workers |-> IF w \in alive THEN "take" ELSE "stop"]
      BY DEF Init
    <2>2. ASSUME NEW w \in Workers, w \in alive => w < joined PROVE pc[w] = "stop"
      <3>1. w \in Nat
        BY DashboardAssumption DEF Workers
      <3>2. w \notin alive
        BY <2>1, <2>2, <3>1
      <3>. QED
        BY <2>1, <3>2
    <2>3. pc \in [Workers -> Places]
      BY <2>1 DEF Places
    <2>. QED
      BY <2>1, <2>2, <2>3 DEF JoinInv
  <1>2. JoinInv /\ [Next]_vars => JoinInv'
    <2> SUFFICES ASSUME JoinInv, [Next]_vars PROVE JoinInv'
      OBVIOUS
    <2>1. CASE UNCHANGED vars \/ Second
      BY <2>1 DEF JoinInv, vars, pool, Second, dash
    <2>2. CASE Shutdown
      BY <2>2 DEF JoinInv, pool, Shutdown
    <2>3. CASE Join
      <3>1. /\ joined' = joined + 1 /\ UNCHANGED <<alive, pc, destroyed>>
            /\ joined \in alive => pc[joined] = "stop"
            /\ joined # Cardinality(alive)
        <4>1. alive \subseteq Workers
          BY DEF JoinInv
        <4>2. Cardinality(alive) \in Nat
          <5>1. IsFiniteSet(Workers)
            BY DashboardAssumption, FS_Interval DEF Workers
          <5>. QED
            BY <4>1, <5>1, FS_Subset, FS_CardinalityType
        <4>. QED
          BY <2>3, <4>2 DEF Join, dash, JoinInv
      <3>2. \A w \in Workers : (w \in alive => w < joined + 1) => pc[w] = "stop"
        BY <3>1, DashboardAssumption DEF JoinInv, Workers
      <3>. QED
        BY <3>1, <3>2 DEF JoinInv
    <2>4. ASSUME NEW w \in Workers, Worker(w) PROVE JoinInv'
      BY <2>4, WorkerMoves DEF JoinInv
    <2>. QED
      BY <2>1, <2>2, <2>3, <2>4 DEF Next
  <1>. QED
    BY <1>1, <1>2, PTL DEF Spec

(* What download_all's join loop needs to be one: no thread is created      *)
(* after one that could not be.                                            *)
OnlyLastFails == Failable \subseteq {NumWorkers - 1}

LEMMA AllJoined ==
    ASSUME OnlyLastFails, JoinInv, joined = Cardinality(alive), NEW w \in Workers
    PROVE  pc[w] = "stop"
  <1>1. NumWorkers \in Nat /\ NumWorkers >= 1
    BY DashboardAssumption
  <1>2. PICK n \in {NumWorkers, NumWorkers - 1, 0} : alive = 0..(n - 1)
    <2>1. CASE alive = {}
      BY <2>1
    <2>2. ASSUME NEW f \in SUBSET Failable, alive = Workers \ f
          PROVE  alive = 0..(NumWorkers - 1) \/ alive = 0..(NumWorkers - 1 - 1)
      <3>1. f = {} \/ f = {NumWorkers - 1}
        BY DEF OnlyLastFails
      <3>. QED
        BY <1>1, <2>2, <3>1 DEF Workers
    <2>. QED
      BY <2>1, <2>2 DEF JoinInv
  <1>3. n \in Nat
    BY <1>1
  <1>4. Cardinality(0..(n - 1)) = n
    BY <1>3, FS_Interval
  <1>5. w \in alive => w < joined
    BY <1>2, <1>3, <1>4
  <1>. QED
    BY <1>5 DEF JoinInv

-----------------------------------------------------------------------------
(* The ring.  Reading it back never goes further than one turn.            *)
LEMMA OneTurn ==
    ASSUME NEW x \in Int, x >= 0, x < 2 * Ring
    PROVE  x % Ring = IF x < Ring THEN x ELSE x - Ring
  BY DashboardAssumption, SMTT(30)

(* Where line i of the retained ones is kept.                              *)
Place(i) ==
    IF g_log_next - g_log_count + i >= 0
    THEN g_log_next - g_log_count + i
    ELSE g_log_next - g_log_count + i + Ring

(* Until the ring is full its next place is the number of lines logged;     *)
(* that is what RingIsTail does not say and its induction needs.           *)
RingType ==
    /\ logged \in Nat
    /\ g_log \in [0..(Ring - 1) -> Nat]
    /\ g_log_next \in 0..(Ring - 1)
    /\ g_log_count \in 0..Ring
    /\ g_log_count = IF logged < Ring THEN logged ELSE Ring
    /\ logged < Ring => g_log_next = logged

RingInv ==
    /\ RingType
    /\ \A i \in 0..(g_log_count - 1) : g_log[Place(i)] = logged - g_log_count + i + 1

LEMMA RingRead == RingInv => RingIsTail
  <1> SUFFICES ASSUME RingInv, NEW i \in 0..(g_log_count - 1)
               PROVE  LogRow(g_log, g_log_count, g_log_next, i) = logged - g_log_count + i + 1
    BY DEF RingIsTail, RingInv, RingType
  <1> DEFINE x == g_log_next - g_log_count + i + Ring
  <1>1. /\ Ring \in Nat \ {0} /\ g_log_next \in 0..(Ring - 1)
        /\ g_log_count \in 0..Ring /\ i \in Nat /\ i < g_log_count
    BY DashboardAssumption DEF RingInv, RingType
  <1>2. x \in Int /\ x >= 0 /\ x < 2 * Ring
    BY <1>1
  <1>3. x % Ring = IF x < Ring THEN x ELSE x - Ring
    BY <1>2, OneTurn
  <1>4. x % Ring = Place(i)
    BY <1>1, <1>3 DEF Place
  <1>5. LogRow(g_log, g_log_count, g_log_next, i) = g_log[x % Ring]
    BY <1>1 DEF LogRow
  <1>. QED
    BY <1>4, <1>5 DEF RingInv

LEMMA LogRing ==
    ASSUME RingInv, NEW w \in Workers, Log(w)
    PROVE  RingInv'
  <1>1. /\ Ring \in Nat \ {0} /\ logged \in Nat
        /\ g_log \in [0..(Ring - 1) -> Nat]
        /\ g_log_next \in 0..(Ring - 1) /\ g_log_count \in 0..Ring
    BY DashboardAssumption DEF RingInv, RingType
  <1>2. /\ logged' = logged + 1
        /\ g_log' = [g_log EXCEPT ![g_log_next] = logged + 1]
        /\ g_log_next' = (g_log_next + 1) % Ring
        /\ g_log_count' = IF g_log_count < Ring THEN g_log_count + 1 ELSE g_log_count
    BY DEF Log
  <1>3. g_log_next' = IF g_log_next + 1 < Ring THEN g_log_next + 1 ELSE 0
    <2> DEFINE x == g_log_next + 1
    <2>1. x \in Int /\ x >= 0 /\ x < 2 * Ring
      BY <1>1
    <2>2. x % Ring = IF x < Ring THEN x ELSE x - Ring
      BY <2>1, OneTurn
    <2>. QED
      BY <1>1, <1>2, <2>2
  <1>4. RingType'
    BY <1>1, <1>2, <1>3 DEF RingInv, RingType
  <1>5. ASSUME NEW i \in 0..(g_log_count' - 1)
        PROVE  g_log'[Place(i)'] = logged' - g_log_count' + i + 1
    <2>1. CASE logged < Ring
      <3>1. /\ g_log_count = logged /\ g_log_next = logged /\ g_log_count' = logged + 1
            /\ logged' - g_log_count' = 0
        BY <1>1, <1>2, <2>1 DEF RingInv, RingType
      <3>2. Place(i)' = i
        BY <1>1, <1>3, <2>1, <3>1 DEF Place
      <3>3. CASE i = logged
        BY <1>1, <1>2, <2>1, <3>1, <3>2, <3>3
      <3>4. CASE i < logged
        <4>1. i \in 0..(g_log_count - 1) /\ Place(i) = i
          BY <1>1, <3>1, <3>4 DEF Place
        <4>2. g_log[i] = i + 1
          BY <1>1, <3>1, <4>1 DEF RingInv
        <4>. QED
          BY <1>1, <1>2, <2>1, <3>1, <3>2, <3>4, <4>2
      <3>. QED
        BY <1>1, <3>1, <3>3, <3>4
    <2>2. CASE ~(logged < Ring)
      <3>1. g_log_count = Ring /\ g_log_count' = Ring
        BY <1>1, <1>2, <2>2 DEF RingInv, RingType
      <3>2. CASE i = Ring - 1
        <4>1. Place(i)' = g_log_next
          BY <1>1, <1>3, <3>1, <3>2 DEF Place
        <4>. QED
          BY <1>1, <1>2, <3>1, <3>2, <4>1
      <3>3. CASE i < Ring - 1
        <4>1. i + 1 \in 0..(g_log_count - 1)
          BY <1>1, <3>1, <3>3
        <4>2. Place(i)' = Place(i + 1) /\ Place(i + 1) # g_log_next
              /\ Place(i + 1) \in 0..(Ring - 1)
          BY <1>1, <1>3, <3>1, <3>3, <4>1 DEF Place
        <4>3. g_log[Place(i + 1)] = logged - g_log_count + (i + 1) + 1
          BY <4>1 DEF RingInv
        <4>. QED
          BY <1>1, <1>2, <3>1, <4>2, <4>3
      <3>. QED
        BY <1>1, <3>1, <3>2, <3>3
    <2>. QED
      BY <2>1, <2>2
  <1>. QED
    BY <1>4, <1>5 DEF RingInv

(* Every retained line of the log is at its place behind g_log_next, before *)
(* the ring has wrapped and after.                                         *)
THEOREM RingInvHolds == Spec => []RingInv
  <1>1. Init => RingInv
    BY DashboardAssumption DEF Init, RingInv, RingType
  <1>2. RingInv /\ [Next]_vars => RingInv'
    <2> SUFFICES ASSUME RingInv, [Next]_vars PROVE RingInv'
      OBVIOUS
    <2>1. ASSUME NEW w \in Workers, Log(w) PROVE RingInv'
      BY <2>1, LogRing
    <2>2. CASE ~\E w \in Workers : Log(w)
      <3>1. UNCHANGED <<logged, g_log, g_log_next, g_log_count>>
        BY <2>2 DEF Next, vars, dash, Second, Join, Shutdown, Worker, Take, Pass, BeginWorker,
                    Deliver, SetWorker, Tick, EndTransfer, EndWorker, Count
      <3>. QED
        BY <3>1 DEF RingInv, RingType, Place
    <2>. QED
      BY <2>1, <2>2
  <1>. QED
    BY <1>1, <1>2, PTL DEF Spec

(* Whatever the size of the ring, what LogRow reads out of it is the last   *)
(* lines logged, in their order.                                           *)
THEOREM RingHolds == Spec => []RingIsTail
  BY RingInvHolds, RingRead, PTL

-----------------------------------------------------------------------------
(* Types.                                                                  *)

LEMMA AfterIs ==
    ASSUME NEW w \in Workers
    PROVE  /\ pc[w] = "get" => After(w) = {"resume", "begin", "result"}
           /\ pc[w] = "resume" => After(w) = {"begin", "result"}
           /\ pc[w] = "begin" => After(w) = {"transfer"}
           /\ pc[w] = "set" => After(w) = {"tick"}
           /\ pc[w] = "tick" => After(w) = {"transfer"}
           /\ pc[w] = "end" => After(w) = {"result"}
           /\ pc[w] = "result" => After(w) = {"count"}
  BY DEF After

LEMMA MoreSlots ==
    ASSUME NEW slots, DOMAIN slots \subseteq Tracked,
           \A s \in DOMAIN slots : slots[s] \in SlotRecords,
           NEW w \in Tracked, NEW f \in 0..NumFiles,
           NEW more, more = [s \in DOMAIN slots \cup {w} |->
                                IF s = w THEN [file |-> f, done |-> 0] ELSE slots[s]]
    PROVE  DOMAIN more \subseteq Tracked /\ \A s \in DOMAIN more : more[s] \in SlotRecords
  <1>1. [file |-> f, done |-> 0] \in SlotRecords
    BY DashboardAssumption DEF SlotRecords
  <1>. QED
    BY <1>1

LEMMA SetSlots ==
    ASSUME NEW slots, DOMAIN slots \subseteq Tracked,
           \A s \in DOMAIN slots : slots[s] \in SlotRecords,
           NEW w \in DOMAIN slots, NEW d \in 0..MaxChunks,
           NEW set, set = [slots EXCEPT ![w].done = d]
    PROVE  DOMAIN set \subseteq Tracked /\ \A s \in DOMAIN set : set[s] \in SlotRecords
  <1>1. [slots[w] EXCEPT !.done = d] \in SlotRecords
    BY DEF SlotRecords
  <1>2. DOMAIN set = DOMAIN slots
    OBVIOUS
  <1>3. set[w] = [slots[w] EXCEPT !.done = d]
    OBVIOUS
  <1>4. \A s \in DOMAIN slots : s # w => set[s] = slots[s]
    OBVIOUS
  <1>. QED
    BY <1>1, <1>2, <1>3, <1>4

(* The parts of the types, by the variables they are about; the ring has    *)
(* its own.                                                                *)
SlotsType ==
    DOMAIN g_slots \subseteq Tracked /\ \A s \in DOMAIN g_slots : g_slots[s] \in SlotRecords
CountsType == g_active \in BOOLEAN /\ destroyed \in BOOLEAN /\ g_agg \in Nat /\ total \in Nat
ClockType ==
    clock \in 0..MaxTime /\ g_last_render \in 0..MaxTime /\ now \in [Workers -> 0..MaxTime]
FilesType ==
    /\ file \in [Workers -> 0..NumFiles] /\ done \in [Workers -> 0..MaxChunks]
    /\ taken \in 0..NumFiles

(* A worker inside a call is at one, and one about a slot has that slot.    *)
SlotsHad ==
    \A w \in Workers : inside[w] => pc[w] \in Calls /\ (pc[w] \in SlotCalls => w \in Tracked)
PlacesType == pc \in [Workers -> Places] /\ inside \in [Workers -> BOOLEAN] /\ SlotsHad

TypeInv == SlotsType /\ CountsType /\ ClockType /\ FilesType /\ PlacesType

(* A step that is the step of no worker.                                    *)
Other == Second \/ Join \/ Shutdown \/ UNCHANGED vars

LEMMA NextPlaces ==
    ASSUME PlacesType, [Next]_vars
    PROVE  PlacesType'
  <1> USE DEF PlacesType, SlotsHad
  <1>1. CASE Other
    <2>1. UNCHANGED <<pc, inside>>
      BY <1>1 DEF Other, Second, Join, Shutdown, vars
    <2>. QED
      BY <2>1
  <1>2. ASSUME NEW w \in Workers, Worker(w) PROVE PlacesType'
    <2>1. CASE Take(w) \/ EndTransfer(w) \/ Count(w) \/ Deliver(w)
      <3>1. pc[w] \in {"take", "transfer", "count"} /\ UNCHANGED inside
        BY <2>1 DEF Take, EndTransfer, Count, Deliver, dash
      <3>2. ~inside[w]
        BY <3>1 DEF Calls, LogCalls
      <3>3. \E x \in Places : pc' = [pc EXCEPT ![w] = x] \/ pc' = pc
        BY <2>1 DEF Take, EndTransfer, Count, Deliver, GoTo, Places, Calls, LogCalls
      <3>. QED
        BY <3>1, <3>2, <3>3
    <2>2. CASE Pass(w)
      <3>1. pc[w] \in Calls /\ ~inside[w] /\ After(w) \subseteq Places
        BY <2>2, AfterType DEF Pass
      <3>2. \/ /\ inside' = [inside EXCEPT ![w] = TRUE] /\ UNCHANGED pc
               /\ pc[w] \in SlotCalls => w \in Tracked
            \/ (\E x \in Places : pc' = [pc EXCEPT ![w] = x]) /\ UNCHANGED inside
        BY <2>2, <3>1 DEF Pass, GoOn, GoTo, HasSlot, Tracked
      <3>. QED
        BY <3>1, <3>2
    <2>3. CASE Log(w) \/ BeginWorker(w) \/ SetWorker(w) \/ Tick(w) \/ EndWorker(w)
      <3>1. pc[w] \in Calls /\ Returns(w)
        BY <2>3 DEF Log, BeginWorker, SetWorker, Tick, EndWorker, Calls
      <3>2. \E x \in Places : pc' = [pc EXCEPT ![w] = x]
        BY <3>1, AfterType DEF Returns, GoOn, GoTo
      <3>3. inside' = [inside EXCEPT ![w] = FALSE]
        BY <3>1 DEF Returns
      <3>. QED
        BY <3>2, <3>3
    <2>. QED
      BY <1>2, <2>1, <2>2, <2>3 DEF Worker
  <1>. QED
    BY <1>1, <1>2 DEF Next, Other

LEMMA NextCounts == CountsType /\ [Next]_vars => CountsType'
  <1> SUFFICES ASSUME CountsType, [Next]_vars PROVE CountsType'
    OBVIOUS
  <1>1. CASE Shutdown
    BY <1>1 DEF Shutdown, CountsType, work
  <1>2. CASE UNCHANGED vars \/ Second \/ Join
    BY <1>2 DEF Second, Join, vars, dash, work, CountsType
  <1>3. ASSUME NEW w \in Workers, Worker(w) PROVE CountsType'
    <2>1. UNCHANGED <<g_active, destroyed>>
      BY <1>3 DEF Worker, Take, Pass, Log, BeginWorker, Deliver, SetWorker, Tick,
                  EndTransfer, EndWorker, Count, dash
    <2>2. CASE Deliver(w) \/ Count(w)
      BY <2>1, <2>2 DEF Deliver, Count, CountsType
    <2>3. CASE ~(Deliver(w) \/ Count(w))
      <3>1. UNCHANGED <<g_agg, total>>
        BY <1>3, <2>3 DEF Worker, Take, Pass, Log, BeginWorker, SetWorker, Tick,
                    EndTransfer, EndWorker, dash, work
      <3>. QED
        BY <2>1, <3>1 DEF CountsType
    <2>. QED
      BY <2>2, <2>3
  <1>. QED
    BY <1>1, <1>2, <1>3 DEF Next

LEMMA NextClock == ClockType /\ [Next]_vars => ClockType'
  <1> SUFFICES ASSUME ClockType, [Next]_vars PROVE ClockType'
    OBVIOUS
  <1>1. CASE UNCHANGED vars \/ Shutdown \/ Join
    BY <1>1 DEF Shutdown, Join, Repaint, vars, dash, ClockType
  <1>2. CASE Second
    BY <1>2, DashboardAssumption DEF Second, dash, ClockType
  <1>3. ASSUME NEW w \in Workers, Worker(w) PROVE ClockType'
    <2>1. UNCHANGED clock
      BY <1>3 DEF Worker, Take, Pass, Log, BeginWorker, Deliver, SetWorker, Tick,
                  EndTransfer, EndWorker, Count
    <2>2. g_last_render' \in {g_last_render, clock, now[w]}
      BY <1>3 DEF Worker, Take, Pass, Log, BeginWorker, Deliver, SetWorker, Tick,
                  EndTransfer, EndWorker, Count, Repaint, dash
    <2>3. now' = now \/ \E t \in {0, clock, now[w]} : now' = [now EXCEPT ![w] = t]
      BY <1>3 DEF Worker, Take, Pass, Log, BeginWorker, Deliver, SetWorker, Tick,
                  EndTransfer, EndWorker, Count
    <2>. QED
      BY <2>1, <2>2, <2>3, DashboardAssumption DEF ClockType
  <1>. QED
    BY <1>1, <1>2, <1>3 DEF Next

LEMMA NextFiles == FilesType /\ [Next]_vars => FilesType'
  <1> SUFFICES ASSUME FilesType, [Next]_vars PROVE FilesType'
    OBVIOUS
  <1>1. CASE Other
    BY <1>1 DEF Other, Second, Join, Shutdown, vars, work, FilesType
  <1>2. ASSUME NEW w \in Workers, Worker(w) PROVE FilesType'
    <2>1. CASE Take(w)
      BY <2>1, DashboardAssumption DEF Take, FilesType
    <2>2. CASE Deliver(w)
      BY <2>2, DashboardAssumption DEF Deliver, FilesType
    <2>4. CASE Count(w)
      BY <2>4, DashboardAssumption DEF Count, FilesType
    <2>3. CASE ~(Take(w) \/ Deliver(w) \/ Count(w))
      <3>1. UNCHANGED <<file, done, taken>>
        BY <1>2, <2>3 DEF Worker, Pass, Log, BeginWorker, SetWorker, Tick,
                    EndTransfer, EndWorker, work
      <3>. QED
        BY <3>1 DEF FilesType
    <2>. QED
      BY <2>1, <2>2, <2>3, <2>4
  <1>. QED
    BY <1>1, <1>2 DEF Next, Other

LEMMA NextSlots ==
    ASSUME SlotsType, FilesType, PlacesType, [Next]_vars
    PROVE  SlotsType'
  <1>1. CASE Other
    BY <1>1 DEF Other, Second, Join, Shutdown, vars, dash, SlotsType
  <1>2. ASSUME NEW w \in Workers, Worker(w) PROVE SlotsType'
    <2>1. inside[w] /\ pc[w] \in SlotCalls => w \in Tracked
      BY DEF PlacesType, SlotsHad
    <2>2. CASE BeginWorker(w)
      <3>1. w \in Tracked /\ file[w] \in 0..NumFiles
        BY <2>1, <2>2 DEF BeginWorker, SlotCalls, FilesType
      <3>2. g_slots' = [s \in DOMAIN g_slots \cup {w} |->
                      IF s = w THEN [file |-> file[w], done |-> 0] ELSE g_slots[s]]
        BY <2>2 DEF BeginWorker
      <3>. QED
        BY <3>1, <3>2, MoreSlots DEF SlotsType
    <2>3. CASE SetWorker(w)
      <3>1. done[w] \in 0..MaxChunks
        BY DEF FilesType
      <3>2. CASE w \in DOMAIN g_slots
        <4>1. g_slots' = [g_slots EXCEPT ![w].done = done[w]]
          BY <2>3, <3>2 DEF SetWorker
        <4>. QED
          BY <3>1, <3>2, <4>1, SetSlots DEF SlotsType
      <3>. QED
        BY <2>3, <3>2 DEF SetWorker, SlotsType
    <2>4. CASE EndWorker(w)
      <3>1. g_slots' = [s \in DOMAIN g_slots \ {w} |-> g_slots[s]]
        BY <2>4 DEF EndWorker
      <3>. QED
        BY <3>1 DEF SlotsType
    <2>5. CASE ~(BeginWorker(w) \/ SetWorker(w) \/ EndWorker(w))
      <3>1. UNCHANGED g_slots
        BY <1>2, <2>5 DEF Worker, Take, Pass, Log, Deliver, Tick, EndTransfer, Count, dash
      <3>. QED
        BY <3>1 DEF SlotsType
    <2>. QED
      BY <2>2, <2>3, <2>4, <2>5
  <1>. QED
    BY <1>1, <1>2 DEF Next, Other

LEMMA InitType == Init => TypeInv
  <1> SUFFICES ASSUME Init PROVE TypeInv
    OBVIOUS
  <1>1. SlotsType
    <2>1. DOMAIN g_slots = {}
      BY DEF Init
    <2>. QED
      BY <2>1 DEF SlotsType
  <1>2. CountsType /\ ClockType /\ FilesType
    <2>1. MaxTime \in Nat /\ MaxChunks \in Nat /\ NumFiles \in Nat
      BY DashboardAssumption
    <2>2. CountsType
      BY DEF Init, CountsType
    <2>3. ClockType
      BY <2>1 DEF Init, ClockType
    <2>4. FilesType
      BY <2>1 DEF Init, FilesType
    <2>. QED
      BY <2>2, <2>3, <2>4
  <1>3. PlacesType
    BY DEF Init, PlacesType, SlotsHad, Places
  <1>. QED
    BY <1>1, <1>2, <1>3 DEF TypeInv

(* The types, and that only workers with a row are inside a slot's call.    *)
THEOREM TypeInvHolds == Spec => []TypeInv
  <1>1. TypeInv /\ [Next]_vars => TypeInv'
    BY NextSlots, NextCounts, NextClock, NextFiles, NextPlaces DEF TypeInv
  <1>. QED
    BY InitType, <1>1, PTL DEF Spec

(* The variables of the dashboard keep their types: no slot without a row,  *)
(* and the index into the ring stays inside it.                            *)
THEOREM DashboardTypes == Spec => []TypeOK
  <1>1. TypeInv /\ RingInv /\ JoinInv => TypeOK
    BY DEF TypeInv, RingInv, RingType, JoinInv, SlotsType, CountsType, ClockType, FilesType,
           PlacesType, TypeOK
  <1>. QED
    BY <1>1, TypeInvHolds, RingInvHolds, JoinInvHolds, PTL

-----------------------------------------------------------------------------
(* With any number of workers, no call that found the dashboard on is       *)
(* pending once its mutex is gone, unless a thread was created after one    *)
(* that could not be.                                                      *)
THEOREM DestroyHolds == OnlyLastFails => (Spec => []NoUseAfterDestroy)
  <1> SUFFICES ASSUME OnlyLastFails PROVE Spec => []NoUseAfterDestroy
    OBVIOUS
  <1>1. JoinInv /\ TypeInv => NoUseAfterDestroy
    <2> SUFFICES ASSUME JoinInv, TypeInv, destroyed, NEW w \in Workers, inside[w] PROVE FALSE
      BY DEF NoUseAfterDestroy
    <2>1. pc[w] = "stop"
      BY AllJoined DEF JoinInv
    <2>2. pc[w] \in Calls
      BY DEF TypeInv, PlacesType, SlotsHad
    <2>. QED
      BY <2>1, <2>2 DEF Calls, LogCalls
  <1>. QED
    BY <1>1, JoinInvHolds, TypeInvHolds, PTL

-----------------------------------------------------------------------------
(* The panel.                                                              *)

(* Of a finite set of slots, the first dl by number are dl, or all.         *)
LEMMA FirstRows ==
    ASSUME NEW D \in SUBSET Nat, IsFiniteSet(D), NEW dl \in Nat,
           NEW L, L = {s \in D : Cardinality({r \in D : r < s}) < dl}
    PROVE  /\ Cardinality(D) <= dl => L = D
           /\ Cardinality(D) > dl => Cardinality(L) = dl
  <1> DEFINE Below(s) == {r \in D : r < s}
             n == Cardinality(D)
             rank == [s \in D |-> Cardinality(Below(s))]
  <1>1. n \in Nat
    BY FS_CardinalityType
  <1>2. ASSUME NEW s \in D
        PROVE  /\ IsFiniteSet(Below(s)) /\ Cardinality(Below(s)) \in Nat
               /\ Cardinality(Below(s)) < n
    <2>1. Below(s) \in SUBSET D /\ Below(s) # D
      OBVIOUS
    <2>2. /\ IsFiniteSet(Below(s)) /\ Cardinality(Below(s)) <= n
          /\ Cardinality(D) = Cardinality(Below(s)) => D = Below(s)
      BY <2>1, FS_Subset
    <2>3. Cardinality(Below(s)) \in Nat
      BY <2>2, FS_CardinalityType
    <2> HIDE DEF Below
    <2>. QED
      BY <1>1, <2>1, <2>2, <2>3
  <1>3. ASSUME NEW s \in D, NEW t \in D, s < t
        PROVE  Cardinality(Below(s)) < Cardinality(Below(t))
    <2>1. Below(s) \in SUBSET Below(t) /\ Below(s) # Below(t)
      <3>1. s \in Nat /\ t \in Nat /\ \A r \in D : r \in Nat
        OBVIOUS
      <3>2. \A r \in D : r < s => r < t
        BY <1>3, <3>1
      <3>3. s \in Below(t) /\ s \notin Below(s)
        BY <1>3, <3>1
      <3>. QED
        BY <3>2, <3>3
    <2>2. /\ Cardinality(Below(s)) <= Cardinality(Below(t))
          /\ Cardinality(Below(t)) = Cardinality(Below(s)) => Below(t) = Below(s)
      BY <1>2, <2>1, FS_Subset
    <2> HIDE DEF Below
    <2>. QED
      BY <1>2, <2>1, <2>2
  <1> HIDE DEF Below, n
  <1>4. rank \in Injection(D, 0..(n - 1))
    <2>1. rank \in [D -> 0..(n - 1)]
      BY <1>1, <1>2
    <2>2. \A s, t \in D : rank[s] = rank[t] => s = t
      BY <1>2, <1>3
    <2>. QED
      BY <2>1, <2>2 DEF Injection, IsInjective
  <1>5. \A y \in 0..(n - 1) : \E s \in D : rank[s] = y
    <2>1. IsFiniteSet(0..(n - 1)) /\ Cardinality(0..(n - 1)) = n
      BY <1>1, FS_Interval
    <2>2. rank \in Surjection(D, 0..(n - 1))
      BY <1>4, <2>1, FS_Injection DEF n
    <2>. QED
      BY <2>2 DEF Surjection
  <1> HIDE DEF rank
  <1>6. L = {s \in D : rank[s] < dl}
    BY DEF Below, rank
  <1>7. \A s \in D : rank[s] \in Nat /\ rank[s] < n
    BY <1>2 DEF rank
  <1>8. n <= dl => L = D
    <2>1. n <= dl => \A s \in D : rank[s] < dl
      BY <1>1, <1>7
    <2>. QED
      BY <1>6, <2>1
  <1>9. ASSUME n > dl PROVE Cardinality(L) = dl
    <2> DEFINE f == [s \in L |-> rank[s]]
    <2>1. \A s, t \in D : rank[s] = rank[t] => s = t
      BY <1>4 DEF Injection, IsInjective
    <2>2. f \in Injection(L, 0..(dl - 1))
      <3>1. L \subseteq D /\ \A s \in L : rank[s] \in 0..(dl - 1)
        BY <1>6, <1>7
      <3>2. f \in [L -> 0..(dl - 1)]
        BY <3>1
      <3>3. \A s, t \in L : f[s] = f[t] => s = t
        BY <2>1, <3>1
      <3>. QED
        BY <3>2, <3>3 DEF Injection, IsInjective
    <2>3. f \in Surjection(L, 0..(dl - 1))
      <3>1. ASSUME NEW y \in 0..(dl - 1) PROVE \E s \in L : f[s] = y
        <4>1. y \in 0..(n - 1) /\ y < dl
          BY <1>1, <1>9
        <4>2. PICK s \in D : rank[s] = y
          BY <1>5, <4>1
        <4>. QED
          BY <1>6, <4>1, <4>2
      <3>. QED
        BY <2>2, <3>1 DEF Injection, Surjection
    <2>4. IsFiniteSet(0..(dl - 1)) /\ Cardinality(0..(dl - 1)) = dl
      BY FS_Interval
    <2>. QED
      BY <2>2, <2>3, <2>4, FS_Injection
  <1>. QED
    BY <1>8, <1>9 DEF n

(* While the dashboard is on, the slots in use are those of the workers     *)
(* that are transferring.                                                  *)
SlotsTrue ==
    g_active => /\ DOMAIN g_slots = Transferring
                /\ \A q \in Transferring : g_slots[q].file = file[q]

(* The frame lists the slots as they were given out; only what has been     *)
(* received of a file may be newer in its slot.                            *)
FrameTrue ==
    /\ DOMAIN frame.downloads = Listed(g_slots, Layout(Cardinality(DOMAIN g_slots)).dl)
    /\ \A q \in DOMAIN frame.downloads : frame.downloads[q].file = g_slots[q].file

LEMMA ListedOf ==
    ASSUME NEW slots, NEW dl
    PROVE  Listed(slots, dl) \subseteq DOMAIN slots
  BY DEF Listed

LEMMA RepaintPanel == Repaint => FrameTrue'
  <1> SUFFICES ASSUME Repaint PROVE FrameTrue'
    OBVIOUS
  <1> DEFINE L == Listed(g_slots', Layout(Cardinality(DOMAIN g_slots')).dl)
  <1>1. frame'.downloads = [s \in L |-> g_slots'[s]]
    BY DEF Repaint, Rendered
  <1> HIDE DEF L
  <1>2. DOMAIN frame'.downloads = L /\ \A q \in L : frame'.downloads[q] = g_slots'[q]
    BY <1>1
  <1>. QED
    BY <1>2 DEF FrameTrue, L

(* A step of w moves nobody else.                                           *)
LEMMA TransferringStep ==
    ASSUME PlacesType, NEW w \in Workers, NEW x, pc' = [pc EXCEPT ![w] = x]
    PROVE  /\ w \in Tracked /\ x \in {"transfer", "set", "tick", "end"}
                 => Transferring' = Transferring \cup {w}
           /\ ~(w \in Tracked /\ x \in {"transfer", "set", "tick", "end"})
                 => Transferring' = Transferring \ {w}
  BY DEF PlacesType, Transferring, Tracked, Workers

LEMMA TransferringIn ==
    ASSUME PlacesType, NEW w \in Tracked, NEW x \in {"transfer", "set", "tick", "end"},
           pc' = [pc EXCEPT ![w] = x]
    PROVE  Transferring' = Transferring \cup {w}
  BY TransferringStep DEF Tracked

LEMMA TransferringOut ==
    ASSUME PlacesType, NEW w \in Workers, NEW x, x \notin {"transfer", "set", "tick", "end"},
           pc' = [pc EXCEPT ![w] = x]
    PROVE  Transferring' = Transferring \ {w}
  BY TransferringStep

LEMMA WorkerSlots ==
    ASSUME TypeInv, SlotsTrue, g_active, NEW w \in Workers, Worker(w)
    PROVE  SlotsTrue'
  <1>0. PlacesType /\ (inside[w] /\ pc[w] \in SlotCalls => w \in Tracked)
    BY DEF TypeInv, PlacesType, SlotsHad
  <1>a. w \in Transferring <=> w \in Tracked /\ pc[w] \in {"transfer", "set", "tick", "end"}
    BY DEF Transferring
  <1>t. DOMAIN g_slots = Transferring /\ \A q \in Transferring : g_slots[q].file = file[q]
    BY DEF SlotsTrue
  <1>1. CASE Take(w)
    <2>1. pc[w] = "take" /\ UNCHANGED g_slots /\ \A q \in Workers : q # w => file'[q] = file[q]
      BY <1>1 DEF Take, dash, TypeInv, FilesType
    <2>2. \E x \in {"take", "result", "get", "stop"} : pc' = [pc EXCEPT ![w] = x]
      BY <1>1 DEF Take, GoTo
    <2>3. Transferring' = Transferring /\ w \notin Transferring
      <3>1. PICK x \in {"take", "result", "get", "stop"} : pc' = [pc EXCEPT ![w] = x]
        BY <2>2
      <3>2. x \notin {"transfer", "set", "tick", "end"}
        OBVIOUS
      <3>3. Transferring' = Transferring \ {w}
        BY <1>0, <3>1, <3>2, TransferringOut
      <3>4. w \notin Transferring
        BY <1>a, <2>1
      <3>. QED
        BY <3>3, <3>4
    <2>4. Transferring \subseteq Workers
      BY DEF Transferring, Tracked
    <2>. QED
      BY <1>t, <2>1, <2>3, <2>4 DEF SlotsTrue
  <1>2. CASE Pass(w)
    <2>1. UNCHANGED <<g_slots, file>>
      BY <1>2 DEF Pass, dash, work
    <2>2. CASE UNCHANGED pc
      BY <1>t, <2>1, <2>2 DEF SlotsTrue, Transferring
    <2>3. CASE (\E x \in After(w) : pc' = [pc EXCEPT ![w] = x]) /\ w \notin Tracked
      <3>1. Transferring' = Transferring
        <4>1. PICK x \in After(w) : pc' = [pc EXCEPT ![w] = x]
          BY <2>3
        <4>2. Transferring' = Transferring \ {w}
          BY <1>0, <2>3, <4>1, TransferringStep
        <4>. QED
          BY <1>a, <2>3, <4>2
      <3>. QED
        BY <1>t, <2>1, <3>1 DEF SlotsTrue
    <2>. QED
      BY <1>2, <2>2, <2>3 DEF Pass, HasSlot, Tracked, GoOn, GoTo
  <1>3. CASE Log(w) \/ Count(w)
    <2>1. UNCHANGED <<g_slots, file>> /\ pc[w] \in {"get", "resume", "result", "count"}
      BY <1>3 DEF Log, Count, work, LogCalls
    <2>2. \E x \in {"resume", "begin", "result", "count", "take"} : pc' = [pc EXCEPT ![w] = x]
      <3>1. CASE Log(w)
        <4>1. pc[w] \in {"get", "resume", "result"} /\ \E x \in After(w) : pc' = [pc EXCEPT ![w] = x]
          BY <3>1 DEF Log, Returns, GoOn, GoTo, LogCalls
        <4>2. After(w) \subseteq {"resume", "begin", "result", "count"}
          BY <4>1, AfterIs
        <4>. QED
          BY <4>1, <4>2
      <3>2. CASE Count(w)
        BY <3>2 DEF Count, GoTo
      <3>. QED
        BY <1>3, <3>1, <3>2
    <2>3. Transferring' = Transferring
      <3>1. PICK x \in {"resume", "begin", "result", "count", "take"} : pc' = [pc EXCEPT ![w] = x]
        BY <2>2
      <3>2. x \notin {"transfer", "set", "tick", "end"}
        OBVIOUS
      <3>3. Transferring' = Transferring \ {w}
        BY <1>0, <3>1, <3>2, TransferringOut
      <3>4. w \notin Transferring
        BY <1>a, <2>1
      <3>. QED
        BY <3>3, <3>4
    <2>. QED
      BY <1>t, <2>1, <2>3 DEF SlotsTrue
  <1>4. CASE BeginWorker(w)
    <2>1. w \in Tracked /\ pc' = [pc EXCEPT ![w] = "transfer"] /\ UNCHANGED file
      BY <1>0, <1>4, AfterIs DEF BeginWorker, SlotCalls, Returns, GoOn, GoTo, work
    <2>2. Transferring' = Transferring \cup {w}
      BY <1>0, <2>1, TransferringIn
    <2>3. g_slots' = [s \in DOMAIN g_slots \cup {w} |->
                      IF s = w THEN [file |-> file[w], done |-> 0] ELSE g_slots[s]]
      BY <1>4 DEF BeginWorker
    <2>. QED
      BY <1>t, <2>1, <2>2, <2>3 DEF SlotsTrue
  <1>5. CASE Deliver(w) \/ EndTransfer(w) \/ Tick(w)
    <2>1. UNCHANGED <<g_slots, file>> /\ pc[w] \in {"transfer", "tick"}
      BY <1>5 DEF Deliver, EndTransfer, Tick, dash, work
    <2>2. pc' = pc \/ \E x \in {"set", "transfer", "end"} : pc' = [pc EXCEPT ![w] = x]
      BY <1>5, AfterIs DEF Deliver, EndTransfer, Tick, Returns, GoOn, GoTo
    <2>3. Transferring' = Transferring
      <3>1. CASE pc' = pc
        BY <3>1 DEF Transferring
      <3>. QED
        BY <1>0, <1>a, <2>1, <2>2, <3>1, TransferringStep
    <2>. QED
      BY <1>t, <2>1, <2>3 DEF SlotsTrue
  <1>6. CASE SetWorker(w)
    <2>1. w \in Tracked /\ pc[w] = "set" /\ pc' = [pc EXCEPT ![w] = "tick"] /\ UNCHANGED file
      BY <1>0, <1>6, AfterIs DEF SetWorker, SlotCalls, Returns, GoOn, GoTo, work
    <2>2. Transferring' = Transferring /\ w \in Transferring
      <3>1. w \in Transferring
        BY <1>a, <2>1
      <3>2. Transferring' = Transferring \cup {w}
        BY <1>0, <2>1, TransferringIn
      <3>. QED
        BY <3>1, <3>2
    <2>3. g_slots' = [g_slots EXCEPT ![w].done = done[w]]
      BY <1>t, <1>6, <2>2 DEF SetWorker
    <2>4. g_slots[w] \in SlotRecords
      BY <1>t, <2>2 DEF TypeInv, SlotsType
    <2>5. [g_slots[w] EXCEPT !.done = done[w]].file = g_slots[w].file
      BY <2>4 DEF SlotRecords
    <2>6. DOMAIN g_slots' = DOMAIN g_slots
          /\ \A q \in DOMAIN g_slots : g_slots'[q].file = g_slots[q].file
      BY <2>3, <2>5
    <2>. QED
      BY <1>t, <2>1, <2>2, <2>6 DEF SlotsTrue
  <1>7. CASE EndWorker(w)
    <2>1. pc' = [pc EXCEPT ![w] = "result"] /\ UNCHANGED file
      BY <1>7, AfterIs DEF EndWorker, Returns, GoOn, GoTo, work
    <2>2. Transferring' = Transferring \ {w}
      <3>1. "result" \notin {"transfer", "set", "tick", "end"}
        OBVIOUS
      <3>. QED
        BY <1>0, <2>1, <3>1, TransferringOut
    <2>3. g_slots' = [s \in DOMAIN g_slots \ {w} |-> g_slots[s]]
      BY <1>7 DEF EndWorker
    <2>. QED
      BY <1>t, <2>1, <2>2, <2>3 DEF SlotsTrue
  <1>. QED
    BY <1>1, <1>2, <1>3, <1>4, <1>5, <1>6, <1>7 DEF Worker

LEMMA WorkerFrame ==
    ASSUME TypeInv, FrameTrue, g_active, NEW w \in Workers, Worker(w)
    PROVE  FrameTrue'
  <1>1. CASE Repaint
    BY <1>1, RepaintPanel
  <1>2. CASE UNCHANGED <<frame, g_slots>>
    BY <1>2 DEF FrameTrue
  <1>3. CASE SetWorker(w) /\ w \in DOMAIN g_slots
    <2>1. g_slots' = [g_slots EXCEPT ![w].done = done[w]] /\ UNCHANGED frame
      BY <1>3 DEF SetWorker
    <2>2. g_slots[w] \in SlotRecords
      BY <1>3 DEF TypeInv, SlotsType
    <2>3. [g_slots[w] EXCEPT !.done = done[w]].file = g_slots[w].file
      BY <2>2 DEF SlotRecords
    <2>4. DOMAIN g_slots' = DOMAIN g_slots
          /\ \A q \in DOMAIN g_slots : g_slots'[q].file = g_slots[q].file
      BY <2>1, <2>3
    <2>5. Listed(g_slots', Layout(Cardinality(DOMAIN g_slots')).dl)
              = Listed(g_slots, Layout(Cardinality(DOMAIN g_slots)).dl)
      BY <2>4 DEF Listed
    <2>. QED
      BY <2>1, <2>4, <2>5, ListedOf DEF FrameTrue
  <1>. QED
    BY <1>1, <1>2, <1>3 DEF Worker, Take, Pass, Log, BeginWorker, Deliver, SetWorker, Tick,
           EndTransfer, EndWorker, Count, dash

(* When the mutex is gone the dashboard is off; until then the totals       *)
(* handed over are the totals.                                             *)
PanelInv ==
    /\ g_active => SlotsTrue /\ FrameTrue /\ g_agg = total
    /\ destroyed => ~g_active

LEMMA NextPanel ==
    ASSUME TypeInv, PanelInv, [Next]_vars
    PROVE  PanelInv'
  <1>1. CASE Second \/ Join \/ UNCHANGED vars
    <2>1. UNCHANGED <<dash, pc, file, total>>
      BY <1>1 DEF Second, Join, vars, work
    <2>. QED
      BY <2>1 DEF PanelInv, SlotsTrue, FrameTrue, Transferring, dash
  <1>2. CASE Shutdown
    BY <1>2 DEF Shutdown, PanelInv
  <1>3. ASSUME NEW w \in Workers, Worker(w) PROVE PanelInv'
    <2>1. UNCHANGED <<g_active, destroyed>>
      BY <1>3, WorkerMoves
    <2>3. ASSUME g_active PROVE g_agg' = total'
      <3>1. g_agg = total
        BY <2>3 DEF PanelInv
      <3>2. CASE Deliver(w) \/ Count(w)
        BY <2>3, <3>1, <3>2 DEF Deliver, Count
      <3>3. CASE ~(Deliver(w) \/ Count(w))
        <4>1. UNCHANGED <<g_agg, total>>
          BY <1>3, <3>3 DEF Worker, Take, Pass, Log, BeginWorker, SetWorker, Tick,
                    EndTransfer, EndWorker, dash, work
        <4>. QED
          BY <3>1, <4>1
      <3>. QED
        BY <3>2, <3>3
    <2>4. ASSUME g_active PROVE SlotsTrue' /\ FrameTrue'
      BY <1>3, <2>4, WorkerSlots, WorkerFrame DEF PanelInv
    <2>. QED
      BY <2>1, <2>3, <2>4 DEF PanelInv
  <1>. QED
    BY <1>1, <1>2, <1>3 DEF Next

(* In every state the slots in use are those of the transferring workers,   *)
(* and the frame lists them as they were given out.                        *)
THEOREM PanelInvHolds == Spec => []PanelInv
  <1>1. Init => PanelInv
    <2> SUFFICES ASSUME Init PROVE PanelInv
      OBVIOUS
    <2>1. Transferring = {}
      <3>1. \A w \in Workers : pc[w] \in {"take", "stop"}
        BY DEF Init
      <3>. QED
        BY <3>1 DEF Transferring, Tracked
    <2>2. DOMAIN g_slots = {} /\ DOMAIN frame.downloads = {}
      BY DEF Init, NoFrame
    <2>3. Listed(g_slots, Layout(Cardinality(DOMAIN g_slots)).dl) = {}
      BY <2>2, ListedOf
    <2>. QED
      BY <2>1, <2>2, <2>3 DEF Init, PanelInv, SlotsTrue, FrameTrue
  <1>2. TypeInv /\ PanelInv /\ [Next]_vars => PanelInv'
    BY NextPanel
  <1>. QED
    BY <1>1, <1>2, TypeInvHolds, PTL DEF Spec

(* The last frame is the end of the story, however the calls of the workers *)
(* fell and whether or not every slot had its row, unless a thread was      *)
(* created after one that could not be.                                    *)
THEOREM FinalFrameHolds == OnlyLastFails => (Spec => []FinalFrame)
  <1> SUFFICES ASSUME OnlyLastFails PROVE Spec => []FinalFrame
    OBVIOUS
  <1>1. Init => FinalFrame
    BY DEF Init, FinalFrame
  <1>2. TypeInv /\ JoinInv /\ PanelInv /\ FinalFrame /\ [Next]_vars => FinalFrame'
    <2> SUFFICES ASSUME TypeInv, JoinInv, PanelInv, FinalFrame, [Next]_vars PROVE FinalFrame'
      OBVIOUS
    <2>1. CASE Second \/ Join \/ UNCHANGED vars
      <3>1. UNCHANGED <<dash, total>>
        BY <2>1 DEF Second, Join, vars, work
      <3>. QED
        BY <3>1 DEF FinalFrame, dash
    <2>2. CASE Shutdown
      <3>1. Repaint /\ g_active /\ joined = Cardinality(alive)
            /\ UNCHANGED <<g_slots, g_log, g_log_count, g_log_next, g_agg, total>>
        BY <2>2 DEF Shutdown, work
      <3>2. \A w \in Workers : pc[w] = "stop"
        BY <3>1, AllJoined
      <3>3. Transferring = {}
        BY <3>2 DEF Transferring, Tracked
      <3>4. DOMAIN g_slots' = {} /\ g_agg = total
        BY <3>1, <3>3 DEF PanelInv, SlotsTrue
      <3>5. DOMAIN frame'.downloads = {}
        <4>1. DOMAIN frame'.downloads \subseteq DOMAIN g_slots'
          BY <3>1, RepaintPanel, ListedOf DEF FrameTrue
        <4>. QED
          BY <3>4, <4>1
      <3>6. frame'.footer = total'
        BY <3>1, <3>4 DEF Repaint, Rendered
      <3>7. \A i \in DOMAIN frame'.log :
               frame'.log[i] = LogRow(g_log', g_log_count', g_log_next', i)
        BY <3>1 DEF Repaint, Rendered
      <3>. QED
        BY <3>5, <3>6, <3>7 DEF FinalFrame
    <2>3. ASSUME NEW w \in Workers, Worker(w) PROVE FinalFrame'
      <3>1. pc[w] # "stop" /\ UNCHANGED destroyed
        BY <2>3, WorkerMoves
      <3>2. ~destroyed
        BY <3>1, AllJoined DEF JoinInv
      <3>. QED
        BY <3>1, <3>2 DEF FinalFrame
    <2>. QED
      BY <2>1, <2>2, <2>3 DEF Next
  <1>. QED
    BY <1>1, <1>2, TypeInvHolds, JoinInvHolds, PanelInvHolds, PTL DEF Spec

LEMMA PanelRows == TypeInv /\ PanelInv => PanelTruth
  <1> SUFFICES ASSUME TypeInv, PanelInv, g_active
               PROVE  LET shown == DOMAIN frame.downloads
                      IN  /\ shown \subseteq Transferring
                          /\ \A w \in shown : frame.downloads[w].file = file[w]
                          /\ \/ shown = Transferring
                             \/ Cardinality(shown) = g_height - Fixed - LG_MIN
    BY DEF PanelTruth
  <1> DEFINE D == DOMAIN g_slots
             dl == Layout(Cardinality(D)).dl
             shown == DOMAIN frame.downloads
  <1>1. /\ D = Transferring /\ shown = Listed(g_slots, dl)
        /\ \A q \in Transferring : g_slots[q].file = file[q]
        /\ \A q \in shown : frame.downloads[q].file = g_slots[q].file
    BY DEF PanelInv, SlotsTrue, FrameTrue
  <1>2. shown \subseteq Transferring
    BY <1>1, ListedOf
  <1>3. D \in SUBSET Nat /\ IsFiniteSet(D) /\ Cardinality(D) \in Nat
    <2>1. D \subseteq Workers
      BY <1>1 DEF Transferring, Tracked
    <2>2. IsFiniteSet(Workers) /\ Workers \subseteq Nat
      BY DashboardAssumption, FS_Interval DEF Workers
    <2>. QED
      BY <2>1, <2>2, FS_Subset, FS_CardinalityType
  <1>4. dl \in Nat
    BY <1>3, LayoutFits
  <1>5. Cardinality(D) > dl => dl = g_height - Fixed - LG_MIN
    BY <1>3, HeightType, DashboardAssumption DEF Layout, Fixed, LAUNCH_IN, HEIGHT_MAX
  <1>6. /\ Cardinality(D) <= dl => shown = D
        /\ Cardinality(D) > dl => Cardinality(shown) = dl
    <2>1. shown = {s \in D : Cardinality({r \in D : r < s}) < dl}
      BY <1>1 DEF Listed
    <2> HIDE DEF shown, D, dl
    <2>. QED
      BY <1>3, <1>4, <2>1, FirstRows
  <1> HIDE DEF dl
  <1>7. Cardinality(D) <= dl \/ Cardinality(D) > dl
    BY <1>3, <1>4
  <1> HIDE DEF D, shown
  <1>8. shown = Transferring \/ Cardinality(shown) = g_height - Fixed - LG_MIN
    BY <1>1, <1>5, <1>6, <1>7
  <1>. QED
    BY <1>1, <1>2, <1>8 DEF shown

(* In every frame on the screen, the panel lists the workers that are       *)
(* transferring, each with its file, all of them or as many as there are    *)
(* rows: for any number of workers and any terminal.                       *)
THEOREM PanelHolds == Spec => []PanelTruth
  BY TypeInvHolds, PanelInvHolds, PanelRows, PTL

=============================================================================
