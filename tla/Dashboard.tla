------------------------------ MODULE Dashboard ------------------------------
(***************************************************************************)
(* The live dashboard: the module state of dashboard.c behind its mutex,    *)
(* the workers of downloader.c that call it, and main, which shuts it down. *)
(*                                                                         *)
(* Every dash_ function first looks at g_active without the lock, and then  *)
(* does its work under it; so a call is two steps here, Pass and the body.  *)
(* A frame is what one render_locked prints: which downloads its panel      *)
(* lists, the lines of its log window, the totals in the footer, and how    *)
(* many lines of the terminal it takes if every row is short enough for     *)
(* one.  Log lines are numbered in the order of the dash_log calls, the     *)
(* totals are one counter, and file names, speeds and the clock face are    *)
(* left out.                                                               *)
(***************************************************************************)
EXTENDS Integers, FiniteSets

CONSTANTS
    NumWorkers,   \* worker threads, which are also their slot numbers
    Failable,     \* workers whose thrd_create may fail
    NumFiles,     \* entries of the listing
    MaxChunks,    \* deliveries per file (a bound of the model)
    MaxTime,      \* seconds the clock counts (a bound of the model)
    MaxSlots,     \* DASH_MAX_SLOTS, 128 in dashboard.h
    Ring,         \* lines the log ring retains, 512 in dashboard.c
    DL_MIN,       \* rows kept for downloads, 2 in dashboard.c
    LG_MIN,       \* rows kept for the log, 3
    HEIGHT_MIN,   \* the height a smaller terminal is taken to have, 20
    Rows          \* lines of the terminal

LAUNCH_IN == 6
HEIGHT_MAX == 80

(* Rows that are neither downloads nor log, as layout() counts them.        *)
Fixed == 1 + 1 + 1 + LAUNCH_IN + 1 + 1 + 1 + 1 + 1

(* The smallest height has room for both minima, as 20 has.                *)
ASSUME DashboardAssumption ==
    /\ NumWorkers \in Nat \ {0}
    /\ Failable \subseteq 0..(NumWorkers - 1)
    /\ NumFiles \in Nat
    /\ MaxChunks \in Nat
    /\ MaxTime \in Nat
    /\ MaxSlots \in Nat
    /\ Ring \in Nat \ {0}
    /\ DL_MIN \in Nat \ {0} /\ LG_MIN \in Nat \ {0}
    /\ HEIGHT_MIN \in Fixed + DL_MIN + LG_MIN .. HEIGHT_MAX
    /\ Rows \in Nat \ {0}

VARIABLES
    alive,         \* rigid: the workers thrd_create has brought to life
    joined,        \* how far download_all's join loop has come
    g_active,      \* the dashboard is on; read without the lock
    destroyed,     \* dash_shutdown has destroyed g_mutex
    g_slots,       \* the slots in use: slot -> [file, done]
    g_agg,         \* the totals last handed over
    g_log,         \* the ring of log lines
    g_log_count,
    g_log_next,
    g_last_render,
    frame,         \* what is on the screen
    clock,         \* time(NULL), in seconds since dash_init
    pc,            \* the dash_ call worker w is about to make
    inside,        \* w has found g_active set and not finished the call
    now,           \* dash_tick's clock reading, taken before the lock; 0 when
                   \* there is none
    file,          \* the file w is at, 0 before the first
    done,          \* what w has received of it, 0 outside a download
    taken,         \* files taken by some worker
    total,         \* DownloadStats and bytes_done, as one counter
    logged         \* dash_log calls so far

dash == <<g_active, destroyed, g_slots, g_agg, g_log, g_log_count, g_log_next,
          g_last_render, frame>>
work == <<file, done, taken, total>>
pool == <<alive, joined>>
vars == <<pool, dash, clock, pc, inside, now, work, logged>>

Workers == 0..(NumWorkers - 1)
Clamped(x, lo, hi) == IF x < lo THEN lo ELSE IF x > hi THEN hi ELSE x
g_height == Clamped(Rows, HEIGHT_MIN, HEIGHT_MAX)

-----------------------------------------------------------------------------
(* The frame.                                                              *)

(* Mutant: the log panel keeps no minimum.                                 *)
LayoutGreedy(act) ==
    LET avail == g_height - Fixed
        want  == IF act > DL_MIN THEN act ELSE DL_MIN
    IN  [dl |-> want, lg |-> IF want > avail THEN 0 ELSE avail - want]

(* Rows of the downloads panel and of the log panel, act slots in use.      *)
Layout(act) ==
    LET avail == g_height - Fixed
        want  == IF act > DL_MIN THEN act ELSE DL_MIN
        dl    == IF want > avail - LG_MIN THEN avail - LG_MIN ELSE want
    IN  IF avail < DL_MIN + LG_MIN
        THEN [dl |-> DL_MIN, lg |-> LG_MIN]
        ELSE [dl |-> dl, lg |-> avail - dl]

(* The slots whose download has a row: the first dl of those in use.       *)
Listed(slots, dl) ==
    {s \in DOMAIN slots : Cardinality({r \in DOMAIN slots : r < s}) < dl}

(* Mutant: the row is counted from the start of the ring.                  *)
LogRowUnwrapped(log, count, next, i) == IF i < count THEN log[i] ELSE 0

(* Line i of the log panel, counted from its top; 0 is a blank row.         *)
LogRow(log, count, next, i) ==
    IF i < count THEN log[(next - count + i + Ring) % Ring] ELSE 0

(* render_locked, from the state the call that repaints leaves behind.  The *)
(* borders, rules, header and footer are 8 lines; a log row with text in it *)
(* takes two, for dash_log keeps the newline its text ends in and           *)
(* content_row adds one.                                                   *)
Rendered(slots, log, count, next, agg) ==
    LET lo   == Layout(Cardinality(DOMAIN slots))
        rows == [i \in 0..(lo.lg - 1) |-> LogRow(log, count, next, i)]
    IN  [dl        |-> lo.dl,
         downloads |-> [s \in Listed(slots, lo.dl) |-> slots[s]],
         log       |-> rows,
         footer    |-> agg,
         lines     |-> 8 + LAUNCH_IN \div 2 + lo.dl + lo.lg
                         + Cardinality({i \in DOMAIN rows : rows[i] # 0})]

NoFrame == [dl |-> 0, downloads |-> <<>>, log |-> <<>>, footer |-> 0, lines |-> 0]

Repaint ==
    /\ frame' = Rendered(g_slots', g_log', g_log_count', g_log_next', g_agg')
    /\ g_last_render' = clock

-----------------------------------------------------------------------------
(* dash_init finds a terminal, or the dashboard stays off.  Of the workers  *)
(* some may never live, or all when their arrays cannot be allocated.       *)
Init ==
    /\ alive \in {Workers \ f : f \in SUBSET Failable} \cup {{}}
    /\ joined = 0
    /\ g_active \in BOOLEAN
    /\ destroyed = FALSE
    /\ g_slots = <<>>
    /\ g_agg = 0
    /\ g_log = [i \in 0..(Ring - 1) |-> 0]
    /\ g_log_count = 0
    /\ g_log_next = 0
    /\ g_last_render = 0
    /\ frame = NoFrame
    /\ clock = 0
    /\ pc = [w \in Workers |-> IF w \in alive THEN "take" ELSE "stop"]
    /\ inside = [w \in Workers |-> FALSE]
    /\ now = [w \in Workers |-> 0]
    /\ file = [w \in Workers |-> 0]
    /\ done = [w \in Workers |-> 0]
    /\ taken = 0
    /\ total = 0
    /\ logged = 0

GoTo(w, place) == pc' = [pc EXCEPT ![w] = place]

(* The calls download_one and progress_display make, in their order: after  *)
(* the GET line perhaps one that tells of a resume, and then the transfer   *)
(* or a file that cannot be opened.                                        *)
After(w) ==
    CASE pc[w] = "get"    -> {"resume", "begin", "result"}
      [] pc[w] = "resume" -> {"begin", "result"}
      [] pc[w] = "begin"  -> {"transfer"}
      [] pc[w] = "set"    -> {"tick"}
      [] pc[w] = "tick"   -> {"transfer"}
      [] pc[w] = "end"    -> {"result"}
      [] pc[w] = "result" -> {"count"}

LogCalls == {"get", "resume", "result"}
Calls == LogCalls \cup {"begin", "set", "tick", "end"}
SlotCalls == {"begin", "set", "end"}

(* Mutant: one slot too many.                                              *)
HasSlotOver(w) == w <= MaxSlots

(* The slots that have a row number in the module.                         *)
HasSlot(w) == w < MaxSlots

GoOn(w) == \E place \in After(w) : GoTo(w, place)

Returns(w) ==
    /\ GoOn(w)
    /\ inside' = [inside EXCEPT ![w] = FALSE]

(* next_index: another entry, or the worker ends.  One without a name is    *)
(* passed over; one that is filtered, restricted or there already is        *)
(* reported and counted; the others are downloaded.                        *)
Take(w) ==
    /\ pc[w] = "take"
    /\ \/ /\ taken < NumFiles
          /\ taken' = taken + 1
          /\ file' = [file EXCEPT ![w] = taken + 1]
          /\ \E place \in {"take", "result", "get"} : GoTo(w, place)
       \/ /\ taken = NumFiles
          /\ GoTo(w, "stop")
          /\ UNCHANGED <<taken, file>>
    /\ UNCHANGED <<pool, dash, clock, inside, now, done, total, logged>>

(* The unlocked part of a call: nothing when the dashboard is off or the    *)
(* slot has no row; dash_tick also reads the clock here.                   *)
Pass(w) ==
    /\ pc[w] \in Calls /\ ~inside[w]
    /\ IF g_active /\ (pc[w] \in SlotCalls => HasSlot(w))
       THEN /\ inside' = [inside EXCEPT ![w] = TRUE]
            /\ now' = [now EXCEPT ![w] = IF pc[w] = "tick" THEN clock ELSE @]
            /\ UNCHANGED pc
       ELSE /\ GoOn(w)
            /\ UNCHANGED <<inside, now>>
    /\ UNCHANGED <<pool, dash, clock, work, logged>>

(* dash_log.                                                               *)
Log(w) ==
    /\ pc[w] \in LogCalls /\ inside[w]
    /\ logged' = logged + 1
    /\ g_log' = [g_log EXCEPT ![g_log_next] = logged + 1]
    /\ g_log_next' = (g_log_next + 1) % Ring
    /\ g_log_count' = IF g_log_count < Ring THEN g_log_count + 1 ELSE g_log_count
    /\ UNCHANGED <<g_active, destroyed, g_slots, g_agg>>
    /\ IF g_active THEN Repaint ELSE UNCHANGED <<frame, g_last_render>>
    /\ Returns(w)
    /\ UNCHANGED <<pool, clock, now, work>>

(* dash_begin_worker.                                                      *)
BeginWorker(w) ==
    /\ pc[w] = "begin" /\ inside[w]
    /\ g_slots' = [s \in DOMAIN g_slots \cup {w} |->
                      IF s = w THEN [file |-> file[w], done |-> 0] ELSE g_slots[s]]
    /\ UNCHANGED <<g_active, destroyed, g_agg, g_log, g_log_count, g_log_next>>
    /\ IF g_active THEN Repaint ELSE UNCHANGED <<frame, g_last_render>>
    /\ Returns(w)
    /\ UNCHANGED <<pool, clock, now, work, logged>>

(* A delivery: progress_display adds to bytes_done and calls dash_set_agg,  *)
(* both with the mutex of DownloadShared held, which makes it one step.     *)
Deliver(w) ==
    /\ pc[w] = "transfer"
    /\ done[w] < MaxChunks
    /\ done' = [done EXCEPT ![w] = @ + 1]
    /\ IF g_active
       THEN total' = total + 1 /\ g_agg' = total + 1 /\ GoTo(w, "set")
       ELSE UNCHANGED <<total, g_agg, pc>>
    /\ UNCHANGED <<g_active, destroyed, g_slots, g_log, g_log_count, g_log_next,
                   g_last_render, frame, pool, clock, inside, now, file, taken, logged>>

(* dash_set_worker: nothing for a slot that is not in use.                  *)
SetWorker(w) ==
    /\ pc[w] = "set" /\ inside[w]
    /\ g_slots' = IF w \in DOMAIN g_slots
                  THEN [g_slots EXCEPT ![w].done = done[w]]
                  ELSE g_slots
    /\ Returns(w)
    /\ UNCHANGED <<g_active, destroyed, g_agg, g_log, g_log_count, g_log_next,
                   g_last_render, frame, pool, clock, now, work, logged>>

(* dash_tick: at most one repaint per second of its own clock reading.      *)
Tick(w) ==
    /\ pc[w] = "tick" /\ inside[w]
    /\ UNCHANGED <<g_active, destroyed, g_slots, g_agg, g_log, g_log_count, g_log_next>>
    /\ IF now[w] - g_last_render >= 1
       THEN IF g_active
            THEN Repaint
            ELSE g_last_render' = now[w] /\ UNCHANGED frame
       ELSE UNCHANGED <<frame, g_last_render>>
    /\ Returns(w)
    /\ now' = [now EXCEPT ![w] = 0]
    /\ UNCHANGED <<pool, clock, work, logged>>

(* The transfer is over.                                                   *)
EndTransfer(w) ==
    /\ pc[w] = "transfer"
    /\ GoTo(w, "end")
    /\ UNCHANGED <<pool, dash, clock, inside, now, work, logged>>

(* Mutant: the row goes at the next repaint, whenever that is.              *)
EndWorkerUnpainted(w) ==
    /\ pc[w] = "end" /\ inside[w]
    /\ g_slots' = [s \in DOMAIN g_slots \ {w} |-> g_slots[s]]
    /\ Returns(w)
    /\ UNCHANGED <<g_active, destroyed, g_agg, g_log, g_log_count, g_log_next,
                   g_last_render, frame, pool, clock, now, work, logged>>

(* dash_end_worker.                                                        *)
EndWorker(w) ==
    /\ pc[w] = "end" /\ inside[w]
    /\ g_slots' = [s \in DOMAIN g_slots \ {w} |-> g_slots[s]]
    /\ UNCHANGED <<g_active, destroyed, g_agg, g_log, g_log_count, g_log_next>>
    /\ IF g_active THEN Repaint ELSE UNCHANGED <<frame, g_last_render>>
    /\ Returns(w)
    /\ UNCHANGED <<pool, clock, now, work, logged>>

(* count_one, with dash_set_agg under the same mutex: no repaint.           *)
Count(w) ==
    /\ pc[w] = "count"
    /\ total' = total + 1
    /\ g_agg' = IF g_active THEN total + 1 ELSE g_agg
    /\ done' = [done EXCEPT ![w] = 0]
    /\ GoTo(w, "take")
    /\ UNCHANGED <<g_active, destroyed, g_slots, g_log, g_log_count, g_log_next,
                   g_last_render, frame, pool, clock, inside, now, file, taken, logged>>

(* Mutant: the join loop does not wait.                                     *)
JoinWithoutWaiting ==
    /\ joined < Cardinality(alive)
    /\ joined' = joined + 1
    /\ UNCHANGED <<alive, dash, clock, pc, inside, now, work, logged>>

(* download_all joins as many workers as came to life, by position; an      *)
(* entry that was never filled is passed over, if that does not end the     *)
(* process.                                                                *)
Join ==
    /\ joined < Cardinality(alive)
    /\ joined \in alive => pc[joined] = "stop"
    /\ joined' = joined + 1
    /\ UNCHANGED <<alive, dash, clock, pc, inside, now, work, logged>>

(* Mutant: no last repaint.                                                *)
ShutdownUnpainted ==
    /\ joined = Cardinality(alive)
    /\ g_active
    /\ g_active' = FALSE
    /\ destroyed' = TRUE
    /\ UNCHANGED <<g_slots, g_agg, g_log, g_log_count, g_log_next, g_last_render,
                   frame, pool, clock, pc, inside, now, work, logged>>

(* main: dash_shutdown once download_all has returned, its join loop done.  *)
Shutdown ==
    /\ joined = Cardinality(alive)
    /\ g_active
    /\ UNCHANGED <<g_slots, g_agg, g_log, g_log_count, g_log_next>>
    /\ Repaint
    /\ g_active' = FALSE
    /\ destroyed' = TRUE
    /\ UNCHANGED <<pool, clock, pc, inside, now, work, logged>>

Second ==
    /\ clock < MaxTime
    /\ clock' = clock + 1
    /\ UNCHANGED <<pool, dash, pc, inside, now, work, logged>>

Worker(w) ==
    \/ Take(w) \/ Pass(w) \/ Log(w) \/ BeginWorker(w) \/ Deliver(w)
    \/ SetWorker(w) \/ Tick(w) \/ EndTransfer(w) \/ EndWorker(w) \/ Count(w)

Next == Second \/ Join \/ Shutdown \/ \E w \in Workers : Worker(w)

Spec == Init /\ [][Next]_vars

-----------------------------------------------------------------------------
Places == Calls \cup {"take", "transfer", "count", "stop"}
SlotRecords == [file : 0..NumFiles, done : 0..MaxChunks]

(* The workers there is a DashSlot for.                                    *)
Tracked == {w \in Workers : w < MaxSlots}

(* The values the variables take.                                          *)
TypeOK ==
    /\ alive \subseteq Workers /\ joined \in Nat
    /\ g_active \in BOOLEAN /\ destroyed \in BOOLEAN
    /\ DOMAIN g_slots \subseteq Tracked
    /\ \A s \in DOMAIN g_slots : g_slots[s] \in SlotRecords
    /\ g_agg \in Nat /\ total \in Nat /\ logged \in Nat
    /\ g_log \in [0..(Ring - 1) -> Nat]
    /\ g_log_count \in 0..Ring /\ g_log_next \in 0..(Ring - 1)
    /\ clock \in 0..MaxTime /\ g_last_render \in 0..MaxTime
    /\ pc \in [Workers -> Places]
    /\ inside \in [Workers -> BOOLEAN]
    /\ now \in [Workers -> 0..MaxTime]
    /\ file \in [Workers -> 0..NumFiles] /\ done \in [Workers -> 0..MaxChunks]
    /\ taken \in 0..NumFiles

(* The ring holds the last lines that were logged, as many as it has room   *)
(* for, and LogRow reads them out in the order they were logged, also       *)
(* after the ring has wrapped.                                             *)
RingIsTail ==
    /\ g_log_count = IF logged < Ring THEN logged ELSE Ring
    /\ \A i \in 0..(g_log_count - 1) :
        LogRow(g_log, g_log_count, g_log_next, i) = logged - g_log_count + i + 1

(* The downloads panel tells the truth: its rows are the workers between    *)
(* dash_begin_worker and dash_end_worker, each with the file it is at, all  *)
(* of them unless they outnumber the rows the layout can spare.            *)
Transferring == {w \in Tracked : pc[w] \in {"transfer", "set", "tick", "end"}}

PanelTruth ==
    g_active =>
        LET shown == DOMAIN frame.downloads
        IN  /\ shown \subseteq Transferring
            /\ \A w \in shown : frame.downloads[w].file = file[w]
            /\ \/ shown = Transferring
               \/ Cardinality(shown) = g_height - Fixed - LG_MIN

(* What the budget of layout() comes to, for any number of downloads: both  *)
(* panels keep their minima, and the frame takes three lines less than the  *)
(* terminal has and one more for every text in the log panel, since layout  *)
(* counts six launch rows where three are printed and one line for a log    *)
(* row that takes two.  So three texts fill the terminal, which scrolls for *)
(* the newline behind the last line, and with a fourth the frame is taller  *)
(* than it: not what dashboard.c:346 says of layout.                        *)
RowBudget ==
    frame # NoFrame =>
        LET texts == {i \in DOMAIN frame.log : frame.log[i] # 0}
        IN  /\ frame.dl >= DL_MIN
            /\ Cardinality(DOMAIN frame.log) >= LG_MIN
            /\ frame.lines = g_height - 3 + Cardinality(texts)

(* The frame dash_shutdown leaves on the screen is the end of the story: no *)
(* download in progress, the final totals, and the log as it stands.  That  *)
(* is so when the join loop misses nobody, hence no thrd_create may fail    *)
(* before one that succeeds.                                               *)
FinalFrame ==
    destroyed =>
        /\ DOMAIN frame.downloads = {}
        /\ frame.footer = total
        /\ \A i \in DOMAIN frame.log :
            frame.log[i] = LogRow(g_log, g_log_count, g_log_next, i)

(* No worker that found the dashboard on locks a mutex already destroyed:   *)
(* g_active is read without the lock, so only the join loop keeps them      *)
(* apart, on the same condition.                                           *)
NoUseAfterDestroy == destroyed => \A w \in Workers : ~inside[w]

(* "Append a line to the bottom panel (result of the latest operations)"    *)
(* (dashboard.h:54): the line logged last is in the log panel.             *)
LogShowsLatest ==
    (frame # NoFrame /\ logged > 0) => \E i \in DOMAIN frame.log : frame.log[i] = logged
=============================================================================
