----------------------------- MODULE TaskServer -----------------------------
(***************************************************************************)
(* The TPC-C server: I/O threads receive requests, take a task from a      *)
(* bounded pool, put it in the list of its priority and, later, recycle    *)
(* the tasks the workers have finished; worker threads take the task of    *)
(* the highest priority they find and run it; main waits until every       *)
(* request was run, prints the statistics and shuts everything down.       *)
(*                                                                         *)
(* The priority lists come in two builds.  "locks" is core/priority.c      *)
(* alone: a linked list with a lock at each end, a counter that decides    *)
(* whether one or both locks are taken, and a bitmap of non-empty lists.   *)
(* "nbb" (make NBB=1) is core/nbblist.c: a lock-free ring of (version,     *)
(* node) words and an allocator of nodes.  Every access to a word that two *)
(* threads share is a step of its own; code that touches only private      *)
(* words is folded into the step before it.                                *)
(***************************************************************************)
EXTENDS Integers, Sequences, FiniteSets, SequencesExt

CONSTANTS
    Servers,    \* I/O threads (num_servers, one connection each)
    Workers,    \* threads that run transactions (num_workers)
    PoolSize,   \* tasks (pool_size)
    NumPrio,    \* most priorities, and number of profiles (both 6 in the code)
    Setups,     \* the command lines and clients to consider
    NONE

(* A setup: the build, num_prio, the threads started, requests per client  *)
(* (txs_x_thread), what a recv may deliver, and the number of completed    *)
(* transactions that switches the statistics on (10000 in the code).       *)
Request == [kind : {"run", "ignored", "noTx", "lost"}, prio : Int, tx : Int]

ASSUME ServerAssumption ==
    /\ IsFiniteSet(Servers) /\ IsFiniteSet(Workers) /\ Servers \cap Workers = {}
    /\ PoolSize \in Nat \ {0} /\ NumPrio \in Nat \ {0}
    /\ \A u \in Setups :
          /\ DOMAIN u = {"build", "prios", "servers", "workers", "txs", "requests", "enableAt"}
          /\ u.build \in {"locks", "nbb"} /\ u.prios \in 1 .. NumPrio
          /\ u.txs \in Nat \ {0} /\ u.enableAt \in Nat
          /\ u.servers \subseteq Servers /\ u.workers \subseteq Workers
          /\ \A r \in u.requests : r \in Request
    /\ NONE \notin Servers \cup Workers \cup 1 .. PoolSize

Threads == Servers \cup Workers
Tasks == 1 .. PoolSize
Prios == 0 .. NumPrio - 1
Profiles == 1 .. NumPrio

(* MEM_ALLOC_LEN rounded up to the next power of two only adds nodes that  *)
(* are never needed; node 0 is reserved.                                   *)
Nodes == 1 .. Cardinality(Servers) * Cardinality(Workers) * PoolSize

VARIABLES
    setup,      \* how this server was built, started and used
    task,       \* task -> [prio, tx, ok, next, freeGc, valid]
    pool,       \* the free list of tasks
    list,       \* "locks": priority -> [hl, tl, head, tail, count, bit]
    nbb,        \* "nbb": priority -> [entries, head, tail, busy, payload]
    th,         \* thread -> its program counter and locals
    gc,         \* server -> tasks it has to recycle (gc_head, next_gc)
    txs,        \* server -> requests still to receive
    completed,  \* txs_completed
    canUpdate,  \* can_update
    row,        \* profile -> [lock, count]: one row of the statistics
    main,       \* [pc, enabled, printed, i]: the main thread
    shutdown,   \* the workers' pool is shutting down
    dropped,    \* a request was received that will never count as completed
    counted     \* profile -> StatsUpdate calls that passed the can_update test

vars == <<setup, task, pool, list, nbb, th, gc, txs, completed, canUpdate,
          row, main, shutdown, dropped, counted>>

Total == Cardinality(setup.servers) * setup.txs

shared == <<list, nbb>>
others == <<setup, txs, completed, canUpdate, row, main, shutdown, dropped, counted>>

Idle == [pc |-> "scan", t |-> NONE, p |-> setup.prios - 1, n |-> 0, a |-> 0, b |-> 0, v |-> 0]
AtLoop == [pc |-> "loop", t |-> NONE, p |-> 0, n |-> 0, a |-> 0, b |-> 0, v |-> 0]

Blank == [prio |-> -1, tx |-> -1, ok |-> FALSE, next |-> NONE, freeGc |-> FALSE, valid |-> FALSE]

(* malloc does not clear the ring's entries: the model starts from the     *)
(* zeros of fresh pages.                                                   *)
Init ==
    /\ setup \in Setups
    /\ task = [x \in Tasks |-> Blank]
    /\ pool = [i \in Tasks |-> i]
    /\ list = [p \in Prios |-> [hl |-> NONE, tl |-> NONE, head |-> NONE, tail |-> NONE,
                                count |-> 0, bit |-> FALSE]]
    /\ nbb = [p \in Prios |-> [entries |-> [i \in 0 .. PoolSize - 1 |-> [ver |-> 0, val |-> 0]],
                               head |-> 0, tail |-> 0, busy |-> {},
                               payload |-> [x \in Nodes |-> NONE]]]
    /\ th = [x \in Threads |->
                IF x \notin setup.servers \cup setup.workers THEN [AtLoop EXCEPT !.pc = "exited"]
                ELSE IF x \in Workers THEN Idle ELSE AtLoop]
    /\ gc = [s \in Servers |-> <<>>]
    /\ txs = [s \in Servers |-> setup.txs]
    /\ completed = 0
    /\ canUpdate = FALSE
    /\ row = [x \in Profiles |-> [lock |-> NONE, count |-> 0]]
    /\ main = [pc |-> "loop", enabled |-> FALSE, printed |-> FALSE, i |-> 1]
    /\ shutdown = FALSE
    /\ dropped = FALSE
    /\ counted = [x \in Profiles |-> 0]

-----------------------------------------------------------------------------
(* Moving a thread's program counter, alone or with some of its locals.    *)

At(x, pc) == th[x].pc = pc
Goto(x, pc) == th' = [th EXCEPT ![x].pc = pc]

Clamp(n, lo, hi) == IF n < lo THEN lo ELSE IF n > hi THEN hi ELSE n

-----------------------------------------------------------------------------
(* The task pool.  GetTask's unlocked test of pool.head and its trylock    *)
(* only repeat the loop; what it does happens under the lock.              *)

FreeTask(t) ==
    /\ task' = [task EXCEPT ![t] = Blank]
    /\ pool' = Append(pool, t)

(* The task a received request fills in: a request without a second field  *)
(* is released at once, the others are clamped to a priority and a         *)
(* profile.                                                                *)
Filled(t, r) ==
    [task EXCEPT ![t] =
        [Blank EXCEPT !.prio = Clamp(r.prio, 0, setup.prios - 1),
                      !.tx = IF r.kind = "noTx" THEN -1 ELSE Clamp(r.tx, 1, NumPrio),
                      !.ok = (r.kind = "run"),
                      !.freeGc = (r.kind = "noTx")]]

(* The walk has reached position a of list q; after the last one the       *)
(* thread goes on with the next request, or, once all were received, with  *)
(* another pass (n = 1).                                                   *)
Walk(q, a, n) ==
    IF a <= Len(q) THEN [AtLoop EXCEPT !.pc = "clean", !.a = a, !.n = n]
    ELSE [AtLoop EXCEPT !.pc = IF n = 1 THEN "drain" ELSE "loop"]

InsertFirst(b) == IF b = "locks" THEN "i_tail" ELSE "n_acquire"

(* One iteration of server_threadpool_thread up to InsertTask: a failed    *)
(* recv consumes the request; otherwise a task is taken from the pool and  *)
(* is pushed on the server's recycling list.                               *)
server_runMethod(s) ==
    /\ At(s, "loop") /\ txs[s] > 0
    /\ \E r \in setup.requests :
          /\ r.kind = "lost" \/ pool # <<>>
          /\ dropped' = (dropped \/ r.kind # "run")
          /\ txs' = [txs EXCEPT ![s] = @ - 1]
          /\ IF r.kind = "lost"
               THEN th' = [th EXCEPT ![s] = Walk(gc[s], 1, 0)] /\ UNCHANGED <<pool, gc, task>>
               ELSE LET t == Head(pool) IN
                    /\ pool' = Tail(pool)
                    /\ gc' = [gc EXCEPT ![s] = <<t>> \o @]
                    /\ task' = Filled(t, r)
                    /\ th' = [th EXCEPT ![s] =
                          IF r.kind = "noTx" THEN Walk(gc'[s], 1, 0)
                          ELSE [@ EXCEPT !.pc = InsertFirst(setup.build), !.t = t,
                                         !.p = task'[t].prio]]
    /\ UNCHANGED <<setup, shared, completed, canUpdate, row, main, shutdown, counted>>

(* The pool is empty: the server recycles what it can and tries again.     *)
WaitForTask(s) ==
    /\ At(s, "loop") /\ txs[s] > 0 /\ pool = <<>>
    /\ th' = [th EXCEPT ![s] = Walk(gc[s], 1, 0)]
    /\ UNCHANGED <<task, pool, shared, gc, others>>

-----------------------------------------------------------------------------
(* Recycling.  gc_clean walks the server's list: a is the position of the  *)
(* task it looks at.  free_gc is read once per visit, while workers set it.*)

Visited(s) == gc[s][th[s].a]

Skip(s) ==
    /\ At(s, "clean") /\ ~ task[Visited(s)].freeGc
    /\ th' = [th EXCEPT ![s] = Walk(gc[s], @.a + 1, @.n)]
    /\ UNCHANGED <<task, pool, shared, gc, others>>

(* A released task is counted, if it ran and the statistics are on, and    *)
(* goes back to the pool.                                                  *)
Unlinked(q, i) == RemoveAt(q, i)

Recycle(s) ==
    /\ gc' = [gc EXCEPT ![s] = Unlinked(@, th[s].a)]
    /\ FreeTask(Visited(s))
    /\ th' = [th EXCEPT ![s] = Walk(gc'[s], @.a, @.n)]

CleanOne(s) ==
    /\ At(s, "clean") /\ task[Visited(s)].freeGc
    /\ IF task[Visited(s)].valid /\ canUpdate
         THEN /\ Goto(s, "stats")
              /\ counted' = [counted EXCEPT ![task[Visited(s)].tx] = @ + 1]
              /\ UNCHANGED <<task, pool, gc>>
         ELSE Recycle(s) /\ UNCHANGED counted
    /\ UNCHANGED <<setup, shared, txs, completed, canUpdate, row, main, shutdown, dropped>>

(* Mutant: the row is read without its lock.                               *)
StatsNoLock(s) ==
    LET x == task[Visited(s)].tx IN
    /\ At(s, "stats")
    /\ th' = [th EXCEPT ![s].pc = "update", ![s].b = row[x].count]
    /\ UNCHANGED <<task, pool, shared, gc, setup, txs, completed, canUpdate, row, main,
                   shutdown, dropped, counted>>

(* StatsUpdate: the row is read under its lock, and written back.          *)
StatsLock(s) ==
    LET x == task[Visited(s)].tx IN
    /\ At(s, "stats") /\ row[x].lock = NONE
    /\ row' = [row EXCEPT ![x].lock = s]
    /\ th' = [th EXCEPT ![s].pc = "update", ![s].b = row[x].count]
    /\ UNCHANGED <<task, pool, shared, gc, setup, txs, completed, canUpdate, main,
                   shutdown, dropped, counted>>

StatsUpdate(s) ==
    LET x == task[Visited(s)].tx IN
    /\ At(s, "update")
    /\ row' = [row EXCEPT ![x] = [lock |-> NONE, count |-> th[s].b + 1]]
    /\ Recycle(s)
    /\ UNCHANGED <<shared, setup, txs, completed, canUpdate, main, shutdown, dropped, counted>>

(* Every request was received: the first server to get here switches the   *)
(* statistics off; each recycles until its list is empty, then exits.      *)
DisableUpdate(s) ==
    /\ At(s, "loop") /\ txs[s] = 0
    /\ canUpdate' = FALSE
    /\ Goto(s, "drain")
    /\ UNCHANGED <<task, pool, shared, gc, setup, txs, completed, row, main, shutdown,
                   dropped, counted>>

Drain(s) ==
    /\ At(s, "drain")
    /\ th' = [th EXCEPT ![s] = IF gc[s] = <<>> THEN [AtLoop EXCEPT !.pc = "exited"]
                               ELSE Walk(gc[s], 1, 1)]
    /\ UNCHANGED <<task, pool, shared, gc, others>>

-----------------------------------------------------------------------------
(* Lists with two locks.  A failed trylock on the first lock repeats the   *)
(* loop; a failed one on the second releases the first.                    *)

L(x) == list[th[x].p]
ListStep(x, l) == list' = [list EXCEPT ![th[x].p] = l]
LockVars == <<nbb, gc, pool, others>>

(* How many locks the counter asks for.                                    *)
NeedsBoth(count) == count = 1

InsertTail(s) ==
    /\ At(s, "i_tail") /\ L(s).tl = NONE
    /\ ListStep(s, [L(s) EXCEPT !.tl = s])
    /\ Goto(s, "i_count")
    /\ UNCHANGED <<task, LockVars>>

InsertCount(s) ==
    /\ At(s, "i_count")
    /\ th' = [th EXCEPT ![s].pc = IF NeedsBoth(L(s).count) THEN "i_head" ELSE "i_link",
                        ![s].n = 1]
    /\ UNCHANGED <<task, list, LockVars>>

InsertHead(s) ==
    /\ At(s, "i_head")
    /\ IF L(s).hl = NONE
         THEN /\ ListStep(s, [L(s) EXCEPT !.hl = s])
              /\ th' = [th EXCEPT ![s].pc = "i_link", ![s].n = 2]
         ELSE /\ ListStep(s, [L(s) EXCEPT !.tl = NONE])
              /\ th' = [th EXCEPT ![s].pc = "i_tail", ![s].n = 0]
    /\ UNCHANGED <<task, LockVars>>

(* The new task becomes the head of an empty list, or follows the tail.  A *)
(* tail cleared in the meantime is a null pointer.                         *)
InsertLink(s) ==
    /\ At(s, "i_link")
    /\ IF L(s).head = NONE
         THEN ListStep(s, [L(s) EXCEPT !.head = th[s].t]) /\ Goto(s, "i_last") /\ UNCHANGED task
         ELSE Goto(s, "i_next") /\ UNCHANGED <<list, task>>
    /\ UNCHANGED LockVars

InsertNext(s) ==
    /\ At(s, "i_next")
    /\ IF L(s).tail = NONE
         THEN Goto(s, "crashed") /\ UNCHANGED task
         ELSE task' = [task EXCEPT ![L(s).tail].next = th[s].t] /\ Goto(s, "i_last")
    /\ UNCHANGED <<list, LockVars>>

InsertLast(s) ==
    /\ At(s, "i_last")
    /\ ListStep(s, [L(s) EXCEPT !.tail = th[s].t])
    /\ Goto(s, "i_add")
    /\ UNCHANGED <<task, LockVars>>

InsertAdd(s) ==
    /\ At(s, "i_add")
    /\ ListStep(s, [L(s) EXCEPT !.count = @ + 1])
    /\ Goto(s, IF L(s).count = 0 THEN "i_bit" ELSE "i_unlock")
    /\ UNCHANGED <<task, LockVars>>

InsertBit(s) ==
    /\ At(s, "i_bit")
    /\ ListStep(s, [L(s) EXCEPT !.bit = TRUE])
    /\ Goto(s, "i_unlock")
    /\ UNCHANGED <<task, LockVars>>

InsertUnlock(s) ==
    /\ At(s, "i_unlock")
    /\ ListStep(s, [L(s) EXCEPT !.hl = IF th[s].n = 2 THEN NONE ELSE @, !.tl = NONE])
    /\ th' = [th EXCEPT ![s] = Walk(gc[s], 1, 0)]
    /\ UNCHANGED <<task, LockVars>>

(* RemoveHighestPriorityTask: the next lower priority; after the last one  *)
(* the worker stops if the pool is shutting down, or starts over.          *)
NextLower(w) ==
    IF th[w].p > 0 THEN [Idle EXCEPT !.p = th[w].p - 1]
    ELSE IF shutdown THEN [Idle EXCEPT !.pc = "exited"] ELSE Idle

CheckBit(w) ==
    /\ At(w, "scan") /\ setup.build = "locks"
    /\ th' = [th EXCEPT ![w] = IF L(w).bit THEN [@ EXCEPT !.pc = "r_head"] ELSE NextLower(w)]
    /\ UNCHANGED <<task, list, LockVars>>

RemoveHead(w) ==
    /\ At(w, "r_head") /\ L(w).hl = NONE
    /\ ListStep(w, [L(w) EXCEPT !.hl = w])
    /\ Goto(w, "r_count")
    /\ UNCHANGED <<task, LockVars>>

RemoveCount(w) ==
    /\ At(w, "r_count")
    /\ th' = [th EXCEPT ![w].pc = IF NeedsBoth(L(w).count) THEN "r_tail" ELSE "r_first",
                        ![w].n = 1]
    /\ UNCHANGED <<task, list, LockVars>>

RemoveTail(w) ==
    /\ At(w, "r_tail")
    /\ IF L(w).tl = NONE
         THEN /\ ListStep(w, [L(w) EXCEPT !.tl = w])
              /\ th' = [th EXCEPT ![w].pc = "r_first", ![w].n = 2]
         ELSE /\ ListStep(w, [L(w) EXCEPT !.hl = NONE])
              /\ th' = [th EXCEPT ![w].pc = "r_head", ![w].n = 0]
    /\ UNCHANGED <<task, LockVars>>

(* The head is read, with its successor: an empty list releases the locks. *)
TakeFirst(w) ==
    /\ At(w, "r_first")
    /\ IF L(w).head = NONE THEN Goto(w, "r_unlock")
       ELSE th' = [th EXCEPT ![w].pc = "r_move", ![w].t = L(w).head,
                            ![w].v = task[L(w).head].next]
    /\ UNCHANGED <<task, list, LockVars>>

RemoveMove(w) ==
    /\ At(w, "r_move")
    /\ ListStep(w, [L(w) EXCEPT !.head = th[w].v])
    /\ Goto(w, "r_cut")
    /\ UNCHANGED <<task, LockVars>>

RemoveCut(w) ==
    /\ At(w, "r_cut")
    /\ ListStep(w, [L(w) EXCEPT !.tail = IF th[w].v = NONE THEN NONE ELSE @])
    /\ task' = [task EXCEPT ![th[w].t].next = NONE]
    /\ th' = [th EXCEPT ![w].pc = "r_sub", ![w].v = 0]
    /\ UNCHANGED LockVars

RemoveSub(w) ==
    /\ At(w, "r_sub")
    /\ ListStep(w, [L(w) EXCEPT !.count = @ - 1])
    /\ Goto(w, IF L(w).count = 1 THEN "r_bit" ELSE "r_unlock")
    /\ UNCHANGED <<task, LockVars>>

(* Mutant: the bit of a list that becomes empty stays set.                 *)
LeavesBit(w) ==
    /\ At(w, "r_bit")
    /\ Goto(w, "r_unlock")
    /\ UNCHANGED <<task, list, LockVars>>

RemoveBit(w) ==
    /\ At(w, "r_bit")
    /\ ListStep(w, [L(w) EXCEPT !.bit = FALSE])
    /\ Goto(w, "r_unlock")
    /\ UNCHANGED <<task, LockVars>>

Taken(w) == [Idle EXCEPT !.pc = "run", !.t = th[w].t]

RemoveUnlock(w) ==
    /\ At(w, "r_unlock")
    /\ ListStep(w, [L(w) EXCEPT !.tl = IF th[w].n = 2 THEN NONE ELSE @, !.hl = NONE])
    /\ th' = [th EXCEPT ![w] = IF th[w].t = NONE THEN NextLower(w) ELSE Taken(w)]
    /\ UNCHANGED <<task, LockVars>>

-----------------------------------------------------------------------------
(* The lock-free ring.  a is the position a thread has reached (mytail,    *)
(* myhead), b the counter value it started from, v the node id.            *)

Q(x) == nbb[th[x].p]
RingStep(x, q) == nbb' = [nbb EXCEPT ![th[x].p] = q]
RingVars == <<list, gc, task, pool, others>>
Entry(x) == Q(x).entries[th[x].a % PoolSize]
Lap(x) == th[x].a \div PoolSize

(* mem_node_acquire: the first free bit, taken with a compare-and-swap     *)
(* that fails if any bit of the word moved.  No bit free: a null node.     *)
NodeAcquire(s) ==
    /\ At(s, "n_acquire")
    /\ IF Q(s).busy = Nodes THEN Goto(s, "crashed") /\ UNCHANGED nbb
       ELSE LET x == CHOOSE i \in Nodes \ Q(s).busy : \A j \in Nodes \ Q(s).busy : i <= j IN
            /\ RingStep(s, [Q(s) EXCEPT !.busy = @ \cup {x}, !.payload[x] = th[s].t])
            /\ th' = [th EXCEPT ![s].pc = "n_load", ![s].v = x]
    /\ UNCHANGED RingVars

RingLoad(x, counter, next) ==
    /\ th' = [th EXCEPT ![x].pc = next, ![x].a = counter, ![x].b = counter]
    /\ UNCHANGED <<nbb, RingVars>>

LoadTail(s) == At(s, "n_load") /\ RingLoad(s, Q(s).tail, "n_scan")
LoadHead(w) == At(w, "scan") /\ setup.build = "nbb" /\ RingLoad(w, Q(w).head, "q_scan")

(* nbb_list_insert: the first slot free in this lap; a slot that still     *)
(* holds the value of the lap before means the ring is full, and the       *)
(* caller tries again.                                                     *)
ScanTail(s) ==
    LET free == Entry(s).val = 0 /\ Entry(s).ver = Lap(s)
        full == Entry(s).val # 0 /\ Entry(s).ver = Lap(s) IN
    /\ At(s, "n_scan")
    /\ th' = [th EXCEPT ![s].pc = IF free THEN "n_cas" ELSE IF full THEN "n_load" ELSE @,
                        ![s].a = IF free \/ full THEN @ ELSE @ + 1]
    /\ UNCHANGED <<nbb, RingVars>>

CasTail(s) ==
    /\ At(s, "n_cas")
    /\ IF Entry(s) = [ver |-> Lap(s), val |-> 0]
         THEN /\ RingStep(s, [Q(s) EXCEPT !.entries[th[s].a % PoolSize] =
                                 [ver |-> Lap(s) + 1, val |-> th[s].v]])
              /\ Goto(s, "n_advance")
         ELSE Goto(s, "n_load") /\ UNCHANGED nbb
    /\ UNCHANGED RingVars

(* Nobody else may have advanced the counter further.                      *)
Advance(x, counter) ==
    IF th[x].a + 1 > th[x].b /\ counter # th[x].b THEN "again"
    ELSE IF th[x].a + 1 > th[x].b THEN "swap" ELSE "done"

AdvanceTail(s) ==
    /\ At(s, "n_advance")
    /\ LET r == Advance(s, Q(s).tail) IN
       /\ nbb' = IF r = "swap" THEN [nbb EXCEPT ![th[s].p].tail = th[s].a + 1] ELSE nbb
       /\ th' = [th EXCEPT ![s] = IF r = "again" THEN [@ EXCEPT !.b = Q(s).tail] ELSE Walk(gc[s], 1, 0)]
    /\ UNCHANGED RingVars

(* nbb_list_remove: the first slot filled in this lap; a slot this lap has *)
(* not filled yet means the ring is empty.                                 *)
ScanHead(w) ==
    LET found == Entry(w).val # 0 /\ Entry(w).ver = Lap(w) + 1
        empty == Entry(w).val = 0 /\ Entry(w).ver = Lap(w) IN
    /\ At(w, "q_scan")
    /\ th' = [th EXCEPT ![w] =
          IF found THEN [@ EXCEPT !.pc = "q_cas", !.v = Entry(w).val]
          ELSE IF empty THEN NextLower(w) ELSE [@ EXCEPT !.a = @ + 1]]
    /\ UNCHANGED <<nbb, RingVars>>

CasHead(w) ==
    /\ At(w, "q_cas")
    /\ IF Entry(w) = [ver |-> Lap(w) + 1, val |-> th[w].v]
         THEN /\ RingStep(w, [Q(w) EXCEPT !.entries[th[w].a % PoolSize].val = 0])
              /\ Goto(w, "q_advance")
         ELSE th' = [th EXCEPT ![w].pc = "scan", ![w].v = 0] /\ UNCHANGED nbb
    /\ UNCHANGED RingVars

AdvanceHead(w) ==
    /\ At(w, "q_advance")
    /\ LET r == Advance(w, Q(w).head) IN
       /\ nbb' = IF r = "swap" THEN [nbb EXCEPT ![th[w].p].head = th[w].a + 1] ELSE nbb
       /\ th' = [th EXCEPT ![w] = IF r = "again" THEN [@ EXCEPT !.b = Q(w).head]
                                  ELSE [@ EXCEPT !.pc = "q_free", !.a = 0, !.b = 0,
                                                 !.t = Q(w).payload[th[w].v]]]
    /\ UNCHANGED RingVars

(* mem_node_release: the bit is cleared first; the payload is cleared only *)
(* if the node was not taken again meanwhile.                              *)
NodeRelease(w) ==
    /\ At(w, "q_free")
    /\ RingStep(w, [Q(w) EXCEPT !.busy = @ \ {th[w].v}])
    /\ Goto(w, "q_clear")
    /\ UNCHANGED RingVars

(* Mutant: the payload is cleared whoever owns the node by now.            *)
ClearedBlindly(payload, x, t) == [payload EXCEPT ![x] = NONE]


Cleared(payload, x, t) == [payload EXCEPT ![x] = IF @ = t THEN NONE ELSE @]

NodeClear(w) ==
    /\ At(w, "q_clear")
    /\ RingStep(w, [Q(w) EXCEPT !.payload = Cleared(@, th[w].v, th[w].t)])
    /\ th' = [th EXCEPT ![w] = Taken(w)]
    /\ UNCHANGED RingVars

-----------------------------------------------------------------------------
(* Workers.  A request whose arguments are missing, or whose profile is    *)
(* not compiled in, is dropped without being counted.                      *)

(* Mutant: the task is released when its transaction ends, before the      *)
(* worker lets it go.                                                      *)
RunReleases(w) ==
    /\ At(w, "run")
    /\ completed' = IF task[th[w].t].ok THEN completed + 1 ELSE completed
    /\ task' = [task EXCEPT ![th[w].t].valid = TRUE, ![th[w].t].freeGc = TRUE]
    /\ Goto(w, "ran")
    /\ UNCHANGED <<pool, shared, gc, setup, txs, canUpdate, row, main, shutdown, dropped,
                   counted>>


worker_runMethod(w) ==
    /\ At(w, "run")
    /\ completed' = IF task[th[w].t].ok THEN completed + 1 ELSE completed
    /\ task' = [task EXCEPT ![th[w].t].valid = TRUE]
    /\ Goto(w, "ran")
    /\ UNCHANGED <<pool, shared, gc, setup, txs, canUpdate, row, main, shutdown, dropped,
                   counted>>

(* The last store to a task by its worker.                                 *)
Release(w) ==
    /\ At(w, "ran")
    /\ task' = [task EXCEPT ![th[w].t].freeGc = TRUE]
    /\ th' = [th EXCEPT ![w] = Idle]
    /\ UNCHANGED <<pool, shared, gc, others>>

-----------------------------------------------------------------------------
(* The main thread.                                                        *)

MainVars == <<setup, task, pool, list, nbb, th, gc, txs, completed, dropped, counted>>
Busy == completed < Total

EnableUpdate ==
    /\ main.pc = "loop" /\ Busy /\ ~ main.enabled /\ completed >= setup.enableAt
    /\ canUpdate' = TRUE
    /\ main' = [main EXCEPT !.enabled = TRUE]
    /\ UNCHANGED <<MainVars, row, shutdown>>

PrintStarts ==
    /\ main.pc = "loop" /\ Busy /\ main.enabled /\ ~ main.printed /\ ~ canUpdate
    /\ main' = [main EXCEPT !.pc = "print", !.i = 1]
    /\ UNCHANGED <<MainVars, canUpdate, row, shutdown>>

(* StatsPrint takes the locks of all the rows but the last.                *)
Locked == 1 .. NumPrio - 1

PrintLock ==
    /\ main.pc = "print" /\ main.i \in Locked /\ row[main.i].lock = NONE
    /\ row' = [row EXCEPT ![main.i].lock = "main"]
    /\ main' = [main EXCEPT !.i = @ + 1]
    /\ UNCHANGED <<MainVars, canUpdate, shutdown>>

(* ... and releases the locks of all the rows.                             *)
PrintUnlock ==
    /\ main.pc = "print" /\ main.i \notin Locked
    /\ row' = [x \in Profiles |-> [row[x] EXCEPT !.lock = NONE]]
    /\ main' = [main EXCEPT !.pc = "loop", !.printed = TRUE, !.i = 1]
    /\ UNCHANGED <<MainVars, canUpdate, shutdown>>

(* shutdownPoolMemory: join the servers, tell the workers to stop and join *)
(* them, wait for the lists to be empty, free everything.                  *)
Exited(S) == \A x \in S : At(x, "exited")


JoinServers ==
    /\ main.pc = "loop" /\ ~ Busy /\ Exited(Servers)
    /\ shutdown' = TRUE
    /\ main' = [main EXCEPT !.pc = "join"]
    /\ UNCHANGED <<MainVars, canUpdate, row>>

JoinWorkers ==
    /\ main.pc = "join" /\ Exited(Workers)
    /\ setup.build = "locks" => \A p \in Prios : list[p].count <= 0
    /\ main' = [main EXCEPT !.pc = "halted"]
    /\ canUpdate' = FALSE
    /\ UNCHANGED <<MainVars, row, shutdown>>

-----------------------------------------------------------------------------
Insert(s) ==
    \/ InsertTail(s) \/ InsertCount(s) \/ InsertHead(s) \/ InsertLink(s) \/ InsertNext(s)
    \/ InsertLast(s) \/ InsertAdd(s) \/ InsertBit(s) \/ InsertUnlock(s)
    \/ NodeAcquire(s) \/ LoadTail(s) \/ ScanTail(s) \/ CasTail(s) \/ AdvanceTail(s)

Clean(s) == Skip(s) \/ CleanOne(s) \/ StatsLock(s) \/ StatsUpdate(s)

Server(s) ==
    \/ server_runMethod(s) \/ WaitForTask(s) \/ Insert(s) \/ Clean(s)
    \/ DisableUpdate(s) \/ Drain(s)

Take(w) ==
    \/ CheckBit(w) \/ RemoveHead(w) \/ RemoveCount(w) \/ RemoveTail(w) \/ TakeFirst(w)
    \/ RemoveMove(w) \/ RemoveCut(w) \/ RemoveSub(w) \/ RemoveBit(w) \/ RemoveUnlock(w)
    \/ LoadHead(w) \/ ScanHead(w) \/ CasHead(w) \/ AdvanceHead(w)
    \/ NodeRelease(w) \/ NodeClear(w)

Worker(w) == Take(w) \/ worker_runMethod(w) \/ Release(w)

Main == EnableUpdate \/ PrintStarts \/ PrintLock \/ PrintUnlock \/ JoinServers \/ JoinWorkers

Next == (\E s \in Servers : Server(s)) \/ (\E w \in Workers : Worker(w)) \/ Main

(* The kernel runs every thread.  That says nothing about a spin lock that *)
(* is free now and then: the liveness properties are about the lock-free   *)
(* lists, where the only locks are those of the statistics.                *)
Fairness ==
    /\ \A s \in Servers : WF_vars(Server(s))
    /\ \A w \in Workers : WF_vars(Worker(w))
    /\ WF_vars(Main)

Spec == Init /\ [][Next]_vars /\ Fairness

-----------------------------------------------------------------------------
(* The tasks reachable from a list's head.                                 *)
Chain(p) ==
    LET walk[n \in 0 .. PoolSize] ==
          IF n = 0 THEN <<>>
          ELSE LET q == walk[n - 1]
                   x == IF q = <<>> THEN list[p].head ELSE task[Last(q)].next IN
               IF x = NONE \/ Len(q) < n - 1 THEN q ELSE Append(q, x)
    IN walk[PoolSize]

(* The tasks of the filled slots of a ring, in the order of the positions. *)
Ring(p) ==
    LET q == nbb[p]
        filled == {i \in 0 .. Total : /\ q.entries[i % PoolSize].val # 0
                                      /\ q.entries[i % PoolSize].ver = (i \div PoolSize) + 1}
    IN [k \in 1 .. Cardinality(filled) |->
          LET i == CHOOSE j \in filled : Cardinality({m \in filled : m < j}) = k - 1
          IN q.payload[q.entries[i % PoolSize].val]]

Queue(p) == IF setup.build = "locks" THEN Chain(p) ELSE Ring(p)

(* Each priority's list behaves as a FIFO queue: a step of the code        *)
(* appends one task at the end, or takes the first, or leaves the queue    *)
(* alone, whatever threads are in the middle of an insertion or a removal  *)
(* (InsertTaskWithPriority, RemoveTaskFromPriority, nbb_list_insert,       *)
(* nbb_list_remove).                                                       *)
ListsAreFifo ==
    [][\A p \in Prios :
          \/ Queue(p)' = Queue(p)
          \/ \E t \in Tasks : Queue(p)' = Append(Queue(p), t)
          \/ Queue(p) # <<>> /\ Queue(p)' = Tail(Queue(p))]_vars

(* Every task is in one place only: the pool or the recycling list of one  *)
(* server; and a task of the pool is in no priority list and in no         *)
(* worker's hands, so a recycled task is never run or linked again         *)
(* (gc_clean, FreeTask, GetTask).                                          *)
OneOwner ==
    LET lists == {ToSet(gc[s]) : s \in Servers} \cup {ToSet(pool)} IN
    /\ UNION lists = Tasks
    /\ Len(pool) + Cardinality(UNION {ToSet(gc[s]) : s \in Servers}) = PoolSize
    /\ \A s \in Servers : Cardinality(ToSet(gc[s])) = Len(gc[s])
    /\ \A t \in ToSet(pool) :
          /\ \A p \in Prios : t \notin ToSet(Queue(p)) /\ list[p].head # t
          /\ \A x \in Threads : th[x].t # t

(* The workers find every task: when no thread is inside an operation on a *)
(* list, its bit of the bitmap tells whether it has a task, its counter    *)
(* how many, and its tail is the last of them.                             *)
Inside(p) == {x \in Threads : th[x].p = p /\ th[x].pc \notin {"scan", "loop", "clean"}}

BitmapTruthful ==
    setup.build = "locks" => \A p \in Prios : Inside(p) = {} =>
        /\ list[p].bit = (Chain(p) # <<>>)
        /\ list[p].count = Len(Chain(p))
        /\ Chain(p) # <<>> => list[p].tail = Last(Chain(p))

(* A task in a list is found by some worker: once no operation on the list *)
(* is under way, the bit of a list that holds a task is set.  Nothing sets *)
(* it later: an insertion does so only into a list that was empty.         *)
TaskFindable ==
    \A p \in Prios : setup.build = "locks" /\ Inside(p) = {} /\ Chain(p) # <<>> => list[p].bit

(* No allocation of a node fails and no link goes through a null tail.     *)
NobodyCrashes == \A x \in Threads : th[x].pc # "crashed"

(* Every row of the statistics but the last counts each task that passed   *)
(* the can_update test, once it was recycled.  (The last row's lock is     *)
(* released by StatsPrint while a server may hold it.)                     *)
StatsExact ==
    \A x \in Locked :
        counted[x] = row[x].count + Cardinality({s \in Servers :
            th[s].pc \in {"stats", "update"} /\ task[Visited(s)].tx = x})

(* When main has shut the server down, every task is back in the pool and  *)
(* no request is left in a list.                                           *)
CleanShutdown ==
    main.pc = "halted" => Len(pool) = PoolSize /\ \A p \in Prios : Queue(p) = <<>>

(* With the lock-free lists every I/O thread finishes: its requests find a *)
(* task sooner or later and all its tasks are released and recycled, the   *)
(* malformed ones included.                                                *)
ServersFinish == setup.build = "nbb" => <>Exited(Servers)

(* With the lock-free lists, if every request is well formed, main's wait  *)
(* for txs_total completed transactions ends and the server shuts down.    *)
ServerHalts == setup.build = "nbb" => <>(dropped \/ main.pc = "halted")

(* A run of the server is clean: nobody crashes, the printed statistics are *)
(* those of the tasks executed, and nothing is left over at the end.        *)
CleanRun == NobodyCrashes /\ StatsExact /\ CleanShutdown
=============================================================================
