-------------------------------- MODULE Gc --------------------------------
(***************************************************************************)
(* The epoch-based collector (tinySTM/src/gc.c) and the code that hands it *)
(* blocks: mod_mem's commit callback, the growth of a write set, and the   *)
(* exit of a thread (stm.c, built with EPOCH_GC).  The STM core is reduced *)
(* to what the collector sees: a transaction reads the clock when it       *)
(* starts, publishes it as its epoch, may then pick up pointers to blocks, *)
(* and an update transaction advances the clock and unlinks a block.       *)
(*                                                                         *)
(* One step is one access to a slot another thread may touch: the scan of  *)
(* gc_compute_min reads one word at a time while threads register, start   *)
(* and leave.  A thread's region list is private to it except for          *)
(* gc_reset, so appending to it is one step and the two halves of a pop    *)
(* (free the blocks, unlink the region) are two.                           *)
(***************************************************************************)
EXTENDS Integers, Sequences, FiniteSetsExt, SequencesExt

CONSTANTS
  Thread,        \* the threads of the program
  Block,         \* the blocks of memory malloc can return
  Slots,         \* MAX_GC_THREADS
  MaxClock,      \* VERSION_MAX: the clock value at which it is rolled over
  EpochMax,      \* EPOCH_MAX, larger than every clock value
  Uses           \* the combinations of uses to consider

\* The uses a program makes of the collector.
AllUses == {"unlink", "grow", "peek", "exit", "rollover"}

ASSUME GcAssumption ==
  /\ Slots \in Nat \ {0} /\ MaxClock \in Nat /\ EpochMax \in Nat
  /\ MaxClock < EpochMax
  /\ IsFiniteSet(Thread) /\ Cardinality(Thread) <= Slots
  /\ Uses \subseteq SUBSET AllUses

VARIABLES
  use,           \* the uses this program makes (never changes)
  clock,         \* the global version clock
  slots,         \* gc_threads.slots
  nb_active,     \* gc_threads.nb_active
  th,            \* per thread: program counter, registers, pointers it holds
  root,          \* the block the shared structure points to
  free           \* the blocks given back to malloc

gcVars == <<use, clock, slots, nb_active, th, root, free>>

Slot == 1..Slots

GcNull == "GC_NULL"
GcBusy == "GC_BUSY"
GcFreeEmpty == "GC_FREE_EMPTY"
GcFreeFull == "GC_FREE_FULL"

\* A slot as gc_init leaves it.
EmptySlot == [used |-> GcNull, ts |-> EpochMax, head |-> <<>>]

\* A thread that has not registered.  idx: gc_thread_idx; i, min: locals of
\* the loops; used: the value the CAS expects; start: tx->start; holds: the
\* pointers the transaction has picked up; own: the thread's write set (and
\* descriptor); victim, epoch, ret: arguments and return point of gc_free.
NewThread == [pc |-> "off", idx |-> 0, i |-> 1, min |-> 0, used |-> GcNull,
              start |-> 0, holds |-> {}, own |-> {}, victim |-> {},
              epoch |-> 0, ret |-> "off"]

GcInit ==
  /\ use \in Uses
  /\ clock = 0
  /\ slots = [s \in Slot |-> EmptySlot]
  /\ nb_active = 0
  /\ th = [t \in Thread |-> NewThread]
  /\ root \in Block
  /\ free = Block \ {root}

\* The thread has entered the quiescence list and not left it.
Listed(t) == th[t].pc \notin {"off", "find", "cas", "enter", "leaving",
                              "leave", "release"}
             /\ th[t].ret # "leave"

Next1(i) == (i % Slots) + 1

----------------------------------------------------------------------------
(* gc_init_thread and the rest of stm_init_thread. *)

GcInitThread(t) ==
  /\ th[t].pc = "off"
  /\ nb_active' = nb_active + 1
  /\ th' = [th EXCEPT ![t].pc = "find", ![t].i = 1]
  /\ UNCHANGED <<use, clock, slots, root, free>>

FindSlot(t) ==
  /\ th[t].pc = "find"
  /\ LET used == slots[th[t].i].used IN
     th' = IF used = GcBusy
             THEN [th EXCEPT ![t].i = Next1(@)]
             ELSE [th EXCEPT ![t].pc = "cas", ![t].used = used]
  /\ UNCHANGED <<use, clock, slots, nb_active, root, free>>

\* The compare-and-swap of the slot's state succeeds.
CasSucceeds(t) == slots[th[t].i].used = th[t].used

CasSlot(t) ==
  /\ th[t].pc = "cas"
  /\ IF CasSucceeds(t)
       THEN /\ slots' = [slots EXCEPT ![th[t].i].used = GcBusy]
            /\ th' = [th EXCEPT ![t].pc = "enter", ![t].idx = th[t].i]
       ELSE /\ th' = [th EXCEPT ![t].pc = "find", ![t].i = Next1(@)]
            /\ UNCHANGED slots
  /\ UNCHANGED <<use, clock, nb_active, root, free>>

\* The slot's lower bound is set; then the descriptor and its sets are
\* allocated and the thread enters the quiescence list.
EnterThread(t) ==
  /\ th[t].pc = "enter"
  /\ slots' = [slots EXCEPT ![th[t].idx].ts = clock]
  /\ \E b \in free :
       /\ free' = free \ {b}
       /\ th' = [th EXCEPT ![t].pc = "idle", ![t].own = {b}]
  /\ UNCHANGED <<use, clock, nb_active, root>>

----------------------------------------------------------------------------
(* Transactions. *)

\* stm_prepare reads the clock ...
Prepare(t) ==
  /\ th[t].pc = "idle"
  /\ clock < MaxClock
  /\ th' = [th EXCEPT ![t].pc = "prepared", ![t].start = clock]
  /\ UNCHANGED <<use, clock, slots, nb_active, root, free>>

\* ... and publishes it: gc_set_epoch.
GcSetEpoch(t) ==
  /\ th[t].pc = "prepared"
  /\ slots' = [slots EXCEPT ![th[t].idx].ts = th[t].start]
  /\ th' = [th EXCEPT ![t].pc = "tx"]
  /\ UNCHANGED <<use, clock, nb_active, root, free>>

\* gc_reset for one slot that has ever been used.
ResetSlot(s) == [slots[s] EXCEPT !.ts = EpochMax, !.head = <<>>]

\* The blocks of a list of regions.
BlocksOf(regions) == UNION {regions[r].blocks : r \in DOMAIN regions}

\* The slots gc_reset reaches: it stops at the first one never used.
Reached == {s \in Slot : \A r \in 1..s : slots[r].used # GcNull}

\* The clock is exhausted and every listed thread waits in the barrier: the
\* last one resets the clock and the collector (rollover_clock, gc_reset).
Rollover(t) ==
  /\ "rollover" \in use
  /\ th[t].pc = "idle"
  /\ clock = MaxClock
  /\ \A u \in Thread : Listed(u) => th[u].pc = "idle"
  /\ clock' = 0
  /\ slots' = [s \in Slot |-> IF s \in Reached THEN ResetSlot(s) ELSE slots[s]]
  /\ free' = free \cup UNION {BlocksOf(slots[s].head) : s \in Reached}
  /\ UNCHANGED <<use, nb_active, th, root>>

\* A transactional load returns a pointer to the block in the structure.
ReadRoot(t) ==
  /\ "unlink" \in use
  /\ th[t].pc = "tx"
  /\ root \notin th[t].holds
  /\ th' = [th EXCEPT ![t].holds = @ \cup {root}]
  /\ UNCHANGED <<use, clock, slots, nb_active, root, free>>

\* CM_MODULAR: a conflict leaves the transaction with a pointer to an entry
\* of the write set of the lock's owner.
Peek(t, u) ==
  /\ "peek" \in use
  /\ t # u
  /\ th[t].pc = "tx" /\ th[u].pc = "tx"
  /\ ~ th[u].own \subseteq th[t].holds
  /\ th' = [th EXCEPT ![t].holds = @ \cup th[u].own]
  /\ UNCHANGED <<use, clock, slots, nb_active, root, free>>

\* The transaction aborts, or commits without having written.
EndTx(t) ==
  /\ th[t].pc = "tx"
  /\ th' = [th EXCEPT ![t].pc = "idle", ![t].holds = {}]
  /\ UNCHANGED <<use, clock, slots, nb_active, root, free>>

\* An update transaction replaces the block of the structure by one it
\* allocated; its commit takes the next clock value.
Unlink(t) ==
  /\ "unlink" \in use
  /\ th[t].pc = "tx"
  /\ clock < MaxClock
  /\ clock' = clock + 1
  /\ \E b \in free :
       /\ free' = free \ {b}
       /\ root' = b
  /\ th' = [th EXCEPT ![t].pc = "committed", ![t].holds = {},
                      ![t].victim = {root}]
  /\ UNCHANGED <<use, slots, nb_active>>

\* mod_mem_on_commit reads the clock and hands over the blocks.
OnCommit(t) ==
  /\ th[t].pc = "committed"
  /\ th' = [th EXCEPT ![t].pc = "free", ![t].epoch = clock, ![t].ret = "idle"]
  /\ UNCHANGED <<use, clock, slots, nb_active, root, free>>

\* stm_allocate_ws_entries moves the entries and hands over the old array,
\* with the start of the transaction for its epoch.
Grow(t) ==
  /\ "grow" \in use
  /\ th[t].pc = "tx"
  /\ \E b \in free :
       /\ free' = free \ {b}
       /\ th' = [th EXCEPT ![t].pc = "free", ![t].own = {b},
                           ![t].victim = th[t].own,
                           ![t].epoch = th[t].start, ![t].ret = "tx"]
  /\ UNCHANGED <<use, clock, slots, nb_active, root>>

----------------------------------------------------------------------------
(* gc_free and the cleanup it ends with (CLEANUP_FREQUENCY is 1). *)

Regions(t) == slots[th[t].idx].head

\* The region list after gc_free(victim, epoch).
Appended(regions, blocks, epoch) ==
  IF regions = <<>> \/ regions[1].ts < epoch
    THEN Append(regions, [ts |-> epoch, blocks |-> blocks])
    ELSE [regions EXCEPT ![1].blocks = @ \cup blocks]

GcFree(t) ==
  /\ th[t].pc = "free"
  /\ slots' = [slots EXCEPT ![th[t].idx].head =
                 Appended(@, th[t].victim, th[t].epoch)]
  /\ th' = [th EXCEPT ![t].pc = "scan", ![t].victim = {},
                      ![t].min = clock, ![t].i = 1]
  /\ UNCHANGED <<use, clock, nb_active, root, free>>

\* gc_compute_min loads the state of slot i.
ScanUsed(t) ==
  /\ th[t].pc = "scan"
  /\ th' = IF th[t].i > Slots \/ slots[th[t].i].used = GcNull
             THEN [th EXCEPT ![t].pc = "pop"]
           ELSE IF slots[th[t].i].used # GcBusy
             THEN [th EXCEPT ![t].i = @ + 1]
           ELSE [th EXCEPT ![t].pc = "scanTs"]
  /\ UNCHANGED <<use, clock, slots, nb_active, root, free>>

LowerNever(min, ts) == min

\* The new minimum after seeing a busy slot's epoch.
Lower(min, ts) == IF ts < min THEN ts ELSE min

ScanTs(t) ==
  /\ th[t].pc = "scanTs"
  /\ th' = [th EXCEPT ![t].pc = "scan", ![t].i = @ + 1,
                      ![t].min = Lower(@, slots[th[t].i].ts)]
  /\ UNCHANGED <<use, clock, slots, nb_active, root, free>>

\* gc_cleanup_thread: there is a head region older than every transaction.
Old(regions, min) == \E r \in {1} \cap DOMAIN regions : min > regions[r].ts

CleanBlocks(t) ==
  /\ th[t].pc = "pop"
  /\ Old(Regions(t), th[t].min)
  /\ free' = free \cup Regions(t)[1].blocks
  /\ th' = [th EXCEPT ![t].pc = "popped"]
  /\ UNCHANGED <<use, clock, slots, nb_active, root>>

\* The list after its head has been freed.
WithoutHead(regions) == IF regions = <<>> THEN <<>> ELSE Tail(regions)

UnlinkRegion(t) ==
  /\ th[t].pc = "popped"
  /\ slots' = [slots EXCEPT ![th[t].idx].head = WithoutHead(@)]
  /\ th' = [th EXCEPT ![t].pc = "pop"]
  /\ UNCHANGED <<use, clock, nb_active, root, free>>

EndCleanup(t) ==
  /\ th[t].pc = "pop"
  /\ ~ Old(Regions(t), th[t].min)
  /\ th' = [th EXCEPT ![t].pc = th[t].ret]
  /\ UNCHANGED <<use, clock, slots, nb_active, root, free>>

----------------------------------------------------------------------------
(* stm_exit_thread and gc_exit_thread. *)

\* The thread leaves the quiescence list, then reads the clock ...
QuiesceExitThread(t) ==
  /\ "exit" \in use
  /\ th[t].pc = "idle"
  /\ th' = [th EXCEPT ![t].pc = "leaving"]
  /\ UNCHANGED <<use, clock, slots, nb_active, root, free>>

\* ... and hands over its descriptor and sets.
FreeDescriptor(t) ==
  /\ th[t].pc = "leaving"
  /\ th' = [th EXCEPT ![t].pc = "free", ![t].victim = th[t].own,
                      ![t].own = {}, ![t].epoch = clock, ![t].ret = "leave"]
  /\ UNCHANGED <<use, clock, slots, nb_active, root, free>>

GcExitThread(t) ==
  /\ th[t].pc = "leave"
  /\ slots' = [slots EXCEPT ![th[t].idx].ts = EpochMax]
  /\ th' = [th EXCEPT ![t].pc = "release"]
  /\ UNCHANGED <<use, clock, nb_active, root, free>>

\* The state a slot is released with.
ReleasedAs(regions) == IF regions = <<>> THEN GcFreeEmpty ELSE GcFreeFull

ReleaseSlot(t) ==
  /\ th[t].pc = "release"
  /\ slots' = [slots EXCEPT ![th[t].idx].used = ReleasedAs(Regions(t))]
  /\ nb_active' = nb_active - 1
  /\ th' = [th EXCEPT ![t] = NewThread]
  /\ UNCHANGED <<use, clock, root, free>>

----------------------------------------------------------------------------
GcNext ==
  \E t \in Thread :
    \/ GcInitThread(t) \/ FindSlot(t) \/ CasSlot(t) \/ EnterThread(t)
    \/ Prepare(t) \/ GcSetEpoch(t) \/ Rollover(t)
    \/ ReadRoot(t) \/ (\E u \in Thread : Peek(t, u)) \/ EndTx(t)
    \/ Unlink(t) \/ OnCommit(t) \/ Grow(t)
    \/ GcFree(t) \/ ScanUsed(t) \/ ScanTs(t)
    \/ CleanBlocks(t) \/ UnlinkRegion(t) \/ EndCleanup(t)
    \/ QuiesceExitThread(t) \/ FreeDescriptor(t)
    \/ GcExitThread(t) \/ ReleaseSlot(t)

GcSpec == GcInit /\ [][GcNext]_gcVars

----------------------------------------------------------------------------
(* Properties. *)

\* No transaction holds a pointer to a block that has been given back to
\* malloc: gc_cleanup_thread (gc.c:199) frees a region only when every
\* transaction that could have seen its blocks has ended, whatever registers,
\* starts, commits or leaves while gc_compute_min walks the slots.
NoUseAfterFree ==
  \A t \in Thread : th[t].holds \cap free = {}

\* The region t has freed and not yet unlinked holds no block any more.
RegionsOf(s) ==
  IF \E t \in Thread : th[t].pc = "popped" /\ th[t].idx = s
    THEN SubSeq(slots[s].head, 2, Len(slots[s].head)) ELSE slots[s].head

\* Every block is in exactly one place - the structure, a thread, one region
\* of one slot, or malloc - so none is freed twice or lost: also across the
\* exit of a thread, which leaves its regions to the next owner of the slot
\* (gc.c:323), and across gc_reset.
EachBlockOnce ==
  \A b \in Block :
    LET places == {<<"root">> : x \in {root} \cap {b}}
            \cup {<<"own", t>> : t \in {u \in Thread : b \in th[u].own}}
            \cup {<<"victim", t>> : t \in {u \in Thread : b \in th[u].victim}}
            \cup {<<"free">> : x \in free \cap {b}}
            \cup UNION {{<<s, r>> : r \in {q \in DOMAIN RegionsOf(s) :
                                             b \in RegionsOf(s)[q].blocks}}
                          : s \in Slot}
    IN Cardinality(places) = 1

\* Two registered threads never share a slot, and nb_active is at least the
\* number of busy slots, so a thread admitted by the test of nb_active
\* (gc.c:279) always finds a slot in the loop that follows.
SlotsExclusive ==
  /\ \A t, u \in Thread :
       t # u /\ th[t].idx # 0 /\ th[u].idx # 0 => th[t].idx # th[u].idx
  /\ Cardinality({s \in Slot : slots[s].used = GcBusy}) <= nb_active

\* The collector is safe: nothing freed is still in use, nothing is lost or
\* freed twice, and every thread has a slot of its own (gc.c).
CollectorSafe == NoUseAfterFree /\ EachBlockOnce /\ SlotsExclusive
=============================================================================
