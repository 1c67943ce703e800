------------------------------ MODULE GcProofs ------------------------------
(***************************************************************************)
(* The collector is safe for any number of threads, blocks and slots, any  *)
(* interleaving of the scan of gc_compute_min with threads that register,  *)
(* start, commit and leave, and any program that does not combine          *)
(*   - the exit of threads with clock roll-over (stm_exit_thread leaves    *)
(*     the quiescence list before it hands over its buffers), or           *)
(*   - the growth of write sets with pointers into the write sets of other *)
(*     transactions (the old entries are handed over with the epoch of the *)
(*     transaction that owns them, not of those that may see them).        *)
(***************************************************************************)
EXTENDS Gc, FiniteSetTheorems, SequenceTheorems, TLAPS

\* The programs the theorems are about.
SafeUses ==
  \A u \in Uses : ~ {"exit", "rollover"} \subseteq u /\ ~ {"grow", "peek"} \subseteq u

-----------------------------------------------------------------------------
(* The inductive invariant.                                                *)

Region == [ts : Nat, blocks : SUBSET Block]
SlotStates == {GcNull, GcBusy, GcFreeEmpty, GcFreeFull}

Cleaning == {"free", "scan", "scanTs", "pop", "popped"}
Pcs == {"off", "find", "cas", "enter", "idle", "prepared", "tx", "committed",
        "leaving", "leave", "release"} \cup Cleaning

GcType ==
  /\ use \in Uses
  /\ clock \in Nat
  /\ slots \in [Slot -> [used : SlotStates, ts : Nat, head : Seq(Region)]]
  /\ th \in [Thread -> [pc : Pcs, idx : 0..Slots, i : 1..(Slots + 1), min : Nat,
                        used : SlotStates, start : Nat, holds : SUBSET Block,
                        own : SUBSET Block, victim : SUBSET Block, epoch : Nat,
                        ret : {"off", "idle", "tx", "leave"}]]
  /\ root \in Block
  /\ free \in SUBSET Block

\* A busy slot has one owner; slots are taken in order, so those never used
\* come last, which is why gc_compute_min may stop at the first of them.
SlotInv ==
  /\ \A t \in Thread :
       /\ th[t].idx = 0 <=> th[t].pc \in {"off", "find", "cas"}
       /\ th[t].idx # 0 => slots[th[t].idx].used = GcBusy
       /\ th[t].pc = "cas" => /\ th[t].used # GcBusy
                              /\ th[t].used # GcNull => slots[th[t].i].used # GcNull
       /\ th[t].pc \in {"find", "cas"} =>
            th[t].i \in Slot /\ \A r \in Slot : r < th[t].i => slots[r].used # GcNull
  /\ \A t, u \in Thread : t # u /\ th[t].idx # 0 => th[t].idx # th[u].idx
  /\ \A s \in Slot : slots[s].used = GcBusy => \E t \in Thread : th[t].idx = s
  /\ \A s, r \in Slot : r < s /\ slots[s].used # GcNull => slots[r].used # GcNull
  /\ \A s \in Slot : slots[s].used = GcNull => slots[s].head = <<>>

CountInv == nb_active = Cardinality({t \in Thread : th[t].pc # "off"})

\* The thread is inside a transaction, perhaps in the cleanup that follows
\* the growth of its write set.
InTx(t) == th[t].pc = "tx" \/ (th[t].pc \in Cleaning /\ th[t].ret = "tx")

\* What a thread keeps at each stage, and what it has published.
Stage(t) ==
  /\ th[t].pc \in {"off", "find", "cas", "enter", "leave", "release"} => th[t].own = {}
  /\ th[t].pc \in Cleaning => th[t].ret # "off"
  /\ th[t].victim # {} => th[t].pc \in {"committed", "free"}
  /\ th[t].holds # {} => InTx(t)
  /\ InTx(t) => slots[th[t].idx].ts = th[t].start
  /\ InTx(t) \/ th[t].pc = "prepared" => th[t].start <= clock
  /\ th[t].ret = "leave" => th[t].pc \in Cleaning \cup {"leave", "release"}
  /\ th[t].pc \in Cleaning /\ th[t].ret = "leave" => th[t].own = {}
  /\ th[t].pc = "popped" => Regions(t) # <<>>
  /\ th[t].pc = "scanTs" => th[t].i \in Slot
  /\ "exit" \notin use => /\ th[t].pc \notin {"leaving", "leave", "release"}
                          /\ th[t].ret # "leave"

StageInv == \A t \in Thread : Stage(t)

\* Block b is in the place that k, x and r name, and in no other.
IsAt(b, k, x, r) ==
  /\ b = root <=> k = "root"
  /\ b \in free <=> k = "free"
  /\ \A t \in Thread : b \in th[t].own <=> k = "own" /\ x = t
  /\ \A t \in Thread : b \in th[t].victim <=> k = "victim" /\ x = t
  /\ \A s \in Slot : \A q \in DOMAIN RegionsOf(s) :
       b \in RegionsOf(s)[q].blocks <=> k = "region" /\ x = s /\ r = q
  /\ \/ k \in {"root", "free"}
     \/ k \in {"own", "victim"} /\ x \in Thread
     \/ k = "region" /\ x \in Slot /\ r \in DOMAIN RegionsOf(x)

PlaceInv == \A b \in Block : \E k, x, r : IsAt(b, k, x, r)

\* A transaction holds no free block, and started no later than the epoch
\* under which a block it holds was handed over.
HoldInv ==
  \A t \in Thread :
    /\ th[t].holds \cap free = {}
    /\ \A u \in Thread : th[u].pc = "free" /\ th[t].holds \cap th[u].victim # {}
                           => th[t].start <= th[u].epoch
    /\ \A s \in Slot : \A q \in DOMAIN RegionsOf(s) :
         th[t].holds \cap RegionsOf(s)[q].blocks # {}
           => th[t].start <= RegionsOf(s)[q].ts
    /\ "peek" \notin use => \A u \in Thread : th[t].holds \cap th[u].own = {}

\* The scan has passed the slot of thread t.
Passed(u, t) ==
  \/ th[u].pc \in {"pop", "popped"}
  \/ th[u].pc \in {"scan", "scanTs"} /\ th[t].idx < th[u].i

\* The minimum gc_compute_min has reached is no larger than the start of any
\* transaction whose slot it has passed and that holds one of the blocks
\* that wait to be freed.
ScanInv ==
  \A u, t \in Thread : \A s \in Slot :
    Passed(u, t) /\ th[u].idx = s =>
      \A q \in DOMAIN RegionsOf(s) :
        th[t].holds \cap RegionsOf(s)[q].blocks # {} => th[u].min <= th[t].start

GcInv == GcType /\ SlotInv /\ CountInv /\ StageInv /\ PlaceInv /\ HoldInv /\ ScanInv

-----------------------------------------------------------------------------
(* Lists of regions.                                                       *)

\* List A is list R with the blocks B, of epoch e, in one of its regions, the
\* epoch of which is no smaller.
AddsTo(A, R, B, e) ==
  \E k \in DOMAIN A :
    /\ DOMAIN A = DOMAIN R \cup {k}
    /\ A[k].ts >= e
    /\ A[k].blocks = IF k \in DOMAIN R THEN R[k].blocks \cup B ELSE B
    /\ k \in DOMAIN R => A[k].ts = R[k].ts
    /\ \A q \in DOMAIN R : q # k => A[q] = R[q]

\* gc_free appends a region, or adds the blocks to the first one if that is
\* not older.
LEMMA AppendedRegions ==
  ASSUME NEW R \in Seq(Region), NEW B \in SUBSET Block, NEW e \in Nat
  PROVE  /\ Appended(R, B, e) \in Seq(Region)
         /\ AddsTo(Appended(R, B, e), R, B, e)
<1> DEFINE A == Appended(R, B, e)
           new == [ts |-> e, blocks |-> B]
<1>1. CASE R = <<>> \/ R[1].ts < e
  <2>1. A = Append(R, new)
    BY <1>1 DEF Appended
  <2>2. new \in Region
    BY DEF Region
  <2>3. A \in Seq(Region) /\ Len(A) = Len(R) + 1 /\ A[Len(R) + 1] = new
        /\ \A q \in 1 .. Len(R) : A[q] = R[q]
    BY <2>1, <2>2
  <2>4. DOMAIN A = DOMAIN R \cup {Len(R) + 1} /\ Len(R) + 1 \notin DOMAIN R
    BY <2>3
  <2>5. e >= e
    OBVIOUS
  <2>6. /\ DOMAIN A = DOMAIN R \cup {Len(R) + 1} /\ Len(R) + 1 \notin DOMAIN R
        /\ A[Len(R) + 1].ts = e /\ A[Len(R) + 1].blocks = B
        /\ \A q \in DOMAIN R : A[q] = R[q]
    BY <2>3, <2>4
  <2> HIDE DEF A
  <2>7. AddsTo(A, R, B, e)
    BY <2>5, <2>6 DEF AddsTo
  <2> QED
    BY <2>3, <2>7 DEF A
<1>2. CASE ~ (R = <<>> \/ R[1].ts < e)
  <2>1. 1 \in DOMAIN R /\ 1 \in 1 .. Len(R)
    BY <1>2
  <2>2. R[1] \in Region
    BY <2>1
  <2> DEFINE first == [R[1] EXCEPT !.blocks = R[1].blocks \cup B]
  <2>3. A = [R EXCEPT ![1] = first]
    BY <1>2 DEF Appended
  <2>4. first \in Region /\ first.ts = R[1].ts /\ first.blocks = R[1].blocks \cup B
    BY <2>2 DEF Region
  <2> HIDE DEF first
  <2>5. A \in Seq(Region) /\ Len(A) = Len(R)
    BY <2>1, <2>3, <2>4, ExceptSeq
  <2>6. /\ DOMAIN A = DOMAIN R
        /\ A[1] = first
        /\ \A q \in DOMAIN R : q # 1 => A[q] = R[q]
    BY <2>1, <2>3
  <2>7. A[1].ts >= e
    BY <1>2, <2>2, <2>4, <2>6 DEF Region
  <2> HIDE DEF A
  <2>9. DOMAIN A = DOMAIN R \cup {1} /\ 1 \in DOMAIN A
    BY <2>1, <2>6
  <2>8. AddsTo(A, R, B, e)
    BY <2>1, <2>4, <2>6, <2>7, <2>9 DEF AddsTo
  <2> QED
    BY <2>5, <2>8 DEF A
<1> QED
  BY <1>1, <1>2

\* Unlinking the head region leaves the others, one place further to the front.
LEMMA WithoutHeadRegions ==
  ASSUME NEW R \in Seq(Region)
  PROVE  /\ WithoutHead(R) \in Seq(Region)
         /\ R # <<>> => WithoutHead(R) = SubSeq(R, 2, Len(R))
BY TailIsSubSeq, HeadTailProperties DEF WithoutHead

LEMMA RestRegions ==
  ASSUME NEW R \in Seq(Region), R # <<>>
  PROVE  LET S == SubSeq(R, 2, Len(R))
         IN /\ S \in Seq(Region)
            /\ 1 \in DOMAIN R
            /\ \A q \in DOMAIN S : q + 1 \in DOMAIN R /\ S[q] = R[q + 1]
            /\ \A q \in DOMAIN R : q # 1 => q - 1 \in DOMAIN S
            /\ DOMAIN S \subseteq Int
<1>1. Len(R) \in Nat \ {0} /\ DOMAIN R = 1 .. Len(R)
  BY EmptySeq
<1>2. \A i \in 2 .. Len(R) : R[i] \in Region
  BY <1>1
<1>3. LET S == SubSeq(R, 2, Len(R))
      IN /\ S \in Seq(Region)
         /\ Len(S) = Len(R) - 1
         /\ \A i \in 1 .. Len(R) - 1 : S[i] = R[i + 1]
  BY <1>1, <1>2, SubSeqProperties
<1> QED
  BY <1>1, <1>3

-----------------------------------------------------------------------------
(* Types.                                                                  *)

\* The next slot to try.
LEMMA NextSlot == ASSUME NEW i \in Slot PROVE Next1(i) \in Slot
BY GcAssumption DEF Next1, Slot

\* It wraps around.
LEMMA NextAfter ==
  ASSUME NEW i \in Slot, NEW r \in Slot, r < Next1(i) PROVE r < i \/ r = i
<1>1. i < Slots \/ i = Slots
  BY GcAssumption DEF Slot
<1>2. CASE i < Slots
  BY <1>2, GcAssumption DEF Next1, Slot
<1>3. CASE i = Slots
  <2>1. i % Slots = 0
    BY <1>3, GcAssumption
  <2> QED
    BY <2>1 DEF Next1, Slot
<1> QED
  BY <1>1, <1>2, <1>3

\* No slot is number zero, and none lies past the end.
LEMMA SlotRange == Slots \in Nat /\ 1 \in Slot /\ \A s \in Slot : s \in Nat /\ s >= 1 /\ s <= Slots
BY GcAssumption DEF Slot

\* A registered thread has a slot.
LEMMA HasSlot ==
  ASSUME GcInv, NEW t \in Thread, th[t].pc \notin {"off", "find", "cas"}
  PROVE  /\ th[t].idx \in Slot /\ slots[th[t].idx].used = GcBusy
         /\ Regions(t) \in Seq(Region)
BY SlotRange DEF GcInv, GcType, SlotInv, Slot, Regions

ThreadRec == [pc : Pcs, idx : 0..Slots, i : 1..(Slots + 1), min : Nat,
              used : SlotStates, start : Nat, holds : SUBSET Block,
              own : SUBSET Block, victim : SUBSET Block, epoch : Nat,
              ret : {"off", "idle", "tx", "leave"}]

SlotRec == [used : SlotStates, ts : Nat, head : Seq(Region)]

LEMMA GcInitInv == ASSUME GcInit PROVE GcInv
<1> USE GcAssumption
<1>1. NewThread \in ThreadRec
  BY DEF NewThread, ThreadRec, Pcs, SlotStates
<1>2. EmptySlot \in SlotRec
  BY DEF EmptySlot, SlotRec, SlotStates
<1>3. th \in [Thread -> ThreadRec] /\ slots \in [Slot -> SlotRec]
  BY <1>1, <1>2 DEF GcInit
<1>4. GcType
  BY <1>3 DEF GcInit, GcType, ThreadRec, SlotRec
<1>5. \A s \in Slot : slots[s].used = GcNull /\ slots[s].head = <<>>
  BY DEF GcInit, EmptySlot
<1>6. \A t \in Thread : /\ th[t].pc = "off" /\ th[t].idx = 0 /\ th[t].holds = {}
                        /\ th[t].own = {} /\ th[t].victim = {} /\ th[t].ret = "off"
  BY DEF GcInit, NewThread
<1>7. SlotInv
  BY <1>5, <1>6 DEF SlotInv, GcNull, GcBusy
<1>8. CountInv
  <2>1. {t \in Thread : th[t].pc # "off"} = {}
    BY <1>6
  <2> QED
    BY <2>1, FS_EmptySet DEF CountInv, GcInit
<1>9. StageInv
  BY <1>6 DEF StageInv, Stage, InTx, Cleaning
<1>10. \A s \in Slot : RegionsOf(s) = <<>> /\ DOMAIN RegionsOf(s) = {}
  BY <1>5, <1>6 DEF RegionsOf
<1>11. PlaceInv
  <2> SUFFICES ASSUME NEW b \in Block
               PROVE  \E k, x, r : IsAt(b, k, x, r)
    BY DEF PlaceInv
  <2>1. CASE b = root
    <3>1. IsAt(b, "root", b, b)
      BY <1>6, <1>10, <2>1 DEF IsAt, GcInit
    <3> QED
      BY <3>1
  <2>2. CASE b # root
    <3>1. IsAt(b, "free", b, b)
      BY <1>6, <1>10, <2>2 DEF IsAt, GcInit
    <3> QED
      BY <3>1
  <2> QED
    BY <2>1, <2>2
<1>12. HoldInv
  BY <1>6 DEF HoldInv
<1>13. ScanInv
  BY <1>6 DEF ScanInv, Passed
<1> QED
  BY <1>4, <1>7, <1>8, <1>9, <1>11, <1>12, <1>13 DEF GcInv

LEMMA Labels ==
  /\ \A p \in {"off", "find", "cas", "enter", "idle", "prepared", "tx", "committed",
               "leaving", "leave", "release", "free", "scan", "scanTs", "pop",
               "popped"} : p \in Pcs
  /\ \A p \in Pcs : p \in {"off", "find", "cas", "enter", "idle", "prepared", "tx",
                           "committed", "leaving", "leave", "release", "free", "scan",
                           "scanTs", "pop", "popped"}
  /\ 1 \in 1 .. (Slots + 1) /\ EpochMax \in Nat
  /\ GcNull \in SlotStates /\ GcBusy \in SlotStates
  /\ GcFreeEmpty \in SlotStates /\ GcFreeFull \in SlotStates
BY GcAssumption DEF Pcs, Cleaning, SlotStates

LEMMA Records ==
  ASSUME GcInv
  PROVE  /\ th \in [Thread -> ThreadRec] /\ slots \in [Slot -> SlotRec]
         /\ clock \in Nat /\ root \in Block /\ free \in SUBSET Block /\ use \in Uses
BY DEF GcInv, GcType, ThreadRec, SlotRec

\* Thread t moves and no other.
Moved(t, new) ==
  /\ th' \in [Thread -> ThreadRec]
  /\ th'[t] = new
  /\ \A u \in Thread : u # t => th'[u] = th[u]

LEMMA ThreadMoved ==
  ASSUME GcInv, NEW t \in Thread, NEW new \in ThreadRec, th' = [th EXCEPT ![t] = new]
  PROVE  Moved(t, new)
<1>1. th \in [Thread -> ThreadRec]
  BY Records
<1> QED
  BY <1>1 DEF Moved

\* Slot s changes and no other.
Changed(s, new) ==
  /\ slots' \in [Slot -> SlotRec]
  /\ slots'[s] = new
  /\ \A r \in Slot : r # s => slots'[r] = slots[r]

LEMMA SlotChanged ==
  ASSUME GcInv, NEW s \in Slot, NEW new \in SlotRec, slots' = [slots EXCEPT ![s] = new]
  PROVE  Changed(s, new)
<1>1. slots \in [Slot -> SlotRec]
  BY Records
<1> QED
  BY <1>1 DEF Changed

-----------------------------------------------------------------------------
(* What the actions do to the thread and to its slot.                      *)

LEMMA DoesGcInitThread ==
  ASSUME GcInv, NEW t \in Thread, GcInitThread(t)
  PROVE  Moved(t, [th[t] EXCEPT !.pc = "find", !.i = 1])
<1>1. th' = [th EXCEPT ![t] = [th[t] EXCEPT !.pc = "find", !.i = 1]]
  BY Records DEF GcInitThread
<1>2. [th[t] EXCEPT !.pc = "find", !.i = 1] \in ThreadRec
  BY Records, Labels DEF ThreadRec
<1> QED
  BY <1>1, <1>2, ThreadMoved

LEMMA DoesPrepare ==
  ASSUME GcInv, NEW t \in Thread, Prepare(t)
  PROVE  Moved(t, [th[t] EXCEPT !.pc = "prepared", !.start = clock])
<1>1. th' = [th EXCEPT ![t] = [th[t] EXCEPT !.pc = "prepared", !.start = clock]]
  BY Records DEF Prepare
<1>2. [th[t] EXCEPT !.pc = "prepared", !.start = clock] \in ThreadRec
  BY Records, Labels DEF ThreadRec
<1> QED
  BY <1>1, <1>2, ThreadMoved

LEMMA DoesGcSetEpoch ==
  ASSUME GcInv, NEW t \in Thread, GcSetEpoch(t)
  PROVE  Moved(t, [th[t] EXCEPT !.pc = "tx"])
<1>1. th' = [th EXCEPT ![t] = [th[t] EXCEPT !.pc = "tx"]]
  BY Records DEF GcSetEpoch
<1>2. [th[t] EXCEPT !.pc = "tx"] \in ThreadRec
  BY Records, Labels DEF ThreadRec
<1> QED
  BY <1>1, <1>2, ThreadMoved

LEMMA DoesReadRoot ==
  ASSUME GcInv, NEW t \in Thread, ReadRoot(t)
  PROVE  Moved(t, [th[t] EXCEPT !.holds = th[t].holds \cup {root}])
<1>1. th' = [th EXCEPT ![t] = [th[t] EXCEPT !.holds = th[t].holds \cup {root}]]
  BY Records DEF ReadRoot
<1>2. [th[t] EXCEPT !.holds = th[t].holds \cup {root}] \in ThreadRec
  BY Records, Labels DEF ThreadRec
<1> QED
  BY <1>1, <1>2, ThreadMoved

LEMMA DoesEndTx ==
  ASSUME GcInv, NEW t \in Thread, EndTx(t)
  PROVE  Moved(t, [th[t] EXCEPT !.pc = "idle", !.holds = {}])
<1>1. th' = [th EXCEPT ![t] = [th[t] EXCEPT !.pc = "idle", !.holds = {}]]
  BY Records DEF EndTx
<1>2. [th[t] EXCEPT !.pc = "idle", !.holds = {}] \in ThreadRec
  BY Records, Labels DEF ThreadRec
<1> QED
  BY <1>1, <1>2, ThreadMoved

LEMMA DoesUnlink ==
  ASSUME GcInv, NEW t \in Thread, Unlink(t)
  PROVE  Moved(t, [th[t] EXCEPT !.pc = "committed", !.holds = {}, !.victim = {root}])
<1>1. th' = [th EXCEPT ![t] = [th[t] EXCEPT !.pc = "committed", !.holds = {}, !.victim = {root}]]
  BY Records DEF Unlink
<1>2. [th[t] EXCEPT !.pc = "committed", !.holds = {}, !.victim = {root}] \in ThreadRec
  BY Records, Labels DEF ThreadRec
<1> QED
  BY <1>1, <1>2, ThreadMoved

LEMMA DoesOnCommit ==
  ASSUME GcInv, NEW t \in Thread, OnCommit(t)
  PROVE  Moved(t, [th[t] EXCEPT !.pc = "free", !.epoch = clock, !.ret = "idle"])
<1>1. th' = [th EXCEPT ![t] = [th[t] EXCEPT !.pc = "free", !.epoch = clock, !.ret = "idle"]]
  BY Records DEF OnCommit
<1>2. [th[t] EXCEPT !.pc = "free", !.epoch = clock, !.ret = "idle"] \in ThreadRec
  BY Records, Labels DEF ThreadRec
<1> QED
  BY <1>1, <1>2, ThreadMoved

LEMMA DoesGcFree ==
  ASSUME GcInv, NEW t \in Thread, GcFree(t)
  PROVE  Moved(t, [th[t] EXCEPT !.pc = "scan", !.victim = {}, !.min = clock, !.i = 1])
<1>1. th' = [th EXCEPT ![t] = [th[t] EXCEPT !.pc = "scan", !.victim = {}, !.min = clock, !.i = 1]]
  BY Records DEF GcFree
<1>2. [th[t] EXCEPT !.pc = "scan", !.victim = {}, !.min = clock, !.i = 1] \in ThreadRec
  BY Records, Labels DEF ThreadRec
<1> QED
  BY <1>1, <1>2, ThreadMoved

LEMMA DoesCleanBlocks ==
  ASSUME GcInv, NEW t \in Thread, CleanBlocks(t)
  PROVE  Moved(t, [th[t] EXCEPT !.pc = "popped"])
<1>1. th' = [th EXCEPT ![t] = [th[t] EXCEPT !.pc = "popped"]]
  BY Records DEF CleanBlocks
<1>2. [th[t] EXCEPT !.pc = "popped"] \in ThreadRec
  BY Records, Labels DEF ThreadRec
<1> QED
  BY <1>1, <1>2, ThreadMoved

LEMMA DoesUnlinkRegion ==
  ASSUME GcInv, NEW t \in Thread, UnlinkRegion(t)
  PROVE  Moved(t, [th[t] EXCEPT !.pc = "pop"])
<1>1. th' = [th EXCEPT ![t] = [th[t] EXCEPT !.pc = "pop"]]
  BY Records DEF UnlinkRegion
<1>2. [th[t] EXCEPT !.pc = "pop"] \in ThreadRec
  BY Records, Labels DEF ThreadRec
<1> QED
  BY <1>1, <1>2, ThreadMoved

LEMMA DoesQuiesceExitThread ==
  ASSUME GcInv, NEW t \in Thread, QuiesceExitThread(t)
  PROVE  Moved(t, [th[t] EXCEPT !.pc = "leaving"])
<1>1. th' = [th EXCEPT ![t] = [th[t] EXCEPT !.pc = "leaving"]]
  BY Records DEF QuiesceExitThread
<1>2. [th[t] EXCEPT !.pc = "leaving"] \in ThreadRec
  BY Records, Labels DEF ThreadRec
<1> QED
  BY <1>1, <1>2, ThreadMoved

LEMMA DoesFreeDescriptor ==
  ASSUME GcInv, NEW t \in Thread, FreeDescriptor(t)
  PROVE  Moved(t, [th[t] EXCEPT !.pc = "free", !.victim = th[t].own, !.own = {},
                           !.epoch = clock, !.ret = "leave"])
<1>1. th' = [th EXCEPT ![t] = [th[t] EXCEPT !.pc = "free", !.victim = th[t].own, !.own = {},
                           !.epoch = clock, !.ret = "leave"]]
  BY Records DEF FreeDescriptor
<1>2. [th[t] EXCEPT !.pc = "free", !.victim = th[t].own, !.own = {},
                           !.epoch = clock, !.ret = "leave"] \in ThreadRec
  BY Records, Labels DEF ThreadRec
<1> QED
  BY <1>1, <1>2, ThreadMoved

LEMMA DoesGcExitThread ==
  ASSUME GcInv, NEW t \in Thread, GcExitThread(t)
  PROVE  Moved(t, [th[t] EXCEPT !.pc = "release"])
<1>1. th' = [th EXCEPT ![t] = [th[t] EXCEPT !.pc = "release"]]
  BY Records DEF GcExitThread
<1>2. [th[t] EXCEPT !.pc = "release"] \in ThreadRec
  BY Records, Labels DEF ThreadRec
<1> QED
  BY <1>1, <1>2, ThreadMoved

LEMMA DoesReleaseSlot ==
  ASSUME GcInv, NEW t \in Thread, ReleaseSlot(t)
  PROVE  Moved(t, NewThread)
<1>1. th' = [th EXCEPT ![t] = NewThread]
  BY Records DEF ReleaseSlot
<1>2. NewThread \in ThreadRec
  BY GcAssumption DEF NewThread, ThreadRec, Pcs, SlotStates
<1> QED
  BY <1>1, <1>2, ThreadMoved

LEMMA DoesEndCleanup ==
  ASSUME GcInv, NEW t \in Thread, EndCleanup(t)
  PROVE  Moved(t, [th[t] EXCEPT !.pc = th[t].ret])
<1>1. th' = [th EXCEPT ![t] = [th[t] EXCEPT !.pc = th[t].ret]]
  BY Records DEF EndCleanup
<1>2. [th[t] EXCEPT !.pc = th[t].ret] \in ThreadRec
  BY Records, Labels DEF ThreadRec
<1> QED
  BY <1>1, <1>2, ThreadMoved

LEMMA DoesEnterThread ==
  ASSUME GcInv, NEW t \in Thread, EnterThread(t)
  PROVE  \E b \in free : free' = free \ {b}
           /\ Moved(t, [th[t] EXCEPT !.pc = "idle", !.own = {b}])
<1>1. PICK b \in free : /\ free' = free \ {b}
                       /\ th' = [th EXCEPT ![t].pc = "idle", ![t].own = {b}]
  BY DEF EnterThread
<1>2. th' = [th EXCEPT ![t] = [th[t] EXCEPT !.pc = "idle", !.own = {b}]]
  BY <1>1, Records
<1>3. [th[t] EXCEPT !.pc = "idle", !.own = {b}] \in ThreadRec
  BY Records, Labels DEF ThreadRec
<1> QED
  BY <1>1, <1>2, <1>3, ThreadMoved

LEMMA DoesGrow ==
  ASSUME GcInv, NEW t \in Thread, Grow(t)
  PROVE  \E b \in free : free' = free \ {b}
           /\ Moved(t, [th[t] EXCEPT !.pc = "free", !.own = {b}, !.victim = th[t].own,
                                     !.epoch = th[t].start, !.ret = "tx"])
<1>1. PICK b \in free :
        /\ free' = free \ {b}
        /\ th' = [th EXCEPT ![t].pc = "free", ![t].own = {b}, ![t].victim = th[t].own,
                            ![t].epoch = th[t].start, ![t].ret = "tx"]
  BY DEF Grow
<1> DEFINE new == [th[t] EXCEPT !.pc = "free", !.own = {b}, !.victim = th[t].own,
                                !.epoch = th[t].start, !.ret = "tx"]
<1>2. th' = [th EXCEPT ![t] = new]
  BY <1>1, Records
<1>3. new \in ThreadRec
  BY Records, Labels DEF ThreadRec
<1> QED
  BY <1>1, <1>2, <1>3, ThreadMoved

LEMMA DoesPeek ==
  ASSUME GcInv, NEW t \in Thread, NEW u \in Thread, Peek(t, u)
  PROVE  Moved(t, [th[t] EXCEPT !.holds = th[t].holds \cup th[u].own])
<1>1. th' = [th EXCEPT ![t] = [th[t] EXCEPT !.holds = th[t].holds \cup th[u].own]]
  BY Records DEF Peek
<1>2. [th[t] EXCEPT !.holds = th[t].holds \cup th[u].own] \in ThreadRec
  BY Records DEF ThreadRec
<1> QED
  BY <1>1, <1>2, ThreadMoved

LEMMA DoesFindSlot ==
  ASSUME GcInv, NEW t \in Thread, FindSlot(t)
  PROVE  LET used == slots[th[t].i].used
         IN /\ used \in SlotStates /\ th[t].i \in Slot
            /\ \/ used = GcBusy /\ Moved(t, [th[t] EXCEPT !.i = Next1(th[t].i)])
               \/ used # GcBusy /\ Moved(t, [th[t] EXCEPT !.pc = "cas", !.used = used])
<1> DEFINE used == slots[th[t].i].used
<1>1. th[t].i \in Slot /\ th[t].pc = "find"
  BY DEF GcInv, SlotInv, FindSlot
<1>2. used \in SlotStates
  BY <1>1, Records DEF SlotRec
<1>3. Next1(th[t].i) \in 1 .. (Slots + 1)
  BY <1>1, NextSlot, SlotRange
<1>4. [th[t] EXCEPT !.i = Next1(th[t].i)] \in ThreadRec
  BY <1>3, Records DEF ThreadRec
<1>5. [th[t] EXCEPT !.pc = "cas", !.used = used] \in ThreadRec
  BY <1>2, Records, Labels DEF ThreadRec
<1>6. CASE used = GcBusy
  <2>1. th' = [th EXCEPT ![t] = [th[t] EXCEPT !.i = Next1(th[t].i)]]
    BY <1>6, Records DEF FindSlot
  <2> QED
    BY <1>1, <1>2, <1>4, <1>6, <2>1, ThreadMoved
<1>7. CASE used # GcBusy
  <2>1. th' = [th EXCEPT ![t] = [th[t] EXCEPT !.pc = "cas", !.used = used]]
    BY <1>7, Records DEF FindSlot
  <2> QED
    BY <1>1, <1>2, <1>5, <1>7, <2>1, ThreadMoved
<1> QED
  BY <1>6, <1>7

LEMMA DoesCasSlot ==
  ASSUME GcInv, NEW t \in Thread, CasSlot(t)
  PROVE  /\ th[t].i \in Slot
         /\ \/ /\ CasSucceeds(t)
               /\ Changed(th[t].i, [slots[th[t].i] EXCEPT !.used = GcBusy])
               /\ Moved(t, [th[t] EXCEPT !.pc = "enter", !.idx = th[t].i])
            \/ /\ ~ CasSucceeds(t) /\ slots' = slots
               /\ Moved(t, [th[t] EXCEPT !.pc = "find", !.i = Next1(th[t].i)])
<1>1. th[t].i \in Slot /\ th[t].pc = "cas"
  BY DEF GcInv, SlotInv, CasSlot
<1>2. Next1(th[t].i) \in 1 .. (Slots + 1) /\ th[t].i \in 0 .. Slots
  BY <1>1, NextSlot, SlotRange
<1>3. CASE CasSucceeds(t)
  <2>1. th' = [th EXCEPT ![t] = [th[t] EXCEPT !.pc = "enter", !.idx = th[t].i]]
    BY <1>3, Records DEF CasSlot
  <2>2. [th[t] EXCEPT !.pc = "enter", !.idx = th[t].i] \in ThreadRec
    BY <1>2, Records, Labels DEF ThreadRec
  <2>3. slots' = [slots EXCEPT ![th[t].i] = [slots[th[t].i] EXCEPT !.used = GcBusy]]
    BY <1>1, <1>3, Records DEF CasSlot
  <2>4. [slots[th[t].i] EXCEPT !.used = GcBusy] \in SlotRec
    BY <1>1, Records, Labels DEF SlotRec
  <2> QED
    BY <1>1, <1>3, <2>1, <2>2, <2>3, <2>4, ThreadMoved, SlotChanged
<1>4. CASE ~ CasSucceeds(t)
  <2>1. th' = [th EXCEPT ![t] = [th[t] EXCEPT !.pc = "find", !.i = Next1(th[t].i)]]
    BY <1>4, Records DEF CasSlot
  <2>2. [th[t] EXCEPT !.pc = "find", !.i = Next1(th[t].i)] \in ThreadRec
    BY <1>2, Records, Labels DEF ThreadRec
  <2> QED
    BY <1>1, <1>4, <2>1, <2>2, ThreadMoved DEF CasSlot
<1> QED
  BY <1>3, <1>4

LEMMA DoesScanUsed ==
  ASSUME GcInv, NEW t \in Thread, ScanUsed(t)
  PROVE  \/ /\ th[t].i > Slots \/ slots[th[t].i].used = GcNull
            /\ Moved(t, [th[t] EXCEPT !.pc = "pop"])
         \/ /\ th[t].i \in Slot /\ slots[th[t].i].used # GcBusy
            /\ Moved(t, [th[t] EXCEPT !.i = th[t].i + 1])
         \/ /\ th[t].i \in Slot /\ slots[th[t].i].used = GcBusy
            /\ Moved(t, [th[t] EXCEPT !.pc = "scanTs"])
<1>1. th[t].i \in 1 .. (Slots + 1) /\ Slots \in Nat
  BY Records, GcAssumption DEF ThreadRec
<1>2. CASE th[t].i > Slots \/ slots[th[t].i].used = GcNull
  <2>1. th' = [th EXCEPT ![t] = [th[t] EXCEPT !.pc = "pop"]]
    BY <1>2, Records DEF ScanUsed
  <2>2. [th[t] EXCEPT !.pc = "pop"] \in ThreadRec
    BY Records, Labels DEF ThreadRec
  <2> QED
    BY <1>2, <2>1, <2>2, ThreadMoved
<1>3. CASE ~ (th[t].i > Slots \/ slots[th[t].i].used = GcNull)
           /\ slots[th[t].i].used # GcBusy
  <2>1. th' = [th EXCEPT ![t] = [th[t] EXCEPT !.i = th[t].i + 1]]
    BY <1>3, Records DEF ScanUsed
  <2>2. th[t].i \in Slot /\ th[t].i + 1 \in 1 .. (Slots + 1)
    BY <1>1, <1>3 DEF Slot
  <2>3. [th[t] EXCEPT !.i = th[t].i + 1] \in ThreadRec
    BY <2>2, Records DEF ThreadRec
  <2> QED
    BY <1>3, <2>1, <2>2, <2>3, ThreadMoved
<1>4. CASE ~ (th[t].i > Slots \/ slots[th[t].i].used = GcNull)
           /\ slots[th[t].i].used = GcBusy
  <2>1. th' = [th EXCEPT ![t] = [th[t] EXCEPT !.pc = "scanTs"]]
    BY <1>4, Records DEF ScanUsed
  <2>2. th[t].i \in Slot
    BY <1>1, <1>4 DEF Slot
  <2>3. [th[t] EXCEPT !.pc = "scanTs"] \in ThreadRec
    BY Records, Labels DEF ThreadRec
  <2> QED
    BY <1>4, <2>1, <2>2, <2>3, ThreadMoved
<1> QED
  BY <1>2, <1>3, <1>4

LEMMA DoesScanTs ==
  ASSUME GcInv, NEW t \in Thread, ScanTs(t)
  PROVE  /\ th[t].i \in Slot
         /\ Moved(t, [th[t] EXCEPT !.pc = "scan", !.i = th[t].i + 1,
                                   !.min = Lower(th[t].min, slots[th[t].i].ts)])
<1> DEFINE low == Lower(th[t].min, slots[th[t].i].ts)
<1>1. th[t].i \in Slot
  BY DEF GcInv, StageInv, Stage, ScanTs
<1>2. th[t].i + 1 \in 1 .. (Slots + 1)
  BY <1>1, SlotRange
<1>3. low \in Nat
  BY <1>1, Records DEF Lower, ThreadRec, SlotRec
<1>4. th' = [th EXCEPT ![t] = [th[t] EXCEPT !.pc = "scan", !.i = th[t].i + 1, !.min = low]]
  BY Records DEF ScanTs
<1> HIDE DEF low
<1>5. [th[t] EXCEPT !.pc = "scan", !.i = th[t].i + 1, !.min = low] \in ThreadRec
  BY <1>2, <1>3, Records, Labels DEF ThreadRec
<1> QED
  BY <1>1, <1>4, <1>5, ThreadMoved DEF low


LEMMA SlotEnterThread ==
  ASSUME GcInv, NEW t \in Thread, EnterThread(t)
  PROVE  /\ th[t].idx \in Slot
         /\ Changed(th[t].idx, [slots[th[t].idx] EXCEPT !.ts = clock])
<1> DEFINE new == [slots[th[t].idx] EXCEPT !.ts = clock]
<1>1. th[t].idx \in Slot /\ Regions(t) \in Seq(Region)
  BY HasSlot DEF EnterThread
<1>2. slots' = [slots EXCEPT ![th[t].idx] = new]
  BY <1>1, Records DEF EnterThread
<1>3. new \in SlotRec
  BY <1>1, Records DEF SlotRec
<1> QED
  BY <1>1, <1>2, <1>3, SlotChanged

LEMMA SlotGcSetEpoch ==
  ASSUME GcInv, NEW t \in Thread, GcSetEpoch(t)
  PROVE  /\ th[t].idx \in Slot
         /\ Changed(th[t].idx, [slots[th[t].idx] EXCEPT !.ts = th[t].start])
<1> DEFINE new == [slots[th[t].idx] EXCEPT !.ts = th[t].start]
<1>1. th[t].idx \in Slot /\ Regions(t) \in Seq(Region)
  BY HasSlot DEF GcSetEpoch
<1>2. slots' = [slots EXCEPT ![th[t].idx] = new]
  BY <1>1, Records DEF GcSetEpoch
<1>3. new \in SlotRec
  BY <1>1, Records DEF SlotRec, ThreadRec
<1> QED
  BY <1>1, <1>2, <1>3, SlotChanged

LEMMA SlotGcExitThread ==
  ASSUME GcInv, NEW t \in Thread, GcExitThread(t)
  PROVE  /\ th[t].idx \in Slot
         /\ Changed(th[t].idx, [slots[th[t].idx] EXCEPT !.ts = EpochMax])
<1> DEFINE new == [slots[th[t].idx] EXCEPT !.ts = EpochMax]
<1>1. th[t].idx \in Slot /\ Regions(t) \in Seq(Region)
  BY HasSlot DEF GcExitThread
<1>2. slots' = [slots EXCEPT ![th[t].idx] = new]
  BY <1>1, Records DEF GcExitThread
<1>3. new \in SlotRec
  BY <1>1, Records, Labels DEF SlotRec
<1> QED
  BY <1>1, <1>2, <1>3, SlotChanged

LEMMA SlotGcFree ==
  ASSUME GcInv, NEW t \in Thread, GcFree(t)
  PROVE  /\ th[t].idx \in Slot
         /\ Changed(th[t].idx, [slots[th[t].idx] EXCEPT
                                 !.head = Appended(Regions(t), th[t].victim, th[t].epoch)])
<1> DEFINE new == [slots[th[t].idx] EXCEPT !.head = Appended(Regions(t), th[t].victim, th[t].epoch)]
<1>1. th[t].idx \in Slot /\ Regions(t) \in Seq(Region)
  BY HasSlot DEF GcFree
<1>2. slots' = [slots EXCEPT ![th[t].idx] = new]
  BY <1>1, Records DEF GcFree, Regions
<1>3. new \in SlotRec
  <2>1. th[t].victim \in SUBSET Block /\ th[t].epoch \in Nat
    BY Records DEF ThreadRec
  <2>2. Appended(Regions(t), th[t].victim, th[t].epoch) \in Seq(Region)
    BY <1>1, <2>1, AppendedRegions
  <2> QED
    BY <1>1, <2>2, Records DEF SlotRec
<1> QED
  BY <1>1, <1>2, <1>3, SlotChanged

LEMMA SlotUnlinkRegion ==
  ASSUME GcInv, NEW t \in Thread, UnlinkRegion(t)
  PROVE  /\ th[t].idx \in Slot
         /\ Changed(th[t].idx, [slots[th[t].idx] EXCEPT !.head = WithoutHead(Regions(t))])
<1> DEFINE new == [slots[th[t].idx] EXCEPT !.head = WithoutHead(Regions(t))]
<1>1. th[t].idx \in Slot /\ Regions(t) \in Seq(Region)
  BY HasSlot DEF UnlinkRegion
<1>2. slots' = [slots EXCEPT ![th[t].idx] = new]
  BY <1>1, Records DEF UnlinkRegion, Regions
<1>3. new \in SlotRec
  BY <1>1, Records, WithoutHeadRegions DEF SlotRec
<1> QED
  BY <1>1, <1>2, <1>3, SlotChanged

LEMMA SlotReleaseSlot ==
  ASSUME GcInv, NEW t \in Thread, ReleaseSlot(t)
  PROVE  /\ th[t].idx \in Slot
         /\ Changed(th[t].idx, [slots[th[t].idx] EXCEPT !.used = ReleasedAs(Regions(t))])
<1> DEFINE new == [slots[th[t].idx] EXCEPT !.used = ReleasedAs(Regions(t))]
<1>1. th[t].idx \in Slot /\ Regions(t) \in Seq(Region)
  BY HasSlot DEF ReleaseSlot
<1>2. slots' = [slots EXCEPT ![th[t].idx] = new]
  BY <1>1, Records DEF ReleaseSlot
<1>3. new \in SlotRec
  BY <1>1, Records, Labels DEF SlotRec, ReleasedAs
<1> QED
  BY <1>1, <1>2, <1>3, SlotChanged

-----------------------------------------------------------------------------
(* The same, field by field.                                               *)

LEMMA RecordFields ==
  ASSUME NEW r \in ThreadRec
  PROVE  DOMAIN r = {"pc", "idx", "i", "min", "used", "start", "holds", "own", "victim",
                     "epoch", "ret"}
BY DEF ThreadRec

LEMMA FieldsGcInitThread ==
  ASSUME GcInv, NEW t \in Thread, GcInitThread(t)
  PROVE  /\ th'[t].pc = "find" /\ th'[t].ret = th[t].ret /\ th'[t].own = th[t].own
         /\ th'[t].victim = th[t].victim /\ th'[t].holds = th[t].holds
         /\ th'[t].start = th[t].start /\ th'[t].epoch = th[t].epoch
         /\ th'[t].min = th[t].min /\ th'[t].idx = th[t].idx /\ th'[t].i = 1
         /\ \A v \in Thread : v # t => th'[v] = th[v]
<1>1. th'[t] = [th[t] EXCEPT !.pc = "find", !.i = 1]
      /\ \A v \in Thread : v # t => th'[v] = th[v]
  BY DoesGcInitThread DEF Moved
<1>2. th[t] \in ThreadRec
  BY Records
<1> QED
  BY <1>1, <1>2, RecordFields

LEMMA FieldsPrepare ==
  ASSUME GcInv, NEW t \in Thread, Prepare(t)
  PROVE  /\ th'[t].pc = "prepared" /\ th'[t].ret = th[t].ret /\ th'[t].own = th[t].own
         /\ th'[t].victim = th[t].victim /\ th'[t].holds = th[t].holds
         /\ th'[t].start = clock /\ th'[t].epoch = th[t].epoch
         /\ th'[t].min = th[t].min /\ th'[t].idx = th[t].idx /\ th'[t].i = th[t].i
         /\ \A v \in Thread : v # t => th'[v] = th[v]
<1>1. th'[t] = [th[t] EXCEPT !.pc = "prepared", !.start = clock]
      /\ \A v \in Thread : v # t => th'[v] = th[v]
  BY DoesPrepare DEF Moved
<1>2. th[t] \in ThreadRec
  BY Records
<1> QED
  BY <1>1, <1>2, RecordFields

LEMMA FieldsGcSetEpoch ==
  ASSUME GcInv, NEW t \in Thread, GcSetEpoch(t)
  PROVE  /\ th'[t].pc = "tx" /\ th'[t].ret = th[t].ret /\ th'[t].own = th[t].own
         /\ th'[t].victim = th[t].victim /\ th'[t].holds = th[t].holds
         /\ th'[t].start = th[t].start /\ th'[t].epoch = th[t].epoch
         /\ th'[t].min = th[t].min /\ th'[t].idx = th[t].idx /\ th'[t].i = th[t].i
         /\ \A v \in Thread : v # t => th'[v] = th[v]
<1>1. th'[t] = [th[t] EXCEPT !.pc = "tx"]
      /\ \A v \in Thread : v # t => th'[v] = th[v]
  BY DoesGcSetEpoch DEF Moved
<1>2. th[t] \in ThreadRec
  BY Records
<1> QED
  BY <1>1, <1>2, RecordFields

LEMMA FieldsReadRoot ==
  ASSUME GcInv, NEW t \in Thread, ReadRoot(t)
  PROVE  /\ th'[t].pc = th[t].pc /\ th'[t].ret = th[t].ret /\ th'[t].own = th[t].own
         /\ th'[t].victim = th[t].victim /\ th'[t].holds = th[t].holds \cup {root}
         /\ th'[t].start = th[t].start /\ th'[t].epoch = th[t].epoch
         /\ th'[t].min = th[t].min /\ th'[t].idx = th[t].idx /\ th'[t].i = th[t].i
         /\ \A v \in Thread : v # t => th'[v] = th[v]
<1>1. th'[t] = [th[t] EXCEPT !.holds = th[t].holds \cup {root}]
      /\ \A v \in Thread : v # t => th'[v] = th[v]
  BY DoesReadRoot DEF Moved
<1>2. th[t] \in ThreadRec
  BY Records
<1> QED
  BY <1>1, <1>2, RecordFields

LEMMA FieldsPeek ==
  ASSUME GcInv, NEW t \in Thread, NEW u \in Thread, Peek(t, u)
  PROVE  /\ th'[t].pc = th[t].pc /\ th'[t].ret = th[t].ret /\ th'[t].own = th[t].own
         /\ th'[t].victim = th[t].victim /\ th'[t].holds = th[t].holds \cup th[u].own
         /\ th'[t].start = th[t].start /\ th'[t].epoch = th[t].epoch
         /\ th'[t].min = th[t].min /\ th'[t].idx = th[t].idx /\ th'[t].i = th[t].i
         /\ \A v \in Thread : v # t => th'[v] = th[v]
<1>1. th'[t] = [th[t] EXCEPT !.holds = th[t].holds \cup th[u].own]
      /\ \A v \in Thread : v # t => th'[v] = th[v]
  BY DoesPeek DEF Moved
<1>2. th[t] \in ThreadRec
  BY Records
<1> QED
  BY <1>1, <1>2, RecordFields

LEMMA FieldsEndTx ==
  ASSUME GcInv, NEW t \in Thread, EndTx(t)
  PROVE  /\ th'[t].pc = "idle" /\ th'[t].ret = th[t].ret /\ th'[t].own = th[t].own
         /\ th'[t].victim = th[t].victim /\ th'[t].holds = {}
         /\ th'[t].start = th[t].start /\ th'[t].epoch = th[t].epoch
         /\ th'[t].min = th[t].min /\ th'[t].idx = th[t].idx /\ th'[t].i = th[t].i
         /\ \A v \in Thread : v # t => th'[v] = th[v]
<1>1. th'[t] = [th[t] EXCEPT !.pc = "idle", !.holds = {}]
      /\ \A v \in Thread : v # t => th'[v] = th[v]
  BY DoesEndTx DEF Moved
<1>2. th[t] \in ThreadRec
  BY Records
<1> QED
  BY <1>1, <1>2, RecordFields

LEMMA FieldsUnlink ==
  ASSUME GcInv, NEW t \in Thread, Unlink(t)
  PROVE  /\ th'[t].pc = "committed" /\ th'[t].ret = th[t].ret /\ th'[t].own = th[t].own
         /\ th'[t].victim = {root} /\ th'[t].holds = {} /\ th'[t].start = th[t].start
         /\ th'[t].epoch = th[t].epoch /\ th'[t].min = th[t].min
         /\ th'[t].idx = th[t].idx /\ th'[t].i = th[t].i
         /\ \A v \in Thread : v # t => th'[v] = th[v]
<1>1. th'[t] = [th[t] EXCEPT !.pc = "committed", !.holds = {}, !.victim = {root}]
      /\ \A v \in Thread : v # t => th'[v] = th[v]
  BY DoesUnlink DEF Moved
<1>2. th[t] \in ThreadRec
  BY Records
<1> QED
  BY <1>1, <1>2, RecordFields

LEMMA FieldsOnCommit ==
  ASSUME GcInv, NEW t \in Thread, OnCommit(t)
  PROVE  /\ th'[t].pc = "free" /\ th'[t].ret = "idle" /\ th'[t].own = th[t].own
         /\ th'[t].victim = th[t].victim /\ th'[t].holds = th[t].holds
         /\ th'[t].start = th[t].start /\ th'[t].epoch = clock
         /\ th'[t].min = th[t].min /\ th'[t].idx = th[t].idx /\ th'[t].i = th[t].i
         /\ \A v \in Thread : v # t => th'[v] = th[v]
<1>1. th'[t] = [th[t] EXCEPT !.pc = "free", !.epoch = clock, !.ret = "idle"]
      /\ \A v \in Thread : v # t => th'[v] = th[v]
  BY DoesOnCommit DEF Moved
<1>2. th[t] \in ThreadRec
  BY Records
<1> QED
  BY <1>1, <1>2, RecordFields

LEMMA FieldsGcFree ==
  ASSUME GcInv, NEW t \in Thread, GcFree(t)
  PROVE  /\ th'[t].pc = "scan" /\ th'[t].ret = th[t].ret /\ th'[t].own = th[t].own
         /\ th'[t].victim = {} /\ th'[t].holds = th[t].holds
         /\ th'[t].start = th[t].start /\ th'[t].epoch = th[t].epoch
         /\ th'[t].min = clock /\ th'[t].idx = th[t].idx /\ th'[t].i = 1
         /\ \A v \in Thread : v # t => th'[v] = th[v]
<1>1. th'[t] = [th[t] EXCEPT !.pc = "scan", !.victim = {}, !.min = clock, !.i = 1]
      /\ \A v \in Thread : v # t => th'[v] = th[v]
  BY DoesGcFree DEF Moved
<1>2. th[t] \in ThreadRec
  BY Records
<1> QED
  BY <1>1, <1>2, RecordFields

LEMMA FieldsScanTs ==
  ASSUME GcInv, NEW t \in Thread, ScanTs(t)
  PROVE  /\ th'[t].pc = "scan" /\ th'[t].ret = th[t].ret /\ th'[t].own = th[t].own
         /\ th'[t].victim = th[t].victim /\ th'[t].holds = th[t].holds
         /\ th'[t].start = th[t].start /\ th'[t].epoch = th[t].epoch
         /\ th'[t].min = Lower(th[t].min, slots[th[t].i].ts) /\ th'[t].idx = th[t].idx
         /\ th'[t].i = th[t].i + 1
         /\ \A v \in Thread : v # t => th'[v] = th[v]
<1>1. th'[t] = [th[t] EXCEPT !.pc = "scan", !.i = th[t].i + 1,
                              !.min = Lower(th[t].min, slots[th[t].i].ts)]
      /\ \A v \in Thread : v # t => th'[v] = th[v]
  BY DoesScanTs DEF Moved
<1>2. th[t] \in ThreadRec
  BY Records
<1> QED
  BY <1>1, <1>2, RecordFields

LEMMA FieldsCleanBlocks ==
  ASSUME GcInv, NEW t \in Thread, CleanBlocks(t)
  PROVE  /\ th'[t].pc = "popped" /\ th'[t].ret = th[t].ret /\ th'[t].own = th[t].own
         /\ th'[t].victim = th[t].victim /\ th'[t].holds = th[t].holds
         /\ th'[t].start = th[t].start /\ th'[t].epoch = th[t].epoch
         /\ th'[t].min = th[t].min /\ th'[t].idx = th[t].idx /\ th'[t].i = th[t].i
         /\ \A v \in Thread : v # t => th'[v] = th[v]
<1>1. th'[t] = [th[t] EXCEPT !.pc = "popped"]
      /\ \A v \in Thread : v # t => th'[v] = th[v]
  BY DoesCleanBlocks DEF Moved
<1>2. th[t] \in ThreadRec
  BY Records
<1> QED
  BY <1>1, <1>2, RecordFields

LEMMA FieldsUnlinkRegion ==
  ASSUME GcInv, NEW t \in Thread, UnlinkRegion(t)
  PROVE  /\ th'[t].pc = "pop" /\ th'[t].ret = th[t].ret /\ th'[t].own = th[t].own
         /\ th'[t].victim = th[t].victim /\ th'[t].holds = th[t].holds
         /\ th'[t].start = th[t].start /\ th'[t].epoch = th[t].epoch
         /\ th'[t].min = th[t].min /\ th'[t].idx = th[t].idx /\ th'[t].i = th[t].i
         /\ \A v \in Thread : v # t => th'[v] = th[v]
<1>1. th'[t] = [th[t] EXCEPT !.pc = "pop"]
      /\ \A v \in Thread : v # t => th'[v] = th[v]
  BY DoesUnlinkRegion DEF Moved
<1>2. th[t] \in ThreadRec
  BY Records
<1> QED
  BY <1>1, <1>2, RecordFields

LEMMA FieldsEndCleanup ==
  ASSUME GcInv, NEW t \in Thread, EndCleanup(t)
  PROVE  /\ th'[t].pc = th[t].ret /\ th'[t].ret = th[t].ret /\ th'[t].own = th[t].own
         /\ th'[t].victim = th[t].victim /\ th'[t].holds = th[t].holds
         /\ th'[t].start = th[t].start /\ th'[t].epoch = th[t].epoch
         /\ th'[t].min = th[t].min /\ th'[t].idx = th[t].idx /\ th'[t].i = th[t].i
         /\ \A v \in Thread : v # t => th'[v] = th[v]
<1>1. th'[t] = [th[t] EXCEPT !.pc = th[t].ret]
      /\ \A v \in Thread : v # t => th'[v] = th[v]
  BY DoesEndCleanup DEF Moved
<1>2. th[t] \in ThreadRec
  BY Records
<1> QED
  BY <1>1, <1>2, RecordFields

LEMMA FieldsQuiesceExitThread ==
  ASSUME GcInv, NEW t \in Thread, QuiesceExitThread(t)
  PROVE  /\ th'[t].pc = "leaving" /\ th'[t].ret = th[t].ret /\ th'[t].own = th[t].own
         /\ th'[t].victim = th[t].victim /\ th'[t].holds = th[t].holds
         /\ th'[t].start = th[t].start /\ th'[t].epoch = th[t].epoch
         /\ th'[t].min = th[t].min /\ th'[t].idx = th[t].idx /\ th'[t].i = th[t].i
         /\ \A v \in Thread : v # t => th'[v] = th[v]
<1>1. th'[t] = [th[t] EXCEPT !.pc = "leaving"]
      /\ \A v \in Thread : v # t => th'[v] = th[v]
  BY DoesQuiesceExitThread DEF Moved
<1>2. th[t] \in ThreadRec
  BY Records
<1> QED
  BY <1>1, <1>2, RecordFields

LEMMA FieldsFreeDescriptor ==
  ASSUME GcInv, NEW t \in Thread, FreeDescriptor(t)
  PROVE  /\ th'[t].pc = "free" /\ th'[t].ret = "leave" /\ th'[t].own = {}
         /\ th'[t].victim = th[t].own /\ th'[t].holds = th[t].holds
         /\ th'[t].start = th[t].start /\ th'[t].epoch = clock
         /\ th'[t].min = th[t].min /\ th'[t].idx = th[t].idx /\ th'[t].i = th[t].i
         /\ \A v \in Thread : v # t => th'[v] = th[v]
<1>1. th'[t] = [th[t] EXCEPT !.pc = "free", !.victim = th[t].own, !.own = {},
                              !.epoch = clock, !.ret = "leave"]
      /\ \A v \in Thread : v # t => th'[v] = th[v]
  BY DoesFreeDescriptor DEF Moved
<1>2. th[t] \in ThreadRec
  BY Records
<1> QED
  BY <1>1, <1>2, RecordFields

LEMMA FieldsGcExitThread ==
  ASSUME GcInv, NEW t \in Thread, GcExitThread(t)
  PROVE  /\ th'[t].pc = "release" /\ th'[t].ret = th[t].ret /\ th'[t].own = th[t].own
         /\ th'[t].victim = th[t].victim /\ th'[t].holds = th[t].holds
         /\ th'[t].start = th[t].start /\ th'[t].epoch = th[t].epoch
         /\ th'[t].min = th[t].min /\ th'[t].idx = th[t].idx /\ th'[t].i = th[t].i
         /\ \A v \in Thread : v # t => th'[v] = th[v]
<1>1. th'[t] = [th[t] EXCEPT !.pc = "release"]
      /\ \A v \in Thread : v # t => th'[v] = th[v]
  BY DoesGcExitThread DEF Moved
<1>2. th[t] \in ThreadRec
  BY Records
<1> QED
  BY <1>1, <1>2, RecordFields

LEMMA FieldsEnterThread ==
  ASSUME GcInv, NEW t \in Thread, EnterThread(t)
  PROVE  \E b \in free :
           /\ free' = free \ {b}
           /\ th'[t].pc = "idle" /\ th'[t].ret = th[t].ret /\ th'[t].own = {b}
           /\ th'[t].victim = th[t].victim /\ th'[t].holds = th[t].holds
           /\ th'[t].start = th[t].start /\ th'[t].epoch = th[t].epoch
           /\ th'[t].min = th[t].min /\ th'[t].idx = th[t].idx /\ th'[t].i = th[t].i
           /\ \A v \in Thread : v # t => th'[v] = th[v]
<1>1. PICK b \in free : /\ free' = free \ {b}
                        /\ th'[t] = [th[t] EXCEPT !.pc = "idle", !.own = {b}]
                        /\ \A v \in Thread : v # t => th'[v] = th[v]
  BY DoesEnterThread DEF Moved
<1>2. th[t] \in ThreadRec
  BY Records
<1>3. /\ th'[t].pc = "idle" /\ th'[t].ret = th[t].ret /\ th'[t].own = {b}
      /\ th'[t].victim = th[t].victim /\ th'[t].holds = th[t].holds
      /\ th'[t].start = th[t].start /\ th'[t].epoch = th[t].epoch
      /\ th'[t].min = th[t].min /\ th'[t].idx = th[t].idx /\ th'[t].i = th[t].i
  BY <1>1, <1>2, RecordFields
<1> QED
  BY <1>1, <1>3

LEMMA FieldsGrow ==
  ASSUME GcInv, NEW t \in Thread, Grow(t)
  PROVE  \E b \in free :
           /\ free' = free \ {b}
           /\ th'[t].pc = "free" /\ th'[t].ret = "tx" /\ th'[t].own = {b}
           /\ th'[t].victim = th[t].own /\ th'[t].holds = th[t].holds
           /\ th'[t].start = th[t].start /\ th'[t].epoch = th[t].start
           /\ th'[t].min = th[t].min /\ th'[t].idx = th[t].idx /\ th'[t].i = th[t].i
           /\ \A v \in Thread : v # t => th'[v] = th[v]
<1>1. PICK b \in free : /\ free' = free \ {b}
                        /\ th'[t] = [th[t] EXCEPT !.pc = "free", !.own = {b}, !.victim = th[t].own,
                                                !.epoch = th[t].start, !.ret = "tx"]
                        /\ \A v \in Thread : v # t => th'[v] = th[v]
  BY DoesGrow DEF Moved
<1>2. th[t] \in ThreadRec
  BY Records
<1>3. /\ th'[t].pc = "free" /\ th'[t].ret = "tx" /\ th'[t].own = {b}
      /\ th'[t].victim = th[t].own /\ th'[t].holds = th[t].holds
      /\ th'[t].start = th[t].start /\ th'[t].epoch = th[t].start
      /\ th'[t].min = th[t].min /\ th'[t].idx = th[t].idx /\ th'[t].i = th[t].i
  BY <1>1, <1>2, RecordFields
<1> QED
  BY <1>1, <1>3

LEMMA FieldsReleaseSlot ==
  ASSUME GcInv, NEW t \in Thread, ReleaseSlot(t)
  PROVE  /\ th'[t].pc = "off" /\ th'[t].ret = "off" /\ th'[t].own = {}
         /\ th'[t].victim = {} /\ th'[t].holds = {} /\ th'[t].start = 0
         /\ th'[t].epoch = 0 /\ th'[t].min = 0 /\ th'[t].idx = 0 /\ th'[t].i = 1
         /\ \A v \in Thread : v # t => th'[v] = th[v]
BY DoesReleaseSlot DEF Moved, NewThread

LEMMA FieldsFindSlot ==
  ASSUME GcInv, NEW t \in Thread, FindSlot(t)
  PROVE  /\ th[t].pc = "find" /\ th'[t].pc \in {"find", "cas"}
         /\ th'[t].ret = th[t].ret /\ th'[t].own = th[t].own
         /\ th'[t].victim = th[t].victim /\ th'[t].holds = th[t].holds
         /\ th'[t].start = th[t].start /\ th'[t].epoch = th[t].epoch
         /\ th'[t].min = th[t].min /\ th'[t].idx = th[t].idx
         /\ \A v \in Thread : v # t => th'[v] = th[v]
<1>1. th[t] \in ThreadRec /\ th[t].pc = "find"
  BY Records DEF FindSlot
<1>2. CASE Moved(t, [th[t] EXCEPT !.i = Next1(th[t].i)])
  <2>1. /\ th'[t] = [th[t] EXCEPT !.i = Next1(th[t].i)]
        /\ \A v \in Thread : v # t => th'[v] = th[v]
    BY <1>2 DEF Moved
  <2> QED
    BY <1>1, <2>1, RecordFields
<1>3. CASE Moved(t, [th[t] EXCEPT !.pc = "cas", !.used = slots[th[t].i].used])
  <2>1. /\ th'[t] = [th[t] EXCEPT !.pc = "cas", !.used = slots[th[t].i].used]
        /\ \A v \in Thread : v # t => th'[v] = th[v]
    BY <1>3 DEF Moved
  <2> QED
    BY <1>1, <2>1, RecordFields
<1> QED
  BY <1>2, <1>3, DoesFindSlot

LEMMA FieldsCasSlot ==
  ASSUME GcInv, NEW t \in Thread, CasSlot(t)
  PROVE  /\ th[t].pc = "cas" /\ th'[t].pc \in {"find", "enter"}
         /\ th'[t].ret = th[t].ret /\ th'[t].own = th[t].own
         /\ th'[t].victim = th[t].victim /\ th'[t].holds = th[t].holds
         /\ th'[t].start = th[t].start /\ th'[t].epoch = th[t].epoch
         /\ th'[t].min = th[t].min
         /\ \A v \in Thread : v # t => th'[v] = th[v]
<1>1. th[t] \in ThreadRec /\ th[t].pc = "cas"
  BY Records DEF CasSlot
<1>2. CASE Moved(t, [th[t] EXCEPT !.pc = "enter", !.idx = th[t].i])
  <2>1. /\ th'[t] = [th[t] EXCEPT !.pc = "enter", !.idx = th[t].i]
        /\ \A v \in Thread : v # t => th'[v] = th[v]
    BY <1>2 DEF Moved
  <2> QED
    BY <1>1, <2>1, RecordFields
<1>3. CASE Moved(t, [th[t] EXCEPT !.pc = "find", !.i = Next1(th[t].i)])
  <2>1. /\ th'[t] = [th[t] EXCEPT !.pc = "find", !.i = Next1(th[t].i)]
        /\ \A v \in Thread : v # t => th'[v] = th[v]
    BY <1>3 DEF Moved
  <2> QED
    BY <1>1, <2>1, RecordFields
<1> QED
  BY <1>2, <1>3, DoesCasSlot

LEMMA FieldsScanUsed ==
  ASSUME GcInv, NEW t \in Thread, ScanUsed(t)
  PROVE  /\ \/ /\ th'[t].pc = "pop" /\ th'[t].i = th[t].i
               /\ th[t].i > Slots \/ slots[th[t].i].used = GcNull
            \/ /\ th'[t].pc = "scan" /\ th'[t].i = th[t].i + 1
               /\ th[t].i \in Slot /\ slots[th[t].i].used # GcBusy
            \/ /\ th'[t].pc = "scanTs" /\ th'[t].i = th[t].i
               /\ th[t].i \in Slot /\ slots[th[t].i].used = GcBusy
         /\ th'[t].ret = th[t].ret /\ th'[t].own = th[t].own
         /\ th'[t].victim = th[t].victim /\ th'[t].holds = th[t].holds
         /\ th'[t].start = th[t].start /\ th'[t].epoch = th[t].epoch
         /\ th'[t].min = th[t].min /\ th'[t].idx = th[t].idx
         /\ \A v \in Thread : v # t => th'[v] = th[v]
<1>1. th[t] \in ThreadRec /\ th[t].pc = "scan"
  BY Records DEF ScanUsed
<1>2. CASE (th[t].i > Slots \/ slots[th[t].i].used = GcNull)
           /\ Moved(t, [th[t] EXCEPT !.pc = "pop"])
  <2>1. /\ th'[t] = [th[t] EXCEPT !.pc = "pop"]
        /\ \A v \in Thread : v # t => th'[v] = th[v]
    BY <1>2 DEF Moved
  <2> QED
    BY <1>1, <1>2, <2>1, RecordFields
<1>3. CASE (th[t].i \in Slot /\ slots[th[t].i].used # GcBusy)
           /\ Moved(t, [th[t] EXCEPT !.i = th[t].i + 1])
  <2>1. /\ th'[t] = [th[t] EXCEPT !.i = th[t].i + 1]
        /\ \A v \in Thread : v # t => th'[v] = th[v]
    BY <1>3 DEF Moved
  <2> QED
    BY <1>1, <1>3, <2>1, RecordFields
<1>4. CASE (th[t].i \in Slot /\ slots[th[t].i].used = GcBusy)
           /\ Moved(t, [th[t] EXCEPT !.pc = "scanTs"])
  <2>1. /\ th'[t] = [th[t] EXCEPT !.pc = "scanTs"]
        /\ \A v \in Thread : v # t => th'[v] = th[v]
    BY <1>4 DEF Moved
  <2> QED
    BY <1>1, <1>4, <2>1, RecordFields
<1> QED
  BY <1>2, <1>3, <1>4, DoesScanUsed

\* The actions of a thread.
Step(t) ==
  \/ GcInitThread(t) \/ FindSlot(t) \/ CasSlot(t) \/ EnterThread(t)
  \/ Prepare(t) \/ GcSetEpoch(t) \/ Rollover(t)
  \/ ReadRoot(t) \/ (\E u \in Thread : Peek(t, u)) \/ EndTx(t)
  \/ Unlink(t) \/ OnCommit(t) \/ Grow(t)
  \/ GcFree(t) \/ ScanUsed(t) \/ ScanTs(t)
  \/ CleanBlocks(t) \/ UnlinkRegion(t) \/ EndCleanup(t)
  \/ QuiesceExitThread(t) \/ FreeDescriptor(t)
  \/ GcExitThread(t) \/ ReleaseSlot(t)

\* The clock roll-over resets the slots that have been used and frees their
\* blocks; every listed thread is idle meanwhile.
LEMMA DoesRollover ==
  ASSUME GcInv, NEW t \in Thread, Rollover(t)
  PROVE  /\ slots' \in [Slot -> SlotRec]
         /\ \A s \in Slot : slots'[s].used = slots[s].used /\ slots'[s].head = <<>>
         /\ \A s \in Slot : \A q \in DOMAIN slots[s].head : slots[s].head[q].blocks \subseteq free'
         /\ \A b \in Block : b \in free' =>
              b \in free \/ \E s \in Slot : \E q \in DOMAIN slots[s].head :
                              b \in slots[s].head[q].blocks
         /\ free' \in SUBSET Block
         /\ UNCHANGED <<th, root, use, nb_active>> /\ clock' = 0
<1>1. \A s \in Slot : /\ ResetSlot(s) \in SlotRec /\ ResetSlot(s).used = slots[s].used
                      /\ ResetSlot(s).head = <<>>
  <2>1. <<>> \in Seq(Region)
    OBVIOUS
  <2> QED
    BY <2>1, Records, Labels DEF ResetSlot, SlotRec
<1>2. \A s \in Slot : s \notin Reached => slots[s].head = <<>>
  <2> SUFFICES ASSUME NEW s \in Slot, s \notin Reached PROVE slots[s].used = GcNull
    BY DEF GcInv, SlotInv
  <2>1. PICK r \in 1 .. s : slots[r].used = GcNull
    BY DEF Reached
  <2>2. r \in Slot /\ (r = s \/ r < s)
    BY SlotRange DEF Slot
  <2> QED
    BY <2>1, <2>2 DEF GcInv, SlotInv
<1>3. slots' = [s \in Slot |-> IF s \in Reached THEN ResetSlot(s) ELSE slots[s]]
      /\ free' = free \cup UNION {BlocksOf(slots[s].head) : s \in Reached}
  BY DEF Rollover
<1>4. slots' \in [Slot -> SlotRec]
      /\ \A s \in Slot : slots'[s].used = slots[s].used /\ slots'[s].head = <<>>
  BY <1>1, <1>2, <1>3, Records
<1>5. \A s \in Slot : \A q \in DOMAIN slots[s].head :
         slots[s].head[q].blocks \subseteq BlocksOf(slots[s].head)
         /\ slots[s].head[q].blocks \subseteq Block
  <2> SUFFICES ASSUME NEW s \in Slot, NEW q \in DOMAIN slots[s].head
               PROVE  /\ slots[s].head[q].blocks \subseteq BlocksOf(slots[s].head)
                      /\ slots[s].head[q].blocks \subseteq Block
    OBVIOUS
  <2>1. slots[s].head \in Seq(Region)
    BY Records DEF SlotRec
  <2>2. slots[s].head[q] \in Region
    BY <2>1
  <2>3. slots[s].head[q].blocks \subseteq Block
    BY <2>2 DEF Region
  <2>4. slots[s].head[q].blocks \subseteq BlocksOf(slots[s].head)
    BY DEF BlocksOf
  <2> QED
    BY <2>3, <2>4
<1>6. \A s \in Slot : \A q \in DOMAIN slots[s].head : slots[s].head[q].blocks \subseteq free'
  <2> SUFFICES ASSUME NEW s \in Slot, NEW q \in DOMAIN slots[s].head
               PROVE  slots[s].head[q].blocks \subseteq free'
    OBVIOUS
  <2>1. s \in Reached
    BY <1>2
  <2> QED
    BY <1>3, <1>5, <2>1
<1>7. \A b : b \in free' =>
        b \in free \/ \E s \in Slot : \E q \in DOMAIN slots[s].head :
                        b \in slots[s].head[q].blocks
  <2> SUFFICES ASSUME NEW b, b \in free', b \notin free
               PROVE  \E s \in Slot : \E q \in DOMAIN slots[s].head :
                        b \in slots[s].head[q].blocks
    OBVIOUS
  <2>1. PICK s \in Reached : b \in BlocksOf(slots[s].head)
    BY <1>3
  <2>2. s \in Slot
    BY DEF Reached
  <2> QED
    BY <2>1, <2>2 DEF BlocksOf
<1>8. free' \in SUBSET Block
  BY <1>5, <1>7, Records
<1> QED
  BY <1>4, <1>6, <1>7, <1>8 DEF Rollover

LEMMA TypeStep == ASSUME GcInv, NEW t \in Thread, Step(t) PROVE GcType'
<1>0. th' \in [Thread -> ThreadRec] /\ slots' \in [Slot -> SlotRec] /\ clock' \in Nat
      /\ root' \in Block /\ free' \in SUBSET Block /\ use' \in Uses
      => GcType'
  BY DEF GcType, ThreadRec, SlotRec
<1>1. CASE GcInitThread(t)
  BY <1>0, <1>1, DoesGcInitThread, Records DEF GcInitThread, Moved
<1>2. CASE FindSlot(t)
  BY <1>0, <1>2, DoesFindSlot, Records DEF FindSlot, Moved
<1>3. CASE CasSlot(t)
  BY <1>0, <1>3, DoesCasSlot, Records DEF CasSlot, Moved, Changed
<1>4. CASE EnterThread(t)
  BY <1>0, <1>4, DoesEnterThread, SlotEnterThread, Records DEF EnterThread, Moved, Changed
<1>5. CASE Prepare(t)
  BY <1>0, <1>5, DoesPrepare, Records DEF Prepare, Moved
<1>6. CASE GcSetEpoch(t)
  BY <1>0, <1>6, DoesGcSetEpoch, SlotGcSetEpoch, Records DEF GcSetEpoch, Moved, Changed
<1>7. CASE Rollover(t)
  BY <1>0, <1>7, DoesRollover, Records
<1>8. CASE ReadRoot(t)
  BY <1>0, <1>8, DoesReadRoot, Records DEF ReadRoot, Moved
<1>9. ASSUME NEW u \in Thread, Peek(t, u) PROVE GcType'
  BY <1>0, <1>9, DoesPeek, Records DEF Peek, Moved
<1>10. CASE EndTx(t)
  BY <1>0, <1>10, DoesEndTx, Records DEF EndTx, Moved
<1>11. CASE Unlink(t)
  <2>1. root' \in Block /\ free' \in SUBSET Block /\ clock' \in Nat
    BY <1>11, Records DEF Unlink
  <2> QED
    BY <1>0, <1>11, <2>1, DoesUnlink, Records DEF Unlink, Moved
<1>12. CASE OnCommit(t)
  BY <1>0, <1>12, DoesOnCommit, Records DEF OnCommit, Moved
<1>13. CASE Grow(t)
  BY <1>0, <1>13, DoesGrow, Records DEF Grow, Moved
<1>14. CASE GcFree(t)
  BY <1>0, <1>14, DoesGcFree, SlotGcFree, Records DEF GcFree, Moved, Changed
<1>15. CASE ScanUsed(t)
  BY <1>0, <1>15, DoesScanUsed, Records DEF ScanUsed, Moved
<1>16. CASE ScanTs(t)
  BY <1>0, <1>16, DoesScanTs, Records DEF ScanTs, Moved
<1>17. CASE CleanBlocks(t)
  <2>1. Regions(t) \in Seq(Region)
    BY <1>17, HasSlot DEF CleanBlocks
  <2>2. 1 \in DOMAIN Regions(t)
    BY <1>17 DEF CleanBlocks, Old
  <2>5. Regions(t)[1] \in Region
    BY <2>1, <2>2
  <2>3. Regions(t)[1].blocks \subseteq Block
    BY <2>5 DEF Region
  <2>4. free' \in SUBSET Block
    BY <1>17, <2>3, Records DEF CleanBlocks
  <2> QED
    BY <1>0, <1>17, <2>4, DoesCleanBlocks, Records DEF CleanBlocks, Moved
<1>18. CASE UnlinkRegion(t)
  BY <1>0, <1>18, DoesUnlinkRegion, SlotUnlinkRegion, Records DEF UnlinkRegion, Moved, Changed
<1>19. CASE EndCleanup(t)
  BY <1>0, <1>19, DoesEndCleanup, Records DEF EndCleanup, Moved
<1>20. CASE QuiesceExitThread(t)
  BY <1>0, <1>20, DoesQuiesceExitThread, Records DEF QuiesceExitThread, Moved
<1>21. CASE FreeDescriptor(t)
  BY <1>0, <1>21, DoesFreeDescriptor, Records DEF FreeDescriptor, Moved
<1>22. CASE GcExitThread(t)
  BY <1>0, <1>22, DoesGcExitThread, SlotGcExitThread, Records DEF GcExitThread, Moved, Changed
<1>23. CASE ReleaseSlot(t)
  BY <1>0, <1>23, DoesReleaseSlot, SlotReleaseSlot, Records DEF ReleaseSlot, Moved, Changed
<1> QED
  BY <1>1, <1>2, <1>3, <1>4, <1>5, <1>6, <1>7, <1>8, <1>9, <1>10, <1>11, <1>12, <1>13,
     <1>14, <1>15, <1>16, <1>17, <1>18, <1>19, <1>20, <1>21, <1>22, <1>23 DEF Step

-----------------------------------------------------------------------------
(* Slots.                                                                  *)

\* A step that moves no thread between slots and changes no slot's state.
SlotFrame ==
  /\ \A u \in Thread :
       /\ th'[u].idx = th[u].idx
       /\ \/ th'[u].pc = th[u].pc /\ th'[u].i = th[u].i /\ th'[u].used = th[u].used
          \/ th[u].pc \notin {"off", "find", "cas"} /\ th'[u].pc \notin {"off", "find", "cas"}
  /\ \A s \in Slot : /\ slots'[s].used = slots[s].used
                     /\ slots[s].used = GcNull => slots'[s].head = slots[s].head

LEMMA SlotFrameKeeps == ASSUME GcInv, SlotFrame PROVE SlotInv'
<1>0. \A u \in Thread : th[u].idx \in Slot \/ th[u].idx = 0
  BY Records, SlotRange DEF ThreadRec, Slot
<1>1. \A u \in Thread :
       /\ th'[u].idx = 0 <=> th'[u].pc \in {"off", "find", "cas"}
       /\ th'[u].idx # 0 => slots'[th'[u].idx].used = GcBusy
  BY <1>0 DEF SlotFrame, GcInv, SlotInv
<1>5. \A u \in Thread : th'[u].pc = "cas" =>
         /\ th'[u].used # GcBusy
         /\ th'[u].used # GcNull => slots'[th'[u].i].used # GcNull
  BY DEF SlotFrame, GcInv, SlotInv
<1>2. \A u \in Thread : th'[u].pc \in {"find", "cas"} =>
         th'[u].i \in Slot /\ \A r \in Slot : r < th'[u].i => slots'[r].used # GcNull
  BY DEF SlotFrame, GcInv, SlotInv
<1>3. \A u, v \in Thread : u # v /\ th'[u].idx # 0 => th'[u].idx # th'[v].idx
  BY DEF SlotFrame, GcInv, SlotInv
<1>4. /\ \A s \in Slot : slots'[s].used = GcBusy => \E u \in Thread : th'[u].idx = s
      /\ \A s, r \in Slot : r < s /\ slots'[s].used # GcNull => slots'[r].used # GcNull
      /\ \A s \in Slot : slots'[s].used = GcNull => slots'[s].head = <<>>
  BY DEF SlotFrame, GcInv, SlotInv
<1> QED
  BY <1>1, <1>2, <1>3, <1>4, <1>5 DEF SlotInv

\* The last two sets of labels tell registering threads from registered ones.
LEMMA SlotMoved ==
  ASSUME GcInv, NEW t \in Thread, NEW new, Moved(t, new),
         new.idx = th[t].idx,
         th[t].pc \notin {"off", "find", "cas"}, new.pc \notin {"off", "find", "cas"},
         \A s \in Slot : /\ slots'[s].used = slots[s].used
                         /\ slots[s].used = GcNull => slots'[s].head = slots[s].head
  PROVE  SlotInv'
<1>1. th'[t] = new /\ \A u \in Thread : u # t => th'[u] = th[u]
  BY DEF Moved
<1>2. SlotFrame
  BY <1>1 DEF SlotFrame
<1> QED
  BY <1>2, SlotFrameKeeps

\* Changing a busy slot without changing its state.
LEMMA BusyChanged ==
  ASSUME GcInv, NEW s \in Slot, slots[s].used = GcBusy, NEW new,
         Changed(s, new), new.used = GcBusy
  PROVE  \A r \in Slot : /\ slots'[r].used = slots[r].used
                         /\ slots[r].used = GcNull => slots'[r].head = slots[r].head
BY DEF Changed, GcBusy, GcNull

LEMMA SlotStep == ASSUME GcInv, NEW t \in Thread, Step(t) PROVE SlotInv'
<1> DEFINE Same == \A r \in Slot : /\ slots'[r].used = slots[r].used
                                   /\ slots[r].used = GcNull => slots'[r].head = slots[r].head
           Out == {"off", "find", "cas"}
<1>0. th[t] \in ThreadRec /\ (th[t].pc \notin Out => th[t].idx \in Slot /\ slots[th[t].idx].used = GcBusy)
  BY Records, HasSlot
<1>a. ASSUME NEW new, Moved(t, new), new.idx = th[t].idx, th[t].pc \notin Out, new.pc \notin Out,
             Same
      PROVE  SlotInv'
  BY <1>a, SlotMoved
<1>b. ASSUME NEW new, Changed(th[t].idx, new), new.used = slots[th[t].idx].used, th[t].pc \notin Out
      PROVE  Same
  BY <1>0, <1>b, BusyChanged
<1>c. slots' = slots => Same
  OBVIOUS
<1>1. CASE GcInitThread(t)
  <2>1. Moved(t, [th[t] EXCEPT !.pc = "find", !.i = 1]) /\ slots' = slots /\ th[t].pc = "off"
    BY <1>1, DoesGcInitThread DEF GcInitThread
  <2>2. /\ th'[t].pc = "find" /\ th'[t].i = 1 /\ th'[t].idx = th[t].idx
        /\ \A u \in Thread : u # t => th'[u] = th[u]
    BY <1>0, <2>1 DEF Moved, ThreadRec
  <2>3. \A r \in Slot : ~ r < 1
    BY SlotRange
  <2> QED
    BY <2>1, <2>2, <2>3, SlotRange DEF GcInv, SlotInv
<1>2. CASE FindSlot(t)
  <2>1. /\ th[t].pc = "find" /\ slots' = slots /\ th[t].i \in Slot
    BY <1>2, DoesFindSlot DEF FindSlot
  <2>2. /\ th'[t].idx = th[t].idx /\ th'[t].pc \in {"find", "cas"}
        /\ th'[t].pc = "cas" => /\ th'[t].used # GcBusy /\ th'[t].i = th[t].i
                                /\ th'[t].used = slots[th[t].i].used
        /\ th'[t].i = th[t].i \/ (th'[t].i = Next1(th[t].i) /\ slots[th[t].i].used = GcBusy)
        /\ \A u \in Thread : u # t => th'[u] = th[u]
    <3>1. CASE slots[th[t].i].used = GcBusy
      <4>1. Moved(t, [th[t] EXCEPT !.i = Next1(th[t].i)])
        BY <1>2, <3>1, DoesFindSlot
      <4> QED
        BY <1>0, <2>1, <3>1, <4>1 DEF Moved, ThreadRec
    <3>2. CASE slots[th[t].i].used # GcBusy
      <4>1. Moved(t, [th[t] EXCEPT !.pc = "cas", !.used = slots[th[t].i].used])
        BY <1>2, <3>2, DoesFindSlot
      <4> QED
        BY <1>0, <2>1, <3>2, <4>1 DEF Moved, ThreadRec
    <3> QED
      BY <3>1, <3>2
  <2>3. th'[t].i \in Slot /\ \A r \in Slot : r < th'[t].i => slots[r].used # GcNull
    <3>1. \A r \in Slot : r < th[t].i => slots[r].used # GcNull
      BY <2>1 DEF GcInv, SlotInv
    <3>2. CASE th'[t].i = Next1(th[t].i) /\ slots[th[t].i].used = GcBusy
      BY <2>1, <3>1, <3>2, NextSlot, NextAfter DEF GcBusy, GcNull
    <3> QED
      BY <2>1, <2>2, <3>1, <3>2
  <2> QED
    BY <2>1, <2>2, <2>3 DEF GcInv, SlotInv
<1>3. CASE CasSlot(t)
  <2>1. th[t].pc = "cas" /\ th[t].i \in Slot /\ th[t].idx = 0 /\ th[t].used # GcBusy
    BY <1>3, DoesCasSlot DEF CasSlot, GcInv, SlotInv
  <2>2. CASE CasSucceeds(t)
    <3>1. /\ th'[t].pc = "enter" /\ th'[t].idx = th[t].i
          /\ \A u \in Thread : u # t => th'[u] = th[u]
      BY <1>0, <1>3, <2>2, DoesCasSlot DEF Moved, ThreadRec
    <3>2. /\ slots'[th[t].i].used = GcBusy /\ slots'[th[t].i].head = slots[th[t].i].head
          /\ \A r \in Slot : r # th[t].i => slots'[r] = slots[r]
      BY <1>3, <2>1, <2>2, DoesCasSlot, Records DEF Changed, SlotRec
    <3>3. slots[th[t].i].used # GcBusy /\ th[t].i # 0
      BY <2>1, <2>2, SlotRange DEF CasSucceeds
    <3>4. \A u \in Thread : u # t => th[u].idx # th[t].i
      BY <3>3 DEF GcInv, SlotInv
    <3>5. \A u \in Thread : th[u].idx # 0 => th[u].idx \in Slot
      BY Records, SlotRange DEF ThreadRec, Slot
    <3>6. \A r \in Slot : r < th[t].i => slots[r].used # GcNull
      BY <2>1 DEF GcInv, SlotInv
    <3>7. \A u \in Thread :
            /\ th'[u].idx = 0 <=> th'[u].pc \in {"off", "find", "cas"}
            /\ th'[u].idx # 0 => slots'[th'[u].idx].used = GcBusy
      BY <3>1, <3>2, <3>3, <3>4, <3>5 DEF GcInv, SlotInv
    <3>8. \A r \in Slot : slots'[r].used = GcNull => slots[r].used = GcNull /\ r # th[t].i
      BY <3>2 DEF GcNull, GcBusy
    <3>9. \A u \in Thread : th'[u].pc \in {"find", "cas"} =>
            th'[u].i \in Slot /\ \A r \in Slot : r < th'[u].i => slots'[r].used # GcNull
      BY <3>1, <3>8 DEF GcInv, SlotInv
    <3>14. \A u \in Thread : th'[u].pc = "cas" =>
             /\ th'[u].used # GcBusy
             /\ th'[u].used # GcNull => slots'[th'[u].i].used # GcNull
      BY <3>1, <3>8 DEF GcInv, SlotInv
    <3>10. \A u, v \in Thread : u # v /\ th'[u].idx # 0 => th'[u].idx # th'[v].idx
      BY <3>1, <3>3, <3>4 DEF GcInv, SlotInv
    <3>11. \A s \in Slot : slots'[s].used = GcBusy => \E u \in Thread : th'[u].idx = s
      <4> SUFFICES ASSUME NEW s \in Slot, slots'[s].used = GcBusy, s # th[t].i
                   PROVE  \E u \in Thread : th'[u].idx = s
        BY <3>1
      <4>1. PICK u \in Thread : th[u].idx = s
        BY <3>2 DEF GcInv, SlotInv
      <4>2. u # t
        BY <2>1, <4>1, SlotRange
      <4> QED
        BY <3>1, <4>1, <4>2
    <3>12. \A s, r \in Slot : r < s /\ slots'[s].used # GcNull => slots'[r].used # GcNull
      <4> SUFFICES ASSUME NEW s \in Slot, NEW r \in Slot, r < s, slots'[s].used # GcNull,
                          slots'[r].used = GcNull
                   PROVE  FALSE
        OBVIOUS
      <4>1. slots[r].used = GcNull
        BY <3>8
      <4>2. CASE s = th[t].i
        BY <3>6, <4>1, <4>2
      <4>3. CASE s # th[t].i
        BY <3>2, <4>1, <4>3 DEF GcInv, SlotInv
      <4> QED
        BY <4>2, <4>3
    <3>13. \A s \in Slot : slots'[s].used = GcNull => slots'[s].head = <<>>
      BY <3>2, <3>8 DEF GcInv, SlotInv
    <3> QED
      BY <3>7, <3>9, <3>10, <3>11, <3>12, <3>13, <3>14 DEF SlotInv
  <2>3. CASE ~ CasSucceeds(t)
    <3>1. /\ th'[t].pc = "find" /\ th'[t].idx = th[t].idx /\ th'[t].i = Next1(th[t].i)
          /\ \A u \in Thread : u # t => th'[u] = th[u]
          /\ slots' = slots
      BY <1>0, <1>3, <2>3, DoesCasSlot DEF Moved, ThreadRec, CasSlot
    <3>2. slots[th[t].i].used # GcNull
      BY <2>1, <2>3 DEF CasSucceeds, GcInv, SlotInv
    <3>3. th'[t].i \in Slot /\ \A r \in Slot : r < th'[t].i => slots[r].used # GcNull
      <4>1. \A r \in Slot : r < th[t].i => slots[r].used # GcNull
        BY <2>1 DEF GcInv, SlotInv
      <4> QED
        BY <2>1, <3>1, <3>2, <4>1, NextSlot, NextAfter
    <3> QED
      BY <2>1, <3>1, <3>3 DEF GcInv, SlotInv
  <2> QED
    BY <2>2, <2>3
<1>4. CASE EnterThread(t)
  <2>0. th[t].pc = "enter"
    BY <1>4 DEF EnterThread
  <2>1. Same
    BY <1>0, <1>4, <1>b, <2>0, SlotEnterThread, Records DEF SlotRec
  <2>2. PICK b \in free : Moved(t, [th[t] EXCEPT !.pc = "idle", !.own = {b}])
    BY <1>4, DoesEnterThread
  <2> QED
    BY <1>0, <1>4, <1>a, <2>1, <2>2 DEF EnterThread, ThreadRec
<1>5. CASE Rollover(t)
  <2>1. SlotFrame
    BY <1>5, DoesRollover DEF SlotFrame, GcInv, SlotInv
  <2> QED
    BY <2>1, SlotFrameKeeps
<1>6. CASE Prepare(t)
  BY <1>0, <1>6, <1>a, <1>c, DoesPrepare DEF Prepare, ThreadRec
<1>7. CASE ReadRoot(t)
  BY <1>0, <1>7, <1>a, <1>c, DoesReadRoot DEF ReadRoot, ThreadRec
<1>8. CASE EndTx(t)
  BY <1>0, <1>8, <1>a, <1>c, DoesEndTx DEF EndTx, ThreadRec
<1>9. CASE Unlink(t)
  BY <1>0, <1>9, <1>a, <1>c, DoesUnlink DEF Unlink, ThreadRec
<1>10. CASE OnCommit(t)
  BY <1>0, <1>10, <1>a, <1>c, DoesOnCommit DEF OnCommit, ThreadRec
<1>11. CASE CleanBlocks(t)
  BY <1>0, <1>11, <1>a, <1>c, DoesCleanBlocks DEF CleanBlocks, ThreadRec
<1>12. CASE QuiesceExitThread(t)
  BY <1>0, <1>12, <1>a, <1>c, DoesQuiesceExitThread DEF QuiesceExitThread, ThreadRec
<1>13. CASE FreeDescriptor(t)
  BY <1>0, <1>13, <1>a, <1>c, DoesFreeDescriptor DEF FreeDescriptor, ThreadRec
<1>14. ASSUME NEW u \in Thread, Peek(t, u) PROVE SlotInv'
  BY <1>0, <1>14, <1>a, <1>c, DoesPeek DEF Peek, ThreadRec
<1>15. CASE EndCleanup(t)
  <2>1. th[t].ret \notin Out
    BY <1>0, <1>15 DEF EndCleanup, GcInv, StageInv, Stage, Cleaning, ThreadRec
  <2> QED
    BY <1>0, <1>15, <1>a, <1>c, <2>1, DoesEndCleanup DEF EndCleanup, ThreadRec
<1>16. CASE Grow(t)
  BY <1>0, <1>16, <1>a, <1>c, DoesGrow DEF Grow, ThreadRec
<1>17. CASE ScanUsed(t)
  BY <1>0, <1>17, <1>a, <1>c, DoesScanUsed DEF ScanUsed, ThreadRec
<1>18. CASE ScanTs(t)
  BY <1>0, <1>18, <1>a, <1>c, DoesScanTs DEF ScanTs, ThreadRec
<1>19. CASE GcSetEpoch(t)
  <2>1. Same
    BY <1>0, <1>19, <1>b, SlotGcSetEpoch, Records DEF GcSetEpoch, SlotRec
  <2> QED
    BY <1>0, <1>19, <1>a, <2>1, DoesGcSetEpoch DEF GcSetEpoch, ThreadRec
<1>20. CASE GcFree(t)
  <2>1. Same
    BY <1>0, <1>20, <1>b, SlotGcFree, Records DEF GcFree, SlotRec
  <2> QED
    BY <1>0, <1>20, <1>a, <2>1, DoesGcFree DEF GcFree, ThreadRec
<1>21. CASE UnlinkRegion(t)
  <2>1. Same
    BY <1>0, <1>21, <1>b, SlotUnlinkRegion, Records DEF UnlinkRegion, SlotRec
  <2> QED
    BY <1>0, <1>21, <1>a, <2>1, DoesUnlinkRegion DEF UnlinkRegion, ThreadRec
<1>22. CASE GcExitThread(t)
  <2>1. Same
    BY <1>0, <1>22, <1>b, SlotGcExitThread, Records DEF GcExitThread, SlotRec
  <2> QED
    BY <1>0, <1>22, <1>a, <2>1, DoesGcExitThread DEF GcExitThread, ThreadRec
<1>23. CASE ReleaseSlot(t)
  <2> DEFINE idx == th[t].idx
  <2>1. idx \in Slot /\ th[t].pc = "release" /\ slots[idx].used = GcBusy
    BY <1>0, <1>23 DEF ReleaseSlot
  <2>2. /\ th'[t].pc = "off" /\ th'[t].idx = 0
        /\ \A u \in Thread : u # t => th'[u] = th[u]
    BY <1>23, DoesReleaseSlot DEF Moved, NewThread
  <2>3. /\ slots'[idx].used \notin {GcNull, GcBusy}
        /\ \A r \in Slot : r # idx => slots'[r] = slots[r]
    BY <1>23, SlotReleaseSlot, Records DEF Changed, SlotRec, ReleasedAs, GcNull, GcBusy,
       GcFreeEmpty, GcFreeFull
  <2>4. \A u \in Thread : u # t => th[u].idx # idx
    BY <2>1, SlotRange DEF GcInv, SlotInv
  <2>5. \A u \in Thread : th[u].idx # 0 => th[u].idx \in Slot
    BY Records, SlotRange DEF ThreadRec, Slot
  <2> HIDE DEF idx
  <2>6. \A u \in Thread :
          /\ th'[u].idx = 0 <=> th'[u].pc \in {"off", "find", "cas"}
          /\ th'[u].idx # 0 => slots'[th'[u].idx].used = GcBusy
    BY <2>2, <2>3, <2>4, <2>5 DEF GcInv, SlotInv
  <2>7. \A r \in Slot : slots'[r].used = GcNull <=> slots[r].used = GcNull
    BY <2>1, <2>3 DEF GcNull, GcBusy, idx
  <2>8. \A u \in Thread : th'[u].pc \in {"find", "cas"} =>
          th'[u].i \in Slot /\ \A r \in Slot : r < th'[u].i => slots'[r].used # GcNull
    BY <2>2, <2>7 DEF GcInv, SlotInv
  <2>9. \A u \in Thread : th'[u].pc = "cas" =>
          /\ th'[u].used # GcBusy
          /\ th'[u].used # GcNull => slots'[th'[u].i].used # GcNull
    BY <2>2, <2>7, <2>8 DEF GcInv, SlotInv
  <2>10. \A u, v \in Thread : u # v /\ th'[u].idx # 0 => th'[u].idx # th'[v].idx
    BY <2>2 DEF GcInv, SlotInv
  <2>11. \A s \in Slot : slots'[s].used = GcBusy => \E u \in Thread : th'[u].idx = s
    <3> SUFFICES ASSUME NEW s \in Slot, slots'[s].used = GcBusy
                 PROVE  \E u \in Thread : th'[u].idx = s
      OBVIOUS
    <3>1. s # idx /\ slots[s].used = GcBusy
      BY <2>3
    <3>2. PICK u \in Thread : th[u].idx = s
      BY <3>1 DEF GcInv, SlotInv
    <3>3. u # t
      BY <3>1, <3>2 DEF idx
    <3> QED
      BY <2>2, <3>2, <3>3
  <2>12. /\ \A s, r \in Slot : r < s /\ slots'[s].used # GcNull => slots'[r].used # GcNull
         /\ \A s \in Slot : slots'[s].used = GcNull => slots'[s].head = <<>>
    BY <2>1, <2>3, <2>7 DEF GcInv, SlotInv
  <2> QED
    BY <2>6, <2>8, <2>9, <2>10, <2>11, <2>12 DEF SlotInv
<1> QED
  BY <1>1, <1>2, <1>3, <1>4, <1>5, <1>6, <1>7, <1>8, <1>9, <1>10, <1>11, <1>12, <1>13,
     <1>14, <1>15, <1>16, <1>17, <1>18, <1>19, <1>20, <1>21, <1>22, <1>23 DEF Step

-----------------------------------------------------------------------------
(* The number of threads.                                                  *)

LEMMA CountMoved ==
  ASSUME GcInv, NEW t \in Thread, NEW new, Moved(t, new), th[t].pc # "off", new.pc # "off",
         nb_active' = nb_active
  PROVE  CountInv'
<1>1. {u \in Thread : th'[u].pc # "off"} = {u \in Thread : th[u].pc # "off"}
  BY DEF Moved
<1> QED
  BY <1>1 DEF GcInv, CountInv

LEMMA CountStep == ASSUME GcInv, NEW t \in Thread, Step(t) PROVE CountInv'
<1> DEFINE S == {u \in Thread : th[u].pc # "off"}
<1>0. th[t] \in ThreadRec
  BY Records
<1>a. IsFiniteSet(S) /\ nb_active = Cardinality(S) /\ Cardinality(S) \in Nat
  BY GcAssumption, FS_Subset, FS_CardinalityType DEF GcInv, CountInv
<1>b. ASSUME NEW new, Moved(t, new), th[t].pc # "off", new.pc # "off", nb_active' = nb_active
      PROVE  CountInv'
  BY <1>b, CountMoved
<1>1. CASE GcInitThread(t)
  <2>1. Moved(t, [th[t] EXCEPT !.pc = "find", !.i = 1]) /\ nb_active' = nb_active + 1 /\ th[t].pc = "off"
    BY <1>1, DoesGcInitThread DEF GcInitThread
  <2>2. th'[t].pc = "find" /\ \A u \in Thread : u # t => th'[u] = th[u]
    BY <1>0, <2>1 DEF Moved, ThreadRec
  <2>3. {u \in Thread : th'[u].pc # "off"} = S \cup {t} /\ t \notin S
    BY <2>1, <2>2
  <2> HIDE DEF S
  <2>4. Cardinality(S \cup {t}) = Cardinality(S) + 1
    BY <1>a, <2>3, FS_AddElement
  <2> QED
    BY <1>a, <2>1, <2>3, <2>4 DEF CountInv
<1>2. CASE FindSlot(t)
  <2>1. th[t].pc = "find" /\ nb_active' = nb_active 
    BY <1>2 DEF FindSlot
  <2> QED
    BY <1>0, <1>2, <1>b, <2>1, DoesFindSlot DEF ThreadRec
<1>3. CASE CasSlot(t)
  <2>1. th[t].pc = "cas" /\ nb_active' = nb_active 
    BY <1>3 DEF CasSlot
  <2> QED
    BY <1>0, <1>3, <1>b, <2>1, DoesCasSlot DEF ThreadRec
<1>4. CASE EnterThread(t)
  <2>1. th[t].pc = "enter" /\ nb_active' = nb_active 
    BY <1>4 DEF EnterThread
  <2> QED
    BY <1>0, <1>4, <1>b, <2>1, DoesEnterThread DEF ThreadRec
<1>5. CASE Prepare(t)
  BY <1>0, <1>5, <1>b, DoesPrepare DEF Prepare, ThreadRec
<1>6. CASE GcSetEpoch(t)
  BY <1>0, <1>6, <1>b, DoesGcSetEpoch DEF GcSetEpoch, ThreadRec
<1>7. CASE Rollover(t)
  BY <1>7, DoesRollover DEF GcInv, CountInv
<1>8. CASE ReadRoot(t)
  BY <1>0, <1>8, <1>b, DoesReadRoot DEF ReadRoot, ThreadRec
<1>9. ASSUME NEW u \in Thread, Peek(t, u) PROVE CountInv'
  BY <1>0, <1>9, <1>b, DoesPeek DEF Peek, ThreadRec
<1>10. CASE EndTx(t)
  BY <1>0, <1>10, <1>b, DoesEndTx DEF EndTx, ThreadRec
<1>11. CASE Unlink(t)
  BY <1>0, <1>11, <1>b, DoesUnlink DEF Unlink, ThreadRec
<1>12. CASE OnCommit(t)
  BY <1>0, <1>12, <1>b, DoesOnCommit DEF OnCommit, ThreadRec
<1>13. CASE Grow(t)
  <2>1. th[t].pc = "tx" /\ nb_active' = nb_active 
    BY <1>13 DEF Grow
  <2> QED
    BY <1>0, <1>13, <1>b, <2>1, DoesGrow DEF ThreadRec
<1>14. CASE GcFree(t)
  BY <1>0, <1>14, <1>b, DoesGcFree DEF GcFree, ThreadRec
<1>15. CASE ScanUsed(t)
  <2>1. th[t].pc = "scan" /\ nb_active' = nb_active 
    BY <1>15 DEF ScanUsed
  <2> QED
    BY <1>0, <1>15, <1>b, <2>1, DoesScanUsed DEF ThreadRec
<1>16. CASE ScanTs(t)
  BY <1>0, <1>16, <1>b, DoesScanTs DEF ScanTs, ThreadRec
<1>17. CASE CleanBlocks(t)
  BY <1>0, <1>17, <1>b, DoesCleanBlocks DEF CleanBlocks, ThreadRec
<1>18. CASE UnlinkRegion(t)
  BY <1>0, <1>18, <1>b, DoesUnlinkRegion DEF UnlinkRegion, ThreadRec
<1>19. CASE EndCleanup(t)
  <2>1. th[t].pc = "pop" /\ nb_active' = nb_active /\ th[t].ret # "off"
    BY <1>19 DEF EndCleanup, GcInv, StageInv, Stage, Cleaning
  <2> QED
    BY <1>0, <1>19, <1>b, <2>1, DoesEndCleanup DEF ThreadRec
<1>20. CASE QuiesceExitThread(t)
  BY <1>0, <1>20, <1>b, DoesQuiesceExitThread DEF QuiesceExitThread, ThreadRec
<1>21. CASE FreeDescriptor(t)
  BY <1>0, <1>21, <1>b, DoesFreeDescriptor DEF FreeDescriptor, ThreadRec
<1>22. CASE GcExitThread(t)
  BY <1>0, <1>22, <1>b, DoesGcExitThread DEF GcExitThread, ThreadRec
<1>23. CASE ReleaseSlot(t)
  <2>1. Moved(t, NewThread) /\ nb_active' = nb_active - 1 /\ th[t].pc # "off"
    BY <1>23, DoesReleaseSlot DEF ReleaseSlot
  <2>2. th'[t].pc = "off" /\ \A u \in Thread : u # t => th'[u] = th[u]
    BY <2>1 DEF Moved, NewThread
  <2>3. {u \in Thread : th'[u].pc # "off"} = S \ {t} /\ t \in S
    BY <2>1, <2>2
  <2> HIDE DEF S
  <2>4. Cardinality(S \ {t}) = Cardinality(S) - 1
    BY <1>a, <2>3, FS_RemoveElement
  <2> QED
    BY <1>a, <2>1, <2>3, <2>4 DEF CountInv
<1> QED
  BY <1>1, <1>2, <1>3, <1>4, <1>5, <1>6, <1>7, <1>8, <1>9, <1>10, <1>11, <1>12, <1>13,
     <1>14, <1>15, <1>16, <1>17, <1>18, <1>19, <1>20, <1>21, <1>22, <1>23 DEF Step

-----------------------------------------------------------------------------
(* Stages.                                                                 *)

\* A thread that does not move keeps its stage when its slot keeps its epoch
\* and its regions and the clock does not go back.
LEMMA StageOther ==
  ASSUME GcInv, NEW u \in Thread, th'[u] = th[u], use' = use,
         th[u].idx # 0 => /\ slots'[th[u].idx].ts = slots[th[u].idx].ts
                          /\ slots'[th[u].idx].head = slots[th[u].idx].head,
         clock' \in Nat, clock' >= clock
  PROVE  Stage(u)'
<1>1. Stage(u) /\ (th[u].pc \notin {"off", "find", "cas"} => th[u].idx # 0)
  BY DEF GcInv, StageInv, SlotInv
<1>2. InTx(u)' <=> InTx(u)
  BY DEF InTx
<1>3. InTx(u) => th[u].idx # 0
  BY <1>1 DEF InTx, Cleaning
<1>4. th[u].start \in Nat /\ clock \in Nat
  BY Records DEF ThreadRec
<1>5. InTx(u)' => slots'[th'[u].idx].ts = th'[u].start
  BY <1>1, <1>2, <1>3 DEF Stage
<1>6. InTx(u)' \/ th'[u].pc = "prepared" => th'[u].start <= clock'
  BY <1>1, <1>2, <1>4 DEF Stage
<1>7. th'[u].pc = "popped" => Regions(u)' # <<>>
  BY <1>1 DEF Stage, Regions
<1> QED
  BY <1>1, <1>2, <1>5, <1>6, <1>7 DEF Stage

\* Another thread's slot is not touched.
LEMMA OtherSlots ==
  ASSUME GcInv, NEW t \in Thread, th[t].idx # 0, NEW new, Changed(th[t].idx, new)
  PROVE  \A u \in Thread : u # t /\ th[u].idx # 0 => slots'[th[u].idx] = slots[th[u].idx]
BY Records, SlotRange DEF GcInv, SlotInv, Changed, ThreadRec, Slot

LEMMA StageStep == ASSUME SafeUses, GcInv, NEW t \in Thread, Step(t) PROVE StageInv'
<1>0. th[t] \in ThreadRec /\ Stage(t) /\ clock \in Nat
  BY Records, Labels DEF GcInv, StageInv
<1>s. th[t].start \in Nat /\ th[t].ret \in {"off", "idle", "tx", "leave"}
      /\ (th[t].holds # {} => InTx(t)) /\ (th[t].victim # {} => th[t].pc \in {"committed", "free"})
  BY <1>0 DEF ThreadRec, Stage
<1>i. th[t].pc \notin {"off", "find", "cas"} => th[t].idx \in Slot /\ th[t].idx # 0
  BY HasSlot DEF GcInv, SlotInv
<1>a. ASSUME NEW new, Moved(t, new), slots' = slots, clock' = clock, use' = use
      PROVE  \A u \in Thread : u # t => Stage(u)'
  BY <1>0, <1>a, StageOther DEF Moved
<1>b. ASSUME NEW new, Moved(t, new), NEW s, Changed(th[t].idx, s), th[t].idx # 0,
             clock' = clock, use' = use
      PROVE  \A u \in Thread : u # t => Stage(u)'
  <2>1. \A u \in Thread : u # t => th'[u] = th[u]
    BY <1>b DEF Moved
  <2>2. \A u \in Thread : u # t /\ th[u].idx # 0 => slots'[th[u].idx] = slots[th[u].idx]
    BY <1>b, OtherSlots
  <2>3. clock' \in Nat /\ clock' >= clock
    BY <1>0, <1>b
  <2> QED
    BY <1>b, <2>1, <2>2, <2>3, StageOther
<1>c. Stage(t)' /\ (\A u \in Thread : u # t => Stage(u)') => StageInv'
  BY DEF StageInv
<1>1. CASE GcInitThread(t)
  <2>0. th[t].pc = "off" /\ use' = use /\ clock' = clock /\ slots' = slots
    BY <1>1 DEF GcInitThread
  <2>1. \A v \in Thread : v # t => Stage(v)'
    BY <1>1, <1>a, <2>0, DoesGcInitThread
  <2>2. Stage(t)'
    BY <1>0, <1>i, <1>1, <2>0, <1>s, FieldsGcInitThread DEF Stage, InTx, Cleaning, Regions
  <2> QED
    BY <1>c, <2>1, <2>2
<1>2. CASE FindSlot(t)
  <2>0. th[t].pc = "find" /\ use' = use /\ clock' = clock /\ slots' = slots
    BY <1>2 DEF FindSlot
  <2>1. \A v \in Thread : v # t => Stage(v)'
    BY <1>2, <1>a, <2>0, DoesFindSlot
  <2>2. Stage(t)'
    BY <1>0, <1>i, <1>2, <2>0, <1>s, FieldsFindSlot DEF Stage, InTx, Cleaning, Regions
  <2> QED
    BY <1>c, <2>1, <2>2
<1>3. CASE CasSlot(t)
  <2>0. th[t].pc = "cas" /\ use' = use /\ clock' = clock
    BY <1>3 DEF CasSlot
  <2>1. \A v \in Thread : v # t => Stage(v)'
    <3>1. CASE ~ CasSucceeds(t)
      BY <1>3, <1>a, <2>0, <3>1, DoesCasSlot
    <3>2. CASE CasSucceeds(t)
      <4>1. \A s \in Slot : slots'[s].ts = slots[s].ts /\ slots'[s].head = slots[s].head
        BY <1>3, <3>2, DoesCasSlot, Records DEF Changed, SlotRec
      <4>2. \A v \in Thread : th[v].idx # 0 => th[v].idx \in Slot
        BY Records, SlotRange DEF ThreadRec, Slot
      <4>3. \A v \in Thread : v # t => th'[v] = th[v]
        BY <1>3, <3>2, DoesCasSlot DEF Moved
      <4> QED
        BY <1>0, <2>0, <4>1, <4>2, <4>3, StageOther
    <3> QED
      BY <3>1, <3>2
  <2>2. Stage(t)'
    BY <1>0, <1>i, <1>3, <2>0, <1>s, FieldsCasSlot DEF Stage, InTx, Cleaning, Regions
  <2> QED
    BY <1>c, <2>1, <2>2
<1>4. CASE EnterThread(t)
  <2>0. th[t].pc = "enter" /\ use' = use /\ clock' = clock
    BY <1>4 DEF EnterThread
  <2>1. \A v \in Thread : v # t => Stage(v)'
    BY <1>4, <1>i, <1>b, <2>0, DoesEnterThread, SlotEnterThread
  <2>2. Stage(t)'
    BY <1>0, <1>i, <1>4, <2>0, <1>s, FieldsEnterThread DEF Stage, InTx, Cleaning, Regions
  <2> QED
    BY <1>c, <2>1, <2>2
<1>5. CASE Prepare(t)
  <2>0. th[t].pc = "idle" /\ use' = use /\ clock' = clock /\ slots' = slots
    BY <1>5 DEF Prepare
  <2>1. \A v \in Thread : v # t => Stage(v)'
    BY <1>5, <1>a, <2>0, DoesPrepare
  <2>2. Stage(t)'
    BY <1>0, <1>i, <1>5, <2>0, <1>s, FieldsPrepare DEF Stage, InTx, Cleaning, Regions
  <2> QED
    BY <1>c, <2>1, <2>2
<1>6. CASE GcSetEpoch(t)
  <2>0. th[t].pc = "prepared" /\ use' = use /\ clock' = clock
    BY <1>6 DEF GcSetEpoch
  <2>1. \A v \in Thread : v # t => Stage(v)'
    BY <1>6, <1>i, <1>b, <2>0, DoesGcSetEpoch, SlotGcSetEpoch
  <2>4. slots'[th[t].idx].ts = th[t].start
    BY <1>6, <1>i, <2>0, SlotGcSetEpoch, Records DEF Changed, SlotRec
  <2>2. Stage(t)'
    BY <1>0, <1>i, <1>6, <2>0, <2>4, <1>s, FieldsGcSetEpoch DEF Stage, InTx, Cleaning, Regions
  <2> QED
    BY <1>c, <2>1, <2>2
<1>7. CASE Rollover(t)
  <2>2. ASSUME NEW u \in Thread PROVE Stage(u)'
    <3>1. Stage(u) /\ th'[u] = th[u] /\ use' = use
      BY <1>7, DoesRollover DEF GcInv, StageInv
    <3>2. Listed(u) => th[u].pc = "idle"
      BY <1>7 DEF Rollover
    <3>3. ~ InTx(u) /\ th[u].pc # "prepared"
      BY <3>1, <3>2 DEF InTx, Listed, Stage, Cleaning
    <3>5. "exit" \notin use
      BY <1>7, Records DEF Rollover, SafeUses
    <3>4. th[u].pc # "popped"
      BY <3>1, <3>2, <3>5 DEF Listed, Stage, Cleaning
    <3> QED
      BY <3>1, <3>3, <3>4 DEF Stage, InTx, Cleaning
  <2> QED
    BY <2>2 DEF StageInv
<1>8. CASE ReadRoot(t)
  <2>0. th[t].pc = "tx" /\ use' = use /\ clock' = clock /\ slots' = slots
    BY <1>8 DEF ReadRoot
  <2>1. \A v \in Thread : v # t => Stage(v)'
    BY <1>8, <1>a, <2>0, DoesReadRoot
  <2>2. Stage(t)'
    BY <1>0, <1>i, <1>8, <2>0, <1>s, FieldsReadRoot DEF Stage, InTx, Cleaning, Regions
  <2> QED
    BY <1>c, <2>1, <2>2
<1>9. ASSUME NEW u \in Thread, Peek(t, u) PROVE StageInv'
  <2>0. th[t].pc = "tx" /\ use' = use /\ clock' = clock /\ slots' = slots
    BY <1>9 DEF Peek
  <2>1. \A v \in Thread : v # t => Stage(v)'
    BY <1>9, <1>a, <2>0, DoesPeek
  <2>2. Stage(t)'
    BY <1>0, <1>i, <1>9, <2>0, <1>s, FieldsPeek DEF Stage, InTx, Cleaning, Regions
  <2> QED
    BY <1>c, <2>1, <2>2
<1>10. CASE EndTx(t)
  <2>0. th[t].pc = "tx" /\ use' = use /\ clock' = clock /\ slots' = slots
    BY <1>10 DEF EndTx
  <2>1. \A v \in Thread : v # t => Stage(v)'
    BY <1>10, <1>a, <2>0, DoesEndTx
  <2>2. Stage(t)'
    BY <1>0, <1>i, <1>10, <2>0, <1>s, FieldsEndTx DEF Stage, InTx, Cleaning, Regions
  <2> QED
    BY <1>c, <2>1, <2>2
<1>11. CASE Unlink(t)
  <2>0. th[t].pc = "tx" /\ use' = use /\ clock' = clock + 1 /\ slots' = slots
    BY <1>11 DEF Unlink
  <2>1. \A v \in Thread : v # t => Stage(v)'
    <3>1. \A v \in Thread : v # t => th'[v] = th[v]
      BY <1>11, DoesUnlink DEF Moved
    <3>2. clock' \in Nat /\ clock' >= clock
      BY <1>0, <2>0
    <3> QED
      BY <2>0, <3>1, <3>2, StageOther
  <2>2. Stage(t)'
    BY <1>0, <1>i, <1>11, <2>0, <1>s, FieldsUnlink DEF Stage, InTx, Cleaning, Regions
  <2> QED
    BY <1>c, <2>1, <2>2
<1>12. CASE OnCommit(t)
  <2>0. th[t].pc = "committed" /\ use' = use /\ clock' = clock /\ slots' = slots
    BY <1>12 DEF OnCommit
  <2>1. \A v \in Thread : v # t => Stage(v)'
    BY <1>12, <1>a, <2>0, DoesOnCommit
  <2>2. Stage(t)'
    BY <1>0, <1>i, <1>12, <2>0, <1>s, FieldsOnCommit DEF Stage, InTx, Cleaning, Regions
  <2> QED
    BY <1>c, <2>1, <2>2
<1>13. CASE Grow(t)
  <2>0. th[t].pc = "tx" /\ use' = use /\ clock' = clock /\ slots' = slots
    BY <1>13 DEF Grow
  <2>1. \A v \in Thread : v # t => Stage(v)'
    BY <1>13, <1>a, <2>0, DoesGrow
  <2>2. Stage(t)'
    BY <1>0, <1>i, <1>13, <2>0, <1>s, FieldsGrow DEF Stage, InTx, Cleaning, Regions
  <2> QED
    BY <1>c, <2>1, <2>2
<1>14. CASE GcFree(t)
  <2>0. th[t].pc = "free" /\ use' = use /\ clock' = clock
    BY <1>14 DEF GcFree
  <2>1. \A v \in Thread : v # t => Stage(v)'
    BY <1>14, <1>i, <1>b, <2>0, DoesGcFree, SlotGcFree
  <2>2. Stage(t)'
    <3>1. /\ th'[t].pc = "scan" /\ th'[t].ret = th[t].ret /\ th'[t].own = th[t].own
          /\ th'[t].victim = {} /\ th'[t].holds = th[t].holds
          /\ th'[t].start = th[t].start /\ th'[t].idx = th[t].idx /\ th'[t].i = 1
      BY <1>14, FieldsGcFree
    <3>2. slots'[th[t].idx].ts = slots[th[t].idx].ts
      BY <1>14, <1>i, <2>0, SlotGcFree, Records DEF Changed, SlotRec
    <3> QED
      BY <1>0, <1>i, <2>0, <3>1, <3>2, <1>s DEF Stage, InTx, Cleaning, Regions
  <2> QED
    BY <1>c, <2>1, <2>2
<1>15. CASE ScanUsed(t)
  <2>0. th[t].pc = "scan" /\ use' = use /\ clock' = clock /\ slots' = slots
    BY <1>15 DEF ScanUsed
  <2>1. \A v \in Thread : v # t => Stage(v)'
    BY <1>15, <1>a, <2>0, DoesScanUsed
  <2>2. Stage(t)'
    BY <1>0, <1>i, <1>15, <2>0, <1>s, FieldsScanUsed DEF Stage, InTx, Cleaning, Regions
  <2> QED
    BY <1>c, <2>1, <2>2
<1>16. CASE ScanTs(t)
  <2>0. th[t].pc = "scanTs" /\ use' = use /\ clock' = clock /\ slots' = slots
    BY <1>16 DEF ScanTs
  <2>1. \A v \in Thread : v # t => Stage(v)'
    BY <1>16, <1>a, <2>0, DoesScanTs
  <2>2. Stage(t)'
    BY <1>0, <1>i, <1>16, <2>0, <1>s, FieldsScanTs DEF Stage, InTx, Cleaning, Regions
  <2> QED
    BY <1>c, <2>1, <2>2
<1>17. CASE CleanBlocks(t)
  <2>0. th[t].pc = "pop" /\ use' = use /\ clock' = clock /\ slots' = slots
    BY <1>17 DEF CleanBlocks
  <2>1. \A v \in Thread : v # t => Stage(v)'
    BY <1>17, <1>a, <2>0, DoesCleanBlocks
  <2>4. Regions(t) # <<>>
    BY <1>17 DEF CleanBlocks, Old
  <2>2. Stage(t)'
    BY <1>0, <1>i, <1>17, <2>0, <2>4, <1>s, FieldsCleanBlocks DEF Stage, InTx, Cleaning, Regions
  <2> QED
    BY <1>c, <2>1, <2>2
<1>18. CASE UnlinkRegion(t)
  <2>0. th[t].pc = "popped" /\ use' = use /\ clock' = clock
    BY <1>18 DEF UnlinkRegion
  <2>1. \A v \in Thread : v # t => Stage(v)'
    BY <1>18, <1>i, <1>b, <2>0, DoesUnlinkRegion, SlotUnlinkRegion
  <2>2. Stage(t)'
    <3>1. /\ th'[t].pc = "pop" /\ th'[t].ret = th[t].ret /\ th'[t].own = th[t].own
          /\ th'[t].victim = th[t].victim /\ th'[t].holds = th[t].holds
          /\ th'[t].start = th[t].start /\ th'[t].idx = th[t].idx /\ th'[t].i = th[t].i
      BY <1>18, FieldsUnlinkRegion
    <3>2. slots'[th[t].idx].ts = slots[th[t].idx].ts
      BY <1>18, <1>i, <2>0, SlotUnlinkRegion, Records DEF Changed, SlotRec
    <3> QED
      BY <1>0, <1>i, <2>0, <3>1, <3>2, <1>s DEF Stage, InTx, Cleaning, Regions
  <2> QED
    BY <1>c, <2>1, <2>2
<1>19. CASE EndCleanup(t)
  <2>0. th[t].pc = "pop" /\ use' = use /\ clock' = clock /\ slots' = slots
    BY <1>19 DEF EndCleanup
  <2>1. \A v \in Thread : v # t => Stage(v)'
    BY <1>19, <1>a, <2>0, DoesEndCleanup
  <2>2. Stage(t)'
    <3>1. /\ th'[t].pc = th[t].ret /\ th'[t].ret = th[t].ret /\ th'[t].own = th[t].own
          /\ th'[t].victim = th[t].victim /\ th'[t].holds = th[t].holds
          /\ th'[t].start = th[t].start /\ th'[t].idx = th[t].idx /\ th'[t].i = th[t].i
      BY <1>19, FieldsEndCleanup
    <3>2. CASE th[t].ret = "idle"
      BY <1>0, <1>i, <2>0, <3>1, <3>2, <1>s DEF Stage, InTx, Cleaning, Regions
    <3>3. CASE th[t].ret = "tx"
      BY <1>0, <1>i, <2>0, <3>1, <3>3, <1>s DEF Stage, InTx, Cleaning, Regions
    <3>4. CASE th[t].ret = "leave"
      BY <1>0, <1>i, <2>0, <3>1, <3>4, <1>s DEF Stage, InTx, Cleaning, Regions
    <3> QED
      BY <1>0, <1>s, <2>0, <3>2, <3>3, <3>4 DEF Stage, Cleaning
  <2> QED
    BY <1>c, <2>1, <2>2
<1>20. CASE QuiesceExitThread(t)
  <2>0. th[t].pc = "idle" /\ use' = use /\ clock' = clock /\ slots' = slots
    BY <1>20 DEF QuiesceExitThread
  <2>1. \A v \in Thread : v # t => Stage(v)'
    BY <1>20, <1>a, <2>0, DoesQuiesceExitThread
  <2>4. "exit" \in use
    BY <1>20 DEF QuiesceExitThread
  <2>2. Stage(t)'
    BY <1>0, <1>i, <1>20, <2>0, <2>4, <1>s, FieldsQuiesceExitThread DEF Stage, InTx, Cleaning, Regions
  <2> QED
    BY <1>c, <2>1, <2>2
<1>21. CASE FreeDescriptor(t)
  <2>0. th[t].pc = "leaving" /\ use' = use /\ clock' = clock /\ slots' = slots
    BY <1>21 DEF FreeDescriptor
  <2>1. \A v \in Thread : v # t => Stage(v)'
    BY <1>21, <1>a, <2>0, DoesFreeDescriptor
  <2>2. Stage(t)'
    BY <1>0, <1>i, <1>21, <2>0, <1>s, FieldsFreeDescriptor DEF Stage, InTx, Cleaning, Regions
  <2> QED
    BY <1>c, <2>1, <2>2
<1>22. CASE GcExitThread(t)
  <2>0. th[t].pc = "leave" /\ use' = use /\ clock' = clock
    BY <1>22 DEF GcExitThread
  <2>1. \A v \in Thread : v # t => Stage(v)'
    BY <1>22, <1>i, <1>b, <2>0, DoesGcExitThread, SlotGcExitThread
  <2>2. Stage(t)'
    BY <1>0, <1>i, <1>22, <2>0, <1>s, FieldsGcExitThread DEF Stage, InTx, Cleaning, Regions
  <2> QED
    BY <1>c, <2>1, <2>2
<1>23. CASE ReleaseSlot(t)
  <2>0. th[t].pc = "release" /\ use' = use /\ clock' = clock
    BY <1>23 DEF ReleaseSlot
  <2>1. \A v \in Thread : v # t => Stage(v)'
    BY <1>23, <1>i, <1>b, <2>0, DoesReleaseSlot, SlotReleaseSlot
  <2>2. Stage(t)'
    BY <1>0, <1>i, <1>23, <2>0, <1>s, FieldsReleaseSlot DEF Stage, InTx, Cleaning, Regions
  <2> QED
    BY <1>c, <2>1, <2>2
<1> QED
  BY <1>1, <1>2, <1>3, <1>4, <1>5, <1>6, <1>7, <1>8, <1>9, <1>10, <1>11, <1>12, <1>13,
     <1>14, <1>15, <1>16, <1>17, <1>18, <1>19, <1>20, <1>21, <1>22, <1>23 DEF Step

-----------------------------------------------------------------------------
(* The region lists.                                                       *)

\* No thread is between the two halves of a pop of slot s, so that all
\* regions of s hold blocks.
LEMMA ListWhole ==
  ASSUME NEW s, \A v \in Thread : ~ (th[v].pc = "popped" /\ th[v].idx = s)
  PROVE  RegionsOf(s) = slots[s].head
BY DEF RegionsOf

LEMMA ListRest ==
  ASSUME NEW v \in Thread, th[v].pc = "popped"
  PROVE  RegionsOf(th[v].idx) = SubSeq(slots[th[v].idx].head, 2, Len(slots[th[v].idx].head))
BY DEF RegionsOf

LEMMA ListType == ASSUME GcInv, NEW s \in Slot PROVE RegionsOf(s) \in Seq(Region)
<1>1. slots[s].head \in Seq(Region)
  BY Records DEF SlotRec
<1>2. CASE \E v \in Thread : th[v].pc = "popped" /\ th[v].idx = s
  <2>1. PICK v \in Thread : th[v].pc = "popped" /\ th[v].idx = s
    BY <1>2
  <2>2. slots[s].head # <<>>
    BY <2>1 DEF GcInv, StageInv, Stage, Regions
  <2> QED
    BY <1>1, <2>1, <2>2, ListRest, RestRegions
<1> QED
  BY <1>1, <1>2, ListWhole

LEMMA RegionType ==
  ASSUME GcInv, NEW s \in Slot, NEW q \in DOMAIN RegionsOf(s)
  PROVE  RegionsOf(s)[q].ts \in Nat /\ RegionsOf(s)[q].blocks \subseteq Block
<1>1. RegionsOf(s) \in Seq(Region)
  BY ListType
<1>2. RegionsOf(s)[q] \in Region
  BY <1>1
<1> QED
  BY <1>2 DEF Region

\* Only one thread owns a slot.
LEMMA OneOwner ==
  ASSUME GcInv, NEW t \in Thread, NEW v \in Thread, th[t].pc \notin {"off", "find", "cas"},
         th[v].idx = th[t].idx
  PROVE  v = t
BY DEF GcInv, SlotInv

\* The lists as they are seen by the places do not change.
ListsSame == \A s \in Slot : RegionsOf(s)' = RegionsOf(s)

LEMMA ListFrame ==
  ASSUME NEW t \in Thread, \A v \in Thread : v # t => th'[v] = th[v],
         th[t].pc # "popped", th'[t].pc # "popped",
         \A s \in Slot : slots'[s].head = slots[s].head
  PROVE  ListsSame
<1> SUFFICES ASSUME NEW s \in Slot PROVE RegionsOf(s)' = RegionsOf(s)
  BY DEF ListsSame
<1>1. (\E v \in Thread : th[v].pc = "popped" /\ th[v].idx = s)'
      <=> (\E v \in Thread : th[v].pc = "popped" /\ th[v].idx = s)
  OBVIOUS
<1> QED
  BY <1>1 DEF RegionsOf

\* Unlinking a region whose blocks have been freed.
LEMMA UnlinkRegionLists == ASSUME GcInv, NEW t \in Thread, UnlinkRegion(t) PROVE ListsSame
<1> DEFINE idx == th[t].idx
<1>1. /\ th[t].pc = "popped" /\ th'[t].pc = "pop" /\ th'[t].idx = idx
      /\ \A v \in Thread : v # t => th'[v] = th[v]
  BY FieldsUnlinkRegion DEF UnlinkRegion
<1>2. /\ idx \in Slot /\ slots'[idx].head = WithoutHead(Regions(t))
      /\ \A r \in Slot : r # idx => slots'[r] = slots[r]
  BY SlotUnlinkRegion, Records DEF Changed, SlotRec
<1>3. Regions(t) \in Seq(Region) /\ Regions(t) # <<>> /\ Regions(t) = slots[idx].head
  BY <1>1, HasSlot DEF GcInv, StageInv, Stage, Regions
<1>4. slots'[idx].head = SubSeq(slots[idx].head, 2, Len(slots[idx].head))
  BY <1>2, <1>3, WithoutHeadRegions
<1>5. \A v \in Thread : th'[v].pc = "popped" => v # t /\ th[v].pc = "popped" /\ th[v].idx # idx
  BY <1>1, OneOwner
<1> SUFFICES ASSUME NEW s \in Slot PROVE RegionsOf(s)' = RegionsOf(s)
  BY DEF ListsSame
<1>6. CASE s = idx
  <2>1. RegionsOf(s) = SubSeq(slots[idx].head, 2, Len(slots[idx].head))
    BY <1>1, <1>6, ListRest
  <2>2. ~ \E v \in Thread : th'[v].pc = "popped" /\ th'[v].idx = s
    BY <1>1, <1>5, <1>6
  <2>3. RegionsOf(s)' = slots'[s].head
    BY <2>2 DEF RegionsOf
  <2> QED
    BY <1>4, <1>6, <2>1, <2>3
<1>7. CASE s # idx
  <2>1. (\E v \in Thread : th[v].pc = "popped" /\ th[v].idx = s)'
        <=> (\E v \in Thread : th[v].pc = "popped" /\ th[v].idx = s)
    BY <1>1, <1>7
  <2> QED
    BY <1>2, <1>7, <2>1 DEF RegionsOf
<1> QED
  BY <1>6, <1>7

\* gc_free changes the list of the thread's own slot only.
LEMMA GcFreeLists ==
  ASSUME GcInv, NEW t \in Thread, GcFree(t)
  PROVE  \E idx \in Slot :
           /\ idx = th[t].idx
           /\ RegionsOf(idx) \in Seq(Region)
           /\ RegionsOf(idx)' = Appended(RegionsOf(idx), th[t].victim, th[t].epoch)
           /\ \A s \in Slot : s # idx => RegionsOf(s)' = RegionsOf(s)
<1>0. PICK idx \in Slot : idx = th[t].idx
  BY HasSlot DEF GcFree
<1>1. /\ th[t].pc = "free" /\ th'[t].pc = "scan" /\ th'[t].idx = idx
      /\ \A v \in Thread : v # t => th'[v] = th[v]
  BY <1>0, FieldsGcFree DEF GcFree
<1>2. /\ slots'[idx].head = Appended(slots[idx].head, th[t].victim, th[t].epoch)
      /\ \A r \in Slot : r # idx => slots'[r] = slots[r]
  BY <1>0, SlotGcFree, Records DEF Changed, SlotRec, Regions
<1>3. \A s \in Slot : (\E v \in Thread : th[v].pc = "popped" /\ th[v].idx = s)'
                       <=> (\E v \in Thread : th[v].pc = "popped" /\ th[v].idx = s)
  BY <1>1
<1>4. \A v \in Thread : ~ (th[v].pc = "popped" /\ th[v].idx = idx)
  BY <1>0, <1>1, OneOwner
<1>5. RegionsOf(idx) = slots[idx].head /\ RegionsOf(idx) \in Seq(Region)
  BY <1>4, ListWhole, ListType
<1>6. RegionsOf(idx)' = slots'[idx].head
  BY <1>1, <1>2, <1>3, <1>4 DEF RegionsOf
<1>7. \A s \in Slot : s # idx => RegionsOf(s)' = RegionsOf(s)
  BY <1>2, <1>3 DEF RegionsOf
<1> QED
  BY <1>0, <1>2, <1>5, <1>6, <1>7

\* Freeing the blocks of the head region takes them out of the list.
LEMMA CleanBlocksLists ==
  ASSUME GcInv, NEW t \in Thread, CleanBlocks(t)
  PROVE  \E idx \in Slot :
           /\ idx = th[t].idx
           /\ RegionsOf(idx) \in Seq(Region) /\ RegionsOf(idx) # <<>>
           /\ RegionsOf(idx) = Regions(t)
           /\ RegionsOf(idx)' = SubSeq(RegionsOf(idx), 2, Len(RegionsOf(idx)))
           /\ \A s \in Slot : s # idx => RegionsOf(s)' = RegionsOf(s)
<1>0. PICK idx \in Slot : idx = th[t].idx
  BY HasSlot DEF CleanBlocks
<1>1. /\ th[t].pc = "pop" /\ th'[t].pc = "popped" /\ th'[t].idx = idx
      /\ slots' = slots
      /\ \A v \in Thread : v # t => th'[v] = th[v]
  BY <1>0, FieldsCleanBlocks DEF CleanBlocks
<1>3. Regions(t) # <<>>
  BY DEF CleanBlocks, Old
<1>4. \A v \in Thread : ~ (th[v].pc = "popped" /\ th[v].idx = idx)
  BY <1>0, <1>1, OneOwner
<1>5. RegionsOf(idx) = slots[idx].head /\ RegionsOf(idx) \in Seq(Region)
  BY <1>4, ListWhole, ListType
<1>6. RegionsOf(idx)' = SubSeq(slots[idx].head, 2, Len(slots[idx].head))
  BY <1>1 DEF RegionsOf
<1>7. \A s \in Slot : s # idx =>
        ((\E v \in Thread : th[v].pc = "popped" /\ th[v].idx = s)'
                       <=> (\E v \in Thread : th[v].pc = "popped" /\ th[v].idx = s))
  BY <1>1
<1>8. \A s \in Slot : s # idx => RegionsOf(s)' = RegionsOf(s)
  BY <1>1, <1>7 DEF RegionsOf
<1> QED
  BY <1>0, <1>1, <1>3, <1>5, <1>6, <1>8 DEF Regions

\* When the clock is rolled over nobody is inside the collector.
LEMMA RolloverIdle ==
  ASSUME SafeUses, GcInv, NEW t \in Thread, Rollover(t), NEW v \in Thread
  PROVE  th[v].pc \in {"off", "find", "cas", "enter", "idle"} /\ th[v].holds = {}
<1>1. Stage(v) /\ (Listed(v) => th[v].pc = "idle") /\ "exit" \notin use /\ th[v].pc \in Pcs
  BY Records DEF Rollover, SafeUses, GcInv, StageInv, ThreadRec
<1>2. th[v].pc \in {"off", "find", "cas", "enter", "idle"}
  BY <1>1, Labels DEF Stage, Listed
<1> QED
  BY <1>1, <1>2 DEF Stage, InTx, Cleaning

LEMMA RolloverLists ==
  ASSUME SafeUses, GcInv, NEW t \in Thread, Rollover(t), NEW s \in Slot
  PROVE  RegionsOf(s) = slots[s].head /\ RegionsOf(s)' = <<>>
<1>1. \A v \in Thread : th[v].pc # "popped" /\ th'[v] = th[v]
  BY RolloverIdle, DoesRollover
<1>2. RegionsOf(s) = slots[s].head
  BY <1>1, ListWhole
<1>3. RegionsOf(s)' = slots'[s].head
  BY <1>1 DEF RegionsOf
<1> QED
  BY <1>2, <1>3, DoesRollover

\* The steps that neither hand over blocks nor free any.
LEMMA RegionsSame ==
  ASSUME GcInv, NEW t \in Thread, Step(t), ~ GcFree(t), ~ CleanBlocks(t), ~ Rollover(t)
  PROVE  ListsSame
<1>0. slots' = slots => \A s \in Slot : slots'[s].head = slots[s].head
  OBVIOUS
<1>r. th[t].ret # "popped"
  BY Records DEF ThreadRec
<1>1. CASE GcInitThread(t)
  <2>1. th[t].pc = "off"
    BY <1>1 DEF GcInitThread
  <2>2. \A s \in Slot : slots'[s].head = slots[s].head
    BY <1>1, <1>0 DEF GcInitThread
  <2>3. th'[t].pc # "popped" /\ \A v \in Thread : v # t => th'[v] = th[v]
    BY <1>1, <1>r, <2>1, FieldsGcInitThread
  <2> QED
    BY <2>1, <2>2, <2>3, ListFrame
<1>2. CASE FindSlot(t)
  <2>1. th[t].pc = "find"
    BY <1>2 DEF FindSlot
  <2>2. \A s \in Slot : slots'[s].head = slots[s].head
    BY <1>2, <1>0 DEF FindSlot
  <2>3. th'[t].pc # "popped" /\ \A v \in Thread : v # t => th'[v] = th[v]
    BY <1>2, <1>r, <2>1, FieldsFindSlot
  <2> QED
    BY <2>1, <2>2, <2>3, ListFrame
<1>3. CASE CasSlot(t)
  <2>1. th[t].pc = "cas"
    BY <1>3 DEF CasSlot
  <2>2. \A s \in Slot : slots'[s].head = slots[s].head
    BY <1>3, DoesCasSlot, Records DEF Changed, SlotRec
  <2>3. th'[t].pc # "popped" /\ \A v \in Thread : v # t => th'[v] = th[v]
    BY <1>3, <1>r, <2>1, FieldsCasSlot
  <2> QED
    BY <2>1, <2>2, <2>3, ListFrame
<1>4. CASE EnterThread(t)
  <2>1. th[t].pc = "enter"
    BY <1>4 DEF EnterThread
  <2>2. \A s \in Slot : slots'[s].head = slots[s].head
    BY <1>4, SlotEnterThread, Records DEF Changed, SlotRec
  <2>3. th'[t].pc # "popped" /\ \A v \in Thread : v # t => th'[v] = th[v]
    BY <1>4, <1>r, <2>1, FieldsEnterThread
  <2> QED
    BY <2>1, <2>2, <2>3, ListFrame
<1>5. CASE Prepare(t)
  <2>1. th[t].pc = "idle"
    BY <1>5 DEF Prepare
  <2>2. \A s \in Slot : slots'[s].head = slots[s].head
    BY <1>5, <1>0 DEF Prepare
  <2>3. th'[t].pc # "popped" /\ \A v \in Thread : v # t => th'[v] = th[v]
    BY <1>5, <1>r, <2>1, FieldsPrepare
  <2> QED
    BY <2>1, <2>2, <2>3, ListFrame
<1>6. CASE GcSetEpoch(t)
  <2>1. th[t].pc = "prepared"
    BY <1>6 DEF GcSetEpoch
  <2>2. \A s \in Slot : slots'[s].head = slots[s].head
    BY <1>6, SlotGcSetEpoch, Records DEF Changed, SlotRec
  <2>3. th'[t].pc # "popped" /\ \A v \in Thread : v # t => th'[v] = th[v]
    BY <1>6, <1>r, <2>1, FieldsGcSetEpoch
  <2> QED
    BY <2>1, <2>2, <2>3, ListFrame
<1>7. CASE ReadRoot(t)
  <2>1. th[t].pc = "tx"
    BY <1>7 DEF ReadRoot
  <2>2. \A s \in Slot : slots'[s].head = slots[s].head
    BY <1>7, <1>0 DEF ReadRoot
  <2>3. th'[t].pc # "popped" /\ \A v \in Thread : v # t => th'[v] = th[v]
    BY <1>7, <1>r, <2>1, FieldsReadRoot
  <2> QED
    BY <2>1, <2>2, <2>3, ListFrame
<1>8. ASSUME NEW u \in Thread, Peek(t, u) PROVE ListsSame
  <2>1. th[t].pc = "tx"
    BY <1>8 DEF Peek
  <2>2. \A s \in Slot : slots'[s].head = slots[s].head
    BY <1>8, <1>0 DEF Peek
  <2>3. th'[t].pc # "popped" /\ \A v \in Thread : v # t => th'[v] = th[v]
    BY <1>8, <1>r, <2>1, FieldsPeek
  <2> QED
    BY <2>1, <2>2, <2>3, ListFrame
<1>9. CASE EndTx(t)
  <2>1. th[t].pc = "tx"
    BY <1>9 DEF EndTx
  <2>2. \A s \in Slot : slots'[s].head = slots[s].head
    BY <1>9, <1>0 DEF EndTx
  <2>3. th'[t].pc # "popped" /\ \A v \in Thread : v # t => th'[v] = th[v]
    BY <1>9, <1>r, <2>1, FieldsEndTx
  <2> QED
    BY <2>1, <2>2, <2>3, ListFrame
<1>10. CASE Unlink(t)
  <2>1. th[t].pc = "tx"
    BY <1>10 DEF Unlink
  <2>2. \A s \in Slot : slots'[s].head = slots[s].head
    BY <1>10, <1>0 DEF Unlink
  <2>3. th'[t].pc # "popped" /\ \A v \in Thread : v # t => th'[v] = th[v]
    BY <1>10, <1>r, <2>1, FieldsUnlink
  <2> QED
    BY <2>1, <2>2, <2>3, ListFrame
<1>11. CASE OnCommit(t)
  <2>1. th[t].pc = "committed"
    BY <1>11 DEF OnCommit
  <2>2. \A s \in Slot : slots'[s].head = slots[s].head
    BY <1>11, <1>0 DEF OnCommit
  <2>3. th'[t].pc # "popped" /\ \A v \in Thread : v # t => th'[v] = th[v]
    BY <1>11, <1>r, <2>1, FieldsOnCommit
  <2> QED
    BY <2>1, <2>2, <2>3, ListFrame
<1>12. CASE Grow(t)
  <2>1. th[t].pc = "tx"
    BY <1>12 DEF Grow
  <2>2. \A s \in Slot : slots'[s].head = slots[s].head
    BY <1>12, <1>0 DEF Grow
  <2>3. th'[t].pc # "popped" /\ \A v \in Thread : v # t => th'[v] = th[v]
    BY <1>12, <1>r, <2>1, FieldsGrow
  <2> QED
    BY <2>1, <2>2, <2>3, ListFrame
<1>13. CASE ScanUsed(t)
  <2>1. th[t].pc = "scan"
    BY <1>13 DEF ScanUsed
  <2>2. \A s \in Slot : slots'[s].head = slots[s].head
    BY <1>13, <1>0 DEF ScanUsed
  <2>3. th'[t].pc # "popped" /\ \A v \in Thread : v # t => th'[v] = th[v]
    BY <1>13, <1>r, <2>1, FieldsScanUsed
  <2> QED
    BY <2>1, <2>2, <2>3, ListFrame
<1>14. CASE ScanTs(t)
  <2>1. th[t].pc = "scanTs"
    BY <1>14 DEF ScanTs
  <2>2. \A s \in Slot : slots'[s].head = slots[s].head
    BY <1>14, <1>0 DEF ScanTs
  <2>3. th'[t].pc # "popped" /\ \A v \in Thread : v # t => th'[v] = th[v]
    BY <1>14, <1>r, <2>1, FieldsScanTs
  <2> QED
    BY <2>1, <2>2, <2>3, ListFrame
<1>15. CASE UnlinkRegion(t)
  BY <1>15, UnlinkRegionLists
<1>16. CASE EndCleanup(t)
  <2>1. th[t].pc = "pop"
    BY <1>16 DEF EndCleanup
  <2>2. \A s \in Slot : slots'[s].head = slots[s].head
    BY <1>16, <1>0 DEF EndCleanup
  <2>3. th'[t].pc # "popped" /\ \A v \in Thread : v # t => th'[v] = th[v]
    BY <1>16, <1>r, <2>1, FieldsEndCleanup
  <2> QED
    BY <2>1, <2>2, <2>3, ListFrame
<1>17. CASE QuiesceExitThread(t)
  <2>1. th[t].pc = "idle"
    BY <1>17 DEF QuiesceExitThread
  <2>2. \A s \in Slot : slots'[s].head = slots[s].head
    BY <1>17, <1>0 DEF QuiesceExitThread
  <2>3. th'[t].pc # "popped" /\ \A v \in Thread : v # t => th'[v] = th[v]
    BY <1>17, <1>r, <2>1, FieldsQuiesceExitThread
  <2> QED
    BY <2>1, <2>2, <2>3, ListFrame
<1>18. CASE FreeDescriptor(t)
  <2>1. th[t].pc = "leaving"
    BY <1>18 DEF FreeDescriptor
  <2>2. \A s \in Slot : slots'[s].head = slots[s].head
    BY <1>18, <1>0 DEF FreeDescriptor
  <2>3. th'[t].pc # "popped" /\ \A v \in Thread : v # t => th'[v] = th[v]
    BY <1>18, <1>r, <2>1, FieldsFreeDescriptor
  <2> QED
    BY <2>1, <2>2, <2>3, ListFrame
<1>19. CASE GcExitThread(t)
  <2>1. th[t].pc = "leave"
    BY <1>19 DEF GcExitThread
  <2>2. \A s \in Slot : slots'[s].head = slots[s].head
    BY <1>19, SlotGcExitThread, Records DEF Changed, SlotRec
  <2>3. th'[t].pc # "popped" /\ \A v \in Thread : v # t => th'[v] = th[v]
    BY <1>19, <1>r, <2>1, FieldsGcExitThread
  <2> QED
    BY <2>1, <2>2, <2>3, ListFrame
<1>20. CASE ReleaseSlot(t)
  <2>1. th[t].pc = "release"
    BY <1>20 DEF ReleaseSlot
  <2>2. \A s \in Slot : slots'[s].head = slots[s].head
    BY <1>20, SlotReleaseSlot, Records DEF Changed, SlotRec
  <2>3. th'[t].pc # "popped" /\ \A v \in Thread : v # t => th'[v] = th[v]
    BY <1>20, <1>r, <2>1, FieldsReleaseSlot
  <2> QED
    BY <2>1, <2>2, <2>3, ListFrame
<1> QED
  BY <1>1, <1>2, <1>3, <1>4, <1>5, <1>6, <1>7, <1>8, <1>9, <1>10, <1>11, <1>12, <1>13,
     <1>14, <1>15, <1>16, <1>17, <1>18, <1>19, <1>20 DEF Step

-----------------------------------------------------------------------------
(* Places.                                                                 *)

LEMMA PlaceFrame ==
  ASSUME GcInv, ListsSame, root' = root, free' = free,
         \A v \in Thread : th'[v].own = th[v].own /\ th'[v].victim = th[v].victim
  PROVE  PlaceInv'
<1> SUFFICES ASSUME NEW b \in Block PROVE \E k, x, r : IsAt(b, k, x, r)'
  BY DEF PlaceInv
<1>1. PICK k, x, r : IsAt(b, k, x, r)
  BY DEF GcInv, PlaceInv
<1>2. IsAt(b, k, x, r)'
  BY <1>1 DEF IsAt, ListsSame
<1> QED
  BY <1>2

\* The block of the structure is nowhere else ...
LEMMA RootAlone ==
  ASSUME GcInv
  PROVE  /\ root \notin free
         /\ \A v \in Thread : root \notin th[v].own /\ root \notin th[v].victim
         /\ \A s \in Slot : \A q \in DOMAIN RegionsOf(s) : root \notin RegionsOf(s)[q].blocks
<1>1. PICK k, x, r : IsAt(root, k, x, r)
  BY Records DEF GcInv, PlaceInv
<1> QED
  BY <1>1 DEF IsAt

\* ... nor is a buffer of a thread ...
LEMMA OwnAlone ==
  ASSUME GcInv, NEW t \in Thread, NEW b \in th[t].own
  PROVE  /\ b \notin free /\ b # root
         /\ \A v \in Thread : b \notin th[v].victim /\ (v # t => b \notin th[v].own)
         /\ \A s \in Slot : \A q \in DOMAIN RegionsOf(s) : b \notin RegionsOf(s)[q].blocks
<1>1. b \in Block
  BY Records DEF ThreadRec
<1>2. PICK k, x, r : IsAt(b, k, x, r)
  BY <1>1 DEF GcInv, PlaceInv
<1> QED
  BY <1>2 DEF IsAt

\* ... nor a block malloc may hand out.
LEMMA FreeAlone ==
  ASSUME GcInv, NEW b \in free
  PROVE  /\ b # root
         /\ \A v \in Thread : b \notin th[v].victim /\ b \notin th[v].own
         /\ \A s \in Slot : \A q \in DOMAIN RegionsOf(s) : b \notin RegionsOf(s)[q].blocks
<1>1. b \in Block
  BY Records
<1>2. PICK k, x, r : IsAt(b, k, x, r)
  BY <1>1 DEF GcInv, PlaceInv
<1> QED
  BY <1>2 DEF IsAt

LEMMA EnterThreadPlaces == ASSUME GcInv, NEW t \in Thread, EnterThread(t) PROVE PlaceInv'
<1>0. th[t].pc = "enter" /\ root' = root
  BY DEF EnterThread
<1>1. PICK c \in free : /\ free' = free \ {c} /\ th'[t].own = {c} /\ th'[t].victim = th[t].victim
                        /\ \A v \in Thread : v # t => th'[v] = th[v]
  BY FieldsEnterThread
<1>2. ListsSame
  BY <1>0, RegionsSame DEF Step, GcFree, CleanBlocks, Rollover
<1>3. th[t].own = {}
  BY <1>0 DEF GcInv, StageInv, Stage
<1> SUFFICES ASSUME NEW b \in Block PROVE \E k, x, r : IsAt(b, k, x, r)'
  BY DEF PlaceInv
<1>4. CASE b = c
  <2>1. IsAt(b, "own", t, t)'
    BY <1>0, <1>1, <1>2, <1>4, FreeAlone DEF IsAt, ListsSame
  <2> QED
    BY <2>1
<1>5. CASE b # c
  <2>1. PICK k, x, r : IsAt(b, k, x, r)
    BY DEF GcInv, PlaceInv
  <2>2. IsAt(b, k, x, r)'
    BY <1>0, <1>1, <1>2, <1>3, <1>5, <2>1 DEF IsAt, ListsSame
  <2> QED
    BY <2>2
<1> QED
  BY <1>4, <1>5

LEMMA UnlinkPlaces == ASSUME GcInv, NEW t \in Thread, Unlink(t) PROVE PlaceInv'
<1>0. th[t].pc = "tx"
  BY DEF Unlink
<1>1. PICK c \in free : free' = free \ {c} /\ root' = c
  BY DEF Unlink
<1>2. /\ th'[t].own = th[t].own /\ th'[t].victim = {root}
      /\ \A v \in Thread : v # t => th'[v] = th[v]
  BY FieldsUnlink
<1>3. ListsSame
  BY <1>0, RegionsSame DEF Step, GcFree, CleanBlocks, Rollover
<1>4. th[t].victim = {}
  BY <1>0 DEF GcInv, StageInv, Stage
<1> SUFFICES ASSUME NEW b \in Block PROVE \E k, x, r : IsAt(b, k, x, r)'
  BY DEF PlaceInv
<1>5. CASE b = c
  <2>1. IsAt(b, "root", b, b)'
    BY <1>1, <1>2, <1>3, <1>5, FreeAlone DEF IsAt, ListsSame
  <2> QED
    BY <2>1
<1>6. CASE b = root
  <2>1. IsAt(b, "victim", t, t)'
    BY <1>1, <1>2, <1>3, <1>6, RootAlone DEF IsAt, ListsSame
  <2> QED
    BY <2>1
<1>7. CASE b # c /\ b # root
  <2>1. PICK k, x, r : IsAt(b, k, x, r)
    BY DEF GcInv, PlaceInv
  <2>2. IsAt(b, k, x, r)'
    BY <1>1, <1>2, <1>3, <1>4, <1>7, <2>1 DEF IsAt, ListsSame
  <2> QED
    BY <2>2
<1> QED
  BY <1>5, <1>6, <1>7

\* The old buffer of t becomes the block it hands over.
LEMMA HandOver ==
  ASSUME GcInv, NEW t \in Thread, ListsSame, root' = root, th[t].victim = {},
         NEW F \in SUBSET free, free' = free \ F,
         th'[t].own = F, th'[t].victim = th[t].own,
         \A v \in Thread : v # t => th'[v] = th[v]
  PROVE  PlaceInv'
<1> SUFFICES ASSUME NEW b \in Block PROVE \E k, x, r : IsAt(b, k, x, r)'
  BY DEF PlaceInv
<1>1. CASE b \in F
  <2>1. IsAt(b, "own", t, t)'
    BY <1>1, FreeAlone DEF IsAt, ListsSame
  <2> QED
    BY <2>1
<1>2. CASE b \in th[t].own
  <2>1. IsAt(b, "victim", t, t)'
    BY <1>2, OwnAlone DEF IsAt, ListsSame
  <2> QED
    BY <2>1
<1>3. CASE b \notin F /\ b \notin th[t].own
  <2>1. PICK k, x, r : IsAt(b, k, x, r)
    BY DEF GcInv, PlaceInv
  <2>2. IsAt(b, k, x, r)'
    BY <1>3, <2>1 DEF IsAt, ListsSame
  <2> QED
    BY <2>2
<1> QED
  BY <1>1, <1>2, <1>3

LEMMA GrowPlaces == ASSUME GcInv, NEW t \in Thread, Grow(t) PROVE PlaceInv'
<1>0. th[t].pc = "tx" /\ root' = root
  BY DEF Grow
<1>1. PICK c \in free : /\ free' = free \ {c} /\ th'[t].own = {c} /\ th'[t].victim = th[t].own
                        /\ \A v \in Thread : v # t => th'[v] = th[v]
  BY FieldsGrow
<1>2. ListsSame
  BY <1>0, RegionsSame DEF Step, GcFree, CleanBlocks, Rollover
<1>3. th[t].victim = {}
  BY <1>0 DEF GcInv, StageInv, Stage
<1>4. {c} \in SUBSET free
  BY <1>1
<1> QED
  BY <1>0, <1>1, <1>2, <1>3, <1>4, HandOver

LEMMA FreeDescriptorPlaces == ASSUME GcInv, NEW t \in Thread, FreeDescriptor(t) PROVE PlaceInv'
<1>0. th[t].pc = "leaving" /\ root' = root /\ free' = free
  BY DEF FreeDescriptor
<1>1. /\ th'[t].own = {} /\ th'[t].victim = th[t].own
      /\ \A v \in Thread : v # t => th'[v] = th[v]
  BY FieldsFreeDescriptor
<1>2. ListsSame
  BY <1>0, RegionsSame DEF Step, GcFree, CleanBlocks, Rollover
<1>3. th[t].victim = {}
  BY <1>0 DEF GcInv, StageInv, Stage
<1>4. {} \in SUBSET free /\ free' = free \ {}
  BY <1>0
<1> QED
  BY <1>0, <1>1, <1>2, <1>3, <1>4, HandOver

LEMMA GcFreePlaces == ASSUME GcInv, NEW t \in Thread, GcFree(t) PROVE PlaceInv'
<1>a. PICK idx \in Slot :
        /\ idx = th[t].idx
        /\ RegionsOf(idx) \in Seq(Region)
        /\ RegionsOf(idx)' = Appended(RegionsOf(idx), th[t].victim, th[t].epoch)
        /\ \A s \in Slot : s # idx => RegionsOf(s)' = RegionsOf(s)
  BY GcFreeLists
<1> DEFINE R == RegionsOf(idx)
           A == RegionsOf(idx)'
<1>0. th[t].pc = "free" /\ root' = root /\ free' = free
  BY DEF GcFree
<1>1. /\ th'[t].own = th[t].own /\ th'[t].victim = {}
      /\ \A v \in Thread : v # t => th'[v] = th[v]
  BY FieldsGcFree
<1>2. \A s \in Slot : s # idx => RegionsOf(s)' = RegionsOf(s)
  BY <1>a
<1>3. th[t].victim \in SUBSET Block /\ th[t].epoch \in Nat
  BY Records DEF ThreadRec
<1>4. PICK n \in DOMAIN A :
        /\ DOMAIN A = DOMAIN R \cup {n}
        /\ A[n].blocks = IF n \in DOMAIN R THEN R[n].blocks \cup th[t].victim ELSE th[t].victim
        /\ \A q \in DOMAIN R : q # n => A[q] = R[q]
  <2>1. R \in Seq(Region) /\ A = Appended(R, th[t].victim, th[t].epoch)
    BY <1>a
  <2> HIDE DEF R, A
  <2>2. AddsTo(A, R, th[t].victim, th[t].epoch)
    BY <1>3, <2>1, AppendedRegions
  <2> QED
    BY <2>2 DEF AddsTo
<1> HIDE DEF A, R
<1> SUFFICES ASSUME NEW b \in Block PROVE \E k, x, r : IsAt(b, k, x, r)'
  BY DEF PlaceInv
<1>5. PICK k, x, r : IsAt(b, k, x, r)
  BY DEF GcInv, PlaceInv
<1>6. \A s \in Slot : s # idx => DOMAIN RegionsOf(s)' = DOMAIN RegionsOf(s)
  BY <1>2
<1>7. CASE b \in th[t].victim
  <2>1. /\ k = "victim" /\ x = t
        /\ b # root /\ b \notin free
        /\ \A v \in Thread : b \notin th[v].own /\ (v # t => b \notin th[v].victim)
        /\ \A s \in Slot : \A q \in DOMAIN RegionsOf(s) : b \notin RegionsOf(s)[q].blocks
    BY <1>5, <1>7 DEF IsAt
  <2>2. \A q \in DOMAIN A : b \in A[q].blocks <=> q = n
    BY <1>2, <1>4, <1>7, <2>1 DEF R
  <2>3. \A s \in Slot : \A q \in DOMAIN RegionsOf(s)' :
          b \in (RegionsOf(s)')[q].blocks <=> s = idx /\ n = q
    <3> SUFFICES ASSUME NEW s \in Slot, NEW q \in DOMAIN RegionsOf(s)'
                 PROVE  b \in (RegionsOf(s)')[q].blocks <=> s = idx /\ n = q
      OBVIOUS
    <3>1. CASE s = idx
      BY <2>2, <3>1 DEF A
    <3>2. CASE s # idx
      BY <1>2, <2>1, <3>2
    <3> QED
      BY <3>1, <3>2
  <2>4. IsAt(b, "region", idx, n)'
    BY <1>0, <1>1, <1>2, <1>4, <2>1, <2>3 DEF IsAt, A
  <2> QED
    BY <2>4
<1>8. CASE b \notin th[t].victim
  <2>1. \A q \in DOMAIN A : q \notin DOMAIN R => b \notin A[q].blocks
    BY <1>4, <1>8
  <2>2. \A q \in DOMAIN R : q \in DOMAIN A /\ (b \in A[q].blocks <=> b \in R[q].blocks)
    BY <1>4, <1>8
  <2>3. \A s \in Slot : \A q \in DOMAIN RegionsOf(s)' :
          b \in (RegionsOf(s)')[q].blocks <=> k = "region" /\ x = s /\ r = q
    <3> SUFFICES ASSUME NEW s \in Slot, NEW q \in DOMAIN RegionsOf(s)'
                 PROVE  b \in (RegionsOf(s)')[q].blocks <=> k = "region" /\ x = s /\ r = q
      OBVIOUS
    <3>1. CASE s # idx
      BY <1>2, <1>5, <3>1 DEF IsAt
    <3>2. CASE s = idx /\ q \in DOMAIN R
      BY <1>5, <2>2, <3>2 DEF IsAt, A, R
    <3>3. CASE s = idx /\ q \notin DOMAIN R
      BY <1>5, <2>1, <3>3 DEF IsAt, A, R
    <3> QED
      BY <3>1, <3>2, <3>3
  <2>4. k = "region" => r \in DOMAIN RegionsOf(x)'
    <3>1. CASE x = idx
      BY <1>5, <2>2, <3>1 DEF IsAt, A, R
    <3>2. CASE x # idx
      BY <1>5, <1>6, <3>2 DEF IsAt
    <3> QED
      BY <3>1, <3>2
  <2>5. IsAt(b, k, x, r)'
    BY <1>0, <1>1, <1>5, <1>8, <2>3, <2>4 DEF IsAt
  <2> QED
    BY <2>5
<1> QED
  BY <1>7, <1>8

LEMMA CleanBlocksPlaces == ASSUME GcInv, NEW t \in Thread, CleanBlocks(t) PROVE PlaceInv'
<1>a. PICK idx \in Slot :
        /\ idx = th[t].idx
        /\ RegionsOf(idx) \in Seq(Region) /\ RegionsOf(idx) # <<>>
        /\ RegionsOf(idx) = Regions(t)
        /\ RegionsOf(idx)' = SubSeq(RegionsOf(idx), 2, Len(RegionsOf(idx)))
        /\ \A s \in Slot : s # idx => RegionsOf(s)' = RegionsOf(s)
  BY CleanBlocksLists
<1> DEFINE R == RegionsOf(idx)
           A == RegionsOf(idx)'
<1>0. th[t].pc = "pop" /\ root' = root /\ free' = free \cup R[1].blocks
  BY <1>a DEF CleanBlocks
<1>1. \A v \in Thread : th'[v].own = th[v].own /\ th'[v].victim = th[v].victim
  BY FieldsCleanBlocks
<1>2. \A s \in Slot : s # idx => RegionsOf(s)' = RegionsOf(s)
  BY <1>a
<1>3. /\ 1 \in DOMAIN R
      /\ \A q \in DOMAIN A : q \in Int /\ q + 1 \in DOMAIN R /\ A[q] = R[q + 1]
      /\ \A q \in DOMAIN R : q \in Int /\ (q # 1 => q - 1 \in DOMAIN A)
      /\ 0 \notin DOMAIN A
  <2>1. R \in Seq(Region) /\ R # <<>> /\ A = SubSeq(R, 2, Len(R))
    BY <1>a
  <2> HIDE DEF R, A
  <2>2. A \in Seq(Region)
    BY <2>1, RestRegions
  <2>3. DOMAIN R = 1 .. Len(R) /\ DOMAIN A = 1 .. Len(A)
    BY <2>1, <2>2
  <2>4. /\ 1 \in DOMAIN R
        /\ \A q \in DOMAIN A : q + 1 \in DOMAIN R /\ A[q] = R[q + 1]
        /\ \A q \in DOMAIN R : q # 1 => q - 1 \in DOMAIN A
    BY <2>1, RestRegions
  <2> QED
    BY <2>3, <2>4
<1> HIDE DEF A, R
<1> SUFFICES ASSUME NEW b \in Block PROVE \E k, x, r : IsAt(b, k, x, r)'
  BY DEF PlaceInv
<1>5. PICK k, x, r : IsAt(b, k, x, r)
  BY DEF GcInv, PlaceInv
<1>6. \A q \in DOMAIN R : b \in R[q].blocks <=> k = "region" /\ x = idx /\ r = q
  BY <1>2, <1>5 DEF IsAt, R
<1>7. CASE b \in R[1].blocks
  <2>1. k = "region" /\ x = idx /\ r = 1
    BY <1>3, <1>6, <1>7
  <2>2. \A q \in DOMAIN A : b \notin A[q].blocks
    <3> SUFFICES ASSUME NEW q \in DOMAIN A, b \in A[q].blocks PROVE FALSE
      OBVIOUS
    <3>1. q \in Int /\ q + 1 \in DOMAIN R /\ b \in R[q + 1].blocks
      BY <1>3
    <3>2. q + 1 = 1
      BY <1>6, <2>1, <3>1
    <3> QED
      BY <1>3, <3>1, <3>2
  <2>3. \A s \in Slot : \A q \in DOMAIN RegionsOf(s)' : b \notin (RegionsOf(s)')[q].blocks
    <3> SUFFICES ASSUME NEW s \in Slot, NEW q \in DOMAIN RegionsOf(s)'
                 PROVE  b \notin (RegionsOf(s)')[q].blocks
      OBVIOUS
    <3>1. CASE s = idx
      BY <2>2, <3>1 DEF A
    <3>2. CASE s # idx
      BY <1>2, <1>5, <2>1, <3>2 DEF IsAt
    <3> QED
      BY <3>1, <3>2
  <2>4. IsAt(b, "free", b, b)'
    BY <1>0, <1>1, <1>5, <1>7, <2>1, <2>3 DEF IsAt
  <2> QED
    BY <2>4
<1>8. CASE b \notin R[1].blocks /\ k = "region" /\ x = idx
  <2>1. r \in DOMAIN R /\ r # 1 /\ r \in Int /\ r - 1 \in DOMAIN A
    <3>1. r \in DOMAIN R
      BY <1>5, <1>8 DEF IsAt, R
    <3> QED
      BY <1>3, <1>6, <1>8, <3>1
  <2>2. \A q \in DOMAIN A : b \in A[q].blocks <=> q = r - 1
    <3> SUFFICES ASSUME NEW q \in DOMAIN A PROVE b \in A[q].blocks <=> q = r - 1
      OBVIOUS
    <3>1. q \in Int /\ q + 1 \in DOMAIN R /\ A[q] = R[q + 1]
      BY <1>3
    <3>2. b \in A[q].blocks <=> r = q + 1
      BY <1>6, <1>8, <3>1
    <3> QED
      BY <2>1, <3>1, <3>2
  <2>3. \A s \in Slot : \A q \in DOMAIN RegionsOf(s)' :
          b \in (RegionsOf(s)')[q].blocks <=> s = idx /\ q = r - 1
    <3> SUFFICES ASSUME NEW s \in Slot, NEW q \in DOMAIN RegionsOf(s)'
                 PROVE  b \in (RegionsOf(s)')[q].blocks <=> s = idx /\ q = r - 1
      OBVIOUS
    <3>1. CASE s = idx
      BY <2>2, <3>1 DEF A
    <3>2. CASE s # idx
      BY <1>2, <1>5, <1>8, <3>2 DEF IsAt
    <3> QED
      BY <3>1, <3>2
  <2> DEFINE r1 == r - 1
  <2>5. r1 \in DOMAIN RegionsOf(idx)'
    BY <2>1 DEF A
  <2>6. \A s \in Slot : \A q \in DOMAIN RegionsOf(s)' :
          b \in (RegionsOf(s)')[q].blocks <=> s = idx /\ q = r1
    BY <2>3
  <2> HIDE DEF r1
  <2>4. IsAt(b, "region", idx, r1)'
    BY <1>0, <1>1, <1>2, <1>5, <1>8, <2>5, <2>6 DEF IsAt
  <2> QED
    BY <2>4
<1>9. CASE b \notin R[1].blocks /\ ~ (k = "region" /\ x = idx)
  <2>1. \A q \in DOMAIN A : b \notin A[q].blocks
    BY <1>3, <1>6, <1>9
  <2>2. \A s \in Slot : \A q \in DOMAIN RegionsOf(s)' :
          b \in (RegionsOf(s)')[q].blocks <=> k = "region" /\ x = s /\ r = q
    <3> SUFFICES ASSUME NEW s \in Slot, NEW q \in DOMAIN RegionsOf(s)'
                 PROVE  b \in (RegionsOf(s)')[q].blocks <=> k = "region" /\ x = s /\ r = q
      OBVIOUS
    <3>1. CASE s = idx
      BY <1>9, <2>1, <3>1 DEF A
    <3>2. CASE s # idx
      BY <1>2, <1>5, <3>2 DEF IsAt
    <3> QED
      BY <3>1, <3>2
  <2>3. k = "region" => r \in DOMAIN RegionsOf(x)'
    BY <1>2, <1>5, <1>9 DEF IsAt
  <2>4. IsAt(b, k, x, r)'
    BY <1>0, <1>1, <1>5, <1>9, <2>2, <2>3 DEF IsAt
  <2> QED
    BY <2>4
<1> QED
  BY <1>7, <1>8, <1>9

LEMMA RolloverPlaces == ASSUME SafeUses, GcInv, NEW t \in Thread, Rollover(t) PROVE PlaceInv'
<1>1. /\ \A s \in Slot : \A q \in DOMAIN RegionsOf(s) : RegionsOf(s)[q].blocks \subseteq free'
      /\ \A b \in Block : b \in free' =>
           b \in free \/ \E s \in Slot : \E q \in DOMAIN RegionsOf(s) :
                           b \in RegionsOf(s)[q].blocks
      /\ \A v \in Thread : th'[v] = th[v]
      /\ root' = root /\ free \subseteq free'
      /\ \A s \in Slot : DOMAIN RegionsOf(s)' = {}
  <2>1. \A s \in Slot : RegionsOf(s) = slots[s].head /\ RegionsOf(s)' = <<>>
    BY RolloverLists
  <2>2. free \subseteq free'
    BY DEF Rollover
  <2>3. \A s \in Slot : DOMAIN RegionsOf(s)' = {}
    BY <2>1
  <2> QED
    BY <2>1, <2>2, <2>3, DoesRollover
<1> SUFFICES ASSUME NEW b \in Block PROVE \E k, x, r : IsAt(b, k, x, r)'
  BY DEF PlaceInv
<1>2. PICK k, x, r : IsAt(b, k, x, r)
  BY DEF GcInv, PlaceInv
<1>3. CASE k = "region"
  <2>1. b \in RegionsOf(x)[r].blocks /\ x \in Slot /\ r \in DOMAIN RegionsOf(x)
    BY <1>2, <1>3 DEF IsAt
  <2>2. b \in free'
    BY <1>1, <2>1
  <2>3. IsAt(b, "free", b, b)'
    BY <1>1, <1>2, <1>3, <2>2 DEF IsAt
  <2> QED
    BY <2>3
<1>4. CASE k # "region"
  <2>1. b \in free' <=> b \in free
    BY <1>1, <1>2, <1>4 DEF IsAt
  <2>2. IsAt(b, k, x, r)'
    BY <1>1, <1>2, <1>4, <2>1 DEF IsAt
  <2> QED
    BY <2>2
<1> QED
  BY <1>3, <1>4

LEMMA PlaceStep == ASSUME SafeUses, GcInv, NEW t \in Thread, Step(t) PROVE PlaceInv'
<1>0. ~ GcFree(t) /\ ~ CleanBlocks(t) /\ ~ Rollover(t) => ListsSame
  BY RegionsSame
<1>1. CASE GcInitThread(t)
  <2>1. th[t].pc = "off" /\ root' = root /\ free' = free
    BY <1>1 DEF GcInitThread
  <2>2. ListsSame
    BY <1>0, <2>1 DEF GcFree, CleanBlocks, Rollover
  <2>3. \A v \in Thread : th'[v].own = th[v].own /\ th'[v].victim = th[v].victim
    BY <1>1, <2>1, FieldsGcInitThread
  <2> QED
    BY <2>1, <2>2, <2>3, PlaceFrame
<1>2. CASE FindSlot(t)
  <2>1. th[t].pc = "find" /\ root' = root /\ free' = free
    BY <1>2 DEF FindSlot
  <2>2. ListsSame
    BY <1>0, <2>1 DEF GcFree, CleanBlocks, Rollover
  <2>3. \A v \in Thread : th'[v].own = th[v].own /\ th'[v].victim = th[v].victim
    BY <1>2, <2>1, FieldsFindSlot
  <2> QED
    BY <2>1, <2>2, <2>3, PlaceFrame
<1>3. CASE CasSlot(t)
  <2>1. th[t].pc = "cas" /\ root' = root /\ free' = free
    BY <1>3 DEF CasSlot
  <2>2. ListsSame
    BY <1>0, <2>1 DEF GcFree, CleanBlocks, Rollover
  <2>3. \A v \in Thread : th'[v].own = th[v].own /\ th'[v].victim = th[v].victim
    BY <1>3, <2>1, FieldsCasSlot
  <2> QED
    BY <2>1, <2>2, <2>3, PlaceFrame
<1>4. CASE Prepare(t)
  <2>1. th[t].pc = "idle" /\ root' = root /\ free' = free
    BY <1>4 DEF Prepare
  <2>2. ListsSame
    <3>1. ~ GcFree(t) /\ ~ CleanBlocks(t)
      BY <2>1 DEF GcFree, CleanBlocks
    <3>2. ~ Rollover(t)
      BY <1>4, <2>1, FieldsPrepare, DoesRollover
    <3> QED
      BY <1>0, <3>1, <3>2
  <2>3. \A v \in Thread : th'[v].own = th[v].own /\ th'[v].victim = th[v].victim
    BY <1>4, <2>1, FieldsPrepare
  <2> QED
    BY <2>1, <2>2, <2>3, PlaceFrame
<1>5. CASE GcSetEpoch(t)
  <2>1. th[t].pc = "prepared" /\ root' = root /\ free' = free
    BY <1>5 DEF GcSetEpoch
  <2>2. ListsSame
    BY <1>0, <2>1 DEF GcFree, CleanBlocks, Rollover
  <2>3. \A v \in Thread : th'[v].own = th[v].own /\ th'[v].victim = th[v].victim
    BY <1>5, <2>1, FieldsGcSetEpoch
  <2> QED
    BY <2>1, <2>2, <2>3, PlaceFrame
<1>6. CASE ReadRoot(t)
  <2>1. th[t].pc = "tx" /\ root' = root /\ free' = free
    BY <1>6 DEF ReadRoot
  <2>2. ListsSame
    BY <1>0, <2>1 DEF GcFree, CleanBlocks, Rollover
  <2>3. \A v \in Thread : th'[v].own = th[v].own /\ th'[v].victim = th[v].victim
    BY <1>6, <2>1, FieldsReadRoot
  <2> QED
    BY <2>1, <2>2, <2>3, PlaceFrame
<1>7. ASSUME NEW u \in Thread, Peek(t, u) PROVE PlaceInv'
  <2>1. th[t].pc = "tx" /\ root' = root /\ free' = free
    BY <1>7 DEF Peek
  <2>2. ListsSame
    BY <1>0, <2>1 DEF GcFree, CleanBlocks, Rollover
  <2>3. \A v \in Thread : th'[v].own = th[v].own /\ th'[v].victim = th[v].victim
    BY <1>7, <2>1, FieldsPeek
  <2> QED
    BY <2>1, <2>2, <2>3, PlaceFrame
<1>8. CASE EndTx(t)
  <2>1. th[t].pc = "tx" /\ root' = root /\ free' = free
    BY <1>8 DEF EndTx
  <2>2. ListsSame
    BY <1>0, <2>1 DEF GcFree, CleanBlocks, Rollover
  <2>3. \A v \in Thread : th'[v].own = th[v].own /\ th'[v].victim = th[v].victim
    BY <1>8, <2>1, FieldsEndTx
  <2> QED
    BY <2>1, <2>2, <2>3, PlaceFrame
<1>9. CASE OnCommit(t)
  <2>1. th[t].pc = "committed" /\ root' = root /\ free' = free
    BY <1>9 DEF OnCommit
  <2>2. ListsSame
    BY <1>0, <2>1 DEF GcFree, CleanBlocks, Rollover
  <2>3. \A v \in Thread : th'[v].own = th[v].own /\ th'[v].victim = th[v].victim
    BY <1>9, <2>1, FieldsOnCommit
  <2> QED
    BY <2>1, <2>2, <2>3, PlaceFrame
<1>10. CASE ScanUsed(t)
  <2>1. th[t].pc = "scan" /\ root' = root /\ free' = free
    BY <1>10 DEF ScanUsed
  <2>2. ListsSame
    BY <1>0, <2>1 DEF GcFree, CleanBlocks, Rollover
  <2>3. \A v \in Thread : th'[v].own = th[v].own /\ th'[v].victim = th[v].victim
    BY <1>10, <2>1, FieldsScanUsed
  <2> QED
    BY <2>1, <2>2, <2>3, PlaceFrame
<1>11. CASE ScanTs(t)
  <2>1. th[t].pc = "scanTs" /\ root' = root /\ free' = free
    BY <1>11 DEF ScanTs
  <2>2. ListsSame
    BY <1>0, <2>1 DEF GcFree, CleanBlocks, Rollover
  <2>3. \A v \in Thread : th'[v].own = th[v].own /\ th'[v].victim = th[v].victim
    BY <1>11, <2>1, FieldsScanTs
  <2> QED
    BY <2>1, <2>2, <2>3, PlaceFrame
<1>12. CASE UnlinkRegion(t)
  <2>1. th[t].pc = "popped" /\ root' = root /\ free' = free
    BY <1>12 DEF UnlinkRegion
  <2>2. ListsSame
    BY <1>0, <2>1 DEF GcFree, CleanBlocks, Rollover
  <2>3. \A v \in Thread : th'[v].own = th[v].own /\ th'[v].victim = th[v].victim
    BY <1>12, <2>1, FieldsUnlinkRegion
  <2> QED
    BY <2>1, <2>2, <2>3, PlaceFrame
<1>13. CASE EndCleanup(t)
  <2>1. th[t].pc = "pop" /\ root' = root /\ free' = free
    BY <1>13 DEF EndCleanup
  <2>2. ListsSame
    BY <1>0, <1>13, <2>1 DEF GcFree, CleanBlocks, Rollover, EndCleanup
  <2>3. \A v \in Thread : th'[v].own = th[v].own /\ th'[v].victim = th[v].victim
    BY <1>13, <2>1, FieldsEndCleanup
  <2> QED
    BY <2>1, <2>2, <2>3, PlaceFrame
<1>14. CASE QuiesceExitThread(t)
  <2>1. th[t].pc = "idle" /\ root' = root /\ free' = free
    BY <1>14 DEF QuiesceExitThread
  <2>2. ListsSame
    <3>1. ~ GcFree(t) /\ ~ CleanBlocks(t)
      BY <2>1 DEF GcFree, CleanBlocks
    <3>2. ~ Rollover(t)
      BY <1>14, <2>1, FieldsQuiesceExitThread, DoesRollover
    <3> QED
      BY <1>0, <3>1, <3>2
  <2>3. \A v \in Thread : th'[v].own = th[v].own /\ th'[v].victim = th[v].victim
    BY <1>14, <2>1, FieldsQuiesceExitThread
  <2> QED
    BY <2>1, <2>2, <2>3, PlaceFrame
<1>15. CASE GcExitThread(t)
  <2>1. th[t].pc = "leave" /\ root' = root /\ free' = free
    BY <1>15 DEF GcExitThread
  <2>2. ListsSame
    BY <1>0, <2>1 DEF GcFree, CleanBlocks, Rollover
  <2>3. \A v \in Thread : th'[v].own = th[v].own /\ th'[v].victim = th[v].victim
    BY <1>15, <2>1, FieldsGcExitThread
  <2> QED
    BY <2>1, <2>2, <2>3, PlaceFrame
<1>16. CASE ReleaseSlot(t)
  <2>1. th[t].pc = "release" /\ root' = root /\ free' = free
    BY <1>16 DEF ReleaseSlot
  <2>2. ListsSame
    BY <1>0, <2>1 DEF GcFree, CleanBlocks, Rollover
  <2>3. \A v \in Thread : th'[v].own = th[v].own /\ th'[v].victim = th[v].victim
    BY <1>16, <2>1, FieldsReleaseSlot DEF GcInv, StageInv, Stage
  <2> QED
    BY <2>1, <2>2, <2>3, PlaceFrame
<1>17. CASE EnterThread(t)
  BY <1>17, EnterThreadPlaces
<1>18. CASE Unlink(t)
  BY <1>18, UnlinkPlaces
<1>19. CASE Grow(t)
  BY <1>19, GrowPlaces
<1>20. CASE FreeDescriptor(t)
  BY <1>20, FreeDescriptorPlaces
<1>21. CASE GcFree(t)
  BY <1>21, GcFreePlaces
<1>22. CASE CleanBlocks(t)
  BY <1>22, CleanBlocksPlaces
<1>23. CASE Rollover(t)
  BY <1>23, RolloverPlaces
<1> QED
  BY <1>1, <1>2, <1>3, <1>4, <1>5, <1>6, <1>7, <1>8, <1>9, <1>10, <1>11, <1>12, <1>13,
     <1>14, <1>15, <1>16, <1>17, <1>18, <1>19, <1>20, <1>21, <1>22, <1>23 DEF Step

-----------------------------------------------------------------------------
(* Pointers held by transactions.                                          *)

\* A thread that holds a pointer is in a transaction: its slot is busy and
\* carries its start.
LEMMA Holder ==
  ASSUME GcInv, NEW t \in Thread, th[t].holds # {}
  PROVE  /\ InTx(t) /\ th[t].idx \in Slot /\ slots[th[t].idx].used = GcBusy
         /\ slots[th[t].idx].ts = th[t].start /\ th[t].start <= clock
         /\ th[t].pc \in {"tx", "free", "scan", "scanTs", "pop", "popped"}
<1>1. InTx(t) /\ slots[th[t].idx].ts = th[t].start /\ th[t].start <= clock
  BY DEF GcInv, StageInv, Stage
<1>2. th[t].pc \in {"tx", "free", "scan", "scanTs", "pop", "popped"}
  BY <1>1 DEF InTx, Cleaning
<1> QED
  BY <1>1, <1>2, HasSlot

HoldFrame ==
  /\ ListsSame /\ use' = use /\ free' \subseteq free
  /\ \A v \in Thread :
       /\ \/ th'[v].holds = {}
          \/ th'[v].holds = th[v].holds /\ th'[v].start = th[v].start
       /\ th'[v].own = th[v].own
       /\ \/ th'[v].pc # "free"
          \/ th[v].pc = "free" /\ th'[v].victim = th[v].victim /\ th'[v].epoch = th[v].epoch

LEMMA HoldFrameKeeps == ASSUME GcInv, HoldFrame PROVE HoldInv'
<1> SUFFICES ASSUME NEW t \in Thread, th'[t].holds # {}
             PROVE  /\ th'[t].holds \cap free' = {}
                    /\ \A u \in Thread : th'[u].pc = "free" /\ th'[t].holds \cap th'[u].victim # {}
                           => th'[t].start <= th'[u].epoch
                    /\ \A s \in Slot : \A q \in DOMAIN RegionsOf(s)' :
                         th'[t].holds \cap (RegionsOf(s)')[q].blocks # {}
                           => th'[t].start <= (RegionsOf(s)')[q].ts
                    /\ "peek" \notin use' => \A u \in Thread : th'[t].holds \cap th'[u].own = {}
  BY DEF HoldInv
<1>1. th'[t].holds = th[t].holds /\ th'[t].start = th[t].start
  BY DEF HoldFrame
<1>2. th'[t].holds \cap free' = {}
  BY <1>1 DEF HoldFrame, GcInv, HoldInv
<1>3. \A u \in Thread : th'[u].pc = "free" /\ th'[t].holds \cap th'[u].victim # {}
                           => th'[t].start <= th'[u].epoch
  BY <1>1 DEF HoldFrame, GcInv, HoldInv
<1>4. \A s \in Slot : \A q \in DOMAIN RegionsOf(s)' :
        th'[t].holds \cap (RegionsOf(s)')[q].blocks # {}
          => th'[t].start <= (RegionsOf(s)')[q].ts
  BY <1>1 DEF HoldFrame, ListsSame, GcInv, HoldInv
<1>5. "peek" \notin use' => \A u \in Thread : th'[t].holds \cap th'[u].own = {}
  BY <1>1 DEF HoldFrame, GcInv, HoldInv
<1> QED
  BY <1>2, <1>3, <1>4, <1>5

\* What the invariant says of one thread.
HoldsWell(t) ==
  /\ th[t].holds \cap free = {}
  /\ \A u \in Thread : th[u].pc = "free" /\ th[t].holds \cap th[u].victim # {}
                         => th[t].start <= th[u].epoch
  /\ \A s \in Slot : \A q \in DOMAIN RegionsOf(s) :
       th[t].holds \cap RegionsOf(s)[q].blocks # {} => th[t].start <= RegionsOf(s)[q].ts
  /\ "peek" \notin use => \A u \in Thread : th[t].holds \cap th[u].own = {}

LEMMA EnterThreadHolds == ASSUME GcInv, NEW t \in Thread, EnterThread(t) PROVE HoldInv'
<1>0. th[t].pc = "enter" /\ use' = use
  BY DEF EnterThread
<1>1. PICK c \in free : /\ free' = free \ {c} /\ th'[t].own = {c} /\ th'[t].pc = "idle"
                        /\ th'[t].holds = th[t].holds /\ th'[t].start = th[t].start
                        /\ \A v \in Thread : v # t => th'[v] = th[v]
  BY FieldsEnterThread
<1>2. ListsSame
  BY <1>0, RegionsSame DEF Step, GcFree, CleanBlocks, Rollover
<1> SUFFICES ASSUME NEW v \in Thread PROVE HoldsWell(v)'
  BY DEF HoldInv, HoldsWell
<1>3. HoldsWell(v)
  BY DEF GcInv, HoldInv, HoldsWell
<1>4. th'[v].holds = th[v].holds /\ th'[v].start = th[v].start
  BY <1>1
<1>5. \A u \in Thread : th[v].holds \cap th[u].own = {} => th[v].holds \cap th'[u].own = {}
  BY <1>1, <1>3 DEF HoldsWell
<1>6. \A u \in Thread : th'[u].pc = "free" => th'[u] = th[u]
  BY <1>1
<1> QED
  BY <1>0, <1>1, <1>2, <1>3, <1>4, <1>5, <1>6 DEF HoldsWell, ListsSame

\* Pointers to blocks that are neither free nor handed over may be added.
LEMMA MoreHeld ==
  ASSUME GcInv, NEW t \in Thread, NEW B, ListsSame, use' = use, free' = free,
         th'[t].holds = th[t].holds \cup B, th'[t].start = th[t].start,
         th'[t].pc = th[t].pc, th'[t].own = th[t].own, th'[t].victim = th[t].victim,
         th'[t].epoch = th[t].epoch,
         \A v \in Thread : v # t => th'[v] = th[v],
         B \cap free = {},
         \A v \in Thread : B \cap th[v].victim = {},
         \A v \in Thread : "peek" \notin use => B \cap th[v].own = {},
         \A s \in Slot : \A q \in DOMAIN RegionsOf(s) : B \cap RegionsOf(s)[q].blocks = {}
  PROVE  HoldInv'
<1> SUFFICES ASSUME NEW v \in Thread PROVE HoldsWell(v)'
  BY DEF HoldInv, HoldsWell
<1>1. HoldsWell(v)
  BY DEF GcInv, HoldInv, HoldsWell
<1>2. \A u \in Thread : /\ th'[u].own = th[u].own /\ th'[u].victim = th[u].victim
                        /\ th'[u].pc = th[u].pc /\ th'[u].epoch = th[u].epoch
                        /\ th'[u].start = th[u].start
  OBVIOUS
<1>3. th'[v].holds = th[v].holds \/ th'[v].holds = th[v].holds \cup B
  OBVIOUS
<1>4. th'[v].holds \cap free' = {}
  BY <1>1, <1>3 DEF HoldsWell
<1>5. \A u \in Thread : th'[u].pc = "free" /\ th'[v].holds \cap th'[u].victim # {}
                         => th'[v].start <= th'[u].epoch
  BY <1>1, <1>2, <1>3 DEF HoldsWell
<1>6. \A s \in Slot : \A q \in DOMAIN RegionsOf(s)' :
       th'[v].holds \cap (RegionsOf(s)')[q].blocks # {} => th'[v].start <= (RegionsOf(s)')[q].ts
  BY <1>1, <1>2, <1>3 DEF HoldsWell, ListsSame
<1>7. "peek" \notin use' => \A u \in Thread : th'[v].holds \cap th'[u].own = {}
  BY <1>1, <1>2, <1>3 DEF HoldsWell
<1> QED
  BY <1>4, <1>5, <1>6, <1>7 DEF HoldsWell

LEMMA ReadRootHolds == ASSUME GcInv, NEW t \in Thread, ReadRoot(t) PROVE HoldInv'
<1>0. th[t].pc = "tx" /\ use' = use /\ free' = free
  BY DEF ReadRoot
<1>1. ListsSame
  BY <1>0, RegionsSame DEF Step, GcFree, CleanBlocks, Rollover
<1>2. /\ {root} \cap free = {}
      /\ \A v \in Thread : {root} \cap th[v].victim = {} /\ {root} \cap th[v].own = {}
      /\ \A s \in Slot : \A q \in DOMAIN RegionsOf(s) : {root} \cap RegionsOf(s)[q].blocks = {}
  BY RootAlone
<1> QED
  BY <1>0, <1>1, <1>2, FieldsReadRoot, MoreHeld

LEMMA PeekHolds == ASSUME GcInv, NEW t \in Thread, NEW u \in Thread, Peek(t, u) PROVE HoldInv'
<1>0. th[t].pc = "tx" /\ use' = use /\ free' = free /\ "peek" \in use
  BY DEF Peek
<1>1. ListsSame
  BY <1>0, RegionsSame DEF Step, GcFree, CleanBlocks, Rollover
<1>2. /\ th[u].own \cap free = {}
      /\ \A v \in Thread : th[u].own \cap th[v].victim = {}
      /\ \A s \in Slot : \A q \in DOMAIN RegionsOf(s) : th[u].own \cap RegionsOf(s)[q].blocks = {}
  BY OwnAlone
<1> QED
  BY <1>0, <1>1, <1>2, FieldsPeek, MoreHeld

\* A block is handed over with an epoch no smaller than the start of any
\* transaction that holds it.
LEMMA HandOverHolds ==
  ASSUME GcInv, NEW t \in Thread, ListsSame, use' = use, NEW F \in SUBSET free,
         free' = free \ F,
         th'[t].own = th[t].own \/ th'[t].own = F,
         th'[t].holds = th[t].holds, th'[t].start = th[t].start,
         \A v \in Thread : v # t => th'[v] = th[v],
         \A v \in Thread : th[v].holds \cap th'[t].victim # {} => th[v].start <= th'[t].epoch
  PROVE  HoldInv'
<1> SUFFICES ASSUME NEW v \in Thread PROVE HoldsWell(v)'
  BY DEF HoldInv, HoldsWell
<1>1. HoldsWell(v)
  BY DEF GcInv, HoldInv, HoldsWell
<1>2. th'[v].holds = th[v].holds /\ th'[v].start = th[v].start
  OBVIOUS
<1>4. th'[v].holds \cap free' = {}
  BY <1>1, <1>2 DEF HoldsWell
<1>5. \A u \in Thread : th'[u].pc = "free" /\ th'[v].holds \cap th'[u].victim # {}
                         => th'[v].start <= th'[u].epoch
  BY <1>1, <1>2 DEF HoldsWell
<1>6. \A s \in Slot : \A q \in DOMAIN RegionsOf(s)' :
       th'[v].holds \cap (RegionsOf(s)')[q].blocks # {} => th'[v].start <= (RegionsOf(s)')[q].ts
  BY <1>1, <1>2 DEF HoldsWell, ListsSame
<1>7. "peek" \notin use' => \A u \in Thread : th'[v].holds \cap th'[u].own = {}
  BY <1>1, <1>2 DEF HoldsWell
<1> QED
  BY <1>4, <1>5, <1>6, <1>7 DEF HoldsWell

LEMMA OnCommitHolds == ASSUME GcInv, NEW t \in Thread, OnCommit(t) PROVE HoldInv'
<1>0. th[t].pc = "committed" /\ use' = use /\ free' = free \ {} /\ {} \in SUBSET free
  BY DEF OnCommit
<1>1. ListsSame
  BY <1>0, RegionsSame DEF Step, GcFree, CleanBlocks, Rollover
<1>2. \A v \in Thread : th[v].holds # {} => th[v].start <= clock
  BY Holder
<1>3. \A v \in Thread : th[v].holds \cap th'[t].victim # {} => th[v].start <= th'[t].epoch
  BY <1>2, FieldsOnCommit
<1> QED
  BY <1>0, <1>1, <1>3, FieldsOnCommit, HandOverHolds

LEMMA FreeDescriptorHolds == ASSUME GcInv, NEW t \in Thread, FreeDescriptor(t) PROVE HoldInv'
<1>0. th[t].pc = "leaving" /\ use' = use /\ free' = free \ {} /\ {} \in SUBSET free
  BY DEF FreeDescriptor
<1>1. ListsSame
  BY <1>0, RegionsSame DEF Step, GcFree, CleanBlocks, Rollover
<1>2. \A v \in Thread : th[v].holds # {} => th[v].start <= clock
  BY Holder
<1>3. \A v \in Thread : th[v].holds \cap th'[t].victim # {} => th[v].start <= th'[t].epoch
  BY <1>2, FieldsFreeDescriptor
<1> QED
  BY <1>0, <1>1, <1>3, FieldsFreeDescriptor, HandOverHolds

\* The old entries of a write set that grows are handed over with the start
\* of their own transaction, which is sound only if no other looks at them.
LEMMA GrowHolds == ASSUME SafeUses, GcInv, NEW t \in Thread, Grow(t) PROVE HoldInv'
<1>0. th[t].pc = "tx" /\ use' = use /\ "grow" \in use
  BY DEF Grow
<1>1. ListsSame
  BY <1>0, RegionsSame DEF Step, GcFree, CleanBlocks, Rollover
<1>2. "peek" \notin use
  BY <1>0, Records DEF SafeUses
<1>3. \A v \in Thread : th[v].holds \cap th[t].own = {}
  BY <1>2 DEF GcInv, HoldInv
<1>4. PICK c \in free : /\ free' = free \ {c} /\ th'[t].own = {c} /\ th'[t].victim = th[t].own
                        /\ th'[t].holds = th[t].holds /\ th'[t].start = th[t].start
                        /\ \A v \in Thread : v # t => th'[v] = th[v]
  BY FieldsGrow
<1>5. {c} \in SUBSET free
  BY <1>4
<1> QED
  BY <1>0, <1>1, <1>3, <1>4, <1>5, HandOverHolds

LEMMA GcFreeHolds == ASSUME GcInv, NEW t \in Thread, GcFree(t) PROVE HoldInv'
<1>0. th[t].pc = "free" /\ use' = use /\ free' = free
  BY DEF GcFree
<1>a. PICK idx \in Slot :
        /\ idx = th[t].idx
        /\ RegionsOf(idx) \in Seq(Region)
        /\ RegionsOf(idx)' = Appended(RegionsOf(idx), th[t].victim, th[t].epoch)
        /\ \A s \in Slot : s # idx => RegionsOf(s)' = RegionsOf(s)
  BY GcFreeLists
<1> DEFINE R == RegionsOf(idx)
           A == RegionsOf(idx)'
<1>1. th[t].victim \in SUBSET Block /\ th[t].epoch \in Nat
  BY Records DEF ThreadRec
<1>2. AddsTo(A, R, th[t].victim, th[t].epoch) /\ A \in Seq(Region)
  BY <1>a, <1>1, AppendedRegions
<1>b. \A q \in DOMAIN A : A[q] \in Region
  <2> HIDE DEF A
  <2> QED
    BY <1>2
<1>3. PICK n \in DOMAIN A :
        /\ DOMAIN A = DOMAIN R \cup {n}
        /\ A[n].ts >= th[t].epoch
        /\ A[n].blocks = IF n \in DOMAIN R THEN R[n].blocks \cup th[t].victim ELSE th[t].victim
        /\ n \in DOMAIN R => A[n].ts = R[n].ts
        /\ \A q \in DOMAIN R : q # n => A[q] = R[q]
  BY <1>2 DEF AddsTo
<1>4. A[n].ts \in Nat
  BY <1>b DEF Region
<1>5. /\ \A v \in Thread : th'[v].own = th[v].own /\ th'[v].holds = th[v].holds
                           /\ th'[v].start = th[v].start
      /\ th'[t].pc = "scan"
      /\ \A v \in Thread : v # t => th'[v] = th[v]
  BY FieldsGcFree
<1> HIDE DEF A, R
<1> SUFFICES ASSUME NEW v \in Thread PROVE HoldsWell(v)'
  BY DEF HoldInv, HoldsWell
<1>6. HoldsWell(v) /\ th[v].start \in Nat
  BY Records DEF GcInv, HoldInv, HoldsWell, ThreadRec
<1>7. \A q \in DOMAIN A : th[v].holds \cap A[q].blocks # {} => th[v].start <= A[q].ts
  <2> SUFFICES ASSUME NEW q \in DOMAIN A, th[v].holds \cap A[q].blocks # {}
               PROVE  th[v].start <= A[q].ts
    OBVIOUS
  <2>1. \A p \in DOMAIN R : th[v].holds \cap R[p].blocks # {} => th[v].start <= R[p].ts
    BY <1>6 DEF HoldsWell, R
  <2>2. CASE q # n
    BY <1>3, <2>1, <2>2
  <2>3. CASE q = n /\ th[v].holds \cap th[t].victim # {}
    <3>1. th[v].start <= th[t].epoch
      BY <1>0, <1>6, <2>3 DEF HoldsWell
    <3> QED
      BY <1>1, <1>3, <1>4, <1>6, <2>3, <3>1
  <2>4. CASE q = n /\ th[v].holds \cap th[t].victim = {}
    <3>1. n \in DOMAIN R /\ th[v].holds \cap R[n].blocks # {}
      BY <1>3, <2>4
    <3> QED
      BY <1>3, <2>1, <2>4, <3>1
  <2> QED
    BY <2>2, <2>3, <2>4
<1>8. \A s \in Slot : \A q \in DOMAIN RegionsOf(s)' :
       th'[v].holds \cap (RegionsOf(s)')[q].blocks # {} => th'[v].start <= (RegionsOf(s)')[q].ts
  <2> SUFFICES ASSUME NEW s \in Slot
               PROVE  \A q \in DOMAIN RegionsOf(s)' :
                        th[v].holds \cap (RegionsOf(s)')[q].blocks # {}
                          => th[v].start <= (RegionsOf(s)')[q].ts
    BY <1>5
  <2>1. CASE s = idx
    BY <1>7, <2>1 DEF A
  <2>2. CASE s # idx
    BY <1>a, <1>6, <2>2 DEF HoldsWell
  <2> QED
    BY <2>1, <2>2
<1>9. \A u \in Thread : th'[u].pc = "free" => th'[u] = th[u]
  BY <1>5
<1> QED
  BY <1>0, <1>5, <1>6, <1>8, <1>9 DEF HoldsWell

\* gc_cleanup_thread frees no block that a transaction holds: the scan has
\* passed the slot of the transaction, so the minimum is no larger than its
\* start, which is no larger than the epoch of the region.
LEMMA CleanBlocksHolds == ASSUME GcInv, NEW t \in Thread, CleanBlocks(t) PROVE HoldInv'
<1>0. th[t].pc = "pop" /\ use' = use /\ Old(Regions(t), th[t].min)
      /\ free' = free \cup Regions(t)[1].blocks
  BY DEF CleanBlocks
<1>a. PICK idx \in Slot :
        /\ idx = th[t].idx
        /\ RegionsOf(idx) \in Seq(Region) /\ RegionsOf(idx) # <<>>
        /\ RegionsOf(idx) = Regions(t)
        /\ RegionsOf(idx)' = SubSeq(RegionsOf(idx), 2, Len(RegionsOf(idx)))
        /\ \A s \in Slot : s # idx => RegionsOf(s)' = RegionsOf(s)
  BY CleanBlocksLists
<1> DEFINE R == RegionsOf(idx)
           A == RegionsOf(idx)'
<1>1. 1 \in DOMAIN R /\ \A q \in DOMAIN A : q + 1 \in DOMAIN R /\ A[q] = R[q + 1]
  BY <1>a, RestRegions
<1>2. R[1].ts \in Nat /\ th[t].min \in Nat /\ th[t].min > R[1].ts
  <2>1. R[1].ts \in Nat /\ th[t].min \in Nat
    BY <1>1, RegionType, Records DEF ThreadRec
  <2>2. th[t].min > R[1].ts
    BY <1>0, <1>a DEF Old
  <2> QED
    BY <2>1, <2>2
<1>5. /\ \A v \in Thread : th'[v].own = th[v].own /\ th'[v].holds = th[v].holds
                           /\ th'[v].start = th[v].start
      /\ th'[t].pc = "popped"
      /\ \A v \in Thread : v # t => th'[v] = th[v]
  BY FieldsCleanBlocks
<1>b. free' = free \cup R[1].blocks
  BY <1>0, <1>a
<1> HIDE DEF A, R
<1> SUFFICES ASSUME NEW v \in Thread PROVE HoldsWell(v)'
  BY DEF HoldInv, HoldsWell
<1>6. HoldsWell(v) /\ th[v].start \in Nat
  BY Records DEF GcInv, HoldInv, HoldsWell, ThreadRec
<1>7. th[v].holds \cap R[1].blocks = {}
  <2> SUFFICES ASSUME th[v].holds \cap R[1].blocks # {} PROVE FALSE
    OBVIOUS
  <2>1. th[v].start <= R[1].ts
    BY <1>1, <1>6 DEF HoldsWell, R
  <2>2. Passed(t, v)
    BY <1>0 DEF Passed
  <2>3. th[t].min <= th[v].start
    BY <1>a, <1>1, <2>2 DEF GcInv, ScanInv, R
  <2> QED
    BY <1>2, <1>6, <2>1, <2>3
<1>8. \A s \in Slot : \A q \in DOMAIN RegionsOf(s)' :
       th'[v].holds \cap (RegionsOf(s)')[q].blocks # {} => th'[v].start <= (RegionsOf(s)')[q].ts
  <2> SUFFICES ASSUME NEW s \in Slot
               PROVE  \A q \in DOMAIN RegionsOf(s)' :
                        th[v].holds \cap (RegionsOf(s)')[q].blocks # {}
                          => th[v].start <= (RegionsOf(s)')[q].ts
    BY <1>5
  <2>1. CASE s = idx
    <3>1. \A q \in DOMAIN R : th[v].holds \cap R[q].blocks # {} => th[v].start <= R[q].ts
      BY <1>6 DEF HoldsWell, R
    <3>2. \A q \in DOMAIN A : th[v].holds \cap A[q].blocks # {} => th[v].start <= A[q].ts
      BY <1>1, <3>1
    <3> QED
      BY <2>1, <3>2 DEF A
  <2>2. CASE s # idx
    BY <1>a, <1>6, <2>2 DEF HoldsWell
  <2> QED
    BY <2>1, <2>2
<1>9. \A u \in Thread : th'[u].pc = "free" => th'[u] = th[u]
  BY <1>5
<1>10. th'[v].holds \cap free' = {}
  BY <1>b, <1>5, <1>6, <1>7 DEF HoldsWell
<1> QED
  BY <1>0, <1>5, <1>6, <1>8, <1>9, <1>10 DEF HoldsWell

LEMMA RolloverHolds == ASSUME SafeUses, GcInv, NEW t \in Thread, Rollover(t) PROVE HoldInv'
<1>1. \A v \in Thread : th'[v].holds = {}
  BY RolloverIdle, DoesRollover
<1> QED
  BY <1>1 DEF HoldInv

LEMMA HoldStep == ASSUME SafeUses, GcInv, NEW t \in Thread, Step(t) PROVE HoldInv'
<1>0. ~ GcFree(t) /\ ~ CleanBlocks(t) /\ ~ Rollover(t) => ListsSame
  BY RegionsSame
<1>1. CASE GcInitThread(t)
  <2>1. th[t].pc = "off" /\ use' = use /\ free' \subseteq free
    BY <1>1 DEF GcInitThread
  <2>2. ListsSame
    BY <1>0, <2>1 DEF GcFree, CleanBlocks, Rollover
  <2>3. HoldFrame
    BY <1>1, <2>1, <2>2, FieldsGcInitThread DEF HoldFrame
  <2> QED
    BY <2>3, HoldFrameKeeps
<1>2. CASE FindSlot(t)
  <2>1. th[t].pc = "find" /\ use' = use /\ free' \subseteq free
    BY <1>2 DEF FindSlot
  <2>2. ListsSame
    BY <1>0, <2>1 DEF GcFree, CleanBlocks, Rollover
  <2>3. HoldFrame
    BY <1>2, <2>1, <2>2, FieldsFindSlot DEF HoldFrame
  <2> QED
    BY <2>3, HoldFrameKeeps
<1>3. CASE CasSlot(t)
  <2>1. th[t].pc = "cas" /\ use' = use /\ free' \subseteq free
    BY <1>3 DEF CasSlot
  <2>2. ListsSame
    BY <1>0, <2>1 DEF GcFree, CleanBlocks, Rollover
  <2>3. HoldFrame
    BY <1>3, <2>1, <2>2, FieldsCasSlot DEF HoldFrame
  <2> QED
    BY <2>3, HoldFrameKeeps
<1>4. CASE Prepare(t)
  <2>1. th[t].pc = "idle" /\ use' = use /\ free' \subseteq free
    BY <1>4 DEF Prepare
  <2>2. ListsSame
    <3>1. ~ GcFree(t) /\ ~ CleanBlocks(t)
      BY <2>1 DEF GcFree, CleanBlocks
    <3>2. ~ Rollover(t)
      BY <1>4, <2>1, FieldsPrepare, DoesRollover
    <3> QED
      BY <1>0, <3>1, <3>2
  <2>3. HoldFrame
    BY <1>4, <2>1, <2>2, FieldsPrepare, Holder DEF HoldFrame
  <2> QED
    BY <2>3, HoldFrameKeeps
<1>5. CASE GcSetEpoch(t)
  <2>1. th[t].pc = "prepared" /\ use' = use /\ free' \subseteq free
    BY <1>5 DEF GcSetEpoch
  <2>2. ListsSame
    BY <1>0, <2>1 DEF GcFree, CleanBlocks, Rollover
  <2>3. HoldFrame
    BY <1>5, <2>1, <2>2, FieldsGcSetEpoch DEF HoldFrame
  <2> QED
    BY <2>3, HoldFrameKeeps
<1>6. CASE EndTx(t)
  <2>1. th[t].pc = "tx" /\ use' = use /\ free' \subseteq free
    BY <1>6 DEF EndTx
  <2>2. ListsSame
    BY <1>0, <2>1 DEF GcFree, CleanBlocks, Rollover
  <2>3. HoldFrame
    BY <1>6, <2>1, <2>2, FieldsEndTx DEF HoldFrame
  <2> QED
    BY <2>3, HoldFrameKeeps
<1>7. CASE Unlink(t)
  <2>1. th[t].pc = "tx" /\ use' = use /\ free' \subseteq free
    BY <1>7 DEF Unlink
  <2>2. ListsSame
    BY <1>0, <2>1 DEF GcFree, CleanBlocks, Rollover
  <2>3. HoldFrame
    BY <1>7, <2>1, <2>2, FieldsUnlink DEF HoldFrame
  <2> QED
    BY <2>3, HoldFrameKeeps
<1>8. CASE ScanUsed(t)
  <2>1. th[t].pc = "scan" /\ use' = use /\ free' \subseteq free
    BY <1>8 DEF ScanUsed
  <2>2. ListsSame
    BY <1>0, <2>1 DEF GcFree, CleanBlocks, Rollover
  <2>3. HoldFrame
    BY <1>8, <2>1, <2>2, FieldsScanUsed DEF HoldFrame
  <2> QED
    BY <2>3, HoldFrameKeeps
<1>9. CASE ScanTs(t)
  <2>1. th[t].pc = "scanTs" /\ use' = use /\ free' \subseteq free
    BY <1>9 DEF ScanTs
  <2>2. ListsSame
    BY <1>0, <2>1 DEF GcFree, CleanBlocks, Rollover
  <2>3. HoldFrame
    BY <1>9, <2>1, <2>2, FieldsScanTs DEF HoldFrame
  <2> QED
    BY <2>3, HoldFrameKeeps
<1>10. CASE UnlinkRegion(t)
  <2>1. th[t].pc = "popped" /\ use' = use /\ free' \subseteq free
    BY <1>10 DEF UnlinkRegion
  <2>2. ListsSame
    BY <1>0, <2>1 DEF GcFree, CleanBlocks, Rollover
  <2>3. HoldFrame
    BY <1>10, <2>1, <2>2, FieldsUnlinkRegion DEF HoldFrame
  <2> QED
    BY <2>3, HoldFrameKeeps
<1>11. CASE EndCleanup(t)
  <2>1. th[t].pc = "pop" /\ use' = use /\ free' \subseteq free
    BY <1>11 DEF EndCleanup
  <2>2. ListsSame
    BY <1>0, <1>11, <2>1 DEF GcFree, CleanBlocks, Rollover, EndCleanup
  <2>3. HoldFrame
    BY <1>11, <2>1, <2>2, FieldsEndCleanup, Records DEF HoldFrame, ThreadRec
  <2> QED
    BY <2>3, HoldFrameKeeps
<1>12. CASE QuiesceExitThread(t)
  <2>1. th[t].pc = "idle" /\ use' = use /\ free' \subseteq free
    BY <1>12 DEF QuiesceExitThread
  <2>2. ListsSame
    <3>1. ~ GcFree(t) /\ ~ CleanBlocks(t)
      BY <2>1 DEF GcFree, CleanBlocks
    <3>2. ~ Rollover(t)
      BY <1>12, <2>1, FieldsQuiesceExitThread, DoesRollover
    <3> QED
      BY <1>0, <3>1, <3>2
  <2>3. HoldFrame
    BY <1>12, <2>1, <2>2, FieldsQuiesceExitThread DEF HoldFrame
  <2> QED
    BY <2>3, HoldFrameKeeps
<1>13. CASE GcExitThread(t)
  <2>1. th[t].pc = "leave" /\ use' = use /\ free' \subseteq free
    BY <1>13 DEF GcExitThread
  <2>2. ListsSame
    BY <1>0, <2>1 DEF GcFree, CleanBlocks, Rollover
  <2>3. HoldFrame
    BY <1>13, <2>1, <2>2, FieldsGcExitThread DEF HoldFrame
  <2> QED
    BY <2>3, HoldFrameKeeps
<1>14. CASE ReleaseSlot(t)
  <2>1. th[t].pc = "release" /\ use' = use /\ free' \subseteq free
    BY <1>14 DEF ReleaseSlot
  <2>2. ListsSame
    BY <1>0, <2>1 DEF GcFree, CleanBlocks, Rollover
  <2>3. HoldFrame
    BY <1>14, <2>1, <2>2, FieldsReleaseSlot DEF HoldFrame, GcInv, StageInv, Stage
  <2> QED
    BY <2>3, HoldFrameKeeps
<1>15. CASE EnterThread(t)
  BY <1>15, EnterThreadHolds
<1>16. CASE ReadRoot(t)
  BY <1>16, ReadRootHolds
<1>17. CASE OnCommit(t)
  BY <1>17, OnCommitHolds
<1>18. CASE Grow(t)
  BY <1>18, GrowHolds
<1>19. CASE GcFree(t)
  BY <1>19, GcFreeHolds
<1>20. CASE CleanBlocks(t)
  BY <1>20, CleanBlocksHolds
<1>21. CASE FreeDescriptor(t)
  BY <1>21, FreeDescriptorHolds
<1>22. CASE Rollover(t)
  BY <1>22, RolloverHolds
<1>23. ASSUME NEW u \in Thread, Peek(t, u) PROVE HoldInv'
  BY <1>23, PeekHolds
<1> QED
  BY <1>1, <1>2, <1>3, <1>4, <1>5, <1>6, <1>7, <1>8, <1>9, <1>10, <1>11, <1>12, <1>13,
     <1>14, <1>15, <1>16, <1>17, <1>18, <1>19, <1>20, <1>21, <1>22, <1>23 DEF Step

-----------------------------------------------------------------------------
(* The scan.                                                               *)

\* A step that starts no scan, extends none and adds no pointer.
ScanFrame ==
  /\ ListsSame
  /\ \A v \in Thread :
       /\ \/ th'[v].holds = {}
          \/ /\ th'[v].holds = th[v].holds /\ th'[v].start = th[v].start
             /\ th'[v].idx = th[v].idx
       /\ \/ th'[v].pc \notin {"scan", "scanTs", "pop", "popped"}
          \/ /\ th'[v].idx = th[v].idx /\ th'[v].min = th[v].min /\ th'[v].i = th[v].i
             /\ \/ th'[v].pc = th[v].pc
                \/ th'[v].pc = "pop" /\ th[v].pc = "popped"

LEMMA ScanFrameKeeps == ASSUME GcInv, ScanFrame PROVE ScanInv'
<1> SUFFICES ASSUME NEW u \in Thread, NEW v \in Thread, NEW s \in Slot, Passed(u, v)',
                    th'[u].idx = s, th'[v].holds # {}
             PROVE  \A q \in DOMAIN RegionsOf(s)' :
                      th'[v].holds \cap (RegionsOf(s)')[q].blocks # {} => th'[u].min <= th'[v].start
  BY DEF ScanInv
<1>1. th'[v].holds = th[v].holds /\ th'[v].start = th[v].start /\ th'[v].idx = th[v].idx
  BY DEF ScanFrame
<1>2. Passed(u, v) /\ th[u].idx = s /\ th'[u].min = th[u].min
  BY <1>1 DEF ScanFrame, Passed
<1> QED
  BY <1>1, <1>2 DEF ScanFrame, ListsSame, GcInv, ScanInv

\* Pointers to blocks that nobody waits to free may be added.
LEMMA MoreHeldScan ==
  ASSUME GcInv, NEW t \in Thread, NEW B, ListsSame,
         th'[t].holds = th[t].holds \cup B, th'[t].start = th[t].start,
         th'[t].pc = th[t].pc, th[t].pc = "tx", th'[t].idx = th[t].idx,
         \A v \in Thread : v # t => th'[v] = th[v],
         \A s \in Slot : \A q \in DOMAIN RegionsOf(s) : B \cap RegionsOf(s)[q].blocks = {}
  PROVE  ScanInv'
<1> SUFFICES ASSUME NEW u \in Thread, NEW v \in Thread, NEW s \in Slot, Passed(u, v)',
                    th'[u].idx = s, NEW q \in DOMAIN RegionsOf(s)',
                    th'[v].holds \cap (RegionsOf(s)')[q].blocks # {}
             PROVE  th'[u].min <= th'[v].start
  BY DEF ScanInv
<1>1. u # t
  BY DEF Passed
<1>2. Passed(u, v) /\ th[u].idx = s /\ th'[u].min = th[u].min /\ th'[v].start = th[v].start
  BY <1>1 DEF Passed
<1>3. q \in DOMAIN RegionsOf(s) /\ RegionsOf(s)' = RegionsOf(s)
  BY DEF ListsSame
<1>4. th[v].holds \cap RegionsOf(s)[q].blocks # {}
  BY <1>3
<1> QED
  BY <1>2, <1>3, <1>4 DEF GcInv, ScanInv

LEMMA ReadRootScan == ASSUME GcInv, NEW t \in Thread, ReadRoot(t) PROVE ScanInv'
<1>0. th[t].pc = "tx"
  BY DEF ReadRoot
<1>1. ListsSame
  BY <1>0, RegionsSame DEF Step, GcFree, CleanBlocks, Rollover
<1>2. \A s \in Slot : \A q \in DOMAIN RegionsOf(s) : {root} \cap RegionsOf(s)[q].blocks = {}
  BY RootAlone
<1> QED
  BY <1>0, <1>1, <1>2, FieldsReadRoot, MoreHeldScan

LEMMA PeekScan == ASSUME GcInv, NEW t \in Thread, NEW u \in Thread, Peek(t, u) PROVE ScanInv'
<1>0. th[t].pc = "tx"
  BY DEF Peek
<1>1. ListsSame
  BY <1>0, RegionsSame DEF Step, GcFree, CleanBlocks, Rollover
<1>2. \A s \in Slot : \A q \in DOMAIN RegionsOf(s) : th[u].own \cap RegionsOf(s)[q].blocks = {}
  BY OwnAlone
<1> QED
  BY <1>0, <1>1, <1>2, FieldsPeek, MoreHeldScan

\* The scan starts at the first slot: it has passed nobody.
LEMMA GcFreeScan == ASSUME GcInv, NEW t \in Thread, GcFree(t) PROVE ScanInv'
<1>a. PICK idx \in Slot :
        /\ idx = th[t].idx
        /\ \A s \in Slot : s # idx => RegionsOf(s)' = RegionsOf(s)
  BY GcFreeLists
<1>1. /\ th[t].pc = "free" /\ th'[t].pc = "scan" /\ th'[t].i = 1 /\ th'[t].idx = idx
      /\ th'[t].holds = th[t].holds /\ th'[t].start = th[t].start
      /\ \A v \in Thread : v # t => th'[v] = th[v]
  BY <1>a, FieldsGcFree DEF GcFree
<1> SUFFICES ASSUME NEW u \in Thread, NEW v \in Thread, NEW s \in Slot, Passed(u, v)',
                    th'[u].idx = s, NEW q \in DOMAIN RegionsOf(s)',
                    th'[v].holds \cap (RegionsOf(s)')[q].blocks # {}
             PROVE  th'[u].min <= th'[v].start
  BY DEF ScanInv
<1>2. th[v].holds # {} /\ th'[v].idx = th[v].idx /\ th'[v].start = th[v].start
      /\ th'[v].holds = th[v].holds
  BY <1>a, <1>1
<1>3. th[v].idx \in Slot
  BY <1>2, Holder
<1>4. u # t
  BY <1>1, <1>2, <1>3, SlotRange DEF Passed
<1>5. Passed(u, v) /\ th[u].idx = s /\ th'[u].min = th[u].min
  BY <1>1, <1>2, <1>4 DEF Passed
<1>6. s # idx
  BY <1>a, <1>1, <1>4, <1>5, OneOwner
<1> QED
  BY <1>a, <1>2, <1>5, <1>6 DEF GcInv, ScanInv

\* The scan goes on past slots that are not busy, and stops at the first one
\* that was never used: all busy slots come before it.
LEMMA ScanUsedScan == ASSUME GcInv, NEW t \in Thread, ScanUsed(t) PROVE ScanInv'
<1>0. th[t].pc = "scan"
  BY DEF ScanUsed
<1>1. ListsSame
  BY <1>0, RegionsSame DEF Step, GcFree, CleanBlocks, Rollover
<1>2. /\ th'[t].holds = th[t].holds /\ th'[t].start = th[t].start /\ th'[t].idx = th[t].idx
      /\ th'[t].min = th[t].min
      /\ \A v \in Thread : v # t => th'[v] = th[v]
  BY FieldsScanUsed
<1> SUFFICES ASSUME NEW u \in Thread, NEW v \in Thread, NEW s \in Slot, Passed(u, v)',
                    th'[u].idx = s, NEW q \in DOMAIN RegionsOf(s)',
                    th'[v].holds \cap (RegionsOf(s)')[q].blocks # {}
             PROVE  th'[u].min <= th'[v].start
  BY DEF ScanInv
<1>3. /\ q \in DOMAIN RegionsOf(s) /\ th[v].holds \cap RegionsOf(s)[q].blocks # {}
      /\ th[v].holds # {} /\ th'[v].idx = th[v].idx /\ th'[v].start = th[v].start
      /\ th[u].idx = s /\ th'[u].min = th[u].min
  BY <1>1, <1>2 DEF ListsSame
<1>4. Passed(u, v)
  <2>1. CASE u # t
    BY <1>2, <1>3, <2>1 DEF Passed
  <2>2. CASE u = t
    <3>1. th[v].idx \in Slot /\ slots[th[v].idx].used = GcBusy
      BY <1>3, Holder
    <3>2. th[t].i \in 1 .. (Slots + 1) /\ th[v].idx \in Nat /\ th[v].idx <= Slots /\ Slots \in Nat
      BY <3>1, Records, SlotRange DEF ThreadRec
    <3>3. CASE th[t].i > Slots
      BY <1>0, <2>2, <3>2, <3>3 DEF Passed
    <3>4. CASE ~ (th[t].i > Slots) /\ slots[th[t].i].used = GcNull
      <4>1. th[t].i \in Slot
        BY <3>2, <3>4 DEF Slot
      <4>2. th[v].idx # th[t].i
        BY <3>1, <3>4 DEF GcNull, GcBusy
      <4>3. ~ (th[t].i < th[v].idx)
        BY <3>1, <3>4, <4>1 DEF GcInv, SlotInv, GcNull, GcBusy
      <4> QED
        BY <1>0, <2>2, <3>2, <4>2, <4>3 DEF Passed
    <3>5. CASE /\ th'[t].pc = "scan" /\ th'[t].i = th[t].i + 1
               /\ th[t].i \in Slot /\ slots[th[t].i].used # GcBusy
      <4>1. th[v].idx # th[t].i
        BY <3>1, <3>5
      <4>2. th[v].idx < th[t].i + 1
        BY <1>3, <2>2, <3>5 DEF Passed
      <4> QED
        BY <1>0, <2>2, <3>2, <4>1, <4>2 DEF Passed
    <3>6. CASE th'[t].pc = "scanTs" /\ th'[t].i = th[t].i
      BY <1>0, <1>3, <2>2, <3>6 DEF Passed
    <3> QED
      BY <3>3, <3>4, <3>5, <3>6, FieldsScanUsed
  <2> QED
    BY <2>1, <2>2
<1> QED
  BY <1>3, <1>4 DEF GcInv, ScanInv

\* The epoch of a busy slot is the start of the transaction in it.
LEMMA ScanTsScan == ASSUME GcInv, NEW t \in Thread, ScanTs(t) PROVE ScanInv'
<1>0. th[t].pc = "scanTs" /\ th[t].i \in Slot
  BY DoesScanTs DEF ScanTs
<1>1. ListsSame
  BY <1>0, RegionsSame DEF Step, GcFree, CleanBlocks, Rollover
<1>2. /\ th'[t].holds = th[t].holds /\ th'[t].start = th[t].start /\ th'[t].idx = th[t].idx
      /\ th'[t].min = Lower(th[t].min, slots[th[t].i].ts)
      /\ th'[t].pc = "scan" /\ th'[t].i = th[t].i + 1
      /\ \A v \in Thread : v # t => th'[v] = th[v]
  BY FieldsScanTs
<1>a. /\ th'[t].min <= th[t].min /\ th'[t].min <= slots[th[t].i].ts
      /\ th'[t].min \in Int /\ th[t].min \in Int /\ slots[th[t].i].ts \in Int
  <2>1. th[t].min \in Nat /\ slots[th[t].i].ts \in Nat
    BY <1>0, Records DEF ThreadRec, SlotRec
  <2> QED
    BY <1>2, <2>1 DEF Lower
<1> SUFFICES ASSUME NEW u \in Thread, NEW v \in Thread, NEW s \in Slot, Passed(u, v)',
                    th'[u].idx = s, NEW q \in DOMAIN RegionsOf(s)',
                    th'[v].holds \cap (RegionsOf(s)')[q].blocks # {}
             PROVE  th'[u].min <= th'[v].start
  BY DEF ScanInv
<1>3. /\ q \in DOMAIN RegionsOf(s) /\ th[v].holds \cap RegionsOf(s)[q].blocks # {}
      /\ th[v].holds # {} /\ th'[v].idx = th[v].idx /\ th'[v].start = th[v].start
      /\ th[u].idx = s /\ th[v].start \in Nat
  BY <1>1, <1>2, Records DEF ListsSame, ThreadRec
<1>4. CASE u # t
  <2>1. Passed(u, v) /\ th'[u].min = th[u].min
    BY <1>2, <1>3, <1>4 DEF Passed
  <2> QED
    BY <1>3, <2>1 DEF GcInv, ScanInv
<1>5. CASE u = t /\ th[v].idx = th[t].i
  BY <1>3, <1>5, <1>a, Holder
<1>6. CASE u = t /\ th[v].idx # th[t].i
  <2>1. th[v].idx < th[t].i + 1 /\ th[v].idx \in Slot
    BY <1>2, <1>3, <1>6, Holder DEF Passed
  <2>2. th[v].idx < th[t].i
    BY <1>0, <1>6, <2>1, SlotRange
  <2>3. Passed(u, v)
    BY <1>0, <1>6, <2>2 DEF Passed
  <2>4. th[t].min <= th[v].start
    BY <1>3, <1>6, <2>3 DEF GcInv, ScanInv
  <2> QED
    BY <1>3, <1>6, <1>a, <2>4
<1> QED
  BY <1>4, <1>5, <1>6

LEMMA CleanBlocksScan == ASSUME GcInv, NEW t \in Thread, CleanBlocks(t) PROVE ScanInv'
<1>a. PICK idx \in Slot :
        /\ idx = th[t].idx
        /\ RegionsOf(idx) \in Seq(Region) /\ RegionsOf(idx) # <<>>
        /\ RegionsOf(idx)' = SubSeq(RegionsOf(idx), 2, Len(RegionsOf(idx)))
        /\ \A s \in Slot : s # idx => RegionsOf(s)' = RegionsOf(s)
  BY CleanBlocksLists
<1> DEFINE R == RegionsOf(idx)
           A == RegionsOf(idx)'
<1>1. \A q \in DOMAIN A : q + 1 \in DOMAIN R /\ A[q] = R[q + 1]
  BY <1>a, RestRegions
<1>2. /\ th[t].pc = "pop" /\ th'[t].pc = "popped"
      /\ \A v \in Thread : /\ th'[v].idx = th[v].idx /\ th'[v].holds = th[v].holds
                            /\ th'[v].start = th[v].start /\ th'[v].min = th[v].min
      /\ \A v \in Thread : v # t => th'[v] = th[v]
  BY FieldsCleanBlocks DEF CleanBlocks
<1> HIDE DEF A, R
<1> SUFFICES ASSUME NEW u \in Thread, NEW v \in Thread, NEW s \in Slot, Passed(u, v)',
                    th'[u].idx = s, NEW q \in DOMAIN RegionsOf(s)',
                    th'[v].holds \cap (RegionsOf(s)')[q].blocks # {}
             PROVE  th'[u].min <= th'[v].start
  BY DEF ScanInv
<1>3. Passed(u, v) /\ th[u].idx = s
  BY <1>2 DEF Passed
<1>4. CASE s = idx
  <2>1. q + 1 \in DOMAIN R /\ th[v].holds \cap R[q + 1].blocks # {}
    BY <1>1, <1>2, <1>4 DEF A
  <2> QED
    BY <1>2, <1>3, <1>4, <2>1 DEF GcInv, ScanInv, R
<1>5. CASE s # idx
  BY <1>a, <1>2, <1>3, <1>5 DEF GcInv, ScanInv
<1> QED
  BY <1>4, <1>5

LEMMA RolloverScan == ASSUME SafeUses, GcInv, NEW t \in Thread, Rollover(t) PROVE ScanInv'
<1>1. \A v \in Thread : th'[v].holds = {}
  BY RolloverIdle, DoesRollover
<1> QED
  BY <1>1 DEF ScanInv

LEMMA ScanStep == ASSUME SafeUses, GcInv, NEW t \in Thread, Step(t) PROVE ScanInv'
<1>0. ~ GcFree(t) /\ ~ CleanBlocks(t) /\ ~ Rollover(t) => ListsSame
  BY RegionsSame
<1>h. th[t].pc \notin {"tx", "free", "scan", "scanTs", "pop", "popped"} => th[t].holds = {}
  BY Holder
<1>1. CASE GcInitThread(t)
  <2>1. th[t].pc = "off"
    BY <1>1 DEF GcInitThread
  <2>2. ListsSame
    BY <1>0, <2>1 DEF GcFree, CleanBlocks, Rollover
  <2>3. ScanFrame
    BY <1>1, <1>h, <2>1, <2>2, FieldsGcInitThread DEF ScanFrame
  <2> QED
    BY <2>3, ScanFrameKeeps
<1>2. CASE FindSlot(t)
  <2>1. th[t].pc = "find"
    BY <1>2 DEF FindSlot
  <2>2. ListsSame
    BY <1>0, <2>1 DEF GcFree, CleanBlocks, Rollover
  <2>3. ScanFrame
    BY <1>2, <1>h, <2>1, <2>2, FieldsFindSlot DEF ScanFrame
  <2> QED
    BY <2>3, ScanFrameKeeps
<1>3. CASE CasSlot(t)
  <2>1. th[t].pc = "cas"
    BY <1>3 DEF CasSlot
  <2>2. ListsSame
    BY <1>0, <2>1 DEF GcFree, CleanBlocks, Rollover
  <2>3. ScanFrame
    BY <1>3, <1>h, <2>1, <2>2, FieldsCasSlot DEF ScanFrame
  <2> QED
    BY <2>3, ScanFrameKeeps
<1>4. CASE EnterThread(t)
  <2>1. th[t].pc = "enter"
    BY <1>4 DEF EnterThread
  <2>2. ListsSame
    BY <1>0, <2>1 DEF GcFree, CleanBlocks, Rollover
  <2>3. ScanFrame
    BY <1>4, <1>h, <2>1, <2>2, FieldsEnterThread DEF ScanFrame
  <2> QED
    BY <2>3, ScanFrameKeeps
<1>5. CASE Prepare(t)
  <2>1. th[t].pc = "idle"
    BY <1>5 DEF Prepare
  <2>2. ListsSame
    <3>1. ~ GcFree(t) /\ ~ CleanBlocks(t)
      BY <2>1 DEF GcFree, CleanBlocks
    <3>2. ~ Rollover(t)
      BY <1>5, <2>1, FieldsPrepare, DoesRollover
    <3> QED
      BY <1>0, <3>1, <3>2
  <2>3. ScanFrame
    BY <1>5, <1>h, <2>1, <2>2, FieldsPrepare DEF ScanFrame
  <2> QED
    BY <2>3, ScanFrameKeeps
<1>6. CASE GcSetEpoch(t)
  <2>1. th[t].pc = "prepared"
    BY <1>6 DEF GcSetEpoch
  <2>2. ListsSame
    BY <1>0, <2>1 DEF GcFree, CleanBlocks, Rollover
  <2>3. ScanFrame
    BY <1>6, <1>h, <2>1, <2>2, FieldsGcSetEpoch DEF ScanFrame
  <2> QED
    BY <2>3, ScanFrameKeeps
<1>7. CASE EndTx(t)
  <2>1. th[t].pc = "tx"
    BY <1>7 DEF EndTx
  <2>2. ListsSame
    BY <1>0, <2>1 DEF GcFree, CleanBlocks, Rollover
  <2>3. ScanFrame
    BY <1>7, <1>h, <2>1, <2>2, FieldsEndTx DEF ScanFrame
  <2> QED
    BY <2>3, ScanFrameKeeps
<1>8. CASE Unlink(t)
  <2>1. th[t].pc = "tx"
    BY <1>8 DEF Unlink
  <2>2. ListsSame
    BY <1>0, <2>1 DEF GcFree, CleanBlocks, Rollover
  <2>3. ScanFrame
    BY <1>8, <1>h, <2>1, <2>2, FieldsUnlink DEF ScanFrame
  <2> QED
    BY <2>3, ScanFrameKeeps
<1>9. CASE OnCommit(t)
  <2>1. th[t].pc = "committed"
    BY <1>9 DEF OnCommit
  <2>2. ListsSame
    BY <1>0, <2>1 DEF GcFree, CleanBlocks, Rollover
  <2>3. ScanFrame
    BY <1>9, <1>h, <2>1, <2>2, FieldsOnCommit DEF ScanFrame
  <2> QED
    BY <2>3, ScanFrameKeeps
<1>10. CASE Grow(t)
  <2>1. th[t].pc = "tx"
    BY <1>10 DEF Grow
  <2>2. ListsSame
    BY <1>0, <2>1 DEF GcFree, CleanBlocks, Rollover
  <2>3. ScanFrame
    BY <1>10, <1>h, <2>1, <2>2, FieldsGrow DEF ScanFrame
  <2> QED
    BY <2>3, ScanFrameKeeps
<1>11. CASE UnlinkRegion(t)
  <2>1. th[t].pc = "popped"
    BY <1>11 DEF UnlinkRegion
  <2>2. ListsSame
    BY <1>0, <2>1 DEF GcFree, CleanBlocks, Rollover
  <2>3. ScanFrame
    BY <1>11, <1>h, <2>1, <2>2, FieldsUnlinkRegion DEF ScanFrame
  <2> QED
    BY <2>3, ScanFrameKeeps
<1>12. CASE EndCleanup(t)
  <2>1. th[t].pc = "pop"
    BY <1>12 DEF EndCleanup
  <2>2. ListsSame
    BY <1>0, <1>12, <2>1 DEF GcFree, CleanBlocks, Rollover, EndCleanup
  <2>3. ScanFrame
    BY <1>12, <1>h, <2>1, <2>2, FieldsEndCleanup, Records DEF ScanFrame, ThreadRec
  <2> QED
    BY <2>3, ScanFrameKeeps
<1>13. CASE QuiesceExitThread(t)
  <2>1. th[t].pc = "idle"
    BY <1>13 DEF QuiesceExitThread
  <2>2. ListsSame
    <3>1. ~ GcFree(t) /\ ~ CleanBlocks(t)
      BY <2>1 DEF GcFree, CleanBlocks
    <3>2. ~ Rollover(t)
      BY <1>13, <2>1, FieldsQuiesceExitThread, DoesRollover
    <3> QED
      BY <1>0, <3>1, <3>2
  <2>3. ScanFrame
    BY <1>13, <1>h, <2>1, <2>2, FieldsQuiesceExitThread DEF ScanFrame
  <2> QED
    BY <2>3, ScanFrameKeeps
<1>14. CASE FreeDescriptor(t)
  <2>1. th[t].pc = "leaving"
    BY <1>14 DEF FreeDescriptor
  <2>2. ListsSame
    BY <1>0, <2>1 DEF GcFree, CleanBlocks, Rollover
  <2>3. ScanFrame
    BY <1>14, <1>h, <2>1, <2>2, FieldsFreeDescriptor DEF ScanFrame
  <2> QED
    BY <2>3, ScanFrameKeeps
<1>15. CASE GcExitThread(t)
  <2>1. th[t].pc = "leave"
    BY <1>15 DEF GcExitThread
  <2>2. ListsSame
    BY <1>0, <2>1 DEF GcFree, CleanBlocks, Rollover
  <2>3. ScanFrame
    BY <1>15, <1>h, <2>1, <2>2, FieldsGcExitThread DEF ScanFrame
  <2> QED
    BY <2>3, ScanFrameKeeps
<1>16. CASE ReleaseSlot(t)
  <2>1. th[t].pc = "release"
    BY <1>16 DEF ReleaseSlot
  <2>2. ListsSame
    BY <1>0, <2>1 DEF GcFree, CleanBlocks, Rollover
  <2>3. ScanFrame
    BY <1>16, <1>h, <2>1, <2>2, FieldsReleaseSlot DEF ScanFrame
  <2> QED
    BY <2>3, ScanFrameKeeps
<1>17. CASE ReadRoot(t)
  BY <1>17, ReadRootScan
<1>18. CASE GcFree(t)
  BY <1>18, GcFreeScan
<1>19. CASE ScanUsed(t)
  BY <1>19, ScanUsedScan
<1>20. CASE ScanTs(t)
  BY <1>20, ScanTsScan
<1>21. CASE CleanBlocks(t)
  BY <1>21, CleanBlocksScan
<1>22. CASE Rollover(t)
  BY <1>22, RolloverScan
<1>23. ASSUME NEW u \in Thread, Peek(t, u) PROVE ScanInv'
  BY <1>23, PeekScan
<1> QED
  BY <1>1, <1>2, <1>3, <1>4, <1>5, <1>6, <1>7, <1>8, <1>9, <1>10, <1>11, <1>12, <1>13,
     <1>14, <1>15, <1>16, <1>17, <1>18, <1>19, <1>20, <1>21, <1>22, <1>23 DEF Step

-----------------------------------------------------------------------------
(* The theorems.                                                           *)

LEMMA GcStep == ASSUME SafeUses, GcInv, GcNext PROVE GcInv'
<1>1. PICK t \in Thread : Step(t)
  BY DEF GcNext, Step
<1> QED
  BY <1>1, TypeStep, SlotStep, CountStep, StageStep, PlaceStep, HoldStep, ScanStep DEF GcInv

LEMMA GcStutter == ASSUME GcInv, UNCHANGED gcVars PROVE GcInv'
<1>1. GcType' /\ SlotInv' /\ CountInv'
  BY DEF GcInv, GcType, SlotInv, CountInv, gcVars
<1>2. StageInv'
  BY DEF GcInv, StageInv, Stage, InTx, Regions, gcVars
<1>3. \A s : RegionsOf(s)' = RegionsOf(s)
  BY DEF RegionsOf, gcVars
<1>4. ListsSame
  BY <1>3 DEF ListsSame
<1>5. PlaceInv'
  BY <1>4, PlaceFrame DEF gcVars
<1>6. HoldInv'
  <2>1. HoldFrame
    BY <1>4 DEF HoldFrame, gcVars
  <2> QED
    BY <2>1, HoldFrameKeeps
<1>7. ScanInv'
  <2>1. ScanFrame
    BY <1>4 DEF ScanFrame, gcVars
  <2> QED
    BY <2>1, ScanFrameKeeps
<1> QED
  BY <1>1, <1>2, <1>5, <1>6, <1>7 DEF GcInv

\* The inductive invariant: slots have one owner and are used in order, every
\* block is in one place, a transaction started no later than the epoch of
\* what it holds, and a scan's minimum is no larger than the start of the
\* transactions it has passed (gc.c:199, 323, 346).
THEOREM GcInvariant == ASSUME SafeUses PROVE GcSpec => []GcInv
<1>1. GcInit => GcInv
  BY GcInitInv
<1>2. GcInv /\ [GcNext]_gcVars => GcInv'
  BY GcStep, GcStutter
<1> QED
  BY <1>1, <1>2, PTL DEF GcSpec

LEMMA OnePlace == ASSUME GcInv PROVE EachBlockOnce
<1> SUFFICES ASSUME NEW b \in Block
             PROVE  LET places == {<<"root">> : x \in {root} \cap {b}}
            \cup {<<"own", t>> : t \in {u \in Thread : b \in th[u].own}}
            \cup {<<"victim", t>> : t \in {u \in Thread : b \in th[u].victim}}
            \cup {<<"free">> : x \in free \cap {b}}
            \cup UNION {{<<s, r>> : r \in {q \in DOMAIN RegionsOf(s) :
                                             b \in RegionsOf(s)[q].blocks}}
                          : s \in Slot}
                    IN Cardinality(places) = 1
  BY DEF EachBlockOnce
<1> DEFINE P1 == {<<"root">> : x \in {root} \cap {b}}
           P2 == {<<"own", t>> : t \in {u \in Thread : b \in th[u].own}}
           P3 == {<<"victim", t>> : t \in {u \in Thread : b \in th[u].victim}}
           P4 == {<<"free">> : x \in free \cap {b}}
           P5 == UNION {{<<s, r>> : r \in {q \in DOMAIN RegionsOf(s) :
                                             b \in RegionsOf(s)[q].blocks}}
                          : s \in Slot}
<1>1. PICK k, x, r : IsAt(b, k, x, r)
  BY DEF GcInv, PlaceInv
<1>2. P1 = IF k = "root" THEN {<<"root">>} ELSE {}
  BY <1>1 DEF IsAt
<1>3. P2 = IF k = "own" THEN {<<"own", x>>} ELSE {}
  BY <1>1 DEF IsAt
<1>4. P3 = IF k = "victim" THEN {<<"victim", x>>} ELSE {}
  BY <1>1 DEF IsAt
<1>5. P4 = IF k = "free" THEN {<<"free">>} ELSE {}
  BY <1>1 DEF IsAt
<1>6. P5 = IF k = "region" THEN {<<x, r>>} ELSE {}
  BY <1>1 DEF IsAt
<1>7. k \in {"root", "own", "victim", "free", "region"}
  BY <1>1 DEF IsAt
<1> HIDE DEF P1, P2, P3, P4, P5
<1>8. \E y : P1 \cup P2 \cup P3 \cup P4 \cup P5 = {y}
  BY <1>2, <1>3, <1>4, <1>5, <1>6, <1>7
<1>9. Cardinality(P1 \cup P2 \cup P3 \cup P4 \cup P5) = 1
  BY <1>8, FS_Singleton
<1> QED
  BY <1>9 DEF P1, P2, P3, P4, P5

LEMMA SlotsOwned == ASSUME GcInv PROVE SlotsExclusive
<1> DEFINE B == {s \in Slot : slots[s].used = GcBusy}
           T == {t \in Thread : th[t].pc # "off"}
           U == {t \in Thread : th[t].idx # 0}
           f == [t \in U |-> th[t].idx]
<1>1. IsFiniteSet(T) /\ nb_active = Cardinality(T)
  BY GcAssumption, FS_Subset DEF GcInv, CountInv
<1>2. U \subseteq T
  BY DEF GcInv, SlotInv
<1>3. IsFiniteSet(U) /\ Cardinality(U) <= Cardinality(T)
  BY <1>1, <1>2, FS_Subset
<1>4. f \in Surjection(U, B)
  <2>1. \A t \in U : th[t].idx \in B
    BY Records, SlotRange DEF GcInv, SlotInv, ThreadRec, Slot
  <2>2. \A s \in B : \E t \in U : th[t].idx = s
    BY SlotRange DEF GcInv, SlotInv
  <2> QED
    BY <2>1, <2>2 DEF Surjection
<1>5. IsFiniteSet(B) /\ Cardinality(B) <= Cardinality(U)
  BY <1>3, <1>4, FS_Surjection
<1>6. Cardinality(B) \in Nat /\ Cardinality(U) \in Nat /\ Cardinality(T) \in Nat
  BY <1>1, <1>3, <1>5, FS_CardinalityType
<1>7. Cardinality(B) <= nb_active
  <2> HIDE DEF B, U, T
  <2> QED
    BY <1>1, <1>3, <1>5, <1>6
<1> QED
  BY <1>7 DEF SlotsExclusive, GcInv, SlotInv

\* The collector (gc.c) frees nothing a transaction can still reach, loses and
\* frees twice no block, and gives every thread a slot of its own, whatever
\* threads register, start, commit and leave while gc_compute_min walks the
\* slots: for every number of threads, blocks and slots and every program
\* that combines neither exits with roll-overs nor growth with peeking.
THEOREM CollectorIsSafe == ASSUME SafeUses PROVE GcSpec => []CollectorSafe
<1>1. GcInv => CollectorSafe
  <2>1. GcInv => NoUseAfterFree
    BY DEF GcInv, HoldInv, NoUseAfterFree
  <2> QED
    BY <2>1, OnePlace, SlotsOwned DEF CollectorSafe
<1> QED
  BY <1>1, GcInvariant, PTL
=============================================================================
