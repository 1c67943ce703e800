---------------------------- MODULE StmETLSerial ----------------------------
(***************************************************************************)
(* Proof that StmETL is serializable (EtlSerializable), for both designs   *)
(* and all contention managers of builds in which all reads are of one     *)
(* kind: the steps that change locks, logs, memory or history, and the     *)
(* theorem.                                                                *)
(***************************************************************************)
EXTENDS StmETLReads

(***************************************************************************)
(* Steps that change locks, logs or memory                                 *)
(***************************************************************************)
KeepsBacks(t) ==
  \A k \in Lock, n, c \in Nat : Backs(k, n, c)' =>
    /\ Backs(k, n, c)
    /\ WriteThrough /\ ~LOCK_GET_OWNED(locks'[k]) => ~LOCK_GET_OWNED(locks[k])

KeepsPublished(t) ==
  Published(t) => \A k \in Lock : locks[k].owner = t =>
    Published(t)' /\ locks'[k].owner = t /\ tx'[t].ts = tx[t].ts

KeepsStamp(t) ==
  Stamped(t)' => /\ Stamped(t) /\ tx'[t].ts = tx[t].ts
                 /\ \A k \in Lock : locks'[k].owner = t => locks[k].owner = t

LEMMA LockStep ==
  ASSUME Inv, Inv', SInv, NEW t \in Thread, build' = build, UNCHANGED <<clock, hist>>,
         OthersSame(t), OwnerStep(t), MemStep(t), KeepsBacks(t), KeepsPublished(t),
         KeepsStamp(t), TicketStep(t), LockKinds', VersionLocal(t)', TxInv(t)'
  PROVE  SInv'
<1>1. clock \in Nat /\ clock' \in Nat /\ clock <= clock'
  BY DEF Inv, TypeOK
<1>3. \A k \in Lock, n, c \in Nat : Backs(k, n, c)' => Backs(k, n, c)
  BY DEF KeepsBacks
<1>4. SharedStep(t)
  <2>1. HistStep(t)
    <3>1. clock + 1 \in Nat /\ clock + 1 > clock
      BY <1>1
    <3> QED
      BY <3>1 DEF HistStep
  <2>3. BacksStep(t)
    BY DEF BacksStep, KeepsBacks, KeepsPublished
  <2> QED
    BY <1>1, <2>1, <2>3 DEF SharedStep
<1>6. VersionInv'
  <2>1. Published(t) => \A k \in Lock : locks[k].owner = t =>
           Published(t)' /\ locks'[k].owner = t /\ tx'[t].ts = tx[t].ts
    BY DEF KeepsPublished
  <2>2. Stamped(t)' => /\ Stamped(t) /\ tx'[t].ts = tx[t].ts
                       /\ \A k \in Lock : locks'[k].owner = t => locks[k].owner = t
    BY DEF KeepsStamp
  <2> QED
    BY <1>3, <1>4, <2>1, <2>2, VersionKept
<1>8. HistoryUnique'
  BY DEF SInv, HistoryUnique
<1>9. \A u \in Thread : TxInv(u)'
  <2>1. \A u \in Thread \ {t} : TxInv(u)'
    BY <1>4, OthersKept
  <2> QED
    BY <2>1
<1> QED
  BY <1>6, <1>8, <1>9 DEF SInv

\* The reads of a running transaction when locks change hands, or when it
\* reads a word under a lock of its own.
LEMMA SnapOwned ==
  ASSUME Inv, build' = build, hist' = hist, clock' = clock, NEW t \in Thread, OthersSame(t),
         ReadTypes(tx[t]), ReadTypes(tx'[t]), SnapBase(t),
         tx'[t].r_set = tx[t].r_set, tx'[t].start = tx[t].start, tx'[t].end = tx[t].end,
         \A k \in Lock : locks[k].owner = t => locks'[k].owner = t,
         \A o \in tx[t].obs :
           locks'[LockOf[o.addr]].owner = t /\ locks[LockOf[o.addr]].owner # t
             => Latest(o.addr, o.value),
         \A o \in tx'[t].obs \ tx[t].obs :
           locks'[LockOf[o.addr]].owner = t /\ Latest(o.addr, o.value)
  PROVE  SnapBase(t)'
<1>1. LockOf' = LockOf /\ LockOf \in [Addr -> Lock]
  BY BuildIs DEF LockOf, Inv, TypeOK
<1>2. PICK s \in Nat : s = tx[t].end
  BY DEF ReadTypes
<1>3. \A r : Still(t, r, s)' <=> Still(t, r, s)
  BY FrameStill
<1>4. \A r \in tx[t].r_set : r.lock \in Lock
  BY DEF ReadTypes, ReadEntry
<1>5. \A r \in tx[t].r_set :
        r.version <= s /\ (locks'[r.lock].owner # t => Still(t, r, s)')
  BY <1>2, <1>3, <1>4 DEF SnapBase
<1>6. ASSUME NEW o \in tx'[t].obs PROVE Vouched(t, o)'
  <2>1. o.addr \in Addr /\ LockOf[o.addr] \in Lock
    BY <1>1 DEF ReadTypes, Observation
  <2>2. CASE o \notin tx[t].obs
    BY <1>1, <1>6, <2>2 DEF Vouched, Latest
  <2>3. CASE o \in tx[t].obs
    <3>1. Vouched(t, o)
      BY <2>3 DEF SnapBase
    <3>2. CASE locks'[LockOf[o.addr]].owner = t
      <4>1. Latest(o.addr, o.value)
        BY <2>3, <3>1, <3>2 DEF Vouched
      <4> QED
        BY <1>1, <3>2, <4>1 DEF Vouched, Latest
    <3>3. CASE locks'[LockOf[o.addr]].owner # t
      <4>1. locks[LockOf[o.addr]].owner # t
        BY <2>1, <3>3
      <4>2. PICK r \in tx[t].r_set : r.lock = LockOf[o.addr] /\ IsValueAt(o.addr, r.version, o.value)
        BY <3>1, <4>1 DEF Vouched
      <4>3. IsValueAt(o.addr, r.version, o.value)'
        BY <4>2 DEF IsValueAt
      <4> QED
        BY <1>1, <3>3, <4>2, <4>3 DEF Vouched
    <3> QED
      BY <3>2, <3>3
  <2> QED
    BY <2>2, <2>3
<1> QED
  BY <1>2, <1>5, <1>6 DEF SnapBase

\* Locks that t does not own are as they were; what it owns it had, or it has
\* taken from nobody or from a killed transaction.
Taking(t) ==
  \A k \in Lock :
    /\ locks'[k].owner # t => locks'[k] = locks[k]
    /\ locks'[k].owner = t => \/ locks[k].owner \in {t, NoOwner}
                              \/ locks[k].owner \in Thread /\ Killed(locks[k].owner)

\* The entries of t go back to versions their locks were at before.
EntriesKnown(t) ==
  \A k \in Lock : \A j \in DOMAIN W(t)' : EntryBacks(t, j, k)' =>
    Backs(k, W(t)'[j].version, W(t)'[j].inc)

LEMMA TakingOwners ==
  ASSUME NEW t \in Thread, OthersSame(t), Taking(t)
  PROVE  /\ OwnerStep(t) /\ ForeignSame(t)
         /\ \A k \in Lock : ~LOCK_GET_OWNED(locks'[k]) => ~LOCK_GET_OWNED(locks[k])
         /\ \A k \in Lock : locks[k].owner = t => locks'[k].owner = t
<1>1. OwnerStep(t)
  <2> SUFFICES ASSUME NEW u \in Thread \ {t}, NEW k \in Lock, ~Killed(u)'
               PROVE  locks'[k].owner = u <=> locks[k].owner = u
    BY DEF OwnerStep
  <2>1. ~Killed(u) /\ u # NoOwner
    BY EtlAssumption DEF OthersSame
  <2> QED
    BY <2>1 DEF Taking
<1>2. t # NoOwner
  BY EtlAssumption
<1> QED
  BY <1>1, <1>2 DEF Taking, ForeignSame, LOCK_GET_OWNED

LEMMA TakingBacks ==
  ASSUME build' = build, NEW t \in Thread, OthersSame(t), Taking(t), EntriesKnown(t),
         \A n, c \in Nat : At(t, "do_write")' /\ ~LOCK_GET_OWNED(tx'[t].l)
           /\ n = tx'[t].l.n /\ c = tx'[t].l.inc => Backs(ArgLock(t)', n, c)
  PROVE  KeepsBacks(t)
<1>1. ForeignSame(t) /\ \A k \in Lock : ~LOCK_GET_OWNED(locks'[k]) => ~LOCK_GET_OWNED(locks[k])
  BY TakingOwners
<1>2. ASSUME NEW k \in Lock, NEW n \in Nat, NEW c \in Nat, Backs(k, n, c)'
      PROVE  Backs(k, n, c)
  <2>1. CASE FreeAt(k, n, c)'
    <3>1. locks'[k].owner # t
      BY <2>1, EtlAssumption DEF FreeAt, LOCK_GET_OWNED
    <3>2. locks'[k] = locks[k]
      BY <3>1 DEF Taking
    <3> QED
      BY <2>1, <3>2 DEF FreeAt, Backs, LOCK_GET_OWNED
  <2>2. ASSUME NEW u \in Thread \ {t}, BackedBy(u, k, n, c)' PROVE Backs(k, n, c)
    BY <1>1, <2>2, OtherBacks DEF Backs
  <2>3. CASE BackedBy(t, k, n, c)'
    <3>1. CASE \E j \in DOMAIN W(t)' :
                 EntryBacks(t, j, k)' /\ n = W(t)'[j].version /\ c = W(t)'[j].inc
      BY <3>1 DEF EntriesKnown
    <3>2. CASE At(t, "do_write")' /\ ArgLock(t)' = k /\ ~LOCK_GET_OWNED(tx'[t].l)
               /\ n = tx'[t].l.n /\ c = tx'[t].l.inc
      BY <3>2
    <3> QED
      BY <2>3, <3>1, <3>2 DEF BackedBy, LOCK_GET_OWNED
  <2> QED
    BY <1>2, <2>1, <2>2, <2>3 DEF Backs
<1> QED
  BY <1>1, <1>2 DEF KeepsBacks

-----------------------------------------------------------------------------
(***************************************************************************)
(* Calls that return with locks taken or entries added                     *)
(***************************************************************************)
\* A call returns; its reads are as they were, but for words it has read under
\* its own locks.
Grows(t) ==
  /\ tx'[t].pc = "app" /\ Cleared(tx'[t])
  /\ tx'[t].r_set = tx[t].r_set /\ tx'[t].start = tx[t].start /\ tx'[t].end = tx[t].end
  /\ tx'[t].ro = tx[t].ro /\ tx'[t].visible_reads = tx[t].visible_reads
  /\ tx'[t].status = tx[t].status
  /\ tx'[t].obs \in SUBSET Observation /\ tx'[t].has_writes \in Nat
  /\ ~VisibleBuild /\ Modular => tx'[t].has_writes > 0
  /\ ~WriteThrough => \A j \in DOMAIN W(t)' : W(t)'[j].inc = 0
  /\ Running(t) => ~tx[t].ro

\* What has been read under the locks taken is the last committed word.
ObsLocked(t) ==
  Running(t) =>
    /\ \A o \in tx[t].obs :
         locks'[LockOf[o.addr]].owner = t /\ locks[LockOf[o.addr]].owner # t
           => Latest(o.addr, o.value)
    /\ \A o \in tx'[t].obs \ tx[t].obs :
         locks'[LockOf[o.addr]].owner = t /\ Latest(o.addr, o.value)

LEMMA GrowStep ==
  ASSUME Inv, Inv', SInv, NEW t \in Thread, build' = build, UNCHANGED <<clock, hist>>,
         OthersSame(t), InCall(t), Grows(t), ObsLocked(t), Taking(t), EntriesKnown(t),
         MemStep(t), LockKinds'
  PROVE  SInv'
<1>1. TxInv(t) /\ ReadTypes(tx[t]) /\ KindOf(t) /\ SnapInv(t) /\ LocalOK(t)
  BY DEF SInv, TxInv, Inv, LocalInv
<1>2. /\ tx'[t].pc = "app" /\ Cleared(tx'[t]) /\ tx'[t].ts = 0 /\ tx'[t].op = "read"
      /\ ~Published(t)' /\ ~Stamped(t)' /\ ~Ticketed(t)' /\ ~Reading(t)'
  <2>1. tx'[t].pc = "app" /\ Cleared(tx'[t]) /\ tx'[t].ts = 0 /\ tx'[t].op = "read"
    BY DEF Grows, Cleared, Clean
  <2> QED
    BY <2>1 DEF Published, Stamped, Ticketed, Reading, ReadLabels, At
<1>3. ~Published(t)
  BY DEF InCall, Published, CallLabels, At
<1>4. (Killed(t)' <=> Killed(t)) /\ (Running(t)' => Running(t))
  <2>1. Killed(t)' <=> Killed(t)
    BY DEF Killed, Grows
  <2> QED
    BY <2>1 DEF Running, InCall, At
<1>5. OwnerStep(t) /\ \A k \in Lock : locks[k].owner = t => locks'[k].owner = t
  BY TakingOwners
<1>6. KeepsBacks(t)
  <2>1. ~At(t, "do_write")'
    BY <1>2 DEF At
  <2> QED
    BY <2>1, TakingBacks
<1>7. KeepsPublished(t) /\ KeepsStamp(t) /\ TicketStep(t)
  BY <1>2, <1>3 DEF KeepsPublished, KeepsStamp, TicketStep
<1>8. VersionLocal(t)'
  <2>1. ~At(t, "undo_release")' /\ (WriteThrough' <=> WriteThrough)
    BY <1>2 DEF At, WriteThrough
  <2> QED
    BY <1>2, <2>1 DEF VersionLocal, Grows
<1>9. ReadTypes(tx'[t])
  BY <1>1, Constants DEF ReadTypes, Grows, Cleared
<1>10. KindOf(t)'
  <2>1. (VisibleBuild' <=> VisibleBuild) /\ (Modular' <=> Modular)
    BY DEF VisibleBuild, Modular
  <2>2. ~At(t, "read")' /\ ~At(t, "own_value")' /\ tx'[t].pc \notin CallLabels
        /\ tx'[t].pc \notin {"write", "upgrade", "do_write", "vread"} /\ ~At(t, "drop_reads")'
    BY <1>2 DEF At, CallLabels
  <2>3. Running(t)' => ~tx'[t].ro
    BY <1>4 DEF Grows
  <2>4. VisibleBuild => tx'[t].r_set = {}
    BY <1>1 DEF KindOf, Grows
  <2>5. ~VisibleBuild /\ Modular => tx'[t].has_writes > 0
    BY DEF Grows
  <2> QED
    BY <1>2, <2>1, <2>2, <2>3, <2>4, <2>5 DEF KindOf
<1>11. SnapInv(t)'
  <2> SUFFICES ASSUME Running(t)' PROVE SnapInv(t)'
    BY DEF SnapInv
  <2>1. Running(t) /\ ~tx[t].ro
    BY <1>4 DEF Grows
  <2>2. SnapBase(t)
    BY <1>1, <2>1 DEF SnapInv, SnapBase
  <2>3. /\ \A o \in tx[t].obs :
             locks'[LockOf[o.addr]].owner = t /\ locks[LockOf[o.addr]].owner # t
               => Latest(o.addr, o.value)
        /\ \A o \in tx'[t].obs \ tx[t].obs :
             locks'[LockOf[o.addr]].owner = t /\ Latest(o.addr, o.value)
    BY <2>1 DEF ObsLocked
  <2>4. tx'[t].r_set = tx[t].r_set /\ tx'[t].start = tx[t].start /\ tx'[t].end = tx[t].end
    BY DEF Grows
  <2>5. SnapBase(t)'
    BY <1>1, <1>5, <1>9, <2>2, <2>3, <2>4, SnapOwned
  <2>6. ~At(t, "validate")'
    BY <1>2 DEF At
  <2> QED
    BY <1>2, <2>5, <2>6 DEF SnapInv, SnapBase
<1>12. TxInv(t)'
  BY <1>2, <1>9, <1>10, <1>11 DEF TxInv, ReaderInv, SerialInv
<1> QED
  BY <1>5, <1>6, <1>7, <1>8, <1>12, LockStep

\* Versions go back through the entries a transaction holds.
LEMMA EntryKnown ==
  ASSUME Inv, NEW t \in Thread, InCall(t), NEW j \in DOMAIN W(t), NEW k, LockAt(t, j) = k,
         ~W(t)[j].no_drop, ~Killed(t) \/ (locks[k].owner = t /\ j = locks[k].n)
  PROVE  Backs(k, W(t)[j].version, W(t)[j].inc)
<1>1. j \in Held(t)
  BY DEF Held, InCall, At, CallLabels, Releasing
<1>2. locks[k].owner = t
  BY <1>1 DEF Inv, LockInv, HolderOwns, HolderOwnsOf
<1>3. EntryBacks(t, j, k)
  BY <1>1, <1>2 DEF EntryBacks
<1> QED
  BY <1>3 DEF Backs, BackedBy

TakesLock(base, k0, x) == locks' = [base EXCEPT ![k0] = x]

\* A lock taken with a new entry at the end of the log.
LEMMA AppendKnown ==
  ASSUME Inv, NEW t \in Thread, build' = build, InCall(t), NEW n, n = Len(W(t)),
         NEW gen, NEW base, Rebased(t, gen, base), NEW k0, k0 = ArgLock(t), Takeable(t, k0),
         NEW x, x.owner = t, x.n = n + 1, TakesLock(base, k0, x),
         NEW e \in LogEntry, e.addr = tx[t].arg.addr, tx'[t].w_set = Append(W(t), e),
         Backs(k0, e.version, e.inc), tx'[t].status = tx[t].status
  PROVE  Taking(t) /\ EntriesKnown(t)
<1>1. k0 \in Lock /\ base \in [Lock -> LockWord] /\ LockOf' = LockOf /\ NoOwner \notin Thread
  BY ArgLockIs, EtlAssumption DEF Rebased, LockOf
<1>2. locks'[k0] = x /\ \A k \in Lock \ {k0} : locks'[k] = base[k]
  BY <1>1 DEF TakesLock
<1>3. \A k \in Lock : /\ locks[k].owner # t => base[k] = locks[k]
                      /\ locks[k].owner = t => base[k].owner = t /\ base[k].n = locks[k].n
  BY DEF Rebased
<1>4. Taking(t)
  BY <1>1, <1>2, <1>3 DEF Taking, Takeable
<1>5. W(t) \in Seq(LogEntry) /\ n \in Nat /\ DOMAIN W(t) = 1..n
  BY LogSize
<1>6. PICK ws : ws = W(t)
  OBVIOUS
<1>7. /\ DOMAIN W(t)' = 1..(n + 1) /\ W(t)'[n + 1] = e
      /\ \A j \in 1..n : W(t)'[j] = W(t)[j]
  <2>1. /\ DOMAIN Append(ws, e) = 1..(Len(ws) + 1)
        /\ Append(ws, e)[Len(ws) + 1] = e /\ \A j \in 1..Len(ws) : Append(ws, e)[j] = ws[j]
    BY <1>5, <1>6, AppendFacts
  <2> QED
    BY <1>5, <1>6, <2>1 DEF W
<1>8. Killed(t)' <=> Killed(t)
  BY DEF Killed
<1>9. ASSUME NEW k \in Lock, NEW j \in 1..(n + 1), EntryBacks(t, j, k)'
      PROVE  Backs(k, W(t)'[j].version, W(t)'[j].inc)
  <2>1. CASE j = n + 1
    <3>1. LockAt(t, j)' = k0
      BY <1>1, <1>7, <2>1 DEF LockAt, W, ArgLock
    <3>2. k = k0
      BY <1>9, <3>1 DEF EntryBacks
    <3> QED
      BY <1>7, <2>1, <3>2
  <2>2. CASE j \in 1..n
    <3>1. LockAt(t, j)' = LockAt(t, j) /\ W(t)'[j] = W(t)[j]
      BY <1>1, <1>7, <2>2 DEF LockAt, W
    <3>2. LockAt(t, j) = k /\ ~W(t)[j].no_drop /\ (Killed(t) => j = locks'[k].n)
          /\ locks'[k].owner = t
      BY <1>8, <1>9, <3>1 DEF EntryBacks, LockAt, W
    <3>3. ~Killed(t) \/ (locks[k].owner = t /\ j = locks[k].n)
      <4> SUFFICES ASSUME Killed(t) PROVE locks[k].owner = t /\ j = locks[k].n
        OBVIOUS
      <4>1. k # k0
        BY <1>2, <1>5, <2>2, <3>2
      <4> QED
        BY <1>2, <1>3, <3>2, <4>1
    <3>4. Backs(k, W(t)[j].version, W(t)[j].inc)
      BY <1>5, <2>2, <3>2, <3>3, EntryKnown
    <3> QED
      BY <3>1, <3>4
  <2> QED
    BY <1>5, <2>1, <2>2
<1>10. EntriesKnown(t)
  BY <1>7, <1>9 DEF EntriesKnown
<1> QED
  BY <1>4, <1>10

\* A lock that may be taken is at the version its word or its entry says, and
\* nothing newer is committed under it.
LEMMA TakeableCovers ==
  ASSUME Inv, SInv, NEW t \in Thread, NEW k \in Lock, Takeable(t, k), NEW v \in Nat, NEW c \in Nat,
         Backs(k, v, c)
  PROVE  Covers(k, v)
<1>1. Covers(k, v) \/ \E u \in Thread : Published(u) /\ locks[k].owner = u
  BY DEF SInv, VersionInv
<1>2. ASSUME NEW u \in Thread, Published(u), locks[k].owner = u PROVE FALSE
  <2>1. ~Killed(u)
    BY <1>2, NotKilled DEF Published, InCommit, CommitLabels
  <2> QED
    BY <1>2, <2>1, EtlAssumption DEF Takeable
<1> QED
  BY <1>1, <1>2

LEMMA AcquiredReads ==
  ASSUME Inv, SInv, NEW t \in Thread, Running(t), ~tx[t].ro, NEW k \in Lock, Takeable(t, k),
         NEW v \in Nat, NEW c \in Nat, Backs(k, v, c), v > tx[t].end => ~stm_has_read(t, k),
         NEW o \in tx[t].obs, LockOf[o.addr] = k
  PROVE  Latest(o.addr, o.value)
<1>1. SnapInv(t) /\ ReadTypes(tx[t])
  BY DEF SInv, TxInv
<1>2. SnapBase(t)
  BY <1>1 DEF SnapInv, SnapBase
<1>3. locks[k].owner # t
  BY EtlAssumption DEF Takeable
<1>4. PICK r \in tx[t].r_set : r.lock = k /\ IsValueAt(o.addr, r.version, o.value)
  BY <1>2, <1>3 DEF SnapBase, Vouched
<1>5. v <= tx[t].end
  <2>1. stm_has_read(t, k) /\ tx[t].end \in Nat
    BY <1>1, <1>4 DEF stm_has_read, ReadTypes
  <2> QED
    BY <2>1
<1>6. Still(t, r, tx[t].end)
  BY <1>2, <1>3, <1>4 DEF SnapBase
<1>7. Covers(k, v)
  BY TakeableCovers
<1>8. \A h \in hist : h.ts \in Nat
  BY DEF Inv, TypeOK
<1>9. tx[t].end \in Nat
  BY <1>1 DEF ReadTypes
<1>10. \A h \in hist : LockOf[h.addr] = k => h.ts <= r.version
  <2> SUFFICES ASSUME NEW h \in hist, LockOf[h.addr] = k PROVE h.ts <= r.version
    OBVIOUS
  <2>1. h.ts <= v
    BY <1>7 DEF Covers
  <2>2. h.ts <= tx[t].end
    BY <1>5, <1>8, <1>9, <2>1
  <2> QED
    BY <1>4, <1>6, <2>2 DEF Still
<1> QED
  BY <1>4, <1>10 DEF IsValueAt, Latest

LEMMA FreeVersion ==
  ASSUME Inv, SInv, ~WriteThrough, NEW k \in Lock, ~LOCK_GET_OWNED(locks[k])
  PROVE  locks[k].n \in Nat /\ Backs(k, locks[k].n, 0)
<1>1. locks[k].inc = 0
  BY DEF SInv, LockKinds
<1>2. locks[k].n \in Nat /\ Backs(k, locks[k].n, locks[k].inc)
  BY FreeCovers
<1> QED
  BY <1>1, <1>2

LEMMA StolenVersion ==
  ASSUME Inv, SInv, NEW t \in Thread, At(t, "steal"), locks[ArgLock(t)] = tx[t].l
  PROVE  /\ EntryVersion(tx[t].l) \in Nat /\ Backs(ArgLock(t), EntryVersion(tx[t].l), 0)
         /\ Takeable(t, ArgLock(t)) /\ ~WriteThrough /\ Modular
<1>0. PICK k, w, u : k = ArgLock(t) /\ w = tx[t].l /\ u = w.owner
  OBVIOUS
<1>1. k \in Lock /\ u \in Thread \ {t} /\ k = ArgLock(t) /\ w = tx[t].l /\ u = w.owner
  BY <1>0, ArgLockIs, StolenFrom
<1>2. Modular /\ ~WriteThrough /\ Killed(u) /\ EntryVersion(w) \in Nat /\ locks[k] = w
  BY <1>1, StolenFrom
<1>3. OwnerHoldsOf(u) /\ LinksForwardOf(u) /\ VersionLocal(u)
  BY <1>1 DEF Inv, LockInv, OwnerHolds, LinksForward, SInv, VersionInv, VersionLocal
<1>4. PICK n : n = w.n
  OBVIOUS
<1>5. w.inc = tx[u].gen /\ n \in DOMAIN W(u) /\ LockAt(u, n) = k /\ n \in Held(u)
  BY <1>1, <1>2, <1>3, <1>4 DEF OwnerHoldsOf
<1>6. ~W(u)[n].no_drop /\ W(u)[n].inc = 0
  BY <1>2, <1>3, <1>5 DEF LinksForwardOf, VersionLocal
<1>7. EntryVersion(w) = W(u)[n].version
  <2>1. n <= Len(W(u))
    BY <1>5, LogSize
  <2> QED
    BY <1>1, <1>4, <1>5, <2>1 DEF EntryVersion, W
<1>8. EntryBacks(u, n, k)
  BY <1>1, <1>2, <1>4, <1>5, <1>6 DEF EntryBacks
<1>9. BackedBy(u, k, EntryVersion(w), 0)
  BY <1>5, <1>6, <1>7, <1>8 DEF BackedBy
<1>10. Takeable(t, k)
  BY <1>1, <1>2 DEF Takeable
<1> QED
  BY <1>1, <1>2, <1>9, <1>10 DEF Backs

-----------------------------------------------------------------------------
\* The fields a call that adds an entry changes.
LogFields == {"w_set", "gen", "size", "has_writes"}
GrowFields == SettledFields \cup LogFields \cup {"pc", "own", "obs"}

Logged(d, ws, gen, size, writes) ==
  [d EXCEPT !.w_set = ws, !.gen = gen, !.size = size, !.has_writes = writes]

LEMMA SetLog ==
  ASSUME NEW d, Shape(d), NEW ws, NEW gen, NEW size, NEW writes
  PROVE  LET e == Logged(d, ws, gen, size, writes) IN
           /\ SameBut(e, d, LogFields) /\ e.w_set = ws /\ e.has_writes = writes
<1> DEFINE e == Logged(d, ws, gen, size, writes)
<1>1. Shape(e)
  BY DEF Shape, Logged
<1>2. /\ \A f \in Fields \ LogFields : e[f] = d[f]
      /\ e.w_set = ws /\ e.has_writes = writes
  BY DEF Shape, Fields, LogFields, Logged
<1>3. SameBut(e, d, LogFields)
  <2> HIDE DEF e
  <2> QED
    BY <1>1, <1>2 DEF SameBut
<1> QED
  BY <1>2, <1>3

\* A store, or a visible read, returns with a new log.
LEMMA GrownIs ==
  ASSUME Inv, NEW t \in Thread, NEW d, SameBut(d, tx[t], LogFields), NEW e,
         SameBut(e, d, SettledFields \cup {"obs", "own"}), Cleared(e), Become(t, e, "app")
  PROVE  /\ OthersSame(t) /\ tx'[t].pc = "app" /\ Cleared(tx'[t])
         /\ SameBut(tx'[t], tx[t], GrowFields)
         /\ tx'[t].w_set = d.w_set /\ tx'[t].has_writes = d.has_writes
         /\ tx'[t].obs = e.obs
<1>1. Moves(t) /\ tx'[t].pc = "app" /\ SameBut(tx'[t], e, {"pc"})
  <2>1. Shape(e)
    BY DEF SameBut
  <2> QED
    BY <2>1, BecomeAll DEF Inv, TypeOK
<1>2. SameBut(tx'[t], tx[t], GrowFields)
  <2>1. \A f \in Fields \ GrowFields : tx'[t][f] = e[f] /\ e[f] = d[f] /\ d[f] = tx[t][f]
    BY <1>1, Zenon DEF SameBut, GrowFields
  <2>2. Shape(tx'[t])
    BY <1>1 DEF SameBut
  <2> QED
    BY <2>1, <2>2 DEF SameBut
<1>3. Cleared(tx'[t])
  BY <1>1 DEF SameBut, Cleared, Clean, Fields
<1>4. tx'[t].w_set = d.w_set /\ tx'[t].has_writes = d.has_writes /\ tx'[t].obs = e.obs
  BY <1>1 DEF SameBut, Fields, SettledFields
<1> QED
  BY <1>1, <1>2, <1>3, <1>4, MovesOthers

LEMMA GrowsIs ==
  ASSUME SInv, NEW t \in Thread, tx'[t].pc = "app", Cleared(tx'[t]),
         SameBut(tx'[t], tx[t], GrowFields), tx'[t].obs \in SUBSET Observation,
         tx'[t].has_writes \in Nat, ~VisibleBuild /\ Modular => tx'[t].has_writes > 0,
         ~WriteThrough => \A j \in DOMAIN W(t)' : W(t)'[j].inc = 0,
         Running(t) => ~tx[t].ro
  PROVE  Grows(t) /\ tx'[t].status = tx[t].status
<1>1. \A f \in {"r_set", "start", "end", "ro", "visible_reads", "status"} : tx'[t][f] = tx[t][f]
  BY DEF SameBut, GrowFields, Fields, SettledFields, LogFields
<1>2. /\ tx'[t].r_set = tx[t].r_set /\ tx'[t].start = tx[t].start /\ tx'[t].end = tx[t].end
      /\ tx'[t].ro = tx[t].ro /\ tx'[t].visible_reads = tx[t].visible_reads
      /\ tx'[t].status = tx[t].status
  BY <1>1
<1> QED
  BY <1>2 DEF Grows

\* The locks before the new one is taken, and after.
LEMMA BaseKinds ==
  ASSUME Inv, SInv, NEW t \in Thread, NEW gen, NEW base, Rebased(t, gen, base),
         base = IF Full(t) THEN Repointed(t, gen) ELSE locks
  PROVE  \A k \in Lock :
           /\ ~VisibleBuild /\ LOCK_GET_OWNED(base[k]) => base[k].write
           /\ ~WriteThrough /\ ~LOCK_GET_OWNED(base[k]) => base[k].inc = 0
<1> SUFFICES ASSUME NEW k \in Lock
             PROVE  /\ ~VisibleBuild /\ LOCK_GET_OWNED(base[k]) => base[k].write
                    /\ ~WriteThrough /\ ~LOCK_GET_OWNED(base[k]) => base[k].inc = 0
  OBVIOUS
<1>1. /\ ~VisibleBuild /\ LOCK_GET_OWNED(locks[k]) => locks[k].write
      /\ ~WriteThrough /\ ~LOCK_GET_OWNED(locks[k]) => locks[k].inc = 0
  BY DEF SInv, LockKinds
<1>2. CASE base[k] = locks[k]
  BY <1>1, <1>2
<1>3. CASE base[k] # locks[k]
  <2>1. locks[k].owner = t /\ base[k].owner = t /\ t # NoOwner
    BY <1>3, EtlAssumption DEF Rebased
  <2>2. base = Repointed(t, gen)
    BY <1>3
  <2> DEFINE covered == {j \in DOMAIN tx[t].w_set : LockOf[tx[t].w_set[j].addr] = k}
             top == CHOOSE j \in covered : \A h \in covered : h <= j
  <2>3. base[k] = IF covered = {} THEN locks[k]
                  ELSE [owner |-> t, n |-> top, inc |-> gen, write |-> TRUE]
    BY <2>2, Zenon DEF Repointed
  <2> HIDE DEF covered, top
  <2>4. base[k].write = TRUE
    BY <1>3, <2>3
  <2> QED
    BY <2>1, <2>4 DEF LOCK_GET_OWNED
<1> QED
  BY <1>2, <1>3

LEMMA TakenKinds ==
  ASSUME Inv, SInv, NEW t \in Thread, build' = build, NEW gen, NEW base, Rebased(t, gen, base),
         base = IF Full(t) THEN Repointed(t, gen) ELSE locks, NEW k0 \in Lock,
         NEW x, x.owner = t, ~VisibleBuild => x.write, TakesLock(base, k0, x)
  PROVE  LockKinds'
<1>1. \A k \in Lock :
        /\ ~VisibleBuild /\ LOCK_GET_OWNED(base[k]) => base[k].write
        /\ ~WriteThrough /\ ~LOCK_GET_OWNED(base[k]) => base[k].inc = 0
  BY BaseKinds
<1>2. locks'[k0] = x /\ \A k \in Lock \ {k0} : locks'[k] = base[k]
  BY DEF Rebased, TakesLock
<1>3. LOCK_GET_OWNED(x)
  BY EtlAssumption DEF LOCK_GET_OWNED
<1>4. (VisibleBuild' <=> VisibleBuild) /\ (WriteThrough' <=> WriteThrough)
  BY DEF VisibleBuild, Modular, WriteThrough
<1> QED
  BY <1>1, <1>2, <1>3, <1>4 DEF LockKinds, LOCK_GET_OWNED

\* Only the lock of the call changes hands.
LEMMA TakenOwners ==
  ASSUME Inv, NEW t \in Thread, NEW gen, NEW base, Rebased(t, gen, base), NEW k0 \in Lock,
         NEW x, x.owner = t, TakesLock(base, k0, x)
  PROVE  /\ locks'[k0].owner = t
         /\ \A k \in Lock : locks'[k].owner = t /\ locks[k].owner # t => k = k0
<1>1. locks'[k0] = x /\ \A k \in Lock \ {k0} : locks'[k] = base[k]
  BY DEF Rebased, TakesLock
<1>2. \A k \in Lock : locks[k].owner # t => base[k] = locks[k]
  BY DEF Rebased
<1> QED
  BY <1>1, <1>2

LEMMA FilledFields ==
  ASSUME Inv, NEW t \in Thread, NEW v \in Nat, NEW e, e = Filled(Entry(t, v, 0))
  PROVE  NewEntry(t, e) /\ e.version = v /\ e.inc = 0
<1> DEFINE f == Entry(t, v, 0)
           x == IF f.mask = {} THEN ZeroWord ELSE Merge(mem[f.addr], f.value, f.mask)
<1>1. NewEntry(t, f) /\ f.version = v /\ f.inc = 0
  BY EntryIs DEF Entry
<1>2. e = [f EXCEPT !.value = x]
  BY DEF Filled
<1> HIDE DEF f, x
<1>3. e.version = v /\ e.inc = 0
  BY <1>1, <1>2 DEF NewEntry, LogEntry
<1> QED
  BY <1>3, FilledIs

\* The incarnations of a log with a new entry.
LEMMA AppendIncs ==
  ASSUME Inv, SInv, NEW t \in Thread, ~WriteThrough, NEW e \in LogEntry, e.inc = 0,
         tx'[t].w_set = Append(W(t), e)
  PROVE  \A j \in DOMAIN W(t)' : W(t)'[j].inc = 0
<1>1. PICK ws : ws = W(t)
  OBVIOUS
<1>2. ws \in Seq(LogEntry) /\ DOMAIN ws = 1..Len(ws) /\ Len(ws) \in Nat
  BY <1>1, LogSize
<1>3. /\ DOMAIN Append(ws, e) = 1..(Len(ws) + 1)
      /\ Append(ws, e)[Len(ws) + 1] = e /\ \A j \in 1..Len(ws) : Append(ws, e)[j] = ws[j]
  BY <1>2, AppendFacts
<1>4. \A j \in 1..Len(ws) : ws[j].inc = 0
  BY <1>1, <1>2 DEF SInv, VersionInv
<1>5. W(t)' = Append(ws, e)
  BY <1>1 DEF W
<1> QED
  BY <1>2, <1>3, <1>4, <1>5

LEMMA AcquireFromStep ==
  ASSUME Inv, Inv', SInv, GrowthSafe, NEW t \in Thread, build' = build, ~WriteThrough,
         InCall(t), UNCHANGED <<clock, mem, hist>>, tx[t].op = "write",
         Takeable(t, ArgLock(t)), NEW w, NEW v \in Nat, Backs(ArgLock(t), v, 0),
         ~WriteInvalid(t, v), AcquireFrom(t, w, v)
  PROVE  SInv'
<1>1. ReadTypes(tx[t]) /\ KindOf(t) /\ Shape(tx[t])
  BY ShapeIs DEF SInv, TxInv
<1>2. PICK gen, base :
        /\ gen = IF Full(t) THEN Fresh(RememberedGens(t)) ELSE tx[t].gen
        /\ base = IF Full(t) THEN Repointed(t, gen) ELSE locks
  OBVIOUS
<1>3. Rebased(t, gen, base)
  BY <1>2, RebasedIs
<1>4. PICK e, n, k0, x : e = Filled(Entry(t, v, 0)) /\ n = Len(W(t)) /\ k0 = ArgLock(t)
        /\ x = [owner |-> t, n |-> n + 1, inc |-> gen, write |-> TRUE]
  OBVIOUS
<1>5. PICK ws, size, writes :
        /\ ws = Append(W(t), e)
        /\ size = IF Full(t) THEN 2 * tx[t].size ELSE tx[t].size
        /\ writes = IF Modular THEN tx[t].has_writes + 1 ELSE tx[t].has_writes
  OBVIOUS
<1>0. PICK d : d = Logged(tx[t], ws, gen, size, writes)
  OBVIOUS
<1>6. SameBut(d, tx[t], LogFields) /\ d.w_set = ws /\ d.has_writes = writes
  BY <1>0, <1>1, SetLog
<1>7. TakesLock(base, k0, x) /\ Become(t, Stored(d), "app")
  BY <1>0, <1>2, <1>4, <1>5, Zenon DEF AcquireFrom, W, Logged, TakesLock
<1>8. PICK s : s = Stored(d)
  OBVIOUS
<1>9. SameBut(s, d, SettledFields \cup {"own"}) /\ Cleared(s) /\ Become(t, s, "app")
  <2>1. Shape(d)
    BY <1>6 DEF SameBut
  <2> QED
    BY <1>7, <1>8, <2>1, StoredAll
<1>10. SameBut(s, d, SettledFields \cup {"obs", "own"}) /\ s.obs = d.obs /\ d.obs = tx[t].obs
  BY <1>6, <1>9 DEF SameBut, SettledFields, Fields, LogFields
<1>11. /\ OthersSame(t) /\ tx'[t].pc = "app" /\ Cleared(tx'[t])
       /\ SameBut(tx'[t], tx[t], GrowFields)
       /\ tx'[t].w_set = d.w_set /\ tx'[t].has_writes = d.has_writes
       /\ tx'[t].obs = s.obs
  BY <1>6, <1>9, <1>10, GrownIs
<1>12. tx'[t].w_set = Append(W(t), e) /\ tx'[t].has_writes = writes /\ tx'[t].obs = tx[t].obs
  BY <1>5, <1>6, <1>10, <1>11
<1>13. NewEntry(t, e) /\ e.version = v /\ e.inc = 0 /\ e \in LogEntry /\ e.addr = tx[t].arg.addr
  BY <1>4, FilledFields DEF NewEntry
<1>14. k0 \in Lock /\ x.owner = t /\ x.n = n + 1 /\ x.write /\ Takeable(t, k0) /\ Backs(k0, v, 0)
       /\ Backs(k0, e.version, e.inc)
  BY <1>4, <1>13, ArgLockIs
<1>15. Running(t) => ~tx[t].ro
  BY <1>1 DEF KindOf
<1>16. writes \in Nat /\ (Modular => writes > 0)
  <2>1. tx[t].has_writes \in Nat
    BY <1>1 DEF ReadTypes
  <2> QED
    BY <1>5, <2>1
<1>17. Grows(t) /\ tx'[t].status = tx[t].status
  <2>1. \A j \in DOMAIN W(t)' : W(t)'[j].inc = 0
    BY <1>12, <1>13, AppendIncs
  <2>2. tx'[t].obs \in SUBSET Observation /\ tx'[t].has_writes \in Nat
    BY <1>1, <1>12, <1>16 DEF ReadTypes
  <2> QED
    BY <1>11, <1>12, <1>15, <1>16, <2>1, <2>2, GrowsIs
<1>18. Taking(t) /\ EntriesKnown(t)
  BY <1>3, <1>4, <1>7, <1>12, <1>13, <1>14, <1>17, AppendKnown
<1>19. LockKinds'
  BY <1>2, <1>3, <1>7, <1>14, TakenKinds
<1>20. ObsLocked(t)
  <2> SUFFICES ASSUME Running(t), NEW o \in tx[t].obs, locks'[LockOf[o.addr]].owner = t,
                      locks[LockOf[o.addr]].owner # t
               PROVE  Latest(o.addr, o.value)
    BY <1>12 DEF ObsLocked
  <2>1. LockOf[o.addr] \in Lock
    BY <1>1, BuildIs DEF ReadTypes, Observation, Inv, TypeOK
  <2>2. LockOf[o.addr] = k0
    BY <1>3, <1>7, <1>14, <2>1, TakenOwners
  <2>3. v > tx[t].end => ~stm_has_read(t, k0)
    BY <1>4 DEF WriteInvalid
  <2> QED
    BY <1>14, <1>15, <2>2, <2>3, AcquiredReads
<1>21. MemStep(t)
  BY DEF MemStep
<1> QED
  BY <1>11, <1>17, <1>18, <1>19, <1>20, <1>21, GrowStep

\* The fields a visible read changes.
Widened(d, ws, gen, size) == [d EXCEPT !.w_set = ws, !.gen = gen, !.size = size]

LEMMA SetWidened ==
  ASSUME NEW d, Shape(d), NEW ws, NEW gen, NEW size
  PROVE  LET e == Widened(d, ws, gen, size) IN
           SameBut(e, d, {"w_set", "gen", "size"}) /\ e.w_set = ws
<1> DEFINE e == Widened(d, ws, gen, size)
<1>1. Shape(e)
  BY DEF Shape, Widened
<1>2. /\ \A f \in Fields \ {"w_set", "gen", "size"} : e[f] = d[f]
      /\ e.w_set = ws
  BY DEF Shape, Fields, Widened
<1>3. SameBut(e, d, {"w_set", "gen", "size"})
  <2> HIDE DEF e
  <2> QED
    BY <1>1, <1>2 DEF SameBut
<1> QED
  BY <1>2, <1>3

\* The word under a lock that may be taken is the last one committed.
LEMMA TakeableLatest ==
  ASSUME Inv, NEW t \in Thread, ~WriteThrough, NEW a \in Addr, Takeable(t, LockOf[a])
  PROVE  Latest(a, mem[a])
<1>1. ASSUME NEW u \in Thread, NEW j \in DOMAIN W(u), Pending(u, a, j) PROVE FALSE
  <2>1. j \in Held(u) /\ ~Killed(u) /\ W(u)[j].addr = a
    BY <1>1, PendingHeld
  <2>2. locks[LockAt(u, j)].owner = u
    BY <2>1 DEF Inv, LockInv, HolderOwns, HolderOwnsOf
  <2>3. locks[LockOf[a]].owner = u
    BY <2>1, <2>2 DEF LockAt, W
  <2> QED
    BY <2>1, <2>3, EtlAssumption DEF Takeable
<1> QED
  BY <1>1 DEF Inv, MemoryInv

LEMMA AcquireReadStep ==
  ASSUME Inv, Inv', SInv, GrowthSafe, NEW t \in Thread, build' = build, ~WriteThrough,
         InCall(t), UNCHANGED <<clock, mem, hist>>, VisibleBuild,
         Takeable(t, ArgLock(t)), NEW w, NEW v \in Nat, Backs(ArgLock(t), v, 0),
         AcquireRead(t, w, v)
  PROVE  SInv'
<1>1. ReadTypes(tx[t]) /\ KindOf(t) /\ Shape(tx[t]) /\ VisibleBuild
  BY ShapeIs DEF SInv, TxInv, KindOf
<1>2. PICK gen, base :
        /\ gen = IF Full(t) THEN Fresh(RememberedGens(t)) ELSE tx[t].gen
        /\ base = IF Full(t) THEN Repointed(t, gen) ELSE locks
  OBVIOUS
<1>3. Rebased(t, gen, base)
  BY <1>2, RebasedIs
<1>4. PICK e, n, k0, x, a, y :
        /\ e = [Entry(t, v, 0) EXCEPT !.value = mem[tx[t].arg.addr], !.mask = {}]
        /\ n = Len(W(t)) /\ k0 = ArgLock(t)
        /\ x = [owner |-> t, n |-> n + 1, inc |-> gen, write |-> FALSE]
        /\ a = tx[t].arg.addr /\ y = mem[a]
  OBVIOUS
<1>5. PICK ws, size :
        /\ ws = Append(W(t), e)
        /\ size = IF Full(t) THEN 2 * tx[t].size ELSE tx[t].size
  OBVIOUS
<1>0. PICK d : d = Widened(tx[t], ws, gen, size)
  OBVIOUS
<1>6. SameBut(d, tx[t], {"w_set", "gen", "size"}) /\ d.w_set = ws
  BY <1>0, <1>1, SetWidened
<1>7. TakesLock(base, k0, x) /\ Become(t, Returned(d, y, TRUE), "app")
  BY <1>0, <1>2, <1>4, <1>5, Zenon DEF AcquireRead, W, Widened, TakesLock
<1>8. PICK s : s = Returned(d, y, TRUE)
  OBVIOUS
<1>9. /\ Shape(d) /\ d.obs = tx[t].obs /\ d.arg = tx[t].arg /\ d.has_writes = tx[t].has_writes
      /\ SameBut(d, tx[t], LogFields)
  BY <1>6 DEF SameBut, Fields, LogFields
<1>10. /\ SameBut(s, d, SettledFields \cup {"obs", "own"}) /\ Cleared(s)
       /\ s.obs = IF TRUE THEN d.obs \cup {[addr |-> d.arg.addr, value |-> y]} ELSE d.obs
  BY <1>8, <1>9, ReturnedAll, Zenon
<1>11. /\ OthersSame(t) /\ tx'[t].pc = "app" /\ Cleared(tx'[t])
       /\ SameBut(tx'[t], tx[t], GrowFields)
       /\ tx'[t].w_set = d.w_set /\ tx'[t].has_writes = d.has_writes
       /\ tx'[t].obs = s.obs
  <2>1. Become(t, s, "app")
    BY <1>7, <1>8
  <2> QED
    BY <1>9, <1>10, <2>1, GrownIs
<1>12. /\ tx'[t].w_set = Append(W(t), e) /\ tx'[t].has_writes = tx[t].has_writes
       /\ tx'[t].obs = tx[t].obs \cup {[addr |-> a, value |-> y]}
  BY <1>4, <1>5, <1>6, <1>9, <1>10, <1>11
<1>13. e.version = v /\ e.inc = 0 /\ e \in LogEntry /\ e.addr = tx[t].arg.addr
  <2> DEFINE f == Entry(t, v, 0)
  <2>1. NewEntry(t, f) /\ f.version = v /\ f.inc = 0
    BY EntryIs DEF Entry
  <2>2. mem[tx[t].arg.addr] \in Word
    BY DEF Inv, TypeOK, TxTypes, Argument
  <2>3. e = [f EXCEPT !.value = mem[tx[t].arg.addr], !.mask = {}]
    BY <1>4
  <2> HIDE DEF f
  <2> QED
    BY <2>1, <2>2, <2>3 DEF NewEntry, LogEntry
<1>14. k0 \in Lock /\ x.owner = t /\ x.n = n + 1 /\ Takeable(t, k0)
       /\ Backs(k0, e.version, e.inc) /\ a \in Addr /\ y \in Word /\ k0 = LockOf[a]
  BY <1>4, <1>13, ArgLockIs DEF ArgLock, Inv, TypeOK, TxTypes, Argument
<1>15. Running(t) => ~tx[t].ro
  BY <1>1 DEF KindOf
<1>16. [addr |-> a, value |-> y] \in Observation
  BY <1>14 DEF Observation
<1>17. Grows(t) /\ tx'[t].status = tx[t].status
  <2>1. \A j \in DOMAIN W(t)' : W(t)'[j].inc = 0
    BY <1>12, <1>13, AppendIncs
  <2>2. tx'[t].obs \in SUBSET Observation /\ tx'[t].has_writes \in Nat
    BY <1>1, <1>12, <1>16 DEF ReadTypes
  <2> QED
    BY <1>1, <1>11, <1>15, <2>1, <2>2, GrowsIs
<1>18. Taking(t) /\ EntriesKnown(t)
  BY <1>3, <1>4, <1>7, <1>12, <1>13, <1>14, <1>17, AppendKnown
<1>19. LockKinds'
  BY <1>1, <1>2, <1>3, <1>7, <1>14, TakenKinds
<1>20. ObsLocked(t)
  <2> SUFFICES ASSUME Running(t)
               PROVE  /\ \A o \in tx[t].obs :
                           locks'[LockOf[o.addr]].owner = t /\ locks[LockOf[o.addr]].owner # t
                             => Latest(o.addr, o.value)
                      /\ \A o \in tx'[t].obs \ tx[t].obs :
                           locks'[LockOf[o.addr]].owner = t /\ Latest(o.addr, o.value)
    BY DEF ObsLocked
  <2>1. ASSUME NEW o \in tx[t].obs, locks'[LockOf[o.addr]].owner = t,
               locks[LockOf[o.addr]].owner # t
        PROVE  Latest(o.addr, o.value)
    <3>1. SnapInv(t) /\ tx[t].r_set = {}
      BY <1>1 DEF KindOf, SInv, TxInv
    <3>2. Vouched(t, o)
      BY <1>15, <3>1 DEF SnapInv
    <3> QED
      BY <2>1, <3>1, <3>2 DEF Vouched
  <2>2. ASSUME NEW o \in tx'[t].obs \ tx[t].obs
        PROVE  locks'[LockOf[o.addr]].owner = t /\ Latest(o.addr, o.value)
    <3>1. o.addr = a /\ o.value = y
      BY <1>12
    <3>2. locks'[k0].owner = t
      BY <1>3, <1>7, <1>14, TakenOwners
    <3>3. Latest(a, y)
      BY <1>4, <1>14, TakeableLatest
    <3> QED
      BY <1>14, <3>1, <3>2, <3>3
  <2> QED
    BY <2>1, <2>2
<1>21. MemStep(t)
  BY DEF MemStep
<1> QED
  BY <1>11, <1>17, <1>18, <1>19, <1>20, <1>21, GrowStep

\* Entry j of the log says of its lock what it said before.
SameEntry(t, j) ==
  /\ W(t)'[j].addr = W(t)[j].addr /\ W(t)'[j].no_drop = W(t)[j].no_drop
  /\ W(t)'[j].version = W(t)[j].version /\ W(t)'[j].inc = W(t)[j].inc

LEMMA SameEntryKnown ==
  ASSUME Inv, NEW t \in Thread, build' = build, InCall(t), locks' = locks,
         tx'[t].status = tx[t].status, NEW j \in DOMAIN W(t), SameEntry(t, j),
         NEW k, EntryBacks(t, j, k)'
  PROVE  Backs(k, W(t)'[j].version, W(t)'[j].inc)
<1>1. LockOf' = LockOf /\ (Killed(t)' <=> Killed(t))
  BY DEF LockOf, Killed
<1>2. LockAt(t, j)' = LockAt(t, j)
  BY <1>1 DEF SameEntry, LockAt, W
<1>3. LockAt(t, j) = k /\ ~W(t)[j].no_drop /\ (Killed(t) => j = locks[k].n) /\ locks[k].owner = t
  BY <1>1, <1>2 DEF EntryBacks, SameEntry
<1>4. Backs(k, W(t)[j].version, W(t)[j].inc)
  BY <1>3, EntryKnown
<1> QED
  BY <1>4 DEF SameEntry

\* A store that returns with the locks as they were.
LEMMA StoreOurs ==
  ASSUME Inv, Inv', SInv, NEW t \in Thread, build' = build, ~WriteThrough, InCall(t),
         UNCHANGED <<clock, locks, mem, hist>>, tx[t].op = "write", W(t) # <<>>,
         NEW d, SameBut(d, tx[t], LogFields), Become(t, Stored(d), "app"),
         d.has_writes \in Nat, d.has_writes >= tx[t].has_writes,
         \A j \in DOMAIN d.w_set : d.w_set[j].inc = 0,
         NEW ws, ws = d.w_set, NEW N, N = DOMAIN ws,
         \A j \in N : \A k \in Lock : W(t)' = ws /\ EntryBacks(t, j, k)'
                        => Backs(k, ws[j].version, ws[j].inc)
  PROVE  SInv'
<1>1. ReadTypes(tx[t]) /\ KindOf(t) /\ LockKinds
  BY DEF SInv, TxInv
<1>8. PICK s : s = Stored(d)
  OBVIOUS
<1>9. SameBut(s, d, SettledFields \cup {"own"}) /\ Cleared(s) /\ Become(t, s, "app")
  <2>1. Shape(d)
    BY DEF SameBut
  <2> QED
    BY <1>8, <2>1, StoredAll
<1>10. SameBut(s, d, SettledFields \cup {"obs", "own"}) /\ s.obs = d.obs /\ d.obs = tx[t].obs
  BY <1>9 DEF SameBut, SettledFields, Fields, LogFields
<1>11. /\ OthersSame(t) /\ tx'[t].pc = "app" /\ Cleared(tx'[t])
       /\ SameBut(tx'[t], tx[t], GrowFields)
       /\ tx'[t].w_set = d.w_set /\ tx'[t].has_writes = d.has_writes
       /\ tx'[t].obs = s.obs
  BY <1>9, <1>10, GrownIs
<1>12. tx'[t].obs = tx[t].obs /\ W(t)' = ws
  BY <1>10, <1>11 DEF W
<1>13. Grows(t) /\ tx'[t].status = tx[t].status
  <2>1. \A j \in DOMAIN W(t)' : W(t)'[j].inc = 0
    BY <1>12
  <2>2. tx'[t].obs \in SUBSET Observation /\ tx'[t].has_writes \in Nat
    BY <1>1, <1>11, <1>12 DEF ReadTypes
  <2>3. ~VisibleBuild /\ Modular => tx'[t].has_writes > 0
    <3>1. ~VisibleBuild /\ Modular => tx[t].has_writes > 0
      BY <1>1 DEF KindOf
    <3>2. tx[t].has_writes \in Nat
      BY <1>1 DEF ReadTypes
    <3> QED
      BY <1>11, <3>1, <3>2
  <2>4. Running(t) => ~tx[t].ro
    BY <1>1 DEF KindOf
  <2> QED
    BY <1>11, <2>1, <2>2, <2>3, <2>4, GrowsIs
<1>14. Taking(t)
  BY DEF Taking
<1>15. EntriesKnown(t)
  BY <1>12 DEF EntriesKnown
<1>16. ObsLocked(t) /\ MemStep(t)
  BY <1>12 DEF ObsLocked, MemStep
<1>17. LockKinds'
  BY <1>1 DEF LockKinds, VisibleBuild, Modular, WriteThrough, LOCK_GET_OWNED
<1> QED
  BY <1>11, <1>13, <1>14, <1>15, <1>16, <1>17, GrowStep

\* The descriptor with another value and mask in entry k.
LEMMA UpdatedIs ==
  ASSUME Inv, NEW t \in Thread, NEW k \in DOMAIN W(t), UpdateEntry(t, k)
  PROVE  \E d, e : /\ SameBut(d, tx[t], {"w_set"}) /\ d.w_set = [W(t) EXCEPT ![k] = e]
                   /\ Become(t, Stored(d), "app")
                   /\ e.addr = W(t)[k].addr /\ e.no_drop = W(t)[k].no_drop
                   /\ e.version = W(t)[k].version /\ e.inc = W(t)[k].inc
<1>1. /\ TxTypes(tx[t]) /\ TypeOK /\ W(t) \in Seq(LogEntry) /\ W(t)[k] \in LogEntry
  BY LogSize DEF Inv, TypeOK
<1>2. PICK x, m : /\ x = Merge(IF W(t)[k].mask = {} THEN mem[W(t)[k].addr] ELSE W(t)[k].value,
                               tx[t].arg.value, tx[t].arg.mask)
                  /\ m = W(t)[k].mask \cup tx[t].arg.mask
  OBVIOUS
<1> DEFINE d == [tx[t] EXCEPT !.w_set[k].value = x, !.w_set[k].mask = @ \cup tx[t].arg.mask]
           e == [W(t)[k] EXCEPT !.value = x, !.mask = m]
           ws == [W(t) EXCEPT ![k] = e]
<1>3. Become(t, Stored(d), "app")
  BY <1>2, Zenon DEF UpdateEntry, W
<1>4. SameBut(d, tx[t], {"w_set"}) /\ d.w_set = ws
  <2> DEFINE d1 == [tx[t] EXCEPT !.w_set[k].value = x]
             e1 == [W(t)[k] EXCEPT !.value = x]
             ws1 == [W(t) EXCEPT ![k] = e1]
  <2>1. Shape(d1) /\ d1.w_set = ws1 /\ \A f \in Fields \ {"w_set"} : d1[f] = tx[t][f]
    <3>1. d1 = [tx[t] EXCEPT !.w_set = ws1]
      BY DEF W
    <3> HIDE DEF d1, ws1
    <3>2. Shape(d1)
      BY <1>1, <3>1 DEF TxTypes, Shape
    <3> QED
      BY <1>1, <3>1, <3>2 DEF TxTypes, Shape, Fields
  <2>2. d = [d1 EXCEPT !.w_set[k].mask = @ \cup tx[t].arg.mask]
    OBVIOUS
  <2> HIDE DEF d1, d
  <2>3. /\ Shape(d) /\ \A f \in Fields \ {"w_set"} : d[f] = d1[f]
        /\ d.w_set = [ws1 EXCEPT ![k] = [ws1[k] EXCEPT !.mask = ws1[k].mask \cup tx[t].arg.mask]]
    <3> DEFINE y == [ws1 EXCEPT ![k] = [ws1[k] EXCEPT !.mask = ws1[k].mask \cup tx[t].arg.mask]]
    <3>1. d = [d1 EXCEPT !.w_set = y]
      BY <2>1, <2>2
    <3> HIDE DEF y, ws1
    <3>2. Shape(d)
      BY <2>1, <3>1 DEF Shape
    <3>3. d.w_set = y /\ \A f \in Fields \ {"w_set"} : d[f] = d1[f]
      BY <2>1, <3>1, <3>2 DEF Shape, Fields
    <3> QED
      BY <3>2, <3>3 DEF y
  <2>4. ws1[k] = e1
    BY <1>1
  <2>5. e1.mask = W(t)[k].mask /\ [e1 EXCEPT !.mask = m] = e
    BY <1>1 DEF LogEntry
  <2> HIDE DEF e1
  <2>6. [ws1 EXCEPT ![k] = e] = ws
    BY <1>1
  <2> HIDE DEF ws1, e, ws
  <2>7. d.w_set = ws
    BY <1>2, <2>3, <2>4, <2>5, <2>6
  <2>8. SameBut(d, tx[t], {"w_set"})
    BY <2>1, <2>3 DEF SameBut
  <2> QED
    BY <2>7, <2>8
<1> HIDE DEF d
<1>5. /\ e.addr = W(t)[k].addr /\ e.no_drop = W(t)[k].no_drop
      /\ e.version = W(t)[k].version /\ e.inc = W(t)[k].inc
  BY <1>1 DEF LogEntry
<1> HIDE DEF e
<1> QED
  BY <1>3, <1>4, <1>5

LEMMA UpdateStep ==
  ASSUME Inv, Inv', SInv, NEW t \in Thread, build' = build, ~WriteThrough, InCall(t),
         UNCHANGED <<clock, locks, mem, hist>>, tx[t].op = "write",
         NEW k \in DOMAIN W(t), UpdateEntry(t, k)
  PROVE  SInv'
<1>1. PICK d, e : /\ SameBut(d, tx[t], {"w_set"}) /\ d.w_set = [W(t) EXCEPT ![k] = e]
                  /\ Become(t, Stored(d), "app")
                  /\ e.addr = W(t)[k].addr /\ e.no_drop = W(t)[k].no_drop
                  /\ e.version = W(t)[k].version /\ e.inc = W(t)[k].inc
  BY UpdatedIs
<1>2. PICK ws : ws = d.w_set
  OBVIOUS
<1>3. W(t) \in Seq(LogEntry) /\ DOMAIN W(t) = 1..Len(W(t)) /\ W(t) # <<>>
  BY LogSize
<1>4. /\ DOMAIN ws = DOMAIN W(t)
      /\ \A j \in DOMAIN W(t) : /\ ws[j].addr = W(t)[j].addr /\ ws[j].no_drop = W(t)[j].no_drop
                                /\ ws[j].version = W(t)[j].version /\ ws[j].inc = W(t)[j].inc
  BY <1>1, <1>2, <1>3
<1>5. SameBut(d, tx[t], LogFields) /\ d.has_writes = tx[t].has_writes
  BY <1>1 DEF SameBut, LogFields, Fields
<1>6. tx[t].has_writes \in Nat /\ \A j \in DOMAIN W(t) : W(t)[j].inc = 0
  BY DEF SInv, TxInv, ReadTypes, VersionInv
<1>7. ASSUME NEW j \in DOMAIN ws, NEW k1 \in Lock, W(t)' = ws, EntryBacks(t, j, k1)'
      PROVE  Backs(k1, ws[j].version, ws[j].inc)
  <2>1. SameEntry(t, j)
    BY <1>4, <1>7 DEF SameEntry
  <2>2. tx'[t].status = tx[t].status
    <3>1. PICK s : s = Stored(d)
      OBVIOUS
    <3>2. SameBut(s, d, SettledFields \cup {"own"}) /\ Become(t, s, "app") /\ Shape(s)
      <4>1. Shape(d)
        BY <1>1 DEF SameBut
      <4> QED
        BY <1>1, <3>1, <4>1, StoredAll DEF SameBut
    <3>3. SameBut(tx'[t], s, {"pc"})
      BY <3>2, BecomeAll DEF Inv, TypeOK
    <3> QED
      BY <1>5, <3>2, <3>3 DEF SameBut, Fields, SettledFields, LogFields
  <2>3. Backs(k1, W(t)'[j].version, W(t)'[j].inc)
    BY <1>4, <1>7, <2>1, <2>2, SameEntryKnown
  <2> QED
    BY <1>7, <2>3
<1>8. \A j \in DOMAIN d.w_set : d.w_set[j].inc = 0
  BY <1>2, <1>4, <1>6
<1>9. d.has_writes \in Nat /\ d.has_writes >= tx[t].has_writes
  BY <1>5, <1>6
<1>10. PICK N : N = DOMAIN ws
  OBVIOUS
<1>11. \A j \in N : \A k1 \in Lock : W(t)' = ws /\ EntryBacks(t, j, k1)'
                      => Backs(k1, ws[j].version, ws[j].inc)
  BY <1>7, <1>10
<1>12. Become(t, Stored(d), "app")
  BY <1>1
<1> QED
  BY <1>2, <1>3, <1>5, <1>8, <1>9, <1>10, <1>11, <1>12, StoreOurs

\* A log with an entry linked behind prev.
LEMMA LinkedFields ==
  ASSUME Inv, NEW t \in Thread, NEW e \in LogEntry, NEW prev, NEW vs,
         vs = Linked(W(t), prev, e)
  PROVE  /\ DOMAIN vs = 1..(Len(W(t)) + 1) /\ vs[Len(W(t)) + 1] = e
         /\ \A j \in DOMAIN W(t) :
              /\ vs[j].addr = W(t)[j].addr /\ vs[j].no_drop = W(t)[j].no_drop
              /\ vs[j].version = W(t)[j].version /\ vs[j].inc = W(t)[j].inc
<1>1. W(t) \in Seq(LogEntry) /\ Len(W(t)) \in Nat /\ DOMAIN W(t) = 1..Len(W(t))
  BY LogSize
<1> DEFINE ws == W(t)
           n == Len(ws)
           us == [j \in DOMAIN ws |-> IF j = prev THEN [ws[j] EXCEPT !.next = n + 1] ELSE ws[j]]
<1>2. \A j \in 1..n : /\ us[j] \in LogEntry
                      /\ us[j].addr = ws[j].addr /\ us[j].no_drop = ws[j].no_drop
                      /\ us[j].version = ws[j].version /\ us[j].inc = ws[j].inc
  <2> SUFFICES ASSUME NEW j \in 1..n
               PROVE  /\ us[j] \in LogEntry
                      /\ us[j].addr = ws[j].addr /\ us[j].no_drop = ws[j].no_drop
                      /\ us[j].version = ws[j].version /\ us[j].inc = ws[j].inc
    OBVIOUS
  <2>1. ws[j] \in LogEntry /\ n + 1 \in Nat
    BY <1>1
  <2>2. us[j] = IF j = prev THEN [ws[j] EXCEPT !.next = n + 1] ELSE ws[j]
    BY <1>1
  <2> HIDE DEF us, ws, n
  <2>3. CASE j = prev
    BY <2>1, <2>2, <2>3 DEF LogEntry
  <2> QED
    BY <2>1, <2>2, <2>3
<1>3. us \in Seq(LogEntry) /\ Len(us) = n
  <2>1. us \in [1..n -> LogEntry]
    BY <1>1, <1>2
  <2> HIDE DEF us
  <2>2. us \in Seq(LogEntry)
    BY <1>1, <2>1
  <2>3. Len(us) \in Nat /\ DOMAIN us = 1..Len(us) /\ DOMAIN us = 1..n /\ n \in Nat
    BY <1>1, <2>1, <2>2
  <2> HIDE DEF ws, n
  <2>4. Len(us) = n
    BY <2>3, SameSize, Zenon
  <2> QED
    BY <2>2, <2>4
<1>4. vs = Append(us, e)
  BY DEF Linked
<1>5. /\ DOMAIN vs = 1..(n + 1) /\ vs[n + 1] = e /\ \A j \in 1..n : vs[j] = us[j]
  <2> HIDE DEF us, n
  <2>1. Len(us) = n /\ n \in Nat
    BY <1>1, <1>3 DEF n
  <2> QED
    BY <1>1, <1>3, <1>4, <2>1, AppendFacts
<1> HIDE DEF us
<1> QED
  BY <1>1, <1>2, <1>5

Recorded(d, ws, writes) == [d EXCEPT !.w_set = ws, !.has_writes = writes]

LEMMA SetRecorded ==
  ASSUME NEW d, Shape(d), NEW ws, NEW writes
  PROVE  LET e == Recorded(d, ws, writes) IN
           SameBut(e, d, LogFields) /\ e.w_set = ws /\ e.has_writes = writes
                /\ e.status = d.status
<1> DEFINE e == Recorded(d, ws, writes)
<1>1. Shape(e)
  BY DEF Shape, Recorded
<1>2. /\ \A f \in Fields \ LogFields : e[f] = d[f]
      /\ e.w_set = ws /\ e.has_writes = writes /\ e.status = d.status
  BY DEF Shape, Fields, LogFields, Recorded
<1>3. SameBut(e, d, LogFields)
  <2> HIDE DEF e
  <2> QED
    BY <1>1, <1>2 DEF SameBut
<1> QED
  BY <1>2, <1>3

LEMMA StoredStatus ==
  ASSUME Inv, NEW t \in Thread, NEW d, SameBut(d, tx[t], LogFields), Become(t, Stored(d), "app")
  PROVE  tx'[t].status = tx[t].status
<1>1. PICK s : s = Stored(d)
  OBVIOUS
<1>2. SameBut(s, d, SettledFields \cup {"own"}) /\ Become(t, s, "app") /\ Shape(s)
  <2>1. Shape(d)
    BY DEF SameBut
  <2> QED
    BY <1>1, <2>1, StoredAll DEF SameBut
<1>3. SameBut(tx'[t], s, {"pc"})
  BY <1>2, BecomeAll DEF Inv, TypeOK
<1> QED
  BY <1>2, <1>3 DEF SameBut, Fields, SettledFields, LogFields

LEMMA AppendEntryStep ==
  ASSUME Inv, Inv', SInv, GrowthSafe, NEW t \in Thread, build' = build, ~WriteThrough, InCall(t),
         UNCHANGED <<clock, mem, hist>>, tx[t].op = "write", locks[ArgLock(t)].owner = t,
         NEW prev, prev \in Chain(W(t), locks[ArgLock(t)].n), W(t)[prev].next = 0,
         \A j \in Chain(W(t), locks[ArgLock(t)].n) : W(t)[j].addr # tx[t].arg.addr,
         AppendEntry(t, prev)
  PROVE  SInv'
<1>1. /\ TxTypes(tx[t]) /\ TypeOK /\ Len(W(t)) \in Nat /\ DOMAIN W(t) = 1..Len(W(t))
      /\ W(t) \in Seq(LogEntry) /\ Shape(tx[t]) /\ ReadTypes(tx[t]) /\ KindOf(t)
  BY LogSize DEF Inv, TypeOK, TxTypes, SInv, TxInv
<1>2. PICK k0, n : k0 = ArgLock(t) /\ n = Len(W(t))
  OBVIOUS
<1>3. k0 \in Lock /\ locks[k0].owner = t
  BY <1>2, ArgLockIs
<1>4. /\ Chain(W(t), locks[k0].n) \subseteq DOMAIN W(t)
      /\ ~Killed(t) => Chain(W(t), locks[k0].n) = {j \in DOMAIN W(t) : LockAt(t, j) = k0}
  BY <1>3, OwnChain
<1>5. ~Full(t)
  <2> SUFFICES ASSUME Full(t) PROVE FALSE
    OBVIOUS
  <2>1. ~Killed(t) /\ \A a, b \in Addr : LockOf[a] = LockOf[b] => a = b
    BY FullIs
  <2> DEFINE j == locks[k0].n
  <2>2. j \in DOMAIN W(t) /\ LockAt(t, j) = k0
    BY <1>3 DEF Inv, LockInv, OwnerHolds, OwnerHoldsOf
  <2>3. W(t)[j].addr \in Addr /\ tx[t].arg.addr \in Addr
    BY <1>1, <2>2, LockAtIs DEF TxTypes, Argument
  <2>4. LockOf[W(t)[j].addr] = LockOf[tx[t].arg.addr]
    BY <1>2, <2>2, Zenon DEF LockAt, W, ArgLock
  <2>5. W(t)[j].addr = tx[t].arg.addr
    BY <2>1, <2>3, <2>4
  <2>6. j \in Chain(W(t), locks[k0].n)
    BY <1>4, <2>1, <2>2
  <2> QED
    BY <1>2, <2>5, <2>6
<1>6. prev \in DOMAIN W(t) /\ W(t)[prev].version \in Nat /\ W(t) # <<>>
  <2>1. prev \in DOMAIN W(t)
    BY <1>2, <1>4
  <2>2. W(t)[prev] \in LogEntry
    BY <1>1, <2>1
  <2> QED
    BY <2>1, <2>2 DEF LogEntry
<1>7. PICK e, ws, writes :
        /\ e = Filled(Entry(t, W(t)[prev].version, 0))
        /\ ws = Linked(W(t), prev, e)
        /\ writes = IF Modular THEN tx[t].has_writes + 1 ELSE tx[t].has_writes
  OBVIOUS
<1>8. PICK d : d = Recorded(tx[t], ws, writes)
  OBVIOUS
<1>9. Become(t, Stored(d), "app") /\ locks' = locks
  BY <1>5, <1>7, <1>8, Zenon DEF AppendEntry, W, Recorded
<1>10. SameBut(d, tx[t], LogFields) /\ d.w_set = ws /\ d.has_writes = writes
  BY <1>1, <1>8, SetRecorded
<1>11. NewEntry(t, e) /\ e.version = W(t)[prev].version /\ e.inc = 0 /\ e \in LogEntry
  <2>1. PICK v \in Nat : v = W(t)[prev].version
    BY <1>6
  <2>2. NewEntry(t, e) /\ e.version = v /\ e.inc = 0
    BY <1>7, <2>1, FilledFields
  <2> QED
    BY <2>1, <2>2 DEF NewEntry
<1>12. /\ DOMAIN ws = 1..(n + 1) /\ ws[n + 1] = e
       /\ \A j \in DOMAIN W(t) :
            /\ ws[j].addr = W(t)[j].addr /\ ws[j].no_drop = W(t)[j].no_drop
            /\ ws[j].version = W(t)[j].version /\ ws[j].inc = W(t)[j].inc
  BY <1>2, <1>7, <1>11, LinkedFields
<1>13. \A j \in DOMAIN W(t) : W(t)[j].inc = 0 /\ ~W(t)[j].no_drop
  BY DEF SInv, VersionInv, Inv, LockInv, LinksForward, LinksForwardOf
<1>14. tx'[t].status = tx[t].status /\ LockOf' = LockOf
  BY <1>9, <1>10, StoredStatus DEF LockOf
<1>15. ASSUME NEW j \in 1..(n + 1), NEW k \in Lock, W(t)' = ws, EntryBacks(t, j, k)'
       PROVE  Backs(k, ws[j].version, ws[j].inc)
  <2>1. CASE j \in 1..n
    <3>1. j \in DOMAIN W(t)
      BY <1>1, <1>2, <2>1
    <3>2. SameEntry(t, j)
      BY <1>12, <1>15, <3>1 DEF SameEntry
    <3>3. Backs(k, W(t)'[j].version, W(t)'[j].inc)
      BY <1>9, <1>14, <1>15, <3>1, <3>2, SameEntryKnown
    <3> QED
      BY <1>15, <3>3
  <2>2. CASE j = n + 1
    <3>1. LockAt(t, j)' = k0
      BY <1>2, <1>11, <1>12, <1>14, <1>15, <2>2 DEF LockAt, W, ArgLock, NewEntry
    <3>2. k = k0
      BY <1>15, <3>1 DEF EntryBacks
    <3>3. ~Killed(t)
      <4> SUFFICES ASSUME Killed(t) PROVE FALSE
        OBVIOUS
      <4>1. Killed(t)'
        BY <1>14 DEF Killed
      <4>2. j = locks[k0].n
        BY <1>9, <1>15, <3>2, <4>1 DEF EntryBacks
      <4>3. locks[k0].n \in DOMAIN W(t)
        BY <1>3 DEF Inv, LockInv, OwnerHolds, OwnerHoldsOf
      <4> QED
        BY <1>1, <1>2, <2>2, <4>2, <4>3
    <3>4. LockAt(t, prev) = k0
      BY <1>2, <1>4, <3>3
    <3>5. Backs(k0, W(t)[prev].version, W(t)[prev].inc)
      BY <1>6, <1>13, <3>3, <3>4, EntryKnown
    <3>6. ws[j].version = W(t)[prev].version /\ ws[j].inc = W(t)[prev].inc
      BY <1>6, <1>11, <1>12, <1>13, <2>2
    <3> QED
      BY <3>2, <3>5, <3>6
  <2> QED
    BY <1>1, <1>2, <2>1, <2>2
<1>16. \A j \in DOMAIN d.w_set : d.w_set[j].inc = 0
  BY <1>1, <1>2, <1>10, <1>11, <1>12, <1>13
<1>17. d.has_writes \in Nat /\ d.has_writes >= tx[t].has_writes
  <2>1. tx[t].has_writes \in Nat
    BY <1>1 DEF ReadTypes
  <2> QED
    BY <1>7, <1>10, <2>1
<1>18. PICK N : N = DOMAIN ws
  OBVIOUS
<1>19. \A j \in N : \A k \in Lock : W(t)' = ws /\ EntryBacks(t, j, k)'
                      => Backs(k, ws[j].version, ws[j].inc)
  BY <1>12, <1>15, <1>18
<1> QED
  BY <1>6, <1>9, <1>10, <1>16, <1>17, <1>18, <1>19, StoreOurs

LEMMA WriteOursStep ==
  ASSUME Inv, Inv', SInv, GrowthSafe, NEW t \in Thread, build' = build, ~WriteThrough,
         At(t, "write"), UNCHANGED <<clock, mem, hist>>, locks[ArgLock(t)].owner = t,
         WriteOurs(t, locks[ArgLock(t)])
  PROVE  SInv'
<1> DEFINE chain == Chain(W(t), locks[ArgLock(t)].n)
           hit == {k \in chain : W(t)[k].addr = tx[t].arg.addr}
<1>1. InCall(t) /\ ~At(t, "do_write") /\ ArgLock(t) \in Lock /\ tx[t].op = "write"
      /\ Shape(tx[t])
  BY ArgLockIs, ShapeIs DEF InCall, At, CallLabels, SInv, TxInv, KindOf
<1>2. chain \subseteq DOMAIN W(t) /\ \E j \in chain : W(t)[j].next = 0
  BY <1>1, OwnChain
<1>3. CASE tx[t].arg.mask = {}
  <2>1. PICK d : d = Settled(tx[t])
    OBVIOUS
  <2>2. Become(t, d, "app") /\ locks' = locks
    BY <1>3, <2>1, Zenon DEF WriteOurs
  <2>3. SameBut(d, tx[t], SettledFields) /\ Cleared(d)
    BY <1>1, <2>1, SettledAll
  <2>4. SameBut(d, tx[t], SettledFields \cup {"own"})
    BY <2>3 DEF SameBut
  <2>5. Frame
    BY <2>2 DEF Frame
  <2> QED
    BY <1>1, <2>2, <2>3, <2>4, <2>5, ReturnQuiet
<1>4. CASE tx[t].arg.mask # {} /\ hit # {}
  <2>1. UpdateEntry(t, CHOOSE k \in hit : TRUE) /\ locks' = locks
    BY <1>4, Zenon DEF WriteOurs, W
  <2>2. (CHOOSE k \in hit : TRUE) \in hit
    BY <1>4
  <2>3. hit \subseteq DOMAIN W(t)
    BY <1>2
  <2> HIDE DEF hit
  <2> QED
    BY <1>1, <2>1, <2>2, <2>3, UpdateStep
<1>5. CASE tx[t].arg.mask # {} /\ hit = {}
  <2>1. PICK prev : prev = CHOOSE k \in chain : W(t)[k].next = 0
    OBVIOUS
  <2>2. AppendEntry(t, prev)
    BY <1>5, <2>1, Zenon DEF WriteOurs, W
  <2>3. prev \in chain /\ W(t)[prev].next = 0
    BY <1>2, <2>1
  <2>4. \A j \in chain : W(t)[j].addr # tx[t].arg.addr
    BY <1>5
  <2> HIDE DEF hit
  <2> QED
    BY <1>1, <2>2, <2>3, <2>4, AppendEntryStep
<1> QED
  BY <1>3, <1>4, <1>5

-----------------------------------------------------------------------------
\* A store takes a lock, or marks its lock as written, and goes on.
Takes(t) ==
  /\ OthersSame(t) /\ tx'[t].pc \in {"write", "do_write"}
  /\ SameBut(tx'[t], tx[t], {"pc", "l", "has_writes"})
  /\ tx'[t].has_writes \in Nat /\ tx'[t].has_writes >= tx[t].has_writes

\* The locks a killed transaction owns stay where they are.
KilledKeeps(t) ==
  Killed(t) => \A k \in Lock : locks'[k].owner = t =>
                 locks[k].owner = t /\ locks'[k].n = locks[k].n

LEMMA TakeStep ==
  ASSUME Inv, Inv', SInv, NEW t \in Thread, build' = build, UNCHANGED <<clock, mem, hist>>,
         InCall(t), tx[t].op = "write", Takes(t), Taking(t), KilledKeeps(t), LockKinds',
         \A n, c \in Nat : At(t, "do_write")' /\ ~LOCK_GET_OWNED(tx'[t].l)
           /\ n = tx'[t].l.n /\ c = tx'[t].l.inc => Backs(ArgLock(t), n, c),
         Running(t) => \A o \in tx[t].obs :
           locks'[LockOf[o.addr]].owner = t /\ locks[LockOf[o.addr]].owner # t
             => Latest(o.addr, o.value)
  PROVE  SInv'
<1>1. ReadTypes(tx[t]) /\ KindOf(t) /\ SnapInv(t) /\ LocalOK(t)
  BY DEF SInv, TxInv, Inv, LocalInv
<1>2. /\ tx'[t].w_set = tx[t].w_set /\ tx'[t].status = tx[t].status /\ tx'[t].arg = tx[t].arg
      /\ tx'[t].op = "write" /\ tx'[t].ts = tx[t].ts /\ tx'[t].r_set = tx[t].r_set
      /\ tx'[t].obs = tx[t].obs /\ tx'[t].start = tx[t].start /\ tx'[t].end = tx[t].end
      /\ tx'[t].ro = tx[t].ro /\ tx'[t].now = tx[t].now /\ tx'[t].todo = tx[t].todo
      /\ tx'[t].visible_reads = tx[t].visible_reads /\ tx'[t].value = tx[t].value
  BY DEF Takes, SameBut, Fields
<1>3. /\ OthersSame(t) /\ tx'[t].pc \in {"write", "do_write"} /\ tx'[t].has_writes \in Nat
      /\ tx'[t].has_writes >= tx[t].has_writes
  BY DEF Takes
<1>4. /\ ~Published(t)' /\ ~Stamped(t)' /\ ~Ticketed(t)' /\ ~Reading(t)' /\ ~At(t, "read")'
      /\ ~At(t, "own_value")' /\ ~At(t, "undo_release")' /\ ~At(t, "validate")'
      /\ tx'[t].pc \notin FreeLabels \cup {"app", "vread", "upgrade"} /\ ~At(t, "drop_reads")'
  BY <1>3 DEF Published, Stamped, Ticketed, Reading, ReadLabels, At, FreeLabels
<1>5. ~Published(t) /\ LockOf' = LockOf /\ (WriteThrough' <=> WriteThrough)
      /\ (VisibleBuild' <=> VisibleBuild) /\ (Modular' <=> Modular)
  BY DEF InCall, Published, CallLabels, At, LockOf, WriteThrough, VisibleBuild, Modular
<1>6. (Killed(t)' <=> Killed(t)) /\ (Running(t)' => Running(t)) /\ W(t)' = W(t)
      /\ ArgLock(t)' = ArgLock(t)
  <2>1. (Killed(t)' <=> Killed(t)) /\ W(t)' = W(t) /\ ArgLock(t)' = ArgLock(t)
    BY <1>2, <1>5 DEF Killed, W, ArgLock
  <2> QED
    BY <2>1 DEF Running, InCall, At
<1>7. OwnerStep(t) /\ \A k \in Lock : locks[k].owner = t => locks'[k].owner = t
  BY <1>3, TakingOwners
<1>8. EntriesKnown(t)
  <2> SUFFICES ASSUME NEW k \in Lock, NEW j \in DOMAIN W(t), EntryBacks(t, j, k)'
               PROVE  Backs(k, W(t)[j].version, W(t)[j].inc)
    BY <1>6 DEF EntriesKnown
  <2>1. LockAt(t, j)' = LockAt(t, j)
    BY <1>2, <1>5 DEF LockAt
  <2>2. LockAt(t, j) = k /\ ~W(t)[j].no_drop /\ locks'[k].owner = t
        /\ (Killed(t)' => j = locks'[k].n)
    BY <1>6, <2>1 DEF EntryBacks
  <2>3. ~Killed(t) \/ (locks[k].owner = t /\ j = locks[k].n)
    BY <1>6, <2>2 DEF KilledKeeps
  <2> QED
    BY <2>2, <2>3, EntryKnown
<1>9. KeepsBacks(t)
  BY <1>3, <1>6, <1>8, TakingBacks
<1>10. KeepsPublished(t) /\ KeepsStamp(t) /\ TicketStep(t)
  BY <1>4, <1>5 DEF KeepsPublished, KeepsStamp, TicketStep
<1>11. VersionLocal(t)'
  BY <1>4, <1>5, <1>6 DEF VersionLocal, SInv, VersionInv
<1>12. ReadTypes(tx'[t])
  BY <1>1, <1>2, <1>3 DEF ReadTypes
<1>13. Running(t)' => Running(t) /\ ~tx[t].ro
  BY <1>1, <1>6 DEF KindOf
<1>14. KindOf(t)'
  <2>1. VisibleBuild => tx'[t].r_set = {}
    BY <1>1, <1>2 DEF KindOf
  <2>2. ~VisibleBuild /\ Modular /\ W(t)' # <<>> => tx'[t].has_writes > 0
    BY <1>1, <1>3, <1>6 DEF KindOf, ReadTypes
  <2> QED
    BY <1>2, <1>4, <1>5, <1>13, <2>1, <2>2 DEF KindOf
<1>15. SnapInv(t)'
  <2> SUFFICES ASSUME Running(t)' PROVE SnapInv(t)'
    BY DEF SnapInv
  <2>2. SnapBase(t) /\ Running(t)
    BY <1>1, <1>13 DEF SnapInv, SnapBase
  <2>5. SnapBase(t)'
    BY <1>1, <1>2, <1>3, <1>7, <1>12, <2>2, SnapOwned
  <2> QED
    BY <1>4, <2>5 DEF SnapInv, SnapBase
<1>16. TxInv(t)'
  BY <1>4, <1>12, <1>14, <1>15 DEF TxInv, ReaderInv, SerialInv
<1>17. MemStep(t)
  BY DEF MemStep
<1> QED
  BY <1>3, <1>7, <1>9, <1>10, <1>11, <1>16, <1>17, LockStep

\* WRITE_THROUGH: the lock was free or ours; now it is ours.
LEMMA ToDoWriteStep ==
  ASSUME Inv, Inv', SInv, NEW t \in Thread, build' = build, UNCHANGED <<clock, mem, hist>>,
         WriteThrough, At(t, "write"), NEW k0, k0 = ArgLock(t), NEW w,
         locks[k0] = w, w.owner \in {t, NoOwner}, w.owner = NoOwner => ~WriteInvalid(t, w.n),
         NEW d, SameBut(d, tx[t], {"l"}), d.l = w, Become(t, d, "do_write"),
         locks'[k0].owner = t, locks'[k0].write,
         \A k \in Lock \ {k0} : locks'[k] = locks[k]
  PROVE  SInv'
<1>1. /\ Shape(tx[t]) /\ tx = [u \in Thread |-> tx[u]] /\ k0 \in Lock /\ ReadTypes(tx[t])
      /\ KindOf(t) /\ w \in LockWord /\ NoOwner \notin Thread /\ ~Killed(t)
  <2>1. ~Modular
    BY BuildIs DEF Inv, TypeOK
  <2>2. ~Killed(t)
    BY <2>1 DEF Inv, LocalInv, LocalOK, LabelsOfBuild, Killed
  <2> QED
    BY <2>2, ShapeIs, ArgLockIs, EtlAssumption DEF SInv, TxInv
<1>2. InCall(t) /\ tx[t].op = "write"
  BY <1>1 DEF InCall, CallLabels, At, KindOf
<1>4. Moves(t) /\ tx'[t].pc = "do_write" /\ SameBut(tx'[t], tx[t], {"l", "pc"})
      /\ tx'[t].l = w
  <2>2. Moves(t) /\ tx'[t].pc = "do_write" /\ SameBut(tx'[t], tx[t], {"l"} \cup {"pc"})
        /\ \A f \in Fields \ {"pc"} : tx'[t][f] = d[f]
    BY <1>1, BecomeBut
  <2>3. {"l"} \cup {"pc"} = {"l", "pc"}
    OBVIOUS
  <2>4. tx'[t].l = w
    BY <2>2 DEF Fields
  <2> QED
    BY <2>2, <2>3, <2>4
<1>5. Takes(t)
  <2>1. SameBut(tx'[t], tx[t], {"pc", "l", "has_writes"}) /\ tx'[t].has_writes = tx[t].has_writes
    BY <1>4 DEF SameBut, Fields
  <2> QED
    BY <1>1, <1>4, <2>1, MovesOthers DEF Takes, ReadTypes
<1>6. Taking(t) /\ KilledKeeps(t)
  BY <1>1 DEF Taking, KilledKeeps
<1>7. LockKinds'
  <2>1. (VisibleBuild' <=> VisibleBuild) /\ (WriteThrough' <=> WriteThrough)
    BY DEF VisibleBuild, Modular, WriteThrough
  <2> QED
    BY <2>1 DEF SInv, LockKinds, LOCK_GET_OWNED
<1>8. \A n, c \in Nat : ~LOCK_GET_OWNED(tx'[t].l) /\ n = tx'[t].l.n /\ c = tx'[t].l.inc
         => Backs(k0, n, c)
  BY <1>1, <1>4 DEF Backs, FreeAt, LOCK_GET_OWNED
<1>9. ASSUME Running(t), NEW o \in tx[t].obs, locks'[LockOf[o.addr]].owner = t,
             locks[LockOf[o.addr]].owner # t
      PROVE  Latest(o.addr, o.value)
  <2>1. LockOf[o.addr] \in Lock
    BY <1>1, BuildIs DEF ReadTypes, Observation, Inv, TypeOK
  <2>2. LockOf[o.addr] = k0
    BY <1>9, <2>1
  <2>3. w.owner = NoOwner /\ ~WriteInvalid(t, w.n) /\ w.n \in Nat /\ w.inc \in Nat
    BY <1>1, <1>9, <2>2 DEF LockWord
  <2>4. Takeable(t, k0) /\ Backs(k0, w.n, w.inc) /\ (w.n > tx[t].end => ~stm_has_read(t, k0))
    BY <2>3 DEF Takeable, Backs, FreeAt, LOCK_GET_OWNED, WriteInvalid
  <2>5. ~tx[t].ro
    BY <1>1, <1>2, <1>9 DEF KindOf
  <2> QED
    BY <1>1, <1>9, <2>2, <2>3, <2>4, <2>5, AcquiredReads
<1> QED
  BY <1>2, <1>5, <1>6, <1>7, <1>8, <1>9, TakeStep

LEMMA WriteStep ==
  ASSUME Inv, Inv', SInv, GrowthSafe, NEW t \in Thread, build' = build, stm_write(t)
  PROVE  SInv'
<1>1. PICK k0, w : k0 = ArgLock(t) /\ w = locks[k0]
  OBVIOUS
<1>2. /\ At(t, "write") /\ UNCHANGED <<clock, mem, hist>> /\ InCall(t) /\ ~At(t, "do_write")
      /\ tx[t].pc \in QuietLabels \ {"rollback"}
  BY DEF stm_write, At, InCall, CallLabels, QuietLabels
<1>3. /\ k0 \in Lock /\ w \in LockWord /\ w.n \in Nat /\ NoOwner \notin Thread
      /\ locks \in [Lock -> LockWord] /\ Shape(tx[t]) /\ tx = [u \in Thread |-> tx[u]]
      /\ tx[t].op = "write" /\ tx[t].value \in Word
  <2>1. KindOf(t) /\ ReadTypes(tx[t])
    BY DEF SInv, TxInv
  <2> QED
    BY <1>1, <1>2, <2>1, ShapeIs, ArgLockIs, EtlAssumption DEF LockWord, KindOf, ReadTypes, At
<1>4. \E d : d = [tx[t] EXCEPT !.l = w] /\ SameBut(d, tx[t], {"l"}) /\ d.l = w
  BY <1>3, SetLockWord
<1>5. (~VisibleBuild /\ LOCK_GET_OWNED(w) => w.write) /\ (WriteThrough => ~VisibleBuild)
  <2>1. WriteThrough => ~VisibleBuild
    BY BuildIs DEF Inv, TypeOK, VisibleBuild
  <2> QED
    BY <1>1, <1>3, <2>1 DEF SInv, LockKinds
<1>6. CASE LOCK_GET_OWNED(w) /\ Ours(t, w)
  <2>1. w.owner = t /\ w.owner # NoOwner
    BY <1>3, <1>6 DEF Ours
  <2>2. CASE WriteThrough
    <3>1. Become(t, [tx[t] EXCEPT !.l = w], "do_write") /\ locks' = locks
      BY <1>1, <1>6, <2>2, Zenon DEF stm_write
    <3>2. PICK d : SameBut(d, tx[t], {"l"}) /\ d.l = w /\ Become(t, d, "do_write")
      BY <1>4, <3>1, Zenon
    <3>3. w.write
      BY <1>5, <1>6, <2>2
    <3>4. locks[k0] = w /\ locks'[k0].owner = t /\ locks'[k0].write
          /\ \A k \in Lock \ {k0} : locks'[k] = locks[k]
      BY <1>1, <2>1, <3>1, <3>3
    <3> QED
      BY <1>1, <1>2, <2>1, <2>2, <3>2, <3>4, ToDoWriteStep
  <2>3. CASE ~WriteThrough /\ ~w.write
    <3>1. Become(t, [tx[t] EXCEPT !.l = w], "upgrade") /\ locks' = locks
      BY <1>1, <1>6, <2>3, Zenon DEF stm_write
    <3>2. PICK d : SameBut(d, tx[t], {"l"}) /\ d.l = w /\ Become(t, d, "upgrade")
      BY <1>4, <3>1, Zenon
    <3>3. Moves(t) /\ tx'[t].pc = "upgrade" /\ SameBut(tx'[t], tx[t], {"l"} \cup {"pc"})
      BY <1>3, <3>2, BecomeBut
    <3>4. tx'[t].value = tx[t].value /\ OthersSame(t)
      BY <3>3, MovesOthers DEF SameBut, Fields
    <3>5. VisibleBuild
      BY <1>5, <1>6, <2>3
    <3>6. Frame
      BY <1>2, <3>1 DEF Frame
    <3> QED
      BY <1>2, <1>3, <3>3, <3>4, <3>5, <3>6, GoOn DEF LoopFields, LoopLabels
  <2>4. CASE ~WriteThrough /\ w.write
    <3>1. WriteOurs(t, locks[ArgLock(t)])
      BY <1>1, <1>6, <2>4, Zenon DEF stm_write
    <3> QED
      BY <1>1, <1>2, <2>1, <2>4, <3>1, WriteOursStep
  <2> QED
    BY <2>2, <2>3, <2>4
<1>7. CASE LOCK_GET_OWNED(w) /\ ~Ours(t, w)
  <2>1. Conflict(t, tx[t], w) /\ locks' = locks
    BY <1>1, <1>7, Zenon DEF stm_write
  <2>2. Frame
    BY <1>2, <2>1 DEF Frame
  <2> QED
    BY <1>2, <2>1, <2>2, ConflictStep
<1>8. CASE ~LOCK_GET_OWNED(w)
  <2>1. w.owner = NoOwner
    BY <1>8 DEF LOCK_GET_OWNED
  <2>2. CASE WriteInvalid(t, w.n)
    <3>1. InvalidRead(t) /\ locks' = locks
      BY <1>1, <1>8, <2>2, Zenon DEF stm_write
    <3>2. Frame
      BY <1>2, <3>1 DEF Frame
    <3> QED
      BY <1>2, <3>1, <3>2, InvalidReadStep
  <2>3. CASE ~WriteInvalid(t, w.n)
    <3>1. AcquireFrom(t, w, w.n)
      BY <1>1, <1>8, <2>3, Zenon DEF stm_write
    <3>2. CASE ~WriteThrough
      <4>1. Takeable(t, ArgLock(t))
        BY <1>1, <2>1 DEF Takeable
      <4>2. Backs(ArgLock(t), w.n, 0)
        BY <1>1, <1>3, <1>8, <3>2, FreeVersion
      <4> QED
        BY <1>2, <1>3, <2>3, <3>1, <3>2, <4>1, <4>2, AcquireFromStep
    <3>3. CASE WriteThrough
      <4>1. /\ locks' = [locks EXCEPT ![k0] = LOCK_SET_ADDR_WRITE(t, 0)]
            /\ Become(t, [tx[t] EXCEPT !.l = w], "do_write")
        BY <1>1, <3>1, <3>3, Zenon DEF AcquireFrom
      <4>2. PICK x : x = LOCK_SET_ADDR_WRITE(t, 0)
        OBVIOUS
      <4>3. x.owner = t /\ x.write
        BY <4>2 DEF LOCK_SET_ADDR_WRITE
      <4>4. locks'[k0].owner = t /\ locks'[k0].write
            /\ \A k \in Lock \ {k0} : locks'[k] = locks[k]
        BY <1>3, <4>1, <4>2, <4>3
      <4>5. PICK d : SameBut(d, tx[t], {"l"}) /\ d.l = w /\ Become(t, d, "do_write")
        BY <1>4, <4>1, Zenon
      <4> QED
        BY <1>1, <1>2, <2>1, <2>3, <3>3, <4>4, <4>5, ToDoWriteStep
    <3> QED
      BY <3>2, <3>3
  <2> QED
    BY <2>2, <2>3
<1> QED
  BY <1>6, <1>7, <1>8

LEMMA UpgradeStep ==
  ASSUME Inv, Inv', SInv, NEW t \in Thread, build' = build, Upgrade(t)
  PROVE  SInv'
<1>1. /\ At(t, "upgrade") /\ UNCHANGED <<clock, mem, hist>> /\ InCall(t)
      /\ tx[t].pc \in QuietLabels \ {"rollback"}
  BY DEF Upgrade, At, InCall, CallLabels, QuietLabels
<1>2. PICK k0, x, w : k0 = ArgLock(t) /\ w = tx[t].l /\ x = [w EXCEPT !.write = TRUE]
  OBVIOUS
<1>3. /\ k0 \in Lock /\ w \in LockWord /\ w.owner = t /\ x.owner = t /\ x.n = w.n /\ x.write
      /\ locks \in [Lock -> LockWord] /\ NoOwner \notin Thread
      /\ Shape(tx[t]) /\ tx = [u \in Thread |-> tx[u]] /\ tx[t].has_writes \in Nat
      /\ tx[t].op = "write"
  <2>1. KindOf(t) /\ ReadTypes(tx[t]) /\ LocalOK(t) /\ TxTypes(tx[t])
    BY ShapeIs DEF SInv, TxInv
  <2>2. w \in LockWord /\ w.owner = t
    BY <1>1, <1>2, <2>1 DEF TxTypes, LocalOK, Remembers
  <2>3. x.owner = t /\ x.n = w.n /\ x.write
    BY <1>2, <2>2 DEF LockWord
  <2>4. k0 \in Lock /\ locks \in [Lock -> LockWord] /\ NoOwner \notin Thread /\ Shape(tx[t])
        /\ tx = [u \in Thread |-> tx[u]]
    BY <1>2, ShapeIs, ArgLockIs, EtlAssumption
  <2>5. tx[t].has_writes \in Nat /\ tx[t].op = "write"
    BY <1>1, <2>1 DEF KindOf, ReadTypes, At
  <2> QED
    BY <2>2, <2>3, <2>4, <2>5
<1>4. CASE locks[k0] # w
  <2>1. Rollback(t, tx[t]) /\ locks' = locks
    BY <1>2, <1>4, Zenon DEF Upgrade
  <2>2. Frame
    BY <1>1, <2>1 DEF Frame
  <2> QED
    BY <1>1, <2>1, <2>2, PlainAbort
<1>5. CASE locks[k0] = w
  <2>0. PICK d, m : m = tx[t].has_writes + 1 /\ d = Upgraded(tx[t], m, ZeroLock)
    OBVIOUS
  <2>1. locks' = [locks EXCEPT ![k0] = x] /\ Become(t, d, "write")
    BY <1>2, <1>5, <2>0, Zenon DEF Upgrade, Upgraded
  <2>2. SameBut(d, tx[t], {"has_writes", "l"}) /\ d.has_writes = m
    BY <1>3, <2>0, SetUpgraded
  <2>3. Moves(t) /\ tx'[t].pc = "write" /\ SameBut(tx'[t], tx[t], {"has_writes", "l"} \cup {"pc"})
        /\ \A f \in Fields \ {"pc"} : tx'[t][f] = d[f]
    BY <1>3, <2>1, <2>2, BecomeBut
  <2>4. Takes(t)
    <3>1. {"has_writes", "l"} \cup {"pc"} = {"pc", "l", "has_writes"}
      OBVIOUS
    <3>2. tx'[t].has_writes = m
      BY <2>2, <2>3 DEF Fields
    <3>3. m \in Nat /\ m >= tx[t].has_writes
      BY <1>3, <2>0
    <3> QED
      BY <2>3, <3>1, <3>2, <3>3, MovesOthers DEF Takes
  <2>5. locks'[k0] = x /\ \A k \in Lock \ {k0} : locks'[k] = locks[k]
    BY <1>3, <2>1
  <2>6. \A k \in Lock : locks'[k].owner = locks[k].owner /\ locks'[k].n = locks[k].n
                        /\ (locks'[k].owner # t => locks'[k] = locks[k])
    BY <1>3, <1>5, <2>5
  <2>7. Taking(t) /\ KilledKeeps(t)
    BY <2>6 DEF Taking, KilledKeeps
  <2>8. LockKinds'
    <3>1. (VisibleBuild' <=> VisibleBuild) /\ (WriteThrough' <=> WriteThrough)
      BY DEF VisibleBuild, Modular, WriteThrough
    <3> QED
      BY <1>3, <2>5, <3>1 DEF SInv, LockKinds, LOCK_GET_OWNED
  <2>9. ~At(t, "do_write")'
    BY <2>3 DEF At
  <2>10. \A o \in tx[t].obs : LockOf[o.addr] \in Lock
    BY BuildIs DEF SInv, TxInv, ReadTypes, Observation, Inv, TypeOK
  <2> QED
    BY <1>1, <1>3, <2>4, <2>6, <2>7, <2>8, <2>9, <2>10, TakeStep
<1> QED
  BY <1>4, <1>5

LEMMA WriteStealStep ==
  ASSUME Inv, Inv', SInv, GrowthSafe, NEW t \in Thread, build' = build, WriteSteal(t)
  PROVE  SInv'
<1>1. /\ At(t, "steal") /\ UNCHANGED <<clock, mem, hist>> /\ InCall(t) /\ ~At(t, "do_write")
      /\ tx[t].pc \in QuietLabels \ {"rollback"} /\ tx[t].op = "write"
  BY DEF WriteSteal, At, InCall, CallLabels, QuietLabels
<1>3. CASE WriteInvalid(t, EntryVersion(tx[t].l))
  <2>1. InvalidRead(t) /\ locks' = locks
    BY <1>3, Zenon DEF WriteSteal
  <2>2. Frame
    BY <1>1, <2>1 DEF Frame
  <2> QED
    BY <1>1, <2>1, <2>2, InvalidReadStep
<1>4. CASE ~WriteInvalid(t, EntryVersion(tx[t].l)) /\ locks[ArgLock(t)] = tx[t].l
  <2>1. AcquireFrom(t, tx[t].l, EntryVersion(tx[t].l))
    BY <1>4, Zenon DEF WriteSteal
  <2>2. /\ EntryVersion(tx[t].l) \in Nat /\ Backs(ArgLock(t), EntryVersion(tx[t].l), 0)
        /\ Takeable(t, ArgLock(t)) /\ ~WriteThrough
    BY <1>1, <1>4, StolenVersion
  <2>3. PICK v, w : v = EntryVersion(tx[t].l) /\ w = tx[t].l
    OBVIOUS
  <2>4. v \in Nat /\ Backs(ArgLock(t), v, 0) /\ AcquireFrom(t, w, v) /\ ~WriteInvalid(t, v)
    BY <1>4, <2>1, <2>2, <2>3
  <2> QED
    BY <1>1, <2>2, <2>4, AcquireFromStep
<1>5. CASE ~WriteInvalid(t, EntryVersion(tx[t].l)) /\ locks[ArgLock(t)] # tx[t].l
  <2>1. Restart(t) /\ locks' = locks
    BY <1>5, Zenon DEF WriteSteal
  <2>2. Frame
    BY <1>1, <2>1 DEF Frame
  <2> QED
    BY <1>1, <2>1, <2>2, RestartStep
<1> QED
  BY <1>3, <1>4, <1>5

LEMMA VisibleStealStep ==
  ASSUME Inv, Inv', SInv, GrowthSafe, NEW t \in Thread, build' = build, VisibleSteal(t)
  PROVE  SInv'
<1>1. /\ At(t, "steal") /\ UNCHANGED <<clock, mem, hist>> /\ InCall(t) /\ ~At(t, "do_write")
      /\ tx[t].op = "vread"
  BY DEF VisibleSteal, At, InCall, CallLabels
<1>3. CASE locks[ArgLock(t)] = tx[t].l
  <2>1. AcquireRead(t, tx[t].l, EntryVersion(tx[t].l))
    BY <1>3, Zenon DEF VisibleSteal
  <2>2. /\ EntryVersion(tx[t].l) \in Nat /\ Backs(ArgLock(t), EntryVersion(tx[t].l), 0)
        /\ Takeable(t, ArgLock(t)) /\ ~WriteThrough
    BY <1>1, <1>3, StolenVersion
  <2>3. PICK v, w : v = EntryVersion(tx[t].l) /\ w = tx[t].l
    OBVIOUS
  <2>4. v \in Nat /\ Backs(ArgLock(t), v, 0) /\ AcquireRead(t, w, v)
    BY <2>1, <2>2, <2>3
  <2>5. VisibleBuild
    BY <1>1 DEF SInv, TxInv, KindOf
  <2> QED
    BY <1>1, <2>2, <2>4, <2>5, AcquireReadStep
<1>4. CASE locks[ArgLock(t)] # tx[t].l
  <2>1. Restart(t) /\ locks' = locks
    BY <1>4, Zenon DEF VisibleSteal
  <2>2. Frame
    BY <1>1, <2>1 DEF Frame
  <2> QED
    BY <1>1, <2>1, <2>2, RestartStep
<1> QED
  BY <1>3, <1>4

LEMMA ReadVisibleStep ==
  ASSUME Inv, Inv', SInv, GrowthSafe, NEW t \in Thread, build' = build, stm_read_visible(t)
  PROVE  SInv'
<1>1. PICK k0, w : k0 = ArgLock(t) /\ w = locks[k0]
  OBVIOUS
<1>2. /\ At(t, "vread") /\ UNCHANGED <<clock, mem, hist>> /\ InCall(t) /\ ~At(t, "do_write")
  BY DEF stm_read_visible, At, InCall, CallLabels
<1>3. /\ k0 \in Lock /\ w \in LockWord /\ w.n \in Nat /\ LocalOK(t)
  BY <1>1, ArgLockIs DEF LockWord, Inv, TypeOK, LocalInv
<1>4. ~WriteThrough
  BY <1>2, <1>3, BuildIs DEF LocalOK, LabelsOfBuild, At, Inv, TypeOK
<1>5. CASE LOCK_GET_OWNED(w) /\ Ours(t, w)
  <2>1. /\ IF w.write THEN ReadOurs(t, w) ELSE Become(t, tx[t], "own_value")
        /\ locks' = locks
    BY <1>1, <1>5, Zenon DEF stm_read_visible
  <2>2. Frame /\ locks[ArgLock(t)].owner = t
    BY <1>1, <1>2, <1>5, <2>1 DEF Frame, Ours
  <2>3. CASE w.write
    BY <1>2, <2>1, <2>2, <2>3, ReadOursStep
  <2>4. CASE ~w.write
    BY <1>2, <2>1, <2>2, <2>4, StayStep
  <2> QED
    BY <2>3, <2>4
<1>6. CASE LOCK_GET_OWNED(w) /\ ~Ours(t, w)
  <2>1. Conflict(t, tx[t], w) /\ locks' = locks
    BY <1>1, <1>6, Zenon DEF stm_read_visible
  <2>2. Frame
    BY <1>2, <2>1 DEF Frame
  <2> QED
    BY <1>2, <2>1, <2>2, ConflictStep
<1>7. CASE ~LOCK_GET_OWNED(w)
  <2>1. AcquireRead(t, w, w.n)
    BY <1>1, <1>7, Zenon DEF stm_read_visible
  <2>2. Takeable(t, ArgLock(t))
    BY <1>1, <1>7 DEF Takeable, LOCK_GET_OWNED
  <2>3. Backs(ArgLock(t), w.n, 0)
    BY <1>1, <1>3, <1>4, <1>7, FreeVersion
  <2>4. VisibleBuild
    BY <1>2 DEF SInv, TxInv, KindOf, At
  <2> QED
    BY <1>2, <1>3, <1>4, <2>1, <2>2, <2>3, <2>4, AcquireReadStep
<1> QED
  BY <1>5, <1>6, <1>7

\* The entry of a write-through store.
ThroughEntry(e, v, x, c, b) == [e EXCEPT !.value = x, !.inc = c, !.no_drop = b]

LEMMA ThroughIs ==
  ASSUME NEW e \in LogEntry, NEW v, NEW x \in Word, NEW c \in Nat, NEW b \in BOOLEAN
  PROVE  LET f == ThroughEntry(e, v, x, c, b) IN
           f \in LogEntry /\ f.addr = e.addr /\ f.version = e.version /\ f.inc = c /\ f.no_drop = b
BY DEF ThroughEntry, LogEntry

LEMMA SetWriteSet ==
  ASSUME NEW d, Shape(d), NEW x
  PROVE  \E e : /\ e = [d EXCEPT !.w_set = x]
                /\ SameBut(e, d, LogFields) /\ e.w_set = x
<1> DEFINE e == [d EXCEPT !.w_set = x]
<1>1. Shape(e)
  BY DEF Shape
<1>2. e.w_set = x /\ \A f \in Fields \ LogFields : e[f] = d[f]
  BY DEF Shape, Fields, LogFields
<1>3. SameBut(e, d, LogFields)
  <2> HIDE DEF e
  <2> QED
    BY <1>1, <1>2 DEF SameBut
<1> QED
  BY <1>2, <1>3

LEMMA DoWriteStep ==
  ASSUME Inv, Inv', SInv, NEW t \in Thread, build' = build, do_write(t)
  PROVE  SInv'
<1>1. /\ At(t, "do_write") /\ UNCHANGED <<clock, locks, hist>> /\ InCall(t)
      /\ Shape(tx[t]) /\ TxTypes(tx[t]) /\ LocalOK(t) /\ ReadTypes(tx[t]) /\ KindOf(t)
      /\ mem \in [Addr -> Word]
  BY ShapeIs DEF do_write, At, InCall, CallLabels, SInv, TxInv, Inv, TypeOK
<1>2. /\ WriteThrough /\ ~Modular /\ ~Killed(t) /\ (WriteThrough' <=> WriteThrough)
      /\ LockOf' = LockOf /\ (VisibleBuild' <=> VisibleBuild)
  BY <1>1, BuildIs DEF LocalOK, LabelsOfBuild, Inv, TypeOK, Killed, WriteThrough, LockOf, At,
       VisibleBuild, Modular
<1>3. PICK a, k0, n, v, c, b, y, z :
        /\ a = tx[t].arg.addr /\ k0 = ArgLock(t) /\ n = Len(W(t))
        /\ v = tx[t].l.n /\ c = tx[t].l.inc /\ b = LOCK_GET_OWNED(tx[t].l)
        /\ y = (IF tx[t].arg.mask = {} THEN ZeroWord ELSE mem[a])
        /\ z = Merge(mem[a], tx[t].arg.value, tx[t].arg.mask)
  OBVIOUS
<1>4. /\ a \in Addr /\ k0 \in Lock /\ k0 = LockOf[a] /\ v \in Nat /\ c \in Nat /\ b \in BOOLEAN
      /\ y \in Word
  <2>1. a \in Addr /\ tx[t].l \in LockWord
    BY <1>1, <1>3 DEF TxTypes, Argument
  <2>2. v \in Nat /\ c \in Nat /\ b \in BOOLEAN
    BY <1>3, <2>1 DEF LockWord, LOCK_GET_OWNED
  <2>3. y \in Word
    BY <1>1, <1>3, <2>1, Constants
  <2> QED
    BY <1>3, <2>1, <2>2, <2>3, ArgLockIs DEF ArgLock
<1>5. PICK f, e, ws :
        f = Entry(t, v, 0) /\ e = ThroughEntry(f, v, y, c, b) /\ ws = Append(W(t), e)
  OBVIOUS
<1>6. f \in LogEntry /\ f.addr = a /\ f.version = v
  BY <1>3, <1>4, <1>5, EntryIs DEF NewEntry, Entry
<1>7. e \in LogEntry /\ e.addr = a /\ e.version = v /\ e.inc = c /\ e.no_drop = b
  BY <1>4, <1>5, <1>6, ThroughIs
<1>8. PICK d : d = [tx[t] EXCEPT !.w_set = ws] /\ SameBut(d, tx[t], LogFields) /\ d.w_set = ws
  BY <1>1, SetWriteSet
<1>9. mem' = [mem EXCEPT ![a] = z] /\ Become(t, Stored(d), "app")
  BY <1>3, <1>5, <1>8, Zenon DEF do_write, W, ThroughEntry
<1>10. PICK s : s = Stored(d)
  OBVIOUS
<1>11. SameBut(s, d, SettledFields \cup {"own"}) /\ Cleared(s) /\ Become(t, s, "app")
  <2>1. Shape(d)
    BY <1>8 DEF SameBut
  <2> QED
    BY <1>9, <1>10, <2>1, StoredAll
<1>12. SameBut(s, d, SettledFields \cup {"obs", "own"}) /\ s.obs = d.obs /\ d.obs = tx[t].obs
  BY <1>8, <1>11 DEF SameBut, SettledFields, Fields, LogFields
<1>0. SameBut(d, tx[t], LogFields)
  BY <1>8
<1>13. /\ OthersSame(t) /\ tx'[t].pc = "app" /\ Cleared(tx'[t])
       /\ SameBut(tx'[t], tx[t], GrowFields)
       /\ tx'[t].w_set = d.w_set /\ tx'[t].has_writes = d.has_writes
       /\ tx'[t].obs = s.obs
  BY <1>0, <1>11, <1>12, GrownIs
<1>14. tx'[t].w_set = ws /\ tx'[t].obs = tx[t].obs /\ tx'[t].has_writes = tx[t].has_writes
  <2>1. d.has_writes = tx[t].has_writes
    BY <1>1, <1>8 DEF Shape, Fields
  <2> QED
    BY <1>8, <1>12, <1>13, <2>1
<1>15. Grows(t) /\ tx'[t].status = tx[t].status
  <2>1. Running(t) => ~tx[t].ro
    BY <1>1 DEF KindOf, At
  <2>2. tx'[t].obs \in SUBSET Observation /\ tx'[t].has_writes \in Nat
    BY <1>1, <1>14 DEF ReadTypes
  <2> QED
    BY <1>2, <1>13, <2>1, <2>2, GrowsIs
<1>16. Taking(t)
  BY <1>1 DEF Taking
<1>17. /\ DOMAIN W(t)' = 1..(n + 1) /\ W(t)'[n + 1] = e /\ n \in Nat /\ DOMAIN W(t) = 1..n
       /\ \A j \in 1..n : W(t)'[j] = W(t)[j]
  <2>0. PICK vs : vs = W(t)
    OBVIOUS
  <2>1. vs \in Seq(LogEntry) /\ n \in Nat /\ DOMAIN vs = 1..n /\ Len(vs) = n
    BY <1>3, <2>0, LogSize
  <2>2. /\ DOMAIN Append(vs, e) = 1..(Len(vs) + 1)
        /\ Append(vs, e)[Len(vs) + 1] = e /\ \A j \in 1..Len(vs) : Append(vs, e)[j] = vs[j]
    BY <1>7, <2>1, AppendFacts
  <2> QED
    BY <1>5, <1>14, <2>0, <2>1, <2>2 DEF W
<1>18. ASSUME NEW k \in Lock, NEW j \in 1..(n + 1), EntryBacks(t, j, k)'
       PROVE  Backs(k, W(t)'[j].version, W(t)'[j].inc)
  <2>1. CASE j = n + 1
    <3>1. LockAt(t, j)' = k0
      BY <1>2, <1>4, <1>7, <1>17, <2>1 DEF LockAt, W
    <3>2. k = k0 /\ ~e.no_drop
      BY <1>17, <1>18, <2>1, <3>1 DEF EntryBacks
    <3>3. BackedBy(t, k, v, c)
      BY <1>1, <1>3, <1>7, <3>2 DEF BackedBy
    <3> QED
      BY <1>7, <1>17, <2>1, <3>3 DEF Backs
  <2>2. CASE j \in 1..n
    <3>1. LockAt(t, j)' = LockAt(t, j) /\ W(t)'[j] = W(t)[j]
      BY <1>2, <1>17, <2>2 DEF LockAt, W
    <3>2. LockAt(t, j) = k /\ ~W(t)[j].no_drop
      BY <1>18, <3>1 DEF EntryBacks
    <3>3. Backs(k, W(t)[j].version, W(t)[j].inc)
      BY <1>1, <1>2, <1>17, <2>2, <3>2, EntryKnown
    <3> QED
      BY <3>1, <3>3
  <2> QED
    BY <1>17, <2>1, <2>2
<1>19. EntriesKnown(t)
  BY <1>17, <1>18 DEF EntriesKnown
<1>20. LockKinds'
  BY <1>1, <1>2 DEF SInv, LockKinds, LOCK_GET_OWNED
<1>21. ObsLocked(t)
  BY <1>1, <1>14 DEF ObsLocked
<1>22. MemStep(t)
  <2>1. locks'[k0].owner = t
    BY <1>1, <1>3 DEF Inv, LockInv, HolderOwns, HolderOwnsOf
  <2>2. \A x \in Addr : x # a => mem'[x] = mem[x]
    BY <1>1, <1>9
  <2> QED
    BY <1>2, <1>4, <2>1, <2>2 DEF MemStep
<1> QED
  BY <1>1, <1>13, <1>15, <1>16, <1>19, <1>20, <1>21, <1>22, GrowStep

-----------------------------------------------------------------------------
(***************************************************************************)
(* Locks given back                                                        *)
(***************************************************************************)
WindLabels == {"drop_reads", "undo", "drop", "undo_release", "write_back", "release"}

\* A transaction that is over, or has published, moves on in its log.
Winds(t) ==
  /\ OthersSame(t) /\ SameBut(tx'[t], tx[t], {"pc", "i"})
  /\ tx[t].pc \in WindLabels /\ tx'[t].pc \in WindLabels \cup {"undo_clock", "end"}
  /\ ~Running(t)' /\ (Published(t)' => Published(t)) /\ (Stamped(t)' => Stamped(t))
  /\ Held(t)' \subseteq Held(t) /\ (At(t, "drop_reads")' => At(t, "drop_reads"))
  /\ At(t, "undo_release")' /\ W(t)[tx'[t].i].inc = build.INCARNATION_MAX => tx[t].ts # 0

WindFacts(t) ==
  /\ W(t)' = W(t) /\ LogSame(t) /\ tx'[t].ts = tx[t].ts /\ TicketStep(t)
  /\ VersionLocal(t)' /\ TxInv(t)'

LEMMA WindsIs ==
  ASSUME Inv, SInv, NEW t \in Thread, build' = build, hist' = hist, Winds(t)
  PROVE  WindFacts(t)
<1>1. ReadTypes(tx[t]) /\ KindOf(t) /\ SerialInv(t)
  BY DEF SInv, TxInv
<1>2. /\ tx'[t].w_set = tx[t].w_set /\ tx'[t].status = tx[t].status /\ tx'[t].arg = tx[t].arg
      /\ tx'[t].op = tx[t].op /\ tx'[t].ts = tx[t].ts /\ tx'[t].r_set = tx[t].r_set
      /\ tx'[t].obs = tx[t].obs /\ tx'[t].start = tx[t].start /\ tx'[t].end = tx[t].end
      /\ tx'[t].ro = tx[t].ro /\ tx'[t].now = tx[t].now /\ tx'[t].todo = tx[t].todo
      /\ tx'[t].visible_reads = tx[t].visible_reads /\ tx'[t].value = tx[t].value
      /\ tx'[t].has_writes = tx[t].has_writes
  BY DEF Winds, SameBut, Fields
<1>3. /\ OthersSame(t) /\ ~Running(t)' /\ (Published(t)' => Published(t))
      /\ tx'[t].pc \in WindLabels \cup {"undo_clock", "end"}
      /\ (At(t, "drop_reads")' => At(t, "drop_reads"))
      /\ At(t, "undo_release")' /\ W(t)[tx'[t].i].inc = build.INCARNATION_MAX => tx[t].ts # 0
  BY DEF Winds
<1>4. /\ ~Ticketed(t)' /\ ~Reading(t)' /\ ~At(t, "read")' /\ ~At(t, "own_value")'
      /\ ~At(t, "validate")' /\ ~At(t, "do_write")' /\ tx'[t].pc \notin CallLabels
      /\ tx'[t].pc \notin FreeLabels \cup {"app", "vread", "upgrade", "write", "do_write"}
  BY <1>3 DEF Ticketed, Reading, ReadLabels, At, FreeLabels, CallLabels, WindLabels
<1>5. /\ LockOf' = LockOf /\ (WriteThrough' <=> WriteThrough)
      /\ (VisibleBuild' <=> VisibleBuild) /\ (Modular' <=> Modular)
  BY DEF LockOf, WriteThrough, VisibleBuild, Modular
<1>6. W(t)' = W(t) /\ (Killed(t) => Killed(t)')
  BY <1>2 DEF W, Killed
<1>7. LogSame(t)
  BY <1>4, <1>6 DEF LogSame, Winds
<1>8. TicketStep(t)
  BY <1>4 DEF TicketStep
<1>9. VersionLocal(t)'
  <2>1. Published(t)' => tx'[t].ts # 0
    BY <1>2, <1>3 DEF SInv, VersionInv
  <2>2. \A j \in DOMAIN W(t)' : ~WriteThrough' => W(t)'[j].inc = 0
    BY <1>5, <1>6 DEF SInv, VersionInv
  <2> QED
    BY <1>2, <1>3, <1>6, <2>1, <2>2 DEF VersionLocal
<1>10. ReadTypes(tx'[t])
  BY <1>1, <1>2 DEF ReadTypes
<1>11. KindOf(t)'
  BY <1>1, <1>2, <1>3, <1>4, <1>5, <1>6 DEF KindOf
<1>12. SerialInv(t)'
  <2> SUFFICES ASSUME Published(t)', NEW o \in tx[t].obs
               PROVE  /\ IsValueAt(o.addr, tx[t].ts - 1, o.value)'
                      /\ \A u \in Thread \ {t} : Ticketed(u)' /\ tx'[u].ts < tx[t].ts =>
                           \A j \in DOMAIN W(u)' : LockAt(u, j)' # LockOf[o.addr]
    BY <1>2, <1>5 DEF SerialInv
  <2>1. /\ IsValueAt(o.addr, tx[t].ts - 1, o.value)
        /\ \A u \in Thread \ {t} : Ticketed(u) /\ tx[u].ts < tx[t].ts =>
             \A j \in DOMAIN W(u) : LockAt(u, j) # LockOf[o.addr]
    BY <1>1, <1>3 DEF SerialInv
  <2>2. \A u \in Thread \ {t} : SamePlace(u) /\ SamePosition(u)
    BY <1>3, OtherPlace
  <2>3. IsValueAt(o.addr, tx[t].ts - 1, o.value)'
    BY <1>2, <2>1 DEF IsValueAt
  <2> QED
    BY <2>1, <2>2, <2>3 DEF SamePlace, SamePosition
<1>13. ReaderInv(t)' /\ SnapInv(t)'
  BY <1>3, <1>4 DEF ReaderInv, SnapInv
<1> QED
  BY <1>2, <1>6, <1>7, <1>8, <1>9, <1>10, <1>11, <1>12, <1>13 DEF WindFacts, TxInv

\* It keeps its locks.
LEMMA WindStep ==
  ASSUME Inv, Inv', SInv, NEW t \in Thread, build' = build, UNCHANGED <<clock, locks, hist>>,
         Winds(t), MemStep(t),
         Published(t) => Published(t)' \/ \A k \in Lock : locks[k].owner # t
  PROVE  SInv'
<1>1. WindFacts(t) /\ OthersSame(t)
  BY WindsIs DEF Winds
<1>2. OwnerStep(t)
  BY DEF OwnerStep
<1>3. KeepsBacks(t)
  <2>1. LogKept(t)
    BY <1>1 DEF WindFacts, LogKept
  <2>2. \A k \in Lock, n, c \in Nat : Backs(k, n, c)' => Backs(k, n, c)
    BY <1>1, <2>1, FrameBacks
  <2> QED
    BY <2>2 DEF KeepsBacks, LOCK_GET_OWNED
<1>4. KeepsPublished(t)
  BY <1>1 DEF KeepsPublished, WindFacts
<1>5. KeepsStamp(t)
  BY <1>1 DEF KeepsStamp, WindFacts, Winds
<1>6. LockKinds'
  <2>1. (VisibleBuild' <=> VisibleBuild) /\ (WriteThrough' <=> WriteThrough)
    BY DEF VisibleBuild, Modular, WriteThrough
  <2> QED
    BY <2>1 DEF SInv, LockKinds, LOCK_GET_OWNED
<1> QED
  BY <1>1, <1>2, <1>3, <1>4, <1>5, <1>6, LockStep DEF WindFacts

\* It gives lock k0 back with word x.
Frees(k0, x) ==
  /\ k0 \in Lock /\ x.owner = NoOwner
  /\ locks' = [locks EXCEPT ![k0] = x]

Releases(t, k0, x) == locks[k0].owner = t /\ Frees(k0, x)

LEMMA ReleaseBacks ==
  ASSUME Inv, Inv', NEW t \in Thread, build' = build, OthersSame(t), LogSame(t),
         ~At(t, "do_write")', NEW k0, NEW x, Frees(k0, x), NEW k \in Lock, NEW n, NEW c,
         Backs(k, n, c)'
  PROVE  IF k = k0 THEN n = x.n /\ c = x.inc ELSE Backs(k, n, c) /\ locks'[k] = locks[k]
<1>1. k0 \in Lock /\ x.owner = NoOwner /\ NoOwner \notin Thread
      /\ locks'[k0] = x /\ \A h \in Lock \ {k0} : locks'[h] = locks[h]
  BY EtlAssumption DEF Frees, Inv, TypeOK
<1>2. CASE k # k0
  <2>1. locks'[k] = locks[k]
    BY <1>1, <1>2
  <2>2. CASE FreeAt(k, n, c)'
    <3>1. FreeAt(k, n, c)
      BY <2>1, <2>2 DEF FreeAt, LOCK_GET_OWNED
    <3> QED
      BY <1>2, <2>1, <3>1 DEF Backs
  <2>3. CASE BackedBy(t, k, n, c)'
    <3>1. BackedBy(t, k, n, c)
      BY <2>1, <2>3, OwnBacks
    <3> QED
      BY <1>2, <2>1, <3>1 DEF Backs
  <2>4. ASSUME NEW u \in Thread \ {t}, BackedBy(u, k, n, c)' PROVE Backs(k, n, c)
    <3>1. ForeignSame(t)
      BY <1>1 DEF ForeignSame
    <3> QED
      BY <2>4, <3>1, OtherBacks DEF Backs
  <2> QED
    BY <1>2, <2>1, <2>2, <2>3, <2>4 DEF Backs
<1>3. CASE k = k0
  <2>1. ASSUME NEW u \in Thread, BackedBy(u, k0, n, c)' PROVE FALSE
    <3>1. locks'[k0].owner # u
      BY <1>1
    <3>2. At(u, "do_write")' /\ ArgLock(u)' = k0
      BY <2>1, <3>1 DEF BackedBy, EntryBacks
    <3>3. locks'[ArgLock(u)'].owner = u
      BY <3>2 DEF Inv, LockInv, HolderOwns, HolderOwnsOf
    <3> QED
      BY <3>1, <3>2, <3>3
  <2>2. FreeAt(k0, n, c)'
    BY <1>3, <2>1 DEF Backs
  <2> QED
    BY <1>1, <1>3, <2>2 DEF FreeAt
<1> QED
  BY <1>2, <1>3

LEMMA ReleaseStep ==
  ASSUME Inv, Inv', SInv, NEW t \in Thread, build' = build, UNCHANGED <<clock, mem, hist>>,
         Winds(t), NEW k0, NEW x, Releases(t, k0, x), ~WriteThrough => x.inc = 0,
         \/ ~WriteThrough /\ ~Published(t) /\ Backs(k0, x.n, x.inc)
         \/ Newer(k0, x.n, x.inc),
         x.n <= clock, Covers(k0, x.n),
         Published(t) => Published(t)' \/ \A k \in Lock : locks'[k].owner # t
  PROVE  SInv'
<1>1. WindFacts(t) /\ OthersSame(t) /\ ~At(t, "do_write")'
  BY WindsIs DEF Winds, At, WindLabels
<1>2. k0 \in Lock /\ locks[k0].owner = t /\ x.owner = NoOwner /\ NoOwner \notin Thread
      /\ locks'[k0] = x /\ \A k \in Lock \ {k0} : locks'[k] = locks[k]
  BY EtlAssumption DEF Releases, Frees, Inv, TypeOK
<1>3. \A k \in Lock, n, c \in Nat : Backs(k, n, c)' =>
        IF k = k0 THEN n = x.n /\ c = x.inc ELSE Backs(k, n, c) /\ locks'[k] = locks[k]
  BY <1>1, ReleaseBacks DEF WindFacts, Releases
<1>4. BacksStep(t)
  <2> SUFFICES ASSUME NEW k \in Lock, NEW n \in Nat, NEW c \in Nat, Backs(k, n, c)'
               PROVE  \/ Newer(k, n, c)
                      \/ /\ Backs(k, n, c)
                         /\ WriteThrough /\ ~LOCK_GET_OWNED(locks'[k]) => ~LOCK_GET_OWNED(locks[k])
                         /\ Published(t) /\ locks[k].owner = t => Published(t)' /\ locks'[k].owner = t
    BY DEF BacksStep
  <2>1. CASE k = k0
    BY <1>3, <2>1
  <2>2. CASE k # k0
    <3>1. Backs(k, n, c) /\ locks'[k] = locks[k]
      BY <1>3, <2>2
    <3> QED
      BY <3>1
  <2> QED
    BY <2>1, <2>2
<1>5. clock \in Nat /\ clock' \in Nat /\ clock <= clock'
  BY DEF Inv, TypeOK
<1>6. SharedStep(t)
  <2>1. HistStep(t)
    <3>1. clock + 1 \in Nat /\ clock + 1 > clock
      BY <1>5
    <3> QED
      BY <3>1 DEF HistStep
  <2>2. OwnerStep(t)
    BY <1>2 DEF OwnerStep
  <2>3. MemStep(t)
    BY DEF MemStep
  <2> QED
    BY <1>1, <1>4, <1>5, <2>1, <2>2, <2>3 DEF SharedStep, WindFacts
<1>7. VersionInv'
  <2>1. VersionStep(t)
    <3> SUFFICES ASSUME NEW k \in Lock, NEW n \in Nat, NEW c \in Nat, Backs(k, n, c)'
                 PROVE  \/ /\ Backs(k, n, c)
                           /\ Published(t) /\ locks[k].owner = t =>
                                Published(t)' /\ locks'[k].owner = t /\ tx'[t].ts = tx[t].ts
                        \/ ~LOCK_GET_OWNED(locks'[k]) /\ n <= clock /\ Covers(k, n)
      BY DEF VersionStep
    <3>1. CASE k = k0
      BY <1>2, <1>3, <3>1 DEF LOCK_GET_OWNED
    <3>2. CASE k # k0
      <4>1. Backs(k, n, c) /\ locks'[k] = locks[k]
        BY <1>3, <3>2
      <4> QED
        BY <1>1, <4>1 DEF WindFacts
    <3> QED
      BY <3>1, <3>2
  <2>2. Stamped(t)' => /\ Stamped(t) /\ tx'[t].ts = tx[t].ts
                       /\ \A k \in Lock : locks'[k].owner = t => locks[k].owner = t
    BY <1>1, <1>2 DEF Winds, WindFacts
  <2> QED
    BY <1>1, <1>6, <2>1, <2>2, VersionsKept DEF WindFacts
<1>8. LockKinds'
  <2>1. (VisibleBuild' <=> VisibleBuild) /\ (WriteThrough' <=> WriteThrough)
    BY DEF VisibleBuild, Modular, WriteThrough
  <2> QED
    BY <1>2, <2>1 DEF SInv, LockKinds, LOCK_GET_OWNED
<1>9. HistoryUnique'
  BY DEF SInv, HistoryUnique
<1>10. \A u \in Thread : TxInv(u)'
  <2>1. \A u \in Thread \ {t} : TxInv(u)'
    BY <1>6, OthersKept
  <2> QED
    BY <1>1, <2>1 DEF WindFacts
<1> QED
  BY <1>7, <1>8, <1>9, <1>10 DEF SInv

\* What an entry says of the lock it holds.
LEMMA EntryGives ==
  ASSUME Inv, SInv, NEW t \in Thread, NEW j \in Held(t), NEW k, k = LockAt(t, j),
         locks[k].owner = t, ~W(t)[j].no_drop, Killed(t) => j = locks[k].n
  PROVE  /\ k \in Lock /\ W(t)[j].version \in Nat /\ W(t)[j].inc \in Nat
         /\ Backs(k, W(t)[j].version, W(t)[j].inc) /\ W(t)[j].version <= clock
         /\ ~Published(t) => Covers(k, W(t)[j].version)
         /\ Published(t) => Covers(k, tx[t].ts)
         /\ Stamped(t) => W(t)[j].version < tx[t].ts /\ tx[t].ts <= clock
         /\ ~WriteThrough => W(t)[j].inc = 0
<1>1. j \in DOMAIN W(t) /\ k \in Lock
  <2>1. j \in DOMAIN W(t)
    BY DEF Held
  <2> QED
    BY <2>1, LockAtIs DEF Inv
<1>2. PICK n, c : n = W(t)[j].version /\ c = W(t)[j].inc
  OBVIOUS
<1>3. n \in Nat /\ c \in Nat
  <2>1. W(t)[j] \in LogEntry
    BY <1>1, LogSize
  <2> QED
    BY <1>2, <2>1 DEF LogEntry
<1>4. Backs(k, n, c)
  <2>1. EntryBacks(t, j, k)
    BY DEF EntryBacks
  <2> QED
    BY <1>1, <1>2, <2>1 DEF Backs, BackedBy
<1>5. /\ n <= clock
      /\ Covers(k, n) \/ \E u \in Thread : Published(u) /\ locks[k].owner = u /\ Covers(k, tx[u].ts)
      /\ \A u \in Thread : Stamped(u) /\ locks[k].owner = u => n < tx[u].ts
  BY <1>1, <1>3, <1>4 DEF SInv, VersionInv
<1>6. ~Published(t) => Covers(k, n)
  BY <1>5
<1>7. Stamped(t) => n < tx[t].ts /\ tx[t].ts <= clock
  BY <1>5 DEF SInv, VersionInv
<1>8. Published(t) => Covers(k, tx[t].ts)
  <2> SUFFICES ASSUME Published(t) PROVE Covers(k, tx[t].ts)
    OBVIOUS
  <2>1. Stamped(t)
    BY DEF Stamped, SInv, VersionInv
  <2>2. \A h \in hist : h.ts \in Nat
    BY DEF Inv, TypeOK
  <2>3. tx[t].ts \in Nat
    BY DEF Inv, TypeOK, TxTypes
  <2>4. CASE Covers(k, n)
    BY <1>3, <1>7, <2>1, <2>2, <2>3, <2>4 DEF Covers
  <2> QED
    BY <1>5, <2>4
<1>9. ~WriteThrough => c = 0
  BY <1>1, <1>2 DEF SInv, VersionInv
<1> QED
  BY <1>1, <1>2, <1>3, <1>4, <1>5, <1>6, <1>7, <1>8, <1>9

\* WRITE_BACK_ETL: one entry further.
LEMMA ForwardStep ==
  ASSUME Inv, NEW t \in Thread, build' = build, ~WriteThrough,
         NEW lab \in {"undo", "drop", "drop_reads"}, At(t, lab),
         Become(t, [tx[t] EXCEPT !.i = @ + 1], lab)
  PROVE  Winds(t)
<1>1. Shape(tx[t]) /\ tx = [u \in Thread |-> tx[u]] /\ LocalOK(t)
  BY ShapeIs
<1>2. PICK n : n = tx[t].i + 1
  OBVIOUS
<1>3. PICK d : d = [tx[t] EXCEPT !.i = n] /\ SameBut(d, tx[t], {"i"}) /\ d.i = n
  BY <1>1, SetIndex
<1>4. Become(t, d, lab) /\ SameBut(d, tx[t], {"i"})
  BY <1>2, <1>3, Zenon
<1>5. /\ Moves(t) /\ tx'[t].pc = lab /\ SameBut(tx'[t], tx[t], {"i"} \cup {"pc"})
      /\ \A f \in Fields \ {"pc"} : tx'[t][f] = d[f]
  BY <1>1, <1>4, BecomeBut
<1>6. SameBut(tx'[t], tx[t], {"pc", "i"}) /\ tx'[t].i = n /\ OthersSame(t)
  <2>1. {"i"} \cup {"pc"} = {"pc", "i"}
    OBVIOUS
  <2> QED
    BY <1>3, <1>5, <2>1, MovesOthers DEF Fields
<1>7. tx[t].i \in Nat /\ tx[t].i >= 1 /\ Len(W(t)) \in Nat
  <2>1. Len(W(t)) \in Nat
    BY LogSize
  <2>2. tx[t].i \in 1..(Len(W(t)) + 1)
    BY <1>1 DEF LocalOK, Position, At
  <2> QED
    BY <2>1, <2>2
<1>8. tx'[t].w_set = tx[t].w_set /\ tx'[t].ts = tx[t].ts /\ W(t)' = W(t)
      /\ (WriteThrough' <=> WriteThrough)
  BY <1>6 DEF SameBut, Fields, W, WriteThrough
<1>9. tx[t].pc = lab /\ tx'[t].pc = lab
  BY <1>5 DEF At
<1>10. ~Running(t)'
  BY <1>2, <1>6, <1>7, <1>9 DEF Running, At, CallLabels
<1>11. (Published(t)' => Published(t)) /\ (Stamped(t)' => Stamped(t)) /\ ~At(t, "undo_release")'
       /\ (At(t, "drop_reads")' => At(t, "drop_reads"))
  BY <1>8, <1>9 DEF Published, Stamped, Ticketed, At
<1>12. Held(t)' \subseteq Held(t)
  <2>1. \A j \in DOMAIN W(t) : j \in Nat
    BY LogSize
  <2> QED
    BY <1>2, <1>6, <1>7, <1>8, <1>9, <2>1 DEF Held, Releasing, At
<1> QED
  BY <1>6, <1>9, <1>10, <1>11, <1>12 DEF Winds, WindLabels

\* The entry under way gives its lock back at the version it found.
LEMMA GiveBackStep ==
  ASSUME Inv, Inv', SInv, NEW t \in Thread, build' = build, UNCHANGED <<clock, mem, hist>>,
         ~WriteThrough, Winds(t), ~Published(t), NEW j \in Held(t), NEW k, k = LockAt(t, j),
         locks[k].owner = t, Killed(t) => j = locks[k].n,
         locks' = [locks EXCEPT ![k] = LOCK_SET_TIMESTAMP(W(t)[j].version)]
  PROVE  SInv'
<1>1. ~W(t)[j].no_drop
  BY DEF Held, Inv, LockInv, LinksForward, LinksForwardOf
<1>2. /\ k \in Lock /\ W(t)[j].version \in Nat /\ W(t)[j].inc = 0
      /\ Backs(k, W(t)[j].version, W(t)[j].inc) /\ W(t)[j].version <= clock
      /\ Covers(k, W(t)[j].version)
  BY <1>1, EntryGives
<1>3. PICK x : x = LOCK_SET_TIMESTAMP(W(t)[j].version)
  OBVIOUS
<1>4. x.owner = NoOwner /\ x.n = W(t)[j].version /\ x.inc = 0
  BY <1>3 DEF LOCK_SET_TIMESTAMP
<1>5. Releases(t, k, x)
  BY <1>2, <1>3, <1>4 DEF Releases, Frees
<1> QED
  BY <1>2, <1>4, <1>5, ReleaseStep

LEMMA RollbackReleaseStep ==
  ASSUME Inv, Inv', SInv, NEW t \in Thread, build' = build, RollbackRelease(t)
  PROVE  SInv'
<1>1. /\ At(t, "undo") /\ ~WriteThrough /\ UNCHANGED <<clock, mem, hist>>
      /\ Become(t, [tx[t] EXCEPT !.i = @ + 1], "undo")
  BY DEF RollbackRelease
<1>2. Winds(t) /\ ~Published(t) /\ ~Killed(t)
  <2>1. Winds(t)
    BY <1>1, ForwardStep
  <2> QED
    BY <1>1, <2>1, NotKilled DEF Published, At
<1>3. PICK j, k : j = tx[t].i /\ k = LockAt(t, j)
  OBVIOUS
<1>4. CASE W(t)[j].next = 0
  <2>1. locks' = [locks EXCEPT ![k] = LOCK_SET_TIMESTAMP(W(t)[j].version)]
    BY <1>3, <1>4, Zenon DEF RollbackRelease, LockAt, W
  <2>2. j \in Held(t)
    <3>1. j \in 1..(Len(W(t)) + 1) /\ j <= Len(W(t)) /\ DOMAIN W(t) = 1..Len(W(t)) /\ Len(W(t)) \in Nat
      BY <1>1, <1>3, LogSize DEF Inv, LocalInv, LocalOK, Position, RollbackRelease, W
    <3> QED
      BY <1>1, <1>3, <3>1 DEF Held, Releasing, At
  <2>3. locks[k].owner = t
    BY <1>2, <1>3, <2>2 DEF Inv, LockInv, HolderOwns, HolderOwnsOf
  <2> QED
    BY <1>1, <1>2, <1>3, <2>1, <2>2, <2>3, GiveBackStep
<1>5. CASE W(t)[j].next # 0
  <2>1. locks' = locks
    BY <1>3, <1>5, Zenon DEF RollbackRelease, W
  <2>2. MemStep(t)
    BY <1>1 DEF MemStep
  <2> QED
    BY <1>1, <1>2, <2>1, <2>2, WindStep
<1> QED
  BY <1>4, <1>5

LEMMA CommitReadsStep ==
  ASSUME Inv, Inv', SInv, NEW t \in Thread, build' = build, CommitReads(t)
  PROVE  SInv'
<1>1. At(t, "drop_reads") /\ UNCHANGED <<mem, hist>> /\ LocalOK(t)
  BY DEF CommitReads, Inv, LocalInv
<1>2. ~WriteThrough
  BY <1>1, BuildIs DEF LocalOK, LabelsOfBuild, At, Inv, TypeOK
<1>3. CASE tx[t].i > Len(W(t))
  <2>1. Len(W(t)) \in Nat /\ tx[t].i \in 1..(Len(W(t)) + 1)
    BY <1>1, LogSize DEF LocalOK, Position, At
  <2>2. ~(tx[t].i <= Len(W(t)))
    BY <1>3, <2>1
  <2>3. clock' = clock + 1 /\ Become(t, [tx[t] EXCEPT !.i = 0], "end") /\ UNCHANGED locks
    BY <2>2, Zenon DEF CommitReads, W
  <2> QED
    BY <1>1, <2>3, CommitReadsEnd
<1>4. CASE ~(tx[t].i > Len(W(t)))
  <2>1. PICK j, k : j = tx[t].i /\ k = LockAt(t, j)
    OBVIOUS
  <2>2. UNCHANGED clock /\ Become(t, [tx[t] EXCEPT !.i = @ + 1], "drop_reads")
        /\ locks' = IF W(t)[j].next = 0
               THEN [locks EXCEPT ![k] = LOCK_SET_TIMESTAMP(W(t)[j].version)]
               ELSE locks
    BY <1>4, <2>1, Zenon DEF CommitReads, W, LockAt
  <2>3. Winds(t) /\ ~Published(t) /\ ~Killed(t)
    <3>1. Winds(t)
      BY <1>1, <1>2, <2>2, ForwardStep
    <3>2. ~Killed(t)
      BY <1>1, NotKilled DEF InCommit, CommitLabels, At
    <3> QED
      BY <1>1, <3>1, <3>2 DEF Published, At
  <2>4. CASE W(t)[j].next = 0
    <3>2. j \in Held(t)
      <4>1. j \in 1..(Len(W(t)) + 1) /\ ~(j > Len(W(t))) /\ DOMAIN W(t) = 1..Len(W(t))
            /\ Len(W(t)) \in Nat
        BY <1>1, <1>4, <2>1, LogSize DEF LocalOK, Position, At
      <4> QED
        BY <1>1, <1>2, <2>1, <4>1 DEF Held, Releasing, At
    <3>3. locks[k].owner = t
      BY <2>1, <2>3, <3>2 DEF Inv, LockInv, HolderOwns, HolderOwnsOf
    <3> QED
      BY <1>1, <1>2, <2>1, <2>2, <2>3, <2>4, <3>2, <3>3, GiveBackStep
  <2>5. CASE W(t)[j].next # 0
    <3>1. locks' = locks /\ MemStep(t)
      BY <1>1, <2>2, <2>5 DEF MemStep
    <3> QED
      BY <1>1, <2>2, <2>3, <3>1, WindStep
  <2> QED
    BY <2>4, <2>5
<1> QED
  BY <1>3, <1>4

LEMMA DropStep ==
  ASSUME Inv, Inv', SInv, NEW t \in Thread, build' = build, stm_drop(t)
  PROVE  SInv'
<1>1. /\ At(t, "drop") /\ UNCHANGED <<clock, mem, hist>> /\ LocalOK(t)
      /\ Become(t, [tx[t] EXCEPT !.i = @ + 1], "drop") /\ tx[t].i <= Len(W(t))
  BY Zenon DEF stm_drop, Inv, LocalInv, W
<1>2. ~WriteThrough
  BY <1>1, BuildIs DEF LocalOK, LabelsOfBuild, At, Inv, TypeOK
<1>3. PICK j, k : j = tx[t].i /\ k = LockAt(t, j)
  OBVIOUS
<1>4. Winds(t) /\ ~Published(t)
  BY <1>1, <1>2, ForwardStep DEF Published, At
<1>5. locks' = IF locks[k].owner = t /\ locks[k].inc = tx[t].gen /\ locks[k].n = j
                 THEN [locks EXCEPT ![k] = LOCK_SET_TIMESTAMP(W(t)[j].version)] ELSE locks
  BY <1>3, Zenon DEF stm_drop, LockAt, W
<1>6. CASE locks[k].owner = t /\ locks[k].inc = tx[t].gen /\ locks[k].n = j
  <2>1. j \in Held(t)
    <3>1. j \in 1..(Len(W(t)) + 1) /\ j <= Len(W(t)) /\ DOMAIN W(t) = 1..Len(W(t)) /\ Len(W(t)) \in Nat
      BY <1>1, <1>3, LogSize DEF LocalOK, Position, At
    <3> QED
      BY <1>1, <1>2, <1>3, <3>1 DEF Held, Releasing, At
  <2>2. locks' = [locks EXCEPT ![k] = LOCK_SET_TIMESTAMP(W(t)[j].version)]
    BY <1>5, <1>6
  <2> QED
    BY <1>1, <1>2, <1>3, <1>4, <1>6, <2>1, <2>2, GiveBackStep
<1>7. CASE ~(locks[k].owner = t /\ locks[k].inc = tx[t].gen /\ locks[k].n = j)
  <2>1. locks' = locks /\ MemStep(t)
    BY <1>1, <1>5, <1>7 DEF MemStep
  <2> QED
    BY <1>1, <1>4, <2>1, WindStep
<1> QED
  BY <1>6, <1>7

LEMMA SetsIndex ==
  ASSUME Inv, NEW t \in Thread, NEW n, NEW lab, Become(t, [tx[t] EXCEPT !.i = n], lab)
  PROVE  /\ OthersSame(t) /\ SameBut(tx'[t], tx[t], {"pc", "i"})
         /\ tx'[t].pc = lab /\ tx'[t].i = n
<1>1. Shape(tx[t]) /\ tx = [u \in Thread |-> tx[u]]
  BY ShapeIs
<1>3. PICK d : d = [tx[t] EXCEPT !.i = n] /\ SameBut(d, tx[t], {"i"}) /\ d.i = n
  BY <1>1, SetIndex
<1>4. Become(t, d, lab) /\ SameBut(d, tx[t], {"i"})
  BY <1>3, Zenon
<1>5. /\ Moves(t) /\ tx'[t].pc = lab /\ SameBut(tx'[t], tx[t], {"i"} \cup {"pc"})
      /\ \A f \in Fields \ {"pc"} : tx'[t][f] = d[f]
  BY <1>1, <1>4, BecomeBut
<1>6. {"i"} \cup {"pc"} = {"pc", "i"}
  OBVIOUS
<1> QED
  BY <1>3, <1>5, <1>6, MovesOthers DEF Fields

LEMMA KeepsIndex ==
  ASSUME Inv, NEW t \in Thread, NEW lab, Become(t, tx[t], lab)
  PROVE  /\ OthersSame(t) /\ SameBut(tx'[t], tx[t], {"pc", "i"})
         /\ tx'[t].pc = lab /\ tx'[t].i = tx[t].i
<1>1. Shape(tx[t]) /\ tx = [u \in Thread |-> tx[u]]
  BY ShapeIs
<1>2. Moves(t) /\ tx'[t].pc = lab /\ SameBut(tx'[t], tx[t], {"pc"})
  BY <1>1, BecomeAll
<1>3. SameBut(tx'[t], tx[t], {"pc", "i"}) /\ tx'[t].i = tx[t].i
  BY <1>2 DEF SameBut, Fields
<1> QED
  BY <1>2, <1>3, MovesOthers

\* A commit goes on to write back and to release.
LEMMA CommitWinds ==
  ASSUME Inv, NEW t \in Thread, build' = build, OthersSame(t),
         SameBut(tx'[t], tx[t], {"pc", "i"}), Published(t), tx[t].i \in Nat,
         tx'[t].pc \in {"write_back", "release", "end"},
         tx'[t].pc # "end" => /\ tx'[t].i \in Nat
                              /\ WriteThrough => tx'[t].i <= tx[t].i
                              /\ ~WriteThrough => tx'[t].i >= tx[t].i
  PROVE  Winds(t)
<1>1. tx'[t].w_set = tx[t].w_set /\ tx'[t].ts = tx[t].ts /\ W(t)' = W(t)
      /\ (WriteThrough' <=> WriteThrough)
  BY DEF SameBut, Fields, W, WriteThrough
<1>2. tx[t].pc \in {"write_back", "release"}
  BY DEF Published
<1>3. ~Running(t)' /\ ~At(t, "undo_release")' /\ ~At(t, "drop_reads")'
  BY DEF Running, At, CallLabels
<1>4. Stamped(t)' => Stamped(t)
  BY <1>1 DEF Stamped
<1>5. Held(t)' \subseteq Held(t)
  <2>1. \A j \in DOMAIN W(t) : j \in Nat
    BY LogSize
  <2>2. CASE tx'[t].pc = "end"
    BY <2>2 DEF Held, At
  <2>3. CASE tx'[t].pc # "end"
    BY <1>1, <1>2, <2>1, <2>3 DEF Held, Releasing, At
  <2> QED
    BY <2>2, <2>3
<1> QED
  BY <1>2, <1>3, <1>4, <1>5 DEF Winds, WindLabels

\* WRITE_THROUGH: an abort goes on to undo.
LEMMA UndoWinds ==
  ASSUME Inv, NEW t \in Thread, build' = build, OthersSame(t), WriteThrough,
         SameBut(tx'[t], tx[t], {"pc", "i"}), tx[t].pc \in {"undo", "undo_release"},
         tx[t].i \in Nat, tx'[t].pc \in {"undo", "undo_clock", "undo_release"},
         tx'[t].i \in Nat, tx'[t].i <= tx[t].i,
         tx'[t].pc = "undo_release" /\ W(t)[tx'[t].i].inc = build.INCARNATION_MAX => tx[t].ts # 0
  PROVE  Winds(t)
<1>1. tx'[t].w_set = tx[t].w_set /\ tx'[t].ts = tx[t].ts /\ W(t)' = W(t)
      /\ (WriteThrough' <=> WriteThrough)
  BY DEF SameBut, Fields, W, WriteThrough
<1>3. ~Running(t)' /\ ~Published(t)' /\ ~Ticketed(t)' /\ ~At(t, "drop_reads")'
  BY DEF Running, At, CallLabels, Published, Ticketed
<1>4. Stamped(t)' => Stamped(t)
  BY <1>1, <1>3 DEF Stamped
<1>5. Held(t)' \subseteq Held(t)
  <2>1. \A j \in DOMAIN W(t) : j \in Nat
    BY LogSize
  <2> QED
    BY <1>1, <2>1 DEF Held, Releasing, At
<1> QED
  BY <1>3, <1>4, <1>5 DEF Winds, WindLabels, At

\* The entry at which a commit or an abort is.
LEMMA EntryHeld ==
  ASSUME Inv, NEW t \in Thread, NEW j, j = tx[t].i, j \in 1..Len(W(t)),
         tx[t].pc \in {"write_back", "release", "undo", "undo_release"}
  PROVE  /\ j \in Held(t) /\ locks[LockAt(t, j)].owner = t /\ ~Killed(t) /\ j \in Nat
         /\ LockAt(t, j) \in Lock /\ W(t)[j] \in LogEntry
<1>1. Len(W(t)) \in Nat /\ DOMAIN W(t) = 1..Len(W(t)) /\ j \in Nat
  BY LogSize
<1>2. j \in Held(t)
  BY <1>1 DEF Held, Releasing, At
<1>3. ~Killed(t)
  BY NotKilled DEF InCommit, CommitLabels
<1>4. LockAt(t, j) \in Lock /\ W(t)[j] \in LogEntry
  BY <1>1, LockAtIs DEF Inv
<1> QED
  BY <1>1, <1>2, <1>3, <1>4 DEF Inv, LockInv, HolderOwns, HolderOwnsOf

LEMMA CommitStoreStep ==
  ASSUME Inv, Inv', SInv, NEW t \in Thread, build' = build, CommitStore(t)
  PROVE  SInv'
<1>1. /\ At(t, "write_back") /\ UNCHANGED <<clock, locks, hist>> /\ LocalOK(t) /\ Published(t)
      /\ mem \in [Addr -> Word]
  BY DEF CommitStore, Inv, LocalInv, Published, At, TypeOK
<1>2. PICK j, e : j = tx[t].i /\ e = W(t)[j]
  OBVIOUS
<1>3. /\ j \in 1..Len(W(t)) /\ Len(W(t)) \in Nat /\ DOMAIN W(t) = 1..Len(W(t)) /\ ~WriteThrough
      /\ tx[t].i \in Nat
  BY <1>1, <1>2, LogSize DEF LocalOK, Position, LabelsOfBuild, At
<1>4. locks[LockOf[e.addr]].owner = t
  BY <1>1, <1>2, <1>3, EntryHeld DEF At, LockAt, W
<1>5. /\ OthersSame(t) /\ SameBut(tx'[t], tx[t], {"pc", "i"})
      /\ tx'[t].pc \in {"write_back", "release"} /\ tx'[t].i \in Nat /\ tx'[t].i >= tx[t].i
  <2>1. CASE e.next = 0
    <3>1. Become(t, tx[t], "release")
      BY <1>2, <2>1, Zenon DEF CommitStore, W
    <3> QED
      BY <1>3, <3>1, KeepsIndex
  <2>2. CASE e.next # 0
    <3>1. e.next \in DOMAIN W(t) /\ e.next > j
      BY <1>2, <1>3, <2>2 DEF Inv, LockInv, LinksForward, LinksForwardOf
    <3>2. tx[t].i # Len(tx[t].w_set)
      BY <1>2, <1>3, <3>1 DEF W
    <3>3. NextEntry(t)
      BY <1>2, <2>2, Zenon DEF CommitStore, W
    <3>4. Become(t, [tx[t] EXCEPT !.i = @ + 1], "write_back")
      BY <1>3, <3>2, <3>3, Zenon DEF NextEntry
    <3>5. tx[t].i + 1 \in Nat /\ tx[t].i + 1 >= tx[t].i
      BY <1>3
    <3> QED
      BY <3>4, <3>5, SetsIndex
  <2> QED
    BY <2>1, <2>2
<1>6. Winds(t) /\ Published(t)'
  BY <1>1, <1>3, <1>5, CommitWinds DEF Published
<1>7. MemStep(t)
  <2>1. mem' = IF e.mask = {} THEN mem ELSE [mem EXCEPT ![e.addr] = e.value]
    BY <1>2, Zenon DEF CommitStore, W
  <2>2. \A a \in Addr : mem'[a] = mem[a] \/ a = e.addr
    BY <1>1, <2>1
  <2> QED
    BY <1>1, <1>4, <1>6, <2>2 DEF MemStep
<1> QED
  BY <1>1, <1>6, <1>7, WindStep

LEMMA EndOwnsNone ==
  ASSUME Inv', NEW t \in Thread, tx'[t].pc = "end"
  PROVE  \A k \in Lock : locks'[k].owner # t
<1>1. Held(t)' = {} /\ ~At(t, "do_write")'
  BY DEF Held, At
<1> QED
  BY <1>1 DEF Inv, LockInv, OwnerHolds, OwnerHoldsOf

LEMMA CommitReleaseStep ==
  ASSUME Inv, Inv', SInv, NEW t \in Thread, build' = build, CommitRelease(t)
  PROVE  SInv'
<1>1. /\ At(t, "release") /\ UNCHANGED <<clock, mem, hist>> /\ LocalOK(t) /\ Published(t)
      /\ NextEntry(t)
  BY DEF CommitRelease, Inv, LocalInv, Published, At
<1>2. PICK j, e, k, v : j = tx[t].i /\ e = W(t)[j] /\ k = LockAt(t, j) /\ v = tx[t].ts
  OBVIOUS
<1>3. /\ j \in 1..Len(W(t)) /\ Len(W(t)) \in Nat /\ DOMAIN W(t) = 1..Len(W(t)) /\ tx[t].i \in Nat
  BY <1>1, <1>2, LogSize DEF LocalOK, Position, At
<1>4. j \in Held(t) /\ locks[k].owner = t /\ ~Killed(t)
  BY <1>1, <1>2, <1>3, EntryHeld DEF At
<1>5. /\ OthersSame(t) /\ SameBut(tx'[t], tx[t], {"pc", "i"})
      /\ tx'[t].pc \in {"write_back", "release", "end"}
      /\ tx'[t].pc # "end" => /\ tx'[t].i \in Nat
                              /\ WriteThrough => tx'[t].i <= tx[t].i
                              /\ ~WriteThrough => tx'[t].i >= tx[t].i
  <2> DEFINE last == IF WriteThrough THEN tx[t].i = 1 ELSE tx[t].i = Len(tx[t].w_set)
  <2>1. CASE last
    <3>1. Become(t, [tx[t] EXCEPT !.i = 0], "end")
      BY <1>1, <2>1, Zenon DEF NextEntry
    <3> QED
      BY <3>1, SetsIndex
  <2>2. CASE ~last /\ WriteThrough
    <3>1. Become(t, [tx[t] EXCEPT !.i = @ - 1], "release")
      BY <1>1, <2>2, Zenon DEF NextEntry
    <3>2. tx[t].i - 1 \in Nat /\ tx[t].i - 1 <= tx[t].i
      BY <1>2, <1>3
    <3> QED
      BY <2>2, <3>1, <3>2, SetsIndex
  <2>3. CASE ~last /\ ~WriteThrough
    <3>1. Become(t, [tx[t] EXCEPT !.i = @ + 1], "write_back")
      BY <1>1, <2>3, Zenon DEF NextEntry
    <3>2. tx[t].i + 1 \in Nat /\ tx[t].i + 1 >= tx[t].i
      BY <1>3
    <3> QED
      BY <2>3, <3>1, <3>2, SetsIndex
  <2> QED
    BY <2>1, <2>2, <2>3
<1>6. Winds(t)
  BY <1>1, <1>3, <1>5, CommitWinds
<1>7. Published(t)' \/ \A h \in Lock : locks'[h].owner # t
  BY <1>5, EndOwnsNone DEF Published
<1>8. CASE e.no_drop
  <2>1. locks' = locks /\ MemStep(t)
    BY <1>1, <1>2, <1>8 DEF CommitRelease, Drops, W, MemStep
  <2> QED
    BY <1>1, <1>6, <1>7, <2>1, WindStep
<1>9. CASE ~e.no_drop
  <2>1. PICK x : x = LOCK_SET_TIMESTAMP(v)
    OBVIOUS
  <2>2. x.owner = NoOwner /\ x.n = v /\ x.inc = 0
    BY <2>1 DEF LOCK_SET_TIMESTAMP
  <2>3. locks' = [locks EXCEPT ![k] = x]
    BY <1>2, <1>9, <2>1, Zenon DEF CommitRelease, Drops, W, LockAt
  <2>4. Stamped(t)
    BY <1>1 DEF Stamped, SInv, VersionInv
  <2>5. /\ k \in Lock /\ e.version \in Nat /\ e.inc \in Nat /\ Backs(k, e.version, e.inc)
        /\ Covers(k, v) /\ e.version < v /\ v <= clock
    BY <1>1, <1>2, <1>4, <1>9, <2>4, EntryGives
  <2>6. Releases(t, k, x)
    BY <1>4, <2>2, <2>3, <2>5 DEF Releases, Frees
  <2>7. Newer(k, x.n, x.inc)
    BY <2>2, <2>5 DEF Newer
  <2>8. x.n <= clock /\ Covers(k, x.n)
    BY <2>2, <2>5
  <2> QED
    BY <1>1, <1>6, <1>7, <2>2, <2>6, <2>7, <2>8, ReleaseStep
<1> QED
  BY <1>8, <1>9

LEMMA UndoStoreStep ==
  ASSUME Inv, Inv', SInv, NEW t \in Thread, build' = build, UndoStore(t)
  PROVE  SInv'
<1>1. /\ At(t, "undo") /\ UNCHANGED <<clock, locks, hist>> /\ LocalOK(t) /\ ~Published(t)
      /\ mem \in [Addr -> Word] /\ WriteThrough
  BY DEF UndoStore, Inv, LocalInv, Published, At, TypeOK
<1>2. PICK j, e : j = tx[t].i /\ e = W(t)[j]
  OBVIOUS
<1>3. /\ j \in 1..Len(W(t)) /\ Len(W(t)) \in Nat /\ tx[t].i \in Nat /\ tx[t].i > 0
  <2>1. j \in 0..Len(W(t)) /\ j > 0 /\ Len(W(t)) \in Nat
    BY <1>1, <1>2, LogSize DEF LocalOK, Position, UndoStore
  <2> QED
    BY <1>2, <2>1
<1>4. locks[LockOf[e.addr]].owner = t
  BY <1>1, <1>2, <1>3, EntryHeld DEF At, LockAt, W
<1>5. /\ OthersSame(t) /\ SameBut(tx'[t], tx[t], {"pc", "i"})
      /\ tx'[t].pc \in {"undo", "undo_clock", "undo_release"}
      /\ tx'[t].i \in Nat /\ tx'[t].i <= tx[t].i
      /\ tx'[t].pc = "undo_release" /\ W(t)[tx'[t].i].inc = build.INCARNATION_MAX => tx[t].ts # 0
  <2>1. CASE e.no_drop
    <3>1. Become(t, [tx[t] EXCEPT !.i = @ - 1], "undo")
      BY <1>2, <2>1, Zenon DEF UndoStore, W
    <3>2. tx[t].i - 1 \in Nat /\ tx[t].i - 1 <= tx[t].i
      BY <1>3
    <3>3. OthersSame(t) /\ SameBut(tx'[t], tx[t], {"pc", "i"}) /\ tx'[t].pc = "undo"
          /\ tx'[t].i = tx[t].i - 1
      BY <3>1, SetsIndex
    <3> QED
      BY <3>2, <3>3
  <2>2. CASE ~e.no_drop
    <3>1. PICK lab : lab = IF e.inc = build.INCARNATION_MAX /\ tx[t].ts = 0 THEN "undo_clock"
                                                                        ELSE "undo_release"
      OBVIOUS
    <3>2. Become(t, tx[t], lab)
      BY <1>2, <2>2, <3>1, Zenon DEF UndoStore, W
    <3>3. OthersSame(t) /\ SameBut(tx'[t], tx[t], {"pc", "i"}) /\ tx'[t].pc = lab /\ tx'[t].i = tx[t].i
      BY <3>2, KeepsIndex
    <3> QED
      BY <1>2, <1>3, <3>1, <3>3
  <2> QED
    BY <2>1, <2>2
<1>6. Winds(t)
  BY <1>1, <1>3, <1>5, UndoWinds DEF At
<1>7. MemStep(t)
  <2>1. mem' = IF Restores(e) THEN [mem EXCEPT ![e.addr] = e.value] ELSE mem
    BY <1>2, Zenon DEF UndoStore, W
  <2>2. \A a \in Addr : mem'[a] = mem[a] \/ a = e.addr
    BY <1>1, <2>1
  <2> QED
    BY <1>1, <1>4, <2>2 DEF MemStep
<1> QED
  BY <1>1, <1>6, <1>7, WindStep

LEMMA UndoReleaseStep ==
  ASSUME Inv, Inv', SInv, NEW t \in Thread, build' = build, UndoRelease(t)
  PROVE  SInv'
<1>1. /\ At(t, "undo_release") /\ UNCHANGED <<clock, mem, hist>> /\ LocalOK(t) /\ ~Published(t)
      /\ WriteThrough /\ clock \in Nat
  BY DEF UndoRelease, Inv, LocalInv, LocalOK, LabelsOfBuild, Published, At, TypeOK
<1>2. PICK j, e, k, v : j = tx[t].i /\ e = W(t)[j] /\ k = LockAt(t, j) /\ v = tx[t].ts
  OBVIOUS
<1>3. /\ j \in 1..Len(W(t)) /\ Len(W(t)) \in Nat /\ tx[t].i \in Nat /\ ~e.no_drop
  BY <1>1, <1>2, LogSize DEF LocalOK, Position, At
<1>4. j \in Held(t) /\ locks[k].owner = t /\ ~Killed(t)
  BY <1>1, <1>2, <1>3, EntryHeld DEF At
<1>5. OthersSame(t) /\ SameBut(tx'[t], tx[t], {"pc", "i"}) /\ tx'[t].pc = "undo"
      /\ tx'[t].i \in Nat /\ tx'[t].i <= tx[t].i
  <2>1. Become(t, [tx[t] EXCEPT !.i = @ - 1], "undo")
    BY Zenon DEF UndoRelease
  <2>2. tx[t].i - 1 \in Nat /\ tx[t].i - 1 <= tx[t].i
    BY <1>2, <1>3
  <2> QED
    BY <2>1, <2>2, SetsIndex
<1>6. Winds(t)
  BY <1>1, <1>3, <1>5, UndoWinds DEF At
<1>7. /\ k \in Lock /\ e.version \in Nat /\ e.inc \in Nat /\ Backs(k, e.version, e.inc)
      /\ Covers(k, e.version) /\ e.version <= clock
      /\ Stamped(t) => e.version < v /\ v <= clock
  BY <1>1, <1>2, <1>3, <1>4, EntryGives
<1>8. PICK x : x = UndoneWord(e, v)
  OBVIOUS
<1>9. locks' = [locks EXCEPT ![k] = x]
  BY <1>2, <1>8, Zenon DEF UndoRelease, W, LockAt
<1>10. /\ x.owner = NoOwner /\ x.n <= clock /\ Covers(k, x.n) /\ Newer(k, x.n, x.inc)
  <2>1. CASE e.inc = build.INCARNATION_MAX
    <3>1. x.owner = NoOwner /\ x.n = v /\ x.inc = 0
      BY <1>8, <2>1 DEF UndoneWord, LOCK_SET_TIMESTAMP
    <3>2. Stamped(t)
      BY <1>1, <1>2, <2>1 DEF Stamped, At, SInv, VersionInv
    <3>3. e.version < v /\ v <= clock /\ v \in Nat
      BY <1>2, <1>7, <3>2 DEF Inv, TypeOK, TxTypes
    <3>4. Covers(k, v)
      <4>1. \A h \in hist : h.ts \in Nat
        BY DEF Inv, TypeOK
      <4> QED
        BY <1>7, <3>3, <4>1 DEF Covers
    <3> QED
      BY <1>7, <3>1, <3>3, <3>4 DEF Newer
  <2>2. CASE e.inc # build.INCARNATION_MAX
    <3>1. x.owner = NoOwner /\ x.n = e.version /\ x.inc = e.inc + 1
      BY <1>8, <2>2 DEF UndoneWord, LOCK_UPD_INCARNATION
    <3>2. Newer(k, x.n, x.inc)
      BY <1>7, <3>1 DEF Newer
    <3> QED
      BY <1>7, <3>1, <3>2
  <2> QED
    BY <2>1, <2>2
<1>11. Releases(t, k, x)
  BY <1>4, <1>7, <1>9, <1>10 DEF Releases, Frees
<1> QED
  BY <1>1, <1>6, <1>10, <1>11, ReleaseStep

\* The steal of an invisible reader frees the lock of a killed transaction.
LEMMA ReadStealStep ==
  ASSUME Inv, Inv', SInv, NEW t \in Thread, build' = build, ReadSteal(t)
  PROVE  SInv'
<1>1. /\ At(t, "steal") /\ tx[t].op = "read" /\ UNCHANGED <<clock, mem, hist>> /\ InCall(t)
      /\ ~At(t, "do_write")
  BY DEF ReadSteal, InCall, CallLabels, At
<1>2. CASE locks[ArgLock(t)] # tx[t].l
  <2>1. Restart(t) /\ Frame
    BY <1>1, <1>2, Zenon DEF ReadSteal, Frame
  <2> QED
    BY <1>1, <2>1, RestartStep
<1>3. CASE locks[ArgLock(t)] = tx[t].l
  <2>1. PICK k0, v, x, u : /\ k0 = ArgLock(t) /\ v = EntryVersion(tx[t].l)
                           /\ x = LOCK_SET_TIMESTAMP(v) /\ u = tx[t].l.owner
    OBVIOUS
  <2>2. /\ v \in Nat /\ Backs(k0, v, 0) /\ ~WriteThrough /\ Modular /\ k0 \in Lock
        /\ locks[k0].owner = u /\ u \in Thread \ {t} /\ Killed(u) /\ NoOwner \notin Thread
    BY <1>1, <1>3, <2>1, StolenVersion, StolenFrom, ArgLockIs, EtlAssumption
  <2>3. x.owner = NoOwner /\ x.n = v /\ x.inc = 0
    BY <2>1 DEF LOCK_SET_TIMESTAMP
  <2>4. Frees(k0, x) /\ Become(t, Forgot(tx[t], x, <<>>), "read_value")
    <3>1. locks' = [locks EXCEPT ![k0] = x] /\ Become(t, Forgot(tx[t], x, <<>>), "read_value")
      BY <1>3, <2>1, Zenon DEF ReadSteal, Forgot
    <3> QED
      BY <2>2, <2>3, <3>1 DEF Frees
  <2>5. locks'[k0] = x /\ \A k \in Lock \ {k0} : locks'[k] = locks[k]
    BY <2>2, <2>4 DEF Frees, Inv, TypeOK
  <2>6. OthersSame(t) /\ tx'[t].pc = "read_value" /\ tx'[t].l = x
        /\ SameBut(tx'[t], tx[t], {"l", "seenStatus", "pc"})
    <3>1. Shape(tx[t]) /\ tx = [y \in Thread |-> tx[y]]
      BY ShapeIs
    <3>2. PICK d : d = Forgot(tx[t], x, <<>>)
      OBVIOUS
    <3>3. SameBut(d, tx[t], {"l", "seenStatus"}) /\ d.l = x
      BY <3>1, <3>2, SetRestart
    <3>4. Become(t, d, "read_value")
      BY <2>4, <3>2, Zenon
    <3>5. /\ Moves(t) /\ tx'[t].pc = "read_value"
          /\ SameBut(tx'[t], tx[t], {"l", "seenStatus"} \cup {"pc"})
          /\ \A f \in Fields \ {"pc"} : tx'[t][f] = d[f]
      BY <3>1, <3>3, <3>4, BecomeBut
    <3>6. {"l", "seenStatus"} \cup {"pc"} = {"l", "seenStatus", "pc"}
      OBVIOUS
    <3> QED
      BY <3>3, <3>5, <3>6, MovesOthers DEF Fields
  <2>7. ReadsKept(tx'[t], tx[t]) /\ tx'[t].op = "read" /\ tx'[t].arg = tx[t].arg
        /\ tx'[t].ts = tx[t].ts /\ tx'[t].value = tx[t].value /\ tx'[t].now = tx[t].now
        /\ tx'[t].todo = tx[t].todo /\ tx'[t].visible_reads = tx[t].visible_reads
    BY <1>1, <2>6 DEF SameBut, Fields, ReadsKept
  <2>8. /\ (Killed(t)' <=> Killed(t)) /\ W(t)' = W(t) /\ (Running(t)' <=> Running(t))
        /\ ~Published(t)' /\ ~Ticketed(t)' /\ ~Stamped(t)' /\ ~Published(t)
        /\ ~At(t, "do_write")' /\ ArgLock(t)' = k0
    <3>1. (Killed(t)' <=> Killed(t)) /\ W(t)' = W(t)
      BY <2>7 DEF Killed, W, ReadsKept
    <3>2. ArgLock(t)' = k0
      BY <2>1, <2>7 DEF ArgLock, LockOf
    <3> QED
      BY <1>1, <2>6, <3>1, <3>2 DEF Running, Published, Ticketed, Stamped, At, CallLabels
  <2>9. LogSame(t)
    <3>1. Held(t) = DOMAIN W(t) /\ Held(t)' = DOMAIN W(t)'
      BY <1>1, <2>6 DEF Held, Releasing, At
    <3> QED
      BY <2>8, <3>1 DEF LogSame
  <2>10. \A k \in Lock, n, c \in Nat : Backs(k, n, c)' =>
           IF k = k0 THEN n = v /\ c = 0 ELSE Backs(k, n, c) /\ locks'[k] = locks[k]
    BY <2>3, <2>4, <2>6, <2>8, <2>9, ReleaseBacks
  <2>11. KeepsBacks(t)
    BY <2>2, <2>10 DEF KeepsBacks
  <2>12. OwnerStep(t)
    <3>1. Killed(u)'
      BY <2>2, <2>6 DEF OthersSame
    <3> QED
      BY <2>2, <2>3, <2>5, <3>1 DEF OwnerStep
  <2>13. LockKinds'
    <3>1. (VisibleBuild' <=> VisibleBuild) /\ (WriteThrough' <=> WriteThrough)
      BY DEF VisibleBuild, Modular, WriteThrough
    <3> QED
      BY <2>3, <2>5, <3>1 DEF SInv, LockKinds, LOCK_GET_OWNED
  <2>14. VersionLocal(t)'
    <3>1. (WriteThrough' <=> WriteThrough) /\ ~At(t, "undo_release")'
      BY <2>6 DEF WriteThrough, At
    <3> QED
      BY <2>8, <3>1 DEF VersionLocal, SInv, VersionInv
  <2>15. TxInv(t)'
    <3>1. ReadTypes(tx[t]) /\ KindOf(t) /\ SnapInv(t) /\ ReadTypes(tx'[t]) /\ ReadTypes(tx[t])'
      BY <2>7 DEF SInv, TxInv, ReadTypes, ReadsKept
    <3>2. ~VisibleBuild
      BY <1>1, <3>1 DEF KindOf, At, CallLabels
    <3>3. KindOf(t)'
      <4>1. (VisibleBuild' <=> VisibleBuild) /\ (Modular' <=> Modular)
            /\ tx'[t].pc \notin FreeLabels
                                   \cup {"app", "write", "upgrade", "do_write", "vread", "own_value"}
        BY <2>6 DEF VisibleBuild, Modular, FreeLabels
      <4> QED
        BY <2>3, <2>6, <2>7, <2>8, <3>1, <3>2, <4>1 DEF KindOf, ReadsKept, At
    <3>4. ReaderInv(t)'
      <4>1. v <= clock
        BY <2>2 DEF SInv, VersionInv
      <4>2. ~At(t, "validate")' /\ ~At(t, "read_recheck")' /\ At(t, "read_value")'
        BY <2>6 DEF At
      <4>3. \A n, c \in Nat : Backs(k0, n, c)' => x.n < n \/ (x.n = n /\ x.inc <= c)
        BY <2>2, <2>3, <2>10
      <4> QED
        BY <1>1, <2>3, <2>6, <2>8, <4>1, <4>2, <4>3 DEF ReaderInv
    <3>5. SnapInv(t)'
      <4> SUFFICES ASSUME Running(t)', ~tx'[t].ro PROVE SnapInv(t)'
        BY DEF SnapInv
      <4>1. SnapBase(t)
        BY <2>7, <2>8, <3>1 DEF SnapInv, SnapBase, ReadsKept
      <4>2. \A k \in Lock : locks[k].owner = t => locks'[k].owner = t
        BY <2>2, <2>5
      <4>3. \A o \in tx[t].obs : LockOf[o.addr] \in Lock
        BY <3>1, BuildIs DEF ReadTypes, Observation, Inv, TypeOK
      <4>4. \A k \in Lock : locks'[k].owner = t => locks[k].owner = t
        BY <2>2, <2>3, <2>5
      <4>5. SnapBase(t)'
        BY <1>1, <2>6, <2>7, <3>1, <4>1, <4>2, <4>3, <4>4, SnapOwned DEF ReadsKept
      <4> QED
        BY <2>6, <2>8, <4>5 DEF SnapInv, SnapBase, At
    <3> QED
      BY <2>8, <3>1, <3>3, <3>4, <3>5 DEF TxInv, SerialInv
  <2> QED
    BY <1>1, <2>6, <2>8, <2>11, <2>12, <2>13, <2>14, <2>15, LockStep
       DEF MemStep, KeepsPublished, KeepsStamp, TicketStep
<1> QED
  BY <1>2, <1>3

-----------------------------------------------------------------------------
(***************************************************************************)
(* The moment of publication                                               *)
(***************************************************************************)
\* A transaction may publish at timestamp v: nothing under its locks is as
\* new, and what it has read is the state before v.
Ready(t, v) ==
  /\ tx[t].pc \in {"validate", "commit_clock"} /\ InCommit(t) /\ ~Killed(t)
  /\ v \in Nat /\ v > 0 /\ v <= clock' /\ (v > clock \/ (Ticketed(t) /\ v = tx[t].ts))
  /\ \A h \in hist : locks[LockOf[h.addr]].owner = t => h.ts < v
  /\ \A k \in Lock, n, c \in Nat : Backs(k, n, c) /\ locks[k].owner = t => n < v
  /\ \A r \in tx[t].r_set :
       r.version <= v - 1 /\ (locks[r.lock].owner # t => Still(t, r, v - 1))
  /\ \A o \in tx[t].obs : Vouched(t, o)

\* One of the entries of a lock gives it back.
LEMMA Dropping ==
  ASSUME Inv, NEW t \in Thread, Ticketed(t), NEW k \in Lock, locks[k].owner = t
  PROVE  \E j \in Held(t) : LockAt(t, j) = k /\ ~W(t)[j].no_drop
<1>1. Held(t) = DOMAIN W(t) /\ ~At(t, "do_write")
  BY DEF Held, Releasing, Ticketed, At
<1>2. \E j \in DOMAIN W(t) : LockAt(t, j) = k
  BY <1>1 DEF Inv, LockInv, OwnerHolds, OwnerHoldsOf
<1>3. CASE ~WriteThrough
  BY <1>1, <1>2, <1>3 DEF Inv, LockInv, LinksForward, LinksForwardOf
<1>4. CASE WriteThrough
  <2> DEFINE T == {j \in DOMAIN W(t) : LockAt(t, j) = k}
  <2>1. T \in SUBSET Nat /\ T # {}
    BY <1>2, LogSize
  <2>2. PICK j \in T : \A h \in T : j <= h
    BY <2>1, LeastNat
  <2>3. \A h \in DOMAIN W(t) : ~(h < j /\ LockAt(t, h) = LockAt(t, j))
    BY <2>1, <2>2
  <2>4. ~W(t)[j].no_drop
    <3>1. FirstDropsOf(t)
      BY DEF Inv, LockInv, FirstDrops
    <3> QED
      BY <1>4, <2>2, <2>3, <3>1 DEF FirstDropsOf
  <2> QED
    BY <1>1, <2>2, <2>4
<1> QED
  BY <1>3, <1>4

LEMMA CommitRuns ==
  ASSUME Inv, SInv, NEW t \in Thread, At(t, "commit_clock") \/ Ticketed(t)
  PROVE  /\ InCommit(t) /\ ~Killed(t) /\ Running(t) /\ ~tx[t].ro /\ SnapInv(t) /\ ReadTypes(tx[t])
         /\ tx[t].pc \in {"validate", "commit_clock"}
<1>1. InCommit(t) /\ tx[t].pc \in {"validate", "commit_clock"}
  BY DEF InCommit, CommitLabels, Ticketed, At
<1>2. ~Killed(t) /\ LocalOK(t)
  BY <1>1, NotKilled DEF Inv, LocalInv
<1>3. Running(t) /\ W(t) # <<>>
  BY <1>1, <1>2 DEF Running, LocalOK, TicketPhase, Ticketed, At
<1> QED
  BY <1>1, <1>2, <1>3 DEF SInv, TxInv, KindOf

\* Nobody has committed since the transaction began.
LEMMA DirectReady ==
  ASSUME Inv, SInv, NEW t \in Thread, At(t, "commit_clock"), tx[t].start = clock,
         clock' = clock + 1
  PROVE  Ready(t, clock + 1)
<1>1. /\ InCommit(t) /\ ~Killed(t) /\ Running(t) /\ ~tx[t].ro /\ SnapInv(t) /\ ReadTypes(tx[t])
      /\ tx[t].pc \in {"validate", "commit_clock"}
  BY CommitRuns
<1>2. clock \in Nat /\ tx[t].end = clock
  BY <1>1 DEF Inv, TypeOK, SnapInv, ReadTypes
<1>3. PICK v : v = clock + 1
  OBVIOUS
<1>4. v \in Nat /\ v > 0 /\ v > clock /\ v - 1 = clock
  BY <1>2, <1>3
<1>5. \A h \in hist : h.ts < v
  <2>1. \A h \in hist : h.ts \in Nat /\ h.ts <= clock
    BY DEF Inv, TypeOK, HistoryInv
  <2> QED
    BY <1>2, <1>4, <2>1
<1>6. \A k \in Lock, n, c \in Nat : Backs(k, n, c) => n < v
  <2>1. \A k \in Lock, n, c \in Nat : Backs(k, n, c) => n <= clock
    BY DEF SInv, VersionInv
  <2> QED
    BY <1>2, <1>4, <2>1
<1>7. /\ \A r \in tx[t].r_set : r.version <= v - 1 /\ (locks[r.lock].owner # t => Still(t, r, v - 1))
      /\ \A o \in tx[t].obs : Vouched(t, o)
  BY <1>1, <1>2, <1>4 DEF SnapInv
<1>8. v <= clock'
  BY <1>2, <1>3
<1>9. Ready(t, v)
  BY <1>1, <1>4, <1>5, <1>6, <1>7, <1>8 DEF Ready
<1> QED
  BY <1>3, <1>9

\* Every entry of the read set has been validated.
LEMMA TicketReady ==
  ASSUME Inv, SInv, NEW t \in Thread, Ticketed(t), tx[t].todo = {}, clock' = clock
  PROVE  Ready(t, tx[t].ts)
<1>1. /\ InCommit(t) /\ ~Killed(t) /\ Running(t) /\ ~tx[t].ro /\ SnapInv(t) /\ ReadTypes(tx[t])
      /\ tx[t].pc \in {"validate", "commit_clock"}
  BY CommitRuns
<1>2. PICK v : v = tx[t].ts
  OBVIOUS
<1>3. Stamped(t) /\ v \in Nat /\ v > 0 /\ v <= clock
  <2>1. Stamped(t) /\ v \in Nat /\ v # 0
    BY <1>2 DEF Stamped, Ticketed, Inv, TypeOK, TxTypes
  <2>2. v <= clock
    BY <1>2, <2>1 DEF SInv, VersionInv
  <2> QED
    BY <2>1, <2>2
<1>4. \A k \in Lock, n, c \in Nat : Backs(k, n, c) /\ locks[k].owner = t => n < v
  BY <1>2, <1>3 DEF SInv, VersionInv
<1>5. ASSUME NEW h \in hist, locks[LockOf[h.addr]].owner = t PROVE h.ts < v
  <2>1. PICK k : k = LockOf[h.addr]
    OBVIOUS
  <2>2. k \in Lock /\ h.ts \in Nat
    BY <2>1, BuildIs DEF Inv, TypeOK
  <2>3. PICK j \in Held(t) : LockAt(t, j) = k /\ ~W(t)[j].no_drop
    BY <1>5, <2>1, <2>2, Dropping
  <2>4. ~Published(t)
    BY DEF Published, Ticketed, At
  <2>5. Covers(k, W(t)[j].version) /\ W(t)[j].version < v /\ W(t)[j].version \in Nat
    BY <1>1, <1>2, <1>3, <1>5, <2>1, <2>3, <2>4, EntryGives
  <2> QED
    BY <1>3, <2>1, <2>2, <2>5 DEF Covers
<1>6. \A r \in tx[t].r_set : r.version <= v - 1 /\ (locks[r.lock].owner # t => Still(t, r, v - 1))
  <2>1. \A r \in tx[t].r_set : r.version \in Nat /\ r.version <= tx[t].end
    BY <1>1 DEF SnapInv, ReadTypes, ReadEntry
  <2>2. tx[t].end < v /\ tx[t].end \in Nat
    BY <1>1, <1>2 DEF SnapInv, ReadTypes
  <2>3. \A r \in tx[t].r_set : locks[r.lock].owner # t => Still(t, r, v - 1)
    BY <1>1, <1>2 DEF SnapInv
  <2> QED
    BY <1>3, <2>1, <2>2, <2>3
<1>7. \A o \in tx[t].obs : Vouched(t, o)
  BY <1>1 DEF SnapInv
<1>8. v <= clock'
  BY <1>3
<1>9. Ready(t, v)
  BY <1>1, <1>2, <1>3, <1>4, <1>5, <1>6, <1>7, <1>8 DEF Ready
<1> QED
  BY <1>2, <1>9

\* What is new in the history.
Publishes(t, v) ==
  /\ hist \subseteq hist'
  /\ \A g \in hist' \ hist :
       /\ g.ts = v /\ locks[LockOf[g.addr]].owner = t
       /\ \E j \in DOMAIN W(t) : LockAt(t, j) = LockOf[g.addr]
  /\ \A g, h \in hist' \ hist : g.addr = h.addr => g = h

LEMMA InstalledIs ==
  ASSUME Inv, NEW t \in Thread, NEW v, tx[t].pc \in {"validate", "commit_clock"}, ~Killed(t),
         hist' = hist \cup Installed(t, v)
  PROVE  Publishes(t, v)
<1>1. Held(t) = DOMAIN W(t)
  BY DEF Held, Releasing, At
<1>2. \A j \in DOMAIN W(t) : locks[LockAt(t, j)].owner = t
  BY <1>1 DEF Inv, LockInv, HolderOwns, HolderOwnsOf
<1>3. \A g \in Installed(t, v) :
        /\ g.ts = v /\ g.value = Final(t, g.addr) /\ g = [ts |-> v, addr |-> g.addr, value |-> g.value]
        /\ \E j \in DOMAIN W(t) : LockAt(t, j) = LockOf[g.addr]
  <2> SUFFICES ASSUME NEW g \in Installed(t, v)
               PROVE  /\ g.ts = v /\ g.value = Final(t, g.addr)
                      /\ g = [ts |-> v, addr |-> g.addr, value |-> g.value]
                      /\ \E j \in DOMAIN W(t) : LockAt(t, j) = LockOf[g.addr]
    OBVIOUS
  <2>1. PICK j \in DOMAIN W(t) : g = [ts |-> v, addr |-> W(t)[j].addr, value |-> Final(t, W(t)[j].addr)]
    BY DEF Installed, W
  <2> QED
    BY <2>1 DEF LockAt, W
<1>4. \A g \in hist' \ hist : g \in Installed(t, v)
  OBVIOUS
<1>5. \A g \in hist' \ hist : locks[LockOf[g.addr]].owner = t
  BY <1>2, <1>3, <1>4
<1>6. \A g, h \in hist' \ hist : g.addr = h.addr => g = h
  <2> SUFFICES ASSUME NEW g \in hist' \ hist, NEW h \in hist' \ hist, g.addr = h.addr
               PROVE  g = h
    OBVIOUS
  <2>1. g.value = Final(t, g.addr) /\ h.value = Final(t, h.addr)
        /\ g = [ts |-> v, addr |-> g.addr, value |-> g.value]
        /\ h = [ts |-> v, addr |-> h.addr, value |-> h.value]
    BY <1>3, <1>4
  <2>2. g.value = h.value
    BY <2>1
  <2> HIDE DEF Final
  <2> QED
    BY <2>1, <2>2
<1> QED
  BY <1>3, <1>4, <1>5, <1>6 DEF Publishes

\* The descriptor after the publication.
PublishedAs(t, v) ==
  /\ OthersSame(t) /\ tx'[t].pc \in {"write_back", "release"} /\ tx'[t].ts = v
  /\ SameBut(tx'[t], tx[t], {"ts", "i", "pc"})

LEMMA PublishedIs ==
  ASSUME Inv, NEW t \in Thread, NEW v, Publish(t, tx[t], v)
  PROVE  PublishedAs(t, v) /\ hist' = hist \cup Installed(t, v)
<1>1. PICK n, lab, d : /\ n = IF WriteThrough THEN Len(tx[t].w_set) ELSE 1
                       /\ lab = IF WriteThrough THEN "release" ELSE "write_back"
                       /\ d = Publishing(tx[t], v, n)
  OBVIOUS
<1>2. Become(t, d, lab) /\ hist' = hist \cup Installed(t, v)
  BY <1>1, Zenon DEF Publish, Publishing
<1>3. Shape(tx[t]) /\ tx = [u \in Thread |-> tx[u]]
  BY ShapeIs
<1>4. SameBut(d, tx[t], {"ts", "i"}) /\ d.ts = v
  BY <1>1, <1>3, SetPublished
<1>5. /\ Moves(t) /\ tx'[t].pc = lab /\ SameBut(tx'[t], tx[t], {"ts", "i"} \cup {"pc"})
      /\ \A f \in Fields \ {"pc"} : tx'[t][f] = d[f]
  BY <1>2, <1>3, <1>4, BecomeBut
<1>6. {"ts", "i"} \cup {"pc"} = {"ts", "i", "pc"}
  OBVIOUS
<1>7. tx'[t].ts = v
  BY <1>4, <1>5 DEF Fields
<1>8. lab \in {"write_back", "release"}
  BY <1>1
<1> QED
  BY <1>2, <1>5, <1>6, <1>7, <1>8, MovesOthers DEF PublishedAs

LEMMA PublishFacts ==
  ASSUME Inv, NEW t \in Thread, build' = build, NEW v, v # 0,
         tx[t].pc \in {"validate", "commit_clock"}, PublishedAs(t, v)
  PROVE  /\ W(t)' = W(t) /\ LogSame(t) /\ ~Published(t) /\ Published(t)' /\ ~Ticketed(t)'
         /\ Stamped(t)' /\ ~At(t, "undo_release")' /\ ~Reading(t)' /\ ~Running(t)'
         /\ tx'[t].pc \notin FreeLabels \cup CallLabels \cup {"app"}
         /\ tx'[t].obs = tx[t].obs /\ ~At(t, "drop_reads")'
<1>1. W(t)' = W(t) /\ (Killed(t)' <=> Killed(t)) /\ tx'[t].obs = tx[t].obs
  BY DEF PublishedAs, SameBut, Fields, W, Killed
<1>2. Held(t) = DOMAIN W(t) /\ Held(t)' \subseteq DOMAIN W(t)'
  BY DEF Held, Releasing, At
<1>3. /\ ~Published(t) /\ Published(t)' /\ ~Ticketed(t)' /\ ~At(t, "undo_release")' /\ ~Reading(t)'
      /\ ~Running(t)' /\ tx'[t].pc \notin FreeLabels \cup CallLabels \cup {"app"}
      /\ ~At(t, "drop_reads")'
  BY DEF PublishedAs, Published, Ticketed, At, Reading, ReadLabels, Running, CallLabels, FreeLabels
<1>4. LogSame(t)
  BY <1>1, <1>2, <1>3 DEF LogSame, At, CallLabels
<1>5. Stamped(t)'
  BY <1>3 DEF Stamped, PublishedAs
<1> QED
  BY <1>1, <1>3, <1>4, <1>5

LEMMA PublishShared ==
  ASSUME Inv, NEW t \in Thread, build' = build, UNCHANGED <<locks, mem>>,
         clock' \in {clock, clock + 1}, NEW v, Ready(t, v), Publishes(t, v), PublishedAs(t, v)
  PROVE  SharedStep(t) /\ \A k \in Lock, n, c \in Nat : Backs(k, n, c)' => Backs(k, n, c)
<1>1. /\ v # 0 /\ v \in Nat /\ tx[t].pc \in {"validate", "commit_clock"}
      /\ (v > clock \/ (Ticketed(t) /\ v = tx[t].ts))
  BY DEF Ready
<1>2. LogSame(t) /\ ~Published(t) /\ ~Ticketed(t)' /\ OthersSame(t)
  BY <1>1, PublishFacts DEF PublishedAs
<1>3. \A k \in Lock, n, c \in Nat : Backs(k, n, c)' => Backs(k, n, c)
  BY <1>2, FrameBacks DEF LogKept
<1>4. HistStep(t)
  BY <1>1 DEF HistStep, Publishes
<1>5. clock \in Nat /\ clock' \in Nat /\ clock <= clock'
  BY DEF Inv, TypeOK
<1>6. BacksStep(t)
  BY <1>2, <1>3 DEF BacksStep, LOCK_GET_OWNED
<1> QED
  BY <1>2, <1>3, <1>4, <1>5, <1>6 DEF SharedStep, TicketStep, OwnerStep, MemStep

LEMMA PublishVersions ==
  ASSUME Inv, Inv', SInv, NEW t \in Thread, build' = build, UNCHANGED <<locks, mem>>,
         clock' \in {clock, clock + 1}, NEW v, Ready(t, v), Publishes(t, v), PublishedAs(t, v)
  PROVE  VersionInv'
<1>1. /\ v # 0 /\ v \in Nat /\ tx[t].pc \in {"validate", "commit_clock"} /\ v <= clock'
      /\ tx'[t].ts = v /\ OthersSame(t)
  BY DEF Ready, PublishedAs
<1>2. /\ W(t)' = W(t) /\ ~Published(t) /\ Published(t)' /\ ~At(t, "undo_release")'
  BY <1>1, PublishFacts
<1>3. /\ \A k \in Lock, n, c \in Nat : Backs(k, n, c)' => Backs(k, n, c)
      /\ clock \in Nat /\ clock' \in Nat /\ clock <= clock'
  BY PublishShared DEF SharedStep
<1>4. \A u \in Thread \ {t} : SamePlace(u) /\ SamePosition(u)
  BY <1>1, OtherPlace
<1>5. \A u \in Thread \ {t} :
        /\ (Published(u)' <=> Published(u)) /\ (Stamped(u)' <=> Stamped(u)) /\ tx'[u].ts = tx[u].ts
        /\ (At(u, "undo_release")' <=> At(u, "undo_release")) /\ W(u)' = W(u) /\ tx'[u].i = tx[u].i
  <2> SUFFICES ASSUME NEW u \in Thread \ {t}
               PROVE  /\ (Published(u)' <=> Published(u)) /\ (Stamped(u)' <=> Stamped(u))
                      /\ tx'[u].ts = tx[u].ts
                      /\ (At(u, "undo_release")' <=> At(u, "undo_release"))
                      /\ W(u)' = W(u) /\ tx'[u].i = tx[u].i
    OBVIOUS
  <2>1. SamePlace(u) /\ SamePosition(u)
    BY <1>4
  <2>2. tx'[u].ts = tx[u].ts /\ tx'[u].pc = tx[u].pc /\ tx'[u].i = tx[u].i
    BY <2>1 DEF SamePlace
  <2>3. (Published(u)' <=> Published(u)) /\ (Ticketed(u)' <=> Ticketed(u)) /\ W(u)' = W(u)
        /\ (At(u, "undo_release")' <=> At(u, "undo_release"))
    BY <2>1 DEF SamePosition
  <2>4. Stamped(u)' <=> Stamped(u)
    BY <2>2, <2>3 DEF Stamped
  <2> QED
    BY <2>2, <2>3, <2>4
<1>6. \A h \in hist : h.ts \in Nat
  BY DEF Inv, TypeOK
<1>7. ASSUME NEW k \in Lock, NEW w, Covers(k, w), locks[k].owner # t PROVE Covers(k, w)'
  <2>1. \A h \in hist' : LockOf[h.addr] = k => h \in hist
    BY <1>7 DEF Publishes
  <2> QED
    BY <1>7, <2>1 DEF Covers, LockOf
<1>8. ASSUME NEW k \in Lock, NEW n \in Nat, NEW c \in Nat, Backs(k, n, c)'
      PROVE  /\ n <= clock'
             /\ Covers(k, n)' \/ \E u \in Thread :
                  Published(u)' /\ locks'[k].owner = u /\ Covers(k, tx[u].ts)'
             /\ \A u \in Thread : Stamped(u)' /\ locks'[k].owner = u => n < tx'[u].ts
  <2>1. Backs(k, n, c)
    BY <1>3, <1>8
  <2>2. /\ n <= clock
        /\ Covers(k, n) \/ \E u \in Thread : Published(u) /\ locks[k].owner = u /\ Covers(k, tx[u].ts)
        /\ \A u \in Thread : Stamped(u) /\ locks[k].owner = u => n < tx[u].ts
    BY <2>1 DEF SInv, VersionInv
  <2>3. n <= clock'
    BY <1>3, <2>2
  <2>4. ASSUME NEW u \in Thread, Stamped(u)', locks'[k].owner = u PROVE n < tx'[u].ts
    <3>1. CASE u = t
      BY <1>1, <2>1, <2>4, <3>1 DEF Ready
    <3>2. CASE u # t
      BY <1>5, <2>2, <2>4, <3>2
    <3> QED
      BY <3>1, <3>2
  <2>5. CASE locks[k].owner = t
    <3>1. Covers(k, v)'
      <4>1. \A h \in hist : LockOf[h.addr] = k => h.ts <= v
        BY <1>1, <1>6, <2>5 DEF Ready
      <4>2. \A h \in hist' \ hist : h.ts <= v
        BY <1>1 DEF Publishes
      <4> QED
        BY <4>1, <4>2 DEF Covers, LockOf
    <3>2. Published(t)' /\ locks'[k].owner = t /\ Covers(k, tx[t].ts)'
      BY <1>1, <1>2, <2>5, <3>1 DEF Covers
    <3> QED
      BY <2>3, <2>4, <3>2
  <2>6. CASE locks[k].owner # t
    <3>1. CASE Covers(k, n)
      BY <1>7, <2>3, <2>4, <2>6, <3>1
    <3>2. CASE \E u \in Thread : Published(u) /\ locks[k].owner = u /\ Covers(k, tx[u].ts)
      <4>1. PICK u \in Thread : Published(u) /\ locks[k].owner = u /\ Covers(k, tx[u].ts)
        BY <3>2
      <4>2. PICK w : w = tx[u].ts
        OBVIOUS
      <4>3. Covers(k, w)' /\ tx'[u].ts = w /\ Published(u)' /\ locks'[k].owner = u
        BY <1>5, <1>7, <2>6, <4>1, <4>2
      <4>4. Covers(k, tx[u].ts)'
        BY <4>3 DEF Covers
      <4> QED
        BY <2>3, <2>4, <4>3, <4>4
    <3> QED
      BY <2>2, <3>1, <3>2
  <2> QED
    BY <2>5, <2>6
<1>9. \A u \in Thread : Stamped(u)' => tx'[u].ts <= clock'
  <2> SUFFICES ASSUME NEW u \in Thread, Stamped(u)' PROVE tx'[u].ts <= clock'
    OBVIOUS
  <2>1. CASE u = t
    BY <1>1, <2>1
  <2>2. CASE u # t
    <3>1. tx[u].ts \in Nat /\ tx[u].ts <= clock /\ tx'[u].ts = tx[u].ts
      BY <1>5, <2>2 DEF SInv, VersionInv, Inv, TypeOK, TxTypes
    <3> QED
      BY <1>3, <3>1
  <2> QED
    BY <2>1, <2>2
<1>10. \A u \in Thread : Published(u)' => tx'[u].ts # 0
  BY <1>1, <1>5 DEF SInv, VersionInv
<1>11. \A u \in Thread : At(u, "undo_release")' /\ W(u)'[tx'[u].i].inc = build'.INCARNATION_MAX
                           => tx'[u].ts # 0
  BY <1>2, <1>5 DEF SInv, VersionInv
<1>12. \A u \in Thread : \A j \in DOMAIN W(u)' : ~WriteThrough' => W(u)'[j].inc = 0
  <2>1. \A u \in Thread : W(u)' = W(u)
    BY <1>2, <1>5
  <2>2. WriteThrough' <=> WriteThrough
    BY DEF WriteThrough
  <2> QED
    BY <2>1, <2>2 DEF SInv, VersionInv
<1> QED
  BY <1>8, <1>9, <1>10, <1>11, <1>12 DEF VersionInv

\* A word that the lock of t vouches for.
LEMMA PublishOwned ==
  ASSUME Inv, NEW t \in Thread, build' = build, NEW v, Ready(t, v), Publishes(t, v),
         PublishedAs(t, v), NEW o \in Observation,
         locks[LockOf[o.addr]].owner = t, Latest(o.addr, o.value)
  PROVE  /\ IsValueAt(o.addr, v - 1, o.value)'
         /\ \A u \in Thread \ {t} : Ticketed(u) =>
              \A j \in DOMAIN W(u) : LockAt(u, j) # LockOf[o.addr]
<1>1. v \in Nat /\ v > 0 /\ (\A h \in hist : h.ts \in Nat)
  BY DEF Ready, Inv, TypeOK
<1>2. PICK h \in hist : /\ h.addr = o.addr /\ h.value = o.value
                        /\ \A g \in hist : g.addr = o.addr => g.ts <= h.ts
  BY DEF Latest
<1>3. h.ts <= v - 1
  <2>1. h.ts < v /\ h.ts \in Nat
    BY <1>1, <1>2 DEF Ready
  <2> QED
    BY <1>1, <2>1
<1>4. \A g \in hist' : g.addr = o.addr /\ g.ts <= v - 1 => g.ts <= h.ts
  <2> SUFFICES ASSUME NEW g \in hist', g.addr = o.addr, g.ts <= v - 1 PROVE g.ts <= h.ts
    OBVIOUS
  <2>1. g \in hist
    BY <1>1 DEF Publishes
  <2> QED
    BY <1>2, <2>1
<1>5. h \in hist'
  BY DEF Publishes
<1>6. IsValueAt(o.addr, v - 1, o.value)'
  BY <1>2, <1>3, <1>4, <1>5 DEF IsValueAt
<1>7. ASSUME NEW u \in Thread \ {t}, Ticketed(u), NEW j \in DOMAIN W(u), LockAt(u, j) = LockOf[o.addr]
      PROVE  FALSE
  <2>1. ~Killed(u) /\ j \in Held(u)
    BY <1>7, NotKilled DEF InCommit, Ticketed, Held, Releasing, At
  <2>2. locks[LockAt(u, j)].owner = u
    BY <2>1 DEF Inv, LockInv, HolderOwns, HolderOwnsOf
  <2> QED
    BY <1>7, <2>2
<1> QED
  BY <1>6, <1>7

\* A word that an entry of the read set vouches for.
LEMMA PublishRead ==
  ASSUME Inv, SInv, NEW t \in Thread, build' = build, NEW v, Ready(t, v), Publishes(t, v),
         NEW o \in Observation, NEW r \in tx[t].r_set, locks[LockOf[o.addr]].owner # t,
         r.lock = LockOf[o.addr], IsValueAt(o.addr, r.version, o.value)
  PROVE  /\ IsValueAt(o.addr, v - 1, o.value)'
         /\ \A u \in Thread \ {t} : Ticketed(u) /\ tx[u].ts < v =>
              \A j \in DOMAIN W(u) : LockAt(u, j) # LockOf[o.addr]
<1>1. v \in Nat /\ v > 0 /\ (\A h \in hist : h.ts \in Nat)
  BY DEF Ready, Inv, TypeOK
<1>2. r.version <= v - 1 /\ Still(t, r, v - 1) /\ r.version \in Nat
  BY DEF Ready, SInv, TxInv, ReadTypes, ReadEntry
<1>3. PICK h \in hist : /\ h.addr = o.addr /\ h.ts <= r.version /\ h.value = o.value
                        /\ \A g \in hist : g.addr = o.addr /\ g.ts <= r.version => g.ts <= h.ts
  BY DEF IsValueAt
<1>4. \A g \in hist' : g.addr = o.addr /\ g.ts <= v - 1 => g.ts <= h.ts
  <2> SUFFICES ASSUME NEW g \in hist', g.addr = o.addr, g.ts <= v - 1 PROVE g.ts <= h.ts
    OBVIOUS
  <2>1. g \in hist
    BY <1>1 DEF Publishes
  <2>2. g.ts <= r.version
    BY <1>2, <2>1 DEF Still
  <2> QED
    BY <1>3, <2>1, <2>2
<1>5. h \in hist' /\ h.ts <= v - 1
  BY <1>1, <1>2, <1>3 DEF Publishes
<1>6. IsValueAt(o.addr, v - 1, o.value)'
  BY <1>3, <1>4, <1>5 DEF IsValueAt
<1>7. \A u \in Thread \ {t} : Ticketed(u) /\ tx[u].ts < v => tx[u].ts <= v - 1
  <2>1. \A u \in Thread : tx[u].ts \in Nat
    BY DEF Inv, TypeOK, TxTypes
  <2> QED
    BY <1>1, <2>1
<1> QED
  BY <1>2, <1>6, <1>7 DEF Still

LEMMA PublishSerial ==
  ASSUME Inv, SInv, NEW t \in Thread, build' = build, NEW v, Ready(t, v), Publishes(t, v),
         PublishedAs(t, v)
  PROVE  SerialInv(t)'
<1>1. tx[t].obs \in SUBSET Observation /\ v # 0 /\ tx[t].pc \in {"validate", "commit_clock"}
      /\ tx'[t].ts = v /\ OthersSame(t)
  BY DEF SInv, TxInv, ReadTypes, Ready, PublishedAs
<1>2. tx'[t].obs = tx[t].obs
  BY <1>1, PublishFacts
<1>3. ASSUME NEW o \in tx[t].obs
      PROVE  /\ IsValueAt(o.addr, v - 1, o.value)'
             /\ \A u \in Thread \ {t} : Ticketed(u) /\ tx[u].ts < v =>
                  \A j \in DOMAIN W(u) : LockAt(u, j) # LockOf[o.addr]
  <2>1. o \in Observation /\ Vouched(t, o)
    BY <1>1 DEF Ready
  <2>2. CASE locks[LockOf[o.addr]].owner = t
    <3>1. Latest(o.addr, o.value)
      BY <2>1, <2>2 DEF Vouched
    <3> QED
      BY <2>1, <2>2, <3>1, PublishOwned
  <2>3. CASE locks[LockOf[o.addr]].owner # t
    <3>1. PICK r \in tx[t].r_set : r.lock = LockOf[o.addr] /\ IsValueAt(o.addr, r.version, o.value)
      BY <2>1, <2>3 DEF Vouched
    <3> QED
      BY <2>1, <2>3, <3>1, PublishRead
  <2> QED
    BY <2>2, <2>3
<1>4. ASSUME NEW o \in tx[t].obs
      PROVE  /\ IsValueAt(o.addr, tx[t].ts - 1, o.value)'
             /\ \A u \in Thread \ {t} : Ticketed(u)' /\ tx'[u].ts < tx'[t].ts =>
                  \A j \in DOMAIN W(u)' : LockAt(u, j)' # LockOf'[o.addr]
  <2>1. IsValueAt(o.addr, tx[t].ts - 1, o.value)'
    BY <1>1, <1>3 DEF IsValueAt
  <2>2. ASSUME NEW u \in Thread \ {t}, Ticketed(u)', tx'[u].ts < tx'[t].ts, NEW j \in DOMAIN W(u)'
        PROVE  LockAt(u, j)' # LockOf'[o.addr]
    <3>1. SamePlace(u) /\ SamePosition(u)
      BY <1>1, OtherPlace
    <3>2. Ticketed(u) /\ tx[u].ts < v /\ j \in DOMAIN W(u) /\ LockAt(u, j)' = LockAt(u, j)
      BY <1>1, <2>2, <3>1 DEF SamePlace, SamePosition
    <3>3. LockOf' = LockOf
      BY DEF LockOf
    <3> QED
      BY <1>3, <3>2, <3>3
  <2> QED
    BY <2>1, <2>2
<1> QED
  BY <1>2, <1>4 DEF SerialInv

LEMMA PublishStep ==
  ASSUME Inv, Inv', SInv, NEW t \in Thread, build' = build, UNCHANGED <<locks, mem>>,
         clock' \in {clock, clock + 1}, NEW v, Ready(t, v), Publish(t, tx[t], v)
  PROVE  SInv'
<1>1. PublishedAs(t, v) /\ hist' = hist \cup Installed(t, v)
  BY PublishedIs
<1>2. /\ v # 0 /\ v \in Nat /\ tx[t].pc \in {"validate", "commit_clock"} /\ ~Killed(t)
  BY DEF Ready
<1>3. Publishes(t, v)
  BY <1>1, <1>2, InstalledIs
<1>4. /\ W(t)' = W(t) /\ ~Published(t) /\ Published(t)' /\ ~Ticketed(t)' /\ ~Reading(t)' /\ ~Running(t)'
      /\ tx'[t].pc \notin FreeLabels \cup CallLabels \cup {"app"} /\ ~At(t, "drop_reads")'
  BY <1>1, <1>2, PublishFacts
<1>5. SharedStep(t)
  BY <1>1, <1>3, PublishShared
<1>6. VersionInv'
  BY <1>1, <1>3, PublishVersions
<1>7. HistoryUnique'
  <2> SUFFICES ASSUME NEW g \in hist', NEW h \in hist', g.addr = h.addr, g.ts = h.ts PROVE g = h
    BY DEF HistoryUnique
  <2>1. \A x \in hist : x.ts \in Nat
    BY DEF Inv, TypeOK
  <2>2. ASSUME NEW x \in hist, NEW y \in hist' \ hist, x.addr = y.addr, x.ts = y.ts PROVE FALSE
    <3>1. y.ts = v /\ locks[LockOf[y.addr]].owner = t
      BY <1>3 DEF Publishes
    <3>2. x.ts < v /\ x.ts \in Nat
      BY <2>1, <2>2, <3>1 DEF Ready
    <3> QED
      BY <1>2, <2>2, <3>1, <3>2
  <2>3. CASE g \in hist /\ h \in hist
    BY <2>3 DEF SInv, HistoryUnique
  <2>4. CASE g \notin hist /\ h \notin hist
    BY <1>3, <2>4 DEF Publishes
  <2> QED
    BY <2>2, <2>3, <2>4
<1>8. LockKinds'
  <2>1. (VisibleBuild' <=> VisibleBuild) /\ (WriteThrough' <=> WriteThrough)
    BY DEF VisibleBuild, Modular, WriteThrough
  <2> QED
    BY <2>1 DEF SInv, LockKinds, LOCK_GET_OWNED
<1>9. TxInv(t)'
  <2>1. /\ tx'[t].start = tx[t].start /\ tx'[t].end = tx[t].end /\ tx'[t].now = tx[t].now
        /\ tx'[t].r_set = tx[t].r_set /\ tx'[t].todo = tx[t].todo /\ tx'[t].obs = tx[t].obs
        /\ tx'[t].visible_reads = tx[t].visible_reads /\ tx'[t].has_writes = tx[t].has_writes
        /\ tx'[t].value = tx[t].value /\ tx'[t].op = tx[t].op /\ tx'[t].w_set = tx[t].w_set
        /\ tx'[t].ro = tx[t].ro
    BY <1>1 DEF PublishedAs, SameBut, Fields
  <2>2. KindOf(t) /\ ReadTypes(tx[t])
    BY DEF SInv, TxInv
  <2>3. ReadTypes(tx[t])'
    BY <2>1, <2>2 DEF ReadTypes
  <2>4. KindOf(t)'
    <3>1. (VisibleBuild' <=> VisibleBuild) /\ (Modular' <=> Modular)
      BY DEF VisibleBuild, Modular
    <3> QED
      BY <1>4, <2>1, <2>2, <3>1 DEF KindOf, At, CallLabels, W
  <2>5. SerialInv(t)'
    BY <1>1, <1>3, PublishSerial
  <2> QED
    BY <1>4, <2>3, <2>4, <2>5 DEF TxInv, ReaderInv, SnapInv
<1>10. \A u \in Thread : TxInv(u)'
  <2>1. \A u \in Thread \ {t} : TxInv(u)'
    BY <1>5, OthersKept
  <2> QED
    BY <1>9, <2>1
<1> QED
  BY <1>6, <1>7, <1>8, <1>10 DEF SInv

LEMMA CommitClockStep ==
  ASSUME Inv, Inv', SInv, NEW t \in Thread, build' = build, CommitClock(t)
  PROVE  SInv'
<1>1. At(t, "commit_clock") /\ clock' = clock + 1 /\ UNCHANGED <<locks, mem>>
  BY DEF CommitClock
<1>2. CASE tx[t].start = clock
  <2>1. PICK v : v = clock + 1
    OBVIOUS
  <2>2. Publish(t, tx[t], v)
    BY <1>2, <2>1, Zenon DEF CommitClock
  <2>3. Ready(t, v)
    BY <1>1, <1>2, <2>1, DirectReady
  <2> QED
    BY <1>1, <2>2, <2>3, PublishStep
<1>3. CASE tx[t].start # clock
  <2>1. /\ Become(t, [tx[t] EXCEPT !.ts = clock + 1, !.todo = tx[t].r_set], "validate")
        /\ UNCHANGED hist
    BY <1>3, Zenon DEF CommitClock
  <2> QED
    BY <1>1, <2>1, TicketClockStep
<1> QED
  BY <1>2, <1>3

LEMMA CommitValidStep ==
  ASSUME Inv, Inv', SInv, NEW t \in Thread, build' = build, CommitValid(t)
  PROVE  SInv'
<1>1. PICK v : v = tx[t].ts
  OBVIOUS
<1>2. At(t, "validate") /\ tx[t].todo = {} /\ tx[t].ts > 0 /\ UNCHANGED <<clock, locks, mem>>
      /\ Publish(t, tx[t], v)
  BY <1>1, Zenon DEF CommitValid
<1>3. Ticketed(t)
  <2>1. tx[t].ts \in Nat
    BY DEF Inv, TypeOK, TxTypes
  <2> QED
    BY <1>2, <2>1 DEF Ticketed
<1>4. Ready(t, v)
  BY <1>1, <1>2, <1>3, TicketReady
<1> QED
  BY <1>2, <1>4, PublishStep

-----------------------------------------------------------------------------
(***************************************************************************)
(* The invariant holds initially and is kept by every step.                *)
(***************************************************************************)
\* Nobody runs a transaction and everything committed has timestamp 0.
Outset ==
  /\ \A t \in Thread : /\ ReadTypes(tx[t]) /\ tx[t].pc \in {"idle", "prepare"}
                       /\ tx[t].op = "read" /\ W(t) = <<>> /\ (VisibleBuild => tx[t].r_set = {})
  /\ \A k \in Lock : locks[k] = ZeroLock
  /\ \A h \in hist : h.ts = 0
  /\ HistoryUnique /\ clock = 0

LEMMA OutsetSerial == Outset => SInv
<1> SUFFICES ASSUME Outset PROVE SInv
  OBVIOUS
<1>1. /\ ZeroLock.owner = NoOwner /\ ZeroLock.n = 0 /\ ZeroLock.inc = 0 /\ ~ZeroLock.write
      /\ NoOwner \notin Thread
  BY EtlAssumption DEF ZeroLock, LOCK_SET_TIMESTAMP
<1>2. \A t \in Thread : /\ tx[t].pc \in {"idle", "prepare"} /\ W(t) = <<>> /\ DOMAIN W(t) = {}
                        /\ tx[t].op = "read" /\ ReadTypes(tx[t])
                        /\ (VisibleBuild => tx[t].r_set = {})
  <2>1. DOMAIN <<>> = {}
    OBVIOUS
  <2> QED
    BY <2>1 DEF Outset
<1>3. ASSUME NEW t \in Thread
      PROVE  /\ ~Published(t) /\ ~Ticketed(t) /\ ~Stamped(t) /\ ~Reading(t) /\ ~Running(t)
             /\ ~At(t, "undo_release") /\ ~At(t, "do_write") /\ TxInv(t)
  <2>1. /\ ~Published(t) /\ ~Ticketed(t) /\ ~Stamped(t) /\ ~Reading(t) /\ ~Running(t)
        /\ ~At(t, "undo_release") /\ ~At(t, "do_write") /\ ~At(t, "read") /\ ~At(t, "own_value")
        /\ ~At(t, "drop_reads") /\ tx[t].pc \notin CallLabels
        /\ tx[t].pc \notin {"write", "upgrade", "do_write", "vread"}
    BY <1>2 DEF Published, Ticketed, Stamped, Reading, Running, ReadLabels, CallLabels, At
  <2>2. KindOf(t)
    BY <1>2, <2>1 DEF KindOf
  <2> QED
    BY <1>2, <2>1, <2>2 DEF TxInv, ReaderInv, SnapInv, SerialInv
<1>4. LockKinds
  BY <1>1 DEF Outset, LockKinds, LOCK_GET_OWNED
<1>5. \A k \in Lock, n, c \in Nat : Backs(k, n, c) => n = 0
  BY <1>1, <1>2, <1>3 DEF Backs, BackedBy, FreeAt, Outset
<1>6. VersionInv
  <2>1. \A k \in Lock : Covers(k, 0)
    BY DEF Covers, Outset
  <2>2. ASSUME NEW k \in Lock, NEW n \in Nat, NEW c \in Nat, Backs(k, n, c)
        PROVE  /\ n <= clock /\ Covers(k, n)
               /\ \A t \in Thread : Stamped(t) /\ locks[k].owner = t => n < tx[t].ts
    <3>1. n = 0 /\ Covers(k, n) /\ clock = 0
      BY <1>5, <2>1, <2>2 DEF Outset
    <3> QED
      BY <1>3, <3>1
  <2>3. \A t \in Thread : \A j \in DOMAIN W(t) : ~WriteThrough => W(t)[j].inc = 0
    BY <1>2
  <2> QED
    BY <1>3, <2>2, <2>3 DEF VersionInv
<1> QED
  BY <1>3, <1>4, <1>6 DEF SInv, Outset

LEMMA InitSerial == Init => SInv
<1> SUFFICES ASSUME Init PROVE Outset
  BY OutsetSerial
<1>1. \A t \in Thread : tx[t] = IdleTx
  BY DEF Init
<1>2. /\ IdleTx.pc = "idle" /\ IdleTx.w_set = <<>> /\ IdleTx.op = "read" /\ IdleTx.r_set = {}
      /\ ReadTypes(IdleTx)
  BY Constants DEF IdleTx, ReadTypes
<1>3. HistoryUnique
  BY DEF Init, HistoryUnique
<1>4. \A t \in Thread : W(t) = <<>>
  BY <1>1, <1>2 DEF W
<1>5. \A k \in Lock : locks[k] = ZeroLock
  BY DEF Init
<1>6. (\A h \in hist : h.ts = 0) /\ clock = 0
  BY DEF Init
<1> QED
  BY <1>1, <1>2, <1>3, <1>4, <1>5, <1>6 DEF Outset

LEMMA RolloverStep ==
  ASSUME Inv, SInv, build' = build, rollover_clock
  PROVE  SInv'
<1>1. ASSUME NEW t \in Thread
      PROVE  /\ ReadTypes(tx'[t]) /\ tx'[t].pc = "prepare" /\ tx'[t].op = "read"
             /\ W(t)' = <<>> /\ (VisibleBuild' => tx'[t].r_set = {})
  <2> DEFINE d == [tx[t] EXCEPT !.pc = "prepare"]
  <2>1. Shape(tx[t]) /\ LocalOK(t) /\ tx[t].pc = "barrier" /\ KindOf(t) /\ ReadTypes(tx[t])
    BY ShapeIs DEF SInv, TxInv, rollover_clock, At
  <2>2. Shape(d) /\ d.pc = "prepare" /\ \A f \in Fields \ {"pc"} : d[f] = tx[t][f]
    <3>1. Shape(d)
      BY <2>1 DEF Shape
    <3> QED
      BY <2>1, <3>1 DEF Shape, Fields
  <2>3. tx'[t] = d
    BY DEF rollover_clock
  <2> HIDE DEF d
  <2>4. /\ d.start = tx[t].start /\ d.end = tx[t].end /\ d.now = tx[t].now
        /\ d.r_set = tx[t].r_set /\ d.todo = tx[t].todo /\ d.obs = tx[t].obs
        /\ d.visible_reads = tx[t].visible_reads /\ d.has_writes = tx[t].has_writes
        /\ d.value = tx[t].value /\ d.op = tx[t].op /\ d.w_set = tx[t].w_set /\ d.ro = tx[t].ro
    BY <2>2 DEF Fields
  <2>5. W(t)' = <<>>
    BY <2>1, <2>3, <2>4 DEF W, LocalOK, TicketPhase, FreeLabels
  <2>6. tx[t].op = "read" /\ (VisibleBuild => tx[t].r_set = {})
    BY <2>1 DEF KindOf, FreeLabels
  <2>7. VisibleBuild' <=> VisibleBuild
    BY DEF VisibleBuild, Modular
  <2>8. ReadTypes(d)
    BY <2>1, <2>4 DEF ReadTypes
  <2> QED
    BY <2>2, <2>3, <2>4, <2>5, <2>6, <2>7, <2>8
<1>2. HistoryUnique'
  BY DEF HistoryUnique, rollover_clock
<1>3. \A k \in Lock : locks'[k] = ZeroLock
  BY DEF rollover_clock
<1>4. (\A h \in hist' : h.ts = 0) /\ clock' = 0
  BY DEF rollover_clock
<1>5. ZeroLock' = ZeroLock /\ \A t \in Thread : ReadTypes(tx[t])'
  BY <1>1 DEF ZeroLock, LOCK_SET_TIMESTAMP, ReadTypes
<1>6. Outset'
  BY <1>1, <1>2, <1>3, <1>4, <1>5 DEF Outset
<1>7. Outset' => SInv'
  BY OutsetSerial, PTL
<1> QED
  BY <1>6, <1>7

LEMMA StutterSerial ==
  ASSUME SInv, UNCHANGED vars
  PROVE  SInv'
<1>1. build' = build /\ clock' = clock /\ locks' = locks /\ mem' = mem /\ tx' = tx /\ hist' = hist
  BY DEF vars
<1>2. /\ (WriteThrough' <=> WriteThrough) /\ LockOf' = LockOf /\ (Modular' <=> Modular)
      /\ (VisibleBuild' <=> VisibleBuild)
  BY <1>1 DEF WriteThrough, LockOf, Modular, VisibleBuild
<1>3. \A u : /\ W(u)' = W(u) /\ (Killed(u)' <=> Killed(u)) /\ ArgLock(u)' = ArgLock(u)
             /\ \A j : LockAt(u, j)' = LockAt(u, j)
             /\ \A lab : At(u, lab)' <=> At(u, lab)
  BY <1>1, <1>2 DEF W, Killed, ArgLock, LockAt, At
<1>4. \A u : /\ (Ticketed(u)' <=> Ticketed(u)) /\ (Published(u)' <=> Published(u))
             /\ (Reading(u)' <=> Reading(u)) /\ (Running(u)' <=> Running(u))
  BY <1>1, <1>3 DEF Ticketed, Published, Reading, Running
<1>5. \A u : Stamped(u)' <=> Stamped(u)
  BY <1>1, <1>4 DEF Stamped
<1>6. \A u : Held(u)' = Held(u)
  BY <1>1, <1>2, <1>3 DEF Held, Releasing
<1>7. \A u, j, k : EntryBacks(u, j, k)' <=> EntryBacks(u, j, k)
  BY <1>1, <1>3, <1>6 DEF EntryBacks
<1>8. \A u, k, n, c : BackedBy(u, k, n, c)' <=> BackedBy(u, k, n, c)
  BY <1>1, <1>3, <1>7 DEF BackedBy
<1>9. \A k, n, c : Backs(k, n, c)' <=> Backs(k, n, c)
  BY <1>1, <1>8 DEF Backs, FreeAt
<1>10. \A k, v : Covers(k, v)' <=> Covers(k, v)
  BY <1>1, <1>2 DEF Covers
<1>11. \A t, r, s : Still(t, r, s)' <=> Still(t, r, s)
  BY <1>1, <1>2, <1>3, <1>4 DEF Still
<1>12. \A a, s, w : /\ IsValueAt(a, s, w)' <=> IsValueAt(a, s, w)
                    /\ Latest(a, w)' <=> Latest(a, w)
  BY <1>1 DEF IsValueAt, Latest
<1>13. \A t, o : Vouched(t, o)' <=> Vouched(t, o)
  BY <1>1, <1>2, <1>12 DEF Vouched
<1>14. LockKinds'
  BY <1>1, <1>2 DEF SInv, LockKinds
<1>15. HistoryUnique'
  BY <1>1 DEF SInv, HistoryUnique
<1>16. VersionInv'
  <2>1. VersionInv
    BY DEF SInv
  <2> QED
    BY <1>1, <1>2, <1>3, <1>4, <1>5, <1>9, <1>10, <2>1 DEF VersionInv
<1>17. ASSUME NEW t \in Thread PROVE TxInv(t)'
  <2>1. ReadTypes(tx[t]) /\ KindOf(t) /\ ReaderInv(t) /\ SnapInv(t) /\ SerialInv(t)
    BY DEF SInv, TxInv
  <2>2. ReadTypes(tx[t])'
    BY <1>1, <2>1 DEF ReadTypes
  <2>3. KindOf(t)'
    BY <1>1, <1>2, <1>3, <1>4, <2>1 DEF KindOf
  <2>4. ReaderInv(t)'
    BY <1>1, <1>2, <1>3, <1>4, <1>9, <2>1 DEF ReaderInv
  <2>5. SnapInv(t)'
    BY <1>1, <1>3, <1>4, <1>11, <1>13, <2>1 DEF SnapInv
  <2>6. SerialInv(t)'
    BY <1>1, <1>2, <1>3, <1>4, <1>12, <2>1 DEF SerialInv
  <2> QED
    BY <2>2, <2>3, <2>4, <2>5, <2>6 DEF TxInv
<1> QED
  BY <1>14, <1>15, <1>16, <1>17 DEF SInv

LEMMA AppSerial ==
  ASSUME Inv, Inv', SInv, OneKindOfRead, NEW t \in Thread, build' = build, AppStep(t)
  PROVE  SInv'
<1>1. CASE \E r \in build.read_only : stm_start(t, r)
  BY <1>1, StartStep
<1>2. CASE \E a \in build.Loads[t] : stm_load(t, a)
  BY <1>2, LoadCallStep
<1>3. CASE \E a \in build.Stores[t], v \in StoreWords[t], m \in build.Masks :
             stm_store(t, a, v, m)
  BY <1>3, StoreCallStep
<1>4. CASE stm_commit(t)
  BY <1>4, CommitCallStep
<1>5. CASE stm_abort(t)
  BY <1>5, AbortCallStep
<1> QED
  BY <1>1, <1>2, <1>3, <1>4, <1>5 DEF AppStep

LEMMA LibrarySerial ==
  ASSUME Inv, Inv', SInv, GrowthSafe, NEW t \in Thread, build' = build, LibraryStep(t)
  PROVE  SInv'
<1>1. CASE stm_prepare(t) \/ stm_prepare_overflow(t) \/ Delay(t)
  BY <1>1, PrepareStep, OverflowStep, DelayStep
<1>2. CASE ReadOwnerStatus(t) \/ Arbitrate(t) \/ stm_kill(t)
  BY <1>2, ReadOwnerStatusStep, ArbitrateStep, KillStep
<1>3. CASE ReadLock(t) \/ ReadOwnValue(t) \/ ReadValue(t) \/ ReadLock2(t) \/ ReadRecheck(t)
  BY <1>3, ReadLockStep, ReadOwnValueStep, ReadValueStep, ReadLock2Step, ReadRecheckStep
<1>4. CASE ReadSteal(t) \/ stm_extend(t) \/ (\E r \in tx[t].todo : stm_validate(t, r))
           \/ ExtendOk(t)
  BY <1>4, ReadStealStep, ExtendStep, ValidateStep, ExtendOkStep
<1>5. CASE stm_write(t) \/ Upgrade(t) \/ WriteSteal(t) \/ do_write(t)
  BY <1>5, WriteStep, UpgradeStep, WriteStealStep, DoWriteStep
<1>6. CASE stm_read_visible(t) \/ VisibleSteal(t)
  BY <1>6, ReadVisibleStep, VisibleStealStep
<1>7. CASE CommitReads(t) \/ CommitClock(t) \/ CommitValid(t) \/ CommitStore(t)
           \/ CommitRelease(t) \/ CommitEnd(t)
  BY <1>7, CommitReadsStep, CommitClockStep, CommitValidStep, CommitStoreStep, CommitReleaseStep,
     CommitEndStep
<1>8. CASE stm_rollback(t) \/ RollbackRelease(t) \/ UndoStore(t) \/ UndoClock(t)
           \/ UndoRelease(t) \/ stm_drop(t) \/ RollbackEnd(t)
  BY <1>8, RollbackStep, RollbackReleaseStep, UndoStoreStep, UndoClockStep, UndoReleaseStep,
     DropStep, RollbackEndStep
<1> QED
  BY <1>1, <1>2, <1>3, <1>4, <1>5, <1>6, <1>7, <1>8 DEF LibraryStep

EtlSerialInv == GrowthSafe /\ OneKindOfRead => Inv /\ SInv

\* A build does not change while the program runs.
LEMMA EtlSerialStep == EtlSerialInv /\ [Next]_vars => EtlSerialInv'
<1> SUFFICES ASSUME EtlSerialInv, [Next]_vars PROVE EtlSerialInv'
  OBVIOUS
<1>1. build' = build
  BY DEF Next, vars
<1>2. (GrowthSafe' <=> GrowthSafe) /\ (OneKindOfRead' <=> OneKindOfRead)
  BY <1>1 DEF GrowthSafe, WriteThrough, Modular, LockOf, OneKindOfRead
<1>3. CASE ~(GrowthSafe /\ OneKindOfRead)
  BY <1>2, <1>3 DEF EtlSerialInv
<1>4. CASE GrowthSafe /\ OneKindOfRead
  <2>1. Inv /\ SInv
    BY <1>4 DEF EtlSerialInv
  <2>2. CASE \E t \in Thread : AppStep(t) \/ LibraryStep(t)
    <3>1. PICK t \in Thread : AppStep(t) \/ LibraryStep(t)
      BY <2>2
    <3>2. Inv'
      BY <1>1, <1>4, <2>1, <3>1, AppInv, LibraryInv
    <3>3. SInv'
      BY <1>1, <1>4, <2>1, <3>1, <3>2, AppSerial, LibrarySerial
    <3> QED
      BY <3>2, <3>3 DEF EtlSerialInv
  <2>3. CASE rollover_clock
    BY <1>1, <2>1, <2>3, RolloverInv, RolloverStep DEF EtlSerialInv
  <2>4. CASE UNCHANGED vars
    BY <2>1, <2>4, StutterInv, StutterSerial DEF EtlSerialInv
  <2> QED
    BY <2>2, <2>3, <2>4 DEF Next
<1> QED
  BY <1>3, <1>4

-----------------------------------------------------------------------------
(***************************************************************************)
(* Committed transactions are serializable.                                *)
(***************************************************************************)
\* At the first step of a commit that has only visible reads each of its words
\* is locked for it, and holds what was read.
LEMMA VisibleCommit ==
  ASSUME Inv, SInv, NEW t \in Thread, At(t, "drop_reads"), tx[t].i = 1, NEW o \in tx[t].obs
  PROVE  mem[o.addr] = o.value
<1>1. KindOf(t) /\ SnapInv(t) /\ ReadTypes(tx[t]) /\ LocalOK(t) /\ HistoryUnique
  BY DEF SInv, TxInv, Inv, LocalInv
<1>2. ~Killed(t)
  BY NotKilled DEF InCommit, At, CommitLabels
<1>3. Running(t) /\ VisibleBuild
  BY <1>1, <1>2 DEF Running, KindOf
<1>4. ~tx[t].ro /\ tx[t].r_set = {}
  BY <1>1, <1>3 DEF KindOf
<1>5. Vouched(t, o)
  BY <1>1, <1>3, <1>4 DEF SnapInv
<1>6. locks[LockOf[o.addr]].owner = t /\ Latest(o.addr, o.value)
  BY <1>4, <1>5 DEF Vouched
<1>7. o.addr \in Addr
  BY <1>1 DEF ReadTypes, Observation
<1>8. Latest(o.addr, mem[o.addr])
  <2>1. ~WriteThrough
    BY <1>3, BuildIs DEF VisibleBuild, Modular, WriteThrough, Inv, TypeOK
  <2>2. \A j \in DOMAIN W(t) : ~Pending(t, o.addr, j)
    BY DEF Pending, At
  <2> QED
    BY <1>6, <1>7, <2>1, <2>2, OwnLatest
<1>9. PICK g \in hist : g.addr = o.addr /\ g.value = o.value
                        /\ \A x \in hist : x.addr = o.addr => x.ts <= g.ts
  BY <1>6 DEF Latest
<1>10. PICK h \in hist : h.addr = o.addr /\ h.value = mem[o.addr]
                         /\ \A x \in hist : x.addr = o.addr => x.ts <= h.ts
  BY <1>8 DEF Latest
<1>11. g.ts \in Nat /\ h.ts \in Nat /\ g.ts <= h.ts /\ h.ts <= g.ts
  BY <1>9, <1>10 DEF Inv, TypeOK
<1>12. g = h
  BY <1>1, <1>9, <1>10, <1>11 DEF HistoryUnique
<1> QED
  BY <1>9, <1>10, <1>12

LEMMA InvSerializable == Inv /\ SInv => EtlSerializable
<1> SUFFICES ASSUME Inv, SInv, NEW t \in Thread
             PROVE  /\ tx[t].ts > 0 /\ tx[t].pc \in {"write_back", "release"} =>
                         \A o \in tx[t].obs : IsValueAt(o.addr, tx[t].ts - 1, o.value)
                    /\ At(t, "drop_reads") /\ tx[t].i = 1 =>
                         \A o \in tx[t].obs : mem[o.addr] = o.value
  BY DEF EtlSerializable
<1>1. SerialInv(t)
  BY DEF SInv, TxInv
<1>2. tx[t].pc \in {"write_back", "release"} =>
        \A o \in tx[t].obs : IsValueAt(o.addr, tx[t].ts - 1, o.value)
  BY <1>1 DEF SerialInv, Published
<1>3. At(t, "drop_reads") /\ tx[t].i = 1 => \A o \in tx[t].obs : mem[o.addr] = o.value
  BY VisibleCommit
<1> QED
  BY <1>2, <1>3

\* What a committed transaction loaded from memory is what an execution in the
\* order of the commit timestamps would have loaded, and a transaction that
\* only read visibly commits values that are all still in memory: in
\* WRITE_BACK_ETL and WRITE_THROUGH, with every contention manager, for any
\* number of threads, words and locks (stm_load, stm_extend, stm_validate,
\* stm_read_visible, stm_commit).  As for EtlLocksCover the write set does not
\* outgrow its allocation, or each lock covers one word and none is stolen; and
\* all the reads of the build are of one kind.
THEOREM EtlSerial == Spec => [](GrowthSafe /\ OneKindOfRead => EtlSerializable)
<1>1. Init => EtlSerialInv
  BY InitInv, InitSerial DEF EtlSerialInv
<1>2. EtlSerialInv /\ [Next]_vars => EtlSerialInv'
  BY EtlSerialStep
<1>3. EtlSerialInv => (GrowthSafe /\ OneKindOfRead => EtlSerializable)
  BY InvSerializable DEF EtlSerialInv
<1> QED
  BY <1>1, <1>2, <1>3, PTL DEF Spec
=============================================================================
