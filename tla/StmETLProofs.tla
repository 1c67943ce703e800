---------------------------- MODULE StmETLProofs ----------------------------
(***************************************************************************)
(* Proofs about StmETL: locks, logs and memory fit together (LocksCover)   *)
(* in every build whose write set does not grow while a lock covers several *)
(* of its entries or can be stolen.                                        *)
(***************************************************************************)
EXTENDS StmETL, FiniteSetTheorems, WellFoundedInduction, TLAPS

-----------------------------------------------------------------------------
(***************************************************************************)
(* Types                                                                   *)
(***************************************************************************)
LockWord == [owner: Thread \cup {NoOwner}, n: Nat, inc: Nat, write: BOOLEAN]

LogEntry == [addr: Addr, mask: SUBSET Byte, value: Word, version: Nat, inc: Nat,
             next: Nat, no_drop: BOOLEAN]

Argument == [addr: Addr, value: Word, mask: SUBSET Byte]

\* The fields of a transaction descriptor.
Fields ==
  {"pc", "status", "counter", "ro", "start", "end", "r_set", "w_set", "size", "gen",
   "has_writes", "visible_reads", "retries", "timestamp", "c_lock", "op", "arg", "l",
   "value", "i", "todo", "now", "ts", "seenStatus", "obs", "own", "snap", "calls"}

Shape(d) == DOMAIN d = Fields /\ d = [f \in Fields |-> d[f]]

\* Labels of a transaction that is not under way, that is inside a call, and
\* that has to do with the contention manager.
FreeLabels == {"idle", "prepare", "barrier", "delay"}
CallLabels == {"read", "vread", "write", "conflict", "conflict2", "kill", "steal",
               "own_value", "read_value", "read_lock2", "extend", "read_recheck",
               "upgrade", "do_write"}
ReadLabels == {"read_value", "read_lock2", "extend", "read_recheck"}
ArbiterLabels == {"conflict", "conflict2", "kill", "steal"}
CommitLabels == {"commit_clock", "write_back", "release", "drop_reads", "end"}
AbortLabels == {"rollback", "undo", "undo_clock", "undo_release", "drop"}
Labels == FreeLabels \cup CallLabels \cup CommitLabels \cup AbortLabels \cup {"app", "validate"}

TxTypes(d) ==
  /\ Shape(d)
  /\ d.pc \in Labels
  /\ d.w_set \in Seq(LogEntry)
  /\ d.arg \in Argument
  /\ d.l \in LockWord
  /\ d.op \in {"read", "vread", "write"}
  /\ d.ts \in Nat /\ d.gen \in Nat /\ d.size \in Nat /\ d.calls \in Nat

TypeOK ==
  /\ build \in Builds
  /\ clock \in Nat
  /\ locks \in [Lock -> LockWord]
  /\ mem \in [Addr -> Word]
  /\ tx = [t \in Thread |-> tx[t]]
  /\ \A t \in Thread : TxTypes(tx[t])
  /\ hist \in SUBSET [ts: Nat, addr: Addr, value: Word]

-----------------------------------------------------------------------------
(***************************************************************************)
(* The inductive invariant                                                 *)
(***************************************************************************)
\* The write set does not grow, or the locks stay put when it does: one word
\* per lock and no contention manager that steals them.
GrowthSafe ==
  \/ WriteThrough
  \/ \A t \in Thread : build.MaxCalls[t] <= build.RW_SET_SIZE
  \/ ~Modular /\ \A a, b \in Addr : LockOf[a] = LockOf[b] => a = b

W(t) == tx[t].w_set
LockAt(t, j) == LockOf[tx[t].w_set[j].addr]

InCall(t) == tx[t].pc \in CallLabels \/ (At(t, "validate") /\ tx[t].ts = 0)
InCommit(t) == tx[t].pc \in CommitLabels \/ (At(t, "validate") /\ tx[t].ts # 0)

\* Every call adds at most one entry to the write set.
CallsBound(t) ==
  /\ tx[t].size >= build.RW_SET_SIZE
  /\ InCall(t) => Len(W(t)) + 1 <= tx[t].calls /\ tx[t].calls <= build.MaxCalls[t]
  /\ At(t, "app") => Len(W(t)) <= tx[t].calls

\* Which labels a design and a contention manager can reach.
LabelsOfBuild(t) ==
  /\ ~Modular => /\ tx[t].pc \notin ArbiterLabels \cup {"vread", "drop_reads", "drop"}
                 /\ tx[t].status # "KILLED" /\ tx[t].op # "vread"
  /\ WriteThrough => tx[t].pc # "write_back"
  /\ ~WriteThrough => tx[t].pc \notin {"do_write", "undo_clock", "undo_release"}

\* The commit timestamp is set in a commit, or by the undo of a write-through.
TicketPhase(t) ==
  /\ tx[t].pc \in FreeLabels \cup CallLabels \cup {"app", "commit_clock", "rollback"}
       => tx[t].ts = 0
  /\ tx[t].pc \in FreeLabels => W(t) = <<>>
  /\ At(t, "commit_clock") \/ (At(t, "validate") /\ tx[t].ts # 0) => W(t) # <<>>

\* The position in the write set while locks are released.
Position(t) ==
  /\ tx[t].pc \in {"write_back", "release", "undo_clock", "undo_release"}
       => tx[t].i \in 1..Len(W(t))
  /\ tx[t].pc \in {"drop", "drop_reads"} => tx[t].i \in 1..(Len(W(t)) + 1)
  /\ At(t, "release") /\ ~WriteThrough => W(t)[tx[t].i].next = 0
  /\ tx[t].pc \in {"undo_clock", "undo_release"} => ~W(t)[tx[t].i].no_drop
  /\ At(t, "undo") => tx[t].i \in IF WriteThrough THEN 0..Len(W(t)) ELSE 1..(Len(W(t)) + 1)

\* CM_MODULAR: only a transaction in a call, between calls or about to roll
\* back can be killed, and a killed one drops its locks.
StatusPhase(t) ==
  /\ Modular /\ tx[t].status \in {"ACTIVE", "KILLED"} =>
       InCall(t) \/ tx[t].pc \in {"app", "rollback", "drop"}
  /\ At(t, "drop") => tx[t].status = "KILLED"

\* What the call remembers of a conflict.
Remembers(t) ==
  /\ tx[t].pc \in ArbiterLabels => tx[t].l.owner \in Thread \ {t}
  /\ At(t, "upgrade") => tx[t].l.owner = t
  /\ tx[t].pc \in ReadLabels \/ (At(t, "validate") /\ tx[t].ts = 0) => ~tx[t].l.write
  /\ tx[t].pc \in {"conflict2", "kill"} =>
       tx[t].seenStatus # <<>> /\ tx[t].seenStatus[1] = tx[t].l.owner

LocalOK(t) ==
  /\ CallsBound(t) /\ LabelsOfBuild(t) /\ TicketPhase(t) /\ Position(t)
  /\ StatusPhase(t) /\ Remembers(t)

LocalInv == \A t \in Thread : LocalOK(t)

\* Entries whose lock the transaction has not released.
Releasing(t) ==
  tx[t].pc \in {"write_back", "release", "undo", "undo_clock", "undo_release", "drop",
                "drop_reads"}

Held(t) ==
  {j \in DOMAIN W(t) :
     /\ ~At(t, "end")
     /\ Releasing(t) => IF WriteThrough THEN j <= tx[t].i ELSE j >= tx[t].i}

Killed(t) == tx[t].status = "KILLED"

\* A lock word that names its owner leads to an entry the owner still holds.
OwnerHoldsOf(t) ==
  \A k \in Lock : locks[k].owner = t =>
    IF WriteThrough
      THEN (\E j \in Held(t) : LockAt(t, j) = k) \/ (At(t, "do_write") /\ ArgLock(t) = k)
      ELSE /\ locks[k].inc = tx[t].gen
           /\ locks[k].n \in DOMAIN W(t) /\ LockAt(t, locks[k].n) = k
           /\ \E j \in Held(t) : LockAt(t, j) = k
           /\ Killed(t) => locks[k].n \in Held(t)

OwnerHolds == \A t \in Thread : OwnerHoldsOf(t)

\* Only owned locks are write-locked.
WriteLocked == \A k \in Lock : locks[k].write => LOCK_GET_OWNED(locks[k])

\* A transaction nobody has killed owns the locks of all the entries it holds.
HolderOwnsOf(t) ==
  /\ ~Killed(t) => \A j \in Held(t) : locks[LockAt(t, j)].owner = t
  /\ At(t, "do_write") => locks[ArgLock(t)].owner = t

HolderOwns == \A t \in Thread : HolderOwnsOf(t)

\* WRITE_THROUGH: the first entry of a lock is the one that drops it.
FirstDropsOf(t) ==
  WriteThrough =>
    /\ \A j \in DOMAIN W(t) :
         W(t)[j].no_drop <=> \E h \in DOMAIN W(t) : h < j /\ LockAt(t, h) = LockAt(t, j)
    /\ At(t, "do_write") =>
         (LOCK_GET_OWNED(tx[t].l) <=> \E h \in DOMAIN W(t) : LockAt(t, h) = ArgLock(t))

FirstDrops == \A t \in Thread : FirstDropsOf(t)

\* WRITE_BACK_ETL: links lead forward, and no entry keeps its lock.
LinksForwardOf(t) ==
  ~WriteThrough => \A j \in DOMAIN W(t) :
    /\ W(t)[j].next # 0 => W(t)[j].next \in DOMAIN W(t) /\ W(t)[j].next > j
    /\ ~W(t)[j].no_drop

LinksForward == \A t \in Thread : LinksForwardOf(t)

\* As long as nobody has killed the transaction, the link of an entry is the
\* next entry of its lock, every address has one entry, and the lock word
\* points to the first entry of the lock.
LinkingOf(t) ==
  ~WriteThrough /\ ~Killed(t) =>
    /\ \A j \in DOMAIN W(t) :
         /\ W(t)[j].next # 0 => LockAt(t, W(t)[j].next) = LockAt(t, j)
         /\ \A h \in DOMAIN W(t) : h > j /\ LockAt(t, h) = LockAt(t, j) =>
              W(t)[j].next # 0 /\ W(t)[j].next <= h
    /\ \A j, h \in DOMAIN W(t) : W(t)[j].addr = W(t)[h].addr => j = h
    /\ \A k \in Lock, j \in DOMAIN W(t) :
         locks[k].owner = t /\ LockAt(t, j) = k => locks[k].n <= j

Linking == \A t \in Thread : LinkingOf(t)

\* A kill hits the transaction whose lock was met, and a steal takes the lock
\* of a killed transaction or fails: the owner's restart changes what the
\* thief remembers.
StealOK(u, other) ==
  /\ At(u, "kill") /\ tx[u].seenStatus[2] = "ACTIVE" /\ StatusWord(other) = tx[u].seenStatus
       => W(other) # <<>>
  /\ At(u, "steal") => tx[u].l.inc # tx[other].gen \/ (Killed(other) /\ W(other) # <<>>)

StealSafe == \A u, other \in Thread : tx[u].l.owner = other => StealOK(u, other)

-----------------------------------------------------------------------------
\* The last committed value of an address.
Latest(a, w) ==
  \E h \in hist : h.addr = a /\ h.value = w /\ \A g \in hist : g.addr = a => g.ts <= h.ts

\* WRITE_BACK_ETL: entries of a published commit that are not yet in memory.
Pending(t, a, j) ==
  /\ j \in DOMAIN W(t) /\ W(t)[j].addr = a /\ W(t)[j].mask # {}
  /\ \/ At(t, "write_back") /\ j >= tx[t].i
     \/ At(t, "release") /\ j > tx[t].i

\* WRITE_THROUGH: entries that an abort has still to undo.
ToUndo(t, a, j) ==
  /\ j \in DOMAIN W(t) /\ W(t)[j].addr = a /\ W(t)[j].mask # {}
  /\ tx[t].pc \notin {"release", "end"}
  /\ At(t, "undo") => j <= tx[t].i
  /\ tx[t].pc \in {"undo_clock", "undo_release"} => j < tx[t].i

MemoryInv ==
  /\ ~WriteThrough => \A a \in Addr :
       /\ \A t \in Thread : \A j \in DOMAIN W(t) : Pending(t, a, j) => Latest(a, W(t)[j].value)
       /\ (\A t \in Thread : \A j \in DOMAIN W(t) : ~Pending(t, a, j)) => Latest(a, mem[a])
  /\ WriteThrough => \A a \in Addr :
       /\ \A t \in Thread : \A j \in DOMAIN W(t) :
            ToUndo(t, a, j) /\ (\A h \in DOMAIN W(t) : ToUndo(t, a, h) => j <= h)
              => Latest(a, W(t)[j].value)
       /\ (\A t \in Thread : \A j \in DOMAIN W(t) : ~ToUndo(t, a, j)) => Latest(a, mem[a])

\* Commit timestamps: nothing is newer than the clock, and no committed word
\* that a transaction has locked is as new as the timestamp it holds.
HistoryInv ==
  /\ \A h \in hist : h.ts <= clock
  /\ \A t \in Thread : At(t, "validate") /\ tx[t].ts # 0 =>
       /\ tx[t].ts <= clock
       /\ \A j \in DOMAIN W(t), h \in hist : h.addr = W(t)[j].addr => h.ts < tx[t].ts

LockInv ==
  /\ OwnerHolds /\ HolderOwns /\ WriteLocked /\ FirstDrops /\ LinksForward /\ Linking
  /\ StealSafe

Inv == TypeOK /\ LocalInv /\ LockInv /\ MemoryInv /\ HistoryInv

EtlInv == GrowthSafe => Inv
-----------------------------------------------------------------------------
(***************************************************************************)
(* Sets of numbers, and the lists of a write set                           *)
(***************************************************************************)
\* A non-empty set of naturals has a least element.
LEMMA LeastNat ==
  ASSUME NEW T \in SUBSET Nat, T # {}
  PROVE  \E n \in T : \A m \in T : n <= m
<1> DEFINE R == OpToRel(<, Nat)
<1>1. IsWellFoundedOn(R, Nat)
  BY NatLessThanWellFounded
<1>2. \A x, y \in Nat : <<x, y>> \in R <=> x < y
  BY DEF OpToRel
<1> HIDE DEF R
<1>3. PICK x \in T : \A y \in T : ~ (<<y, x>> \in R)
  BY <1>1, WFMin
<1>4. \A y \in T : ~(y < x)
  BY <1>2, <1>3, Zenon
<1>5. x \in Nat /\ \A y \in T : y \in Nat
  OBVIOUS
<1> QED
  BY <1>4, <1>5

\* A non-empty set of naturals up to n has a greatest element.
LEMMA GreatestNat ==
  ASSUME NEW n \in Nat, NEW T \in SUBSET (0..n), T # {}
  PROVE  \E g \in T : \A m \in T : m <= g
<1> DEFINE D == {n - m : m \in T}
<1>1. D \in SUBSET Nat /\ D # {}
  <2>1. PICK z \in T : TRUE
    OBVIOUS
  <2>2. n - z \in D
    OBVIOUS
  <2>3. \A m \in T : n - m \in Nat
    OBVIOUS
  <2> QED
    BY <2>2, <2>3
<1> HIDE DEF D
<1>2. PICK x \in D : \A y \in D : x <= y
  BY <1>1, LeastNat
<1>3. PICK g \in T : x = n - g
  BY <1>2 DEF D
<1>4. ASSUME NEW m \in T PROVE m <= g
  <2>1. n - m \in D
    BY DEF D
  <2>2. n - g <= n - m
    BY <1>2, <1>3, <2>1
  <2> QED
    BY <2>2
<1> QED
  BY <1>4

\* The links of a write set lead forward or end.
Forward(ws) ==
  \A j \in 1..Len(ws) : ws[j].next # 0 => ws[j].next \in 1..Len(ws) /\ ws[j].next > j

\* The equation of the recursive function inside Chain.
ChainFunction(ws, f) ==
  f = [j \in 1..Len(ws) |-> {j} \cup IF ws[j].next = 0 THEN {} ELSE f[ws[j].next]]

\* Sets of entries that hold the successors of their members, and what all of
\* those that contain k have in common.
ClosedUnder(ws, C) == \A j \in C : ws[j].next # 0 => ws[j].next \in C
Reach(ws, k) ==
  {j \in 1..Len(ws) : \A C \in SUBSET (1..Len(ws)) : k \in C /\ ClosedUnder(ws, C) => j \in C}

LEMMA ReachStep ==
  ASSUME NEW ws, Len(ws) \in Nat, Forward(ws), NEW k \in 1..Len(ws)
  PROVE  Reach(ws, k) = {k} \cup IF ws[k].next = 0 THEN {} ELSE Reach(ws, ws[k].next)
<1> DEFINE S == {k} \cup IF ws[k].next = 0 THEN {} ELSE Reach(ws, ws[k].next)
<1>1. S \subseteq 1..Len(ws)
  BY DEF Reach
<1>2. ClosedUnder(ws, S)
  <2>1. CASE ws[k].next = 0
    BY <2>1 DEF ClosedUnder
  <2>2. CASE ws[k].next # 0
    <3> DEFINE m == ws[k].next
    <3>1. m \in Reach(ws, m)
      BY <2>2 DEF Reach, Forward
    <3>2. ASSUME NEW j \in Reach(ws, m), ws[j].next # 0
          PROVE  ws[j].next \in Reach(ws, m)
      BY <3>2 DEF Reach, Forward, ClosedUnder
    <3> QED
      BY <2>2, <3>1, <3>2 DEF ClosedUnder
  <2> QED
    BY <2>1, <2>2
<1>3. Reach(ws, k) \subseteq S
  BY <1>1, <1>2 DEF Reach
<1>4. k \in Reach(ws, k)
  BY DEF Reach
<1>5. ws[k].next # 0 => Reach(ws, ws[k].next) \subseteq Reach(ws, k)
  BY DEF Reach, ClosedUnder, Forward
<1> QED
  BY <1>3, <1>4, <1>5

\* The recursive function inside Chain exists, and Chain is its value.
LEMMA ChainIs ==
  ASSUME NEW ws, Len(ws) \in Nat, Forward(ws), NEW k
  PROVE  \E f : ChainFunction(ws, f) /\ Chain(ws, k) = f[k]
<1> DEFINE r == [j \in 1..Len(ws) |-> Reach(ws, j)]
<1>1. ASSUME NEW j \in 1..Len(ws)
      PROVE  r[j] = {j} \cup IF ws[j].next = 0 THEN {} ELSE r[ws[j].next]
  BY ReachStep DEF Forward
<1> HIDE DEF r
<1>2. ChainFunction(ws, r)
  <2>1. r = [j \in 1..Len(ws) |-> r[j]]
    BY DEF r
  <2> QED
    BY <1>1, <2>1 DEF ChainFunction
<1> DEFINE g == CHOOSE f : ChainFunction(ws, f)
<1>3. ChainFunction(ws, g)
  BY <1>2
<1>4. Chain(ws, k) = g[k]
  BY DEF Chain, ChainFunction
<1> QED
  BY <1>3, <1>4

\* A chain stays inside the write set, and one of its entries is the last.
LEMMA ChainEnds ==
  ASSUME NEW ws, Len(ws) \in Nat, Forward(ws), NEW k \in 1..Len(ws)
  PROVE  /\ Chain(ws, k) \subseteq 1..Len(ws)
         /\ \E j \in Chain(ws, k) : ws[j].next = 0
<1>1. PICK f : ChainFunction(ws, f) /\ Chain(ws, k) = f[k]
  BY ChainIs
<1> DEFINE Bad == {j \in 1..Len(ws) :
                     ~(f[j] \subseteq 1..Len(ws) /\ \E h \in f[j] : ws[h].next = 0)}
<1>2. Bad = {}
  <2> SUFFICES ASSUME Bad # {} PROVE FALSE
    OBVIOUS
  <2>1. PICK j \in Bad : \A m \in Bad : m <= j
    BY GreatestNat, Bad \in SUBSET (0..Len(ws))
  <2>2. f[j] = {j} \cup IF ws[j].next = 0 THEN {} ELSE f[ws[j].next]
    BY <1>1 DEF ChainFunction
  <2>3. CASE ws[j].next = 0
    BY <2>2, <2>3
  <2>4. CASE ws[j].next # 0
    <3>1. ws[j].next \in 1..Len(ws) /\ ws[j].next > j
      BY <2>4 DEF Forward
    <3>2. ws[j].next \notin Bad
      BY <2>1, <3>1
    <3> QED
      BY <2>2, <2>4, <3>1, <3>2
  <2> QED
    BY <2>3, <2>4
<1> QED
  BY <1>1, <1>2

\* When every link is the next entry of the same class, the chain of k is
\* what follows k in its class.
LEMMA ChainOfClass ==
  ASSUME NEW ws, Len(ws) \in Nat, Forward(ws), NEW k \in 1..Len(ws), NEW cls,
         \A j \in 1..Len(ws) :
           /\ ws[j].next # 0 => cls[ws[j].next] = cls[j]
           /\ \A h \in 1..Len(ws) : h > j /\ cls[h] = cls[j] =>
                ws[j].next # 0 /\ ws[j].next <= h
  PROVE  Chain(ws, k) = {h \in 1..Len(ws) : h >= k /\ cls[h] = cls[k]}
<1>1. PICK f : ChainFunction(ws, f) /\ Chain(ws, k) = f[k]
  BY ChainIs
<1> DEFINE After(j) == {h \in 1..Len(ws) : h >= j /\ cls[h] = cls[j]}
           Bad == {j \in 1..Len(ws) : f[j] # After(j)}
<1>2. Bad = {}
  <2> SUFFICES ASSUME Bad # {} PROVE FALSE
    OBVIOUS
  <2>1. PICK j \in Bad : \A m \in Bad : m <= j
    BY GreatestNat, Bad \in SUBSET (0..Len(ws))
  <2>2. f[j] = {j} \cup IF ws[j].next = 0 THEN {} ELSE f[ws[j].next]
    BY <1>1 DEF ChainFunction
  <2>3. CASE ws[j].next = 0
    BY <2>2, <2>3
  <2>4. CASE ws[j].next # 0
    <3>1. ws[j].next \in 1..Len(ws) /\ ws[j].next > j
      BY <2>4 DEF Forward
    <3>2. f[ws[j].next] = After(ws[j].next)
      BY <2>1, <3>1
    <3>3. cls[ws[j].next] = cls[j]
      BY <2>4
    <3>4. After(j) = {j} \cup After(ws[j].next)
      BY <3>1, <3>3, <2>4
    <3> QED
      BY <2>2, <2>4, <3>2, <3>4
  <2> QED
    BY <2>3, <2>4
<1> QED
  BY <1>1, <1>2

\* Fresh picks a number that is not in use.
LEMMA FreshNew ==
  ASSUME NEW used, IsFiniteSet(used)
  PROVE  Fresh(used) \in Nat /\ Fresh(used) \notin used
<1>1. Cardinality(used) \in Nat
  BY FS_CardinalityType
<1>2. \E n \in 0..Cardinality(used) : n \notin used
  <2> SUFFICES ASSUME 0..Cardinality(used) \subseteq used PROVE FALSE
    OBVIOUS
  <2>1. Cardinality(0..Cardinality(used)) <= Cardinality(used)
    BY FS_Subset
  <2>2. Cardinality(0..Cardinality(used)) = Cardinality(used) + 1
    BY <1>1, FS_Interval
  <2> QED
    BY <1>1, <2>1, <2>2
<1> QED
  BY <1>1, <1>2 DEF Fresh

-----------------------------------------------------------------------------
(***************************************************************************)
(* Constants and descriptors                                               *)
(***************************************************************************)
LEMMA Constants ==
  /\ NoArg \in Argument /\ ZeroWord \in Word
  /\ ZeroLock \in LockWord /\ ZeroLock.owner = NoOwner
<1>1. ZeroWord \in Word
  BY EtlAssumption DEF ZeroWord, Word
<1>2. (CHOOSE a \in Addr : TRUE) \in Addr
  BY EtlAssumption
<1> QED
  BY <1>1, <1>2 DEF NoArg, Argument, ZeroLock, LockWord, LOCK_SET_TIMESTAMP

LEMMA BuildIs ==
  ASSUME build \in Builds
  PROVE  /\ LockOf \in [Addr -> Lock]
         /\ build.MaxCalls \in [Thread -> Nat]
         /\ build.RW_SET_SIZE \in Nat /\ build.RW_SET_SIZE > 0
         /\ build.Loads \in [Thread -> SUBSET Addr]
         /\ build.Stores \in [Thread -> SUBSET Addr]
         /\ build.Masks \in SUBSET SUBSET Byte
         /\ Modular => ~WriteThrough
<1>1. build \in Build
  BY EtlAssumption
<1>2. build.CM = "MODULAR" => build.DESIGN = "WRITE_BACK_ETL"
  BY EtlAssumption
<1> QED
  BY <1>1, <1>2 DEF Build, LockOf, Modular, WriteThrough

\* What a step of the code leaves alone in a descriptor.
Kept(e, d) ==
  /\ Shape(e)
  /\ e.status = d.status /\ e.counter = d.counter /\ e.w_set = d.w_set
  /\ e.size = d.size /\ e.gen = d.gen /\ e.calls = d.calls

\* A finished call has no locals left.
Clean(e) ==
  e.arg = NoArg /\ e.l = ZeroLock /\ e.ts = 0 /\ e.seenStatus = <<>> /\ e.op = "read"

LEMMA SettledIs ==
  ASSUME NEW d, Shape(d)
  PROVE  Kept(Settled(d), d) /\ Clean(Settled(d))
<1>1. Shape(Settled(d))
  BY DEF Shape, Settled
<1> QED
  BY <1>1 DEF Shape, Settled, Kept, Clean, Fields

LEMMA ReturnedIs ==
  ASSUME NEW d, Shape(d), NEW w, NEW b
  PROVE  Kept(Returned(d, w, b), d) /\ Clean(Returned(d, w, b))
<1> DEFINE s == Settled(d)
<1>1. Kept(s, d) /\ Clean(s)
  BY SettledIs
<1> HIDE DEF s
<1>2. Shape(Returned(d, w, b))
  BY <1>1 DEF Shape, Returned, Kept, s
<1> QED
  BY <1>1, <1>2 DEF Shape, Returned, Kept, Clean, Fields, s

LEMMA StoredIs ==
  ASSUME NEW d, Shape(d)
  PROVE  Kept(Stored(d), d) /\ Clean(Stored(d))
<1> DEFINE s == Settled(d)
<1>1. Kept(s, d) /\ Clean(s)
  BY SettledIs
<1> HIDE DEF s
<1>2. Shape(Stored(d))
  BY <1>1 DEF Shape, Stored, Kept, s
<1> QED
  BY <1>1, <1>2 DEF Shape, Stored, Kept, Clean, Fields, s

\* What the relevant fields of two descriptors have in common.
SameLocals(e, d) ==
  /\ e.arg = d.arg /\ e.l = d.l /\ e.ts = d.ts /\ e.seenStatus = d.seenStatus
  /\ e.op = d.op /\ e.i = d.i

\* Only thread t moves.
Moves(t) ==
  /\ tx' = [u \in Thread |-> tx'[u]]
  /\ \A u \in Thread : u # t => tx'[u] = tx[u]

LEMMA BecomeIs ==
  ASSUME tx = [u \in Thread |-> tx[u]], NEW t \in Thread, NEW d, Shape(d), NEW lab,
         Become(t, d, lab)
  PROVE  /\ Moves(t)
         /\ tx'[t].pc = lab
         /\ Kept(tx'[t], d) /\ SameLocals(tx'[t], d)
<1> DEFINE e == [d EXCEPT !.pc = lab]
<1>1. Shape(e)
  BY DEF Shape
<1>2. e.pc = lab /\ Kept(e, d) /\ SameLocals(e, d)
  BY <1>1 DEF Shape, Kept, SameLocals, Fields
<1>3. tx' = [tx EXCEPT ![t] = e]
  BY DEF Become
<1> HIDE DEF e
<1>4. Moves(t)
  BY <1>3 DEF Moves
<1>5. tx'[t] = e
  BY <1>3
<1> QED
  BY <1>2, <1>4, <1>5

-----------------------------------------------------------------------------
(***************************************************************************)
(* Steps that touch no lock, no log and no memory                          *)
(***************************************************************************)
\* What the memory owes to the log of thread u stays as it is.
LogUnseen(u) ==
  /\ W(u)' = W(u)
  /\ ~WriteThrough => \A a \in Addr, j \in Nat : (Pending(u, a, j)' <=> Pending(u, a, j))
  /\ WriteThrough => \A a \in Addr, j \in Nat : (ToUndo(u, a, j)' <=> ToUndo(u, a, j))
  /\ At(u, "validate")' /\ tx'[u].ts # 0 =>
       \/ At(u, "validate") /\ tx[u].ts = tx'[u].ts
       \/ tx'[u].ts = clock' /\ clock' > clock

\* What the invariant sees of thread u stays as it is.
Unseen(u) ==
  /\ LogUnseen(u)
  /\ W(u)' = W(u) /\ tx'[u].gen = tx[u].gen
  /\ Killed(u)' <=> Killed(u)
  /\ Held(u)' = Held(u)
  /\ ~At(u, "do_write") => ~At(u, "do_write")'
  /\ At(u, "do_write")' => tx'[u].arg = tx[u].arg /\ tx'[u].l = tx[u].l
  /\ At(u, "do_write") => At(u, "do_write")'

\* A status another thread has seen and is about to act upon does not come back.
StatusKept(u) ==
  \A v \in Thread \ {u} :
    /\ At(v, "kill") /\ tx[v].l.owner = u /\ tx[v].seenStatus[2] = "ACTIVE"
    /\ StatusWord(u)' = tx[v].seenStatus
    => StatusWord(u) = tx[v].seenStatus

Frame == build' = build /\ UNCHANGED <<clock, locks, mem, hist>>

Quiet(t) ==
  /\ build' = build /\ UNCHANGED <<locks, mem, hist>> /\ clock' \in {clock, clock + 1}
  /\ Moves(t)
  /\ TxTypes(tx'[t]) /\ LocalOK(t)' /\ Unseen(t) /\ StatusKept(t)
  /\ \A other \in Thread : tx'[t].l.owner = other => StealOK(t, other)'

LEMMA SameTx ==
  ASSUME TypeOK, NEW u \in Thread, build' = build, tx'[u] = tx[u]
  PROVE  TxTypes(tx'[u]) /\ Unseen(u) /\ (LocalOK(u)' <=> LocalOK(u))
<1>1. TxTypes(tx'[u])
  BY DEF TypeOK
<1>2. W(u)' = W(u)
  BY DEF W
<1>3. WriteThrough' = WriteThrough /\ Modular' = Modular
  BY DEF WriteThrough, Modular
<1>4. \A lab : At(u, lab)' <=> At(u, lab)
  BY DEF At
<1>5. Held(u)' = Held(u)
  BY <1>2, <1>3, <1>4 DEF Held, Releasing
<1>6. \A a \in Addr, j \in Nat : (Pending(u, a, j)' <=> Pending(u, a, j))
  BY <1>2, <1>4 DEF Pending
<1>7. \A a \in Addr, j \in Nat : (ToUndo(u, a, j)' <=> ToUndo(u, a, j))
  BY <1>2, <1>4 DEF ToUndo
<1>8. Unseen(u)
  BY <1>2, <1>4, <1>5, <1>6, <1>7 DEF Unseen, LogUnseen, Killed
<1>9. InCall(u)' <=> InCall(u)
  BY <1>4 DEF InCall
<1>10. LocalOK(u)' <=> LocalOK(u)
  BY <1>2, <1>3, <1>4, <1>9 DEF LocalOK, CallsBound, LabelsOfBuild, TicketPhase, Position,
     StatusPhase, Remembers
<1> QED
  BY <1>1, <1>8, <1>10

\* A step that changes neither the history nor a log.
LEMMA HistoryKept ==
  ASSUME Inv, hist' = hist, clock' \in {clock, clock + 1},
         \A u \in Thread : W(u)' = W(u),
         \A u \in Thread : At(u, "validate")' /\ tx'[u].ts # 0 =>
           \/ At(u, "validate") /\ tx[u].ts = tx'[u].ts
           \/ tx'[u].ts = clock' /\ clock' > clock
  PROVE  HistoryInv'
<1>1. clock \in Nat /\ \A h \in hist : h.ts \in Nat
  BY DEF Inv, TypeOK
<1>2. clock <= clock' /\ clock' \in Nat
  BY <1>1
<1>3. \A h \in hist : h.ts <= clock
  BY DEF Inv, HistoryInv
<1>4. \A h \in hist' : h.ts <= clock'
  BY <1>1, <1>2, <1>3
<1>5. ASSUME NEW u \in Thread, At(u, "validate")', tx'[u].ts # 0
      PROVE  /\ tx'[u].ts <= clock'
             /\ \A j \in DOMAIN W(u)', h \in hist' : h.addr = W(u)'[j].addr => h.ts < tx'[u].ts
  <2>1. CASE At(u, "validate") /\ tx[u].ts = tx'[u].ts
    <3>1. tx[u].ts \in Nat
      BY DEF Inv, TypeOK, TxTypes
    <3>2. /\ tx[u].ts <= clock
          /\ \A j \in DOMAIN W(u), h \in hist : h.addr = W(u)[j].addr => h.ts < tx[u].ts
      BY <1>5, <2>1 DEF Inv, HistoryInv
    <3> QED
      BY <1>1, <1>2, <2>1, <3>1, <3>2
  <2>2. CASE tx'[u].ts = clock' /\ clock' > clock
    BY <1>1, <1>2, <1>3, <2>2
  <2> QED
    BY <1>5, <2>1, <2>2
<1> QED
  BY <1>4, <1>5 DEF HistoryInv

\* A step that changes neither memory nor history, and no log.
LEMMA MemoryKept ==
  ASSUME Inv, build' = build, UNCHANGED <<mem, hist>>, clock' \in {clock, clock + 1},
         \A u \in Thread : LogUnseen(u)
  PROVE  MemoryInv' /\ HistoryInv'
<1>4. WriteThrough' = WriteThrough
  BY DEF WriteThrough
<1>5. \A u \in Thread : W(u)' = W(u)
  BY DEF LogUnseen
<1>15. \A a, w : Latest(a, w)' <=> Latest(a, w)
  BY DEF Latest
<1>16. \A u \in Thread : DOMAIN W(u) \subseteq Nat
  BY DEF Inv, TypeOK, TxTypes, W
<1>17. MemoryInv'
  <2>1. CASE ~WriteThrough
    BY <2>1, <1>4, <1>5, <1>15, <1>16 DEF Inv, MemoryInv, LogUnseen
  <2>2. CASE WriteThrough
    BY <2>2, <1>4, <1>5, <1>15, <1>16 DEF Inv, MemoryInv, LogUnseen
  <2> QED
    BY <2>1, <2>2
<1>18. HistoryInv'
  BY HistoryKept DEF LogUnseen
<1> QED
  BY <1>17, <1>18

\* A quiet step preserves the invariant.
LEMMA QuietInv ==
  ASSUME Inv, NEW t \in Thread, Quiet(t)
  PROVE  Inv'
<1> USE DEF Quiet
<1>1. \A u \in Thread : TxTypes(tx'[u]) /\ Unseen(u) /\ LocalOK(u)'
  BY SameTx DEF Inv, LocalInv, Moves
<1>2. TypeOK'
  BY <1>1 DEF Inv, TypeOK, Moves
<1>3. LocalInv'
  BY <1>1 DEF LocalInv
<1>4. WriteThrough' = WriteThrough /\ LockOf' = LockOf
  BY DEF WriteThrough, LockOf
<1>5. \A u \in Thread : W(u)' = W(u) /\ Held(u)' = Held(u) /\ (Killed(u)' <=> Killed(u))
  BY <1>1 DEF Unseen
<1>6. \A u \in Thread : \A j : LockAt(u, j)' = LockAt(u, j)
  BY <1>4, <1>5 DEF LockAt, W
<1>7. \A u \in Thread : At(u, "do_write")' <=> At(u, "do_write")
  BY <1>1 DEF Unseen
<1>8. \A u \in Thread : At(u, "do_write") => ArgLock(u)' = ArgLock(u) /\ tx'[u].l = tx[u].l
  BY <1>1, <1>4 DEF Unseen, ArgLock
<1>9. OwnerHolds'
  BY <1>1, <1>4, <1>5, <1>6, <1>7, <1>8 DEF Inv, LockInv, OwnerHolds, OwnerHoldsOf, Unseen
<1>10. HolderOwns'
  BY <1>4, <1>5, <1>6, <1>7, <1>8 DEF Inv, LockInv, HolderOwns, HolderOwnsOf
<1>11. FirstDrops'
  BY <1>4, <1>5, <1>6, <1>7, <1>8 DEF Inv, LockInv, FirstDrops, FirstDropsOf, LOCK_GET_OWNED
<1>12. LinksForward'
  BY <1>4, <1>5 DEF Inv, LockInv, LinksForward, LinksForwardOf
<1>13. Linking'
  BY <1>4, <1>5, <1>6 DEF Inv, LockInv, Linking, LinkingOf
<1>14. StealSafe'
  <2> SUFFICES ASSUME NEW u \in Thread, NEW other \in Thread, tx'[u].l.owner = other
               PROVE  StealOK(u, other)'
    BY DEF StealSafe
  <2>1. CASE u = t
    BY <2>1
  <2>2. CASE u # t
    <3>1. tx'[u] = tx[u]
      BY <2>2 DEF Moves
    <3>2. StealOK(u, other)
      BY <3>1 DEF Inv, LockInv, StealSafe
    <3>3. At(u, "kill") /\ tx[u].seenStatus[2] = "ACTIVE"
          /\ StatusWord(other)' = tx[u].seenStatus => StatusWord(other) = tx[u].seenStatus
      <4>1. CASE other = t
        BY <2>2, <3>1, <4>1 DEF StatusKept
      <4>2. CASE other # t
        BY <4>2 DEF Moves, StatusWord
      <4> QED
        BY <4>1, <4>2
    <3> QED
      BY <1>1, <3>1, <3>2, <3>3 DEF StealOK, Unseen, At
  <2> QED
    BY <2>1, <2>2
<1>20. WriteLocked'
  BY DEF Inv, LockInv, WriteLocked, LOCK_GET_OWNED
<1>21. MemoryInv' /\ HistoryInv'
  BY <1>1, MemoryKept DEF Unseen, LogUnseen, Moves
<1> QED
  BY <1>2, <1>3, <1>9, <1>10, <1>11, <1>12, <1>13, <1>14, <1>20, <1>21 DEF Inv, LockInv

\* Labels at which a transaction holds every lock of its log, and has neither
\* begun to write back nor to undo.
QuietLabels == (CallLabels \ {"do_write"}) \cup {"app", "validate", "commit_clock", "rollback"}

LEMMA QuietMove ==
  ASSUME Inv, NEW t \in Thread, Frame, Moves(t), TxTypes(tx'[t]), LocalOK(t)',
         tx[t].pc \in QuietLabels, tx'[t].pc \in QuietLabels,
         tx'[t].w_set = tx[t].w_set, tx'[t].gen = tx[t].gen, tx'[t].counter = tx[t].counter,
         tx'[t].status = "KILLED" <=> tx[t].status = "KILLED",
         tx'[t].status = "ACTIVE" => tx[t].status = "ACTIVE",
         tx'[t].pc = "validate" /\ tx'[t].ts # 0 => tx[t].pc = "validate" /\ tx[t].ts = tx'[t].ts,
         \A other \in Thread : tx'[t].l.owner = other => StealOK(t, other)'
  PROVE  Inv'
<1>1. W(t)' = W(t)
  BY DEF W
<1>2. /\ tx[t].pc \notin {"do_write", "end", "write_back", "release", "undo", "undo_clock",
                          "undo_release", "drop", "drop_reads"}
      /\ tx'[t].pc \notin {"do_write", "end", "write_back", "release", "undo", "undo_clock",
                           "undo_release", "drop", "drop_reads"}
  BY DEF QuietLabels, CallLabels
<1>3. Held(t)' = Held(t)
  BY <1>1, <1>2 DEF Held, Releasing, At
<1>4. \A a \in Addr, j \in Nat : Pending(t, a, j)' <=> Pending(t, a, j)
  BY <1>2 DEF Pending, At
<1>5. \A a \in Addr, j \in Nat : ToUndo(t, a, j)' <=> ToUndo(t, a, j)
  BY <1>1, <1>2 DEF ToUndo, At
<1>6. Unseen(t)
  BY <1>1, <1>2, <1>3, <1>4, <1>5 DEF Unseen, LogUnseen, Killed, At
<1>7. StatusKept(t)
  BY DEF StatusKept, StatusWord
<1> QED
  BY <1>6, <1>7, QuietInv DEF Quiet, Frame

\* The fields every quiet step of a call keeps.
CallKeeps(t) ==
  /\ Shape(tx'[t]) /\ tx'[t].status = tx[t].status /\ tx'[t].counter = tx[t].counter
  /\ tx'[t].w_set = tx[t].w_set /\ tx'[t].size = tx[t].size /\ tx'[t].gen = tx[t].gen

LEMMA KeptKeeps ==
  ASSUME NEW t \in Thread, NEW d, Kept(tx'[t], d), d.status = tx[t].status,
         d.counter = tx[t].counter, d.w_set = tx[t].w_set, d.size = tx[t].size,
         d.gen = tx[t].gen
  PROVE  CallKeeps(t) /\ tx'[t].calls = d.calls
BY DEF CallKeeps, Kept

\* A step to the rollback of the transaction.
LEMMA RollbackMove ==
  ASSUME Inv, NEW t \in Thread, Frame, tx[t].pc \in QuietLabels \ {"rollback"},
         NEW d, Shape(d), d.status = tx[t].status,
         d.counter = tx[t].counter, d.w_set = tx[t].w_set, d.size = tx[t].size,
         d.gen = tx[t].gen, d.calls \in Nat,
         Rollback(t, d)
  PROVE  Inv'
<1> DEFINE s == Settled(d)
<1>1. Kept(s, d) /\ Clean(s)
  BY SettledIs
<1>2. Become(t, s, "rollback")
  BY DEF Rollback
<1> HIDE DEF s
<1>3. Shape(s)
  BY <1>1 DEF Kept
<1>4. Moves(t) /\ tx'[t].pc = "rollback" /\ Kept(tx'[t], s) /\ SameLocals(tx'[t], s)
  BY <1>2, <1>3, BecomeIs DEF Inv, TypeOK
<1>5. Kept(tx'[t], d) /\ Clean(tx'[t])
  BY <1>1, <1>4 DEF Kept, SameLocals, Clean
<1>6. CallKeeps(t) /\ tx'[t].calls = d.calls
  BY <1>5, KeptKeeps
<1>7. TxTypes(tx'[t])
  BY <1>4, <1>5, <1>6, Constants
     DEF Inv, TypeOK, TxTypes, Clean, CallKeeps, Labels, AbortLabels
<1>8. LocalOK(t)
  BY DEF Inv, LocalInv
<1>9. LocalOK(t)'
  BY <1>4, <1>5, <1>6, <1>8
     DEF LocalOK, CallsBound, LabelsOfBuild, TicketPhase, Position, StatusPhase, Remembers,
         InCall, At, CallKeeps, Clean, W, ReadLabels, Modular, WriteThrough, ArbiterLabels, CallLabels,
         FreeLabels, Frame
<1>10. \A other \in Thread : StealOK(t, other)'
  BY <1>4 DEF StealOK, At
<1> QED
  BY <1>4, <1>6, <1>7, <1>9, <1>10, QuietMove DEF CallKeeps, QuietLabels, CallLabels, Frame

\* A call returns to the application.
LEMMA ReturnMove ==
  ASSUME Inv, NEW t \in Thread, Frame, InCall(t), ~At(t, "do_write"),
         NEW d, Kept(d, tx[t]), Clean(d), Become(t, d, "app")
  PROVE  Inv'
<1>1. Shape(d)
  BY DEF Kept
<1>2. Moves(t) /\ tx'[t].pc = "app" /\ Kept(tx'[t], d) /\ SameLocals(tx'[t], d)
  BY <1>1, BecomeIs DEF Inv, TypeOK
<1>3. CallKeeps(t) /\ tx'[t].calls = tx[t].calls /\ Clean(tx'[t])
  BY <1>2 DEF Kept, SameLocals, Clean, CallKeeps
<1>4. TxTypes(tx'[t])
  BY <1>2, <1>3, Constants DEF Inv, TypeOK, TxTypes, Clean, CallKeeps, Labels
<1>5. LocalOK(t) /\ Len(W(t)) \in Nat
  BY DEF Inv, LocalInv, TypeOK, TxTypes, W
<1>6. LocalOK(t)'
  BY <1>2, <1>3, <1>4, <1>5
     DEF LocalOK, CallsBound, LabelsOfBuild, TicketPhase, Position, StatusPhase, Remembers,
         InCall, At, CallKeeps, Clean, W, ReadLabels, Modular, WriteThrough, ArbiterLabels, CallLabels,
         FreeLabels, Frame, TxTypes
<1>7. \A other \in Thread : StealOK(t, other)'
  BY <1>2 DEF StealOK, At
<1>8. tx[t].pc \in QuietLabels
  BY DEF InCall, At, QuietLabels
<1> QED
  BY <1>2, <1>3, <1>4, <1>6, <1>7, <1>8, QuietMove DEF CallKeeps, QuietLabels, CallLabels, Frame

\* A call goes on, or begins.
LEMMA CallMove ==
  ASSUME Inv, NEW t \in Thread, Frame, InCall(t) \/ At(t, "app"), ~At(t, "do_write"),
         NEW d, Shape(d), d.status = tx[t].status,
         d.counter = tx[t].counter, d.w_set = tx[t].w_set, d.size = tx[t].size,
         d.gen = tx[t].gen,
         InCall(t) => d.calls = tx[t].calls,
         At(t, "app") => d.calls = tx[t].calls + 1 /\ tx[t].calls < build.MaxCalls[t],
         d.arg \in Argument, d.l \in LockWord, d.op \in {"read", "vread", "write"},
         d.ts = tx[t].ts,
         NEW lab \in (CallLabels \ {"do_write"}) \cup {"validate"}, Become(t, d, lab),
         ~Modular => lab \notin ArbiterLabels \cup {"vread"} /\ d.op # "vread",
         lab \in ArbiterLabels => d.l.owner \in Thread \ {t},
         lab = "upgrade" => d.l.owner = t,
         lab \in ReadLabels \cup {"validate"} => ~d.l.write,
         lab \in {"conflict2", "kill"} => d.seenStatus # <<>> /\ d.seenStatus[1] = d.l.owner,
         lab = "kill" /\ d.seenStatus[2] = "ACTIVE" /\ StatusWord(d.l.owner) = d.seenStatus
           => W(d.l.owner) # <<>>,
         lab = "steal" => \/ d.l.inc # tx[d.l.owner].gen
                          \/ Killed(d.l.owner) /\ W(d.l.owner) # <<>>
  PROVE  Inv'
<1>1. Moves(t) /\ tx'[t].pc = lab /\ Kept(tx'[t], d) /\ SameLocals(tx'[t], d)
  BY BecomeIs DEF Inv, TypeOK
<1>2. CallKeeps(t) /\ tx'[t].calls = d.calls
  BY <1>1, KeptKeeps
<1>3. TxTypes(tx[t]) /\ LocalOK(t) /\ Len(W(t)) \in Nat
  BY DEF Inv, LocalInv, TypeOK, TxTypes, W
<1>4. build.MaxCalls[t] \in Nat /\ build.RW_SET_SIZE \in Nat
  BY BuildIs DEF Inv, TypeOK
<1>5. tx[t].ts = 0
  BY <1>3 DEF LocalOK, TicketPhase, InCall, At
<1>6. tx'[t].calls \in Nat
  BY <1>2, <1>3 DEF TxTypes
<1>7. TxTypes(tx'[t])
  BY <1>1, <1>2, <1>3, <1>6 DEF TxTypes, CallKeeps, Labels, SameLocals
<1>8. CallsBound(t)'
  BY <1>1, <1>2, <1>3, <1>4 DEF LocalOK, CallsBound, CallKeeps, W, At, InCall, TxTypes, Frame,
     CallLabels
<1>9. LabelsOfBuild(t)'
  BY <1>1, <1>2, <1>3 DEF LocalOK, LabelsOfBuild, CallKeeps, SameLocals, Modular, WriteThrough,
     Frame, CallLabels, ArbiterLabels
<1>10. TicketPhase(t)' /\ Position(t)' /\ StatusPhase(t)'
  BY <1>1, <1>2, <1>5 DEF TicketPhase, Position, StatusPhase, InCall, At, SameLocals, CallLabels,
     FreeLabels
<1>11. Remembers(t)'
  BY <1>1 DEF Remembers, SameLocals, At
<1>12. LocalOK(t)'
  BY <1>8, <1>9, <1>10, <1>11 DEF LocalOK
<1>13. ASSUME NEW other \in Thread, tx'[t].l.owner = other
       PROVE  StealOK(t, other)'
  <2>1. d.l.owner = other /\ tx'[t].l = d.l /\ tx'[t].seenStatus = d.seenStatus
    BY <1>1, <1>13 DEF SameLocals
  <2>2. tx'[other].status = tx[other].status /\ tx'[other].counter = tx[other].counter
        /\ W(other)' = W(other) /\ tx'[other].gen = tx[other].gen
    BY <1>1, <1>2 DEF Moves, CallKeeps, W
  <2>3. StatusWord(other)' = StatusWord(other) /\ (Killed(other)' <=> Killed(other))
    BY <2>2 DEF StatusWord, Killed
  <2> QED
    BY <1>1, <2>1, <2>2, <2>3 DEF StealOK, At
<1>14. tx[t].pc \in QuietLabels /\ tx'[t].pc \in QuietLabels
  BY <1>1 DEF QuietLabels, CallLabels, InCall, At
<1> QED
  BY <1>1, <1>2, <1>5, <1>7, <1>12, <1>13, <1>14, QuietMove DEF CallKeeps, SameLocals

-----------------------------------------------------------------------------
(***************************************************************************)
(* Conflicts                                                               *)
(***************************************************************************)
\* The owner of a lock recognises it.
LEMMA OwnLock ==
  ASSUME Inv, NEW t \in Thread, NEW k \in Lock, locks[k].owner = t
  PROVE  Ours(t, locks[k])
<1>1. CASE WriteThrough
  BY <1>1 DEF Ours
<1>2. CASE ~WriteThrough
  <2>1. locks[k].inc = tx[t].gen /\ locks[k].n \in DOMAIN W(t)
    BY <1>2 DEF Inv, LockInv, OwnerHolds, OwnerHoldsOf
  <2> QED
    BY <2>1 DEF Ours, W, Inv, TypeOK, TxTypes
<1> QED
  BY <1>1, <1>2

LEMMA ArgLockIs ==
  ASSUME Inv, NEW t \in Thread
  PROVE  ArgLock(t) \in Lock /\ locks[ArgLock(t)] \in LockWord /\ TxTypes(tx[t])
<1>1. TxTypes(tx[t]) /\ tx[t].arg.addr \in Addr
  BY DEF Inv, TypeOK, TxTypes, Argument
<1> QED
  BY <1>1, BuildIs DEF Inv, TypeOK, ArgLock

LEMMA ForeignLock ==
  ASSUME Inv, NEW t \in Thread, NEW k \in Lock, LOCK_GET_OWNED(locks[k]), ~Ours(t, locks[k])
  PROVE  locks[k].owner \in Thread \ {t}
BY OwnLock DEF LOCK_GET_OWNED, Inv, TypeOK, LockWord

LEMMA ConflictMove ==
  ASSUME Inv, NEW t \in Thread, Frame, InCall(t), ~At(t, "do_write"),
         NEW w \in LockWord, w.owner \in Thread \ {t}, Conflict(t, tx[t], w)
  PROVE  Inv'
<1>1. TxTypes(tx[t]) /\ LocalOK(t)
  BY DEF Inv, TypeOK, LocalInv
<1>2. ~At(t, "app")
  BY DEF InCall, At, CallLabels
<1>3. CASE Modular
  <2> DEFINE d == [tx[t] EXCEPT !.l = w]
  <2>1. /\ Kept(d, tx[t]) /\ d.l = w
        /\ d.arg = tx[t].arg /\ d.op = tx[t].op /\ d.ts = tx[t].ts
    <3>1. Shape(d)
      BY <1>1 DEF TxTypes, Shape
    <3> QED
      BY <1>1, <3>1 DEF TxTypes, Shape, Fields, Kept
  <2>2. Become(t, d, "conflict")
    BY <1>3 DEF Conflict
  <2> HIDE DEF d
  <2> QED
    BY <1>1, <1>2, <1>3, <2>1, <2>2, CallMove DEF Kept, TxTypes, CallLabels, ReadLabels
<1>4. CASE ~Modular
  <2> DEFINE d == [tx[t] EXCEPT !.c_lock = IF build.CM = "DELAY" THEN {ArgLock(t)} ELSE {}]
  <2>1. Kept(d, tx[t])
    <3>1. Shape(d)
      BY <1>1 DEF TxTypes, Shape
    <3> QED
      BY <1>1, <3>1 DEF TxTypes, Shape, Fields, Kept
  <2>2. Rollback(t, d)
    BY <1>4 DEF Conflict
  <2> HIDE DEF d
  <2>3. tx[t].pc \in QuietLabels \ {"rollback"}
    BY DEF InCall, At, QuietLabels, CallLabels
  <2> QED
    BY <1>1, <2>1, <2>2, <2>3, RollbackMove DEF Kept, TxTypes
<1> QED
  BY <1>3, <1>4

\* A restart of the call forgets the conflict.
LEMMA RestartMove ==
  ASSUME Inv, NEW t \in Thread, Frame, InCall(t), ~At(t, "do_write"), Restart(t)
  PROVE  Inv'
<1>1. TxTypes(tx[t]) /\ LocalOK(t)
  BY DEF Inv, TypeOK, LocalInv
<1>2. ~At(t, "app")
  BY DEF InCall, At, CallLabels
<1> DEFINE d == [tx[t] EXCEPT !.l = ZeroLock, !.seenStatus = <<>>]
<1>3. /\ Kept(d, tx[t]) /\ d.l = ZeroLock
      /\ d.arg = tx[t].arg /\ d.op = tx[t].op /\ d.ts = tx[t].ts
  <2>1. Shape(d)
    BY <1>1 DEF TxTypes, Shape
  <2> QED
    BY <1>1, <2>1 DEF TxTypes, Shape, Fields, Kept
<1>4. Become(t, d, tx[t].op)
  BY DEF Restart
<1> HIDE DEF d
<1>5. /\ tx[t].op \in (CallLabels \ {"do_write"}) \cup {"validate"}
      /\ tx[t].op \notin ArbiterLabels \cup {"upgrade"}
      /\ tx[t].op \notin {"conflict2", "kill", "steal"} \cup ReadLabels \cup {"validate"}
  BY <1>1 DEF TxTypes, CallLabels, ArbiterLabels, ReadLabels
<1>6. ~Modular => tx[t].op # "vread"
  BY <1>1 DEF LocalOK, LabelsOfBuild
<1> HIDE DEF Modular
<1>7. d.arg \in Argument /\ d.l \in LockWord /\ d.op \in {"read", "vread", "write"}
  BY <1>1, <1>3, Constants DEF TxTypes
<1> QED
  BY <1>1, <1>2, <1>3, <1>4, <1>5, <1>6, <1>7, CallMove DEF Kept

LEMMA ReadOwnerStatusInv ==
  ASSUME Inv, NEW t \in Thread, build' = build, ReadOwnerStatus(t)
  PROVE  Inv'
<1>1. TxTypes(tx[t]) /\ LocalOK(t) /\ Frame
  BY DEF Inv, TypeOK, LocalInv, Frame, ReadOwnerStatus
<1>2. ~At(t, "app") /\ InCall(t) /\ ~At(t, "do_write")
  BY DEF InCall, At, CallLabels, ReadOwnerStatus
<1>3. tx[t].l.owner \in Thread \ {t} /\ Modular
  BY <1>1 DEF LocalOK, Remembers, LabelsOfBuild, ReadOwnerStatus, At, ArbiterLabels
<1> DEFINE d == [tx[t] EXCEPT !.seenStatus = StatusWord(tx[t].l.owner)]
<1>4. /\ Kept(d, tx[t]) /\ d.l = tx[t].l /\ d.seenStatus = StatusWord(tx[t].l.owner)
      /\ d.arg = tx[t].arg /\ d.op = tx[t].op /\ d.ts = tx[t].ts
  <2>1. Shape(d)
    BY <1>1 DEF TxTypes, Shape
  <2> QED
    BY <1>1, <2>1 DEF TxTypes, Shape, Fields, Kept
<1>5. Become(t, d, "conflict2")
  BY DEF ReadOwnerStatus
<1> HIDE DEF d
<1>6. d.seenStatus # <<>> /\ d.seenStatus[1] = d.l.owner
  BY <1>4 DEF StatusWord
<1> QED
  BY <1>1, <1>2, <1>3, <1>4, <1>5, <1>6, CallMove DEF Kept, TxTypes, CallLabels, ReadLabels

\* WRITE_BACK_ETL: who owns a lock has a log.
LEMMA OwnerHasLog ==
  ASSUME Inv, ~WriteThrough, NEW u \in Thread, NEW k \in Lock, locks[k].owner = u
  PROVE  W(u) # <<>> /\ locks[k].inc = tx[u].gen
BY DEF Inv, LockInv, OwnerHolds, OwnerHoldsOf, TypeOK, TxTypes, W

LEMMA ArbitrateInv ==
  ASSUME Inv, NEW t \in Thread, build' = build, Arbitrate(t)
  PROVE  Inv'
<1>1. TxTypes(tx[t]) /\ LocalOK(t) /\ Frame /\ At(t, "conflict2")
  BY DEF Inv, TypeOK, LocalInv, Frame, Arbitrate
<1>2. ~At(t, "app") /\ InCall(t) /\ ~At(t, "do_write") /\ tx[t].pc \in QuietLabels \ {"rollback"}
  BY <1>1 DEF InCall, At, CallLabels, QuietLabels
<1> DEFINE other == tx[t].l.owner
           d == tx[t]
<1>3. /\ other \in Thread \ {t} /\ Modular /\ ~WriteThrough
      /\ d.seenStatus # <<>> /\ d.seenStatus[1] = other
  BY <1>1, BuildIs DEF LocalOK, Remembers, LabelsOfBuild, At, ArbiterLabels, Inv, TypeOK
<1>4. CASE Restart(t)
  BY <1>1, <1>2, <1>4, RestartMove
<1>5. ASSUME locks[ArgLock(t)] = d.l, StatusWord(other) = d.seenStatus
      PROVE  W(other) # <<>> /\ d.seenStatus[2] = tx[other].status
  <2>1. W(other) # <<>>
    BY <1>3, <1>5, ArgLockIs, OwnerHasLog
  <2>2. StatusWord(other)[2] = tx[other].status
    BY DEF StatusWord
  <2> QED
    BY <1>5, <2>1, <2>2
<1>6. ASSUME locks[ArgLock(t)] = d.l, StatusWord(other) = d.seenStatus,
             d.seenStatus[2] = "KILLED", Become(t, d, "steal")
      PROVE  Inv'
  <2>1. Killed(other) /\ W(other) # <<>>
    BY <1>5, <1>6 DEF Killed
  <2> QED
    BY <1>1, <1>2, <1>3, <1>6, <2>1, CallMove DEF TxTypes, CallLabels, ReadLabels
<1>7. ASSUME locks[ArgLock(t)] = d.l, StatusWord(other) = d.seenStatus, Become(t, d, "kill")
      PROVE  Inv'
  <2>1. W(other) # <<>>
    BY <1>5, <1>7
  <2> QED
    BY <1>1, <1>2, <1>3, <1>7, <2>1, CallMove DEF TxTypes, CallLabels, ReadLabels
<1>8. ASSUME NEW c, Rollback(t, [d EXCEPT !.c_lock = c])
      PROVE  Inv'
  <2> DEFINE e == [d EXCEPT !.c_lock = c]
  <2>1. Kept(e, tx[t])
    <3>1. Shape(e)
      BY <1>1 DEF TxTypes, Shape
    <3> QED
      BY <1>1, <3>1 DEF TxTypes, Shape, Fields, Kept
  <2> HIDE DEF e
  <2> QED
    BY <1>1, <1>2, <1>8, <2>1, RollbackMove DEF e, Kept, TxTypes
<1> QED
  BY <1>4, <1>6, <1>7, <1>8 DEF Arbitrate

-----------------------------------------------------------------------------
(***************************************************************************)
(* Loads                                                                   *)
(***************************************************************************)
LEMMA ReadOursMove ==
  ASSUME Inv, NEW t \in Thread, Frame, InCall(t), ~At(t, "do_write"), NEW w, ReadOurs(t, w)
  PROVE  Inv'
<1>1. TxTypes(tx[t]) /\ LocalOK(t) /\ Shape(tx[t])
  BY DEF Inv, TypeOK, LocalInv, TxTypes
<1>2. ~At(t, "app") /\ tx[t].pc \in QuietLabels \ {"rollback"}
  BY DEF InCall, At, CallLabels, QuietLabels
<1>3. CASE Rollback(t, tx[t])
  BY <1>1, <1>2, <1>3, RollbackMove DEF TxTypes
<1>4. ASSUME NEW v, Become(t, Returned(tx[t], v, FALSE), "app")
      PROVE  Inv'
  <2> DEFINE e == Returned(tx[t], v, FALSE)
  <2>1. Kept(e, tx[t]) /\ Clean(e)
    BY <1>1, ReturnedIs
  <2> HIDE DEF e
  <2> QED
    BY <1>4, <2>1, ReturnMove DEF e
<1>5. ASSUME NEW n, Become(t, [tx[t] EXCEPT !.i = n], "own_value")
      PROVE  Inv'
  <2> DEFINE d == [tx[t] EXCEPT !.i = n]
  <2>1. /\ Kept(d, tx[t]) /\ d.l = tx[t].l
        /\ d.arg = tx[t].arg /\ d.op = tx[t].op /\ d.ts = tx[t].ts
    <3>1. Shape(d)
      BY <1>1 DEF TxTypes, Shape
    <3> QED
      BY <1>1, <3>1 DEF TxTypes, Shape, Fields, Kept
  <2> HIDE DEF d
  <2>2. ~Modular => tx[t].op # "vread"
    BY <1>1 DEF LocalOK, LabelsOfBuild
  <2> QED
    BY <1>1, <1>2, <1>5, <2>1, <2>2, CallMove DEF Kept, TxTypes, CallLabels, ReadLabels, ArbiterLabels, d
<1> QED
  BY <1>3, <1>4, <1>5 DEF ReadOurs

\* A lock word that is not write-locked, or one just loaded.
LEMMA DispatchMove ==
  ASSUME Inv, NEW t \in Thread, Frame, InCall(t), ~At(t, "do_write"),
         NEW w \in LockWord, w.write => w.owner \in Thread,
         w.write /\ w.owner = t => Ours(t, w), ReadDispatch(t, w)
  PROVE  Inv'
<1>1. TxTypes(tx[t]) /\ LocalOK(t) /\ Shape(tx[t])
  BY DEF Inv, TypeOK, LocalInv, TxTypes
<1>2. ~At(t, "app")
  BY DEF InCall, At, CallLabels
<1>3. CASE ~w.write
  <2> DEFINE d == [tx[t] EXCEPT !.l = w, !.value = ZeroWord]
  <2>1. /\ Kept(d, tx[t]) /\ d.l = w
        /\ d.arg = tx[t].arg /\ d.op = tx[t].op /\ d.ts = tx[t].ts
    <3>1. Shape(d)
      BY <1>1 DEF TxTypes, Shape
    <3> QED
      BY <1>1, <3>1 DEF TxTypes, Shape, Fields, Kept
  <2>2. Become(t, d, "read_value")
    BY <1>3 DEF ReadDispatch
  <2> HIDE DEF d
  <2>3. ~Modular => tx[t].op # "vread"
    BY <1>1 DEF LocalOK, LabelsOfBuild
  <2> QED
    BY <1>1, <1>2, <1>3, <2>1, <2>2, <2>3, CallMove DEF Kept, TxTypes, CallLabels, ReadLabels, ArbiterLabels
<1>4. CASE w.write /\ Ours(t, w)
  BY <1>4, ReadOursMove DEF ReadDispatch
<1>5. CASE w.write /\ ~Ours(t, w)
  BY <1>5, ConflictMove DEF ReadDispatch
<1> QED
  BY <1>3, <1>4, <1>5

\* Owned lock words are the only write-locked ones.
LEMMA WriteOwned ==
  ASSUME Inv, NEW t \in Thread, NEW k \in Lock
  PROVE  /\ locks[k] \in LockWord
         /\ locks[k].write => locks[k].owner \in Thread
         /\ locks[k].owner = t => Ours(t, locks[k])
BY OwnLock DEF Inv, TypeOK, LockInv, WriteLocked, LOCK_GET_OWNED, LockWord

LEMMA ReadLockInv ==
  ASSUME Inv, NEW t \in Thread, build' = build, ReadLock(t)
  PROVE  Inv'
<1>1. InCall(t) /\ ~At(t, "do_write") /\ Frame
  BY DEF InCall, At, CallLabels, ReadLock, Frame
<1> QED
  BY <1>1, ArgLockIs, WriteOwned, DispatchMove DEF ReadLock

\* A call goes on at lab with the same lock word, address and kind.
LEMMA StayMove ==
  ASSUME Inv, NEW t \in Thread, Frame, InCall(t), ~At(t, "do_write"),
         NEW d, Kept(d, tx[t]), d.l = tx[t].l, d.arg = tx[t].arg, d.op = tx[t].op,
         d.ts = tx[t].ts,
         NEW lab \in ReadLabels \cup {"validate", "own_value"}, Become(t, d, lab),
         lab # "own_value" => ~tx[t].l.write
  PROVE  Inv'
<1>1. TxTypes(tx[t]) /\ LocalOK(t)
  BY DEF Inv, TypeOK, LocalInv
<1>2. ~At(t, "app")
  BY DEF InCall, At, CallLabels
<1>3. ~Modular => tx[t].op # "vread"
  BY <1>1 DEF LocalOK, LabelsOfBuild
<1> QED
  BY <1>1, <1>2, <1>3, CallMove DEF Kept, TxTypes, CallLabels, ReadLabels, ArbiterLabels

\* An abort of the call under way.
LEMMA AbortMove ==
  ASSUME Inv, NEW t \in Thread, Frame, tx[t].pc \in QuietLabels \ {"rollback"},
         Rollback(t, tx[t])
  PROVE  Inv'
<1>1. TxTypes(tx[t])
  BY DEF Inv, TypeOK
<1> QED
  BY <1>1, RollbackMove DEF TxTypes

LEMMA InvalidReadMove ==
  ASSUME Inv, NEW t \in Thread, Frame, tx[t].pc \in QuietLabels \ {"rollback"}, InvalidRead(t)
  PROVE  Inv'
<1>1. TxTypes(tx[t])
  BY DEF Inv, TypeOK
<1>2. PICK n : Rollback(t, [tx[t] EXCEPT !.visible_reads = n])
  BY DEF InvalidRead
<1> DEFINE d == [tx[t] EXCEPT !.visible_reads = n]
<1>3. Kept(d, tx[t])
  <2>1. Shape(d)
    BY <1>1 DEF TxTypes, Shape
  <2> QED
    BY <1>1, <2>1 DEF TxTypes, Shape, Fields, Kept
<1> HIDE DEF d
<1> QED
  BY <1>1, <1>2, <1>3, RollbackMove DEF d, Kept, TxTypes

LEMMA AddToReadSetIs ==
  ASSUME NEW t, Shape(tx[t])
  PROVE  Kept(AddToReadSet(t), tx[t]) /\ Clean(AddToReadSet(t))
<1> DEFINE d == [tx[t] EXCEPT !.r_set = IF tx[t].ro THEN @
                   ELSE @ \cup {[lock |-> ArgLock(t), version |-> LockVersion(tx[t].l)]}]
<1>1. Kept(d, tx[t]) /\ Shape(d)
  <2>1. Shape(d)
    BY DEF Shape
  <2> QED
    BY <2>1 DEF Shape, Fields, Kept
<1>2. Kept(Returned(d, tx[t].value, TRUE), d) /\ Clean(Returned(d, tx[t].value, TRUE))
  BY <1>1, ReturnedIs
<1>3. AddToReadSet(t) = Returned(d, tx[t].value, TRUE)
  BY Zenon DEF AddToReadSet
<1> HIDE DEF d
<1> QED
  BY <1>1, <1>2, <1>3 DEF Kept

LEMMA ReadDoneMove ==
  ASSUME Inv, NEW t \in Thread, Frame, InCall(t), ~At(t, "do_write"), ReadDone(t)
  PROVE  Inv'
<1>1. TxTypes(tx[t]) /\ Shape(tx[t])
  BY DEF Inv, TypeOK, TxTypes
<1>2. tx[t].pc \in QuietLabels \ {"rollback"}
  BY DEF InCall, At, CallLabels, QuietLabels
<1>3. CASE tx[t].status = "KILLED"
  BY <1>2, <1>3, AbortMove DEF ReadDone
<1>4. CASE tx[t].status # "KILLED"
  BY <1>1, <1>4, AddToReadSetIs, ReturnMove DEF ReadDone
<1> QED
  BY <1>3, <1>4

LEMMA ReadOwnValueInv ==
  ASSUME Inv, NEW t \in Thread, build' = build, ReadOwnValue(t)
  PROVE  Inv'
<1>1. TxTypes(tx[t]) /\ Shape(tx[t])
  BY DEF Inv, TypeOK, TxTypes
<1>2. InCall(t) /\ ~At(t, "do_write") /\ Frame /\ tx[t].pc \in QuietLabels \ {"rollback"}
  BY DEF InCall, At, CallLabels, ReadOwnValue, Frame, QuietLabels
<1>3. CASE Rollback(t, tx[t])
  BY <1>2, <1>3, AbortMove
<1>4. ASSUME NEW v, NEW b, Become(t, Returned(tx[t], v, b), "app")
      PROVE  Inv'
  BY <1>1, <1>2, <1>4, ReturnedIs, ReturnMove
<1> QED
  BY <1>3, <1>4 DEF ReadOwnValue

LEMMA ReadValueInv ==
  ASSUME Inv, NEW t \in Thread, build' = build, ReadValue(t)
  PROVE  Inv'
<1>1. TxTypes(tx[t]) /\ LocalOK(t)
  BY DEF Inv, TypeOK, LocalInv
<1>2. InCall(t) /\ ~At(t, "do_write") /\ Frame
  BY DEF InCall, At, CallLabels, ReadValue, Frame
<1>3. ~tx[t].l.write
  BY <1>1 DEF LocalOK, Remembers, ReadValue, At, ReadLabels
<1> DEFINE d == [tx[t] EXCEPT !.value = mem[tx[t].arg.addr]]
<1>4. /\ Kept(d, tx[t]) /\ d.l = tx[t].l
      /\ d.arg = tx[t].arg /\ d.op = tx[t].op /\ d.ts = tx[t].ts
  <2>1. Shape(d)
    BY <1>1 DEF TxTypes, Shape
  <2> QED
    BY <1>1, <2>1 DEF TxTypes, Shape, Fields, Kept
<1>5. Become(t, d, "read_lock2")
  BY DEF ReadValue
<1> HIDE DEF d
<1> QED
  BY <1>2, <1>3, <1>4, <1>5, StayMove DEF ReadLabels

LEMMA ReadLock2Inv ==
  ASSUME Inv, NEW t \in Thread, build' = build, ReadLock2(t)
  PROVE  Inv'
<1>1. TxTypes(tx[t]) /\ LocalOK(t) /\ Shape(tx[t])
  BY DEF Inv, TypeOK, LocalInv, TxTypes
<1>2. InCall(t) /\ ~At(t, "do_write") /\ Frame /\ tx[t].pc \in QuietLabels \ {"rollback"}
  BY DEF InCall, At, CallLabels, ReadLock2, Frame, QuietLabels
<1>3. ~tx[t].l.write
  BY <1>1 DEF LocalOK, Remembers, ReadLock2, At, ReadLabels
<1>4. CASE ReadDispatch(t, locks[ArgLock(t)])
  BY <1>2, <1>4, ArgLockIs, WriteOwned, DispatchMove
<1>5. CASE ReadDone(t)
  BY <1>2, <1>5, ReadDoneMove
<1>6. CASE InvalidRead(t)
  BY <1>2, <1>6, InvalidReadMove
<1>7. CASE Become(t, tx[t], "extend")
  BY <1>1, <1>2, <1>3, <1>7, StayMove DEF Kept, ReadLabels
<1> QED
  BY <1>4, <1>5, <1>6, <1>7 DEF ReadLock2

LEMMA ExtendInv ==
  ASSUME Inv, NEW t \in Thread, build' = build, stm_extend(t)
  PROVE  Inv'
<1>1. TxTypes(tx[t]) /\ LocalOK(t)
  BY DEF Inv, TypeOK, LocalInv
<1>2. InCall(t) /\ ~At(t, "do_write") /\ Frame /\ tx[t].pc \in QuietLabels \ {"rollback"}
  BY DEF InCall, At, CallLabels, stm_extend, Frame, QuietLabels
<1>3. ~tx[t].l.write
  BY <1>1 DEF LocalOK, Remembers, stm_extend, At, ReadLabels
<1>4. CASE InvalidRead(t)
  BY <1>2, <1>4, InvalidReadMove
<1>5. CASE ~InvalidRead(t)
  <2> DEFINE d == [tx[t] EXCEPT !.now = clock, !.todo = tx[t].r_set]
  <2>1. /\ Kept(d, tx[t]) /\ d.l = tx[t].l
        /\ d.arg = tx[t].arg /\ d.op = tx[t].op /\ d.ts = tx[t].ts
    <3>1. Shape(d)
      BY <1>1 DEF TxTypes, Shape
    <3> QED
      BY <1>1, <3>1 DEF TxTypes, Shape, Fields, Kept
  <2>2. Become(t, d, "validate")
    BY <1>5 DEF stm_extend
  <2> HIDE DEF d
  <2> QED
    BY <1>2, <1>3, <2>1, <2>2, StayMove
<1> QED
  BY <1>4, <1>5

LEMMA ValidateInv ==
  ASSUME Inv, NEW t \in Thread, build' = build, NEW r, stm_validate(t, r)
  PROVE  Inv'
<1>1. TxTypes(tx[t]) /\ LocalOK(t)
  BY DEF Inv, TypeOK, LocalInv
<1>2. ~At(t, "do_write") /\ Frame /\ tx[t].pc = "validate" /\ tx[t].pc \in QuietLabels \ {"rollback"}
  BY DEF At, stm_validate, Frame, QuietLabels
<1>3. CASE InvalidRead(t)
  BY <1>2, <1>3, InvalidReadMove
<1>4. CASE ~InvalidRead(t)
  <2> DEFINE d == [tx[t] EXCEPT !.todo = tx[t].todo \ {r}]
  <2>1. Kept(d, tx[t]) /\ SameLocals(d, tx[t])
    <3>1. Shape(d)
      BY <1>1 DEF TxTypes, Shape
    <3> QED
      BY <1>1, <3>1 DEF TxTypes, Shape, Fields, Kept, SameLocals
  <2>2. Become(t, d, "validate")
    BY <1>4 DEF stm_validate
  <2> HIDE DEF d
  <2>3. Moves(t) /\ tx'[t].pc = "validate" /\ Kept(tx'[t], d) /\ SameLocals(tx'[t], d)
    BY <2>1, <2>2, BecomeIs DEF Inv, TypeOK, Kept
  <2>4. Kept(tx'[t], tx[t]) /\ SameLocals(tx'[t], tx[t])
    BY <2>1, <2>3 DEF Kept, SameLocals
  <2>5. TxTypes(tx'[t])
    BY <1>1, <2>3, <2>4 DEF TxTypes, Kept, SameLocals, Labels
  <2>6. LocalOK(t)'
    BY <1>1, <1>2, <2>3, <2>4
       DEF LocalOK, CallsBound, LabelsOfBuild, TicketPhase, Position, StatusPhase, Remembers,
         InCall, At, Kept, SameLocals, W, Modular, WriteThrough, Frame
  <2>7. \A other \in Thread : StealOK(t, other)'
    BY <2>3 DEF StealOK, At
  <2> QED
    BY <1>2, <2>3, <2>4, <2>5, <2>6, <2>7, QuietMove DEF Kept, SameLocals
<1> QED
  BY <1>3, <1>4

LEMMA ExtendOkInv ==
  ASSUME Inv, NEW t \in Thread, build' = build, ExtendOk(t)
  PROVE  Inv'
<1>1. TxTypes(tx[t]) /\ LocalOK(t)
  BY DEF Inv, TypeOK, LocalInv
<1>2. InCall(t) /\ ~At(t, "do_write") /\ Frame
  BY DEF InCall, At, ExtendOk, Frame
<1>3. ~tx[t].l.write
  BY <1>1 DEF LocalOK, Remembers, ExtendOk
<1> DEFINE d == [tx[t] EXCEPT !.end = tx[t].now, !.snap = tx[t].now, !.now = 0]
<1>4. /\ Kept(d, tx[t]) /\ d.l = tx[t].l
      /\ d.arg = tx[t].arg /\ d.op = tx[t].op /\ d.ts = tx[t].ts
  <2>1. Shape(d)
    BY <1>1 DEF TxTypes, Shape
  <2> QED
    BY <1>1, <2>1 DEF TxTypes, Shape, Fields, Kept
<1>5. Become(t, d, "read_recheck")
  BY DEF ExtendOk
<1> HIDE DEF d
<1> QED
  BY <1>2, <1>3, <1>4, <1>5, StayMove DEF ReadLabels

LEMMA ReadRecheckInv ==
  ASSUME Inv, NEW t \in Thread, build' = build, ReadRecheck(t)
  PROVE  Inv'
<1>1. TxTypes(tx[t]) /\ LocalOK(t)
  BY DEF Inv, TypeOK, LocalInv
<1>2. InCall(t) /\ ~At(t, "do_write") /\ Frame
  BY DEF InCall, At, CallLabels, ReadRecheck, Frame
<1>3. ~tx[t].l.write
  BY <1>1 DEF LocalOK, Remembers, ReadRecheck, At, ReadLabels
<1>4. CASE ReadDone(t)
  BY <1>2, <1>4, ReadDoneMove
<1>5. CASE ReadDispatch(t, tx[t].l)
  BY <1>1, <1>2, <1>3, <1>5, DispatchMove DEF TxTypes
<1> QED
  BY <1>4, <1>5 DEF ReadRecheck

-----------------------------------------------------------------------------
(***************************************************************************)
(* The application's calls, and the beginning of a transaction             *)
(***************************************************************************)
LEMMA LoadInv ==
  ASSUME Inv, NEW t \in Thread, build' = build, NEW a \in build.Loads[t], stm_load(t, a)
  PROVE  Inv'
<1>1. TxTypes(tx[t]) /\ LocalOK(t) /\ a \in Addr
  BY BuildIs DEF Inv, TypeOK, LocalInv
<1>2. /\ ~InCall(t) /\ At(t, "app") /\ ~At(t, "do_write") /\ Frame
      /\ tx[t].pc \in QuietLabels \ {"rollback"}
  BY DEF InCall, At, CallLabels, stm_load, Frame, QuietLabels
<1> DEFINE d == [tx[t] EXCEPT !.calls = @ + 1, !.arg.addr = a]
<1>3. /\ Shape(d) /\ d.status = tx[t].status /\ d.counter = tx[t].counter
      /\ d.w_set = tx[t].w_set /\ d.size = tx[t].size /\ d.gen = tx[t].gen
      /\ d.calls = tx[t].calls + 1 /\ d.arg = [tx[t].arg EXCEPT !.addr = a]
      /\ d.l = tx[t].l /\ d.op = tx[t].op /\ d.ts = tx[t].ts
  <2>1. Shape(d)
    BY <1>1 DEF TxTypes, Shape
  <2> QED
    BY <1>1, <2>1 DEF TxTypes, Shape, Fields
<1>4. d.arg \in Argument
  BY <1>1, <1>3 DEF TxTypes, Argument
<1>5. \/ ~UseVisibleReads(t) /\ Become(t, d, "read")
      \/ Rollback(t, d)
      \/ UseVisibleReads(t) /\ Become(t, [d EXCEPT !.op = "vread"], "vread")
  BY Zenon DEF stm_load
<1>6. tx[t].calls < build.MaxCalls[t]
  BY DEF stm_load
<1> HIDE DEF d
<1>7. CASE Rollback(t, d)
  BY <1>1, <1>2, <1>3, <1>7, RollbackMove DEF TxTypes
<1>8. CASE Become(t, d, "read")
  <2>1. ~Modular => tx[t].op # "vread"
    BY <1>1 DEF LocalOK, LabelsOfBuild
  <2> QED
    BY <1>1, <1>2, <1>3, <1>4, <1>6, <1>8, <2>1, CallMove
       DEF TxTypes, CallLabels, ReadLabels, ArbiterLabels
<1>9. CASE UseVisibleReads(t) /\ Become(t, [d EXCEPT !.op = "vread"], "vread")
  <2> DEFINE e == [d EXCEPT !.op = "vread"]
  <2>1. /\ Shape(e) /\ e.status = tx[t].status /\ e.counter = tx[t].counter
        /\ e.w_set = tx[t].w_set /\ e.size = tx[t].size /\ e.gen = tx[t].gen
        /\ e.calls = tx[t].calls + 1 /\ e.arg = d.arg
        /\ e.l = tx[t].l /\ e.op = "vread" /\ e.ts = tx[t].ts
    <3>1. Shape(e)
      BY <1>3 DEF Shape
    <3> QED
      BY <1>3, <3>1 DEF Shape, Fields
  <2>2. Modular
    BY <1>9 DEF UseVisibleReads
  <2>3. Become(t, e, "vread")
    BY <1>9
  <2> HIDE DEF e
  <2> QED
    BY <1>1, <1>2, <1>4, <1>6, <2>1, <2>2, <2>3, CallMove
       DEF TxTypes, CallLabels, ReadLabels, ArbiterLabels
<1> QED
  BY <1>5, <1>7, <1>8, <1>9

LEMMA StoreInv ==
  ASSUME Inv, NEW t \in Thread, build' = build, NEW a \in build.Stores[t],
         NEW v \in StoreWords[t], NEW m \in build.Masks, stm_store(t, a, v, m)
  PROVE  Inv'
<1>1. TxTypes(tx[t]) /\ LocalOK(t) /\ a \in Addr /\ v \in Word /\ m \in SUBSET Byte
  BY BuildIs, EtlAssumption DEF Inv, TypeOK, LocalInv, Word
<1>2. /\ ~InCall(t) /\ At(t, "app") /\ ~At(t, "do_write") /\ Frame
      /\ tx[t].pc \in QuietLabels \ {"rollback"}
  BY DEF InCall, At, CallLabels, stm_store, Frame, QuietLabels
<1> DEFINE g == [addr |-> a, value |-> v, mask |-> m]
           d == [tx[t] EXCEPT !.calls = @ + 1, !.op = "write", !.arg = g]
<1>3. /\ Shape(d) /\ d.status = tx[t].status /\ d.counter = tx[t].counter
      /\ d.w_set = tx[t].w_set /\ d.size = tx[t].size /\ d.gen = tx[t].gen
      /\ d.calls = tx[t].calls + 1 /\ d.arg = g
      /\ d.l = tx[t].l /\ d.op = "write" /\ d.ts = tx[t].ts
  <2>1. Shape(d)
    BY <1>1 DEF TxTypes, Shape
  <2> QED
    BY <1>1, <2>1 DEF TxTypes, Shape, Fields
<1>4. g \in Argument
  BY <1>1 DEF Argument
<1>5. Become(t, d, "write") \/ Rollback(t, d)
  BY Zenon DEF stm_store
<1>6. tx[t].calls < build.MaxCalls[t]
  BY DEF stm_store
<1> HIDE DEF d, g
<1>7. CASE Rollback(t, d)
  BY <1>1, <1>2, <1>3, <1>7, RollbackMove DEF TxTypes
<1>8. CASE Become(t, d, "write")
  BY <1>1, <1>2, <1>3, <1>4, <1>6, <1>8, CallMove
     DEF TxTypes, CallLabels, ReadLabels, ArbiterLabels
<1> QED
  BY <1>5, <1>7, <1>8

LEMMA AbortInv ==
  ASSUME Inv, NEW t \in Thread, build' = build, stm_abort(t)
  PROVE  Inv'
<1>1. Frame /\ tx[t].pc \in QuietLabels \ {"rollback"} /\ Rollback(t, tx[t])
  BY DEF At, stm_abort, Frame, QuietLabels
<1> QED
  BY <1>1, AbortMove

\* A transaction that is not under way has no log.
LEMMA FreeMove ==
  ASSUME Inv, NEW t \in Thread, Frame, tx[t].pc \in FreeLabels,
         NEW d, Kept(d, tx[t]), SameLocals(d, tx[t]), NEW lab \in FreeLabels, Become(t, d, lab)
  PROVE  Inv'
<1>1. TxTypes(tx[t]) /\ LocalOK(t)
  BY DEF Inv, TypeOK, LocalInv
<1>2. Moves(t) /\ tx'[t].pc = lab /\ Kept(tx'[t], d) /\ SameLocals(tx'[t], d)
  BY BecomeIs DEF Inv, TypeOK, Kept
<1>3. Kept(tx'[t], tx[t]) /\ SameLocals(tx'[t], tx[t])
  BY <1>2 DEF Kept, SameLocals
<1>4. TxTypes(tx'[t])
  BY <1>1, <1>2, <1>3 DEF TxTypes, Kept, SameLocals, Labels
<1>5. LocalOK(t)'
  BY <1>1, <1>2, <1>3
     DEF LocalOK, CallsBound, LabelsOfBuild, TicketPhase, Position, StatusPhase, Remembers,
       InCall, At, Kept, SameLocals, W, Modular, WriteThrough, Frame, FreeLabels, CallLabels,
       ArbiterLabels, ReadLabels
<1>6. \A other \in Thread : StealOK(t, other)'
  BY <1>2 DEF StealOK, At, FreeLabels
<1>7. W(t) = <<>> /\ W(t)' = <<>>
  BY <1>1, <1>3 DEF LocalOK, TicketPhase, Kept, W
<1>8. Unseen(t)
  BY <1>2, <1>3, <1>7 DEF Unseen, LogUnseen, Kept, Killed, Held, Pending, ToUndo, At, FreeLabels
<1>9. StatusKept(t)
  BY <1>3 DEF StatusKept, StatusWord, Kept
<1> QED
  BY <1>2, <1>4, <1>5, <1>6, <1>8, <1>9, QuietInv DEF Quiet, Frame

LEMMA StartInv ==
  ASSUME Inv, NEW t \in Thread, build' = build, NEW r, stm_start(t, r)
  PROVE  Inv'
<1>1. TxTypes(tx[t]) /\ Frame /\ tx[t].pc \in FreeLabels
  BY DEF Inv, TypeOK, Frame, stm_start, At, FreeLabels
<1> DEFINE d == [tx[t] EXCEPT !.ro = r]
<1>2. Kept(d, tx[t]) /\ SameLocals(d, tx[t])
  <2>1. Shape(d)
    BY <1>1 DEF TxTypes, Shape
  <2> QED
    BY <1>1, <2>1 DEF TxTypes, Shape, Fields, Kept, SameLocals
<1>3. Become(t, d, "prepare")
  BY DEF stm_start
<1> HIDE DEF d
<1> QED
  BY <1>1, <1>2, <1>3, FreeMove DEF FreeLabels

LEMMA OverflowInv ==
  ASSUME Inv, NEW t \in Thread, build' = build, stm_prepare_overflow(t)
  PROVE  Inv'
<1>1. TxTypes(tx[t]) /\ Frame /\ tx[t].pc \in FreeLabels /\ Become(t, tx[t], "barrier")
  BY DEF Inv, TypeOK, Frame, stm_prepare_overflow, At, FreeLabels
<1>2. Kept(tx[t], tx[t]) /\ SameLocals(tx[t], tx[t])
  BY <1>1 DEF Kept, SameLocals, TxTypes
<1> QED
  BY <1>1, <1>2, FreeMove DEF FreeLabels

LEMMA DelayInv ==
  ASSUME Inv, NEW t \in Thread, build' = build, Delay(t)
  PROVE  Inv'
<1>1. TxTypes(tx[t]) /\ Frame /\ tx[t].pc \in FreeLabels
  BY DEF Inv, TypeOK, Frame, Delay, At, FreeLabels
<1> DEFINE d == [tx[t] EXCEPT !.c_lock = {}]
<1>2. Kept(d, tx[t]) /\ SameLocals(d, tx[t])
  <2>1. Shape(d)
    BY <1>1 DEF TxTypes, Shape
  <2> QED
    BY <1>1, <2>1 DEF TxTypes, Shape, Fields, Kept, SameLocals
<1>3. Become(t, d, "prepare")
  BY DEF Delay
<1> HIDE DEF d
<1> QED
  BY <1>1, <1>2, <1>3, FreeMove DEF FreeLabels

LEMMA ImageFinite ==
  ASSUME NEW S, IsFiniteSet(S), NEW f
  PROVE  IsFiniteSet({f[x] : x \in S})
<1> DEFINE T == {f[x] : x \in S}
           g == [x \in S |-> f[x]]
<1>1. g \in Surjection(S, T)
  BY DEF Surjection
<1> QED
  BY <1>1, FS_Surjection

LEMMA RememberedFinite ==
  ASSUME NEW t \in Thread
  PROVE  IsFiniteSet(RememberedCounters(t)) /\ IsFiniteSet(RememberedGens(t))
<1> DEFINE C == {v \in Thread \ {t} : tx[v].seenStatus # <<>> /\ tx[v].seenStatus[1] = t}
           G == {v \in Thread \ {t} : tx[v].l.owner = t}
<1>1. IsFiniteSet(C) /\ IsFiniteSet(G)
  BY EtlAssumption, FS_Subset, C \subseteq Thread, G \subseteq Thread
<1> HIDE DEF C, G
<1>2. IsFiniteSet({tx[u].seenStatus[3] : u \in C})
  <2> DEFINE f == [u \in C |-> tx[u].seenStatus[3]]
  <2>1. IsFiniteSet({f[u] : u \in C})
    BY <1>1, ImageFinite
  <2>2. {f[u] : u \in C} = {tx[u].seenStatus[3] : u \in C}
    OBVIOUS
  <2> QED
    BY <2>1, <2>2
<1>3. IsFiniteSet({tx[u].l.inc : u \in G})
  <2> DEFINE f == [u \in G |-> tx[u].l.inc]
  <2>1. IsFiniteSet({f[u] : u \in G})
    BY <1>1, ImageFinite
  <2>2. {f[u] : u \in G} = {tx[u].l.inc : u \in G}
    OBVIOUS
  <2> QED
    BY <2>1, <2>2
<1> QED
  BY <1>2, <1>3 DEF C, G, RememberedCounters, RememberedGens

\* A restarted transaction has a counter nobody remembers.
LEMMA CounterNew ==
  ASSUME NEW t \in Thread, NEW v \in Thread \ {t}, tx[v].seenStatus # <<>>,
         tx[v].seenStatus[1] = t
  PROVE  tx[v].seenStatus[3] # Fresh(RememberedCounters(t))
<1>1. tx[v].seenStatus[3] \in RememberedCounters(t)
  BY DEF RememberedCounters
<1> QED
  BY <1>1, RememberedFinite, FreshNew

\* A new write set has a number nobody remembers.
LEMMA GenNew ==
  ASSUME NEW t \in Thread
  PROVE  /\ Fresh(RememberedGens(t)) \in Nat
         /\ \A v \in Thread \ {t} : tx[v].l.owner = t => tx[v].l.inc # Fresh(RememberedGens(t))
<1>1. \A v \in Thread \ {t} : tx[v].l.owner = t => tx[v].l.inc \in RememberedGens(t)
  BY DEF RememberedGens
<1> QED
  BY <1>1, RememberedFinite, FreshNew

LEMMA PrepareInv ==
  ASSUME Inv, NEW t \in Thread, build' = build, stm_prepare(t)
  PROVE  Inv'
<1>1. TxTypes(tx[t]) /\ LocalOK(t) /\ Frame /\ tx[t].pc = "prepare"
  BY DEF Inv, TypeOK, LocalInv, Frame, stm_prepare, At
<1> DEFINE c == IF Modular THEN Fresh(RememberedCounters(t)) ELSE 0
           d == [tx[t] EXCEPT
                   !.ro = @ /\ ~UseVisibleReads(t),
                   !.start = clock, !.end = clock, !.snap = clock,
                   !.timestamp = IF ~Modular THEN 0 ELSE IF tx[t].retries = 0 THEN clock ELSE @,
                   !.has_writes = 0, !.r_set = {}, !.w_set = <<>>,
                   !.status = "ACTIVE", !.counter = c,
                   !.obs = {}, !.own = {}, !.calls = 0]
<1>2. Become(t, d, "app")
  BY DEF stm_prepare
<1>3. /\ Shape(d) /\ d.status = "ACTIVE" /\ d.counter = c /\ d.w_set = <<>> /\ d.size = tx[t].size
      /\ d.gen = tx[t].gen /\ d.calls = 0 /\ SameLocals(d, tx[t])
  <2> HIDE DEF c, Modular
  <2>1. Shape(d)
    BY <1>1 DEF TxTypes, Shape
  <2> QED
    BY <1>1, <2>1 DEF TxTypes, Shape, Fields, SameLocals
<1> HIDE DEF d
<1>4. Moves(t) /\ tx'[t].pc = "app" /\ Kept(tx'[t], d) /\ SameLocals(tx'[t], d)
  BY <1>2, <1>3, BecomeIs DEF Inv, TypeOK
<1>5. SameLocals(tx'[t], tx[t])
  BY <1>3, <1>4 DEF SameLocals
<1>6. TxTypes(tx'[t])
  BY <1>1, <1>3, <1>4, <1>5 DEF TxTypes, Kept, SameLocals, Labels
<1>7. W(t) = <<>> /\ W(t)' = <<>> /\ tx[t].ts = 0
  BY <1>1, <1>3, <1>4 DEF LocalOK, TicketPhase, Kept, W, FreeLabels
<1>8. LocalOK(t)'
  BY <1>1, <1>3, <1>4, <1>5, <1>7
     DEF LocalOK, CallsBound, LabelsOfBuild, TicketPhase, Position, StatusPhase, Remembers,
       InCall, At, Kept, SameLocals, Modular, WriteThrough, Frame, FreeLabels, CallLabels,
       ArbiterLabels, ReadLabels, TxTypes
<1>9. \A other \in Thread : StealOK(t, other)'
  BY <1>4 DEF StealOK, At
<1>10. ~Killed(t) /\ ~Killed(t)'
  BY <1>1, <1>3, <1>4
     DEF Killed, LocalOK, StatusPhase, LabelsOfBuild, InCall, At, CallLabels, Kept
<1>11. Unseen(t)
  BY <1>1, <1>3, <1>4, <1>7, <1>10 DEF Unseen, LogUnseen, Kept, Held, Pending, ToUndo, At
<1>12. StatusKept(t)
  <2> SUFFICES ASSUME NEW v \in Thread \ {t}, At(v, "kill"), tx[v].l.owner = t,
                      StatusWord(t)' = tx[v].seenStatus
               PROVE  FALSE
    BY DEF StatusKept
  <2>1. LocalOK(v)
    BY DEF Inv, LocalInv
  <2>2. Modular /\ tx[v].seenStatus # <<>> /\ tx[v].seenStatus[1] = t
    BY <2>1 DEF LocalOK, LabelsOfBuild, Remembers, At, ArbiterLabels
  <2>3. tx'[t].counter = Fresh(RememberedCounters(t))
    BY <1>3, <1>4, <2>2 DEF Kept
  <2>4. StatusWord(t)'[3] = tx'[t].counter
    BY DEF StatusWord
  <2> QED
    BY <2>2, <2>3, <2>4, CounterNew
<1> QED
  BY <1>1, <1>4, <1>6, <1>8, <1>9, <1>11, <1>12, QuietInv DEF Quiet, Frame

-----------------------------------------------------------------------------
(***************************************************************************)
(* The end of a transaction                                                *)
(***************************************************************************)
\* The log is given up after its last lock.
LEMMA EndMove ==
  ASSUME Inv, NEW t \in Thread, Frame, Held(t) = {}, tx[t].pc \in {"end", "undo", "drop"},
         NEW d, Shape(d), d.w_set = <<>>, d.status \in {"ABORTED", "COMMITTED"},
         d.size = tx[t].size, d.gen \in Nat, d.calls = 0, Clean(d),
         \A v \in Thread \ {t} : tx[v].l.owner = t /\ At(v, "steal") => tx[v].l.inc # d.gen,
         \A a \in Addr, j \in Nat : WriteThrough => ~ToUndo(t, a, j),
         NEW lab \in FreeLabels, Become(t, d, lab)
  PROVE  Inv'
<1> USE DEF Frame
<1>1. TypeOK /\ TxTypes(tx[t]) /\ LocalOK(t)
  BY DEF Inv, TypeOK, LocalInv
<1>2. Moves(t) /\ tx'[t].pc = lab /\ Kept(tx'[t], d) /\ SameLocals(tx'[t], d)
  BY BecomeIs DEF Inv, TypeOK
<1>3. Clean(tx'[t])
  BY <1>2 DEF Clean, SameLocals
<1>4. TxTypes(tx'[t])
  BY <1>1, <1>2, <1>3, Constants DEF TxTypes, Kept, Clean, Labels
<1>5. W(t)' = <<>> /\ Held(t)' = {} /\ ~Killed(t)'
  BY <1>2 DEF W, Kept, Held, Killed
<1>6. LocalOK(t)'
  BY <1>1, <1>2, <1>3, <1>5
     DEF LocalOK, CallsBound, LabelsOfBuild, TicketPhase, Position, StatusPhase, Remembers,
       InCall, At, Kept, Clean, W, Modular, WriteThrough, FreeLabels, CallLabels,
       ArbiterLabels, ReadLabels
<1>7. \A u \in Thread : TxTypes(tx'[u]) /\ LocalOK(u)' /\ (u # t => Unseen(u))
  BY <1>1, <1>2, <1>4, <1>6, SameTx DEF Inv, LocalInv, Moves
<1>8. TypeOK'
  BY <1>1, <1>2, <1>7 DEF TypeOK, Moves
<1>9. LocalInv'
  BY <1>7 DEF LocalInv
<1>10. WriteThrough' = WriteThrough /\ LockOf' = LockOf
  BY DEF WriteThrough, LockOf
<1>11. \A k \in Lock : locks[k].owner # t
  BY DEF Inv, LockInv, OwnerHolds, OwnerHoldsOf, At
<1>12. \A u \in Thread : ~At(u, "do_write") \/ u # t
  BY DEF At
<1>13. \A u \in Thread \ {t} : W(u)' = W(u) /\ Held(u)' = Held(u) /\ (Killed(u)' <=> Killed(u))
  BY <1>7 DEF Unseen, LogUnseen
<1>14. \A u \in Thread \ {t} : \A j : LockAt(u, j)' = LockAt(u, j)
  BY <1>10, <1>13 DEF LockAt, W
<1>15. /\ ~At(t, "do_write") /\ ~At(t, "do_write")'
       /\ \A u \in Thread \ {t} : At(u, "do_write")' <=> At(u, "do_write")
  BY <1>2, <1>7 DEF Unseen, LogUnseen, At, FreeLabels
<1>16. \A u \in Thread \ {t} : At(u, "do_write") =>
         ArgLock(u)' = ArgLock(u) /\ tx'[u].l = tx[u].l
  BY <1>7, <1>10 DEF Unseen, LogUnseen, ArgLock
<1>17. OwnerHolds'
  BY <1>7, <1>10, <1>11, <1>13, <1>14, <1>15, <1>16 DEF Inv, LockInv, OwnerHolds, OwnerHoldsOf, Unseen
<1>18. HolderOwns'
  BY <1>5, <1>10, <1>13, <1>14, <1>15, <1>16 DEF Inv, LockInv, HolderOwns, HolderOwnsOf
<1>19. FirstDrops'
  BY <1>5, <1>10, <1>13, <1>14, <1>15, <1>16 DEF Inv, LockInv, FirstDrops, FirstDropsOf, LOCK_GET_OWNED
<1>20. LinksForward'
  BY <1>5, <1>10, <1>13 DEF Inv, LockInv, LinksForward, LinksForwardOf
<1>21. Linking'
  BY <1>5, <1>10, <1>13, <1>14 DEF Inv, LockInv, Linking, LinkingOf
<1>22. WriteLocked'
  BY DEF Inv, LockInv, WriteLocked, LOCK_GET_OWNED
<1>23. StealSafe'
  <2> SUFFICES ASSUME NEW u \in Thread, NEW other \in Thread, tx'[u].l.owner = other
               PROVE  StealOK(u, other)'
    BY DEF StealSafe
  <2>1. CASE u = t
    BY <1>2, <2>1 DEF StealOK, At, FreeLabels
  <2>2. CASE u # t
    <3>1. tx'[u] = tx[u] /\ StealOK(u, other)
      BY <1>2, <2>2 DEF Moves, Inv, LockInv, StealSafe
    <3>2. CASE other = t
      <4>1. StatusWord(t)'[2] # "ACTIVE"
        BY <1>2 DEF StatusWord, Kept
      <4>2. tx'[t].gen = d.gen
        BY <1>2 DEF Kept
      <4> QED
        BY <2>2, <3>1, <3>2, <4>1, <4>2 DEF StealOK, At
    <3>3. CASE other # t
      <4>1. tx'[other] = tx[other]
        BY <1>2, <3>3 DEF Moves
      <4> QED
        BY <3>1, <4>1 DEF StealOK, At, StatusWord, W, Killed
    <3> QED
      BY <3>2, <3>3
  <2> QED
    BY <2>1, <2>2
<1>24. \A a, w : Latest(a, w)' <=> Latest(a, w)
  BY DEF Latest
<1>25. \A u \in Thread : DOMAIN W(u) \subseteq Nat
  BY DEF Inv, TypeOK, TxTypes, W
<1>26. \A a \in Addr, j \in Nat : ~Pending(t, a, j) /\ ~Pending(t, a, j)'
  BY <1>2 DEF Pending, At, FreeLabels
<1>27. \A a \in Addr, j \in Nat : ~ToUndo(t, a, j)'
  BY <1>5 DEF ToUndo
<1>28. MemoryInv'
  <2>1. CASE ~WriteThrough
    BY <2>1, <1>5, <1>7, <1>10, <1>13, <1>24, <1>25, <1>26 DEF Inv, MemoryInv, Unseen, LogUnseen
  <2>2. CASE WriteThrough
    BY <2>2, <1>5, <1>7, <1>10, <1>13, <1>24, <1>25, <1>27 DEF Inv, MemoryInv, Unseen, LogUnseen
  <2> QED
    BY <2>1, <2>2
<1>29. HistoryInv'
  <2>1. \A u \in Thread \ {t} : At(u, "validate")' /\ tx'[u].ts # 0 =>
           At(u, "validate") /\ tx[u].ts = tx'[u].ts /\ W(u)' = W(u)
    BY <1>1, <1>7 DEF Unseen, LogUnseen, TypeOK
  <2>2. ~At(t, "validate")'
    BY <1>2 DEF At, FreeLabels
  <2> QED
    BY <2>1, <2>2 DEF Inv, HistoryInv
<1> QED
  BY <1>8, <1>9, <1>17, <1>18, <1>19, <1>20, <1>21, <1>22, <1>23, <1>28, <1>29
     DEF Inv, LockInv

\* A transaction that is past its last call is not killed.
LEMMA NotKilled ==
  ASSUME Inv, NEW t \in Thread, InCommit(t) \/ tx[t].pc \in FreeLabels
            \/ tx[t].pc \in {"undo", "undo_clock", "undo_release"}
  PROVE  ~Killed(t)
<1>1. LocalOK(t)
  BY DEF Inv, LocalInv
<1>2. ~InCall(t) /\ tx[t].pc \notin {"app", "rollback", "drop"}
  BY DEF InCall, InCommit, At, CallLabels, CommitLabels, FreeLabels
<1> QED
  BY <1>1, <1>2 DEF LocalOK, StatusPhase, LabelsOfBuild, Killed

LEMMA CommitEndInv ==
  ASSUME Inv, NEW t \in Thread, build' = build, CommitEnd(t)
  PROVE  Inv'
<1>1. TxTypes(tx[t]) /\ Shape(tx[t]) /\ Frame /\ At(t, "end") /\ tx[t].pc = "end"
  BY DEF Inv, TypeOK, TxTypes, Frame, CommitEnd, At
<1> DEFINE s == Settled(tx[t])
           d == [s EXCEPT !.status = "COMMITTED", !.retries = 0,
                  !.visible_reads = 0, !.w_set = <<>>, !.r_set = {}, !.obs = {},
                  !.own = {}, !.calls = 0, !.ro = FALSE, !.has_writes = 0,
                  !.start = 0, !.end = 0, !.timestamp = 0]
<1>2. Kept(s, tx[t]) /\ Clean(s)
  BY <1>1, SettledIs
<1>3. Become(t, d, "idle")
  BY DEF CommitEnd
<1>4. /\ Shape(d) /\ d.w_set = <<>> /\ d.status = "COMMITTED"
      /\ d.size = tx[t].size /\ d.gen = tx[t].gen /\ d.calls = 0 /\ Clean(d)
  <2> HIDE DEF s
  <2>1. Shape(d)
    BY <1>2 DEF Kept, Shape
  <2> QED
    BY <1>2, <2>1 DEF Kept, Shape, Fields, Clean
<1> HIDE DEF d, s
<1>5. Held(t) = {}
  BY <1>1 DEF Held
<1>6. ~Killed(t)
  BY <1>1, NotKilled DEF InCommit, CommitLabels
<1>7. \A v \in Thread \ {t} : tx[v].l.owner = t /\ At(v, "steal") => tx[v].l.inc # d.gen
  BY <1>4, <1>6 DEF Inv, LockInv, StealSafe, StealOK
<1>8. \A a \in Addr, j \in Nat : ~ToUndo(t, a, j)
  BY <1>1 DEF ToUndo
<1> QED
  BY <1>1, <1>3, <1>4, <1>5, <1>7, <1>8, EndMove DEF FreeLabels, TxTypes

LEMMA RollbackEndInv ==
  ASSUME Inv, NEW t \in Thread, build' = build, RollbackEnd(t)
  PROVE  Inv'
<1>1. TxTypes(tx[t]) /\ Shape(tx[t]) /\ LocalOK(t) /\ Frame
  BY DEF Inv, TypeOK, LocalInv, TxTypes, Frame, RollbackEnd
<1>2. \/ tx[t].pc = "undo" /\ tx[t].i = (IF WriteThrough THEN 0 ELSE Len(W(t)) + 1)
      \/ tx[t].pc = "drop" /\ tx[t].i > Len(W(t)) /\ ~WriteThrough
  BY <1>1, BuildIs DEF RollbackEnd, At, W, LocalOK, LabelsOfBuild, Inv, TypeOK
<1> DEFINE s == Settled(tx[t])
           g == IF At(t, "drop") THEN NewGen(t) ELSE tx[t].gen
           d == [s EXCEPT !.status = "ABORTED", !.obs = {}, !.own = {},
                    !.w_set = <<>>, !.r_set = {}, !.has_writes = 0, !.calls = 0,
                    !.start = 0, !.end = 0,
                    !.retries = IF Modular THEN 1 ELSE 0,
                    !.gen = IF At(t, "drop") THEN NewGen(t) ELSE @]
<1>3. Kept(s, tx[t]) /\ Clean(s)
  BY <1>1, SettledIs
<1>4. Become(t, d, "delay")
  BY DEF RollbackEnd
<1>5. /\ Shape(d) /\ d.w_set = <<>> /\ d.status = "ABORTED"
      /\ d.size = tx[t].size /\ d.gen = g /\ d.calls = 0 /\ Clean(d)
  <2> HIDE DEF s, NewGen, Modular, At
  <2>1. Shape(d)
    BY <1>3 DEF Kept, Shape
  <2> QED
    BY <1>3, <2>1 DEF Kept, Shape, Fields, Clean
<1> HIDE DEF d, s
<1>6. Len(W(t)) \in Nat /\ DOMAIN W(t) = 1..Len(W(t))
  BY <1>1 DEF TxTypes, W
<1>7. Held(t) = {}
  <2>1. Releasing(t)
    BY <1>2 DEF Releasing
  <2>2. \A j \in DOMAIN W(t) : ~(IF WriteThrough THEN j <= tx[t].i ELSE j >= tx[t].i)
    <3>1. tx[t].i \in Int
      BY <1>1, <1>2, <1>6 DEF LocalOK, Position
    <3> QED
      BY <1>2, <1>6, <3>1
  <2> QED
    BY <2>1, <2>2 DEF Held
<1>8. g \in Nat
  BY <1>1, GenNew DEF NewGen, TxTypes
<1>9. \A v \in Thread \ {t} : tx[v].l.owner = t /\ At(v, "steal") => tx[v].l.inc # g
  <2> SUFFICES ASSUME NEW v \in Thread \ {t}, tx[v].l.owner = t, At(v, "steal")
               PROVE  tx[v].l.inc # g
    OBVIOUS
  <2>1. tx[v].l.inc # tx[t].gen \/ (Killed(t) /\ W(t) # <<>>)
    BY DEF Inv, LockInv, StealSafe, StealOK
  <2>2. CASE tx[t].pc = "undo"
    <3>1. ~Killed(t)
      BY <2>2, NotKilled
    <3> QED
      BY <2>1, <2>2, <3>1 DEF At
  <2>3. CASE tx[t].pc = "drop" /\ W(t) = <<>>
    BY <2>1, <2>3 DEF NewGen, W, At
  <2>4. CASE tx[t].pc = "drop" /\ W(t) # <<>>
    BY <2>4, GenNew DEF NewGen, W, At
  <2> QED
    BY <1>2, <2>2, <2>3, <2>4
<1>10. \A a \in Addr, j \in Nat : WriteThrough => ~ToUndo(t, a, j)
  BY <1>2, <1>6 DEF ToUndo, At
<1> HIDE DEF g
<1> QED
  BY <1>1, <1>2, <1>4, <1>5, <1>7, <1>8, <1>9, <1>10, EndMove DEF FreeLabels

\* A step between two phases: the position in the log is set, nothing else.
LEMMA PhaseMove ==
  ASSUME Inv, NEW t \in Thread, Frame, Moves(t),
         Shape(tx'[t]), tx'[t].w_set = tx[t].w_set, tx'[t].size = tx[t].size,
         tx'[t].gen = tx[t].gen, tx'[t].calls = tx[t].calls, tx'[t].counter = tx[t].counter,
         tx'[t].arg = tx[t].arg, tx'[t].l = tx[t].l, tx'[t].op = tx[t].op,
         tx'[t].ts = 0,
         tx'[t].status = "KILLED" <=> tx[t].status = "KILLED",
         tx'[t].status = "ACTIVE" => tx[t].status = "ACTIVE",
         Modular => tx'[t].status # "ACTIVE",
         tx[t].pc \in {"app", "rollback"},
         \/ tx'[t].pc = "end" /\ W(t) = <<>> /\ ~Killed(t)
         \/ Modular /\ tx'[t].pc = "drop_reads" /\ tx'[t].i = 1 /\ ~Killed(t)
         \/ Modular /\ tx'[t].pc = "drop" /\ tx'[t].i = 1 /\ Killed(t)
         \/ tx'[t].pc = "commit_clock" /\ ~Killed(t) /\ W(t) # <<>>
         \/ /\ tx'[t].pc = "undo" /\ tx'[t].i = (IF WriteThrough THEN Len(W(t)) ELSE 1)
            /\ ~Killed(t)
  PROVE  Inv'
<1>1. TxTypes(tx[t]) /\ LocalOK(t)
  BY DEF Inv, TypeOK, LocalInv
<1>2. TxTypes(tx'[t])
  BY <1>1 DEF TxTypes, Labels, CommitLabels, AbortLabels
<1>3. W(t)' = W(t) /\ Len(W(t)) \in Nat /\ DOMAIN W(t) = 1..Len(W(t))
  BY <1>1 DEF W, TxTypes
<1>4. WriteThrough' = WriteThrough /\ Modular' = Modular /\ build' = build
  BY DEF WriteThrough, Modular, Frame
<1>5. Modular => ~WriteThrough
  BY BuildIs DEF Inv, TypeOK
<1>6. LocalOK(t)'
  <2>1. CallsBound(t)' /\ TicketPhase(t)' /\ Remembers(t)'
    BY <1>1, <1>3, <1>4 DEF LocalOK, CallsBound, TicketPhase, Remembers, InCall, At, CallLabels,
       FreeLabels, ReadLabels, ArbiterLabels
  <2>2. LabelsOfBuild(t)'
    BY <1>1, <1>4 DEF LocalOK, LabelsOfBuild, ArbiterLabels
  <2>3. Position(t)'
    BY <1>3, <1>4 DEF Position, At
  <2>4. StatusPhase(t)'
    BY <1>1, <1>4 DEF StatusPhase, At, Killed
  <2> QED
    BY <2>1, <2>2, <2>3, <2>4 DEF LocalOK
<1>7. Held(t) = DOMAIN W(t) /\ Held(t)' = DOMAIN W(t)
  BY <1>3, <1>4, <1>5 DEF Held, Releasing, At
<1>8. \A a \in Addr, j \in Nat : ~Pending(t, a, j)' /\ ~Pending(t, a, j)
  BY DEF Pending, At
<1>9. WriteThrough => \A a \in Addr, j \in Nat : (ToUndo(t, a, j)' <=> ToUndo(t, a, j))
  BY <1>3, <1>5 DEF ToUndo, At
<1>10. Unseen(t)
  BY <1>3, <1>7, <1>8, <1>9 DEF Unseen, LogUnseen, Killed, At
<1>11. StatusKept(t)
  BY DEF StatusKept, StatusWord
<1>12. \A other \in Thread : StealOK(t, other)'
  BY DEF StealOK, At
<1> QED
  BY <1>2, <1>6, <1>10, <1>11, <1>12, QuietInv DEF Quiet, Frame

LEMMA CommitInv ==
  ASSUME Inv, NEW t \in Thread, build' = build, stm_commit(t)
  PROVE  Inv'
<1>1. TxTypes(tx[t]) /\ LocalOK(t) /\ Frame /\ tx[t].pc = "app" /\ tx[t].ts = 0
  BY DEF Inv, TypeOK, LocalInv, Frame, stm_commit, At, LocalOK, TicketPhase
<1>2. CASE ~MayCommit(t)
  <2>1. Rollback(t, tx[t])
    BY <1>2 DEF stm_commit
  <2> QED
    BY <1>1, <2>1, AbortMove DEF QuietLabels
<1>3. CASE MayCommit(t)
  <2> DEFINE d == [tx[t] EXCEPT !.status = IF Modular THEN "COMMITTING" ELSE @]
             e == [d EXCEPT !.i = 1]
  <2>1. /\ Shape(d) /\ d.status = (IF Modular THEN "COMMITTING" ELSE tx[t].status)
        /\ d.counter = tx[t].counter /\ d.w_set = tx[t].w_set
        /\ d.size = tx[t].size /\ d.gen = tx[t].gen /\ d.calls = tx[t].calls
        /\ SameLocals(d, tx[t]) /\ d.has_writes = tx[t].has_writes
    <3> HIDE DEF Modular
    <3>1. Shape(d)
      BY <1>1 DEF TxTypes, Shape
    <3> QED
      BY <1>1, <3>1 DEF TxTypes, Shape, Fields, SameLocals
  <2>2. \/ d.w_set = <<>> /\ Become(t, d, "end")
        \/ Modular /\ Become(t, e, "drop_reads")
        \/ d.w_set # <<>> /\ Become(t, d, "commit_clock")
    BY <1>3, Zenon DEF stm_commit
  <2> HIDE DEF d
  <2>3. /\ Kept(e, d) /\ e.i = 1 /\ e.arg = d.arg /\ e.l = d.l /\ e.op = d.op
        /\ e.ts = d.ts
    <3>1. Shape(e)
      BY <2>1 DEF Shape
    <3> QED
      BY <2>1, <3>1 DEF Shape, Fields, Kept
  <2> HIDE DEF e
  <2>4. ~Killed(t) /\ tx[t].status # "KILLED"
    BY <1>3 DEF MayCommit, Killed
  <2>5. CASE d.w_set = <<>> /\ Become(t, d, "end")
    <3>1. Moves(t) /\ tx'[t].pc = "end" /\ Kept(tx'[t], d) /\ SameLocals(tx'[t], d)
      BY <2>1, <2>5, BecomeIs DEF Inv, TypeOK
    <3> QED
      BY <1>1, <2>1, <2>4, <2>5, <3>1, PhaseMove DEF Kept, SameLocals, W
  <2>6. CASE Modular /\ Become(t, e, "drop_reads")
    <3>1. Moves(t) /\ tx'[t].pc = "drop_reads" /\ Kept(tx'[t], e) /\ SameLocals(tx'[t], e)
      BY <2>1, <2>3, <2>6, BecomeIs DEF Inv, TypeOK, Kept
    <3> QED
      BY <1>1, <2>1, <2>3, <2>4, <2>6, <3>1, PhaseMove DEF Kept, SameLocals, W
  <2>7. CASE d.w_set # <<>> /\ Become(t, d, "commit_clock")
    <3>1. Moves(t) /\ tx'[t].pc = "commit_clock" /\ Kept(tx'[t], d) /\ SameLocals(tx'[t], d)
      BY <2>1, <2>7, BecomeIs DEF Inv, TypeOK
    <3> QED
      BY <1>1, <2>1, <2>4, <2>7, <3>1, PhaseMove DEF Kept, SameLocals, W
  <2> QED
    BY <2>2, <2>5, <2>6, <2>7
<1> QED
  BY <1>2, <1>3

LEMMA RollbackInv ==
  ASSUME Inv, NEW t \in Thread, build' = build, stm_rollback(t)
  PROVE  Inv'
<1>1. TxTypes(tx[t]) /\ LocalOK(t) /\ Frame /\ tx[t].pc = "rollback" /\ tx[t].ts = 0
  BY DEF Inv, TypeOK, LocalInv, Frame, stm_rollback, At, LocalOK, TicketPhase
<1>2. CASE tx[t].status = "KILLED"
  <2> DEFINE d == [tx[t] EXCEPT !.i = 1]
  <2>1. Kept(d, tx[t]) /\ d.i = 1 /\ d.arg = tx[t].arg /\ d.l = tx[t].l /\ d.op = tx[t].op
        /\ d.ts = tx[t].ts
    <3>1. Shape(d)
      BY <1>1 DEF TxTypes, Shape
    <3> QED
      BY <1>1, <3>1 DEF TxTypes, Shape, Fields, Kept
  <2>2. Become(t, d, "drop")
    BY <1>2 DEF stm_rollback
  <2> HIDE DEF d
  <2>3. Moves(t) /\ tx'[t].pc = "drop" /\ Kept(tx'[t], d) /\ SameLocals(tx'[t], d)
    BY <2>1, <2>2, BecomeIs DEF Inv, TypeOK, Kept
  <2>4. Modular /\ Killed(t)
    BY <1>1, <1>2 DEF LocalOK, LabelsOfBuild, Killed
  <2> QED
    BY <1>1, <1>2, <2>1, <2>3, <2>4, PhaseMove DEF Kept, SameLocals, W
<1>3. CASE tx[t].status # "KILLED"
  <2> DEFINE n == IF WriteThrough THEN Len(tx[t].w_set) ELSE 1
             d == [tx[t] EXCEPT !.i = n,
                     !.status = IF Modular /\ @ = "ACTIVE" THEN "ABORTING" ELSE @]
  <2>1. /\ Shape(d) /\ d.i = n
        /\ d.status = (IF Modular /\ tx[t].status = "ACTIVE" THEN "ABORTING" ELSE tx[t].status)
        /\ d.counter = tx[t].counter /\ d.w_set = tx[t].w_set
        /\ d.size = tx[t].size /\ d.gen = tx[t].gen /\ d.calls = tx[t].calls
        /\ d.arg = tx[t].arg /\ d.l = tx[t].l /\ d.op = tx[t].op /\ d.ts = tx[t].ts
    <3> HIDE DEF Modular, n
    <3>1. Shape(d)
      BY <1>1 DEF TxTypes, Shape
    <3> QED
      BY <1>1, <3>1 DEF TxTypes, Shape, Fields
  <2>2. Become(t, d, "undo")
    BY <1>3 DEF stm_rollback
  <2> HIDE DEF d
  <2>3. Moves(t) /\ tx'[t].pc = "undo" /\ Kept(tx'[t], d) /\ SameLocals(tx'[t], d)
    BY <2>1, <2>2, BecomeIs DEF Inv, TypeOK
  <2>4. ~Killed(t)
    BY <1>3 DEF Killed
  <2> QED
    BY <1>1, <1>3, <2>1, <2>3, <2>4, PhaseMove DEF Kept, SameLocals, W
<1> QED
  BY <1>2, <1>3

-----------------------------------------------------------------------------
(***************************************************************************)
(* Kills and the roll-over of the clock                                    *)
(***************************************************************************)
LEMMA KillsMove ==
  ASSUME Inv, NEW t \in Thread, Frame, At(t, "kill"), tx[t].seenStatus[2] = "ACTIVE",
         NEW other, other = tx[t].l.owner, StatusWord(other) = tx[t].seenStatus,
         tx' = [tx EXCEPT ![other].status = "KILLED", ![t].pc = "steal"]
  PROVE  Inv'
<1> DEFINE k == [tx[other] EXCEPT !.status = "KILLED"]
           s == [tx[t] EXCEPT !.pc = "steal"]
<1> USE DEF Frame
<1>1. TypeOK /\ TxTypes(tx[t]) /\ LocalOK(t)
  BY DEF Inv, TypeOK, LocalInv
<1>2. other \in Thread \ {t} /\ Modular
  BY <1>1 DEF LocalOK, Remembers, LabelsOfBuild, At, ArbiterLabels
<1>3. ~WriteThrough /\ WriteThrough' = WriteThrough /\ Modular' = Modular /\ LockOf' = LockOf
  BY <1>1, <1>2, BuildIs DEF TypeOK, WriteThrough, Modular, LockOf
<1>4. TxTypes(tx[other]) /\ LocalOK(other)
  BY <1>2 DEF Inv, TypeOK, LocalInv
<1>5. tx[other].status = "ACTIVE" /\ W(other) # <<>>
  <2>1. StatusWord(other)[2] = tx[other].status
    BY DEF StatusWord
  <2>2. StealOK(t, other)
    BY <1>2 DEF Inv, LockInv, StealSafe
  <2> QED
    BY <2>1, <2>2 DEF StealOK
<1>6. /\ Shape(k) /\ k.status = "KILLED" /\ k.pc = tx[other].pc /\ k.counter = tx[other].counter
      /\ k.w_set = tx[other].w_set /\ k.size = tx[other].size /\ k.gen = tx[other].gen
      /\ k.calls = tx[other].calls /\ SameLocals(k, tx[other])
  <2>1. Shape(k)
    BY <1>4 DEF TxTypes, Shape
  <2> QED
    BY <1>4, <2>1 DEF TxTypes, Shape, Fields, SameLocals
<1>7. Kept(s, tx[t]) /\ s.pc = "steal" /\ SameLocals(s, tx[t])
  <2>1. Shape(s)
    BY <1>1 DEF TxTypes, Shape
  <2> QED
    BY <1>1, <2>1 DEF TxTypes, Shape, Fields, SameLocals, Kept
<1>8. tx'[other] = k /\ tx'[t] = s /\ \A u \in Thread \ {t, other} : tx'[u] = tx[u]
  BY <1>1, <1>2 DEF TypeOK
<1>9. tx' = [u \in Thread |-> tx'[u]]
  BY <1>1, <1>2 DEF TypeOK
<1> HIDE DEF k, s
<1>10. TxTypes(tx'[t]) /\ TxTypes(tx'[other])
  BY <1>1, <1>4, <1>6, <1>7, <1>8 DEF TxTypes, Kept, SameLocals, Labels, CallLabels
<1>11. /\ W(t)' = W(t) /\ W(other)' = W(other) /\ tx'[t].gen = tx[t].gen
       /\ tx'[other].gen = tx[other].gen /\ tx[t].pc = "kill" /\ tx'[t].pc = "steal"
       /\ tx'[other].pc = tx[other].pc
  BY <1>6, <1>7, <1>8 DEF W, Kept, At
<1>12. InCall(other) \/ tx[other].pc \in {"app", "rollback"}
  BY <1>2, <1>4, <1>5 DEF LocalOK, StatusPhase, At
<1>13. LocalOK(t)'
  BY <1>1, <1>2, <1>3, <1>7, <1>8, <1>11
     DEF LocalOK, CallsBound, LabelsOfBuild, TicketPhase, Position, StatusPhase, Remembers,
       InCall, At, Kept, SameLocals, ReadLabels, ArbiterLabels, CallLabels, FreeLabels
<1>14. LocalOK(other)'
  <2>1. CallsBound(other)' /\ LabelsOfBuild(other)' /\ TicketPhase(other)'
    BY <1>2, <1>3, <1>4, <1>6, <1>8, <1>11
       DEF LocalOK, CallsBound, LabelsOfBuild, TicketPhase, InCall, At, SameLocals
  <2>2. Position(other)'
    BY <1>3, <1>4, <1>6, <1>8, <1>11 DEF LocalOK, Position, At, SameLocals
  <2>3. StatusPhase(other)'
    BY <1>6, <1>8, <1>11, <1>12 DEF StatusPhase, InCall, At, SameLocals
  <2>4. Remembers(other)'
    BY <1>4, <1>6, <1>8, <1>11 DEF LocalOK, Remembers, At, SameLocals
  <2> QED
    BY <2>1, <2>2, <2>3, <2>4 DEF LocalOK
<1>15. \A u \in Thread \ {t, other} : TxTypes(tx'[u]) /\ Unseen(u) /\ LocalOK(u)'
  BY <1>1, <1>8, SameTx DEF Inv, LocalInv
<1>16. TypeOK' /\ LocalInv'
  BY <1>1, <1>9, <1>10, <1>13, <1>14, <1>15 DEF TypeOK, LocalInv
<1>17. \A u \in Thread : W(u)' = W(u) /\ tx'[u].gen = tx[u].gen
  BY <1>11, <1>15 DEF Unseen
<1>18. \A u \in Thread : Held(u)' = Held(u)
  <2>1. Held(t)' = Held(t)
    BY <1>11 DEF Held, Releasing, At
  <2>2. Held(other)' = Held(other)
    BY <1>3, <1>6, <1>8, <1>11 DEF Held, Releasing, At, SameLocals
  <2> QED
    BY <1>15, <2>1, <2>2 DEF Unseen
<1>19. Held(other) = DOMAIN W(other)
  BY <1>12 DEF Held, Releasing, At, InCall, CallLabels
<1>20. /\ Killed(other)' /\ (Killed(t)' <=> Killed(t))
       /\ \A u \in Thread : u # other => (Killed(u)' <=> Killed(u))
  <2>1. Killed(other)' /\ (Killed(t)' <=> Killed(t))
    BY <1>6, <1>7, <1>8 DEF Killed, Kept
  <2>2. \A u \in Thread \ {t, other} : Killed(u)' <=> Killed(u)
    BY <1>15 DEF Unseen
  <2> QED
    BY <2>1, <2>2
<1>21. \A u \in Thread : \A j : LockAt(u, j)' = LockAt(u, j)
  BY <1>3, <1>17 DEF LockAt, W
<1>22. \A u \in Thread : ~At(u, "do_write")'
  BY <1>3, <1>16 DEF LocalInv, LocalOK, LabelsOfBuild, At
<1>23. OwnerHolds'
  <2> SUFFICES ASSUME NEW u \in Thread PROVE OwnerHoldsOf(u)'
    BY DEF OwnerHolds
  <2>1. OwnerHoldsOf(u)
    BY DEF Inv, LockInv, OwnerHolds
  <2>2. ASSUME NEW k2 \in Lock, locks'[k2].owner = u
        PROVE  /\ locks'[k2].inc = tx'[u].gen
               /\ locks'[k2].n \in DOMAIN W(u)' /\ LockAt(u, locks[k2].n)' = k2
               /\ \E j \in Held(u)' : LockAt(u, j)' = k2
               /\ Killed(u)' => locks'[k2].n \in Held(u)'
    <3>1. /\ locks[k2].inc = tx[u].gen
          /\ locks[k2].n \in DOMAIN W(u) /\ LockAt(u, locks[k2].n) = k2
          /\ \E j \in Held(u) : LockAt(u, j) = k2
          /\ Killed(u) => locks[k2].n \in Held(u)
      BY <1>3, <2>1, <2>2 DEF OwnerHoldsOf
    <3>2. LockAt(u, locks[k2].n)' = LockAt(u, locks[k2].n)
      BY <1>3, <1>17 DEF LockAt, W
    <3>3. Killed(u)' => locks[k2].n \in Held(u)
      BY <1>19, <1>20, <3>1
    <3> QED
      BY <1>17, <1>18, <1>21, <3>1, <3>2, <3>3
  <2> QED
    BY <1>3, <2>2 DEF OwnerHoldsOf
<1>24. HolderOwns'
  BY <1>18, <1>20, <1>21, <1>22 DEF Inv, LockInv, HolderOwns, HolderOwnsOf
<1>25. FirstDrops' /\ LinksForward'
  BY <1>3, <1>17 DEF Inv, LockInv, FirstDrops, FirstDropsOf, LinksForward, LinksForwardOf
<1>26. Linking'
  BY <1>3, <1>17, <1>20, <1>21 DEF Inv, LockInv, Linking, LinkingOf
<1>27. WriteLocked'
  BY DEF Inv, LockInv, WriteLocked, LOCK_GET_OWNED
<1>28. StealSafe'
  <2> SUFFICES ASSUME NEW u \in Thread, NEW o \in Thread, tx'[u].l.owner = o
               PROVE  StealOK(u, o)'
    BY DEF StealSafe
  <2>1. tx'[u].l = tx[u].l /\ tx'[u].seenStatus = tx[u].seenStatus /\ StealOK(u, o)
    <3>1. tx'[u].l = tx[u].l /\ tx'[u].seenStatus = tx[u].seenStatus
      <4>1. CASE u = t
        BY <1>7, <1>8, <4>1 DEF SameLocals
      <4>2. CASE u = other
        BY <1>6, <1>8, <4>2 DEF SameLocals
      <4> QED
        BY <1>8, <4>1, <4>2
    <3> QED
      BY <3>1 DEF Inv, LockInv, StealSafe
  <2>2. CASE o = other
    <3>1. StatusWord(o)'[2] = "KILLED"
      BY <1>6, <1>8, <2>2 DEF StatusWord
    <3>2. Killed(o)' /\ W(o)' # <<>>
      BY <1>5, <1>17, <1>20, <2>2
    <3> QED
      BY <3>1, <3>2 DEF StealOK
  <2>3. CASE o # other
    <3>1. u # t /\ StatusWord(o)' = StatusWord(o)
      <4>1. u # t
        BY <2>1, <2>3
      <4>2. tx'[o].status = tx[o].status /\ tx'[o].counter = tx[o].counter
        <5>1. CASE o = t
          BY <1>7, <1>8, <5>1 DEF Kept
        <5>2. CASE o # t
          BY <1>8, <2>3, <5>2
        <5> QED
          BY <5>1, <5>2
      <4> QED
        BY <4>1, <4>2 DEF StatusWord
    <3>2. At(u, "kill")' => At(u, "kill")
      BY <1>8, <1>11, <3>1 DEF At
    <3>3. At(u, "steal")' => At(u, "steal")
      BY <1>8, <1>11, <3>1 DEF At
    <3> QED
      BY <1>17, <1>20, <2>1, <2>3, <3>1, <3>2, <3>3 DEF StealOK
  <2> QED
    BY <2>2, <2>3
<1>29. \A u \in Thread : LogUnseen(u)
  <2>1. LogUnseen(t)
    BY <1>3, <1>11 DEF LogUnseen, Pending, At
  <2>2. LogUnseen(other)
    BY <1>3, <1>6, <1>8, <1>11 DEF LogUnseen, Pending, At, SameLocals
  <2> QED
    BY <1>15, <2>1, <2>2 DEF Unseen
<1>30. MemoryInv' /\ HistoryInv'
  BY <1>29, MemoryKept
<1> QED
  BY <1>16, <1>23, <1>24, <1>25, <1>26, <1>27, <1>28, <1>30 DEF Inv, LockInv

LEMMA KillInv ==
  ASSUME Inv, NEW t \in Thread, build' = build, stm_kill(t)
  PROVE  Inv'
<1>1. Frame /\ At(t, "kill") /\ InCall(t) /\ ~At(t, "do_write")
  BY DEF Frame, stm_kill, InCall, At, CallLabels
<1>2. CASE Restart(t)
  BY <1>1, <1>2, RestartMove
<1>3. CASE /\ tx[t].seenStatus[2] = "ACTIVE" /\ StatusWord(tx[t].l.owner) = tx[t].seenStatus
           /\ tx' = [tx EXCEPT ![tx[t].l.owner].status = "KILLED", ![t].pc = "steal"]
  BY <1>1, <1>3, KillsMove
<1> QED
  BY <1>2, <1>3, Zenon DEF stm_kill

LEMMA RolloverInv ==
  ASSUME Inv, build' = build, rollover_clock
  PROVE  Inv'
<1>1. TypeOK /\ \A t \in Thread : At(t, "barrier") /\ TxTypes(tx[t]) /\ LocalOK(t)
  BY DEF Inv, TypeOK, LocalInv, rollover_clock
<1>2. ASSUME NEW t \in Thread
      PROVE  /\ TxTypes(tx'[t]) /\ LocalOK(t)' /\ tx'[t].pc = "prepare"
             /\ W(t)' = <<>> /\ ~Killed(t)'
  <2> DEFINE d == [tx[t] EXCEPT !.pc = "prepare"]
  <2>1. Kept(d, tx[t]) /\ SameLocals(d, tx[t]) /\ d.pc = "prepare"
    <3>1. Shape(d)
      BY <1>1 DEF TxTypes, Shape
    <3> QED
      BY <1>1, <3>1 DEF TxTypes, Shape, Fields, Kept, SameLocals
  <2>2. tx'[t] = d
    BY DEF rollover_clock
  <2> HIDE DEF d
  <2>3. TxTypes(tx[t]) /\ LocalOK(t) /\ tx[t].pc = "barrier"
    BY <1>1 DEF At
  <2>4. W(t) = <<>> /\ W(t)' = <<>>
    BY <2>1, <2>2, <2>3 DEF Kept, W, LocalOK, TicketPhase, FreeLabels
  <2>5. ~Killed(t) /\ ~Killed(t)'
    BY <2>1, <2>2, <2>3, NotKilled DEF FreeLabels, Killed, Kept
  <2>6. TxTypes(tx'[t])
    BY <2>1, <2>2, <2>3 DEF TxTypes, Kept, SameLocals, Labels, FreeLabels
  <2>7. LocalOK(t)'
    BY <2>1, <2>2, <2>3, <2>4, <2>5
       DEF LocalOK, CallsBound, LabelsOfBuild, TicketPhase, Position, StatusPhase, Remembers,
         InCall, At, Kept, SameLocals, FreeLabels, CallLabels, ArbiterLabels, ReadLabels,
         Modular, WriteThrough
  <2> QED
    BY <2>1, <2>2, <2>4, <2>5, <2>6, <2>7
<1>3. TypeOK'
  <2>1. locks' \in [Lock -> LockWord]
    BY Constants DEF rollover_clock
  <2>2. hist' \in SUBSET [ts: Nat, addr: Addr, value: Word]
    BY <1>1 DEF rollover_clock, TypeOK
  <2>3. tx' = [t \in Thread |-> tx'[t]]
    BY DEF rollover_clock
  <2> QED
    BY <1>1, <1>2, <2>1, <2>2, <2>3 DEF TypeOK, rollover_clock
<1>4. LocalInv'
  BY <1>2 DEF LocalInv
<1>5. \A k \in Lock : locks'[k].owner = NoOwner /\ locks'[k].owner \notin Thread /\ ~locks'[k].write
  BY EtlAssumption DEF rollover_clock, ZeroLock, LOCK_SET_TIMESTAMP
<1>6. LockInv'
  <2>1. OwnerHolds' /\ WriteLocked'
    BY <1>5 DEF OwnerHolds, OwnerHoldsOf, WriteLocked
  <2>2. HolderOwns' /\ FirstDrops' /\ LinksForward' /\ Linking'
    BY <1>2 DEF HolderOwns, HolderOwnsOf, FirstDrops, FirstDropsOf, LinksForward, LinksForwardOf,
       Linking, LinkingOf, Held, At
  <2>3. StealSafe'
    BY <1>2 DEF StealSafe, StealOK, At
  <2> QED
    BY <2>1, <2>2, <2>3 DEF LockInv
<1>7. \A a \in Addr : Latest(a, mem[a])'
  <2> SUFFICES ASSUME NEW a \in Addr PROVE Latest(a, mem[a])'
    OBVIOUS
  <2>1. \A h \in hist' : h.ts = 0
    BY DEF rollover_clock
  <2>2. [ts |-> 0, addr |-> a, value |-> mem[a]] \in hist'
    BY DEF rollover_clock
  <2> QED
    BY <2>1, <2>2 DEF Latest, rollover_clock
<1>8. MemoryInv'
  BY <1>2, <1>7 DEF MemoryInv, Pending, ToUndo
<1>9. HistoryInv'
  <2>1. (\A h \in hist' : h.ts = 0) /\ clock' = 0
    BY DEF rollover_clock
  <2> QED
    BY <1>2, <2>1 DEF HistoryInv, At
<1> QED
  BY <1>3, <1>4, <1>6, <1>8, <1>9 DEF Inv

-----------------------------------------------------------------------------
(***************************************************************************)
(* Steps that touch locks                                                  *)
(***************************************************************************)
LEMMA LockAtIs ==
  ASSUME TypeOK, NEW u \in Thread, NEW j \in DOMAIN W(u)
  PROVE  LockAt(u, j) \in Lock /\ W(u)[j] \in LogEntry /\ W(u)[j].addr \in Addr /\ j \in Nat
<1>1. W(u) \in Seq(LogEntry)
  BY DEF TypeOK, TxTypes, W
<1>2. W(u)[j] \in LogEntry /\ j \in Nat
  BY <1>1
<1>3. W(u)[j].addr \in Addr
  BY <1>2 DEF LogEntry
<1> QED
  BY <1>2, <1>3, BuildIs DEF LockAt, W, TypeOK

\* What the lock part of the invariant says of the log of one thread.
LogOf(t) ==
  OwnerHoldsOf(t) /\ HolderOwnsOf(t) /\ FirstDropsOf(t) /\ LinksForwardOf(t) /\ LinkingOf(t)

LogTypes ==
  /\ clock' \in Nat /\ locks' \in [Lock -> LockWord] /\ mem' \in [Addr -> Word]
  /\ hist' \in SUBSET [ts: Nat, addr: Addr, value: Word]
  /\ WriteLocked'

\* A step of thread t that leaves the locks of others alone, except for those
\* of killed transactions.
LEMMA LockMove ==
  ASSUME Inv, NEW t \in Thread, build' = build, Moves(t), TxTypes(tx'[t]), LocalOK(t)',
         LogTypes, LogOf(t)',
         \A k \in Lock : locks'[k].owner \in Thread \ {t} => locks'[k] = locks[k],
         \A k \in Lock : locks[k].owner \in Thread \ {t} /\ ~Killed(locks[k].owner) =>
                           locks'[k] = locks[k],
         tx'[t].pc \notin {"kill", "steal"},
         \A v \in Thread \ {t} : At(v, "steal") /\ tx[v].l.owner = t =>
           tx[v].l.inc # tx'[t].gen \/ (Killed(t)' /\ W(t)' # <<>>),
         \A v \in Thread \ {t} :
           At(v, "kill") /\ tx[v].l.owner = t /\ tx[v].seenStatus[2] = "ACTIVE"
           /\ StatusWord(t)' = tx[v].seenStatus => W(t)' # <<>>
  PROVE  TypeOK' /\ LocalInv' /\ LockInv'
<1>1. \A u \in Thread : TxTypes(tx'[u]) /\ LocalOK(u)' /\ (u # t => Unseen(u))
  BY SameTx DEF Inv, LocalInv, Moves
<1>2. TypeOK' /\ LocalInv'
  BY <1>1 DEF Inv, TypeOK, LocalInv, LogTypes, Moves
<1>3. WriteThrough' = WriteThrough /\ LockOf' = LockOf
  BY DEF WriteThrough, LockOf
<1>4. ASSUME NEW u \in Thread, u # t PROVE LogOf(u)'
  <2>1. tx'[u] = tx[u]
    BY <1>4 DEF Moves
  <2>2. W(u)' = W(u) /\ Held(u)' = Held(u) /\ (Killed(u)' <=> Killed(u))
        /\ (At(u, "do_write")' <=> At(u, "do_write")) /\ ArgLock(u)' = ArgLock(u)
    BY <1>1, <1>3, <1>4, <2>1 DEF Unseen, At, ArgLock
  <2>3. \A j : LockAt(u, j)' = LockAt(u, j)
    BY <1>3, <2>1 DEF LockAt
  <2>4. LogOf(u)
    BY DEF Inv, LockInv, LogOf, OwnerHolds, HolderOwns, FirstDrops, LinksForward, Linking
  <2>5. OwnerHoldsOf(u)'
    <3> SUFFICES ASSUME NEW k \in Lock, locks'[k].owner = u
                 PROVE  IF WriteThrough
                          THEN \/ \E j \in Held(u) : LockAt(u, j) = k
                               \/ At(u, "do_write") /\ ArgLock(u) = k
                          ELSE /\ locks[k].inc = tx[u].gen /\ locks'[k] = locks[k]
                               /\ locks[k].n \in DOMAIN W(u) /\ LockAt(u, locks[k].n) = k
                               /\ \E j \in Held(u) : LockAt(u, j) = k
                               /\ Killed(u) => locks[k].n \in Held(u)
      BY <1>3, <2>1, <2>2, <2>3 DEF OwnerHoldsOf
    <3>1. locks'[k] = locks[k]
      BY <1>4
    <3> QED
      BY <2>4, <3>1 DEF LogOf, OwnerHoldsOf
  <2>6. HolderOwnsOf(u)'
    <3>1. At(u, "do_write") => ~Killed(u)
      <4>1. LocalOK(u) /\ (Modular => ~WriteThrough)
        BY BuildIs DEF Inv, LocalInv, TypeOK
      <4> QED
        BY <4>1 DEF LocalOK, LabelsOfBuild, At, Killed
    <3>2. \A j \in Held(u) : LockAt(u, j) \in Lock
      BY LockAtIs DEF Inv, Held
    <3>3. ArgLock(u) \in Lock
      BY ArgLockIs
    <3> QED
      BY <1>4, <2>2, <2>3, <2>4, <3>1, <3>2, <3>3 DEF LogOf, HolderOwnsOf
  <2>7. FirstDropsOf(u)' /\ LinksForwardOf(u)'
    BY <1>3, <2>1, <2>2, <2>3, <2>4
       DEF LogOf, FirstDropsOf, LinksForwardOf, LOCK_GET_OWNED
  <2>8. LinkingOf(u)'
    BY <1>3, <1>4, <2>2, <2>3, <2>4 DEF LogOf, LinkingOf
  <2> QED
    BY <2>5, <2>6, <2>7, <2>8 DEF LogOf
<1>5. \A u \in Thread : LogOf(u)'
  BY <1>4
<1>6. StealSafe'
  <2> SUFFICES ASSUME NEW u \in Thread, NEW other \in Thread, tx'[u].l.owner = other
               PROVE  StealOK(u, other)'
    BY DEF StealSafe
  <2>1. CASE u = t
    BY <2>1 DEF StealOK, At
  <2>2. CASE u # t /\ other = t
    <3>1. tx'[u] = tx[u]
      BY <2>2 DEF Moves
    <3> QED
      BY <2>2, <3>1 DEF StealOK, At
  <2>3. CASE u # t /\ other # t
    <3>1. tx'[u] = tx[u] /\ tx'[other] = tx[other]
      BY <2>3 DEF Moves
    <3>2. StealOK(u, other)
      BY <3>1 DEF Inv, LockInv, StealSafe
    <3> QED
      BY <3>1, <3>2 DEF StealOK, At, StatusWord, Killed, W
  <2> QED
    BY <2>1, <2>2, <2>3
<1> QED
  BY <1>2, <1>5, <1>6
     DEF LockInv, LogOf, LogTypes, OwnerHolds, HolderOwns, FirstDrops, LinksForward, Linking

\* The log keeps its entries, their addresses and their links.
SameLinks(t) ==
  /\ DOMAIN W(t)' = DOMAIN W(t) /\ (W(t)' = <<>> <=> W(t) = <<>>)
  /\ \A j \in DOMAIN W(t) : /\ W(t)'[j].addr = W(t)[j].addr
                            /\ W(t)'[j].next = W(t)[j].next
                            /\ W(t)'[j].no_drop = W(t)[j].no_drop

\* A step of thread t that releases locks, or takes those of a killed
\* transaction away, or goes on with its own.
LEMMA LogMove ==
  ASSUME Inv, NEW t \in Thread, build' = build, Moves(t), TxTypes(tx'[t]), LocalOK(t)',
         LogTypes, SameLinks(t), tx'[t].gen = tx[t].gen, Killed(t)' <=> Killed(t), StatusKept(t),
         tx[t].pc # "do_write", tx'[t].pc \notin {"do_write", "kill", "steal"},
         Held(t)' \subseteq Held(t),
         \A k \in Lock :
           \/ locks'[k] = locks[k]
           \/ /\ locks[k].owner = t /\ locks'[k].owner = t
              /\ locks'[k].n = locks[k].n /\ locks'[k].inc = locks[k].inc
           \/ /\ locks'[k].owner = NoOwner
              /\ locks[k].owner = t \/ (locks[k].owner \in Thread /\ Killed(locks[k].owner)),
         \A k \in Lock : locks'[k].owner = t =>
           /\ \E j \in Held(t)' : LockAt(t, j) = k
           /\ Killed(t) => locks[k].n \in Held(t)',
         ~Killed(t) => \A j \in Held(t)' : locks'[LockAt(t, j)].owner = t
  PROVE  TypeOK' /\ LocalInv' /\ LockInv'
<1>1. WriteThrough' = WriteThrough /\ LockOf' = LockOf /\ NoOwner \notin Thread
  BY EtlAssumption DEF WriteThrough, LockOf
<1>2. \A j \in DOMAIN W(t) : LockAt(t, j)' = LockAt(t, j)
  BY <1>1 DEF LockAt, SameLinks, W
<1>3. Held(t) \subseteq DOMAIN W(t)
  BY DEF Held
<1>4. OwnerHoldsOf(t) /\ FirstDropsOf(t) /\ LinksForwardOf(t) /\ LinkingOf(t)
  BY DEF Inv, LockInv, OwnerHolds, FirstDrops, LinksForward, Linking
<1>5. OwnerHoldsOf(t)'
  <2> SUFFICES ASSUME NEW k \in Lock, locks'[k].owner = t
               PROVE  IF WriteThrough
                        THEN \E j \in Held(t)' : LockAt(t, j)' = k
                        ELSE /\ locks'[k].inc = tx[t].gen
                             /\ locks'[k].n \in DOMAIN W(t) /\ LockAt(t, locks[k].n)' = k
                             /\ \E j \in Held(t)' : LockAt(t, j)' = k
                             /\ Killed(t) => locks'[k].n \in Held(t)'
    BY <1>1 DEF OwnerHoldsOf, SameLinks
  <2>1. locks[k].owner = t /\ locks'[k].n = locks[k].n /\ locks'[k].inc = locks[k].inc
    BY <1>1
  <2>2. \E j \in Held(t)' : LockAt(t, j)' = k
    BY <1>2, <1>3
  <2>3. CASE WriteThrough
    BY <2>2, <2>3
  <2>4. CASE ~WriteThrough
    <3>1. /\ locks[k].inc = tx[t].gen
          /\ locks[k].n \in DOMAIN W(t) /\ LockAt(t, locks[k].n) = k
      BY <1>4, <2>1, <2>4 DEF OwnerHoldsOf
    <3>2. LockAt(t, locks[k].n)' = k
      <4> DEFINE n == locks[k].n
      <4>1. LockAt(t, n) = k /\ n \in DOMAIN W(t)
        BY <3>1
      <4>2. W(t)'[n].addr = W(t)[n].addr
        BY <4>1 DEF SameLinks
      <4>3. locks'[k].n = n
        BY <2>1
      <4> QED
        BY <1>1, <4>1, <4>2, <4>3 DEF LockAt, W
    <3> QED
      BY <2>1, <2>2, <2>4, <3>1, <3>2
  <2> QED
    BY <2>3, <2>4
<1>6. HolderOwnsOf(t)'
  <2>1. \A j \in Held(t)' : LockAt(t, j)' = LockAt(t, j)
    BY <1>2, <1>3
  <2> QED
    BY <2>1 DEF HolderOwnsOf, At
<1>7. FirstDropsOf(t)'
  BY <1>1, <1>2, <1>4 DEF FirstDropsOf, SameLinks, At
<1>8. LinksForwardOf(t)'
  BY <1>1, <1>4 DEF LinksForwardOf, SameLinks
<1>9. LinkingOf(t)'
  <2> SUFFICES ASSUME ~WriteThrough, ~Killed(t)
               PROVE  LinkingOf(t)'
    BY <1>1 DEF LinkingOf
  <2>1. \A j \in DOMAIN W(t) : W(t)[j].next # 0 => W(t)[j].next \in DOMAIN W(t)
    BY <1>4 DEF LinksForwardOf
  <2>2. \A j \in DOMAIN W(t)' :
          /\ W(t)'[j].next # 0 => LockAt(t, W(t)[j].next)' = LockAt(t, j)'
          /\ \A h \in DOMAIN W(t)' : h > j /\ LockAt(t, h)' = LockAt(t, j)' =>
               W(t)'[j].next # 0 /\ W(t)'[j].next <= h
    <3> SUFFICES ASSUME NEW j \in DOMAIN W(t)
                 PROVE  /\ W(t)'[j].next # 0 => LockAt(t, W(t)[j].next)' = LockAt(t, j)'
                        /\ \A h \in DOMAIN W(t)' : h > j /\ LockAt(t, h)' = LockAt(t, j)' =>
                             W(t)'[j].next # 0 /\ W(t)'[j].next <= h
      BY DEF SameLinks
    <3> DEFINE n == W(t)[j].next
    <3>1. W(t)'[j].next = n
      BY DEF SameLinks
    <3>2. n # 0 => LockAt(t, n) = LockAt(t, j) /\ n \in DOMAIN W(t)
      BY <1>4, <2>1 DEF LinkingOf
    <3>3. n # 0 => W(t)'[n].addr = W(t)[n].addr
      BY <3>2 DEF SameLinks
    <3>4. n # 0 => LockAt(t, W(t)[j].next)' = LockAt(t, j)'
      BY <1>1, <1>2, <3>1, <3>2, <3>3 DEF LockAt, W
    <3>5. \A h \in DOMAIN W(t) : h > j /\ LockAt(t, h) = LockAt(t, j) => n # 0 /\ n <= h
      BY <1>4 DEF LinkingOf
    <3> HIDE DEF n
    <3> QED
      BY <1>2, <3>1, <3>4, <3>5 DEF SameLinks
  <2>3. \A j, h \in DOMAIN W(t)' : W(t)'[j].addr = W(t)'[h].addr => j = h
    BY <1>4 DEF LinkingOf, SameLinks
  <2>4. \A k \in Lock, j \in DOMAIN W(t)' :
          locks'[k].owner = t /\ LockAt(t, j)' = k => locks'[k].n <= j
    <3> SUFFICES ASSUME NEW k \in Lock, NEW j \in DOMAIN W(t)', locks'[k].owner = t,
                        LockAt(t, j)' = k
                 PROVE  locks'[k].n <= j
      OBVIOUS
    <3>1. locks[k].owner = t /\ locks'[k].n = locks[k].n
      BY <1>1
    <3>2. LockAt(t, j) = k /\ j \in DOMAIN W(t)
      BY <1>2 DEF SameLinks
    <3> QED
      BY <1>4, <3>1, <3>2 DEF LinkingOf
  <2> QED
    BY <2>2, <2>3, <2>4 DEF LinkingOf
<1>10. LogOf(t)'
  BY <1>5, <1>6, <1>7, <1>8, <1>9 DEF LogOf
<1>11. \A k \in Lock : locks'[k].owner \in Thread \ {t} => locks'[k] = locks[k]
  BY <1>1
<1>12. \A k \in Lock : locks[k].owner \in Thread \ {t} /\ ~Killed(locks[k].owner) =>
                         locks'[k] = locks[k]
  OBVIOUS
<1>13. \A v \in Thread \ {t} : At(v, "steal") /\ tx[v].l.owner = t =>
         tx[v].l.inc # tx'[t].gen \/ (Killed(t)' /\ W(t)' # <<>>)
  BY DEF Inv, LockInv, StealSafe, StealOK, SameLinks
<1>14. \A v \in Thread \ {t} :
         At(v, "kill") /\ tx[v].l.owner = t /\ tx[v].seenStatus[2] = "ACTIVE"
         /\ StatusWord(t)' = tx[v].seenStatus => W(t)' # <<>>
  BY DEF Inv, LockInv, StealSafe, StealOK, SameLinks, StatusKept
<1> QED
  BY <1>10, <1>11, <1>12, <1>13, <1>14, LockMove

-----------------------------------------------------------------------------
(***************************************************************************)
(* Releases                                                                *)
(***************************************************************************)
ReleaseLabels == {"write_back", "release", "undo", "undo_clock", "undo_release", "drop",
                  "drop_reads"}

\* Thread t goes on at label lab, with position n in its log.
Steps(t, lab, n) ==
  /\ Moves(t) /\ Kept(tx'[t], tx[t]) /\ tx'[t].pc = lab /\ tx'[t].i = n
  /\ tx'[t].arg = tx[t].arg /\ tx'[t].l = tx[t].l /\ tx'[t].ts = tx[t].ts
  /\ tx'[t].seenStatus = tx[t].seenStatus /\ tx'[t].op = tx[t].op

LEMMA StepIs ==
  ASSUME Inv, NEW t \in Thread, NEW n, NEW lab, Become(t, [tx[t] EXCEPT !.i = n], lab)
  PROVE  Steps(t, lab, n)
<1>1. TxTypes(tx[t])
  BY DEF Inv, TypeOK
<1> DEFINE d == [tx[t] EXCEPT !.i = n]
<1>2. Kept(d, tx[t]) /\ d.i = n /\ d.arg = tx[t].arg /\ d.l = tx[t].l /\ d.op = tx[t].op
      /\ d.ts = tx[t].ts /\ d.seenStatus = tx[t].seenStatus
  <2>1. Shape(d)
    BY <1>1 DEF TxTypes, Shape
  <2> QED
    BY <1>1, <2>1 DEF TxTypes, Shape, Fields, Kept
<1>3. Become(t, d, lab)
  OBVIOUS
<1> HIDE DEF d
<1>4. Moves(t) /\ tx'[t].pc = lab /\ Kept(tx'[t], d) /\ SameLocals(tx'[t], d)
  BY <1>2, <1>3, BecomeIs DEF Inv, TypeOK, Kept
<1> QED
  BY <1>2, <1>4 DEF Steps, Kept, SameLocals

LEMMA StayIs ==
  ASSUME Inv, NEW t \in Thread, NEW lab, Become(t, tx[t], lab)
  PROVE  Steps(t, lab, tx[t].i)
<1>1. Shape(tx[t])
  BY DEF Inv, TypeOK, TxTypes
<1>2. Moves(t) /\ tx'[t].pc = lab /\ Kept(tx'[t], tx[t]) /\ SameLocals(tx'[t], tx[t])
  BY <1>1, BecomeIs DEF Inv, TypeOK
<1> QED
  BY <1>2 DEF Steps, SameLocals

LEMMA StepLocal ==
  ASSUME Inv, NEW t \in Thread, build' = build, tx[t].pc \in ReleaseLabels,
         NEW lab \in ReleaseLabels \cup {"end"}, NEW n, Steps(t, lab, n),
         lab = "drop" <=> tx[t].pc = "drop", lab = "drop_reads" => Modular,
         lab = "write_back" => ~WriteThrough,
         lab \in {"undo_clock", "undo_release"} => WriteThrough, Position(t)'
  PROVE  /\ TxTypes(tx'[t]) /\ LocalOK(t)' /\ StatusKept(t) /\ (Killed(t)' <=> Killed(t))
         /\ W(t)' = W(t) /\ SameLinks(t) /\ tx'[t].gen = tx[t].gen
         /\ tx'[t].pc \notin {"do_write", "kill", "steal", "validate"}
<1>1. TxTypes(tx[t]) /\ LocalOK(t)
  BY DEF Inv, TypeOK, LocalInv
<1>2. TxTypes(tx'[t])
  BY <1>1 DEF TxTypes, Steps, Kept, Labels, CommitLabels, AbortLabels, ReleaseLabels
<1>3. WriteThrough' = WriteThrough /\ Modular' = Modular
  BY DEF WriteThrough, Modular
<1>4. W(t)' = W(t) /\ SameLinks(t) /\ (Killed(t)' <=> Killed(t)) /\ tx'[t].gen = tx[t].gen
  BY DEF W, SameLinks, Steps, Kept, Killed
<1>5. StatusKept(t)
  BY DEF StatusKept, StatusWord, Steps, Kept
<1>6. CallsBound(t)' /\ TicketPhase(t)' /\ Remembers(t)'
  BY <1>1, <1>4 DEF LocalOK, CallsBound, TicketPhase, Remembers, InCall, At, Steps, Kept,
     CallLabels, FreeLabels, ReadLabels, ArbiterLabels, ReleaseLabels
<1>7. LabelsOfBuild(t)'
  BY <1>1, <1>3 DEF LocalOK, LabelsOfBuild, ArbiterLabels, Steps, Kept, ReleaseLabels
<1>8. StatusPhase(t)'
  BY <1>1, <1>3 DEF LocalOK, StatusPhase, InCall, At, Steps, Kept, CallLabels, ReleaseLabels
<1> QED
  BY <1>2, <1>4, <1>5, <1>6, <1>7, <1>8 DEF LocalOK, Steps, ReleaseLabels

\* The entry that drops a lock is the last one to hold it.
DropsLast(t) == IF WriteThrough THEN ~W(t)[tx[t].i].no_drop ELSE W(t)[tx[t].i].next = 0

LEMMA LastOfLock ==
  ASSUME Inv, NEW t \in Thread, ~Killed(t), Releasing(t), tx[t].i \in DOMAIN W(t)
  PROVE  /\ tx[t].i \in Held(t)
         /\ DropsLast(t) <=> \A j \in Held(t) \ {tx[t].i} : LockAt(t, j) # LockAt(t, tx[t].i)
<1> DEFINE i == tx[t].i
<1>1. FirstDropsOf(t) /\ LinksForwardOf(t) /\ LinkingOf(t)
  BY DEF Inv, LockInv, FirstDrops, LinksForward, Linking
<1>2. Held(t) = {j \in DOMAIN W(t) : IF WriteThrough THEN j <= i ELSE j >= i}
  BY DEF Held, Releasing, At
<1>3. \A j \in DOMAIN W(t) : j \in Nat
  BY LockAtIs DEF Inv
<1> HIDE DEF i
<1>4. i \in DOMAIN W(t)
  BY DEF i
<1>5. CASE WriteThrough
  <2>1. W(t)[i].no_drop <=> \E h \in DOMAIN W(t) : h < i /\ LockAt(t, h) = LockAt(t, i)
    BY <1>1, <1>4, <1>5 DEF FirstDropsOf
  <2> QED
    BY <1>2, <1>3, <1>4, <1>5, <2>1 DEF DropsLast, i
<1>6. CASE ~WriteThrough
  <2>1. W(t)[i].next # 0 => /\ W(t)[i].next \in DOMAIN W(t) /\ W(t)[i].next > i
                            /\ LockAt(t, W(t)[i].next) = LockAt(t, i)
    BY <1>1, <1>4, <1>6 DEF LinksForwardOf, LinkingOf
  <2>2. \A h \in DOMAIN W(t) : h > i /\ LockAt(t, h) = LockAt(t, i) => W(t)[i].next # 0
    BY <1>1, <1>4, <1>6 DEF LinkingOf
  <2> DEFINE n == W(t)[i].next
  <2>3. n # 0 => n \in Held(t) \ {i} /\ LockAt(t, n) = LockAt(t, i)
    BY <1>2, <1>3, <1>4, <1>6, <2>1
  <2>4. n = 0 => \A j \in Held(t) \ {i} : LockAt(t, j) # LockAt(t, i)
    BY <1>2, <1>3, <1>4, <1>6, <2>2
  <2>5. i \in Held(t)
    BY <1>2, <1>3, <1>4, <1>6
  <2>6. DropsLast(t) <=> n = 0
    BY <1>6 DEF DropsLast, i
  <2> QED
    BY <2>3, <2>4, <2>5, <2>6 DEF i
<1> QED
  BY <1>5, <1>6

\* A lock word without an owner.
Free(w) == w \in LockWord /\ w.owner = NoOwner /\ ~w.write

\* One entry of the log is done with; the lock goes if it is its last.
LEMMA PassMove ==
  ASSUME Inv, NEW t \in Thread, build' = build, ~Killed(t), tx[t].pc \in ReleaseLabels,
         tx[t].i \in DOMAIN W(t), Moves(t), TxTypes(tx'[t]), LocalOK(t)', StatusKept(t),
         ~Killed(t)', SameLinks(t), tx'[t].gen = tx[t].gen,
         tx'[t].pc \notin {"do_write", "kill", "steal"},
         Held(t)' = Held(t) \ {tx[t].i},
         NEW w, Free(w),
         locks' = IF DropsLast(t) THEN [locks EXCEPT ![LockAt(t, tx[t].i)] = w] ELSE locks,
         clock' = clock, hist' = hist, mem' \in [Addr -> Word]
  PROVE  TypeOK' /\ LocalInv' /\ LockInv'
<1> DEFINE i == tx[t].i
<1>1. TypeOK /\ OwnerHoldsOf(t) /\ HolderOwnsOf(t)
  BY DEF Inv, LockInv, OwnerHolds, HolderOwns
<1>2. Releasing(t) /\ tx[t].pc # "do_write"
  BY DEF Releasing, ReleaseLabels
<1>3. /\ i \in Held(t)
      /\ DropsLast(t) <=> \A j \in Held(t) \ {i} : LockAt(t, j) # LockAt(t, i)
  BY <1>2, LastOfLock
<1>4. \A j \in Held(t) : LockAt(t, j) \in Lock /\ locks[LockAt(t, j)].owner = t
  BY <1>1, LockAtIs DEF HolderOwnsOf, Held
<1>5. \A k \in Lock : locks[k].owner = t => \E j \in Held(t) : LockAt(t, j) = k
  BY <1>1, <1>2 DEF OwnerHoldsOf, At
<1>6. locks \in [Lock -> LockWord] /\ NoOwner \notin Thread
  BY <1>1, EtlAssumption DEF TypeOK
<1> HIDE DEF i
<1>7. \A k \in Lock :
        \/ locks'[k] = locks[k] /\ (DropsLast(t) => k # LockAt(t, i))
        \/ DropsLast(t) /\ k = LockAt(t, i) /\ locks'[k] = w
  BY <1>3, <1>4, <1>6 DEF i
<1>8. LogTypes
  BY <1>1, <1>3, <1>4, <1>6, <1>7 DEF LogTypes, TypeOK, Inv, LockInv, WriteLocked, LOCK_GET_OWNED,
     Free, i
<1>9. \A k \in Lock :
        \/ locks'[k] = locks[k]
        \/ locks'[k].owner = NoOwner /\ locks[k].owner = t
  BY <1>3, <1>4, <1>7 DEF Free
<1>10. \A k \in Lock : locks'[k].owner = t => \E j \in Held(t)' : LockAt(t, j) = k
  <2> SUFFICES ASSUME NEW k \in Lock, locks'[k].owner = t
               PROVE  \E j \in Held(t) \ {i} : LockAt(t, j) = k
    BY DEF i
  <2>1. locks[k].owner = t /\ (DropsLast(t) => k # LockAt(t, i))
    BY <1>6, <1>7 DEF Free
  <2>2. PICK j \in Held(t) : LockAt(t, j) = k
    BY <1>5, <2>1
  <2> QED
    BY <1>3, <2>1, <2>2
<1>11. \A j \in Held(t)' : locks'[LockAt(t, j)].owner = t
  <2> SUFFICES ASSUME NEW j \in Held(t) \ {i} PROVE locks'[LockAt(t, j)].owner = t
    BY DEF i
  <2> QED
    BY <1>3, <1>4, <1>7
<1> QED
  BY <1>2, <1>8, <1>9, <1>10, <1>11, LogMove

LEMMA LogSize ==
  ASSUME Inv, NEW t \in Thread
  PROVE  /\ W(t) \in Seq(LogEntry) /\ Len(W(t)) \in Nat /\ DOMAIN W(t) = 1..Len(W(t))
         /\ W(t) = <<>> <=> Len(W(t)) = 0
BY DEF Inv, TypeOK, TxTypes, W

\* The position after the entry, or the end of the log.
Passes(t, lab, n) ==
  \/ lab \in ReleaseLabels /\ n = (IF WriteThrough THEN tx[t].i - 1 ELSE tx[t].i + 1)
  \/ lab = "end" /\ tx[t].i = (IF WriteThrough THEN 1 ELSE Len(W(t)))

LEMMA HeldPass ==
  ASSUME Inv, NEW t \in Thread, build' = build, tx[t].pc \in ReleaseLabels,
         tx[t].i \in DOMAIN W(t), NEW lab, NEW n, Steps(t, lab, n), Passes(t, lab, n)
  PROVE  Held(t)' = Held(t) \ {tx[t].i}
<1>1. WriteThrough' = WriteThrough /\ W(t)' = W(t)
  BY DEF WriteThrough, Steps, Kept, W
<1>2. Held(t) = {j \in DOMAIN W(t) : IF WriteThrough THEN j <= tx[t].i ELSE j >= tx[t].i}
  BY DEF Held, Releasing, At, ReleaseLabels
<1>3. Len(W(t)) \in Nat /\ DOMAIN W(t) = 1..Len(W(t))
  BY LogSize
<1>4. CASE lab = "end" /\ tx[t].i = (IF WriteThrough THEN 1 ELSE Len(W(t)))
  <2>1. Held(t)' = {}
    BY <1>4 DEF Held, At, Steps
  <2> QED
    BY <1>2, <1>3, <1>4, <2>1
<1>5. CASE lab \in ReleaseLabels /\ n = (IF WriteThrough THEN tx[t].i - 1 ELSE tx[t].i + 1)
  <2>1. Held(t)' = {j \in DOMAIN W(t) : IF WriteThrough THEN j <= n ELSE j >= n}
    BY <1>1, <1>5 DEF Held, Releasing, At, ReleaseLabels, Steps
  <2> QED
    BY <1>2, <1>3, <1>5, <2>1
<1> QED
  BY <1>4, <1>5 DEF Passes

LEMMA OthersUnseen ==
  ASSUME Inv, NEW t \in Thread, build' = build, Moves(t), LogUnseen(t)
  PROVE  \A u \in Thread : LogUnseen(u)
BY SameTx DEF Inv, Moves, Unseen

\* The lock of the entry at hand gets the word w if the entry is its last.
GivesBack(t, w) ==
  locks' = IF DropsLast(t) THEN [locks EXCEPT ![LockAt(t, tx[t].i)] = w] ELSE locks

\* A release in the order of the log.
LEMMA ReleaseMove ==
  ASSUME Inv, NEW t \in Thread, build' = build, UNCHANGED <<clock, mem, hist>>, ~Killed(t),
         tx[t].pc \in ReleaseLabels, tx[t].i \in DOMAIN W(t), NEW lab, NEW n,
         Steps(t, lab, n), Passes(t, lab, n), lab # "drop", lab = "drop_reads" => Modular,
         lab = "write_back" => ~WriteThrough, lab \notin {"undo_clock", "undo_release"},
         Position(t)', LogUnseen(t), NEW w, Free(w),
         GivesBack(t, w)
  PROVE  Inv'
<1>1. Held(t)' = Held(t) \ {tx[t].i} /\ lab \in ReleaseLabels \cup {"end"}
  BY HeldPass DEF Passes
<1>2. tx[t].pc # "drop"
  BY DEF Inv, LocalInv, LocalOK, StatusPhase, At, Killed
<1>3. /\ TxTypes(tx'[t]) /\ LocalOK(t)' /\ StatusKept(t) /\ (Killed(t)' <=> Killed(t))
      /\ W(t)' = W(t) /\ SameLinks(t) /\ tx'[t].gen = tx[t].gen
      /\ tx'[t].pc \notin {"do_write", "kill", "steal", "validate"}
  BY <1>1, <1>2, StepLocal
<1>4. TypeOK' /\ LocalInv' /\ LockInv'
  BY <1>1, <1>3, PassMove DEF Steps, Inv, TypeOK, GivesBack
<1>5. MemoryInv' /\ HistoryInv'
  BY OthersUnseen, MemoryKept DEF Steps
<1> QED
  BY <1>4, <1>5 DEF Inv

LEMMA FreeWords ==
  ASSUME NEW v \in Nat
  PROVE  /\ Free(LOCK_SET_TIMESTAMP(v))
         /\ \A j \in Nat : Free(LOCK_UPD_INCARNATION(v, j))
BY DEF Free, LOCK_SET_TIMESTAMP, LOCK_UPD_INCARNATION, LockWord

\* WRITE_BACK_ETL: the versions come back.
LEMMA VersionsBack ==
  ASSUME Inv, NEW t \in Thread, build' = build, UNCHANGED <<clock, mem, hist>>, ~WriteThrough,
         \/ At(t, "undo")
         \/ At(t, "drop_reads") /\ Modular,
         tx[t].i <= Len(tx[t].w_set),
         GivesBack(t, LOCK_SET_TIMESTAMP(W(t)[tx[t].i].version)),
         Steps(t, tx[t].pc, tx[t].i + 1)
  PROVE  Inv'
<1> DEFINE lab == tx[t].pc
           n == tx[t].i + 1
<1>1. Steps(t, lab, n)
  OBVIOUS
<1>2. LocalOK(t)
  BY DEF Inv, LocalInv
<1>3. Len(W(t)) \in Nat /\ DOMAIN W(t) = 1..Len(W(t)) /\ W(t) \in Seq(LogEntry)
  BY LogSize
<1>4. tx[t].i \in 1..Len(W(t))
  <2>1. tx[t].i \in 1..(Len(W(t)) + 1)
    BY <1>2 DEF LocalOK, Position, At
  <2>2. tx[t].i <= Len(W(t))
    BY DEF W
  <2> QED
    BY <1>3, <2>1, <2>2
<1>5. ~Killed(t)
  BY NotKilled DEF At, InCommit, CommitLabels
<1>6. Position(t)'
  <2>1. W(t)' = W(t) /\ ~WriteThrough' /\ tx'[t].i = n /\ tx'[t].pc \in {"undo", "drop_reads"}
    BY <1>1 DEF Steps, Kept, W, WriteThrough, At
  <2>2. n \in 1..(Len(W(t)) + 1)
    BY <1>3, <1>4
  <2> HIDE DEF n
  <2> QED
    BY <2>1, <2>2 DEF Position, At
<1>7. LogUnseen(t)
  BY <1>1 DEF LogUnseen, Steps, Kept, W, Pending, At
<1>8. Free(LOCK_SET_TIMESTAMP(W(t)[tx[t].i].version))
  <2>1. W(t)[tx[t].i].version \in Nat
    <3>1. W(t)[tx[t].i] \in LogEntry
      BY <1>3, <1>4
    <3> QED
      BY <3>1 DEF LogEntry
  <2> QED
    BY <2>1, FreeWords
<1>10. Passes(t, lab, n)
  BY DEF Passes, ReleaseLabels, At
<1>11. lab \in ReleaseLabels /\ lab \in {"undo", "drop_reads"} /\ (lab = "drop_reads" => Modular)
  BY DEF ReleaseLabels, At
<1> HIDE DEF n
<1> QED
  BY <1>1, <1>3, <1>4, <1>5, <1>6, <1>7, <1>8, <1>10, <1>11, ReleaseMove

LEMMA RollbackReleaseInv ==
  ASSUME Inv, NEW t \in Thread, build' = build, RollbackRelease(t)
  PROVE  Inv'
<1>1. At(t, "undo") /\ ~WriteThrough /\ tx[t].pc = "undo" /\ tx[t].i <= Len(tx[t].w_set)
  BY DEF RollbackRelease, At
<1>2. GivesBack(t, LOCK_SET_TIMESTAMP(W(t)[tx[t].i].version))
  BY DEF RollbackRelease, W, GivesBack, DropsLast, LockAt
<1>3. Steps(t, tx[t].pc, tx[t].i + 1)
  <2>1. Become(t, [tx[t] EXCEPT !.i = @ + 1], tx[t].pc)
    BY <1>1, Zenon DEF RollbackRelease
  <2> QED
    BY <2>1, StepIs
<1>4. UNCHANGED <<clock, mem, hist>>
  BY DEF RollbackRelease
<1> QED
  BY <1>1, <1>2, <1>3, <1>4, VersionsBack

LEMMA CommitReadsInv ==
  ASSUME Inv, NEW t \in Thread, build' = build, CommitReads(t)
  PROVE  Inv'
<1>1. /\ At(t, "drop_reads") /\ tx[t].pc = "drop_reads" /\ mem' = mem /\ hist' = hist
      /\ TxTypes(tx[t]) /\ LocalOK(t) /\ Modular /\ ~WriteThrough
  BY BuildIs DEF CommitReads, At, Inv, TypeOK, LocalInv, LocalOK, LabelsOfBuild
<1>2. CASE tx[t].i <= Len(tx[t].w_set)
  <2>1. Len(tx[t].w_set) \in Nat /\ tx[t].i \in Nat
    BY <1>1, LogSize DEF W, LocalOK, Position
  <2>2. ~(tx[t].i > Len(tx[t].w_set))
    BY <1>2, <2>1
  <2>3. GivesBack(t, LOCK_SET_TIMESTAMP(W(t)[tx[t].i].version))
    BY <1>1, <2>2 DEF CommitReads, W, GivesBack, DropsLast, LockAt
  <2>4. Steps(t, tx[t].pc, tx[t].i + 1) /\ clock' = clock
    <3>1. Become(t, [tx[t] EXCEPT !.i = @ + 1], tx[t].pc) /\ clock' = clock
      BY <1>1, <2>2, Zenon DEF CommitReads
    <3> QED
      BY <3>1, StepIs
  <2> QED
    BY <1>1, <1>2, <2>3, <2>4, VersionsBack
<1>3. CASE tx[t].i > Len(tx[t].w_set)
  <2>1. Len(tx[t].w_set) \in Nat /\ tx[t].i = Len(tx[t].w_set) + 1
        /\ DOMAIN W(t) = 1..Len(W(t))
    BY <1>1, <1>3, LogSize DEF W, LocalOK, Position
  <2>2. ~(tx[t].i <= Len(tx[t].w_set))
    BY <1>3, <2>1
  <2>3. locks' = locks /\ clock' = clock + 1 /\ Become(t, [tx[t] EXCEPT !.i = 0], "end")
    BY <2>2, Zenon DEF CommitReads
  <2>4. Steps(t, "end", 0)
    BY <2>3, StepIs
  <2>5. Position(t)'
    BY <2>4 DEF Position, At, Steps
  <2>6. /\ TxTypes(tx'[t]) /\ LocalOK(t)' /\ StatusKept(t) /\ (Killed(t)' <=> Killed(t))
        /\ W(t)' = W(t) /\ tx'[t].gen = tx[t].gen
    BY <1>1, <2>4, <2>5, StepLocal DEF ReleaseLabels
  <2>7. Held(t) = {} /\ Held(t)' = {}
    <3>1. Held(t)' = {}
      BY <2>4 DEF Held, At, Steps
    <3>2. Held(t) = {j \in DOMAIN W(t) : j >= tx[t].i}
      BY <1>1 DEF Held, At, Releasing
    <3> QED
      BY <2>1, <3>1, <3>2 DEF W
  <2>8. Unseen(t)
    BY <1>1, <2>4, <2>6, <2>7 DEF Unseen, LogUnseen, Pending, At, Steps
  <2>9. \A other \in Thread : StealOK(t, other)'
    BY <2>4 DEF StealOK, At, Steps
  <2> QED
    BY <1>1, <2>3, <2>4, <2>6, <2>8, <2>9, QuietInv DEF Quiet, Steps
<1> QED
  BY <1>2, <1>3, Zenon DEF CommitReads

\* The next entry of a commit, or its end.
LEMMA NextEntryIs ==
  ASSUME Inv, NEW t \in Thread, NextEntry(t), tx[t].i \in 1..Len(W(t))
  PROVE  \E lab \in {"end", "release", "write_back"}, n \in Nat :
           /\ Steps(t, lab, n) /\ Passes(t, lab, n)
           /\ lab # "end" => n \in 1..Len(W(t))
           /\ lab = "release" => WriteThrough
           /\ lab = "write_back" => ~WriteThrough
<1>1. Len(W(t)) \in Nat
  BY LogSize
<1> DEFINE last == IF WriteThrough THEN tx[t].i = 1 ELSE tx[t].i = Len(tx[t].w_set)
<1>2. CASE last
  <2>1. Become(t, [tx[t] EXCEPT !.i = 0], "end")
    BY <1>2, Zenon DEF NextEntry
  <2>2. Steps(t, "end", 0)
    BY <2>1, StepIs
  <2>3. Passes(t, "end", 0)
    BY <1>2 DEF Passes, W
  <2> QED
    BY <2>2, <2>3
<1>3. CASE ~last /\ WriteThrough
  <2>1. Become(t, [tx[t] EXCEPT !.i = @ - 1], "release")
    BY <1>3, Zenon DEF NextEntry
  <2>2. Steps(t, "release", tx[t].i - 1)
    BY <2>1, StepIs
  <2>3. Passes(t, "release", tx[t].i - 1)
    BY <1>3 DEF Passes, ReleaseLabels
  <2>4. tx[t].i - 1 \in 1..Len(W(t)) /\ tx[t].i - 1 \in Nat
    BY <1>1, <1>3
  <2> QED
    BY <1>3, <2>2, <2>3, <2>4
<1>4. CASE ~last /\ ~WriteThrough
  <2>1. Become(t, [tx[t] EXCEPT !.i = @ + 1], "write_back")
    BY <1>4, Zenon DEF NextEntry
  <2>2. Steps(t, "write_back", tx[t].i + 1)
    BY <2>1, StepIs
  <2>3. Passes(t, "write_back", tx[t].i + 1)
    BY <1>4 DEF Passes, ReleaseLabels
  <2>4. tx[t].i + 1 \in 1..Len(W(t)) /\ tx[t].i + 1 \in Nat
    BY <1>1, <1>4 DEF W
  <2> QED
    BY <1>4, <2>2, <2>3, <2>4
<1> QED
  BY <1>2, <1>3, <1>4

LEMMA CommitReleaseInv ==
  ASSUME Inv, NEW t \in Thread, build' = build, CommitRelease(t)
  PROVE  Inv'
<1>1. /\ At(t, "release") /\ tx[t].pc = "release" /\ UNCHANGED <<clock, mem, hist>>
      /\ TxTypes(tx[t]) /\ LocalOK(t) /\ NextEntry(t)
  BY DEF CommitRelease, At, Inv, TypeOK, LocalInv
<1>2. /\ tx[t].i \in 1..Len(W(t)) /\ Len(W(t)) \in Nat /\ DOMAIN W(t) = 1..Len(W(t))
      /\ ~WriteThrough => W(t)[tx[t].i].next = 0
  BY <1>1, LogSize DEF LocalOK, Position
<1>3. PICK lab \in {"end", "release", "write_back"}, n \in Nat :
           /\ Steps(t, lab, n) /\ Passes(t, lab, n)
           /\ lab # "end" => n \in 1..Len(W(t))
           /\ lab = "release" => WriteThrough
           /\ lab = "write_back" => ~WriteThrough
  BY <1>1, <1>2, NextEntryIs
<1>4. Drops(W(t)[tx[t].i]) <=> DropsLast(t)
  <2>1. LinksForwardOf(t)
    BY DEF Inv, LockInv, LinksForward
  <2> QED
    BY <1>2, <2>1 DEF LinksForwardOf, Drops, DropsLast
<1>5. Free(LOCK_SET_TIMESTAMP(tx[t].ts))
  BY <1>1, FreeWords DEF TxTypes
<1>6. GivesBack(t, LOCK_SET_TIMESTAMP(tx[t].ts))
  BY <1>4 DEF GivesBack, CommitRelease, W, LockAt
<1>7. ~Killed(t)
  BY <1>1, NotKilled DEF InCommit, CommitLabels
<1>8. WriteThrough' = WriteThrough /\ W(t)' = W(t)
  BY <1>3 DEF WriteThrough, Steps, Kept, W
<1>9. Position(t)'
  BY <1>3, <1>8 DEF Position, At, Steps
<1>10. ~WriteThrough => \A a \in Addr, j \in Nat : Pending(t, a, j)' <=> Pending(t, a, j)
  <2> SUFFICES ASSUME ~WriteThrough, NEW a \in Addr, NEW j \in Nat, j \in DOMAIN W(t)
               PROVE  Pending(t, a, j)' <=> Pending(t, a, j)
    BY <1>8 DEF Pending
  <2>1. Pending(t, a, j) <=> W(t)[j].addr = a /\ W(t)[j].mask # {} /\ j > tx[t].i
    BY <1>1 DEF Pending, At
  <2>2. CASE lab = "end"
    <3>1. ~Pending(t, a, j)'
      BY <1>3, <2>2 DEF Pending, At, Steps
    <3> QED
      BY <1>2, <1>3, <2>1, <2>2, <3>1 DEF Passes, ReleaseLabels
  <2>3. CASE lab = "write_back"
    <3>1. Pending(t, a, j)' <=> W(t)[j].addr = a /\ W(t)[j].mask # {} /\ j >= tx[t].i + 1
      BY <1>3, <1>8, <2>3 DEF Pending, At, Steps, Passes, ReleaseLabels
    <3> QED
      BY <1>2, <2>1, <3>1
  <2> QED
    BY <1>3, <2>2, <2>3
<1>11. \A a \in Addr, j \in Nat : ~ToUndo(t, a, j) /\ (WriteThrough => ~ToUndo(t, a, j)')
  BY <1>1, <1>3 DEF ToUndo, Steps
<1>12. LogUnseen(t)
  BY <1>3, <1>8, <1>10, <1>11 DEF LogUnseen, At, Steps
<1> QED
  BY <1>1, <1>2, <1>3, <1>5, <1>6, <1>7, <1>9, <1>12, ReleaseMove DEF ReleaseLabels

LEMMA UndoReleaseInv ==
  ASSUME Inv, NEW t \in Thread, build' = build, UndoRelease(t)
  PROVE  Inv'
<1>1. /\ At(t, "undo_release") /\ tx[t].pc = "undo_release" /\ UNCHANGED <<clock, mem, hist>>
      /\ TxTypes(tx[t]) /\ LocalOK(t) /\ WriteThrough
  BY DEF UndoRelease, At, Inv, TypeOK, LocalInv, LocalOK, LabelsOfBuild
<1>2. /\ tx[t].i \in 1..Len(W(t)) /\ Len(W(t)) \in Nat /\ DOMAIN W(t) = 1..Len(W(t))
      /\ ~W(t)[tx[t].i].no_drop /\ W(t) \in Seq(LogEntry)
  BY <1>1, LogSize DEF LocalOK, Position
<1>3. Steps(t, "undo", tx[t].i - 1)
  <2>1. Become(t, [tx[t] EXCEPT !.i = @ - 1], "undo")
    BY Zenon DEF UndoRelease
  <2> QED
    BY <2>1, StepIs
<1> DEFINE w == UndoneWord(W(t)[tx[t].i], tx[t].ts)
<1>4. Free(w)
  <2>1. W(t)[tx[t].i] \in LogEntry
    BY <1>2
  <2>2. W(t)[tx[t].i].version \in Nat /\ W(t)[tx[t].i].inc \in Nat /\ tx[t].ts \in Nat
    BY <1>1, <2>1 DEF LogEntry, TxTypes
  <2> QED
    BY <2>2, FreeWords DEF UndoneWord
<1>5. GivesBack(t, w)
  BY <1>1, <1>2 DEF GivesBack, DropsLast, UndoRelease, W, LockAt
<1> HIDE DEF w
<1>6. ~Killed(t)
  BY <1>1, NotKilled
<1>7. WriteThrough' = WriteThrough /\ W(t)' = W(t)
  BY <1>3 DEF WriteThrough, Steps, Kept, W
<1>8. Position(t)'
  <2>1. tx[t].i - 1 \in 0..Len(W(t))
    BY <1>2
  <2> QED
    BY <1>1, <1>3, <1>7, <2>1 DEF Position, At, Steps
<1>9. \A a \in Addr, j \in Nat : ToUndo(t, a, j)' <=> ToUndo(t, a, j)
  BY <1>1, <1>2, <1>3, <1>7 DEF ToUndo, At, Steps
<1>10. LogUnseen(t)
  BY <1>1, <1>3, <1>7, <1>9 DEF LogUnseen, At, Steps
<1>11. Passes(t, "undo", tx[t].i - 1)
  BY <1>1 DEF Passes, ReleaseLabels
<1> QED
  BY <1>1, <1>2, <1>3, <1>4, <1>5, <1>6, <1>8, <1>10, <1>11, ReleaseMove DEF ReleaseLabels

LEMMA UndoClockInv ==
  ASSUME Inv, NEW t \in Thread, build' = build, UndoClock(t)
  PROVE  Inv'
<1>1. /\ tx[t].pc = "undo_clock" /\ UNCHANGED <<locks, mem, hist>> /\ clock' = clock + 1
      /\ TxTypes(tx[t]) /\ LocalOK(t) /\ WriteThrough /\ clock \in Nat
  BY DEF UndoClock, At, Inv, TypeOK, LocalInv, LocalOK, LabelsOfBuild
<1> DEFINE d == [tx[t] EXCEPT !.ts = clock + 1]
<1>2. Kept(d, tx[t]) /\ d.i = tx[t].i /\ d.arg = tx[t].arg /\ d.l = tx[t].l /\ d.op = tx[t].op
      /\ d.ts = clock + 1
  <2>1. Shape(d)
    BY <1>1 DEF TxTypes, Shape
  <2> QED
    BY <1>1, <2>1 DEF TxTypes, Shape, Fields, Kept
<1>3. Become(t, d, "undo_release")
  BY DEF UndoClock
<1> HIDE DEF d
<1>4. Moves(t) /\ tx'[t].pc = "undo_release" /\ Kept(tx'[t], d) /\ SameLocals(tx'[t], d)
  BY <1>2, <1>3, BecomeIs DEF Inv, TypeOK, Kept
<1>5. Kept(tx'[t], tx[t]) /\ tx'[t].ts = clock + 1 /\ tx'[t].i = tx[t].i
      /\ tx'[t].arg = tx[t].arg /\ tx'[t].l = tx[t].l /\ tx'[t].op = tx[t].op
  BY <1>2, <1>4 DEF Kept, SameLocals
<1>6. TxTypes(tx'[t])
  BY <1>1, <1>4, <1>5 DEF TxTypes, Kept, Labels, AbortLabels
<1>7. W(t)' = W(t) /\ WriteThrough' = WriteThrough /\ Modular' = Modular
  BY <1>5 DEF W, Kept, WriteThrough, Modular
<1>8. LocalOK(t)'
  <2>1. CallsBound(t)' /\ TicketPhase(t)' /\ Remembers(t)' /\ LabelsOfBuild(t)'
    BY <1>1, <1>4, <1>5, <1>7 DEF LocalOK, CallsBound, TicketPhase, Remembers, InCall, At, Kept,
       CallLabels, FreeLabels, ReadLabels, ArbiterLabels, LabelsOfBuild
  <2>2. Position(t)'
    BY <1>1, <1>4, <1>5, <1>7 DEF LocalOK, Position, At
  <2>3. StatusPhase(t)'
    BY <1>1, <1>4, <1>5, <1>7 DEF LocalOK, StatusPhase, InCall, At, CallLabels, Kept
  <2> QED
    BY <2>1, <2>2, <2>3 DEF LocalOK
<1>9. Held(t)' = Held(t)
  BY <1>1, <1>4, <1>5, <1>7 DEF Held, Releasing, At
<1>10. \A a \in Addr, j \in Nat : ToUndo(t, a, j)' <=> ToUndo(t, a, j)
  BY <1>1, <1>4, <1>5, <1>7 DEF ToUndo, At
<1>11. Unseen(t)
  BY <1>1, <1>4, <1>5, <1>7, <1>9, <1>10 DEF Unseen, LogUnseen, At, Killed, Kept
<1>12. StatusKept(t)
  BY <1>5 DEF StatusKept, StatusWord, Kept
<1>13. \A other \in Thread : StealOK(t, other)'
  BY <1>4 DEF StealOK, At
<1> QED
  BY <1>1, <1>4, <1>6, <1>8, <1>11, <1>12, <1>13, QuietInv DEF Quiet

-----------------------------------------------------------------------------
(***************************************************************************)
(* Stores to memory                                                        *)
(***************************************************************************)
\* A step of a transaction that keeps its locks.
LEMMA StandMove ==
  ASSUME Inv, NEW t \in Thread, build' = build, Moves(t), TxTypes(tx'[t]), LocalOK(t)',
         SameLinks(t), tx'[t].gen = tx[t].gen, Killed(t)' <=> Killed(t), StatusKept(t),
         tx[t].pc # "do_write", tx'[t].pc \notin {"do_write", "kill", "steal"},
         Held(t)' = Held(t), locks' = locks, clock' \in Nat, mem' \in [Addr -> Word],
         hist' \in SUBSET [ts: Nat, addr: Addr, value: Word]
  PROVE  TypeOK' /\ LocalInv' /\ LockInv'
<1>1. TypeOK /\ OwnerHoldsOf(t) /\ HolderOwnsOf(t) /\ WriteLocked
  BY DEF Inv, LockInv, OwnerHolds, HolderOwns
<1>2. LogTypes
  BY <1>1 DEF LogTypes, TypeOK, WriteLocked, LOCK_GET_OWNED
<1>3. \A k \in Lock : locks'[k].owner = t =>
        /\ \E j \in Held(t)' : LockAt(t, j) = k
        /\ Killed(t) => locks[k].n \in Held(t)'
  <2>1. Killed(t) => ~WriteThrough
    <3>1. LocalOK(t) /\ (Modular => ~WriteThrough)
      BY <1>1, BuildIs DEF Inv, LocalInv, TypeOK
    <3> QED
      BY <3>1 DEF LocalOK, LabelsOfBuild, Killed
  <2> QED
    BY <1>1, <2>1 DEF OwnerHoldsOf, At
<1>4. ~Killed(t) => \A j \in Held(t)' : locks'[LockAt(t, j)].owner = t
  BY <1>1 DEF HolderOwnsOf
<1> QED
  BY <1>2, <1>3, <1>4, LogMove

\* A step past an entry that does not drop its lock.
LEMMA SkipMove ==
  ASSUME Inv, NEW t \in Thread, build' = build, ~Killed(t), tx[t].pc \in ReleaseLabels,
         tx[t].i \in DOMAIN W(t), Moves(t), TxTypes(tx'[t]), LocalOK(t)', StatusKept(t),
         ~Killed(t)', SameLinks(t), tx'[t].gen = tx[t].gen,
         tx'[t].pc \notin {"do_write", "kill", "steal"},
         Held(t)' = Held(t) \ {tx[t].i}, ~DropsLast(t), locks' = locks,
         clock' = clock, hist' = hist, mem' \in [Addr -> Word]
  PROVE  TypeOK' /\ LocalInv' /\ LockInv'
<1>1. Free(ZeroLock)
  BY Constants DEF Free, ZeroLock, LOCK_SET_TIMESTAMP
<1> QED
  BY <1>1, PassMove

LEMMA CommitStoreInv ==
  ASSUME Inv, NEW t \in Thread, build' = build, CommitStore(t)
  PROVE  Inv'
<1> DEFINE i == tx[t].i
           e == W(t)[i]
<1>1. /\ tx[t].pc = "write_back" /\ UNCHANGED <<clock, locks, hist>>
      /\ TypeOK /\ TxTypes(tx[t]) /\ LocalOK(t) /\ ~WriteThrough
      /\ mem' = IF e.mask = {} THEN mem ELSE [mem EXCEPT ![e.addr] = e.value]
  BY DEF CommitStore, At, Inv, TypeOK, LocalInv, LocalOK, LabelsOfBuild, W
<1>2. /\ i \in 1..Len(W(t)) /\ Len(W(t)) \in Nat /\ DOMAIN W(t) = 1..Len(W(t)) /\ i \in DOMAIN W(t)
  BY <1>1, LogSize DEF LocalOK, Position
<1>3. ~Killed(t)
  BY <1>1, NotKilled DEF InCommit, CommitLabels
<1>4. e.addr \in Addr /\ e.value \in Word
  BY <1>1, <1>2, LockAtIs DEF LogEntry
<1>5. mem' \in [Addr -> Word]
  BY <1>1, <1>4 DEF TypeOK
<1>6. PICK lab \in {"end", "release", "write_back"}, n \in Nat :
        /\ Steps(t, lab, n)
        /\ lab # "end" => n \in 1..Len(W(t))
        /\ \/ lab = "release" /\ n = i /\ e.next = 0
           \/ lab # "release" /\ e.next # 0 /\ Passes(t, lab, n)
  <2>1. CASE e.next = 0
    <3>1. Become(t, tx[t], "release")
      BY <2>1, Zenon DEF CommitStore, W
    <3>2. Steps(t, "release", i)
      BY <3>1, StayIs
    <3> QED
      BY <1>2, <2>1, <3>2
  <2>2. CASE e.next # 0
    <3>1. NextEntry(t)
      BY <2>2, Zenon DEF CommitStore, W
    <3> QED
      BY <1>1, <1>2, <2>2, <3>1, NextEntryIs
  <2> QED
    BY <2>1, <2>2
<1>7. WriteThrough' = WriteThrough /\ W(t)' = W(t)
  BY <1>6 DEF WriteThrough, Steps, Kept, W
<1>8. Position(t)'
  BY <1>1, <1>6, <1>7 DEF Position, At, Steps
<1>9. /\ TxTypes(tx'[t]) /\ LocalOK(t)' /\ StatusKept(t) /\ (Killed(t)' <=> Killed(t))
      /\ W(t)' = W(t) /\ SameLinks(t) /\ tx'[t].gen = tx[t].gen
      /\ tx'[t].pc \notin {"do_write", "kill", "steal", "validate"} /\ Moves(t)
  <2>1. lab \in ReleaseLabels \cup {"end"} /\ tx[t].pc \in ReleaseLabels
    BY <1>1 DEF ReleaseLabels
  <2>2. lab # "drop" /\ tx[t].pc # "drop" /\ lab # "drop_reads" /\ lab # "undo_clock"
        /\ lab # "undo_release"
    BY <1>1, <1>6
  <2> QED
    BY <1>1, <1>6, <1>8, <2>1, <2>2, StepLocal DEF Steps
<1>10. TypeOK' /\ LocalInv' /\ LockInv'
  <2>1. CASE lab = "release"
    <3>1. Held(t)' = Held(t)
      BY <1>1, <1>6, <1>7, <2>1 DEF Held, Releasing, At, Steps
    <3> QED
      BY <1>1, <1>3, <1>5, <1>9, <3>1, StandMove DEF TypeOK
  <2>2. CASE lab # "release"
    <3>1. Held(t)' = Held(t) \ {i}
      BY <1>1, <1>2, <1>6, <2>2, HeldPass DEF ReleaseLabels
    <3>2. ~DropsLast(t)
      BY <1>1, <1>6, <2>2 DEF DropsLast
    <3> QED
      BY <1>1, <1>2, <1>3, <1>5, <1>9, <3>1, <3>2, SkipMove DEF ReleaseLabels
  <2> QED
    BY <2>1, <2>2
<1>11. \A a \in Addr, j \in DOMAIN W(t) : Pending(t, a, j)' <=> Pending(t, a, j) /\ j # i
  <2> SUFFICES ASSUME NEW a \in Addr, NEW j \in DOMAIN W(t)
               PROVE  Pending(t, a, j)' <=> Pending(t, a, j) /\ j # i
    OBVIOUS
  <2>1. Pending(t, a, j) <=> W(t)[j].addr = a /\ W(t)[j].mask # {} /\ j >= i
    BY <1>1 DEF Pending, At
  <2>2. CASE lab = "release"
    <3>1. Pending(t, a, j)' <=> W(t)[j].addr = a /\ W(t)[j].mask # {} /\ j > i
      BY <1>6, <1>7, <2>2 DEF Pending, At, Steps
    <3> QED
      BY <1>2, <2>1, <3>1
  <2>3. CASE lab = "write_back"
    <3>1. Pending(t, a, j)' <=> W(t)[j].addr = a /\ W(t)[j].mask # {} /\ j >= i + 1
      BY <1>1, <1>6, <1>7, <2>3 DEF Pending, At, Steps, Passes, ReleaseLabels
    <3> QED
      BY <1>2, <2>1, <3>1
  <2>4. CASE lab = "end"
    <3>1. ~Pending(t, a, j)'
      BY <1>6, <2>4 DEF Pending, At, Steps
    <3> QED
      BY <1>1, <1>2, <1>6, <2>1, <2>4, <3>1 DEF Passes, ReleaseLabels
  <2> QED
    BY <2>2, <2>3, <2>4
<1>12. \A u \in Thread \ {t} : W(u)' = W(u) /\ \A a \in Addr, j \in DOMAIN W(u) :
          Pending(u, a, j)' <=> Pending(u, a, j)
  BY <1>1, <1>9 DEF Moves, W, Pending, At
<1>13. \A a, w : Latest(a, w)' <=> Latest(a, w)
  BY <1>1 DEF Latest
<1>14. \A a \in Addr : Pending(t, a, i) <=> e.addr = a /\ e.mask # {}
  BY <1>1, <1>2 DEF Pending, At
<1>15. MemoryInv'
  <2> HIDE DEF i
  <2> SUFFICES ASSUME NEW a \in Addr
               PROVE  /\ \A u \in Thread : \A j \in DOMAIN W(u) :
                           Pending(u, a, j)' => Latest(a, W(u)[j].value)
                      /\ (\A u \in Thread : \A j \in DOMAIN W(u) : ~Pending(u, a, j)') =>
                           Latest(a, mem'[a])
    BY <1>1, <1>7, <1>12, <1>13 DEF MemoryInv
  <2>1. \A u \in Thread : \A j \in DOMAIN W(u) : Pending(u, a, j) => Latest(a, W(u)[j].value)
    BY <1>1 DEF Inv, MemoryInv
  <2>2. \A u \in Thread : \A j \in DOMAIN W(u) : Pending(u, a, j)' => Pending(u, a, j)
    BY <1>11, <1>12
  <2>3. ASSUME \A u \in Thread : \A j \in DOMAIN W(u) : ~Pending(u, a, j)'
        PROVE  Latest(a, mem'[a])
    <3>1. CASE Pending(t, a, i)
      <4>1. mem'[a] = e.value
        BY <1>1, <1>4, <1>14, <3>1 DEF TypeOK
      <4> QED
        BY <1>2, <2>1, <3>1, <4>1
    <3>2. CASE ~Pending(t, a, i)
      <4>1. mem'[a] = mem[a]
        BY <1>1, <1>4, <1>14, <3>2 DEF TypeOK
      <4>2. \A u \in Thread : \A j \in DOMAIN W(u) : ~Pending(u, a, j)
        BY <1>11, <1>12, <2>3, <3>2
      <4> QED
        BY <1>1, <4>1, <4>2 DEF Inv, MemoryInv
    <3> QED
      BY <3>1, <3>2
  <2> QED
    BY <2>1, <2>2, <2>3
<1>16. HistoryInv'
  <2>1. \A u \in Thread : W(u)' = W(u)
    BY <1>7, <1>12
  <2>2. \A u \in Thread : At(u, "validate")' /\ tx'[u].ts # 0 =>
          At(u, "validate") /\ tx[u].ts = tx'[u].ts
    BY <1>9 DEF At, Moves
  <2> QED
    BY <1>1, <2>1, <2>2, HistoryKept
<1> QED
  BY <1>10, <1>15, <1>16 DEF Inv

LEMMA UndoStoreInv ==
  ASSUME Inv, NEW t \in Thread, build' = build, UndoStore(t)
  PROVE  Inv'
<1> DEFINE i == tx[t].i
           e == W(t)[i]
<1>1. /\ tx[t].pc = "undo" /\ UNCHANGED <<clock, locks, hist>>
      /\ TypeOK /\ TxTypes(tx[t]) /\ LocalOK(t) /\ WriteThrough /\ i > 0
      /\ mem' = IF e.mask = {} THEN mem ELSE [mem EXCEPT ![e.addr] = e.value]
  BY DEF UndoStore, At, Inv, TypeOK, LocalInv, W, Restores
<1>2. /\ i \in 1..Len(W(t)) /\ Len(W(t)) \in Nat /\ DOMAIN W(t) = 1..Len(W(t)) /\ i \in DOMAIN W(t)
  <2>1. i \in 0..Len(W(t))
    BY <1>1 DEF LocalOK, Position, At
  <2> QED
    BY <1>1, <2>1, LogSize
<1>3. ~Killed(t)
  BY <1>1, NotKilled
<1>4. e.addr \in Addr /\ e.value \in Word
  BY <1>1, <1>2, LockAtIs DEF LogEntry
<1>5. mem' \in [Addr -> Word]
  BY <1>1, <1>4 DEF TypeOK
<1>6. PICK lab \in {"undo", "undo_clock", "undo_release"}, n \in Int :
        /\ Steps(t, lab, n)
        /\ \/ lab = "undo" /\ n = i - 1 /\ e.no_drop
           \/ lab # "undo" /\ n = i /\ ~e.no_drop
  <2>1. CASE e.no_drop
    <3>1. Become(t, [tx[t] EXCEPT !.i = @ - 1], "undo")
      BY <2>1, Zenon DEF UndoStore, W
    <3>2. Steps(t, "undo", i - 1)
      BY <3>1, StepIs
    <3> QED
      BY <1>2, <2>1, <3>2
  <2>2. CASE ~e.no_drop
    <3> DEFINE lb == IF e.inc = build.INCARNATION_MAX /\ tx[t].ts = 0 THEN "undo_clock"
                                                                 ELSE "undo_release"
    <3>1. Become(t, tx[t], lb)
      BY <2>2, Zenon DEF UndoStore, W
    <3>2. Steps(t, lb, i)
      BY <3>1, StayIs
    <3>3. lb \in {"undo_clock", "undo_release"}
      OBVIOUS
    <3> QED
      BY <1>2, <2>2, <3>2, <3>3
  <2> QED
    BY <2>1, <2>2
<1>7. WriteThrough' = WriteThrough /\ W(t)' = W(t)
  BY <1>6 DEF WriteThrough, Steps, Kept, W
<1>8. Position(t)'
  <2>1. CASE lab = "undo"
    <3>1. n \in 0..Len(W(t))
      BY <1>2, <1>6, <2>1
    <3> QED
      BY <1>1, <1>6, <1>7, <2>1, <3>1 DEF Position, At, Steps
  <2>2. CASE lab # "undo"
    BY <1>1, <1>2, <1>6, <1>7, <2>2 DEF Position, At, Steps
  <2> QED
    BY <2>1, <2>2
<1>9. /\ TxTypes(tx'[t]) /\ LocalOK(t)' /\ StatusKept(t) /\ (Killed(t)' <=> Killed(t))
      /\ W(t)' = W(t) /\ SameLinks(t) /\ tx'[t].gen = tx[t].gen
      /\ tx'[t].pc \notin {"do_write", "kill", "steal", "validate"} /\ Moves(t)
  <2>1. lab \in ReleaseLabels \cup {"end"} /\ tx[t].pc \in ReleaseLabels
    BY <1>1 DEF ReleaseLabels
  <2>2. lab # "drop" /\ tx[t].pc # "drop" /\ lab # "drop_reads" /\ lab # "write_back"
    BY <1>1, <1>6
  <2> QED
    BY <1>1, <1>6, <1>8, <2>1, <2>2, StepLocal DEF Steps
<1>10. TypeOK' /\ LocalInv' /\ LockInv'
  <2>1. CASE lab # "undo"
    <3>1. Held(t)' = Held(t)
      BY <1>1, <1>6, <1>7, <2>1 DEF Held, Releasing, At, Steps
    <3> QED
      BY <1>1, <1>3, <1>5, <1>9, <3>1, StandMove DEF TypeOK
  <2>2. CASE lab = "undo"
    <3>1. Held(t)' = Held(t) \ {i}
      BY <1>1, <1>2, <1>6, <2>2, HeldPass DEF ReleaseLabels, Passes
    <3>2. ~DropsLast(t)
      BY <1>1, <1>6, <2>2 DEF DropsLast
    <3> QED
      BY <1>1, <1>2, <1>3, <1>5, <1>9, <3>1, <3>2, SkipMove DEF ReleaseLabels
  <2> QED
    BY <2>1, <2>2
<1>11. \A a \in Addr, j \in DOMAIN W(t) : ToUndo(t, a, j)' <=> ToUndo(t, a, j) /\ j # i
  <2> SUFFICES ASSUME NEW a \in Addr, NEW j \in DOMAIN W(t)
               PROVE  ToUndo(t, a, j)' <=> ToUndo(t, a, j) /\ j # i
    OBVIOUS
  <2>1. ToUndo(t, a, j) <=> W(t)[j].addr = a /\ W(t)[j].mask # {} /\ j <= i
    BY <1>1 DEF ToUndo, At
  <2>2. CASE lab = "undo"
    <3>1. ToUndo(t, a, j)' <=> W(t)[j].addr = a /\ W(t)[j].mask # {} /\ j <= i - 1
      BY <1>6, <1>7, <2>2 DEF ToUndo, At, Steps
    <3> QED
      BY <1>2, <2>1, <3>1
  <2>3. CASE lab # "undo"
    <3>1. ToUndo(t, a, j)' <=> W(t)[j].addr = a /\ W(t)[j].mask # {} /\ j < i
      BY <1>6, <1>7, <2>3 DEF ToUndo, At, Steps
    <3> QED
      BY <1>2, <2>1, <3>1
  <2> QED
    BY <2>2, <2>3
<1>12. \A u \in Thread \ {t} : W(u)' = W(u) /\ \A a \in Addr, j \in DOMAIN W(u) :
          ToUndo(u, a, j)' <=> ToUndo(u, a, j)
  BY <1>1, <1>9 DEF Moves, W, ToUndo, At
<1>13. \A a, w : Latest(a, w)' <=> Latest(a, w)
  BY <1>1 DEF Latest
<1>14. \A a \in Addr : ToUndo(t, a, i) <=> e.addr = a /\ e.mask # {}
  BY <1>1, <1>2 DEF ToUndo, At
<1>15. \A a \in Addr, j \in DOMAIN W(t) : ToUndo(t, a, j) => j <= i
  BY <1>1 DEF ToUndo, At
<1>16. MemoryInv'
  <2> HIDE DEF i
  <2> DEFINE Least(u, a, j) == /\ ToUndo(u, a, j)
                               /\ \A h \in DOMAIN W(u) : ToUndo(u, a, h) => j <= h
  <2>1. \A a \in Addr, u \in Thread : \A j \in DOMAIN W(u) :
          Least(u, a, j) => Latest(a, W(u)[j].value)
    BY <1>1 DEF Inv, MemoryInv
  <2> SUFFICES ASSUME NEW a \in Addr
               PROVE  /\ \A u \in Thread : \A j \in DOMAIN W(u) :
                           ToUndo(u, a, j)' /\ (\A h \in DOMAIN W(u) : ToUndo(u, a, h)' => j <= h)
                             => Latest(a, W(u)[j].value)
                      /\ (\A u \in Thread : \A j \in DOMAIN W(u) : ~ToUndo(u, a, j)') =>
                           Latest(a, mem'[a])
    BY <1>1, <1>7, <1>12, <1>13 DEF MemoryInv
  <2>2. ASSUME NEW u \in Thread, NEW j \in DOMAIN W(u), ToUndo(u, a, j)',
               \A h \in DOMAIN W(u) : ToUndo(u, a, h)' => j <= h
        PROVE  Latest(a, W(u)[j].value)
    <3>1. CASE u = t
      <4>1. ToUndo(t, a, j) /\ j # i /\ j <= i
        BY <1>11, <1>15, <2>2, <3>1
      <4>2. \A h \in DOMAIN W(t) : ToUndo(t, a, h) => j <= h
        BY <1>11, <2>2, <3>1, <4>1
      <4> QED
        BY <2>1, <2>2, <3>1, <4>1, <4>2
    <3>2. CASE u # t
      <4>1. Least(u, a, j)
        BY <1>12, <2>2, <3>2
      <4> QED
        BY <2>1, <4>1
    <3> QED
      BY <3>1, <3>2
  <2>3. ASSUME \A u \in Thread : \A j \in DOMAIN W(u) : ~ToUndo(u, a, j)'
        PROVE  Latest(a, mem'[a])
    <3>1. CASE ToUndo(t, a, i)
      <4>1. mem'[a] = e.value
        BY <1>1, <1>4, <1>14, <3>1 DEF TypeOK
      <4>2. Least(t, a, i)
        BY <1>2, <1>11, <2>3, <3>1
      <4> QED
        BY <1>2, <2>1, <4>1, <4>2
    <3>2. CASE ~ToUndo(t, a, i)
      <4>1. mem'[a] = mem[a]
        BY <1>1, <1>4, <1>14, <3>2 DEF TypeOK
      <4>2. \A u \in Thread : \A j \in DOMAIN W(u) : ~ToUndo(u, a, j)
        BY <1>11, <1>12, <2>3, <3>2
      <4> QED
        BY <1>1, <4>1, <4>2 DEF Inv, MemoryInv
    <3> QED
      BY <3>1, <3>2
  <2> QED
    BY <2>2, <2>3
<1>17. HistoryInv'
  <2>1. \A u \in Thread : W(u)' = W(u)
    BY <1>7, <1>12
  <2>2. \A u \in Thread : At(u, "validate")' /\ tx'[u].ts # 0 =>
          At(u, "validate") /\ tx[u].ts = tx'[u].ts
    BY <1>9 DEF At, Moves
  <2> QED
    BY <1>1, <2>1, <2>2, HistoryKept
<1> QED
  BY <1>10, <1>16, <1>17 DEF Inv

-----------------------------------------------------------------------------
(***************************************************************************)
(* Killed transactions                                                     *)
(***************************************************************************)
LEMMA DropInv ==
  ASSUME Inv, NEW t \in Thread, build' = build, stm_drop(t)
  PROVE  Inv'
<1> DEFINE i == tx[t].i
           k0 == LockAt(t, i)
           mine == locks[k0].owner = t /\ locks[k0].inc = tx[t].gen /\ locks[k0].n = i
           w == LOCK_SET_TIMESTAMP(W(t)[i].version)
<1>1. /\ tx[t].pc = "drop" /\ UNCHANGED <<clock, mem, hist>> /\ i <= Len(W(t))
      /\ TypeOK /\ TxTypes(tx[t]) /\ LocalOK(t)
      /\ locks' = IF mine THEN [locks EXCEPT ![k0] = w] ELSE locks
  BY DEF stm_drop, At, Inv, TypeOK, LocalInv, W, LockAt
<1>2. Killed(t) /\ Modular /\ ~WriteThrough
  BY <1>1, BuildIs DEF LocalOK, StatusPhase, LabelsOfBuild, At, Killed, TypeOK
<1>3. /\ i \in 1..Len(W(t)) /\ Len(W(t)) \in Nat /\ DOMAIN W(t) = 1..Len(W(t)) /\ i \in DOMAIN W(t)
  <2>1. i \in 1..(Len(W(t)) + 1)
    BY <1>1 DEF LocalOK, Position
  <2> QED
    BY <1>1, <2>1, LogSize
<1>4. Steps(t, "drop", i + 1)
  <2>1. Become(t, [tx[t] EXCEPT !.i = @ + 1], "drop")
    BY Zenon DEF stm_drop
  <2> QED
    BY <2>1, StepIs
<1>5. k0 \in Lock /\ W(t)[i].version \in Nat
  BY <1>1, <1>3, LockAtIs DEF LogEntry
<1>6. Free(w) /\ locks \in [Lock -> LockWord] /\ NoOwner \notin Thread
  BY <1>1, <1>5, FreeWords, EtlAssumption DEF TypeOK
<1>7. WriteThrough' = WriteThrough /\ W(t)' = W(t)
  BY <1>4 DEF WriteThrough, Steps, Kept, W
<1>8. Position(t)'
  <2>1. i + 1 \in 1..(Len(W(t)) + 1)
    BY <1>3
  <2> QED
    BY <1>4, <1>7, <2>1 DEF Position, At, Steps
<1>9. /\ TxTypes(tx'[t]) /\ LocalOK(t)' /\ StatusKept(t) /\ (Killed(t)' <=> Killed(t))
      /\ W(t)' = W(t) /\ SameLinks(t) /\ tx'[t].gen = tx[t].gen
      /\ tx'[t].pc \notin {"do_write", "kill", "steal", "validate"} /\ Moves(t)
  BY <1>1, <1>4, <1>8, StepLocal DEF Steps, ReleaseLabels
<1>10. Held(t)' = Held(t) \ {i}
  BY <1>1, <1>2, <1>3, <1>4, HeldPass DEF ReleaseLabels, Passes
<1> HIDE DEF w, i
<1>11. \A k \in Lock : \/ locks'[k] = locks[k] /\ ~(k = k0 /\ mine)
                       \/ mine /\ k = k0 /\ locks'[k] = w
  BY <1>1, <1>5, <1>6
<1>12. LogTypes
  <2>1. locks' \in [Lock -> LockWord]
    BY <1>1, <1>5, <1>6 DEF Free
  <2>2. WriteLocked
    BY DEF Inv, LockInv
  <2>3. WriteLocked'
    BY <1>6, <1>11, <2>2 DEF WriteLocked, LOCK_GET_OWNED, Free
  <2> QED
    BY <1>1, <2>1, <2>3 DEF LogTypes, TypeOK
<1>13. \A k \in Lock : \/ locks'[k] = locks[k]
                       \/ locks'[k].owner = NoOwner /\ locks[k].owner = t
  BY <1>6, <1>11 DEF Free
<1>14. ASSUME NEW k \in Lock, locks'[k].owner = t
       PROVE  /\ \E j \in Held(t)' : LockAt(t, j) = k
              /\ locks[k].n \in Held(t)'
  <2>1. locks[k].owner = t /\ ~(k = k0 /\ mine)
    BY <1>6, <1>11, <1>14 DEF Free
  <2>2. /\ locks[k].inc = tx[t].gen /\ LockAt(t, locks[k].n) = k /\ locks[k].n \in Held(t)
    BY <1>2, <2>1 DEF Inv, LockInv, OwnerHolds, OwnerHoldsOf
  <2>3. locks[k].n # i
    BY <2>1, <2>2
  <2> QED
    BY <1>10, <2>2, <2>3 DEF i
<1>15. TypeOK' /\ LocalInv' /\ LockInv'
  <2>1. Held(t)' \subseteq Held(t)
    BY <1>10
  <2> QED
    BY <1>1, <1>2, <1>9, <1>12, <1>13, <1>14, <2>1, LogMove
<1>16. LogUnseen(t)
  BY <1>1, <1>2, <1>4, <1>7 DEF LogUnseen, Pending, At, Steps
<1>17. MemoryInv' /\ HistoryInv'
  BY <1>1, <1>9, <1>16, OthersUnseen, MemoryKept
<1> QED
  BY <1>15, <1>17 DEF Inv

\* A lock that still is what the thief remembers is one of a killed transaction.
LEMMA StolenFrom ==
  ASSUME Inv, NEW t \in Thread, At(t, "steal")
  PROVE  /\ tx[t].l.owner \in Thread \ {t} /\ Modular /\ ~WriteThrough
         /\ locks[ArgLock(t)] = tx[t].l => Killed(tx[t].l.owner) /\ EntryVersion(tx[t].l) \in Nat
<1>1. LocalOK(t) /\ TypeOK
  BY DEF Inv, LocalInv
<1>2. tx[t].l.owner \in Thread \ {t} /\ Modular /\ ~WriteThrough
  BY <1>1, BuildIs DEF LocalOK, Remembers, LabelsOfBuild, At, ArbiterLabels, TypeOK
<1>3. ASSUME locks[ArgLock(t)] = tx[t].l
      PROVE  Killed(tx[t].l.owner) /\ EntryVersion(tx[t].l) \in Nat
  <2> DEFINE other == tx[t].l.owner
             n == tx[t].l.n
  <2>1. ArgLock(t) \in Lock
    BY ArgLockIs
  <2>2. tx[t].l.inc = tx[other].gen /\ n \in DOMAIN W(other)
    BY <1>2, <1>3, <2>1 DEF Inv, LockInv, OwnerHolds, OwnerHoldsOf
  <2>3. StealOK(t, other)
    BY <1>2 DEF Inv, LockInv, StealSafe
  <2>4. Killed(other)
    BY <2>2, <2>3 DEF StealOK
  <2>5. W(other)[n].version \in Nat
    BY <1>1, <1>2, <2>2, LockAtIs DEF LogEntry
  <2>6. EntryVersion(tx[t].l) = W(other)[n].version \/ EntryVersion(tx[t].l) = 0
    BY DEF EntryVersion, W
  <2> QED
    BY <2>4, <2>5, <2>6
<1> QED
  BY <1>2, <1>3

LEMMA ReadStealInv ==
  ASSUME Inv, NEW t \in Thread, build' = build, ReadSteal(t)
  PROVE  Inv'
<1>1. /\ tx[t].pc = "steal" /\ At(t, "steal") /\ UNCHANGED <<clock, mem, hist>>
      /\ TypeOK /\ TxTypes(tx[t]) /\ LocalOK(t)
  BY DEF ReadSteal, At, Inv, TypeOK, LocalInv
<1> DEFINE k0 == ArgLock(t)
           w == LOCK_SET_TIMESTAMP(EntryVersion(tx[t].l))
           d == [tx[t] EXCEPT !.l = w, !.seenStatus = <<>>]
<1>2. CASE locks[k0] # tx[t].l
  <2>1. Restart(t) /\ locks' = locks
    BY <1>2, Zenon DEF ReadSteal
  <2> QED
    BY <1>1, <2>1, RestartMove DEF Frame, InCall, CallLabels, At
<1>3. CASE locks[k0] = tx[t].l
  <2>1. locks' = [locks EXCEPT ![k0] = w] /\ Become(t, d, "read_value")
    BY <1>3, Zenon DEF ReadSteal
  <2>2. /\ tx[t].l.owner \in Thread \ {t} /\ Modular /\ ~WriteThrough
        /\ Killed(tx[t].l.owner) /\ Free(w) /\ k0 \in Lock
    BY <1>1, <1>3, StolenFrom, FreeWords, ArgLockIs
  <2>3. Kept(d, tx[t]) /\ d.l = w /\ d.arg = tx[t].arg /\ d.op = tx[t].op /\ d.ts = tx[t].ts
    <3>1. Shape(d)
      BY <1>1 DEF TxTypes, Shape
    <3> QED
      BY <1>1, <3>1 DEF TxTypes, Shape, Fields, Kept
  <2> HIDE DEF d, w
  <2>4. Moves(t) /\ tx'[t].pc = "read_value" /\ Kept(tx'[t], d) /\ SameLocals(tx'[t], d)
    BY <2>1, <2>3, BecomeIs DEF Inv, TypeOK, Kept
  <2>5. Kept(tx'[t], tx[t]) /\ tx'[t].l = w /\ tx'[t].arg = tx[t].arg /\ tx'[t].op = tx[t].op
        /\ tx'[t].ts = tx[t].ts
    BY <2>3, <2>4 DEF Kept, SameLocals
  <2>6. TxTypes(tx'[t])
    BY <1>1, <2>2, <2>4, <2>5 DEF TxTypes, Kept, Labels, CallLabels, Free
  <2>7. W(t)' = W(t) /\ SameLinks(t) /\ (Killed(t)' <=> Killed(t)) /\ tx'[t].gen = tx[t].gen
        /\ WriteThrough' = WriteThrough /\ Modular' = Modular
    BY <2>5 DEF W, Kept, SameLinks, Killed, WriteThrough, Modular
  <2>8. LocalOK(t)'
    BY <1>1, <2>2, <2>4, <2>5, <2>7
       DEF LocalOK, CallsBound, LabelsOfBuild, TicketPhase, Position, StatusPhase, Remembers,
         InCall, At, Kept, Free, ReadLabels, ArbiterLabels, CallLabels, FreeLabels
  <2>9. StatusKept(t)
    BY <2>5 DEF StatusKept, StatusWord, Kept
  <2>10. Held(t)' = Held(t)
    BY <1>1, <2>4, <2>7 DEF Held, Releasing, At
  <2>11. locks \in [Lock -> LockWord] /\ NoOwner \notin Thread /\ OwnerHoldsOf(t)
         /\ HolderOwnsOf(t) /\ WriteLocked
    BY <1>1, EtlAssumption DEF TypeOK, Inv, LockInv, OwnerHolds, HolderOwns
  <2>12. \A k \in Lock : \/ locks'[k] = locks[k]
                         \/ k = k0 /\ locks'[k] = w
    BY <2>1, <2>11
  <2>13. LogTypes
    <3>1. locks' \in [Lock -> LockWord]
      BY <2>1, <2>2, <2>11 DEF Free
    <3>2. WriteLocked'
      BY <2>2, <2>11, <2>12 DEF WriteLocked, LOCK_GET_OWNED, Free
    <3> QED
      BY <1>1, <3>1, <3>2 DEF LogTypes, TypeOK
  <2>14. \A k \in Lock :
           \/ locks'[k] = locks[k]
           \/ locks'[k].owner = NoOwner /\ locks[k].owner \in Thread /\ Killed(locks[k].owner)
    BY <1>3, <2>2, <2>12 DEF Free
  <2>15. \A k \in Lock : locks'[k].owner = t =>
           /\ \E j \in Held(t)' : LockAt(t, j) = k
           /\ Killed(t) => locks[k].n \in Held(t)'
    BY <2>2, <2>10, <2>11, <2>12 DEF Free, OwnerHoldsOf
  <2>16. ~Killed(t) => \A j \in Held(t)' : locks'[LockAt(t, j)].owner = t
    <3> SUFFICES ASSUME ~Killed(t), NEW j \in Held(t) PROVE locks'[LockAt(t, j)].owner = t
      BY <2>10
    <3>1. locks[LockAt(t, j)].owner = t /\ LockAt(t, j) \in Lock
      BY <1>1, <2>11, LockAtIs DEF HolderOwnsOf, Held
    <3>2. LockAt(t, j) # k0
      BY <1>3, <2>2, <3>1
    <3> QED
      BY <2>12, <3>1, <3>2
  <2>17. TypeOK' /\ LocalInv' /\ LockInv'
    BY <1>1, <2>4, <2>6, <2>7, <2>8, <2>9, <2>10, <2>13, <2>14, <2>15, <2>16, LogMove
  <2>18. LogUnseen(t)
    BY <1>1, <2>2, <2>4, <2>7 DEF LogUnseen, Pending, At
  <2>19. MemoryInv' /\ HistoryInv'
    BY <1>1, <2>4, <2>18, OthersUnseen, MemoryKept
  <2> QED
    BY <2>17, <2>19 DEF Inv
<1> QED
  BY <1>2, <1>3

-----------------------------------------------------------------------------
(***************************************************************************)
(* The commit timestamp                                                    *)
(***************************************************************************)
\* Two transactions hold no entry of the same address.
LEMMA HeldApart ==
  ASSUME Inv, NEW t \in Thread, NEW u \in Thread, t # u, ~Killed(t), ~Killed(u),
         NEW j \in Held(t), NEW h \in Held(u)
  PROVE  W(t)[j].addr # W(u)[h].addr
<1>1. locks[LockAt(t, j)].owner = t /\ locks[LockAt(u, h)].owner = u
  BY DEF Inv, LockInv, HolderOwns, HolderOwnsOf
<1> QED
  BY <1>1 DEF LockAt, W

LEMMA PendingHeld ==
  ASSUME Inv, ~WriteThrough, NEW u \in Thread, NEW a, NEW j, Pending(u, a, j)
  PROVE  j \in Held(u) /\ ~Killed(u) /\ W(u)[j].addr = a
<1>1. u \in Thread /\ ~Killed(u)
  BY NotKilled DEF Pending, At, InCommit, CommitLabels
<1>2. LocalOK(u) /\ \A h \in DOMAIN W(u) : h \in Nat
  BY LockAtIs DEF Inv, LocalInv
<1>3. tx[u].i \in Nat
  BY <1>2, LogSize DEF LocalOK, Position, Pending, At
<1>4. tx[u].pc # "end"
  BY DEF Pending, At
<1>5. j \in DOMAIN W(u) /\ j >= tx[u].i
  BY <1>2, <1>3 DEF Pending
<1> QED
  BY <1>1, <1>4, <1>5 DEF Held, Pending, At

LEMMA ToUndoHeld ==
  ASSUME Inv, WriteThrough, NEW u \in Thread, NEW a, NEW j, ToUndo(u, a, j)
  PROVE  j \in Held(u) /\ ~Killed(u) /\ W(u)[j].addr = a
<1>1. LocalOK(u) /\ TypeOK /\ \A h \in DOMAIN W(u) : h \in Nat
  BY LockAtIs DEF Inv, LocalInv
<1>2. ~Modular
  BY <1>1, BuildIs DEF TypeOK
<1>3. ~Killed(u) /\ tx[u].pc \notin {"write_back", "drop", "drop_reads"}
  BY <1>1, <1>2 DEF LocalOK, LabelsOfBuild, Killed
<1>4. Releasing(u) => j <= tx[u].i
  <2>1. CASE tx[u].pc \in {"undo_clock", "undo_release"}
    <3>1. tx[u].i \in Nat /\ j \in Nat /\ j < tx[u].i
      BY <1>1, <2>1, LogSize DEF LocalOK, Position, ToUndo
    <3> QED
      BY <3>1
  <2> QED
    BY <1>3, <2>1 DEF Releasing, ToUndo, At
<1> QED
  BY <1>3, <1>4 DEF Held, ToUndo, At

\* The commit timestamp v makes the log part of the history.
LEMMA PublishMove ==
  ASSUME Inv, NEW t \in Thread, build' = build, locks' = locks, mem' = mem,
         clock' \in {clock, clock + 1}, NEW v \in Nat, v <= clock', v # 0,
         Publish(t, tx[t], v), W(t) # <<>>,
         At(t, "commit_clock") \/ (At(t, "validate") /\ tx[t].ts # 0),
         \A j \in DOMAIN W(t), h \in hist : h.addr = W(t)[j].addr => h.ts < v
  PROVE  Inv'
<1> DEFINE n == IF WriteThrough THEN Len(tx[t].w_set) ELSE 1
           lab == IF WriteThrough THEN "release" ELSE "write_back"
           d == [tx[t] EXCEPT !.ts = v, !.i = n]
           D == {j \in DOMAIN W(t) : W(t)[j].mask # {}}
<1>1. TypeOK /\ TxTypes(tx[t]) /\ LocalOK(t) /\ LinkingOf(t)
  BY DEF Inv, TypeOK, LocalInv, LockInv, Linking
<1>2. Become(t, d, lab) /\ hist' = hist \cup Installed(t, v)
  BY Zenon DEF Publish
<1>3. Kept(d, tx[t]) /\ d.i = n /\ d.ts = v /\ d.arg = tx[t].arg /\ d.l = tx[t].l
      /\ d.op = tx[t].op
  <2> HIDE DEF n
  <2>1. Shape(d)
    BY <1>1 DEF TxTypes, Shape
  <2> QED
    BY <1>1, <2>1 DEF TxTypes, Shape, Fields, Kept
<1> HIDE DEF d
<1>4. Moves(t) /\ tx'[t].pc = lab /\ Kept(tx'[t], d) /\ SameLocals(tx'[t], d)
  BY <1>2, <1>3, BecomeIs DEF Inv, TypeOK, Kept
<1>5. Kept(tx'[t], tx[t]) /\ tx'[t].i = n /\ tx'[t].ts = v /\ tx'[t].arg = tx[t].arg
      /\ tx'[t].l = tx[t].l /\ tx'[t].op = tx[t].op
  BY <1>3, <1>4 DEF Kept, SameLocals
<1>6. /\ Len(W(t)) \in Nat /\ DOMAIN W(t) = 1..Len(W(t)) /\ n \in 1..Len(W(t))
      /\ n = IF WriteThrough THEN Len(W(t)) ELSE 1
  BY LogSize DEF W
<1>7. W(t)' = W(t) /\ WriteThrough' = WriteThrough /\ Modular' = Modular
      /\ SameLinks(t) /\ (Killed(t)' <=> Killed(t)) /\ tx'[t].gen = tx[t].gen
  BY <1>5 DEF W, Kept, WriteThrough, Modular, SameLinks, Killed
<1> HIDE DEF n
<1>8. ~Killed(t)
  BY NotKilled DEF InCommit, At, CommitLabels
<1>9. TxTypes(tx'[t])
  BY <1>1, <1>4, <1>5 DEF TxTypes, Kept, Labels, CommitLabels
<1>10. LocalOK(t)'
  <2>1. CallsBound(t)' /\ TicketPhase(t)' /\ Remembers(t)' /\ LabelsOfBuild(t)'
    BY <1>1, <1>4, <1>5, <1>7 DEF LocalOK, CallsBound, TicketPhase, Remembers, InCall, At, Kept,
       CallLabels, FreeLabels, ReadLabels, ArbiterLabels, LabelsOfBuild
  <2>2. Position(t)'
    BY <1>4, <1>5, <1>6, <1>7 DEF Position, At
  <2>3. StatusPhase(t)'
    BY <1>1, <1>4, <1>5, <1>7 DEF LocalOK, StatusPhase, InCall, At, CallLabels, Kept
  <2> QED
    BY <2>1, <2>2, <2>3 DEF LocalOK
<1>11. Held(t) = DOMAIN W(t) /\ Held(t)' = DOMAIN W(t)
  <2>1. Held(t) = DOMAIN W(t)
    BY DEF Held, Releasing, At
  <2>2. Held(t)' = {j \in DOMAIN W(t) : IF WriteThrough THEN j <= n ELSE j >= n}
    BY <1>4, <1>5, <1>7 DEF Held, Releasing, At
  <2> QED
    BY <1>6, <2>1, <2>2
<1>12. \A j \in DOMAIN W(t) : W(t)[j].addr \in Addr /\ W(t)[j].value \in Word
  BY <1>1, LockAtIs DEF LogEntry
<1>13. \A j \in D : IF WriteThrough THEN Final(t, W(t)[j].addr) = mem[W(t)[j].addr]
                                    ELSE Final(t, W(t)[j].addr) = W(t)[j].value
  <2> SUFFICES ASSUME NEW j \in D, ~WriteThrough
               PROVE  Final(t, W(t)[j].addr) = W(t)[j].value
    BY DEF Final
  <2> DEFINE mine == {k \in DOMAIN W(t) : W(t)[k].addr = W(t)[j].addr /\ W(t)[k].mask # {}}
  <2>1. mine = {j}
    BY <1>1, <1>8 DEF LinkingOf
  <2>2. (CHOOSE k \in mine : \A h \in mine : h <= k) = j
    <3>1. j \in Nat
      BY <1>6
    <3> HIDE DEF mine, D
    <3> QED
      BY <2>1, <3>1
  <2>3. Final(t, W(t)[j].addr) = W(t)[CHOOSE k \in mine : \A h \in mine : h <= k].value
    BY DEF Final, W
  <2> QED
    BY <2>2, <2>3
<1>14. \A j \in D : Final(t, W(t)[j].addr) \in Word
  BY <1>1, <1>12, <1>13 DEF TypeOK
<1>15. /\ \A h \in Installed(t, v) : \E j \in D :
            h = [ts |-> v, addr |-> W(t)[j].addr, value |-> Final(t, W(t)[j].addr)]
       /\ \A j \in D :
            [ts |-> v, addr |-> W(t)[j].addr, value |-> Final(t, W(t)[j].addr)] \in Installed(t, v)
  BY DEF Installed, W
<1> DEFINE New(a) == \E j \in D : W(t)[j].addr = a
<1>16. hist' \in SUBSET [ts: Nat, addr: Addr, value: Word]
  BY <1>1, <1>2, <1>12, <1>14, <1>15 DEF TypeOK
<1>17. TypeOK' /\ LocalInv' /\ LockInv'
  <2>1. clock' \in Nat /\ mem' \in [Addr -> Word]
    BY <1>1 DEF TypeOK
  <2>2. StatusKept(t)
    BY <1>5 DEF StatusKept, StatusWord, Kept
  <2>3. tx[t].pc # "do_write" /\ tx'[t].pc \notin {"do_write", "kill", "steal"}
    BY <1>4 DEF At
  <2> QED
    BY <1>4, <1>7, <1>9, <1>10, <1>11, <1>16, <2>1, <2>2, <2>3, StandMove
<1>18. \A h \in hist : h.ts \in Nat
  BY <1>1 DEF TypeOK
<1>19. ASSUME NEW j \in D PROVE Latest(W(t)[j].addr, Final(t, W(t)[j].addr))'
  <2> DEFINE a == W(t)[j].addr
             f == Final(t, a)
             h0 == [ts |-> v, addr |-> a, value |-> f]
  <2>1. h0 \in hist' /\ h0.addr = a /\ h0.value = f /\ h0.ts = v
    BY <1>2, <1>15
  <2>2. \A g \in hist' : g.addr = a => g.ts <= v
    <3> SUFFICES ASSUME NEW g \in hist', g.addr = a PROVE g.ts <= v
      OBVIOUS
    <3>1. CASE g \in hist
      BY <1>18, <3>1
    <3>2. CASE g \in Installed(t, v)
      <4>1. g.ts = v
        BY <1>15, <3>2
      <4> QED
        BY <4>1
    <3> QED
      BY <1>2, <3>1, <3>2
  <2> HIDE DEF h0
  <2>3. \E h \in hist' : h.addr = a /\ h.value = f /\ \A g \in hist' : g.addr = a => g.ts <= h.ts
    BY <2>1, <2>2
  <2>4. W(t)'[j].addr = a /\ Final(t, W(t)[j].addr)' = Final(t, a)
    BY <1>5, <1>7 DEF Final, W, Kept
  <2> QED
    BY <2>3, <2>4 DEF Latest
<1>20. \A a, w : ~New(a) => (Latest(a, w)' <=> Latest(a, w))
  <2> SUFFICES ASSUME NEW a, NEW w, ~New(a) PROVE Latest(a, w)' <=> Latest(a, w)
    OBVIOUS
  <2>1. \A h : h.addr = a => (h \in hist' <=> h \in hist)
    BY <1>2, <1>15
  <2> QED
    BY <2>1 DEF Latest
<1>21. \A u \in Thread \ {t} : tx'[u] = tx[u] /\ W(u)' = W(u)
  BY <1>4 DEF Moves, W
<1>22. \A u \in Thread \ {t} : \A h \in Held(u) : ~Killed(u) => ~New(W(u)[h].addr)
  BY <1>8, <1>11, HeldApart
<1>23. MemoryInv'
  <2>1. CASE ~WriteThrough
    <3> SUFFICES ASSUME NEW a \in Addr
                 PROVE  /\ \A u \in Thread : \A j \in DOMAIN W(u) :
                             Pending(u, a, j)' => Latest(a, W(u)[j].value)'
                        /\ (\A u \in Thread : \A j \in DOMAIN W(u) : ~Pending(u, a, j)') =>
                             Latest(a, mem[a])'
      BY <1>7, <1>21, <2>1 DEF MemoryInv
    <3>1. \A u \in Thread \ {t} : \A j \in DOMAIN W(u) : Pending(u, a, j)' <=> Pending(u, a, j)
      BY <1>21 DEF Pending, At
    <3>2. \A j \in DOMAIN W(t) : /\ ~Pending(t, a, j)
                                 /\ Pending(t, a, j)' <=> j \in D /\ W(t)[j].addr = a
      <4>1. n = 1
        BY <1>6, <2>1
      <4>2. \A j \in DOMAIN W(t) : j >= n
        BY <1>6, <4>1
      <4> QED
        BY <1>4, <1>5, <1>7, <2>1, <4>2 DEF Pending, At
    <3>3. ASSUME NEW u \in Thread, NEW j \in DOMAIN W(u), Pending(u, a, j)'
          PROVE  Latest(a, W(u)[j].value)'
      <4>1. CASE u = t
        <5>1. j \in D /\ W(t)[j].addr = a
          BY <3>2, <3>3, <4>1
        <5>2. Latest(W(t)[j].addr, Final(t, W(t)[j].addr))'
          BY <1>19, <5>1
        <5>3. Final(t, W(t)[j].addr)' = W(t)[j].value /\ W(t)'[j].addr = a
          <6>1. Final(t, W(t)[j].addr)' = Final(t, W(t)[j].addr)
            BY <1>5, <1>7 DEF Final, W, Kept
          <6> QED
            BY <1>7, <1>13, <2>1, <5>1, <6>1
        <5> QED
          BY <1>7, <4>1, <5>2, <5>3 DEF Latest
      <4>2. CASE u # t
        <5>1. Pending(u, a, j)
          BY <3>1, <3>3, <4>2
        <5>2. ~New(a)
          BY <1>22, <2>1, <4>2, <5>1, PendingHeld
        <5>3. Latest(a, W(u)[j].value)
          BY <2>1, <5>1 DEF Inv, MemoryInv
        <5>4. W(u)'[j].value = W(u)[j].value
          BY <1>21, <4>2
        <5> QED
          BY <1>20, <5>2, <5>3, <5>4 DEF Latest
      <4> QED
        BY <4>1, <4>2
    <3>4. ASSUME \A u \in Thread : \A j \in DOMAIN W(u) : ~Pending(u, a, j)'
          PROVE  Latest(a, mem[a])'
      <4>1. ~New(a)
        BY <3>2, <3>4
      <4>2. \A u \in Thread : \A j \in DOMAIN W(u) : ~Pending(u, a, j)
        BY <3>1, <3>2, <3>4
      <4>3. Latest(a, mem[a])
        BY <2>1, <4>2 DEF Inv, MemoryInv
      <4> QED
        BY <1>20, <4>1, <4>3 DEF Latest
    <3> QED
      BY <3>3, <3>4
  <2>2. CASE WriteThrough
    <3> SUFFICES ASSUME NEW a \in Addr
                 PROVE  /\ \A u \in Thread : \A j \in DOMAIN W(u) :
                             ToUndo(u, a, j)' /\ (\A h \in DOMAIN W(u) : ToUndo(u, a, h)' => j <= h)
                               => Latest(a, W(u)[j].value)'
                        /\ (\A u \in Thread : \A j \in DOMAIN W(u) : ~ToUndo(u, a, j)') =>
                             Latest(a, mem[a])'
      BY <1>7, <1>21, <2>2 DEF MemoryInv
    <3>1. \A u \in Thread \ {t} : \A j \in DOMAIN W(u) : ToUndo(u, a, j)' <=> ToUndo(u, a, j)
      BY <1>21 DEF ToUndo, At
    <3>2. \A j \in DOMAIN W(t) : /\ ~ToUndo(t, a, j)'
                                 /\ ToUndo(t, a, j) => New(a)
      BY <1>4, <2>2 DEF ToUndo, At
    <3>3. ASSUME NEW u \in Thread, NEW j \in DOMAIN W(u), ToUndo(u, a, j)',
                 \A h \in DOMAIN W(u) : ToUndo(u, a, h)' => j <= h
          PROVE  Latest(a, W(u)[j].value)'
      <4>1. u # t
        BY <3>2, <3>3
      <4>2. ToUndo(u, a, j) /\ \A h \in DOMAIN W(u) : ToUndo(u, a, h) => j <= h
        BY <3>1, <3>3, <4>1
      <4>3. ~New(a)
        BY <1>22, <2>2, <4>1, <4>2, ToUndoHeld
      <4>4. Latest(a, W(u)[j].value)
        BY <2>2, <4>2 DEF Inv, MemoryInv
      <4>5. W(u)'[j].value = W(u)[j].value
        BY <1>21, <4>1
      <4> QED
        BY <1>20, <4>3, <4>4, <4>5 DEF Latest
    <3>4. ASSUME \A u \in Thread : \A j \in DOMAIN W(u) : ~ToUndo(u, a, j)'
          PROVE  Latest(a, mem[a])'
      <4>1. CASE New(a)
        <5>1. PICK j \in D : W(t)[j].addr = a
          BY <4>1
        <5>2. Latest(W(t)[j].addr, Final(t, W(t)[j].addr))'
          BY <1>19
        <5>3. Final(t, W(t)[j].addr)' = mem[a] /\ W(t)'[j].addr = a
          BY <1>7, <2>2, <5>1 DEF Final
        <5> QED
          BY <5>2, <5>3 DEF Latest
      <4>2. CASE ~New(a)
        <5>1. \A u \in Thread : \A j \in DOMAIN W(u) : ~ToUndo(u, a, j)
          BY <3>1, <3>2, <3>4, <4>2
        <5>2. Latest(a, mem[a])
          BY <2>2, <5>1 DEF Inv, MemoryInv
        <5> QED
          BY <1>20, <4>2, <5>2 DEF Latest
      <4> QED
        BY <4>1, <4>2
    <3> QED
      BY <3>3, <3>4
  <2> QED
    BY <2>1, <2>2
<1>24. HistoryInv'
  <2>1. clock \in Nat /\ clock <= clock' /\ clock' \in Nat
    BY <1>1 DEF TypeOK
  <2>2. \A h \in hist' : h.ts <= clock'
    <3>1. \A h \in Installed(t, v) : h.ts = v
      BY <1>15
    <3>2. \A h \in hist : h.ts <= clock'
      BY <1>18, <2>1 DEF Inv, HistoryInv
    <3> QED
      BY <1>2, <3>1, <3>2
  <2>3. ASSUME NEW u \in Thread, At(u, "validate")', tx'[u].ts # 0
        PROVE  /\ tx'[u].ts <= clock'
               /\ \A j \in DOMAIN W(u)', h \in hist' : h.addr = W(u)'[j].addr => h.ts < tx'[u].ts
    <3>1. u # t
      BY <1>4, <2>3 DEF At
    <3>2. At(u, "validate") /\ tx[u].ts # 0 /\ tx'[u].ts = tx[u].ts /\ W(u)' = W(u)
          /\ tx[u].ts \in Nat
      BY <1>1, <1>21, <2>3, <3>1 DEF At, TypeOK, TxTypes
    <3>3. /\ tx[u].ts <= clock
          /\ \A j \in DOMAIN W(u), h \in hist : h.addr = W(u)[j].addr => h.ts < tx[u].ts
      BY <3>2 DEF Inv, HistoryInv
    <3>4. ~Killed(u) /\ Held(u) = DOMAIN W(u)
      BY <3>2, NotKilled DEF InCommit, Held, Releasing, At
    <3>5. \A j \in DOMAIN W(u), h \in Installed(t, v) : h.addr # W(u)[j].addr
      BY <1>15, <1>22, <3>1, <3>4
    <3> QED
      BY <1>2, <2>1, <3>2, <3>3, <3>5
  <2> QED
    BY <2>2, <2>3 DEF HistoryInv
<1> QED
  BY <1>17, <1>23, <1>24 DEF Inv

LEMMA CommitValidInv ==
  ASSUME Inv, NEW t \in Thread, build' = build, CommitValid(t)
  PROVE  Inv'
<1>1. /\ At(t, "validate") /\ tx[t].ts > 0 /\ Publish(t, tx[t], tx[t].ts)
      /\ UNCHANGED <<clock, locks, mem>> /\ TxTypes(tx[t]) /\ LocalOK(t)
  BY DEF CommitValid, Inv, TypeOK, LocalInv
<1>2. tx[t].ts \in Nat /\ tx[t].ts # 0
  BY <1>1 DEF TxTypes
<1>3. W(t) # <<>>
  BY <1>1, <1>2 DEF LocalOK, TicketPhase
<1>4. /\ tx[t].ts <= clock
      /\ \A j \in DOMAIN W(t), h \in hist : h.addr = W(t)[j].addr => h.ts < tx[t].ts
  BY <1>1, <1>2 DEF Inv, HistoryInv
<1> QED
  BY <1>1, <1>2, <1>3, <1>4, PublishMove

LEMMA CommitClockInv ==
  ASSUME Inv, NEW t \in Thread, build' = build, CommitClock(t)
  PROVE  Inv'
<1>1. /\ At(t, "commit_clock") /\ tx[t].pc = "commit_clock" /\ clock' = clock + 1
      /\ UNCHANGED <<locks, mem>>
      /\ TypeOK /\ TxTypes(tx[t]) /\ LocalOK(t) /\ clock \in Nat
  BY DEF CommitClock, Inv, TypeOK, LocalInv, At
<1>2. W(t) # <<>> /\ tx[t].ts = 0
  BY <1>1 DEF LocalOK, TicketPhase
<1>3. \A h \in hist : h.ts \in Nat /\ h.ts < clock + 1
  BY <1>1 DEF Inv, HistoryInv, TypeOK
<1>4. CASE tx[t].start = clock
  <2>1. Publish(t, tx[t], clock + 1)
    BY <1>4, Zenon DEF CommitClock
  <2>2. clock + 1 \in Nat /\ clock + 1 # 0 /\ clock + 1 <= clock' /\ clock' \in {clock, clock + 1}
    BY <1>1
  <2> DEFINE v == clock + 1
  <2>3. v \in Nat /\ v <= clock' /\ v # 0 /\ Publish(t, tx[t], v)
        /\ \A j \in DOMAIN W(t), h \in hist : h.addr = W(t)[j].addr => h.ts < v
    BY <1>3, <2>1, <2>2
  <2> HIDE DEF v
  <2> QED
    BY <1>1, <1>2, <2>2, <2>3, PublishMove
<1>5. CASE tx[t].start # clock
  <2> DEFINE d == [tx[t] EXCEPT !.ts = clock + 1, !.todo = tx[t].r_set]
  <2>1. Become(t, d, "validate") /\ hist' = hist
    BY <1>5, Zenon DEF CommitClock
  <2>2. Kept(d, tx[t]) /\ d.l = tx[t].l /\ d.arg = tx[t].arg /\ d.op = tx[t].op
        /\ d.ts = clock + 1 /\ d.seenStatus = tx[t].seenStatus
    <3>1. Shape(d)
      BY <1>1 DEF TxTypes, Shape
    <3> QED
      BY <1>1, <3>1 DEF TxTypes, Shape, Fields, Kept
  <2> HIDE DEF d
  <2>3. Moves(t) /\ tx'[t].pc = "validate" /\ Kept(tx'[t], d) /\ SameLocals(tx'[t], d)
    BY <2>1, <2>2, BecomeIs DEF Inv, TypeOK, Kept
  <2>4. Kept(tx'[t], tx[t]) /\ tx'[t].l = tx[t].l /\ tx'[t].arg = tx[t].arg
        /\ tx'[t].op = tx[t].op /\ tx'[t].ts = clock + 1 /\ tx'[t].ts # 0
    BY <1>1, <2>2, <2>3 DEF Kept, SameLocals
  <2>5. TxTypes(tx'[t])
    BY <1>1, <2>3, <2>4 DEF TxTypes, Kept, Labels
  <2>6. W(t)' = W(t) /\ WriteThrough' = WriteThrough /\ Modular' = Modular
    BY <2>4 DEF W, Kept, WriteThrough, Modular
  <2>7. LocalOK(t)'
    BY <1>1, <1>2, <2>3, <2>4, <2>6
       DEF LocalOK, CallsBound, LabelsOfBuild, TicketPhase, Position, StatusPhase, Remembers,
         InCall, At, Kept, ReadLabels, ArbiterLabels, CallLabels, FreeLabels
  <2>8. Unseen(t)
    <3>1. Held(t)' = Held(t)
      BY <1>1, <2>3, <2>6 DEF Held, Releasing, At
    <3>2. LogUnseen(t)
      BY <1>1, <2>3, <2>4, <2>6 DEF LogUnseen, Pending, ToUndo, At
    <3> QED
      BY <1>1, <2>3, <2>4, <2>6, <3>1, <3>2 DEF Unseen, Kept, Killed, At
  <2>9. StatusKept(t)
    BY <2>4 DEF StatusKept, StatusWord, Kept
  <2>10. \A other \in Thread : StealOK(t, other)'
    BY <2>3 DEF StealOK, At
  <2> QED
    BY <1>1, <2>1, <2>3, <2>5, <2>7, <2>8, <2>9, <2>10, QuietInv DEF Quiet
<1> QED
  BY <1>4, <1>5

-----------------------------------------------------------------------------
(***************************************************************************)
(* Stores and visible loads: the log grows                                 *)
(***************************************************************************)
\* WRITE_BACK_ETL: a call that stores to its log leaves memory alone.
LEMMA MemoryOfCall ==
  ASSUME Inv, NEW t \in Thread, build' = build, ~WriteThrough, InCall(t), Moves(t),
         UNCHANGED <<clock, mem, hist>>, tx'[t].pc \notin {"write_back", "release", "validate"}
  PROVE  MemoryInv' /\ HistoryInv'
<1>1. tx[t].pc \notin {"write_back", "release"}
  BY DEF InCall, At, CallLabels
<1>2. WriteThrough' = WriteThrough
  BY DEF WriteThrough
<1>3. \A u \in Thread \ {t} : tx'[u] = tx[u] /\ W(u)' = W(u)
  BY DEF Moves, W
<1>4. \A a, j : ~Pending(t, a, j) /\ ~Pending(t, a, j)'
  BY <1>1 DEF Pending, At
<1>5. \A a, w : Latest(a, w)' <=> Latest(a, w)
  BY DEF Latest
<1>6. \A u \in Thread \ {t} : \A a, j : Pending(u, a, j)' <=> Pending(u, a, j)
  BY <1>3 DEF Pending, At
<1>7. MemoryInv'
  <2> SUFFICES ASSUME NEW a \in Addr
               PROVE  /\ \A u \in Thread : \A j \in DOMAIN W(u)' :
                           Pending(u, a, j)' => Latest(a, W(u)[j].value)'
                      /\ (\A u \in Thread : \A j \in DOMAIN W(u)' : ~Pending(u, a, j)') =>
                           Latest(a, mem[a])'
    BY <1>2 DEF MemoryInv
  <2>1. /\ \A u \in Thread : \A j \in DOMAIN W(u) : Pending(u, a, j) => Latest(a, W(u)[j].value)
        /\ (\A u \in Thread : \A j \in DOMAIN W(u) : ~Pending(u, a, j)) => Latest(a, mem[a])
    BY DEF Inv, MemoryInv
  <2>2. ASSUME NEW u \in Thread, NEW j \in DOMAIN W(u)', Pending(u, a, j)'
        PROVE  Latest(a, W(u)[j].value)'
    <3>1. u # t
      BY <1>4, <2>2
    <3>2. Pending(u, a, j) /\ j \in DOMAIN W(u) /\ W(u)' = W(u)
      BY <1>3, <1>6, <2>2, <3>1
    <3>3. Latest(a, W(u)[j].value)
      BY <2>1, <3>2
    <3> QED
      BY <3>2, <3>3 DEF Latest
  <2>3. ASSUME \A u \in Thread : \A j \in DOMAIN W(u)' : ~Pending(u, a, j)'
        PROVE  Latest(a, mem[a])'
    <3>1. \A u \in Thread : \A j \in DOMAIN W(u) : ~Pending(u, a, j)
      BY <1>3, <1>4, <1>6, <2>3
    <3>2. Latest(a, mem[a])
      BY <2>1, <3>1
    <3> QED
      BY <3>2 DEF Latest
  <2> QED
    BY <2>2, <2>3
<1>8. HistoryInv'
  BY <1>3 DEF Inv, HistoryInv, At
<1> QED
  BY <1>7, <1>8

\* The call of t is over; its log may be one entry longer.
Finished(t) ==
  /\ Moves(t) /\ Shape(tx'[t]) /\ tx'[t].pc = "app" /\ Clean(tx'[t])
  /\ tx'[t].status = tx[t].status /\ tx'[t].counter = tx[t].counter
  /\ tx'[t].calls = tx[t].calls
  /\ tx'[t].size \in Nat /\ tx'[t].size >= tx[t].size
  /\ tx'[t].gen \in Nat
  /\ tx'[t].w_set \in Seq(LogEntry) /\ Len(tx'[t].w_set) <= Len(W(t)) + 1

LEMMA FinishedLocal ==
  ASSUME Inv, NEW t \in Thread, build' = build, InCall(t), Finished(t)
  PROVE  /\ TxTypes(tx'[t]) /\ LocalOK(t)' /\ Held(t)' = DOMAIN W(t)' /\ Held(t) = DOMAIN W(t)
         /\ (Killed(t)' <=> Killed(t)) /\ StatusKept(t) /\ tx'[t].pc = "app"
<1>1. TxTypes(tx[t]) /\ LocalOK(t) /\ TypeOK
  BY DEF Inv, TypeOK, LocalInv
<1>2. Modular' = Modular /\ WriteThrough' = WriteThrough
  BY DEF Modular, WriteThrough
<1>3. TxTypes(tx'[t])
  BY <1>1, Constants DEF TxTypes, Finished, Clean, Labels
<1>4. CallsBound(t)'
  <2>1. /\ tx[t].size >= build.RW_SET_SIZE
        /\ Len(W(t)) + 1 <= tx[t].calls
    BY <1>1 DEF LocalOK, CallsBound
  <2>2. Len(W(t)) \in Nat /\ tx[t].calls \in Nat /\ tx[t].size \in Nat /\ build.RW_SET_SIZE \in Nat
    BY <1>1, LogSize, BuildIs DEF TxTypes, TypeOK
  <2>3. Len(W(t)') \in Nat /\ Len(W(t)') <= Len(W(t)) + 1
    BY DEF Finished, W
  <2>4. tx'[t].size >= build.RW_SET_SIZE
    BY <2>1, <2>2 DEF Finished
  <2>5. Len(W(t)') <= tx'[t].calls
    BY <2>1, <2>2, <2>3 DEF Finished
  <2> QED
    BY <2>4, <2>5 DEF CallsBound, InCall, At, CallLabels, Finished
<1>5. LabelsOfBuild(t)' /\ TicketPhase(t)' /\ Position(t)' /\ StatusPhase(t)' /\ Remembers(t)'
  BY <1>1, <1>2 DEF Finished, Clean, LocalOK, LabelsOfBuild, TicketPhase, Position, StatusPhase,
     Remembers, InCall, At, ArbiterLabels, ReadLabels, FreeLabels
<1>6. Held(t)' = DOMAIN W(t)' /\ Held(t) = DOMAIN W(t)
  <2>1. ~At(t, "end") /\ ~Releasing(t)
    BY DEF InCall, At, CallLabels, Releasing
  <2>2. ~At(t, "end")' /\ ~Releasing(t)'
    BY DEF Finished, At, Releasing
  <2> QED
    BY <2>1, <2>2 DEF Held
<1>7. (Killed(t)' <=> Killed(t)) /\ StatusKept(t)
  BY DEF Finished, Killed, StatusKept, StatusWord
<1> QED
  BY <1>3, <1>4, <1>5, <1>6, <1>7 DEF LocalOK, Finished

\* The call acquires locks, or points them to other entries of the log.
LEMMA GrowMove ==
  ASSUME Inv, NEW t \in Thread, build' = build, ~WriteThrough, InCall(t),
         UNCHANGED <<clock, mem, hist>>, Finished(t), W(t)' # <<>>,
         tx'[t].gen = tx[t].gen \/ tx'[t].gen = Fresh(RememberedGens(t)),
         locks' \in [Lock -> LockWord], WriteLocked', LogOf(t)',
         \A k \in Lock : locks'[k].owner \in Thread \ {t} => locks'[k] = locks[k],
         \A k \in Lock : locks[k].owner \in Thread \ {t} /\ ~Killed(locks[k].owner) =>
                           locks'[k] = locks[k]
  PROVE  Inv'
<1>1. /\ TxTypes(tx'[t]) /\ LocalOK(t)' /\ (Killed(t)' <=> Killed(t))
      /\ tx'[t].pc \notin {"kill", "steal", "write_back", "release", "validate"} /\ Moves(t)
  BY FinishedLocal DEF Finished
<1>2. LogTypes
  BY DEF LogTypes, Inv, TypeOK
<1>3. \A v \in Thread \ {t} : At(v, "steal") /\ tx[v].l.owner = t =>
        tx[v].l.inc # tx'[t].gen \/ (Killed(t)' /\ W(t)' # <<>>)
  <2>1. CASE tx'[t].gen = tx[t].gen
    BY <1>1, <2>1 DEF Inv, LockInv, StealSafe, StealOK
  <2>2. CASE tx'[t].gen = Fresh(RememberedGens(t))
    BY <2>2, GenNew
  <2> QED
    BY <2>1, <2>2
<1>4. TypeOK' /\ LocalInv' /\ LockInv'
  BY <1>1, <1>2, <1>3, LockMove
<1>5. MemoryInv' /\ HistoryInv'
  BY <1>1, MemoryOfCall
<1> QED
  BY <1>4, <1>5 DEF Inv

\* The log gets an entry for the address of the call, linked behind prev.
Appended(t, prev) ==
  /\ DOMAIN W(t)' = 1..(Len(W(t)) + 1)
  /\ W(t)'[Len(W(t)) + 1].addr = tx[t].arg.addr
  /\ W(t)'[Len(W(t)) + 1].next = 0 /\ ~W(t)'[Len(W(t)) + 1].no_drop
  /\ \A j \in 1..Len(W(t)) :
       /\ W(t)'[j].addr = W(t)[j].addr /\ W(t)'[j].no_drop = W(t)[j].no_drop
       /\ W(t)'[j].next = IF j = prev THEN Len(W(t)) + 1 ELSE W(t)[j].next

\* What the rest of the proof needs to know of such a log of n + 1 entries.
AppendShape(t, n, prev) ==
  /\ n \in Nat /\ DOMAIN W(t) = 1..n /\ DOMAIN W(t)' = 1..(n + 1) /\ W(t)' # <<>>
  /\ \A j \in 1..n : LockAt(t, j)' = LockAt(t, j) /\ W(t)'[j].addr = W(t)[j].addr
                     /\ LockAt(t, j) \in Lock
                     /\ W(t)'[j].next = IF j = prev THEN n + 1 ELSE W(t)[j].next
  /\ LockAt(t, n + 1)' = ArgLock(t) /\ W(t)'[n + 1].next = 0
  /\ W(t)'[n + 1].addr = tx[t].arg.addr
  /\ FirstDropsOf(t)' /\ LinksForwardOf(t)'

LEMMA AppendedIs ==
  ASSUME Inv, NEW t \in Thread, build' = build, ~WriteThrough, NEW n, n = Len(W(t)),
         NEW prev, Appended(t, prev)
  PROVE  AppendShape(t, n, prev)
<1>1. n \in Nat /\ DOMAIN W(t) = 1..n /\ DOMAIN W(t)' = 1..(n + 1) /\ LockOf' = LockOf
  BY LogSize DEF Appended, LockOf
<1>2. /\ \A j \in 1..n : W(t)'[j].addr = W(t)[j].addr /\ W(t)'[j].no_drop = W(t)[j].no_drop
            /\ W(t)'[j].next = IF j = prev THEN n + 1 ELSE W(t)[j].next
      /\ W(t)'[n + 1].addr = tx[t].arg.addr /\ W(t)'[n + 1].next = 0 /\ ~W(t)'[n + 1].no_drop
  BY DEF Appended
<1>3. \A j \in 1..n : LockAt(t, j)' = LockAt(t, j) /\ LockAt(t, j) \in Lock
  BY <1>1, <1>2, LockAtIs DEF LockAt, W, Inv
<1>4. LockAt(t, n + 1)' = ArgLock(t)
  <2> DEFINE m == n + 1
  <2>1. W(t)'[m].addr = tx[t].arg.addr
    BY <1>2
  <2>2. m' = m
    BY <1>1, <1>2 DEF Appended
  <2> QED
    BY <1>1, <2>1 DEF LockAt, ArgLock, W
<1>5. FirstDropsOf(t)'
  BY DEF FirstDropsOf, WriteThrough
<1>6. LinksForwardOf(t)'
  <2>1. \A j \in 1..n : /\ W(t)[j].next # 0 => W(t)[j].next \in 1..n /\ W(t)[j].next > j
                        /\ ~W(t)[j].no_drop
    BY <1>1 DEF Inv, LockInv, LinksForward, LinksForwardOf
  <2>2. ASSUME NEW j \in 1..(n + 1)
        PROVE  /\ W(t)'[j].next # 0 => W(t)'[j].next \in 1..(n + 1) /\ W(t)'[j].next > j
               /\ ~W(t)'[j].no_drop
    <3>1. CASE j = n + 1
      BY <1>2, <3>1
    <3>2. CASE j \in 1..n
      <4>1. CASE j = prev
        BY <1>1, <1>2, <2>1, <3>2, <4>1
      <4>2. CASE j # prev
        <5>1. W(t)'[j].next = W(t)[j].next
          BY <1>2, <3>2, <4>2
        <5> QED
          BY <1>1, <1>2, <2>1, <3>2, <5>1
      <4> QED
        BY <4>1, <4>2
    <3> QED
      BY <1>1, <3>1, <3>2
  <2> QED
    BY <1>1, <2>2 DEF LinksForwardOf
<1>7. W(t)' # <<>>
  <2>1. 1 \in DOMAIN W(t)'
    BY <1>1
  <2> QED
    BY <2>1
<1> QED
  BY <1>1, <1>2, <1>3, <1>4, <1>5, <1>6, <1>7 DEF AppendShape

\* The list of a lock we own: while nobody has killed us, all its entries.
LEMMA OwnChain ==
  ASSUME Inv, NEW t \in Thread, ~WriteThrough, NEW k \in Lock, locks[k].owner = t
  PROVE  /\ Chain(W(t), locks[k].n) \subseteq DOMAIN W(t)
         /\ \E j \in Chain(W(t), locks[k].n) : W(t)[j].next = 0
         /\ ~Killed(t) => Chain(W(t), locks[k].n) = {j \in DOMAIN W(t) : LockAt(t, j) = k}
<1> DEFINE ws == W(t)
           n == locks[k].n
<1>1. Len(ws) \in Nat /\ DOMAIN ws = 1..Len(ws)
  BY LogSize
<1>2. n \in DOMAIN ws /\ LockAt(t, n) = k
  BY DEF Inv, LockInv, OwnerHolds, OwnerHoldsOf
<1>3. Forward(ws)
  BY <1>1 DEF Inv, LockInv, LinksForward, LinksForwardOf, Forward
<1>4. Chain(ws, n) \subseteq DOMAIN ws /\ \E j \in Chain(ws, n) : ws[j].next = 0
  <2> HIDE DEF ws, n
  <2> QED
    BY <1>1, <1>2, <1>3, ChainEnds
<1>5. ASSUME ~Killed(t) PROVE Chain(ws, n) = {j \in DOMAIN ws : LockAt(t, j) = k}
  <2> DEFINE cls == [j \in 1..Len(ws) |-> LockAt(t, j)]
  <2>1. LinkingOf(t)
    BY DEF Inv, LockInv, Linking
  <2>2. \A j \in 1..Len(ws) :
          /\ ws[j].next # 0 => ws[j].next \in 1..Len(ws)
          /\ ws[j].next # 0 => LockAt(t, ws[j].next) = LockAt(t, j)
          /\ \A h \in 1..Len(ws) : h > j /\ LockAt(t, h) = LockAt(t, j) =>
                ws[j].next # 0 /\ ws[j].next <= h
    BY <1>1, <1>3, <1>5, <2>1 DEF LinkingOf, Forward
  <2>3. \A j \in 1..Len(ws) : cls[j] = LockAt(t, j)
    OBVIOUS
  <2> HIDE DEF cls
  <2>4. \A j \in 1..Len(ws) :
          /\ ws[j].next # 0 => cls[ws[j].next] = cls[j]
          /\ \A h \in 1..Len(ws) : h > j /\ cls[h] = cls[j] => ws[j].next # 0 /\ ws[j].next <= h
    BY <2>2, <2>3
  <2>5. \A j \in DOMAIN ws : LockAt(t, j) = k => n <= j
    BY <1>5, <2>1 DEF LinkingOf
  <2> HIDE DEF ws, n
  <2>6. Chain(ws, n) = {h \in 1..Len(ws) : h >= n /\ cls[h] = cls[n]}
    BY <1>1, <1>2, <1>3, <2>4, ChainOfClass
  <2> QED
    BY <1>1, <1>2, <2>3, <2>5, <2>6
<1> QED
  BY <1>4, <1>5

\* A new entry on the list of a lock we own.
LEMMA AppendOwnMove ==
  ASSUME Inv, NEW t \in Thread, build' = build, ~WriteThrough, InCall(t),
         UNCHANGED <<clock, mem, hist, locks>>, Finished(t), tx'[t].gen = tx[t].gen,
         NEW n, n = Len(W(t)), NEW k0, k0 = ArgLock(t), locks[k0].owner = t,
         NEW prev \in DOMAIN W(t), Appended(t, prev),
         prev \in Chain(W(t), locks[k0].n), W(t)[prev].next = 0,
         \A j \in Chain(W(t), locks[k0].n) : W(t)[j].addr # tx[t].arg.addr
  PROVE  Inv'
<1>1. /\ n \in Nat /\ DOMAIN W(t) = 1..n /\ DOMAIN W(t)' = 1..(n + 1) /\ W(t)' # <<>>
      /\ \A j \in 1..n : LockAt(t, j)' = LockAt(t, j) /\ W(t)'[j].addr = W(t)[j].addr
                         /\ LockAt(t, j) \in Lock
                         /\ W(t)'[j].next = IF j = prev THEN n + 1 ELSE W(t)[j].next
      /\ LockAt(t, n + 1)' = k0 /\ W(t)'[n + 1].next = 0
      /\ W(t)'[n + 1].addr = tx[t].arg.addr
      /\ FirstDropsOf(t)' /\ LinksForwardOf(t)'
  <2>1. AppendShape(t, n, prev)
    BY AppendedIs
  <2> QED
    BY <2>1 DEF AppendShape
<1>2. /\ Held(t)' = DOMAIN W(t)' /\ Held(t) = DOMAIN W(t) /\ (Killed(t)' <=> Killed(t))
      /\ tx'[t].pc = "app" /\ WriteThrough' = WriteThrough
  BY FinishedLocal DEF WriteThrough
<1>3. OwnerHoldsOf(t) /\ HolderOwnsOf(t) /\ LinksForwardOf(t) /\ LinkingOf(t) /\ k0 \in Lock
  BY ArgLockIs DEF Inv, LockInv, OwnerHolds, HolderOwns, LinksForward, Linking
<1>4. OwnerHoldsOf(t)'
  <2> SUFFICES ASSUME NEW k \in Lock, locks[k].owner = t
               PROVE  /\ locks[k].inc = tx[t].gen /\ locks[k].n \in 1..(n + 1)
                      /\ LockAt(t, locks[k].n)' = k /\ \E j \in 1..(n + 1) : LockAt(t, j)' = k
    BY <1>1, <1>2 DEF OwnerHoldsOf
  <2>1. locks[k].inc = tx[t].gen /\ locks[k].n \in 1..n /\ LockAt(t, locks[k].n) = k
    BY <1>1, <1>3 DEF OwnerHoldsOf
  <2> DEFINE m == locks[k].n
  <2>2. LockAt(t, m)' = k
    <3>1. PICK q \in 1..n : q = m
      BY <2>1
    <3>2. LockAt(t, q)' = k
      BY <1>1, <2>1, <3>1
    <3>3. m' = q
      BY <3>1
    <3> QED
      BY <3>2, <3>3
  <2> QED
    BY <1>1, <2>1, <2>2
<1>5. HolderOwnsOf(t)'
  <2>1. ASSUME ~Killed(t), NEW j \in 1..(n + 1) PROVE locks[LockAt(t, j)'].owner = t
    <3>1. CASE j = n + 1
      BY <1>1, <3>1
    <3>2. CASE j \in 1..n
      BY <1>1, <1>2, <1>3, <2>1, <3>2 DEF HolderOwnsOf
    <3> QED
      BY <1>1, <3>1, <3>2
  <2> QED
    BY <1>1, <1>2, <2>1 DEF HolderOwnsOf, At
<1>6. ASSUME ~Killed(t) PROVE LinkingOf(t)'
  <2>1. {j \in 1..n : LockAt(t, j) = k0} = Chain(W(t), locks[k0].n)
    <3>1. Chain(W(t), locks[k0].n) = {j \in DOMAIN W(t) : LockAt(t, j) = k0}
      BY <1>3, <1>6, OwnChain
    <3> QED
      BY <1>1, <3>1
  <2>2. prev \in 1..n /\ LockAt(t, prev) = k0 /\ \A j \in 1..n : LockAt(t, j) = k0 => j <= prev
    BY <1>1, <1>3, <1>6, <2>1 DEF LinkingOf
  <2>3. \A j \in 1..n : W(t)[j].next \in Nat
                         /\ (W(t)[j].next # 0 => W(t)[j].next \in 1..n /\ W(t)[j].next > j)
    BY <1>1, LockAtIs DEF Inv, LogEntry, LockInv, LinksForward, LinksForwardOf
  <2>4. \A j \in 1..n :
          /\ W(t)[j].next # 0 => LockAt(t, W(t)[j].next) = LockAt(t, j)
          /\ \A h \in 1..n : h > j /\ LockAt(t, h) = LockAt(t, j) =>
               W(t)[j].next # 0 /\ W(t)[j].next <= h
    BY <1>1, <1>3, <1>6 DEF LinkingOf
  <2>5. ASSUME NEW j \in 1..(n + 1), NEW x, x = W(t)'[j].next
        PROVE  /\ x # 0 => LockAt(t, x)' = LockAt(t, j)'
               /\ \A h \in 1..(n + 1) : h > j /\ LockAt(t, h)' = LockAt(t, j)' => x # 0 /\ x <= h
    <3>1. CASE j = n + 1
      BY <1>1, <2>5, <3>1
    <3>2. CASE j \in 1..n /\ j = prev
      <4>1. x = n + 1 /\ LockAt(t, x)' = LockAt(t, j)'
        BY <1>1, <2>2, <2>5, <3>2
      <4>2. ASSUME NEW h \in 1..(n + 1), h > j, LockAt(t, h)' = LockAt(t, j)' PROVE h = n + 1
        <5>1. CASE h \in 1..n
          <6>1. LockAt(t, h) = k0 /\ j \in 1..n /\ h \in Nat /\ j \in Nat
            BY <1>1, <2>2, <3>2, <4>2, <5>1
          <6> QED
            BY <2>2, <3>2, <4>2, <5>1, <6>1
        <5> QED
          BY <1>1, <5>1
      <4> QED
        BY <1>1, <4>1, <4>2
    <3>3. CASE j \in 1..n /\ j # prev
      <4>1. x = W(t)[j].next
        BY <1>1, <2>5, <3>3
      <4>2. x # 0 => LockAt(t, x)' = LockAt(t, j)'
        BY <1>1, <2>3, <2>4, <3>3, <4>1
      <4>3. ASSUME NEW h \in 1..(n + 1), h > j, LockAt(t, h)' = LockAt(t, j)'
            PROVE  x # 0 /\ x <= h
        <5>1. CASE h \in 1..n
          BY <1>1, <2>4, <3>3, <4>1, <4>3, <5>1
        <5>2. CASE h = n + 1
          <6>1. LockAt(t, j) = k0 /\ prev > j
            BY <1>1, <2>2, <3>3, <4>3, <5>2
          <6>2. x # 0 /\ x <= prev /\ x \in Nat
            BY <2>2, <2>3, <2>4, <3>3, <4>1, <6>1
          <6> QED
            BY <1>1, <2>2, <5>2, <6>2
        <5> QED
          BY <1>1, <5>1, <5>2
      <4> QED
        BY <4>2, <4>3
    <3> QED
      BY <1>1, <3>1, <3>2, <3>3
  <2>6. \A j \in 1..(n + 1) : W(t)'[j].next # 0 => LockAt(t, W(t)[j].next)' = LockAt(t, j)'
    <3> SUFFICES ASSUME NEW j \in 1..(n + 1), W(t)'[j].next # 0
                 PROVE  LockAt(t, W(t)[j].next)' = LockAt(t, j)'
      OBVIOUS
    <3>1. PICK x : x = W(t)'[j].next
      OBVIOUS
    <3>2. LockAt(t, x)' = LockAt(t, j)'
      BY <2>5, <3>1
    <3> QED
      BY <3>1, <3>2
  <2>7. \A j \in 1..(n + 1) : \A h \in 1..(n + 1) : h > j /\ LockAt(t, h)' = LockAt(t, j)' =>
               W(t)'[j].next # 0 /\ W(t)'[j].next <= h
    BY <2>5
  <2>8. \A j, h \in 1..(n + 1) : W(t)'[j].addr = W(t)'[h].addr => j = h
    <3>1. \A j \in 1..n : W(t)[j].addr # tx[t].arg.addr
      <4> SUFFICES ASSUME NEW j \in 1..n, W(t)[j].addr = tx[t].arg.addr PROVE FALSE
        OBVIOUS
      <4>1. LockAt(t, j) = k0
        BY DEF LockAt, ArgLock, W
      <4> QED
        BY <2>1, <4>1
    <3>2. \A j, h \in 1..n : W(t)[j].addr = W(t)[h].addr => j = h
      BY <1>1, <1>3, <1>6 DEF LinkingOf
    <3>3. \A j \in 1..(n + 1) : j \in 1..n \/ j = n + 1
      BY <1>1
    <3> QED
      BY <1>1, <3>1, <3>2, <3>3
  <2>9. \A k \in Lock, j \in 1..(n + 1) : locks[k].owner = t /\ LockAt(t, j)' = k => locks[k].n <= j
    <3> SUFFICES ASSUME NEW k \in Lock, NEW j \in 1..(n + 1), locks[k].owner = t, LockAt(t, j)' = k
                 PROVE  locks[k].n <= j
      OBVIOUS
    <3>1. CASE j \in 1..n
      BY <1>1, <1>3, <1>6, <3>1 DEF LinkingOf
    <3>2. CASE j = n + 1
      <4>1. locks[k].n \in 1..n
        BY <1>1, <1>3 DEF OwnerHoldsOf
      <4> QED
        BY <1>1, <3>2, <4>1
    <3> QED
      BY <1>1, <3>1, <3>2
  <2> QED
    BY <1>1, <2>6, <2>7, <2>8, <2>9 DEF LinkingOf
<1>7. LogOf(t)'
  BY <1>1, <1>2, <1>4, <1>5, <1>6 DEF LogOf, LinkingOf
<1>8. locks' \in [Lock -> LockWord] /\ WriteLocked'
  BY DEF Inv, TypeOK, LockInv, WriteLocked, LOCK_GET_OWNED
<1> QED
  BY <1>1, <1>7, <1>8, GrowMove

LEMMA OwnedWord ==
  ASSUME NEW t \in Thread, NEW n \in Nat, NEW gen \in Nat, NEW wr \in BOOLEAN
  PROVE  [owner |-> t, n |-> n, inc |-> gen, write |-> wr] \in LockWord
BY DEF LockWord

\* The locks of t lead to allocation gen of its write set, to the same entries.
Rebased(t, gen, base) ==
  /\ base \in [Lock -> LockWord] /\ gen \in Nat
  /\ gen = tx[t].gen \/ gen = Fresh(RememberedGens(t))
  /\ \A k \in Lock :
       /\ base[k].write => base[k].owner # NoOwner
       /\ locks[k].owner # t => base[k] = locks[k]
       /\ locks[k].owner = t =>
            base[k].owner = t /\ base[k].n = locks[k].n /\ base[k].inc = gen

\* The write set is full only where the locks stay put.
LEMMA FullIs ==
  ASSUME Inv, GrowthSafe, NEW t \in Thread, ~WriteThrough, InCall(t), Full(t)
  PROVE  ~Modular /\ ~Killed(t) /\ \A a, b \in Addr : LockOf[a] = LockOf[b] => a = b
<1>1. LocalOK(t) /\ TxTypes(tx[t]) /\ TypeOK
  BY DEF Inv, TypeOK, LocalInv
<1>2. tx[t].size >= build.RW_SET_SIZE /\ Len(W(t)) + 1 <= tx[t].calls
      /\ tx[t].calls <= build.MaxCalls[t]
  BY <1>1 DEF LocalOK, CallsBound
<1>3. build.RW_SET_SIZE \in Nat /\ build.MaxCalls[t] \in Nat /\ tx[t].calls \in Nat
      /\ tx[t].size \in Nat
  BY <1>1, BuildIs DEF TypeOK, TxTypes
<1>4. Len(W(t)) = tx[t].size
  BY DEF Full, W
<1>5. ~(build.MaxCalls[t] <= build.RW_SET_SIZE)
  BY <1>2, <1>3, <1>4
<1>6. ~Modular /\ \A a, b \in Addr : LockOf[a] = LockOf[b] => a = b
  BY <1>5 DEF GrowthSafe
<1>7. ~Killed(t)
  BY <1>1, <1>6 DEF LocalOK, LabelsOfBuild, Killed
<1> QED
  BY <1>6, <1>7

LEMMA RebasedIs ==
  ASSUME Inv, GrowthSafe, NEW t \in Thread, ~WriteThrough, InCall(t), NEW gen, NEW base,
         gen = IF Full(t) THEN Fresh(RememberedGens(t)) ELSE tx[t].gen,
         base = IF Full(t) THEN Repointed(t, gen) ELSE locks
  PROVE  Rebased(t, gen, base)
<1>1. /\ TypeOK /\ TxTypes(tx[t]) /\ OwnerHoldsOf(t) /\ HolderOwnsOf(t) /\ LinkingOf(t)
      /\ WriteLocked /\ NoOwner \notin Thread
  BY EtlAssumption DEF Inv, TypeOK, LockInv, OwnerHolds, HolderOwns, Linking
<1>2. gen \in Nat
  BY <1>1, GenNew DEF TxTypes
<1>3. CASE ~Full(t)
  <2>1. base = locks /\ gen = tx[t].gen
    BY <1>3
  <2>2. \A k \in Lock : locks[k].owner = t => locks[k].inc = tx[t].gen
    BY <1>1 DEF OwnerHoldsOf
  <2> QED
    BY <1>1, <1>2, <2>1, <2>2 DEF Rebased, TypeOK, WriteLocked, LOCK_GET_OWNED
<1>4. CASE Full(t)
  <2>1. base = Repointed(t, gen) /\ gen = Fresh(RememberedGens(t))
    BY <1>4
  <2>2. ~Killed(t) /\ \A a, b \in Addr : LockOf[a] = LockOf[b] => a = b
    BY <1>4, FullIs
  <2>3. Held(t) = DOMAIN W(t) /\ DOMAIN W(t) = 1..Len(W(t)) /\ Len(W(t)) \in Nat
    BY LogSize DEF Held, InCall, At, CallLabels, Releasing
  <2>4. ASSUME NEW k \in Lock
        PROVE  /\ base[k] \in LockWord
               /\ base[k].write => base[k].owner # NoOwner
               /\ locks[k].owner # t => base[k] = locks[k]
               /\ locks[k].owner = t =>
                    base[k].owner = t /\ base[k].n = locks[k].n /\ base[k].inc = gen
    <3> DEFINE covered == {j \in DOMAIN W(t) : LockAt(t, j) = k}
               top == CHOOSE j \in covered : \A h \in covered : h <= j
    <3>1. base[k] = IF covered = {} THEN locks[k]
                    ELSE [owner |-> t, n |-> top, inc |-> gen, write |-> TRUE]
      BY <2>1, Zenon DEF Repointed, W, LockAt
    <3>2. \A j \in covered : locks[k].owner = t
      BY <1>1, <2>2, <2>3 DEF HolderOwnsOf
    <3>3. \A j, h \in covered : j = h
      <4> SUFFICES ASSUME NEW j \in covered, NEW h \in covered PROVE j = h
        OBVIOUS
      <4>1. W(t)[j].addr \in Addr /\ W(t)[h].addr \in Addr
        BY <1>1, LockAtIs
      <4>2. W(t)[j].addr = W(t)[h].addr
        BY <2>2, <4>1 DEF LockAt, W
      <4> QED
        BY <1>1, <2>2, <4>2 DEF LinkingOf
    <3>4. CASE locks[k].owner # t
      <4>1. covered = {}
        BY <3>2, <3>4
      <4> HIDE DEF covered, top
      <4> QED
        BY <1>1, <3>1, <3>4, <4>1 DEF TypeOK, WriteLocked, LOCK_GET_OWNED
    <3>5. CASE locks[k].owner = t
      <4>1. locks[k].n \in covered
        BY <1>1, <3>5 DEF OwnerHoldsOf
      <4>2. locks[k].n \in Nat /\ covered = {locks[k].n}
        BY <2>3, <3>3, <4>1
      <4> HIDE DEF covered
      <4>3. top = locks[k].n
        BY <4>2
      <4> HIDE DEF top
      <4>4. base[k] = [owner |-> t, n |-> top, inc |-> gen, write |-> TRUE]
        BY <3>1, <4>2
      <4>5. top \in Nat /\ t # NoOwner
        BY <1>1, <4>2, <4>3
      <4>6. base[k] \in LockWord
        BY <1>2, <4>4, <4>5, OwnedWord
      <4>7. base[k].owner = t /\ base[k].n = top /\ base[k].inc = gen
        BY <4>4
      <4> QED
        BY <3>5, <4>3, <4>5, <4>6, <4>7
    <3> QED
      BY <3>4, <3>5
  <2>5. base = [k \in Lock |-> base[k]]
    BY <2>1 DEF Repointed
  <2> QED
    BY <1>2, <2>1, <2>4, <2>5 DEF Rebased
<1> QED
  BY <1>3, <1>4

\* The lock of the call becomes ours, with the first entry of its list.
LEMMA AcquireMove ==
  ASSUME Inv, NEW t \in Thread, build' = build, ~WriteThrough, InCall(t),
         UNCHANGED <<clock, mem, hist>>, Finished(t), Appended(t, 0),
         NEW n, n = Len(W(t)), NEW k0, k0 = ArgLock(t),
         NEW gen, NEW base, Rebased(t, gen, base), tx'[t].gen = gen,
         \/ locks[k0].owner = NoOwner
         \/ locks[k0].owner \in Thread \ {t} /\ Killed(locks[k0].owner),
         NEW w, w \in LockWord, w.owner = t, w.n = n + 1, w.inc = gen,
         locks' = [base EXCEPT ![k0] = w]
  PROVE  Inv'
<1>1. /\ n \in Nat /\ DOMAIN W(t) = 1..n /\ DOMAIN W(t)' = 1..(n + 1) /\ W(t)' # <<>>
      /\ \A j \in 1..n : LockAt(t, j)' = LockAt(t, j) /\ W(t)'[j].addr = W(t)[j].addr
                         /\ LockAt(t, j) \in Lock
                         /\ W(t)'[j].next = IF j = 0 THEN n + 1 ELSE W(t)[j].next
      /\ LockAt(t, n + 1)' = k0 /\ W(t)'[n + 1].next = 0
      /\ W(t)'[n + 1].addr = tx[t].arg.addr
      /\ FirstDropsOf(t)' /\ LinksForwardOf(t)'
  <2>1. AppendShape(t, n, 0)
    BY AppendedIs
  <2> QED
    BY <2>1 DEF AppendShape
<1>2. \A j \in 1..n : W(t)'[j].next = W(t)[j].next
  BY <1>1
<1>3. /\ Held(t)' = DOMAIN W(t)' /\ Held(t) = DOMAIN W(t) /\ (Killed(t)' <=> Killed(t))
      /\ tx'[t].pc = "app" /\ WriteThrough' = WriteThrough
  BY FinishedLocal DEF WriteThrough
<1>4. /\ OwnerHoldsOf(t) /\ HolderOwnsOf(t) /\ LinksForwardOf(t) /\ LinkingOf(t) /\ k0 \in Lock
      /\ NoOwner \notin Thread /\ locks \in [Lock -> LockWord]
  BY ArgLockIs, EtlAssumption
     DEF Inv, TypeOK, LockInv, OwnerHolds, HolderOwns, LinksForward, Linking
<1>5. locks[k0].owner # t
  BY <1>4
<1>6. /\ locks' \in [Lock -> LockWord] /\ locks'[k0] = w
      /\ \A k \in Lock : k # k0 => locks'[k] = base[k]
  BY <1>4 DEF Rebased
<1>7. \A k \in Lock :
        /\ base[k].write => base[k].owner # NoOwner
        /\ locks[k].owner # t => base[k] = locks[k]
        /\ locks[k].owner = t =>
             base[k].owner = t /\ base[k].n = locks[k].n /\ base[k].inc = gen
  BY DEF Rebased
<1>8. \A k \in Lock \ {k0} : /\ locks'[k].owner = t <=> locks[k].owner = t
                             /\ locks[k].owner = t => locks'[k].n = locks[k].n
                                                      /\ locks'[k].inc = gen
  BY <1>6, <1>7
<1>9. OwnerHoldsOf(t)'
  <2> SUFFICES ASSUME NEW k \in Lock, locks'[k].owner = t, NEW m, m = locks'[k].n
               PROVE  /\ locks'[k].inc = gen /\ m \in 1..(n + 1) /\ LockAt(t, m)' = k
    BY <1>1, <1>3 DEF OwnerHoldsOf
  <2>1. CASE k = k0
    BY <1>1, <1>6, <2>1
  <2>2. CASE k # k0
    <3>1. locks[k].owner = t /\ m = locks[k].n /\ locks'[k].inc = gen
      BY <1>8, <2>2
    <3>2. m \in 1..n /\ LockAt(t, m) = k
      BY <1>1, <1>4, <3>1 DEF OwnerHoldsOf
    <3> QED
      BY <1>1, <3>1, <3>2
  <2> QED
    BY <2>1, <2>2
<1>10. HolderOwnsOf(t)'
  <2>1. ASSUME ~Killed(t), NEW j \in 1..(n + 1) PROVE locks'[LockAt(t, j)'].owner = t
    <3>1. CASE j = n + 1
      BY <1>1, <1>6, <3>1
    <3>2. CASE j \in 1..n
      <4>1. locks[LockAt(t, j)].owner = t /\ LockAt(t, j) \in Lock /\ LockAt(t, j)' = LockAt(t, j)
        BY <1>1, <1>3, <1>4, <2>1, <3>2 DEF HolderOwnsOf
      <4>2. LockAt(t, j) # k0
        BY <1>5, <4>1
      <4> QED
        BY <1>8, <4>1, <4>2
    <3> QED
      BY <1>1, <3>1, <3>2
  <2> QED
    BY <1>1, <1>3, <2>1 DEF HolderOwnsOf, At
<1>11. ASSUME ~Killed(t) PROVE LinkingOf(t)'
  <2>1. \A j \in 1..n : LockAt(t, j) # k0
    BY <1>1, <1>3, <1>4, <1>5, <1>11 DEF HolderOwnsOf
  <2>2. \A j \in 1..n : W(t)[j].next # 0 => W(t)[j].next \in 1..n
    BY <1>1, <1>4 DEF LinksForwardOf
  <2>3. \A j \in 1..n :
          /\ W(t)[j].next # 0 => LockAt(t, W(t)[j].next) = LockAt(t, j)
          /\ \A h \in 1..n : h > j /\ LockAt(t, h) = LockAt(t, j) =>
               W(t)[j].next # 0 /\ W(t)[j].next <= h
    BY <1>1, <1>4, <1>11 DEF LinkingOf
  <2>4. \A j \in 1..(n + 1) : j \in 1..n \/ j = n + 1
    BY <1>1
  <2>5. ASSUME NEW j \in 1..(n + 1), NEW x, x = W(t)'[j].next
        PROVE  /\ x # 0 => LockAt(t, x)' = LockAt(t, j)'
               /\ \A h \in 1..(n + 1) : h > j /\ LockAt(t, h)' = LockAt(t, j)' => x # 0 /\ x <= h
    <3>1. CASE j = n + 1
      BY <1>1, <2>5, <3>1
    <3>2. CASE j \in 1..n
      <4>1. x = W(t)[j].next
        BY <1>2, <2>5, <3>2
      <4>2. x # 0 => LockAt(t, x)' = LockAt(t, j)'
        BY <1>1, <2>2, <2>3, <3>2, <4>1
      <4>3. ASSUME NEW h \in 1..(n + 1), h > j, LockAt(t, h)' = LockAt(t, j)'
            PROVE  x # 0 /\ x <= h
        <5>1. h \in 1..n
          BY <1>1, <2>1, <2>4, <3>2, <4>3
        <5> QED
          BY <1>1, <2>3, <3>2, <4>1, <4>3, <5>1
      <4> QED
        BY <4>2, <4>3
    <3> QED
      BY <2>4, <3>1, <3>2
  <2>6. \A j \in 1..(n + 1) : W(t)'[j].next # 0 => LockAt(t, W(t)[j].next)' = LockAt(t, j)'
    <3> SUFFICES ASSUME NEW j \in 1..(n + 1), W(t)'[j].next # 0
                 PROVE  LockAt(t, W(t)[j].next)' = LockAt(t, j)'
      OBVIOUS
    <3>1. PICK x : x = W(t)'[j].next
      OBVIOUS
    <3>2. LockAt(t, x)' = LockAt(t, j)'
      BY <2>5, <3>1
    <3> QED
      BY <3>1, <3>2
  <2>7. \A j \in 1..(n + 1) : \A h \in 1..(n + 1) : h > j /\ LockAt(t, h)' = LockAt(t, j)' =>
               W(t)'[j].next # 0 /\ W(t)'[j].next <= h
    BY <2>5
  <2>8. \A j, h \in 1..(n + 1) : W(t)'[j].addr = W(t)'[h].addr => j = h
    <3>1. \A j \in 1..n : W(t)[j].addr # tx[t].arg.addr
      <4> SUFFICES ASSUME NEW j \in 1..n, W(t)[j].addr = tx[t].arg.addr PROVE FALSE
        OBVIOUS
      <4>1. LockAt(t, j) = k0
        BY DEF LockAt, ArgLock, W
      <4> QED
        BY <2>1, <4>1
    <3>2. \A j, h \in 1..n : W(t)[j].addr = W(t)[h].addr => j = h
      BY <1>1, <1>4, <1>11 DEF LinkingOf
    <3> QED
      BY <1>1, <2>4, <3>1, <3>2
  <2>9. \A k \in Lock, j \in 1..(n + 1) :
          locks'[k].owner = t /\ LockAt(t, j)' = k => locks'[k].n <= j
    <3> SUFFICES ASSUME NEW k \in Lock, NEW j \in 1..(n + 1), locks'[k].owner = t,
                        LockAt(t, j)' = k
                 PROVE  locks'[k].n <= j
      OBVIOUS
    <3>1. CASE j \in 1..n
      <4>1. LockAt(t, j) = k /\ k # k0
        BY <1>1, <2>1, <3>1
      <4>2. locks[k].owner = t /\ locks'[k].n = locks[k].n
        BY <1>8, <4>1
      <4> QED
        BY <1>1, <1>4, <1>11, <3>1, <4>1, <4>2 DEF LinkingOf
    <3>2. CASE j = n + 1
      BY <1>1, <1>6, <3>2
    <3> QED
      BY <2>4, <3>1, <3>2
  <2> QED
    BY <1>1, <2>6, <2>7, <2>8, <2>9 DEF LinkingOf
<1>12. LogOf(t)'
  BY <1>1, <1>3, <1>9, <1>10, <1>11 DEF LogOf, LinkingOf
<1>13. WriteLocked'
  <2>1. \A k \in Lock : locks'[k].write => locks'[k].owner # NoOwner
    BY <1>4, <1>6, <1>7
  <2> QED
    BY <2>1 DEF WriteLocked, LOCK_GET_OWNED
<1>14. \A k \in Lock : locks'[k].owner \in Thread \ {t} => locks'[k] = locks[k]
  BY <1>6, <1>7
<1>15. \A k \in Lock : locks[k].owner \in Thread \ {t} /\ ~Killed(locks[k].owner) =>
                         locks'[k] = locks[k]
  BY <1>4, <1>6, <1>7
<1>16. tx'[t].gen = tx[t].gen \/ tx'[t].gen = Fresh(RememberedGens(t))
  BY DEF Rebased
<1> QED
  BY <1>1, <1>6, <1>12, <1>13, <1>14, <1>15, <1>16, GrowMove

LEMMA MergeIs ==
  ASSUME NEW v \in Word, NEW w \in Word, NEW m
  PROVE  Merge(v, w, m) \in Word /\ Merge(v, w, {}) = v
BY DEF Merge, Word

LEMMA AppendFacts ==
  ASSUME NEW S, NEW s \in Seq(S), NEW e \in S
  PROVE  /\ Append(s, e) \in Seq(S) /\ Len(Append(s, e)) = Len(s) + 1
         /\ DOMAIN Append(s, e) = 1..(Len(s) + 1)
         /\ Append(s, e)[Len(s) + 1] = e /\ \A j \in 1..Len(s) : Append(s, e)[j] = s[j]
OBVIOUS

LEMMA SameSize ==
  ASSUME NEW p \in Nat, NEW q \in Nat, 1..p = 1..q
  PROVE  p = q
<1>1. p > q => p \in 1..q
  OBVIOUS
<1>2. q > p => q \in 1..p
  OBVIOUS
<1> QED
  BY <1>1, <1>2

\* An entry with another value.
LEMMA RevaluedIs ==
  ASSUME NEW e \in LogEntry, NEW x \in Word
  PROVE  /\ [e EXCEPT !.value = x] \in LogEntry
         /\ [e EXCEPT !.value = x].addr = e.addr /\ [e EXCEPT !.value = x].next = e.next
         /\ [e EXCEPT !.value = x].no_drop = e.no_drop
BY DEF LogEntry

\* The new entry of a call.
NewEntry(t, e) == e \in LogEntry /\ e.addr = tx[t].arg.addr /\ e.next = 0 /\ ~e.no_drop

LEMMA EntryIs ==
  ASSUME Inv, NEW t \in Thread, NEW v \in Nat
  PROVE  NewEntry(t, Entry(t, v, 0))
<1>1. tx[t].arg \in Argument
  BY DEF Inv, TypeOK, TxTypes
<1>2. tx[t].arg.addr \in Addr /\ tx[t].arg.mask \in SUBSET Byte /\ tx[t].arg.value \in Word
  BY <1>1 DEF Argument
<1> QED
  BY <1>2 DEF NewEntry, Entry, LogEntry

LEMMA FilledIs ==
  ASSUME Inv, NEW t \in Thread, NEW v \in Nat
  PROVE  NewEntry(t, Filled(Entry(t, v, 0)))
<1> DEFINE e == Entry(t, v, 0)
           x == IF e.mask = {} THEN ZeroWord ELSE Merge(mem[e.addr], e.value, e.mask)
<1>1. NewEntry(t, e)
  BY EntryIs
<1>2. e.addr \in Addr /\ e.value \in Word /\ mem \in [Addr -> Word]
  BY <1>1 DEF NewEntry, LogEntry, Inv, TypeOK
<1>3. x \in Word
  BY <1>2, MergeIs, Constants
<1>4. Filled(e) = [e EXCEPT !.value = x]
  BY DEF Filled
<1> HIDE DEF e, x
<1>5. NewEntry(t, Filled(e))
  BY <1>1, <1>3, <1>4, RevaluedIs DEF NewEntry
<1> QED
  BY <1>5 DEF e

LEMMA AppendIs ==
  ASSUME Inv, NEW t \in Thread, NEW e, NewEntry(t, e), tx'[t].w_set = Append(W(t), e)
  PROVE  Appended(t, 0) /\ tx'[t].w_set \in Seq(LogEntry) /\ Len(tx'[t].w_set) = Len(W(t)) + 1
<1>1. W(t) \in Seq(LogEntry) /\ Len(W(t)) \in Nat /\ DOMAIN W(t) = 1..Len(W(t)) /\ e \in LogEntry
  BY LogSize DEF NewEntry
<1> DEFINE ws == W(t)
           vs == Append(ws, e)
<1>2. /\ vs \in Seq(LogEntry) /\ Len(vs) = Len(ws) + 1 /\ DOMAIN vs = 1..(Len(ws) + 1)
      /\ vs[Len(ws) + 1] = e /\ \A j \in 1..Len(ws) : vs[j] = ws[j]
  <2> HIDE DEF ws
  <2> QED
    BY <1>1, AppendFacts DEF ws
<1>3. W(t)' = vs
  BY DEF W
<1> HIDE DEF vs
<1>4. Appended(t, 0)
  BY <1>1, <1>2, <1>3 DEF Appended, NewEntry
<1> QED
  BY <1>2, <1>3, <1>4 DEF W

LEMMA LinkedIs ==
  ASSUME Inv, NEW t \in Thread, NEW e, NewEntry(t, e), NEW prev \in DOMAIN W(t),
         tx'[t].w_set = Linked(W(t), prev, e)
  PROVE  Appended(t, prev) /\ tx'[t].w_set \in Seq(LogEntry)
         /\ Len(tx'[t].w_set) = Len(W(t)) + 1
<1>1. W(t) \in Seq(LogEntry) /\ Len(W(t)) \in Nat /\ DOMAIN W(t) = 1..Len(W(t)) /\ e \in LogEntry
  BY LogSize DEF NewEntry
<1> DEFINE ws == W(t)
           n == Len(ws)
           us == [j \in DOMAIN ws |-> IF j = prev THEN [ws[j] EXCEPT !.next = n + 1] ELSE ws[j]]
           vs == Append(us, e)
<1>2. \A j \in 1..n : /\ ws[j] \in LogEntry /\ us[j] \in LogEntry
                      /\ us[j].addr = ws[j].addr /\ us[j].no_drop = ws[j].no_drop
                      /\ us[j].next = IF j = prev THEN n + 1 ELSE ws[j].next
  <2> SUFFICES ASSUME NEW j \in 1..n
               PROVE  /\ ws[j] \in LogEntry /\ us[j] \in LogEntry
                      /\ us[j].addr = ws[j].addr /\ us[j].no_drop = ws[j].no_drop
                      /\ us[j].next = IF j = prev THEN n + 1 ELSE ws[j].next
    OBVIOUS
  <2>1. ws[j] \in LogEntry /\ n + 1 \in Nat
    BY <1>1
  <2>2. us[j] = IF j = prev THEN [ws[j] EXCEPT !.next = n + 1] ELSE ws[j]
    BY <1>1
  <2> HIDE DEF us, ws, n
  <2>3. CASE j = prev
    BY <2>1, <2>2, <2>3 DEF LogEntry
  <2> QED
    BY <2>1, <2>2, <2>3
<1>3. us \in Seq(LogEntry) /\ Len(us) = n /\ DOMAIN us = 1..n
  <2>1. us \in [1..n -> LogEntry]
    BY <1>1, <1>2
  <2> HIDE DEF us
  <2>2. us \in Seq(LogEntry)
    BY <1>1, <2>1
  <2>3. Len(us) \in Nat /\ DOMAIN us = 1..Len(us) /\ DOMAIN us = 1..n /\ n \in Nat
    BY <1>1, <2>1, <2>2
  <2> HIDE DEF ws, n
  <2>4. Len(us) = n
    BY <2>3, SameSize
  <2> QED
    BY <2>2, <2>3, <2>4
<1>4. /\ vs \in Seq(LogEntry) /\ Len(vs) = n + 1 /\ DOMAIN vs = 1..(n + 1)
      /\ vs[n + 1] = e /\ \A j \in 1..n : vs[j] = us[j]
  <2> HIDE DEF us, n
  <2>1. Len(us) = n /\ n \in Nat
    BY <1>1, <1>3 DEF n
  <2> QED
    BY <1>1, <1>3, <2>1, AppendFacts
<1>5. W(t)' = vs
  BY DEF W, Linked
<1> HIDE DEF vs, us
<1>6. Appended(t, prev)
  BY <1>1, <1>2, <1>4, <1>5 DEF Appended, NewEntry
<1> QED
  BY <1>4, <1>5, <1>6 DEF W

\* A lock word the call may take over.
Takeable(t, k) ==
  \/ locks[k].owner = NoOwner
  \/ locks[k].owner \in Thread \ {t} /\ Killed(locks[k].owner)

LEMMA AcquireFromMove ==
  ASSUME Inv, GrowthSafe, NEW t \in Thread, build' = build, ~WriteThrough, InCall(t),
         UNCHANGED <<clock, mem, hist>>, Takeable(t, ArgLock(t)), NEW w, NEW v \in Nat,
         AcquireFrom(t, w, v)
  PROVE  Inv'
<1>1. TxTypes(tx[t]) /\ TypeOK /\ Len(W(t)) \in Nat
  BY LogSize DEF Inv, TypeOK
<1>2. PICK gen, base :
        /\ gen = IF Full(t) THEN Fresh(RememberedGens(t)) ELSE tx[t].gen
        /\ base = IF Full(t) THEN Repointed(t, gen) ELSE locks
  OBVIOUS
<1>3. Rebased(t, gen, base)
  BY <1>2, RebasedIs
<1>4. PICK e, n, k0, x : e = Filled(Entry(t, v, 0)) /\ n = Len(W(t)) /\ k0 = ArgLock(t)
        /\ x = [owner |-> t, n |-> n + 1, inc |-> gen, write |-> TRUE]
  OBVIOUS
<1> DEFINE ws == Append(W(t), e)
           size == IF Full(t) THEN 2 * tx[t].size ELSE tx[t].size
           writes == IF Modular THEN tx[t].has_writes + 1 ELSE tx[t].has_writes
           d == [tx[t] EXCEPT !.w_set = ws, !.gen = gen, !.size = size, !.has_writes = writes]
<1>5. locks' = [base EXCEPT ![k0] = x] /\ Become(t, Stored(d), "app")
  BY <1>2, <1>4, Zenon DEF AcquireFrom, W
<1>6. /\ Shape(d) /\ d.status = tx[t].status /\ d.counter = tx[t].counter
      /\ d.calls = tx[t].calls /\ d.w_set = ws /\ d.gen = gen /\ d.size = size
  <2> HIDE DEF ws, size, writes
  <2>1. Shape(d)
    BY <1>1 DEF TxTypes, Shape
  <2> QED
    BY <1>1, <2>1 DEF TxTypes, Shape, Fields
<1>7. size \in Nat /\ size >= tx[t].size
  BY <1>1 DEF TxTypes
<1> HIDE DEF d, ws, size, writes
<1>8. Kept(Stored(d), d) /\ Clean(Stored(d)) /\ Shape(Stored(d))
  BY <1>6, StoredIs DEF Kept
<1>9. Moves(t) /\ tx'[t].pc = "app" /\ Kept(tx'[t], Stored(d)) /\ SameLocals(tx'[t], Stored(d))
  BY <1>1, <1>5, <1>8, BecomeIs DEF TypeOK
<1>10. /\ Kept(tx'[t], d) /\ Clean(tx'[t])
  BY <1>8, <1>9 DEF Kept, SameLocals, Clean
<1>11. tx'[t].w_set = Append(W(t), e) /\ tx'[t].gen = gen /\ tx'[t].size = size
  BY <1>6, <1>10 DEF Kept, ws
<1>12. NewEntry(t, e)
  BY <1>4, FilledIs
<1>13. Appended(t, 0) /\ tx'[t].w_set \in Seq(LogEntry) /\ Len(tx'[t].w_set) = n + 1
  BY <1>4, <1>11, <1>12, AppendIs
<1>14. Finished(t)
  <2>1. Len(tx'[t].w_set) <= Len(W(t)) + 1
    BY <1>1, <1>4, <1>13
  <2> QED
    BY <1>3, <1>6, <1>7, <1>9, <1>10, <1>11, <1>13, <2>1 DEF Finished, Kept, Rebased
<1>15. x \in LockWord /\ x.owner = t /\ x.n = n + 1 /\ x.inc = gen
  <2>1. n + 1 \in Nat /\ gen \in Nat
    BY <1>1, <1>3, <1>4 DEF Rebased
  <2> QED
    BY <1>4, <2>1, OwnedWord
<1>16. \/ locks[k0].owner = NoOwner
       \/ locks[k0].owner \in Thread \ {t} /\ Killed(locks[k0].owner)
  BY <1>4 DEF Takeable
<1> QED
  BY <1>3, <1>4, <1>5, <1>11, <1>13, <1>14, <1>15, <1>16, AcquireMove

LEMMA AcquireReadMove ==
  ASSUME Inv, GrowthSafe, NEW t \in Thread, build' = build, ~WriteThrough, InCall(t),
         UNCHANGED <<clock, mem, hist>>, Takeable(t, ArgLock(t)), NEW w, NEW v \in Nat,
         AcquireRead(t, w, v)
  PROVE  Inv'
<1>1. TxTypes(tx[t]) /\ TypeOK /\ Len(W(t)) \in Nat
  BY LogSize DEF Inv, TypeOK
<1>2. PICK gen, base :
        /\ gen = IF Full(t) THEN Fresh(RememberedGens(t)) ELSE tx[t].gen
        /\ base = IF Full(t) THEN Repointed(t, gen) ELSE locks
  OBVIOUS
<1>3. Rebased(t, gen, base)
  BY <1>2, RebasedIs
<1>4. PICK e, n, k0, x :
        /\ e = [Entry(t, v, 0) EXCEPT !.value = mem[tx[t].arg.addr], !.mask = {}]
        /\ n = Len(W(t)) /\ k0 = ArgLock(t)
        /\ x = [owner |-> t, n |-> n + 1, inc |-> gen, write |-> FALSE]
  OBVIOUS
<1> DEFINE ws == Append(W(t), e)
           size == IF Full(t) THEN 2 * tx[t].size ELSE tx[t].size
           d == [tx[t] EXCEPT !.w_set = ws, !.gen = gen, !.size = size]
           r == Returned(d, mem[tx[t].arg.addr], TRUE)
<1>5. locks' = [base EXCEPT ![k0] = x] /\ Become(t, r, "app")
  BY <1>2, <1>4, Zenon DEF AcquireRead, W
<1>6. /\ Shape(d) /\ d.status = tx[t].status /\ d.counter = tx[t].counter
      /\ d.calls = tx[t].calls /\ d.w_set = ws /\ d.gen = gen /\ d.size = size
  <2> HIDE DEF ws, size
  <2>1. Shape(d)
    BY <1>1 DEF TxTypes, Shape
  <2> QED
    BY <1>1, <2>1 DEF TxTypes, Shape, Fields
<1>7. size \in Nat /\ size >= tx[t].size
  BY <1>1 DEF TxTypes
<1> HIDE DEF d, ws, size
<1>8. Kept(r, d) /\ Clean(r) /\ Shape(r)
  <2>1. Kept(r, d) /\ Clean(r)
    BY <1>6, ReturnedIs
  <2> QED
    BY <2>1 DEF Kept
<1> HIDE DEF r
<1>9. Moves(t) /\ tx'[t].pc = "app" /\ Kept(tx'[t], r) /\ SameLocals(tx'[t], r)
  BY <1>1, <1>5, <1>8, BecomeIs DEF TypeOK
<1>10. /\ Kept(tx'[t], d) /\ Clean(tx'[t])
  BY <1>8, <1>9 DEF Kept, SameLocals, Clean
<1>11. tx'[t].w_set = Append(W(t), e) /\ tx'[t].gen = gen /\ tx'[t].size = size
  BY <1>6, <1>10 DEF Kept, ws
<1>12. NewEntry(t, e)
  <2> DEFINE f == Entry(t, v, 0)
  <2>1. NewEntry(t, f)
    BY EntryIs
  <2>2. mem[tx[t].arg.addr] \in Word
    BY <1>1 DEF TypeOK, TxTypes, Argument
  <2>3. e = [f EXCEPT !.value = mem[tx[t].arg.addr], !.mask = {}]
    BY <1>4
  <2> HIDE DEF f
  <2> QED
    BY <2>1, <2>2, <2>3 DEF NewEntry, LogEntry
<1>13. Appended(t, 0) /\ tx'[t].w_set \in Seq(LogEntry) /\ Len(tx'[t].w_set) = n + 1
  BY <1>4, <1>11, <1>12, AppendIs
<1>14. Finished(t)
  <2>1. Len(tx'[t].w_set) <= Len(W(t)) + 1
    BY <1>1, <1>4, <1>13
  <2> QED
    BY <1>3, <1>6, <1>7, <1>9, <1>10, <1>11, <1>13, <2>1 DEF Finished, Kept, Rebased
<1>15. x \in LockWord /\ x.owner = t /\ x.n = n + 1 /\ x.inc = gen
  <2>1. n + 1 \in Nat /\ gen \in Nat
    BY <1>1, <1>3, <1>4 DEF Rebased
  <2> QED
    BY <1>4, <2>1, OwnedWord
<1>16. \/ locks[k0].owner = NoOwner
       \/ locks[k0].owner \in Thread \ {t} /\ Killed(locks[k0].owner)
  BY <1>4 DEF Takeable
<1> QED
  BY <1>3, <1>4, <1>5, <1>11, <1>13, <1>14, <1>15, <1>16, AcquireMove

\* The address has an entry already: the store goes to it.
LEMMA UpdateMove ==
  ASSUME Inv, NEW t \in Thread, build' = build, ~WriteThrough, InCall(t),
         UNCHANGED <<clock, locks, mem, hist>>, NEW k \in DOMAIN W(t), UpdateEntry(t, k)
  PROVE  Inv'
<1>1. /\ TxTypes(tx[t]) /\ TypeOK /\ Len(W(t)) \in Nat /\ DOMAIN W(t) = 1..Len(W(t))
      /\ W(t) \in Seq(LogEntry)
  BY LogSize DEF Inv, TypeOK
<1>2. PICK x, m : /\ x = Merge(IF W(t)[k].mask = {} THEN mem[W(t)[k].addr] ELSE W(t)[k].value,
                               tx[t].arg.value, tx[t].arg.mask)
                  /\ m = W(t)[k].mask \cup tx[t].arg.mask
  OBVIOUS
<1> DEFINE d == [tx[t] EXCEPT !.w_set[k].value = x, !.w_set[k].mask = @ \cup tx[t].arg.mask]
           e == [W(t)[k] EXCEPT !.value = x, !.mask = m]
           ws == [W(t) EXCEPT ![k] = e]
<1>3. Become(t, Stored(d), "app")
  BY <1>2, Zenon DEF UpdateEntry, W
<1>4. /\ Shape(d) /\ d.status = tx[t].status /\ d.counter = tx[t].counter /\ d.size = tx[t].size
      /\ d.calls = tx[t].calls /\ d.gen = tx[t].gen /\ d.w_set = ws
  <2> DEFINE d1 == [tx[t] EXCEPT !.w_set[k].value = x]
             e1 == [W(t)[k] EXCEPT !.value = x]
             ws1 == [W(t) EXCEPT ![k] = e1]
  <2>1. /\ Shape(d1) /\ d1.w_set = ws1 /\ d1.status = tx[t].status
        /\ d1.counter = tx[t].counter /\ d1.size = tx[t].size
        /\ d1.calls = tx[t].calls /\ d1.gen = tx[t].gen
    <3>1. d1 = [tx[t] EXCEPT !.w_set = ws1]
      BY DEF W
    <3> HIDE DEF d1, ws1
    <3>2. Shape(d1)
      BY <1>1, <3>1 DEF TxTypes, Shape
    <3> QED
      BY <1>1, <3>1, <3>2 DEF TxTypes, Shape, Fields
  <2>2. d = [d1 EXCEPT !.w_set[k].mask = @ \cup tx[t].arg.mask]
    OBVIOUS
  <2> HIDE DEF d1, d
  <2>3. /\ Shape(d) /\ d.status = tx[t].status /\ d.counter = tx[t].counter /\ d.size = tx[t].size
        /\ d.calls = tx[t].calls /\ d.gen = tx[t].gen
        /\ d.w_set = [ws1 EXCEPT ![k] = [ws1[k] EXCEPT !.mask = ws1[k].mask \cup tx[t].arg.mask]]
    <3> DEFINE y == [ws1 EXCEPT ![k] = [ws1[k] EXCEPT !.mask = ws1[k].mask \cup tx[t].arg.mask]]
    <3>1. d = [d1 EXCEPT !.w_set = y]
      BY <2>1, <2>2
    <3> HIDE DEF y, ws1
    <3>2. Shape(d)
      BY <2>1, <3>1 DEF Shape
    <3>3. /\ d.status = tx[t].status /\ d.counter = tx[t].counter /\ d.size = tx[t].size
          /\ d.calls = tx[t].calls /\ d.gen = tx[t].gen /\ d.w_set = y
      BY <2>1, <3>1, <3>2 DEF Shape, Fields
    <3> QED
      BY <3>2, <3>3 DEF y
  <2>4. ws1[k] = e1
    BY <1>1
  <2>5. e1.mask = W(t)[k].mask /\ [e1 EXCEPT !.mask = m] = e
    BY <1>1 DEF LogEntry
  <2> HIDE DEF e1
  <2>6. [ws1 EXCEPT ![k] = e] = ws
    BY <1>1
  <2> HIDE DEF ws1, e, ws
  <2> QED
    BY <1>2, <2>3, <2>4, <2>5, <2>6
<1> HIDE DEF d
<1>5. e \in LogEntry /\ e.addr = W(t)[k].addr /\ e.next = W(t)[k].next
      /\ e.no_drop = W(t)[k].no_drop
  <2>1. W(t)[k] \in LogEntry
    BY <1>1
  <2>2. tx[t].arg \in Argument /\ mem \in [Addr -> Word]
    BY <1>1 DEF TypeOK, TxTypes
  <2>3. x \in Word /\ m \in SUBSET Byte
    <3>1. W(t)[k].addr \in Addr /\ W(t)[k].value \in Word /\ W(t)[k].mask \in SUBSET Byte
      BY <2>1 DEF LogEntry
    <3>2. tx[t].arg.value \in Word /\ tx[t].arg.mask \in SUBSET Byte
      BY <2>2 DEF Argument
    <3> QED
      BY <1>2, <2>2, <3>1, <3>2, MergeIs
  <2> QED
    BY <2>1, <2>3 DEF LogEntry
<1> HIDE DEF e
<1>6. ws \in Seq(LogEntry) /\ Len(ws) = Len(W(t)) /\ DOMAIN ws = DOMAIN W(t) /\ ws # <<>>
      /\ W(t) # <<>>
      /\ \A j \in DOMAIN W(t) : ws[j].addr = W(t)[j].addr /\ ws[j].next = W(t)[j].next
                                /\ ws[j].no_drop = W(t)[j].no_drop
  BY <1>1, <1>5
<1> HIDE DEF ws
<1>7. Kept(Stored(d), d) /\ Clean(Stored(d)) /\ Shape(Stored(d))
  BY <1>4, StoredIs DEF Kept
<1>8. Moves(t) /\ tx'[t].pc = "app" /\ Kept(tx'[t], Stored(d)) /\ SameLocals(tx'[t], Stored(d))
  BY <1>1, <1>3, <1>7, BecomeIs DEF TypeOK
<1>9. Kept(tx'[t], d) /\ Clean(tx'[t])
  BY <1>7, <1>8 DEF Kept, SameLocals, Clean
<1>10. tx'[t].w_set = ws /\ W(t)' = ws /\ tx'[t].gen = tx[t].gen
  BY <1>4, <1>9 DEF Kept, W
<1>11. Finished(t)
  <2>1. Len(tx'[t].w_set) <= Len(W(t)) + 1
    BY <1>1, <1>6, <1>10
  <2>2. tx[t].size \in Nat /\ tx[t].size >= tx[t].size /\ tx[t].gen \in Nat
    BY <1>1 DEF TxTypes
  <2> QED
    BY <1>4, <1>6, <1>8, <1>9, <1>10, <2>1, <2>2 DEF Finished, Kept
<1>12. SameLinks(t)
  BY <1>6, <1>10 DEF SameLinks
<1>13. TypeOK' /\ LocalInv' /\ LockInv'
  <2>1. /\ TxTypes(tx'[t]) /\ LocalOK(t)' /\ Held(t)' = Held(t) /\ (Killed(t)' <=> Killed(t))
        /\ StatusKept(t) /\ tx'[t].pc \notin {"do_write", "kill", "steal"}
    BY <1>6, <1>10, <1>11, FinishedLocal
  <2>2. tx[t].pc # "do_write"
    <3>1. LocalOK(t)
      BY DEF Inv, LocalInv
    <3> QED
      BY <3>1 DEF LocalOK, LabelsOfBuild
  <2>3. clock' \in Nat /\ mem' \in [Addr -> Word]
        /\ hist' \in SUBSET [ts: Nat, addr: Addr, value: Word]
    BY <1>1 DEF TypeOK
  <2> QED
    BY <1>8, <1>10, <1>12, <2>1, <2>2, <2>3, StandMove
<1>14. MemoryInv' /\ HistoryInv'
  BY <1>8, MemoryOfCall
<1> QED
  BY <1>13, <1>14 DEF Inv

\* Another address of a lock we own gets an entry at the end of its list.
LEMMA AppendEntryMove ==
  ASSUME Inv, GrowthSafe, NEW t \in Thread, build' = build, ~WriteThrough, InCall(t),
         UNCHANGED <<clock, mem, hist>>, locks[ArgLock(t)].owner = t,
         NEW prev, prev \in Chain(W(t), locks[ArgLock(t)].n), W(t)[prev].next = 0,
         \A j \in Chain(W(t), locks[ArgLock(t)].n) : W(t)[j].addr # tx[t].arg.addr,
         AppendEntry(t, prev)
  PROVE  Inv'
<1>1. /\ TxTypes(tx[t]) /\ TypeOK /\ Len(W(t)) \in Nat /\ DOMAIN W(t) = 1..Len(W(t))
      /\ W(t) \in Seq(LogEntry)
  BY LogSize DEF Inv, TypeOK
<1>2. PICK k0, n : k0 = ArgLock(t) /\ n = Len(W(t))
  OBVIOUS
<1>3. k0 \in Lock /\ locks[k0].owner = t
  BY <1>2, ArgLockIs
<1>4. /\ Chain(W(t), locks[k0].n) \subseteq DOMAIN W(t)
      /\ ~Killed(t) => Chain(W(t), locks[k0].n) = {j \in DOMAIN W(t) : LockAt(t, j) = k0}
  BY <1>3, OwnChain
<1>5. ~Full(t)
  <2> SUFFICES ASSUME Full(t) PROVE FALSE
    OBVIOUS
  <2>1. ~Killed(t) /\ \A a, b \in Addr : LockOf[a] = LockOf[b] => a = b
    BY FullIs
  <2> DEFINE j == locks[k0].n
  <2>2. j \in DOMAIN W(t) /\ LockAt(t, j) = k0
    BY <1>3 DEF Inv, LockInv, OwnerHolds, OwnerHoldsOf
  <2>3. W(t)[j].addr \in Addr /\ tx[t].arg.addr \in Addr
    BY <1>1, <2>2, LockAtIs DEF TxTypes, Argument
  <2>4. LockOf[W(t)[j].addr] = LockOf[tx[t].arg.addr]
    BY <1>2, <2>2 DEF LockAt, W, ArgLock
  <2>5. W(t)[j].addr = tx[t].arg.addr
    BY <2>1, <2>3, <2>4
  <2>6. j \in Chain(W(t), locks[k0].n)
    BY <1>4, <2>1, <2>2
  <2> QED
    BY <1>2, <2>5, <2>6
<1>6. prev \in DOMAIN W(t) /\ W(t)[prev].version \in Nat
  <2>1. prev \in DOMAIN W(t)
    BY <1>2, <1>4
  <2>2. W(t)[prev] \in LogEntry
    BY <1>1, <2>1
  <2> QED
    BY <2>1, <2>2 DEF LogEntry
<1>7. PICK e : e = Filled(Entry(t, W(t)[prev].version, 0))
  OBVIOUS
<1> DEFINE ws == Linked(W(t), prev, e)
           writes == IF Modular THEN tx[t].has_writes + 1 ELSE tx[t].has_writes
           d == [tx[t] EXCEPT !.w_set = ws, !.has_writes = writes]
<1>8. Become(t, Stored(d), "app") /\ locks' = locks
  BY <1>5, <1>7, Zenon DEF AppendEntry, W
<1>9. /\ Shape(d) /\ d.status = tx[t].status /\ d.counter = tx[t].counter
      /\ d.calls = tx[t].calls /\ d.w_set = ws /\ d.gen = tx[t].gen /\ d.size = tx[t].size
  <2> HIDE DEF ws, writes
  <2>1. Shape(d)
    BY <1>1 DEF TxTypes, Shape
  <2> QED
    BY <1>1, <2>1 DEF TxTypes, Shape, Fields
<1> HIDE DEF d, ws, writes
<1>10. Kept(Stored(d), d) /\ Clean(Stored(d)) /\ Shape(Stored(d))
  BY <1>9, StoredIs DEF Kept
<1>11. Moves(t) /\ tx'[t].pc = "app" /\ Kept(tx'[t], Stored(d)) /\ SameLocals(tx'[t], Stored(d))
  BY <1>1, <1>8, <1>10, BecomeIs DEF TypeOK
<1>12. Kept(tx'[t], d) /\ Clean(tx'[t])
  BY <1>10, <1>11 DEF Kept, SameLocals, Clean
<1>13. tx'[t].w_set = Linked(W(t), prev, e) /\ tx'[t].gen = tx[t].gen
  BY <1>9, <1>12 DEF Kept, ws
<1>14. NewEntry(t, e)
  BY <1>6, <1>7, FilledIs
<1>15. Appended(t, prev) /\ tx'[t].w_set \in Seq(LogEntry) /\ Len(tx'[t].w_set) = n + 1
  BY <1>2, <1>6, <1>13, <1>14, LinkedIs
<1>16. Finished(t)
  <2>1. Len(tx'[t].w_set) <= Len(W(t)) + 1
    BY <1>1, <1>2, <1>15
  <2>2. tx[t].size \in Nat /\ tx[t].size >= tx[t].size /\ tx[t].gen \in Nat
    BY <1>1 DEF TxTypes
  <2> QED
    BY <1>9, <1>11, <1>12, <1>13, <1>15, <2>1, <2>2 DEF Finished, Kept
<1>17. UNCHANGED <<clock, mem, hist, locks>>
  BY <1>8
<1>18. prev \in Chain(W(t), locks[k0].n)
       /\ \A j \in Chain(W(t), locks[k0].n) : W(t)[j].addr # tx[t].arg.addr
  BY <1>2
<1> QED
  BY <1>2, <1>3, <1>6, <1>13, <1>15, <1>16, <1>17, <1>18, AppendOwnMove

LEMMA WriteOursMove ==
  ASSUME Inv, GrowthSafe, NEW t \in Thread, build' = build, ~WriteThrough, At(t, "write"),
         UNCHANGED <<clock, mem, hist>>, locks[ArgLock(t)].owner = t,
         WriteOurs(t, locks[ArgLock(t)])
  PROVE  Inv'
<1> DEFINE chain == Chain(W(t), locks[ArgLock(t)].n)
           hit == {k \in chain : W(t)[k].addr = tx[t].arg.addr}
<1>1. InCall(t) /\ ~At(t, "do_write") /\ TxTypes(tx[t]) /\ ArgLock(t) \in Lock
  BY ArgLockIs DEF InCall, At, CallLabels
<1>2. chain \subseteq DOMAIN W(t) /\ \E j \in chain : W(t)[j].next = 0
  BY <1>1, OwnChain
<1>3. CASE tx[t].arg.mask = {}
  <2>1. Become(t, Settled(tx[t]), "app") /\ locks' = locks
    BY <1>3, Zenon DEF WriteOurs
  <2>2. Kept(Settled(tx[t]), tx[t]) /\ Clean(Settled(tx[t]))
    BY <1>1, SettledIs DEF TxTypes
  <2>3. Frame
    BY <2>1 DEF Frame
  <2> QED
    BY <1>1, <2>1, <2>2, <2>3, ReturnMove
<1>4. CASE tx[t].arg.mask # {} /\ hit # {}
  <2>1. UpdateEntry(t, CHOOSE k \in hit : TRUE) /\ locks' = locks
    BY <1>4, Zenon DEF WriteOurs, W
  <2>2. (CHOOSE k \in hit : TRUE) \in hit
    BY <1>4
  <2>3. hit \subseteq DOMAIN W(t)
    BY <1>2
  <2> HIDE DEF hit
  <2> QED
    BY <1>1, <2>1, <2>2, <2>3, UpdateMove
<1>5. CASE tx[t].arg.mask # {} /\ hit = {}
  <2>1. PICK prev : prev = CHOOSE k \in chain : W(t)[k].next = 0
    OBVIOUS
  <2>2. AppendEntry(t, prev)
    BY <1>5, <2>1, Zenon DEF WriteOurs, W
  <2>3. prev \in chain /\ W(t)[prev].next = 0
    BY <1>2, <2>1
  <2>4. \A j \in chain : W(t)[j].addr # tx[t].arg.addr
    BY <1>5
  <2> HIDE DEF hit
  <2> QED
    BY <1>1, <2>2, <2>3, <2>4, AppendEntryMove
<1> QED
  BY <1>3, <1>4, <1>5

\* WRITE_THROUGH: the lock is ours, and the store to memory follows.
LEMMA ToDoWrite ==
  ASSUME Inv, NEW t \in Thread, build' = build, WriteThrough, At(t, "write"),
         UNCHANGED <<clock, mem, hist>>, NEW k0, k0 = ArgLock(t), NEW w,
         locks[k0] = w, w.owner \in {t, NoOwner},
         Become(t, [tx[t] EXCEPT !.l = w], "do_write"),
         locks' \in [Lock -> LockWord], locks'[k0].owner = t,
         \A k \in Lock \ {k0} : locks'[k] = locks[k]
  PROVE  Inv'
<1> DEFINE d == [tx[t] EXCEPT !.l = w]
<1>1. /\ tx[t].pc = "write" /\ TypeOK /\ TxTypes(tx[t]) /\ LocalOK(t) /\ k0 \in Lock
      /\ w \in LockWord /\ NoOwner \notin Thread /\ ~Modular
  BY ArgLockIs, BuildIs, EtlAssumption DEF At, Inv, TypeOK, LocalInv
<1>2. Kept(d, tx[t]) /\ d.l = w /\ d.arg = tx[t].arg /\ d.op = tx[t].op /\ d.ts = tx[t].ts
  <2>1. Shape(d)
    BY <1>1 DEF TxTypes, Shape
  <2> QED
    BY <1>1, <2>1 DEF TxTypes, Shape, Fields, Kept
<1> HIDE DEF d
<1>3. Moves(t) /\ tx'[t].pc = "do_write" /\ Kept(tx'[t], d) /\ SameLocals(tx'[t], d)
  <2>1. Become(t, d, "do_write")
    BY DEF d
  <2> QED
    BY <1>2, <2>1, BecomeIs DEF Inv, TypeOK, Kept
<1>4. Kept(tx'[t], tx[t]) /\ tx'[t].l = w /\ tx'[t].arg = tx[t].arg /\ tx'[t].op = tx[t].op
      /\ tx'[t].ts = tx[t].ts
  BY <1>2, <1>3 DEF Kept, SameLocals
<1>5. TxTypes(tx'[t])
  BY <1>1, <1>3, <1>4 DEF TxTypes, Kept, Labels, CallLabels
<1>6. /\ W(t)' = W(t) /\ (Killed(t)' <=> Killed(t)) /\ tx'[t].gen = tx[t].gen
      /\ WriteThrough' = WriteThrough /\ Modular' = Modular /\ LockOf' = LockOf
  BY <1>4 DEF W, Kept, Killed, WriteThrough, Modular, LockOf
<1>7. LocalOK(t)'
  BY <1>1, <1>3, <1>4, <1>6
     DEF LocalOK, CallsBound, LabelsOfBuild, TicketPhase, Position, StatusPhase, Remembers,
       InCall, At, Kept, ReadLabels, ArbiterLabels, CallLabels, FreeLabels
<1>8. Held(t)' = DOMAIN W(t) /\ Held(t) = DOMAIN W(t)
  BY <1>1, <1>3, <1>6 DEF Held, Releasing, At
<1>9. \A j \in DOMAIN W(t) : LockAt(t, j)' = LockAt(t, j)
  BY <1>6 DEF LockAt, W
<1>10. ArgLock(t)' = k0 /\ ArgLock(t) = k0
  BY <1>4, <1>6 DEF ArgLock
<1>11. OwnerHoldsOf(t) /\ HolderOwnsOf(t) /\ FirstDropsOf(t) /\ WriteLocked /\ ~Killed(t)
  BY <1>1 DEF Inv, LockInv, OwnerHolds, HolderOwns, FirstDrops, LocalOK, LabelsOfBuild, Killed
<1>12. OwnerHoldsOf(t)'
  <2> SUFFICES ASSUME NEW k \in Lock, locks'[k].owner = t
               PROVE  (\E j \in DOMAIN W(t) : LockAt(t, j) = k) \/ k = k0
    BY <1>3, <1>6, <1>8, <1>9, <1>10 DEF OwnerHoldsOf, At
  <2>1. CASE k # k0
    <3>1. locks[k].owner = t
      BY <2>1
    <3> QED
      BY <1>1, <1>8, <1>11, <3>1 DEF OwnerHoldsOf, At
  <2> QED
    BY <2>1
<1>13. HolderOwnsOf(t)'
  <2>1. \A j \in DOMAIN W(t) : locks'[LockAt(t, j)].owner = t
    <3> SUFFICES ASSUME NEW j \in DOMAIN W(t) PROVE locks'[LockAt(t, j)].owner = t
      OBVIOUS
    <3>1. locks[LockAt(t, j)].owner = t /\ LockAt(t, j) \in Lock
      BY <1>1, <1>8, <1>11, LockAtIs DEF HolderOwnsOf
    <3> QED
      BY <3>1
  <2> QED
    BY <1>8, <1>9, <1>10, <2>1 DEF HolderOwnsOf
<1>14. FirstDropsOf(t)'
  <2>1. LOCK_GET_OWNED(w) <=> \E h \in DOMAIN W(t) : LockAt(t, h) = k0
    <3>1. CASE w.owner = t
      BY <1>1, <1>8, <1>11, <3>1 DEF OwnerHoldsOf, At, LOCK_GET_OWNED
    <3>2. CASE w.owner = NoOwner
      BY <1>1, <1>8, <1>11, <3>2 DEF HolderOwnsOf, LOCK_GET_OWNED
    <3> QED
      BY <3>1, <3>2
  <2>2. \A j \in DOMAIN W(t) :
          W(t)[j].no_drop <=> \E h \in DOMAIN W(t) : h < j /\ LockAt(t, h) = LockAt(t, j)
    BY <1>11 DEF FirstDropsOf
  <2> QED
    BY <1>4, <1>6, <1>9, <1>10, <2>1, <2>2 DEF FirstDropsOf, LOCK_GET_OWNED
<1>15. LogOf(t)'
  BY <1>6, <1>12, <1>13, <1>14 DEF LogOf, LinksForwardOf, LinkingOf
<1>16. LogTypes
  <2>1. WriteLocked'
    BY <1>1, <1>11 DEF WriteLocked, LOCK_GET_OWNED
  <2> QED
    BY <1>1, <2>1 DEF LogTypes, TypeOK
<1>17. \A v \in Thread : ~At(v, "steal") /\ ~At(v, "kill")
  BY <1>1 DEF Inv, LocalInv, LocalOK, LabelsOfBuild, ArbiterLabels, At
<1>18. TypeOK' /\ LocalInv' /\ LockInv'
  <2>1. \A k \in Lock : locks'[k].owner \in Thread \ {t} => locks'[k] = locks[k]
    BY <1>1
  <2>2. \A k \in Lock : locks[k].owner \in Thread \ {t} /\ ~Killed(locks[k].owner) =>
                          locks'[k] = locks[k]
    BY <1>1
  <2>3. tx'[t].pc \notin {"kill", "steal"}
    BY <1>3
  <2> QED
    BY <1>3, <1>5, <1>7, <1>15, <1>16, <1>17, <2>1, <2>2, <2>3, LockMove
<1>19. LogUnseen(t)
  BY <1>1, <1>3, <1>6 DEF LogUnseen, ToUndo, At
<1>20. MemoryInv' /\ HistoryInv'
  BY <1>1, <1>3, <1>19, OthersUnseen, MemoryKept DEF TypeOK
<1> QED
  BY <1>18, <1>20 DEF Inv

LEMMA WriteInv ==
  ASSUME Inv, GrowthSafe, NEW t \in Thread, build' = build, stm_write(t)
  PROVE  Inv'
<1>1. PICK k0, w : k0 = ArgLock(t) /\ w = locks[k0]
  OBVIOUS
<1>2. /\ At(t, "write") /\ UNCHANGED <<clock, mem, hist>> /\ InCall(t) /\ ~At(t, "do_write")
      /\ tx[t].pc \in QuietLabels \ {"rollback"}
  BY DEF stm_write, At, InCall, CallLabels, QuietLabels
<1>3. /\ k0 \in Lock /\ w \in LockWord /\ w.n \in Nat /\ TxTypes(tx[t]) /\ TypeOK
      /\ NoOwner \notin Thread /\ locks \in [Lock -> LockWord]
  BY <1>1, ArgLockIs, EtlAssumption DEF LockWord, Inv, TypeOK
<1>4. CASE LOCK_GET_OWNED(w) /\ Ours(t, w)
  <2>1. w.owner = t
    BY <1>4 DEF Ours
  <2>2. CASE WriteThrough
    <3>1. Become(t, [tx[t] EXCEPT !.l = w], "do_write") /\ locks' = locks
      BY <1>1, <1>4, <2>2, Zenon DEF stm_write
    <3> QED
      BY <1>1, <1>2, <1>3, <2>1, <2>2, <3>1, ToDoWrite
  <2>3. CASE ~WriteThrough /\ ~w.write
    <3> DEFINE d == [tx[t] EXCEPT !.l = w]
    <3>1. Become(t, d, "upgrade") /\ locks' = locks
      BY <1>1, <1>4, <2>3, Zenon DEF stm_write
    <3>2. Kept(d, tx[t]) /\ d.l = w /\ d.arg = tx[t].arg /\ d.op = tx[t].op /\ d.ts = tx[t].ts
      <4>1. Shape(d)
        BY <1>3 DEF TxTypes, Shape
      <4> QED
        BY <1>3, <4>1 DEF TxTypes, Shape, Fields, Kept
    <3> HIDE DEF d
    <3>3. Frame
      BY <1>2, <3>1 DEF Frame
    <3>4. LocalOK(t)
      BY DEF Inv, LocalInv
    <3>5. Modular \/ ~(d.op = "vread")
      BY <3>2, <3>4 DEF LocalOK, LabelsOfBuild
    <3>6. "upgrade" \in (CallLabels \ {"do_write"}) \cup {"validate"}
          /\ "upgrade" \notin ArbiterLabels \cup {"vread"} \cup ReadLabels \cup {"validate"}
      BY DEF CallLabels, ArbiterLabels, ReadLabels
    <3>7. tx[t].arg \in Argument /\ tx[t].op \in {"read", "vread", "write"} /\ tx[t].pc # "app"
      BY <1>2, <1>3 DEF TxTypes, At
    <3> QED
      BY <1>2, <1>3, <2>1, <3>1, <3>2, <3>3, <3>5, <3>6, <3>7, CallMove DEF Kept, At
  <2>4. CASE ~WriteThrough /\ w.write
    <3>1. WriteOurs(t, locks[ArgLock(t)])
      BY <1>1, <1>4, <2>4, Zenon DEF stm_write
    <3> QED
      BY <1>1, <1>2, <2>1, <2>4, <3>1, WriteOursMove
  <2> QED
    BY <2>2, <2>3, <2>4
<1>5. CASE LOCK_GET_OWNED(w) /\ ~Ours(t, w)
  <2>1. Conflict(t, tx[t], w) /\ locks' = locks
    BY <1>1, <1>5, Zenon DEF stm_write
  <2>2. w.owner \in Thread \ {t}
    BY <1>1, <1>3, <1>5, ForeignLock
  <2> QED
    BY <1>2, <1>3, <2>1, <2>2, ConflictMove DEF Frame
<1>6. CASE ~LOCK_GET_OWNED(w)
  <2>1. w.owner = NoOwner
    BY <1>6 DEF LOCK_GET_OWNED
  <2>2. CASE WriteInvalid(t, w.n)
    <3>1. InvalidRead(t) /\ locks' = locks
      BY <1>1, <1>6, <2>2, Zenon DEF stm_write
    <3> QED
      BY <1>2, <3>1, InvalidReadMove DEF Frame
  <2>3. CASE ~WriteInvalid(t, w.n)
    <3>1. AcquireFrom(t, w, w.n)
      BY <1>1, <1>6, <2>3, Zenon DEF stm_write
    <3>2. CASE ~WriteThrough
      <4>1. Takeable(t, ArgLock(t))
        BY <1>1, <2>1 DEF Takeable
      <4> QED
        BY <1>2, <1>3, <3>1, <3>2, <4>1, AcquireFromMove
    <3>3. CASE WriteThrough
      <4>1. /\ locks' = [locks EXCEPT ![k0] = LOCK_SET_ADDR_WRITE(t, 0)]
            /\ Become(t, [tx[t] EXCEPT !.l = w], "do_write")
        BY <1>1, <3>1, <3>3, Zenon DEF AcquireFrom
      <4>2. PICK x : x = LOCK_SET_ADDR_WRITE(t, 0)
        OBVIOUS
      <4>3. x \in LockWord /\ x.owner = t
        BY <3>3, <4>2, OwnedWord DEF LOCK_SET_ADDR_WRITE
      <4>4. locks' \in [Lock -> LockWord] /\ locks'[k0].owner = t
            /\ \A k \in Lock \ {k0} : locks'[k] = locks[k]
        BY <1>3, <4>1, <4>2, <4>3
      <4> QED
        BY <1>1, <1>2, <2>1, <3>3, <4>1, <4>4, ToDoWrite
    <3> QED
      BY <3>2, <3>3
  <2> QED
    BY <2>2, <2>3
<1> QED
  BY <1>4, <1>5, <1>6

LEMMA UpgradeInv ==
  ASSUME Inv, NEW t \in Thread, build' = build, Upgrade(t)
  PROVE  Inv'
<1>1. /\ tx[t].pc = "upgrade" /\ UNCHANGED <<clock, mem, hist>>
      /\ TypeOK /\ TxTypes(tx[t]) /\ LocalOK(t) /\ tx[t].l \in LockWord /\ tx[t].l.owner = t
  BY DEF Upgrade, At, Inv, TypeOK, TxTypes, LocalInv, LocalOK, Remembers
<1>2. PICK k0, x : k0 = ArgLock(t) /\ x = [tx[t].l EXCEPT !.write = TRUE]
  OBVIOUS
<1>3. /\ k0 \in Lock /\ x \in LockWord /\ x.owner = t /\ x.n = tx[t].l.n /\ x.inc = tx[t].l.inc
      /\ locks \in [Lock -> LockWord] /\ NoOwner \notin Thread
  BY <1>1, <1>2, ArgLockIs, EtlAssumption DEF LockWord, TypeOK
<1>4. CASE locks[k0] # tx[t].l
  <2>1. Rollback(t, tx[t]) /\ locks' = locks
    BY <1>2, <1>4, Zenon DEF Upgrade
  <2> QED
    BY <1>1, <2>1, AbortMove DEF Frame, QuietLabels, CallLabels
<1>5. CASE locks[k0] = tx[t].l
  <2> DEFINE d == [tx[t] EXCEPT !.has_writes = @ + 1, !.l = ZeroLock]
  <2>1. locks' = [locks EXCEPT ![k0] = x] /\ Become(t, d, "write")
    BY <1>2, <1>5, Zenon DEF Upgrade
  <2>2. Kept(d, tx[t]) /\ d.l = ZeroLock /\ d.arg = tx[t].arg /\ d.op = tx[t].op
        /\ d.ts = tx[t].ts
    <3>1. Shape(d)
      BY <1>1 DEF TxTypes, Shape
    <3> QED
      BY <1>1, <3>1 DEF TxTypes, Shape, Fields, Kept
  <2> HIDE DEF d
  <2>3. Moves(t) /\ tx'[t].pc = "write" /\ Kept(tx'[t], d) /\ SameLocals(tx'[t], d)
    BY <2>1, <2>2, BecomeIs DEF Inv, TypeOK, Kept
  <2>4. Kept(tx'[t], tx[t]) /\ tx'[t].l = ZeroLock /\ tx'[t].arg = tx[t].arg
        /\ tx'[t].op = tx[t].op /\ tx'[t].ts = tx[t].ts
    BY <2>2, <2>3 DEF Kept, SameLocals
  <2>5. TxTypes(tx'[t])
    BY <1>1, <2>3, <2>4, Constants DEF TxTypes, Kept, Labels, CallLabels
  <2>6. W(t)' = W(t) /\ SameLinks(t) /\ (Killed(t)' <=> Killed(t)) /\ tx'[t].gen = tx[t].gen
        /\ WriteThrough' = WriteThrough /\ Modular' = Modular
    BY <2>4 DEF W, Kept, SameLinks, Killed, WriteThrough, Modular
  <2>7. LocalOK(t)'
    BY <1>1, <2>3, <2>4, <2>6
       DEF LocalOK, CallsBound, LabelsOfBuild, TicketPhase, Position, StatusPhase, Remembers,
         InCall, At, Kept, ReadLabels, ArbiterLabels, CallLabels, FreeLabels
  <2>8. StatusKept(t)
    BY <2>4 DEF StatusKept, StatusWord, Kept
  <2>9. Held(t)' = Held(t)
    BY <1>1, <2>3, <2>6 DEF Held, Releasing, At
  <2>10. OwnerHoldsOf(t) /\ HolderOwnsOf(t) /\ WriteLocked
    BY DEF Inv, LockInv, OwnerHolds, HolderOwns
  <2>11. \A k \in Lock : locks'[k].owner = locks[k].owner
           /\ \/ locks'[k] = locks[k]
              \/ /\ locks[k].owner = t /\ locks'[k].owner = t
                 /\ locks'[k].n = locks[k].n /\ locks'[k].inc = locks[k].inc
    BY <1>1, <1>3, <1>5, <2>1
  <2>12. LogTypes
    <3>1. locks' \in [Lock -> LockWord]
      BY <1>3, <2>1
    <3>2. WriteLocked'
      BY <1>3, <2>10, <2>11 DEF WriteLocked, LOCK_GET_OWNED
    <3> QED
      BY <1>1, <3>1, <3>2 DEF LogTypes, TypeOK
  <2>13. \A k \in Lock : locks'[k].owner = t =>
           /\ \E j \in Held(t)' : LockAt(t, j) = k
           /\ Killed(t) => locks[k].n \in Held(t)'
    <3>1. Killed(t) => ~WriteThrough
      BY <1>1, BuildIs DEF LocalOK, LabelsOfBuild, Killed, TypeOK
    <3> QED
      BY <1>1, <2>9, <2>10, <2>11, <3>1 DEF OwnerHoldsOf, At
  <2>14. ~Killed(t) => \A j \in Held(t)' : locks'[LockAt(t, j)].owner = t
    <3>1. \A j \in Held(t) : LockAt(t, j) \in Lock
      BY <1>1, LockAtIs DEF Held
    <3> QED
      BY <2>9, <2>10, <2>11, <3>1 DEF HolderOwnsOf
  <2>15. TypeOK' /\ LocalInv' /\ LockInv'
    BY <1>1, <2>3, <2>5, <2>6, <2>7, <2>8, <2>9, <2>11, <2>12, <2>13, <2>14, LogMove
  <2>16. LogUnseen(t)
    BY <1>1, <2>3, <2>6 DEF LogUnseen, Pending, ToUndo, At
  <2>17. MemoryInv' /\ HistoryInv'
    BY <1>1, <2>3, <2>16, OthersUnseen, MemoryKept
  <2> QED
    BY <2>15, <2>17 DEF Inv
<1> QED
  BY <1>4, <1>5

LEMMA WriteStealInv ==
  ASSUME Inv, GrowthSafe, NEW t \in Thread, build' = build, WriteSteal(t)
  PROVE  Inv'
<1>1. /\ At(t, "steal") /\ UNCHANGED <<clock, mem, hist>> /\ InCall(t) /\ ~At(t, "do_write")
      /\ tx[t].pc \in QuietLabels \ {"rollback"}
  BY DEF WriteSteal, At, InCall, CallLabels, QuietLabels
<1>2. /\ tx[t].l.owner \in Thread \ {t} /\ ~WriteThrough
      /\ locks[ArgLock(t)] = tx[t].l => Killed(tx[t].l.owner) /\ EntryVersion(tx[t].l) \in Nat
  BY <1>1, StolenFrom
<1>3. CASE WriteInvalid(t, EntryVersion(tx[t].l))
  <2>1. InvalidRead(t) /\ locks' = locks
    BY <1>3, Zenon DEF WriteSteal
  <2> QED
    BY <1>1, <2>1, InvalidReadMove DEF Frame
<1>4. CASE ~WriteInvalid(t, EntryVersion(tx[t].l)) /\ locks[ArgLock(t)] = tx[t].l
  <2>1. AcquireFrom(t, tx[t].l, EntryVersion(tx[t].l))
    BY <1>4, Zenon DEF WriteSteal
  <2>2. Takeable(t, ArgLock(t))
    BY <1>2, <1>4 DEF Takeable
  <2> QED
    BY <1>1, <1>2, <1>4, <2>1, <2>2, AcquireFromMove
<1>5. CASE ~WriteInvalid(t, EntryVersion(tx[t].l)) /\ locks[ArgLock(t)] # tx[t].l
  <2>1. Restart(t) /\ locks' = locks
    BY <1>5, Zenon DEF WriteSteal
  <2> QED
    BY <1>1, <2>1, RestartMove DEF Frame
<1> QED
  BY <1>3, <1>4, <1>5

LEMMA VisibleStealInv ==
  ASSUME Inv, GrowthSafe, NEW t \in Thread, build' = build, VisibleSteal(t)
  PROVE  Inv'
<1>1. /\ At(t, "steal") /\ UNCHANGED <<clock, mem, hist>> /\ InCall(t) /\ ~At(t, "do_write")
  BY DEF VisibleSteal, At, InCall, CallLabels
<1>2. /\ tx[t].l.owner \in Thread \ {t} /\ ~WriteThrough
      /\ locks[ArgLock(t)] = tx[t].l => Killed(tx[t].l.owner) /\ EntryVersion(tx[t].l) \in Nat
  BY <1>1, StolenFrom
<1>3. CASE locks[ArgLock(t)] = tx[t].l
  <2>1. AcquireRead(t, tx[t].l, EntryVersion(tx[t].l))
    BY <1>3, Zenon DEF VisibleSteal
  <2>2. Takeable(t, ArgLock(t))
    BY <1>2, <1>3 DEF Takeable
  <2> QED
    BY <1>1, <1>2, <1>3, <2>1, <2>2, AcquireReadMove
<1>4. CASE locks[ArgLock(t)] # tx[t].l
  <2>1. Restart(t) /\ locks' = locks
    BY <1>4, Zenon DEF VisibleSteal
  <2> QED
    BY <1>1, <2>1, RestartMove DEF Frame
<1> QED
  BY <1>3, <1>4

LEMMA ReadVisibleInv ==
  ASSUME Inv, GrowthSafe, NEW t \in Thread, build' = build, stm_read_visible(t)
  PROVE  Inv'
<1>1. PICK k0, w : k0 = ArgLock(t) /\ w = locks[k0]
  OBVIOUS
<1>2. /\ At(t, "vread") /\ UNCHANGED <<clock, mem, hist>> /\ InCall(t) /\ ~At(t, "do_write")
  BY DEF stm_read_visible, At, InCall, CallLabels
<1>3. /\ k0 \in Lock /\ w \in LockWord /\ w.n \in Nat /\ TxTypes(tx[t]) /\ TypeOK /\ LocalOK(t)
  BY <1>1, ArgLockIs DEF LockWord, Inv, TypeOK, LocalInv
<1>4. ~WriteThrough
  BY <1>2, <1>3, BuildIs DEF LocalOK, LabelsOfBuild, At, TypeOK
<1>5. CASE LOCK_GET_OWNED(w) /\ Ours(t, w)
  <2>1. /\ IF w.write THEN ReadOurs(t, w) ELSE Become(t, tx[t], "own_value")
        /\ locks' = locks
    BY <1>1, <1>5, Zenon DEF stm_read_visible
  <2>2. Frame
    BY <1>2, <2>1 DEF Frame
  <2>3. CASE w.write
    BY <1>2, <2>1, <2>2, <2>3, ReadOursMove
  <2>4. CASE ~w.write
    <3>1. Become(t, tx[t], "own_value") /\ Kept(tx[t], tx[t])
      BY <1>3, <2>1, <2>4 DEF Kept, TxTypes
    <3> QED
      BY <1>2, <2>2, <3>1, StayMove
  <2> QED
    BY <2>3, <2>4
<1>6. CASE LOCK_GET_OWNED(w) /\ ~Ours(t, w)
  <2>1. Conflict(t, tx[t], w) /\ locks' = locks
    BY <1>1, <1>6, Zenon DEF stm_read_visible
  <2>2. w.owner \in Thread \ {t}
    BY <1>1, <1>3, <1>6, ForeignLock
  <2> QED
    BY <1>2, <1>3, <2>1, <2>2, ConflictMove DEF Frame
<1>7. CASE ~LOCK_GET_OWNED(w)
  <2>1. AcquireRead(t, w, w.n)
    BY <1>1, <1>7, Zenon DEF stm_read_visible
  <2>2. Takeable(t, ArgLock(t))
    BY <1>1, <1>7 DEF Takeable, LOCK_GET_OWNED
  <2> QED
    BY <1>2, <1>3, <1>4, <2>1, <2>2, AcquireReadMove
<1> QED
  BY <1>5, <1>6, <1>7

\* WRITE_THROUGH: the log keeps what the store overwrites.
LEMMA DoWriteInv ==
  ASSUME Inv, NEW t \in Thread, build' = build, do_write(t)
  PROVE  Inv'
<1>1. /\ tx[t].pc = "do_write" /\ At(t, "do_write") /\ UNCHANGED <<clock, locks, hist>>
      /\ TypeOK /\ TxTypes(tx[t]) /\ LocalOK(t) /\ InCall(t)
  BY DEF do_write, At, Inv, TypeOK, LocalInv, InCall, CallLabels
<1>2. /\ WriteThrough /\ ~Modular /\ ~Killed(t) /\ WriteThrough' = WriteThrough
      /\ LockOf' = LockOf
  BY <1>1, BuildIs DEF LocalOK, LabelsOfBuild, TypeOK, Killed, WriteThrough, LockOf
<1>3. PICK a, k0, n, m, x :
        /\ a = tx[t].arg.addr /\ k0 = ArgLock(t) /\ n = Len(W(t)) /\ m = tx[t].arg.mask
        /\ x = Merge(mem[a], tx[t].arg.value, m)
  OBVIOUS
<1>4. /\ a \in Addr /\ m \in SUBSET Byte /\ tx[t].arg.value \in Word /\ mem \in [Addr -> Word]
      /\ x \in Word /\ (m = {} => x = mem[a]) /\ k0 \in Lock /\ k0 = LockOf[a]
  <2>1. a \in Addr /\ m \in SUBSET Byte /\ tx[t].arg.value \in Word /\ mem \in [Addr -> Word]
    BY <1>1, <1>3 DEF TypeOK, TxTypes, Argument
  <2> QED
    BY <1>3, <2>1, MergeIs, ArgLockIs DEF ArgLock
<1>5. PICK e : e = [Entry(t, tx[t].l.n, 0) EXCEPT
                      !.value = IF m = {} THEN ZeroWord ELSE mem[a],
                      !.inc = tx[t].l.inc, !.no_drop = LOCK_GET_OWNED(tx[t].l)]
  OBVIOUS
<1> DEFINE ws == Append(W(t), e)
           d == [tx[t] EXCEPT !.w_set = ws]
<1>6. mem' = [mem EXCEPT ![a] = x] /\ Become(t, Stored(d), "app")
  BY <1>3, <1>5, Zenon DEF do_write, W
<1>7. /\ e \in LogEntry /\ e.addr = a /\ e.mask = m /\ (m # {} => e.value = mem[a])
      /\ (e.no_drop <=> LOCK_GET_OWNED(tx[t].l))
  <2> DEFINE f == Entry(t, tx[t].l.n, 0)
  <2>1. tx[t].l \in LockWord
    BY <1>1 DEF TxTypes
  <2>2. tx[t].l.n \in Nat /\ tx[t].l.inc \in Nat
    BY <2>1 DEF LockWord
  <2>3. f \in LogEntry /\ f.addr = a /\ f.mask = m
    BY <1>3, <2>2, EntryIs DEF NewEntry, Entry
  <2>4. PICK y : y = IF m = {} THEN ZeroWord ELSE mem[a]
    OBVIOUS
  <2>5. y \in Word
    BY <1>4, <2>4, Constants
  <2>6. PICK b \in BOOLEAN : b = LOCK_GET_OWNED(tx[t].l)
    BY DEF LOCK_GET_OWNED
  <2>7. e = [f EXCEPT !.value = y, !.inc = tx[t].l.inc, !.no_drop = b]
    BY <1>5, <2>4, <2>6
  <2> HIDE DEF f
  <2> QED
    BY <2>2, <2>3, <2>4, <2>5, <2>6, <2>7 DEF LogEntry
<1>8. /\ n \in Nat /\ DOMAIN W(t) = 1..n /\ ws \in Seq(LogEntry) /\ Len(ws) = n + 1
      /\ DOMAIN ws = 1..(n + 1) /\ ws[n + 1] = e /\ \A j \in 1..n : ws[j] = W(t)[j]
  BY <1>3, <1>7, LogSize, AppendFacts
<1>9. /\ Shape(d) /\ d.status = tx[t].status /\ d.counter = tx[t].counter
      /\ d.calls = tx[t].calls /\ d.w_set = ws /\ d.gen = tx[t].gen /\ d.size = tx[t].size
  <2> HIDE DEF ws
  <2>1. Shape(d)
    BY <1>1 DEF TxTypes, Shape
  <2> QED
    BY <1>1, <2>1 DEF TxTypes, Shape, Fields
<1> HIDE DEF d, ws
<1>10. Kept(Stored(d), d) /\ Clean(Stored(d)) /\ Shape(Stored(d))
  BY <1>9, StoredIs DEF Kept
<1>11. Moves(t) /\ tx'[t].pc = "app" /\ Kept(tx'[t], Stored(d)) /\ SameLocals(tx'[t], Stored(d))
  BY <1>1, <1>6, <1>10, BecomeIs DEF TypeOK
<1>12. Kept(tx'[t], d) /\ Clean(tx'[t])
  BY <1>10, <1>11 DEF Kept, SameLocals, Clean
<1>13. tx'[t].w_set = ws /\ W(t)' = ws /\ tx'[t].gen = tx[t].gen
  BY <1>9, <1>12 DEF Kept, W
<1>14. Finished(t)
  <2>1. Len(tx'[t].w_set) <= Len(W(t)) + 1
    BY <1>3, <1>8, <1>13
  <2>2. tx[t].size \in Nat /\ tx[t].size >= tx[t].size /\ tx[t].gen \in Nat
    BY <1>1 DEF TxTypes
  <2> QED
    BY <1>8, <1>9, <1>11, <1>12, <1>13, <2>1, <2>2 DEF Finished, Kept
<1>15. /\ TxTypes(tx'[t]) /\ LocalOK(t)' /\ Held(t)' = 1..(n + 1) /\ Held(t) = 1..n
       /\ ~Killed(t)'
  BY <1>1, <1>2, <1>8, <1>13, <1>14, FinishedLocal
<1>16. /\ \A j \in 1..n : LockAt(t, j)' = LockAt(t, j) /\ LockAt(t, j) \in Lock
       /\ LockAt(t, n + 1)' = k0
       /\ \A j \in 1..n : W(t)'[j] = W(t)[j]
  <2>1. \A j \in 1..n : LockAt(t, j)' = LockAt(t, j) /\ LockAt(t, j) \in Lock
    BY <1>1, <1>2, <1>8, <1>13, LockAtIs DEF LockAt, W
  <2>2. LockAt(t, n + 1)' = k0
    BY <1>2, <1>4, <1>7, <1>8, <1>13 DEF LockAt, W
  <2> QED
    BY <1>8, <1>13, <2>1, <2>2
<1>17. OwnerHoldsOf(t) /\ HolderOwnsOf(t) /\ FirstDropsOf(t) /\ WriteLocked
  BY DEF Inv, LockInv, OwnerHolds, HolderOwns, FirstDrops
<1>18. LogOf(t)'
  <2>1. OwnerHoldsOf(t)'
    <3> SUFFICES ASSUME NEW k \in Lock, locks[k].owner = t
                 PROVE  \E j \in 1..(n + 1) : LockAt(t, j)' = k
      BY <1>1, <1>2, <1>15 DEF OwnerHoldsOf
    <3>1. (\E j \in 1..n : LockAt(t, j) = k) \/ k = k0
      BY <1>2, <1>3, <1>15, <1>17 DEF OwnerHoldsOf
    <3> QED
      BY <1>8, <1>16, <3>1
  <2>2. HolderOwnsOf(t)'
    <3>1. locks[k0].owner = t /\ \A j \in 1..n : locks[LockAt(t, j)].owner = t
      BY <1>1, <1>2, <1>3, <1>15, <1>17 DEF HolderOwnsOf
    <3>2. \A j \in 1..(n + 1) : locks[LockAt(t, j)'].owner = t
      <4>1. \A j \in 1..(n + 1) : j \in 1..n \/ j = n + 1
        BY <1>8
      <4> QED
        BY <1>16, <3>1, <4>1
    <3> QED
      BY <1>1, <1>11, <1>15, <3>2 DEF HolderOwnsOf, At
  <2>3. FirstDropsOf(t)'
    <3> SUFFICES ASSUME NEW j \in 1..(n + 1)
                 PROVE  W(t)'[j].no_drop <=>
                          \E h \in 1..(n + 1) : h < j /\ LockAt(t, h)' = LockAt(t, j)'
      BY <1>8, <1>11, <1>13 DEF FirstDropsOf, At
    <3>1. CASE j \in 1..n
      <4>1. W(t)[j].no_drop <=> \E h \in 1..n : h < j /\ LockAt(t, h) = LockAt(t, j)
        BY <1>2, <1>8, <1>17, <3>1 DEF FirstDropsOf
      <4>2. \A h \in 1..(n + 1) : h < j => h \in 1..n
        BY <1>8, <3>1
      <4>3. \A h \in 1..n : h \in 1..(n + 1)
        BY <1>8
      <4> QED
        BY <1>16, <3>1, <4>1, <4>2, <4>3
    <3>2. CASE j = n + 1
      <4>1. W(t)'[j].no_drop <=> \E h \in 1..n : LockAt(t, h) = k0
        BY <1>1, <1>2, <1>3, <1>7, <1>8, <1>13, <1>17, <3>2 DEF FirstDropsOf
      <4>2. \A h \in 1..(n + 1) : h < j <=> h \in 1..n
        BY <1>8, <3>2
      <4>3. \A h \in 1..n : h \in 1..(n + 1)
        BY <1>8
      <4> QED
        BY <1>16, <3>2, <4>1, <4>2, <4>3
    <3> QED
      BY <1>8, <3>1, <3>2
  <2> QED
    BY <1>2, <2>1, <2>2, <2>3 DEF LogOf, LinksForwardOf, LinkingOf
<1>19. TypeOK' /\ LocalInv' /\ LockInv'
  <2>1. LogTypes
    BY <1>1, <1>4, <1>6, <1>17 DEF LogTypes, TypeOK, WriteLocked, LOCK_GET_OWNED
  <2>2. \A v \in Thread : ~At(v, "steal") /\ ~At(v, "kill")
    BY <1>2 DEF Inv, LocalInv, LocalOK, LabelsOfBuild, ArbiterLabels, At
  <2>3. /\ \A k \in Lock : locks'[k] = locks[k]
        /\ tx'[t].pc \notin {"kill", "steal"}
    BY <1>1, <1>11
  <2> QED
    BY <1>11, <1>15, <1>18, <2>1, <2>2, <2>3, LockMove
<1>20. \A u \in Thread \ {t} : tx'[u] = tx[u] /\ W(u)' = W(u)
  BY <1>11 DEF Moves, W
<1>21. \A b, w : Latest(b, w)' <=> Latest(b, w)
  BY <1>1 DEF Latest
<1>22. MemoryInv'
  <2> SUFFICES ASSUME NEW b \in Addr
               PROVE  /\ \A u \in Thread : \A j \in DOMAIN W(u)' :
                           ToUndo(u, b, j)' /\ (\A h \in DOMAIN W(u)' : ToUndo(u, b, h)' => j <= h)
                             => Latest(b, W(u)[j].value)'
                      /\ (\A u \in Thread : \A j \in DOMAIN W(u)' : ~ToUndo(u, b, j)') =>
                           Latest(b, mem[b])'
    BY <1>2 DEF MemoryInv
  <2>1. /\ \A u \in Thread : \A j \in DOMAIN W(u) :
             ToUndo(u, b, j) /\ (\A h \in DOMAIN W(u) : ToUndo(u, b, h) => j <= h)
               => Latest(b, W(u)[j].value)
        /\ (\A u \in Thread : \A j \in DOMAIN W(u) : ~ToUndo(u, b, j)) => Latest(b, mem[b])
    BY <1>2 DEF Inv, MemoryInv
  <2>2. \A u \in Thread \ {t} : \A j : ToUndo(u, b, j)' <=> ToUndo(u, b, j)
    BY <1>20 DEF ToUndo, At
  <2>3. \A j \in 1..n : ToUndo(t, b, j)' <=> ToUndo(t, b, j)
    BY <1>1, <1>8, <1>11, <1>13, <1>16 DEF ToUndo, At
  <2>4. ToUndo(t, b, n + 1)' <=> a = b /\ m # {}
    BY <1>7, <1>8, <1>11, <1>13 DEF ToUndo, At
  <2>5. DOMAIN W(t)' = 1..(n + 1) /\ \A j \in 1..(n + 1) : j \in 1..n \/ j = n + 1
    BY <1>8, <1>13
  <2>6. a # b \/ m = {} => mem'[b] = mem[b]
    BY <1>4, <1>6
  <2>7. a = b => \A u \in Thread \ {t} : \A j : ~ToUndo(u, b, j)
    <3> SUFFICES ASSUME a = b, NEW u \in Thread \ {t}, NEW j, ToUndo(u, b, j) PROVE FALSE
      OBVIOUS
    <3>1. j \in Held(u) /\ ~Killed(u) /\ W(u)[j].addr = a
      BY <1>2, ToUndoHeld
    <3>2. locks[LockAt(u, j)].owner = u
      BY <3>1 DEF Inv, LockInv, HolderOwns, HolderOwnsOf
    <3>3. LockAt(u, j) = k0
      BY <1>4, <3>1 DEF LockAt, W
    <3>4. locks[k0].owner = t
      BY <1>1, <1>3, <1>17 DEF HolderOwnsOf
    <3> QED
      BY <3>2, <3>3, <3>4
  <2>8. ASSUME NEW u \in Thread, NEW j \in DOMAIN W(u)', ToUndo(u, b, j)',
               \A h \in DOMAIN W(u)' : ToUndo(u, b, h)' => j <= h
        PROVE  Latest(b, W(u)[j].value)'
    <3>1. CASE u # t
      <4>1. /\ j \in DOMAIN W(u) /\ ToUndo(u, b, j) /\ W(u)' = W(u)
            /\ \A h \in DOMAIN W(u) : ToUndo(u, b, h) => j <= h
        BY <1>20, <2>2, <2>8, <3>1
      <4>2. Latest(b, W(u)[j].value)
        BY <2>1, <4>1
      <4> QED
        BY <1>1, <4>1, <4>2 DEF Latest
    <3>2. CASE u = t /\ j \in 1..n
      <4>1. \A h \in 1..n : h \in DOMAIN W(t)'
        BY <1>8, <2>5
      <4>2. ToUndo(t, b, j) /\ j \in DOMAIN W(t)
            /\ \A h \in DOMAIN W(t) : ToUndo(t, b, h) => j <= h
        BY <1>8, <2>3, <2>8, <3>2, <4>1
      <4>3. Latest(b, W(t)[j].value) /\ W(t)'[j] = W(t)[j]
        BY <1>16, <2>1, <3>2, <4>2
      <4> QED
        BY <1>1, <3>2, <4>3 DEF Latest
    <3>3. CASE u = t /\ j = n + 1
      <4>1. a = b /\ m # {}
        BY <2>4, <2>8, <3>3
      <4>2. W(t)'[j].value = mem[b]
        BY <1>7, <1>8, <1>13, <3>3, <4>1
      <4>3. \A h \in 1..n : ~ToUndo(t, b, h)
        <5> SUFFICES ASSUME NEW h \in 1..n, ToUndo(t, b, h) PROVE FALSE
          OBVIOUS
        <5>1. ToUndo(t, b, h)' /\ h \in DOMAIN W(t)'
          BY <1>8, <2>3, <2>5
        <5>2. j <= h
          BY <2>8, <3>3, <5>1
        <5> QED
          BY <1>8, <3>3, <5>2
      <4>4. \A v \in Thread : \A h \in DOMAIN W(v) : ~ToUndo(v, b, h)
        BY <1>8, <2>7, <4>1, <4>3
      <4>5. Latest(b, mem[b])
        BY <2>1, <4>4
      <4> QED
        BY <1>1, <3>3, <4>2, <4>5 DEF Latest
    <3> QED
      BY <2>5, <2>8, <3>1, <3>2, <3>3
  <2>9. ASSUME \A u \in Thread : \A j \in DOMAIN W(u)' : ~ToUndo(u, b, j)'
        PROVE  Latest(b, mem[b])'
    <3>1. a # b \/ m = {}
      <4>1. n + 1 \in DOMAIN W(t)'
        BY <1>8, <2>5
      <4> QED
        BY <2>4, <2>9, <4>1
    <3>2. \A u \in Thread \ {t} : \A j \in DOMAIN W(u) : ~ToUndo(u, b, j)
      BY <1>20, <2>2, <2>9
    <3>3. \A j \in 1..n : ~ToUndo(t, b, j)
      <4>1. \A h \in 1..n : h \in DOMAIN W(t)'
        BY <1>8, <2>5
      <4> QED
        BY <2>3, <2>9, <4>1
    <3>4. Latest(b, mem[b])
      BY <1>8, <2>1, <3>2, <3>3
    <3> QED
      BY <1>1, <2>6, <3>1, <3>4 DEF Latest
  <2> QED
    BY <2>8, <2>9
<1>23. HistoryInv'
  BY <1>1, <1>11, <1>20 DEF Inv, HistoryInv, At
<1> QED
  BY <1>19, <1>22, <1>23 DEF Inv

-----------------------------------------------------------------------------
(***************************************************************************)
(* The invariant holds initially and is kept by every step.                *)
(***************************************************************************)
LEMMA InitInv == Init => Inv
<1> SUFFICES ASSUME Init PROVE Inv
  OBVIOUS
<1>1. /\ build \in Builds /\ clock = 0 /\ NoOwner \notin Thread
      /\ \A k \in Lock : locks[k] = ZeroLock
      /\ locks \in [Lock -> LockWord] /\ mem \in [Addr -> Word]
      /\ \A a \in Addr : mem[a] = ZeroWord
      /\ ZeroLock.owner = NoOwner /\ ~ZeroLock.write
  BY Constants, EtlAssumption DEF Init, ZeroLock, LOCK_SET_TIMESTAMP
<1>2. build.RW_SET_SIZE \in Nat /\ build.MaxCalls \in [Thread -> Nat]
  BY <1>1, BuildIs
<1>3. tx = [t \in Thread |-> tx[t]] /\ \A t \in Thread : tx[t] = IdleTx
  BY DEF Init
<1>4. /\ Shape(IdleTx) /\ IdleTx.pc = "idle" /\ IdleTx.status = "IDLE" /\ IdleTx.w_set = <<>>
      /\ IdleTx.arg = NoArg /\ IdleTx.l = ZeroLock /\ IdleTx.op = "read" /\ IdleTx.ts = 0
      /\ IdleTx.gen = 0 /\ IdleTx.size = build.RW_SET_SIZE /\ IdleTx.calls = 0
  <2>1. Shape(IdleTx)
    BY DEF IdleTx, Shape, Fields
  <2> QED
    BY <2>1 DEF IdleTx
<1>5. \A t \in Thread : TxTypes(tx[t])
  <2>1. NoArg \in Argument /\ ZeroLock \in LockWord /\ <<>> \in Seq(LogEntry)
    BY Constants
  <2>2. TxTypes(IdleTx)
    BY <1>2, <1>4, <2>1 DEF TxTypes, Labels, FreeLabels
  <2> QED
    BY <1>3, <2>2
<1>6. hist \in SUBSET [ts: Nat, addr: Addr, value: Word]
  BY Constants DEF Init
<1>7. TypeOK
  BY <1>1, <1>3, <1>5, <1>6 DEF TypeOK
<1>8. LocalInv
  <2> SUFFICES ASSUME NEW t \in Thread PROVE LocalOK(t)
    BY DEF LocalInv
  <2>1. /\ tx[t].pc = "idle" /\ tx[t].status = "IDLE" /\ W(t) = <<>> /\ tx[t].op = "read"
        /\ tx[t].ts = 0 /\ tx[t].size = build.RW_SET_SIZE
    BY <1>3, <1>4 DEF W
  <2>2. CallsBound(t)
    BY <1>2, <2>1 DEF CallsBound, InCall, At, CallLabels
  <2> QED
    BY <2>1, <2>2 DEF LocalOK, LabelsOfBuild, TicketPhase, Position, StatusPhase, Remembers, At,
       ArbiterLabels, ReadLabels, CommitLabels
<1>9. \A t \in Thread : /\ W(t) = <<>> /\ DOMAIN W(t) = {} /\ tx[t].pc = "idle"
                        /\ tx[t].l.owner = NoOwner
  <2>1. \A t \in Thread : W(t) = <<>> /\ tx[t].pc = "idle" /\ tx[t].l.owner = NoOwner
    BY <1>1, <1>3, <1>4 DEF W
  <2> QED
    BY <2>1
<1>10. LockInv
  <2>1. OwnerHolds
    BY <1>1 DEF OwnerHolds, OwnerHoldsOf
  <2>2. HolderOwns
    BY <1>9 DEF HolderOwns, HolderOwnsOf, Held, At
  <2>3. WriteLocked
    BY <1>1 DEF WriteLocked
  <2>4. FirstDrops
    BY <1>9 DEF FirstDrops, FirstDropsOf, At
  <2>5. LinksForward /\ Linking
    BY <1>9 DEF LinksForward, LinksForwardOf, Linking, LinkingOf
  <2>6. StealSafe
    BY <1>1, <1>9 DEF StealSafe
  <2> QED
    BY <2>1, <2>2, <2>3, <2>4, <2>5, <2>6 DEF LockInv
<1>11. \A a \in Addr : Latest(a, mem[a])
  <2> SUFFICES ASSUME NEW a \in Addr PROVE Latest(a, ZeroWord)
    BY <1>1
  <2> DEFINE h0 == [ts |-> 0, addr |-> a, value |-> ZeroWord]
  <2>1. h0 \in hist /\ h0.addr = a /\ h0.value = ZeroWord /\ h0.ts = 0
    BY DEF Init
  <2>2. \A g \in hist : g.ts = 0
    BY DEF Init
  <2> HIDE DEF h0
  <2> QED
    BY <2>1, <2>2 DEF Latest
<1>12. MemoryInv
  BY <1>9, <1>11 DEF MemoryInv
<1>13. HistoryInv
  <2>1. \A h \in hist : h.ts = 0
    BY DEF Init
  <2> QED
    BY <1>1, <1>9, <2>1 DEF HistoryInv, At
<1> QED
  BY <1>7, <1>8, <1>10, <1>12, <1>13 DEF Inv

LEMMA StutterInv ==
  ASSUME Inv, UNCHANGED vars
  PROVE  Inv'
<1>1. build' = build /\ clock' = clock /\ locks' = locks /\ mem' = mem /\ tx' = tx /\ hist' = hist
  BY DEF vars
<1>2. TypeOK'
  BY <1>1 DEF Inv, TypeOK, TxTypes, Shape
<1>3. LocalInv' /\ \A u \in Thread : Unseen(u)
  BY <1>1, SameTx DEF Inv, LocalInv
<1>4. WriteThrough' = WriteThrough /\ LockOf' = LockOf
  BY <1>1 DEF WriteThrough, LockOf
<1>5. \A u : /\ W(u)' = W(u) /\ (Killed(u)' <=> Killed(u)) /\ ArgLock(u)' = ArgLock(u)
             /\ \A j : LockAt(u, j)' = LockAt(u, j)
             /\ \A lab : At(u, lab)' <=> At(u, lab)
  BY <1>1, <1>4 DEF W, Killed, ArgLock, LockAt, At
<1>6. OwnerHolds' /\ HolderOwns'
  <2>1. \A u \in Thread : Held(u)' = Held(u)
    BY <1>3 DEF Unseen
  <2>2. OwnerHolds'
    <3> SUFFICES ASSUME NEW u \in Thread PROVE OwnerHoldsOf(u)'
      BY DEF OwnerHolds
    <3>1. OwnerHoldsOf(u)
      BY DEF Inv, LockInv, OwnerHolds
    <3> QED
      BY <1>1, <1>4, <1>5, <2>1, <3>1 DEF OwnerHoldsOf
  <2> QED
    BY <1>1, <1>5, <2>1, <2>2 DEF HolderOwns, HolderOwnsOf, Inv, LockInv
<1>7. WriteLocked' /\ FirstDrops' /\ LinksForward'
  BY <1>1, <1>4, <1>5 DEF Inv, LockInv, WriteLocked, FirstDrops, FirstDropsOf, LinksForward,
     LinksForwardOf, LOCK_GET_OWNED
<1>8. Linking'
  BY <1>1, <1>4, <1>5 DEF Inv, LockInv, Linking, LinkingOf
<1>9. StealSafe'
  BY <1>1, <1>5 DEF Inv, LockInv, StealSafe, StealOK, StatusWord
<1>10. MemoryInv' /\ HistoryInv'
  BY <1>1, <1>3, MemoryKept DEF Unseen
<1> QED
  BY <1>2, <1>3, <1>6, <1>7, <1>8, <1>9, <1>10 DEF Inv, LockInv

LEMMA AppInv ==
  ASSUME Inv, NEW t \in Thread, build' = build, AppStep(t)
  PROVE  Inv'
<1>1. CASE \E r \in build.read_only : stm_start(t, r)
  BY <1>1, StartInv
<1>2. CASE \E a \in build.Loads[t] : stm_load(t, a)
  BY <1>2, LoadInv
<1>3. CASE \E a \in build.Stores[t], v \in StoreWords[t], m \in build.Masks :
             stm_store(t, a, v, m)
  BY <1>3, StoreInv
<1>4. CASE stm_commit(t)
  BY <1>4, CommitInv
<1>5. CASE stm_abort(t)
  BY <1>5, AbortInv
<1> QED
  BY <1>1, <1>2, <1>3, <1>4, <1>5 DEF AppStep

LEMMA LibraryInv ==
  ASSUME Inv, GrowthSafe, NEW t \in Thread, build' = build, LibraryStep(t)
  PROVE  Inv'
<1>1. CASE stm_prepare(t) \/ stm_prepare_overflow(t) \/ Delay(t)
  BY <1>1, PrepareInv, OverflowInv, DelayInv
<1>2. CASE ReadOwnerStatus(t) \/ Arbitrate(t) \/ stm_kill(t)
  BY <1>2, ReadOwnerStatusInv, ArbitrateInv, KillInv
<1>3. CASE ReadLock(t) \/ ReadOwnValue(t) \/ ReadValue(t) \/ ReadLock2(t) \/ ReadRecheck(t)
  BY <1>3, ReadLockInv, ReadOwnValueInv, ReadValueInv, ReadLock2Inv, ReadRecheckInv
<1>4. CASE ReadSteal(t) \/ stm_extend(t) \/ (\E r \in tx[t].todo : stm_validate(t, r))
           \/ ExtendOk(t)
  BY <1>4, ReadStealInv, ExtendInv, ValidateInv, ExtendOkInv
<1>5. CASE stm_write(t) \/ Upgrade(t) \/ WriteSteal(t) \/ do_write(t)
  BY <1>5, WriteInv, UpgradeInv, WriteStealInv, DoWriteInv
<1>6. CASE stm_read_visible(t) \/ VisibleSteal(t)
  BY <1>6, ReadVisibleInv, VisibleStealInv
<1>7. CASE CommitReads(t) \/ CommitClock(t) \/ CommitValid(t) \/ CommitStore(t)
           \/ CommitRelease(t) \/ CommitEnd(t)
  BY <1>7, CommitReadsInv, CommitClockInv, CommitValidInv, CommitStoreInv, CommitReleaseInv,
     CommitEndInv
<1>8. CASE stm_rollback(t) \/ RollbackRelease(t) \/ UndoStore(t) \/ UndoClock(t)
           \/ UndoRelease(t) \/ stm_drop(t) \/ RollbackEnd(t)
  BY <1>8, RollbackInv, RollbackReleaseInv, UndoStoreInv, UndoClockInv, UndoReleaseInv, DropInv,
     RollbackEndInv
<1> QED
  BY <1>1, <1>2, <1>3, <1>4, <1>5, <1>6, <1>7, <1>8 DEF LibraryStep

\* A build does not change while the program runs.
LEMMA EtlStep == EtlInv /\ [Next]_vars => EtlInv'
<1> SUFFICES ASSUME EtlInv, [Next]_vars PROVE EtlInv'
  OBVIOUS
<1>1. build' = build
  BY DEF Next, vars
<1>2. GrowthSafe' <=> GrowthSafe
  BY <1>1 DEF GrowthSafe, WriteThrough, Modular, LockOf
<1>3. CASE ~GrowthSafe
  BY <1>2, <1>3 DEF EtlInv
<1>4. CASE GrowthSafe
  <2>1. Inv
    BY <1>4 DEF EtlInv
  <2>2. CASE \E t \in Thread : AppStep(t) \/ LibraryStep(t)
    BY <1>1, <1>4, <2>1, <2>2, AppInv, LibraryInv DEF EtlInv
  <2>3. CASE rollover_clock
    BY <1>1, <2>1, <2>3, RolloverInv DEF EtlInv
  <2>4. CASE UNCHANGED vars
    BY <2>1, <2>4, StutterInv DEF EtlInv
  <2> QED
    BY <2>2, <2>3, <2>4 DEF Next
<1> QED
  BY <1>3, <1>4

-----------------------------------------------------------------------------
(***************************************************************************)
(* Locks, logs and memory fit together.                                    *)
(***************************************************************************)
LEMMA InvCommitHolds == Inv => CommitHoldsLocks
<1> SUFFICES ASSUME Inv, NEW t \in Thread, Committing(t), NEW k \in Unreleased(t)
             PROVE  locks[LockOf[tx[t].w_set[k].addr]].owner = t
  BY DEF CommitHoldsLocks
<1>1. tx[t].ts \in Nat
  BY DEF Inv, TypeOK, TxTypes
<1>2. InCommit(t)
  BY <1>1 DEF Committing, InCommit, At, CommitLabels
<1>3. ~Killed(t)
  BY <1>2, NotKilled
<1>4. k \in Held(t)
  BY DEF Unreleased, Committing, Held, Releasing, At, W
<1> QED
  BY <1>3, <1>4 DEF Inv, LockInv, HolderOwns, HolderOwnsOf, LockAt

LEMMA InvUnlocked == Inv => UnlockedIsCommitted
<1> SUFFICES ASSUME Inv, NEW a \in Addr, ~LOCK_GET_OWNED(locks[LockOf[a]])
             PROVE  IsValueAt(a, clock, mem[a])
  BY DEF UnlockedIsCommitted
<1>1. NoOwner \notin Thread /\ locks[LockOf[a]].owner = NoOwner
  BY EtlAssumption DEF LOCK_GET_OWNED
<1>2. \A u \in Thread : \A j \in Held(u) : ~Killed(u) => W(u)[j].addr # a
  <2> SUFFICES ASSUME NEW u \in Thread, NEW j \in Held(u), ~Killed(u), W(u)[j].addr = a
               PROVE  FALSE
    OBVIOUS
  <2>1. locks[LockAt(u, j)].owner = u
    BY DEF Inv, LockInv, HolderOwns, HolderOwnsOf
  <2> QED
    BY <1>1, <2>1 DEF LockAt, W
<1>3. Latest(a, mem[a])
  <2>1. CASE ~WriteThrough
    <3>1. \A u \in Thread : \A j \in DOMAIN W(u) : ~Pending(u, a, j)
      BY <1>2, <2>1, PendingHeld
    <3> QED
      BY <2>1, <3>1 DEF Inv, MemoryInv
  <2>2. CASE WriteThrough
    <3>1. \A u \in Thread : \A j \in DOMAIN W(u) : ~ToUndo(u, a, j)
      BY <1>2, <2>2, ToUndoHeld
    <3> QED
      BY <2>2, <3>1 DEF Inv, MemoryInv
  <2> QED
    BY <2>1, <2>2
<1>4. \A h \in hist : h.ts <= clock
  BY DEF Inv, HistoryInv
<1> QED
  BY <1>3, <1>4 DEF IsValueAt, Latest

LEMMA InvChains == Inv => ChainsComplete
<1> SUFFICES ASSUME Inv, NEW t \in Thread, NEW k \in Lock, ~WriteThrough,
                    tx[t].status = "ACTIVE", Ours(t, locks[k])
             PROVE  {j \in DOMAIN tx[t].w_set : LockOf[tx[t].w_set[j].addr] = k}
                      = Chain(tx[t].w_set, locks[k].n)
  BY DEF ChainsComplete
<1>1. locks[k].owner = t /\ ~Killed(t)
  BY DEF Ours, Killed
<1>2. Chain(W(t), locks[k].n) = {j \in DOMAIN W(t) : LockAt(t, j) = k}
  BY <1>1, OwnChain
<1> QED
  BY <1>2 DEF W, LockAt

\* The inductive invariant of the encounter-time designs: types, positions in
\* the log while locks are released, owned locks and held entries, lists of
\* the entries of a lock, kills and steals, and memory against history.
THEOREM EtlInvariant == Spec => []EtlInv
<1>1. Init => EtlInv
  BY InitInv DEF EtlInv
<1>2. EtlInv /\ [Next]_vars => EtlInv'
  BY EtlStep
<1> QED
  BY <1>1, <1>2, PTL DEF Spec

\* Locks, logs and memory fit together in WRITE_BACK_ETL and WRITE_THROUGH,
\* with kills, stolen locks and visible reads, for any number of threads,
\* words and locks: a committing transaction owns the lock of every entry it
\* has still to write or release, a word whose lock is free holds the last
\* committed value, and a lock leads to all the entries it covers (stm_write,
\* stm_commit, stm_rollback, stm_drop, stm_kill).  For WRITE_BACK_ETL the write
\* set does not outgrow its allocation, or each lock covers one word and none
\* is stolen.
THEOREM EtlLocksCover == Spec => [](GrowthSafe => LocksCover)
<1>1. EtlInv => (GrowthSafe => LocksCover)
  BY InvCommitHolds, InvUnlocked, InvChains DEF EtlInv, LocksCover
<1> QED
  BY <1>1, EtlInvariant, PTL
=============================================================================
