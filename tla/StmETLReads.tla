----------------------------- MODULE StmETLReads -----------------------------
(***************************************************************************)
(* What the transactions of StmETL read, from the lock invariant of        *)
(* StmETLProofs: the inductive invariant of serializability, what a step   *)
(* of one thread means to the others, and the steps that leave locks,      *)
(* memory and history alone (loads, extensions, validations, the begin     *)
(* and the end of transactions).                                           *)
(***************************************************************************)
EXTENDS StmETLProofs

-----------------------------------------------------------------------------
(***************************************************************************)
(* The inductive invariant                                                 *)
(***************************************************************************)
\* All reads of the build are invisible, or all are visible.  A build that
\* mixes them compares words of read-locks, which may come back unchanged
\* while the version in the entry they point to is another.
OneKindOfRead == Modular => build.vr_threshold <= 0

VisibleBuild == Modular /\ build.vr_threshold = 0

ReadEntry == [lock: Lock, version: Nat]
Observation == [addr: Addr, value: Word]

ReadTypes(d) ==
  /\ d.start \in Nat /\ d.end \in Nat /\ d.now \in Nat
  /\ d.r_set \in SUBSET ReadEntry /\ d.todo \in SUBSET ReadEntry
  /\ d.obs \in SUBSET Observation
  /\ d.visible_reads \in Nat /\ d.has_writes \in Nat
  /\ d.value \in Word
  /\ d.ro \in BOOLEAN

\* A commit that has its timestamp and has not published, and one that has.
Ticketed(t) == At(t, "validate") /\ tx[t].ts # 0
Published(t) == tx[t].pc \in {"write_back", "release"}

\* A call that reads a word invisibly.
Reading(t) == tx[t].pc \in ReadLabels \/ (At(t, "validate") /\ tx[t].ts = 0)

\* A transaction that has not begun to publish or to roll back, and that
\* nobody has killed.
Running(t) ==
  /\ ~Killed(t)
  /\ \/ tx[t].pc \in CallLabels \cup {"app", "validate", "commit_clock"}
     \/ At(t, "drop_reads") /\ tx[t].i = 1

\* What the two kinds of builds can reach.
KindOf(t) ==
  /\ VisibleBuild => tx[t].r_set = {} /\ ~Reading(t) /\ ~At(t, "read")
  /\ VisibleBuild => (Running(t) => ~tx[t].ro) /\ (tx[t].pc \in CallLabels => tx[t].op # "read")
  /\ tx[t].pc \in FreeLabels \cup {"app"} => tx[t].op = "read"
  /\ tx[t].pc \in {"write", "upgrade", "do_write"} => tx[t].op = "write"
  /\ ~VisibleBuild => tx[t].op # "vread" /\ tx[t].pc \notin {"vread", "upgrade"}
  /\ Reading(t) => tx[t].l.owner = NoOwner
  /\ Running(t) /\ tx[t].ro => W(t) = <<>> /\ tx[t].op # "write"
  /\ ~VisibleBuild /\ Modular /\ W(t) # <<>> => tx[t].has_writes > 0
  /\ At(t, "own_value") /\ ~Killed(t) => locks[ArgLock(t)].owner = t
  /\ At(t, "drop_reads") => VisibleBuild

\* Only visible reads lock for reading; write-back knows no incarnations.
LockKinds ==
  \A k \in Lock :
    /\ ~VisibleBuild /\ LOCK_GET_OWNED(locks[k]) => locks[k].write
    /\ ~WriteThrough /\ ~LOCK_GET_OWNED(locks[k]) => locks[k].inc = 0

\* Entry j of u says to which version a lock goes back.
EntryBacks(u, j, k) ==
  /\ j \in Held(u) /\ LockAt(u, j) = k /\ locks[k].owner = u
  /\ ~W(u)[j].no_drop
  /\ Killed(u) => j = locks[k].n

\* Thread u, which owns lock k, would give it back at version n, incarnation c
\* (write-through counts the incarnation when it does).
BackedBy(u, k, n, c) ==
  \/ \E j \in DOMAIN W(u) :
       EntryBacks(u, j, k) /\ n = W(u)[j].version /\ c = W(u)[j].inc
  \/ /\ At(u, "do_write") /\ ArgLock(u) = k /\ ~LOCK_GET_OWNED(tx[u].l)
     /\ n = tx[u].l.n /\ c = tx[u].l.inc

FreeAt(k, n, c) == ~LOCK_GET_OWNED(locks[k]) /\ n = locks[k].n /\ c = locks[k].inc

\* Lock k is at version n, incarnation c, or was when its owner took it.
Backs(k, n, c) == FreeAt(k, n, c) \/ \E u \in Thread : BackedBy(u, k, n, c)

\* Nothing newer than v is committed under lock k.
Covers(k, v) == \A h \in hist : LockOf[h.addr] = k => h.ts <= v

\* The timestamp a transaction will put into the locks it owns.
Stamped(t) ==
  tx[t].ts # 0 /\ (Ticketed(t) \/ Published(t) \/ tx[t].pc \in {"undo", "undo_release"})

VersionInv ==
  /\ \A k \in Lock, n, c \in Nat : Backs(k, n, c) =>
       /\ n <= clock
       /\ Covers(k, n) \/ \E t \in Thread :
            Published(t) /\ locks[k].owner = t /\ Covers(k, tx[t].ts)
       /\ \A t \in Thread : Stamped(t) /\ locks[k].owner = t => n < tx[t].ts
  /\ \A t \in Thread : Stamped(t) => tx[t].ts <= clock
  /\ \A t \in Thread : Published(t) => tx[t].ts # 0
  /\ \A t \in Thread : At(t, "undo_release") /\ W(t)[tx[t].i].inc = build.INCARNATION_MAX
                         => tx[t].ts # 0
  /\ \A t \in Thread : \A j \in DOMAIN W(t) : ~WriteThrough => W(t)[j].inc = 0

\* One value per address and timestamp.
HistoryUnique == \A g, h \in hist : g.addr = h.addr /\ g.ts = h.ts => g = h

\* A lock word that has been read is never newer than the lock, and a word
\* still there vouches for the value read under it.
ReaderInv(t) ==
  Reading(t) =>
    LET k == ArgLock(t)
        l == tx[t].l IN
    /\ l.n <= clock
    /\ At(t, "validate") => l.n <= tx[t].now
    /\ At(t, "read_recheck") => l.n <= tx[t].end
    /\ \A n, c \in Nat : Backs(k, n, c) => l.n < n \/ (l.n = n /\ l.inc <= c)
    /\ /\ ~At(t, "read_value") /\ Backs(k, l.n, l.inc)
       /\ WriteThrough => ~LOCK_GET_OWNED(locks[k])
       /\ ~\E u \in Thread : Published(u) /\ locks[k].owner = u
       => tx[t].value = mem[tx[t].arg.addr]

\* Since version r.version of its lock nothing under that lock is committed at
\* or before s, or will be.
Still(t, r, s) ==
  /\ \A h \in hist : LockOf[h.addr] = r.lock /\ h.ts <= s => h.ts <= r.version
  /\ \A u \in Thread \ {t} : Ticketed(u) /\ tx[u].ts <= s =>
       \A j \in DOMAIN W(u) : LockAt(u, j) # r.lock

Vouched(t, o) ==
  IF locks[LockOf[o.addr]].owner = t THEN Latest(o.addr, o.value)
  ELSE \E r \in tx[t].r_set : r.lock = LockOf[o.addr] /\ IsValueAt(o.addr, r.version, o.value)

SnapInv(t) ==
  Running(t) /\ ~tx[t].ro =>
    /\ tx[t].start <= tx[t].end /\ tx[t].end <= clock
    /\ \A r \in tx[t].r_set :
         r.version <= tx[t].end /\ (locks[r.lock].owner # t => Still(t, r, tx[t].end))
    /\ \A o \in tx[t].obs : Vouched(t, o)
    /\ At(t, "validate") /\ tx[t].ts = 0 =>
         /\ tx[t].end <= tx[t].now /\ tx[t].now <= clock
         /\ \A r \in tx[t].r_set \ tx[t].todo :
              locks[r.lock].owner # t => Still(t, r, tx[t].now)
    /\ Ticketed(t) =>
         /\ tx[t].end < tx[t].ts
         /\ \A r \in tx[t].r_set \ tx[t].todo :
              locks[r.lock].owner # t => Still(t, r, tx[t].ts - 1)

\* What a published transaction has observed is the state before its
\* timestamp.
SerialInv(t) ==
  Published(t) => \A o \in tx[t].obs :
    /\ IsValueAt(o.addr, tx[t].ts - 1, o.value)
    /\ \A u \in Thread \ {t} : Ticketed(u) /\ tx[u].ts < tx[t].ts =>
         \A j \in DOMAIN W(u) : LockAt(u, j) # LockOf[o.addr]

TxInv(t) == ReadTypes(tx[t]) /\ KindOf(t) /\ ReaderInv(t) /\ SnapInv(t) /\ SerialInv(t)

SInv == LockKinds /\ VersionInv /\ HistoryUnique /\ \A t \in Thread : TxInv(t)

-----------------------------------------------------------------------------
(***************************************************************************)
(* Fields of the descriptor                                                *)
(***************************************************************************)
\* Descriptors that agree but for the fields in S.
SameBut(e, d, S) == Shape(e) /\ \A f \in Fields \ S : e[f] = d[f]

LEMMA BecomeAll ==
  ASSUME tx = [u \in Thread |-> tx[u]], NEW t \in Thread, NEW d, Shape(d), NEW lab,
         Become(t, d, lab)
  PROVE  Moves(t) /\ tx'[t].pc = lab /\ SameBut(tx'[t], d, {"pc"})
<1> DEFINE e == [d EXCEPT !.pc = lab]
<1>1. tx' = [tx EXCEPT ![t] = e]
  BY DEF Become
<1>2. Moves(t) /\ tx'[t] = e
  BY <1>1 DEF Moves
<1>3. Shape(e)
  BY DEF Shape, Fields
<1>4. e.pc = lab /\ \A f \in Fields \ {"pc"} : e[f] = d[f]
  BY DEF Shape, Fields
<1> HIDE DEF e
<1> QED
  BY <1>2, <1>3, <1>4 DEF SameBut

SettledFields == {"arg", "l", "value", "i", "todo", "now", "ts", "seenStatus", "op"}

Cleared(e) ==
  /\ Clean(e) /\ e.value = ZeroWord /\ e.i = 0 /\ e.todo = {} /\ e.now = 0

LEMMA SettledAll ==
  ASSUME NEW d, Shape(d)
  PROVE  SameBut(Settled(d), d, SettledFields) /\ Cleared(Settled(d))
<1> DEFINE e == Settled(d)
<1>1. Shape(e)
  BY DEF Shape, Fields, Settled
<1>2. \A f \in Fields \ SettledFields : e[f] = d[f]
  BY DEF Shape, Fields, SettledFields, Settled
<1>3. Cleared(e)
  BY DEF Shape, Fields, Settled, Cleared, Clean
<1>4. SameBut(e, d, SettledFields)
  <2> HIDE DEF e
  <2> QED
    BY <1>1, <1>2 DEF SameBut
<1> QED
  BY <1>3, <1>4

LEMMA RollbackAll ==
  ASSUME tx = [u \in Thread |-> tx[u]], NEW t \in Thread, NEW d, Shape(d), Rollback(t, d)
  PROVE  /\ Moves(t) /\ tx'[t].pc = "rollback" /\ Cleared(tx'[t])
         /\ SameBut(tx'[t], d, SettledFields \cup {"pc"})
<1> DEFINE e == Settled(d)
<1>1. SameBut(e, d, SettledFields) /\ Cleared(e)
  BY SettledAll
<1>2. Become(t, e, "rollback")
  BY DEF Rollback
<1> HIDE DEF e
<1>3. Moves(t) /\ tx'[t].pc = "rollback" /\ SameBut(tx'[t], e, {"pc"})
  BY <1>1, <1>2, BecomeAll DEF SameBut
<1>4. SameBut(tx'[t], d, SettledFields \cup {"pc"})
  BY <1>1, <1>3, Zenon DEF SameBut
<1>5. Cleared(tx'[t])
  BY <1>1, <1>3 DEF SameBut, Cleared, Clean, Fields
<1> QED
  BY <1>3, <1>4, <1>5

LEMMA ReturnedAll ==
  ASSUME NEW d, Shape(d), NEW w, NEW b
  PROVE  /\ SameBut(Returned(d, w, b), d, SettledFields \cup {"obs", "own"})
         /\ Cleared(Returned(d, w, b))
         /\ Returned(d, w, b).obs =
              IF b THEN d.obs \cup {[addr |-> d.arg.addr, value |-> w]} ELSE d.obs
<1> DEFINE s == Settled(d)
           o == IF b THEN d.obs \cup {[addr |-> d.arg.addr, value |-> w]} ELSE d.obs
           q == s.own \cup {[addr |-> d.arg.addr, byte |-> x, value |-> w[x]] : x \in Byte}
           e == [s EXCEPT !.obs = o, !.own = q]
<1>1. SameBut(s, d, SettledFields) /\ Cleared(s)
  BY SettledAll
<1>2. s.obs = d.obs
  BY <1>1 DEF SameBut, SettledFields, Fields
<1>3. Returned(d, w, b) = e
  BY <1>2 DEF Returned
<1> HIDE DEF s, o, q
<1>4. Shape(e)
  BY <1>1 DEF SameBut, Shape, Fields
<1>5. e.obs = o /\ \A f \in Fields \ {"obs", "own"} : e[f] = s[f]
  BY <1>1 DEF SameBut, Shape, Fields
<1> HIDE DEF e
<1>6. SameBut(e, d, SettledFields \cup {"obs", "own"})
  BY <1>1, <1>4, <1>5, Zenon DEF SameBut
<1>7. Cleared(e)
  BY <1>1, <1>5 DEF Cleared, Clean, Fields
<1> QED
  BY <1>3, <1>5, <1>6, <1>7 DEF o

LEMMA StoredAll ==
  ASSUME NEW d, Shape(d)
  PROVE  SameBut(Stored(d), d, SettledFields \cup {"own"}) /\ Cleared(Stored(d))
<1> DEFINE s == Settled(d)
           q == {o \in s.own : o.addr # d.arg.addr \/ o.byte \notin d.arg.mask} \cup
                {[addr |-> d.arg.addr, byte |-> b, value |-> d.arg.value[b]] : b \in d.arg.mask}
           e == [s EXCEPT !.own = q]
<1>1. SameBut(s, d, SettledFields) /\ Cleared(s)
  BY SettledAll
<1>3. Stored(d) = e
  BY DEF Stored
<1> HIDE DEF s, q
<1>4. Shape(e)
  BY <1>1 DEF SameBut, Shape, Fields
<1>5. \A f \in Fields \ {"own"} : e[f] = s[f]
  BY <1>1 DEF SameBut, Shape, Fields
<1> HIDE DEF e
<1>6. SameBut(e, d, SettledFields \cup {"own"})
  BY <1>1, <1>4, <1>5, Zenon DEF SameBut
<1>7. Cleared(e)
  BY <1>1, <1>5 DEF Cleared, Clean, Fields
<1> QED
  BY <1>3, <1>6, <1>7

\* Become, after a descriptor that is known but for some fields.
LEMMA BecomeBut ==
  ASSUME tx = [u \in Thread |-> tx[u]], NEW t \in Thread, NEW d, NEW S,
         SameBut(d, tx[t], S), NEW lab, Become(t, d, lab)
  PROVE  /\ Moves(t) /\ tx'[t].pc = lab /\ SameBut(tx'[t], tx[t], S \cup {"pc"})
         /\ \A f \in Fields \ {"pc"} : tx'[t][f] = d[f]
<1>1. Moves(t) /\ tx'[t].pc = lab /\ SameBut(tx'[t], d, {"pc"})
  BY BecomeAll DEF SameBut
<1> QED
  BY <1>1, Zenon DEF SameBut

-----------------------------------------------------------------------------
(***************************************************************************)
(* What a step of one thread means to the others                           *)
(***************************************************************************)
\* The other threads stay as they are, but for being killed.
OthersSame(t) ==
  \A u \in Thread \ {t} : SameBut(tx'[u], tx[u], {"status"}) /\ (Killed(u) => Killed(u)')

LEMMA MovesOthers ==
  ASSUME Inv, NEW t \in Thread, Moves(t)
  PROVE  OthersSame(t)
BY DEF Inv, TypeOK, TxTypes, Moves, OthersSame, SameBut, Killed

\* Everything the invariant says of the position of a thread.
SamePlace(u) ==
  /\ tx'[u].pc = tx[u].pc /\ tx'[u].w_set = tx[u].w_set /\ tx'[u].ts = tx[u].ts
  /\ tx'[u].arg = tx[u].arg /\ tx'[u].l = tx[u].l /\ tx'[u].i = tx[u].i
  /\ tx'[u].op = tx[u].op /\ tx'[u].ro = tx[u].ro
  /\ tx'[u].start = tx[u].start /\ tx'[u].end = tx[u].end /\ tx'[u].now = tx[u].now
  /\ tx'[u].r_set = tx[u].r_set /\ tx'[u].todo = tx[u].todo /\ tx'[u].obs = tx[u].obs
  /\ tx'[u].value = tx[u].value /\ tx'[u].has_writes = tx[u].has_writes
  /\ tx'[u].visible_reads = tx[u].visible_reads

SamePosition(u) ==
  /\ W(u)' = W(u) /\ ArgLock(u)' = ArgLock(u)
  /\ \A j : LockAt(u, j)' = LockAt(u, j)
  /\ Ticketed(u)' <=> Ticketed(u)
  /\ Published(u)' <=> Published(u)
  /\ Reading(u)' <=> Reading(u)
  /\ \A lab : At(u, lab)' <=> At(u, lab)

LEMMA OtherPlace ==
  ASSUME build' = build, NEW t \in Thread, OthersSame(t), NEW u \in Thread \ {t}
  PROVE  SamePlace(u) /\ SamePosition(u) /\ (Running(u)' => Running(u))
<1>1. \A f \in Fields \ {"status"} : tx'[u][f] = tx[u][f]
  BY DEF OthersSame, SameBut
<1>2. SamePlace(u)
  BY <1>1 DEF SamePlace, Fields
<1>3. SamePosition(u)
  BY <1>2 DEF SamePlace, SamePosition, W, ArgLock, LockAt, LockOf, Ticketed, Published, Reading, At
<1>4. Killed(u) => Killed(u)'
  BY DEF OthersSame
<1>5. Running(u)' => Running(u)
  BY <1>2, <1>4 DEF SamePlace, Running, At
<1> QED
  BY <1>2, <1>3, <1>5

\* What t adds to the history: words under its own locks, at a new timestamp or
\* at the one it has taken before.
HistStep(t) ==
  /\ hist \subseteq hist'
  /\ \E v \in Nat :
       /\ v > clock \/ (Ticketed(t) /\ v = tx[t].ts)
       /\ \A g \in hist' \ hist :
            /\ g.ts = v /\ locks[LockOf[g.addr]].owner = t
            /\ \E j \in DOMAIN W(t) : LockAt(t, j) = LockOf[g.addr]

TicketStep(t) ==
  Ticketed(t)' => \/ Ticketed(t) /\ W(t)' = W(t) /\ tx'[t].ts = tx[t].ts
                  \/ tx'[t].ts > clock

OwnerStep(t) ==
  \A u \in Thread \ {t} : \A k \in Lock : ~Killed(u)' =>
    (locks'[k].owner = u <=> locks[k].owner = u)

MemStep(t) ==
  \A a \in Addr : \/ mem'[a] = mem[a]
                  \/ locks'[LockOf[a]].owner = t /\ (WriteThrough \/ Published(t)')

Newer(k, n, c) ==
  \E n0, c0 \in Nat : Backs(k, n0, c0) /\ (n0 < n \/ (n0 = n /\ c0 < c))

BacksStep(t) ==
  \A k \in Lock, n, c \in Nat : Backs(k, n, c)' =>
    \/ Newer(k, n, c)
    \/ /\ Backs(k, n, c)
       /\ WriteThrough /\ ~LOCK_GET_OWNED(locks'[k]) => ~LOCK_GET_OWNED(locks[k])
       /\ Published(t) /\ locks[k].owner = t => Published(t)' /\ locks'[k].owner = t

SharedStep(t) ==
  /\ build' = build /\ clock \in Nat /\ clock' \in Nat /\ clock <= clock'
  /\ OthersSame(t) /\ HistStep(t) /\ TicketStep(t) /\ OwnerStep(t) /\ MemStep(t) /\ BacksStep(t)

LEMMA StillKept ==
  ASSUME Inv', NEW t \in Thread, SharedStep(t), NEW u \in Thread \ {t}, NEW r, NEW s \in Nat,
         s <= clock, Still(u, r, s)
  PROVE  Still(u, r, s)'
<1>1. LockOf' = LockOf
  BY DEF LockOf, SharedStep
<1>2. ASSUME NEW h \in hist', LockOf[h.addr] = r.lock, h.ts <= s
      PROVE  h.ts <= r.version
  <2>1. CASE h \in hist
    BY <2>1, <1>2 DEF Still
  <2>2. CASE h \notin hist
    <3>1. PICK v \in Nat : /\ v > clock \/ (Ticketed(t) /\ v = tx[t].ts)
                           /\ h.ts = v
                           /\ \E j \in DOMAIN W(t) : LockAt(t, j) = LockOf[h.addr]
      BY <2>2 DEF SharedStep, HistStep
    <3>2. Ticketed(t) /\ tx[t].ts <= s
      BY <3>1, <1>2 DEF SharedStep
    <3> QED
      BY <3>1, <3>2, <1>2 DEF Still
  <2> QED
    BY <2>1, <2>2
<1>3. ASSUME NEW w \in Thread \ {u}, Ticketed(w)', tx'[w].ts <= s, NEW j \in DOMAIN W(w)'
      PROVE  LockAt(w, j)' # r.lock
  <2>1. CASE w = t
    <3>1. Ticketed(t) /\ W(t)' = W(t) /\ tx'[t].ts = tx[t].ts
      <4>2. (Ticketed(t) /\ W(t)' = W(t) /\ tx'[t].ts = tx[t].ts) \/ tx'[t].ts > clock
        BY <1>3, <2>1 DEF SharedStep, TicketStep
      <4>3. ~(tx'[t].ts > clock)
        BY <1>3, <2>1 DEF SharedStep, Inv, TypeOK, TxTypes
      <4> QED
        BY <4>2, <4>3
    <3>2. LockAt(t, j)' = LockAt(t, j)
      BY <1>1, <3>1 DEF LockAt, W
    <3> QED
      BY <1>3, <2>1, <3>1, <3>2 DEF Still
  <2>2. CASE w # t
    <3>1. SamePlace(w) /\ SamePosition(w)
      BY <2>2, OtherPlace DEF SharedStep
    <3> QED
      BY <1>3, <3>1 DEF Still, SamePosition, SamePlace
  <2> QED
    BY <2>1, <2>2
<1> QED
  BY <1>1, <1>2, <1>3 DEF Still

LEMMA ValueKept ==
  ASSUME NEW t \in Thread, SharedStep(t), NEW a, NEW s \in Nat, s <= clock, NEW w,
         Ticketed(t) /\ tx[t].ts <= s => \A j \in DOMAIN W(t) : LockAt(t, j) # LockOf[a],
         IsValueAt(a, s, w)
  PROVE  IsValueAt(a, s, w)'
<1>1. PICK h \in hist : /\ h.addr = a /\ h.ts <= s /\ h.value = w
                        /\ \A g \in hist : g.addr = a /\ g.ts <= s => g.ts <= h.ts
  BY DEF IsValueAt
<1>2. ASSUME NEW g \in hist', g.addr = a, g.ts <= s
      PROVE  g.ts <= h.ts
  <2>1. CASE g \in hist
    BY <2>1, <1>1, <1>2
  <2>2. CASE g \notin hist
    <3>1. PICK v \in Nat : /\ v > clock \/ (Ticketed(t) /\ v = tx[t].ts)
                           /\ g.ts = v
                           /\ \E j \in DOMAIN W(t) : LockAt(t, j) = LockOf[g.addr]
      BY <2>2 DEF SharedStep, HistStep
    <3>2. Ticketed(t) /\ tx[t].ts <= s
      BY <3>1, <1>2 DEF SharedStep
    <3> QED
      BY <3>1, <3>2, <1>2
  <2> QED
    BY <2>1, <2>2
<1>3. h \in hist'
  BY DEF SharedStep, HistStep
<1> QED
  BY <1>1, <1>2, <1>3 DEF IsValueAt

LEMMA LatestKept ==
  ASSUME NEW t \in Thread, SharedStep(t), NEW a, NEW w,
         locks[LockOf[a]].owner # t, Latest(a, w)
  PROVE  Latest(a, w)'
<1>1. PICK h \in hist : /\ h.addr = a /\ h.value = w
                        /\ \A g \in hist : g.addr = a => g.ts <= h.ts
  BY DEF Latest
<1>2. h \in hist' /\ \A g \in hist' : g.addr = a => g \in hist
  BY DEF SharedStep, HistStep
<1> QED
  BY <1>1, <1>2 DEF Latest

LEMMA PublishedAlive ==
  ASSUME Inv', NEW u \in Thread, Published(u)'
  PROVE  ~Killed(u)'
<1>1. LocalOK(u)'
  BY DEF Inv, LocalInv
<1> QED
  BY <1>1 DEF Published, LocalOK, StatusPhase, LabelsOfBuild, InCall, CallLabels, At, Killed

LEMMA ReaderKept ==
  ASSUME Inv, Inv', SInv, NEW t \in Thread, SharedStep(t), NEW u \in Thread \ {t}
  PROVE  ReaderInv(u)'
<1> SUFFICES ASSUME Reading(u)' PROVE ReaderInv(u)'
  BY DEF ReaderInv
<1>0. PICK k, l : k = ArgLock(u) /\ l = tx[u].l
  OBVIOUS
<1>1. SamePlace(u) /\ SamePosition(u)
  BY OtherPlace DEF SharedStep
<1>2. Reading(u) /\ ReaderInv(u) /\ TxTypes(tx[u]) /\ k \in Lock /\ l \in LockWord
  BY <1>0, <1>1, ArgLockIs DEF SamePosition, SInv, TxInv, TxTypes
<1>3. l.n \in Nat /\ l.inc \in Nat /\ tx[u].arg.addr \in Addr /\ k = LockOf[tx[u].arg.addr]
  BY <1>0, <1>2 DEF LockWord, TxTypes, Argument, ArgLock
<1>4. ArgLock(u)' = k /\ tx'[u].l = l
  BY <1>0, <1>1 DEF SamePlace, SamePosition
<1>5. l.n <= clock'
  <2>1. l.n <= clock
    BY <1>0, <1>2 DEF ReaderInv
  <2> QED
    BY <1>3, <2>1 DEF SharedStep
<1>6. ASSUME NEW n \in Nat, NEW c \in Nat, Backs(k, n, c)
      PROVE  l.n < n \/ (l.n = n /\ l.inc <= c)
  BY <1>0, <1>2, <1>6 DEF ReaderInv
<1>7. ASSUME NEW n \in Nat, NEW c \in Nat, Backs(k, n, c)'
      PROVE  l.n < n \/ (l.n = n /\ l.inc <= c)
  <2>1. CASE Newer(k, n, c)
    <3>1. PICK n0 \in Nat, c0 \in Nat : Backs(k, n0, c0) /\ (n0 < n \/ (n0 = n /\ c0 < c))
      BY <2>1 DEF Newer
    <3>2. l.n < n0 \/ (l.n = n0 /\ l.inc <= c0)
      BY <1>6, <3>1
    <3> QED
      BY <1>3, <3>1, <3>2
  <2>2. CASE Backs(k, n, c)
    BY <1>6, <2>2
  <2> QED
    BY <1>2, <1>7, <2>1, <2>2 DEF SharedStep, BacksStep
<1>8. ASSUME ~At(u, "read_value")', Backs(k, l.n, l.inc)',
             WriteThrough => ~LOCK_GET_OWNED(locks'[k]),
             ~\E w \in Thread : Published(w)' /\ locks'[k].owner = w
      PROVE  tx[u].value = mem'[tx[u].arg.addr]
  <2>1. ~Newer(k, l.n, l.inc)
    <3> SUFFICES ASSUME Newer(k, l.n, l.inc) PROVE FALSE
      OBVIOUS
    <3>1. PICK n0 \in Nat, c0 \in Nat : Backs(k, n0, c0) /\ (n0 < l.n \/ (n0 = l.n /\ c0 < l.inc))
      BY DEF Newer
    <3>2. l.n < n0 \/ (l.n = n0 /\ l.inc <= c0)
      BY <1>6, <3>1
    <3> QED
      BY <1>3, <3>1, <3>2
  <2>2. /\ Backs(k, l.n, l.inc)
        /\ WriteThrough /\ ~LOCK_GET_OWNED(locks'[k]) => ~LOCK_GET_OWNED(locks[k])
        /\ Published(t) /\ locks[k].owner = t => Published(t)' /\ locks'[k].owner = t
    BY <1>2, <1>3, <1>8, <2>1 DEF SharedStep, BacksStep
  <2>3. ~\E w \in Thread : Published(w) /\ locks[k].owner = w
    <3> SUFFICES ASSUME NEW w \in Thread, Published(w), locks[k].owner = w PROVE FALSE
      OBVIOUS
    <3>1. w # t
      BY <1>8, <2>2
    <3>2. Published(w)' /\ ~Killed(w)'
      BY <3>1, OtherPlace, PublishedAlive DEF SharedStep, SamePosition
    <3>3. locks'[k].owner = w
      BY <1>2, <3>1, <3>2 DEF SharedStep, OwnerStep
    <3> QED
      BY <1>8, <3>2, <3>3
  <2>4. tx[u].value = mem[tx[u].arg.addr]
    <3>1. ~At(u, "read_value")
      BY <1>1, <1>8 DEF SamePosition
    <3> QED
      BY <1>0, <1>2, <1>8, <2>2, <2>3, <3>1 DEF ReaderInv
  <2>5. mem'[tx[u].arg.addr] = mem[tx[u].arg.addr]
    <3> SUFFICES ASSUME locks'[k].owner = t, WriteThrough \/ Published(t)' PROVE FALSE
      BY <1>3 DEF SharedStep, MemStep
    <3>1. t # NoOwner
      BY EtlAssumption
    <3> QED
      BY <1>8, <3>1 DEF LOCK_GET_OWNED
  <2> QED
    BY <2>4, <2>5
<1>9. /\ At(u, "validate")' => l.n <= tx'[u].now
      /\ At(u, "read_recheck")' => l.n <= tx'[u].end
  BY <1>0, <1>1, <1>2 DEF ReaderInv, SamePlace, SamePosition
<1>10. tx'[u].value = tx[u].value /\ tx'[u].arg = tx[u].arg
       /\ (WriteThrough' <=> WriteThrough)
  BY <1>1 DEF SamePlace, WriteThrough, SharedStep
<1> QED
  BY <1>4, <1>5, <1>7, <1>8, <1>9, <1>10 DEF ReaderInv

LEMMA SnapKept ==
  ASSUME Inv, Inv', SInv, NEW t \in Thread, SharedStep(t), NEW u \in Thread \ {t}
  PROVE  SnapInv(u)'
<1> SUFFICES ASSUME Running(u)', ~tx'[u].ro PROVE SnapInv(u)'
  BY DEF SnapInv
<1>1. SamePlace(u) /\ SamePosition(u) /\ Running(u)
  BY OtherPlace DEF SharedStep
<1>2. ReadTypes(tx[u]) /\ SnapInv(u) /\ ~tx[u].ro /\ ~Killed(u)'
  BY <1>1 DEF SInv, TxInv, SamePlace, Running
<1>3. LockOf' = LockOf /\ LockOf \in [Addr -> Lock]
  BY BuildIs DEF LockOf, SharedStep, Inv, TypeOK
<1>4. \A k \in Lock : locks'[k].owner = u <=> locks[k].owner = u
  BY <1>2 DEF SharedStep, OwnerStep
<1>5. clock \in Nat /\ clock' \in Nat /\ clock <= clock'
  BY DEF SharedStep
<1>6. tx[u].start <= tx[u].end /\ tx[u].end <= clock /\ tx[u].end \in Nat
  BY <1>1, <1>2 DEF SnapInv, ReadTypes
<1>7. \A r \in tx[u].r_set : r \in ReadEntry /\ r.lock \in Lock /\ r.version \in Nat
  BY <1>2 DEF ReadTypes, ReadEntry
<1>8. ASSUME NEW r \in tx[u].r_set
      PROVE  r.version <= tx[u].end /\ (locks'[r.lock].owner # u => Still(u, r, tx[u].end)')
  <2>1. r.version <= tx[u].end /\ (locks[r.lock].owner # u => Still(u, r, tx[u].end))
    BY <1>1, <1>2 DEF SnapInv
  <2>2. ASSUME locks'[r.lock].owner # u PROVE Still(u, r, tx[u].end)'
    <3>1. PICK s \in Nat : s = tx[u].end
      BY <1>6
    <3>2. Still(u, r, s)
      BY <1>4, <1>7, <2>1, <2>2, <3>1
    <3>3. Still(u, r, s)'
      BY <1>6, <3>1, <3>2, StillKept
    <3>4. tx'[u].end = s
      BY <1>1, <3>1 DEF SamePlace
    <3> QED
      BY <3>3, <3>4
  <2> QED
    BY <2>1, <2>2
<1>9. ASSUME NEW o \in tx[u].obs
      PROVE  Vouched(u, o)'
  <2>1. o.addr \in Addr /\ LockOf[o.addr] \in Lock
    BY <1>2, <1>3 DEF ReadTypes, Observation
  <2>2. Vouched(u, o)
    BY <1>1, <1>2 DEF SnapInv
  <2>3. CASE locks[LockOf[o.addr]].owner = u
    <3>1. locks'[LockOf[o.addr]].owner = u
      BY <1>4, <2>1, <2>3
    <3>2. Latest(o.addr, o.value)'
      BY <2>2, <2>3, LatestKept DEF Vouched
    <3> QED
      BY <1>3, <3>1, <3>2 DEF Vouched
  <2>4. CASE locks[LockOf[o.addr]].owner # u
    <3>1. locks'[LockOf[o.addr]].owner # u
      BY <1>4, <2>1, <2>4
    <3>2. PICK r \in tx[u].r_set : r.lock = LockOf[o.addr] /\ IsValueAt(o.addr, r.version, o.value)
      BY <2>2, <2>4 DEF Vouched
    <3>3. r.version <= tx[u].end /\ Still(u, r, tx[u].end)
      BY <1>1, <1>2, <2>4, <3>2 DEF SnapInv
    <3>4. ASSUME Ticketed(t), tx[t].ts <= r.version
          PROVE  \A j \in DOMAIN W(t) : LockAt(t, j) # LockOf[o.addr]
      <4>1. tx[t].ts \in Nat
        BY DEF Inv, TypeOK, TxTypes
      <4>2. tx[t].ts <= tx[u].end
        BY <1>6, <1>7, <3>3, <3>4, <4>1
      <4> QED
        BY <3>2, <3>3, <3>4, <4>2 DEF Still
    <3>5. r.version \in Nat /\ r.version <= clock
      BY <1>5, <1>6, <1>7, <3>3
    <3>6. IsValueAt(o.addr, r.version, o.value)'
      BY <3>2, <3>4, <3>5, ValueKept
    <3> QED
      BY <1>1, <1>3, <3>1, <3>2, <3>6 DEF Vouched, SamePlace
  <2> QED
    BY <2>3, <2>4
<1>10. ASSUME NEW s \in Nat, s <= clock,
              \A r \in tx[u].r_set \ tx[u].todo : locks[r.lock].owner # u => Still(u, r, s)
       PROVE  \A r \in tx[u].r_set \ tx[u].todo : locks'[r.lock].owner # u => Still(u, r, s)'
  <2> SUFFICES ASSUME NEW r \in tx[u].r_set \ tx[u].todo, locks'[r.lock].owner # u
               PROVE  Still(u, r, s)'
    OBVIOUS
  <2>1. locks[r.lock].owner # u
    BY <1>4, <1>7
  <2> QED
    BY <1>10, <2>1, StillKept
<1>11. ASSUME At(u, "validate")', tx'[u].ts = 0
       PROVE  /\ tx'[u].end <= tx'[u].now /\ tx'[u].now <= clock'
              /\ \A r \in tx'[u].r_set \ tx'[u].todo :
                   locks'[r.lock].owner # u => Still(u, r, tx[u].now)'
  <2>1. At(u, "validate") /\ tx[u].ts = 0
    BY <1>1, <1>11 DEF SamePlace, SamePosition
  <2>2. PICK s \in Nat : s = tx[u].now
    BY <1>2 DEF ReadTypes
  <2>3. /\ tx[u].end <= s /\ s <= clock
        /\ \A r \in tx[u].r_set \ tx[u].todo : locks[r.lock].owner # u => Still(u, r, s)
    BY <1>1, <1>2, <2>1, <2>2 DEF SnapInv
  <2>4. \A r \in tx[u].r_set \ tx[u].todo : locks'[r.lock].owner # u => Still(u, r, s)'
    BY <1>10, <2>3
  <2>5. tx'[u].now = s /\ s <= clock'
    BY <1>1, <1>5, <2>2, <2>3 DEF SamePlace
  <2> QED
    BY <1>1, <2>3, <2>4, <2>5 DEF SamePlace
<1>12. ASSUME Ticketed(u)'
       PROVE  /\ tx'[u].end < tx'[u].ts
              /\ \A r \in tx'[u].r_set \ tx'[u].todo :
                   locks'[r.lock].owner # u => Still(u, r, tx[u].ts - 1)'
  <2>1. Ticketed(u) /\ tx[u].ts \in Nat /\ tx[u].ts # 0 /\ tx[u].ts <= clock
    BY <1>1, <1>12 DEF SamePosition, Ticketed, SInv, VersionInv, Stamped, Inv, TypeOK, TxTypes
  <2>2. PICK s \in Nat : s = tx[u].ts - 1
    BY <2>1
  <2>3. /\ tx[u].end < tx[u].ts /\ s <= clock
        /\ \A r \in tx[u].r_set \ tx[u].todo : locks[r.lock].owner # u => Still(u, r, s)
    BY <1>1, <1>2, <1>5, <2>1, <2>2 DEF SnapInv
  <2>4. \A r \in tx[u].r_set \ tx[u].todo : locks'[r.lock].owner # u => Still(u, r, s)'
    BY <1>10, <2>3
  <2>5. tx'[u].ts = tx[u].ts /\ tx'[u].ts - 1 = s
    BY <1>1, <2>2 DEF SamePlace
  <2> QED
    BY <1>1, <2>3, <2>4, <2>5 DEF SamePlace
<1>13. tx'[u].start <= tx'[u].end /\ tx'[u].end <= clock'
  BY <1>1, <1>5, <1>6 DEF SamePlace
<1> QED
  BY <1>1, <1>8, <1>9, <1>11, <1>12, <1>13 DEF SnapInv, SamePlace

LEMMA SerialKept ==
  ASSUME Inv, Inv', SInv, NEW t \in Thread, SharedStep(t), NEW u \in Thread \ {t}
  PROVE  SerialInv(u)'
<1> SUFFICES ASSUME Published(u)', NEW o \in tx'[u].obs
             PROVE  /\ IsValueAt(o.addr, tx[u].ts - 1, o.value)'
                    /\ \A w \in Thread \ {u} : Ticketed(w)' /\ tx'[w].ts < tx'[u].ts =>
                         \A j \in DOMAIN W(w)' : LockAt(w, j)' # LockOf'[o.addr]
  BY DEF SerialInv
<1>1. SamePlace(u) /\ SamePosition(u)
  BY OtherPlace DEF SharedStep
<1>2. /\ o \in tx[u].obs /\ Published(u) /\ SerialInv(u) /\ tx'[u].ts = tx[u].ts
      /\ tx[u].ts \in Nat /\ tx[u].ts # 0 /\ tx[u].ts <= clock
  BY <1>1 DEF SamePlace, SamePosition, SInv, TxInv, VersionInv, Stamped, Inv, TypeOK, TxTypes
<1>3. LockOf' = LockOf /\ clock \in Nat
  BY DEF LockOf, SharedStep
<1>4. PICK s \in Nat : s = tx[u].ts - 1 /\ s <= clock
  BY <1>2, <1>3
<1>5. \A w \in Thread : tx[w].ts \in Nat
  BY DEF Inv, TypeOK, TxTypes
<1>6. IsValueAt(o.addr, s, o.value)'
  <2>1. IsValueAt(o.addr, s, o.value)
    BY <1>2, <1>4 DEF SerialInv
  <2>2. Ticketed(t) /\ tx[t].ts <= s => \A j \in DOMAIN W(t) : LockAt(t, j) # LockOf[o.addr]
    <3>1. tx[t].ts <= s => tx[t].ts < tx[u].ts
      BY <1>2, <1>4, <1>5
    <3> QED
      BY <1>2, <3>1 DEF SerialInv
  <2> QED
    BY <1>4, <2>1, <2>2, ValueKept
<1>7. ASSUME NEW w \in Thread \ {u}, Ticketed(w)', tx'[w].ts < tx'[u].ts, NEW j \in DOMAIN W(w)'
      PROVE  LockAt(w, j)' # LockOf'[o.addr]
  <2>1. CASE w = t
    <3>0. tx'[t].ts \in Nat
      BY DEF Inv, TypeOK, TxTypes
    <3>1. Ticketed(t) /\ W(t)' = W(t) /\ tx'[t].ts = tx[t].ts
      BY <1>2, <1>3, <1>7, <2>1, <3>0 DEF SharedStep, TicketStep
    <3>2. LockAt(t, j)' = LockAt(t, j)
      BY <1>3, <3>1 DEF LockAt, W
    <3> QED
      BY <1>2, <1>3, <1>7, <2>1, <3>1, <3>2 DEF SerialInv
  <2>2. CASE w # t
    <3>1. SamePlace(w) /\ SamePosition(w)
      BY <2>2, OtherPlace DEF SharedStep
    <3> QED
      BY <1>2, <1>3, <1>7, <3>1 DEF SerialInv, SamePlace, SamePosition
  <2> QED
    BY <2>1, <2>2
<1>8. tx'[u].ts - 1 = s
  BY <1>2, <1>4
<1> QED
  BY <1>6, <1>7, <1>8

LEMMA OthersKept ==
  ASSUME Inv, Inv', SInv, NEW t \in Thread, SharedStep(t), NEW u \in Thread \ {t}
  PROVE  TxInv(u)'
<1>1. SamePlace(u) /\ SamePosition(u) /\ (Running(u)' => Running(u))
  BY OtherPlace DEF SharedStep
<1>2. TxInv(u)
  BY DEF SInv
<1>3. ReadTypes(tx[u])'
  BY <1>1, <1>2 DEF TxInv, ReadTypes, SamePlace
<1>4. ArgLock(u) \in Lock
  BY ArgLockIs
<1>5. KindOf(u)'
  <2>1. (VisibleBuild' <=> VisibleBuild) /\ (Modular' <=> Modular)
    BY DEF VisibleBuild, Modular, SharedStep
  <2>2. At(u, "own_value")' /\ ~Killed(u)' => locks'[ArgLock(u)].owner = u
    <3> SUFFICES ASSUME At(u, "own_value")', ~Killed(u)' PROVE locks'[ArgLock(u)].owner = u
      OBVIOUS
    <3>1. ~Killed(u)
      BY DEF SharedStep, OthersSame
    <3>2. locks[ArgLock(u)].owner = u
      BY <1>1, <1>2, <3>1 DEF TxInv, KindOf, SamePosition
    <3> QED
      BY <1>4, <3>2 DEF SharedStep, OwnerStep
  <2> QED
    BY <1>1, <1>2, <2>1, <2>2 DEF TxInv, KindOf, SamePlace, SamePosition
<1> QED
  BY <1>3, <1>5, ReaderKept, SnapKept, SerialKept DEF TxInv

-----------------------------------------------------------------------------
(***************************************************************************)
(* Versions of the locks                                                   *)
(***************************************************************************)
\* The locks of the others are left alone.
ForeignSame(t) == \A k \in Lock : locks'[k].owner \in Thread \ {t} => locks'[k] = locks[k]

LEMMA OtherBacks ==
  ASSUME build' = build, NEW t \in Thread, OthersSame(t), ForeignSame(t),
         NEW u \in Thread \ {t}, NEW k \in Lock, NEW n, NEW c, BackedBy(u, k, n, c)'
  PROVE  BackedBy(u, k, n, c)
<1>1. SamePlace(u) /\ SamePosition(u) /\ (Killed(u) => Killed(u)')
  BY OtherPlace DEF OthersSame
<1>2. CASE At(u, "do_write")' /\ ArgLock(u)' = k /\ ~LOCK_GET_OWNED(tx'[u].l)
           /\ n = tx'[u].l.n /\ c = tx'[u].l.inc
  BY <1>1, <1>2 DEF BackedBy, SamePlace, SamePosition
<1>3. CASE \E j \in DOMAIN W(u)' :
             EntryBacks(u, j, k)' /\ n = W(u)'[j].version /\ c = W(u)'[j].inc
  <2>1. PICK j \in DOMAIN W(u)' :
             EntryBacks(u, j, k)' /\ n = W(u)'[j].version /\ c = W(u)'[j].inc
    BY <1>3
  <2>2. locks'[k] = locks[k]
    BY <2>1 DEF EntryBacks, ForeignSame
  <2>3. Held(u)' = Held(u)
    BY <1>1 DEF Held, SamePlace, W, At, Releasing, WriteThrough
  <2>4. EntryBacks(u, j, k)
    BY <1>1, <2>1, <2>2, <2>3 DEF EntryBacks, SamePosition
  <2> QED
    BY <1>1, <2>1, <2>4 DEF BackedBy, SamePosition
<1> QED
  BY <1>2, <1>3 DEF BackedBy, LOCK_GET_OWNED

\* The log of t stays as it is.
LogSame(t) ==
  /\ W(t)' = W(t) /\ Held(t)' \subseteq Held(t) /\ (Killed(t) => Killed(t)')
  /\ At(t, "do_write")' =>
       At(t, "do_write") /\ tx'[t].l = tx[t].l /\ tx'[t].arg = tx[t].arg

LEMMA OwnBacks ==
  ASSUME build' = build, NEW t \in Thread, LogSame(t),
         NEW k \in Lock, locks'[k].owner = t => locks[k].owner = t /\ locks'[k].n = locks[k].n,
         NEW n, NEW c, BackedBy(t, k, n, c)'
  PROVE  BackedBy(t, k, n, c)
<1>1. LockOf' = LockOf
  BY DEF LockOf
<1>2. CASE At(t, "do_write")' /\ ArgLock(t)' = k /\ ~LOCK_GET_OWNED(tx'[t].l)
           /\ n = tx'[t].l.n /\ c = tx'[t].l.inc
  BY <1>1, <1>2 DEF BackedBy, LogSame, ArgLock
<1>3. CASE \E j \in DOMAIN W(t)' :
             EntryBacks(t, j, k)' /\ n = W(t)'[j].version /\ c = W(t)'[j].inc
  <2>1. PICK j \in DOMAIN W(t)' :
             EntryBacks(t, j, k)' /\ n = W(t)'[j].version /\ c = W(t)'[j].inc
    BY <1>3
  <2>2. LockAt(t, j)' = LockAt(t, j)
    BY <1>1 DEF LockAt, LogSame, W
  <2>4. EntryBacks(t, j, k)
    BY <2>1, <2>2 DEF EntryBacks, LogSame
  <2> QED
    BY <2>1, <2>4 DEF BackedBy, LogSame
<1> QED
  BY <1>2, <1>3 DEF BackedBy, LOCK_GET_OWNED

\* Nothing about versions changes but for what t says of itself.
VersionLocal(t) ==
  /\ Published(t) => tx[t].ts # 0
  /\ At(t, "undo_release") /\ W(t)[tx[t].i].inc = build.INCARNATION_MAX => tx[t].ts # 0
  /\ \A j \in DOMAIN W(t) : ~WriteThrough => W(t)[j].inc = 0

\* A lock goes back to a version it was at before, or free to one that covers
\* all that is committed under it.
VersionStep(t) ==
  \A k \in Lock, n, c \in Nat : Backs(k, n, c)' =>
    \/ /\ Backs(k, n, c)
       /\ Published(t) /\ locks[k].owner = t =>
            Published(t)' /\ locks'[k].owner = t /\ tx'[t].ts = tx[t].ts
    \/ ~LOCK_GET_OWNED(locks'[k]) /\ n <= clock /\ Covers(k, n)

LEMMA VersionsKept ==
  ASSUME Inv, Inv', SInv, NEW t \in Thread, SharedStep(t), hist' = hist, VersionStep(t),
         Stamped(t)' =>
           \/ /\ Stamped(t) /\ tx'[t].ts = tx[t].ts
              /\ \A k \in Lock : locks'[k].owner = t => locks[k].owner = t
           \/ tx'[t].ts = clock' /\ clock < clock',
         VersionLocal(t)'
  PROVE  VersionInv'
<1>1. LockOf' = LockOf /\ (WriteThrough' <=> WriteThrough)
  BY DEF LockOf, WriteThrough, SharedStep
<1>2. clock \in Nat /\ clock' \in Nat /\ clock <= clock'
  BY DEF SharedStep
<1>3. \A u \in Thread \ {t} : SamePlace(u) /\ SamePosition(u)
  BY OtherPlace DEF SharedStep
<1>4. \A k, v : Covers(k, v)' <=> Covers(k, v)
  BY <1>1 DEF Covers
<1>5. \A u \in Thread : tx[u].ts \in Nat /\ tx'[u].ts \in Nat
  BY DEF Inv, TypeOK, TxTypes
<1>6. \A u \in Thread \ {t} : /\ Stamped(u)' <=> Stamped(u)
                              /\ Stamped(u)' \/ Published(u)' => ~Killed(u)'
  <2> SUFFICES ASSUME NEW u \in Thread \ {t}
               PROVE  /\ Stamped(u)' <=> Stamped(u)
                      /\ Stamped(u)' \/ Published(u)' => ~Killed(u)'
    OBVIOUS
  <2>1. Stamped(u)' <=> Stamped(u)
    BY <1>3 DEF Stamped, SamePlace, SamePosition
  <2>2. LocalOK(u)'
    BY DEF Inv, LocalInv
  <2>3. Stamped(u)' \/ Published(u)' => ~Killed(u)'
    BY <2>2 DEF Published, Stamped, Ticketed, LocalOK, StatusPhase, LabelsOfBuild, InCall, CallLabels,
         At, Killed
  <2> QED
    BY <2>1, <2>3
<1>7. ASSUME NEW k \in Lock, NEW n \in Nat, NEW c \in Nat, Backs(k, n, c)'
      PROVE  /\ n <= clock'
             /\ Covers(k, n)' \/ \E u \in Thread :
                  Published(u)' /\ locks'[k].owner = u /\ Covers(k, tx[u].ts)'
             /\ \A u \in Thread : Stamped(u)' /\ locks'[k].owner = u => n < tx'[u].ts
  <2>0. CASE ~LOCK_GET_OWNED(locks'[k]) /\ n <= clock /\ Covers(k, n)
    BY <1>2, <1>4, <2>0, EtlAssumption DEF LOCK_GET_OWNED
  <2> SUFFICES ASSUME Backs(k, n, c),
                      Published(t) /\ locks[k].owner = t =>
                        Published(t)' /\ locks'[k].owner = t /\ tx'[t].ts = tx[t].ts
               PROVE  /\ n <= clock'
                      /\ Covers(k, n)' \/ \E u \in Thread :
                           Published(u)' /\ locks'[k].owner = u /\ Covers(k, tx[u].ts)'
                      /\ \A u \in Thread :
                           Stamped(u)' /\ locks'[k].owner = u => n < tx'[u].ts
    BY <1>7, <2>0 DEF VersionStep
  <2>1. /\ n <= clock
        /\ Covers(k, n) \/ \E u \in Thread :
             Published(u) /\ locks[k].owner = u /\ Covers(k, tx[u].ts)
        /\ \A u \in Thread : Stamped(u) /\ locks[k].owner = u => n < tx[u].ts
    BY <1>7 DEF SInv, VersionInv
  <2>2. n <= clock'
    BY <1>2, <2>1
  <2>3. ASSUME NEW u \in Thread, Published(u), locks[k].owner = u, Covers(k, tx[u].ts)
        PROVE  Published(u)' /\ locks'[k].owner = u /\ Covers(k, tx[u].ts)'
    <3>1. CASE u = t
      BY <1>4, <2>3, <3>1
    <3>2. CASE u # t
      <4>1. Published(u)' /\ tx'[u].ts = tx[u].ts
        BY <1>3, <2>3, <3>2 DEF SamePlace, SamePosition
      <4>2. locks'[k].owner = u
        BY <1>6, <2>3, <3>2, <4>1 DEF SharedStep, OwnerStep
      <4> QED
        BY <1>4, <2>3, <4>1, <4>2
    <3> QED
      BY <3>1, <3>2
  <2>4. ASSUME NEW u \in Thread, Stamped(u)', locks'[k].owner = u
        PROVE  n < tx'[u].ts
    <3>1. CASE u = t
      BY <1>2, <1>5, <2>1, <2>4, <3>1
    <3>2. CASE u # t
      <4>1. locks[k].owner = u
        BY <1>6, <2>4, <3>2 DEF SharedStep, OwnerStep
      <4> QED
        BY <1>3, <1>6, <2>1, <2>4, <3>2, <4>1 DEF SamePlace
    <3> QED
      BY <3>1, <3>2
  <2> QED
    BY <1>4, <2>1, <2>2, <2>3, <2>4
<1>8. ASSUME NEW u \in Thread PROVE Stamped(u)' => tx'[u].ts <= clock'
  <2>1. Stamped(u) => tx[u].ts <= clock
    BY DEF SInv, VersionInv
  <2>2. CASE u = t
    BY <1>2, <1>5, <2>1, <2>2
  <2>3. CASE u # t
    BY <1>2, <1>3, <1>5, <1>6, <2>1, <2>3 DEF SamePlace
  <2> QED
    BY <2>2, <2>3
<1>9. ASSUME NEW u \in Thread PROVE VersionLocal(u)'
  <2>1. CASE u = t
    BY <2>1
  <2>2. CASE u # t
    <3>1. VersionLocal(u)
      BY DEF SInv, VersionInv, VersionLocal
    <3> QED
      BY <1>1, <1>3, <2>2, <3>1 DEF VersionLocal, SamePlace, SamePosition, W, SharedStep
  <2> QED
    BY <2>1, <2>2
<1> QED
  BY <1>7, <1>8, <1>9 DEF VersionInv, VersionLocal

LEMMA VersionKept ==
  ASSUME Inv, Inv', SInv, NEW t \in Thread, SharedStep(t), hist' = hist,
         \A k \in Lock, n, c \in Nat : Backs(k, n, c)' => Backs(k, n, c),
         Published(t) => \A k \in Lock : locks[k].owner = t =>
           Published(t)' /\ locks'[k].owner = t /\ tx'[t].ts = tx[t].ts,
         Stamped(t)' =>
           \/ /\ Stamped(t) /\ tx'[t].ts = tx[t].ts
              /\ \A k \in Lock : locks'[k].owner = t => locks[k].owner = t
           \/ tx'[t].ts = clock' /\ clock < clock',
         VersionLocal(t)'
  PROVE  VersionInv'
<1>1. VersionStep(t)
  BY DEF VersionStep
<1> QED
  BY <1>1, VersionsKept

-----------------------------------------------------------------------------
(***************************************************************************)
(* Steps that leave locks, memory and history alone                        *)
(***************************************************************************)
\* The log of t stays as it is, or t has none any more.
LogKept(t) == LogSame(t) \/ (W(t)' = <<>> /\ ~At(t, "do_write")')

LEMMA FrameBacks ==
  ASSUME build' = build, locks' = locks, NEW t \in Thread, OthersSame(t), LogKept(t),
         NEW k \in Lock, NEW n, NEW c, Backs(k, n, c)'
  PROVE  Backs(k, n, c)
<1>1. ForeignSame(t)
  BY DEF ForeignSame
<1>2. CASE FreeAt(k, n, c)'
  BY <1>2 DEF FreeAt, Backs, LOCK_GET_OWNED
<1>3. CASE \E u \in Thread : BackedBy(u, k, n, c)'
  <2>1. PICK u \in Thread : BackedBy(u, k, n, c)'
    BY <1>3
  <2>2. BackedBy(u, k, n, c)
    <3>1. CASE u = t /\ LogSame(t)
      BY <2>1, <3>1, OwnBacks
    <3>2. CASE u # t
      BY <1>1, <2>1, <3>2, OtherBacks
    <3>3. CASE u = t /\ W(t)' = <<>> /\ ~At(t, "do_write")'
      BY <2>1, <3>3 DEF BackedBy
    <3> QED
      BY <3>1, <3>2, <3>3 DEF LogKept
  <2> QED
    BY <2>2 DEF Backs
<1> QED
  BY <1>2, <1>3 DEF Backs

LEMMA QuietStep ==
  ASSUME Inv, Inv', SInv, NEW t \in Thread, OthersSame(t), build' = build,
         UNCHANGED <<locks, mem, hist>>, clock' \in {clock, clock + 1}, LogKept(t),
         ~Published(t), ~Published(t)', TicketStep(t),
         Stamped(t)' => \/ Stamped(t) /\ tx'[t].ts = tx[t].ts
                        \/ tx'[t].ts = clock' /\ clock < clock',
         At(t, "undo_release")' => tx'[t].ts # 0,
         TxInv(t)'
  PROVE  SInv'
<1>1. clock \in Nat /\ clock' \in Nat /\ clock <= clock'
  BY DEF Inv, TypeOK
<1>3. \A k \in Lock, n, c \in Nat : Backs(k, n, c)' => Backs(k, n, c)
  BY FrameBacks
<1>4. SharedStep(t)
  <2>1. HistStep(t)
    <3>1. clock + 1 \in Nat /\ clock + 1 > clock
      BY <1>1
    <3> QED
      BY <3>1 DEF HistStep
  <2>2. OwnerStep(t) /\ MemStep(t)
    BY DEF OwnerStep, MemStep
  <2>3. BacksStep(t)
    BY <1>3 DEF BacksStep
  <2> QED
    BY <1>1, <2>1, <2>2, <2>3 DEF SharedStep
<1>5. VersionLocal(t)'
  <2>1. VersionLocal(t)
    BY DEF SInv, VersionInv, VersionLocal
  <2>2. (WriteThrough' <=> WriteThrough) /\ (W(t)' = W(t) \/ W(t)' = <<>>)
    BY DEF WriteThrough, LogKept, LogSame
  <2> QED
    BY <2>1, <2>2 DEF VersionLocal
<1>6. VersionInv'
  BY <1>3, <1>4, <1>5, VersionKept
<1>7. LockKinds'
  BY DEF SInv, LockKinds, VisibleBuild, Modular, WriteThrough, LOCK_GET_OWNED
<1>8. HistoryUnique'
  BY DEF SInv, HistoryUnique
<1>9. \A u \in Thread : TxInv(u)'
  <2>1. \A u \in Thread \ {t} : TxInv(u)'
    BY <1>4, OthersKept
  <2> QED
    BY <2>1
<1> QED
  BY <1>6, <1>7, <1>8, <1>9 DEF SInv

\* The same, by one thread between labels at which it holds all its entries.
LEMMA PlainStep ==
  ASSUME Inv, Inv', SInv, NEW t \in Thread, Frame, OthersSame(t),
         tx[t].pc \in QuietLabels, tx'[t].pc \in QuietLabels,
         tx'[t].w_set = tx[t].w_set, tx'[t].status = "KILLED" <=> tx[t].status = "KILLED",
         tx'[t].ts # 0 => tx'[t].ts = tx[t].ts /\ tx[t].pc = "validate",
         TxInv(t)'
  PROVE  SInv'
<1>2. /\ ~Published(t) /\ ~Published(t)' /\ ~At(t, "do_write")' /\ ~At(t, "undo_release")'
      /\ Held(t) = DOMAIN W(t) /\ Held(t)' = DOMAIN W(t)'
  BY DEF QuietLabels, CallLabels, Published, At, Held, Releasing
<1>3. LogKept(t)
  BY <1>2 DEF LogKept, LogSame, W, Killed
<1>4. TicketStep(t)
  <2>1. tx[t].pc = "validate" /\ tx[t].ts # 0 => Ticketed(t)
    BY DEF Ticketed, At
  <2> QED
    BY <2>1 DEF TicketStep, Ticketed, At, W
<1>5. Stamped(t)' => Stamped(t) /\ tx'[t].ts = tx[t].ts
  BY DEF Stamped, Ticketed, At
<1>6. build' = build /\ UNCHANGED <<locks, mem, hist>> /\ clock' \in {clock, clock + 1}
  BY DEF Frame
<1> QED
  BY <1>2, <1>3, <1>4, <1>5, <1>6, QuietStep

\* What a transaction has read so far.
ReadsKept(e, d) ==
  /\ e.r_set = d.r_set /\ e.obs = d.obs /\ e.start = d.start /\ e.end = d.end
  /\ e.ro = d.ro /\ e.has_writes = d.has_writes /\ e.w_set = d.w_set /\ e.status = d.status

ReadFields == {"r_set", "obs", "start", "end", "ro", "has_writes", "w_set", "status"}

LEMMA ReadsOfBut ==
  ASSUME NEW e, NEW d, NEW S, SameBut(e, d, S), S \cap ReadFields = {}
  PROVE  ReadsKept(e, d)
<1>1. \A f \in ReadFields : f \in Fields \ S
  BY DEF ReadFields, Fields
<1>2. \A f \in ReadFields : e[f] = d[f]
  BY <1>1 DEF SameBut
<1> QED
  BY <1>2 DEF ReadsKept, ReadFields

\* Rollback of a transaction whose reads are as they were.
LEMMA AbortStep ==
  ASSUME Inv, Inv', SInv, NEW t \in Thread, Frame, tx[t].pc \in QuietLabels \ {"rollback"},
         NEW d, Shape(d), ReadsKept(d, tx[t]), d.visible_reads \in Nat, Rollback(t, d)
  PROVE  SInv'
<1>1. /\ Moves(t) /\ tx'[t].pc = "rollback" /\ Cleared(tx'[t])
      /\ SameBut(tx'[t], d, SettledFields \cup {"pc"})
  BY RollbackAll DEF Inv, TypeOK
<1>2. ReadsKept(tx'[t], d)
  BY <1>1, ReadsOfBut DEF SettledFields, ReadFields
<1>3. tx'[t].visible_reads = d.visible_reads
  BY <1>1 DEF SameBut, SettledFields, Fields
<1>4. TxInv(t)
  BY DEF SInv
<1>5. ReadTypes(tx[t])'
  BY <1>1, <1>2, <1>3, <1>4, Constants DEF TxInv, ReadTypes, ReadsKept, Cleared
<1>6. ~Reading(t)' /\ ~Running(t)' /\ ~Published(t)' /\ ~At(t, "own_value")'
  BY <1>1 DEF Reading, ReadLabels, Running, CallLabels, Published, At
<1>7. KindOf(t)'
  <2>1. (VisibleBuild' <=> VisibleBuild) /\ (Modular' <=> Modular)
    BY DEF VisibleBuild, Modular, Frame
  <2>2. tx'[t].op = "read" /\ W(t)' = W(t) /\ tx'[t].r_set = tx[t].r_set
        /\ tx'[t].has_writes = tx[t].has_writes
    BY <1>1, <1>2 DEF Cleared, Clean, ReadsKept, W
  <2>3. KindOf(t)
    BY <1>4 DEF TxInv
  <2>4. ~At(t, "read")' /\ tx'[t].pc \notin CallLabels \cup FreeLabels \cup {"app"}
        /\ ~At(t, "drop_reads")'
    BY <1>1 DEF At, CallLabels, FreeLabels
  <2>5. VisibleBuild => tx[t].r_set = {}
    BY <2>3 DEF KindOf
  <2>6. ~VisibleBuild /\ Modular /\ W(t) # <<>> => tx[t].has_writes > 0
    BY <2>3 DEF KindOf
  <2> QED
    BY <1>1, <1>6, <2>1, <2>2, <2>4, <2>5, <2>6 DEF KindOf
<1>8. TxInv(t)'
  BY <1>5, <1>6, <1>7 DEF TxInv, ReaderInv, SnapInv, SerialInv
<1>9. tx'[t].pc \in QuietLabels /\ tx'[t].w_set = tx[t].w_set /\ tx'[t].status = tx[t].status
      /\ tx'[t].ts = 0
  BY <1>1, <1>2 DEF QuietLabels, ReadsKept, Cleared, Clean
<1>10. OthersSame(t)
  BY <1>1, MovesOthers
<1> QED
  BY <1>8, <1>9, <1>10, PlainStep

LEMMA FrameStill ==
  ASSUME build' = build, hist' = hist, NEW t \in Thread, OthersSame(t), NEW r, NEW s
  PROVE  Still(t, r, s)' <=> Still(t, r, s)
<1>1. LockOf' = LockOf
  BY DEF LockOf
<1>2. \A u \in Thread \ {t} : /\ Ticketed(u)' <=> Ticketed(u)
                              /\ tx'[u].ts = tx[u].ts /\ W(u)' = W(u)
                              /\ \A j : LockAt(u, j)' = LockAt(u, j)
  BY OtherPlace DEF SamePlace, SamePosition
<1> QED
  BY <1>1, <1>2 DEF Still

LEMMA FrameVouched ==
  ASSUME build' = build, hist' = hist, locks' = locks, NEW t \in Thread, NEW o,
         tx[t].r_set \subseteq tx'[t].r_set, Vouched(t, o)
  PROVE  Vouched(t, o)'
BY DEF Vouched, LockOf, Latest, IsValueAt

\* What holds of the reads of a running transaction at any label.
SnapBase(t) ==
  /\ tx[t].start <= tx[t].end /\ tx[t].end <= clock
  /\ \A r \in tx[t].r_set :
       r.version <= tx[t].end /\ (locks[r.lock].owner # t => Still(t, r, tx[t].end))
  /\ \A o \in tx[t].obs : Vouched(t, o)

LEMMA SnapBaseKept ==
  ASSUME build' = build, hist' = hist, locks' = locks, clock \in Nat, clock' \in Nat,
         clock <= clock', NEW t \in Thread, OthersSame(t), ReadTypes(tx[t]), SnapBase(t),
         tx'[t].r_set = tx[t].r_set, tx'[t].obs = tx[t].obs,
         tx'[t].start = tx[t].start, tx'[t].end = tx[t].end
  PROVE  SnapBase(t)'
<1>2. PICK s \in Nat : s = tx[t].end
  BY DEF ReadTypes
<1>3. \A r : Still(t, r, s)' <=> Still(t, r, s)
  BY FrameStill
<1>4. \A o : Vouched(t, o) => Vouched(t, o)'
  BY FrameVouched
<1>5. s <= clock'
  BY <1>2 DEF SnapBase
<1> QED
  BY <1>2, <1>3, <1>4, <1>5 DEF SnapBase

\* A step of a call that reads nothing new.
LEMMA CallStep ==
  ASSUME Inv, Inv', SInv, NEW t \in Thread, Frame, OthersSame(t),
         InCall(t) \/ At(t, "app"), ~At(t, "do_write"),
         ReadsKept(tx'[t], tx[t]), tx'[t].ts = 0,
         tx'[t].visible_reads \in Nat, tx'[t].value \in Word,
         tx'[t].now \in Nat, tx'[t].todo \in SUBSET ReadEntry,
         tx'[t].pc \in (CallLabels \ {"do_write"}) \cup {"app", "validate"},
         Reading(t)' => ~VisibleBuild /\ tx'[t].l.owner = NoOwner /\ ReaderInv(t)',
         ~VisibleBuild => tx'[t].op # "vread" /\ tx'[t].pc \notin {"vread", "upgrade"},
         VisibleBuild =>
           ~At(t, "read")' /\ (tx'[t].pc \in CallLabels => tx'[t].op # "read"),
         At(t, "app")' => tx'[t].op = "read",
         tx'[t].pc \in {"write", "upgrade"} => tx'[t].op = "write",
         Running(t) /\ tx[t].ro => tx'[t].op # "write",
         At(t, "own_value")' /\ ~Killed(t) => locks[LockOf[tx'[t].arg.addr]].owner = t,
         tx'[t].pc = "validate" /\ Running(t) /\ ~tx[t].ro =>
           /\ tx[t].end <= tx'[t].now /\ tx'[t].now <= clock
           /\ \A r \in tx[t].r_set \ tx'[t].todo :
                locks[r.lock].owner # t => Still(t, r, tx[t].now)'
  PROVE  SInv'
<1>1. TxInv(t) /\ ReadTypes(tx[t]) /\ KindOf(t) /\ SnapInv(t)
  BY DEF SInv, TxInv
<1>2. /\ tx[t].ts = 0 /\ tx[t].pc \in QuietLabels /\ tx'[t].pc \in QuietLabels
      /\ ~Published(t)' /\ ~Ticketed(t)'
  <2>1. LocalOK(t)
    BY DEF Inv, LocalInv
  <2>2. tx[t].ts = 0
    BY <2>1 DEF LocalOK, TicketPhase, InCall, At
  <2> QED
    <3>1. tx[t].pc \in QuietLabels
      BY DEF QuietLabels, InCall, At
    <3>2. tx'[t].pc \in QuietLabels /\ ~Published(t)' /\ ~Ticketed(t)'
      BY DEF QuietLabels, CallLabels, Published, Ticketed
    <3> QED
      BY <2>2, <3>1, <3>2
<1>3. ReadTypes(tx[t])'
  BY <1>1 DEF ReadTypes, ReadsKept
<1>4. (Killed(t)' <=> Killed(t)) /\ W(t)' = W(t) /\ (Running(t)' => Running(t))
  <2>1. (Killed(t)' <=> Killed(t)) /\ W(t)' = W(t)
    BY DEF Killed, ReadsKept, W
  <2> QED
    BY <2>1 DEF Running, InCall, At, CallLabels
<1>5. KindOf(t)'
  <2>1. ArgLock(t)' = LockOf[tx'[t].arg.addr] /\ (VisibleBuild' <=> VisibleBuild)
        /\ (Modular' <=> Modular) /\ locks' = locks
        /\ tx'[t].pc \notin FreeLabels \cup {"do_write", "drop_reads"}
    BY DEF ArgLock, LockOf, VisibleBuild, Modular, Frame, FreeLabels, CallLabels
  <2> QED
    BY <1>1, <1>4, <2>1 DEF KindOf, ReadsKept, W, At
<1>6. ReaderInv(t)'
  BY DEF ReaderInv
<1>7. SnapInv(t)'
  <2> SUFFICES ASSUME Running(t)', ~tx'[t].ro PROVE SnapInv(t)'
    BY DEF SnapInv
  <2>1. Running(t) /\ ~tx[t].ro
    BY <1>4 DEF ReadsKept
  <2>2. SnapBase(t)
    BY <1>1, <2>1 DEF SnapInv, SnapBase
  <2>3. SnapBase(t)'
    BY <1>1, <2>2, SnapBaseKept DEF Inv, TypeOK, Frame, ReadsKept
  <2>4. At(t, "validate")' =>
           /\ tx'[t].end <= tx'[t].now /\ tx'[t].now <= clock'
           /\ \A r \in tx'[t].r_set \ tx'[t].todo :
                locks'[r.lock].owner # t => Still(t, r, tx[t].now)'
    BY <2>1 DEF At, Frame, ReadsKept
  <2> QED
    BY <1>2, <2>3, <2>4 DEF SnapInv, SnapBase
<1>8. TxInv(t)'
  BY <1>2, <1>3, <1>5, <1>6, <1>7 DEF TxInv, SerialInv
<1>9. tx'[t].w_set = tx[t].w_set /\ tx'[t].status = tx[t].status
  BY DEF ReadsKept
<1> QED
  BY <1>2, <1>8, <1>9, PlainStep

-----------------------------------------------------------------------------
(***************************************************************************)
(* Updates of a descriptor                                                 *)
(***************************************************************************)
LEMMA SetLockWord ==
  ASSUME NEW d, Shape(d), NEW x
  PROVE  \E e : /\ e = [d EXCEPT !.l = x]
                /\ SameBut(e, d, {"l"}) /\ e.l = x
<1> DEFINE e == [d EXCEPT !.l = x]
<1>1. Shape(e)
  BY DEF Shape, Fields
<1>2. /\ \A f \in Fields \ {"l"} : e[f] = d[f]
      /\ e.l = x
  BY DEF Shape, Fields
<1>3. SameBut(e, d, {"l"})
  <2> HIDE DEF e
  <2> QED
    BY <1>1, <1>2 DEF SameBut
<1> QED
  BY <1>2, <1>3

LEMMA SetSeenStatus ==
  ASSUME NEW d, Shape(d), NEW x
  PROVE  \E e : /\ e = [d EXCEPT !.seenStatus = x]
                /\ SameBut(e, d, {"seenStatus"}) /\ e.seenStatus = x
<1> DEFINE e == [d EXCEPT !.seenStatus = x]
<1>1. Shape(e)
  BY DEF Shape, Fields
<1>2. /\ \A f \in Fields \ {"seenStatus"} : e[f] = d[f]
      /\ e.seenStatus = x
  BY DEF Shape, Fields
<1>3. SameBut(e, d, {"seenStatus"})
  <2> HIDE DEF e
  <2> QED
    BY <1>1, <1>2 DEF SameBut
<1> QED
  BY <1>2, <1>3

LEMMA SetContended ==
  ASSUME NEW d, Shape(d), NEW x
  PROVE  \E e : /\ e = [d EXCEPT !.c_lock = x]
                /\ SameBut(e, d, {"c_lock"}) /\ e.c_lock = x
<1> DEFINE e == [d EXCEPT !.c_lock = x]
<1>1. Shape(e)
  BY DEF Shape, Fields
<1>2. /\ \A f \in Fields \ {"c_lock"} : e[f] = d[f]
      /\ e.c_lock = x
  BY DEF Shape, Fields
<1>3. SameBut(e, d, {"c_lock"})
  <2> HIDE DEF e
  <2> QED
    BY <1>1, <1>2 DEF SameBut
<1> QED
  BY <1>2, <1>3

LEMMA SetVisible ==
  ASSUME NEW d, Shape(d), NEW x
  PROVE  \E e : /\ e = [d EXCEPT !.visible_reads = x]
                /\ SameBut(e, d, {"visible_reads"}) /\ e.visible_reads = x
<1> DEFINE e == [d EXCEPT !.visible_reads = x]
<1>1. Shape(e)
  BY DEF Shape, Fields
<1>2. /\ \A f \in Fields \ {"visible_reads"} : e[f] = d[f]
      /\ e.visible_reads = x
  BY DEF Shape, Fields
<1>3. SameBut(e, d, {"visible_reads"})
  <2> HIDE DEF e
  <2> QED
    BY <1>1, <1>2 DEF SameBut
<1> QED
  BY <1>2, <1>3

LEMMA SetIndex ==
  ASSUME NEW d, Shape(d), NEW x
  PROVE  \E e : /\ e = [d EXCEPT !.i = x]
                /\ SameBut(e, d, {"i"}) /\ e.i = x
<1> DEFINE e == [d EXCEPT !.i = x]
<1>1. Shape(e)
  BY DEF Shape, Fields
<1>2. /\ \A f \in Fields \ {"i"} : e[f] = d[f]
      /\ e.i = x
  BY DEF Shape, Fields
<1>3. SameBut(e, d, {"i"})
  <2> HIDE DEF e
  <2> QED
    BY <1>1, <1>2 DEF SameBut
<1> QED
  BY <1>2, <1>3

LEMMA SetValue ==
  ASSUME NEW d, Shape(d), NEW x
  PROVE  \E e : /\ e = [d EXCEPT !.value = x]
                /\ SameBut(e, d, {"value"}) /\ e.value = x
<1> DEFINE e == [d EXCEPT !.value = x]
<1>1. Shape(e)
  BY DEF Shape, Fields
<1>2. /\ \A f \in Fields \ {"value"} : e[f] = d[f]
      /\ e.value = x
  BY DEF Shape, Fields
<1>3. SameBut(e, d, {"value"})
  <2> HIDE DEF e
  <2> QED
    BY <1>1, <1>2 DEF SameBut
<1> QED
  BY <1>2, <1>3

LEMMA SetTodo ==
  ASSUME NEW d, Shape(d), NEW x
  PROVE  \E e : /\ e = [d EXCEPT !.todo = x]
                /\ SameBut(e, d, {"todo"}) /\ e.todo = x
<1> DEFINE e == [d EXCEPT !.todo = x]
<1>1. Shape(e)
  BY DEF Shape, Fields
<1>2. /\ \A f \in Fields \ {"todo"} : e[f] = d[f]
      /\ e.todo = x
  BY DEF Shape, Fields
<1>3. SameBut(e, d, {"todo"})
  <2> HIDE DEF e
  <2> QED
    BY <1>1, <1>2 DEF SameBut
<1> QED
  BY <1>2, <1>3

Forgot(d, x, y) == [d EXCEPT !.l = x, !.seenStatus = y]

LEMMA SetRestart ==
  ASSUME NEW d, Shape(d), NEW x, NEW y
  PROVE  /\ SameBut(Forgot(d, x, y), d, {"l", "seenStatus"})
         /\ Forgot(d, x, y).l = x /\ Forgot(d, x, y).seenStatus = y
<1> DEFINE e == Forgot(d, x, y)
<1>1. Shape(e) /\ e.l = x /\ e.seenStatus = y
  BY DEF Shape, Fields, Forgot
<1>2. \A f \in Fields \ {"l", "seenStatus"} : e[f] = d[f]
  BY DEF Shape, Fields, Forgot
<1> HIDE DEF e
<1>3. SameBut(e, d, {"l", "seenStatus"})
  BY <1>1, <1>2 DEF SameBut
<1> QED
  BY <1>1, <1>3 DEF e

Worded(d, x, y) == [d EXCEPT !.l = x, !.value = y]

LEMMA SetLockValue ==
  ASSUME NEW d, Shape(d), NEW x, NEW y
  PROVE  /\ SameBut(Worded(d, x, y), d, {"l", "value"})
         /\ Worded(d, x, y).l = x /\ Worded(d, x, y).value = y
<1> DEFINE e == Worded(d, x, y)
<1>1. Shape(e) /\ e.l = x /\ e.value = y
  BY DEF Shape, Fields, Worded
<1>2. \A f \in Fields \ {"l", "value"} : e[f] = d[f]
  BY DEF Shape, Fields, Worded
<1> HIDE DEF e
<1>3. SameBut(e, d, {"l", "value"})
  BY <1>1, <1>2 DEF SameBut
<1> QED
  BY <1>1, <1>3 DEF e

Timed(d, x, y) == [d EXCEPT !.now = x, !.todo = y]

LEMMA SetNow ==
  ASSUME NEW d, Shape(d), NEW x, NEW y
  PROVE  /\ SameBut(Timed(d, x, y), d, {"now", "todo"})
         /\ Timed(d, x, y).now = x /\ Timed(d, x, y).todo = y
<1> DEFINE e == Timed(d, x, y)
<1>1. Shape(e) /\ e.now = x /\ e.todo = y
  BY DEF Shape, Fields, Timed
<1>2. \A f \in Fields \ {"now", "todo"} : e[f] = d[f]
  BY DEF Shape, Fields, Timed
<1> HIDE DEF e
<1>3. SameBut(e, d, {"now", "todo"})
  BY <1>1, <1>2 DEF SameBut
<1> QED
  BY <1>1, <1>3 DEF e

Upgraded(d, x, y) == [d EXCEPT !.has_writes = x, !.l = y]

LEMMA SetUpgraded ==
  ASSUME NEW d, Shape(d), NEW x, NEW y
  PROVE  /\ SameBut(Upgraded(d, x, y), d, {"has_writes", "l"})
         /\ Upgraded(d, x, y).has_writes = x /\ Upgraded(d, x, y).l = y
<1> DEFINE e == Upgraded(d, x, y)
<1>1. Shape(e) /\ e.has_writes = x /\ e.l = y
  BY DEF Shape, Fields, Upgraded
<1>2. \A f \in Fields \ {"has_writes", "l"} : e[f] = d[f]
  BY DEF Shape, Fields, Upgraded
<1> HIDE DEF e
<1>3. SameBut(e, d, {"has_writes", "l"})
  BY <1>1, <1>2 DEF SameBut
<1> QED
  BY <1>1, <1>3 DEF e

Ticketing(d, x, y) == [d EXCEPT !.ts = x, !.todo = y]

LEMMA SetTicket ==
  ASSUME NEW d, Shape(d), NEW x, NEW y
  PROVE  /\ SameBut(Ticketing(d, x, y), d, {"ts", "todo"})
         /\ Ticketing(d, x, y).ts = x /\ Ticketing(d, x, y).todo = y
<1> DEFINE e == Ticketing(d, x, y)
<1>1. Shape(e) /\ e.ts = x /\ e.todo = y
  BY DEF Shape, Fields, Ticketing
<1>2. \A f \in Fields \ {"ts", "todo"} : e[f] = d[f]
  BY DEF Shape, Fields, Ticketing
<1> HIDE DEF e
<1>3. SameBut(e, d, {"ts", "todo"})
  BY <1>1, <1>2 DEF SameBut
<1> QED
  BY <1>1, <1>3 DEF e

Publishing(d, x, y) == [d EXCEPT !.ts = x, !.i = y]

LEMMA SetPublished ==
  ASSUME NEW d, Shape(d), NEW x, NEW y
  PROVE  /\ SameBut(Publishing(d, x, y), d, {"ts", "i"})
         /\ Publishing(d, x, y).ts = x /\ Publishing(d, x, y).i = y
<1> DEFINE e == Publishing(d, x, y)
<1>1. Shape(e) /\ e.ts = x /\ e.i = y
  BY DEF Shape, Fields, Publishing
<1>2. \A f \in Fields \ {"ts", "i"} : e[f] = d[f]
  BY DEF Shape, Fields, Publishing
<1> HIDE DEF e
<1>3. SameBut(e, d, {"ts", "i"})
  BY <1>1, <1>2 DEF SameBut
<1> QED
  BY <1>1, <1>3 DEF e

Phased(d, x, y) == [d EXCEPT !.i = x, !.status = y]

LEMMA SetStatusIndex ==
  ASSUME NEW d, Shape(d), NEW x, NEW y
  PROVE  /\ SameBut(Phased(d, x, y), d, {"i", "status"})
         /\ Phased(d, x, y).i = x /\ Phased(d, x, y).status = y
<1> DEFINE e == Phased(d, x, y)
<1>1. Shape(e) /\ e.i = x /\ e.status = y
  BY DEF Shape, Fields, Phased
<1>2. \A f \in Fields \ {"i", "status"} : e[f] = d[f]
  BY DEF Shape, Fields, Phased
<1> HIDE DEF e
<1>3. SameBut(e, d, {"i", "status"})
  BY <1>1, <1>2 DEF SameBut
<1> QED
  BY <1>1, <1>3 DEF e

Noted(d, x, y) == [d EXCEPT !.r_set = x, !.obs = y]

LEMMA SetReadSetObs ==
  ASSUME NEW d, Shape(d), NEW x, NEW y
  PROVE  /\ SameBut(Noted(d, x, y), d, {"r_set", "obs"})
         /\ Noted(d, x, y).r_set = x /\ Noted(d, x, y).obs = y
<1> DEFINE e == Noted(d, x, y)
<1>1. Shape(e) /\ e.r_set = x /\ e.obs = y
  BY DEF Shape, Fields, Noted
<1>2. \A f \in Fields \ {"r_set", "obs"} : e[f] = d[f]
  BY DEF Shape, Fields, Noted
<1> HIDE DEF e
<1>3. SameBut(e, d, {"r_set", "obs"})
  BY <1>1, <1>2 DEF SameBut
<1> QED
  BY <1>1, <1>3 DEF e

Extended(d, x, y, z) == [d EXCEPT !.end = x, !.snap = y, !.now = z]

LEMMA SetExtended ==
  ASSUME NEW d, Shape(d), NEW x, NEW y, NEW z
  PROVE  /\ SameBut(Extended(d, x, y, z), d, {"end", "snap", "now"})
         /\ Extended(d, x, y, z).end = x /\ Extended(d, x, y, z).snap = y /\ Extended(d, x, y, z).now = z
<1> DEFINE e == Extended(d, x, y, z)
<1>1. Shape(e) /\ e.end = x /\ e.snap = y /\ e.now = z
  BY DEF Shape, Fields, Extended
<1>2. \A f \in Fields \ {"end", "snap", "now"} : e[f] = d[f]
  BY DEF Shape, Fields, Extended
<1> HIDE DEF e
<1>3. SameBut(e, d, {"end", "snap", "now"})
  BY <1>1, <1>2 DEF SameBut
<1> QED
  BY <1>1, <1>3 DEF e

\* The descriptor of a load and of a store that begins.
Loading(d, a) == [d EXCEPT !.calls = @ + 1, !.arg.addr = a]
Storing(d, a, v, m) ==
  [d EXCEPT !.calls = @ + 1, !.op = "write", !.arg = [addr |-> a, value |-> v, mask |-> m]]

LEMMA SetLoading ==
  ASSUME NEW d, Shape(d), NEW a
  PROVE  SameBut(Loading(d, a), d, {"calls", "arg"})
<1> DEFINE e == Loading(d, a)
<1>1. Shape(e)
  BY DEF Shape, Fields, Loading
<1>2. \A f \in Fields \ {"calls", "arg"} : e[f] = d[f]
  BY DEF Shape, Fields, Loading
<1> HIDE DEF e
<1>3. SameBut(e, d, {"calls", "arg"})
  BY <1>1, <1>2 DEF SameBut
<1> QED
  BY <1>3 DEF e

LEMMA SetStoring ==
  ASSUME NEW d, Shape(d), NEW a, NEW v, NEW m
  PROVE  SameBut(Storing(d, a, v, m), d, {"calls", "op", "arg"}) /\ Storing(d, a, v, m).op = "write"
<1> DEFINE e == Storing(d, a, v, m)
<1>1. Shape(e) /\ e.op = "write"
  BY DEF Shape, Fields, Storing
<1>2. \A f \in Fields \ {"calls", "op", "arg"} : e[f] = d[f]
  BY DEF Shape, Fields, Storing
<1> HIDE DEF e
<1>3. SameBut(e, d, {"calls", "op", "arg"})
  BY <1>1, <1>2 DEF SameBut
<1> QED
  BY <1>1, <1>3 DEF e

LEMMA SetOp ==
  ASSUME NEW d, Shape(d), NEW x
  PROVE  \E e : /\ e = [d EXCEPT !.op = x]
                /\ SameBut(e, d, {"op"}) /\ e.op = x
<1> DEFINE e == [d EXCEPT !.op = x]
<1>1. Shape(e)
  BY DEF Shape, Fields
<1>2. /\ \A f \in Fields \ {"op"} : e[f] = d[f]
      /\ e.op = x
  BY DEF Shape, Fields
<1>3. SameBut(e, d, {"op"})
  <2> HIDE DEF e
  <2> QED
    BY <1>1, <1>2 DEF SameBut
<1> QED
  BY <1>2, <1>3

-----------------------------------------------------------------------------
(***************************************************************************)
(* Calls that neither read nor write anything new                          *)
(***************************************************************************)
LEMMA ShapeIs ==
  ASSUME Inv, NEW t \in Thread
  PROVE  /\ tx = [u \in Thread |-> tx[u]] /\ Shape(tx[t]) /\ TxTypes(tx[t]) /\ LocalOK(t)
         /\ locks \in [Lock -> LockWord] /\ clock \in Nat
BY DEF Inv, TypeOK, TxTypes, LocalInv

LEMMA InvalidReadStep ==
  ASSUME Inv, Inv', SInv, NEW t \in Thread, Frame, tx[t].pc \in QuietLabels \ {"rollback"},
         InvalidRead(t)
  PROVE  SInv'
<1>1. tx[t].visible_reads \in Nat
  BY DEF SInv, TxInv, ReadTypes
<1>2. PICK n \in Nat : Rollback(t, [tx[t] EXCEPT !.visible_reads = n])
  BY <1>1 DEF InvalidRead
<1>3. PICK d : /\ d = [tx[t] EXCEPT !.visible_reads = n]
               /\ SameBut(d, tx[t], {"visible_reads"}) /\ d.visible_reads = n
  BY ShapeIs, SetVisible
<1>4. ReadsKept(d, tx[t])
  BY <1>3, ReadsOfBut DEF ReadFields
<1>5. Rollback(t, d) /\ Shape(d)
  BY <1>2, <1>3, Zenon DEF SameBut
<1> QED
  BY <1>3, <1>4, <1>5, AbortStep

LEMMA PlainAbort ==
  ASSUME Inv, Inv', SInv, NEW t \in Thread, Frame, tx[t].pc \in QuietLabels \ {"rollback"},
         Rollback(t, tx[t])
  PROVE  SInv'
<1>1. tx[t].visible_reads \in Nat /\ ReadsKept(tx[t], tx[t]) /\ Shape(tx[t])
  BY ShapeIs DEF SInv, TxInv, ReadTypes, ReadsKept
<1> QED
  BY <1>1, AbortStep

LEMMA ContendedAbort ==
  ASSUME Inv, Inv', SInv, NEW t \in Thread, Frame, tx[t].pc \in QuietLabels \ {"rollback"},
         NEW c, Rollback(t, [tx[t] EXCEPT !.c_lock = c])
  PROVE  SInv'
<1>1. tx[t].visible_reads \in Nat
  BY DEF SInv, TxInv, ReadTypes
<1>3. PICK d : /\ d = [tx[t] EXCEPT !.c_lock = c]
               /\ SameBut(d, tx[t], {"c_lock"}) /\ d.c_lock = c
  BY ShapeIs, SetContended
<1>4. ReadsKept(d, tx[t])
  BY <1>3, ReadsOfBut DEF ReadFields
<1>5. Shape(d) /\ d.visible_reads = tx[t].visible_reads
  BY <1>3 DEF SameBut, Fields
<1>6. Rollback(t, d)
  BY <1>3, Zenon
<1> QED
  BY <1>1, <1>4, <1>5, <1>6, AbortStep

\* A call has no timestamp, and is at a quiet label.
LEMMA CallIs ==
  ASSUME Inv, NEW t \in Thread, InCall(t), ~At(t, "do_write")
  PROVE  tx[t].ts = 0 /\ tx[t].pc \in QuietLabels \ {"rollback"} /\ ~At(t, "app")
<1>1. LocalOK(t)
  BY DEF Inv, LocalInv
<1>2. tx[t].ts = 0
  BY <1>1 DEF LocalOK, TicketPhase, InCall, At
<1>3. tx[t].pc \in QuietLabels \ {"rollback"} /\ ~At(t, "app")
  BY DEF InCall, At, QuietLabels, CallLabels
<1> QED
  BY <1>2, <1>3

LoopLabels == {"read", "vread", "write", "conflict", "conflict2", "kill", "steal", "own_value",
               "upgrade"}
LoopFields == {"l", "seenStatus", "i", "value", "c_lock"}

\* A call goes on outside the part that reads a word invisibly.
LEMMA GoOn ==
  ASSUME Inv, Inv', SInv, NEW t \in Thread, Frame, InCall(t), ~At(t, "do_write"),
         OthersSame(t), NEW S, S \subseteq LoopFields \cup {"pc"}, SameBut(tx'[t], tx[t], S),
         tx'[t].value \in Word, tx'[t].pc \in LoopLabels,
         tx'[t].pc \in {"read", "vread", "write"} => tx'[t].pc = tx[t].op,
         tx'[t].pc = "upgrade" => tx[t].op = "write" /\ VisibleBuild,
         tx'[t].pc = "own_value" /\ ~Killed(t) => locks[ArgLock(t)].owner = t
  PROVE  SInv'
<1>1. KindOf(t) /\ ReadTypes(tx[t])
  BY DEF SInv, TxInv
<1>2. tx[t].ts = 0 /\ tx[t].pc \in CallLabels \cup {"validate"}
  BY CallIs DEF InCall, At
<1>3. ReadsKept(tx'[t], tx[t])
  BY ReadsOfBut DEF LoopFields, ReadFields
<1>4. /\ tx'[t].ts = tx[t].ts /\ tx'[t].op = tx[t].op /\ tx'[t].arg = tx[t].arg
      /\ tx'[t].now = tx[t].now /\ tx'[t].todo = tx[t].todo
      /\ tx'[t].visible_reads = tx[t].visible_reads
  BY DEF SameBut, Fields, LoopFields
<1>5. /\ ~Reading(t)' /\ ~At(t, "app")' /\ tx'[t].pc # "validate"
      /\ tx'[t].pc \in (CallLabels \ {"do_write"}) \cup {"app", "validate"}
  BY DEF Reading, At, LoopLabels, ReadLabels, CallLabels
<1>6. ~VisibleBuild => tx[t].op # "vread"
  BY <1>1 DEF KindOf
<1>7. VisibleBuild => tx[t].op # "read"
  <2>1. tx[t].pc = "validate" => Reading(t)
    BY <1>2 DEF Reading, At
  <2> QED
    BY <1>1, <1>2, <2>1 DEF KindOf
<1>8. Running(t) /\ tx[t].ro => tx[t].op # "write"
  BY <1>1 DEF KindOf
<1>9. LockOf[tx'[t].arg.addr] = ArgLock(t)
  BY <1>4 DEF ArgLock
<1>10. tx'[t].pc \in {"vread"} => VisibleBuild
  BY <1>6
<1>11. /\ tx'[t].ts = 0 /\ tx'[t].visible_reads \in Nat
       /\ tx'[t].now \in Nat /\ tx'[t].todo \in SUBSET ReadEntry
  BY <1>1, <1>2, <1>4 DEF ReadTypes
<1>12. ~VisibleBuild => tx'[t].op # "vread" /\ tx'[t].pc \notin {"vread", "upgrade"}
  BY <1>4, <1>6, <1>10
<1>13. /\ VisibleBuild => ~At(t, "read")' /\ (tx'[t].pc \in CallLabels => tx'[t].op # "read")
       /\ tx'[t].pc \in {"write", "upgrade"} => tx'[t].op = "write"
       /\ At(t, "own_value")' /\ ~Killed(t) => locks[LockOf[tx'[t].arg.addr]].owner = t
       /\ Running(t) /\ tx[t].ro => tx'[t].op # "write"
  BY <1>4, <1>7, <1>8, <1>9 DEF At
<1> QED
  BY <1>3, <1>5, <1>11, <1>12, <1>13, CallStep

LEMMA RestartStep ==
  ASSUME Inv, Inv', SInv, NEW t \in Thread, Frame, InCall(t), ~At(t, "do_write"), Restart(t)
  PROVE  SInv'
<1>0. PICK o : o = tx[t].op
  OBVIOUS
<1>7. PICK d : d = Forgot(tx[t], ZeroLock, <<>>)
  OBVIOUS
<1>8. Shape(tx[t]) /\ tx = [u \in Thread |-> tx[u]]
  BY ShapeIs
<1>1. SameBut(d, tx[t], {"l", "seenStatus"})
  BY <1>7, <1>8, SetRestart
<1>2. Become(t, d, o)
  BY <1>0, <1>7 DEF Restart, Forgot
<1>9. tx'[t].pc = o /\ SameBut(tx'[t], tx[t], {"l", "seenStatus"} \cup {"pc"}) /\ Moves(t)
  BY <1>1, <1>2, <1>8, BecomeBut
<1>3. Moves(t) /\ tx'[t].pc = tx[t].op /\ SameBut(tx'[t], tx[t], {"l", "seenStatus"} \cup {"pc"})
  BY <1>0, <1>9
<1>4. tx'[t].value = tx[t].value /\ tx[t].value \in Word
  BY <1>3 DEF SameBut, Fields, SInv, TxInv, ReadTypes
<1>5. tx[t].op \in {"read", "vread", "write"} /\ OthersSame(t)
  BY <1>3, ShapeIs, MovesOthers DEF TxTypes
<1>6. tx'[t].pc \in LoopLabels /\ tx'[t].pc # "own_value" /\ tx'[t].pc # "upgrade"
  BY <1>3, <1>5 DEF LoopLabels
<1> QED
  BY <1>3, <1>4, <1>5, <1>6, GoOn DEF LoopFields

LEMMA ConflictStep ==
  ASSUME Inv, Inv', SInv, NEW t \in Thread, Frame, InCall(t), ~At(t, "do_write"),
         NEW w, Conflict(t, tx[t], w)
  PROVE  SInv'
<1>1. CASE Modular
  <2>1. PICK d : d = [tx[t] EXCEPT !.l = w] /\ SameBut(d, tx[t], {"l"}) /\ d.l = w
    BY ShapeIs, SetLockWord
  <2>2. Become(t, d, "conflict")
    BY <1>1, <2>1 DEF Conflict
  <2>3. Moves(t) /\ tx'[t].pc = "conflict" /\ SameBut(tx'[t], tx[t], {"l"} \cup {"pc"})
    BY <2>1, <2>2, ShapeIs, BecomeBut
  <2>4. tx'[t].value = tx[t].value /\ tx[t].value \in Word /\ OthersSame(t)
    BY <2>3, MovesOthers DEF SameBut, Fields, SInv, TxInv, ReadTypes
  <2> QED
    BY <2>3, <2>4, GoOn DEF LoopFields, LoopLabels
<1>2. CASE ~Modular
  <2>1. PICK c : Rollback(t, [tx[t] EXCEPT !.c_lock = c])
    BY <1>2 DEF Conflict
  <2> QED
    BY <2>1, CallIs, ContendedAbort
<1> QED
  BY <1>1, <1>2

LEMMA ReadOwnerStatusStep ==
  ASSUME Inv, Inv', SInv, NEW t \in Thread, build' = build, ReadOwnerStatus(t)
  PROVE  SInv'
<1>0. Frame /\ InCall(t) /\ ~At(t, "do_write")
  BY DEF ReadOwnerStatus, Frame, InCall, At, CallLabels
<1>1. PICK x : x = StatusWord(tx[t].l.owner)
  OBVIOUS
<1>2. PICK d : d = [tx[t] EXCEPT !.seenStatus = x] /\ SameBut(d, tx[t], {"seenStatus"})
               /\ d.seenStatus = x
  BY ShapeIs, SetSeenStatus
<1>3. Become(t, d, "conflict2")
  BY <1>1, <1>2 DEF ReadOwnerStatus
<1>4. Moves(t) /\ tx'[t].pc = "conflict2" /\ SameBut(tx'[t], tx[t], {"seenStatus"} \cup {"pc"})
  BY <1>2, <1>3, ShapeIs, BecomeBut
<1>5. tx'[t].value = tx[t].value /\ tx[t].value \in Word /\ OthersSame(t)
  BY <1>4, MovesOthers DEF SameBut, Fields, SInv, TxInv, ReadTypes
<1> QED
  BY <1>0, <1>4, <1>5, GoOn DEF LoopFields, LoopLabels

LEMMA StayStep ==
  ASSUME Inv, Inv', SInv, NEW t \in Thread, Frame, InCall(t), ~At(t, "do_write"),
         NEW lab \in {"kill", "steal", "own_value"}, Become(t, tx[t], lab),
         lab = "own_value" /\ ~Killed(t) => locks[ArgLock(t)].owner = t
  PROVE  SInv'
<1>1. SameBut(tx[t], tx[t], {})
  BY ShapeIs DEF SameBut
<1>2. Moves(t) /\ tx'[t].pc = lab /\ SameBut(tx'[t], tx[t], {} \cup {"pc"})
  BY <1>1, ShapeIs, BecomeBut
<1>3. tx'[t].value = tx[t].value /\ tx[t].value \in Word /\ OthersSame(t)
  BY <1>2, MovesOthers DEF SameBut, Fields, SInv, TxInv, ReadTypes
<1>4. tx'[t].pc \in LoopLabels /\ tx'[t].pc \notin {"read", "vread", "write", "upgrade"}
  BY <1>2 DEF LoopLabels
<1> QED
  BY <1>2, <1>3, <1>4, GoOn DEF LoopFields

LEMMA ArbitrateStep ==
  ASSUME Inv, Inv', SInv, NEW t \in Thread, build' = build, Arbitrate(t)
  PROVE  SInv'
<1>1. Frame /\ InCall(t) /\ ~At(t, "do_write")
  BY DEF Arbitrate, Frame, InCall, At, CallLabels
<1>2. CASE Restart(t)
  BY <1>1, <1>2, RestartStep
<1>3. CASE Become(t, tx[t], "steal")
  BY <1>1, <1>3, StayStep
<1>4. CASE Become(t, tx[t], "kill")
  BY <1>1, <1>4, StayStep
<1>5. ASSUME NEW c, Rollback(t, [tx[t] EXCEPT !.c_lock = c])
      PROVE  SInv'
  BY <1>1, <1>5, CallIs, ContendedAbort
<1> QED
  BY <1>2, <1>3, <1>4, <1>5 DEF Arbitrate

LEMMA KillStep ==
  ASSUME Inv, Inv', SInv, NEW t \in Thread, build' = build, stm_kill(t)
  PROVE  SInv'
<1>1. Frame /\ InCall(t) /\ ~At(t, "do_write") /\ At(t, "kill")
  BY DEF stm_kill, Frame, InCall, At, CallLabels
<1>2. CASE Restart(t)
  BY <1>1, <1>2, RestartStep
<1>3. CASE tx' = [tx EXCEPT ![tx[t].l.owner].status = "KILLED", ![t].pc = "steal"]
  <2>1. PICK other \in Thread \ {t} : other = tx[t].l.owner
    BY <1>1, ShapeIs DEF LocalOK, Remembers, At, ArbiterLabels
  <2>2. Shape(tx[t]) /\ Shape(tx[other]) /\ tx = [u \in Thread |-> tx[u]]
    BY ShapeIs
  <2>3. /\ tx'[t] = [tx[t] EXCEPT !.pc = "steal"]
        /\ tx'[other] = [tx[other] EXCEPT !.status = "KILLED"]
        /\ \A u \in Thread \ {t, other} : tx'[u] = tx[u]
    BY <1>3, <2>1, <2>2
  <2>4. SameBut(tx'[t], tx[t], {"pc"}) /\ tx'[t].pc = "steal"
    <3>1. Shape(tx'[t]) /\ tx'[t].pc = "steal" /\ \A f \in Fields \ {"pc"} : tx'[t][f] = tx[t][f]
      BY <2>2, <2>3 DEF Shape, Fields
    <3> QED
      BY <3>1 DEF SameBut
  <2>5. SameBut(tx'[other], tx[other], {"status"}) /\ Killed(other)'
    <3>1. /\ Shape(tx'[other]) /\ tx'[other].status = "KILLED"
          /\ \A f \in Fields \ {"status"} : tx'[other][f] = tx[other][f]
      BY <2>2, <2>3 DEF Shape, Fields
    <3> QED
      BY <3>1 DEF SameBut, Killed
  <2>6. OthersSame(t)
    <3> SUFFICES ASSUME NEW u \in Thread \ {t}
                 PROVE  SameBut(tx'[u], tx[u], {"status"}) /\ (Killed(u) => Killed(u)')
      BY DEF OthersSame
    <3>1. CASE u = other
      BY <2>5, <3>1
    <3>2. CASE u # other
      BY <2>3, <3>2, ShapeIs DEF SameBut, Killed
    <3> QED
      BY <3>1, <3>2
  <2>7. tx'[t].value = tx[t].value /\ tx[t].value \in Word
    BY <2>4 DEF SameBut, Fields, SInv, TxInv, ReadTypes
  <2> QED
    BY <1>1, <2>4, <2>6, <2>7, GoOn DEF LoopFields, LoopLabels
<1> QED
  BY <1>2, <1>3 DEF stm_kill

-----------------------------------------------------------------------------
(***************************************************************************)
(* Free locks                                                              *)
(***************************************************************************)
LEMMA FreeBacks ==
  ASSUME Inv, NEW k \in Lock, ~LOCK_GET_OWNED(locks[k]), NEW n, NEW c, Backs(k, n, c)
  PROVE  n = locks[k].n /\ c = locks[k].inc
<1>1. ASSUME NEW u \in Thread, BackedBy(u, k, n, c) PROVE FALSE
  <2>1. HolderOwnsOf(u) /\ u # NoOwner
    BY EtlAssumption DEF Inv, LockInv, HolderOwns
  <2>2. locks[k].owner = u
    BY <1>1, <2>1 DEF BackedBy, EntryBacks, HolderOwnsOf
  <2> QED
    BY <2>1, <2>2 DEF LOCK_GET_OWNED
<1> QED
  BY <1>1 DEF Backs, FreeAt

LEMMA TicketOwns ==
  ASSUME Inv, NEW u \in Thread, Ticketed(u), NEW j \in DOMAIN W(u)
  PROVE  locks[LockAt(u, j)].owner = u
<1>1. ~Killed(u)
  BY NotKilled DEF Ticketed, InCommit
<1>2. j \in Held(u)
  BY DEF Ticketed, At, Held, Releasing
<1> QED
  BY <1>1, <1>2 DEF Inv, LockInv, HolderOwns, HolderOwnsOf

LEMMA FreeCovers ==
  ASSUME Inv, SInv, NEW k \in Lock, ~LOCK_GET_OWNED(locks[k])
  PROVE  /\ Covers(k, locks[k].n) /\ locks[k].n <= clock
         /\ locks[k].n \in Nat /\ locks[k].inc \in Nat /\ Backs(k, locks[k].n, locks[k].inc)
<1>1. locks[k].n \in Nat /\ locks[k].inc \in Nat
  BY DEF Inv, TypeOK, LockWord
<1>2. Backs(k, locks[k].n, locks[k].inc)
  BY DEF Backs, FreeAt
<1>3. ~\E u \in Thread : locks[k].owner = u
  BY EtlAssumption DEF LOCK_GET_OWNED
<1>4. PICK n \in Nat, c \in Nat : n = locks[k].n /\ c = locks[k].inc
  BY <1>1
<1>5. n <= clock /\ Covers(k, n)
  BY <1>2, <1>3, <1>4 DEF SInv, VersionInv
<1> QED
  BY <1>1, <1>2, <1>4, <1>5

LEMMA FreeStill ==
  ASSUME Inv, SInv, NEW t \in Thread, NEW r \in ReadEntry, ~LOCK_GET_OWNED(locks[r.lock]),
         locks[r.lock].n = r.version, NEW s
  PROVE  Still(t, r, s)
<1>1. r.lock \in Lock
  BY DEF ReadEntry
<1>2. Covers(r.lock, r.version)
  BY <1>1, FreeCovers
<1>3. ASSUME NEW u \in Thread \ {t}, Ticketed(u), NEW j \in DOMAIN W(u)
      PROVE  LockAt(u, j) # r.lock
  <2>1. locks[LockAt(u, j)].owner = u /\ u # NoOwner
    BY <1>3, TicketOwns, EtlAssumption
  <2> QED
    BY <2>1 DEF LOCK_GET_OWNED
<1> QED
  BY <1>2, <1>3 DEF Still, Covers

\* A word under a free lock is the last one committed.
LEMMA FreeLatest ==
  ASSUME Inv, SInv, NEW a \in Addr, ~LOCK_GET_OWNED(locks[LockOf[a]])
  PROVE  IsValueAt(a, locks[LockOf[a]].n, mem[a])
<1>1. LockOf[a] \in Lock
  BY BuildIs DEF Inv, TypeOK
<1>2. IsValueAt(a, clock, mem[a])
  BY InvUnlocked DEF UnlockedIsCommitted
<1>3. Covers(LockOf[a], locks[LockOf[a]].n) /\ locks[LockOf[a]].n <= clock /\ locks[LockOf[a]].n \in Nat
  BY <1>1, FreeCovers
<1>4. \A h \in hist : h.ts \in Nat /\ h.ts <= clock
  BY DEF Inv, TypeOK, HistoryInv
<1>5. PICK h \in hist : /\ h.addr = a /\ h.value = mem[a]
                        /\ \A g \in hist : g.addr = a /\ g.ts <= clock => g.ts <= h.ts
  BY <1>2 DEF IsValueAt
<1>6. h.ts <= locks[LockOf[a]].n
  BY <1>3, <1>5 DEF Covers
<1> QED
  BY <1>4, <1>5, <1>6 DEF IsValueAt

-----------------------------------------------------------------------------
(***************************************************************************)
(* Loads                                                                   *)
(***************************************************************************)
\* A call returns, having read nothing new.
LEMMA ReturnQuiet ==
  ASSUME Inv, Inv', SInv, NEW t \in Thread, Frame, InCall(t), ~At(t, "do_write"),
         NEW d, SameBut(d, tx[t], SettledFields \cup {"own"}), Cleared(d), Become(t, d, "app")
  PROVE  SInv'
<1>1. /\ Moves(t) /\ tx'[t].pc = "app"
      /\ SameBut(tx'[t], tx[t], (SettledFields \cup {"own"}) \cup {"pc"})
      /\ \A f \in Fields \ {"pc"} : tx'[t][f] = d[f]
  BY ShapeIs, BecomeBut
<1>2. Cleared(tx'[t])
  BY <1>1 DEF Cleared, Clean, Fields
<1>3. ReadsKept(tx'[t], tx[t])
  BY <1>1, ReadsOfBut DEF SettledFields, ReadFields
<1>4. tx'[t].visible_reads = tx[t].visible_reads /\ tx[t].visible_reads \in Nat
  BY <1>1 DEF SameBut, SettledFields, Fields, SInv, TxInv, ReadTypes
<1>5. OthersSame(t)
  BY <1>1, MovesOthers
<1>6. tx'[t].ts = 0 /\ tx'[t].op = "read" /\ tx'[t].value \in Word /\ tx'[t].now \in Nat
      /\ tx'[t].todo \in SUBSET ReadEntry
  BY <1>2, Constants DEF Cleared, Clean
<1>7. ~Reading(t)' /\ ~At(t, "read")' /\ ~At(t, "own_value")' /\ tx'[t].pc \notin CallLabels
  BY <1>1 DEF Reading, At, ReadLabels, CallLabels
<1> QED
  BY <1>1, <1>3, <1>4, <1>5, <1>6, <1>7, CallStep

LEMMA ReadOursStep ==
  ASSUME Inv, Inv', SInv, NEW t \in Thread, Frame, InCall(t), ~At(t, "do_write"), NEW w,
         locks[ArgLock(t)].owner = t, ReadOurs(t, w)
  PROVE  SInv'
<1>1. CASE Rollback(t, tx[t])
  BY <1>1, CallIs, PlainAbort
<1>2. ASSUME NEW v, Become(t, Returned(tx[t], v, FALSE), "app")
      PROVE  SInv'
  <2>1. PICK d : d = Returned(tx[t], v, FALSE)
    OBVIOUS
  <2>2. SameBut(d, tx[t], SettledFields \cup {"obs", "own"}) /\ Cleared(d) /\ d.obs = tx[t].obs
    <3>1. Shape(tx[t])
      BY ShapeIs
    <3>2. /\ SameBut(d, tx[t], SettledFields \cup {"obs", "own"}) /\ Cleared(d)
          /\ d.obs = IF FALSE THEN tx[t].obs \cup {[addr |-> tx[t].arg.addr, value |-> v]}
                     ELSE tx[t].obs
      BY <2>1, <3>1, ReturnedAll, Zenon
    <3> QED
      BY <3>2
  <2>3. SameBut(d, tx[t], SettledFields \cup {"own"})
    <3>1. \A f \in Fields \ (SettledFields \cup {"own"}) :
            f = "obs" \/ f \in Fields \ (SettledFields \cup {"obs", "own"})
      OBVIOUS
    <3> QED
      BY <2>2, <3>1 DEF SameBut
  <2> QED
    BY <1>2, <2>1, <2>2, <2>3, ReturnQuiet
<1>3. ASSUME NEW n, Become(t, [tx[t] EXCEPT !.i = n], "own_value")
      PROVE  SInv'
  <2>1. PICK d : d = [tx[t] EXCEPT !.i = n] /\ SameBut(d, tx[t], {"i"}) /\ d.i = n
    BY ShapeIs, SetIndex
  <2>4. Become(t, d, "own_value")
    BY <1>3, <2>1, Zenon
  <2>2. Moves(t) /\ tx'[t].pc = "own_value" /\ SameBut(tx'[t], tx[t], {"i"} \cup {"pc"})
    BY <2>1, <2>4, ShapeIs, BecomeBut
  <2>3. tx'[t].value = tx[t].value /\ tx[t].value \in Word /\ OthersSame(t)
    BY <2>2, MovesOthers DEF SameBut, Fields, SInv, TxInv, ReadTypes
  <2> QED
    BY <2>2, <2>3, GoOn DEF LoopFields, LoopLabels
<1> QED
  BY <1>1, <1>2, <1>3 DEF ReadOurs

\* What a reader knows of the lock word it has read stays true.
LEMMA ReaderStay ==
  ASSUME Inv, SInv, NEW t \in Thread, Frame, OthersSame(t), LogKept(t),
         Reading(t), tx'[t].arg = tx[t].arg, tx'[t].l = tx[t].l,
         At(t, "validate")' => tx[t].l.n <= tx'[t].now,
         At(t, "read_recheck")' => tx[t].l.n <= tx'[t].end,
         \/ At(t, "read_value")'
         \/ tx'[t].value = mem[tx[t].arg.addr]
         \/ ~At(t, "read_value") /\ tx'[t].value = tx[t].value
  PROVE  ReaderInv(t)'
<1>0. PICK k, l : k = ArgLock(t) /\ l = tx[t].l
  OBVIOUS
<1>1. ReaderInv(t) /\ k \in Lock
  BY <1>0, ArgLockIs DEF SInv, TxInv
<1>2. ArgLock(t)' = k /\ tx'[t].l = l /\ locks' = locks /\ mem' = mem /\ clock' = clock
      /\ build' = build /\ (WriteThrough' <=> WriteThrough)
  BY <1>0 DEF ArgLock, LockOf, Frame, WriteThrough
<1>3. \A n, c : Backs(k, n, c)' => Backs(k, n, c)
  BY <1>1, <1>2, FrameBacks
<1>4. \A u \in Thread : Published(u) => Published(u)' \/ u = t
  BY <1>2, OtherPlace DEF SamePosition
<1>5. ~Published(t)
  BY DEF Reading, Published, ReadLabels, At
<1>6. l.n <= clock /\ \A n, c \in Nat : Backs(k, n, c) => l.n < n \/ (l.n = n /\ l.inc <= c)
  BY <1>0, <1>1 DEF ReaderInv
<1>7. ASSUME ~At(t, "read_value")', Backs(k, l.n, l.inc)',
             WriteThrough => ~LOCK_GET_OWNED(locks[k]),
             ~\E u \in Thread : Published(u)' /\ locks[k].owner = u
      PROVE  tx'[t].value = mem[tx[t].arg.addr]
  <2>1. Backs(k, l.n, l.inc)
    BY <1>3, <1>7
  <2>2. ~\E u \in Thread : Published(u) /\ locks[k].owner = u
    BY <1>4, <1>5, <1>7
  <2> QED
    BY <1>0, <1>1, <1>7, <2>1, <2>2 DEF ReaderInv
<1>8. /\ l.n <= clock'
      /\ At(t, "validate")' => l.n <= tx'[t].now
      /\ At(t, "read_recheck")' => l.n <= tx'[t].end
      /\ \A n, c \in Nat : Backs(k, n, c)' => l.n < n \/ (l.n = n /\ l.inc <= c)
  BY <1>0, <1>2, <1>3, <1>6
<1> QED
  BY <1>2, <1>7, <1>8 DEF ReaderInv, LOCK_GET_OWNED

\* The log is untouched between quiet labels.
LEMMA QuietLog ==
  ASSUME NEW t \in Thread, tx[t].pc \in QuietLabels, tx'[t].pc \in QuietLabels,
         tx'[t].w_set = tx[t].w_set, tx'[t].status = tx[t].status
  PROVE  LogKept(t)
<1>1. /\ ~At(t, "do_write")' /\ Held(t) = DOMAIN W(t) /\ Held(t)' = DOMAIN W(t)'
  BY DEF QuietLabels, CallLabels, At, Held, Releasing
<1> QED
  BY <1>1 DEF LogKept, LogSame, W, Killed

LoadFields == {"pc", "l", "value", "now", "todo"}

\* An invisible read goes on.
LEMMA LoadStep ==
  ASSUME Inv, Inv', SInv, NEW t \in Thread, Frame, OthersSame(t), At(t, "read") \/ Reading(t),
         NEW S, S \subseteq LoadFields, SameBut(tx'[t], tx[t], S),
         tx'[t].value \in Word, tx'[t].now \in Nat, tx'[t].todo \in SUBSET ReadEntry,
         tx'[t].pc \in ReadLabels \cup {"validate"}, tx'[t].l.owner = NoOwner, ReaderInv(t)',
         tx'[t].pc = "validate" /\ Running(t) /\ ~tx[t].ro =>
           /\ tx[t].end <= tx'[t].now /\ tx'[t].now <= clock
           /\ \A r \in tx[t].r_set \ tx'[t].todo :
                locks[r.lock].owner # t => Still(t, r, tx[t].now)'
  PROVE  SInv'
<1>1. KindOf(t) /\ ReadTypes(tx[t]) /\ LocalOK(t)
  BY ShapeIs DEF SInv, TxInv
<1>2. InCall(t) /\ ~At(t, "do_write")
  BY DEF Reading, InCall, At, ReadLabels, CallLabels
<1>3. ~VisibleBuild
  BY <1>1 DEF KindOf
<1>4. ReadsKept(tx'[t], tx[t])
  BY ReadsOfBut DEF LoadFields, ReadFields
<1>5. tx'[t].ts = tx[t].ts /\ tx'[t].op = tx[t].op /\ tx'[t].arg = tx[t].arg
      /\ tx'[t].visible_reads = tx[t].visible_reads
  BY DEF SameBut, Fields, LoadFields
<1>6. tx[t].ts = 0 /\ tx[t].visible_reads \in Nat /\ tx[t].op # "vread"
      /\ (Running(t) /\ tx[t].ro => tx[t].op # "write")
  BY <1>1, <1>2, <1>3, CallIs DEF KindOf, ReadTypes
<1>7. /\ tx'[t].pc \in (CallLabels \ {"do_write"}) \cup {"app", "validate"}
      /\ tx'[t].pc \notin {"vread", "upgrade", "write"}
      /\ ~At(t, "app")' /\ ~At(t, "own_value")'
  BY DEF ReadLabels, CallLabels, At
<1> QED
  BY <1>2, <1>3, <1>4, <1>5, <1>6, <1>7, CallStep

LEMMA DispatchStep ==
  ASSUME Inv, Inv', SInv, NEW t \in Thread, Frame, At(t, "read") \/ Reading(t), NEW w \in LockWord,
         w = locks[ArgLock(t)] \/ (Reading(t) /\ w = tx[t].l), ReadDispatch(t, w)
  PROVE  SInv'
<1>0. PICK k \in Lock : k = ArgLock(t)
  BY ArgLockIs
<1>1. KindOf(t) /\ ReadTypes(tx[t]) /\ LocalOK(t) /\ Shape(tx[t]) /\ LockKinds
      /\ tx = [u \in Thread |-> tx[u]]
  BY ShapeIs DEF SInv, TxInv
<1>2. InCall(t) /\ ~At(t, "do_write")
  BY DEF Reading, InCall, At, ReadLabels, CallLabels
<1>3. ~VisibleBuild /\ (Reading(t) => ~tx[t].l.write /\ tx[t].l.owner = NoOwner)
  BY <1>1 DEF KindOf, Reading, LocalOK, Remembers
<1>4. CASE ~w.write
  <2>1. PICK d : d = Worded(tx[t], w, ZeroWord)
    OBVIOUS
  <2>2. SameBut(d, tx[t], {"l", "value"}) /\ d.l = w /\ d.value = ZeroWord
    BY <1>1, <2>1, SetLockValue
  <2>3. Become(t, d, "read_value")
    BY <1>4, <2>1 DEF ReadDispatch, Worded
  <2>4. /\ Moves(t) /\ tx'[t].pc = "read_value" /\ SameBut(tx'[t], tx[t], {"l", "value"} \cup {"pc"})
        /\ \A f \in Fields \ {"pc"} : tx'[t][f] = d[f]
    BY <1>1, <2>2, <2>3, BecomeBut
  <2>5. tx'[t].l = w /\ tx'[t].value = ZeroWord /\ OthersSame(t)
    BY <2>2, <2>4, MovesOthers DEF Fields
  <2>6. tx'[t].arg = tx[t].arg /\ tx'[t].now = tx[t].now /\ tx'[t].todo = tx[t].todo
        /\ tx'[t].w_set = tx[t].w_set /\ tx'[t].status = tx[t].status
    BY <2>4 DEF SameBut, Fields
  <2>7. LogKept(t)
    <3>1. tx[t].pc \in QuietLabels /\ tx'[t].pc \in QuietLabels
      BY <1>2, <2>4, CallIs DEF QuietLabels, CallLabels
    <3> QED
      BY <2>6, <3>1, QuietLog
  <2>8. w.owner = NoOwner
    <3>1. CASE w = locks[k]
      BY <1>1, <1>3, <1>4, <3>1 DEF LockKinds, LOCK_GET_OWNED
    <3> QED
      BY <1>0, <1>3, <3>1
  <2>9. ReaderInv(t)'
    <3>0. At(t, "read_value")'
      BY <2>4 DEF At
    <3>1. CASE w = locks[k]
      <4>1. ~LOCK_GET_OWNED(locks[k])
        BY <2>8, <3>1 DEF LOCK_GET_OWNED
      <4>2. w.n <= clock /\ w.n \in Nat /\ w.inc \in Nat
        BY <3>1, <4>1, FreeCovers
      <4>3. \A n, c \in Nat : Backs(k, n, c)' => w.n < n \/ (w.n = n /\ w.inc <= c)
        <5> SUFFICES ASSUME NEW n \in Nat, NEW c \in Nat, Backs(k, n, c)'
                     PROVE  w.n = n /\ w.inc <= c
          OBVIOUS
        <5>1. Backs(k, n, c)
          BY <2>5, <2>7, FrameBacks DEF Frame
        <5>2. n = w.n /\ c = w.inc
          BY <3>1, <4>1, <5>1, FreeBacks
        <5> QED
          BY <4>2, <5>2
      <4>4. ArgLock(t)' = k /\ clock' = clock /\ ~At(t, "validate")' /\ ~At(t, "read_recheck")'
        BY <1>0, <2>4, <2>6 DEF ArgLock, LockOf, Frame, At
      <4> QED
        BY <2>5, <3>0, <4>2, <4>3, <4>4 DEF ReaderInv
    <3>2. CASE Reading(t) /\ w = tx[t].l
      <4>1. ~At(t, "validate")' /\ ~At(t, "read_recheck")'
        BY <2>4 DEF At
      <4> QED
        BY <2>5, <2>6, <2>7, <3>0, <3>2, <4>1, ReaderStay
    <3> QED
      BY <1>0, <3>1, <3>2
  <2>10. /\ tx'[t].value \in Word /\ tx'[t].now \in Nat /\ tx'[t].todo \in SUBSET ReadEntry
         /\ tx'[t].pc \in ReadLabels \cup {"validate"} /\ tx'[t].pc # "validate"
         /\ tx'[t].l.owner = NoOwner
    BY <1>1, <2>4, <2>5, <2>6, <2>8, Constants DEF ReadTypes, ReadLabels
  <2>11. {"l", "value"} \cup {"pc"} \subseteq LoadFields
    BY DEF LoadFields
  <2> QED
    BY <2>4, <2>5, <2>9, <2>10, <2>11, LoadStep
<1>5. CASE w.write /\ Ours(t, w)
  <2>1. locks[ArgLock(t)].owner = t
    BY <1>3, <1>5 DEF Ours
  <2>2. ReadOurs(t, w)
    BY <1>5 DEF ReadDispatch
  <2> QED
    BY <1>2, <2>1, <2>2, ReadOursStep
<1>6. CASE w.write /\ ~Ours(t, w)
  <2>1. Conflict(t, tx[t], w)
    BY <1>6 DEF ReadDispatch
  <2> QED
    BY <1>2, <2>1, ConflictStep
<1> QED
  BY <1>4, <1>5, <1>6

LEMMA ReadLockStep ==
  ASSUME Inv, Inv', SInv, NEW t \in Thread, build' = build, ReadLock(t)
  PROVE  SInv'
<1>1. Frame /\ At(t, "read")
  BY DEF ReadLock, Frame
<1>2. PICK w \in LockWord : w = locks[ArgLock(t)]
  BY ArgLockIs
<1>3. ReadDispatch(t, w)
  BY <1>2 DEF ReadLock
<1> QED
  BY <1>1, <1>2, <1>3, DispatchStep

LEMMA ReadValueStep ==
  ASSUME Inv, Inv', SInv, NEW t \in Thread, build' = build, ReadValue(t)
  PROVE  SInv'
<1>1. Frame /\ At(t, "read_value") /\ Reading(t)
  BY DEF ReadValue, Frame, Reading, ReadLabels, At
<1>2. KindOf(t) /\ ReadTypes(tx[t]) /\ Shape(tx[t]) /\ tx = [u \in Thread |-> tx[u]]
  BY ShapeIs DEF SInv, TxInv
<1>3. PICK v \in Word : v = mem[tx[t].arg.addr]
  BY DEF Inv, TypeOK, TxTypes, Argument
<1>4. PICK d : d = [tx[t] EXCEPT !.value = v] /\ SameBut(d, tx[t], {"value"}) /\ d.value = v
  BY <1>2, SetValue
<1>13. SameBut(d, tx[t], {"value"}) /\ d.value = v
  BY <1>4
<1>5. Become(t, d, "read_lock2")
  BY <1>3, <1>4 DEF ReadValue
<1>6. /\ Moves(t) /\ tx'[t].pc = "read_lock2" /\ SameBut(tx'[t], tx[t], {"value"} \cup {"pc"})
      /\ \A f \in Fields \ {"pc"} : tx'[t][f] = d[f]
  BY <1>2, <1>5, <1>13, BecomeBut
<1>7. tx'[t].value = v /\ OthersSame(t)
  BY <1>13, <1>6, MovesOthers DEF Fields
<1>8. /\ tx'[t].arg = tx[t].arg /\ tx'[t].now = tx[t].now /\ tx'[t].todo = tx[t].todo
      /\ tx'[t].w_set = tx[t].w_set /\ tx'[t].status = tx[t].status /\ tx'[t].l = tx[t].l
  BY <1>6 DEF SameBut, Fields
<1>9. LogKept(t)
  <2>1. tx[t].pc \in QuietLabels /\ tx'[t].pc \in QuietLabels
    BY <1>1, <1>6 DEF QuietLabels, CallLabels, At
  <2> QED
    BY <1>8, <2>1, QuietLog
<1>10. ReaderInv(t)'
  <2>1. ~At(t, "validate")' /\ ~At(t, "read_recheck")'
    BY <1>6 DEF At
  <2> QED
    BY <1>1, <1>3, <1>7, <1>8, <1>9, <2>1, ReaderStay
<1>11. /\ tx'[t].now \in Nat /\ tx'[t].todo \in SUBSET ReadEntry
       /\ tx'[t].pc \in ReadLabels \cup {"validate"} /\ tx'[t].pc # "validate"
       /\ tx'[t].l.owner = NoOwner
  BY <1>1, <1>2, <1>6, <1>8 DEF ReadTypes, ReadLabels, KindOf
<1>12. {"value"} \cup {"pc"} \subseteq LoadFields
  BY DEF LoadFields
<1> QED
  BY <1>1, <1>6, <1>7, <1>10, <1>11, <1>12, LoadStep

\* What a transaction with descriptor d has read beyond that of t is good.
NewReads(t, d) ==
  Running(t) /\ ~tx[t].ro =>
    /\ \A r \in d.r_set \ tx[t].r_set : r.version <= tx[t].end /\ Still(t, r, tx[t].end)
    /\ \A o \in d.obs \ tx[t].obs :
         IF locks[LockOf[o.addr]].owner = t THEN Latest(o.addr, o.value)
         ELSE \E r \in d.r_set :
                r.lock = LockOf[o.addr] /\ IsValueAt(o.addr, r.version, o.value)

ReadSetOf(t, d) ==
  /\ tx[t].r_set \subseteq d.r_set /\ d.r_set \in SUBSET ReadEntry
  /\ d.obs \in SUBSET Observation /\ (VisibleBuild => d.r_set = {})

\* A load returns, having read something new perhaps.
LEMMA ReturnStep ==
  ASSUME Inv, Inv', SInv, NEW t \in Thread, Frame, InCall(t), ~At(t, "do_write"),
         NEW d, SameBut(d, tx[t], SettledFields \cup {"own", "obs", "r_set"}), Cleared(d),
         Become(t, d, "app"), ReadSetOf(t, d), NewReads(t, d)
  PROVE  SInv'
<1>0. tx = [u \in Thread |-> tx[u]]
  BY ShapeIs
<1>1. /\ Moves(t) /\ tx'[t].pc = "app"
      /\ SameBut(tx'[t], tx[t], (SettledFields \cup {"own", "obs", "r_set"}) \cup {"pc"})
      /\ \A f \in Fields \ {"pc"} : tx'[t][f] = d[f]
  BY <1>0, BecomeBut
<1>2. Cleared(tx'[t]) /\ tx'[t].r_set = d.r_set /\ tx'[t].obs = d.obs
  BY <1>1 DEF Cleared, Clean, Fields
<1>3. /\ tx'[t].start = tx[t].start /\ tx'[t].end = tx[t].end /\ tx'[t].ro = tx[t].ro
      /\ tx'[t].has_writes = tx[t].has_writes /\ tx'[t].w_set = tx[t].w_set
      /\ tx'[t].status = tx[t].status /\ tx'[t].visible_reads = tx[t].visible_reads
  BY <1>1 DEF SameBut, SettledFields, Fields
<1>4. OthersSame(t)
  BY <1>1, MovesOthers
<1>5. tx'[t].ts = 0 /\ tx'[t].op = "read" /\ tx'[t].value \in Word /\ tx'[t].now \in Nat
      /\ tx'[t].todo \in SUBSET ReadEntry
  BY <1>2, Constants DEF Cleared, Clean
<1>6. ~Reading(t)' /\ tx'[t].pc \notin CallLabels \cup FreeLabels /\ ~Published(t)'
      /\ ~At(t, "validate")' /\ ~Ticketed(t)' /\ tx'[t].pc \in QuietLabels
  BY <1>1 DEF Reading, At, ReadLabels, CallLabels, FreeLabels, Published, Ticketed, QuietLabels
<1>7. KindOf(t) /\ ReadTypes(tx[t]) /\ SnapInv(t)
  BY DEF SInv, TxInv
<1>8. ReadTypes(tx[t])'
  BY <1>2, <1>3, <1>5, <1>7 DEF ReadTypes, ReadSetOf
<1>9. (Killed(t)' <=> Killed(t)) /\ W(t)' = W(t) /\ (Running(t)' => Running(t))
  <2>1. (Killed(t)' <=> Killed(t)) /\ W(t)' = W(t)
    BY <1>3 DEF Killed, W
  <2> QED
    BY <2>1 DEF Running, InCall, At, CallLabels
<1>10. KindOf(t)'
  <2>1. (VisibleBuild' <=> VisibleBuild) /\ (Modular' <=> Modular)
    BY DEF VisibleBuild, Modular, Frame
  <2>2. tx'[t].pc \notin {"read", "write", "upgrade", "do_write", "vread", "own_value",
                        "drop_reads"}
    BY <1>1
  <2> QED
    BY <1>2, <1>3, <1>5, <1>6, <1>7, <1>9, <2>1, <2>2 DEF KindOf, At, ReadSetOf
<1>11. SnapInv(t)'
  <2> SUFFICES ASSUME Running(t)', ~tx'[t].ro PROVE SnapInv(t)'
    BY DEF SnapInv
  <2>1. Running(t) /\ ~tx[t].ro
    BY <1>3, <1>9
  <2>2. SnapBase(t)
    BY <1>7, <2>1 DEF SnapInv, SnapBase
  <2>3. PICK s \in Nat : s = tx[t].end
    BY <1>7 DEF ReadTypes
  <2>4. \A r : Still(t, r, s)' <=> Still(t, r, s)
    BY <1>4, FrameStill DEF Frame
  <2>5. locks' = locks /\ clock' = clock /\ build' = build /\ hist' = hist /\ LockOf' = LockOf
    BY DEF Frame, LockOf
  <2>6. \A r \in d.r_set : r.version <= s /\ (locks[r.lock].owner # t => Still(t, r, s)')
    <3> SUFFICES ASSUME NEW r \in d.r_set
                 PROVE  r.version <= s /\ (locks[r.lock].owner # t => Still(t, r, s))
      BY <2>4
    <3>1. CASE r \in tx[t].r_set
      BY <2>2, <2>3, <3>1 DEF SnapBase
    <3>2. CASE r \notin tx[t].r_set
      BY <2>1, <2>3, <3>2 DEF NewReads
    <3> QED
      BY <3>1, <3>2
  <2>7. \A o \in d.obs : Vouched(t, o)'
    <3> SUFFICES ASSUME NEW o \in d.obs PROVE Vouched(t, o)'
      OBVIOUS
    <3>1. CASE o \in tx[t].obs
      <4>1. Vouched(t, o)
        BY <2>2, <3>1 DEF SnapBase
      <4> QED
        BY <1>2, <2>5, <4>1, FrameVouched DEF ReadSetOf
    <3>2. CASE o \notin tx[t].obs
      <4>1. IF locks[LockOf[o.addr]].owner = t THEN Latest(o.addr, o.value)
            ELSE \E r \in d.r_set :
                   r.lock = LockOf[o.addr] /\ IsValueAt(o.addr, r.version, o.value)
        BY <2>1, <3>2 DEF NewReads
      <4>2. (Latest(o.addr, o.value)' <=> Latest(o.addr, o.value))
            /\ \A n : IsValueAt(o.addr, n, o.value)' <=> IsValueAt(o.addr, n, o.value)
        BY <2>5 DEF Latest, IsValueAt
      <4> QED
        BY <1>2, <2>5, <4>1, <4>2 DEF Vouched
    <3> QED
      BY <3>1, <3>2
  <2>8. tx'[t].start <= tx'[t].end /\ tx'[t].end <= clock' /\ tx'[t].end = s
    BY <1>3, <2>2, <2>3, <2>5 DEF SnapBase
  <2> QED
    BY <1>2, <1>6, <2>5, <2>6, <2>7, <2>8 DEF SnapInv
<1>12. TxInv(t)'
  BY <1>6, <1>8, <1>10, <1>11 DEF TxInv, ReaderInv, SerialInv
<1>13. tx[t].pc \in QuietLabels
  BY CallIs
<1> QED
  BY <1>3, <1>4, <1>5, <1>6, <1>12, <1>13, PlainStep

LEMMA SetReadSet ==
  ASSUME NEW d, Shape(d), NEW x
  PROVE  \E e : /\ e = [d EXCEPT !.r_set = x]
                /\ SameBut(e, d, {"r_set"}) /\ e.r_set = x
<1> DEFINE e == [d EXCEPT !.r_set = x]
<1>1. Shape(e)
  BY DEF Shape, Fields
<1>2. /\ \A f \in Fields \ {"r_set"} : e[f] = d[f]
      /\ e.r_set = x
  BY DEF Shape, Fields
<1>3. SameBut(e, d, {"r_set"})
  <2> HIDE DEF e
  <2> QED
    BY <1>1, <1>2 DEF SameBut
<1> QED
  BY <1>2, <1>3

LEMMA AddToReadSetAll ==
  ASSUME NEW t, Shape(tx[t])
  PROVE  /\ SameBut(AddToReadSet(t), tx[t], SettledFields \cup {"own", "obs", "r_set"})
         /\ Cleared(AddToReadSet(t))
         /\ AddToReadSet(t).r_set =
              IF tx[t].ro THEN tx[t].r_set
              ELSE tx[t].r_set \cup {[lock |-> ArgLock(t), version |-> LockVersion(tx[t].l)]}
         /\ AddToReadSet(t).obs =
              tx[t].obs \cup {[addr |-> tx[t].arg.addr, value |-> tx[t].value]}
<1>1. PICK x : x = IF tx[t].ro THEN tx[t].r_set
                   ELSE tx[t].r_set \cup {[lock |-> ArgLock(t), version |-> LockVersion(tx[t].l)]}
  OBVIOUS
<1>2. PICK d : d = [tx[t] EXCEPT !.r_set = x] /\ SameBut(d, tx[t], {"r_set"}) /\ d.r_set = x
  BY SetReadSet
<1>3. AddToReadSet(t) = Returned(d, tx[t].value, TRUE)
  BY <1>1, <1>2, Zenon DEF AddToReadSet
<1>4. PICK e : e = Returned(d, tx[t].value, TRUE)
  OBVIOUS
<1>5. SameBut(d, tx[t], {"r_set"}) /\ Shape(d) /\ d.arg = tx[t].arg /\ d.obs = tx[t].obs
  BY <1>2 DEF SameBut, Fields
<1>6. PICK v : v = tx[t].value
  OBVIOUS
<1>7. /\ SameBut(e, d, SettledFields \cup {"obs", "own"}) /\ Cleared(e)
      /\ e.obs = IF TRUE THEN d.obs \cup {[addr |-> d.arg.addr, value |-> v]} ELSE d.obs
  BY <1>4, <1>5, <1>6, ReturnedAll, Zenon
<1>8. SameBut(e, tx[t], SettledFields \cup {"own", "obs", "r_set"})
  BY <1>5, <1>7, Zenon DEF SameBut
<1>9. e.r_set = d.r_set
  BY <1>7 DEF SameBut, SettledFields, Fields
<1> QED
  BY <1>1, <1>2, <1>3, <1>4, <1>5, <1>6, <1>7, <1>8, <1>9

\* A word whose lock is ours, and which we have not changed, is the last one
\* committed.
LEMMA OwnLatest ==
  ASSUME Inv, NEW t \in Thread, NEW a \in Addr, locks[LockOf[a]].owner = t,
         ~WriteThrough => \A j \in DOMAIN W(t) : ~Pending(t, a, j),
         WriteThrough => \A j \in DOMAIN W(t) : ~ToUndo(t, a, j)
  PROVE  Latest(a, mem[a])
<1>1. CASE ~WriteThrough
  <2>1. ASSUME NEW u \in Thread, NEW j \in DOMAIN W(u), Pending(u, a, j) PROVE FALSE
    <3>1. u # t
      BY <1>1, <2>1
    <3>2. j \in Held(u) /\ ~Killed(u) /\ W(u)[j].addr = a
      BY <1>1, <2>1, PendingHeld
    <3>3. locks[LockAt(u, j)].owner = u
      BY <3>2 DEF Inv, LockInv, HolderOwns, HolderOwnsOf
    <3> QED
      BY <3>1, <3>2, <3>3 DEF LockAt, W
  <2> QED
    BY <1>1, <2>1 DEF Inv, MemoryInv
<1>2. CASE WriteThrough
  <2>1. ASSUME NEW u \in Thread, NEW j \in DOMAIN W(u), ToUndo(u, a, j) PROVE FALSE
    <3>1. u # t
      BY <1>2, <2>1
    <3>2. j \in Held(u) /\ ~Killed(u) /\ W(u)[j].addr = a
      BY <1>2, <2>1, ToUndoHeld
    <3>3. locks[LockAt(u, j)].owner = u
      BY <3>2 DEF Inv, LockInv, HolderOwns, HolderOwnsOf
    <3> QED
      BY <3>1, <3>2, <3>3 DEF LockAt, W
  <2> QED
    BY <1>2, <2>1 DEF Inv, MemoryInv
<1> QED
  BY <1>1, <1>2

LEMMA ReadOwnValueStep ==
  ASSUME Inv, Inv', SInv, NEW t \in Thread, build' = build, ReadOwnValue(t)
  PROVE  SInv'
<1>1. Frame /\ At(t, "own_value") /\ InCall(t) /\ ~At(t, "do_write")
  BY DEF ReadOwnValue, Frame, InCall, At, CallLabels
<1>2. CASE Rollback(t, tx[t])
  BY <1>1, <1>2, CallIs, PlainAbort
<1>3. ASSUME NEW b \in BOOLEAN, Become(t, Returned(tx[t], mem[tx[t].arg.addr], b), "app"),
             b <=> ~(WriteThrough /\ \E k \in DOMAIN W(t) :
                       W(t)[k].addr = tx[t].arg.addr /\ W(t)[k].mask # {})
      PROVE  SInv'
  <2>1. PICK a \in Addr, v \in Word : a = tx[t].arg.addr /\ v = mem[a]
    BY DEF Inv, TypeOK, TxTypes, Argument
  <2>2. PICK d : d = Returned(tx[t], v, b)
    OBVIOUS
  <2>3. Shape(tx[t]) /\ KindOf(t) /\ ReadTypes(tx[t])
    BY ShapeIs DEF SInv, TxInv
  <2>4. /\ SameBut(d, tx[t], SettledFields \cup {"obs", "own"}) /\ Cleared(d)
        /\ d.obs = IF b THEN tx[t].obs \cup {[addr |-> tx[t].arg.addr, value |-> v]}
                   ELSE tx[t].obs
    BY <2>2, <2>3, ReturnedAll, Zenon
  <2>5. d.r_set = tx[t].r_set
    BY <2>4 DEF SameBut, SettledFields, Fields
  <2>6. SameBut(d, tx[t], SettledFields \cup {"own", "obs", "r_set"})
    BY <2>4, Zenon DEF SameBut
  <2>7. Become(t, d, "app")
    BY <1>3, <2>1, <2>2
  <2>8. ReadSetOf(t, d)
    <3>1. [addr |-> a, value |-> v] \in Observation
      BY <2>1 DEF Observation
    <3> QED
      BY <2>1, <2>3, <2>4, <2>5, <3>1 DEF ReadSetOf, ReadTypes, KindOf
  <2>9. NewReads(t, d)
    <3> SUFFICES ASSUME Running(t), NEW o \in d.obs \ tx[t].obs
                 PROVE  locks[LockOf[o.addr]].owner = t /\ Latest(o.addr, o.value)
      BY <2>5 DEF NewReads
    <3>1. b /\ o.addr = a /\ o.value = v
      BY <2>1, <2>4
    <3>2. locks[LockOf[a]].owner = t
      BY <1>1, <2>1, <2>3 DEF KindOf, Running, ArgLock
    <3>3. /\ ~WriteThrough => \A j \in DOMAIN W(t) : ~Pending(t, a, j)
          /\ WriteThrough => \A j \in DOMAIN W(t) : ~ToUndo(t, a, j)
      BY <1>1, <1>3, <2>1, <3>1 DEF Pending, ToUndo, At
    <3>4. Latest(a, mem[a])
      BY <3>2, <3>3, OwnLatest
    <3> QED
      BY <2>1, <3>1, <3>2, <3>4
  <2> QED
    BY <1>1, <2>4, <2>6, <2>7, <2>8, <2>9, ReturnStep
<1>4. CASE ~Rollback(t, tx[t])
  <2>1. PICK b \in BOOLEAN : b = ~(WriteThrough /\ \E k \in DOMAIN tx[t].w_set :
            tx[t].w_set[k].addr = tx[t].arg.addr /\ tx[t].w_set[k].mask # {})
    OBVIOUS
  <2>2. Become(t, Returned(tx[t], mem[tx[t].arg.addr], b), "app")
    BY <1>4, <2>1, Zenon DEF ReadOwnValue
  <2> QED
    BY <1>3, <2>1, <2>2 DEF W
<1> QED
  BY <1>2, <1>4

LEMMA ReadDoneStep ==
  ASSUME Inv, Inv', SInv, NEW t \in Thread, Frame, Reading(t), ~At(t, "read_value"),
         locks[ArgLock(t)] = tx[t].l, tx[t].l.n <= tx[t].end, ReadDone(t)
  PROVE  SInv'
<1>k. PICK k \in Lock : k = ArgLock(t)
  BY ArgLockIs
<1>l. PICK l : l = tx[t].l
  OBVIOUS
<1>0. k = ArgLock(t) /\ l = tx[t].l /\ l = locks[k]
  BY <1>k, <1>l
<1>1. KindOf(t) /\ ReadTypes(tx[t]) /\ Shape(tx[t]) /\ ReaderInv(t)
  BY ShapeIs DEF SInv, TxInv
<1>2. InCall(t) /\ ~At(t, "do_write")
  BY DEF Reading, InCall, At, ReadLabels, CallLabels
<1>3. CASE Rollback(t, tx[t])
  BY <1>2, <1>3, CallIs, PlainAbort
<1>4. CASE Become(t, AddToReadSet(t), "app")
  <2>1. PICK d : d = AddToReadSet(t)
    OBVIOUS
  <2>2. l.owner = NoOwner /\ ~VisibleBuild /\ ~LOCK_GET_OWNED(locks[k])
    BY <1>0, <1>1 DEF KindOf, LOCK_GET_OWNED
  <2>3. l.n \in Nat /\ l.inc \in Nat /\ Backs(k, l.n, l.inc)
    BY <1>0, <2>2, FreeCovers
  <2>4. PICK r : r = [lock |-> k, version |-> l.n]
    OBVIOUS
  <2>5. r \in ReadEntry /\ r.lock = k /\ r.version = l.n
    BY <2>3, <2>4 DEF ReadEntry
  <2>6. PICK a \in Addr, v \in Word : a = tx[t].arg.addr /\ v = tx[t].value
    BY <1>1 DEF Inv, TypeOK, TxTypes, Argument, ReadTypes
  <2>7. k = LockOf[a]
    BY <1>0, <2>6 DEF ArgLock
  <2>8. /\ SameBut(d, tx[t], SettledFields \cup {"own", "obs", "r_set"}) /\ Cleared(d)
        /\ d.r_set = (IF tx[t].ro THEN tx[t].r_set
             ELSE tx[t].r_set \cup {[lock |-> ArgLock(t), version |-> LockVersion(tx[t].l)]})
        /\ d.obs = tx[t].obs \cup {[addr |-> tx[t].arg.addr, value |-> tx[t].value]}
    BY <1>1, <2>1, AddToReadSetAll, Zenon
  <2>9. LockVersion(tx[t].l) = l.n
    BY <1>0, <2>2 DEF LockVersion, LOCK_GET_OWNED
  <2>10. /\ d.r_set = IF tx[t].ro THEN tx[t].r_set ELSE tx[t].r_set \cup {r}
         /\ d.obs = tx[t].obs \cup {[addr |-> a, value |-> v]}
    BY <1>0, <2>4, <2>6, <2>8, <2>9
  <2>11. ReadSetOf(t, d)
    <3>1. [addr |-> a, value |-> v] \in Observation
      BY <2>6 DEF Observation
    <3> QED
      BY <1>1, <2>2, <2>5, <2>10, <3>1 DEF ReadSetOf, ReadTypes
  <2>12. v = mem[a]
    <3>1. ~\E u \in Thread : Published(u) /\ locks[k].owner = u
      BY <1>0, <2>2, EtlAssumption
    <3> QED
      BY <1>0, <1>1, <2>2, <2>3, <2>6, <3>1 DEF ReaderInv
  <2>13. IsValueAt(a, l.n, v)
    BY <1>0, <2>2, <2>7, <2>12, FreeLatest
  <2>14. NewReads(t, d)
    <3> SUFFICES ASSUME ~tx[t].ro
                 PROVE  /\ \A q \in d.r_set \ tx[t].r_set :
                             q.version <= tx[t].end /\ Still(t, q, tx[t].end)
                        /\ \A o \in d.obs \ tx[t].obs :
                             IF locks[LockOf[o.addr]].owner = t THEN Latest(o.addr, o.value)
                             ELSE \E q \in d.r_set : q.lock = LockOf[o.addr]
                                    /\ IsValueAt(o.addr, q.version, o.value)
      BY DEF NewReads
    <3>1. ASSUME NEW q \in d.r_set \ tx[t].r_set
          PROVE  q.version <= tx[t].end /\ Still(t, q, tx[t].end)
      <4>1. q = r
        BY <2>10
      <4>2. Still(t, r, tx[t].end)
        BY <1>0, <2>2, <2>5, FreeStill
      <4>3. r.version <= tx[t].end
        BY <1>0, <2>5
      <4> QED
        BY <4>1, <4>2, <4>3
    <3>2. ASSUME NEW o \in d.obs \ tx[t].obs
          PROVE  IF locks[LockOf[o.addr]].owner = t THEN Latest(o.addr, o.value)
                 ELSE \E q \in d.r_set : q.lock = LockOf[o.addr]
                        /\ IsValueAt(o.addr, q.version, o.value)
      <4>1. o.addr = a /\ o.value = v /\ r \in d.r_set
        BY <2>10
      <4>2. locks[LockOf[o.addr]].owner # t
        BY <1>0, <2>2, <2>7, <4>1, EtlAssumption
      <4>3. r.lock = LockOf[o.addr] /\ IsValueAt(o.addr, r.version, o.value)
        BY <2>5, <2>7, <2>13, <4>1
      <4> QED
        BY <4>1, <4>2, <4>3
    <3> QED
      BY <3>1, <3>2
  <2>15. Become(t, d, "app")
    BY <1>4, <2>1
  <2> QED
    BY <1>2, <2>8, <2>11, <2>14, <2>15, ReturnStep
<1> QED
  BY <1>3, <1>4 DEF ReadDone

\* A read stays where it is but for label, time and validation.
LEMMA ReadOn ==
  ASSUME Inv, Inv', SInv, NEW t \in Thread, Frame, Reading(t), ~At(t, "read_value"),
         NEW d, NEW S, S \subseteq {"now", "todo"}, SameBut(d, tx[t], S),
         d.now \in Nat, d.todo \in SUBSET ReadEntry,
         NEW lab, lab \in {"extend", "validate"}, Become(t, d, lab),
         lab = "validate" => tx[t].l.n <= d.now,
         lab = "validate" /\ Running(t) /\ ~tx[t].ro =>
           /\ tx[t].end <= d.now /\ d.now <= clock
           /\ \A r \in tx[t].r_set \ d.todo : locks[r.lock].owner # t => Still(t, r, d.now)
  PROVE  SInv'
<1>2. KindOf(t) /\ ReadTypes(tx[t]) /\ Shape(tx[t]) /\ tx = [u \in Thread |-> tx[u]]
  BY ShapeIs DEF SInv, TxInv
<1>6. /\ Moves(t) /\ tx'[t].pc = lab /\ SameBut(tx'[t], tx[t], S \cup {"pc"})
      /\ \A f \in Fields \ {"pc"} : tx'[t][f] = d[f]
  BY <1>2, BecomeBut
<1>7. tx'[t].now = d.now /\ tx'[t].todo = d.todo /\ OthersSame(t)
  BY <1>6, MovesOthers DEF Fields
<1>8. /\ tx'[t].arg = tx[t].arg /\ tx'[t].value = tx[t].value
      /\ tx'[t].w_set = tx[t].w_set /\ tx'[t].status = tx[t].status /\ tx'[t].l = tx[t].l
  BY <1>6 DEF SameBut, Fields
<1>9. LogKept(t)
  <2>1. tx[t].pc \in QuietLabels /\ tx'[t].pc \in QuietLabels
    BY <1>6 DEF QuietLabels, CallLabels, At, Reading, ReadLabels
  <2> QED
    BY <1>8, <2>1, QuietLog
<1>10. ReaderInv(t)'
  <2>1. ~At(t, "read_recheck")' /\ (At(t, "validate")' => tx[t].l.n <= tx'[t].now)
    BY <1>6, <1>7 DEF At
  <2> QED
    BY <1>8, <1>7, <1>9, <2>1, ReaderStay
<1>11. /\ tx'[t].now \in Nat /\ tx'[t].todo \in SUBSET ReadEntry /\ tx'[t].value \in Word
       /\ tx'[t].pc \in ReadLabels \cup {"validate"}
       /\ tx'[t].l.owner = NoOwner
  BY <1>2, <1>6, <1>7, <1>8 DEF ReadTypes, ReadLabels, KindOf
<1>12. S \cup {"pc"} \subseteq LoadFields
  BY DEF LoadFields
<1>13. tx'[t].pc = "validate" /\ Running(t) /\ ~tx[t].ro =>
           /\ tx[t].end <= tx'[t].now /\ tx'[t].now <= clock
           /\ \A r \in tx[t].r_set \ tx'[t].todo :
                locks[r.lock].owner # t => Still(t, r, tx[t].now)'
  <2> SUFFICES ASSUME tx'[t].pc = "validate", Running(t), ~tx[t].ro
               PROVE  /\ tx[t].end <= tx'[t].now /\ tx'[t].now <= clock
                      /\ \A r \in tx[t].r_set \ tx'[t].todo :
                           locks[r.lock].owner # t => Still(t, r, tx[t].now)'
    OBVIOUS
  <2>1. \A r : Still(t, r, d.now)' <=> Still(t, r, d.now)
    BY <1>7, FrameStill DEF Frame
  <2> QED
    BY <1>6, <1>7, <2>1
<1> QED
  BY <1>6, <1>7, <1>10, <1>11, <1>12, <1>13, LoadStep

LEMMA ReadLock2Step ==
  ASSUME Inv, Inv', SInv, NEW t \in Thread, build' = build, ReadLock2(t)
  PROVE  SInv'
<1>1. Frame /\ At(t, "read_lock2") /\ Reading(t) /\ ~At(t, "read_value")
  BY DEF ReadLock2, Frame, Reading, ReadLabels, At
<1>2. PICK w \in LockWord : w = locks[ArgLock(t)]
  BY ArgLockIs
<1>3. KindOf(t) /\ ReadTypes(tx[t]) /\ Shape(tx[t])
  BY ShapeIs DEF SInv, TxInv
<1>4. CASE ReadDispatch(t, w)
  BY <1>1, <1>2, <1>4, DispatchStep
<1>5. CASE w = tx[t].l /\ LockVersion(w) <= tx[t].end /\ ReadDone(t)
  <2>1. LockVersion(w) = tx[t].l.n
    BY <1>1, <1>3, <1>5 DEF KindOf, LockVersion, LOCK_GET_OWNED
  <2> QED
    BY <1>1, <1>2, <1>5, <2>1, ReadDoneStep
<1>6. CASE InvalidRead(t)
  <2>1. tx[t].pc \in QuietLabels \ {"rollback"}
    BY <1>1 DEF QuietLabels, CallLabels, At
  <2> QED
    BY <1>1, <1>6, <2>1, InvalidReadStep
<1>7. CASE Become(t, tx[t], "extend")
  <2>1. SameBut(tx[t], tx[t], {})
    BY <1>3 DEF SameBut
  <2>2. tx[t].now \in Nat /\ tx[t].todo \in SUBSET ReadEntry
    BY <1>3 DEF ReadTypes
  <2> QED
    BY <1>1, <1>7, <2>1, <2>2, ReadOn
<1> QED
  BY <1>2, <1>4, <1>5, <1>6, <1>7 DEF ReadLock2

LEMMA ReadRecheckStep ==
  ASSUME Inv, Inv', SInv, NEW t \in Thread, build' = build, ReadRecheck(t)
  PROVE  SInv'
<1>1. Frame /\ At(t, "read_recheck") /\ Reading(t) /\ ~At(t, "read_value")
  BY DEF ReadRecheck, Frame, Reading, ReadLabels, At
<1>2. CASE locks[ArgLock(t)] = tx[t].l /\ ReadDone(t)
  <2>1. ReaderInv(t)
    BY DEF SInv, TxInv
  <2>2. tx[t].l.n <= tx[t].end
    BY <1>1, <2>1 DEF ReaderInv
  <2> QED
    BY <1>1, <1>2, <2>2, ReadDoneStep
<1>3. CASE ReadDispatch(t, tx[t].l)
  <2>1. PICK w \in LockWord : w = tx[t].l
    BY DEF Inv, TypeOK, TxTypes
  <2> QED
    BY <1>1, <1>3, <2>1, DispatchStep
<1> QED
  BY <1>2, <1>3 DEF ReadRecheck

LEMMA ExtendStep ==
  ASSUME Inv, Inv', SInv, NEW t \in Thread, build' = build, stm_extend(t)
  PROVE  SInv'
<1>1. Frame /\ At(t, "extend") /\ Reading(t) /\ ~At(t, "read_value")
  BY DEF stm_extend, Frame, Reading, ReadLabels, At
<1>2. CASE InvalidRead(t)
  <2>1. tx[t].pc \in QuietLabels \ {"rollback"}
    BY <1>1 DEF QuietLabels, CallLabels, At
  <2> QED
    BY <1>1, <1>2, <2>1, InvalidReadStep
<1>3. CASE Become(t, [tx[t] EXCEPT !.now = clock, !.todo = tx[t].r_set], "validate")
  <2>1. Shape(tx[t]) /\ ReadTypes(tx[t]) /\ ReaderInv(t) /\ SnapInv(t) /\ clock \in Nat
    BY ShapeIs DEF SInv, TxInv
  <2>2. PICK d, c, R : d = Timed(tx[t], c, R) /\ c = clock /\ R = tx[t].r_set
    OBVIOUS
  <2>3. SameBut(d, tx[t], {"now", "todo"}) /\ d.now = c /\ d.todo = R
    BY <2>1, <2>2, SetNow
  <2>4. Become(t, d, "validate")
    BY <1>3, <2>2 DEF Timed
  <2>5. d.now \in Nat /\ d.todo \in SUBSET ReadEntry /\ d.todo = tx[t].r_set /\ d.now = clock
    BY <2>1, <2>2, <2>3 DEF ReadTypes
  <2>6. tx[t].l.n <= clock
    BY <1>1, <2>1 DEF ReaderInv
  <2>7. Running(t) /\ ~tx[t].ro =>
           /\ tx[t].end <= d.now /\ d.now <= clock
           /\ \A r \in tx[t].r_set \ d.todo : locks[r.lock].owner # t => Still(t, r, d.now)
    BY <2>1, <2>5 DEF SnapInv
  <2> QED
    BY <1>1, <2>3, <2>4, <2>5, <2>6, <2>7, ReadOn
<1> QED
  BY <1>2, <1>3 DEF stm_extend

\* A valid entry is still the last word under its lock, or the lock is ours.
LEMMA ValidStill ==
  ASSUME Inv, SInv, NEW t \in Thread, NEW r \in ReadEntry, ValidEntry(t, r),
         locks[r.lock].owner # t, NEW s
  PROVE  Still(t, r, s)
<1>1. ~LOCK_GET_OWNED(locks[r.lock]) /\ locks[r.lock].n = r.version
  BY DEF ValidEntry, Ours
<1> QED
  BY <1>1, FreeStill

LEMMA ValidateStep ==
  ASSUME Inv, Inv', SInv, NEW t \in Thread, build' = build, NEW r \in tx[t].todo,
         stm_validate(t, r)
  PROVE  SInv'
<1>1. Frame /\ At(t, "validate") /\ tx[t].pc \in QuietLabels \ {"rollback"}
  BY DEF stm_validate, Frame, QuietLabels, At, CallLabels
<1>2. TxInv(t) /\ Shape(tx[t]) /\ ReadTypes(tx[t]) /\ ReaderInv(t) /\ SnapInv(t) /\ KindOf(t)
      /\ tx = [u \in Thread |-> tx[u]] /\ TxTypes(tx[t]) /\ clock \in Nat
  BY ShapeIs DEF SInv, TxInv
<1>3. CASE InvalidRead(t)
  BY <1>1, <1>3, InvalidReadStep
<1>4. CASE ValidEntry(t, r) /\ Become(t, [tx[t] EXCEPT !.todo = @ \ {r}], "validate")
  <2>1. PICK x : x = tx[t].todo \ {r}
    OBVIOUS
  <2>2. PICK d : d = [tx[t] EXCEPT !.todo = x] /\ SameBut(d, tx[t], {"todo"}) /\ d.todo = x
    BY <1>2, SetTodo
  <2>3. SameBut(d, tx[t], {"todo"}) /\ d.todo = x
    BY <2>2
  <2>4. Become(t, d, "validate")
    BY <1>2, <1>4, <2>1, <2>2 DEF Shape, Fields
  <2>5. x \in SUBSET ReadEntry /\ r \in ReadEntry
    BY <1>2, <2>1 DEF ReadTypes
  <2>6. d.now = tx[t].now /\ d.ts = tx[t].ts
    BY <2>3 DEF SameBut, Fields
  <2>7. \A q \in tx[t].r_set \ x : q = r \/ q \in tx[t].r_set \ tx[t].todo
    BY <2>1
  <2>8. CASE tx[t].ts = 0
    <3>1. Reading(t) /\ ~At(t, "read_value")
      BY <1>1, <2>8 DEF Reading, At
    <3>2. tx[t].l.n <= d.now /\ d.now \in Nat
      BY <1>1, <1>2, <2>6, <3>1 DEF ReaderInv, ReadTypes
    <3>3. Running(t) /\ ~tx[t].ro =>
             /\ tx[t].end <= d.now /\ d.now <= clock
             /\ \A q \in tx[t].r_set \ d.todo : locks[q.lock].owner # t => Still(t, q, d.now)
      <4> SUFFICES ASSUME Running(t), ~tx[t].ro
                   PROVE  /\ tx[t].end <= d.now /\ d.now <= clock
                          /\ \A q \in tx[t].r_set \ d.todo :
                               locks[q.lock].owner # t => Still(t, q, d.now)
        OBVIOUS
      <4>1. tx[t].end <= d.now /\ d.now <= clock
        BY <1>1, <1>2, <2>6, <2>8 DEF SnapInv
      <4>2. ASSUME NEW q \in tx[t].r_set \ d.todo, locks[q.lock].owner # t
            PROVE  Still(t, q, d.now)
        <5>1. CASE q = r
          BY <1>4, <2>5, <4>2, <5>1, ValidStill
        <5>2. CASE q \in tx[t].r_set \ tx[t].todo
          BY <1>1, <1>2, <2>6, <2>8, <4>2, <5>2 DEF SnapInv
        <5> QED
          BY <2>3, <2>7, <5>1, <5>2
      <4> QED
        BY <4>1, <4>2
    <3> QED
      BY <1>1, <2>3, <2>4, <2>5, <3>1, <3>2, <3>3, ReadOn
  <2>9. CASE tx[t].ts # 0
    <3>1. /\ Moves(t) /\ tx'[t].pc = "validate" /\ SameBut(tx'[t], tx[t], {"todo"} \cup {"pc"})
          /\ \A f \in Fields \ {"pc"} : tx'[t][f] = d[f]
      BY <1>2, <2>3, <2>4, BecomeBut
    <3>2. tx'[t].todo = x /\ OthersSame(t)
      BY <2>3, <3>1, MovesOthers DEF Fields
    <3>3. /\ tx'[t].arg = tx[t].arg /\ tx'[t].value = tx[t].value /\ tx'[t].i = tx[t].i
          /\ tx'[t].w_set = tx[t].w_set /\ tx'[t].status = tx[t].status /\ tx'[t].l = tx[t].l
          /\ tx'[t].ts = tx[t].ts /\ tx'[t].op = tx[t].op /\ tx'[t].now = tx[t].now
          /\ tx'[t].visible_reads = tx[t].visible_reads
      BY <3>1 DEF SameBut, Fields
    <3>4. ReadsKept(tx'[t], tx[t])
      BY <3>1, ReadsOfBut DEF ReadFields
    <3>5. ReadTypes(tx[t])'
      BY <1>2, <2>5, <3>2, <3>3, <3>4 DEF ReadTypes, ReadsKept
    <3>6. (Running(t)' <=> Running(t)) /\ ~Reading(t)' /\ ~Published(t)' /\ W(t)' = W(t)
          /\ (At(t, "validate")' /\ Ticketed(t)')
      BY <1>1, <2>9, <3>1, <3>3 DEF Running, Reading, Published, W, At, Ticketed, ReadLabels,
           CallLabels, Killed
    <3>7. KindOf(t)'
      <4>1. (VisibleBuild' <=> VisibleBuild) /\ (Modular' <=> Modular)
        BY DEF VisibleBuild, Modular
      <4> QED
        BY <1>1, <1>2, <3>1, <3>3, <3>4, <3>6, <4>1 DEF KindOf, ReadsKept, At, CallLabels, FreeLabels
    <3>8. SnapInv(t)'
      <4> SUFFICES ASSUME Running(t)', ~tx'[t].ro PROVE SnapInv(t)'
        BY DEF SnapInv
      <4>1. Running(t) /\ ~tx[t].ro
        BY <3>4, <3>6 DEF ReadsKept
      <4>2. SnapBase(t)
        BY <1>2, <4>1 DEF SnapInv, SnapBase
      <4>3. SnapBase(t)'
        BY <1>1, <1>2, <3>2, <3>4, <4>2, SnapBaseKept DEF Frame, ReadsKept
      <4>4. PICK s : s = tx[t].ts - 1
        OBVIOUS
      <4>5. /\ tx[t].end < tx[t].ts
            /\ \A q \in tx[t].r_set \ tx[t].todo : locks[q.lock].owner # t => Still(t, q, s)
        BY <1>1, <1>2, <2>9, <4>1, <4>4 DEF SnapInv, Ticketed
      <4>6. ASSUME NEW q \in tx[t].r_set \ x, locks[q.lock].owner # t
            PROVE  Still(t, q, s)'
        <5>1. Still(t, q, s)
          <6>1. CASE q = r
            BY <1>4, <2>5, <4>6, <6>1, ValidStill
          <6> QED
            BY <2>7, <4>5, <4>6, <6>1
        <5> QED
          BY <1>1, <3>2, <5>1, FrameStill DEF Frame
      <4>7. tx'[t].end < tx'[t].ts /\ tx'[t].ts - 1 = s /\ tx'[t].r_set = tx[t].r_set
            /\ locks' = locks /\ tx'[t].ts # 0
        BY <1>1, <2>9, <3>3, <3>4, <4>4, <4>5 DEF ReadsKept, Frame
      <4> QED
        BY <3>2, <4>3, <4>6, <4>7 DEF SnapInv, SnapBase
    <3>9. TxInv(t)'
      BY <3>5, <3>6, <3>7, <3>8 DEF TxInv, ReaderInv, SerialInv
    <3>10. tx'[t].pc \in QuietLabels /\ tx[t].pc = "validate"
      BY <1>1, <3>1 DEF QuietLabels, At
    <3> QED
      BY <1>1, <3>2, <3>3, <3>9, <3>10, PlainStep
  <2> QED
    BY <2>8, <2>9
<1> QED
  BY <1>3, <1>4 DEF stm_validate

LEMMA ExtendOkStep ==
  ASSUME Inv, Inv', SInv, NEW t \in Thread, build' = build, ExtendOk(t)
  PROVE  SInv'
<1>1. Frame /\ At(t, "validate") /\ tx[t].pc \in QuietLabels \ {"rollback"} /\ tx[t].ts = 0
      /\ tx[t].todo = {} /\ Reading(t) /\ ~At(t, "read_value")
  BY DEF ExtendOk, Frame, QuietLabels, At, CallLabels, Reading
<1>2. TxInv(t) /\ Shape(tx[t]) /\ ReadTypes(tx[t]) /\ ReaderInv(t) /\ SnapInv(t) /\ KindOf(t)
      /\ tx = [u \in Thread |-> tx[u]] /\ TxTypes(tx[t]) /\ clock \in Nat
  BY ShapeIs DEF SInv, TxInv
<1>3. PICK d, s : d = Extended(tx[t], s, s, 0) /\ s = tx[t].now
  OBVIOUS
<1>4. SameBut(d, tx[t], {"end", "snap", "now"}) /\ d.end = s /\ d.now = 0
  BY <1>2, <1>3, SetExtended
<1>5. Become(t, d, "read_recheck")
  BY <1>3 DEF ExtendOk, Extended
<1>6. /\ Moves(t) /\ tx'[t].pc = "read_recheck"
      /\ SameBut(tx'[t], tx[t], {"end", "snap", "now"} \cup {"pc"})
      /\ \A f \in Fields \ {"pc"} : tx'[t][f] = d[f]
  BY <1>2, <1>4, <1>5, BecomeBut
<1>7. tx'[t].end = s /\ tx'[t].now = 0 /\ s \in Nat /\ OthersSame(t)
  BY <1>2, <1>3, <1>4, <1>6, MovesOthers DEF Fields, ReadTypes
<1>8. /\ tx'[t].arg = tx[t].arg /\ tx'[t].value = tx[t].value
      /\ tx'[t].w_set = tx[t].w_set /\ tx'[t].status = tx[t].status /\ tx'[t].l = tx[t].l
      /\ tx'[t].ts = tx[t].ts /\ tx'[t].op = tx[t].op /\ tx'[t].todo = tx[t].todo
      /\ tx'[t].visible_reads = tx[t].visible_reads /\ tx'[t].has_writes = tx[t].has_writes
      /\ tx'[t].r_set = tx[t].r_set /\ tx'[t].obs = tx[t].obs /\ tx'[t].start = tx[t].start
      /\ tx'[t].ro = tx[t].ro
  BY <1>6 DEF SameBut, Fields
<1>9. LogKept(t) /\ tx'[t].pc \in QuietLabels
  <2>1. tx[t].pc \in QuietLabels /\ tx'[t].pc \in QuietLabels
    BY <1>1, <1>6 DEF QuietLabels, CallLabels, At
  <2> QED
    BY <1>8, <2>1, QuietLog
<1>10. ReaderInv(t)'
  <2>1. tx[t].l.n <= s
    BY <1>1, <1>2, <1>3 DEF ReaderInv
  <2>2. ~At(t, "validate")' /\ (At(t, "read_recheck")' => tx[t].l.n <= tx'[t].end)
    BY <1>6, <1>7, <2>1 DEF At
  <2> QED
    BY <1>1, <1>7, <1>8, <1>9, <2>2, ReaderStay
<1>11. ReadTypes(tx[t])'
  BY <1>2, <1>7, <1>8 DEF ReadTypes
<1>12. (Running(t)' => Running(t)) /\ ~Published(t)' /\ W(t)' = W(t) /\ ~Ticketed(t)'
       /\ ~At(t, "validate")'
  BY <1>1, <1>6, <1>8 DEF Running, Published, W, At, Ticketed, CallLabels, Killed
<1>13. KindOf(t)'
  <2>1. (VisibleBuild' <=> VisibleBuild) /\ (Modular' <=> Modular)
    BY DEF VisibleBuild, Modular
  <2>2. ~VisibleBuild /\ tx[t].l.owner = NoOwner
    BY <1>1, <1>2 DEF KindOf
  <2> QED
    BY <1>2, <1>6, <1>8, <1>12, <2>1, <2>2 DEF KindOf, At, FreeLabels
<1>14. SnapInv(t)'
  <2> SUFFICES ASSUME Running(t)', ~tx'[t].ro PROVE SnapInv(t)'
    BY DEF SnapInv
  <2>1. /\ tx[t].start <= tx[t].end /\ tx[t].end <= s /\ s <= clock
        /\ \A r \in tx[t].r_set : r.version <= tx[t].end
        /\ \A r \in tx[t].r_set : locks[r.lock].owner # t => Still(t, r, s)
        /\ \A o \in tx[t].obs : Vouched(t, o)
    BY <1>1, <1>2, <1>3, <1>8, <1>12 DEF SnapInv
  <2>2. \A r : Still(t, r, s)' <=> Still(t, r, s)
    BY <1>1, <1>7, FrameStill DEF Frame
  <2>3. \A o : Vouched(t, o) => Vouched(t, o)'
    BY <1>1, <1>8, FrameVouched DEF Frame
  <2>4. clock' = clock /\ locks' = locks
    BY <1>1 DEF Frame
  <2>5. \A r \in tx[t].r_set : r.version <= s
    <3> SUFFICES ASSUME NEW r \in tx[t].r_set PROVE r.version <= s
      OBVIOUS
    <3>1. r.version \in Nat /\ tx[t].end \in Nat
      BY <1>2 DEF ReadTypes, ReadEntry
    <3> QED
      BY <1>7, <2>1, <3>1
  <2>6. tx'[t].start <= s
    BY <1>2, <1>7, <1>8, <2>1 DEF ReadTypes
  <2> QED
    BY <1>7, <1>8, <1>12, <2>1, <2>2, <2>3, <2>4, <2>5, <2>6 DEF SnapInv
<1>15. TxInv(t)'
  BY <1>10, <1>11, <1>12, <1>13, <1>14 DEF TxInv, SerialInv
<1> QED
  BY <1>1, <1>7, <1>8, <1>9, <1>15, PlainStep

LEMMA VisibleIs ==
  ASSUME Inv, SInv, NEW t \in Thread
  PROVE  /\ VisibleBuild => UseVisibleReads(t)
         /\ OneKindOfRead /\ UseVisibleReads(t) => VisibleBuild
<1>1. build \in Build /\ tx[t].visible_reads \in Nat
  BY EtlAssumption DEF Inv, TypeOK, SInv, TxInv, ReadTypes
<1>2. build.vr_threshold \in Int
  BY <1>1 DEF Build
<1> QED
  BY <1>1, <1>2 DEF UseVisibleReads, VisibleBuild, OneKindOfRead

\* A call begins.
LEMMA BeginStep ==
  ASSUME Inv, Inv', SInv, NEW t \in Thread, Frame, At(t, "app"), NEW d, NEW S,
         S \subseteq {"calls", "op", "arg"}, SameBut(d, tx[t], S), d.op \in {"read", "vread", "write"},
         Become(t, d, d.op), d.op = "vread" => VisibleBuild, d.op = "read" => ~VisibleBuild,
         d.op = "write" => ~tx[t].ro
  PROVE  SInv'
<1>2. ReadTypes(tx[t]) /\ Shape(tx[t]) /\ LocalOK(t) /\ tx = [u \in Thread |-> tx[u]] /\ KindOf(t)
  BY ShapeIs DEF SInv, TxInv
<1>3. PICK lab : lab = d.op
  OBVIOUS
<1>4. Become(t, d, lab)
  BY <1>3
<1>5. /\ Moves(t) /\ tx'[t].pc = lab /\ SameBut(tx'[t], tx[t], S \cup {"pc"})
      /\ \A f \in Fields \ {"pc"} : tx'[t][f] = d[f]
  BY <1>2, <1>4, BecomeBut
<1>6. OthersSame(t) /\ tx'[t].op = lab
  BY <1>3, <1>5, MovesOthers DEF Fields
<1>7. ReadsKept(tx'[t], tx[t])
  BY <1>5, ReadsOfBut DEF ReadFields
<1>8. /\ tx'[t].ts = tx[t].ts /\ tx'[t].visible_reads = tx[t].visible_reads
      /\ tx'[t].value = tx[t].value /\ tx'[t].now = tx[t].now /\ tx'[t].todo = tx[t].todo
  BY <1>5 DEF SameBut, Fields
<1>9. tx[t].ts = 0
  BY <1>2 DEF LocalOK, TicketPhase, At
<1>10. /\ tx'[t].ts = 0 /\ tx'[t].visible_reads \in Nat /\ tx'[t].value \in Word
       /\ tx'[t].now \in Nat /\ tx'[t].todo \in SUBSET ReadEntry
  BY <1>2, <1>8, <1>9 DEF ReadTypes
<1>11. /\ tx'[t].pc \in (CallLabels \ {"do_write"}) \cup {"app", "validate"}
       /\ ~Reading(t)' /\ ~At(t, "app")' /\ ~At(t, "own_value")' /\ tx'[t].pc # "validate"
       /\ tx'[t].pc # "upgrade"
  BY <1>3, <1>5 DEF CallLabels, Reading, ReadLabels, At
<1>12. /\ ~VisibleBuild => tx'[t].op # "vread" /\ tx'[t].pc \notin {"vread", "upgrade"}
       /\ VisibleBuild => ~At(t, "read")' /\ tx'[t].op # "read"
       /\ tx'[t].pc \in {"write", "upgrade"} => tx'[t].op = "write"
       /\ Running(t) /\ tx[t].ro => tx'[t].op # "write"
       /\ ~At(t, "do_write")
  BY <1>3, <1>5, <1>6 DEF At
<1> QED
  BY <1>6, <1>7, <1>10, <1>11, <1>12, CallStep

LEMMA LoadCallStep ==
  ASSUME Inv, Inv', SInv, OneKindOfRead, NEW t \in Thread, build' = build, NEW a, stm_load(t, a)
  PROVE  SInv'
<1>1. Frame /\ At(t, "app") /\ tx[t].pc \in QuietLabels \ {"rollback"}
  BY DEF stm_load, Frame, QuietLabels, At, CallLabels
<1>2. ReadTypes(tx[t]) /\ Shape(tx[t]) /\ KindOf(t)
  BY ShapeIs DEF SInv, TxInv
<1>3. PICK d : d = Loading(tx[t], a)
  OBVIOUS
<1>4. SameBut(d, tx[t], {"calls", "arg"})
  BY <1>2, <1>3, SetLoading
<1>5. ReadsKept(d, tx[t])
  BY <1>4, ReadsOfBut DEF ReadFields
<1>6. d.visible_reads = tx[t].visible_reads /\ d.op = tx[t].op /\ Shape(d) /\ tx[t].op = "read"
  <2>1. tx[t].op = "read"
    BY <1>1, <1>2 DEF KindOf, At
  <2> QED
    BY <1>4, <2>1 DEF SameBut, Fields
<1>7. \/ ~UseVisibleReads(t) /\ Become(t, d, "read")
      \/ Rollback(t, d)
      \/ UseVisibleReads(t) /\ Become(t, [d EXCEPT !.op = "vread"], "vread")
  BY <1>3, Zenon DEF stm_load, Loading
<1>8. CASE ~UseVisibleReads(t) /\ Become(t, d, "read")
  <2>1. ~VisibleBuild /\ d.op = "read" /\ Become(t, d, d.op)
    BY <1>6, <1>8, VisibleIs
  <2> QED
    BY <1>1, <1>4, <2>1, BeginStep
<1>9. CASE Rollback(t, d)
  <2>1. d.visible_reads \in Nat
    BY <1>2, <1>6 DEF ReadTypes
  <2> QED
    BY <1>1, <1>5, <1>6, <1>9, <2>1, AbortStep
<1>10. CASE UseVisibleReads(t) /\ Become(t, [d EXCEPT !.op = "vread"], "vread")
  <2>1. PICK e : e = [d EXCEPT !.op = "vread"] /\ SameBut(e, d, {"op"}) /\ e.op = "vread"
    BY <1>6, SetOp
  <2>2. SameBut(e, tx[t], {"calls", "op", "arg"})
    BY <1>4, <2>1, Zenon DEF SameBut
  <2>3. Become(t, e, "vread")
    BY <1>10, <2>1, Zenon
  <2>4. VisibleBuild /\ e.op = "vread" /\ Become(t, e, e.op)
    BY <1>10, <2>1, <2>3, VisibleIs
  <2> QED
    BY <1>1, <2>2, <2>4, BeginStep
<1> QED
  BY <1>7, <1>8, <1>9, <1>10

LEMMA StoreCallStep ==
  ASSUME Inv, Inv', SInv, NEW t \in Thread, build' = build, NEW a, NEW v, NEW m,
         stm_store(t, a, v, m)
  PROVE  SInv'
<1>1. Frame /\ At(t, "app") /\ tx[t].pc \in QuietLabels \ {"rollback"}
  BY DEF stm_store, Frame, QuietLabels, At, CallLabels
<1>2. ReadTypes(tx[t]) /\ Shape(tx[t]) /\ KindOf(t)
  BY ShapeIs DEF SInv, TxInv
<1>3. PICK d : d = Storing(tx[t], a, v, m)
  OBVIOUS
<1>4. SameBut(d, tx[t], {"calls", "op", "arg"}) /\ d.op = "write"
  BY <1>2, <1>3, SetStoring
<1>5. ReadsKept(d, tx[t])
  BY <1>4, ReadsOfBut DEF ReadFields
<1>6. d.visible_reads = tx[t].visible_reads /\ d.ro = tx[t].ro /\ Shape(d)
  BY <1>4 DEF SameBut, Fields
<1>7. Rollback(t, d) \/ (~d.ro /\ Become(t, d, "write"))
  BY <1>3, Zenon DEF stm_store, Storing
<1>8. CASE ~d.ro /\ Become(t, d, "write")
  <2>1. ~tx[t].ro /\ Become(t, d, d.op)
    BY <1>4, <1>6, <1>8
  <2> QED
    BY <1>1, <1>4, <2>1, BeginStep
<1>9. CASE Rollback(t, d)
  <2>1. d.visible_reads \in Nat
    BY <1>2, <1>6 DEF ReadTypes
  <2> QED
    BY <1>1, <1>5, <1>6, <1>9, <2>1, AbortStep
<1> QED
  BY <1>7, <1>8, <1>9

LEMMA AbortCallStep ==
  ASSUME Inv, Inv', SInv, NEW t \in Thread, build' = build, stm_abort(t)
  PROVE  SInv'
<1>1. Frame /\ Rollback(t, tx[t]) /\ tx[t].pc \in QuietLabels \ {"rollback"}
  BY DEF stm_abort, Frame, QuietLabels, At, CallLabels
<1> QED
  BY <1>1, PlainAbort

-----------------------------------------------------------------------------
(***************************************************************************)
(* Begin, end and phases of a transaction                                  *)
(***************************************************************************)
RestLabels == FreeLabels \cup AbortLabels \cup {"end"}

\* A transaction moves to where it does not run.
LEMMA RestStep ==
  ASSUME Inv, Inv', SInv, NEW t \in Thread, build' = build, OthersSame(t),
         UNCHANGED <<locks, mem, hist>>, clock' \in {clock, clock + 1}, LogKept(t),
         ~Published(t), tx'[t].pc \in RestLabels, ReadTypes(tx'[t]),
         VisibleBuild => tx'[t].r_set = {}, tx'[t].pc \in FreeLabels => tx'[t].op = "read",
         ~VisibleBuild => tx'[t].op # "vread",
         ~VisibleBuild /\ Modular /\ tx'[t].w_set # <<>> => tx'[t].has_writes > 0,
         Stamped(t)' => \/ Stamped(t) /\ tx'[t].ts = tx[t].ts
                        \/ tx'[t].ts = clock' /\ clock < clock',
         At(t, "undo_release")' => tx'[t].ts # 0
  PROVE  SInv'
<1>1. /\ ~Published(t)' /\ ~Ticketed(t)' /\ ~Reading(t)' /\ ~Running(t)'
      /\ tx'[t].pc \notin CallLabels \cup {"app", "drop_reads"}
  BY DEF Published, Ticketed, Reading, Running, At, RestLabels, FreeLabels, AbortLabels,
       ReadLabels, CallLabels
<1>2. (VisibleBuild' <=> VisibleBuild) /\ (Modular' <=> Modular)
  BY DEF VisibleBuild, Modular
<1>3. KindOf(t)'
  BY <1>1, <1>2 DEF KindOf, At, CallLabels, W
<1>4. TxInv(t)'
  BY <1>1, <1>3 DEF TxInv, ReaderInv, SnapInv, SerialInv
<1>5. TicketStep(t)
  BY <1>1 DEF TicketStep
<1> QED
  BY <1>1, <1>4, <1>5, QuietStep

\* The same, with nothing but label, position and status changed.
RestFields == {"pc", "i", "status", "c_lock", "ro", "ts"}

LEMMA RestMove ==
  ASSUME Inv, Inv', SInv, NEW t \in Thread, build' = build,
         UNCHANGED <<locks, mem, hist>>, clock' \in {clock, clock + 1}, LogKept(t),
         ~Published(t), tx'[t].pc \in RestLabels,
         tx'[t].pc \in FreeLabels => tx[t].op = "read", OthersSame(t), tx'[t].ro \in BOOLEAN,
         NEW S, S \subseteq RestFields, SameBut(tx'[t], tx[t], S),
         Stamped(t)' => \/ Stamped(t) /\ tx'[t].ts = tx[t].ts
                        \/ tx'[t].ts = clock' /\ clock < clock',
         At(t, "undo_release")' => tx'[t].ts # 0
  PROVE  SInv'
<1>1. KindOf(t) /\ ReadTypes(tx[t])
  BY DEF SInv, TxInv
<1>2. /\ tx'[t].start = tx[t].start /\ tx'[t].end = tx[t].end /\ tx'[t].now = tx[t].now
      /\ tx'[t].r_set = tx[t].r_set /\ tx'[t].todo = tx[t].todo /\ tx'[t].obs = tx[t].obs
      /\ tx'[t].visible_reads = tx[t].visible_reads /\ tx'[t].has_writes = tx[t].has_writes
      /\ tx'[t].value = tx[t].value /\ tx'[t].op = tx[t].op /\ tx'[t].w_set = tx[t].w_set
  BY DEF SameBut, Fields, RestFields
<1>3. ReadTypes(tx'[t])
  BY <1>1, <1>2 DEF ReadTypes
<1>4. /\ VisibleBuild => tx[t].r_set = {}
      /\ ~VisibleBuild => tx[t].op # "vread"
      /\ ~VisibleBuild /\ Modular /\ tx[t].w_set # <<>> => tx[t].has_writes > 0
  BY <1>1 DEF KindOf, W
<1> QED
  BY <1>2, <1>3, <1>4, RestStep

\* A transaction that has no log.
LEMMA EmptyLog ==
  ASSUME Inv, NEW t \in Thread, tx[t].pc \in FreeLabels
  PROVE  W(t) = <<>> /\ tx[t].ts = 0 /\ ~Published(t) /\ ~Killed(t)
<1>1. LocalOK(t) /\ ~Killed(t)
  BY NotKilled DEF Inv, LocalInv
<1> QED
  BY <1>1 DEF LocalOK, TicketPhase, Published, FreeLabels

LEMMA SetReadOnly ==
  ASSUME NEW d, Shape(d), NEW x
  PROVE  \E e : /\ e = [d EXCEPT !.ro = x]
                /\ SameBut(e, d, {"ro"}) /\ e.ro = x
<1> DEFINE e == [d EXCEPT !.ro = x]
<1>1. Shape(e)
  BY DEF Shape, Fields
<1>2. /\ \A f \in Fields \ {"ro"} : e[f] = d[f]
      /\ e.ro = x
  BY DEF Shape, Fields
<1>3. SameBut(e, d, {"ro"})
  <2> HIDE DEF e
  <2> QED
    BY <1>1, <1>2 DEF SameBut
<1> QED
  BY <1>2, <1>3

\* From one resting place to another, without a log.
LEMMA FreeStep ==
  ASSUME Inv, Inv', SInv, NEW t \in Thread, Frame, tx[t].pc \in FreeLabels,
         NEW d, NEW S, S \subseteq {"ro", "c_lock"}, SameBut(d, tx[t], S), d.ro \in BOOLEAN,
         NEW lab \in FreeLabels, Become(t, d, lab)
  PROVE  SInv'
<1>1. tx = [u \in Thread |-> tx[u]] /\ KindOf(t) /\ W(t) = <<>> /\ tx[t].ts = 0 /\ ~Published(t)
  BY ShapeIs, EmptyLog DEF SInv, TxInv
<1>2. /\ Moves(t) /\ tx'[t].pc = lab /\ SameBut(tx'[t], tx[t], S \cup {"pc"})
      /\ \A f \in Fields \ {"pc"} : tx'[t][f] = d[f]
  BY <1>1, BecomeBut
<1>3. OthersSame(t) /\ tx'[t].ro = d.ro
  BY <1>2, MovesOthers DEF Fields
<1>4. W(t)' = <<>> /\ tx'[t].ts = 0
  BY <1>1, <1>2 DEF SameBut, Fields, W
<1>5. LogKept(t) /\ ~Stamped(t)' /\ ~At(t, "undo_release")'
  BY <1>2, <1>4 DEF LogKept, Stamped, At, FreeLabels
<1>6. tx[t].op = "read" /\ tx'[t].pc \in RestLabels
  BY <1>1, <1>2 DEF KindOf, RestLabels
<1>7. S \cup {"pc"} \subseteq RestFields
  BY DEF RestFields
<1> QED
  BY <1>1, <1>2, <1>3, <1>5, <1>6, <1>7, RestMove DEF Frame

LEMMA StartStep ==
  ASSUME Inv, Inv', SInv, NEW t \in Thread, build' = build, NEW r \in build.read_only,
         stm_start(t, r)
  PROVE  SInv'
<1>1. Frame /\ tx[t].pc \in FreeLabels /\ Shape(tx[t])
  BY ShapeIs DEF stm_start, Frame, At, FreeLabels
<1>2. r \in BOOLEAN
  BY EtlAssumption DEF Build, Inv, TypeOK
<1>3. PICK d : d = [tx[t] EXCEPT !.ro = r] /\ SameBut(d, tx[t], {"ro"}) /\ d.ro = r
  BY <1>1, SetReadOnly
<1>4. Become(t, d, "prepare")
  BY <1>3, Zenon DEF stm_start
<1>5. SameBut(d, tx[t], {"ro"}) /\ d.ro \in BOOLEAN /\ "prepare" \in FreeLabels
  BY <1>2, <1>3 DEF FreeLabels
<1> QED
  BY <1>1, <1>4, <1>5, FreeStep

LEMMA OverflowStep ==
  ASSUME Inv, Inv', SInv, NEW t \in Thread, build' = build, stm_prepare_overflow(t)
  PROVE  SInv'
<1>1. Frame /\ tx[t].pc \in FreeLabels /\ Become(t, tx[t], "barrier") /\ "barrier" \in FreeLabels
  BY DEF stm_prepare_overflow, Frame, At, FreeLabels
<1>2. PICK d, S : d = tx[t] /\ S = {}
  OBVIOUS
<1>3. SameBut(d, tx[t], S) /\ d.ro \in BOOLEAN /\ S \subseteq {"ro", "c_lock"}
  BY <1>2, ShapeIs DEF SameBut, SInv, TxInv, ReadTypes
<1>4. Become(t, d, "barrier")
  BY <1>1, <1>2
<1> QED
  BY <1>1, <1>3, <1>4, FreeStep

LEMMA DelayStep ==
  ASSUME Inv, Inv', SInv, NEW t \in Thread, build' = build, Delay(t)
  PROVE  SInv'
<1>1. Frame /\ tx[t].pc \in FreeLabels /\ "prepare" \in FreeLabels /\ Shape(tx[t])
      /\ tx[t].ro \in BOOLEAN
  BY ShapeIs DEF Delay, Frame, At, FreeLabels, SInv, TxInv, ReadTypes
<1>2. PICK d : d = [tx[t] EXCEPT !.c_lock = {}] /\ SameBut(d, tx[t], {"c_lock"}) /\ d.c_lock = {}
  BY <1>1, SetContended
<1>3. Become(t, d, "prepare")
  BY <1>2, Zenon DEF Delay
<1>4. SameBut(d, tx[t], {"c_lock"}) /\ d.ro = tx[t].ro
  BY <1>2 DEF SameBut, Fields
<1> QED
  BY <1>1, <1>3, <1>4, FreeStep

Prepared(d, ro, now, age, count) ==
  [d EXCEPT !.ro = ro, !.start = now, !.end = now, !.snap = now, !.timestamp = age,
            !.has_writes = 0, !.r_set = {}, !.w_set = <<>>, !.status = "ACTIVE",
            !.counter = count, !.obs = {}, !.own = {}, !.calls = 0]

PreparedFields ==
  {"ro", "start", "end", "snap", "timestamp", "has_writes", "r_set", "w_set", "status",
   "counter", "obs", "own", "calls"}

LEMMA SetPrepared ==
  ASSUME NEW d, Shape(d), NEW ro, NEW now, NEW age, NEW count
  PROVE  LET e == Prepared(d, ro, now, age, count) IN
         /\ SameBut(e, d, PreparedFields)
         /\ e.ro = ro /\ e.start = now /\ e.end = now /\ e.has_writes = 0 /\ e.r_set = {}
         /\ e.w_set = <<>> /\ e.obs = {}
<1> DEFINE e == Prepared(d, ro, now, age, count)
<1>4. Shape(e)
  BY DEF Shape, Prepared
<1>1. /\ Shape(e) /\ e.ro = ro /\ e.start = now /\ e.end = now /\ e.has_writes = 0 /\ e.r_set = {}
      /\ e.w_set = <<>> /\ e.obs = {}
  BY <1>4 DEF Shape, Fields, Prepared
<1>2. \A f \in Fields \ PreparedFields : e[f] = d[f]
  BY DEF Shape, Fields, Prepared, PreparedFields
<1> HIDE DEF e
<1>3. SameBut(e, d, PreparedFields)
  BY <1>1, <1>2 DEF SameBut
<1> QED
  BY <1>1, <1>3 DEF e

LEMMA PrepareStep ==
  ASSUME Inv, Inv', SInv, NEW t \in Thread, build' = build, stm_prepare(t)
  PROVE  SInv'
<1>1. Frame /\ tx[t].pc \in FreeLabels /\ Shape(tx[t]) /\ tx = [u \in Thread |-> tx[u]]
      /\ KindOf(t) /\ ReadTypes(tx[t]) /\ clock \in Nat
  BY ShapeIs DEF stm_prepare, Frame, At, FreeLabels, SInv, TxInv
<1>2. PICK ro, now, age, count, d :
        /\ ro = (tx[t].ro /\ ~UseVisibleReads(t)) /\ now = clock
        /\ age = (IF ~Modular THEN 0 ELSE IF tx[t].retries = 0 THEN clock ELSE tx[t].timestamp)
        /\ count = (IF Modular THEN Fresh(RememberedCounters(t)) ELSE 0)
        /\ d = Prepared(tx[t], ro, now, age, count)
  OBVIOUS
<1>3. Become(t, d, "app")
  <2>1. /\ ro = (tx[t].ro /\ ~UseVisibleReads(t)) /\ now = clock
        /\ age = (IF ~Modular THEN 0 ELSE IF tx[t].retries = 0 THEN clock ELSE tx[t].timestamp)
        /\ count = (IF Modular THEN Fresh(RememberedCounters(t)) ELSE 0)
    BY <1>2
  <2>2. d = Prepared(tx[t], ro, now, age, count)
    BY <1>2
  <2> QED
    BY <2>1, <2>2, Zenon DEF stm_prepare, Prepared
<1>4. /\ SameBut(d, tx[t], PreparedFields)
      /\ d.ro = ro /\ d.start = now /\ d.end = now /\ d.has_writes = 0 /\ d.r_set = {}
      /\ d.w_set = <<>> /\ d.obs = {}
  <2>1. d = Prepared(tx[t], ro, now, age, count)
    BY <1>2
  <2> QED
    BY <1>1, <2>1, SetPrepared
<1>5. /\ Moves(t) /\ tx'[t].pc = "app" /\ SameBut(tx'[t], tx[t], PreparedFields \cup {"pc"})
      /\ \A f \in Fields \ {"pc"} : tx'[t][f] = d[f]
  BY <1>1, <1>3, <1>4, BecomeBut, Zenon
<1>6. /\ tx'[t].ro = ro /\ tx'[t].start = clock /\ tx'[t].end = clock /\ tx'[t].has_writes = 0
      /\ tx'[t].r_set = {} /\ tx'[t].w_set = <<>> /\ tx'[t].obs = {} /\ OthersSame(t)
  BY <1>2, <1>4, <1>5, MovesOthers DEF Fields
<1>7. /\ tx'[t].op = tx[t].op /\ tx'[t].ts = tx[t].ts /\ tx'[t].value = tx[t].value
      /\ tx'[t].now = tx[t].now /\ tx'[t].todo = tx[t].todo
      /\ tx'[t].visible_reads = tx[t].visible_reads
  BY <1>5 DEF SameBut, Fields, PreparedFields
<1>8. tx[t].ts = 0 /\ ~Published(t) /\ tx[t].op = "read"
  BY <1>1, EmptyLog DEF KindOf
<1>9. ro \in BOOLEAN /\ (VisibleBuild => ~ro)
  BY <1>2, VisibleIs
<1>10. ReadTypes(tx[t])'
  BY <1>1, <1>6, <1>7, <1>9 DEF ReadTypes
<1>11. ~Published(t)' /\ ~Ticketed(t)' /\ ~Reading(t)' /\ ~At(t, "validate")'
       /\ tx'[t].pc \notin CallLabels \cup FreeLabels /\ ~Stamped(t)' /\ ~At(t, "undo_release")'
  BY <1>5, <1>7, <1>8 DEF Published, Ticketed, Reading, At, Stamped, ReadLabels, CallLabels, FreeLabels
<1>12. KindOf(t)'
  <2>1. (VisibleBuild' <=> VisibleBuild) /\ (Modular' <=> Modular)
    BY DEF VisibleBuild, Modular
  <2> QED
    BY <1>5, <1>6, <1>7, <1>8, <1>9, <1>11, <2>1 DEF KindOf, At, CallLabels, W
<1>13. SnapInv(t)'
  BY <1>1, <1>6, <1>11 DEF SnapInv, Frame
<1>14. TxInv(t)'
  BY <1>10, <1>11, <1>12, <1>13 DEF TxInv, ReaderInv, SerialInv
<1>15. LogKept(t) /\ TicketStep(t)
  BY <1>5, <1>6, <1>11 DEF LogKept, TicketStep, W, At
<1> QED
  BY <1>1, <1>6, <1>8, <1>11, <1>14, <1>15, QuietStep DEF Frame

\* A transaction is over: nothing is left of it.
Emptied(d) ==
  /\ Shape(d) /\ Cleared(d) /\ d.r_set = {} /\ d.w_set = <<>> /\ d.obs = {}
  /\ d.start = 0 /\ d.end = 0 /\ d.has_writes = 0
  /\ d.visible_reads \in Nat /\ d.ro \in BOOLEAN

LEMMA EndStep ==
  ASSUME Inv, Inv', SInv, NEW t \in Thread, Frame, ~Published(t), NEW d, Emptied(d),
         NEW lab \in FreeLabels, Become(t, d, lab)
  PROVE  SInv'
<1>1. Shape(d) /\ tx = [u \in Thread |-> tx[u]]
  BY ShapeIs DEF Emptied
<1>2. Moves(t) /\ tx'[t].pc = lab /\ SameBut(tx'[t], d, {"pc"})
  BY <1>1, BecomeAll
<1>3. Emptied(tx'[t]) /\ OthersSame(t)
  BY <1>2, MovesOthers DEF SameBut, Fields, Emptied, Cleared, Clean
<1>4. ReadTypes(tx'[t]) /\ tx'[t].op = "read" /\ tx'[t].ts = 0 /\ tx'[t].w_set = <<>>
  BY <1>3, Constants DEF Emptied, Cleared, Clean, ReadTypes
<1>5. LogKept(t) /\ ~Stamped(t)' /\ ~At(t, "undo_release")' /\ tx'[t].pc \in RestLabels
  BY <1>2, <1>4 DEF LogKept, Stamped, At, W, FreeLabels, RestLabels
<1>6. tx'[t].r_set = {}
  BY <1>3 DEF Emptied
<1> QED
  BY <1>3, <1>4, <1>5, <1>6, RestStep DEF Frame

LEMMA CommitEndStep ==
  ASSUME Inv, Inv', SInv, NEW t \in Thread, build' = build, CommitEnd(t)
  PROVE  SInv'
<1>1. Shape(tx[t]) /\ Frame /\ ~Published(t) /\ "idle" \in FreeLabels
  BY ShapeIs DEF Frame, CommitEnd, At, Published, FreeLabels
<1> DEFINE s == Settled(tx[t])
           d == [s EXCEPT !.status = "COMMITTED", !.retries = 0,
                  !.visible_reads = 0, !.w_set = <<>>, !.r_set = {}, !.obs = {},
                  !.own = {}, !.calls = 0, !.ro = FALSE, !.has_writes = 0,
                  !.start = 0, !.end = 0, !.timestamp = 0]
<1>2. Shape(s) /\ Cleared(s)
  BY <1>1, SettledAll DEF SameBut
<1>3. Become(t, d, "idle")
  BY DEF CommitEnd
<1>4. Emptied(d)
  <2> HIDE DEF s
  <2>1. Shape(d)
    BY <1>2 DEF Shape
  <2>2. /\ d.r_set = {} /\ d.w_set = <<>> /\ d.obs = {} /\ d.start = 0 /\ d.end = 0
        /\ d.has_writes = 0
    BY <1>2 DEF Shape, Fields
  <2>4. d.visible_reads \in Nat /\ d.ro \in BOOLEAN
    BY <1>2 DEF Shape, Fields
  <2>3. Cleared(d)
    BY <1>2 DEF Shape, Fields, Cleared, Clean
  <2> HIDE DEF d
  <2> QED
    BY <2>1, <2>2, <2>3, <2>4 DEF Emptied
<1> HIDE DEF d, s
<1> QED
  BY <1>1, <1>3, <1>4, EndStep

LEMMA RollbackEndStep ==
  ASSUME Inv, Inv', SInv, NEW t \in Thread, build' = build, RollbackEnd(t)
  PROVE  SInv'
<1>1. Shape(tx[t]) /\ Frame /\ ~Published(t) /\ "delay" \in FreeLabels
  BY ShapeIs DEF Frame, RollbackEnd, At, Published, FreeLabels
<1> DEFINE s == Settled(tx[t])
           d == [s EXCEPT !.status = "ABORTED", !.obs = {}, !.own = {},
                    !.w_set = <<>>, !.r_set = {}, !.has_writes = 0, !.calls = 0,
                    !.start = 0, !.end = 0,
                    !.retries = IF Modular THEN 1 ELSE 0,
                    !.gen = IF At(t, "drop") THEN NewGen(t) ELSE @]
<1>2. /\ Shape(s) /\ Cleared(s) /\ s.visible_reads \in Nat /\ s.ro \in BOOLEAN
  <2>1. SameBut(s, tx[t], SettledFields) /\ Cleared(s)
    BY <1>1, SettledAll
  <2>2. ReadTypes(tx[t])
    BY DEF SInv, TxInv
  <2> HIDE DEF s
  <2> QED
    BY <2>1, <2>2 DEF SameBut, SettledFields, Fields, ReadTypes
<1>3. Become(t, d, "delay")
  BY DEF RollbackEnd
<1>4. Emptied(d)
  <2> HIDE DEF s, NewGen, Modular, At
  <2>1. Shape(d)
    BY <1>2 DEF Shape
  <2>2. /\ d.r_set = {} /\ d.w_set = <<>> /\ d.obs = {} /\ d.start = 0 /\ d.end = 0
        /\ d.has_writes = 0 /\ d.visible_reads = s.visible_reads /\ d.ro = s.ro
    BY <1>2 DEF Shape, Fields
  <2>3. Cleared(d)
    BY <1>2 DEF Shape, Fields, Cleared, Clean
  <2> HIDE DEF d
  <2> QED
    BY <1>2, <2>1, <2>2, <2>3 DEF Emptied
<1> HIDE DEF d, s
<1> QED
  BY <1>1, <1>3, <1>4, EndStep

LEMMA RollbackStep ==
  ASSUME Inv, Inv', SInv, NEW t \in Thread, build' = build, stm_rollback(t)
  PROVE  SInv'
<1>1. Shape(tx[t]) /\ Frame /\ ~Published(t) /\ At(t, "rollback") /\ tx[t].ts = 0
      /\ tx = [u \in Thread |-> tx[u]] /\ tx[t].ro \in BOOLEAN
  <2>1. LocalOK(t) /\ ReadTypes(tx[t])
    BY DEF Inv, LocalInv, SInv, TxInv
  <2> QED
    BY <2>1, ShapeIs DEF Frame, stm_rollback, At, Published, LocalOK, TicketPhase, ReadTypes
<1>2. PICK n, s : /\ n = (IF Killed(t) THEN 1 ELSE IF WriteThrough THEN Len(tx[t].w_set) ELSE 1)
                  /\ s = (IF Killed(t) THEN tx[t].status
                          ELSE IF Modular /\ tx[t].status = "ACTIVE" THEN "ABORTING"
                          ELSE tx[t].status)
  OBVIOUS
<1>3. PICK d : d = Phased(tx[t], n, s)
  OBVIOUS
<1>4. SameBut(d, tx[t], {"i", "status"}) /\ d.status = s
  BY <1>1, <1>3, SetStatusIndex
<1>5. \E lab \in {"undo", "drop"} : Become(t, d, lab)
  <2>1. CASE Killed(t)
    <3>1. [tx[t] EXCEPT !.i = 1] = d
      BY <1>1, <1>2, <1>3, <2>1 DEF Phased, Shape, Fields
    <3> QED
      BY <2>1, <3>1 DEF stm_rollback, Killed
  <2>2. CASE ~Killed(t)
    <3>1. Become(t, d, "undo")
      BY <1>2, <1>3, <2>2, Zenon DEF stm_rollback, Killed, Phased
    <3> QED
      BY <3>1
  <2> QED
    BY <2>1, <2>2
<1>6. PICK lab \in {"undo", "drop"} : Become(t, d, lab)
  BY <1>5
<1>7. /\ Moves(t) /\ tx'[t].pc = lab /\ SameBut(tx'[t], tx[t], {"i", "status"} \cup {"pc"})
      /\ \A f \in Fields \ {"pc"} : tx'[t][f] = d[f]
  BY <1>1, <1>4, <1>6, BecomeBut
<1>8. tx'[t].status = s /\ OthersSame(t) /\ tx'[t].ts = tx[t].ts /\ tx'[t].w_set = tx[t].w_set
      /\ tx'[t].ro = tx[t].ro
  BY <1>4, <1>7, MovesOthers DEF Fields, SameBut
<1>9. LogKept(t)
  <2>1. Held(t) = DOMAIN W(t) /\ Held(t)' \subseteq DOMAIN W(t)'
    BY <1>1 DEF Held, Releasing, At
  <2>2. Killed(t) => Killed(t)'
    BY <1>2, <1>8 DEF Killed
  <2>3. ~At(t, "do_write")'
    BY <1>7 DEF At
  <2> QED
    BY <1>8, <2>1, <2>2, <2>3 DEF LogKept, LogSame, W
<1>10. /\ tx'[t].pc \in RestLabels /\ tx'[t].pc \notin FreeLabels /\ ~Stamped(t)'
       /\ ~At(t, "undo_release")'
  BY <1>1, <1>7, <1>8 DEF RestLabels, AbortLabels, FreeLabels, Stamped, At
<1>11. {"i", "status"} \cup {"pc"} \subseteq RestFields
  BY DEF RestFields
<1> QED
  BY <1>1, <1>7, <1>8, <1>9, <1>10, <1>11, RestMove DEF Frame

LEMMA UndoClockStep ==
  ASSUME Inv, Inv', SInv, NEW t \in Thread, build' = build, UndoClock(t)
  PROVE  SInv'
<1>1. Shape(tx[t]) /\ ~Published(t) /\ At(t, "undo_clock") /\ clock \in Nat
      /\ tx = [u \in Thread |-> tx[u]] /\ tx[t].ro \in BOOLEAN
      /\ clock' = clock + 1 /\ UNCHANGED <<locks, mem, hist>>
  BY ShapeIs DEF UndoClock, At, Published, SInv, TxInv, ReadTypes
<1>2. PICK d, v : v = clock + 1 /\ d = [tx[t] EXCEPT !.ts = v]
  OBVIOUS
<1>3. SameBut(d, tx[t], {"ts"}) /\ d.ts = v
  <2>1. Shape(d) /\ d.ts = v /\ \A f \in Fields \ {"ts"} : d[f] = tx[t][f]
    BY <1>1, <1>2 DEF Shape, Fields
  <2> QED
    BY <2>1 DEF SameBut
<1>4. Become(t, d, "undo_release")
  BY <1>2, Zenon DEF UndoClock
<1>5. /\ Moves(t) /\ tx'[t].pc = "undo_release" /\ SameBut(tx'[t], tx[t], {"ts"} \cup {"pc"})
      /\ \A f \in Fields \ {"pc"} : tx'[t][f] = d[f]
  BY <1>1, <1>3, <1>4, BecomeBut
<1>6. tx'[t].ts = clock' /\ OthersSame(t) /\ tx'[t].w_set = tx[t].w_set /\ tx'[t].i = tx[t].i
      /\ tx'[t].ro = tx[t].ro /\ tx'[t].status = tx[t].status
  BY <1>1, <1>2, <1>3, <1>5, MovesOthers DEF Fields, SameBut
<1>7. LogKept(t)
  <2>1. Held(t)' = Held(t)
    BY <1>1, <1>5, <1>6 DEF Held, Releasing, At, W, WriteThrough
  <2> QED
    BY <1>5, <1>6, <2>1 DEF LogKept, LogSame, W, At, Killed
<1>8. clock < clock' /\ clock' # 0
  BY <1>1
<1>9. tx'[t].pc \in RestLabels /\ tx'[t].pc \notin FreeLabels
  BY <1>5 DEF RestLabels, AbortLabels, FreeLabels
<1>10. {"ts"} \cup {"pc"} \subseteq RestFields
  BY DEF RestFields
<1> QED
  BY <1>1, <1>5, <1>6, <1>7, <1>8, <1>9, <1>10, RestMove

LEMMA CommitReadsEnd ==
  ASSUME Inv, Inv', SInv, NEW t \in Thread, build' = build, At(t, "drop_reads"),
         UNCHANGED <<locks, mem, hist>>, clock' = clock + 1,
         Become(t, [tx[t] EXCEPT !.i = 0], "end")
  PROVE  SInv'
<1>1. Shape(tx[t]) /\ ~Published(t) /\ tx = [u \in Thread |-> tx[u]] /\ tx[t].ro \in BOOLEAN
  BY ShapeIs DEF At, Published, SInv, TxInv, ReadTypes
<1>0. PICK n : n = 0
  OBVIOUS
<1>2. PICK d : d = [tx[t] EXCEPT !.i = n] /\ SameBut(d, tx[t], {"i"}) /\ d.i = n
  BY <1>1, SetIndex
<1>3. Become(t, d, "end") /\ SameBut(d, tx[t], {"i"})
  BY <1>0, <1>2, Zenon
<1>4. Moves(t) /\ tx'[t].pc = "end" /\ SameBut(tx'[t], tx[t], {"i"} \cup {"pc"})
  BY <1>1, <1>3, BecomeBut
<1>5. OthersSame(t) /\ tx'[t].w_set = tx[t].w_set /\ tx'[t].ro = tx[t].ro
      /\ tx'[t].status = tx[t].status
  BY <1>4, MovesOthers DEF Fields, SameBut
<1>6. LogKept(t)
  <2>1. Held(t)' = {}
    BY <1>4 DEF Held, At
  <2> QED
    BY <1>4, <1>5, <2>1 DEF LogKept, LogSame, W, At, Killed
<1>7. tx'[t].pc \in RestLabels /\ tx'[t].pc \notin FreeLabels /\ ~Stamped(t)'
      /\ ~At(t, "undo_release")'
  BY <1>4 DEF RestLabels, FreeLabels, Stamped, Ticketed, Published, At
<1>8. {"i"} \cup {"pc"} \subseteq RestFields
  BY DEF RestFields
<1> QED
  BY <1>1, <1>4, <1>5, <1>6, <1>7, <1>8, RestMove

LEMMA SetStatus ==
  ASSUME NEW d, Shape(d), NEW x
  PROVE  \E e : /\ e = [d EXCEPT !.status = x]
                /\ SameBut(e, d, {"status"}) /\ e.status = x
<1> DEFINE e == [d EXCEPT !.status = x]
<1>1. Shape(e)
  BY DEF Shape, Fields
<1>2. /\ \A f \in Fields \ {"status"} : e[f] = d[f]
      /\ e.status = x
  BY DEF Shape, Fields
<1>3. SameBut(e, d, {"status"})
  <2> HIDE DEF e
  <2> QED
    BY <1>1, <1>2 DEF SameBut
<1> QED
  BY <1>2, <1>3

\* A commit begins, with its reads as they are.
LEMMA ToCommit ==
  ASSUME Inv, Inv', SInv, NEW t \in Thread, Frame, At(t, "app"), ~Killed(t),
         NEW d, NEW S, S \subseteq {"i", "status"}, SameBut(d, tx[t], S),
         NEW lab \in {"commit_clock", "drop_reads"}, Become(t, d, lab),
         lab = "drop_reads" => VisibleBuild
  PROVE  SInv'
<1>1. /\ tx = [u \in Thread |-> tx[u]] /\ KindOf(t) /\ ReadTypes(tx[t]) /\ SnapInv(t)
      /\ Running(t) /\ tx[t].pc \notin FreeLabels /\ tx[t].op = "read"
  BY ShapeIs DEF SInv, TxInv, Running, At, FreeLabels, KindOf
<1>2. Moves(t) /\ tx'[t].pc = lab /\ SameBut(tx'[t], tx[t], S \cup {"pc"})
  BY <1>1, BecomeBut
<1>3. /\ tx'[t].start = tx[t].start /\ tx'[t].end = tx[t].end /\ tx'[t].now = tx[t].now
      /\ tx'[t].r_set = tx[t].r_set /\ tx'[t].todo = tx[t].todo /\ tx'[t].obs = tx[t].obs
      /\ tx'[t].visible_reads = tx[t].visible_reads /\ tx'[t].has_writes = tx[t].has_writes
      /\ tx'[t].value = tx[t].value /\ tx'[t].op = tx[t].op /\ tx'[t].w_set = tx[t].w_set
      /\ tx'[t].ro = tx[t].ro
  BY <1>2 DEF SameBut, Fields
<1>4. OthersSame(t)
  BY <1>2, MovesOthers
<1>5. ReadTypes(tx[t])'
  BY <1>1, <1>3 DEF ReadTypes
<1>6. /\ ~Published(t) /\ ~Published(t)' /\ ~Ticketed(t)' /\ ~Reading(t)' /\ ~At(t, "validate")'
      /\ tx'[t].pc \notin CallLabels \cup FreeLabels \cup {"app"} /\ ~Stamped(t)'
      /\ ~At(t, "undo_release")'
  BY <1>2 DEF Published, Ticketed, Reading, At, ReadLabels, CallLabels, FreeLabels, Stamped
<1>7. KindOf(t)'
  <2>1. (VisibleBuild' <=> VisibleBuild) /\ (Modular' <=> Modular)
    BY DEF VisibleBuild, Modular, Frame
  <2>2. At(t, "drop_reads")' => VisibleBuild
    BY <1>2 DEF At
  <2> QED
    BY <1>1, <1>3, <1>6, <2>1, <2>2 DEF KindOf, At, CallLabels, W
<1>8. SnapInv(t)'
  <2> SUFFICES ASSUME ~tx[t].ro PROVE SnapInv(t)'
    BY <1>3 DEF SnapInv
  <2>1. SnapBase(t)
    BY <1>1 DEF SnapInv, SnapBase
  <2>2. SnapBase(t)'
    BY <1>1, <1>3, <1>4, <2>1, SnapBaseKept DEF Inv, TypeOK, Frame
  <2> QED
    BY <1>6, <2>2 DEF SnapInv, SnapBase
<1>9. TxInv(t)'
  BY <1>5, <1>6, <1>7, <1>8 DEF TxInv, ReaderInv, SerialInv
<1>10. LogKept(t)
  <2>1. Held(t) = DOMAIN W(t) /\ Held(t)' \subseteq DOMAIN W(t)'
    BY DEF Held, Releasing, At
  <2> QED
    BY <1>2, <1>3, <2>1 DEF LogKept, LogSame, W, At
<1>11. TicketStep(t)
  BY <1>6 DEF TicketStep
<1> QED
  BY <1>4, <1>6, <1>9, <1>10, <1>11, QuietStep DEF Frame

LEMMA CommitCallStep ==
  ASSUME Inv, Inv', SInv, NEW t \in Thread, build' = build, stm_commit(t)
  PROVE  SInv'
<1>1. Frame /\ At(t, "app") /\ Shape(tx[t]) /\ tx = [u \in Thread |-> tx[u]]
      /\ tx[t].pc \in QuietLabels \ {"rollback"} /\ tx[t].ro \in BOOLEAN /\ tx[t].op = "read"
  BY ShapeIs DEF stm_commit, Frame, At, QuietLabels, CallLabels, SInv, TxInv, ReadTypes, KindOf
<1>2. PICK x : x = IF Modular THEN "COMMITTING" ELSE tx[t].status
  OBVIOUS
<1>3. PICK d : d = [tx[t] EXCEPT !.status = x] /\ SameBut(d, tx[t], {"status"}) /\ d.status = x
  BY <1>1, SetStatus
<1>9. SameBut(d, tx[t], {"status"}) /\ Shape(d)
  BY <1>3 DEF SameBut
<1>4. \/ Rollback(t, tx[t])
      \/ ~Killed(t) /\ d.w_set = <<>> /\ Become(t, d, "end")
      \/ /\ ~Killed(t) /\ Become(t, [d EXCEPT !.i = 1], "drop_reads")
         /\ d.w_set # <<>> /\ Modular /\ d.has_writes = 0
      \/ ~Killed(t) /\ Become(t, d, "commit_clock")
  <2>1. d = [tx[t] EXCEPT !.status = IF Modular THEN "COMMITTING" ELSE @]
    BY <1>2, <1>3, Zenon
  <2> QED
    BY <2>1, Zenon DEF stm_commit, MayCommit, Killed
<1>5. CASE Rollback(t, tx[t])
  BY <1>1, <1>5, PlainAbort
<1>6. CASE d.w_set = <<>> /\ Become(t, d, "end")
  <2>1. Moves(t) /\ tx'[t].pc = "end" /\ SameBut(tx'[t], tx[t], {"status"} \cup {"pc"})
    BY <1>1, <1>6, <1>9, BecomeBut
  <2>2. OthersSame(t) /\ tx'[t].w_set = tx[t].w_set /\ tx'[t].ro = tx[t].ro
        /\ d.w_set = tx[t].w_set
    BY <1>9, <2>1, MovesOthers DEF SameBut, Fields
  <2>3. LogKept(t) /\ ~Stamped(t)' /\ ~At(t, "undo_release")' /\ ~Published(t)
        /\ tx'[t].pc \in RestLabels /\ tx'[t].pc \notin FreeLabels
    BY <1>1, <1>6, <2>1, <2>2 DEF LogKept, W, At, Stamped, Ticketed, Published, RestLabels, FreeLabels
  <2>4. {"status"} \cup {"pc"} \subseteq RestFields
    BY DEF RestFields
  <2> QED
    BY <1>1, <2>1, <2>2, <2>3, <2>4, RestMove DEF Frame
<1>7. CASE /\ ~Killed(t) /\ Become(t, [d EXCEPT !.i = 1], "drop_reads")
           /\ d.w_set # <<>> /\ Modular /\ d.has_writes = 0
  <2>0. PICK n : n = 1
    OBVIOUS
  <2>1. PICK e : e = [d EXCEPT !.i = n] /\ SameBut(e, d, {"i"}) /\ e.i = n
    BY <1>9, SetIndex
  <2>2. SameBut(e, tx[t], {"i", "status"})
    BY <1>9, <2>1, Zenon DEF SameBut
  <2>3. Become(t, e, "drop_reads")
    BY <1>7, <2>0, <2>1, Zenon
  <2>4. VisibleBuild
    <3>1. tx[t].w_set # <<>> /\ tx[t].has_writes = 0
      BY <1>7, <1>9 DEF SameBut, Fields
    <3>2. KindOf(t) /\ ReadTypes(tx[t])
      BY DEF SInv, TxInv
    <3> QED
      BY <1>7, <3>1, <3>2 DEF KindOf, W
  <2> QED
    BY <1>1, <1>7, <2>2, <2>3, <2>4, ToCommit
<1>8. CASE ~Killed(t) /\ Become(t, d, "commit_clock")
  BY <1>1, <1>8, <1>9, ToCommit
<1> QED
  BY <1>4, <1>5, <1>6, <1>7, <1>8

\* A commit takes its timestamp and goes on to validate.
LEMMA TicketClockStep ==
  ASSUME Inv, Inv', SInv, NEW t \in Thread, build' = build, UNCHANGED <<locks, mem, hist>>,
         At(t, "commit_clock"), clock' = clock + 1,
         Become(t, [tx[t] EXCEPT !.ts = clock + 1, !.todo = tx[t].r_set], "validate")
  PROVE  SInv'
<1>1. /\ tx = [u \in Thread |-> tx[u]] /\ KindOf(t) /\ ReadTypes(tx[t]) /\ SnapInv(t)
      /\ ~Killed(t) /\ Running(t) /\ Shape(tx[t]) /\ clock \in Nat
  BY ShapeIs, NotKilled DEF SInv, TxInv, Running, At, InCommit, CommitLabels
<1>2. PICK v, y, d : v = clock + 1 /\ y = tx[t].r_set /\ d = Ticketing(tx[t], v, y)
  OBVIOUS
<1>3. SameBut(d, tx[t], {"ts", "todo"}) /\ d.ts = v /\ d.todo = y
  BY <1>1, <1>2, SetTicket
<1>4. Become(t, d, "validate")
  BY <1>2, Zenon DEF Ticketing
<1>5. /\ Moves(t) /\ tx'[t].pc = "validate" /\ SameBut(tx'[t], tx[t], {"ts", "todo"} \cup {"pc"})
      /\ \A f \in Fields \ {"pc"} : tx'[t][f] = d[f]
  BY <1>1, <1>3, <1>4, BecomeBut
<1>6. tx'[t].ts = clock' /\ clock' > clock /\ tx'[t].ts # 0 /\ tx'[t].todo = tx[t].r_set
      /\ OthersSame(t)
  BY <1>1, <1>2, <1>3, <1>5, MovesOthers DEF Fields
<1>7. /\ tx'[t].start = tx[t].start /\ tx'[t].end = tx[t].end /\ tx'[t].now = tx[t].now
      /\ tx'[t].r_set = tx[t].r_set /\ tx'[t].obs = tx[t].obs
      /\ tx'[t].visible_reads = tx[t].visible_reads /\ tx'[t].has_writes = tx[t].has_writes
      /\ tx'[t].value = tx[t].value /\ tx'[t].op = tx[t].op /\ tx'[t].w_set = tx[t].w_set
      /\ tx'[t].ro = tx[t].ro /\ tx'[t].status = tx[t].status
  BY <1>5 DEF SameBut, Fields
<1>8. ReadTypes(tx[t])'
  BY <1>1, <1>6, <1>7 DEF ReadTypes
<1>9. /\ ~Published(t) /\ ~Published(t)' /\ ~Reading(t)'
      /\ tx'[t].pc \notin CallLabels \cup FreeLabels \cup {"app"} /\ ~At(t, "undo_release")'
      /\ ~At(t, "drop_reads")'
  BY <1>5, <1>6 DEF Published, Reading, At, ReadLabels, CallLabels, FreeLabels
<1>10. KindOf(t)'
  <2>1. (VisibleBuild' <=> VisibleBuild) /\ (Modular' <=> Modular)
    BY DEF VisibleBuild, Modular
  <2> QED
    BY <1>1, <1>7, <1>9, <2>1 DEF KindOf, At, CallLabels, W
<1>11. SnapInv(t)'
  <2> SUFFICES ASSUME ~tx[t].ro PROVE SnapInv(t)'
    BY <1>7 DEF SnapInv
  <2>1. SnapBase(t)
    BY <1>1 DEF SnapInv, SnapBase
  <2>2. SnapBase(t)'
    BY <1>1, <1>6, <1>7, <2>1, SnapBaseKept DEF Inv, TypeOK
  <2>3. tx'[t].end < tx'[t].ts
    BY <1>1, <1>6, <1>7, <2>1 DEF SnapBase, ReadTypes
  <2> QED
    BY <1>6, <1>7, <2>2, <2>3 DEF SnapInv, SnapBase
<1>12. TxInv(t)'
  BY <1>8, <1>9, <1>10, <1>11 DEF TxInv, ReaderInv, SerialInv
<1>13. LogKept(t)
  <2>1. Held(t) = DOMAIN W(t) /\ Held(t)' \subseteq DOMAIN W(t)'
    BY DEF Held, Releasing, At
  <2> QED
    BY <1>1, <1>5, <1>7, <2>1 DEF LogKept, LogSame, W, At
<1>14. TicketStep(t)
  BY <1>6 DEF TicketStep
<1> QED
  BY <1>1, <1>6, <1>9, <1>12, <1>13, <1>14, QuietStep
=============================================================================
