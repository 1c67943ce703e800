---------------------------- MODULE StmCTLOpacity ----------------------------
(***************************************************************************)
(* What transactions see, for any number of threads, addresses and locks:  *)
(* the values the loads of a transaction return all belong to one state of *)
(* the committed history, and a transaction that commits has read the      *)
(* state just before its own timestamp.  With that the locking protocol of *)
(* stm.c implements the abstract transactional memory OpaqueTM, step by    *)
(* step, under the mapping of StmRefinesOpaque.                            *)
(***************************************************************************)
EXTENDS StmCTLProofs, StmRefinesOpaque

(***************************************************************************)
(* The inductive invariant                                                 *)
(***************************************************************************)
\* Lock k is at version v and no commit that owns it is past the point of no
\* return: a rollback would put v back.
Stands(k, v) ==
  \/ locks[k].owner = NoOwner /\ locks[k].n = v
  \/ \E u \in Thread : /\ locks[k].owner = u /\ pc[u] \notin Publishing
                       /\ OldVersion(u, k) = v

\* The version of lock k is beyond v, or will be when its owner is done.
Beyond(k, v) ==
  \/ locks[k].owner = NoOwner /\ locks[k].n > v
  \/ \E u \in Thread : /\ locks[k].owner = u /\ pc[u] \notin Publishing
                       /\ OldVersion(u, k) > v
  \/ \E u \in Thread : /\ locks[k].owner = u /\ pc[u] \in Publishing
                       /\ ts[u] > v
  \/ /\ locks[k].owner = UnitOwner
     /\ \A u \in Thread : pc[u] = "unit_release" /\ LockOf[arg[u].addr] = k => ts[u] > v

\* v is a version lock k has had.
Known(k, v) == v <= clock /\ (Stands(k, v) \/ Beyond(k, v))

\* As long as the lock of a stands at v, w is the value of a.
ReadAt(a, v, w) ==
  /\ Known(LockOf[a], v)
  /\ Stands(LockOf[a], v) => IsValueAt(a, v, w)

\* w is the value of a at time s, and no commit that is under way can change
\* that.
Settled(a, s, w) ==
  /\ s <= clock
  /\ IsValueAt(a, s, w)
  /\ \A u \in Thread : Stamped(u) /\ locks[LockOf[a]].owner = u => s < ts[u]

Extending(t) == pc[t] = "validate" /\ cont[t] # "commit"

\* t has read a lock word, and then the value under it.
HasLock(t) == pc[t] \in {"read_value", "unit_read_value"}

HasValue(t) ==
  \/ pc[t] \in {"read_lock2", "unit_read_lock2", "read_recheck"}
  \/ pc[t] \in {"extend", "validate"} /\ cont[t] = "read"

ReaderInv(t) ==
  /\ HasLock(t) \/ HasValue(t) => l[t].owner = NoOwner
  /\ HasLock(t) => Known(LockOf[arg[t].addr], l[t].n)
  /\ HasValue(t) => ReadAt(arg[t].addr, l[t].n, value[t])
  /\ pc[t] = "unit_read_return" => Settled(arg[t].addr, l[t].n, value[t])

\* In a transaction, up to its end.
Active == Running \cup Committing \cup {"end"}

\* The transaction of t keeps a read set, or its snapshot is never extended.
Tracked(t) == ~EarlyAbort \/ ~ro[t]

\* The read set of t is complete.
Reading(t) == InBody(t) \/ pc[t] = "acquire"

\* Entry r of the read set vouches for the observation o.
Vouches(t, r, o) ==
  /\ r.lock = LockOf[o.addr] /\ r.version <= snap[t]
  /\ ReadAt(o.addr, r.version, o.value)

\* The snapshot and the observations in it.
SnapInv(t) ==
  /\ pc[t] \in Active => start[t] <= snap[t] /\ snap[t] <= clock /\ end[t] <= snap[t]
  /\ pc[t] \notin Active => obs[t] = {}
  /\ Tracked(t) => \A o \in obs[t] : Settled(o.addr, snap[t], o.value)
  /\ Reading(t) /\ ~ro[t] => \A o \in obs[t] : \E r \in r_set[t] : Vouches(t, r, o)
  /\ pc[t] = "read_recheck" => l[t].n <= snap[t]

\* A snapshot being extended: what has been validated is settled at its new end.
ExtendInv(t) ==
  Extending(t) =>
    /\ snap[t] <= now[t] /\ now[t] <= clock
    /\ ~ro[t] => \A o \in obs[t] : \/ \E r \in todo[t] : Vouches(t, r, o)
                                   \/ Settled(o.addr, now[t], o.value)
    /\ cont[t] = "read" => l[t].n <= now[t]

\* A commit: what has been validated is settled just before its timestamp.
CommitInv(t) ==
  /\ Stamped(t) => /\ snap[t] < ts[t]
                   /\ \A o \in obs[t] : \/ \E r \in todo[t] : Vouches(t, r, o)
                                        \/ Settled(o.addr, ts[t] - 1, o.value)
  /\ pc[t] \in Publishing => \A o \in obs[t] : Settled(o.addr, ts[t] - 1, o.value)

\* Read-only transactions buffer nothing and extend only on a tick.
ModeInv(t) ==
  /\ Reading(t) => (w_set[t] # <<>> => ~ro[t])
  /\ pc[t] \in {"write_lock", "acquire"} \/ Stamped(t) \/ pc[t] \in Publishing => ~ro[t]
  /\ (pc[t] = "extend" \/ Extending(t)) /\ ~EarlyAbort => ~ro[t]
  /\ ~EarlyAbort => ~tx_on[t] /\ ~standing[t]
  /\ ro[t] => \E a \in Attr : a.read_only

ThreadInv(t) ==
  ReaderInv(t) /\ SnapInv(t) /\ ExtendInv(t) /\ CommitInv(t) /\ ModeInv(t)

OInv == VInv /\ \A t \in Thread : ThreadInv(t)

-----------------------------------------------------------------------------
(***************************************************************************)
(* What every step but a rollover keeps                                    *)
(***************************************************************************)
\* A version lock k has had stays one, and does not come back once it is gone.
LockStable(k) ==
  \A v \in Nat : Known(k, v) => Known(k, v)' /\ (Stands(k, v)' => Stands(k, v))

\* A new committed write is newer than the clock was, or has the timestamp of a
\* commit that owned its lock; it leaves no old version to return to.
NewWrite(h) ==
  /\ \/ h.ts > clock
     \/ \E u \in Thread : /\ Stamped(u) /\ locks[LockOf[h.addr]].owner = u
                          /\ h.ts = ts[u]
  /\ \A v \in Nat : ~Stands(LockOf[h.addr], v)'

\* Timestamps are given once.
StampStable(u, k) ==
  Stamped(u)' /\ locks'[k].owner = u =>
    \/ ts'[u] > clock
    \/ Stamped(u) /\ locks[k].owner = u /\ ts'[u] = ts[u]

Stable ==
  /\ clock <= clock' /\ hist \subseteq hist'
  /\ \A k \in Lock : LockStable(k)
  /\ \A h \in hist' \ hist : NewWrite(h)
  /\ \A u \in Thread, k \in Lock : StampStable(u, k)

\* What is settled stays settled.
LEMMA SettledStable ==
  ASSUME TypeOK, TypeOK', Stable, NEW a \in Addr, NEW s \in Int, NEW w, Settled(a, s, w)
  PROVE  Settled(a, s, w)'
<1>0. /\ clock \in Nat /\ clock' \in Nat /\ LockOf[a] \in Lock
      /\ \A h \in hist' : h.ts \in Nat
      /\ \A u \in Thread : ts[u] \in Nat /\ ts'[u] \in Nat
  BY HistoryTypes, ConstantsAssumption
     DEF TypeOK, SharedTypes, HistTypes, CommittedWrite, LocalTypes
<1>1. s <= clock'
  BY <1>0 DEF Stable, Settled
<1>2. \A g \in hist' : g.addr = a /\ g.ts <= s => g \in hist
  BY <1>0 DEF Stable, NewWrite, Settled
<1>3. IsValueAt(a, s, w)'
  BY <1>2 DEF IsValueAt, Settled, Stable
<1>4. \A u \in Thread : Stamped(u)' /\ locks'[LockOf[a]].owner = u => s < ts'[u]
  BY <1>0 DEF Stable, StampStable, Settled
<1> QED
  BY <1>1, <1>3, <1>4 DEF Settled

\* What was read at a version is good as long as the version stands.
LEMMA ReadAtStable ==
  ASSUME TypeOK, TypeOK', Stable, NEW a \in Addr, NEW v \in Nat, NEW w, ReadAt(a, v, w)
  PROVE  ReadAt(a, v, w)'
<1>0. LockOf[a] \in Lock
  BY ConstantsAssumption
<1>1. Known(LockOf[a], v)' /\ (Stands(LockOf[a], v)' => Stands(LockOf[a], v))
  BY <1>0 DEF Stable, LockStable, ReadAt
<1>2. ASSUME Stands(LockOf[a], v)' PROVE IsValueAt(a, v, w)'
  <2>1. IsValueAt(a, v, w)
    BY <1>1, <1>2 DEF ReadAt
  <2>2. \A g \in hist' : g.addr = a => g \in hist
    BY <1>2 DEF Stable, NewWrite
  <2> QED
    BY <2>1, <2>2 DEF IsValueAt, Stable
<1> QED
  BY <1>1, <1>2 DEF ReadAt

\* Observations, read entries and what has been read so far have their types.
LEMMA ReaderTypes ==
  ASSUME TypeOK, NEW t \in Thread
  PROVE  /\ \A o \in obs[t] : o.addr \in Addr
         /\ \A r \in r_set[t] : r.lock \in Lock /\ r.version \in Nat
         /\ \A r \in todo[t] : r.lock \in Lock /\ r.version \in Nat
         /\ l[t].n \in Nat /\ arg[t].addr \in Addr /\ LockOf[arg[t].addr] \in Lock
         /\ snap[t] \in Nat /\ now[t] \in Nat /\ start[t] \in Nat /\ end[t] \in Nat
         /\ ts[t] \in Nat /\ clock \in Nat
<1>1. \A o \in obs[t] : o.addr \in Addr
  BY DEF TypeOK, HistTypes
<1>2. /\ \A r \in r_set[t] : r.lock \in Lock /\ r.version \in Nat
      /\ \A r \in todo[t] : r.lock \in Lock /\ r.version \in Nat
  BY DEF TypeOK, SetTypes, LocalTypes, ReadEntry
<1>3. /\ snap[t] \in Nat /\ now[t] \in Nat /\ start[t] \in Nat /\ end[t] \in Nat
      /\ ts[t] \in Nat /\ clock \in Nat
  BY DEF TypeOK, SharedTypes, SnapTypes, LocalTypes, HistTypes
<1> QED
  BY <1>1, <1>2, <1>3, LockOfArg

\* A lock that t does not touch, whose owner if it is t neither passes the point
\* of no return nor ends.
LEMMA LockSame ==
  ASSUME Inv, Inv', NEW t \in Thread, OthersLeft(t), clock <= clock', NEW k \in Lock,
         locks'[k] = locks[k],
         locks[k].owner = t => /\ pc'[t] \in Publishing <=> pc[t] \in Publishing
                               /\ OldVersion(t, k)' = OldVersion(t, k)
                               /\ pc[t] \in Publishing => ts'[t] = ts[t],
         pc'[t] = "unit_release" /\ LockOf[arg'[t].addr] = k =>
           \/ ts'[t] > clock
           \/ pc[t] = "unit_release" /\ LockOf[arg[t].addr] = k /\ ts'[t] = ts[t]
  PROVE  LockStable(k) /\ \A v \in Nat : Stands(k, v)' <=> Stands(k, v)
<1>0. clock \in Nat /\ clock' \in Nat /\ \A u \in Thread : ts[u] \in Nat /\ ts'[u] \in Nat
  BY DEF Inv, TypeOK, SharedTypes, LocalTypes
<1>1. \A u \in Thread \ {t} : /\ pc'[u] = pc[u] /\ w_set'[u] = w_set[u]
                              /\ arg'[u] = arg[u] /\ ts'[u] = ts[u]
  BY DEF OthersLeft, OthersSame
<1>2. \A u \in Thread : locks[k].owner = u =>
        /\ pc'[u] \in Publishing <=> pc[u] \in Publishing
        /\ OldVersion(u, k)' = OldVersion(u, k)
        /\ pc[u] \in Publishing => ts'[u] = ts[u]
  BY <1>1 DEF OldVersion
<1>3. \A v \in Nat : Stands(k, v)' <=> Stands(k, v)
  BY <1>2 DEF Stands
<1>4. ASSUME NEW v \in Nat, v <= clock, Beyond(k, v) PROVE Beyond(k, v)'
  <2>1. ASSUME locks[k].owner = UnitOwner,
               \A u \in Thread : pc[u] = "unit_release" /\ LockOf[arg[u].addr] = k => ts[u] > v
        PROVE  \A u \in Thread : pc'[u] = "unit_release" /\ LockOf[arg'[u].addr] = k => ts'[u] > v
    BY <1>0, <1>1, <1>4, <2>1
  <2> QED
    BY <1>2, <1>4, <2>1 DEF Beyond
<1> QED
  BY <1>0, <1>3, <1>4 DEF LockStable, Known

\* Steps that change no lock and commit nothing.
LEMMA SameStable ==
  ASSUME Inv, Inv', NEW t \in Thread, OthersLeft(t), clock <= clock',
         UNCHANGED <<locks, hist>>,
         \A k \in Lock : locks[k].owner = t =>
           /\ pc'[t] \in Publishing <=> pc[t] \in Publishing
           /\ OldVersion(t, k)' = OldVersion(t, k)
           /\ pc[t] \in Publishing => ts'[t] = ts[t]
           /\ Stamped(t)' => ts'[t] > clock \/ (Stamped(t) /\ ts'[t] = ts[t]),
         pc'[t] # "unit_release"
  PROVE  Stable
<1>1. \A k \in Lock : LockStable(k)
  BY LockSame
<1>2. \A u \in Thread, k \in Lock : StampStable(u, k)
  <2> SUFFICES ASSUME NEW u \in Thread, NEW k \in Lock PROVE StampStable(u, k)
    OBVIOUS
  <2>1. CASE u = t
    BY <2>1 DEF StampStable
  <2>2. CASE u # t
    <3>1. ts'[u] = ts[u] /\ (Stamped(u)' <=> Stamped(u))
      BY <2>2 DEF OthersLeft, OthersSame, Stamped
    <3> QED
      BY <3>1 DEF StampStable
  <2> QED
    BY <2>1, <2>2
<1> QED
  BY <1>1, <1>2 DEF Stable

\* Steps that change one lock, which is not that of a stamped commit after.
LEMMA OneLockStable ==
  ASSUME Inv, Inv', NEW t \in Thread, OthersLeft(t), UNCHANGED <<clock, hist>>, NEW k \in Lock,
         \A j \in Lock \ {k} : locks'[j] = locks[j], LockStable(k),
         locks'[k].owner \in {t, NoOwner, UnitOwner}, ~Stamped(t)',
         pc'[t] # "unit_release",
         \A j \in Lock \ {k} : locks[j].owner = t =>
           /\ pc'[t] \in Publishing <=> pc[t] \in Publishing
           /\ OldVersion(t, j)' = OldVersion(t, j)
           /\ pc[t] \in Publishing => ts'[t] = ts[t]
  PROVE  Stable
<1>0. clock <= clock'
  BY HistoryTypes DEF Inv
<1>1. \A j \in Lock : LockStable(j)
  <2> SUFFICES ASSUME NEW j \in Lock \ {k} PROVE LockStable(j)
    OBVIOUS
  <2> QED
    BY <1>0, LockSame
<1>2. \A u \in Thread, j \in Lock : StampStable(u, j)
  <2> SUFFICES ASSUME NEW u \in Thread \ {t}, NEW j \in Lock PROVE StampStable(u, j)
    BY DEF StampStable
  <2>1. ts'[u] = ts[u] /\ (Stamped(u)' <=> Stamped(u))
    BY DEF OthersLeft, OthersSame, Stamped
  <2>2. locks'[k].owner # u
    BY ConstantsAssumption
  <2> QED
    BY <2>1, <2>2 DEF StampStable
<1> QED
  BY <1>0, <1>1, <1>2 DEF Stable

\* Steps that change neither locks nor history nor where a thread is.
LEMMA StillStable ==
  ASSUME TypeOK, UNCHANGED <<clock, locks, hist, pc, w_set, arg, ts, cont>>
  PROVE  Stable
<1>1. clock <= clock'
  BY HistoryTypes
<1>2. \A k \in Lock : LockStable(k)
  BY DEF LockStable, Known, Stands, Beyond, OldVersion
<1>3. \A u \in Thread, k \in Lock : StampStable(u, k)
  BY DEF StampStable, Stamped
<1> QED
  BY <1>1, <1>2, <1>3 DEF Stable

\* Calls, loads, buffered stores and extensions touch no lock.
LEMMA QuietStable ==
  ASSUME Inv, Inv', NEW t \in Thread, OthersLeft(t), Quiet(t)
  PROVE  Stable
<1>1. QuietEffect(t)
  BY QuietSteps
<1>2. clock <= clock' /\ pc'[t] # "unit_release"
  BY <1>1, HistoryTypes DEF Inv, QuietEffect, UnitStoring
<1> QED
  BY <1>1, <1>2, SameStable DEF QuietEffect

\* So does the validation of a commit.
LEMMA ValidateStable ==
  ASSUME Inv, Inv', NEW t \in Thread, OthersLeft(t), Stamped(t),
         \E r \in todo[t] : stm_validate(t, r)
  PROVE  Stable
<1>0. TypeOK /\ clock \in Nat
  BY HistoryTypes DEF Inv
<1>1. /\ UNCHANGED <<clock, locks, hist, w_set, ts, cont>> /\ pc[t] = "validate"
      /\ pc'[t] \in {"validate", "rollback"}
  BY <1>0, Domains DEF stm_validate, At, EnterRollback, Goto, sharedVars, histVars, setVars
<1>2. clock <= clock'
  BY <1>0, <1>1
<1> QED
  BY <1>1, <1>2, SameStable DEF OldVersion, Publishing

\* Acquiring a lock keeps the version it stands at.
LEMMA AcquireStable ==
  ASSUME Inv, Inv', NEW t \in Thread, OthersLeft(t), CommitAcquire(t)
  PROVE  Stable
<1>k. PICK k : k = LockOf[w_set[t][i[t]].addr]
  OBVIOUS
<1>0. /\ TypeOK /\ TypeOK' /\ WriteSetInv(t) /\ Owns(t) /\ Owns(t)' /\ clock \in Nat
  BY HistoryTypes DEF Inv
<1>u. UNCHANGED <<clock, hist, ts>>
  BY DEF CommitAcquire, histVars
<1>1. /\ i[t] \in 1..Len(w_set[t]) /\ k \in Lock /\ pc[t] = "acquire"
      /\ DOMAIN w_set[t] = 1..Len(w_set[t]) /\ i[t] \in Nat
      /\ UNCHANGED <<clock, hist, ts>> /\ clock <= clock'
  <2>1. pc[t] = "acquire" /\ i[t] > 0
    BY DEF CommitAcquire, At
  <2>2. i[t] \in 1..Len(w_set[t]) /\ i[t] \in Nat
    BY <2>1, LoopPosition
  <2> QED
    BY <1>0, <1>k, <1>u, <2>1, <2>2, WriteSetType
<1>2. CASE /\ locks[k].owner = NoOwner /\ Acquire(t, k) /\ pc' = pc
  <2>1. /\ locks'[k] = LOCK_SET_ADDR_WRITE(t, i[t])
        /\ \A j \in Lock \ {k} : locks'[j] = locks[j]
    BY <1>0, <1>1, <1>2, AcquireEffect
  <2>2. \A n \in 1..Len(w_set[t]) :
          w_set'[t][n].version = IF n = i[t] THEN locks[k].n ELSE w_set[t][n].version
    BY <1>0, <1>1, <1>2, AcquireVersion
  <2>3. locks'[k].owner = t /\ locks'[k].n = i[t] /\ OldVersion(t, k)' = locks[k].n
    BY <1>1, <2>1, <2>2 DEF LOCK_SET_ADDR_WRITE, OldVersion
  <2>4. pc'[t] = "acquire" /\ ~Stamped(t)' /\ pc'[t] \notin Publishing /\ pc[t] \notin Publishing
    BY <1>1, <1>2 DEF Stamped, Publishing
  <2>5. LockStable(k)
    BY <1>1, <1>2, <2>3, <2>4, ConstantsAssumption DEF LockStable, Known, Stands, Beyond
  <2>6. ASSUME NEW j \in Lock \ {k}, locks[j].owner = t PROVE OldVersion(t, j)' = OldVersion(t, j)
    <3>1. locks[j].n \in 1..Len(w_set[t]) /\ locks[j].n # i[t] /\ locks'[j] = locks[j]
      BY <1>0, <1>1, <2>1, <2>6, <1>k DEF Owns
    <3> QED
      BY <2>2, <3>1 DEF OldVersion
  <2> QED
    BY <1>1, <2>1, <2>3, <2>4, <2>5, <2>6, OneLockStable
<1>3. CASE UNCHANGED <<locks, w_set>> /\ pc'[t] \in {"acquire", "rollback"}
  BY <1>1, <1>3, SameStable DEF OldVersion, Publishing, Stamped
<1>4. EnterRollback(t) => pc'[t] = "rollback"
  BY <1>0, Domains DEF EnterRollback, Goto
<1> QED
  BY <1>1, <1>2, <1>3, <1>4, <1>k DEF CommitAcquire, LOCK_GET_OWNED

\* A commit that has to validate gets a timestamp nobody else has.
LEMMA StampedStable ==
  ASSUME Inv, Inv', NEW t \in Thread, OthersLeft(t), CommitClock(t), start[t] # clock
  PROVE  Stable
<1>0. TypeOK /\ clock \in Nat
  BY HistoryTypes DEF Inv
<1>1. /\ UNCHANGED <<locks, hist, w_set>> /\ clock' = clock + 1
      /\ ts'[t] = clock + 1 /\ pc[t] = "acquire" /\ pc'[t] = "validate"
  BY <1>0, Domains DEF CommitClock, At, Goto, setVars
<1>2. clock <= clock' /\ ts'[t] > clock
  BY <1>0, <1>1
<1> QED
  BY <1>1, <1>2, SameStable DEF OldVersion, Publishing

\* The point of no return: the versions of the locks of t are given up.
LEMMA PublishStable ==
  ASSUME VInv, Inv', NEW t \in Thread, OthersLeft(t),
         (CommitClock(t) /\ start[t] = clock) \/ CommitValid(t)
  PROVE  Stable
<1>v. PICK v : v = ts'[t]
  OBVIOUS
<1>0. /\ Inv /\ TypeOK /\ TypeOK' /\ VersionInv /\ clock \in Nat /\ ts[t] \in Nat /\ Owns(t)
      /\ Holds(t) /\ \A k \in Lock : OwnedVersion(t, k)
  BY HistoryTypes DEF VInv, Inv, VersionInv
<1>1. /\ UNCHANGED <<locks, w_set, mem>> /\ pc[t] \in {"acquire", "validate"}
      /\ pc'[t] = "write_back" /\ clock <= clock' /\ v \in Nat
      /\ hist' = hist \cup Installed(t, v)
      /\ v > clock \/ (Stamped(t) /\ v = ts[t])
      /\ \A n \in DOMAIN w_set[t] : HoldsEntry(t, n)
  <2>1. CASE CommitClock(t) /\ start[t] = clock
    <3>1. /\ UNCHANGED <<locks, mem, w_set>> /\ clock' = clock + 1 /\ ts'[t] = clock + 1
          /\ pc[t] = "acquire" /\ i[t] = 0 /\ pc'[t] = "write_back"
          /\ hist' = hist \cup Installed(t, clock + 1)
      BY <1>0, <2>1, Domains DEF CommitClock, At, Goto, setVars
    <3>2. \A n \in DOMAIN w_set[t] : HoldsEntry(t, n)
      BY <1>0, <3>1, WriteSetType DEF Holds
    <3> QED
      BY <1>0, <1>v, <3>1, <3>2
  <2>2. CASE CommitValid(t)
    <3>1. /\ UNCHANGED <<locks, mem, w_set, clock>> /\ ts'[t] = ts[t] /\ Stamped(t)
          /\ pc[t] = "validate" /\ pc'[t] = "write_back"
          /\ hist' = hist \cup Installed(t, ts[t])
      BY <1>0, <2>2, Domains DEF CommitValid, At, Goto, sharedVars, setVars, Stamped
    <3>2. \A n \in DOMAIN w_set[t] : HoldsEntry(t, n)
      BY <1>0, <3>1 DEF Holds
    <3> QED
      BY <1>0, <1>v, <3>1, <3>2
  <2> QED
    BY <2>1, <2>2
<1>2. pc[t] \notin Publishing /\ pc'[t] \in Publishing /\ ~Stamped(t)' /\ pc'[t] # "unit_release"
  BY <1>1 DEF Publishing, Stamped
<1>3. ASSUME NEW k \in Lock, locks[k].owner = t
      PROVE  LockStable(k) /\ \A w \in Nat : ~Stands(k, w)'
  <2>1. OldVersion(t, k) \in Nat /\ OldVersion(t, k) < v
    <3>1. locks[k].n \in DOMAIN w_set[t]
      BY <1>0, <1>3 DEF Owns
    <3>2. OldVersion(t, k) \in Nat
      BY <1>0, <3>1, WriteSetType DEF OldVersion
    <3> QED
      BY <1>0, <1>1, <1>2, <1>3, <3>2 DEF OwnedVersion
  <2>2. \A w \in Nat : ~Stands(k, w)'
    BY <1>1, <1>2, <1>3, ConstantsAssumption DEF Stands
  <2>3. ASSUME NEW w \in Nat, Known(k, w) PROVE Known(k, w)'
    <3>1. w <= OldVersion(t, k)
      BY <1>2, <1>3, <2>1, <2>3, ConstantsAssumption DEF Known, Stands, Beyond
    <3>2. w < v /\ w <= clock'
      BY <1>0, <1>1, <2>1, <2>3, <3>1 DEF Known, TypeOK, SharedTypes
    <3> QED
      BY <1>1, <1>2, <1>3, <1>v, <3>2 DEF Known, Beyond
  <2> QED
    BY <2>2, <2>3 DEF LockStable
<1>4. ASSUME NEW k \in Lock PROVE LockStable(k)
  <2>1. CASE locks[k].owner # t
    BY <1>0, <1>1, <1>2, <2>1, LockSame
  <2> QED
    BY <1>3, <2>1
<1>5. ASSUME NEW h \in Installed(t, v) PROVE NewWrite(h)
  <2>1. PICK n \in DOMAIN w_set[t] : h.ts = v /\ h.addr = w_set[t][n].addr
    BY DEF Installed
  <2>2. LockOf[h.addr] \in Lock /\ locks[LockOf[h.addr]].owner = t
    BY <1>0, <1>1, <2>1, WriteSetType DEF HoldsEntry
  <2> QED
    BY <1>1, <1>3, <2>1, <2>2 DEF NewWrite
<1>6. ASSUME NEW u \in Thread, NEW k \in Lock PROVE StampStable(u, k)
  <2>1. CASE u # t
    <3>1. ts'[u] = ts[u] /\ (Stamped(u)' <=> Stamped(u))
      BY <2>1 DEF OthersLeft, OthersSame, Stamped
    <3> QED
      BY <1>1, <3>1 DEF StampStable
  <2> QED
    BY <1>2, <2>1 DEF StampStable
<1> QED
  BY <1>1, <1>4, <1>5, <1>6 DEF Stable

\* Writing back touches no lock; at the end of the write set none is left.
LEMMA StoreStable ==
  ASSUME Inv, Inv', NEW t \in Thread, OthersLeft(t), CommitStore(t)
  PROVE  Stable
<1>0. TypeOK /\ clock \in Nat /\ Owns(t)'
  BY HistoryTypes DEF Inv
<1>1. /\ UNCHANGED <<clock, locks, hist, w_set, ts>> /\ pc[t] = "write_back"
      /\ pc'[t] \in {"release", "write_back", "end"}
  BY <1>0, Domains DEF CommitStore, At, Goto, NextWriteBack, setVars, histVars
<1>2. \A k \in Lock : locks[k].owner = t => pc'[t] \in Publishing
  BY <1>0, <1>1 DEF Owns, Committing, Publishing
<1>3. clock <= clock' /\ ~Stamped(t)' /\ pc[t] \in Publishing /\ pc'[t] # "unit_release"
  BY <1>0, <1>1 DEF Stamped, Publishing
<1> QED
  BY <1>1, <1>2, <1>3, SameStable DEF OldVersion

\* Dropping a lock at the timestamp of the commit.
LEMMA ReleaseStable ==
  ASSUME Inv, Inv', NEW t \in Thread, OthersLeft(t), CommitRelease(t)
  PROVE  Stable
<1>p. PICK p : p = i[t]
  OBVIOUS
<1>k. PICK k : k = LockOf[w_set[t][p].addr]
  OBVIOUS
<1>0. /\ TypeOK /\ TypeOK' /\ Owns(t)' /\ Drops(t) /\ clock \in Nat /\ ts[t] \in Nat
      /\ WriteSetInv(t)
  BY HistoryTypes DEF Inv
<1>1. /\ i[t] = p /\ p \in 1..Len(w_set[t]) /\ p \in DOMAIN w_set[t]
      /\ k = LockOf[w_set[t][p].addr] /\ k \in Lock /\ pc[t] = "release"
  BY <1>0, <1>p, <1>k, LoopPosition, WriteSetType DEF CommitRelease, At
<1>2. /\ UNCHANGED <<clock, hist, w_set, ts, cont>>
      /\ locks' = [locks EXCEPT ![k] = LOCK_SET_TIMESTAMP(ts[t])]
      /\ pc'[t] \in {"write_back", "end"}
  BY <1>0, <1>1, Domains DEF CommitRelease, setVars, histVars, NextWriteBack, Goto
<1>3. locks[k].owner = t
  <2>1. ~w_set[t][p].no_drop /\ Pending(t, p)
    BY <1>0, <1>1 DEF WriteSetInv, Pending, At
  <2>2. locks[k] = LOCK_SET_ADDR_WRITE(t, p)
    BY <1>0, <1>1, <2>1 DEF Drops, Committing
  <2> QED
    BY <2>2 DEF LOCK_SET_ADDR_WRITE
<1>4. /\ locks'[k].owner = NoOwner /\ locks'[k].n = ts[t]
      /\ \A j \in Lock \ {k} : locks'[j] = locks[j]
  BY <1>0, <1>1, <1>2 DEF LOCK_SET_TIMESTAMP, TypeOK, SharedTypes
<1>5. ~Stamped(t)' /\ pc[t] \in Publishing /\ pc'[t] # "unit_release"
  BY <1>1, <1>2 DEF Stamped, Publishing
<1>6. LockStable(k)
  <2> SUFFICES ASSUME NEW v \in Nat, Known(k, v) PROVE Known(k, v)' /\ ~Stands(k, v)'
    BY DEF LockStable
  <2>1. v <= clock /\ ts[t] > v
    BY <1>3, <1>5, ConstantsAssumption DEF Known, Stands, Beyond
  <2> QED
    BY <1>0, <1>2, <1>4, <2>1, ConstantsAssumption DEF Known, Stands, Beyond
<1>7. \A j \in Lock \ {k} : locks[j].owner = t => pc'[t] \in Publishing
  BY <1>0, <1>2, <1>4 DEF Owns, Committing, Publishing
<1>8. \A j \in Lock \ {k} : OldVersion(t, j)' = OldVersion(t, j)
  BY <1>2, <1>4 DEF OldVersion
<1> QED
  BY <1>1, <1>2, <1>4, <1>5, <1>6, <1>7, <1>8, OneLockStable

\* A rollback puts the version back that the lock stood at.
LEMMA RollbackStable ==
  ASSUME Inv, Inv', NEW t \in Thread, OthersLeft(t), RollbackRelease(t)
  PROVE  Stable
<1>p. PICK p : p = i[t]
  OBVIOUS
<1>k. PICK k : k = LockOf[w_set[t][p].addr]
  OBVIOUS
<1>0. TypeOK /\ TypeOK' /\ Drops(t) /\ clock \in Nat
  BY HistoryTypes DEF Inv
<1>1. /\ i[t] = p /\ p \in 1..Len(w_set[t]) /\ p \in DOMAIN w_set[t]
      /\ k = LockOf[w_set[t][p].addr] /\ k \in Lock /\ pc[t] = "rollback"
  BY <1>0, <1>p, <1>k, LoopPosition, WriteSetType DEF RollbackRelease, At
<1>2. UNCHANGED <<clock, hist, w_set, ts, cont, pc>>
  BY DEF RollbackRelease, histVars
<1>3. /\ ~Stamped(t)' /\ pc[t] \notin Publishing /\ pc'[t] \notin Publishing
      /\ pc'[t] # "unit_release" /\ clock <= clock'
  BY <1>0, <1>1, <1>2 DEF Stamped, Publishing
<1>4. CASE w_set[t][i[t]].no_drop
  BY <1>2, <1>3, <1>4, SameStable DEF RollbackRelease, OldVersion
<1>5. CASE ~w_set[t][i[t]].no_drop
  <2>1. locks' = [locks EXCEPT ![k] = LOCK_SET_TIMESTAMP(w_set[t][p].version)]
    BY <1>1, <1>5 DEF RollbackRelease
  <2>2. locks[k].owner = t /\ locks[k].n = p
    <3>1. Pending(t, p)
      BY <1>1 DEF Pending, At
    <3>2. locks[k] = LOCK_SET_ADDR_WRITE(t, p)
      BY <1>0, <1>1, <1>5, <3>1 DEF Drops, Committing
    <3> QED
      BY <3>2 DEF LOCK_SET_ADDR_WRITE
  <2>3. /\ locks'[k].owner = NoOwner /\ locks'[k].n = w_set[t][p].version
        /\ \A j \in Lock \ {k} : locks'[j] = locks[j]
    BY <1>0, <1>1, <2>1 DEF LOCK_SET_TIMESTAMP, TypeOK, SharedTypes
  <2>4. OldVersion(t, k) = w_set[t][p].version
    BY <2>2 DEF OldVersion
  <2>5. LockStable(k)
    BY <1>2, <1>3, <2>2, <2>3, <2>4, ConstantsAssumption DEF LockStable, Known, Stands, Beyond
  <2>6. \A j \in Lock \ {k} : OldVersion(t, j)' = OldVersion(t, j)
    BY <1>2, <2>3 DEF OldVersion
  <2> QED
    BY <1>1, <1>2, <1>3, <2>3, <2>5, <2>6, OneLockStable
<1> QED
  BY <1>4, <1>5

\* Unit stores: the version is given up with the lock, and a newer one is put
\* in its place.
LEMMA UnitStable ==
  ASSUME Inv, Inv', NEW t \in Thread, OthersLeft(t),
         (UnitLock(t) /\ locks' # locks) \/ UnitStore(t) \/ UnitClock(t) \/ UnitRelease(t)
  PROVE  Stable
<1>k. PICK k : k = LockOf[arg[t].addr]
  OBVIOUS
<1>0. /\ TypeOK /\ TypeOK' /\ UnitOwns /\ UnitOwns' /\ Owns(t) /\ clock \in Nat /\ k \in Lock
      /\ ts[t] \in Nat
  BY <1>k, HistoryTypes, LockOfArg DEF Inv
<1>1. CASE UnitLock(t) /\ locks' # locks
  <2>1. /\ locks[k].owner = NoOwner /\ locks' = [locks EXCEPT ![k] = LOCK_UNIT]
        /\ pc[t] = "unit_lock" /\ pc'[t] = "unit_store"
        /\ UNCHANGED <<clock, hist, w_set, arg>>
    BY <1>0, <1>1, <1>k, Domains DEF UnitLock, At, Goto, LOCK_GET_OWNED, setVars, histVars
  <2>2. locks'[k].owner = UnitOwner /\ \A j \in Lock \ {k} : locks'[j] = locks[j]
    BY <1>0, <2>1 DEF LOCK_UNIT, TypeOK, SharedTypes
  <2>3. \A u \in Thread : ~(pc'[u] = "unit_release" /\ LockOf[arg'[u].addr] = k)
    <3>1. \A u \in Thread \ {t} : pc'[u] = pc[u]
      BY DEF OthersLeft, OthersSame
    <3> QED
      BY <1>0, <2>1, <3>1, ConstantsAssumption DEF UnitOwns, UnitStoring
  <2>4. LockStable(k)
    BY <2>1, <2>2, <2>3, ConstantsAssumption DEF LockStable, Known, Stands, Beyond
  <2>5. \A j \in Lock : locks[j].owner # t
    BY <1>0, <2>1 DEF Owns, Committing
  <2> QED
    BY <1>0, <2>1, <2>2, <2>4, <2>5, OneLockStable DEF Stamped
<1>2. CASE UnitStore(t)
  <2>1. UNCHANGED <<clock, locks, hist>> /\ pc[t] = "unit_store" /\ pc'[t] = "unit_clock"
    BY <1>0, <1>2, Domains DEF UnitStore, At, Goto, histVars
  <2>2. (\A j \in Lock : locks[j].owner # t) /\ clock <= clock'
    BY <1>0, <2>1 DEF Owns, Committing
  <2> QED
    BY <2>1, <2>2, SameStable
<1>3. CASE UnitClock(t)
  <2>1. /\ UNCHANGED <<locks, arg>> /\ pc[t] = "unit_clock" /\ pc'[t] = "unit_release"
        /\ clock' = clock + 1 /\ ts'[t] = clock + 1
        /\ hist' = hist \cup {[ts |-> clock + 1, addr |-> arg[t].addr, value |-> arg[t].value]}
    BY <1>0, <1>3, Domains DEF UnitClock, At, Goto
  <2>2. \A j \in Lock : locks[j].owner # t
    BY <1>0, <2>1 DEF Owns, Committing
  <2>3. clock <= clock' /\ ts'[t] > clock
    BY <1>0, <2>1
  <2>4. ASSUME NEW j \in Lock PROVE LockStable(j)
    BY <2>1, <2>2, <2>3, LockSame
  <2>5. \A v \in Nat : ~Stands(k, v)'
    <3>1. locks'[k].owner = UnitOwner
      BY <1>0, <1>k, <2>1 DEF UnitOwns, UnitStoring
    <3> QED
      BY <3>1, ConstantsAssumption DEF Stands
  <2>6. \A h \in hist' \ hist : NewWrite(h)
    BY <1>0, <1>k, <2>1, <2>5 DEF NewWrite
  <2>7. ASSUME NEW u \in Thread, NEW j \in Lock PROVE StampStable(u, j)
    <3>1. CASE u # t
      <4>1. ts'[u] = ts[u] /\ (Stamped(u)' <=> Stamped(u))
        BY <3>1 DEF OthersLeft, OthersSame, Stamped
      <4> QED
        BY <2>1, <4>1 DEF StampStable
    <3> QED
      BY <2>1, <2>2, <3>1 DEF StampStable
  <2> QED
    BY <2>1, <2>3, <2>4, <2>6, <2>7 DEF Stable
<1>4. CASE UnitRelease(t)
  <2>1. /\ locks' = [locks EXCEPT ![k] = LOCK_SET_TIMESTAMP(ts[t])]
        /\ UNCHANGED <<clock, hist>> /\ pc[t] = "unit_release" /\ pc'[t] \in {"idle", "barrier"}
    BY <1>0, <1>4, <1>k, Domains
       DEF UnitRelease, UnitReleaseVersion, At, Goto, histVars
  <2>2. /\ locks'[k].owner = NoOwner /\ locks'[k].n = ts[t]
        /\ \A j \in Lock \ {k} : locks'[j] = locks[j]
    BY <1>0, <2>1 DEF LOCK_SET_TIMESTAMP, TypeOK, SharedTypes
  <2>3. locks[k].owner = UnitOwner /\ \A j \in Lock : locks[j].owner # t
    BY <1>0, <1>k, <2>1 DEF UnitOwns, UnitStoring, Owns, Committing
  <2>4. LockStable(k)
    <3> SUFFICES ASSUME NEW v \in Nat, Known(k, v) PROVE Known(k, v)' /\ ~Stands(k, v)'
      BY DEF LockStable
    <3>1. v <= clock /\ ts[t] > v
      BY <1>k, <2>1, <2>3, ConstantsAssumption DEF Known, Stands, Beyond
    <3> QED
      BY <1>0, <2>1, <2>2, <3>1, ConstantsAssumption DEF Known, Stands, Beyond
  <2> QED
    BY <1>0, <2>1, <2>2, <2>3, <2>4, OneLockStable DEF Stamped
<1> QED
  BY <1>1, <1>2, <1>3, <1>4

\* A step of a thread leaves the others alone and keeps what was settled.
LEMMA StepStable ==
  ASSUME VInv, Inv', NEW t \in Thread, AppStep(t) \/ TickDeliver(t) \/ LibraryStep(t)
  PROVE  OthersLeft(t) /\ Stable
<1>0. Inv /\ TypeOK
  BY DEF VInv, Inv
<1>1. OthersLeft(t)
  BY <1>0, LocalCall, LocalLibrary DEF Tick
<1>2. CASE Quiet(t)
  BY <1>0, <1>1, <1>2, QuietStable
<1>3. CASE Stamped(t) /\ \E r \in todo[t] : stm_validate(t, r)
  BY <1>0, <1>1, <1>3, ValidateStable
<1>4. CASE CommitAcquire(t) \/ CommitClock(t) \/ CommitValid(t)
  BY <1>0, <1>1, <1>4, AcquireStable, StampedStable, PublishStable
<1>5. CASE CommitStore(t) \/ CommitRelease(t) \/ RollbackRelease(t)
  BY <1>0, <1>1, <1>5, StoreStable, ReleaseStable, RollbackStable
<1>6. CASE (UnitLock(t) /\ locks' # locks) \/ UnitStore(t) \/ UnitClock(t) \/ UnitRelease(t)
  BY <1>0, <1>1, <1>6, UnitStable
<1> QED
  BY <1>1, <1>2, <1>3, <1>4, <1>5, <1>6 DEF LibraryStep, Quiet

-----------------------------------------------------------------------------
(***************************************************************************)
(* Versions, values and snapshots in one state                             *)
(***************************************************************************)
\* The version a lock stands at covers its committed writes.
LEMMA StandsCovers ==
  ASSUME VInv, NEW k \in Lock, NEW v, Stands(k, v)
  PROVE  Covers(k, v) /\ v <= clock /\ v \in Nat
<1>0. Inv /\ TypeOK /\ VersionInv /\ locks[k].n \in Nat
  BY HistoryTypes DEF VInv, Inv
<1>1. CASE locks[k].owner = NoOwner /\ locks[k].n = v
  BY <1>0, <1>1 DEF VersionInv, FreeVersion
<1>2. ASSUME NEW u \in Thread, locks[k].owner = u, pc[u] \notin Publishing, OldVersion(u, k) = v
      PROVE  Covers(k, v) /\ v <= clock /\ v \in Nat
  <2>1. v <= clock /\ Covers(k, v)
    BY <1>0, <1>2 DEF VersionInv, OwnedVersion
  <2>2. v \in Nat
    BY <1>0, <1>2, WriteSetType DEF Inv, Owns, OldVersion
  <2> QED
    BY <2>1, <2>2
<1> QED
  BY <1>1, <1>2 DEF Stands

\* While a lock stands at v, memory holds the values at time v.
LEMMA MemoryAt ==
  ASSUME VInv, NEW a \in Addr, NEW v, Stands(LockOf[a], v)
  PROVE  IsValueAt(a, v, mem[a])
<1>0. /\ Inv /\ LockOf[a] \in Lock /\ MemoryInv /\ UnitOwns
      /\ Covers(LockOf[a], v)
  BY StandsCovers, ConstantsAssumption DEF VInv, Inv
<1>1. \A u \in Thread : \A n \in DOMAIN w_set[u] : ~WritesBack(u, n, a)
  BY ConstantsAssumption DEF Stands, WritesBack
<1>2. \A u \in Thread : ~(pc[u] = "unit_clock" /\ arg[u].addr = a)
  BY <1>0, ConstantsAssumption DEF Stands, UnitOwns, UnitStoring
<1>3. Latest(a, mem[a])
  BY <1>0, <1>1, <1>2 DEF MemoryInv
<1> QED
  BY <1>0, <1>3 DEF Latest, IsValueAt, Covers

\* A value read at a version that still stands is the value at every later time
\* up to the clock.
LEMMA StandingSettled ==
  ASSUME VInv, NEW a \in Addr, NEW v, NEW s \in Nat, NEW w,
         ReadAt(a, v, w), Stands(LockOf[a], v), v <= s, s <= clock,
         \A u \in Thread : Stamped(u) /\ locks[LockOf[a]].owner = u => s < ts[u]
  PROVE  Settled(a, s, w)
<1>0. /\ LockOf[a] \in Lock /\ TypeOK /\ Covers(LockOf[a], v) /\ v \in Nat
      /\ \A h \in hist : h.ts \in Nat
  BY StandsCovers, HistoryTypes, ConstantsAssumption DEF VInv, Inv
<1>1. IsValueAt(a, v, w)
  BY DEF ReadAt
<1>2. IsValueAt(a, s, w)
  <2>1. PICK h \in hist : h.addr = a /\ h.ts <= v /\ h.value = w
          /\ \A g \in hist : g.addr = a /\ g.ts <= v => g.ts <= h.ts
    BY <1>1 DEF IsValueAt
  <2>2. \A g \in hist : g.addr = a => g.ts <= h.ts
    BY <1>0, <2>1 DEF Covers
  <2>3. h.ts <= s
    BY <1>0, <2>1
  <2> QED
    BY <2>1, <2>2, <2>3 DEF IsValueAt
<1> QED
  BY <1>2 DEF Settled

\* In particular if the lock is free.
LEMMA FreeSettled ==
  ASSUME VInv, NEW a \in Addr, NEW s \in Nat, NEW w,
         locks[LockOf[a]].owner = NoOwner, ReadAt(a, locks[LockOf[a]].n, w),
         locks[LockOf[a]].n <= s, s <= clock
  PROVE  Settled(a, s, w)
<1>1. Stands(LockOf[a], locks[LockOf[a]].n)
  BY DEF Stands
<1> QED
  BY <1>1, StandingSettled, ConstantsAssumption

\* What an entry vouches for is settled, up to the clock or the timestamp of t's
\* commit, if stm_validate finds the entry valid.
LEMMA ValidSettled ==
  ASSUME VInv, NEW t \in Thread, NEW r \in todo[t], NEW o \in obs[t], NEW s \in Nat,
         ValidEntry(t, r), Vouches(t, r, o), pc[t] \notin Publishing,
         snap[t] <= s, s <= clock, Stamped(t) => s < ts[t]
  PROVE  Settled(o.addr, s, o.value)
<1>0. /\ TypeOK /\ o.addr \in Addr /\ r.lock \in Lock /\ r.version \in Nat /\ snap[t] \in Nat
      /\ r.lock = LockOf[o.addr] /\ r.version <= snap[t] /\ ReadAt(o.addr, r.version, o.value)
  BY ReaderTypes DEF VInv, Inv, Vouches
<1>1. r.version <= s
  BY <1>0
<1>2. /\ Stands(LockOf[o.addr], r.version)
      /\ locks[LockOf[o.addr]].owner \in {NoOwner, t}
  BY <1>0 DEF ValidEntry, Stands, OldVersion, LOCK_GET_OWNED
<1>3. \A u \in Thread : Stamped(u) /\ locks[LockOf[o.addr]].owner = u => s < ts[u]
  BY <1>2, ConstantsAssumption
<1> QED
  BY <1>0, <1>1, <1>2, <1>3, StandingSettled

-----------------------------------------------------------------------------
(***************************************************************************)
(* What a step leaves of the invariant                                     *)
(***************************************************************************)
\* An entry goes on vouching while the snapshot only moves forward.
LEMMA VouchesKept ==
  ASSUME TypeOK, TypeOK', Stable, NEW u \in Thread, NEW r, r.version \in Nat,
         NEW o \in obs[u], Vouches(u, r, o), snap[u] <= snap'[u]
  PROVE  Vouches(u, r, o)'
<1>1. o.addr \in Addr /\ snap[u] \in Nat /\ snap'[u] \in Nat
  BY ReaderTypes DEF TypeOK, HistTypes
<1>2. ReadAt(o.addr, r.version, o.value)'
  BY <1>1, ReadAtStable DEF Vouches
<1>3. r.lock = LockOf[o.addr] /\ r.version <= snap'[u]
  BY <1>1 DEF Vouches
<1> QED
  BY <1>2, <1>3 DEF Vouches

\* What a load under way has read is kept as long as the load keeps it.
LEMMA ReaderKept ==
  ASSUME TypeOK, Stable, TypeOK', NEW u \in Thread, ReaderInv(u),
         arg'[u] = arg[u], l'[u] = l[u], value'[u] = value[u],
         HasLock(u)' => HasLock(u), HasValue(u)' => HasValue(u),
         pc'[u] = "unit_read_return" => pc[u] = "unit_read_return"
  PROVE  ReaderInv(u)'
<1>1. PICK a, v, w : a = arg[u].addr /\ v = l[u].n /\ w = value[u]
  OBVIOUS
<1>2. a = arg'[u].addr /\ v = l'[u].n /\ w = value'[u] /\ a \in Addr /\ v \in Nat
      /\ LockOf[a] \in Lock
  BY <1>1, ReaderTypes
<1>3. HasLock(u) => Known(LockOf[a], v)'
  <2>1. HasLock(u) => Known(LockOf[a], v)
    BY <1>1 DEF ReaderInv
  <2> QED
    BY <1>2, <2>1 DEF Stable, LockStable
<1>4. HasValue(u) => ReadAt(a, v, w)'
  BY <1>1, <1>2, ReadAtStable DEF ReaderInv
<1>5. pc[u] = "unit_read_return" => Settled(a, v, w)'
  BY <1>1, <1>2, SettledStable DEF ReaderInv
<1>6. HasLock(u) \/ HasValue(u) => l'[u].owner = NoOwner
  BY DEF ReaderInv
<1>7. /\ HasLock(u) => Known(LockOf[arg[u].addr], l[u].n)'
      /\ HasValue(u) => ReadAt(arg[u].addr, l[u].n, value[u])'
      /\ pc[u] = "unit_read_return" => Settled(arg[u].addr, l[u].n, value[u])'
  BY <1>2, <1>3, <1>4, <1>5
<1> QED
  BY <1>6, <1>7 DEF ReaderInv

\* A step leaves the part of a thread it does not belong to, ...
LEMMA ThreadKept ==
  ASSUME TypeOK, TypeOK', Stable, NEW u \in Thread, ThreadInv(u),
         /\ pc'[u] = pc[u] /\ cont'[u] = cont[u] /\ ts'[u] = ts[u] /\ arg'[u] = arg[u]
         /\ w_set'[u] = w_set[u] /\ r_set'[u] = r_set[u] /\ obs'[u] = obs[u]
         /\ ro'[u] = ro[u] /\ start'[u] = start[u] /\ end'[u] = end[u]
         /\ snap'[u] = snap[u] /\ now'[u] = now[u] /\ todo'[u] = todo[u]
         /\ l'[u] = l[u] /\ value'[u] = value[u]
         /\ ~EarlyAbort => (tx_on'[u] => tx_on[u]) /\ (standing'[u] => standing[u])
  PROVE  ThreadInv(u)'
<1>0. /\ \A o \in obs[u] : o.addr \in Addr
      /\ \A r \in r_set[u] : r.version \in Nat
      /\ \A r \in todo[u] : r.version \in Nat
      /\ l[u].n \in Nat /\ arg[u].addr \in Addr /\ snap[u] \in Nat /\ now[u] \in Nat
      /\ ts[u] \in Nat /\ clock \in Nat /\ clock' \in Nat /\ clock <= clock'
      /\ LockOf[arg[u].addr] \in Lock
  BY ReaderTypes DEF Stable, TypeOK, SharedTypes
<1>1. /\ (HasLock(u)' <=> HasLock(u)) /\ (HasValue(u)' <=> HasValue(u))
      /\ (Extending(u)' <=> Extending(u)) /\ (Stamped(u)' <=> Stamped(u))
      /\ (Reading(u)' <=> Reading(u)) /\ (Tracked(u)' <=> Tracked(u))
  BY DEF HasLock, HasValue, Extending, Stamped, Reading, InBody, Tracked
<1>2. \A o \in obs[u], r \in r_set[u] \cup todo[u] : Vouches(u, r, o) => Vouches(u, r, o)'
  <2> SUFFICES ASSUME NEW o \in obs[u], NEW r \in r_set[u] \cup todo[u], Vouches(u, r, o)
               PROVE  Vouches(u, r, o)'
    OBVIOUS
  <2>1. r.version \in Nat /\ snap[u] <= snap'[u]
    BY <1>0
  <2> QED
    BY <2>1, VouchesKept
<1>3. \A o \in obs[u], s \in Int : Settled(o.addr, s, o.value) => Settled(o.addr, s, o.value)'
  BY <1>0, SettledStable
<1>4. ReaderInv(u)'
  BY <1>1, ReaderKept DEF ThreadInv
<1>5. SnapInv(u)'
  <2>1. \A o \in obs[u] : Settled(o.addr, snap[u], o.value) => Settled(o.addr, snap[u], o.value)'
    <3>1. PICK s : s = snap[u]
      OBVIOUS
    <3> QED
      BY <1>0, <1>3, <3>1
  <2> QED
    BY <1>0, <1>1, <1>2, <2>1 DEF ThreadInv, SnapInv
<1>6. ExtendInv(u)'
  <2>1. \A o \in obs[u] : Settled(o.addr, now[u], o.value) => Settled(o.addr, now[u], o.value)'
    <3>1. PICK s : s = now[u]
      OBVIOUS
    <3> QED
      BY <1>0, <1>3, <3>1
  <2> QED
    BY <1>0, <1>1, <1>2, <2>1 DEF ThreadInv, ExtendInv
<1>7. CommitInv(u)'
  <2>1. PICK s : s = ts[u] - 1
    OBVIOUS
  <2>2. \A o \in obs[u] : Settled(o.addr, ts[u] - 1, o.value) => Settled(o.addr, ts[u] - 1, o.value)'
    BY <1>0, <1>3, <2>1
  <2> QED
    BY <1>0, <1>1, <1>2, <2>2 DEF ThreadInv, CommitInv
<1>8. ModeInv(u)'
  BY <1>1 DEF ThreadInv, ModeInv
<1> QED
  BY <1>4, <1>5, <1>6, <1>7, <1>8 DEF ThreadInv

\* ... and of the thread it belongs to outside of transactions ...
LEMMA OutsideThread ==
  ASSUME NEW t \in Thread,
         pc'[t] \in {"idle", "prepare", "barrier", "unit_read_lock", "unit_lock"}
                    \cup UnitStoring,
         obs'[t] = {}, ~EarlyAbort => ~tx_on'[t] /\ ~standing'[t],
         ro'[t] => \E a \in Attr : a.read_only
  PROVE  ThreadInv(t)'
<1> USE DEF UnitStoring, Running, Committing, Publishing
<1>1. ReaderInv(t)'
  BY DEF ReaderInv, HasLock, HasValue
<1>2. SnapInv(t)'
  BY DEF SnapInv, Active
<1>3. ExtendInv(t)' /\ CommitInv(t)'
  BY DEF ExtendInv, Extending, CommitInv, Stamped
<1>4. ModeInv(t)'
  BY DEF ModeInv, Reading, InBody, Extending, Stamped
<1> QED
  BY <1>1, <1>2, <1>3, <1>4 DEF ThreadInv

\* ... and in a transaction whose snapshot and observations do not change.
LEMMA SnapKept ==
  ASSUME TypeOK, TypeOK', Stable, NEW t \in Thread, SnapInv(t),
         /\ obs'[t] = obs[t] /\ snap'[t] = snap[t] /\ r_set'[t] = r_set[t] /\ ro'[t] = ro[t]
         /\ start'[t] = start[t] /\ end'[t] <= end[t],
         pc[t] \in Active, pc'[t] \in Active, Reading(t)' => Reading(t),
         pc'[t] = "read_recheck" => l'[t].n <= snap'[t]
  PROVE  SnapInv(t)'
<1>0. /\ \A o \in obs[t] : o.addr \in Addr
      /\ \A r \in r_set[t] : r.version \in Nat
      /\ snap[t] \in Nat /\ clock \in Nat /\ clock' \in Nat /\ clock <= clock'
      /\ end[t] \in Nat /\ end'[t] \in Nat
  BY ReaderTypes DEF Stable, TypeOK, SharedTypes, SnapTypes
<1>1. snap[t] <= snap'[t] /\ Tracked(t)' = Tracked(t)
  BY <1>0 DEF Tracked
<1>2. \A o \in obs[t], r \in r_set[t] : Vouches(t, r, o) => Vouches(t, r, o)'
  BY <1>0, <1>1, VouchesKept
<1>3. ASSUME NEW o \in obs[t], Settled(o.addr, snap[t], o.value)
      PROVE  Settled(o.addr, snap[t], o.value)'
  <2>1. PICK s : s = snap[t]
    OBVIOUS
  <2>2. Settled(o.addr, s, o.value)'
    BY <1>0, <1>3, <2>1, SettledStable
  <2> QED
    BY <2>1, <2>2
<1>4. start'[t] <= snap'[t] /\ snap'[t] <= clock' /\ end'[t] <= snap'[t]
  BY <1>0 DEF SnapInv
<1>5. Tracked(t)' => \A o \in obs'[t] : Settled(o.addr, snap[t], o.value)'
  BY <1>1, <1>3 DEF SnapInv
<1>6. Reading(t)' /\ ~ro'[t] => \A o \in obs'[t] : \E r \in r_set'[t] : Vouches(t, r, o)'
  BY <1>2 DEF SnapInv
<1> QED
  BY <1>4, <1>5, <1>6 DEF SnapInv

\* The labels of a transaction at which nothing is known of a load, an extension
\* or a commit under way.
Plain(t) ==
  /\ pc[t] \in {"app", "read_lock", "write_lock", "extend", "acquire", "rollback", "end"}
  /\ pc[t] = "extend" => cont[t] # "read"

LEMMA PlainThread ==
  ASSUME TypeOK, TypeOK', Stable, NEW t \in Thread, SnapInv(t),
         /\ obs'[t] = obs[t] /\ snap'[t] = snap[t] /\ r_set'[t] = r_set[t] /\ ro'[t] = ro[t]
         /\ start'[t] = start[t] /\ end'[t] <= end[t],
         pc[t] \in Active, Reading(t)' => Reading(t), Plain(t)', ModeInv(t)'
  PROVE  ThreadInv(t)'
<1>1. ReaderInv(t)' /\ ExtendInv(t)' /\ CommitInv(t)'
  BY DEF Plain, ReaderInv, HasLock, HasValue, ExtendInv, Extending, CommitInv, Stamped, Publishing
<1>2. pc'[t] \in Active /\ pc'[t] # "read_recheck"
  BY DEF Plain, Active, Running, Committing
<1>3. SnapInv(t)'
  BY <1>2, SnapKept
<1> QED
  BY <1>1, <1>3 DEF ThreadInv

-----------------------------------------------------------------------------
(***************************************************************************)
(* The steps of a thread                                                   *)
(***************************************************************************)
\* Calls from outside of a transaction, the end of transactions, unit stores.
LEMMA OutsideSteps ==
  ASSUME OInv, NEW t \in Thread,
         \/ (\E a \in Attr : stm_start(t, a)) \/ stm_prepare_overflow(t)
         \/ CommitEnd(t) \/ RollbackEnd(t)
         \/ (\E a : stm_unit_load(t, a)) \/ (\E a, v, m : stm_unit_store(t, a, v, m))
         \/ UnitReadReturn(t) \/ UnitLock(t) \/ UnitStore(t) \/ UnitClock(t) \/ UnitRelease(t)
  PROVE  ThreadInv(t)'
<1>0. TypeOK /\ SnapInv(t) /\ ModeInv(t)
  BY DEF OInv, VInv, Inv, ThreadInv
<1>1. pc[t] \notin Active => obs[t] = {}
  BY <1>0 DEF SnapInv
<1>2. (~EarlyAbort => ~tx_on[t] /\ ~standing[t]) /\ (ro[t] => \E a \in Attr : a.read_only)
  BY <1>0 DEF ModeInv
<1> USE Domains DEF At, Goto, Active, Running, Committing, UnitStoring,
       attrVars, snapVars, localVars, eaVars, histVars
<1>3. CASE \E a \in Attr : stm_start(t, a)
  <2>1. /\ pc[t] = "idle" /\ pc'[t] = "prepare" /\ obs' = obs /\ standing' = standing
        /\ tx_on'[t] = EarlyAbort /\ \E a \in Attr : ro'[t] = a.read_only
    BY <1>0, <1>3 DEF stm_start
  <2> QED
    BY <1>1, <1>2, <2>1, OutsideThread
<1>4. CASE stm_prepare_overflow(t)
  BY <1>0, <1>1, <1>2, <1>4, OutsideThread DEF stm_prepare_overflow
<1>5. CASE CommitEnd(t)
  <2>1. /\ pc'[t] = "idle" /\ obs'[t] = {} /\ standing' = standing /\ tx_on'[t] = FALSE /\ ro' = ro
    BY <1>0, <1>5 DEF CommitEnd
  <2> QED
    BY <1>2, <2>1, OutsideThread
<1>6. CASE RollbackEnd(t)
  <2>1. /\ pc'[t] = "prepare" /\ obs'[t] = {} /\ UNCHANGED <<standing, tx_on, ro>>
    BY <1>0, <1>6 DEF RollbackEnd
  <2> QED
    BY <1>2, <2>1, OutsideThread
<1>7. CASE (\E a : stm_unit_load(t, a)) \/ (\E a, v, m : stm_unit_store(t, a, v, m))
  <2>1. /\ pc[t] = "idle" /\ pc'[t] \in {"unit_read_lock", "unit_lock"}
        /\ UNCHANGED <<standing, tx_on, ro, obs>>
    BY <1>0, <1>7 DEF stm_unit_load, stm_unit_store
  <2> QED
    BY <1>1, <1>2, <2>1, OutsideThread
<1>8. CASE UnitReadReturn(t) \/ UnitLock(t) \/ UnitStore(t) \/ UnitClock(t) \/ UnitRelease(t)
  <2>1. /\ pc[t] \in {"unit_read_return", "unit_lock"} \cup UnitStoring
        /\ pc'[t] \in {"idle", "barrier"} \cup UnitStoring
        /\ UNCHANGED <<standing, tx_on, ro, obs>>
    BY <1>0, <1>8 DEF UnitReadReturn, UnitLock, UnitStore, UnitClock, UnitRelease
  <2> QED
    BY <1>1, <1>2, <2>1, OutsideThread
<1> QED
  BY <1>3, <1>4, <1>5, <1>6, <1>7, <1>8

\* Calls inside a transaction, and ticks.
LEMMA CallSteps ==
  ASSUME OInv, TypeOK', Stable, NEW t \in Thread,
         \/ stm_start_nested(t) \/ stm_commit_nested(t) \/ stm_commit(t) \/ stm_abort(t)
         \/ (\E a : stm_load_written(t, a) \/ stm_load(t, a))
         \/ stm_store_ro(t) \/ (\E a, v, m : stm_store(t, a, v, m))
         \/ (\E e, b : stm_set_extension(t, e, b) /\ b \in Nat) \/ TickDeliver(t)
  PROVE  ThreadInv(t)'
<1>0. TypeOK /\ SnapInv(t) /\ ModeInv(t) /\ end[t] \in Nat
  BY DEF OInv, VInv, Inv, ThreadInv, TypeOK, SnapTypes
<1>1. /\ pc[t] = "app"
      /\ obs'[t] = obs[t] /\ snap'[t] = snap[t] /\ r_set'[t] = r_set[t] /\ ro'[t] = ro[t]
      /\ start'[t] = start[t] /\ end'[t] <= end[t] /\ w_set' = w_set
      /\ standing' = standing /\ (tx_on'[t] => tx_on[t])
      /\ pc'[t] \in {"app", "read_lock", "write_lock", "extend", "acquire", "rollback", "end"}
      /\ pc'[t] = "extend" => cont'[t] # "read" /\ (standing[t] \/ tx_on[t])
      /\ pc'[t] = "write_lock" => ~ro[t]
      /\ pc'[t] = "acquire" => w_set[t] # <<>>
  <2> USE Domains, <1>0 DEF At, Goto, EnterRollback, ReturnToApp, attrVars, snapVars, setVars,
       localVars, eaVars, histVars
  <2>1. CASE stm_start_nested(t) \/ stm_commit_nested(t) \/ stm_abort(t) \/ stm_store_ro(t)
    BY <2>1 DEF stm_start_nested, stm_commit_nested, stm_abort, stm_store_ro
  <2>2. CASE stm_commit(t)
    BY <2>2 DEF stm_commit
  <2>3. CASE \E a : stm_load_written(t, a) \/ stm_load(t, a)
    BY <2>3 DEF stm_load_written, stm_load
  <2>4. CASE \E a, v, m : stm_store(t, a, v, m)
    BY <2>4 DEF stm_store
  <2>5. CASE \E e, b : stm_set_extension(t, e, b) /\ b \in Nat
    BY <2>5 DEF stm_set_extension
  <2>6. CASE TickDeliver(t)
    BY <2>6 DEF TickDeliver, TickDue
  <2> QED
    BY <2>1, <2>2, <2>3, <2>4, <2>5, <2>6
<1>2. Reading(t) /\ pc[t] \in Active /\ Plain(t)'
  BY <1>1 DEF Reading, InBody, Running, Active, Plain
<1>3. ModeInv(t)'
  BY <1>0, <1>1, <1>2 DEF ModeInv, Extending, Stamped, Publishing
<1> QED
  BY <1>0, <1>1, <1>2, <1>3, PlainThread

\* A transaction begins, or one that is not to be restarted ends.
LEMMA PrepareStep ==
  ASSUME OInv, TypeOK', NEW t \in Thread, stm_prepare(t)
  PROVE  ThreadInv(t)'
<1>0. TypeOK /\ ModeInv(t) /\ clock \in Nat
  BY HistoryTypes DEF OInv, VInv, Inv, ThreadInv
<1>1. /\ start'[t] = clock /\ end'[t] = clock /\ snap'[t] = clock /\ clock' = clock
      /\ obs'[t] = {} /\ w_set'[t] = <<>> /\ ro' = ro /\ ~standing'[t]
      /\ tx_on'[t] = (Restarts(t) /\ EarlyAbort) /\ pc'[t] \in {"app", "idle"}
  BY <1>0, Domains DEF stm_prepare, Goto, sharedVars
<1>2. CASE pc'[t] = "idle"
  BY <1>0, <1>1, <1>2, OutsideThread DEF ModeInv
<1>3. CASE pc'[t] = "app"
  <2>1. ReaderInv(t)' /\ ExtendInv(t)' /\ CommitInv(t)'
    BY <1>3 DEF ReaderInv, HasLock, HasValue, ExtendInv, Extending, CommitInv, Stamped, Publishing
  <2>2. SnapInv(t)'
    BY <1>0, <1>1, <1>3 DEF SnapInv, Active, Running, Tracked
  <2>3. ModeInv(t)'
    BY <1>0, <1>1, <1>3 DEF ModeInv, Extending, Stamped, Publishing
  <2> QED
    BY <2>1, <2>2, <2>3 DEF ThreadInv
<1> QED
  BY <1>1, <1>2, <1>3

\* Reading a lock word, a word of memory, and a lock word that has changed, in a
\* transaction or in a unit load.
LEMMA ReadSteps ==
  ASSUME OInv, TypeOK', Stable, NEW t \in Thread,
         ReadLock(t) \/ ReadValue(t) \/ ReadLockChanged(t)
  PROVE  ThreadInv(t)'
<1>p. PICK a, k : a = arg[t].addr /\ k = LockOf[a]
  OBVIOUS
<1>0. /\ TypeOK /\ VInv /\ VersionInv /\ ReaderInv(t) /\ SnapInv(t) /\ ModeInv(t)
      /\ a \in Addr /\ k \in Lock /\ l[t].n \in Nat /\ clock \in Nat /\ end[t] \in Nat
      /\ locks[k] \in LockWord /\ locks[k].n \in Nat
  BY <1>p, ReaderTypes, HistoryTypes DEF OInv, VInv, Inv, ThreadInv
<1>1. /\ UNCHANGED <<clock, locks, hist, arg, obs, snap, r_set, ro, start, end, w_set, cont>>
      /\ UNCHANGED <<tx_on, standing>>
      /\ \/ pc[t] \in {"read_lock", "read_value", "read_lock2"}
            /\ pc'[t] \in {"read_lock", "read_value", "read_lock2"}
         \/ pc[t] \in {"unit_read_lock", "unit_read_value", "unit_read_lock2"}
            /\ pc'[t] \in {"unit_read_lock", "unit_read_value", "unit_read_lock2"}
  BY <1>0, Domains DEF ReadLock, ReadValue, ReadLockChanged, At, Goto, sharedVars, attrVars,
     snapVars, setVars, eaVars, histVars
<1>2. ReaderInv(t)'
  <2>1. ASSUME NEW v, locks[k].owner = NoOwner, v = locks[k].n, l'[t] = locks[k],
               HasLock(t)', ~HasValue(t)'
        PROVE  ReaderInv(t)'
    <3>1. Known(k, v) /\ v \in Nat
      BY <1>0, <2>1 DEF VersionInv, FreeVersion, Known, Stands
    <3>2. Known(k, v)'
      BY <1>0, <3>1 DEF Stable, LockStable
    <3>3. Known(LockOf[arg[t].addr], l[t].n)'
      BY <1>1, <1>p, <2>1, <3>2
    <3> QED
      BY <2>1, <3>3 DEF ReaderInv, HasLock
  <2>2. CASE ReadLock(t)
    <3>1. /\ locks[k].owner = NoOwner /\ l'[t] = locks[k]
          /\ pc'[t] \in {"read_value", "unit_read_value"}
      BY <1>0, <1>p, <2>2, Domains DEF ReadLock, At, Goto, LOCK_GET_OWNED
    <3> QED
      BY <2>1, <3>1 DEF HasLock, HasValue
  <2>3. CASE ReadValue(t)
    <3>1. /\ pc[t] \in {"read_value", "unit_read_value"} /\ l' = l
          /\ value'[t] = mem[a] /\ pc'[t] \in {"read_lock2", "unit_read_lock2"}
      BY <1>0, <1>p, <2>3, Domains DEF ReadValue, At, Goto
    <3>2. PICK v, w : v = l[t].n /\ w = mem[a]
      OBVIOUS
    <3>3. Known(k, v) /\ l[t].owner = NoOwner /\ v \in Nat
      BY <1>0, <1>p, <3>1, <3>2 DEF ReaderInv, HasLock
    <3>4. ReadAt(a, v, w)
      BY <1>0, <1>p, <3>2, <3>3, MemoryAt DEF ReadAt
    <3>5. ReadAt(a, v, w)'
      BY <1>0, <3>3, <3>4, ReadAtStable
    <3>6. ReadAt(arg[t].addr, l[t].n, value[t])'
      BY <1>1, <1>p, <3>1, <3>2, <3>5
    <3> QED
      BY <3>1, <3>3, <3>6 DEF ReaderInv, HasLock, HasValue
  <2>4. CASE ReadLockChanged(t)
    <3>1. \/ /\ locks[k].owner = NoOwner /\ l'[t] = locks[k]
             /\ pc'[t] \in {"read_value", "unit_read_value"}
          \/ pc'[t] \in {"read_lock", "unit_read_lock"}
      BY <1>0, <1>p, <2>4, Domains DEF ReadLockChanged, At, Goto, LOCK_GET_OWNED
    <3>2. CASE pc'[t] \in {"read_lock", "unit_read_lock"}
      BY <3>2 DEF ReaderInv, HasLock, HasValue
    <3> QED
      BY <2>1, <3>1, <3>2 DEF HasLock, HasValue
  <2> QED
    BY <2>2, <2>3, <2>4
<1>3. SnapInv(t)'
  <2>1. CASE pc[t] \in Active
    <3>1. pc'[t] \in Active /\ Reading(t) /\ pc'[t] # "read_recheck"
      BY <1>1, <2>1 DEF Active, Running, Committing, Reading, InBody
    <3>2. end'[t] <= end[t]
      BY <1>0, <1>1
    <3> QED
      BY <1>0, <1>1, <2>1, <3>1, <3>2, SnapKept
  <2>2. CASE pc[t] \notin Active
    <3>1. pc'[t] \notin Active /\ obs'[t] = {} /\ ~Reading(t)' /\ pc'[t] # "read_recheck"
      BY <1>0, <1>1, <2>2 DEF Active, Running, Committing, Reading, InBody, SnapInv
    <3> QED
      BY <3>1 DEF SnapInv
  <2> QED
    BY <2>1, <2>2
<1>4. ExtendInv(t)' /\ CommitInv(t)'
  BY <1>1 DEF ExtendInv, Extending, CommitInv, Stamped, Publishing
<1>5. ModeInv(t)'
  BY <1>0, <1>1 DEF ModeInv, Reading, InBody, Running, Extending, Stamped, Publishing
<1> QED
  BY <1>2, <1>3, <1>4, <1>5 DEF ThreadInv

\* A unit load returns a word that was current at the version it returns.
LEMMA UnitReadStep ==
  ASSUME OInv, TypeOK', Stable, NEW t \in Thread, UnitReadLockSame(t)
  PROVE  ThreadInv(t)'
<1>p. PICK a, v, w : a = arg[t].addr /\ v = l[t].n /\ w = value[t]
  OBVIOUS
<1>0. /\ TypeOK /\ VInv /\ ReaderInv(t) /\ SnapInv(t) /\ ModeInv(t)
      /\ a \in Addr /\ v \in Nat
  BY <1>p, ReaderTypes DEF OInv, VInv, Inv, ThreadInv
<1>1. /\ UNCHANGED <<arg, l, value, obs, ro, tx_on, standing>> /\ pc[t] = "unit_read_lock2"
      /\ pc'[t] = "unit_read_return" /\ locks[LockOf[a]] = l[t]
  BY <1>0, <1>p, Domains DEF UnitReadLockSame, At, Goto, localVars, histVars, eaVars, attrVars
<1>2. l[t].owner = NoOwner /\ ReadAt(a, v, w) /\ v <= clock
  BY <1>0, <1>1, <1>p DEF ReaderInv, HasValue, ReadAt, Known
<1>3. Settled(a, v, w)
  BY <1>0, <1>1, <1>2, <1>p, FreeSettled
<1>4. Settled(a, v, w)'
  BY <1>0, <1>3, SettledStable
<1>5. ReaderInv(t)'
  BY <1>1, <1>4, <1>p DEF ReaderInv, HasLock, HasValue
<1>6. obs'[t] = {}
  BY <1>0, <1>1 DEF SnapInv, Active, Running, Committing
<1>7. SnapInv(t)' /\ ExtendInv(t)' /\ CommitInv(t)'
  BY <1>1, <1>6 DEF SnapInv, Active, Running, Committing, ExtendInv, Extending, CommitInv,
     Stamped, Publishing
<1>8. ModeInv(t)'
  BY <1>0, <1>1 DEF ModeInv, Reading, InBody, Running, Extending, Stamped, Publishing
<1> QED
  BY <1>5, <1>7, <1>8 DEF ThreadInv

\* A load returns a word that belongs to the snapshot.
LEMMA LoadStep ==
  ASSUME OInv, TypeOK', Stable, NEW t \in Thread,
         AddToReadSet(t), ReturnToApp(t), locks[LockOf[arg[t].addr]] = l[t],
         pc[t] \in {"read_lock2", "read_recheck"}, l[t].n <= snap[t],
         UNCHANGED <<clock, ro, start, end, snap, w_set, standing>>
  PROVE  ThreadInv(t)'
<1>p. PICK a, v, w, s : a = arg[t].addr /\ v = l[t].n /\ w = value[t] /\ s = snap[t]
  OBVIOUS
<1>0. /\ TypeOK /\ VInv /\ ReaderInv(t) /\ SnapInv(t) /\ ModeInv(t)
      /\ a \in Addr /\ v \in Nat /\ s \in Nat /\ clock \in Nat
      /\ \A o \in obs[t] : o.addr \in Addr
      /\ \A r \in r_set[t] : r.version \in Nat
  BY <1>p, ReaderTypes DEF OInv, VInv, Inv, ThreadInv
<1> DEFINE o0 == [addr |-> a, value |-> w]
           r0 == [lock |-> LockOf[a], version |-> v]
<1>1. /\ obs'[t] = obs[t] \cup {o0}
      /\ r_set'[t] = IF ro[t] THEN r_set[t] ELSE r_set[t] \cup {r0}
  BY <1>0, <1>p, Domains DEF AddToReadSet
<1>2. o0.addr = a /\ o0.value = w /\ r0.lock = LockOf[a] /\ r0.version = v
  OBVIOUS
<1> HIDE DEF o0, r0
<1>3. /\ pc'[t] \in {"app", "extend"} /\ (tx_on'[t] => tx_on[t])
      /\ pc'[t] = "extend" => cont'[t] # "read" /\ standing[t]
  BY <1>0, Domains DEF ReturnToApp, Goto
<1>4. /\ pc[t] \in Active /\ Reading(t) /\ snap'[t] = s
      /\ s <= clock /\ start[t] <= s /\ end[t] <= s
  BY <1>0, <1>p DEF Active, Running, Reading, InBody, SnapInv
<1>5. l[t].owner = NoOwner /\ ReadAt(a, v, w)
  BY <1>0, <1>p DEF ReaderInv, HasValue
<1>6. Settled(a, s, w)' /\ ReadAt(a, v, w)'
  <2>1. Settled(a, s, w)
    BY <1>0, <1>4, <1>5, <1>p, FreeSettled
  <2> QED
    BY <1>0, <1>5, <2>1, SettledStable, ReadAtStable
<1>7. Tracked(t)' => \A o \in obs'[t] : Settled(o.addr, s, o.value)'
  <2>1. Tracked(t)' => \A o \in obs[t] : Settled(o.addr, s, o.value)
    BY <1>0, <1>p DEF SnapInv, Tracked
  <2>2. Tracked(t)' => \A o \in obs[t] : Settled(o.addr, s, o.value)'
    BY <1>0, <2>1, SettledStable
  <2> QED
    BY <1>1, <1>2, <1>6, <2>2
<1>8. ~ro'[t] => \A o \in obs'[t] : \E r \in r_set'[t] : Vouches(t, r, o)'
  <2>1. snap[t] <= snap'[t]
    BY <1>0, <1>4, <1>p
  <2>2. ASSUME ~ro[t], NEW o \in obs[t] PROVE \E r \in r_set[t] : Vouches(t, r, o)'
    <3>1. PICK r \in r_set[t] : Vouches(t, r, o)
      BY <1>0, <1>4, <2>2 DEF SnapInv
    <3> QED
      BY <1>0, <2>1, <3>1, VouchesKept
  <2>3. Vouches(t, r0, o0)'
    BY <1>2, <1>4, <1>6, <1>p DEF Vouches
  <2> QED
    BY <1>1, <2>2, <2>3
<1>9. SnapInv(t)'
  <2>1. pc'[t] \in Active /\ pc'[t] # "read_recheck"
    BY <1>3 DEF Active, Running
  <2>2. Tracked(t)' => \A o \in obs'[t] : Settled(o.addr, snap[t], o.value)'
    BY <1>4, <1>7
  <2> QED
    BY <1>4, <1>8, <2>1, <2>2 DEF SnapInv
<1>10. ReaderInv(t)' /\ ExtendInv(t)' /\ CommitInv(t)'
  BY <1>3 DEF ReaderInv, HasLock, HasValue, ExtendInv, Extending, CommitInv, Stamped, Publishing
<1>11. ModeInv(t)'
  BY <1>0, <1>3, <1>4 DEF ModeInv, Extending, Stamped, Publishing
<1> QED
  BY <1>9, <1>10, <1>11 DEF ThreadInv

\* The load ends, in the snapshot it found or in an extended one; or the word has
\* changed since the extension and is read again.
LEMMA LoadSteps ==
  ASSUME OInv, TypeOK', Stable, NEW t \in Thread, ReadLockSame(t) \/ ReadRecheck(t)
  PROVE  ThreadInv(t)'
<1>p. PICK a, v, w : a = arg[t].addr /\ v = l[t].n /\ w = value[t]
  OBVIOUS
<1>0. /\ TypeOK /\ ReaderInv(t) /\ SnapInv(t) /\ ModeInv(t) /\ snap[t] \in Nat /\ end[t] \in Nat
      /\ a \in Addr /\ v \in Nat /\ LockOf[a] \in Lock
  BY <1>p, ReaderTypes DEF OInv, VInv, Inv, ThreadInv
<1>1. /\ UNCHANGED <<clock, ro, start, end, snap, w_set, standing>>
      /\ pc[t] \in {"read_lock2", "read_recheck"}
  BY DEF ReadLockSame, ReadRecheck, sharedVars, attrVars, snapVars, At
<1>2. CASE ReadLockSame(t)
  <2>1. /\ locks[LockOf[arg[t].addr]] = l[t] /\ AddToReadSet(t) /\ ReturnToApp(t)
        /\ l[t].n <= end[t] /\ pc[t] \in Active
    BY <1>2 DEF ReadLockSame, At, Active, Running
  <2>2. l[t].n <= snap[t]
    BY <1>0, <1>p, <2>1 DEF SnapInv
  <2> QED
    BY <1>1, <2>1, <2>2, LoadStep
<1>3. CASE ReadRecheck(t) /\ locks[LockOf[arg[t].addr]] = l[t]
  <2>1. AddToReadSet(t) /\ ReturnToApp(t) /\ pc[t] = "read_recheck"
    BY <1>3 DEF ReadRecheck, At
  <2>2. l[t].n <= snap[t]
    BY <1>0, <2>1 DEF SnapInv
  <2> QED
    BY <1>1, <1>3, <2>1, <2>2, LoadStep
<1>4. CASE ReadRecheck(t) /\ locks[LockOf[arg[t].addr]] # l[t]
  <2>1. /\ pc[t] = "read_recheck" /\ pc'[t] = "read_value"
        /\ UNCHANGED <<r_set, obs, arg, l, cont, tx_on>>
    BY <1>0, <1>4, Domains DEF ReadRecheck, At, Goto
  <2>2. l[t].owner = NoOwner /\ Known(LockOf[a], v)
    BY <1>0, <1>p, <2>1 DEF ReaderInv, HasValue, ReadAt
  <2>3. Known(LockOf[a], v)'
    BY <1>0, <2>2 DEF Stable, LockStable
  <2>4. ReaderInv(t)'
    BY <1>p, <2>1, <2>2, <2>3 DEF ReaderInv, HasLock, HasValue
  <2>5. pc[t] \in Active /\ pc'[t] \in Active /\ Reading(t) /\ end'[t] <= end[t]
    BY <1>0, <1>1, <2>1 DEF Active, Running, Reading, InBody
  <2>6. SnapInv(t)'
    BY <1>0, <1>1, <2>1, <2>5, SnapKept
  <2>7. ExtendInv(t)' /\ CommitInv(t)'
    BY <2>1 DEF ExtendInv, Extending, CommitInv, Stamped, Publishing
  <2>8. ModeInv(t)'
    BY <1>0, <1>1, <2>1, <2>5 DEF ModeInv, Extending, Stamped, Publishing
  <2> QED
    BY <2>4, <2>6, <2>7, <2>8 DEF ThreadInv
<1> QED
  BY <1>2, <1>3, <1>4

\* A version beyond the snapshot: the value read stays good for its version.
LEMMA TooNewStep ==
  ASSUME OInv, TypeOK', Stable, NEW t \in Thread, ReadTooNew(t)
  PROVE  ThreadInv(t)'
<1>p. PICK a, v, w : a = arg[t].addr /\ v = l[t].n /\ w = value[t]
  OBVIOUS
<1>0. /\ TypeOK /\ ReaderInv(t) /\ SnapInv(t) /\ ModeInv(t) /\ end[t] \in Nat
      /\ a \in Addr /\ v \in Nat
  BY <1>p, ReaderTypes DEF OInv, VInv, Inv, ThreadInv
<1>1. /\ UNCHANGED <<clock, ro, start, end, snap, w_set, r_set, obs, standing, tx_on, arg, l, value>>
      /\ pc[t] = "read_lock2"
      /\ \/ pc'[t] = "extend" /\ cont'[t] = "read" /\ ~ro[t]
         \/ pc'[t] = "rollback"
  BY <1>0, Domains DEF ReadTooNew, MayExtend, EnterRollback, At, Goto, sharedVars, attrVars,
     snapVars, setVars, eaVars, histVars
<1>2. pc[t] \in Active /\ pc'[t] \in Active /\ Reading(t) /\ end'[t] <= end[t]
  BY <1>0, <1>1 DEF Active, Running, Committing, Reading, InBody
<1>3. SnapInv(t)'
  BY <1>0, <1>1, <1>2, SnapKept
<1>4. ReaderInv(t)'
  <2>1. l[t].owner = NoOwner /\ ReadAt(a, v, w)
    BY <1>0, <1>1, <1>p DEF ReaderInv, HasValue
  <2>2. ReadAt(a, v, w)'
    BY <1>0, <2>1, ReadAtStable
  <2> QED
    BY <1>1, <1>p, <2>1, <2>2 DEF ReaderInv, HasLock, HasValue
<1>5. ExtendInv(t)' /\ CommitInv(t)'
  BY <1>1 DEF ExtendInv, Extending, CommitInv, Stamped, Publishing
<1>6. ModeInv(t)'
  BY <1>0, <1>1, <1>2 DEF ModeInv, Extending, Stamped, Publishing
<1> QED
  BY <1>3, <1>4, <1>5, <1>6 DEF ThreadInv

\* A store is buffered, or finds a version it cannot use.
LEMMA WriteStep ==
  ASSUME OInv, TypeOK', Stable, NEW t \in Thread, stm_write(t)
  PROVE  ThreadInv(t)'
<1>0. TypeOK /\ SnapInv(t) /\ ModeInv(t) /\ end[t] \in Nat
  BY ReaderTypes DEF OInv, VInv, Inv, ThreadInv
<1>1. /\ UNCHANGED <<ro, start, end, snap, r_set, obs, standing>>
      /\ pc[t] = "write_lock" /\ pc'[t] \in {"app", "extend", "rollback"}
      /\ (tx_on'[t] => tx_on[t])
      /\ pc'[t] = "extend" => cont'[t] # "read" /\ standing[t]
  BY <1>0, Domains DEF stm_write, ReturnToApp, EnterRollback, At, Goto, attrVars, snapVars, histVars
<1>2. pc[t] \in Active /\ Reading(t) /\ end'[t] <= end[t] /\ Plain(t)' /\ ~ro[t]
  BY <1>0, <1>1 DEF Active, Running, Reading, InBody, Plain, ModeInv
<1>3. ModeInv(t)'
  BY <1>0, <1>1, <1>2 DEF ModeInv, Extending, Stamped, Publishing
<1> QED
  BY <1>0, <1>1, <1>2, <1>3, PlainThread

\* stm_extend takes the clock for the new end and sets out to validate.
LEMMA ExtendStep ==
  ASSUME OInv, TypeOK', Stable, NEW t \in Thread, stm_extend(t)
  PROVE  ThreadInv(t)'
<1>0. /\ TypeOK /\ ReaderInv(t) /\ SnapInv(t) /\ ModeInv(t) /\ end[t] \in Nat /\ clock \in Nat
      /\ pc[t] = "extend" /\ cont[t] # "commit" /\ snap[t] \in Nat
      /\ \A r \in r_set[t] : r.version \in Nat
  BY ReaderTypes DEF OInv, VInv, Inv, ThreadInv, WriteSetInv, stm_extend, At
<1>1. /\ UNCHANGED <<clock, ro, start, end, snap, w_set, r_set, obs, standing, tx_on>>
      /\ UNCHANGED <<arg, l, value, cont>>
      /\ \/ pc'[t] = "rollback"
         \/ pc'[t] = "validate" /\ now'[t] = clock /\ todo'[t] = r_set[t]
  BY <1>0, Domains DEF stm_extend, EnterRollback, Goto, sharedVars, attrVars, snapVars, setVars,
     eaVars, histVars
<1>2. /\ pc[t] \in Active /\ pc'[t] \in Active /\ Reading(t) /\ end'[t] <= end[t]
      /\ pc'[t] # "read_recheck"
  BY <1>0, <1>1 DEF Active, Running, Committing, Reading, InBody
<1>3. SnapInv(t)'
  BY <1>0, <1>1, <1>2, SnapKept
<1>4. ReaderInv(t)'
  <2>1. ~HasLock(t)' /\ (HasValue(t)' => HasValue(t)) /\ pc'[t] # "unit_read_return"
    BY <1>0, <1>1 DEF HasLock, HasValue
  <2> QED
    BY <1>0, <1>1, <2>1, ReaderKept
<1>5. ExtendInv(t)'
  <2> SUFFICES ASSUME pc'[t] = "validate" PROVE ExtendInv(t)'
    BY DEF ExtendInv, Extending
  <2>1. now'[t] = clock /\ todo'[t] = r_set[t] /\ snap[t] <= snap'[t]
    BY <1>0, <1>1
  <2>2. ASSUME ~ro[t], NEW o \in obs[t] PROVE \E r \in todo'[t] : Vouches(t, r, o)'
    <3>1. PICK r \in r_set[t] : Vouches(t, r, o)
      BY <1>0, <1>2, <2>2 DEF SnapInv
    <3> QED
      BY <1>0, <2>1, <3>1, VouchesKept
  <2>3. cont[t] = "read" => l[t].n <= clock
    BY <1>0 DEF ReaderInv, HasValue, ReadAt, Known
  <2>4. snap[t] <= clock
    BY <1>0, <1>2 DEF SnapInv
  <2> QED
    BY <1>0, <1>1, <2>1, <2>2, <2>3, <2>4 DEF ExtendInv
<1>6. CommitInv(t)'
  BY <1>0, <1>1 DEF CommitInv, Stamped, Publishing
<1>7. ModeInv(t)'
  BY <1>0, <1>1, <1>2 DEF ModeInv, Stamped, Publishing
<1> QED
  BY <1>3, <1>4, <1>5, <1>6, <1>7 DEF ThreadInv

\* stm_validate finds an entry valid: what it vouched for is settled at the time
\* the validation is for.
LEMMA ValidateOne ==
  ASSUME VInv, TypeOK', Stable, NEW t \in Thread, NEW r \in todo[t], NEW s \in Nat,
         ValidEntry(t, r), pc[t] \notin Publishing, todo'[t] = todo[t] \ {r},
         UNCHANGED <<obs, snap>>, snap[t] <= s, s <= clock, Stamped(t) => s < ts[t],
         NEW o \in obs[t],
         (\E q \in todo[t] : Vouches(t, q, o)) \/ Settled(o.addr, s, o.value)
  PROVE  (\E q \in todo'[t] : Vouches(t, q, o)') \/ Settled(o.addr, s, o.value)'
<1>0. /\ TypeOK /\ o.addr \in Addr /\ snap[t] \in Nat /\ snap[t] <= snap'[t]
      /\ \A q \in todo[t] : q.version \in Nat
  BY ReaderTypes DEF VInv, Inv
<1>1. CASE Settled(o.addr, s, o.value)
  BY <1>0, <1>1, SettledStable
<1>2. CASE Vouches(t, r, o)
  <2>1. Settled(o.addr, s, o.value)
    BY <1>2, ValidSettled
  <2> QED
    BY <1>0, <2>1, SettledStable
<1>3. ASSUME NEW q \in todo[t], q # r, Vouches(t, q, o) PROVE Vouches(t, q, o)' /\ q \in todo'[t]
  BY <1>0, <1>3, VouchesKept
<1> QED
  BY <1>1, <1>2, <1>3

\* The validation of an extension or of a commit goes on, or fails.
LEMMA ValidateStep ==
  ASSUME OInv, TypeOK', Stable, NEW t \in Thread, NEW r \in todo[t], stm_validate(t, r)
  PROVE  ThreadInv(t)'
<1>0. /\ TypeOK /\ VInv /\ ReaderInv(t) /\ SnapInv(t) /\ ExtendInv(t) /\ CommitInv(t) /\ ModeInv(t)
      /\ end[t] \in Nat /\ clock \in Nat /\ clock' \in Nat /\ clock <= clock' /\ now[t] \in Nat
      /\ snap[t] \in Nat /\ ts[t] \in Nat /\ pc[t] = "validate"
  BY ReaderTypes DEF OInv, VInv, Inv, ThreadInv, stm_validate, At, Stable, TypeOK, SharedTypes
<1>1. /\ UNCHANGED <<ro, start, end, snap, w_set, r_set, obs, standing, tx_on>>
      /\ UNCHANGED <<arg, l, value, cont, now, ts>>
      /\ \/ pc'[t] = "rollback"
         \/ pc'[t] = "validate" /\ ValidEntry(t, r) /\ todo'[t] = todo[t] \ {r}
  BY <1>0, Domains DEF stm_validate, EnterRollback, Goto, attrVars, snapVars, setVars,
     eaVars, histVars
<1>2. /\ pc[t] \in Active /\ pc'[t] \in Active /\ end'[t] <= end[t]
      /\ pc'[t] # "read_recheck" /\ (Reading(t)' => Reading(t)) /\ pc[t] \notin Publishing
  BY <1>0, <1>1 DEF Active, Running, Committing, Reading, InBody, Publishing
<1>3. SnapInv(t)'
  BY <1>0, <1>1, <1>2, SnapKept
<1>4. ReaderInv(t)'
  <2>1. ~HasLock(t)' /\ (HasValue(t)' => HasValue(t)) /\ pc'[t] # "unit_read_return"
    BY <1>0, <1>1 DEF HasLock, HasValue
  <2> QED
    BY <1>0, <1>1, <2>1, ReaderKept
<1>5. ModeInv(t)'
  BY <1>0, <1>1, <1>2 DEF ModeInv, Extending, Stamped, Publishing
<1>6. ExtendInv(t)'
  <2> SUFFICES ASSUME Extending(t)' PROVE ExtendInv(t)'
    BY DEF ExtendInv
  <2>1. /\ Extending(t) /\ ~Stamped(t) /\ ValidEntry(t, r) /\ todo'[t] = todo[t] \ {r}
        /\ snap[t] <= now[t] /\ now[t] <= clock
    BY <1>0, <1>1 DEF Extending, Stamped, ExtendInv
  <2>2. PICK s : s = now[t]
    OBVIOUS
  <2>3. ASSUME ~ro[t], NEW o \in obs[t]
        PROVE  (\E q \in todo'[t] : Vouches(t, q, o)') \/ Settled(o.addr, s, o.value)'
    <3>1. (\E q \in todo[t] : Vouches(t, q, o)) \/ Settled(o.addr, s, o.value)
      BY <1>0, <2>1, <2>2, <2>3 DEF ExtendInv
    <3> QED
      BY <1>0, <1>1, <1>2, <2>1, <2>2, <2>3, <3>1, ValidateOne
  <2>4. now'[t] = s
    BY <1>1, <2>2
  <2>5. ~ro'[t] => \A o \in obs'[t] : (\E q \in todo'[t] : Vouches(t, q, o)')
                                       \/ Settled(o.addr, now[t], o.value)'
    BY <1>1, <2>3, <2>4
  <2>6. /\ snap'[t] <= now'[t] /\ now'[t] <= clock'
        /\ cont'[t] = "read" => l'[t].n <= now'[t]
    BY <1>0, <1>1, <2>1 DEF ExtendInv
  <2> QED
    BY <2>5, <2>6 DEF ExtendInv
<1>7. CommitInv(t)'
  <2>p. pc'[t] \notin Publishing
    BY <1>1 DEF Publishing
  <2> SUFFICES ASSUME Stamped(t)' PROVE CommitInv(t)'
    BY <2>p DEF CommitInv
  <2>1. /\ Stamped(t) /\ ValidEntry(t, r) /\ todo'[t] = todo[t] \ {r}
        /\ snap[t] < ts[t] /\ ts[t] <= clock
    BY <1>0, <1>1 DEF Stamped, CommitInv, VInv, VersionInv, Stamps
  <2>2. PICK s : s = ts[t] - 1
    OBVIOUS
  <2>3. s \in Nat /\ snap[t] <= s /\ s <= clock /\ s < ts[t]
    BY <1>0, <2>1, <2>2
  <2>4. ASSUME NEW o \in obs[t]
        PROVE  (\E q \in todo'[t] : Vouches(t, q, o)') \/ Settled(o.addr, s, o.value)'
    <3>1. (\E q \in todo[t] : Vouches(t, q, o)) \/ Settled(o.addr, s, o.value)
      BY <1>0, <2>1, <2>2 DEF CommitInv
    <3> QED
      BY <1>0, <1>1, <1>2, <2>1, <2>3, <3>1, ValidateOne
  <2>5. \A o \in obs'[t] : (\E q \in todo'[t] : Vouches(t, q, o)')
                             \/ Settled(o.addr, ts[t] - 1, o.value)'
    BY <1>1, <2>2, <2>4
  <2> QED
    BY <1>1, <2>1, <2>5, <2>p DEF CommitInv
<1> QED
  BY <1>3, <1>4, <1>5, <1>6, <1>7 DEF ThreadInv

\* The snapshot moves to the time it has been validated for.
LEMMA ExtendOkStep ==
  ASSUME OInv, TypeOK', Stable, NEW t \in Thread, ExtendOk(t)
  PROVE  ThreadInv(t)'
<1>p. PICK s : s = now[t]
  OBVIOUS
<1>0. /\ TypeOK /\ ReaderInv(t) /\ SnapInv(t) /\ ExtendInv(t) /\ ModeInv(t)
      /\ clock \in Nat /\ s \in Nat /\ snap[t] \in Nat /\ start[t] \in Nat
      /\ \A o \in obs[t] : o.addr \in Addr
      /\ \A r \in r_set[t] : r.version \in Nat
  BY <1>p, ReaderTypes DEF OInv, VInv, Inv, ThreadInv
<1>1. /\ pc[t] = "validate" /\ todo[t] = {} /\ cont[t] # "commit"
      /\ UNCHANGED <<clock, ro, start, w_set, r_set, obs, arg, l, value, cont>>
      /\ end'[t] = s /\ snap'[t] = s /\ ~standing'[t] /\ tx_on'[t] = EarlyAbort
      /\ \/ pc'[t] = "read_recheck" /\ cont[t] = "read"
         \/ pc'[t] = "app"
  BY <1>0, <1>p, Domains DEF ExtendOk, At, Goto, sharedVars, attrVars, setVars
<1>2. Extending(t) /\ pc[t] \in Active /\ pc'[t] \in Active /\ Reading(t)
  BY <1>1 DEF Extending, Active, Running, Committing, Reading, InBody
<1>3. snap[t] <= s /\ s <= clock /\ start[t] <= s /\ (cont[t] = "read" => l[t].n <= s)
  BY <1>0, <1>2, <1>p DEF ExtendInv, SnapInv
<1>4. Tracked(t)' => \A o \in obs'[t] : Settled(o.addr, s, o.value)'
  <2>1. Tracked(t)' => ~ro[t]
    BY <1>0, <1>1, <1>2 DEF Tracked, ModeInv
  <2>2. ~ro[t] => \A o \in obs[t] : Settled(o.addr, s, o.value)
    BY <1>0, <1>1, <1>2, <1>p DEF ExtendInv
  <2> QED
    BY <1>0, <1>1, <2>1, <2>2, SettledStable
<1>5. ~ro'[t] => \A o \in obs'[t] : \E r \in r_set'[t] : Vouches(t, r, o)'
  <2> SUFFICES ASSUME ~ro[t], NEW o \in obs[t] PROVE \E r \in r_set[t] : Vouches(t, r, o)'
    BY <1>1
  <2>1. PICK r \in r_set[t] : Vouches(t, r, o)
    BY <1>0, <1>2 DEF SnapInv
  <2> QED
    BY <1>0, <1>1, <1>3, <2>1, VouchesKept
<1>6. SnapInv(t)'
  <2>1. Tracked(t)' => \A o \in obs'[t] : Settled(o.addr, snap[t], o.value)'
    BY <1>1, <1>4
  <2>2. start'[t] <= snap'[t] /\ snap'[t] <= clock' /\ end'[t] <= snap'[t]
    BY <1>0, <1>1, <1>3
  <2>3. pc'[t] = "read_recheck" => l'[t].n <= snap'[t]
    BY <1>1, <1>3
  <2> QED
    BY <1>2, <1>5, <2>1, <2>2, <2>3 DEF SnapInv
<1>7. ReaderInv(t)'
  <2>1. ~HasLock(t)' /\ (HasValue(t)' => HasValue(t)) /\ pc'[t] # "unit_read_return"
    BY <1>1 DEF HasLock, HasValue
  <2> QED
    BY <1>0, <1>1, <2>1, ReaderKept
<1>8. ExtendInv(t)' /\ CommitInv(t)'
  BY <1>1 DEF ExtendInv, Extending, CommitInv, Stamped, Publishing
<1>9. ModeInv(t)'
  BY <1>0, <1>1, <1>2 DEF ModeInv, Extending, Stamped, Publishing
<1> QED
  BY <1>6, <1>7, <1>8, <1>9 DEF ThreadInv

\* Locks are acquired, or given back.
LEMMA LockSteps ==
  ASSUME OInv, TypeOK', Stable, NEW t \in Thread, CommitAcquire(t) \/ RollbackRelease(t)
  PROVE  ThreadInv(t)'
<1>0. TypeOK /\ SnapInv(t) /\ ModeInv(t) /\ end[t] \in Nat
  BY ReaderTypes DEF OInv, VInv, Inv, ThreadInv
<1>1. /\ UNCHANGED <<ro, start, end, snap, r_set, obs, standing, tx_on>>
      /\ \/ pc[t] = "acquire" /\ pc'[t] \in {"acquire", "rollback"}
         \/ pc[t] = "rollback" /\ pc'[t] = "rollback"
  <2>1. CASE CommitAcquire(t)
    BY <1>0, <2>1, Domains DEF CommitAcquire, EnterRollback, At, Goto, attrVars, snapVars, eaVars,
       histVars
  <2>2. CASE RollbackRelease(t)
    BY <2>2 DEF RollbackRelease, At, attrVars, snapVars, eaVars, histVars
  <2> QED
    BY <2>1, <2>2
<1>2. pc[t] \in Active /\ (Reading(t)' => Reading(t)) /\ end'[t] <= end[t] /\ Plain(t)'
  BY <1>0, <1>1 DEF Active, Running, Committing, Reading, InBody, Plain
<1>3. ModeInv(t)'
  BY <1>0, <1>1, <1>2 DEF ModeInv, Reading, InBody, Running, Extending, Stamped, Publishing
<1> QED
  BY <1>0, <1>1, <1>2, <1>3, PlainThread

\* A commit takes its timestamp.  If the clock has not moved since the
\* transaction began, its snapshot is the state just before.
LEMMA StampStep ==
  ASSUME OInv, TypeOK', Stable, NEW t \in Thread, CommitClock(t)
  PROVE  ThreadInv(t)'
<1>p. PICK s : s = snap[t]
  OBVIOUS
<1>0. /\ TypeOK /\ SnapInv(t) /\ ModeInv(t) /\ end[t] \in Nat /\ clock \in Nat /\ s \in Nat
      /\ start[t] \in Nat
      /\ \A o \in obs[t] : o.addr \in Addr
      /\ \A r \in r_set[t] : r.version \in Nat
  BY <1>p, ReaderTypes DEF OInv, VInv, Inv, ThreadInv
<1>1. /\ UNCHANGED <<ro, start, end, snap, w_set, r_set, obs, standing, tx_on>>
      /\ pc[t] = "acquire" /\ ts'[t] = clock + 1
      /\ \/ pc'[t] = "write_back" /\ start[t] = clock
         \/ pc'[t] = "validate" /\ cont'[t] = "commit" /\ todo'[t] = r_set[t]
  BY <1>0, Domains DEF CommitClock, At, Goto, attrVars, snapVars, setVars, eaVars
<1>2. /\ pc[t] \in Active /\ pc'[t] \in Active /\ Reading(t) /\ end'[t] <= end[t]
      /\ pc'[t] # "read_recheck" /\ ~ro[t] /\ ~Reading(t)' /\ snap[t] <= snap'[t]
  BY <1>0, <1>1, <1>p DEF Active, Running, Committing, Reading, InBody, ModeInv
<1>3. start[t] <= s /\ s <= clock
  BY <1>0, <1>2, <1>p DEF SnapInv
<1>4. SnapInv(t)'
  BY <1>0, <1>1, <1>2, SnapKept
<1>5. ReaderInv(t)' /\ ExtendInv(t)'
  BY <1>1 DEF ReaderInv, HasLock, HasValue, ExtendInv, Extending
<1>6. CASE pc'[t] = "write_back"
  <2>1. s = ts'[t] - 1
    BY <1>0, <1>1, <1>3, <1>6
  <2>2. \A o \in obs[t] : Settled(o.addr, s, o.value)
    BY <1>0, <1>2, <1>p DEF SnapInv, Tracked
  <2>3. \A o \in obs[t] : Settled(o.addr, s, o.value)'
    BY <1>0, <2>2, SettledStable
  <2>4. \A o \in obs'[t] : Settled(o.addr, ts[t] - 1, o.value)'
    BY <1>1, <2>1, <2>3
  <2>5. CommitInv(t)'
    BY <1>6, <2>4 DEF CommitInv, Stamped
  <2>6. ModeInv(t)'
    BY <1>0, <1>1, <1>2, <1>6 DEF ModeInv, Extending
  <2> QED
    BY <1>4, <1>5, <2>5, <2>6 DEF ThreadInv
<1>7. CASE pc'[t] = "validate"
  <2>1. cont'[t] = "commit" /\ todo'[t] = r_set[t] /\ snap'[t] < ts'[t]
    BY <1>0, <1>1, <1>3, <1>7, <1>p
  <2>2. ASSUME NEW o \in obs[t] PROVE \E r \in todo'[t] : Vouches(t, r, o)'
    <3>1. PICK r \in r_set[t] : Vouches(t, r, o)
      BY <1>0, <1>2 DEF SnapInv
    <3> QED
      BY <1>0, <1>2, <2>1, <3>1, VouchesKept
  <2>3. CommitInv(t)'
    BY <1>1, <1>7, <2>1, <2>2 DEF CommitInv, Publishing
  <2>4. ModeInv(t)'
    BY <1>0, <1>1, <1>2, <1>7, <2>1 DEF ModeInv, Extending
  <2> QED
    BY <1>4, <1>5, <2>3, <2>4 DEF ThreadInv
<1> QED
  BY <1>1, <1>6, <1>7

\* Past the point of no return, what was read stays what it was just before the
\* timestamp.
LEMMA PublishSteps ==
  ASSUME OInv, TypeOK', Stable, NEW t \in Thread,
         CommitValid(t) \/ CommitStore(t) \/ CommitRelease(t)
  PROVE  ThreadInv(t)'
<1>p. PICK s : s = ts[t] - 1
  OBVIOUS
<1>0. /\ TypeOK /\ SnapInv(t) /\ CommitInv(t) /\ ModeInv(t) /\ end[t] \in Nat /\ s \in Int
      /\ \A o \in obs[t] : o.addr \in Addr
  BY <1>p, ReaderTypes DEF OInv, VInv, Inv, ThreadInv
<1>1. /\ UNCHANGED <<ro, start, end, snap, w_set, r_set, obs, standing, tx_on, ts>>
      /\ \/ Stamped(t) /\ todo[t] = {}
         \/ pc[t] \in Publishing
      /\ pc'[t] \in Publishing \cup {"end"}
  BY <1>0, Domains DEF CommitValid, CommitStore, CommitRelease, NextWriteBack, At, Goto, Stamped,
     Publishing, attrVars, snapVars, setVars, eaVars, histVars
<1>2. /\ pc[t] \in Active /\ pc'[t] \in Active /\ end'[t] <= end[t] /\ pc'[t] # "read_recheck"
      /\ ~Reading(t)' /\ ~ro[t]
  BY <1>0, <1>1 DEF Active, Running, Committing, Reading, InBody, Stamped, Publishing, ModeInv
<1>3. SnapInv(t)'
  BY <1>0, <1>1, <1>2, SnapKept
<1>4. ReaderInv(t)' /\ ExtendInv(t)'
  BY <1>1 DEF ReaderInv, HasLock, HasValue, ExtendInv, Extending, Publishing
<1>5. CommitInv(t)'
  <2>1. \A o \in obs[t] : Settled(o.addr, s, o.value)
    BY <1>0, <1>1, <1>p DEF CommitInv
  <2>2. \A o \in obs[t] : Settled(o.addr, s, o.value)'
    BY <1>0, <2>1, SettledStable
  <2>3. \A o \in obs'[t] : Settled(o.addr, ts[t] - 1, o.value)'
    BY <1>1, <1>p, <2>2
  <2> QED
    BY <1>1, <2>3 DEF CommitInv, Stamped, Publishing
<1>6. ModeInv(t)'
  BY <1>0, <1>1, <1>2 DEF ModeInv, Extending, Stamped, Publishing
<1> QED
  BY <1>3, <1>4, <1>5, <1>6 DEF ThreadInv

-----------------------------------------------------------------------------
(***************************************************************************)
(* The invariant is inductive                                              *)
(***************************************************************************)
\* A step of t keeps its own part.
LEMMA OwnThread ==
  ASSUME OInv, TypeOK', Stable, NEW t \in Thread, AppStep(t) \/ TickDeliver(t) \/ LibraryStep(t)
  PROVE  ThreadInv(t)'
<1>1. CASE AppStep(t)
  BY <1>1, OutsideSteps, CallSteps, ConstantsAssumption DEF AppStep
<1>2. CASE TickDeliver(t)
  BY <1>2, CallSteps
<1>3. CASE LibraryStep(t)
  BY <1>3, OutsideSteps, PrepareStep, ReadSteps, UnitReadStep, LoadSteps, TooNewStep, WriteStep,
     ExtendStep, ValidateStep, ExtendOkStep, LockSteps, StampStep, PublishSteps DEF LibraryStep
<1> QED
  BY <1>1, <1>2, <1>3

LEMMA InitOInv == Init => OInv
<1> SUFFICES ASSUME Init PROVE OInv
  OBVIOUS
<1>1. VInv
  BY InitVInv
<1>2. ASSUME NEW t \in Thread PROVE ThreadInv(t)
  <2>1. pc[t] = "idle" /\ obs[t] = {} /\ ~ro[t] /\ ~tx_on[t] /\ ~standing[t]
    BY DEF Init
  <2>2. ReaderInv(t) /\ ExtendInv(t) /\ CommitInv(t)
    BY <2>1 DEF ReaderInv, HasLock, HasValue, ExtendInv, Extending, CommitInv, Stamped, Publishing
  <2>3. SnapInv(t)
    BY <2>1 DEF SnapInv, Active, Running, Committing
  <2>4. ModeInv(t)
    BY <2>1 DEF ModeInv
  <2> QED
    BY <2>2, <2>3, <2>4 DEF ThreadInv
<1> QED
  BY <1>1, <1>2 DEF OInv

LEMMA NextOInv == OInv /\ [Next]_vars => OInv'
<1> SUFFICES ASSUME OInv, [Next]_vars PROVE OInv'
  OBVIOUS
<1>0. VInv /\ VInv' /\ Inv' /\ TypeOK /\ TypeOK'
  BY NextVInv DEF OInv, VInv, Inv
<1>1. ASSUME NEW t \in Thread, AppStep(t) \/ TickDeliver(t) \/ LibraryStep(t)
      PROVE  \A u \in Thread : ThreadInv(u)'
  <2>1. OthersLeft(t) /\ Stable
    BY <1>0, <1>1, StepStable
  <2>2. ThreadInv(t)'
    BY <1>0, <1>1, <2>1, OwnThread
  <2>3. ASSUME NEW u \in Thread \ {t} PROVE ThreadInv(u)'
    <3>1. ThreadInv(u)
      BY DEF OInv
    <3> QED
      BY <1>0, <2>1, <3>1, ThreadKept DEF OthersLeft, OthersSame
  <2> QED
    BY <2>2, <2>3
<1>2. ASSUME NEW t \in Thread, TickRecentlyValidated(t) \/ TickStanding(t)
      PROVE  \A u \in Thread : ThreadInv(u)'
  <2>1. /\ UNCHANGED <<clock, locks, hist, pc, w_set, arg, ts, cont>>
        /\ UNCHANGED <<r_set, obs, ro, start, end, snap, now, todo, l, value, tx_on>>
    BY <1>2 DEF TickRecentlyValidated, TickStanding, sharedVars, attrVars, snapVars, setVars,
       localVars, histVars
  <2>2. EarlyAbort
    BY <1>2 DEF TickRecentlyValidated, TickStanding, TickDue, OInv, ThreadInv, ModeInv
  <2> QED
    BY <1>0, <2>1, <2>2, StillStable, ThreadKept DEF OInv
<1>3. CASE UNCHANGED vars
  <2>1. /\ UNCHANGED <<clock, locks, hist, pc, w_set, arg, ts, cont>>
        /\ UNCHANGED <<r_set, obs, ro, start, end, snap, now, todo, l, value, tx_on, standing>>
    BY <1>3 DEF vars
  <2>2. \A u \in Thread : ThreadInv(u)'
    BY <1>0, <2>1, StillStable, ThreadKept DEF OInv
  <2> QED
    BY <1>0, <2>2 DEF OInv
<1>4. CASE rollover_clock
  <2>1. ASSUME NEW t \in Thread PROVE ThreadInv(t)'
    <3>1. /\ pc[t] = "barrier" /\ pc'[t] \in {"idle", "prepare"}
          /\ UNCHANGED <<obs, ro, tx_on, standing>>
      BY <1>4 DEF rollover_clock, At, attrVars, eaVars
    <3>2. SnapInv(t) /\ ModeInv(t)
      BY DEF OInv, ThreadInv
    <3>3. obs'[t] = {}
      BY <3>1, <3>2 DEF SnapInv, Active, Running, Committing
    <3> QED
      BY <3>1, <3>2, <3>3, OutsideThread DEF ModeInv
  <2> QED
    BY <1>0, <2>1 DEF OInv
<1> QED
  BY <1>0, <1>1, <1>2, <1>3, <1>4 DEF Next, Tick, OInv

-----------------------------------------------------------------------------
(***************************************************************************)
(* Theorems                                                                *)
(***************************************************************************)
\* stm_unit_load returns a word and a version at which the word was the committed
\* value, whatever transactions and unit stores run beside it.
THEOREM UnitLoadsAtomic == Spec => []UnitLoadAtomic
<1>1. OInv => UnitLoadAtomic
  BY DEF OInv, ThreadInv, ReaderInv, Settled, UnitLoadAtomic, At
<1> QED
  BY InitOInv, NextOInv, <1>1, PTL DEF Spec

\* A transaction that stm_commit lets write back has read the committed state just
\* before its own timestamp: commit timestamps order the update transactions of any
\* number of threads, with extensions, ticks and rollovers of the clock between.
THEOREM CommitsSerializable == Spec => []CommitSerializable
<1>1. OInv => CommitSerializable
  BY DEF OInv, ThreadInv, CommitInv, Settled, CommitSerializable, Publishing
<1> QED
  BY InitOInv, NextOInv, <1>1, PTL DEF Spec

\* Without early abort, or if no transaction is declared read-only, the loads of
\* every transaction return values of one committed state, even if the transaction
\* aborts later.  (With early abort a tick moves the end of a read-only snapshot
\* that keeps no read set to validate; see the run ea_read_only.)
THEOREM SnapshotsOpaque ==
  ASSUME ~EarlyAbort \/ \A a \in Attr : ~a.read_only
  PROVE  Spec => []Opacity
<1>1. OInv => Opacity
  BY DEF OInv, ThreadInv, SnapInv, ModeInv, Tracked, Settled, Opacity
<1> QED
  BY InitOInv, NextOInv, <1>1, PTL DEF Spec

\* Update transactions are opaque in every build: early abort revalidates all they
\* have read before it moves their snapshot.
THEOREM UpdatesOpaque ==
  Spec => [](\A t \in Thread : ~ro[t] =>
               \A o \in obs[t] : IsValueAt(o.addr, snap[t], o.value))
<1>1. OInv => \A t \in Thread : ~ro[t] =>
                \A o \in obs[t] : IsValueAt(o.addr, snap[t], o.value)
  BY DEF OInv, ThreadInv, SnapInv, Tracked, Settled
<1> QED
  BY InitOInv, NextOInv, <1>1, PTL DEF Spec

-----------------------------------------------------------------------------
(***************************************************************************)
(* The refinement of OpaqueTM: its inductive invariant                     *)
(***************************************************************************)
\* stm_commit has its timestamp and has not written back everything.
Ticketed(t) == Stamped(t) \/ pc[t] \in Publishing

\* A timestamp is taken by stm_commit or a unit store, and forgotten when the
\* transaction ends.
TicketInv(t) ==
  /\ Ticketed(t) => ts[t] > 0
  /\ ts[t] > 0 => Ticketed(t) \/ pc[t] \in {"end", "rollback", "unit_release"}

RInv == OInv /\ \A t \in Thread : TicketInv(t)

\* Loads and stores never find a timestamp of an earlier transaction.
LEMMA TicketStep ==
  ASSUME Inv, TypeOK', NEW t \in Thread, TicketInv(t), AppStep(t) \/ TickDeliver(t) \/ LibraryStep(t)
  PROVE  TicketInv(t)'
<1>0. TypeOK /\ WriteSetInv(t) /\ ts[t] \in Nat /\ clock \in Nat
  BY ReaderTypes DEF Inv
<1>1. ASSUME ts'[t] = ts[t], pc[t] \notin Publishing \cup {"validate", "end", "rollback", "unit_release"},
             pc'[t] \notin Publishing, ~Stamped(t)'
      PROVE  TicketInv(t)'
  <2>1. ts[t] = 0
    BY <1>0, <1>1 DEF TicketInv, Ticketed, Stamped
  <2> QED
    BY <1>1, <2>1 DEF TicketInv, Ticketed
<1>2. ASSUME ts'[t] = 0, ~Ticketed(t)' PROVE TicketInv(t)'
  BY <1>2 DEF TicketInv
<1> USE <1>0, Domains DEF At, Goto, EnterRollback, ReturnToApp, Publishing, Stamped, localVars
<1>3. CASE AppStep(t)
  <2>1. /\ ts'[t] = ts[t] /\ pc[t] \in {"idle", "app"}
        /\ pc'[t] \in {"prepare", "app", "read_lock", "write_lock", "extend", "acquire", "end",
                       "rollback", "unit_read_lock", "unit_lock"}
    <3>1. CASE \E a \in Attr : stm_start(t, a)
      BY <3>1 DEF stm_start
    <3>2. CASE stm_start_nested(t) \/ stm_commit_nested(t) \/ stm_commit(t) \/ stm_abort(t)
               \/ stm_store_ro(t)
      BY <3>2 DEF stm_start_nested, stm_commit_nested, stm_commit, stm_abort, stm_store_ro
    <3>3. CASE \E a \in Loads[t] : stm_load_written(t, a) \/ stm_load(t, a) \/ stm_unit_load(t, a)
      BY <3>3 DEF stm_load_written, stm_load, stm_unit_load
    <3>4. CASE \E a, v, m : stm_store(t, a, v, m) \/ stm_unit_store(t, a, v, m)
      BY <3>4 DEF stm_store, stm_unit_store
    <3>5. CASE \E e \in BOOLEAN, b \in Bounds : stm_set_extension(t, e, b)
      BY <3>5 DEF stm_set_extension
    <3> QED
      BY <1>3, <3>1, <3>2, <3>3, <3>4, <3>5 DEF AppStep
  <2> QED
    BY <1>1, <2>1
<1>4. CASE TickDeliver(t)
  BY <1>1, <1>4 DEF TickDeliver
<1>5. CASE stm_prepare(t) \/ stm_prepare_overflow(t)
  BY <1>1, <1>5 DEF stm_prepare, stm_prepare_overflow
<1>6. CASE ReadLock(t) \/ ReadValue(t) \/ ReadLockChanged(t) \/ ReadLockSame(t) \/ ReadTooNew(t)
           \/ ReadRecheck(t)
  <2>1. /\ ts'[t] = ts[t]
        /\ pc[t] \in {"read_lock", "read_value", "read_lock2", "read_recheck", "unit_read_lock",
                      "unit_read_value", "unit_read_lock2"}
        /\ pc'[t] \notin Publishing \cup {"validate"}
    BY <1>6 DEF ReadLock, ReadValue, ReadLockChanged, ReadLockSame, ReadTooNew, ReadRecheck
  <2> QED
    BY <1>1, <2>1
<1>7. CASE stm_write(t)
  BY <1>1, <1>7 DEF stm_write
<1>8. CASE stm_extend(t)
  BY <1>1, <1>8 DEF stm_extend, WriteSetInv
<1>9. CASE (\E r \in todo[t] : stm_validate(t, r)) \/ ExtendOk(t)
  BY <1>9 DEF stm_validate, ExtendOk, TicketInv, Ticketed, eaVars
<1>10. CASE CommitAcquire(t)
  BY <1>1, <1>10 DEF CommitAcquire
<1>11. CASE CommitClock(t)
  BY <1>11 DEF CommitClock, TicketInv, Ticketed
<1>12. CASE CommitValid(t) \/ CommitStore(t) \/ CommitRelease(t)
  BY <1>12 DEF CommitValid, CommitStore, CommitRelease, NextWriteBack, TicketInv, Ticketed
<1>13. CASE CommitEnd(t) \/ RollbackEnd(t) \/ UnitRelease(t)
  BY <1>2, <1>13 DEF CommitEnd, RollbackEnd, UnitRelease, Ticketed
<1>14. CASE RollbackRelease(t)
  BY <1>14 DEF RollbackRelease, TicketInv, Ticketed
<1>15. CASE UnitReadLockSame(t) \/ UnitReadReturn(t) \/ UnitLock(t) \/ UnitStore(t)
  BY <1>1, <1>15 DEF UnitReadLockSame, UnitReadReturn, UnitLock, UnitStore
<1>16. CASE UnitClock(t)
  BY <1>16 DEF UnitClock, TicketInv, Ticketed
<1> QED
  BY <1>3, <1>4, <1>5, <1>6, <1>7, <1>8, <1>9, <1>10, <1>11, <1>12, <1>13, <1>14, <1>15, <1>16
     DEF LibraryStep

LEMMA InitRInv == Init => RInv
<1> SUFFICES ASSUME Init PROVE RInv
  OBVIOUS
<1>1. OInv
  BY InitOInv
<1>2. ASSUME NEW t \in Thread PROVE TicketInv(t)
  BY DEF Init, TicketInv, Ticketed, Stamped, Publishing
<1> QED
  BY <1>1, <1>2 DEF RInv

LEMMA NextRInv == RInv /\ [Next]_vars => RInv'
<1> SUFFICES ASSUME RInv, [Next]_vars PROVE RInv'
  OBVIOUS
<1>0. OInv /\ OInv' /\ Inv /\ TypeOK /\ TypeOK'
  BY NextOInv DEF RInv, OInv, VInv, Inv
<1>1. ASSUME NEW u \in Thread, UNCHANGED <<pc[u], cont[u], ts[u]>> PROVE TicketInv(u)'
  BY <1>1 DEF RInv, TicketInv, Ticketed, Stamped
<1>2. ASSUME NEW t \in Thread, AppStep(t) \/ TickDeliver(t) \/ LibraryStep(t)
      PROVE  \A u \in Thread : TicketInv(u)'
  <2>1. OthersLeft(t)
    BY <1>0, <1>2, LocalCall, LocalLibrary DEF Tick
  <2>2. TicketInv(t)'
    BY <1>0, <1>2, TicketStep DEF RInv
  <2> QED
    BY <1>1, <2>1, <2>2 DEF OthersLeft, OthersSame
<1>3. ASSUME NEW t \in Thread, TickRecentlyValidated(t) \/ TickStanding(t)
      PROVE  \A u \in Thread : TicketInv(u)'
  BY <1>1, <1>3 DEF TickRecentlyValidated, TickStanding, localVars
<1>4. CASE UNCHANGED vars
  BY <1>0, <1>1, <1>4 DEF vars, RInv
<1>5. CASE rollover_clock
  <2>1. ASSUME NEW u \in Thread PROVE TicketInv(u)'
    <3>1. /\ pc[u] = "barrier" /\ pc'[u] \in {"idle", "prepare"} /\ ts' = ts /\ ts[u] \in Nat
      BY <1>0, <1>5, ReaderTypes DEF rollover_clock, At, localVars
    <3> QED
      BY <3>1 DEF RInv, TicketInv, Ticketed, Stamped, Publishing
  <2> QED
    BY <1>0, <2>1 DEF RInv
<1> QED
  BY <1>0, <1>2, <1>3, <1>4, <1>5 DEF Next, Tick, RInv

-----------------------------------------------------------------------------
(***************************************************************************)
(* The mapping                                                             *)
(***************************************************************************)
\* The abstract state.
Phases == [u \in Thread |-> PhaseOf(u)]
Snaps == [u \in Thread |-> InTx(u, snap[u])]
Tickets == [u \in Thread |-> InTx(u, ts[u])]

\* A step of t changes the abstract state of t only.
LEMMA MappedStep ==
  ASSUME TypeOK, TypeOK', NEW t \in Thread, OthersLeft(t)
  PROVE  /\ Phases' = [Phases EXCEPT ![t] = Phases'[t]]
         /\ Snaps' = [Snaps EXCEPT ![t] = Snaps'[t]]
         /\ Tickets' = [Tickets EXCEPT ![t] = Tickets'[t]]
         /\ obs' = [obs EXCEPT ![t] = obs'[t]]
<1>1. \A u \in Thread \ {t} : /\ pc'[u] = pc[u] /\ snap'[u] = snap[u] /\ ts'[u] = ts[u]
                              /\ obs'[u] = obs[u]
  BY DEF OthersLeft, OthersSame
<1>2. obs \in [Thread -> SUBSET [addr: Addr, value: Word]]
      /\ obs' \in [Thread -> SUBSET [addr: Addr, value: Word]]
  BY DEF TypeOK, HistTypes
<1>3. obs' = [obs EXCEPT ![t] = obs'[t]]
  BY <1>1, <1>2
<1>4. Phases' = [Phases EXCEPT ![t] = Phases'[t]]
  BY <1>1 DEF Phases, PhaseOf
<1>5. Snaps' = [Snaps EXCEPT ![t] = Snaps'[t]]
  BY <1>1 DEF Snaps, InTx
<1>6. Tickets' = [Tickets EXCEPT ![t] = Tickets'[t]]
  BY <1>1 DEF Tickets, InTx
<1> QED
  BY <1>3, <1>4, <1>5, <1>6

\* Nothing changes for the abstract memory.
LEMMA MappedStutter ==
  ASSUME TypeOK, TypeOK', NEW t \in Thread, OthersLeft(t), UNCHANGED <<clock, hist>>,
         obs'[t] = obs[t], Phases'[t] = Phases[t], Snaps'[t] = Snaps[t], Tickets'[t] = Tickets[t]
  PROVE  UNCHANGED Abstract!vars
<1>1. Phases' = Phases /\ Snaps' = Snaps /\ Tickets' = Tickets /\ obs' = obs
  <2>1. /\ [Phases EXCEPT ![t] = Phases[t]] = Phases
        /\ [Snaps EXCEPT ![t] = Snaps[t]] = Snaps
        /\ [Tickets EXCEPT ![t] = Tickets[t]] = Tickets
    BY DEF Phases, Snaps, Tickets
  <2>2. [obs EXCEPT ![t] = obs[t]] = obs
    BY DEF TypeOK, HistTypes
  <2> QED
    BY <2>1, <2>2, MappedStep
<1> QED
  BY <1>1 DEF Abstract!vars, Phases, Snaps, Tickets

\* A step outside of transactions, and one inside that neither commits nor ends.
LEMMA OutsideStutter ==
  ASSUME TypeOK, TypeOK', NEW t \in Thread, OthersLeft(t), UNCHANGED <<clock, hist>>,
         obs'[t] = obs[t], pc[t] \in OutLabels, pc'[t] \in OutLabels
  PROVE  UNCHANGED Abstract!vars
<1>1. Phases'[t] = Phases[t] /\ Snaps'[t] = Snaps[t] /\ Tickets'[t] = Tickets[t]
  BY DEF Phases, PhaseOf, Snaps, Tickets, InTx
<1> QED
  BY <1>1, MappedStutter

LEMMA InsideStutter ==
  ASSUME TypeOK, TypeOK', NEW t \in Thread, OthersLeft(t), UNCHANGED <<clock, hist>>,
         obs'[t] = obs[t], snap'[t] = snap[t], ts'[t] = ts[t],
         pc[t] \notin OutLabels, pc'[t] \notin OutLabels,
         \/ ts[t] = 0
         \/ (pc[t] \in Publishing \cup {"end"}) /\ (pc'[t] \in Publishing \cup {"end"})
         \/ (pc[t] \notin Publishing \cup {"end"}) /\ (pc'[t] \notin Publishing \cup {"end"})
  PROVE  UNCHANGED Abstract!vars
<1>1. Phases'[t] = Phases[t] /\ Snaps'[t] = Snaps[t] /\ Tickets'[t] = Tickets[t]
  BY DEF Phases, PhaseOf, Snaps, Tickets, InTx, Publishing
<1> QED
  BY <1>1, MappedStutter

\* The steps the abstract memory does not see: calls, the search for a value and
\* its checks, validation, lock words, write-back.
LEMMA StutterSteps ==
  ASSUME RInv, TypeOK', NEW t \in Thread, OthersLeft(t),
         \/ AppStep(t) \/ TickDeliver(t) \/ stm_prepare_overflow(t)
         \/ (stm_prepare(t) /\ pc'[t] = "idle")
         \/ ReadLock(t) \/ ReadValue(t) \/ ReadLockChanged(t) \/ ReadTooNew(t)
         \/ (ReadRecheck(t) /\ locks[LockOf[arg[t].addr]] # l[t])
         \/ stm_write(t) \/ stm_extend(t) \/ (\E r \in todo[t] : stm_validate(t, r))
         \/ CommitAcquire(t) \/ CommitStore(t) \/ CommitRelease(t) \/ RollbackRelease(t)
         \/ UnitReadLockSame(t) \/ UnitReadReturn(t) \/ UnitLock(t) \/ UnitStore(t)
         \/ UnitRelease(t)
  PROVE  UNCHANGED Abstract!vars
<1>0. /\ TypeOK /\ TicketInv(t) /\ SnapInv(t) /\ ts[t] \in Nat
      /\ pc[t] \in {"app", "read_lock", "read_value", "read_lock2", "read_recheck", "write_lock",
                    "extend", "acquire"} => ts[t] = 0
  BY ReaderTypes DEF RInv, OInv, VInv, Inv, ThreadInv, TicketInv, Ticketed, Stamped, Publishing
<1> USE <1>0, Domains DEF At, Goto, EnterRollback, ReturnToApp, OutLabels, UnitStoring, Publishing,
       sharedVars, attrVars, snapVars, setVars, eaVars, histVars, localVars
<1>1. CASE AppStep(t) \/ TickDeliver(t)
  <2>1. /\ UNCHANGED <<clock, hist, obs, snap, ts>>
        /\ \/ pc[t] = "idle" /\ pc'[t] \in {"prepare", "unit_read_lock", "unit_lock"}
           \/ pc[t] = "app" /\ pc'[t] \in {"app", "read_lock", "write_lock", "extend", "acquire",
                                           "end", "rollback"}
    <3>1. CASE \E a \in Attr : stm_start(t, a)
      BY <3>1 DEF stm_start
    <3>2. CASE stm_start_nested(t) \/ stm_commit_nested(t) \/ stm_commit(t) \/ stm_abort(t)
               \/ stm_store_ro(t)
      BY <3>2 DEF stm_start_nested, stm_commit_nested, stm_commit, stm_abort, stm_store_ro
    <3>3. CASE \E a \in Loads[t] : stm_load_written(t, a) \/ stm_load(t, a) \/ stm_unit_load(t, a)
      BY <3>3 DEF stm_load_written, stm_load, stm_unit_load
    <3>4. CASE \E a, v, m : stm_store(t, a, v, m) \/ stm_unit_store(t, a, v, m)
      BY <3>4 DEF stm_store, stm_unit_store
    <3>5. CASE \E e \in BOOLEAN, b \in Bounds : stm_set_extension(t, e, b)
      BY <3>5 DEF stm_set_extension
    <3>6. CASE TickDeliver(t)
      BY <3>6 DEF TickDeliver
    <3> QED
      BY <1>1, <3>1, <3>2, <3>3, <3>4, <3>5, <3>6 DEF AppStep
  <2> QED
    BY <2>1, OutsideStutter, InsideStutter
<1>2. CASE stm_prepare_overflow(t) \/ (stm_prepare(t) /\ pc'[t] = "idle")
  <2>1. pc[t] = "prepare" /\ pc'[t] \in {"idle", "barrier"} /\ UNCHANGED <<clock, hist>>
        /\ (obs' = obs \/ obs'[t] = {})
    BY <1>2 DEF stm_prepare_overflow, stm_prepare
  <2>2. obs[t] = {}
    BY <2>1 DEF SnapInv, Active, Running, Committing
  <2> QED
    BY <2>1, <2>2, OutsideStutter
<1>3. CASE ReadLock(t) \/ ReadValue(t) \/ ReadLockChanged(t)
  <2>1. /\ UNCHANGED <<clock, hist, obs, snap, ts>>
        /\ \/ pc[t] \in {"read_lock", "read_value", "read_lock2"}
              /\ pc'[t] \in {"read_lock", "read_value", "read_lock2"}
           \/ pc[t] \in {"unit_read_lock", "unit_read_value", "unit_read_lock2"}
              /\ pc'[t] \in {"unit_read_lock", "unit_read_value", "unit_read_lock2"}
    BY <1>3 DEF ReadLock, ReadValue, ReadLockChanged
  <2> QED
    BY <2>1, OutsideStutter, InsideStutter
<1>4. CASE ReadTooNew(t) \/ (ReadRecheck(t) /\ locks[LockOf[arg[t].addr]] # l[t])
  <2>1. /\ UNCHANGED <<clock, hist, obs, snap, ts>> /\ pc[t] \in {"read_lock2", "read_recheck"}
        /\ pc'[t] \in {"extend", "rollback", "read_value"}
    BY <1>4 DEF ReadTooNew, ReadRecheck
  <2> QED
    BY <2>1, InsideStutter
<1>5. CASE stm_write(t) \/ stm_extend(t) \/ CommitAcquire(t)
  <2>1. /\ UNCHANGED <<clock, hist, obs, snap, ts>> /\ pc[t] \in {"write_lock", "extend", "acquire"}
        /\ pc'[t] \in {"app", "extend", "validate", "acquire", "rollback"}
    BY <1>5 DEF stm_write, stm_extend, CommitAcquire
  <2> QED
    BY <2>1, InsideStutter
<1>6. CASE (\E r \in todo[t] : stm_validate(t, r)) \/ RollbackRelease(t)
  <2>1. /\ UNCHANGED <<clock, hist, obs, snap, ts>> /\ pc[t] \in {"validate", "rollback"}
        /\ pc'[t] \in {"validate", "rollback"}
    BY <1>6 DEF stm_validate, RollbackRelease
  <2> QED
    BY <2>1, InsideStutter
<1>7. CASE CommitStore(t) \/ CommitRelease(t)
  <2>1. /\ UNCHANGED <<clock, hist, obs, snap, ts>> /\ pc[t] \in Publishing
        /\ pc'[t] \in Publishing \cup {"end"}
    BY <1>7 DEF CommitStore, CommitRelease, NextWriteBack
  <2> QED
    BY <2>1, InsideStutter
<1>8. CASE UnitReadLockSame(t) \/ UnitReadReturn(t) \/ UnitLock(t) \/ UnitStore(t) \/ UnitRelease(t)
  <2>1. /\ UNCHANGED <<clock, hist, obs>> /\ pc[t] \in OutLabels /\ pc'[t] \in OutLabels
    BY <1>8 DEF UnitReadLockSame, UnitReadReturn, UnitLock, UnitStore, UnitRelease
  <2> QED
    BY <2>1, OutsideStutter
<1> QED
  BY <1>1, <1>2, <1>3, <1>4, <1>5, <1>6, <1>7, <1>8

-----------------------------------------------------------------------------
(***************************************************************************)
(* The steps of the abstract memory                                        *)
(***************************************************************************)
\* Every transaction keeps the read set its extensions validate (StmCTLOpacity).
AllTracked == ~EarlyAbort \/ \A a \in Attr : ~a.read_only

\* Both specifications mean the same by the value of an address at a time.
LEMMA SameValue ==
  /\ \A a, s, w : Abstract!IsValueAt(hist, a, s, w) <=> IsValueAt(a, s, w)
  /\ \A a, s, w : Abstract!IsValueAt(hist', a, s, w) <=> IsValueAt(a, s, w)'
  BY DEF Abstract!IsValueAt, IsValueAt

\* What transactions have observed belongs to their snapshot, before and after.
LEMMA Observed ==
  ASSUME AllTracked
  PROVE  /\ OInv => \A u \in Thread : Abstract!Consistent(hist, obs[u], snap[u])
         /\ OInv' => \A u \in Thread : Abstract!Consistent(hist', obs'[u], snap'[u])
<1>1. OInv => Opacity
  BY DEF AllTracked, OInv, ThreadInv, SnapInv, ModeInv, Tracked, Settled, Opacity
<1>2. OInv' => Opacity'
  BY DEF AllTracked, OInv, ThreadInv, SnapInv, ModeInv, Tracked, Settled, Opacity
<1> QED
  BY <1>1, <1>2 DEF Opacity, Abstract!Consistent, Abstract!IsValueAt, IsValueAt

LEMMA BeginStep ==
  ASSUME RInv, TypeOK', NEW t \in Thread, OthersLeft(t), stm_prepare(t), pc'[t] = "app"
  PROVE  Abstract!Begin(t)
<1>0. TypeOK /\ TicketInv(t) /\ SnapInv(t) /\ ts[t] \in Nat
  BY ReaderTypes DEF RInv, OInv, VInv, Inv, ThreadInv
<1>1. /\ pc[t] = "prepare" /\ snap'[t] = clock /\ obs'[t] = {} /\ UNCHANGED <<clock, hist, ts>>
  BY <1>0, Domains DEF stm_prepare, At, sharedVars, localVars
<1>2. obs[t] = {} /\ ts[t] = 0
  BY <1>0, <1>1 DEF SnapInv, Active, Running, Committing, TicketInv, Ticketed, Stamped, Publishing
<1>3. /\ Phases[t] = "out" /\ Phases'[t] = "running" /\ Snaps'[t] = clock
      /\ Tickets[t] = 0 /\ Tickets'[t] = 0
  BY <1>1, <1>2 DEF Phases, PhaseOf, Snaps, Tickets, InTx, OutLabels, UnitStoring
<1>4. /\ Phases' = [Phases EXCEPT ![t] = "running"] /\ Snaps' = [Snaps EXCEPT ![t] = clock]
      /\ Tickets' = [Tickets EXCEPT ![t] = Tickets[t]] /\ obs' = [obs EXCEPT ![t] = obs[t]]
  BY <1>0, <1>1, <1>2, <1>3, MappedStep
<1>5. Tickets' = Tickets /\ obs' = obs
  BY <1>0, <1>4 DEF Tickets, TypeOK, HistTypes
<1> QED
  BY <1>1, <1>3, <1>4, <1>5 DEF Abstract!Begin, Phases, Snaps, Tickets

\* A load returns.
LEMMA ObserveStep ==
  ASSUME AllTracked, RInv, OInv', TypeOK', NEW t \in Thread, OthersLeft(t),
         \/ ReadLockSame(t)
         \/ ReadRecheck(t) /\ locks[LockOf[arg[t].addr]] = l[t]
  PROVE  Abstract!Observe(t)
<1>p. PICK a, w : a = arg[t].addr /\ w = value[t]
  OBVIOUS
<1>0. TypeOK /\ TicketInv(t) /\ ts[t] \in Nat /\ a \in Addr /\ w \in Word
  BY <1>p, ReaderTypes, LockOfArg DEF RInv, OInv, VInv, Inv, ThreadInv
<1>1. /\ pc[t] \in {"read_lock2", "read_recheck"} /\ pc'[t] \in {"app", "extend"}
      /\ UNCHANGED <<clock, hist, ts, snap>>
      /\ obs'[t] = obs[t] \cup {[addr |-> a, value |-> w]}
  BY <1>0, <1>p, Domains DEF ReadLockSame, ReadRecheck, AddToReadSet, ReturnToApp, At, Goto, sharedVars
<1>2. ts[t] = 0
  BY <1>0, <1>1 DEF TicketInv, Ticketed, Stamped, Publishing
<1>3. /\ Phases[t] = "running" /\ Phases'[t] = "running" /\ Snaps[t] = snap[t] /\ Snaps'[t] = snap[t]
      /\ Tickets[t] = 0 /\ Tickets'[t] = 0
  BY <1>1, <1>2 DEF Phases, PhaseOf, Snaps, Tickets, InTx, OutLabels, UnitStoring
<1>4. Phases' = Phases /\ Snaps' = Snaps /\ Tickets' = Tickets
  <2>1. /\ [Phases EXCEPT ![t] = Phases[t]] = Phases
        /\ [Snaps EXCEPT ![t] = Snaps[t]] = Snaps
        /\ [Tickets EXCEPT ![t] = Tickets[t]] = Tickets
    BY DEF Phases, Snaps, Tickets
  <2> QED
    BY <1>0, <1>3, <2>1, MappedStep
<1>5. obs' = [obs EXCEPT ![t] = obs[t] \cup {[addr |-> a, value |-> w]}]
  BY <1>0, <1>1, MappedStep
<1>6. Abstract!IsValueAt(hist, a, snap[t], w)
  <2>1. Abstract!Consistent(hist', obs'[t], snap'[t])
    BY Observed
  <2>2. PICK o : o = [addr |-> a, value |-> w]
    OBVIOUS
  <2>3. o \in obs'[t] /\ o.addr = a /\ o.value = w /\ hist' = hist /\ snap' = snap
    BY <1>1, <2>2
  <2>4. Abstract!IsValueAt(hist', o.addr, snap'[t], o.value)
    BY <2>1, <2>3 DEF Abstract!Consistent
  <2> QED
    BY <2>3, <2>4
<1> QED
  BY <1>0, <1>1, <1>3, <1>4, <1>5, <1>6 DEF Abstract!Observe, Phases, Snaps, Tickets

\* An extension is complete.
LEMMA ExtendMapped ==
  ASSUME AllTracked, RInv, OInv', TypeOK', NEW t \in Thread, OthersLeft(t), ExtendOk(t)
  PROVE  Abstract!Extend(t)
<1>p. PICK s : s = now[t]
  OBVIOUS
<1>0. /\ TypeOK /\ TicketInv(t) /\ ExtendInv(t) /\ ts[t] \in Nat /\ s \in Nat /\ snap[t] \in Nat
      /\ clock \in Nat
  BY <1>p, ReaderTypes DEF RInv, OInv, VInv, Inv, ThreadInv
<1>1. /\ pc[t] = "validate" /\ cont[t] # "commit" /\ pc'[t] \in {"app", "read_recheck"}
      /\ UNCHANGED <<clock, hist, ts, obs>> /\ snap'[t] = s
  BY <1>0, <1>p, Domains DEF ExtendOk, At, Goto, sharedVars
<1>2. ts[t] = 0 /\ s \in snap[t]..clock
  BY <1>0, <1>1, <1>p DEF TicketInv, Ticketed, Stamped, Publishing, ExtendInv, Extending
<1>3. /\ Phases[t] = "running" /\ Phases'[t] = "running" /\ Snaps[t] = snap[t] /\ Snaps'[t] = s
      /\ Tickets[t] = 0 /\ Tickets'[t] = 0
  BY <1>1, <1>2 DEF Phases, PhaseOf, Snaps, Tickets, InTx, OutLabels, UnitStoring
<1>4. Phases' = Phases /\ Tickets' = Tickets /\ Snaps' = [Snaps EXCEPT ![t] = s]
  <2>1. /\ [Phases EXCEPT ![t] = Phases[t]] = Phases
        /\ [Tickets EXCEPT ![t] = Tickets[t]] = Tickets
    BY DEF Phases, Tickets
  <2> QED
    BY <1>0, <1>3, <2>1, MappedStep
<1>5. Abstract!Consistent(hist, obs[t], s)
  <2>1. Abstract!Consistent(hist', obs'[t], snap'[t])
    BY Observed
  <2> QED
    BY <1>1, <2>1
<1> QED
  BY <1>1, <1>2, <1>3, <1>4, <1>5 DEF Abstract!Extend, Phases, Snaps, Tickets

\* A transaction has ended.
LEMMA FinishStep ==
  ASSUME RInv, TypeOK', NEW t \in Thread, OthersLeft(t), CommitEnd(t) \/ RollbackEnd(t)
  PROVE  Abstract!Finish(t)
<1>0. TypeOK
  BY DEF RInv, OInv, VInv, Inv
<1>1. /\ pc[t] \in {"end", "rollback"} /\ pc'[t] \in {"idle", "prepare"} /\ obs'[t] = {}
      /\ UNCHANGED <<clock, hist>>
  BY <1>0, Domains DEF CommitEnd, RollbackEnd, At, Goto, sharedVars
<1>2. Phases[t] # "out" /\ Phases'[t] = "out" /\ Snaps'[t] = 0 /\ Tickets'[t] = 0
  BY <1>1 DEF Phases, PhaseOf, Snaps, Tickets, InTx, OutLabels, UnitStoring
<1>3. /\ Phases' = [Phases EXCEPT ![t] = "out"] /\ Snaps' = [Snaps EXCEPT ![t] = 0]
      /\ Tickets' = [Tickets EXCEPT ![t] = 0] /\ obs' = [obs EXCEPT ![t] = {}]
  BY <1>0, <1>1, <1>2, MappedStep
<1> QED
  BY <1>1, <1>2, <1>3 DEF Abstract!Finish, Phases, Snaps, Tickets

\* A commit installs well-formed writes that are new to the history.
LEMMA Installs ==
  ASSUME VInv, NEW t \in Thread, NEW v \in Nat,
         (pc[t] = "acquire" /\ v > clock) \/ (Stamped(t) /\ v = ts[t])
  PROVE  /\ hist \cup Installed(t, v) # hist
         /\ \A h \in Installed(t, v) : h.ts = v /\ h.addr \in Addr /\ h.value \in Word
<1>0. /\ Inv /\ TypeOK /\ WriteSetInv(t) /\ Holds(t) /\ Owns(t) /\ clock \in Nat
      /\ \A k \in Lock : OwnedVersion(t, k)
      /\ HistoryInv /\ \A g \in hist : g.ts \in Nat
      /\ Len(w_set[t]) \in Nat /\ DOMAIN w_set[t] = 1..Len(w_set[t])
  BY HistoryTypes, WriteSetType DEF VInv, Inv, VersionInv
<1>1. \A h \in Installed(t, v) : h.ts = v /\ h.addr \in Addr /\ h.value \in Word
  <2>1. \A h \in Installed(t, v) : h.ts = v
    BY DEF Installed
  <2>2. \A h \in Installed(t, v) : h.addr \in Addr /\ h.value \in Word
    BY <1>0, InstalledType DEF CommittedWrite
  <2> QED
    BY <2>1, <2>2
<1>2. 1 \in DOMAIN w_set[t]
  BY <1>0 DEF WriteSetInv, Stamped
<1>3. PICK h \in Installed(t, v) : h.addr = w_set[t][1].addr
  <2>1. PICK h : h = [ts |-> v, addr |-> w_set[t][1].addr,
                      value |-> Merge(mem[w_set[t][1].addr], w_set[t][1].value, w_set[t][1].mask)]
    OBVIOUS
  <2>2. h \in Installed(t, v) /\ h.addr = w_set[t][1].addr
    BY <1>2, <2>1 DEF Installed
  <2> QED
    BY <2>2
<1>4. h \notin hist
  <2>1. CASE v > clock
    BY <1>0, <1>1, <1>3, <2>1 DEF HistoryInv
  <2>2. CASE Stamped(t) /\ v = ts[t]
    <3>1. PICK k : k = LockOf[h.addr]
      OBVIOUS
    <3>2. k \in Lock /\ locks[k].owner = t
      BY <1>0, <1>1, <1>2, <1>3, <2>2, <3>1, ConstantsAssumption DEF Holds, HoldsEntry
    <3>3. OldVersion(t, k) < ts[t] /\ Covers(k, OldVersion(t, k))
      BY <1>0, <2>2, <3>2 DEF OwnedVersion, Stamped, Publishing
    <3>4. OldVersion(t, k) \in Nat
      BY <1>0, <3>2, WriteSetType DEF Owns, OldVersion
    <3> QED
      BY <1>0, <1>1, <1>3, <2>2, <3>1, <3>3, <3>4 DEF Covers
  <2> QED
    BY <2>1, <2>2
<1> QED
  BY <1>1, <1>3, <1>4

\* New writes do not disturb what running transactions have observed.
LEMMA PublishMapped ==
  ASSUME AllTracked, OInv', NEW W, NEW s, UNCHANGED <<obs, snap>>, hist' = hist \cup W,
         \A h \in W : h.ts = s /\ h.addr \in Addr /\ h.value \in Word
  PROVE  Abstract!Publish(W, s)
<1>1. \A u \in Thread : Abstract!Consistent(hist \cup W, obs[u], snap[u])
  BY Observed
<1>2. \A u \in Thread : Phases[u] = "running" => Snaps[u] = snap[u]
  BY DEF Phases, PhaseOf, Snaps, InTx
<1> QED
  BY <1>1, <1>2 DEF Abstract!Publish, Phases, Snaps

\* The point of no return is the commit of the abstract memory.
LEMMA CommitMapped ==
  ASSUME AllTracked, RInv, OInv', TypeOK', NEW t \in Thread, OthersLeft(t),
         (CommitClock(t) /\ start[t] = clock) \/ CommitValid(t), NEW v, v = ts'[t]
  PROVE  Abstract!Commit(t, v)
<1>0. /\ TypeOK /\ VInv /\ TicketInv(t) /\ SnapInv(t) /\ CommitInv(t) /\ clock \in Nat
      /\ ts[t] \in Nat /\ snap[t] \in Nat /\ start[t] \in Nat
  BY ReaderTypes DEF RInv, OInv, VInv, Inv, ThreadInv
<1>1. /\ UNCHANGED <<obs, snap>> /\ pc[t] \in {"acquire", "validate"} /\ pc'[t] = "write_back"
      /\ hist' = hist \cup Installed(t, v) /\ v \in Nat /\ v > 0
      /\ \/ pc[t] = "acquire" /\ v = clock + 1 /\ start[t] = clock
         \/ Stamped(t) /\ v = ts[t] /\ todo[t] = {}
  <2>1. CASE CommitClock(t) /\ start[t] = clock
    BY <1>0, <2>1, Domains DEF CommitClock, At, Goto
  <2>2. CASE CommitValid(t)
    <3>1. /\ UNCHANGED <<obs, snap, ts>> /\ Stamped(t) /\ pc[t] = "validate" /\ pc'[t] = "write_back"
          /\ hist' = hist \cup Installed(t, ts[t]) /\ todo[t] = {}
      BY <1>0, <2>2, Domains DEF CommitValid, At, Goto, Stamped
    <3> QED
      BY <1>0, <3>1 DEF TicketInv, Ticketed
  <2> QED
    BY <2>1, <2>2
<1>2. Phases[t] = "running" /\ Phases'[t] = "committed"
  <2>1. pc[t] \notin OutLabels /\ pc'[t] \notin OutLabels /\ ts'[t] > 0
    BY <1>1 DEF OutLabels, UnitStoring
  <2> QED
    BY <1>1, <2>1 DEF Phases, PhaseOf
<1>3. Phases' = [Phases EXCEPT ![t] = "committed"]
  BY <1>0, <1>2, MappedStep
<1>4. Abstract!Consistent(hist, obs[t], v - 1)
  <2>1. CASE pc[t] = "acquire" /\ v = clock + 1 /\ start[t] = clock
    <3>1. snap[t] = v - 1
      BY <1>0, <2>1 DEF SnapInv, Active, Committing
    <3>2. Abstract!Consistent(hist, obs[t], snap[t])
      BY Observed DEF RInv
    <3> QED
      BY <3>1, <3>2
  <2>2. CASE Stamped(t) /\ v = ts[t] /\ todo[t] = {}
    BY <1>0, <2>2, SameValue DEF CommitInv, Settled, Abstract!Consistent
  <2> QED
    BY <1>1, <2>1, <2>2
<1>5. /\ hist' # hist
      /\ \A h \in Installed(t, v) : h.ts = v /\ h.addr \in Addr /\ h.value \in Word
  BY <1>0, <1>1, Installs
<1>6. Abstract!Publish(hist' \ hist, v)
  <2>1. /\ hist' = hist \cup (hist' \ hist)
        /\ \A h \in hist' \ hist : h.ts = v /\ h.addr \in Addr /\ h.value \in Word
    BY <1>1, <1>5
  <2> QED
    BY <1>1, <2>1, PublishMapped
<1>7. hist \subseteq hist'
  BY <1>1
<1> QED
  BY <1>2, <1>3, <1>4, <1>5, <1>6, <1>7 DEF Abstract!Commit, Phases

LEMMA CommitNowStep ==
  ASSUME AllTracked, RInv, OInv', TypeOK', NEW t \in Thread, OthersLeft(t), CommitClock(t),
         start[t] = clock
  PROVE  Abstract!CommitNow(t)
<1>0. TypeOK /\ TicketInv(t) /\ ts[t] \in Nat
  BY ReaderTypes DEF RInv, OInv, VInv, Inv
<1>1. /\ pc[t] = "acquire" /\ pc'[t] = "write_back" /\ clock' = clock + 1 /\ ts'[t] = clock + 1
      /\ UNCHANGED <<obs, snap>>
  BY <1>0, Domains DEF CommitClock, At, Goto
<1>2. ts[t] = 0
  BY <1>0, <1>1 DEF TicketInv, Ticketed, Stamped, Publishing
<1>3. /\ Phases[t] = "running" /\ Tickets[t] = 0 /\ Tickets'[t] = clock + 1
      /\ Snaps'[t] = Snaps[t]
  BY <1>1, <1>2 DEF Phases, PhaseOf, Snaps, Tickets, InTx, OutLabels, UnitStoring
<1>4. /\ Tickets' = [Tickets EXCEPT ![t] = clock + 1] /\ Snaps' = [Snaps EXCEPT ![t] = Snaps[t]]
  BY <1>0, <1>3, MappedStep
<1>5. Snaps' = Snaps
  BY <1>4 DEF Snaps
<1>6. Abstract!Commit(t, clock + 1)
  BY <1>1, CommitMapped
<1> QED
  BY <1>1, <1>3, <1>4, <1>5, <1>6 DEF Abstract!CommitNow, Abstract!TakeTicket, Phases, Snaps, Tickets

\* The timestamp is taken before the validation, or the validation is done.
LEMMA CommitLaterStep ==
  ASSUME AllTracked, RInv, OInv', TypeOK', NEW t \in Thread, OthersLeft(t),
         (CommitClock(t) /\ start[t] # clock) \/ CommitValid(t)
  PROVE  Abstract!CommitLater(t)
<1>0. TypeOK /\ TicketInv(t) /\ ts[t] \in Nat
  BY ReaderTypes DEF RInv, OInv, VInv, Inv
<1>1. CASE CommitClock(t) /\ start[t] # clock
  <2>1. /\ pc[t] = "acquire" /\ pc'[t] = "validate" /\ clock' = clock + 1 /\ ts'[t] = clock + 1
        /\ UNCHANGED <<obs, snap, hist>>
    BY <1>0, <1>1, Domains DEF CommitClock, At, Goto
  <2>2. ts[t] = 0
    BY <1>0, <2>1 DEF TicketInv, Ticketed, Stamped, Publishing
  <2>3. /\ Phases[t] = "running" /\ Phases'[t] = "running" /\ Tickets[t] = 0
        /\ Tickets'[t] = clock + 1 /\ Snaps'[t] = Snaps[t]
    BY <2>1, <2>2 DEF Phases, PhaseOf, Snaps, Tickets, InTx, OutLabels, UnitStoring
  <2>4. /\ Tickets' = [Tickets EXCEPT ![t] = clock + 1] /\ Snaps' = [Snaps EXCEPT ![t] = Snaps[t]]
        /\ Phases' = [Phases EXCEPT ![t] = Phases[t]]
    BY <1>0, <2>3, MappedStep
  <2>5. Snaps' = Snaps /\ Phases' = Phases
    BY <2>4 DEF Snaps, Phases
  <2> QED
    BY <2>1, <2>3, <2>4, <2>5 DEF Abstract!CommitLater, Abstract!TakeTicket, Phases, Snaps, Tickets
<1>2. CASE CommitValid(t)
  <2>1. /\ Stamped(t) /\ pc[t] = "validate" /\ pc'[t] = "write_back" /\ UNCHANGED <<clock, ts, obs, snap>>
    BY <1>0, <1>2, Domains DEF CommitValid, At, Goto, Stamped, sharedVars
  <2>2. ts[t] > 0 /\ ts'[t] = ts[t]
    BY <1>0, <2>1 DEF TicketInv, Ticketed
  <2>3. Tickets[t] = ts[t] /\ Tickets'[t] = Tickets[t] /\ Snaps'[t] = Snaps[t]
    BY <2>1 DEF Snaps, Tickets, InTx, OutLabels, UnitStoring
  <2>4. /\ Tickets' = [Tickets EXCEPT ![t] = Tickets[t]] /\ Snaps' = [Snaps EXCEPT ![t] = Snaps[t]]
    BY <1>0, <2>3, MappedStep
  <2>5. Snaps' = Snaps /\ Tickets' = Tickets
    BY <2>4 DEF Snaps, Tickets
  <2>6. Abstract!Commit(t, Tickets[t])
    BY <1>2, <2>2, <2>3, CommitMapped
  <2> QED
    BY <2>1, <2>2, <2>3, <2>5, <2>6 DEF Abstract!CommitLater, Snaps, Tickets
<1> QED
  BY <1>1, <1>2

\* A unit store takes its timestamp.
LEMMA UnitCommitStep ==
  ASSUME AllTracked, RInv, OInv', TypeOK', NEW t \in Thread, OthersLeft(t), UnitClock(t)
  PROVE  Abstract!UnitCommit(t)
<1>p. PICK a, w : a = arg[t].addr /\ w = arg[t].value
  OBVIOUS
<1>0. TypeOK /\ a \in Addr /\ w \in Word
  BY <1>p, LockOfArg DEF RInv, OInv, VInv, Inv
<1>1. /\ pc[t] = "unit_clock" /\ pc'[t] = "unit_release" /\ clock' = clock + 1
      /\ UNCHANGED <<obs, snap>>
      /\ hist' = hist \cup {[ts |-> clock + 1, addr |-> a, value |-> w]}
  BY <1>0, <1>p, Domains DEF UnitClock, At, Goto
<1>2. /\ Phases[t] = "out" /\ Phases'[t] = Phases[t] /\ Tickets'[t] = Tickets[t]
      /\ Snaps'[t] = Snaps[t]
  BY <1>1 DEF Phases, PhaseOf, Snaps, Tickets, InTx, OutLabels, UnitStoring
<1>3. Phases' = Phases /\ Snaps' = Snaps /\ Tickets' = Tickets
  <2>1. /\ [Phases EXCEPT ![t] = Phases[t]] = Phases
        /\ [Snaps EXCEPT ![t] = Snaps[t]] = Snaps
        /\ [Tickets EXCEPT ![t] = Tickets[t]] = Tickets
    BY DEF Phases, Snaps, Tickets
  <2> QED
    BY <1>0, <1>2, <2>1, MappedStep
<1>4. Abstract!Publish({[ts |-> clock + 1, addr |-> a, value |-> w]}, clock + 1)
  BY <1>0, <1>1, PublishMapped
<1> QED
  BY <1>0, <1>1, <1>2, <1>3, <1>4 DEF Abstract!UnitCommit, Phases, Snaps, Tickets

\* A rollover of the clock: everybody waits in the barrier, memory holds the last
\* committed values and they become the new history.
LEMMA EpochStep ==
  ASSUME RInv, rollover_clock
  PROVE  Abstract!NewEpoch
<1>0. TypeOK /\ VInv
  BY DEF RInv, OInv, VInv, Inv
<1>1. /\ \A u \in Thread : pc[u] = "barrier" /\ pc'[u] \in {"idle", "prepare"}
      /\ clock' = 0 /\ hist' = InitialHistory(mem) /\ UNCHANGED <<ts, obs, snap>>
  BY DEF rollover_clock, At, localVars
<1>2. \A u \in Thread : Phases[u] = "out"
  BY <1>1 DEF Phases, PhaseOf, OutLabels
<1>3. Phases' = Phases /\ Snaps' = Snaps /\ Tickets' = Tickets
  BY <1>1 DEF Phases, PhaseOf, Snaps, Tickets, InTx, OutLabels
<1>4. /\ \A h \in hist' : h.ts = 0 /\ h.addr \in Addr /\ h.value = mem[h.addr]
      /\ \A g, h \in hist' : g.addr = h.addr => g = h
      /\ \A a \in Addr : \E h \in hist' : h.addr = a
  BY <1>1, FreshHistory
<1>5. \A a \in Addr : mem[a] \in Word
  BY <1>0 DEF TypeOK, SharedTypes
<1>6. Abstract!Fresh(hist')
  BY <1>4, <1>5 DEF Abstract!Fresh
<1>7. ASSUME NEW a \in Addr PROVE Abstract!IsValueAt(hist, a, clock, mem[a])
  <2>1. Latest(a, mem[a])
    <3>1. \A u \in Thread : \A n \in DOMAIN w_set[u] : ~WritesBack(u, n, a)
      BY <1>1 DEF WritesBack, Publishing
    <3> QED
      BY <1>0, <1>1, <3>1 DEF VInv, MemoryInv
  <2> QED
    BY <1>0, <2>1 DEF Latest, Abstract!IsValueAt, VInv, VersionInv, HistoryInv
<1> QED
  BY <1>1, <1>2, <1>3, <1>4, <1>6, <1>7 DEF Abstract!NewEpoch, Phases, Snaps, Tickets

LEMMA InitMapped == Init => Abstract!Init
<1> SUFFICES ASSUME Init PROVE Abstract!Init
  OBVIOUS
<1>0. TypeOK
  BY InitInv DEF Inv
<1>1. /\ clock = 0 /\ obs = [u \in Thread |-> {}] /\ hist = InitialHistory(mem)
      /\ \A u \in Thread : pc[u] = "idle"
  BY DEF Init
<1>2. Abstract!Fresh(hist)
  <2>1. /\ \A h \in hist : h.ts = 0 /\ h.addr \in Addr /\ h.value = mem[h.addr]
        /\ \A g, h \in hist : g.addr = h.addr => g = h
        /\ \A a \in Addr : \E h \in hist : h.addr = a
    BY <1>1, FreshHistory
  <2>2. \A a \in Addr : mem[a] \in Word
    BY <1>0 DEF TypeOK, SharedTypes
  <2> QED
    BY <2>1, <2>2 DEF Abstract!Fresh
<1>3. /\ Phases = [u \in Thread |-> "out"] /\ Snaps = [u \in Thread |-> 0]
      /\ Tickets = [u \in Thread |-> 0]
  BY <1>1 DEF Phases, PhaseOf, Snaps, Tickets, InTx, OutLabels
<1> QED
  BY <1>1, <1>2, <1>3 DEF Abstract!Init, Phases, Snaps, Tickets

\* Every step maps to a step or to none.
LEMMA NextMapped ==
  ASSUME AllTracked
  PROVE  RInv /\ RInv' /\ [Next]_vars => [Abstract!Next]_(Abstract!vars)
<1> SUFFICES ASSUME RInv, RInv', [Next]_vars PROVE [Abstract!Next]_(Abstract!vars)
  OBVIOUS
<1>0. TypeOK /\ TypeOK' /\ OInv'
  BY DEF RInv, OInv, VInv, Inv
<1>1. ASSUME NEW t \in Thread, AppStep(t) \/ TickDeliver(t)
      PROVE  UNCHANGED Abstract!vars
  <2>1. OthersLeft(t)
    BY <1>0, <1>1, LocalCall DEF Tick
  <2> QED
    BY <1>0, <1>1, <2>1, StutterSteps
<1>2. ASSUME NEW t \in Thread, LibraryStep(t)
      PROVE  [Abstract!Next]_(Abstract!vars)
  <2>1. OthersLeft(t)
    BY <1>0, <1>2, LocalLibrary
  <2>2. CASE stm_prepare(t)
    <3>1. pc'[t] \in {"app", "idle"}
      BY <1>0, <2>2, Domains DEF stm_prepare, Goto
    <3> QED
      BY <1>0, <2>1, <2>2, <3>1, BeginStep, StutterSteps DEF Abstract!Next
  <2>3. CASE ReadLockSame(t) \/ (ReadRecheck(t) /\ locks[LockOf[arg[t].addr]] = l[t])
    BY <1>0, <2>1, <2>3, ObserveStep DEF Abstract!Next
  <2>4. CASE ExtendOk(t)
    BY <1>0, <2>1, <2>4, ExtendMapped DEF Abstract!Next
  <2>5. CASE CommitClock(t) \/ CommitValid(t)
    BY <1>0, <2>1, <2>5, CommitNowStep, CommitLaterStep DEF Abstract!Next
  <2>6. CASE CommitEnd(t) \/ RollbackEnd(t)
    BY <1>0, <2>1, <2>6, FinishStep DEF Abstract!Next
  <2>7. CASE UnitClock(t)
    BY <1>0, <2>1, <2>7, UnitCommitStep DEF Abstract!Next
  <2> QED
    BY <1>0, <1>2, <2>1, <2>2, <2>3, <2>4, <2>5, <2>6, <2>7, StutterSteps DEF LibraryStep
<1>3. ASSUME NEW t \in Thread, TickRecentlyValidated(t) \/ TickStanding(t)
      PROVE  UNCHANGED Abstract!vars
  BY <1>3 DEF TickRecentlyValidated, TickStanding, sharedVars, localVars, histVars, Abstract!vars,
     PhaseOf, InTx
<1>4. CASE UNCHANGED vars
  BY <1>4 DEF vars, Abstract!vars, PhaseOf, InTx
<1>5. CASE rollover_clock
  BY <1>5, EpochStep DEF Abstract!Next
<1> QED
  BY <1>1, <1>2, <1>3, <1>4, <1>5 DEF Next, Tick

\* Every behaviour of stm.c in its default design, with any number of threads,
\* addresses and locks, nesting, unit operations, aborts without retry and clock
\* rollovers, is a behaviour of the abstract transactional memory (with early abort:
\* as long as no transaction is declared read-only).
THEOREM StmImplementsOpaque ==
  ASSUME ~EarlyAbort \/ \A a \in Attr : ~a.read_only
  PROVE  Spec => Refinement
<1>1. AllTracked
  BY DEF AllTracked
<1>2. RInv /\ RInv' /\ [Next]_vars => [Abstract!Next]_(Abstract!vars)
  BY <1>1, NextMapped
<1> QED
  BY InitRInv, NextRInv, InitMapped, <1>2, PTL DEF Spec, Refinement, Abstract!Spec
=============================================================================
