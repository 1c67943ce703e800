------------------------------- MODULE StmCTL -------------------------------
(***************************************************************************)
(* The transactional core of tinySTM (src/tinySTM/src/stm.c) in its        *)
(* default build: DESIGN = WRITE_BACK_CTL (write-back, commit-time         *)
(* locking), CM = CM_SUICIDE, with the early-abort extension (EARLY_ABORT, *)
(* EA_EXTRATICK, EA_STUBBORN) switched on by the constant EarlyAbort.      *)
(*                                                                         *)
(* Every action is one access to shared memory (a lock word, a memory word *)
(* or the global clock) together with the thread-local code up to the next *)
(* access, so TLC interleaves threads exactly where the machine can.       *)
(***************************************************************************)
EXTENDS Naturals, FiniteSets, Sequences

CONSTANTS
  Thread,        \* registered transactional threads
  Addr,          \* addresses of memory words
  Lock,          \* entries of the lock array
  LockOf,        \* GET_LOCK: the lock that covers an address
  Byte,          \* parts of a word a store mask can select
  Value,         \* contents of one part
  InitValue,     \* contents of memory before the first transaction
  VERSION_MAX,   \* clock value at which transactions stop and roll over
  Attr,          \* stm_tx_attr_t records the application starts with
  Loads, Stores, \* addresses the application of each thread loads and stores
  StoreWords,    \* words the application of each thread stores
  Masks,         \* masks the application passes to stm_store/stm_store2
  UnitMasks,     \* masks of unit stores ({} : no unit operations)
  Bounds,        \* upper bounds passed to stm_set_extension
  EarlyAbort,    \* is EA_EXTRATICK compiled in?
  MaxNesting,    \* deepest flat nesting the application uses
  NoOwner,       \* owner of a lock word that holds a version
  UnitOwner      \* owner of a lock word that holds LOCK_UNIT

ASSUME ConstantsAssumption ==
  /\ Addr # {}
  /\ LockOf \in [Addr -> Lock]
  /\ InitValue \in Value
  /\ VERSION_MAX \in Nat \ {0}
  /\ Attr \subseteq [read_only: BOOLEAN, no_retry: BOOLEAN]
  /\ Loads \in [Thread -> SUBSET Addr]
  /\ Stores \in [Thread -> SUBSET Addr]
  /\ StoreWords \in [Thread -> SUBSET [Byte -> Value]]
  /\ Masks \subseteq SUBSET Byte
  /\ UnitMasks \subseteq SUBSET Byte
  /\ Bounds \subseteq Nat
  /\ EarlyAbort \in BOOLEAN
  /\ MaxNesting \in Nat \ {0}
  /\ NoOwner \notin Thread
  /\ UnitOwner \notin Thread
  /\ NoOwner # UnitOwner

VARIABLES
  clock, locks, mem,                  \* shared: CLOCK, locks[], memory
  pc,                                 \* where each thread is
  status, nesting, attr, ro,          \* stm_tx_t: status and attributes
  can_extend, start, end,             \* stm_tx_t: snapshot [start, end]
  r_set, w_set, nb_acquired,          \* stm_tx_t: read set and write set
  arg, l, value, i, todo, now, ts,    \* locals of the library call under way
  cont,                               \* what asked for the validation or prepare
  tx_on, standing, recently_validated,\* stm_control_buffer (early abort)
  hist, obs, snap                     \* history: see "Committed history"

sharedVars == <<clock, locks, mem>>
attrVars   == <<status, nesting, attr, ro>>
snapVars   == <<can_extend, start, end>>
setVars    == <<r_set, w_set, nb_acquired>>
localVars  == <<arg, l, value, i, todo, now, ts, cont>>
eaVars     == <<tx_on, standing, recently_validated>>
histVars   == <<hist, obs, snap>>
vars == <<clock, locks, mem, pc, status, nesting, attr, ro, can_extend, start,
          end, r_set, w_set, nb_acquired, arg, l, value, i, todo, now, ts, cont,
          tx_on, standing, recently_validated, hist, obs, snap>>

-----------------------------------------------------------------------------
(***************************************************************************)
(* Words, masks and lock words.                                            *)
(***************************************************************************)
Word == [Byte -> Value]

ZeroWord == [b \in Byte |-> InitValue]

\* (old & ~mask) | (new & mask)
Merge(old, new, mask) == [b \in Byte |-> IF b \in mask THEN new[b] ELSE old[b]]

\* A lock word holds a version (LOCK_SET_TIMESTAMP), the address of a write
\* set entry of its owner (LOCK_SET_ADDR_WRITE) or LOCK_UNIT.
LockWord == [owner: Thread \cup {NoOwner, UnitOwner}, n: Nat]

LOCK_SET_TIMESTAMP(v) == [owner |-> NoOwner, n |-> v]

LOCK_SET_ADDR_WRITE(t, k) == [owner |-> t, n |-> k]

LOCK_UNIT == [owner |-> UnitOwner, n |-> 0]

LOCK_GET_OWNED(w) == w.owner # NoOwner

ReadEntry == [lock: Lock, version: Nat]

WriteEntry == [addr: Addr, mask: SUBSET Byte, value: Word, version: Nat,
               no_drop: BOOLEAN]

\* The write set position of an address: the only element, if there is one.
Written(t, a) == {k \in DOMAIN w_set[t] : w_set[t][k].addr = a}

stm_has_read(t, k) == \E r \in r_set[t] : r.lock = k

\* The address, word and mask a call has been given.
Argument == [addr: Addr, value: Word, mask: SUBSET Byte]

NoArg == [addr |-> CHOOSE a \in Addr : TRUE, value |-> ZeroWord, mask |-> {}]

-----------------------------------------------------------------------------
(***************************************************************************)
(* Committed history.  Three history variables record what the code does   *)
(* and never guide it: hist is the set of committed writes with their      *)
(* commit timestamps (of the current clock epoch), obs[t] the values that  *)
(* loads from memory returned to the transaction of t, snap[t] the clock   *)
(* value at which stm_prepare or stm_extend last fixed its snapshot.       *)
(***************************************************************************)
CommittedWrite == [ts: Nat, addr: Addr, value: Word]

\* w is the value of a after every commit up to timestamp s.
IsValueAt(a, s, w) ==
  \E h \in hist :
    /\ h.addr = a /\ h.ts <= s /\ h.value = w
    /\ \A g \in hist : g.addr = a /\ g.ts <= s => g.ts <= h.ts

InitialHistory(m) == {[ts |-> 0, addr |-> a, value |-> m[a]] : a \in Addr}

\* The words the write set of t leaves in memory, at commit timestamp v.
Installed(t, v) ==
  {[ts |-> v, addr |-> w_set[t][k].addr,
    value |-> Merge(mem[w_set[t][k].addr], w_set[t][k].value, w_set[t][k].mask)]
     : k \in DOMAIN w_set[t]}

-----------------------------------------------------------------------------
Init ==
  /\ clock = 0
  /\ locks = [k \in Lock |-> LOCK_SET_TIMESTAMP(0)]
  /\ mem = [a \in Addr |-> ZeroWord]
  /\ pc = [t \in Thread |-> "idle"]
  /\ status = [t \in Thread |-> "IDLE"]
  /\ nesting = [t \in Thread |-> 0]
  /\ attr \in [Thread -> {[read_only |-> FALSE, no_retry |-> FALSE]}]
  /\ ro = [t \in Thread |-> FALSE]
  /\ can_extend = [t \in Thread |-> TRUE]
  /\ start = [t \in Thread |-> 0]
  /\ end = [t \in Thread |-> 0]
  /\ r_set = [t \in Thread |-> {}]
  /\ w_set = [t \in Thread |-> <<>>]
  /\ nb_acquired = [t \in Thread |-> 0]
  /\ arg = [t \in Thread |-> NoArg]
  /\ l = [t \in Thread |-> LOCK_SET_TIMESTAMP(0)]
  /\ value = [t \in Thread |-> ZeroWord]
  /\ i = [t \in Thread |-> 0]
  /\ todo = [t \in Thread |-> {}]
  /\ now = [t \in Thread |-> 0]
  /\ ts = [t \in Thread |-> 0]
  /\ cont = [t \in Thread |-> "start"]
  /\ tx_on = [t \in Thread |-> FALSE]
  /\ standing = [t \in Thread |-> FALSE]
  /\ recently_validated = [t \in Thread |-> FALSE]
  /\ hist = InitialHistory(mem)
  /\ obs = [t \in Thread |-> {}]
  /\ snap = [t \in Thread |-> 0]

At(t, label) == pc[t] = label

Goto(t, label) == pc' = [pc EXCEPT ![t] = label]

\* Every abort enters stm_rollback; the loop over acquired locks starts at the
\* end of the write set.
EnterRollback(t) ==
  /\ Goto(t, "rollback")
  /\ i' = [i EXCEPT ![t] = Len(w_set[t])]

-----------------------------------------------------------------------------
(***************************************************************************)
(* stm_start and stm_prepare                                               *)
(***************************************************************************)
stm_start(t, a) ==
  /\ At(t, "idle")
  /\ nesting' = [nesting EXCEPT ![t] = 1]
  /\ attr' = [attr EXCEPT ![t] = a]
  /\ ro' = [ro EXCEPT ![t] = a.read_only]
  /\ tx_on' = [tx_on EXCEPT ![t] = EarlyAbort]
  /\ cont' = [cont EXCEPT ![t] = "start"]
  /\ Goto(t, "prepare")
  /\ UNCHANGED <<sharedVars, status, snapVars, setVars, standing,
                 recently_validated, histVars, arg, l, value, i, todo, now, ts>>

\* Mutation: the overflow test is left out.
ClockNeverExhausted == FALSE

\* start >= VERSION_MAX: versions would no longer fit a lock word.
ClockExhausted == clock >= VERSION_MAX

\* A nested stm_start only counts (flat nesting).
stm_start_nested(t) ==
  /\ At(t, "app") /\ nesting[t] < MaxNesting
  /\ nesting' = [nesting EXCEPT ![t] = @ + 1]
  /\ UNCHANGED <<sharedVars, pc, status, attr, ro, snapVars, setVars, localVars,
                 eaVars, histVars>>

\* The clock has reached VERSION_MAX: wait in stm_quiesce_barrier.
stm_prepare_overflow(t) ==
  /\ At(t, "prepare") /\ ClockExhausted
  /\ Goto(t, "barrier")
  /\ UNCHANGED <<sharedVars, attrVars, snapVars, setVars, localVars, eaVars,
                 histVars>>

\* stm_rollback calls stm_prepare before it looks at no_retry: an abort without
\* retry leaves the transaction here, outside any transaction.
Restarts(t) == cont[t] = "abort" => ~attr[t].no_retry

stm_prepare(t) ==
  /\ At(t, "prepare") /\ ~ClockExhausted
  /\ start' = [start EXCEPT ![t] = clock]
  /\ end' = [end EXCEPT ![t] = clock]
  /\ snap' = [snap EXCEPT ![t] = clock]
  /\ can_extend' = [can_extend EXCEPT ![t] = TRUE]
  /\ r_set' = [r_set EXCEPT ![t] = {}]
  /\ w_set' = [w_set EXCEPT ![t] = <<>>]
  /\ nb_acquired' = [nb_acquired EXCEPT ![t] = 0]
  /\ obs' = [obs EXCEPT ![t] = {}]
  /\ status' = [status EXCEPT ![t] = "ACTIVE"]
  /\ standing' = [standing EXCEPT ![t] = FALSE]
  /\ recently_validated' = [recently_validated EXCEPT ![t] = FALSE]
  /\ nesting' = [nesting EXCEPT ![t] = IF Restarts(t) THEN @ ELSE 0]
  /\ tx_on' = [tx_on EXCEPT ![t] = Restarts(t) /\ EarlyAbort]
  /\ Goto(t, IF Restarts(t) THEN "app" ELSE "idle")
  /\ UNCHANGED <<sharedVars, attr, ro, hist, localVars>>

\* The last thread to reach stm_quiesce_barrier runs rollover_clock and lets
\* everybody go; a unit store returns, stm_prepare starts over.
rollover_clock ==
  /\ \A t \in Thread : At(t, "barrier")
  /\ clock' = 0
  /\ locks' = [k \in Lock |-> LOCK_SET_TIMESTAMP(0)]
  /\ hist' = InitialHistory(mem)
  /\ pc' = [t \in Thread |-> IF cont[t] = "unit" THEN "idle" ELSE "prepare"]
  /\ UNCHANGED <<mem, attrVars, snapVars, setVars, localVars, eaVars, obs, snap>>

-----------------------------------------------------------------------------
(***************************************************************************)
(* The end of stm_load and stm_write: a tick that arrived inside the       *)
(* library is handled now, as a revalidation with ticks masked.            *)
(***************************************************************************)
ReturnToApp(t) ==
  IF standing[t]
    THEN /\ Goto(t, "extend")
         /\ cont' = [cont EXCEPT ![t] = "standing"]
         /\ tx_on' = [tx_on EXCEPT ![t] = FALSE]
         /\ recently_validated' = [recently_validated EXCEPT ![t] = TRUE]
    ELSE /\ Goto(t, "app")
         /\ UNCHANGED <<cont, tx_on, recently_validated>>

(***************************************************************************)
(* stm_load: stm_read_invisible reads lock, value, lock.                   *)
(***************************************************************************)
\* The word was written completely by this transaction: no memory access.
stm_load_written(t, a) ==
  /\ At(t, "app")
  /\ \E k \in Written(t, a) : w_set[t][k].mask = Byte
  /\ ReturnToApp(t)
  /\ UNCHANGED <<sharedVars, attrVars, snapVars, setVars, standing, histVars,
                 arg, l, value, i, todo, now, ts>>

stm_load(t, a) ==
  /\ At(t, "app")
  /\ \A k \in Written(t, a) : w_set[t][k].mask # Byte
  /\ arg' = [arg EXCEPT ![t] = [NoArg EXCEPT !.addr = a]]
  /\ Goto(t, "read_lock")
  /\ UNCHANGED <<sharedVars, attrVars, snapVars, setVars, eaVars, histVars,
                 l, value, i, todo, now, ts, cont>>

\* Spins (is not enabled) while the lock is owned.
ReadLock(t) ==
  /\ pc[t] \in {"read_lock", "unit_read_lock"}
  /\ LET w == locks[LockOf[arg[t].addr]] IN
       /\ ~LOCK_GET_OWNED(w)
       /\ l' = [l EXCEPT ![t] = w]
  /\ Goto(t, IF At(t, "read_lock") THEN "read_value" ELSE "unit_read_value")
  /\ UNCHANGED <<sharedVars, attrVars, snapVars, setVars, eaVars, histVars,
                 arg, value, i, todo, now, ts, cont>>

ReadValue(t) ==
  /\ pc[t] \in {"read_value", "unit_read_value"}
  /\ value' = [value EXCEPT ![t] = mem[arg[t].addr]]
  /\ Goto(t, IF At(t, "read_value") THEN "read_lock2" ELSE "unit_read_lock2")
  /\ UNCHANGED <<sharedVars, attrVars, snapVars, setVars, eaVars, histVars,
                 arg, l, i, todo, now, ts, cont>>

\* A good version: remember it (update transactions only) and return.
AddToReadSet(t) ==
  /\ r_set' = [r_set EXCEPT ![t] =
       IF ro[t] THEN @
       ELSE @ \cup {[lock |-> LockOf[arg[t].addr], version |-> l[t].n]}]
  /\ obs' = [obs EXCEPT ![t] =
       @ \cup {[addr |-> arg[t].addr, value |-> value[t]]}]
  /\ arg' = [arg EXCEPT ![t] = NoArg]
  /\ l' = [l EXCEPT ![t] = LOCK_SET_TIMESTAMP(0)]
  /\ value' = [value EXCEPT ![t] = ZeroWord]

\* The lock changed under the read: take the new word, or spin if it is owned.
ReadLockChanged(t) ==
  /\ pc[t] \in {"read_lock2", "unit_read_lock2"}
  /\ LET w == locks[LockOf[arg[t].addr]]
         unit == At(t, "unit_read_lock2") IN
       /\ w # l[t]
       /\ IF LOCK_GET_OWNED(w)
            THEN /\ Goto(t, IF unit THEN "unit_read_lock" ELSE "read_lock")
                 /\ l' = [l EXCEPT ![t] = LOCK_SET_TIMESTAMP(0)]
            ELSE /\ Goto(t, IF unit THEN "unit_read_value" ELSE "read_value")
                 /\ l' = [l EXCEPT ![t] = w]
  /\ value' = [value EXCEPT ![t] = ZeroWord]
  /\ UNCHANGED <<sharedVars, attrVars, snapVars, setVars, eaVars, histVars,
                 arg, i, todo, now, ts, cont>>

\* Mutation: the lock word is not read again after the value.
ReadLockNotRead(t) ==
  /\ At(t, "read_lock2")
  /\ l[t].n <= end[t]
  /\ AddToReadSet(t)
  /\ ReturnToApp(t)
  /\ UNCHANGED <<sharedVars, attrVars, snapVars, w_set, nb_acquired, standing,
                 hist, snap, i, todo, now, ts>>

\* The word was the same before and after, and is in the snapshot.
ReadLockSame(t) ==
  /\ At(t, "read_lock2")
  /\ locks[LockOf[arg[t].addr]] = l[t]
  /\ l[t].n <= end[t]
  /\ AddToReadSet(t)
  /\ ReturnToApp(t)
  /\ UNCHANGED <<sharedVars, attrVars, snapVars, w_set, nb_acquired, standing,
                 hist, snap, i, todo, now, ts>>

\* Read-only transactions keep no read set and cannot extend.
MayExtend(t) == ~ro[t] /\ can_extend[t]

\* A version beyond the snapshot: extend it, or abort (STM_ABORT_VAL_READ).
ReadTooNew(t) ==
  /\ At(t, "read_lock2")
  /\ locks[LockOf[arg[t].addr]] = l[t]
  /\ l[t].n > end[t]
  /\ IF MayExtend(t)
       THEN /\ Goto(t, "extend")
            /\ cont' = [cont EXCEPT ![t] = "read"]
            /\ UNCHANGED i
       ELSE EnterRollback(t) /\ UNCHANGED cont
  /\ UNCHANGED <<sharedVars, attrVars, snapVars, setVars, eaVars, histVars,
                 arg, l, value, todo, now, ts>>

\* After the extension the word read must still be current.
ReadRecheck(t) ==
  /\ At(t, "read_recheck")
  /\ IF locks[LockOf[arg[t].addr]] = l[t]
       THEN AddToReadSet(t) /\ ReturnToApp(t)
       ELSE /\ Goto(t, "read_value")
            /\ value' = [value EXCEPT ![t] = ZeroWord]
            /\ UNCHANGED <<r_set, obs, arg, l, cont, tx_on, recently_validated>>
  /\ UNCHANGED <<sharedVars, attrVars, snapVars, w_set, nb_acquired, standing,
                 hist, snap, i, todo, now, ts>>

-----------------------------------------------------------------------------
(***************************************************************************)
(* stm_store and stm_store2: stm_write buffers the word.                   *)
(***************************************************************************)
\* A write of a read-only transaction aborts it (STM_ABORT_RO_WRITE).
stm_store_ro(t) ==
  /\ At(t, "app") /\ ro[t]
  /\ attr' = [attr EXCEPT ![t].read_only = FALSE]
  /\ EnterRollback(t)
  /\ UNCHANGED <<sharedVars, status, nesting, ro, snapVars, setVars, eaVars,
                 histVars, arg, l, value, todo, now, ts, cont>>

stm_store(t, a, v, m) ==
  /\ At(t, "app") /\ ~ro[t]
  /\ arg' = [arg EXCEPT ![t] = [addr |-> a, value |-> v, mask |-> m]]
  /\ Goto(t, "write_lock")
  /\ UNCHANGED <<sharedVars, attrVars, snapVars, setVars, eaVars, histVars,
                 l, value, i, todo, now, ts, cont>>

\* Too new a version, and extending is not allowed or cannot help.
WriteInvalid(t) ==
  LET w == locks[LockOf[arg[t].addr]] IN
    /\ Written(t, arg[t].addr) = {}
    /\ w.n > end[t]
    /\ ~can_extend[t] \/ stm_has_read(t, LockOf[arg[t].addr])

BufferWrite(t) ==
  LET a == arg[t].addr
      entry == [addr |-> a, mask |-> arg[t].mask, value |-> arg[t].value,
                version |-> locks[LockOf[a]].n, no_drop |-> TRUE] IN
    w_set' = [w_set EXCEPT ![t] =
      IF Written(t, a) = {}
        THEN Append(@, entry)
        ELSE [k \in DOMAIN w_set[t] |->
                IF k \in Written(t, a)
                  THEN [w_set[t][k] EXCEPT
                          !.value = Merge(@, arg[t].value, arg[t].mask),
                          !.mask = @ \cup arg[t].mask]
                  ELSE w_set[t][k]]]

\* Spins (is not enabled) while the lock is owned.
stm_write(t) ==
  /\ At(t, "write_lock")
  /\ ~LOCK_GET_OWNED(locks[LockOf[arg[t].addr]])
  /\ IF WriteInvalid(t)
       THEN /\ EnterRollback(t)
            /\ UNCHANGED <<w_set, cont, tx_on, recently_validated>>
       ELSE /\ BufferWrite(t)
            /\ ReturnToApp(t)
            /\ UNCHANGED i
  /\ arg' = [arg EXCEPT ![t] = NoArg]
  /\ UNCHANGED <<sharedVars, attrVars, snapVars, r_set, nb_acquired, standing,
                 histVars, l, value, todo, now, ts>>

-----------------------------------------------------------------------------
(***************************************************************************)
(* stm_extend and stm_validate                                             *)
(***************************************************************************)
\* stm_extend reads the clock; past VERSION_MAX it fails.
stm_extend(t) ==
  /\ At(t, "extend")
  /\ recently_validated' =
       [recently_validated EXCEPT ![t] = @ \/ tx_on[t]]
  /\ IF ClockExhausted
       THEN EnterRollback(t) /\ UNCHANGED <<now, todo>>
       ELSE /\ Goto(t, "validate")
            /\ now' = [now EXCEPT ![t] = clock]
            /\ todo' = [todo EXCEPT ![t] = r_set[t]]
            /\ UNCHANGED i
  /\ UNCHANGED <<sharedVars, attrVars, snapVars, setVars, tx_on, standing,
                 histVars, arg, l, value, ts, cont>>

\* Mutation: a lock somebody owns is taken for unchanged.
ValidEntryIfOwned(t, r) ==
  LET w == locks[r.lock] IN LOCK_GET_OWNED(w) \/ w.n = r.version

\* A read entry is valid if its lock is free at the same version, or is ours
\* and had that version when stm_commit acquired it.
ValidEntry(t, r) ==
  LET w == locks[r.lock] IN
    IF LOCK_GET_OWNED(w)
      THEN w.owner = t /\ w_set[t][w.n].version = r.version
      ELSE w.n = r.version

stm_validate(t, r) ==
  /\ At(t, "validate")
  /\ r \in todo[t]
  /\ IF ValidEntry(t, r)
       THEN todo' = [todo EXCEPT ![t] = @ \ {r}] /\ UNCHANGED <<pc, i>>
       ELSE EnterRollback(t) /\ todo' = [todo EXCEPT ![t] = {}]
  /\ UNCHANGED <<sharedVars, attrVars, snapVars, setVars, eaVars, histVars,
                 arg, l, value, now, ts, cont>>

\* Every entry passed: stm_extend moves the end of the snapshot and returns to
\* the load, to the interrupted code, or to the end of stm_load or stm_write.
ExtendOk(t) ==
  /\ At(t, "validate") /\ todo[t] = {} /\ cont[t] # "commit"
  /\ end' = [end EXCEPT ![t] = now[t]]
  /\ snap' = [snap EXCEPT ![t] = now[t]]
  /\ standing' = [standing EXCEPT ![t] = FALSE]
  /\ tx_on' = [tx_on EXCEPT ![t] = EarlyAbort]
  /\ now' = [now EXCEPT ![t] = 0]
  /\ Goto(t, IF cont[t] = "read" THEN "read_recheck" ELSE "app")
  /\ UNCHANGED <<sharedVars, attrVars, can_extend, start, setVars,
                 recently_validated, hist, obs, arg, l, value, i, todo, ts, cont>>

-----------------------------------------------------------------------------
(***************************************************************************)
(* stm_commit                                                              *)
(***************************************************************************)
\* Mutation: the nesting level is decremented without being tested.
CommitAnyNesting(t) ==
  /\ At(t, "app")
  /\ nesting' = [nesting EXCEPT ![t] = @ - 1]
  /\ UNCHANGED <<sharedVars, pc, status, attr, ro, snapVars, setVars, localVars,
                 eaVars, histVars>>

\* The end of a nested transaction only counts.
stm_commit_nested(t) ==
  /\ At(t, "app") /\ nesting[t] > 1
  /\ nesting' = [nesting EXCEPT ![t] = @ - 1]
  /\ UNCHANGED <<sharedVars, pc, status, attr, ro, snapVars, setVars, localVars,
                 eaVars, histVars>>

\* Without writes the transaction ends at once.
stm_commit(t) ==
  /\ At(t, "app") /\ nesting[t] = 1
  /\ nesting' = [nesting EXCEPT ![t] = 0]
  /\ i' = [i EXCEPT ![t] = Len(w_set[t])]
  /\ Goto(t, IF w_set[t] = <<>> THEN "end" ELSE "acquire")
  /\ UNCHANGED <<sharedVars, status, attr, ro, snapVars, setVars, eaVars,
                 histVars, arg, l, value, todo, now, ts, cont>>

\* Mutation: no_drop is not reset, nobody releases the lock.
AcquireKeepsNoDrop(t, k) ==
  /\ locks' = [locks EXCEPT ![k] = LOCK_SET_ADDR_WRITE(t, i[t])]
  /\ w_set' = [w_set EXCEPT ![t][i[t]].version = locks[k].n]
  /\ nb_acquired' = [nb_acquired EXCEPT ![t] = @ + 1]

\* The current entry owns lock k, and knows the version it found there.
Acquire(t, k) ==
  /\ locks' = [locks EXCEPT ![k] = LOCK_SET_ADDR_WRITE(t, i[t])]
  /\ w_set' = [w_set EXCEPT ![t][i[t]].no_drop = FALSE,
                            ![t][i[t]].version = locks[k].n]
  /\ nb_acquired' = [nb_acquired EXCEPT ![t] = @ + 1]

\* Locks are acquired from the last write set entry to the first.  A lock that
\* is ours already covers an earlier entry; somebody else's aborts us.
CommitAcquire(t) ==
  LET w == w_set[t][i[t]]
      k == LockOf[w.addr] IN
    /\ At(t, "acquire") /\ i[t] > 0
    /\ \/ /\ ~LOCK_GET_OWNED(locks[k])
          /\ Acquire(t, k)
          /\ i' = [i EXCEPT ![t] = @ - 1]
          /\ UNCHANGED pc
       \/ /\ locks[k].owner = t
          /\ i' = [i EXCEPT ![t] = @ - 1]
          /\ UNCHANGED <<pc, locks, w_set, nb_acquired>>
       \/ /\ LOCK_GET_OWNED(locks[k]) /\ locks[k].owner # t
          /\ EnterRollback(t)
          /\ UNCHANGED <<locks, w_set, nb_acquired>>
    /\ UNCHANGED <<clock, mem, attrVars, snapVars, r_set, eaVars, histVars,
                   arg, l, value, todo, now, ts, cont>>

\* FETCH_INC_CLOCK; validate unless nobody committed since start.
CommitClock(t) ==
  /\ At(t, "acquire") /\ i[t] = 0
  /\ clock' = clock + 1
  /\ ts' = [ts EXCEPT ![t] = clock + 1]
  /\ IF start[t] = clock
       THEN /\ Goto(t, "write_back")
            /\ i' = [i EXCEPT ![t] = 1]
            /\ hist' = hist \cup Installed(t, clock + 1)
            /\ UNCHANGED <<todo, cont>>
       ELSE /\ Goto(t, "validate")
            /\ todo' = [todo EXCEPT ![t] = r_set[t]]
            /\ cont' = [cont EXCEPT ![t] = "commit"]
            /\ UNCHANGED <<i, hist>>
  /\ UNCHANGED <<locks, mem, attrVars, snapVars, setVars, eaVars, obs, snap,
                 arg, l, value, now>>

CommitValid(t) ==
  /\ At(t, "validate") /\ todo[t] = {} /\ cont[t] = "commit"
  /\ Goto(t, "write_back")
  /\ i' = [i EXCEPT ![t] = 1]
  /\ hist' = hist \cup Installed(t, ts[t])
  /\ UNCHANGED <<sharedVars, attrVars, snapVars, setVars, eaVars, obs, snap,
                 arg, l, value, todo, now, ts, cont>>

\* Install the new values from the first entry to the last; the entry that
\* acquired a lock drops it after its own value is in memory.
NextWriteBack(t) ==
  IF i[t] < Len(w_set[t])
    THEN Goto(t, "write_back") /\ i' = [i EXCEPT ![t] = @ + 1]
    ELSE Goto(t, "end") /\ i' = [i EXCEPT ![t] = 0]

\* Mutation: the mask of the entry is ignored.
StoreWholeWord(t, w) == mem' = [mem EXCEPT ![w.addr] = w.value]

StoreEntry(t, w) == mem' = [mem EXCEPT ![w.addr] = Merge(@, w.value, w.mask)]

CommitStore(t) ==
  LET w == w_set[t][i[t]] IN
    /\ At(t, "write_back")
    /\ StoreEntry(t, w)
    /\ IF w.no_drop THEN NextWriteBack(t)
                    ELSE Goto(t, "release") /\ UNCHANGED i
    /\ UNCHANGED <<clock, locks, attrVars, snapVars, setVars, eaVars, histVars,
                   arg, l, value, todo, now, ts, cont>>

\* Mutation: the lock gets its old version back.
CommitReleaseOldVersion(t) ==
  /\ At(t, "release")
  /\ locks' = [locks EXCEPT ![LockOf[w_set[t][i[t]].addr]] =
                 LOCK_SET_TIMESTAMP(w_set[t][i[t]].version)]
  /\ NextWriteBack(t)
  /\ UNCHANGED <<clock, mem, attrVars, snapVars, setVars, eaVars, histVars,
                 arg, l, value, todo, now, ts, cont>>

\* The commit timestamp becomes the version of the lock.
CommitRelease(t) ==
  /\ At(t, "release")
  /\ locks' = [locks EXCEPT ![LockOf[w_set[t][i[t]].addr]] =
                 LOCK_SET_TIMESTAMP(ts[t])]
  /\ NextWriteBack(t)
  /\ UNCHANGED <<clock, mem, attrVars, snapVars, setVars, eaVars, histVars,
                 arg, l, value, todo, now, ts, cont>>

CommitEnd(t) ==
  /\ At(t, "end")
  /\ status' = [status EXCEPT ![t] = "COMMITTED"]
  /\ tx_on' = [tx_on EXCEPT ![t] = FALSE]
  /\ ts' = [ts EXCEPT ![t] = 0]
  /\ obs' = [obs EXCEPT ![t] = {}]
  /\ Goto(t, "idle")
  /\ UNCHANGED <<sharedVars, nesting, attr, ro, snapVars, setVars, standing,
                 recently_validated, hist, snap, arg, l, value, i, todo, now,
                 cont>>

-----------------------------------------------------------------------------
(***************************************************************************)
(* stm_abort, stm_rollback and stm_set_extension                           *)
(***************************************************************************)
\* An explicit abort, or a fault caught by signal_catcher.
stm_abort(t) ==
  /\ At(t, "app")
  /\ EnterRollback(t)
  /\ UNCHANGED <<sharedVars, attrVars, snapVars, setVars, eaVars, histVars,
                 arg, l, value, todo, now, ts, cont>>

\* Release the acquired locks at their old version, from the last entry back.
RollbackRelease(t) ==
  LET w == w_set[t][i[t]] IN
    /\ At(t, "rollback") /\ nb_acquired[t] > 0
    /\ i' = [i EXCEPT ![t] = @ - 1]
    /\ IF w.no_drop
         THEN UNCHANGED <<locks, nb_acquired>>
         ELSE /\ locks' = [locks EXCEPT ![LockOf[w.addr]] =
                             LOCK_SET_TIMESTAMP(w.version)]
              /\ nb_acquired' = [nb_acquired EXCEPT ![t] = @ - 1]
    /\ UNCHANGED <<clock, mem, pc, attrVars, snapVars, r_set, w_set, eaVars,
                   histVars, arg, l, value, todo, now, ts, cont>>

\* No lock is left: the transaction has aborted and is prepared again.
RollbackEnd(t) ==
  /\ At(t, "rollback") /\ nb_acquired[t] = 0
  /\ status' = [status EXCEPT ![t] = "ABORTED"]
  /\ nesting' = [nesting EXCEPT ![t] = 1]
  /\ cont' = [cont EXCEPT ![t] = "abort"]
  /\ obs' = [obs EXCEPT ![t] = {}]
  /\ arg' = [arg EXCEPT ![t] = NoArg]
  /\ l' = [l EXCEPT ![t] = LOCK_SET_TIMESTAMP(0)]
  /\ value' = [value EXCEPT ![t] = ZeroWord]
  /\ i' = [i EXCEPT ![t] = 0]
  /\ now' = [now EXCEPT ![t] = 0]
  /\ ts' = [ts EXCEPT ![t] = 0]
  /\ Goto(t, "prepare")
  /\ UNCHANGED <<sharedVars, attr, ro, snapVars, setVars, eaVars, hist, snap,
                 todo>>

\* A bound of the snapshot, and whether it may be extended later.
stm_set_extension(t, enable, b) ==
  /\ At(t, "app")
  /\ can_extend' = [can_extend EXCEPT ![t] = enable]
  /\ end' = [end EXCEPT ![t] = IF b < @ THEN b ELSE @]
  /\ UNCHANGED <<sharedVars, pc, attrVars, start, setVars, localVars, eaVars,
                 histVars>>

-----------------------------------------------------------------------------
(***************************************************************************)
(* Unit transactions: stm_unit_load, stm_unit_store, stm_unit_store2.      *)
(***************************************************************************)
stm_unit_load(t, a) ==
  /\ At(t, "idle") /\ UnitMasks # {}
  /\ arg' = [arg EXCEPT ![t] = [NoArg EXCEPT !.addr = a]]
  /\ Goto(t, "unit_read_lock")
  /\ UNCHANGED <<sharedVars, attrVars, snapVars, setVars, eaVars, histVars,
                 l, value, i, todo, now, ts, cont>>

\* Mutation: the lock word is not read again after the value.
UnitReadLockNotRead(t) ==
  /\ At(t, "unit_read_lock2")
  /\ Goto(t, "unit_read_return")
  /\ UNCHANGED <<sharedVars, attrVars, snapVars, setVars, eaVars, histVars,
                 localVars>>

UnitReadLockSame(t) ==
  /\ At(t, "unit_read_lock2")
  /\ locks[LockOf[arg[t].addr]] = l[t]
  /\ Goto(t, "unit_read_return")
  /\ UNCHANGED <<sharedVars, attrVars, snapVars, setVars, eaVars, histVars,
                 localVars>>

\* The word and its timestamp are returned to the caller.
UnitReadReturn(t) ==
  /\ At(t, "unit_read_return")
  /\ arg' = [arg EXCEPT ![t] = NoArg]
  /\ l' = [l EXCEPT ![t] = LOCK_SET_TIMESTAMP(0)]
  /\ value' = [value EXCEPT ![t] = ZeroWord]
  /\ Goto(t, "idle")
  /\ UNCHANGED <<sharedVars, attrVars, snapVars, setVars, eaVars, histVars,
                 i, todo, now, ts, cont>>

stm_unit_store(t, a, v, m) ==
  /\ At(t, "idle")
  /\ arg' = [arg EXCEPT ![t] = [addr |-> a, value |-> v, mask |-> m]]
  /\ Goto(t, "unit_lock")
  /\ UNCHANGED <<sharedVars, attrVars, snapVars, setVars, eaVars, histVars,
                 l, value, i, todo, now, ts, cont>>

\* Spins while the lock is owned; a caller's timestamp older than the word's
\* makes the store give up (the disjunct that returns to "idle").
UnitLock(t) ==
  LET k == LockOf[arg[t].addr] IN
    /\ At(t, "unit_lock")
    /\ ~LOCK_GET_OWNED(locks[k])
    /\ \/ /\ locks' = [locks EXCEPT ![k] = LOCK_UNIT]
          /\ Goto(t, "unit_store")
          /\ UNCHANGED arg
       \/ /\ locks[k].n > 0
          /\ Goto(t, "idle")
          /\ arg' = [arg EXCEPT ![t] = NoArg]
          /\ UNCHANGED locks
    /\ UNCHANGED <<clock, mem, attrVars, snapVars, setVars, eaVars, histVars,
                   l, value, i, todo, now, ts, cont>>

\* stm_unit_write stores the whole word, whatever the mask.
UnitStore(t) ==
  /\ At(t, "unit_store")
  /\ mem' = [mem EXCEPT ![arg[t].addr] = arg[t].value]
  /\ Goto(t, "unit_clock")
  /\ UNCHANGED <<clock, locks, attrVars, snapVars, setVars, eaVars, histVars,
                 localVars>>

UnitClock(t) ==
  /\ At(t, "unit_clock")
  /\ clock' = clock + 1
  /\ ts' = [ts EXCEPT ![t] = clock + 1]
  /\ hist' = hist \cup {[ts |-> clock + 1, addr |-> arg[t].addr,
                         value |-> arg[t].value]}
  /\ Goto(t, "unit_release")
  /\ UNCHANGED <<locks, mem, attrVars, snapVars, setVars, eaVars, obs, snap,
                 arg, l, value, i, todo, now, cont>>

UnitReleaseVersion(t) == ts[t]

UnitRelease(t) ==
  /\ At(t, "unit_release")
  /\ locks' = [locks EXCEPT ![LockOf[arg[t].addr]] =
                 LOCK_SET_TIMESTAMP(UnitReleaseVersion(t))]
  /\ arg' = [arg EXCEPT ![t] = NoArg]
  /\ ts' = [ts EXCEPT ![t] = 0]
  /\ IF ts[t] >= VERSION_MAX
       THEN Goto(t, "barrier") /\ cont' = [cont EXCEPT ![t] = "unit"]
       ELSE Goto(t, "idle") /\ UNCHANGED cont
  /\ UNCHANGED <<clock, mem, attrVars, snapVars, setVars, eaVars, histVars,
                 l, value, i, todo, now>>

-----------------------------------------------------------------------------
(***************************************************************************)
(* Extra ticks (my_smp_apic_timer_interrupt in MODE_STUBBORN).  The kernel *)
(* module acts on a tick only if the thread is in transactional mode, has  *)
(* not been validated since the last tick and its snapshot is behind.      *)
(***************************************************************************)
TickRecentlyValidated(t) ==
  /\ tx_on[t] /\ recently_validated[t]
  /\ recently_validated' = [recently_validated EXCEPT ![t] = FALSE]
  /\ UNCHANGED <<sharedVars, pc, attrVars, snapVars, setVars, localVars, tx_on,
                 standing, histVars>>

\* Mutation: the snapshot is compared with the clock the wrong way round.
TickDueAhead(t) == tx_on[t] /\ ~recently_validated[t] /\ end[t] > clock

\* The test of the interrupt handler: the clock has moved past the snapshot.
TickDue(t) == tx_on[t] /\ ~recently_validated[t] /\ end[t] < clock

\* Inside the delivery section (application code): stm_revalidate runs.
TickDeliver(t) ==
  /\ TickDue(t) /\ At(t, "app")
  /\ tx_on' = [tx_on EXCEPT ![t] = FALSE]
  /\ cont' = [cont EXCEPT ![t] = "tick"]
  /\ Goto(t, "extend")
  /\ UNCHANGED <<sharedVars, attrVars, snapVars, setVars, standing,
                 recently_validated, histVars, arg, l, value, i, todo, now, ts>>

\* Outside of it (the library, or a function it calls): leave it standing.
TickStanding(t) ==
  /\ TickDue(t) /\ ~standing[t]
  /\ standing' = [standing EXCEPT ![t] = TRUE]
  /\ UNCHANGED <<sharedVars, pc, attrVars, snapVars, setVars, localVars, tx_on,
                 recently_validated, histVars>>

-----------------------------------------------------------------------------
\* The steps a thread takes inside the library, once a call is made.
LibraryStep(t) ==
  \/ stm_prepare(t) \/ stm_prepare_overflow(t)
  \/ ReadLock(t) \/ ReadValue(t) \/ ReadLockChanged(t) \/ ReadLockSame(t)
  \/ ReadTooNew(t) \/ ReadRecheck(t)
  \/ stm_write(t)
  \/ stm_extend(t) \/ (\E r \in todo[t] : stm_validate(t, r)) \/ ExtendOk(t)
  \/ CommitAcquire(t) \/ CommitClock(t) \/ CommitValid(t)
  \/ CommitStore(t) \/ CommitRelease(t) \/ CommitEnd(t)
  \/ RollbackRelease(t) \/ RollbackEnd(t)
  \/ UnitReadLockSame(t) \/ UnitReadReturn(t)
  \/ UnitLock(t) \/ UnitStore(t) \/ UnitClock(t) \/ UnitRelease(t)

\* The calls the application makes.
AppStep(t) ==
  \/ \E a \in Attr : stm_start(t, a)
  \/ stm_start_nested(t)
  \/ \E a \in Loads[t] : stm_load_written(t, a) \/ stm_load(t, a)
  \/ stm_store_ro(t)
  \/ \E a \in Stores[t], v \in StoreWords[t], m \in Masks : stm_store(t, a, v, m)
  \/ stm_commit_nested(t) \/ stm_commit(t) \/ stm_abort(t)
  \/ \E e \in BOOLEAN, b \in Bounds : stm_set_extension(t, e, b)
  \/ \E a \in Loads[t] : stm_unit_load(t, a)
  \/ \E a \in Stores[t], v \in StoreWords[t], m \in UnitMasks : stm_unit_store(t, a, v, m)

Tick(t) == TickRecentlyValidated(t) \/ TickDeliver(t) \/ TickStanding(t)

Next ==
  \/ \E t \in Thread : AppStep(t) \/ LibraryStep(t) \/ Tick(t)
  \/ rollover_clock

Spec == Init /\ [][Next]_vars

-----------------------------------------------------------------------------
(***************************************************************************)
(* Properties                                                              *)
(***************************************************************************)
Labels == {"idle", "prepare", "barrier", "app", "read_lock", "read_value",
           "read_lock2", "read_recheck", "write_lock", "extend", "validate",
           "acquire", "write_back", "release", "end", "rollback",
           "unit_read_lock", "unit_read_value", "unit_read_lock2",
           "unit_read_return", "unit_lock", "unit_store", "unit_clock",
           "unit_release"}

SharedTypes ==
  /\ clock \in Nat
  /\ locks \in [Lock -> LockWord]
  /\ mem \in [Addr -> Word]

AttrTypes ==
  /\ status \in [Thread -> {"IDLE", "ACTIVE", "COMMITTED", "ABORTED"}]
  /\ nesting \in [Thread -> Nat]
  /\ attr \in [Thread -> [read_only: BOOLEAN, no_retry: BOOLEAN]]
  /\ ro \in [Thread -> BOOLEAN]

SnapTypes ==
  /\ can_extend \in [Thread -> BOOLEAN]
  /\ start \in [Thread -> Nat]
  /\ end \in [Thread -> Nat]

SetTypes ==
  /\ r_set \in [Thread -> SUBSET ReadEntry]
  /\ w_set \in [Thread -> Seq(WriteEntry)]
  /\ nb_acquired \in [Thread -> Nat]

LocalTypes ==
  /\ arg \in [Thread -> Argument]
  /\ l \in [Thread -> LockWord]
  /\ value \in [Thread -> Word]
  /\ i \in [Thread -> Nat]
  /\ todo \in [Thread -> SUBSET ReadEntry]
  /\ now \in [Thread -> Nat]
  /\ ts \in [Thread -> Nat]
  /\ cont \in [Thread -> {"start", "read", "commit", "tick", "standing",
                          "abort", "unit"}]

EaTypes ==
  /\ tx_on \in [Thread -> BOOLEAN]
  /\ standing \in [Thread -> BOOLEAN]
  /\ recently_validated \in [Thread -> BOOLEAN]

HistTypes ==
  /\ hist \subseteq CommittedWrite
  /\ obs \in [Thread -> SUBSET [addr: Addr, value: Word]]
  /\ snap \in [Thread -> Nat]

\* Types of the state of stm.c: shared words, descriptors, locals, history.
TypeOK ==
  /\ pc \in [Thread -> Labels]
  /\ SharedTypes /\ AttrTypes /\ SnapTypes /\ SetTypes /\ LocalTypes
  /\ EaTypes /\ HistTypes

\* Opacity: the values stm_load returned to a running transaction all belong to
\* one committed state of memory, the one at its snapshot, even if it aborts.
Opacity ==
  \A t \in Thread : \A o \in obs[t] : IsValueAt(o.addr, snap[t], o.value)

\* Serializability: a transaction that stm_commit lets write back has read the
\* committed state just before its own timestamp, with nothing in between.
CommitSerializable ==
  \A t \in Thread : pc[t] \in {"write_back", "release"} =>
    \A o \in obs[t] : IsValueAt(o.addr, ts[t] - 1, o.value)

Committing == {"acquire", "validate", "write_back", "release", "rollback"}

UnitStoring == {"unit_store", "unit_clock", "unit_release"}

\* The position of t's loop over its write set has not passed entry k's release.
Pending(t, k) ==
  CASE At(t, "write_back") \/ At(t, "release") -> k >= i[t]
    [] At(t, "rollback") -> k <= i[t]
    [] OTHER -> TRUE

\* Locks and write sets agree: an owned lock points to the one entry that must
\* drop it and its owner is committing or rolling back, and every entry that
\* must still drop a lock owns it.  No path of stm_commit or stm_rollback leaks
\* a lock or frees somebody else's.
LockOwnership ==
  /\ \A k \in Lock : \A t \in Thread : locks[k].owner = t =>
       /\ pc[t] \in Committing
       /\ locks[k].n \in DOMAIN w_set[t]
       /\ LockOf[w_set[t][locks[k].n].addr] = k
       /\ ~w_set[t][locks[k].n].no_drop
       /\ Pending(t, locks[k].n)
  /\ \A t \in Thread : pc[t] \in Committing =>
       \A n \in DOMAIN w_set[t] : ~w_set[t][n].no_drop /\ Pending(t, n) =>
         locks[LockOf[w_set[t][n].addr]] = LOCK_SET_ADDR_WRITE(t, n)
  /\ \A k \in Lock : locks[k].owner = UnitOwner =>
       Cardinality({t \in Thread : pc[t] \in UnitStoring
                                     /\ LockOf[arg[t].addr] = k}) = 1

\* Memory holds the last committed value of every address, except while the
\* owner of its lock is past the point of no return.
MemoryCommitted ==
  \A a \in Addr :
    \/ IsValueAt(a, clock, mem[a])
    \/ \E t \in Thread :
         \/ /\ pc[t] \in {"write_back", "release"}
            /\ locks[LockOf[a]].owner = t
         \/ pc[t] \in UnitStoring /\ arg[t].addr = a

\* The version in a free lock is not older than any committed write it covers
\* and not newer than the clock: a stale or future version would make
\* stm_validate accept a changed word or reject an unchanged one.
VersionsCoverWrites ==
  \A k \in Lock : locks[k].owner = NoOwner =>
    /\ locks[k].n <= clock
    /\ \A h \in hist : LockOf[h.addr] = k => h.ts <= locks[k].n

\* FETCH_INC_CLOCK "may exceed VERSION_MAX by up to MAX_THREADS", the margin
\* that keeps timestamps inside a lock word.
ClockOvershoot == clock <= VERSION_MAX + Cardinality(Thread)

\* stm_unit_load returns a word together with the timestamp it was valid at.
UnitLoadAtomic ==
  \A t \in Thread : At(t, "unit_read_return") =>
    IsValueAt(arg[t].addr, l[t].n, value[t])

\* "If a read-only transaction performs a write, it is aborted and restarted in
\* read-write mode": the restarted transaction agrees with its attributes.
RestartedReadWrite ==
  \A t \in Thread : At(t, "app") => ro[t] = attr[t].read_only

-----------------------------------------------------------------------------
(***************************************************************************)
(* Liveness.  A thread inside the library keeps running and the timer      *)
(* keeps ticking; the application need not ever call the library again.    *)
(***************************************************************************)
Fairness ==
  /\ \A t \in Thread : WF_vars(LibraryStep(t))
  /\ \A t \in Thread : WF_vars(TickRecentlyValidated(t))
  /\ \A t \in Thread : WF_vars(TickDeliver(t))
  /\ WF_vars(rollover_clock)

FairSpec == Spec /\ Fairness

\* Every lock a committing or aborting thread holds is dropped again.
LocksReleased ==
  \A t \in Thread, k \in Lock : locks[k].owner = t ~> locks[k].owner # t

\* Another transaction has overwritten something t has read.
Doomed(t) ==
  \E r \in r_set[t], h \in hist : LockOf[h.addr] = r.lock /\ h.ts > r.version

\* With extra ticks a doomed transaction does not stay in application code for
\* ever (a zombie loop is broken without a call into the library).
DoomedAborted ==
  \A t \in Thread : []<>~(At(t, "app") /\ Doomed(t))
=============================================================================
