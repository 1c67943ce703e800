------------------------------- MODULE StmETL -------------------------------
(***************************************************************************)
(* The other two designs of tinySTM's core (src/tinySTM/src/stm.c), both   *)
(* with encounter-time locking: WRITE_BACK_ETL, where an owned lock points *)
(* to the write set entry of its owner, and WRITE_THROUGH, where stores go *)
(* to memory at once and are undone on abort; with the contention managers *)
(* CM_SUICIDE, CM_DELAY and, for WRITE_BACK_ETL, CM_MODULAR with its       *)
(* policies, kills, stolen locks and visible reads.                        *)
(*                                                                         *)
(* Every action is one access to shared memory together with the thread-   *)
(* local code up to the next one.  Flat nesting, no_retry, unit operations *)
(* and early aborts do not depend on the design: StmCTL has them.          *)
(***************************************************************************)
EXTENDS Integers, FiniteSets, Sequences

CONSTANTS
  Thread, Addr, Lock, Byte, Value, InitValue,  \* as in StmCTL
  StoreWords,      \* words the application of each thread stores
  Rank,            \* order of the addresses of the transaction descriptors
  Builds,          \* the builds and applications under study (see Build)
  NoOwner

\* Compile-time options and the application that runs on them.
Build ==
  [DESIGN: {"WRITE_BACK_ETL", "WRITE_THROUGH"},
   CM: {"SUICIDE", "DELAY", "MODULAR"},
   policy: {"none", "aggressive", "suicide", "delay", "timestamp", "karma"},
   vr_threshold: Int,                   \* aborts after which reads are visible (< 0: never)
   LockOf: [Addr -> Lock],              \* GET_LOCK
   RW_SET_SIZE: Nat \ {0},              \* room of the write set before it grows
   read_only: SUBSET BOOLEAN,           \* attr.read_only of the transactions
   Loads: [Thread -> SUBSET Addr], Stores: [Thread -> SUBSET Addr],
   Masks: SUBSET SUBSET Byte,
   VERSION_MAX: Nat, INCARNATION_MAX: Nat,
   aborts: BOOLEAN,                     \* does the application call stm_abort?
   MaxCalls: [Thread -> Nat]]           \* bound on the loads and stores of a transaction

ASSUME EtlAssumption ==
  /\ Builds \subseteq Build
  /\ \A b \in Builds : b.CM = "MODULAR" => b.DESIGN = "WRITE_BACK_ETL"
  /\ InitValue \in Value /\ NoOwner \notin Thread
  /\ IsFiniteSet(Thread) /\ Addr # {}
  /\ StoreWords \in [Thread -> SUBSET [Byte -> Value]]
  /\ Rank \in [Thread -> Nat]

VARIABLES build, clock, locks, mem, tx, hist

vars == <<build, clock, locks, mem, tx, hist>>

-----------------------------------------------------------------------------
Word == [Byte -> Value]
ZeroWord == [b \in Byte |-> InitValue]
Merge(old, new, mask) == [b \in Byte |-> IF b \in mask THEN new[b] ELSE old[b]]

Modular == build.CM = "MODULAR"
WriteThrough == build.DESIGN = "WRITE_THROUGH"
LockOf == build.LockOf
Policy == build.policy

\* A lock word: a version with an incarnation number, or the address of an
\* entry (allocation gen, position n) of its owner, write- or read-locked.
LOCK_SET_TIMESTAMP(v) == [owner |-> NoOwner, n |-> v, inc |-> 0, write |-> FALSE]
LOCK_UPD_INCARNATION(v, j) == [owner |-> NoOwner, n |-> v, inc |-> j, write |-> FALSE]
LOCK_SET_ADDR_WRITE(t, k) ==
  [owner |-> t, n |-> k, inc |-> IF WriteThrough THEN 0 ELSE tx[t].gen, write |-> TRUE]
LOCK_GET_OWNED(w) == w.owner # NoOwner

NoArg == [addr |-> CHOOSE a \in Addr : TRUE, value |-> ZeroWord, mask |-> {}]
ZeroLock == LOCK_SET_TIMESTAMP(0)

IdleTx ==
  [pc |-> "idle", status |-> "IDLE", counter |-> 0, ro |-> FALSE,
   start |-> 0, end |-> 0, r_set |-> {}, w_set |-> <<>>, size |-> build.RW_SET_SIZE,
   gen |-> 0, has_writes |-> 0, visible_reads |-> 0, retries |-> 0, timestamp |-> 0,
   c_lock |-> {}, op |-> "read", arg |-> NoArg, l |-> ZeroLock, value |-> ZeroWord,
   i |-> 0, todo |-> {}, now |-> 0, ts |-> 0, seenStatus |-> <<>>,
   obs |-> {}, own |-> {}, snap |-> 0, calls |-> 0]

Init ==
  /\ build \in Builds
  /\ clock = 0
  /\ locks = [k \in Lock |-> ZeroLock]
  /\ mem = [a \in Addr |-> ZeroWord]
  /\ tx = [t \in Thread |-> IdleTx]
  /\ hist = {[ts |-> 0, addr |-> a, value |-> ZeroWord] : a \in Addr}

At(t, label) == tx[t].pc = label

\* The descriptor of t becomes d and goes on at label.
Become(t, d, label) == tx' = [tx EXCEPT ![t] = [d EXCEPT !.pc = label]]

\* The lock of the address the call under way is about.
ArgLock(t) == LockOf[tx[t].arg.addr]

\* LOCK_GET_ADDR falls inside our write set (or is our descriptor).
Ours(t, w) ==
  /\ w.owner = t
  /\ WriteThrough \/ (w.inc = tx[t].gen /\ w.n <= Len(tx[t].w_set))

\* The version in the write set entry an owned lock word points to.  An entry
\* of a write set that stm_drop has given up is out of date: so is the word,
\* and whatever is read from it is discarded by the CAS that follows.
EntryVersion(w) ==
  IF w.inc = tx[w.owner].gen /\ w.n <= Len(tx[w.owner].w_set)
    THEN tx[w.owner].w_set[w.n].version
    ELSE 0

LockVersion(w) == IF LOCK_GET_OWNED(w) THEN EntryVersion(w) ELSE w.n

\* The entries linked from entry k on (w->next; 0 is NULL).
Chain(ws, k) ==
  LET from[j \in 1..Len(ws)] ==
        {j} \cup IF ws[j].next = 0 THEN {} ELSE from[ws[j].next]
  IN  from[k]

stm_has_read(t, k) == \E r \in tx[t].r_set : r.lock = k

\* Restart counters and write set allocations only need to differ from what
\* other threads still remember.
Fresh(used) == CHOOSE n \in 0..Cardinality(used) : n \notin used

RememberedCounters(t) ==
  {tx[u].seenStatus[3] : u \in {v \in Thread \ {t} :
     tx[v].seenStatus # <<>> /\ tx[v].seenStatus[1] = t}}

RememberedGens(t) ==
  {tx[u].l.inc : u \in {v \in Thread \ {t} : tx[v].l.owner = t}}

-----------------------------------------------------------------------------
(***************************************************************************)
(* stm_start, stm_prepare and the roll-over of the clock                   *)
(***************************************************************************)
stm_start(t, read_only) ==
  /\ At(t, "idle")
  /\ Become(t, [tx[t] EXCEPT !.ro = read_only], "prepare")
  /\ UNCHANGED <<clock, locks, mem, hist>>

UseVisibleReads(t) ==
  Modular /\ build.vr_threshold >= 0 /\ tx[t].visible_reads >= build.vr_threshold

stm_prepare(t) ==
  /\ At(t, "prepare") /\ clock < build.VERSION_MAX
  /\ Become(t, [tx[t] EXCEPT
       !.ro = @ /\ ~UseVisibleReads(t),
       !.start = clock, !.end = clock, !.snap = clock,
       !.timestamp = IF ~Modular THEN 0 ELSE IF tx[t].retries = 0 THEN clock ELSE @,
       !.has_writes = 0, !.r_set = {}, !.w_set = <<>>,
       !.status = "ACTIVE",
       !.counter = IF Modular THEN Fresh(RememberedCounters(t)) ELSE 0,
       !.obs = {}, !.own = {}, !.calls = 0], "app")
  /\ UNCHANGED <<clock, locks, mem, hist>>

stm_prepare_overflow(t) ==
  /\ At(t, "prepare") /\ clock >= build.VERSION_MAX
  /\ Become(t, tx[t], "barrier")
  /\ UNCHANGED <<clock, locks, mem, hist>>

\* stm_quiesce_barrier: the last of the threads runs rollover_clock.
rollover_clock ==
  /\ \A t \in Thread : At(t, "barrier")
  /\ clock' = 0
  /\ locks' = [k \in Lock |-> ZeroLock]
  /\ hist' = {[ts |-> 0, addr |-> a, value |-> mem[a]] : a \in Addr}
  /\ tx' = [t \in Thread |-> [tx[t] EXCEPT !.pc = "prepare"]]
  /\ UNCHANGED mem

-----------------------------------------------------------------------------
(***************************************************************************)
(* Aborts and returns.  A finished call forgets its locals.                *)
(***************************************************************************)
Settled(d) == [d EXCEPT !.arg = NoArg, !.l = ZeroLock, !.value = ZeroWord,
                        !.i = 0, !.todo = {}, !.now = 0, !.ts = 0,
                        !.seenStatus = <<>>, !.op = "read"]

\* stm_rollback: CM_MODULAR first tries to move the status to ABORTING.
Rollback(t, d) == Become(t, Settled(d), "rollback")

\* A load returns: ghost obs keeps what came from memory, own what the
\* transaction has stored or loaded last at each part of a word.
Returned(d, w, fromMemory) ==
  [Settled(d) EXCEPT
     !.obs = IF fromMemory THEN @ \cup {[addr |-> d.arg.addr, value |-> w]} ELSE @,
     !.own = @ \cup {[addr |-> d.arg.addr, byte |-> b, value |-> w[b]] : b \in Byte}]

Stored(d) ==
  [Settled(d) EXCEPT
     !.own = {o \in @ : o.addr # d.arg.addr \/ o.byte \notin d.arg.mask} \cup
             {[addr |-> d.arg.addr, byte |-> b, value |-> d.arg.value[b]] : b \in d.arg.mask}]

-----------------------------------------------------------------------------
(***************************************************************************)
(* Conflicts: the lock is somebody else's.                                 *)
(***************************************************************************)
\* CM_SUICIDE and CM_DELAY abort; CM_MODULAR looks at the owner first.
Conflict(t, d, w) ==
  IF Modular
    THEN Become(t, [d EXCEPT !.l = w], "conflict")
    ELSE Rollback(t, [d EXCEPT !.c_lock = IF build.CM = "DELAY" THEN {ArgLock(t)} ELSE {}])

StatusWord(u) == <<u, tx[u].status, tx[u].counter>>

Restart(t) == Become(t, [tx[t] EXCEPT !.l = ZeroLock, !.seenStatus = <<>>], tx[t].op)

\* t = w->tx->status
ReadOwnerStatus(t) ==
  /\ At(t, "conflict")
  /\ Become(t, [tx[t] EXCEPT !.seenStatus = StatusWord(tx[t].l.owner)], "conflict2")
  /\ UNCHANGED <<clock, locks, mem, hist>>

Work(u) == 2 * Len(tx[u].w_set) + Cardinality(tx[u].r_set)

cm_timestamp(me, other) ==
  \/ tx[me].timestamp < tx[other].timestamp
  \/ tx[me].timestamp = tx[other].timestamp /\ Rank[me] < Rank[other]

cm_karma(me, other) ==
  \/ Work(me) < Work(other)
  \/ Work(me) = Work(other) /\ Rank[me] < Rank[other]

\* contention_manager(tx, w->tx, conflict) = KILL_OTHER
KillOther(t, other) ==
  /\ tx[t].status # "KILLED"
  /\ \/ Policy = "aggressive"
     \/ Policy = "timestamp" /\ cm_timestamp(t, other)
     \/ Policy = "karma" /\ cm_karma(t, other)

DelayRestart == Policy \in {"delay", "timestamp"}

\* The lock word and the status of the owner must not have changed meanwhile.
Arbitrate(t) ==
  LET d == tx[t]
      other == d.l.owner IN
    /\ At(t, "conflict2")
    /\ \/ /\ locks[ArgLock(t)] # d.l \/ StatusWord(other) # d.seenStatus
          /\ Restart(t)
       \/ /\ locks[ArgLock(t)] = d.l /\ StatusWord(other) = d.seenStatus
          /\ IF d.seenStatus[2] = "KILLED" THEN Become(t, d, "steal")
             ELSE IF KillOther(t, other) THEN Become(t, d, "kill")
             ELSE Rollback(t, [d EXCEPT
                    !.c_lock = IF DelayRestart /\ d.status # "KILLED"
                                 THEN {ArgLock(t)} ELSE {}])
    /\ UNCHANGED <<clock, locks, mem, hist>>

\* The CAS on the status of the owner; when it is too late, wait until the
\* owner has finished and try again.
stm_kill(t) ==
  LET d == tx[t]
      other == d.l.owner
      ended == \/ tx[other].status \in {"ABORTED", "COMMITTED", "KILLED"}
               \/ tx[other].counter # d.seenStatus[3] IN
    /\ At(t, "kill")
    /\ \/ /\ d.seenStatus[2] = "ACTIVE" /\ StatusWord(other) = d.seenStatus
          /\ tx' = [tx EXCEPT ![other].status = "KILLED", ![t].pc = "steal"]
       \/ /\ d.seenStatus[2] = "ACTIVE" /\ StatusWord(other) # d.seenStatus /\ ended
          /\ Restart(t)
       \/ /\ d.seenStatus[2] \in {"ABORTING", "COMMITTING"}
          /\ StatusWord(other) # d.seenStatus
          /\ Restart(t)
       \/ /\ d.seenStatus[2] \in {"ABORTED", "COMMITTED"}
          /\ Restart(t)
    /\ UNCHANGED <<clock, locks, mem, hist>>

-----------------------------------------------------------------------------
(***************************************************************************)
(* stm_load: stm_read_invisible                                            *)
(***************************************************************************)
stm_load(t, a) ==
  /\ At(t, "app") /\ tx[t].calls < build.MaxCalls[t]
  /\ LET d == [tx[t] EXCEPT !.calls = @ + 1, !.arg.addr = a] IN
       IF ~UseVisibleReads(t) THEN Become(t, d, "read")
       ELSE IF d.status = "KILLED" THEN Rollback(t, d)
       ELSE Become(t, [d EXCEPT !.op = "vread"], "vread")
  /\ UNCHANGED <<clock, locks, mem, hist>>

\* Our own lock: the value is in the write set, or still in memory.
ReadOurs(t, w) ==
  LET d == tx[t]
      chain == IF WriteThrough THEN {} ELSE Chain(d.w_set, w.n)
      hit == {k \in chain : d.w_set[k].addr = d.arg.addr} IN
    IF \E k \in hit : d.w_set[k].mask # {}
      THEN IF d.op = "vread" /\ d.status = "KILLED" THEN Rollback(t, d)
           ELSE Become(t, Returned(d, d.w_set[CHOOSE k \in hit : TRUE].value, FALSE), "app")
      ELSE Become(t, [d EXCEPT !.i = Cardinality(hit)], "own_value")

\* The code after a lock word has been loaded (restart_no_load).
ReadDispatch(t, w) ==
  IF ~w.write THEN Become(t, [tx[t] EXCEPT !.l = w, !.value = ZeroWord], "read_value")
  ELSE IF Ours(t, w) THEN ReadOurs(t, w)
  ELSE Conflict(t, tx[t], w)

ReadLock(t) ==
  /\ At(t, "read")
  /\ ReadDispatch(t, locks[ArgLock(t)])
  /\ UNCHANGED <<clock, locks, mem, hist>>

\* Memory read under our own lock; an invisible read looks at the status only
\* if its lookup found no entry.
ReadOwnValue(t) ==
  LET d == tx[t]
      a == d.arg.addr
      dirty == \E k \in DOMAIN d.w_set : d.w_set[k].addr = a /\ d.w_set[k].mask # {} IN
    /\ At(t, "own_value")
    /\ IF Modular /\ (d.op = "vread" \/ d.i = 0) /\ d.status = "KILLED"
         THEN Rollback(t, d)
         ELSE Become(t, Returned(d, mem[a], ~(WriteThrough /\ dirty)), "app")
    /\ UNCHANGED <<clock, locks, mem, hist>>

ReadValue(t) ==
  /\ At(t, "read_value")
  /\ Become(t, [tx[t] EXCEPT !.value = mem[tx[t].arg.addr]], "read_lock2")
  /\ UNCHANGED <<clock, locks, mem, hist>>

AddToReadSet(t) ==
  LET d == tx[t] IN
    Returned([d EXCEPT !.r_set = IF d.ro THEN @
                ELSE @ \cup {[lock |-> ArgLock(t), version |-> LockVersion(d.l)]}],
             d.value, TRUE)

\* A good version, unless we have been killed meanwhile.
ReadDone(t) ==
  IF tx[t].status = "KILLED" THEN Rollback(t, tx[t])
                             ELSE Become(t, AddToReadSet(t), "app")

\* An abort caused by an invisible read makes visible ones more likely.
InvalidRead(t) ==
  Rollback(t, [tx[t] EXCEPT !.visible_reads =
                 IF Modular /\ @ < build.vr_threshold THEN @ + 1 ELSE @])

ReadLock2(t) ==
  LET d == tx[t]
      w == locks[ArgLock(t)] IN
    /\ At(t, "read_lock2")
    /\ \/ /\ w # d.l
          /\ ReadDispatch(t, w)
       \/ /\ w = d.l /\ LockVersion(w) <= d.end
          /\ ReadDone(t)
       \/ /\ w = d.l /\ LockVersion(w) > d.end
          /\ IF d.ro THEN InvalidRead(t) ELSE Become(t, d, "extend")
    /\ UNCHANGED <<clock, locks, mem, hist>>

stm_extend(t) ==
  /\ At(t, "extend")
  /\ IF clock >= build.VERSION_MAX
       THEN InvalidRead(t)
       ELSE Become(t, [tx[t] EXCEPT !.now = clock, !.todo = tx[t].r_set], "validate")
  /\ UNCHANGED <<clock, locks, mem, hist>>

\* Mutation: an owned lock is taken for unchanged.
ValidIfOwned(t, r) == LOCK_GET_OWNED(locks[r.lock]) \/ locks[r.lock].n = r.version

\* Our own locks need no look at the version: nobody wrote since we acquired.
ValidEntry(t, r) ==
  LET w == locks[r.lock] IN
    IF LOCK_GET_OWNED(w) THEN Ours(t, w) ELSE w.n = r.version

stm_validate(t, r) ==
  /\ At(t, "validate") /\ r \in tx[t].todo
  /\ IF ValidEntry(t, r) THEN Become(t, [tx[t] EXCEPT !.todo = @ \ {r}], "validate")
                         ELSE InvalidRead(t)
  /\ UNCHANGED <<clock, locks, mem, hist>>

ExtendOk(t) ==
  /\ At(t, "validate") /\ tx[t].todo = {} /\ tx[t].ts = 0
  /\ Become(t, [tx[t] EXCEPT !.end = tx[t].now, !.snap = tx[t].now, !.now = 0],
            "read_recheck")
  /\ UNCHANGED <<clock, locks, mem, hist>>

\* The word read must still be current after the extension.
ReadRecheck(t) ==
  /\ At(t, "read_recheck")
  /\ IF locks[ArgLock(t)] = tx[t].l THEN ReadDone(t) ELSE ReadDispatch(t, tx[t].l)
  /\ UNCHANGED <<clock, locks, mem, hist>>

\* The steal of an invisible reader only takes the lock away.
ReadSteal(t) ==
  LET d == tx[t]
      w == LOCK_SET_TIMESTAMP(EntryVersion(d.l)) IN
    /\ At(t, "steal") /\ d.op = "read"
    /\ IF locks[ArgLock(t)] = d.l
         THEN /\ locks' = [locks EXCEPT ![ArgLock(t)] = w]
              /\ Become(t, [d EXCEPT !.l = w, !.seenStatus = <<>>], "read_value")
         ELSE Restart(t) /\ UNCHANGED locks
    /\ UNCHANGED <<clock, mem, hist>>

-----------------------------------------------------------------------------
(***************************************************************************)
(* The write set                                                           *)
(***************************************************************************)
Entry(t, v, next) ==
  [addr |-> tx[t].arg.addr, mask |-> tx[t].arg.mask, value |-> tx[t].arg.value,
   version |-> v, inc |-> 0, next |-> next, no_drop |-> FALSE]

Full(t) == Len(tx[t].w_set) = tx[t].size

\* stm_allocate_ws_entries(tx, 1): the locks are pointed to the new copy of
\* the entries, in the order of the entries; the last one of a lock wins.
Repointed(t, gen) ==
  [k \in Lock |->
     LET covered == {j \in DOMAIN tx[t].w_set : LockOf[tx[t].w_set[j].addr] = k} IN
       IF covered = {} THEN locks[k]
       ELSE [owner |-> t, n |-> CHOOSE j \in covered : \A h \in covered : h <= j,
             inc |-> gen, write |-> TRUE]]

\* The new entry is linked behind prev (0: it is the first of its lock).
Linked(ws, prev, e) ==
  Append([j \in DOMAIN ws |-> IF j = prev THEN [ws[j] EXCEPT !.next = Len(ws) + 1]
                                          ELSE ws[j]], e)

\* Mutation: the parts outside the mask are not fetched.
Unfilled(e) == e

\* The entry holds the whole word: parts outside the mask come from memory.
Filled(e) == [e EXCEPT !.value = IF e.mask = {} THEN ZeroWord
                                 ELSE Merge(mem[e.addr], @, e.mask)]

-----------------------------------------------------------------------------
(***************************************************************************)
(* stm_store and stm_store2: stm_write acquires the lock                   *)
(***************************************************************************)
\* A read-only transaction aborts; only the caller's attribute is cleared, and
\* the restart does not read it again.
stm_store(t, a, v, m) ==
  /\ At(t, "app") /\ tx[t].calls < build.MaxCalls[t]
  /\ LET d == [tx[t] EXCEPT !.calls = @ + 1, !.op = "write",
                            !.arg = [addr |-> a, value |-> v, mask |-> m]] IN
       IF d.status = "KILLED" THEN Rollback(t, d)
       ELSE IF d.ro THEN Rollback(t, d)
       ELSE Become(t, d, "write")
  /\ UNCHANGED <<clock, locks, mem, hist>>

\* The transaction has acquired the lock and written this address before.
UpdateEntry(t, k) ==
  LET d == tx[t]
      e == d.w_set[k]
      base == IF e.mask = {} THEN mem[e.addr] ELSE e.value IN
    Become(t, Stored([d EXCEPT
      !.w_set[k].value = Merge(base, d.arg.value, d.arg.mask),
      !.w_set[k].mask = @ \cup d.arg.mask]), "app")

\* It has acquired the lock for another address.  prev is found before the
\* write set grows, and the link is then written into the old copy.
AppendEntry(t, prev) ==
  LET d == tx[t]
      e == Filled(Entry(t, d.w_set[prev].version, 0))
      gen == Fresh(RememberedGens(t))
      grown == [d EXCEPT !.size = 2 * @, !.gen = gen, !.w_set = Append(@, e),
                         !.has_writes = IF Modular THEN @ + 1 ELSE @] IN
    IF Full(t)
      THEN /\ Become(t, Stored(grown), "app")
           /\ locks' = Repointed(t, gen)
      ELSE /\ Become(t, Stored([d EXCEPT !.w_set = Linked(@, prev, e),
                                  !.has_writes = IF Modular THEN @ + 1 ELSE @]), "app")
           /\ UNCHANGED locks

\* The lock is ours (WRITE_BACK_ETL).
WriteOurs(t, w) ==
  LET d == tx[t]
      chain == Chain(d.w_set, w.n)
      hit == {k \in chain : d.w_set[k].addr = d.arg.addr} IN
    IF d.arg.mask = {} THEN Become(t, Settled(d), "app") /\ UNCHANGED locks
    ELSE IF hit # {} THEN UpdateEntry(t, CHOOSE k \in hit : TRUE) /\ UNCHANGED locks
    ELSE AppendEntry(t, CHOOSE k \in chain : d.w_set[k].next = 0)

\* A version beyond the snapshot that we may have read before.
WriteInvalid(t, v) == v > tx[t].end /\ stm_has_read(t, ArgLock(t))

\* The CAS that makes the lock ours; WRITE_BACK_ETL adds the entry with it.
AcquireFrom(t, w, v) ==
  LET d == tx[t]
      gen == IF Full(t) THEN Fresh(RememberedGens(t)) ELSE d.gen
      base == IF Full(t) THEN Repointed(t, gen) ELSE locks
      e == Filled(Entry(t, v, 0)) IN
    IF WriteThrough
      THEN /\ locks' = [locks EXCEPT ![ArgLock(t)] = LOCK_SET_ADDR_WRITE(t, 0)]
           /\ Become(t, [d EXCEPT !.l = w], "do_write")
      ELSE /\ locks' = [base EXCEPT ![ArgLock(t)] =
                [owner |-> t, n |-> Len(d.w_set) + 1, inc |-> gen, write |-> TRUE]]
           /\ Become(t, Stored([d EXCEPT
                !.w_set = Append(@, e), !.gen = gen,
                !.size = IF Full(t) THEN 2 * @ ELSE @,
                !.has_writes = IF Modular THEN @ + 1 ELSE @]), "app")

stm_write(t) ==
  LET w == locks[ArgLock(t)] IN
    /\ At(t, "write")
    /\ \/ /\ LOCK_GET_OWNED(w) /\ Ours(t, w)
          /\ IF WriteThrough
               THEN Become(t, [tx[t] EXCEPT !.l = w], "do_write") /\ UNCHANGED locks
               ELSE IF ~w.write
                 THEN Become(t, [tx[t] EXCEPT !.l = w], "upgrade") /\ UNCHANGED locks
                 ELSE WriteOurs(t, w)
       \/ /\ LOCK_GET_OWNED(w) /\ ~Ours(t, w)
          /\ Conflict(t, tx[t], w)
          /\ UNCHANGED locks
       \/ /\ ~LOCK_GET_OWNED(w)
          /\ IF WriteInvalid(t, w.n) THEN InvalidRead(t) /\ UNCHANGED locks
                                     ELSE AcquireFrom(t, w, w.n)
    /\ UNCHANGED <<clock, mem, hist>>

\* LOCK_UPGRADE fails only if the lock has been stolen.
Upgrade(t) ==
  LET d == tx[t]
      w == [d.l EXCEPT !.write = TRUE] IN
    /\ At(t, "upgrade")
    /\ IF locks[ArgLock(t)] = d.l
         THEN /\ locks' = [locks EXCEPT ![ArgLock(t)] = w]
              /\ Become(t, [d EXCEPT !.has_writes = @ + 1, !.l = ZeroLock], "write")
         ELSE Rollback(t, d) /\ UNCHANGED locks
    /\ UNCHANGED <<clock, mem, hist>>

\* A writer steals the lock for itself.
WriteSteal(t) ==
  LET d == tx[t] IN
    /\ At(t, "steal") /\ d.op = "write"
    /\ IF WriteInvalid(t, EntryVersion(d.l)) THEN InvalidRead(t) /\ UNCHANGED locks
       ELSE IF locks[ArgLock(t)] = d.l THEN AcquireFrom(t, d.l, EntryVersion(d.l))
       ELSE Restart(t) /\ UNCHANGED locks
    /\ UNCHANGED <<clock, mem, hist>>

\* WRITE_THROUGH: remember the old word and lock, then store to memory.  A
\* lock we owned already is not dropped by this entry.
do_write(t) ==
  LET d == tx[t]
      a == d.arg.addr
      e == [Entry(t, d.l.n, 0) EXCEPT
              !.value = IF d.arg.mask = {} THEN ZeroWord ELSE mem[a],
              !.inc = d.l.inc, !.no_drop = LOCK_GET_OWNED(d.l)] IN
    /\ At(t, "do_write")
    /\ mem' = [mem EXCEPT ![a] = Merge(@, d.arg.value, d.arg.mask)]
    /\ Become(t, Stored([d EXCEPT !.w_set = Append(@, e)]), "app")
    /\ UNCHANGED <<clock, locks, hist>>

-----------------------------------------------------------------------------
(***************************************************************************)
(* CM_MODULAR: stm_read_visible read-locks the address                     *)
(***************************************************************************)
AcquireRead(t, w, v) ==
  LET d == tx[t]
      e == [Entry(t, v, 0) EXCEPT !.value = mem[d.arg.addr], !.mask = {}]
      gen == IF Full(t) THEN Fresh(RememberedGens(t)) ELSE d.gen
      base == IF Full(t) THEN Repointed(t, gen) ELSE locks IN
    /\ locks' = [base EXCEPT ![ArgLock(t)] =
         [owner |-> t, n |-> Len(d.w_set) + 1, inc |-> gen, write |-> FALSE]]
    /\ Become(t, Returned([d EXCEPT !.w_set = Append(@, e), !.gen = gen,
                             !.size = IF Full(t) THEN 2 * @ ELSE @],
                          mem[d.arg.addr], TRUE), "app")

\* No timestamp is checked: what is read-locked stays as it is.
stm_read_visible(t) ==
  LET d == tx[t]
      w == locks[ArgLock(t)] IN
    /\ At(t, "vread")
    /\ \/ /\ LOCK_GET_OWNED(w) /\ Ours(t, w)
          /\ IF w.write THEN ReadOurs(t, w) ELSE Become(t, d, "own_value")
          /\ UNCHANGED locks
       \/ /\ LOCK_GET_OWNED(w) /\ ~Ours(t, w)
          /\ Conflict(t, d, w)
          /\ UNCHANGED locks
       \/ /\ ~LOCK_GET_OWNED(w)
          /\ AcquireRead(t, w, w.n)
    /\ UNCHANGED <<clock, mem, hist>>

VisibleSteal(t) ==
  LET d == tx[t] IN
    /\ At(t, "steal") /\ d.op = "vread"
    /\ IF locks[ArgLock(t)] = d.l THEN AcquireRead(t, d.l, EntryVersion(d.l))
       ELSE Restart(t) /\ UNCHANGED locks
    /\ UNCHANGED <<clock, mem, hist>>

-----------------------------------------------------------------------------
(***************************************************************************)
(* stm_commit                                                              *)
(***************************************************************************)
MayCommit(t) == tx[t].status # "KILLED"

stm_commit(t) ==
  LET d == [tx[t] EXCEPT !.status = IF Modular THEN "COMMITTING" ELSE @] IN
    /\ At(t, "app")
    /\ IF ~MayCommit(t) THEN Rollback(t, tx[t])
       ELSE IF d.w_set = <<>> THEN Become(t, d, "end")
       ELSE IF Modular /\ d.has_writes = 0 THEN Become(t, [d EXCEPT !.i = 1], "drop_reads")
       ELSE Become(t, d, "commit_clock")
    /\ UNCHANGED <<clock, locks, mem, hist>>

\* Only visible reads: the locks get their versions back, the clock advances.
CommitReads(t) ==
  LET d == tx[t]
      e == d.w_set[d.i] IN
    /\ At(t, "drop_reads")
    /\ \/ /\ d.i <= Len(d.w_set)
          /\ locks' = IF e.next = 0
               THEN [locks EXCEPT ![LockOf[e.addr]] = LOCK_SET_TIMESTAMP(e.version)]
               ELSE locks
          /\ Become(t, [d EXCEPT !.i = @ + 1], "drop_reads")
          /\ UNCHANGED clock
       \/ /\ d.i > Len(d.w_set)
          /\ clock' = clock + 1
          /\ Become(t, [d EXCEPT !.i = 0], "end")
          /\ UNCHANGED locks
    /\ UNCHANGED <<mem, hist>>

\* The words the transaction leaves in memory, at commit timestamp v.
Final(t, a) ==
  LET d == tx[t]
      mine == {k \in DOMAIN d.w_set : d.w_set[k].addr = a /\ d.w_set[k].mask # {}} IN
    IF WriteThrough THEN mem[a]
    ELSE d.w_set[CHOOSE k \in mine : \A j \in mine : j <= k].value

Installed(t, v) ==
  {[ts |-> v, addr |-> a, value |-> Final(t, a)] :
     a \in {tx[t].w_set[k].addr : k \in {j \in DOMAIN tx[t].w_set : tx[t].w_set[j].mask # {}}}}

\* Where the release of the locks starts: forwards for WRITE_BACK_ETL,
\* backwards for WRITE_THROUGH.
Publish(t, d, v) ==
  /\ hist' = hist \cup Installed(t, v)
  /\ Become(t, [d EXCEPT !.ts = v, !.i = IF WriteThrough THEN Len(d.w_set) ELSE 1],
            IF WriteThrough THEN "release" ELSE "write_back")

CommitClock(t) ==
  /\ At(t, "commit_clock")
  /\ clock' = clock + 1
  /\ IF tx[t].start = clock
       THEN Publish(t, tx[t], clock + 1)
       ELSE /\ Become(t, [tx[t] EXCEPT !.ts = clock + 1, !.todo = tx[t].r_set], "validate")
            /\ UNCHANGED hist
  /\ UNCHANGED <<locks, mem>>

CommitValid(t) ==
  /\ At(t, "validate") /\ tx[t].todo = {} /\ tx[t].ts > 0
  /\ Publish(t, tx[t], tx[t].ts)
  /\ UNCHANGED <<clock, locks, mem>>

NextEntry(t) ==
  LET d == tx[t]
      last == IF WriteThrough THEN d.i = 1 ELSE d.i = Len(d.w_set) IN
    IF last THEN Become(t, [d EXCEPT !.i = 0], "end")
    ELSE IF WriteThrough THEN Become(t, [d EXCEPT !.i = @ - 1], "release")
    ELSE Become(t, [d EXCEPT !.i = @ + 1], "write_back")

CommitStore(t) ==
  LET d == tx[t]
      e == d.w_set[d.i] IN
    /\ At(t, "write_back")
    /\ mem' = IF e.mask = {} THEN mem ELSE [mem EXCEPT ![e.addr] = e.value]
    /\ IF e.next = 0 THEN Become(t, d, "release") ELSE NextEntry(t)
    /\ UNCHANGED <<clock, locks, hist>>

\* The last entry of a lock's list (write-back), the one that acquired it
\* (write-through).
Drops(e) == ~e.no_drop

CommitRelease(t) ==
  LET d == tx[t]
      e == d.w_set[d.i] IN
    /\ At(t, "release")
    /\ locks' = IF Drops(e) THEN [locks EXCEPT ![LockOf[e.addr]] = LOCK_SET_TIMESTAMP(d.ts)]
                            ELSE locks
    /\ NextEntry(t)
    /\ UNCHANGED <<clock, mem, hist>>

CommitEnd(t) ==
  /\ At(t, "end")
  /\ Become(t, [Settled(tx[t]) EXCEPT !.status = "COMMITTED", !.retries = 0,
                  !.visible_reads = 0, !.w_set = <<>>, !.r_set = {}, !.obs = {},
                  !.own = {}, !.calls = 0, !.ro = FALSE, !.has_writes = 0,
                  !.start = 0, !.end = 0, !.timestamp = 0], "idle")
  /\ UNCHANGED <<clock, locks, mem, hist>>

-----------------------------------------------------------------------------
(***************************************************************************)
(* stm_abort and stm_rollback                                              *)
(***************************************************************************)
stm_abort(t) ==
  /\ At(t, "app") /\ build.aborts
  /\ Rollback(t, tx[t])
  /\ UNCHANGED <<clock, locks, mem, hist>>

\* CM_MODULAR: an active transaction becomes ABORTING, a killed one drops.
stm_rollback(t) ==
  LET d == tx[t] IN
    /\ At(t, "rollback")
    /\ IF d.status = "KILLED" THEN Become(t, [d EXCEPT !.i = 1], "drop")
       ELSE Become(t, [d EXCEPT !.i = IF WriteThrough THEN Len(d.w_set) ELSE 1,
                         !.status = IF Modular /\ @ = "ACTIVE" THEN "ABORTING" ELSE @],
                   "undo")
    /\ UNCHANGED <<clock, locks, mem, hist>>

\* WRITE_BACK_ETL: the last entry of each list gives the version back.
RollbackRelease(t) ==
  LET d == tx[t]
      e == d.w_set[d.i] IN
    /\ At(t, "undo") /\ ~WriteThrough /\ d.i <= Len(d.w_set)
    /\ locks' = IF e.next = 0
         THEN [locks EXCEPT ![LockOf[e.addr]] = LOCK_SET_TIMESTAMP(e.version)] ELSE locks
    /\ Become(t, [d EXCEPT !.i = @ + 1], "undo")
    /\ UNCHANGED <<clock, mem, hist>>

\* Mutation: only the entry that acquired the lock restores its word.
RestoresFirst(e) == e.mask # {} /\ ~e.no_drop

\* An entry with an empty mask has changed nothing.
Restores(e) == e.mask # {}

\* WRITE_THROUGH: undo the store, then drop the lock.
UndoStore(t) ==
  LET d == tx[t]
      e == d.w_set[d.i] IN
    /\ At(t, "undo") /\ WriteThrough /\ d.i > 0
    /\ mem' = IF Restores(e) THEN [mem EXCEPT ![e.addr] = e.value] ELSE mem
    /\ IF e.no_drop THEN Become(t, [d EXCEPT !.i = @ - 1], "undo")
       ELSE Become(t, d, IF e.inc = build.INCARNATION_MAX /\ d.ts = 0 THEN "undo_clock"
                                                               ELSE "undo_release")
    /\ UNCHANGED <<clock, locks, hist>>

\* The incarnation number overflows: take a new version from the clock.
UndoClock(t) ==
  /\ At(t, "undo_clock")
  /\ clock' = clock + 1
  /\ Become(t, [tx[t] EXCEPT !.ts = clock + 1], "undo_release")
  /\ UNCHANGED <<locks, mem, hist>>

\* Mutation: the old lock word comes back as it was.
UndoneSameWord(e, v) == LOCK_UPD_INCARNATION(e.version, e.inc)

\* Incarnation numbers let readers detect dirty reads.
UndoneWord(e, v) ==
  IF e.inc = build.INCARNATION_MAX THEN LOCK_SET_TIMESTAMP(v)
                             ELSE LOCK_UPD_INCARNATION(e.version, e.inc + 1)

UndoRelease(t) ==
  LET d == tx[t]
      e == d.w_set[d.i] IN
    /\ At(t, "undo_release")
    /\ locks' = [locks EXCEPT ![LockOf[e.addr]] = UndoneWord(e, d.ts)]
    /\ Become(t, [d EXCEPT !.i = @ - 1], "undo")
    /\ UNCHANGED <<clock, mem, hist>>

\* stm_drop: only locks nobody has stolen go back, by CAS.
stm_drop(t) ==
  LET d == tx[t]
      e == d.w_set[d.i]
      k == LockOf[e.addr] IN
    /\ At(t, "drop") /\ d.i <= Len(d.w_set)
    /\ locks' = IF locks[k].owner = t /\ locks[k].inc = d.gen /\ locks[k].n = d.i
                  THEN [locks EXCEPT ![k] = LOCK_SET_TIMESTAMP(e.version)] ELSE locks
    /\ Become(t, [d EXCEPT !.i = @ + 1], "drop")
    /\ UNCHANGED <<clock, mem, hist>>

\* A killed transaction gets a new write set, against ABA on its entries.
NewGen(t) == IF tx[t].w_set = <<>> THEN tx[t].gen ELSE Fresh(RememberedGens(t))

\* Nothing is locked any more; CM_DELAY waits for the contended lock.
RollbackEnd(t) ==
  LET d == tx[t] IN
    /\ \/ At(t, "undo") /\ d.i = (IF WriteThrough THEN 0 ELSE Len(d.w_set) + 1)
       \/ At(t, "drop") /\ d.i > Len(d.w_set)
    /\ Become(t, [Settled(d) EXCEPT !.status = "ABORTED", !.obs = {}, !.own = {},
                    !.w_set = <<>>, !.r_set = {}, !.has_writes = 0, !.calls = 0,
                    !.start = 0, !.end = 0,
                    !.retries = IF Modular THEN 1 ELSE 0,
                    !.gen = IF At(t, "drop") THEN NewGen(t) ELSE @], "delay")
    /\ UNCHANGED <<clock, locks, mem, hist>>

Delay(t) ==
  /\ At(t, "delay")
  /\ \A k \in tx[t].c_lock : ~LOCK_GET_OWNED(locks[k])
  /\ Become(t, [tx[t] EXCEPT !.c_lock = {}], "prepare")
  /\ UNCHANGED <<clock, locks, mem, hist>>

-----------------------------------------------------------------------------
LibraryStep(t) ==
  \/ stm_prepare(t) \/ stm_prepare_overflow(t)
  \/ ReadOwnerStatus(t) \/ Arbitrate(t) \/ stm_kill(t)
  \/ ReadLock(t) \/ ReadOwnValue(t) \/ ReadValue(t) \/ ReadLock2(t) \/ ReadRecheck(t)
  \/ ReadSteal(t) \/ stm_extend(t) \/ (\E r \in tx[t].todo : stm_validate(t, r))
  \/ ExtendOk(t) \/ stm_write(t) \/ Upgrade(t) \/ WriteSteal(t) \/ do_write(t)
  \/ stm_read_visible(t) \/ VisibleSteal(t)
  \/ CommitReads(t) \/ CommitClock(t) \/ CommitValid(t) \/ CommitStore(t)
  \/ CommitRelease(t) \/ CommitEnd(t)
  \/ stm_rollback(t) \/ RollbackRelease(t) \/ UndoStore(t) \/ UndoClock(t)
  \/ UndoRelease(t) \/ stm_drop(t) \/ RollbackEnd(t) \/ Delay(t)

AppStep(t) ==
  \/ \E r \in build.read_only : stm_start(t, r)
  \/ \E a \in build.Loads[t] : stm_load(t, a)
  \/ \E a \in build.Stores[t], v \in StoreWords[t],
       m \in build.Masks : stm_store(t, a, v, m)
  \/ stm_commit(t) \/ stm_abort(t)

Next ==
  /\ (\E t \in Thread : AppStep(t) \/ LibraryStep(t)) \/ rollover_clock
  /\ UNCHANGED build

Spec == Init /\ [][Next]_vars

-----------------------------------------------------------------------------
(***************************************************************************)
(* Properties                                                              *)
(***************************************************************************)
IsValueAt(a, s, w) ==
  \E h \in hist :
    /\ h.addr = a /\ h.ts <= s /\ h.value = w
    /\ \A g \in hist : g.addr = a /\ g.ts <= s => g.ts <= h.ts

\* Entries whose lock the commit has not dropped yet.
Unreleased(t) ==
  {k \in DOMAIN tx[t].w_set :
     IF At(t, "commit_clock") \/ At(t, "validate") THEN TRUE
     ELSE IF WriteThrough THEN k <= tx[t].i ELSE k >= tx[t].i}

Committing(t) ==
  \/ tx[t].pc \in {"commit_clock", "write_back", "release"}
  \/ At(t, "validate") /\ tx[t].ts > 0

\* From its commit timestamp on a transaction owns the lock of every entry it
\* has still to write or release: no policy of the contention manager steals
\* from a committing transaction, and no release drops a lock too early
\* (stm_kill, stm_commit).
CommitHoldsLocks ==
  \A t \in Thread : Committing(t) =>
    \A k \in Unreleased(t) : locks[LockOf[tx[t].w_set[k].addr]].owner = t

\* What a committed transaction loaded from memory is what an execution in the
\* order of the timestamps would have loaded; a transaction that only read
\* visibly commits values that are all still in memory (stm_validate,
\* stm_commit, stm_read_visible).
EtlSerializable ==
  \A t \in Thread :
    /\ tx[t].ts > 0 /\ tx[t].pc \in {"write_back", "release"} =>
         \A o \in tx[t].obs : IsValueAt(o.addr, tx[t].ts - 1, o.value)
    /\ At(t, "drop_reads") /\ tx[t].i = 1 =>
         \A o \in tx[t].obs : mem[o.addr] = o.value

\* While nobody owns its lock a word holds the last committed value: aborts
\* undo exactly their own stores, and a released lock covers finished stores
\* (write-through undo, stm_rollback, stm_commit).
UnlockedIsCommitted ==
  \A a \in Addr : ~LOCK_GET_OWNED(locks[LockOf[a]]) => IsValueAt(a, clock, mem[a])

\* "Multiple values covered by the same log entry and orginized in a linked
\* list in the write log": every entry of an owned lock is on the list that
\* starts at the entry the lock points to (stm_write, stm_allocate_ws_entries).
ChainsComplete ==
  \A t \in Thread, k \in Lock :
    ~WriteThrough /\ At(t, "app") /\ tx[t].status = "ACTIVE" /\ Ours(t, locks[k]) =>
      {j \in DOMAIN tx[t].w_set : LockOf[tx[t].w_set[j].addr] = k}
        = Chain(tx[t].w_set, locks[k].n)

\* A load returns what the transaction itself stored or loaded last at that
\* address: "the value returned is consistent with respect to previous reads
\* from the same transaction" (include/stm.h, stm_load).
RepeatableReads ==
  \A t \in Thread : tx[t].status # "KILLED" => \A o, p \in tx[t].own :
    o.addr = p.addr /\ o.byte = p.byte => o.value = p.value

-----------------------------------------------------------------------------
(***************************************************************************)
(* The abstract transactional memory.                                      *)
(***************************************************************************)
OutLabels == {"idle", "prepare", "barrier", "delay", "rollback", "undo",
              "undo_clock", "undo_release", "drop"}

PhaseOf(t) ==
  IF tx[t].pc \in OutLabels THEN "out"
  ELSE IF tx[t].ts > 0 /\ tx[t].pc \in {"write_back", "release", "end"} THEN "committed"
  ELSE "running"

InTx(t, v, none) == IF tx[t].pc \in OutLabels THEN none ELSE v

Abstract == INSTANCE OpaqueTM WITH
  time <- clock,
  phase <- [t \in Thread |-> PhaseOf(t)],
  snap <- [t \in Thread |-> InTx(t, tx[t].snap, 0)],
  obs <- [t \in Thread |-> InTx(t, tx[t].obs, {})],
  ticket <- [t \in Thread |-> InTx(t, tx[t].ts, 0)]

\* Builds in which no load reads memory under the transaction's own lock: one
\* word per lock, full masks, invisible reads.  (Such a load is checked against
\* no timestamp; until the commit validates, it may be newer than the snapshot.)
SnapshotBuild ==
  /\ \A a, b \in Addr : LockOf[a] = LockOf[b] => a = b
  /\ build.Masks \subseteq {Byte}
  /\ Modular => build.vr_threshold < 0

\* Encounter-time locking and write-through, too, behave like the abstract
\* transactional memory, dirty words in memory and stolen locks included
\* (stm_read_invisible, stm_write, stm_rollback, stm_kill).
EtlRefinement ==
  /\ SnapshotBuild => Abstract!Init
  /\ [][SnapshotBuild => Abstract!Next]_(Abstract!vars)

\* Locks, logs and memory fit together while transactions run, commit and
\* abort: a committing transaction owns its locks, an unlocked word is a
\* committed one, and a lock leads to all the entries it covers.
LocksCover == CommitHoldsLocks /\ UnlockedIsCommitted /\ ChainsComplete
=============================================================================
