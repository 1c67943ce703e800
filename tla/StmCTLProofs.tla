---------------------------- MODULE StmCTLProofs ----------------------------
(***************************************************************************)
(* Lock accounting of stm_commit and stm_rollback for any number of        *)
(* threads, addresses and locks: the state keeps its types and an owned    *)
(* lock always points to the one write set entry that must drop it.  From  *)
(* that, versions and memory: the version in a free lock covers every      *)
(* committed write below it, memory holds the last committed values        *)
(* wherever no commit is writing back, and a commit timestamp is used for  *)
(* one write of an address only.                                           *)
(***************************************************************************)
EXTENDS StmCTL, FiniteSetTheorems, SequenceTheorems, TLAPS

(***************************************************************************)
(* The inductive invariant                                                 *)
(***************************************************************************)
\* Entries up to m of the write set of t that have to drop a lock.
Droppers(t, m) == {n \in 1..m : ~w_set[t][n].no_drop}

\* No lock acquired yet.
Clean(t) == nb_acquired[t] = 0 /\ \A n \in DOMAIN w_set[t] : w_set[t][n].no_drop

Running == {"app", "read_lock", "read_value", "read_lock2", "read_recheck",
            "write_lock", "extend"}

\* nb_acquired and the loop position i against the write set.
WriteSetInv(t) ==
  /\ pc[t] \in Running => Clean(t)
  /\ pc[t] = "extend" => cont[t] # "commit"
  /\ pc[t] = "validate" /\ cont[t] # "commit" => Clean(t)
  /\ pc[t] = "acquire" \/ (pc[t] = "validate" /\ cont[t] = "commit") =>
       /\ Len(w_set[t]) > 0
       /\ nb_acquired[t] = Cardinality(Droppers(t, Len(w_set[t])))
  /\ pc[t] = "acquire" => /\ i[t] <= Len(w_set[t])
                          /\ \A n \in 1..i[t] : w_set[t][n].no_drop
  /\ pc[t] = "rollback" => /\ i[t] <= Len(w_set[t])
                           /\ nb_acquired[t] = Cardinality(Droppers(t, i[t]))
  /\ pc[t] \in {"write_back", "release"} => i[t] \in 1..Len(w_set[t])
  /\ pc[t] = "release" => ~w_set[t][i[t]].no_drop

\* A lock t owns points to an entry of t that has still to drop it ...
Owns(t) ==
  \A k \in Lock : locks[k].owner = t =>
    /\ pc[t] \in Committing
    /\ locks[k].n \in DOMAIN w_set[t]
    /\ LockOf[w_set[t][locks[k].n].addr] = k
    /\ ~w_set[t][locks[k].n].no_drop
    /\ Pending(t, locks[k].n)

\* ... and every entry of t that has still to drop a lock owns it.
Drops(t) ==
  pc[t] \in Committing =>
    \A n \in DOMAIN w_set[t] : ~w_set[t][n].no_drop /\ Pending(t, n) =>
      locks[LockOf[w_set[t][n].addr]] = LOCK_SET_ADDR_WRITE(t, n)

\* LOCK_UNIT stands for exactly one unit store.
UnitOwns ==
  /\ \A t \in Thread : pc[t] \in UnitStoring =>
       locks[LockOf[arg[t].addr]].owner = UnitOwner
  /\ \A t, u \in Thread :
       /\ pc[t] \in UnitStoring /\ pc[u] \in UnitStoring
       /\ LockOf[arg[t].addr] = LockOf[arg[u].addr]
       => t = u
  /\ \A k \in Lock : locks[k].owner = UnitOwner =>
       \E t \in Thread : pc[t] \in UnitStoring /\ LockOf[arg[t].addr] = k

Inv ==
  /\ TypeOK
  /\ \A t \in Thread : WriteSetInv(t) /\ Owns(t) /\ Drops(t)
  /\ UnitOwns

-----------------------------------------------------------------------------
(***************************************************************************)
(* Types                                                                   *)
(***************************************************************************)
\* The words and arguments the actions build have their types.
LEMMA Builders ==
  /\ ZeroWord \in Word
  /\ NoArg \in Argument
  /\ LOCK_SET_TIMESTAMP(0) \in LockWord
  /\ LOCK_UNIT \in LockWord
  /\ \A v \in Nat : LOCK_SET_TIMESTAMP(v) \in LockWord
<1>1. ZeroWord \in Word
  BY ConstantsAssumption DEF ZeroWord, Word
<1>2. NoArg \in Argument
  BY <1>1, ConstantsAssumption DEF NoArg, Argument
<1>3. LOCK_UNIT \in LockWord /\ \A v \in Nat : LOCK_SET_TIMESTAMP(v) \in LockWord
  BY DEF LOCK_SET_TIMESTAMP, LOCK_UNIT, LockWord
<1> QED
  BY <1>1, <1>2, <1>3

\* Arguments have addresses, words and masks; so do lock words.
LEMMA Parts ==
  /\ \A x \in Argument : x.addr \in Addr /\ x.value \in Word /\ x.mask \in SUBSET Byte
  /\ \A a \in Addr, v \in Word, m \in SUBSET Byte :
       [addr |-> a, value |-> v, mask |-> m] \in Argument
  /\ \A a \in Addr : [NoArg EXCEPT !.addr = a] \in Argument
  /\ \A w \in LockWord : w.n \in Nat
<1>1. NoArg \in Argument
  BY Builders
<1> QED
  BY <1>1 DEF Argument, LockWord

\* The lock of the current argument.
LEMMA LockOfArg ==
  ASSUME TypeOK, NEW t \in Thread
  PROVE  /\ arg[t] \in Argument /\ arg[t].addr \in Addr /\ arg[t].value \in Word
         /\ arg[t].mask \in SUBSET Byte
         /\ LockOf[arg[t].addr] \in Lock
         /\ locks[LockOf[arg[t].addr]] \in LockWord
         /\ mem[arg[t].addr] \in Word
         /\ l[t] \in LockWord /\ l[t].n \in Nat /\ value[t] \in Word
<1>1. arg[t] \in Argument /\ l[t] \in LockWord /\ value[t] \in Word
  BY DEF TypeOK, LocalTypes
<1>2. arg[t].addr \in Addr
  BY <1>1, Parts
<1> QED
  BY <1>1, <1>2, Parts, ConstantsAssumption DEF TypeOK, SharedTypes

\* Parts of the state that a step leaves alone keep their types.
LEMMA UnchangedTypes ==
  /\ TypeOK /\ UNCHANGED sharedVars => SharedTypes'
  /\ TypeOK /\ UNCHANGED attrVars => AttrTypes'
  /\ TypeOK /\ UNCHANGED snapVars => SnapTypes'
  /\ TypeOK /\ UNCHANGED setVars => SetTypes'
  /\ TypeOK /\ UNCHANGED localVars => LocalTypes'
  /\ TypeOK /\ UNCHANGED eaVars => EaTypes'
  /\ TypeOK /\ UNCHANGED histVars => HistTypes'
<1> USE DEF TypeOK
<1>1. TypeOK /\ UNCHANGED sharedVars => SharedTypes'
  BY DEF SharedTypes, sharedVars
<1>2. TypeOK /\ UNCHANGED attrVars => AttrTypes'
  BY DEF AttrTypes, attrVars
<1>3. TypeOK /\ UNCHANGED snapVars => SnapTypes'
  BY DEF SnapTypes, snapVars
<1>4. TypeOK /\ UNCHANGED setVars => SetTypes'
  BY DEF SetTypes, setVars
<1>5. TypeOK /\ UNCHANGED localVars => LocalTypes'
  BY DEF LocalTypes, localVars
<1>6. TypeOK /\ UNCHANGED eaVars => EaTypes'
  BY DEF EaTypes, eaVars
<1>7. TypeOK /\ UNCHANGED histVars => HistTypes'
  BY DEF HistTypes, histVars
<1> QED
  BY <1>1, <1>2, <1>3, <1>4, <1>5, <1>6, <1>7

LEMMA TypePrepare ==
  ASSUME TypeOK, NEW t \in Thread, stm_prepare(t)
  PROVE  TypeOK'
<1> USE DEF stm_prepare
<1>1. SharedTypes'
  BY UnchangedTypes
<1>2. pc' \in [Thread -> Labels]
  BY DEF TypeOK, Labels, Goto
<1>3. AttrTypes'
  BY DEF TypeOK, AttrTypes
<1>4. SnapTypes'
  BY DEF TypeOK, SnapTypes, SharedTypes
<1>5. SetTypes'
  BY EmptySeq DEF TypeOK, SetTypes
<1>6. LocalTypes'
  BY UnchangedTypes
<1>7. EaTypes'
  BY ConstantsAssumption DEF TypeOK, EaTypes
<1>8. HistTypes'
  BY DEF TypeOK, HistTypes, SharedTypes
<1> QED
  BY <1>1, <1>2, <1>3, <1>4, <1>5, <1>6, <1>7, <1>8 DEF TypeOK

\* Starting a transaction or nesting one.
LEMMA TypeStart ==
  ASSUME TypeOK, NEW t \in Thread,
         \/ \E a \in Attr : stm_start(t, a)
         \/ stm_start_nested(t) \/ stm_commit_nested(t)
  PROVE  TypeOK'
<1>1. CASE \E a \in Attr : stm_start(t, a)
  <2>1. PICK a \in Attr : stm_start(t, a)
    BY <1>1
  <2>2. a.read_only \in BOOLEAN /\ a \in [read_only: BOOLEAN, no_retry: BOOLEAN]
    BY ConstantsAssumption
  <2>3. SharedTypes' /\ SnapTypes' /\ SetTypes' /\ HistTypes'
    BY <2>1, UnchangedTypes DEF stm_start
  <2>4. pc' \in [Thread -> Labels]
    BY <2>1 DEF stm_start, TypeOK, Labels, Goto
  <2>5. AttrTypes'
    BY <2>1, <2>2 DEF stm_start, TypeOK, AttrTypes
  <2>6. LocalTypes'
    BY <2>1 DEF stm_start, TypeOK, LocalTypes
  <2>7. EaTypes'
    BY <2>1, ConstantsAssumption DEF stm_start, TypeOK, EaTypes
  <2> QED
    BY <2>3, <2>4, <2>5, <2>6, <2>7 DEF TypeOK
<1>2. CASE stm_start_nested(t) \/ stm_commit_nested(t)
  <2> USE <1>2 DEF stm_start_nested, stm_commit_nested
  <2>1. SharedTypes' /\ SnapTypes' /\ SetTypes' /\ LocalTypes' /\ EaTypes' /\ HistTypes'
    BY UnchangedTypes
  <2>2. nesting' \in [Thread -> Nat] /\ UNCHANGED <<status, attr, ro>>
    BY DEF TypeOK, AttrTypes
  <2>3. AttrTypes'
    BY <2>2 DEF TypeOK, AttrTypes
  <2> QED
    BY <2>1, <2>3 DEF TypeOK
<1> QED
  BY <1>1, <1>2

\* The steps that change only the locals of a call.
LEMMA TypeCall ==
  ASSUME TypeOK, NEW t \in Thread,
         \/ \E a \in Addr : stm_load(t, a) \/ stm_unit_load(t, a)
         \/ \E a \in Addr, v \in Word, m \in SUBSET Byte :
              stm_store(t, a, v, m) \/ stm_unit_store(t, a, v, m)
         \/ stm_prepare_overflow(t) \/ ReadLock(t) \/ ReadValue(t)
         \/ ReadLockChanged(t) \/ ReadTooNew(t)
         \/ (\E r \in todo[t] : stm_validate(t, r)) \/ stm_abort(t)
         \/ UnitReadLockSame(t) \/ UnitReadReturn(t)
  PROVE  TypeOK'
<1>1. /\ SharedTypes' /\ AttrTypes' /\ SnapTypes' /\ SetTypes' /\ EaTypes'
      /\ HistTypes'
  BY UnchangedTypes DEF stm_load, stm_unit_load, stm_store, stm_unit_store,
     stm_prepare_overflow, ReadLock, ReadValue, ReadLockChanged, ReadTooNew,
     stm_validate, stm_abort, UnitReadLockSame, UnitReadReturn
<1>2. pc' \in [Thread -> Labels]
  BY DEF stm_load, stm_unit_load, stm_store, stm_unit_store,
     stm_prepare_overflow, ReadLock, ReadValue, ReadLockChanged, ReadTooNew,
     stm_validate, stm_abort, UnitReadLockSame, UnitReadReturn, EnterRollback,
     TypeOK, Labels, Goto
<1>3. LocalTypes'
  <2>0. Len(w_set[t]) \in Nat
    BY DEF TypeOK, SetTypes
  <2> USE DEF TypeOK, LocalTypes
  <2>1. CASE \E a \in Addr : stm_load(t, a) \/ stm_unit_load(t, a)
    <3>1. PICK a \in Addr : stm_load(t, a) \/ stm_unit_load(t, a)
      BY <2>1
    <3> QED
      BY <3>1, Parts DEF stm_load, stm_unit_load
  <2>2. CASE \E a \in Addr, v \in Word, m \in SUBSET Byte :
              stm_store(t, a, v, m) \/ stm_unit_store(t, a, v, m)
    BY <2>2, Parts DEF stm_store, stm_unit_store
  <2>3. CASE stm_prepare_overflow(t) \/ UnitReadLockSame(t)
    BY <2>3 DEF stm_prepare_overflow, UnitReadLockSame, localVars
  <2>4. CASE ReadLock(t) \/ ReadLockChanged(t)
    <3>1. locks[LockOf[arg[t].addr]] \in LockWord
      BY LockOfArg
    <3>2. l' \in [Thread -> LockWord] /\ value' \in [Thread -> Word]
      BY <2>4, <3>1, Builders DEF ReadLock, ReadLockChanged
    <3> QED
      BY <2>4, <3>2 DEF ReadLock, ReadLockChanged
  <2>5. CASE ReadValue(t)
    BY <2>5, LockOfArg DEF ReadValue
  <2>6. CASE ReadTooNew(t)
    <3>1. i' \in [Thread -> Nat]
      BY <2>0, <2>6 DEF ReadTooNew, EnterRollback
    <3> QED
      BY <2>6, <3>1 DEF ReadTooNew
  <2>7. CASE \E r \in todo[t] : stm_validate(t, r)
    BY <2>0, <2>7 DEF stm_validate, EnterRollback
  <2>8. CASE stm_abort(t)
    BY <2>0, <2>8 DEF stm_abort, EnterRollback
  <2>9. CASE UnitReadReturn(t)
    BY <2>9, Builders DEF UnitReadReturn
  <2> QED
    BY <2>1, <2>2, <2>3, <2>4, <2>5, <2>6, <2>7, <2>8, <2>9
<1> QED
  BY <1>1, <1>2, <1>3 DEF TypeOK

\* ReturnToApp keeps the types of what it changes.
LEMMA TypeReturn ==
  ASSUME TypeOK, NEW t \in Thread, ReturnToApp(t), standing' = standing
  PROVE  /\ pc' \in [Thread -> Labels]
         /\ cont' \in [Thread -> {"start", "read", "commit", "tick", "standing",
                                  "abort", "unit"}]
         /\ EaTypes'
<1>1. pc' \in [Thread -> Labels]
  BY DEF ReturnToApp, TypeOK, Labels, Goto
<1>2. cont' \in [Thread -> {"start", "read", "commit", "tick", "standing",
                            "abort", "unit"}]
  BY DEF ReturnToApp, TypeOK, LocalTypes
<1>3. EaTypes'
  BY DEF ReturnToApp, TypeOK, EaTypes
<1> QED
  BY <1>1, <1>2, <1>3

\* AddToReadSet keeps the types of what it changes.
LEMMA TypeAddToReadSet ==
  ASSUME TypeOK, NEW t \in Thread, AddToReadSet(t)
  PROVE  /\ r_set' \in [Thread -> SUBSET ReadEntry]
         /\ obs' \in [Thread -> SUBSET [addr: Addr, value: Word]]
         /\ arg' \in [Thread -> Argument]
         /\ l' \in [Thread -> LockWord]
         /\ value' \in [Thread -> Word]
<1> USE Builders, LockOfArg DEF AddToReadSet, TypeOK, LocalTypes
<1>1. [lock |-> LockOf[arg[t].addr], version |-> l[t].n] \in ReadEntry
  BY DEF ReadEntry
<1>2. r_set' \in [Thread -> SUBSET ReadEntry]
  BY <1>1 DEF SetTypes
<1>3. obs' \in [Thread -> SUBSET [addr: Addr, value: Word]]
  BY DEF HistTypes
<1>4. /\ arg' \in [Thread -> Argument]
      /\ l' \in [Thread -> LockWord]
      /\ value' \in [Thread -> Word]
  OBVIOUS
<1> QED
  BY <1>2, <1>3, <1>4

\* The end of a load.
LEMMA TypeLoad ==
  ASSUME TypeOK, NEW t \in Thread,
         \/ \E a \in Addr : stm_load_written(t, a)
         \/ ReadLockSame(t) \/ ReadRecheck(t)
  PROVE  TypeOK'
<1>1. CASE \E a \in Addr : stm_load_written(t, a)
  <2> USE <1>1 DEF stm_load_written
  <2>1. SharedTypes' /\ AttrTypes' /\ SnapTypes' /\ SetTypes' /\ HistTypes'
    BY UnchangedTypes
  <2>2. LocalTypes'
    BY TypeReturn DEF TypeOK, LocalTypes
  <2> QED
    BY <2>1, <2>2, TypeReturn DEF TypeOK
<1>2. CASE ReadLockSame(t) \/ ReadRecheck(t)
  <2>1. SharedTypes' /\ AttrTypes' /\ SnapTypes'
    BY <1>2, UnchangedTypes DEF ReadLockSame, ReadRecheck
  <2>2. CASE AddToReadSet(t) /\ ReturnToApp(t)
    <3> USE <1>2, <2>2, TypeAddToReadSet, TypeReturn DEF ReadLockSame, ReadRecheck
    <3>1. SetTypes'
      BY DEF TypeOK, SetTypes
    <3>2. LocalTypes'
      BY DEF TypeOK, LocalTypes
    <3>3. HistTypes'
      BY DEF TypeOK, HistTypes
    <3> QED
      BY <2>1, <3>1, <3>2, <3>3 DEF TypeOK
  <2>3. CASE ~(AddToReadSet(t) /\ ReturnToApp(t))
    <3>1. /\ ReadRecheck(t) /\ Goto(t, "read_value")
          /\ value' = [value EXCEPT ![t] = ZeroWord]
          /\ UNCHANGED <<r_set, obs, arg, l, cont, tx_on, recently_validated, w_set,
                         nb_acquired, standing, hist, snap, i, todo, now, ts>>
      BY <1>2, <2>3 DEF ReadLockSame, ReadRecheck
    <3>2. pc' \in [Thread -> Labels]
      BY <3>1 DEF TypeOK, Labels, Goto
    <3>3. SetTypes' /\ EaTypes' /\ HistTypes'
      BY <3>1, UnchangedTypes DEF setVars, eaVars, histVars
    <3>4. LocalTypes'
      BY <3>1, Builders DEF TypeOK, LocalTypes
    <3> QED
      BY <2>1, <3>2, <3>3, <3>4 DEF TypeOK
  <2> QED
    BY <2>2, <2>3
<1> QED
  BY <1>1, <1>2

\* Merging words yields a word.
LEMMA MergeType ==
  ASSUME NEW v \in Word, NEW w \in Word, NEW m \in SUBSET Byte
  PROVE  Merge(v, w, m) \in Word
  BY DEF Merge, Word

\* A function over an initial segment of the naturals is a sequence.
LEMMA FunctionIsSeq ==
  ASSUME NEW S, NEW m \in Nat, NEW f \in [1..m -> S]
  PROVE  f \in Seq(S)
  BY SeqDef, Zenon

\* A write set is a sequence of entries.
LEMMA WriteSetType ==
  ASSUME TypeOK, NEW t \in Thread
  PROVE  /\ w_set[t] \in Seq(WriteEntry) /\ Len(w_set[t]) \in Nat
         /\ DOMAIN w_set[t] = 1..Len(w_set[t])
         /\ \A n \in 1..Len(w_set[t]) :
              /\ w_set[t][n] \in WriteEntry
              /\ w_set[t][n].addr \in Addr /\ w_set[t][n].mask \in SUBSET Byte
              /\ w_set[t][n].value \in Word /\ w_set[t][n].version \in Nat
              /\ w_set[t][n].no_drop \in BOOLEAN
              /\ LockOf[w_set[t][n].addr] \in Lock
<1>1. w_set[t] \in Seq(WriteEntry)
  BY DEF TypeOK, SetTypes
<1>2. Len(w_set[t]) \in Nat /\ DOMAIN w_set[t] = 1..Len(w_set[t])
  BY <1>1, LenProperties
<1>3. \A n \in 1..Len(w_set[t]) : w_set[t][n] \in WriteEntry
  BY <1>1, ElementOfSeq
<1>4. \A e \in WriteEntry :
        /\ e.addr \in Addr /\ e.mask \in SUBSET Byte /\ e.value \in Word
        /\ e.version \in Nat /\ e.no_drop \in BOOLEAN
  BY DEF WriteEntry
<1> QED
  BY <1>1, <1>2, <1>3, <1>4, ConstantsAssumption

\* Buffering a word adds an entry, or changes the value of one: no entry has
\* to drop a lock if none had to before.
LEMMA BufferType ==
  ASSUME TypeOK, NEW t \in Thread, BufferWrite(t)
  PROVE  /\ w_set' \in [Thread -> Seq(WriteEntry)]
         /\ \A u \in Thread \ {t} : w_set'[u] = w_set[u]
         /\ (\A n \in DOMAIN w_set[t] : w_set[t][n].no_drop) =>
              \A n \in DOMAIN w_set'[t] : w_set'[t][n].no_drop
<1> DEFINE a == arg[t].addr
           entry == [addr |-> a, mask |-> arg[t].mask, value |-> arg[t].value,
                     version |-> locks[LockOf[a]].n, no_drop |-> TRUE]
           upd(e) == [e EXCEPT !.value = Merge(@, arg[t].value, arg[t].mask),
                               !.mask = @ \cup arg[t].mask]
           changed == [k \in DOMAIN w_set[t] |->
                         IF k \in Written(t, a) THEN upd(w_set[t][k]) ELSE w_set[t][k]]
           new == IF Written(t, a) = {} THEN Append(w_set[t], entry) ELSE changed
           Kept(s) == (\A n \in DOMAIN w_set[t] : w_set[t][n].no_drop) =>
                        \A n \in DOMAIN s : s[n].no_drop
<1>1. w_set' = [w_set EXCEPT ![t] = new]
  BY DEF BufferWrite
<1>2. entry \in WriteEntry /\ entry.no_drop
  BY LockOfArg, Parts DEF WriteEntry
<1>3. \A e \in WriteEntry : upd(e) \in WriteEntry /\ upd(e).no_drop = e.no_drop
  <2> SUFFICES ASSUME NEW e \in WriteEntry
               PROVE  upd(e) \in WriteEntry /\ upd(e).no_drop = e.no_drop
    OBVIOUS
  <2>1. Merge(e.value, arg[t].value, arg[t].mask) \in Word
    BY LockOfArg, MergeType DEF WriteEntry
  <2> QED
    BY <2>1, LockOfArg DEF WriteEntry
<1>4. Append(w_set[t], entry) \in Seq(WriteEntry) /\ Kept(Append(w_set[t], entry))
  <2>1. /\ Append(w_set[t], entry) \in Seq(WriteEntry)
        /\ Len(Append(w_set[t], entry)) = Len(w_set[t]) + 1
        /\ \A n \in 1..Len(w_set[t]) : Append(w_set[t], entry)[n] = w_set[t][n]
        /\ Append(w_set[t], entry)[Len(w_set[t]) + 1] = entry
    BY <1>2, WriteSetType, AppendProperties
  <2>2. DOMAIN Append(w_set[t], entry) = 1..(Len(w_set[t]) + 1)
    BY <2>1, LenProperties
  <2>3. \A n \in 1..(Len(w_set[t]) + 1) :
          n \in 1..Len(w_set[t]) \/ n = Len(w_set[t]) + 1
    BY WriteSetType
  <2> HIDE DEF entry
  <2> QED
    BY <1>2, <2>1, <2>2, <2>3, WriteSetType
<1>5. changed \in Seq(WriteEntry) /\ Kept(changed)
  <2>1. \A n \in DOMAIN w_set[t] :
          changed[n] \in WriteEntry /\ changed[n].no_drop = w_set[t][n].no_drop
    BY <1>3, WriteSetType
  <2>2. DOMAIN changed = 1..Len(w_set[t])
    BY WriteSetType
  <2>3. changed \in [1..Len(w_set[t]) -> WriteEntry]
    BY <2>1, <2>2, WriteSetType
  <2> HIDE DEF changed
  <2>4. changed \in Seq(WriteEntry)
    BY <2>3, WriteSetType, FunctionIsSeq
  <2> QED
    BY <2>1, <2>2, <2>4, WriteSetType
<1>6. new \in Seq(WriteEntry) /\ Kept(new)
  BY <1>4, <1>5
<1>7. w_set'[t] = new
  BY <1>1 DEF TypeOK, SetTypes
<1> HIDE DEF new
<1> QED
  BY <1>1, <1>6, <1>7 DEF TypeOK, SetTypes

\* A store.
LEMMA TypeWrite ==
  ASSUME TypeOK, NEW t \in Thread, stm_store_ro(t) \/ stm_write(t)
  PROVE  TypeOK'
<1>0. Len(w_set[t]) \in Nat
  BY WriteSetType
<1>1. CASE stm_store_ro(t)
  <2> USE <1>1 DEF stm_store_ro
  <2>1. SharedTypes' /\ SnapTypes' /\ SetTypes' /\ EaTypes' /\ HistTypes'
    BY UnchangedTypes
  <2>2. pc' \in [Thread -> Labels]
    BY DEF EnterRollback, TypeOK, Labels, Goto
  <2>3. AttrTypes'
    BY DEF TypeOK, AttrTypes
  <2>4. LocalTypes'
    BY <1>0 DEF EnterRollback, TypeOK, LocalTypes
  <2> QED
    BY <2>1, <2>2, <2>3, <2>4 DEF TypeOK
<1>2. CASE stm_write(t) /\ WriteInvalid(t)
  <2>0. /\ EnterRollback(t) /\ arg' = [arg EXCEPT ![t] = NoArg]
        /\ UNCHANGED <<sharedVars, attrVars, snapVars, r_set, nb_acquired, standing,
                       histVars, l, value, todo, now, ts, w_set, cont, tx_on,
                       recently_validated>>
    BY <1>2 DEF stm_write
  <2>1. SharedTypes' /\ AttrTypes' /\ SnapTypes' /\ SetTypes' /\ EaTypes' /\ HistTypes'
    BY <2>0, UnchangedTypes DEF setVars, eaVars
  <2>2. pc' \in [Thread -> Labels]
    BY <2>0 DEF EnterRollback, TypeOK, Labels, Goto
  <2>3. LocalTypes'
    BY <1>0, <2>0, Builders DEF EnterRollback, TypeOK, LocalTypes
  <2> QED
    BY <2>1, <2>2, <2>3 DEF TypeOK
<1>3. CASE stm_write(t) /\ ~WriteInvalid(t)
  <2>0. /\ BufferWrite(t) /\ ReturnToApp(t) /\ arg' = [arg EXCEPT ![t] = NoArg]
        /\ UNCHANGED <<sharedVars, attrVars, snapVars, r_set, nb_acquired, standing,
                       histVars, l, value, todo, now, ts, i>>
    BY <1>3 DEF stm_write
  <2>1. SharedTypes' /\ AttrTypes' /\ SnapTypes' /\ HistTypes'
    BY <2>0, UnchangedTypes
  <2>2. SetTypes'
    BY <2>0, BufferType DEF TypeOK, SetTypes
  <2>3. LocalTypes'
    BY <2>0, TypeReturn, Builders DEF TypeOK, LocalTypes
  <2> QED
    BY <2>0, <2>1, <2>2, <2>3, TypeReturn DEF TypeOK
<1> QED
  BY <1>1, <1>2, <1>3

\* Extensions, their bounds, and ticks.
LEMMA TypeExtend ==
  ASSUME TypeOK, NEW t \in Thread,
         \/ stm_extend(t) \/ ExtendOk(t) \/ Tick(t)
         \/ \E e \in BOOLEAN, b \in Bounds : stm_set_extension(t, e, b)
  PROVE  TypeOK'
<1>1. CASE stm_extend(t)
  <2> USE <1>1 DEF stm_extend
  <2>1. SharedTypes' /\ AttrTypes' /\ SnapTypes' /\ SetTypes' /\ HistTypes'
    BY UnchangedTypes
  <2>2. pc' \in [Thread -> Labels]
    BY DEF EnterRollback, TypeOK, Labels, Goto
  <2>3. i' \in [Thread -> Nat]
    BY WriteSetType DEF EnterRollback, TypeOK, LocalTypes
  <2>4. now' \in [Thread -> Nat] /\ todo' \in [Thread -> SUBSET ReadEntry]
    BY DEF TypeOK, LocalTypes, SharedTypes, SetTypes
  <2>5. LocalTypes'
    BY <2>3, <2>4 DEF TypeOK, LocalTypes
  <2>6. (recently_validated[t] \/ tx_on[t]) \in BOOLEAN
    OBVIOUS
  <2>7. recently_validated' \in [Thread -> BOOLEAN]
    BY <2>6, Zenon DEF TypeOK, EaTypes
  <2>8. EaTypes'
    BY <2>7 DEF TypeOK, EaTypes
  <2> QED
    BY <2>1, <2>2, <2>5, <2>8 DEF TypeOK
<1>2. CASE ExtendOk(t)
  <2> USE <1>2 DEF ExtendOk
  <2>1. SharedTypes' /\ AttrTypes' /\ SetTypes'
    BY UnchangedTypes
  <2>2. pc' \in [Thread -> Labels]
    BY DEF TypeOK, Labels, Goto
  <2>3. SnapTypes' /\ snap' \in [Thread -> Nat]
    BY DEF TypeOK, SnapTypes, LocalTypes, HistTypes
  <2>4. LocalTypes'
    BY DEF TypeOK, LocalTypes
  <2>5. EaTypes'
    BY ConstantsAssumption DEF TypeOK, EaTypes
  <2>6. HistTypes'
    BY <2>3 DEF TypeOK, HistTypes
  <2> QED
    BY <2>1, <2>2, <2>3, <2>4, <2>5, <2>6 DEF TypeOK
<1>3. CASE TickDeliver(t)
  <2> USE <1>3 DEF TickDeliver
  <2>1. SharedTypes' /\ AttrTypes' /\ SnapTypes' /\ SetTypes' /\ HistTypes'
    BY UnchangedTypes
  <2>2. pc' \in [Thread -> Labels]
    BY DEF TypeOK, Labels, Goto
  <2>3. LocalTypes'
    BY DEF TypeOK, LocalTypes
  <2>4. EaTypes'
    BY DEF TypeOK, EaTypes
  <2> QED
    BY <2>1, <2>2, <2>3, <2>4 DEF TypeOK
<1>4. CASE TickRecentlyValidated(t) \/ TickStanding(t)
  <2> USE <1>4 DEF TickRecentlyValidated, TickStanding
  <2>1. SharedTypes' /\ AttrTypes' /\ SnapTypes' /\ SetTypes' /\ LocalTypes' /\ HistTypes'
    BY UnchangedTypes
  <2>2. EaTypes'
    BY DEF TypeOK, EaTypes
  <2> QED
    BY <2>1, <2>2 DEF TypeOK
<1>5. CASE \E e \in BOOLEAN, b \in Bounds : stm_set_extension(t, e, b)
  <2>1. PICK e \in BOOLEAN, b \in Bounds : stm_set_extension(t, e, b)
    BY <1>5
  <2>2. SharedTypes' /\ AttrTypes' /\ SetTypes' /\ LocalTypes' /\ EaTypes' /\ HistTypes'
    BY <2>1, UnchangedTypes DEF stm_set_extension
  <2>3. SnapTypes'
    BY <2>1, ConstantsAssumption DEF stm_set_extension, TypeOK, SnapTypes
  <2> QED
    BY <2>1, <2>2, <2>3 DEF stm_set_extension, TypeOK
<1> QED
  BY <1>1, <1>2, <1>3, <1>4, <1>5 DEF Tick

\* The words a commit installs.
LEMMA InstalledType ==
  ASSUME TypeOK, NEW t \in Thread, NEW v \in Nat
  PROVE  Installed(t, v) \subseteq CommittedWrite
<1> SUFFICES ASSUME NEW k \in DOMAIN w_set[t]
             PROVE  [ts |-> v, addr |-> w_set[t][k].addr,
                     value |-> Merge(mem[w_set[t][k].addr], w_set[t][k].value,
                                     w_set[t][k].mask)] \in CommittedWrite
  BY DEF Installed
<1>1. w_set[t][k].addr \in Addr /\ w_set[t][k].value \in Word
      /\ w_set[t][k].mask \in SUBSET Byte
  BY WriteSetType
<1>2. mem[w_set[t][k].addr] \in Word
  BY <1>1 DEF TypeOK, SharedTypes
<1>3. Merge(mem[w_set[t][k].addr], w_set[t][k].value, w_set[t][k].mask) \in Word
  BY <1>1, <1>2, MergeType
<1> QED
  BY <1>1, <1>3 DEF CommittedWrite

\* What Acquire does to locks and write set.
LEMMA AcquireEffect ==
  ASSUME TypeOK, NEW t \in Thread, NEW k \in Lock, i[t] \in 1..Len(w_set[t]),
         Acquire(t, k)
  PROVE  /\ locks' \in [Lock -> LockWord]
         /\ locks'[k] = LOCK_SET_ADDR_WRITE(t, i[t])
         /\ \A j \in Lock \ {k} : locks'[j] = locks[j]
         /\ w_set' \in [Thread -> Seq(WriteEntry)]
         /\ \A u \in Thread \ {t} : w_set'[u] = w_set[u]
         /\ Len(w_set'[t]) = Len(w_set[t]) /\ DOMAIN w_set'[t] = 1..Len(w_set[t])
         /\ \A n \in 1..Len(w_set[t]) :
              /\ w_set'[t][n].addr = w_set[t][n].addr
              /\ w_set'[t][n].no_drop <=> (n # i[t] /\ w_set[t][n].no_drop)
         /\ nb_acquired' = [nb_acquired EXCEPT ![t] = @ + 1]
<1> DEFINE old == w_set[t][i[t]]
           e == [old EXCEPT !.no_drop = FALSE, !.version = locks[k].n]
           new == [w_set[t] EXCEPT ![i[t]] = e]
<1>1. old \in WriteEntry /\ locks[k].n \in Nat /\ i[t] \in Nat
  BY WriteSetType, Parts DEF TypeOK, SharedTypes
<1>2. e \in WriteEntry /\ e.addr = old.addr /\ e.no_drop = FALSE
  BY <1>1 DEF WriteEntry
<1>3. w_set' = [w_set EXCEPT ![t] = new]
  BY <1>1 DEF Acquire, TypeOK, SetTypes
<1> HIDE DEF e, old
<1>4. /\ new \in Seq(WriteEntry) /\ Len(new) = Len(w_set[t])
      /\ \A n \in 1..Len(w_set[t]) : new[n] = IF n = i[t] THEN e ELSE w_set[t][n]
  BY <1>2, WriteSetType, ExceptSeq
<1>5. DOMAIN new = 1..Len(w_set[t])
  BY <1>4, LenProperties
<1> HIDE DEF new
<1>6. w_set'[t] = new /\ w_set' \in [Thread -> Seq(WriteEntry)]
      /\ \A u \in Thread \ {t} : w_set'[u] = w_set[u]
  BY <1>3, <1>4 DEF TypeOK, SetTypes
<1>7. \A n \in 1..Len(w_set[t]) :
              /\ w_set'[t][n].addr = w_set[t][n].addr
              /\ w_set'[t][n].no_drop <=> (n # i[t] /\ w_set[t][n].no_drop)
  <2> SUFFICES ASSUME NEW n \in 1..Len(w_set[t])
               PROVE  /\ new[n].addr = w_set[t][n].addr
                      /\ new[n].no_drop <=> (n # i[t] /\ w_set[t][n].no_drop)
    BY <1>6
  <2>1. CASE n = i[t]
    BY <1>2, <1>4, <2>1 DEF old
  <2>2. CASE n # i[t]
    BY <1>4, <2>2, WriteSetType
  <2> QED
    BY <2>1, <2>2
<1>8. LOCK_SET_ADDR_WRITE(t, i[t]) \in LockWord
  BY <1>1 DEF LOCK_SET_ADDR_WRITE, LockWord
<1>9. /\ locks' \in [Lock -> LockWord]
      /\ locks'[k] = LOCK_SET_ADDR_WRITE(t, i[t])
      /\ \A j \in Lock \ {k} : locks'[j] = locks[j]
  BY <1>8 DEF Acquire, TypeOK, SharedTypes
<1> QED
  BY <1>4, <1>5, <1>6, <1>7, <1>9 DEF Acquire

\* Where a loop over the write set stands.
LEMMA LoopPosition ==
  ASSUME Inv, NEW t \in Thread
  PROVE  /\ i[t] \in Nat
         /\ pc[t] = "acquire" /\ i[t] > 0 => i[t] \in 1..Len(w_set[t])
         /\ pc[t] \in {"write_back", "release"} => i[t] \in 1..Len(w_set[t])
         /\ pc[t] = "rollback" /\ nb_acquired[t] > 0 => i[t] \in 1..Len(w_set[t])
<1>1. TypeOK /\ WriteSetInv(t)
  BY DEF Inv
<1>2. i[t] \in Nat /\ Len(w_set[t]) \in Nat
  BY <1>1, WriteSetType DEF TypeOK, LocalTypes
<1>3. ASSUME pc[t] = "rollback", nb_acquired[t] > 0 PROVE i[t] \in 1..Len(w_set[t])
  <2>1. CASE i[t] = 0
    <3>1. Droppers(t, i[t]) = {}
      BY <2>1 DEF Droppers
    <3> QED
      BY <1>1, <1>3, <3>1, FS_EmptySet DEF WriteSetInv
  <2> QED
    BY <1>1, <1>2, <1>3, <2>1 DEF WriteSetInv
<1> QED
  BY <1>1, <1>2, <1>3 DEF WriteSetInv

\* The first half of stm_commit: lock, take a timestamp, validate.
LEMMA TypeCommit ==
  ASSUME Inv, NEW t \in Thread,
         stm_commit(t) \/ CommitAcquire(t) \/ CommitClock(t) \/ CommitValid(t)
  PROVE  TypeOK'
<1>0. TypeOK /\ Len(w_set[t]) \in Nat
  BY WriteSetType DEF Inv
<1>1. CASE stm_commit(t)
  <2> USE <1>0, <1>1 DEF stm_commit
  <2>1. SharedTypes' /\ SnapTypes' /\ SetTypes' /\ EaTypes' /\ HistTypes'
    BY UnchangedTypes
  <2>2. pc' \in [Thread -> Labels]
    BY DEF TypeOK, Labels, Goto
  <2>3. AttrTypes'
    BY DEF TypeOK, AttrTypes
  <2>4. LocalTypes'
    BY DEF TypeOK, LocalTypes
  <2> QED
    BY <2>1, <2>2, <2>3, <2>4 DEF TypeOK
<1>2. CASE CommitAcquire(t)
  <2> DEFINE k == LockOf[w_set[t][i[t]].addr]
  <2>1. i[t] \in 1..Len(w_set[t]) /\ k \in Lock
    BY <1>0, <1>2, LoopPosition, WriteSetType DEF CommitAcquire, At
  <2>2. /\ AttrTypes' /\ SnapTypes' /\ EaTypes' /\ HistTypes'
        /\ UNCHANGED <<clock, mem, r_set, arg, l, value, todo, now, ts, cont>>
    BY <1>0, <1>2, UnchangedTypes DEF CommitAcquire
  <2>3. pc' \in [Thread -> Labels]
    BY <1>0, <1>2 DEF CommitAcquire, EnterRollback, Goto, TypeOK, Labels
  <2>4. i' \in [Thread -> Nat]
    <3>1. i[t] - 1 \in Nat /\ i \in [Thread -> Nat]
      BY <1>0, <2>1 DEF TypeOK, LocalTypes
    <3>2. i' = [i EXCEPT ![t] = i[t] - 1] \/ i' = [i EXCEPT ![t] = Len(w_set[t])]
      BY <1>2, <3>1 DEF CommitAcquire, EnterRollback
    <3> QED
      BY <1>0, <3>1, <3>2
  <2>5. CASE Acquire(t, k)
    <3>1. /\ locks' \in [Lock -> LockWord] /\ w_set' \in [Thread -> Seq(WriteEntry)]
          /\ nb_acquired' = [nb_acquired EXCEPT ![t] = @ + 1]
      BY <1>0, <2>1, <2>5, AcquireEffect
    <3>2. SharedTypes'
      BY <1>0, <2>2, <3>1 DEF TypeOK, SharedTypes
    <3>3. SetTypes'
      BY <1>0, <2>2, <3>1 DEF TypeOK, SetTypes
    <3>4. LocalTypes'
      BY <1>0, <2>2, <2>4 DEF TypeOK, LocalTypes
    <3> QED
      BY <2>2, <2>3, <3>2, <3>3, <3>4 DEF TypeOK
  <2>6. CASE UNCHANGED <<locks, w_set, nb_acquired>>
    <3>1. SharedTypes' /\ SetTypes'
      BY <1>0, <2>2, <2>6, UnchangedTypes DEF sharedVars, setVars
    <3>2. LocalTypes'
      BY <1>0, <2>2, <2>4 DEF TypeOK, LocalTypes
    <3> QED
      BY <2>2, <2>3, <3>1, <3>2 DEF TypeOK
  <2> QED
    BY <1>2, <2>5, <2>6 DEF CommitAcquire
<1>3. CASE CommitClock(t)
  <2> USE <1>0, <1>3 DEF CommitClock
  <2>1. AttrTypes' /\ SnapTypes' /\ SetTypes' /\ EaTypes'
    BY UnchangedTypes
  <2>2. SharedTypes' /\ clock + 1 \in Nat
    BY DEF TypeOK, SharedTypes
  <2>3. pc' \in [Thread -> Labels]
    BY DEF TypeOK, Labels, Goto
  <2>4. todo' \in [Thread -> SUBSET ReadEntry]
    BY DEF TypeOK, LocalTypes, SetTypes
  <2>5. LocalTypes'
    <3>1. ts' \in [Thread -> Nat] /\ i' \in [Thread -> Nat]
      BY <2>2 DEF TypeOK, LocalTypes
    <3>2. cont' \in [Thread -> {"start", "read", "commit", "tick", "standing",
                                "abort", "unit"}]
      BY DEF TypeOK, LocalTypes
    <3> QED
      BY <2>4, <3>1, <3>2 DEF TypeOK, LocalTypes
  <2>6. HistTypes'
    BY <2>2, InstalledType DEF TypeOK, HistTypes
  <2> QED
    BY <2>1, <2>2, <2>3, <2>5, <2>6 DEF TypeOK
<1>4. CASE CommitValid(t)
  <2> USE <1>0, <1>4 DEF CommitValid
  <2>1. SharedTypes' /\ AttrTypes' /\ SnapTypes' /\ SetTypes' /\ EaTypes'
    BY UnchangedTypes
  <2>2. pc' \in [Thread -> Labels]
    BY DEF TypeOK, Labels, Goto
  <2>3. LocalTypes' /\ ts[t] \in Nat
    BY DEF TypeOK, LocalTypes
  <2>4. HistTypes'
    BY <2>3, InstalledType DEF TypeOK, HistTypes
  <2> QED
    BY <2>1, <2>2, <2>3, <2>4 DEF TypeOK
<1> QED
  BY <1>1, <1>2, <1>3, <1>4

\* The second half: write back, drop the locks.
LEMMA TypeWriteBack ==
  ASSUME Inv, NEW t \in Thread, CommitStore(t) \/ CommitRelease(t) \/ CommitEnd(t)
  PROVE  TypeOK'
<1>0. TypeOK /\ Len(w_set[t]) \in Nat
  BY WriteSetType DEF Inv
<1>1. CASE CommitStore(t) \/ CommitRelease(t)
  <2> DEFINE w == w_set[t][i[t]]
  <2>1. /\ i[t] \in 1..Len(w_set[t]) /\ i[t] \in Nat
        /\ w.addr \in Addr /\ w.value \in Word /\ w.mask \in SUBSET Byte
        /\ LockOf[w.addr] \in Lock /\ mem[w.addr] \in Word
    <3>1. i[t] \in 1..Len(w_set[t])
      BY <1>1, LoopPosition DEF CommitStore, CommitRelease, At
    <3> QED
      BY <1>0, <3>1, WriteSetType DEF TypeOK, SharedTypes
  <2>2. AttrTypes' /\ SnapTypes' /\ SetTypes' /\ EaTypes' /\ HistTypes'
    BY <1>0, <1>1, UnchangedTypes DEF CommitStore, CommitRelease
  <2>3. pc' \in [Thread -> Labels]
    BY <1>0, <1>1 DEF CommitStore, CommitRelease, NextWriteBack, Goto, TypeOK, Labels
  <2>4. i' \in [Thread -> Nat]
    BY <1>0, <1>1 DEF CommitStore, CommitRelease, NextWriteBack, TypeOK, LocalTypes
  <2>5. LocalTypes'
    BY <1>0, <1>1, <2>4 DEF CommitStore, CommitRelease, TypeOK, LocalTypes
  <2>6. SharedTypes'
    <3>1. CASE CommitStore(t)
      <4>1. Merge(mem[w.addr], w.value, w.mask) \in Word
        BY <2>1, MergeType
      <4>2. mem' = [mem EXCEPT ![w.addr] = Merge(mem[w.addr], w.value, w.mask)]
        BY <1>0, <2>1, <3>1 DEF CommitStore, StoreEntry, TypeOK, SharedTypes
      <4> QED
        BY <1>0, <2>1, <3>1, <4>1, <4>2 DEF CommitStore, TypeOK, SharedTypes
    <3>2. CASE CommitRelease(t)
      BY <1>0, <2>1, <3>2, Builders DEF CommitRelease, TypeOK, SharedTypes, LocalTypes
    <3> QED
      BY <1>1, <3>1, <3>2
  <2> QED
    BY <2>2, <2>3, <2>5, <2>6 DEF TypeOK
<1>2. CASE CommitEnd(t)
  <2> USE <1>0, <1>2 DEF CommitEnd
  <2>1. SharedTypes' /\ SnapTypes' /\ SetTypes'
    BY UnchangedTypes
  <2>2. pc' \in [Thread -> Labels]
    BY DEF TypeOK, Labels, Goto
  <2>3. AttrTypes'
    BY DEF TypeOK, AttrTypes
  <2>4. LocalTypes'
    BY DEF TypeOK, LocalTypes
  <2>5. EaTypes'
    BY DEF TypeOK, EaTypes
  <2>6. HistTypes'
    BY DEF TypeOK, HistTypes
  <2> QED
    BY <2>1, <2>2, <2>3, <2>4, <2>5, <2>6 DEF TypeOK
<1> QED
  BY <1>1, <1>2

\* stm_rollback.
LEMMA TypeRollback ==
  ASSUME Inv, NEW t \in Thread, RollbackRelease(t) \/ RollbackEnd(t)
  PROVE  TypeOK'
<1>0. TypeOK
  BY DEF Inv
<1>1. CASE RollbackRelease(t)
  <2> DEFINE w == w_set[t][i[t]]
  <2>1. /\ i[t] \in 1..Len(w_set[t]) /\ i[t] - 1 \in Nat
        /\ LockOf[w.addr] \in Lock /\ w.version \in Nat
    <3>1. i[t] \in 1..Len(w_set[t])
      BY <1>1, LoopPosition DEF RollbackRelease, At
    <3> QED
      BY <1>0, <3>1, WriteSetType
  <2>2. AttrTypes' /\ SnapTypes' /\ EaTypes' /\ HistTypes'
    BY <1>0, <1>1, UnchangedTypes DEF RollbackRelease
  <2>3. LocalTypes'
    BY <1>0, <1>1, <2>1 DEF RollbackRelease, TypeOK, LocalTypes
  <2>4. SetTypes'
    <3>1. nb_acquired[t] - 1 \in Nat /\ nb_acquired \in [Thread -> Nat]
      BY <1>0, <1>1 DEF RollbackRelease, TypeOK, SetTypes
    <3>2. nb_acquired' \in [Thread -> Nat]
      BY <1>1, <3>1 DEF RollbackRelease
    <3> QED
      BY <1>0, <1>1, <3>2 DEF RollbackRelease, TypeOK, SetTypes
  <2>5. SharedTypes'
    BY <1>0, <1>1, <2>1, Builders DEF RollbackRelease, TypeOK, SharedTypes
  <2> QED
    BY <1>0, <1>1, <2>2, <2>3, <2>4, <2>5 DEF RollbackRelease, TypeOK
<1>2. CASE RollbackEnd(t)
  <2> USE <1>0, <1>2 DEF RollbackEnd
  <2>1. SharedTypes' /\ SnapTypes' /\ SetTypes' /\ EaTypes'
    BY UnchangedTypes
  <2>2. pc' \in [Thread -> Labels]
    BY DEF TypeOK, Labels, Goto
  <2>3. AttrTypes'
    BY DEF TypeOK, AttrTypes
  <2>4. LocalTypes'
    BY Builders DEF TypeOK, LocalTypes
  <2>5. HistTypes'
    BY DEF TypeOK, HistTypes
  <2> QED
    BY <2>1, <2>2, <2>3, <2>4, <2>5 DEF TypeOK
<1> QED
  BY <1>1, <1>2

\* Unit stores.
LEMMA TypeUnit ==
  ASSUME TypeOK, NEW t \in Thread,
         UnitLock(t) \/ UnitStore(t) \/ UnitClock(t) \/ UnitRelease(t)
  PROVE  TypeOK'
<1>0. LockOf[arg[t].addr] \in Lock /\ arg[t].addr \in Addr /\ arg[t].value \in Word
  BY LockOfArg
<1>1. AttrTypes' /\ SnapTypes' /\ SetTypes' /\ EaTypes'
  BY UnchangedTypes DEF UnitLock, UnitStore, UnitClock, UnitRelease
<1>2. pc' \in [Thread -> Labels]
  BY DEF UnitLock, UnitStore, UnitClock, UnitRelease, TypeOK, Labels, Goto
<1>3. SharedTypes'
  <2>1. CASE UnitLock(t) \/ UnitStore(t)
    BY <1>0, <2>1, Builders DEF UnitLock, UnitStore, TypeOK, SharedTypes
  <2>2. CASE UnitClock(t)
    BY <2>2 DEF UnitClock, TypeOK, SharedTypes
  <2>3. CASE UnitRelease(t)
    BY <1>0, <2>3, Builders DEF UnitRelease, UnitReleaseVersion, TypeOK, SharedTypes,
       LocalTypes
  <2> QED
    BY <2>1, <2>2, <2>3
<1>4. LocalTypes'
  <2>1. CASE UnitLock(t) \/ UnitRelease(t)
    <3>1. arg' \in [Thread -> Argument] /\ ts' \in [Thread -> Nat]
          /\ cont' \in [Thread -> {"start", "read", "commit", "tick", "standing",
                                   "abort", "unit"}]
      BY <2>1, Builders DEF UnitLock, UnitRelease, TypeOK, LocalTypes
    <3> QED
      BY <2>1, <3>1 DEF UnitLock, UnitRelease, TypeOK, LocalTypes
  <2>2. CASE UnitStore(t)
    BY <2>2, UnchangedTypes DEF UnitStore
  <2>3. CASE UnitClock(t)
    BY <2>3 DEF UnitClock, TypeOK, LocalTypes, SharedTypes
  <2> QED
    BY <2>1, <2>2, <2>3
<1>5. HistTypes'
  <2>1. CASE UnitClock(t)
    <3>1. [ts |-> clock + 1, addr |-> arg[t].addr, value |-> arg[t].value]
            \in CommittedWrite
      BY <1>0 DEF CommittedWrite, TypeOK, SharedTypes
    <3> QED
      BY <2>1, <3>1 DEF UnitClock, TypeOK, HistTypes
  <2>2. CASE UnitLock(t) \/ UnitStore(t) \/ UnitRelease(t)
    BY <2>2, UnchangedTypes DEF UnitLock, UnitStore, UnitRelease
  <2> QED
    BY <2>1, <2>2
<1> QED
  BY <1>1, <1>2, <1>3, <1>4, <1>5 DEF TypeOK

\* The clock rollover.
LEMMA TypeRollover ==
  ASSUME TypeOK, rollover_clock
  PROVE  TypeOK'
<1> USE DEF rollover_clock
<1>1. AttrTypes' /\ SnapTypes' /\ SetTypes' /\ LocalTypes' /\ EaTypes'
  BY UnchangedTypes
<1>2. pc' \in [Thread -> Labels]
  BY DEF TypeOK, Labels
<1>3. SharedTypes'
  BY Builders DEF TypeOK, SharedTypes
<1>4. InitialHistory(mem) \subseteq CommittedWrite
  BY DEF InitialHistory, CommittedWrite, TypeOK, SharedTypes
<1>5. HistTypes'
  BY <1>4 DEF TypeOK, HistTypes
<1> QED
  BY <1>1, <1>2, <1>3, <1>5 DEF TypeOK

-----------------------------------------------------------------------------
(***************************************************************************)
(* What a step of t does to the other threads                              *)
(***************************************************************************)
\* t leaves the descriptors of the others alone.
OthersSame(t) ==
  \A u \in Thread \ {t} :
    /\ pc'[u] = pc[u] /\ w_set'[u] = w_set[u] /\ i'[u] = i[u] /\ arg'[u] = arg[u]
    /\ nb_acquired'[u] = nb_acquired[u] /\ cont'[u] = cont[u]

\* A thread keeps its part of the invariant while others change only locks
\* that it does not own.
LEMMA OthersKept ==
  ASSUME NEW t \in Thread, NEW u \in Thread \ {t},
         WriteSetInv(u), Owns(u), Drops(u), OthersSame(t),
         \A k \in Lock : \/ locks'[k] = locks[k]
                         \/ locks[k].owner # u /\ locks'[k].owner # u
  PROVE  WriteSetInv(u)' /\ Owns(u)' /\ (TypeOK => Drops(u)')
<1>1. /\ pc'[u] = pc[u] /\ w_set'[u] = w_set[u] /\ i'[u] = i[u]
      /\ nb_acquired'[u] = nb_acquired[u] /\ cont'[u] = cont[u]
  BY DEF OthersSame
<1>2. WriteSetInv(u)'
  BY <1>1 DEF WriteSetInv, Clean, Droppers
<1>3. \A n : Pending(u, n)' <=> Pending(u, n)
  BY <1>1 DEF Pending, At
<1>4. Owns(u)'
  BY <1>1, <1>3 DEF Owns
<1>5. ASSUME TypeOK PROVE Drops(u)'
  <2> SUFFICES ASSUME pc[u] \in Committing, NEW n \in DOMAIN w_set[u],
                      ~w_set[u][n].no_drop, Pending(u, n)
               PROVE  locks'[LockOf[w_set[u][n].addr]] = LOCK_SET_ADDR_WRITE(u, n)
    BY <1>1, <1>3 DEF Drops, LOCK_SET_ADDR_WRITE
  <2>1. LockOf[w_set[u][n].addr] \in Lock
    BY <1>5, WriteSetType
  <2>2. locks[LockOf[w_set[u][n].addr]] = LOCK_SET_ADDR_WRITE(u, n)
    BY DEF Drops
  <2>3. locks[LockOf[w_set[u][n].addr]].owner = u
    BY <2>2 DEF LOCK_SET_ADDR_WRITE
  <2> QED
    BY <2>1, <2>2, <2>3
<1> QED
  BY <1>2, <1>4, <1>5

\* Unit stores keep their locks while t neither starts nor ends one.
LEMMA UnitKept ==
  ASSUME UnitOwns, NEW t \in Thread, OthersSame(t),
         pc'[t] \in UnitStoring <=> pc[t] \in UnitStoring,
         pc'[t] \in UnitStoring => arg'[t] = arg[t],
         \A k \in Lock : locks'[k].owner = UnitOwner <=> locks[k].owner = UnitOwner,
         TypeOK
  PROVE  UnitOwns'
<1>1. \A u \in Thread : /\ pc'[u] \in UnitStoring <=> pc[u] \in UnitStoring
                        /\ pc'[u] \in UnitStoring => arg'[u] = arg[u]
  BY DEF OthersSame
<1>2. \A u \in Thread : LockOf[arg[u].addr] \in Lock
  BY LockOfArg
<1> QED
  BY <1>1, <1>2 DEF UnitOwns

-----------------------------------------------------------------------------
(***************************************************************************)
(* Steps that change no lock                                               *)
(***************************************************************************)
\* A thread that is not committing, or has acquired nothing, owns no lock.
LEMMA OwnsNothing ==
  ASSUME TypeOK, NEW t \in Thread, Owns(t), pc[t] \notin Committing \/ Clean(t),
         NEW k \in Lock
  PROVE  locks[k].owner # t
  BY DEF Owns, Clean

\* A thread that owns nothing before and has nothing to drop after.
LEMMA QuietStep ==
  ASSUME Inv, TypeOK', NEW t \in Thread, OthersSame(t), locks' = locks,
         pc[t] \notin Committing \/ Clean(t),
         pc'[t] \notin Committing \/ Clean(t)',
         pc'[t] \in UnitStoring <=> pc[t] \in UnitStoring,
         pc'[t] \in UnitStoring => arg'[t] = arg[t],
         WriteSetInv(t)'
  PROVE  Inv'
<1>1. \A k \in Lock : locks'[k].owner # t
  BY OwnsNothing DEF Inv
<1>2. Owns(t)'
  BY <1>1 DEF Owns
<1>3. Drops(t)'
  BY DEF Drops, Clean
<1>4. UnitOwns'
  BY UnitKept DEF Inv
<1>5. \A u \in Thread \ {t} : WriteSetInv(u)' /\ Owns(u)' /\ Drops(u)'
  BY OthersKept DEF Inv
<1> QED
  BY <1>2, <1>3, <1>4, <1>5 DEF Inv

Outside == {"idle", "prepare", "barrier", "end", "unit_read_lock",
            "unit_read_value", "unit_read_lock2", "unit_read_return", "unit_lock"}

\* Steps outside of transactions.
LEMMA OutsideStep ==
  ASSUME Inv, TypeOK', NEW t \in Thread, OthersSame(t), locks' = locks,
         pc[t] \in Outside, pc'[t] \in Outside
  PROVE  Inv'
<1>1. /\ pc[t] \notin Committing /\ pc'[t] \notin Committing
      /\ pc[t] \notin UnitStoring /\ pc'[t] \notin UnitStoring
  BY DEF Outside, Committing, UnitStoring
<1>2. WriteSetInv(t)'
  BY DEF WriteSetInv, Outside, Running
<1> QED
  BY <1>1, <1>2, QuietStep

\* Nothing acquired: nothing to drop.
LEMMA CleanDroppers ==
  ASSUME TypeOK, NEW t \in Thread, Clean(t)
  PROVE  Cardinality(Droppers(t, Len(w_set[t]))) = 0
<1>1. Droppers(t, Len(w_set[t])) = {}
  BY WriteSetType DEF Droppers, Clean
<1> QED
  BY <1>1, FS_EmptySet

\* In application code, in a load or store, or validating an extension.
InBody(t) == pc[t] \in Running \/ (pc[t] = "validate" /\ cont[t] # "commit")

LEMMA BodyClean ==
  ASSUME Inv, NEW t \in Thread, InBody(t)
  PROVE  Clean(t) /\ pc[t] \notin UnitStoring
  BY DEF Inv, WriteSetInv, InBody, Running, UnitStoring

\* Steps of a running transaction, up to the start of its commit or rollback.
LEMMA BodyStep ==
  ASSUME Inv, TypeOK', NEW t \in Thread, OthersSame(t), locks' = locks,
         InBody(t), nb_acquired'[t] = nb_acquired[t],
         (\A n \in DOMAIN w_set[t] : w_set[t][n].no_drop) =>
            \A n \in DOMAIN w_set'[t] : w_set'[t][n].no_drop,
         \/ pc'[t] \in Running \ {"extend"}
         \/ pc'[t] \in {"extend", "validate"} /\ cont'[t] # "commit"
         \/ pc'[t] \in {"rollback", "acquire"} /\ i'[t] = Len(w_set'[t])
         \/ pc'[t] = "end",
         pc'[t] = "acquire" => w_set'[t] # <<>>
  PROVE  Inv'
<1>1. Clean(t) /\ pc[t] \notin UnitStoring /\ pc'[t] \notin UnitStoring
  BY BodyClean DEF Running, UnitStoring
<1>2. Clean(t)'
  BY <1>1 DEF Clean
<1>3. Cardinality(Droppers(t, Len(w_set[t]))') = 0
  <2>1. Droppers(t, Len(w_set[t]))' = {}
    <3>1. DOMAIN w_set'[t] = 1..Len(w_set'[t])
      BY LenProperties DEF TypeOK, SetTypes
    <3> QED
      BY <1>2, <3>1 DEF Droppers, Clean
  <2> QED
    BY <2>1, FS_EmptySet
<1>4. w_set'[t] \in Seq(WriteEntry) /\ Len(w_set'[t]) \in Nat
      /\ DOMAIN w_set'[t] = 1..Len(w_set'[t])
  BY LenProperties DEF TypeOK, SetTypes
<1>5. w_set'[t] # <<>> => Len(w_set'[t]) > 0
  BY <1>4, EmptySeq
<1>6. WriteSetInv(t)'
  <2>1. CASE pc'[t] \in Running \ {"extend"} \/ pc'[t] = "end"
    BY <1>2, <2>1 DEF WriteSetInv, Running
  <2>2. CASE pc'[t] \in {"extend", "validate"} /\ cont'[t] # "commit"
    BY <1>2, <2>2 DEF WriteSetInv, Running
  <2>3. CASE pc'[t] = "rollback" /\ i'[t] = Len(w_set'[t])
    <3>1. nb_acquired'[t] = 0 /\ Droppers(t, i[t])' = Droppers(t, Len(w_set[t]))'
      BY <1>2, <2>3 DEF Clean, Droppers
    <3> QED
      BY <1>3, <1>4, <2>3, <3>1 DEF WriteSetInv, Running
  <2>4. CASE pc'[t] = "acquire" /\ i'[t] = Len(w_set'[t])
    BY <1>2, <1>3, <1>4, <1>5, <2>4 DEF WriteSetInv, Running, Clean
  <2> QED
    BY <2>1, <2>2, <2>3, <2>4
<1> QED
  BY <1>1, <1>2, <1>6, QuietStep

\* Calls and steps outside of transactions.
LEMMA OutsideInv ==
  ASSUME Inv, NEW t \in Thread,
         \/ \E a \in Attr : stm_start(t, a)
         \/ stm_prepare_overflow(t) \/ stm_prepare(t) \/ CommitEnd(t)
         \/ \E a \in Addr : stm_unit_load(t, a)
         \/ \E a \in Addr, v \in Word, m \in SUBSET Byte : stm_unit_store(t, a, v, m)
         \/ UnitReadLockSame(t) \/ UnitReadReturn(t)
  PROVE  Inv'
<1>0. TypeOK /\ TypeOK'
  BY TypeStart, TypeCall, TypePrepare, TypeWriteBack DEF Inv
<1> USE DEF sharedVars, setVars, localVars, At, Goto, TypeOK, LocalTypes, SetTypes
<1>1. CASE stm_prepare(t)
  <2>1. OthersSame(t) /\ locks' = locks
    BY <1>0, <1>1 DEF stm_prepare, OthersSame
  <2>2. pc[t] = "prepare" /\ pc'[t] \in {"app", "idle"}
    BY <1>0, <1>1 DEF stm_prepare
  <2>3. Clean(t)'
    <3>1. w_set'[t] = <<>> /\ nb_acquired'[t] = 0
      BY <1>0, <1>1 DEF stm_prepare
    <3> QED
      BY <3>1 DEF Clean
  <2>4. WriteSetInv(t)'
    BY <2>2, <2>3 DEF WriteSetInv
  <2> QED
    BY <1>0, <2>1, <2>2, <2>3, <2>4, QuietStep DEF Committing, UnitStoring
<1>2. CASE ~stm_prepare(t)
  <2>1. OthersSame(t) /\ locks' = locks
    BY <1>0, <1>2 DEF OthersSame, stm_start, stm_prepare_overflow, CommitEnd,
       stm_unit_load, stm_unit_store, UnitReadLockSame, UnitReadReturn
  <2>2. pc[t] \in Outside /\ pc'[t] \in Outside
    BY <1>0, <1>2 DEF Outside, stm_start, stm_prepare_overflow, CommitEnd,
       stm_unit_load, stm_unit_store, UnitReadLockSame, UnitReadReturn
  <2> QED
    BY <1>0, <2>1, <2>2, OutsideStep
<1> QED
  BY <1>1, <1>2

\* The reads of a load, in a transaction or a unit load.
LEMMA ReadInv ==
  ASSUME Inv, NEW t \in Thread,
         ReadLock(t) \/ ReadValue(t) \/ ReadLockChanged(t)
  PROVE  Inv'
<1>0. TypeOK /\ TypeOK'
  BY TypeCall DEF Inv
<1> USE DEF sharedVars, setVars, At, Goto, TypeOK, LocalTypes, SetTypes
<1>1. OthersSame(t) /\ locks' = locks /\ w_set' = w_set /\ nb_acquired' = nb_acquired
  BY <1>0 DEF OthersSame, ReadLock, ReadValue, ReadLockChanged
<1>2. \/ /\ pc[t] \in {"read_lock", "read_value", "read_lock2"}
         /\ pc'[t] \in {"read_lock", "read_value", "read_lock2"}
      \/ pc[t] \in Outside /\ pc'[t] \in Outside
  BY <1>0 DEF Outside, ReadLock, ReadValue, ReadLockChanged
<1>3. CASE /\ pc[t] \in {"read_lock", "read_value", "read_lock2"}
           /\ pc'[t] \in {"read_lock", "read_value", "read_lock2"}
  BY <1>0, <1>1, <1>3, BodyStep DEF InBody, Running
<1> QED
  BY <1>0, <1>1, <1>2, <1>3, OutsideStep

\* The rest of a transaction that has not started to commit.
LEMMA BodyInv ==
  ASSUME Inv, NEW t \in Thread,
         \/ stm_start_nested(t) \/ stm_commit_nested(t) \/ stm_commit(t) \/ stm_abort(t)
         \/ \E a \in Addr : stm_load_written(t, a) \/ stm_load(t, a)
         \/ \E a \in Addr, v \in Word, m \in SUBSET Byte : stm_store(t, a, v, m)
         \/ stm_store_ro(t) \/ ReadLockSame(t) \/ ReadTooNew(t) \/ ReadRecheck(t)
         \/ stm_extend(t) \/ ExtendOk(t) \/ TickDeliver(t)
         \/ \E e \in BOOLEAN, b \in Bounds : stm_set_extension(t, e, b)
  PROVE  Inv'
<1>0. TypeOK /\ TypeOK'
  BY TypeStart, TypeCall, TypeLoad, TypeWrite, TypeExtend, TypeCommit DEF Inv, Tick
<1>a. pc[t] = "extend" => cont[t] # "commit"
  BY DEF Inv, WriteSetInv
<1> USE DEF sharedVars, setVars, localVars, At, Goto, TypeOK, LocalTypes, SetTypes
<1>1. CASE \/ stm_start_nested(t) \/ stm_commit_nested(t)
           \/ \E e \in BOOLEAN, b \in Bounds : stm_set_extension(t, e, b)
  <2>1. OthersSame(t) /\ locks' = locks /\ w_set' = w_set /\ nb_acquired' = nb_acquired
        /\ pc' = pc /\ pc[t] = "app"
    BY <1>0, <1>1 DEF OthersSame, stm_start_nested, stm_commit_nested, stm_set_extension
  <2> QED
    BY <1>0, <2>1, BodyStep DEF InBody, Running
<1>2. CASE stm_commit(t)
  <2>1. OthersSame(t) /\ locks' = locks /\ w_set' = w_set /\ nb_acquired' = nb_acquired
    BY <1>0, <1>2 DEF OthersSame, stm_commit
  <2>2. /\ pc[t] = "app" /\ i'[t] = Len(w_set[t])
        /\ pc'[t] = IF w_set[t] = <<>> THEN "end" ELSE "acquire"
    BY <1>0, <1>2 DEF stm_commit
  <2> QED
    BY <1>0, <2>1, <2>2, BodyStep DEF InBody, Running
<1>3. CASE stm_abort(t) \/ stm_store_ro(t)
  <2>1. OthersSame(t) /\ locks' = locks /\ w_set' = w_set /\ nb_acquired' = nb_acquired
    BY <1>0, <1>3 DEF OthersSame, stm_abort, stm_store_ro, EnterRollback
  <2>2. pc[t] = "app" /\ pc'[t] = "rollback" /\ i'[t] = Len(w_set[t])
    BY <1>0, <1>3 DEF stm_abort, stm_store_ro, EnterRollback
  <2> QED
    BY <1>0, <2>1, <2>2, BodyStep DEF InBody, Running
<1>4. CASE \/ \E a \in Addr : stm_load(t, a)
           \/ \E a \in Addr, v \in Word, m \in SUBSET Byte : stm_store(t, a, v, m)
  <2>1. OthersSame(t) /\ locks' = locks /\ w_set' = w_set /\ nb_acquired' = nb_acquired
    BY <1>0, <1>4 DEF OthersSame, stm_load, stm_store
  <2>2. pc[t] = "app" /\ pc'[t] \in {"read_lock", "write_lock"}
    BY <1>0, <1>4 DEF stm_load, stm_store
  <2> QED
    BY <1>0, <2>1, <2>2, BodyStep DEF InBody, Running
<1>5. CASE \/ \E a \in Addr : stm_load_written(t, a)
           \/ ReadLockSame(t) \/ ReadRecheck(t)
  <2>0. /\ locks' = locks /\ w_set' = w_set /\ nb_acquired' = nb_acquired /\ i' = i
        /\ arg' = arg \/ arg' = [arg EXCEPT ![t] = NoArg]
        /\ ReturnToApp(t) \/ (pc' = [pc EXCEPT ![t] = "read_value"] /\ cont' = cont)
    BY <1>5 DEF stm_load_written, ReadLockSame, ReadRecheck, AddToReadSet
  <2>1. OthersSame(t)
    BY <1>0, <2>0 DEF OthersSame, ReturnToApp
  <2>2. pc[t] \in {"app", "read_lock2", "read_recheck"}
    BY <1>5 DEF stm_load_written, ReadLockSame, ReadRecheck
  <2>3. \/ pc'[t] = "extend" /\ cont'[t] = "standing"
        \/ pc'[t] \in {"app", "read_value"}
    BY <1>0, <1>5 DEF stm_load_written, ReadLockSame, ReadRecheck, ReturnToApp
  <2> QED
    BY <1>0, <2>0, <2>1, <2>2, <2>3, BodyStep DEF InBody, Running
<1>6. CASE ReadTooNew(t)
  <2>1. OthersSame(t) /\ locks' = locks /\ w_set' = w_set /\ nb_acquired' = nb_acquired
    BY <1>0, <1>6 DEF OthersSame, ReadTooNew, EnterRollback
  <2>2. /\ pc[t] = "read_lock2"
        /\ \/ pc'[t] = "extend" /\ cont'[t] = "read"
           \/ pc'[t] = "rollback" /\ i'[t] = Len(w_set[t])
    BY <1>0, <1>6 DEF ReadTooNew, EnterRollback
  <2> QED
    BY <1>0, <2>1, <2>2, BodyStep DEF InBody, Running
<1>7. CASE stm_extend(t)
  <2>1. OthersSame(t) /\ locks' = locks /\ w_set' = w_set /\ nb_acquired' = nb_acquired
    BY <1>0, <1>7 DEF OthersSame, stm_extend, EnterRollback
  <2>2. /\ pc[t] = "extend" /\ cont'[t] = cont[t]
        /\ pc'[t] = "validate" \/ (pc'[t] = "rollback" /\ i'[t] = Len(w_set[t]))
    BY <1>0, <1>7 DEF stm_extend, EnterRollback
  <2> QED
    BY <1>0, <1>a, <2>1, <2>2, BodyStep DEF InBody, Running
<1>8. CASE ExtendOk(t)
  <2>1. OthersSame(t) /\ locks' = locks /\ w_set' = w_set /\ nb_acquired' = nb_acquired
    BY <1>0, <1>8 DEF OthersSame, ExtendOk
  <2>2. /\ pc[t] = "validate" /\ cont[t] # "commit"
        /\ pc'[t] \in {"read_recheck", "app"}
    BY <1>0, <1>8 DEF ExtendOk
  <2> QED
    BY <1>0, <2>1, <2>2, BodyStep DEF InBody, Running
<1>9. CASE TickDeliver(t)
  <2>1. OthersSame(t) /\ locks' = locks /\ w_set' = w_set /\ nb_acquired' = nb_acquired
    BY <1>0, <1>9 DEF OthersSame, TickDeliver
  <2>2. pc[t] = "app" /\ pc'[t] = "extend" /\ cont'[t] = "tick"
    BY <1>0, <1>9 DEF TickDeliver
  <2> QED
    BY <1>0, <2>1, <2>2, BodyStep DEF InBody, Running
<1> QED
  BY <1>1, <1>2, <1>3, <1>4, <1>5, <1>6, <1>7, <1>8, <1>9

\* A buffered write.
LEMMA WriteInv ==
  ASSUME Inv, NEW t \in Thread, stm_write(t)
  PROVE  Inv'
<1>0. TypeOK /\ TypeOK'
  BY TypeWrite DEF Inv
<1> USE DEF sharedVars, At, Goto, TypeOK, LocalTypes, SetTypes
<1>1. pc[t] = "write_lock" /\ locks' = locks /\ nb_acquired' = nb_acquired
  BY DEF stm_write
<1>2. CASE WriteInvalid(t)
  <2>1. OthersSame(t) /\ w_set' = w_set
    BY <1>0, <1>2 DEF OthersSame, stm_write, EnterRollback
  <2>2. pc'[t] = "rollback" /\ i'[t] = Len(w_set[t])
    BY <1>0, <1>2 DEF stm_write, EnterRollback
  <2> QED
    BY <1>0, <1>1, <2>1, <2>2, BodyStep DEF InBody, Running
<1>3. CASE ~WriteInvalid(t)
  <2>1. BufferWrite(t) /\ ReturnToApp(t) /\ i' = i /\ arg' = [arg EXCEPT ![t] = NoArg]
    BY <1>3 DEF stm_write
  <2>2. OthersSame(t)
    BY <1>0, <1>1, <2>1, BufferType DEF OthersSame, ReturnToApp
  <2>3. \/ pc'[t] = "extend" /\ cont'[t] = "standing"
        \/ pc'[t] = "app"
    BY <1>0, <2>1 DEF ReturnToApp
  <2> QED
    BY <1>0, <1>1, <2>1, <2>2, <2>3, BodyStep, BufferType DEF InBody, Running
<1> QED
  BY <1>2, <1>3

\* Ticks that do not deliver change nothing the invariant looks at.
LEMMA TickInv ==
  ASSUME Inv, NEW t \in Thread, TickRecentlyValidated(t) \/ TickStanding(t)
  PROVE  Inv'
<1>1. TypeOK'
  BY TypeExtend DEF Inv, Tick
<1>2. UNCHANGED <<locks, pc, w_set, i, nb_acquired, cont, arg>>
  BY DEF TickRecentlyValidated, TickStanding, sharedVars, setVars, localVars
<1>3. ASSUME NEW u \in Thread PROVE WriteSetInv(u)'
  <2>1. WriteSetInv(u)
    BY DEF Inv
  <2> QED
    BY <1>2, <2>1 DEF WriteSetInv, Clean, Droppers
<1>4. \A u \in Thread : Owns(u)' /\ Drops(u)'
  BY <1>2 DEF Inv, Owns, Drops, Pending, At, LOCK_SET_ADDR_WRITE
<1>5. UnitOwns'
  BY <1>2 DEF Inv, UnitOwns
<1> QED
  BY <1>1, <1>3, <1>4, <1>5 DEF Inv

-----------------------------------------------------------------------------
(***************************************************************************)
(* Commit and rollback                                                     *)
(***************************************************************************)
\* The droppers are finitely many.
LEMMA DroppersFinite ==
  ASSUME NEW t \in Thread, NEW m \in Nat
  PROVE  IsFiniteSet(Droppers(t, m)) /\ Cardinality(Droppers(t, m)) \in Nat
<1>1. IsFiniteSet(1..m)
  BY FS_Interval
<1> QED
  BY <1>1, FS_Subset, FS_CardinalityType DEF Droppers

\* A step of a committing t: the others are not concerned, unit stores neither.
LEMMA CommitStep ==
  ASSUME Inv, TypeOK', NEW t \in Thread, OthersSame(t), pc[t] \notin UnitStoring,
         pc'[t] \notin UnitStoring,
         \A k \in Lock : \/ locks'[k] = locks[k]
                         \/ /\ locks[k].owner \in {t, NoOwner}
                            /\ locks'[k].owner \in {t, NoOwner},
         WriteSetInv(t)', Owns(t)', Drops(t)'
  PROVE  Inv'
<1>1. \A u \in Thread \ {t} : WriteSetInv(u)' /\ Owns(u)' /\ Drops(u)'
  <2> SUFFICES ASSUME NEW u \in Thread \ {t}
               PROVE  WriteSetInv(u)' /\ Owns(u)' /\ Drops(u)'
    OBVIOUS
  <2>1. \A k \in Lock : \/ locks'[k] = locks[k]
                        \/ locks[k].owner # u /\ locks'[k].owner # u
    BY ConstantsAssumption
  <2> QED
    BY <2>1, OthersKept DEF Inv
<1>2. \A k \in Lock : locks'[k].owner = UnitOwner <=> locks[k].owner = UnitOwner
  BY ConstantsAssumption
<1>3. UnitOwns'
  BY <1>2, UnitKept DEF Inv
<1> QED
  BY <1>1, <1>3 DEF Inv

\* Acquiring the lock of one entry.
LEMMA AcquireInv ==
  ASSUME Inv, NEW t \in Thread, CommitAcquire(t)
  PROVE  Inv'
<1> DEFINE k == LockOf[w_set[t][i[t]].addr]
           m == Len(w_set[t])
<1>0. TypeOK /\ TypeOK' /\ WriteSetInv(t) /\ Owns(t) /\ Drops(t)
  BY TypeCommit DEF Inv
<1>1. /\ i[t] \in 1..m /\ k \in Lock /\ pc[t] = "acquire" /\ m \in Nat /\ i[t] \in Nat
      /\ DOMAIN w_set[t] = 1..m
  BY <1>0, LoopPosition, WriteSetType DEF CommitAcquire, At
<1>2. /\ nb_acquired[t] = Cardinality(Droppers(t, m)) /\ m > 0
      /\ \A n \in 1..i[t] : w_set[t][n].no_drop
  BY <1>0, <1>1 DEF WriteSetInv
<1>3. pc[t] \notin UnitStoring /\ pc[t] \in Committing
  BY <1>1 DEF UnitStoring, Committing
<1>4. CASE /\ locks[k].owner = NoOwner /\ Acquire(t, k)
           /\ i' = [i EXCEPT ![t] = @ - 1] /\ pc' = pc /\ arg' = arg /\ cont' = cont
  <2>1. /\ locks'[k] = LOCK_SET_ADDR_WRITE(t, i[t])
        /\ \A j \in Lock \ {k} : locks'[j] = locks[j]
        /\ \A u \in Thread \ {t} : w_set'[u] = w_set[u]
        /\ Len(w_set'[t]) = m /\ DOMAIN w_set'[t] = 1..m
        /\ \A n \in 1..m : /\ w_set'[t][n].addr = w_set[t][n].addr
                           /\ w_set'[t][n].no_drop <=> (n # i[t] /\ w_set[t][n].no_drop)
        /\ nb_acquired' = [nb_acquired EXCEPT ![t] = @ + 1]
    BY <1>0, <1>1, <1>4, AcquireEffect
  <2>2. /\ OthersSame(t) /\ i'[t] = i[t] - 1 /\ pc'[t] = "acquire"
        /\ nb_acquired'[t] = nb_acquired[t] + 1
    BY <1>0, <1>1, <1>4, <2>1 DEF OthersSame, TypeOK, LocalTypes, SetTypes
  <2>3. Droppers(t, Len(w_set[t]))' = Droppers(t, m) \cup {i[t]}
        /\ i[t] \notin Droppers(t, m)
    BY <1>1, <1>2, <2>1, WriteSetType, <1>0 DEF Droppers
  <2>4. Cardinality(Droppers(t, Len(w_set[t]))') = Cardinality(Droppers(t, m)) + 1
    BY <1>1, <2>3, DroppersFinite, FS_AddElement
  <2>5. \A n \in 1..(i[t] - 1) : w_set'[t][n].no_drop
    BY <1>1, <1>2, <2>1
  <2>6. WriteSetInv(t)'
    BY <1>1, <1>2, <2>1, <2>2, <2>4, <2>5 DEF WriteSetInv, Running
  <2>7. \A n : Pending(t, n) /\ Pending(t, n)'
    BY <1>1, <2>2 DEF Pending, At
  <2>8. Owns(t)'
    <3> SUFFICES ASSUME NEW j \in Lock, locks'[j].owner = t
                 PROVE  /\ locks'[j].n \in 1..m
                        /\ LockOf[w_set'[t][locks'[j].n].addr] = j
                        /\ ~w_set'[t][locks'[j].n].no_drop
      BY <1>3, <2>1, <2>2, <2>7 DEF Owns, Committing
    <3>1. CASE j = k
      <4>1. locks'[j].n = i[t]
        BY <2>1, <3>1 DEF LOCK_SET_ADDR_WRITE
      <4>2. w_set'[t][i[t]].addr = w_set[t][i[t]].addr /\ ~w_set'[t][i[t]].no_drop
        BY <1>1, <2>1
      <4> QED
        BY <1>1, <3>1, <4>1, <4>2
    <3>2. CASE j # k
      <4>1. locks'[j] = locks[j]
        BY <2>1, <3>2
      <4>2. /\ locks[j].n \in 1..m /\ LockOf[w_set[t][locks[j].n].addr] = j
            /\ ~w_set[t][locks[j].n].no_drop
        BY <1>0, <1>1, <4>1 DEF Owns
      <4> QED
        BY <2>1, <4>1, <4>2
    <3> QED
      BY <3>1, <3>2
  <2>9. Drops(t)'
    <3> SUFFICES ASSUME NEW n \in 1..m, ~w_set'[t][n].no_drop
                 PROVE  locks'[LockOf[w_set[t][n].addr]] = LOCK_SET_ADDR_WRITE(t, n)
      BY <2>1 DEF Drops, LOCK_SET_ADDR_WRITE
    <3>1. CASE n = i[t]
      BY <2>1, <3>1
    <3>2. CASE n # i[t]
      <4>1. ~w_set[t][n].no_drop
        BY <2>1, <3>2
      <4>2. locks[LockOf[w_set[t][n].addr]] = LOCK_SET_ADDR_WRITE(t, n)
        BY <1>0, <1>1, <1>3, <2>7, <4>1 DEF Drops
      <4>3. LockOf[w_set[t][n].addr] # k /\ LockOf[w_set[t][n].addr] \in Lock
        BY <1>0, <1>4, <4>2, WriteSetType, ConstantsAssumption DEF LOCK_SET_ADDR_WRITE
      <4> QED
        BY <2>1, <4>2, <4>3
    <3> QED
      BY <3>1, <3>2
  <2>10. \A j \in Lock : \/ locks'[j] = locks[j]
                         \/ /\ locks[j].owner \in {t, NoOwner}
                            /\ locks'[j].owner \in {t, NoOwner}
    BY <1>4, <2>1 DEF LOCK_SET_ADDR_WRITE
  <2> QED
    BY <1>0, <1>3, <2>2, <2>6, <2>8, <2>9, <2>10, CommitStep DEF UnitStoring
<1>5. CASE /\ UNCHANGED <<locks, w_set, nb_acquired, arg, cont>>
           /\ \/ i' = [i EXCEPT ![t] = @ - 1] /\ pc' = pc
              \/ EnterRollback(t)
  <2>1. OthersSame(t)
    BY <1>0, <1>5 DEF OthersSame, EnterRollback, Goto, TypeOK, LocalTypes
  <2>2. \/ pc'[t] = "acquire" /\ i'[t] = i[t] - 1
        \/ pc'[t] = "rollback" /\ i'[t] = m
    BY <1>0, <1>1, <1>5 DEF EnterRollback, Goto, TypeOK, LocalTypes
  <2>3. WriteSetInv(t)'
    <3>1. CASE pc'[t] = "acquire" /\ i'[t] = i[t] - 1
      BY <1>1, <1>2, <1>5, <3>1 DEF WriteSetInv, Running, Droppers
    <3>2. CASE pc'[t] = "rollback" /\ i'[t] = m
      BY <1>1, <1>2, <1>5, <3>2 DEF WriteSetInv, Running, Droppers
    <3> QED
      BY <2>2, <3>1, <3>2
  <2>4. \A n \in 1..m : Pending(t, n) /\ Pending(t, n)'
    BY <1>1, <2>2 DEF Pending, At
  <2>5. Owns(t)'
    BY <1>0, <1>1, <1>5, <2>2, <2>4 DEF Owns, Committing
  <2>6. Drops(t)'
    BY <1>0, <1>1, <1>3, <1>5, <2>4 DEF Drops, LOCK_SET_ADDR_WRITE
  <2> QED
    BY <1>0, <1>3, <1>5, <2>1, <2>2, <2>3, <2>5, <2>6, CommitStep DEF UnitStoring
<1> QED
  BY <1>4, <1>5 DEF CommitAcquire, LOCK_GET_OWNED

\* The timestamp and the validation of a commit keep the locks.
LEMMA ValidateInv ==
  ASSUME Inv, NEW t \in Thread,
         \/ CommitClock(t) \/ CommitValid(t)
         \/ \E r \in todo[t] : stm_validate(t, r)
  PROVE  Inv'
<1> DEFINE m == Len(w_set[t])
<1>0. TypeOK /\ TypeOK' /\ WriteSetInv(t) /\ Owns(t) /\ Drops(t)
  BY TypeCommit, TypeCall DEF Inv
<1>1. m \in Nat /\ DOMAIN w_set[t] = 1..m
  BY <1>0, WriteSetType
<1>2. /\ UNCHANGED <<locks, w_set, nb_acquired, arg>>
      /\ OthersSame(t)
  BY <1>0 DEF OthersSame, CommitClock, CommitValid, stm_validate, EnterRollback, Goto,
     TypeOK, LocalTypes, sharedVars, setVars
<1>3. \/ pc[t] = "acquire" \/ pc[t] = "validate"
  BY DEF CommitClock, CommitValid, stm_validate, At
<1>4. CASE pc[t] = "validate" /\ cont[t] # "commit"
  <2>1. /\ cont'[t] = cont[t]
        /\ pc'[t] = "validate" \/ (pc'[t] = "rollback" /\ i'[t] = m)
    BY <1>0, <1>4 DEF CommitClock, CommitValid, stm_validate, EnterRollback, Goto,
       At, TypeOK, LocalTypes
  <2> QED
    BY <1>0, <1>2, <1>4, <2>1, BodyStep DEF InBody, Running
<1>5. CASE pc[t] = "acquire" \/ (pc[t] = "validate" /\ cont[t] = "commit")
  <2>1. \/ pc'[t] = "write_back" /\ i'[t] = 1
        \/ pc'[t] = "validate" /\ cont'[t] = "commit"
        \/ pc'[t] = "rollback" /\ i'[t] = m
    BY <1>0, <1>5 DEF CommitClock, CommitValid, stm_validate, EnterRollback, Goto,
       At, TypeOK, LocalTypes
  <2>2. m > 0 /\ nb_acquired[t] = Cardinality(Droppers(t, m))
    BY <1>0, <1>5 DEF WriteSetInv
  <2>3. WriteSetInv(t)'
    <3>1. CASE pc'[t] = "write_back" /\ i'[t] = 1
      BY <1>1, <1>2, <2>2, <3>1 DEF WriteSetInv, Running
    <3>2. CASE pc'[t] = "validate" /\ cont'[t] = "commit"
      BY <1>2, <2>2, <3>2 DEF WriteSetInv, Running, Droppers
    <3>3. CASE pc'[t] = "rollback" /\ i'[t] = m
      BY <1>1, <1>2, <2>2, <3>3 DEF WriteSetInv, Running, Droppers
    <3> QED
      BY <2>1, <3>1, <3>2, <3>3
  <2>4. \A n \in 1..m : Pending(t, n) /\ Pending(t, n)'
    BY <1>1, <1>5, <2>1 DEF Pending, At
  <2>5. /\ pc[t] \in Committing /\ pc'[t] \in Committing
        /\ pc[t] \notin UnitStoring /\ pc'[t] \notin UnitStoring
    BY <1>5, <2>1 DEF Committing, UnitStoring
  <2>6. Owns(t)'
    BY <1>0, <1>1, <1>2, <2>4, <2>5 DEF Owns
  <2>7. Drops(t)'
    BY <1>0, <1>1, <1>2, <2>4, <2>5 DEF Drops, LOCK_SET_ADDR_WRITE
  <2> QED
    BY <1>0, <1>2, <2>3, <2>5, <2>6, <2>7, CommitStep
<1> QED
  BY <1>3, <1>4, <1>5

\* The position after the current entry, or the end of the write set.
LEMMA NextWriteBackEffect ==
  ASSUME TypeOK, NEW t \in Thread, NextWriteBack(t), i[t] \in 1..Len(w_set[t]),
         w_set' = w_set
  PROVE  /\ \A u \in Thread \ {t} : pc'[u] = pc[u] /\ i'[u] = i[u]
         /\ \/ /\ pc'[t] = "write_back" /\ i'[t] = i[t] + 1
               /\ i[t] + 1 \in 1..Len(w_set[t])
            \/ pc'[t] = "end" /\ i[t] = Len(w_set[t])
  BY WriteSetType DEF NextWriteBack, Goto, TypeOK, LocalTypes

\* Installing the value of an entry, and dropping its lock.
LEMMA WriteBackInv ==
  ASSUME Inv, NEW t \in Thread, CommitStore(t) \/ CommitRelease(t)
  PROVE  Inv'
<1> DEFINE m == Len(w_set[t])
           k == LockOf[w_set[t][i[t]].addr]
<1>0. TypeOK /\ TypeOK' /\ WriteSetInv(t) /\ Owns(t) /\ Drops(t)
  BY TypeWriteBack DEF Inv
<1>1. pc[t] \in {"write_back", "release"}
  BY DEF CommitStore, CommitRelease, At
<1>2. /\ m \in Nat /\ DOMAIN w_set[t] = 1..m /\ i[t] \in 1..m /\ k \in Lock
      /\ i[t] \in Nat
  BY <1>0, <1>1, LoopPosition, WriteSetType
<1>3. UNCHANGED <<w_set, nb_acquired, arg, cont>>
  BY DEF CommitStore, CommitRelease, setVars
<1>4. /\ \A n : Pending(t, n) <=> n >= i[t]
      /\ pc[t] \in Committing /\ pc[t] \notin UnitStoring
  BY <1>1 DEF Pending, At, Committing, UnitStoring
<1>5. CASE /\ locks' = locks /\ pc[t] = "write_back" /\ ~w_set[t][i[t]].no_drop
           /\ Goto(t, "release") /\ i' = i
  <2>1. OthersSame(t) /\ pc'[t] = "release" /\ i'[t] = i[t]
    BY <1>0, <1>3, <1>5 DEF OthersSame, Goto, TypeOK
  <2>2. WriteSetInv(t)'
    BY <1>2, <1>3, <1>5, <2>1 DEF WriteSetInv, Running
  <2>3. \A n : Pending(t, n)' <=> n >= i[t]
    BY <2>1 DEF Pending, At
  <2>4. Owns(t)'
    BY <1>0, <1>3, <1>4, <1>5, <2>1, <2>3 DEF Owns, Committing
  <2>5. Drops(t)'
    BY <1>0, <1>3, <1>4, <1>5, <2>3 DEF Drops, LOCK_SET_ADDR_WRITE
  <2> QED
    BY <1>0, <1>4, <1>5, <2>1, <2>2, <2>4, <2>5, CommitStep DEF UnitStoring
<1>6. CASE /\ NextWriteBack(t)
           /\ \/ locks' = locks /\ w_set[t][i[t]].no_drop
              \/ /\ pc[t] = "release"
                 /\ locks' = [locks EXCEPT ![k] = LOCK_SET_TIMESTAMP(ts[t])]
  <2>1. /\ OthersSame(t)
        /\ \/ /\ pc'[t] = "write_back" /\ i'[t] = i[t] + 1 /\ i[t] + 1 \in 1..m
           \/ pc'[t] = "end" /\ i[t] = m
    BY <1>0, <1>2, <1>3, <1>6, NextWriteBackEffect DEF OthersSame
  <2>2. WriteSetInv(t)'
    BY <1>2, <1>3, <2>1 DEF WriteSetInv, Running
  <2>3. /\ \A j \in Lock : \/ locks'[j] = locks[j] /\ locks[j] # LOCK_SET_ADDR_WRITE(t, i[t])
                           \/ /\ locks[j] = LOCK_SET_ADDR_WRITE(t, i[t])
                              /\ locks'[j].owner = NoOwner
    <3>1. CASE locks' = locks /\ w_set[t][i[t]].no_drop
      BY <1>0, <3>1 DEF Owns, LOCK_SET_ADDR_WRITE
    <3>2. CASE /\ pc[t] = "release"
               /\ locks' = [locks EXCEPT ![k] = LOCK_SET_TIMESTAMP(ts[t])]
      <4>1. ~w_set[t][i[t]].no_drop
        BY <1>0, <3>2 DEF WriteSetInv
      <4>2. locks[k] = LOCK_SET_ADDR_WRITE(t, i[t])
        BY <1>0, <1>2, <1>4, <4>1 DEF Drops
      <4>3. \A j \in Lock : locks[j] = LOCK_SET_ADDR_WRITE(t, i[t]) => j = k
        BY <1>0 DEF Owns, LOCK_SET_ADDR_WRITE
      <4>4. locks'[k].owner = NoOwner /\ \A j \in Lock \ {k} : locks'[j] = locks[j]
        BY <1>0, <1>2, <3>2 DEF TypeOK, SharedTypes, LOCK_SET_TIMESTAMP
      <4> QED
        BY <4>2, <4>3, <4>4
    <3> QED
      BY <1>6, <3>1, <3>2
  <2>4. ASSUME NEW j \in Lock, locks'[j].owner = t
        PROVE  /\ locks'[j] = locks[j] /\ locks[j].n \in 1..m
               /\ LockOf[w_set[t][locks[j].n].addr] = j
               /\ ~w_set[t][locks[j].n].no_drop
               /\ locks[j].n >= i[t] + 1
    <3>1. locks'[j] = locks[j] /\ locks[j] # LOCK_SET_ADDR_WRITE(t, i[t])
      BY <2>3, <2>4, ConstantsAssumption
    <3>2. /\ locks[j].n \in 1..m
          /\ LockOf[w_set[t][locks[j].n].addr] = j
          /\ ~w_set[t][locks[j].n].no_drop
          /\ locks[j].n >= i[t]
      BY <1>0, <1>2, <1>4, <2>4, <3>1 DEF Owns
    <3>3. locks[j].n # i[t]
      <4>1. locks[j] \in LockWord /\ locks[j].owner = t
        BY <1>0, <2>4, <3>1 DEF TypeOK, SharedTypes
      <4>2. locks[j] = [owner |-> locks[j].owner, n |-> locks[j].n]
        BY <4>1 DEF LockWord
      <4> QED
        BY <3>1, <4>1, <4>2 DEF LOCK_SET_ADDR_WRITE
    <3> QED
      BY <1>2, <3>1, <3>2, <3>3
  <2>5. Owns(t)'
    <3>1. CASE pc'[t] = "write_back" /\ i'[t] = i[t] + 1
      <4>1. \A n : Pending(t, n)' <=> n >= i[t] + 1
        BY <3>1 DEF Pending, At
      <4> QED
        BY <1>2, <1>3, <2>4, <3>1, <4>1 DEF Owns, Committing
    <3>2. CASE pc'[t] = "end" /\ i[t] = m
      BY <1>2, <2>4, <3>2 DEF Owns
    <3> QED
      BY <2>1, <3>1, <3>2
  <2>6. Drops(t)'
    <3>1. CASE pc'[t] = "end"
      BY <3>1 DEF Drops, Committing
    <3>2. CASE pc'[t] = "write_back" /\ i'[t] = i[t] + 1
      <4> SUFFICES ASSUME NEW n \in 1..m, ~w_set[t][n].no_drop, n >= i[t] + 1
                   PROVE  locks'[LockOf[w_set[t][n].addr]] = LOCK_SET_ADDR_WRITE(t, n)
        <5>1. \A n : Pending(t, n)' <=> n >= i[t] + 1
          BY <3>2 DEF Pending, At
        <5> QED
          BY <1>2, <1>3, <5>1 DEF Drops, LOCK_SET_ADDR_WRITE
      <4>1. locks[LockOf[w_set[t][n].addr]] = LOCK_SET_ADDR_WRITE(t, n)
        BY <1>0, <1>2, <1>4 DEF Drops
      <4>2. LOCK_SET_ADDR_WRITE(t, n) # LOCK_SET_ADDR_WRITE(t, i[t])
        BY <1>2 DEF LOCK_SET_ADDR_WRITE
      <4>3. LockOf[w_set[t][n].addr] \in Lock
        BY <1>0, WriteSetType
      <4> QED
        BY <2>3, <4>1, <4>2, <4>3
    <3> QED
      BY <2>1, <3>1, <3>2
  <2>7. \A j \in Lock : \/ locks'[j] = locks[j]
                        \/ /\ locks[j].owner \in {t, NoOwner}
                           /\ locks'[j].owner \in {t, NoOwner}
    BY <2>3 DEF LOCK_SET_ADDR_WRITE
  <2>8. pc'[t] \notin UnitStoring
    BY <2>1 DEF UnitStoring
  <2> QED
    BY <1>0, <1>4, <2>1, <2>2, <2>5, <2>6, <2>7, <2>8, CommitStep
<1> QED
  BY <1>0, <1>2, <1>5, <1>6, WriteSetType DEF CommitStore, CommitRelease, At

\* Going back over the write set in stm_rollback.
LEMMA RollbackReleaseInv ==
  ASSUME Inv, NEW t \in Thread, RollbackRelease(t)
  PROVE  Inv'
<1> DEFINE m == Len(w_set[t])
           k == LockOf[w_set[t][i[t]].addr]
<1>0. TypeOK /\ TypeOK' /\ WriteSetInv(t) /\ Owns(t) /\ Drops(t)
  BY TypeRollback DEF Inv
<1>1. /\ pc[t] = "rollback" /\ pc' = pc /\ i' = [i EXCEPT ![t] = @ - 1]
      /\ UNCHANGED <<w_set, arg, cont>>
  BY DEF RollbackRelease, At
<1>2. /\ m \in Nat /\ DOMAIN w_set[t] = 1..m /\ i[t] \in 1..m /\ k \in Lock
      /\ i[t] \in Nat /\ i[t] - 1 \in Nat
  BY <1>0, <1>1, LoopPosition, WriteSetType DEF RollbackRelease
<1>3. /\ \A n : Pending(t, n) <=> n <= i[t]
      /\ pc[t] \in Committing /\ pc[t] \notin UnitStoring
  BY <1>1 DEF Pending, At, Committing, UnitStoring
<1>4. i'[t] = i[t] - 1 /\ \A n : Pending(t, n)' <=> n <= i[t] - 1
  BY <1>0, <1>1 DEF Pending, At, TypeOK, LocalTypes
<1>5. nb_acquired[t] = Cardinality(Droppers(t, i[t])) /\ i[t] <= m
  BY <1>0, <1>1 DEF WriteSetInv
<1>6. OthersSame(t)
  BY <1>0, <1>1 DEF OthersSame, RollbackRelease, TypeOK, LocalTypes, SetTypes
<1>7. WriteSetInv(t)'
  <2>1. nb_acquired'[t] = Cardinality(Droppers(t, i[t] - 1))
    <3>1. CASE w_set[t][i[t]].no_drop
      <4>1. Droppers(t, i[t] - 1) = Droppers(t, i[t])
        BY <1>2, <3>1 DEF Droppers
      <4> QED
        BY <1>5, <3>1, <4>1 DEF RollbackRelease
    <3>2. CASE ~w_set[t][i[t]].no_drop
      <4>1. Droppers(t, i[t] - 1) = Droppers(t, i[t]) \ {i[t]}
            /\ i[t] \in Droppers(t, i[t])
        BY <1>2, <3>2 DEF Droppers
      <4>2. Cardinality(Droppers(t, i[t] - 1)) = Cardinality(Droppers(t, i[t])) - 1
        BY <1>2, <4>1, DroppersFinite, FS_RemoveElement
      <4>3. nb_acquired'[t] = nb_acquired[t] - 1
        BY <1>0, <3>2 DEF RollbackRelease, TypeOK, SetTypes
      <4> QED
        BY <1>5, <4>2, <4>3
    <3> QED
      BY <3>1, <3>2
  <2>2. Droppers(t, i[t])' = Droppers(t, i[t] - 1)
    BY <1>1, <1>4 DEF Droppers
  <2> QED
    BY <1>1, <1>2, <1>4, <1>5, <2>1, <2>2 DEF WriteSetInv, Running
<1>8. \A j \in Lock : \/ locks'[j] = locks[j] /\ locks[j] # LOCK_SET_ADDR_WRITE(t, i[t])
                      \/ /\ locks[j] = LOCK_SET_ADDR_WRITE(t, i[t])
                         /\ locks'[j].owner = NoOwner
  <2>1. CASE w_set[t][i[t]].no_drop
    <3>1. locks' = locks
      BY <2>1 DEF RollbackRelease
    <3> QED
      BY <1>0, <2>1, <3>1 DEF Owns, LOCK_SET_ADDR_WRITE
  <2>2. CASE ~w_set[t][i[t]].no_drop
    <3>1. locks' = [locks EXCEPT ![k] = LOCK_SET_TIMESTAMP(w_set[t][i[t]].version)]
      BY <2>2 DEF RollbackRelease
    <3>2. locks[k] = LOCK_SET_ADDR_WRITE(t, i[t])
      BY <1>0, <1>2, <1>3, <2>2 DEF Drops
    <3>3. \A j \in Lock : locks[j] = LOCK_SET_ADDR_WRITE(t, i[t]) => j = k
      BY <1>0 DEF Owns, LOCK_SET_ADDR_WRITE
    <3>4. locks'[k].owner = NoOwner /\ \A j \in Lock \ {k} : locks'[j] = locks[j]
      BY <1>0, <1>2, <3>1 DEF TypeOK, SharedTypes, LOCK_SET_TIMESTAMP
    <3> QED
      BY <3>2, <3>3, <3>4
  <2> QED
    BY <2>1, <2>2
<1>9. Owns(t)'
  <2> SUFFICES ASSUME NEW j \in Lock, locks'[j].owner = t
               PROVE  /\ locks'[j].n \in 1..m
                      /\ LockOf[w_set[t][locks'[j].n].addr] = j
                      /\ ~w_set[t][locks'[j].n].no_drop
                      /\ locks'[j].n <= i[t] - 1
    BY <1>1, <1>2, <1>3, <1>4 DEF Owns
  <2>1. locks'[j] = locks[j] /\ locks[j] # LOCK_SET_ADDR_WRITE(t, i[t])
    BY <1>8, ConstantsAssumption
  <2>2. /\ locks[j].n \in 1..m
        /\ LockOf[w_set[t][locks[j].n].addr] = j
        /\ ~w_set[t][locks[j].n].no_drop
        /\ locks[j].n <= i[t]
    BY <1>0, <1>2, <1>3, <2>1 DEF Owns
  <2>3. locks[j].n # i[t]
    <3>1. locks[j] \in LockWord /\ locks[j].owner = t
      BY <1>0, <2>1 DEF TypeOK, SharedTypes
    <3>2. locks[j] = [owner |-> locks[j].owner, n |-> locks[j].n]
      BY <3>1 DEF LockWord
    <3> QED
      BY <2>1, <3>1, <3>2 DEF LOCK_SET_ADDR_WRITE
  <2> QED
    BY <1>2, <2>1, <2>2, <2>3
<1>10. Drops(t)'
  <2> SUFFICES ASSUME NEW n \in 1..m, ~w_set[t][n].no_drop, n <= i[t] - 1
               PROVE  locks'[LockOf[w_set[t][n].addr]] = LOCK_SET_ADDR_WRITE(t, n)
    BY <1>1, <1>2, <1>4 DEF Drops, LOCK_SET_ADDR_WRITE
  <2>1. locks[LockOf[w_set[t][n].addr]] = LOCK_SET_ADDR_WRITE(t, n)
    BY <1>0, <1>2, <1>3 DEF Drops
  <2>2. LOCK_SET_ADDR_WRITE(t, n) # LOCK_SET_ADDR_WRITE(t, i[t])
    BY <1>2 DEF LOCK_SET_ADDR_WRITE
  <2>3. LockOf[w_set[t][n].addr] \in Lock
    BY <1>0, WriteSetType
  <2> QED
    BY <1>8, <2>1, <2>2, <2>3
<1>11. \A j \in Lock : \/ locks'[j] = locks[j]
                       \/ /\ locks[j].owner \in {t, NoOwner}
                          /\ locks'[j].owner \in {t, NoOwner}
  BY <1>8 DEF LOCK_SET_ADDR_WRITE
<1> QED
  BY <1>0, <1>1, <1>3, <1>6, <1>7, <1>9, <1>10, <1>11, CommitStep

\* No lock is left when nb_acquired is 0.
LEMMA RollbackEndInv ==
  ASSUME Inv, NEW t \in Thread, RollbackEnd(t)
  PROVE  Inv'
<1>0. TypeOK /\ TypeOK' /\ WriteSetInv(t) /\ Owns(t)
  BY TypeRollback DEF Inv
<1>1. pc[t] = "rollback" /\ nb_acquired[t] = 0 /\ locks' = locks /\ pc'[t] = "prepare"
  BY <1>0 DEF RollbackEnd, At, Goto, sharedVars, TypeOK
<1>2. OthersSame(t)
  BY <1>0 DEF OthersSame, RollbackEnd, Goto, setVars, TypeOK, LocalTypes
<1>3. Droppers(t, i[t]) = {} /\ i[t] \in Nat /\ i[t] <= Len(w_set[t])
  <2>1. i[t] \in Nat /\ Cardinality(Droppers(t, i[t])) = 0 /\ i[t] <= Len(w_set[t])
    BY <1>0, <1>1 DEF WriteSetInv, TypeOK, LocalTypes
  <2> QED
    BY <2>1, DroppersFinite, FS_EmptySet
<1>4. \A j \in Lock : locks[j].owner # t
  <2> SUFFICES ASSUME NEW j \in Lock, locks[j].owner = t PROVE FALSE
    OBVIOUS
  <2>1. /\ locks[j].n \in 1..Len(w_set[t]) /\ ~w_set[t][locks[j].n].no_drop
        /\ locks[j].n <= i[t]
    BY <1>0, <1>1, WriteSetType DEF Owns, Pending, At
  <2>2. locks[j].n \in Droppers(t, i[t])
    BY <1>0, <1>3, <2>1, WriteSetType DEF Droppers
  <2> QED
    BY <1>3, <2>2
<1>5. WriteSetInv(t)'
  BY <1>1 DEF WriteSetInv, Running
<1>6. Owns(t)' /\ Drops(t)'
  BY <1>1, <1>4 DEF Owns, Drops, Committing
<1> QED
  BY <1>0, <1>1, <1>2, <1>5, <1>6, CommitStep DEF UnitStoring

-----------------------------------------------------------------------------
(***************************************************************************)
(* Unit stores, the rollover, and the whole specification                  *)
(***************************************************************************)
\* A unit store outside of its critical section, or inside of it.
LEMMA UnitInv ==
  ASSUME Inv, NEW t \in Thread,
         UnitLock(t) \/ UnitStore(t) \/ UnitClock(t) \/ UnitRelease(t)
  PROVE  Inv'
<1> DEFINE k == LockOf[arg[t].addr]
<1>0. TypeOK /\ TypeOK' /\ UnitOwns /\ k \in Lock
  BY TypeUnit, LockOfArg DEF Inv
<1> USE DEF At, Goto, TypeOK, LocalTypes, SetTypes, SharedTypes, setVars, localVars
<1>1. OthersSame(t)
  <2>1. /\ UNCHANGED <<w_set, i, nb_acquired>>
        /\ arg' = arg \/ arg' = [arg EXCEPT ![t] = NoArg]
        /\ cont' = cont \/ cont' = [cont EXCEPT ![t] = "unit"]
        /\ \E lab \in Labels : pc' = [pc EXCEPT ![t] = lab]
    BY DEF UnitLock, UnitStore, UnitClock, UnitRelease, Labels
  <2> QED
    BY <1>0, <2>1 DEF OthersSame
<1>2. /\ pc[t] \notin Committing /\ pc'[t] \notin Committing /\ pc'[t] \notin Running
  BY <1>0 DEF UnitLock, UnitStore, UnitClock, UnitRelease, Committing, Running
<1>3. WriteSetInv(t)' /\ Drops(t)'
  BY <1>2 DEF WriteSetInv, Drops, Committing, Running
<1>4. \A j \in Lock : locks[j].owner # t
  BY <1>0, <1>2, OwnsNothing DEF Inv
<1>5. \A j \in Lock : \/ locks'[j] = locks[j]
                      \/ /\ locks[j].owner \in {NoOwner, UnitOwner}
                         /\ locks'[j].owner \in {NoOwner, UnitOwner}
  <2>1. CASE UnitLock(t)
    BY <1>0, <2>1 DEF UnitLock, LOCK_GET_OWNED, LOCK_UNIT
  <2>2. CASE UnitStore(t) \/ UnitClock(t)
    BY <2>2 DEF UnitStore, UnitClock
  <2>3. CASE UnitRelease(t)
    <3>1. locks[k].owner = UnitOwner
      BY <1>0, <2>3 DEF UnitRelease, UnitOwns, UnitStoring
    <3> QED
      BY <1>0, <2>3, <3>1 DEF UnitRelease, LOCK_SET_TIMESTAMP
  <2> QED
    BY <2>1, <2>2, <2>3
<1>6. Owns(t)'
  BY <1>4, <1>5, ConstantsAssumption DEF Owns
<1>7. \A u \in Thread \ {t} : WriteSetInv(u)' /\ Owns(u)' /\ Drops(u)'
  <2> SUFFICES ASSUME NEW u \in Thread \ {t}
               PROVE  WriteSetInv(u)' /\ Owns(u)' /\ Drops(u)'
    OBVIOUS
  <2>1. \A j \in Lock : \/ locks'[j] = locks[j]
                        \/ locks[j].owner # u /\ locks'[j].owner # u
    BY <1>5, ConstantsAssumption
  <2> QED
    BY <1>1, <2>1, OthersKept DEF Inv
<1>8. UnitOwns'
  <2>1. CASE UnitStore(t) \/ UnitClock(t)
    <3>1. /\ pc[t] \in UnitStoring /\ pc'[t] \in UnitStoring /\ arg' = arg
          /\ locks' = locks
      BY <1>0, <2>1 DEF UnitStore, UnitClock, UnitStoring
    <3> QED
      BY <1>0, <1>1, <3>1, UnitKept
  <2>2. CASE UnitLock(t) /\ locks' = locks
    <3>1. ~LOCK_GET_OWNED(locks[k]) /\ locks'[k] = locks[k]
      BY <1>0, <2>2 DEF UnitLock
    <3>2. locks' # [locks EXCEPT ![k] = LOCK_UNIT]
      BY <1>0, <2>2, <3>1, ConstantsAssumption DEF LOCK_UNIT, LOCK_GET_OWNED
    <3>3. pc[t] = "unit_lock" /\ pc'[t] = "idle"
      BY <1>0, <2>2, <3>2 DEF UnitLock
    <3> QED
      BY <1>0, <1>1, <2>2, <3>3, UnitKept DEF UnitStoring
  <2>3. CASE UnitLock(t) /\ locks' # locks
    <3>1. /\ locks[k].owner = NoOwner /\ locks' = [locks EXCEPT ![k] = LOCK_UNIT]
          /\ pc' = [pc EXCEPT ![t] = "unit_store"] /\ arg' = arg /\ pc[t] = "unit_lock"
      BY <2>3 DEF UnitLock, LOCK_GET_OWNED
    <3>2. /\ \A u \in Thread \ {t} : pc'[u] = pc[u]
          /\ pc'[t] \in UnitStoring /\ pc[t] \notin UnitStoring
          /\ locks'[k].owner = UnitOwner /\ \A j \in Lock \ {k} : locks'[j] = locks[j]
      BY <1>0, <3>1 DEF UnitStoring, LOCK_UNIT
    <3>3. \A u \in Thread : pc[u] \in UnitStoring => LockOf[arg[u].addr] # k
      BY <1>0, <3>1, ConstantsAssumption DEF UnitOwns
    <3>4. \A u \in Thread : LockOf[arg[u].addr] \in Lock
      BY <1>0, LockOfArg
    <3> HIDE DEF At, Goto, TypeOK, LocalTypes, SetTypes, SharedTypes, setVars, localVars
    <3>5. \A u \in Thread : pc'[u] \in UnitStoring =>
            locks'[LockOf[arg[u].addr]].owner = UnitOwner
      BY <1>0, <3>2, <3>3, <3>4 DEF UnitOwns
    <3>6. \A u, v \in Thread :
            /\ pc'[u] \in UnitStoring /\ pc'[v] \in UnitStoring
            /\ LockOf[arg[u].addr] = LockOf[arg[v].addr]
            => u = v
      BY <1>0, <3>2, <3>3 DEF UnitOwns
    <3>7. \A j \in Lock : locks'[j].owner = UnitOwner =>
            \E u \in Thread : pc'[u] \in UnitStoring /\ LockOf[arg[u].addr] = j
      BY <1>0, <3>2 DEF UnitOwns
    <3> QED
      BY <3>1, <3>5, <3>6, <3>7 DEF UnitOwns
  <2>4. CASE UnitRelease(t)
    <3>1. /\ pc[t] \in UnitStoring /\ pc'[t] \notin UnitStoring
          /\ locks'[k].owner = NoOwner /\ \A j \in Lock \ {k} : locks'[j] = locks[j]
      BY <1>0, <2>4 DEF UnitRelease, UnitStoring, LOCK_SET_TIMESTAMP
    <3>2. \A u \in Thread \ {t} : pc'[u] = pc[u] /\ arg'[u] = arg[u]
      BY <1>1 DEF OthersSame
    <3>3. \A u \in Thread : LockOf[arg[u].addr] \in Lock
      BY <1>0, LockOfArg
    <3>4. \A u \in Thread \ {t} : pc[u] \in UnitStoring => LockOf[arg[u].addr] # k
      BY <1>0, <3>1 DEF UnitOwns
    <3> HIDE DEF At, Goto, TypeOK, LocalTypes, SetTypes, SharedTypes, setVars, localVars
    <3>5. \A u \in Thread : pc'[u] \in UnitStoring =>
            u # t /\ locks'[LockOf[arg'[u].addr]].owner = UnitOwner
      BY <1>0, <3>1, <3>2, <3>3, <3>4 DEF UnitOwns
    <3>6. \A u, v \in Thread :
            /\ pc'[u] \in UnitStoring /\ pc'[v] \in UnitStoring
            /\ LockOf[arg'[u].addr] = LockOf[arg'[v].addr]
            => u = v
      BY <1>0, <3>1, <3>2 DEF UnitOwns
    <3>7. ASSUME NEW j \in Lock, locks'[j].owner = UnitOwner
          PROVE  \E u \in Thread : pc'[u] \in UnitStoring /\ LockOf[arg'[u].addr] = j
      <4>1. j # k /\ locks[j].owner = UnitOwner
        BY <3>1, <3>7, ConstantsAssumption
      <4>2. PICK u \in Thread : pc[u] \in UnitStoring /\ LockOf[arg[u].addr] = j
        BY <1>0, <4>1 DEF UnitOwns
      <4> QED
        BY <3>2, <4>1, <4>2
    <3> QED
      BY <3>5, <3>6, <3>7 DEF UnitOwns
  <2> QED
    BY <2>1, <2>2, <2>3, <2>4
<1> QED
  BY <1>0, <1>3, <1>6, <1>7, <1>8 DEF Inv

\* After a rollover nobody owns a lock.
LEMMA RolloverInv ==
  ASSUME Inv, rollover_clock
  PROVE  Inv'
<1>0. TypeOK /\ TypeOK'
  BY TypeRollover DEF Inv
<1>1. \A t \in Thread : pc'[t] \in {"idle", "prepare"}
  BY DEF rollover_clock
<1>2. \A k \in Lock : locks'[k].owner = NoOwner
  BY DEF rollover_clock, LOCK_SET_TIMESTAMP
<1>3. \A t \in Thread : WriteSetInv(t)' /\ Drops(t)'
  BY <1>1 DEF WriteSetInv, Drops, Committing, Running
<1>4. \A t \in Thread : Owns(t)'
  BY <1>2, ConstantsAssumption DEF Owns
<1>5. UnitOwns'
  BY <1>1, <1>2, ConstantsAssumption DEF UnitOwns, UnitStoring
<1> QED
  BY <1>0, <1>3, <1>4, <1>5 DEF Inv

\* The initial state satisfies the invariant.
LEMMA InitInv == Init => Inv
<1> SUFFICES ASSUME Init PROVE Inv
  OBVIOUS
<1> USE DEF Init
<1>1. pc \in [Thread -> Labels]
  BY DEF Labels
<1>2. SharedTypes
  BY Builders DEF SharedTypes
<1>3. AttrTypes
  <2>1. /\ status \in [Thread -> {"IDLE", "ACTIVE", "COMMITTED", "ABORTED"}]
        /\ nesting \in [Thread -> Nat] /\ ro \in [Thread -> BOOLEAN]
    OBVIOUS
  <2>2. [read_only |-> FALSE, no_retry |-> FALSE] \in [read_only: BOOLEAN, no_retry: BOOLEAN]
    OBVIOUS
  <2>3. attr \in [Thread -> [read_only: BOOLEAN, no_retry: BOOLEAN]]
    BY <2>2
  <2> QED
    BY <2>1, <2>3 DEF AttrTypes
<1>4. SnapTypes
  BY DEF SnapTypes
<1>5. SetTypes
  BY EmptySeq DEF SetTypes
<1>6. LocalTypes
  BY Builders DEF LocalTypes
<1>7. EaTypes
  BY DEF EaTypes
<1>8. HistTypes
  BY <1>2 DEF HistTypes, InitialHistory, CommittedWrite, SharedTypes
<1>9. \A t \in Thread : WriteSetInv(t) /\ Drops(t)
  BY DEF WriteSetInv, Drops, Committing, Running
<1>10. \A k \in Lock : locks[k].owner = NoOwner
  BY DEF LOCK_SET_TIMESTAMP
<1>11. (\A t \in Thread : Owns(t)) /\ UnitOwns
  BY <1>10, ConstantsAssumption DEF Owns, UnitOwns, UnitStoring
<1> QED
  BY <1>1, <1>2, <1>3, <1>4, <1>5, <1>6, <1>7, <1>8, <1>9, <1>11 DEF Inv, TypeOK

\* Inv is inductive.
LEMMA NextInv == Inv /\ [Next]_vars => Inv'
<1> SUFFICES ASSUME Inv, [Next]_vars PROVE Inv'
  OBVIOUS
<1>1. CASE UNCHANGED vars
  <2>1. TypeOK'
    BY <1>1 DEF vars, Inv, TypeOK, SharedTypes, AttrTypes, SnapTypes, SetTypes,
       LocalTypes, EaTypes, HistTypes
  <2>2. ASSUME NEW u \in Thread PROVE WriteSetInv(u)'
    <3>1. WriteSetInv(u)
      BY DEF Inv
    <3> QED
      BY <1>1, <3>1 DEF vars, WriteSetInv, Clean, Droppers
  <2>3. \A u \in Thread : Owns(u)' /\ Drops(u)'
    BY <1>1 DEF vars, Inv, Owns, Drops, Pending, At, LOCK_SET_ADDR_WRITE
  <2>4. UnitOwns'
    BY <1>1 DEF vars, Inv, UnitOwns
  <2> QED
    BY <2>1, <2>2, <2>3, <2>4 DEF Inv
<1>2. CASE rollover_clock
  BY <1>2, RolloverInv
<1>3. ASSUME NEW t \in Thread, LibraryStep(t) PROVE Inv'
  BY <1>3, OutsideInv, ReadInv, BodyInv, WriteInv, AcquireInv, ValidateInv, WriteBackInv,
     RollbackReleaseInv, RollbackEndInv, UnitInv DEF LibraryStep
<1>4. ASSUME NEW t \in Thread, AppStep(t) PROVE Inv'
  <2>1. Loads[t] \subseteq Addr /\ Stores[t] \subseteq Addr /\ StoreWords[t] \subseteq Word
        /\ Masks \subseteq SUBSET Byte /\ UnitMasks \subseteq SUBSET Byte
    BY ConstantsAssumption DEF Word
  <2> QED
    BY <1>4, <2>1, OutsideInv, BodyInv DEF AppStep
<1>5. ASSUME NEW t \in Thread, Tick(t) PROVE Inv'
  BY <1>5, TickInv, BodyInv DEF Tick
<1> QED
  BY <1>1, <1>2, <1>3, <1>4, <1>5 DEF Next

\* The state of stm.c keeps its types: no loop over the write set leaves it, and
\* nb_acquired and nesting never become negative.
THEOREM TypeCorrect == Spec => []TypeOK
<1>1. Inv => TypeOK
  BY DEF Inv
<1> QED
  BY InitInv, NextInv, <1>1, PTL DEF Spec

\* Locks and write sets always agree, for any number of threads, addresses and
\* locks: stm_commit and stm_rollback neither leak a lock nor drop a foreign one.
THEOREM LocksAccounted == Spec => []LockOwnership
<1>1. ASSUME Inv PROVE LockOwnership
  <2>1. \A k \in Lock : locks[k].owner = UnitOwner =>
          Cardinality({t \in Thread : pc[t] \in UnitStoring
                                        /\ LockOf[arg[t].addr] = k}) = 1
    <3> SUFFICES ASSUME NEW k \in Lock, locks[k].owner = UnitOwner
                 PROVE  Cardinality({t \in Thread : pc[t] \in UnitStoring
                                                      /\ LockOf[arg[t].addr] = k}) = 1
      OBVIOUS
    <3>1. PICK u \in Thread : pc[u] \in UnitStoring /\ LockOf[arg[u].addr] = k
      BY <1>1 DEF Inv, UnitOwns
    <3>2. {t \in Thread : pc[t] \in UnitStoring /\ LockOf[arg[t].addr] = k} = {u}
      BY <1>1, <3>1 DEF Inv, UnitOwns
    <3> QED
      BY <3>2, FS_Singleton
  <2> QED
    BY <1>1, <2>1 DEF Inv, Owns, Drops, LockOwnership
<1> QED
  BY InitInv, NextInv, <1>1, PTL DEF Spec

-----------------------------------------------------------------------------
(***************************************************************************)
(* Versions and memory: the inductive invariant                            *)
(***************************************************************************)
\* Past the point of no return: stm_commit is writing back.
Publishing == {"write_back", "release"}

\* stm_commit has a timestamp and validates.
Stamped(t) == pc[t] = "validate" /\ cont[t] = "commit"

\* A write set has at most one entry for an address.
Distinct(t) ==
  \A m, n \in DOMAIN w_set[t] : w_set[t][m].addr = w_set[t][n].addr => m = n

\* t owns the lock of entry n, which an entry not before n will drop.
HoldsEntry(t, n) ==
  /\ locks[LockOf[w_set[t][n].addr]].owner = t
  /\ n <= locks[LockOf[w_set[t][n].addr]].n

\* The locks of all entries the loop of stm_commit has passed, or has still to
\* write back, are owned.
Holds(t) ==
  \A n \in DOMAIN w_set[t] :
    \/ pc[t] = "acquire" /\ n > i[t]
    \/ Stamped(t)
    \/ pc[t] \in Publishing /\ n >= i[t]
    => HoldsEntry(t, n)

\* No committed write of an address of lock k is newer than v.
Covers(k, v) == \A h \in hist : LockOf[h.addr] = k => h.ts <= v

\* The version the owner t of lock k found there.
OldVersion(t, k) == w_set[t][locks[k].n].version

\* A free lock, a lock whose owner may still roll back, and a lock whose owner
\* is writing back.
FreeVersion(k) ==
  locks[k].owner = NoOwner => locks[k].n <= clock /\ Covers(k, locks[k].n)

OwnedVersion(t, k) ==
  locks[k].owner = t =>
    /\ pc[t] \notin Publishing => OldVersion(t, k) <= clock /\ Covers(k, OldVersion(t, k))
    /\ Stamped(t) => OldVersion(t, k) < ts[t]
    /\ pc[t] \in Publishing => Covers(k, ts[t])

\* Timestamps are clock values; a unit store's covers its lock.
Stamps(t) ==
  /\ Stamped(t) \/ pc[t] \in Publishing => ts[t] <= clock
  /\ pc[t] = "unit_release" => ts[t] <= clock /\ Covers(LockOf[arg[t].addr], ts[t])

\* No timestamp of the history is in the future, and none is used twice for an
\* address.
HistoryInv ==
  /\ \A h \in hist : h.ts <= clock
  /\ \A g, h \in hist : g.addr = h.addr /\ g.ts = h.ts => g = h

VersionInv ==
  /\ \A t \in Thread : Distinct(t) /\ Holds(t) /\ Stamps(t)
  /\ \A k \in Lock : FreeVersion(k)
  /\ \A t \in Thread, k \in Lock : OwnedVersion(t, k)
  /\ HistoryInv

\* w is the last committed value of a.
Latest(a, w) ==
  \E h \in hist : /\ h.addr = a /\ h.value = w
                  /\ \A g \in hist : g.addr = a => g.ts <= h.ts

\* t is writing back a, whose lock it still holds, from entry n.
WritesBack(t, n, a) ==
  /\ pc[t] \in Publishing /\ n \in DOMAIN w_set[t] /\ w_set[t][n].addr = a
  /\ locks[LockOf[a]].owner = t

\* The value entry n of t makes of address a.
Outcome(t, n, a) == Merge(mem[a], w_set[t][n].value, w_set[t][n].mask)

Stored(t, n) == n < i[t] \/ (n = i[t] /\ pc[t] = "release")

MemoryInv ==
  /\ \A a \in Addr :
       \/ Latest(a, mem[a])
       \/ \E t \in Thread : \E n \in DOMAIN w_set[t] : WritesBack(t, n, a)
       \/ \E t \in Thread : pc[t] = "unit_clock" /\ arg[t].addr = a
  /\ \A t \in Thread, a \in Addr : \A n \in DOMAIN w_set[t] : WritesBack(t, n, a) =>
       /\ Latest(a, Outcome(t, n, a))
       /\ Stored(t, n) => mem[a] = Outcome(t, n, a)
  /\ \A t \in Thread : pc[t] = "unit_clock" => mem[arg[t].addr] = arg[t].value

VInv == Inv /\ VersionInv /\ MemoryInv

-----------------------------------------------------------------------------
(***************************************************************************)
(* What a step leaves alone                                                *)
(***************************************************************************)
\* The descriptors and locals of the other threads, history included.
OthersLeft(t) ==
  /\ OthersSame(t)
  /\ \A u \in Thread \ {t} :
       /\ ts'[u] = ts[u] /\ r_set'[u] = r_set[u] /\ obs'[u] = obs[u]
       /\ ro'[u] = ro[u] /\ start'[u] = start[u] /\ end'[u] = end[u]
       /\ snap'[u] = snap[u] /\ now'[u] = now[u] /\ todo'[u] = todo[u]
       /\ l'[u] = l[u] /\ value'[u] = value[u]
       /\ tx_on'[u] = tx_on[u] /\ standing'[u] = standing[u]

\* Thread-local variables are functions of the thread.
LEMMA Domains ==
  ASSUME TypeOK
  PROVE  /\ DOMAIN pc = Thread /\ DOMAIN w_set = Thread /\ DOMAIN i = Thread
         /\ DOMAIN arg = Thread /\ DOMAIN nb_acquired = Thread /\ DOMAIN cont = Thread
         /\ DOMAIN ts = Thread /\ DOMAIN r_set = Thread /\ DOMAIN obs = Thread
         /\ DOMAIN ro = Thread /\ DOMAIN start = Thread /\ DOMAIN end = Thread
         /\ DOMAIN snap = Thread /\ DOMAIN now = Thread /\ DOMAIN todo = Thread
         /\ DOMAIN l = Thread /\ DOMAIN value = Thread /\ DOMAIN tx_on = Thread
         /\ DOMAIN standing = Thread
  BY DEF TypeOK, AttrTypes, SnapTypes, SetTypes, LocalTypes, EaTypes, HistTypes

\* A call or a tick of t changes nothing local to another thread ...
LEMMA LocalCall ==
  ASSUME TypeOK, NEW t \in Thread,
         AppStep(t) \/ Tick(t)
  PROVE  OthersLeft(t)
<1> USE Domains DEF sharedVars, attrVars, snapVars, setVars, localVars, eaVars, histVars,
       OthersSame, OthersLeft, Goto, EnterRollback, ReturnToApp
<1>1. ASSUME \E a \in Attr : stm_start(t, a) PROVE OthersLeft(t)
  BY <1>1 DEF stm_start
<1>2. ASSUME stm_start_nested(t) \/ stm_commit_nested(t) \/ stm_commit(t) \/ stm_abort(t)
             \/ stm_store_ro(t)
      PROVE OthersLeft(t)
  BY <1>2 DEF stm_start_nested, stm_commit_nested, stm_commit, stm_abort, stm_store_ro
<1>3. ASSUME \E a \in Loads[t] : stm_load_written(t, a) \/ stm_load(t, a) \/ stm_unit_load(t, a)
      PROVE OthersLeft(t)
  BY <1>3 DEF stm_load_written, stm_load, stm_unit_load
<1>4. ASSUME \E a, v, m : stm_store(t, a, v, m) \/ stm_unit_store(t, a, v, m)
      PROVE OthersLeft(t)
  BY <1>4 DEF stm_store, stm_unit_store
<1>5. ASSUME \E e \in BOOLEAN, b \in Bounds : stm_set_extension(t, e, b)
      PROVE OthersLeft(t)
  BY <1>5 DEF stm_set_extension
<1>6. ASSUME Tick(t) PROVE OthersLeft(t)
  BY <1>6 DEF Tick, TickRecentlyValidated, TickDeliver, TickStanding
<1> HIDE DEF sharedVars, attrVars, snapVars, setVars, localVars, eaVars, histVars,
       OthersSame, OthersLeft, Goto, EnterRollback, ReturnToApp
<1> QED
  BY <1>1, <1>2, <1>3, <1>4, <1>5, <1>6 DEF AppStep

\* ... nor does a step inside the library.
LEMMA LocalLibrary ==
  ASSUME TypeOK, NEW t \in Thread, LibraryStep(t)
  PROVE  OthersLeft(t)
<1> USE Domains DEF sharedVars, attrVars, snapVars, setVars, localVars, eaVars, histVars,
       OthersSame, OthersLeft, Goto, EnterRollback, ReturnToApp
<1>1. ASSUME stm_prepare(t) \/ stm_prepare_overflow(t) PROVE OthersLeft(t)
  BY <1>1 DEF stm_prepare, stm_prepare_overflow
<1>2. ASSUME ReadLock(t) \/ ReadValue(t) \/ ReadLockChanged(t) PROVE OthersLeft(t)
  BY <1>2 DEF ReadLock, ReadValue, ReadLockChanged
<1>3. ASSUME ReadLockSame(t) \/ ReadTooNew(t) \/ ReadRecheck(t) PROVE OthersLeft(t)
  BY <1>3 DEF ReadLockSame, ReadTooNew, ReadRecheck, AddToReadSet
<1>4. ASSUME stm_write(t) PROVE OthersLeft(t)
  BY <1>4, BufferType DEF stm_write
<1>5. ASSUME stm_extend(t) \/ (\E r \in todo[t] : stm_validate(t, r)) \/ ExtendOk(t)
      PROVE OthersLeft(t)
  BY <1>5 DEF stm_extend, stm_validate, ExtendOk
<1>6. ASSUME CommitAcquire(t) PROVE OthersLeft(t)
  BY <1>6 DEF CommitAcquire, Acquire
<1>7. ASSUME CommitClock(t) \/ CommitValid(t) PROVE OthersLeft(t)
  BY <1>7 DEF CommitClock, CommitValid
<1>8. ASSUME CommitStore(t) \/ CommitRelease(t) \/ CommitEnd(t) PROVE OthersLeft(t)
  BY <1>8 DEF CommitStore, CommitRelease, CommitEnd, NextWriteBack
<1>9. ASSUME RollbackRelease(t) \/ RollbackEnd(t) PROVE OthersLeft(t)
  BY <1>9 DEF RollbackRelease, RollbackEnd
<1>10. ASSUME UnitReadLockSame(t) \/ UnitReadReturn(t) \/ UnitLock(t) PROVE OthersLeft(t)
  BY <1>10 DEF UnitReadLockSame, UnitReadReturn, UnitLock
<1>11. ASSUME UnitStore(t) \/ UnitClock(t) \/ UnitRelease(t) PROVE OthersLeft(t)
  BY <1>11 DEF UnitStore, UnitClock, UnitRelease
<1> HIDE DEF sharedVars, attrVars, snapVars, setVars, localVars, eaVars, histVars,
       OthersSame, OthersLeft, Goto, EnterRollback, ReturnToApp
<1> QED
  BY <1>1, <1>2, <1>3, <1>4, <1>5, <1>6, <1>7, <1>8, <1>9, <1>10, <1>11 DEF LibraryStep

\* The types of history entries and of the timestamps of t.
LEMMA HistoryTypes ==
  ASSUME TypeOK
  PROVE  /\ clock \in Nat
         /\ \A h \in hist : h.ts \in Nat /\ h.addr \in Addr /\ LockOf[h.addr] \in Lock
         /\ \A t \in Thread : ts[t] \in Nat /\ i[t] \in Nat
         /\ \A k \in Lock : locks[k] \in LockWord /\ locks[k].n \in Nat
<1>1. clock \in Nat /\ \A k \in Lock : locks[k] \in LockWord /\ locks[k].n \in Nat
  BY Parts DEF TypeOK, SharedTypes
<1>2. \A h \in hist : h.ts \in Nat /\ h.addr \in Addr /\ LockOf[h.addr] \in Lock
  BY ConstantsAssumption DEF TypeOK, HistTypes, CommittedWrite
<1>3. \A t \in Thread : ts[t] \in Nat /\ i[t] \in Nat
  BY DEF TypeOK, LocalTypes
<1> QED
  BY <1>1, <1>2, <1>3

\* A thread keeps its part of the invariant while others change locks it does
\* not own and commit writes under locks it does not own.
LEMMA OthersVersions ==
  ASSUME Inv, TypeOK', VersionInv, NEW t \in Thread, NEW u \in Thread \ {t},
         OthersLeft(t), clock <= clock',
         \A k \in Lock : \/ locks'[k] = locks[k]
                         \/ locks[k].owner # u /\ locks'[k].owner # u,
         \A h \in hist' \ hist :
           /\ locks[LockOf[h.addr]].owner # u
           /\ pc[u] = "unit_release" => LockOf[h.addr] # LockOf[arg[u].addr]
  PROVE  /\ Distinct(u)' /\ Holds(u)' /\ Stamps(u)'
         /\ \A k \in Lock : OwnedVersion(u, k)'
<1>0. /\ pc'[u] = pc[u] /\ w_set'[u] = w_set[u] /\ i'[u] = i[u]
      /\ cont'[u] = cont[u] /\ ts'[u] = ts[u] /\ arg'[u] = arg[u]
  BY DEF OthersLeft, OthersSame
<1>1. TypeOK /\ Distinct(u) /\ Holds(u) /\ Stamps(u) /\ \A k \in Lock : OwnedVersion(u, k)
  BY DEF VersionInv, Inv
<1>2. Stamped(u)' <=> Stamped(u)
  BY <1>0 DEF Stamped
<1>3. Distinct(u)'
  BY <1>0, <1>1 DEF Distinct
<1>4. Holds(u)'
  <2> SUFFICES ASSUME NEW n \in DOMAIN w_set[u], HoldsEntry(u, n) PROVE HoldsEntry(u, n)'
    BY <1>0, <1>1, <1>2 DEF Holds
  <2>1. LockOf[w_set[u][n].addr] \in Lock
    BY <1>1, WriteSetType
  <2> QED
    BY <1>0, <2>1 DEF HoldsEntry
<1>5. clock \in Nat /\ clock' \in Nat /\ ts[u] \in Nat
  BY <1>1, HistoryTypes DEF TypeOK, SharedTypes
<1>6. ASSUME NEW k \in Lock, NEW v, Covers(k, v),
             locks[k].owner = u \/ (pc[u] = "unit_release" /\ LockOf[arg[u].addr] = k)
      PROVE  Covers(k, v)'
  BY <1>6 DEF Covers
<1>7. Stamps(u)'
  <2>1. LockOf[arg[u].addr] \in Lock
    BY <1>1, LockOfArg
  <2>2. pc[u] = "unit_release" => Covers(LockOf[arg[u].addr], ts[u])'
    BY <1>0, <1>1, <2>1 DEF Stamps, Covers
  <2> QED
    BY <1>0, <1>1, <1>2, <1>5, <2>2 DEF Stamps
<1>8. ASSUME NEW k \in Lock, locks'[k].owner = u PROVE OwnedVersion(u, k)'
  <2>1. locks'[k] = locks[k] /\ locks[k].owner = u
    BY <1>8
  <2>2. OldVersion(u, k)' = OldVersion(u, k) /\ OldVersion(u, k) \in Nat
    <3>1. locks[k].n \in DOMAIN w_set[u]
      BY <2>1 DEF Inv, Owns
    <3> QED
      BY <1>0, <1>1, <2>1, <3>1, WriteSetType DEF OldVersion
  <2>3. \A v : Covers(k, v) => Covers(k, v)'
    BY <1>6, <2>1
  <2>4. OwnedVersion(u, k)
    BY <1>1
  <2> QED
    BY <1>0, <1>2, <1>5, <2>1, <2>2, <2>3, <2>4 DEF OwnedVersion
<1> QED
  BY <1>3, <1>4, <1>7, <1>8 DEF OwnedVersion

-----------------------------------------------------------------------------
(***************************************************************************)
(* Steps that change no lock and no memory                                 *)
(***************************************************************************)
\* Memory and history are unchanged, and t writes nothing back.
LEMMA MemorySame ==
  ASSUME Inv, MemoryInv, NEW t \in Thread, OthersLeft(t), mem' = mem, hist' = hist,
         \A k \in Lock, u \in Thread \ {t} :
           locks'[k].owner = u <=> locks[k].owner = u,
         pc[t] \notin Publishing, pc'[t] \notin Publishing,
         pc[t] # "unit_clock", pc'[t] # "unit_clock"
  PROVE  MemoryInv'
<1>1. \A a, w : Latest(a, w)' <=> Latest(a, w)
  BY DEF Latest
<1>2. \A u \in Thread \ {t} : /\ pc'[u] = pc[u] /\ w_set'[u] = w_set[u] /\ i'[u] = i[u]
                              /\ arg'[u] = arg[u]
  BY DEF OthersLeft, OthersSame
<1>3. \A a \in Addr : LockOf[a] \in Lock
  BY ConstantsAssumption
<1>4. \A n : \A u \in Thread, a \in Addr : WritesBack(u, n, a)' <=> WritesBack(u, n, a)
  BY <1>2, <1>3 DEF WritesBack
<1>5. \A n : \A u \in Thread, a \in Addr : WritesBack(u, n, a) =>
        /\ u # t /\ w_set'[u] = w_set[u] /\ n \in DOMAIN w_set[u]
        /\ Outcome(u, n, a)' = Outcome(u, n, a)
        /\ Stored(u, n)' <=> Stored(u, n)
  BY <1>2 DEF WritesBack, Outcome, Stored
<1>6. \A u \in Thread : pc'[u] = "unit_clock" <=> pc[u] = "unit_clock"
  BY <1>2
<1>7. ASSUME NEW a \in Addr
      PROVE  \/ Latest(a, mem[a])'
             \/ \E u \in Thread : \E n \in DOMAIN w_set'[u] : WritesBack(u, n, a)'
             \/ \E u \in Thread : pc'[u] = "unit_clock" /\ arg'[u].addr = a
  <2>1. CASE Latest(a, mem[a])
    BY <1>1, <2>1
  <2>2. CASE \E u \in Thread : \E n \in DOMAIN w_set[u] : WritesBack(u, n, a)
    BY <1>4, <1>5, <2>2
  <2>3. CASE \E u \in Thread : pc[u] = "unit_clock" /\ arg[u].addr = a
    BY <1>2, <2>3
  <2> QED
    BY <2>1, <2>2, <2>3 DEF MemoryInv
<1>8. ASSUME NEW u \in Thread, NEW a \in Addr, NEW n \in DOMAIN w_set'[u],
             WritesBack(u, n, a)'
      PROVE  Latest(a, Outcome(u, n, a))' /\ (Stored(u, n)' => mem'[a] = Outcome(u, n, a)')
  <2>1. WritesBack(u, n, a)
    BY <1>4, <1>8
  <2>2. /\ n \in DOMAIN w_set[u] /\ Outcome(u, n, a)' = Outcome(u, n, a)
        /\ Stored(u, n)' <=> Stored(u, n)
    BY <1>5, <2>1
  <2>3. /\ Latest(a, Outcome(u, n, a))
        /\ Stored(u, n) => mem[a] = Outcome(u, n, a)
    BY <2>1, <2>2 DEF MemoryInv
  <2>4. Latest(a, Outcome(u, n, a))'
    BY <2>2, <2>3 DEF Latest
  <2> QED
    BY <2>2, <2>3, <2>4
<1>9. ASSUME NEW u \in Thread, pc'[u] = "unit_clock"
      PROVE  mem'[arg'[u].addr] = arg'[u].value
  BY <1>2, <1>6, <1>9 DEF MemoryInv
<1> QED
  BY <1>7, <1>8, <1>9 DEF MemoryInv

\* t owns no lock and is neither writing back nor in a unit store.
LEMMA QuietVersions ==
  ASSUME VInv, TypeOK', NEW t \in Thread, OthersLeft(t),
         UNCHANGED <<clock, locks, mem, hist>>,
         \A k \in Lock : locks[k].owner # t,
         pc[t] \notin UnitStoring \cup Publishing,
         pc'[t] \notin UnitStoring \cup Publishing,
         ~Stamped(t)', Distinct(t)', pc'[t] = "acquire" => i'[t] = Len(w_set'[t])
  PROVE  VersionInv' /\ MemoryInv'
<1>0. Inv /\ VersionInv /\ MemoryInv
  BY DEF VInv
<1>1. MemoryInv'
  BY <1>0, MemorySame DEF UnitStoring
<1>2. \A u \in Thread \ {t} : /\ Distinct(u)' /\ Holds(u)' /\ Stamps(u)'
                              /\ \A k \in Lock : OwnedVersion(u, k)'
  <2> SUFFICES ASSUME NEW u \in Thread \ {t}
               PROVE  /\ Distinct(u)' /\ Holds(u)' /\ Stamps(u)'
                      /\ \A k \in Lock : OwnedVersion(u, k)'
    OBVIOUS
  <2>1. clock <= clock'
    BY <1>0, HistoryTypes DEF Inv
  <2> QED
    BY <1>0, <2>1, OthersVersions
<1>3. Holds(t)'
  <2>1. DOMAIN w_set'[t] = 1..Len(w_set'[t]) /\ Len(w_set'[t]) \in Nat
    BY LenProperties DEF TypeOK, SetTypes
  <2> QED
    BY <2>1 DEF Holds
<1>4. Stamps(t)' /\ \A k \in Lock : OwnedVersion(t, k)'
  BY DEF Stamps, OwnedVersion, UnitStoring
<1>5. \A k \in Lock : FreeVersion(k)'
  BY <1>0 DEF VersionInv, FreeVersion, Covers
<1>6. HistoryInv'
  BY <1>0 DEF VersionInv, HistoryInv
<1> QED
  BY <1>1, <1>2, <1>3, <1>4, <1>5, <1>6 DEF VersionInv

\* Ticks that only set a flag, and stuttering.
LEMMA StillVersions ==
  ASSUME VInv, UNCHANGED <<clock, locks, mem, hist, pc, w_set, i, ts, cont, arg>>
  PROVE  VersionInv' /\ MemoryInv'
<1>1. VersionInv'
  <2>1. \A t \in Thread : Distinct(t)' /\ Holds(t)'
    BY DEF VInv, VersionInv, Distinct, Holds, HoldsEntry, Stamped
  <2>2. \A t \in Thread : Stamps(t)'
    BY DEF VInv, VersionInv, Stamps, Stamped, Covers
  <2>3. \A k \in Lock : FreeVersion(k)'
    BY DEF VInv, VersionInv, Covers, FreeVersion
  <2>4. \A t \in Thread, k \in Lock : OwnedVersion(t, k)'
    BY DEF VInv, VersionInv, Covers, OwnedVersion, OldVersion, Stamped
  <2>5. HistoryInv'
    BY DEF VInv, VersionInv, HistoryInv
  <2> QED
    BY <2>1, <2>2, <2>3, <2>4, <2>5 DEF VersionInv
<1>2. MemoryInv'
  <2>1. /\ \A t, n, a : WritesBack(t, n, a)' <=> WritesBack(t, n, a)
        /\ \A t, n, a : Outcome(t, n, a)' = Outcome(t, n, a)
        /\ \A t, n : Stored(t, n)' <=> Stored(t, n)
    BY DEF WritesBack, Outcome, Stored
  <2>2. \A a \in Addr : Latest(a, mem[a])' <=> Latest(a, mem[a])
    BY DEF Latest
  <2>3. \A t, n, a : Latest(a, Outcome(t, n, a))' <=> Latest(a, Outcome(t, n, a))
    BY <2>1 DEF Latest
  <2> QED
    BY <2>1, <2>2, <2>3 DEF VInv, MemoryInv
<1> QED
  BY <1>1, <1>2

\* The steps of t that change no lock, no memory and no history and need no
\* lock of t's: everything but the commit, its rollback and the unit stores.
Quiet(t) ==
  \/ AppStep(t) \/ TickDeliver(t)
  \/ stm_prepare(t) \/ stm_prepare_overflow(t)
  \/ ReadLock(t) \/ ReadValue(t) \/ ReadLockChanged(t) \/ ReadLockSame(t)
  \/ ReadTooNew(t) \/ ReadRecheck(t) \/ stm_write(t)
  \/ stm_extend(t) \/ (~Stamped(t) /\ \E r \in todo[t] : stm_validate(t, r))
  \/ ExtendOk(t) \/ CommitEnd(t) \/ RollbackEnd(t)
  \/ UnitReadLockSame(t) \/ UnitReadReturn(t) \/ (UnitLock(t) /\ locks' = locks)

\* What a quiet step does to the state the versions depend on.
QuietEffect(t) ==
  /\ UNCHANGED <<clock, locks, mem, hist>>
  /\ \A k \in Lock : locks[k].owner # t
  /\ pc[t] \notin UnitStoring \cup Publishing
  /\ pc'[t] \notin UnitStoring \cup Publishing
  /\ ~Stamped(t) /\ ~Stamped(t)'
  /\ pc'[t] = "acquire" => i'[t] = Len(w_set'[t])
  /\ w_set'[t] = w_set[t] \/ w_set'[t] = <<>> \/ BufferWrite(t)

LEMMA QuietSteps ==
  ASSUME Inv, Inv', NEW t \in Thread, Quiet(t)
  PROVE  QuietEffect(t)
<1>0. TypeOK /\ TypeOK' /\ WriteSetInv(t) /\ Owns(t) /\ Owns(t)'
  BY DEF Inv
<1> DEFINE Free == \A k \in Lock : locks[k].owner # t
<1>1. pc[t] \notin Committing => Free
  BY <1>0, OwnsNothing
<1>2. Clean(t) => Free
  BY <1>0, OwnsNothing
<1>3. pc[t] \in Running \/ (pc[t] = "validate" /\ cont[t] # "commit") => Free
  BY <1>0, <1>2 DEF WriteSetInv
<1>4. pc'[t] \notin Committing /\ locks' = locks => Free
  BY <1>0 DEF Owns
<1> HIDE DEF Free
<1> USE DEF Running, Committing, UnitStoring, Publishing, Stamped, QuietEffect,
       sharedVars, setVars, localVars, histVars, At, Goto, EnterRollback, ReturnToApp
<1> USE <1>0, Domains
<1>5. ASSUME \E a \in Attr : stm_start(t, a) PROVE QuietEffect(t)
  BY <1>1, <1>5 DEF Free, stm_start
<1>6. ASSUME \/ stm_start_nested(t) \/ stm_commit_nested(t) \/ stm_abort(t)
             \/ stm_store_ro(t) \/ \E e, b : stm_set_extension(t, e, b)
      PROVE QuietEffect(t)
  BY <1>3, <1>6 DEF Free, stm_start_nested, stm_commit_nested, stm_abort, stm_store_ro,
     stm_set_extension
<1>7. ASSUME stm_commit(t) PROVE QuietEffect(t)
  BY <1>3, <1>7 DEF Free, stm_commit
<1>8. ASSUME \E a : stm_load_written(t, a) \/ stm_load(t, a) PROVE QuietEffect(t)
  BY <1>3, <1>8 DEF Free, stm_load_written, stm_load
<1>9. ASSUME \E a, v, m : stm_store(t, a, v, m) PROVE QuietEffect(t)
  BY <1>3, <1>9 DEF Free, stm_store
<1>10. ASSUME (\E a : stm_unit_load(t, a)) \/ \E a, v, m : stm_unit_store(t, a, v, m)
       PROVE QuietEffect(t)
  BY <1>1, <1>10 DEF Free, stm_unit_load, stm_unit_store
<1>11. ASSUME TickDeliver(t) PROVE QuietEffect(t)
  BY <1>3, <1>11 DEF Free, TickDeliver
<1>12. ASSUME stm_prepare(t) \/ stm_prepare_overflow(t) PROVE QuietEffect(t)
  BY <1>1, <1>12 DEF Free, stm_prepare, stm_prepare_overflow
<1>13. ASSUME ReadLock(t) \/ ReadValue(t) \/ ReadLockChanged(t) PROVE QuietEffect(t)
  BY <1>1, <1>3, <1>13 DEF Free, ReadLock, ReadValue, ReadLockChanged
<1>14. ASSUME ReadLockSame(t) \/ ReadTooNew(t) \/ ReadRecheck(t) PROVE QuietEffect(t)
  BY <1>3, <1>14 DEF Free, ReadLockSame, ReadTooNew, ReadRecheck
<1>15. ASSUME stm_write(t) PROVE QuietEffect(t)
  BY <1>3, <1>15 DEF Free, stm_write
<1>16. ASSUME stm_extend(t) \/ ExtendOk(t) PROVE QuietEffect(t)
  BY <1>3, <1>16 DEF Free, stm_extend, ExtendOk, WriteSetInv
<1>17. ASSUME ~Stamped(t), \E r \in todo[t] : stm_validate(t, r) PROVE QuietEffect(t)
  BY <1>3, <1>17 DEF Free, stm_validate
<1>18. ASSUME CommitEnd(t) \/ UnitReadLockSame(t) \/ UnitReadReturn(t) PROVE QuietEffect(t)
  BY <1>1, <1>18 DEF Free, CommitEnd, UnitReadLockSame, UnitReadReturn
<1>19. ASSUME RollbackEnd(t) PROVE QuietEffect(t)
  BY <1>4, <1>19 DEF Free, RollbackEnd
<1>20. ASSUME UnitLock(t), locks' = locks PROVE QuietEffect(t)
  <2>1. LockOf[arg[t].addr] \in Lock /\ DOMAIN locks = Lock
    BY LockOfArg DEF TypeOK, SharedTypes
  <2>2. locks' # [locks EXCEPT ![LockOf[arg[t].addr]] = LOCK_UNIT]
    BY <1>20, <2>1, ConstantsAssumption DEF UnitLock, LOCK_UNIT, LOCK_GET_OWNED
  <2>3. pc[t] = "unit_lock" /\ pc'[t] = "idle" /\ UNCHANGED <<clock, mem, hist, w_set>>
    BY <1>20, <2>2 DEF UnitLock
  <2> QED
    BY <1>1, <1>20, <2>3 DEF Free
<1> HIDE DEF Running, Committing, UnitStoring, Publishing, Stamped, QuietEffect,
       sharedVars, setVars, localVars, histVars, At, Goto, EnterRollback, ReturnToApp
<1>21. ASSUME AppStep(t) PROVE QuietEffect(t)
  BY <1>5, <1>6, <1>7, <1>8, <1>9, <1>10, <1>21 DEF AppStep
<1> QED
  BY <1>11, <1>12, <1>13, <1>14, <1>15, <1>16, <1>17, <1>18, <1>19, <1>20, <1>21 DEF Quiet

\* A store adds an entry only for an address that has none.
LEMMA BufferDistinct ==
  ASSUME TypeOK, NEW t \in Thread, BufferWrite(t), Distinct(t)
  PROVE  Distinct(t)'
<1> DEFINE a == arg[t].addr
           entry == [addr |-> a, mask |-> arg[t].mask, value |-> arg[t].value,
                     version |-> locks[LockOf[a]].n, no_drop |-> TRUE]
           upd(e) == [e EXCEPT !.value = Merge(@, arg[t].value, arg[t].mask),
                               !.mask = @ \cup arg[t].mask]
           changed == [k \in DOMAIN w_set[t] |->
                         IF k \in Written(t, a) THEN upd(w_set[t][k]) ELSE w_set[t][k]]
<1>1. w_set'[t] = IF Written(t, a) = {} THEN Append(w_set[t], entry) ELSE changed
  BY Domains DEF BufferWrite
<1>2. CASE Written(t, a) = {}
  <2>1. entry \in WriteEntry /\ entry.addr = a
    BY LockOfArg, Parts DEF WriteEntry
  <2> HIDE DEF entry
  <2>2. /\ Len(Append(w_set[t], entry)) = Len(w_set[t]) + 1
        /\ Append(w_set[t], entry) \in Seq(WriteEntry)
        /\ \A n \in 1..Len(w_set[t]) : Append(w_set[t], entry)[n] = w_set[t][n]
        /\ Append(w_set[t], entry)[Len(w_set[t]) + 1] = entry
    BY <2>1, WriteSetType, AppendProperties
  <2>3. DOMAIN Append(w_set[t], entry) = 1..(Len(w_set[t]) + 1)
    BY <2>2, LenProperties
  <2>4. \A n \in 1..Len(w_set[t]) : w_set[t][n].addr # a
    BY <1>2, WriteSetType DEF Written
  <2>5. DOMAIN w_set'[t] = 1..(Len(w_set[t]) + 1)
        /\ (\A n \in 1..Len(w_set[t]) : w_set'[t][n].addr = w_set[t][n].addr)
        /\ w_set'[t][Len(w_set[t]) + 1].addr = a
    BY <1>1, <1>2, <2>1, <2>2, <2>3
  <2>6. \A n \in DOMAIN w_set'[t] : n \in 1..Len(w_set[t]) \/ n = Len(w_set[t]) + 1
    BY <2>5, WriteSetType
  <2> HIDE DEF a
  <2>7. \A m, n \in 1..Len(w_set[t]) : w_set[t][m].addr = w_set[t][n].addr => m = n
    BY WriteSetType DEF Distinct
  <2> QED
    BY <2>4, <2>5, <2>6, <2>7 DEF Distinct
<1>3. CASE Written(t, a) # {}
  <2>1. \A e \in WriteEntry : upd(e).addr = e.addr
    BY DEF WriteEntry
  <2> HIDE DEF upd
  <2>2. \A n \in DOMAIN w_set[t] : changed[n].addr = w_set[t][n].addr
    BY <2>1, WriteSetType
  <2>3. DOMAIN w_set'[t] = DOMAIN w_set[t]
        /\ \A n \in DOMAIN w_set[t] : w_set'[t][n].addr = w_set[t][n].addr
    BY <1>1, <1>3, <2>2
  <2> QED
    BY <2>3 DEF Distinct
<1> QED
  BY <1>2, <1>3

\* Quiet steps keep versions and memory.
LEMMA QuietInv ==
  ASSUME VInv, Inv', NEW t \in Thread, Quiet(t), OthersLeft(t)
  PROVE  VersionInv' /\ MemoryInv'
<1>0. Inv /\ TypeOK /\ TypeOK' /\ VersionInv
  BY DEF VInv, Inv
<1>1. QuietEffect(t)
  BY <1>0, QuietSteps
<1>2. Distinct(t)'
  <2>1. CASE w_set'[t] = w_set[t]
    BY <1>0, <2>1 DEF VersionInv, Distinct
  <2>2. CASE w_set'[t] = <<>>
    BY <2>2 DEF Distinct
  <2>3. CASE BufferWrite(t)
    BY <1>0, <2>3, BufferDistinct DEF VersionInv
  <2> QED
    BY <1>1, <2>1, <2>2, <2>3 DEF QuietEffect
<1> QED
  BY <1>0, <1>1, <1>2, QuietVersions DEF QuietEffect

-----------------------------------------------------------------------------
(***************************************************************************)
(* Commit and rollback                                                     *)
(***************************************************************************)
\* A step of a committing t that leaves clock, locks, history and its write set
\* alone and does not pass the point of no return.
LEMMA KeepVersions ==
  ASSUME VInv, TypeOK', NEW t \in Thread, OthersLeft(t),
         UNCHANGED <<clock, locks, mem, hist, w_set>>, ts'[t] = ts[t],
         pc[t] \in {"acquire", "validate", "rollback"},
         pc'[t] \in {"acquire", "validate", "rollback"},
         Stamped(t)' => Stamped(t), Holds(t)'
  PROVE  VersionInv' /\ MemoryInv'
<1>0. Inv /\ TypeOK /\ VersionInv /\ MemoryInv
  BY DEF VInv, Inv
<1>1. MemoryInv'
  BY <1>0, MemorySame DEF Publishing
<1>2. clock <= clock'
  BY <1>0, HistoryTypes
<1>3. \A u \in Thread \ {t} : /\ Distinct(u)' /\ Holds(u)' /\ Stamps(u)'
                              /\ \A k \in Lock : OwnedVersion(u, k)'
  BY <1>0, <1>2, OthersVersions
<1>4. Distinct(t)' /\ Stamps(t)'
  BY <1>0 DEF VersionInv, Distinct, Stamps, Publishing
<1>5. \A k \in Lock : OwnedVersion(t, k)'
  BY <1>0 DEF VersionInv, OwnedVersion, OldVersion, Covers, Publishing
<1>6. \A k \in Lock : FreeVersion(k)'
  BY <1>0 DEF VersionInv, FreeVersion, Covers
<1>7. HistoryInv'
  BY <1>0 DEF VersionInv, HistoryInv
<1> QED
  BY <1>1, <1>3, <1>4, <1>5, <1>6, <1>7 DEF VersionInv

\* Acquire records the version it finds in the lock.
LEMMA AcquireVersion ==
  ASSUME TypeOK, NEW t \in Thread, NEW k \in Lock, i[t] \in 1..Len(w_set[t]),
         Acquire(t, k)
  PROVE  \A n \in 1..Len(w_set[t]) :
           w_set'[t][n].version = IF n = i[t] THEN locks[k].n ELSE w_set[t][n].version
<1> DEFINE e == [w_set[t][i[t]] EXCEPT !.no_drop = FALSE, !.version = locks[k].n]
           new == [w_set[t] EXCEPT ![i[t]] = e]
<1>1. w_set[t][i[t]] \in WriteEntry
  BY WriteSetType
<1>2. e \in WriteEntry /\ e.version = locks[k].n
  BY <1>1, HistoryTypes DEF WriteEntry
<1>3. w_set' = [w_set EXCEPT ![t] = new]
  BY <1>1, WriteSetType DEF Acquire, TypeOK, SetTypes
<1> HIDE DEF e
<1>4. \A n \in 1..Len(w_set[t]) : new[n] = IF n = i[t] THEN e ELSE w_set[t][n]
  BY <1>2, WriteSetType, ExceptSeq
<1> HIDE DEF new
<1>5. w_set'[t] = new
  BY <1>3, Domains
<1> QED
  BY <1>2, <1>4, <1>5

LEMMA AcquireVersions ==
  ASSUME VInv, Inv', NEW t \in Thread, CommitAcquire(t), OthersLeft(t)
  PROVE  VersionInv' /\ MemoryInv'
<1> DEFINE k == LockOf[w_set[t][i[t]].addr]
           m == Len(w_set[t])
<1>0. /\ Inv /\ TypeOK /\ TypeOK' /\ VersionInv /\ MemoryInv
      /\ WriteSetInv(t) /\ Owns(t) /\ Owns(t)'
  BY DEF VInv, Inv
<1>1. /\ i[t] \in 1..m /\ k \in Lock /\ pc[t] = "acquire" /\ m \in Nat /\ i[t] \in Nat
      /\ DOMAIN w_set[t] = 1..m
  BY <1>0, LoopPosition, WriteSetType DEF CommitAcquire, At
<1>2. Distinct(t) /\ Holds(t) /\ \A j \in Lock : FreeVersion(j) /\ OwnedVersion(t, j)
  BY <1>0 DEF VersionInv
<1>3. UNCHANGED <<clock, mem, hist>> /\ ts'[t] = ts[t]
  BY DEF CommitAcquire, histVars
<1>4. CASE /\ locks[k].owner = NoOwner /\ Acquire(t, k)
           /\ i' = [i EXCEPT ![t] = @ - 1] /\ pc' = pc
  <2>1. /\ locks'[k] = LOCK_SET_ADDR_WRITE(t, i[t])
        /\ \A j \in Lock \ {k} : locks'[j] = locks[j]
        /\ DOMAIN w_set'[t] = 1..m
        /\ \A n \in 1..m : w_set'[t][n].addr = w_set[t][n].addr
    BY <1>0, <1>1, <1>4, AcquireEffect
  <2>2. \A n \in 1..m :
          w_set'[t][n].version = IF n = i[t] THEN locks[k].n ELSE w_set[t][n].version
    BY <1>0, <1>1, <1>4, AcquireVersion
  <2>3. i'[t] = i[t] - 1 /\ pc'[t] = "acquire" /\ ~Stamped(t)' /\ pc'[t] \notin Publishing
    BY <1>0, <1>1, <1>4, Domains DEF Stamped, Publishing
  <2>4. locks'[k].owner = t /\ locks'[k].n = i[t]
    BY <2>1 DEF LOCK_SET_ADDR_WRITE
  <2>5. \A u \in Thread \ {t}, j \in Lock :
          \/ locks'[j] = locks[j]
          \/ locks[j].owner # u /\ locks'[j].owner # u
    BY <1>4, <2>1, <2>4, ConstantsAssumption
  <2>6. MemoryInv'
    BY <1>0, <1>1, <1>3, <2>3, <2>5, MemorySame DEF Publishing
  <2>7. clock <= clock'
    BY <1>0, <1>3, HistoryTypes
  <2>8. \A u \in Thread \ {t} : /\ Distinct(u)' /\ Holds(u)' /\ Stamps(u)'
                                /\ \A j \in Lock : OwnedVersion(u, j)'
    BY <1>0, <1>3, <2>5, <2>7, OthersVersions
  <2>9. Distinct(t)' /\ Stamps(t)'
    BY <1>1, <1>2, <2>1, <2>3 DEF Distinct, Stamps
  <2>10. Holds(t)'
    <3> SUFFICES ASSUME NEW n \in 1..m, n > i[t] - 1
                 PROVE  /\ locks'[LockOf[w_set[t][n].addr]].owner = t
                        /\ n <= locks'[LockOf[w_set[t][n].addr]].n
      BY <2>1, <2>3 DEF Holds, HoldsEntry
    <3>1. CASE n = i[t]
      BY <1>1, <2>4, <3>1
    <3>2. CASE n # i[t]
      <4>1. HoldsEntry(t, n)
        BY <1>1, <1>2, <3>2 DEF Holds
      <4>2. LockOf[w_set[t][n].addr] \in Lock \ {k}
        BY <1>0, <1>4, <4>1, WriteSetType, ConstantsAssumption DEF HoldsEntry
      <4> QED
        BY <2>1, <4>1, <4>2 DEF HoldsEntry
    <3> QED
      BY <3>1, <3>2
  <2>11. ASSUME NEW j \in Lock PROVE OwnedVersion(t, j)'
    <3>1. CASE j = k
      <4>1. OldVersion(t, j)' = locks[k].n
        BY <1>1, <2>2, <2>4, <3>1 DEF OldVersion
      <4>2. locks[k].n <= clock /\ Covers(k, locks[k].n)
        BY <1>1, <1>2, <1>4 DEF FreeVersion
      <4> QED
        BY <1>3, <2>3, <3>1, <4>1, <4>2 DEF OwnedVersion, Covers
    <3>2. CASE j # k /\ locks[j].owner = t
      <4>1. locks[j].n \in 1..m /\ locks[j].n # i[t] /\ locks'[j] = locks[j]
        BY <1>0, <1>1, <2>1, <3>2 DEF Owns
      <4>2. OldVersion(t, j)' = OldVersion(t, j)
        BY <2>2, <4>1 DEF OldVersion
      <4>3. OldVersion(t, j) <= clock /\ Covers(j, OldVersion(t, j))
        BY <1>1, <1>2, <3>2 DEF OwnedVersion, Publishing
      <4> QED
        BY <1>3, <2>3, <4>2, <4>3 DEF OwnedVersion, Covers
    <3>3. CASE j # k /\ locks[j].owner # t
      BY <2>1, <3>3 DEF OwnedVersion
    <3> QED
      BY <3>1, <3>2, <3>3
  <2>12. \A j \in Lock : FreeVersion(j)'
    BY <1>2, <1>3, <2>1, <2>4, ConstantsAssumption DEF FreeVersion, Covers
  <2>13. HistoryInv'
    BY <1>0, <1>3 DEF VersionInv, HistoryInv
  <2> QED
    BY <2>6, <2>8, <2>9, <2>10, <2>11, <2>12, <2>13 DEF VersionInv
<1>5. CASE /\ UNCHANGED <<locks, w_set>> /\ locks[k].owner = t
           /\ i' = [i EXCEPT ![t] = @ - 1] /\ pc' = pc
  <2>1. i'[t] = i[t] - 1 /\ pc'[t] = "acquire" /\ ~Stamped(t)'
    BY <1>0, <1>1, <1>5, Domains DEF Stamped
  <2>2. i[t] <= locks[k].n
    <3>1. locks[k].n \in 1..m /\ ~w_set[t][locks[k].n].no_drop
      BY <1>0, <1>1, <1>5 DEF Owns
    <3>2. \A n \in 1..i[t] : w_set[t][n].no_drop
      BY <1>0, <1>1 DEF WriteSetInv
    <3> QED
      BY <1>1, <3>1, <3>2
  <2>3. Holds(t)'
    <3> SUFFICES ASSUME NEW n \in 1..m, n > i[t] - 1 PROVE HoldsEntry(t, n)
      BY <1>1, <1>5, <2>1 DEF Holds, HoldsEntry, Publishing
    <3>1. CASE n = i[t]
      BY <1>5, <2>2, <3>1 DEF HoldsEntry
    <3> QED
      BY <1>1, <1>2, <3>1 DEF Holds
  <2> QED
    BY <1>0, <1>1, <1>3, <1>5, <2>1, <2>3, KeepVersions
<1>6. CASE UNCHANGED <<locks, w_set>> /\ EnterRollback(t)
  <2>1. pc'[t] = "rollback"
    BY <1>0, <1>6, Domains DEF EnterRollback, Goto
  <2> QED
    BY <1>0, <1>1, <1>3, <1>6, <2>1, KeepVersions DEF Stamped, Holds, Publishing
<1> QED
  BY <1>4, <1>5, <1>6 DEF CommitAcquire, LOCK_GET_OWNED

\* The validation of a commit: it goes on, or fails.
LEMMA ValidateVersions ==
  ASSUME VInv, Inv', NEW t \in Thread, Stamped(t), OthersLeft(t),
         \E r \in todo[t] : stm_validate(t, r)
  PROVE  VersionInv' /\ MemoryInv'
<1>0. TypeOK /\ TypeOK' /\ VersionInv /\ Holds(t)
  BY DEF VInv, Inv, VersionInv
<1>1. /\ UNCHANGED <<clock, locks, mem, hist, w_set>> /\ ts'[t] = ts[t] /\ cont' = cont
      /\ pc[t] = "validate"
      /\ \/ pc'[t] = "validate" /\ i' = i
         \/ pc'[t] = "rollback"
  BY <1>0, Domains DEF stm_validate, At, EnterRollback, Goto, sharedVars, histVars, setVars
<1>2. Holds(t)'
  BY <1>0, <1>1 DEF Holds, HoldsEntry, Stamped, Publishing
<1> QED
  BY <1>0, <1>1, <1>2, KeepVersions DEF Stamped

\* The timestamp of a commit that has to validate.
LEMMA StampVersions ==
  ASSUME VInv, Inv', NEW t \in Thread, OthersLeft(t), CommitClock(t), start[t] # clock
  PROVE  VersionInv' /\ MemoryInv'
<1>0. /\ Inv /\ TypeOK /\ TypeOK' /\ VersionInv /\ MemoryInv
      /\ clock \in Nat /\ Owns(t)
  BY HistoryTypes DEF VInv, Inv
<1>1. /\ UNCHANGED <<locks, mem, hist, w_set>> /\ clock' = clock + 1
      /\ ts'[t] = clock + 1 /\ pc[t] = "acquire" /\ i[t] = 0
      /\ pc'[t] = "validate" /\ Stamped(t)' /\ pc'[t] \notin Publishing
  BY <1>0, Domains DEF CommitClock, At, Goto, setVars, Stamped, Publishing
<1>2. MemoryInv'
  BY <1>0, <1>1, MemorySame DEF Publishing
<1>3. \A u \in Thread \ {t} : /\ Distinct(u)' /\ Holds(u)' /\ Stamps(u)'
                              /\ \A k \in Lock : OwnedVersion(u, k)'
  BY <1>0, <1>1, OthersVersions
<1>4. Distinct(t)' /\ Stamps(t)'
  BY <1>0, <1>1 DEF VersionInv, Distinct, Stamps
<1>5. Holds(t)'
  <2>1. \A n \in DOMAIN w_set[t] : HoldsEntry(t, n)
    BY <1>0, <1>1, WriteSetType DEF VersionInv, Holds
  <2> QED
    BY <1>1, <2>1 DEF Holds, HoldsEntry
<1>6. ASSUME NEW k \in Lock, locks[k].owner = t PROVE OwnedVersion(t, k)'
  <2>1. OldVersion(t, k)' = OldVersion(t, k) /\ OldVersion(t, k) \in Nat
    <3>1. locks[k].n \in DOMAIN w_set[t]
      BY <1>0, <1>6 DEF Owns
    <3> QED
      BY <1>0, <1>1, <3>1, WriteSetType DEF OldVersion
  <2>2. OldVersion(t, k) <= clock /\ Covers(k, OldVersion(t, k))
    BY <1>0, <1>1, <1>6 DEF VersionInv, OwnedVersion, Publishing
  <2> QED
    BY <1>0, <1>1, <2>1, <2>2 DEF OwnedVersion, Covers
<1>7. \A k \in Lock : OwnedVersion(t, k)'
  BY <1>1, <1>6 DEF OwnedVersion
<1>8. \A k \in Lock : FreeVersion(k)'
  BY <1>0, <1>1, HistoryTypes DEF VersionInv, FreeVersion, Covers
<1>9. HistoryInv'
  BY <1>0, <1>1, HistoryTypes DEF VersionInv, HistoryInv
<1> QED
  BY <1>2, <1>3, <1>4, <1>5, <1>7, <1>8, <1>9 DEF VersionInv

\* The point of no return: t holds the locks of all its entries, and they are
\* older than its timestamp v.
LEMMA PublishVersions ==
  ASSUME VInv, Inv', NEW t \in Thread, OthersLeft(t), NEW v \in Nat,
         UNCHANGED <<locks, mem, w_set>>, clock <= clock', v <= clock',
         ts'[t] = v, pc[t] \in {"acquire", "validate"}, pc'[t] = "write_back", i'[t] = 1,
         hist' = hist \cup Installed(t, v),
         \A n \in DOMAIN w_set[t] : HoldsEntry(t, n),
         \A k \in Lock : locks[k].owner = t => Covers(k, OldVersion(t, k))
                                               /\ OldVersion(t, k) < v
  PROVE  VersionInv' /\ MemoryInv'
<1>0. /\ Inv /\ TypeOK /\ TypeOK' /\ VersionInv /\ MemoryInv /\ Owns(t)
      /\ clock \in Nat /\ clock' \in Nat
  BY HistoryTypes DEF VInv, Inv, TypeOK, SharedTypes
<1>1. pc[t] \notin Publishing /\ pc'[t] \in Publishing /\ ~Stamped(t)'
  BY DEF Publishing, Stamped
<1>2. \A a \in Addr : LockOf[a] \in Lock
  BY ConstantsAssumption
<1>3. ASSUME NEW h \in Installed(t, v)
      PROVE  /\ h.ts = v /\ h.addr \in Addr /\ locks[LockOf[h.addr]].owner = t
             /\ \E n \in DOMAIN w_set[t] : /\ h.addr = w_set[t][n].addr
                                           /\ h.value = Outcome(t, n, h.addr)
                                           /\ h = [ts |-> v, addr |-> w_set[t][n].addr,
                                                   value |-> Outcome(t, n, w_set[t][n].addr)]
  <2>1. PICK n \in DOMAIN w_set[t] :
          h = [ts |-> v, addr |-> w_set[t][n].addr,
               value |-> Outcome(t, n, w_set[t][n].addr)]
    BY DEF Installed, Outcome
  <2>2. h.ts = v /\ h.addr = w_set[t][n].addr /\ h.value = Outcome(t, n, h.addr)
    BY <2>1
  <2> QED
    BY <1>0, <2>1, <2>2, WriteSetType DEF HoldsEntry
<1>4. ASSUME NEW h \in hist, locks[LockOf[h.addr]].owner = t PROVE h.ts < v
  <2>1. LockOf[h.addr] \in Lock /\ h.ts \in Nat
    BY <1>0, HistoryTypes
  <2>2. OldVersion(t, LockOf[h.addr]) \in Nat
    BY <1>0, <1>4, <2>1, WriteSetType DEF Owns, OldVersion
  <2> QED
    BY <1>4, <2>1, <2>2 DEF Covers
<1>5. \A u \in Thread \ {t} : /\ Distinct(u)' /\ Holds(u)' /\ Stamps(u)'
                              /\ \A k \in Lock : OwnedVersion(u, k)'
  <2> SUFFICES ASSUME NEW u \in Thread \ {t}
               PROVE  /\ Distinct(u)' /\ Holds(u)' /\ Stamps(u)'
                      /\ \A k \in Lock : OwnedVersion(u, k)'
    OBVIOUS
  <2>1. pc[u] = "unit_release" => locks[LockOf[arg[u].addr]].owner = UnitOwner
    BY <1>0 DEF Inv, UnitOwns, UnitStoring
  <2>2. \A h \in hist' \ hist :
           /\ locks[LockOf[h.addr]].owner # u
           /\ pc[u] = "unit_release" => LockOf[h.addr] # LockOf[arg[u].addr]
    BY <1>3, <2>1, ConstantsAssumption
  <2> QED
    BY <1>0, <2>2, OthersVersions
<1>6. Distinct(t)' /\ Stamps(t)' /\ Holds(t)'
  BY <1>0, <1>1 DEF VersionInv, Distinct, Stamps, Holds, HoldsEntry
<1>7. \A k \in Lock : OwnedVersion(t, k)'
  <2> SUFFICES ASSUME NEW k \in Lock, locks[k].owner = t,
                      NEW h \in hist', LockOf[h.addr] = k
               PROVE  h.ts <= v
    BY <1>1 DEF OwnedVersion, Covers
  <2>1. h.ts \in Nat
    BY <1>0 DEF TypeOK, HistTypes, CommittedWrite
  <2> QED
    BY <1>3, <1>4, <2>1
<1>8. \A k \in Lock : FreeVersion(k)'
  <2> SUFFICES ASSUME NEW k \in Lock, locks[k].owner = NoOwner PROVE FreeVersion(k)'
    BY DEF FreeVersion
  <2>1. \A h \in hist' : LockOf[h.addr] = k => h \in hist
    BY <1>3, ConstantsAssumption
  <2>2. locks[k].n <= clock /\ locks[k].n \in Nat /\ Covers(k, locks[k].n)
    BY <1>0, HistoryTypes DEF VersionInv, FreeVersion
  <2> QED
    BY <1>0, <2>1, <2>2 DEF FreeVersion, Covers
<1>9. HistoryInv'
  <2>1. \A h \in hist' : h.ts <= clock'
    BY <1>0, <1>3, HistoryTypes DEF VersionInv, HistoryInv
  <2>2. ASSUME NEW g \in Installed(t, v), NEW h \in Installed(t, v), g.addr = h.addr
        PROVE  g = h
    BY <1>0, <1>3, <2>2 DEF VersionInv, Distinct
  <2>3. ASSUME NEW g \in Installed(t, v), NEW h \in hist, g.addr = h.addr
        PROVE  g.ts # h.ts
    <3>1. h.ts < v /\ h.ts \in Nat /\ g.ts = v
      BY <1>0, <1>3, <1>4, <2>3, HistoryTypes
    <3> QED
      BY <3>1
  <2>4. \A g, h \in hist' : g.addr = h.addr /\ g.ts = h.ts => g = h
    BY <1>0, <2>2, <2>3 DEF VersionInv, HistoryInv
  <2> QED
    BY <2>1, <2>4 DEF HistoryInv
<1>10. ASSUME NEW a \in Addr, NEW w, Latest(a, w), \A n \in DOMAIN w_set[t] : w_set[t][n].addr # a
       PROVE  Latest(a, w)'
  <2>1. \A h \in hist' : h.addr = a => h \in hist
    BY <1>3, <1>10
  <2> QED
    BY <1>10, <2>1 DEF Latest
<1>11. ASSUME NEW n \in DOMAIN w_set[t], NEW a, w_set[t][n].addr = a
       PROVE  WritesBack(t, n, a)' /\ Latest(a, Outcome(t, n, a))' /\ ~Stored(t, n)'
  <2>1. a \in Addr /\ locks[LockOf[a]].owner = t /\ n >= 1 /\ n \in Nat
    BY <1>0, <1>11, WriteSetType DEF HoldsEntry
  <2>2. Outcome(t, n, a)' = Outcome(t, n, a)
    BY DEF Outcome
  <2> DEFINE h == [ts |-> v, addr |-> a, value |-> Outcome(t, n, a)]
  <2>3. h \in hist'
    BY <1>11 DEF Installed, Outcome
  <2>4. \A g \in hist' : g.addr = a => g.ts <= v
    <3> SUFFICES ASSUME NEW g \in hist', g.addr = a PROVE g.ts <= v
      OBVIOUS
    <3>1. g.ts \in Nat
      BY <1>0 DEF TypeOK, HistTypes, CommittedWrite
    <3> QED
      BY <1>3, <1>4, <2>1, <3>1
  <2>5. h.addr = a /\ h.ts = v /\ h.value = Outcome(t, n, a)'
    BY <2>2
  <2> HIDE DEF h
  <2>6. Latest(a, Outcome(t, n, a))'
    BY <2>3, <2>4, <2>5 DEF Latest
  <2>7. ~Stored(t, n)'
    BY <2>1 DEF Stored
  <2> QED
    BY <1>1, <1>11, <2>1, <2>6, <2>7 DEF WritesBack
<1>12. \A u \in Thread \ {t} : /\ pc'[u] = pc[u] /\ w_set'[u] = w_set[u] /\ i'[u] = i[u]
                               /\ arg'[u] = arg[u]
  BY DEF OthersLeft, OthersSame
<1>13. \A n : \A u \in Thread \ {t}, a \in Addr : WritesBack(u, n, a)' <=> WritesBack(u, n, a)
  BY <1>12 DEF WritesBack
<1>14. ASSUME NEW a \in Addr
       PROVE  \/ Latest(a, mem[a])'
              \/ \E u \in Thread : \E n \in DOMAIN w_set'[u] : WritesBack(u, n, a)'
              \/ \E u \in Thread : pc'[u] = "unit_clock" /\ arg'[u].addr = a
  <2>1. CASE \E n \in DOMAIN w_set[t] : w_set[t][n].addr = a
    BY <1>11, <2>1
  <2>2. CASE \A n \in DOMAIN w_set[t] : w_set[t][n].addr # a
    <3>1. CASE Latest(a, mem[a])
      BY <1>10, <2>2, <3>1
    <3>2. CASE \E u \in Thread : \E n \in DOMAIN w_set[u] : WritesBack(u, n, a)
      BY <1>1, <1>12, <1>13, <3>2 DEF WritesBack
    <3>3. CASE \E u \in Thread : pc[u] = "unit_clock" /\ arg[u].addr = a
      BY <1>12, <3>3
    <3> QED
      BY <1>0, <3>1, <3>2, <3>3 DEF MemoryInv
  <2> QED
    BY <2>1, <2>2
<1>15. ASSUME NEW u \in Thread, NEW a \in Addr, NEW n \in DOMAIN w_set'[u],
              WritesBack(u, n, a)'
       PROVE  Latest(a, Outcome(u, n, a))' /\ (Stored(u, n)' => mem'[a] = Outcome(u, n, a)')
  <2>1. CASE u = t
    BY <1>11, <1>15, <2>1 DEF WritesBack
  <2>2. CASE u # t
    <3>1. WritesBack(u, n, a) /\ locks[LockOf[a]].owner = u /\ n \in DOMAIN w_set[u]
      BY <1>12, <1>13, <1>15, <2>2 DEF WritesBack
    <3>2. Outcome(u, n, a)' = Outcome(u, n, a) /\ (Stored(u, n)' <=> Stored(u, n))
      BY <1>12, <2>2 DEF Outcome, Stored
    <3>3. /\ Latest(a, Outcome(u, n, a))
          /\ Stored(u, n) => mem[a] = Outcome(u, n, a)
      BY <1>0, <3>1 DEF MemoryInv
    <3>4. \A j \in DOMAIN w_set[t] : w_set[t][j].addr # a
      BY <2>2, <3>1 DEF HoldsEntry
    <3>5. Latest(a, Outcome(u, n, a))'
      BY <1>10, <3>2, <3>3, <3>4
    <3> QED
      BY <3>2, <3>3, <3>5
  <2> QED
    BY <2>1, <2>2
<1>16. ASSUME NEW u \in Thread, pc'[u] = "unit_clock"
       PROVE  mem'[arg'[u].addr] = arg'[u].value
  BY <1>0, <1>12, <1>16 DEF MemoryInv
<1>17. MemoryInv'
  BY <1>14, <1>15, <1>16 DEF MemoryInv
<1> QED
  BY <1>5, <1>6, <1>7, <1>8, <1>9, <1>17 DEF VersionInv

\* CommitClock without validation, and CommitValid.
LEMMA CommitVersions ==
  ASSUME VInv, Inv', NEW t \in Thread, OthersLeft(t),
         (CommitClock(t) /\ start[t] = clock) \/ CommitValid(t)
  PROVE  VersionInv' /\ MemoryInv'
<1>0. /\ TypeOK /\ VersionInv /\ clock \in Nat /\ ts[t] \in Nat /\ Owns(t)
      /\ Holds(t) /\ Stamps(t) /\ \A k \in Lock : OwnedVersion(t, k)
  BY HistoryTypes DEF VInv, Inv, VersionInv
<1>1. \A k \in Lock : locks[k].owner = t => OldVersion(t, k) \in Nat
  BY <1>0, WriteSetType DEF Owns, OldVersion
<1>2. CASE CommitClock(t) /\ start[t] = clock
  <2>1. /\ UNCHANGED <<locks, mem, w_set>> /\ clock' = clock + 1 /\ ts'[t] = clock + 1
        /\ pc[t] = "acquire" /\ i[t] = 0 /\ pc'[t] = "write_back" /\ i'[t] = 1
        /\ hist' = hist \cup Installed(t, clock + 1)
    BY <1>0, <1>2, Domains DEF CommitClock, At, Goto, setVars
  <2>2. \A n \in DOMAIN w_set[t] : HoldsEntry(t, n)
    BY <1>0, <2>1, WriteSetType DEF Holds
  <2>3. \A k \in Lock : locks[k].owner = t => /\ Covers(k, OldVersion(t, k))
                                              /\ OldVersion(t, k) < clock + 1
    BY <1>0, <1>1, <2>1 DEF OwnedVersion, Publishing
  <2> QED
    BY <1>0, <2>1, <2>2, <2>3, PublishVersions
<1>3. CASE CommitValid(t)
  <2>1. /\ UNCHANGED <<locks, mem, w_set, clock>> /\ ts'[t] = ts[t] /\ Stamped(t)
        /\ pc[t] = "validate" /\ pc'[t] = "write_back" /\ i'[t] = 1
        /\ hist' = hist \cup Installed(t, ts[t])
    BY <1>0, <1>3, Domains DEF CommitValid, At, Goto, sharedVars, setVars, Stamped
  <2>2. \A n \in DOMAIN w_set[t] : HoldsEntry(t, n)
    BY <1>0, <2>1 DEF Holds
  <2>3. \A k \in Lock : locks[k].owner = t => /\ Covers(k, OldVersion(t, k))
                                              /\ OldVersion(t, k) < ts[t]
    BY <1>0, <2>1 DEF OwnedVersion, Publishing
  <2>4. ts[t] <= clock
    BY <1>0, <2>1 DEF Stamps
  <2> QED
    BY <1>0, <2>1, <2>2, <2>3, <2>4, PublishVersions
<1> QED
  BY <1>2, <1>3

\* Storing a word twice is storing it once.
LEMMA MergeTwice ==
  ASSUME NEW v \in Word, NEW w \in Word, NEW m \in SUBSET Byte
  PROVE  Merge(Merge(v, w, m), w, m) = Merge(v, w, m)
  BY DEF Merge, Word

\* Installing the value of an entry.
LEMMA StoreVersions ==
  ASSUME VInv, Inv', NEW t \in Thread, OthersLeft(t), CommitStore(t)
  PROVE  VersionInv' /\ MemoryInv'
<1>0. /\ Inv /\ TypeOK /\ TypeOK' /\ VersionInv /\ MemoryInv /\ Owns(t)'
      /\ clock \in Nat
  BY HistoryTypes DEF VInv, Inv
<1>p. PICK p : p = i[t]
  OBVIOUS
<1>b. PICK b : b = w_set[t][p].addr
  OBVIOUS
<1>1. /\ i[t] = p /\ p \in 1..Len(w_set[t]) /\ p \in DOMAIN w_set[t] /\ p \in Nat
      /\ b = w_set[t][p].addr /\ b \in Addr /\ LockOf[b] \in Lock
      /\ pc[t] = "write_back"
      /\ DOMAIN w_set[t] = 1..Len(w_set[t]) /\ Len(w_set[t]) \in Nat
  BY <1>0, <1>p, <1>b, LoopPosition, WriteSetType DEF CommitStore, At
<1>2. /\ UNCHANGED <<clock, locks, hist, w_set, ts, cont>>
      /\ mem' = [mem EXCEPT ![b] = Outcome(t, p, b)]
  BY <1>0, <1>1 DEF CommitStore, StoreEntry, Outcome, setVars, histVars, TypeOK, SharedTypes
<1>3. mem'[b] = Outcome(t, p, b) /\ \A a \in Addr \ {b} : mem'[a] = mem[a]
  BY <1>0, <1>1, <1>2 DEF TypeOK, SharedTypes
<1>4. \/ pc'[t] = "release" /\ i'[t] = i[t]
      \/ pc'[t] = "write_back" /\ i'[t] = i[t] + 1
      \/ pc'[t] = "end" /\ i[t] = Len(w_set[t])
  <2>1. CASE NextWriteBack(t)
    BY <1>0, <1>1, <1>2, <2>1, NextWriteBackEffect
  <2>2. CASE Goto(t, "release") /\ i' = i
    BY <1>0, <2>2, Domains DEF Goto
  <2> QED
    BY <2>1, <2>2 DEF CommitStore
<1>5. ~Stamped(t) /\ ~Stamped(t)' /\ pc[t] \in Publishing
  BY <1>1, <1>4 DEF Stamped, Publishing
<1>6. \A u \in Thread \ {t} : /\ Distinct(u)' /\ Holds(u)' /\ Stamps(u)'
                              /\ \A k \in Lock : OwnedVersion(u, k)'
  <2>1. clock <= clock'
    BY <1>0, <1>2
  <2> QED
    BY <1>0, <1>2, <2>1, OthersVersions
<1>7. Distinct(t)' /\ Holds(t)' /\ Stamps(t)'
  <2>1. Distinct(t) /\ Holds(t) /\ Stamps(t)
    BY <1>0 DEF VersionInv
  <2>2. Distinct(t)' /\ Stamps(t)'
    BY <1>2, <1>4, <1>5, <2>1 DEF Distinct, Stamps, Publishing
  <2>3. \A n \in DOMAIN w_set[t] : n >= i[t] => HoldsEntry(t, n)
    BY <1>5, <2>1 DEF Holds
  <2>4. \A n \in DOMAIN w_set[t] : pc'[t] \in Publishing /\ n >= i'[t] => n >= i[t]
    BY <1>1, <1>4 DEF Publishing
  <2>5. Holds(t)'
    BY <1>2, <1>4, <1>5, <2>3, <2>4 DEF Holds, HoldsEntry, Publishing
  <2> QED
    BY <2>2, <2>5
<1>8. \A k \in Lock : locks[k].owner # t \/ pc'[t] \in Publishing
  BY <1>0, <1>2, <1>4 DEF Owns, Committing, Publishing
<1>9. \A k \in Lock : OwnedVersion(t, k)'
  BY <1>0, <1>2, <1>5, <1>8 DEF VersionInv, OwnedVersion, Covers
<1>10. (\A k \in Lock : FreeVersion(k)') /\ HistoryInv'
  BY <1>0, <1>2 DEF VersionInv, FreeVersion, Covers, HistoryInv
<1>11. WritesBack(t, p, b)
  <2>1. HoldsEntry(t, p)
    BY <1>0, <1>1, <1>5 DEF VersionInv, Holds
  <2> QED
    BY <1>1, <1>5, <2>1 DEF WritesBack, HoldsEntry
<1>12. Latest(b, Outcome(t, p, b)) /\ Outcome(t, p, b)' = Outcome(t, p, b)
  <2>1. Latest(b, Outcome(t, p, b))
    BY <1>0, <1>1, <1>11 DEF MemoryInv
  <2>2. mem[b] \in Word /\ w_set[t][p].value \in Word /\ w_set[t][p].mask \in SUBSET Byte
    BY <1>0, <1>1, WriteSetType DEF TypeOK, SharedTypes
  <2>3. Outcome(t, p, b) = Merge(mem[b], w_set[t][p].value, w_set[t][p].mask)
    BY DEF Outcome
  <2>4. Merge(mem'[b], w_set'[t][p].value, w_set'[t][p].mask)
          = Merge(Merge(mem[b], w_set[t][p].value, w_set[t][p].mask), w_set[t][p].value, w_set[t][p].mask)
    BY <1>2, <1>3, <2>3
  <2>5. Merge(mem'[b], w_set'[t][p].value, w_set'[t][p].mask) = Outcome(t, p, b)
    BY <2>2, <2>3, <2>4, MergeTwice
  <2>6. \A n : Outcome(t, n, b)' = Merge(mem'[b], w_set'[t][n].value, w_set'[t][n].mask)
    BY DEF Outcome
  <2> QED
    BY <2>1, <2>5, <2>6
<1>13. \A u \in Thread \ {t} : /\ pc'[u] = pc[u] /\ w_set'[u] = w_set[u] /\ i'[u] = i[u]
                               /\ arg'[u] = arg[u]
  BY DEF OthersLeft, OthersSame
<1>14. \A n : \A u \in Thread, a \in Addr : WritesBack(u, n, a)' <=> WritesBack(u, n, a)
  BY <1>2, <1>5, <1>8, <1>13, ConstantsAssumption DEF WritesBack
<1>15. \A a, w : Latest(a, w)' <=> Latest(a, w)
  BY <1>2 DEF Latest
<1>16. \A u \in Thread : pc[u] = "unit_clock" =>
         locks[LockOf[arg[u].addr]].owner = UnitOwner /\ arg[u].addr \in Addr
  BY <1>0, LockOfArg DEF Inv, UnitOwns, UnitStoring
<1>17. ASSUME NEW a \in Addr
       PROVE  \/ Latest(a, mem[a])'
              \/ \E u \in Thread : \E n \in DOMAIN w_set'[u] : WritesBack(u, n, a)'
              \/ \E u \in Thread : pc'[u] = "unit_clock" /\ arg'[u].addr = a
  <2>1. CASE a = b
    BY <1>1, <1>2, <1>11, <1>14, <2>1
  <2>2. CASE a # b /\ Latest(a, mem[a])
    BY <1>3, <1>15, <2>2
  <2>3. CASE \E u \in Thread : \E n \in DOMAIN w_set[u] : WritesBack(u, n, a)
    BY <1>2, <1>14, <2>3
  <2>4. CASE \E u \in Thread : pc[u] = "unit_clock" /\ arg[u].addr = a
    BY <1>1, <1>13, <2>4
  <2> QED
    BY <1>0, <2>1, <2>2, <2>3, <2>4 DEF MemoryInv
<1>18. ASSUME NEW u \in Thread, NEW a \in Addr, NEW n \in DOMAIN w_set'[u],
              WritesBack(u, n, a)'
       PROVE  Latest(a, Outcome(u, n, a))' /\ (Stored(u, n)' => mem'[a] = Outcome(u, n, a)')
  <2>1. WritesBack(u, n, a) /\ n \in DOMAIN w_set[u]
    BY <1>2, <1>14, <1>18
  <2>2. CASE a = b
    <3>1. u = t /\ n = p
      BY <1>0, <1>1, <1>11, <2>1, <2>2 DEF WritesBack, VersionInv, Distinct
    <3>2. Outcome(u, n, a)' = Outcome(u, n, a) /\ Latest(a, Outcome(u, n, a))
      BY <1>12, <2>2, <3>1
    <3>3. Latest(a, Outcome(u, n, a))'
      BY <1>15, <3>2
    <3> QED
      BY <1>3, <1>12, <2>2, <3>1, <3>2, <3>3
  <2>3. CASE a # b
    <3>1. mem'[a] = mem[a]
      BY <1>3, <2>3
    <3>2. Outcome(u, n, a)' = Outcome(u, n, a)
      BY <1>2, <3>1 DEF Outcome
    <3>3. Latest(a, Outcome(u, n, a)) /\ (Stored(u, n) => mem[a] = Outcome(u, n, a))
      BY <1>0, <2>1 DEF MemoryInv
    <3>4. Stored(u, n)' => Stored(u, n)
      <4>1. CASE u = t
        <5>1. n # p
          BY <1>1, <2>1, <2>3, <4>1 DEF WritesBack
        <5>2. n \in Nat
          BY <1>1, <2>1, <4>1
        <5>3. pc'[t] \in Publishing
          BY <1>18, <4>1 DEF WritesBack
        <5> QED
          BY <1>1, <1>4, <4>1, <5>1, <5>2, <5>3 DEF Stored, Publishing
      <4>2. CASE u # t
        BY <1>13, <4>2 DEF Stored
      <4> QED
        BY <4>1, <4>2
    <3>5. Latest(a, Outcome(u, n, a))'
      BY <1>15, <3>2, <3>3
    <3> QED
      BY <3>1, <3>2, <3>3, <3>4, <3>5
  <2> QED
    BY <2>2, <2>3
<1>19. ASSUME NEW u \in Thread, pc'[u] = "unit_clock"
       PROVE  mem'[arg'[u].addr] = arg'[u].value
  <2>1. u # t /\ pc[u] = "unit_clock" /\ arg'[u] = arg[u]
    BY <1>4, <1>13, <1>19
  <2>2. arg[u].addr # b /\ arg[u].addr \in Addr
    BY <1>11, <1>16, <2>1, ConstantsAssumption DEF WritesBack
  <2> QED
    BY <1>0, <1>3, <2>1, <2>2 DEF MemoryInv
<1>20. MemoryInv'
  BY <1>17, <1>18, <1>19 DEF MemoryInv
<1> QED
  BY <1>6, <1>7, <1>9, <1>10, <1>20 DEF VersionInv

\* Dropping lock k, owned by t through entry p, at version v: the lock is free
\* and everything else is as before.
LEMMA ReleaseVersions ==
  ASSUME VInv, Inv', NEW t \in Thread, OthersLeft(t), UNCHANGED <<clock, hist, w_set>>,
         NEW k \in Lock, NEW v \in Nat, locks[k].owner \in {t, UnitOwner},
         locks' = [locks EXCEPT ![k] = LOCK_SET_TIMESTAMP(v)],
         v <= clock, Covers(k, v),
         ~Stamped(t)', pc'[t] # "unit_release", Holds(t)',
         pc[t] \in Publishing => ts[t] <= clock /\ ts'[t] = ts[t],
         \A j \in Lock \ {k} : locks[j].owner = t =>
           (pc'[t] \in Publishing <=> pc[t] \in Publishing),
         pc'[t] \in Publishing => pc[t] \in Publishing
  PROVE  VersionInv'
<1>0. Inv /\ TypeOK /\ TypeOK' /\ VersionInv /\ clock \in Nat
  BY HistoryTypes DEF VInv, Inv
<1>1. /\ locks'[k].owner = NoOwner /\ locks'[k].n = v
      /\ \A j \in Lock \ {k} : locks'[j] = locks[j]
  BY <1>0 DEF LOCK_SET_TIMESTAMP, TypeOK, SharedTypes
<1>2. \A u \in Thread \ {t} : /\ Distinct(u)' /\ Holds(u)' /\ Stamps(u)'
                              /\ \A j \in Lock : OwnedVersion(u, j)'
  <2> SUFFICES ASSUME NEW u \in Thread \ {t}
               PROVE  /\ Distinct(u)' /\ Holds(u)' /\ Stamps(u)'
                      /\ \A j \in Lock : OwnedVersion(u, j)'
    OBVIOUS
  <2>1. clock <= clock'
    BY <1>0
  <2>2. \A j \in Lock : locks'[j] = locks[j] \/ (locks[j].owner # u /\ locks'[j].owner # u)
    BY <1>1, ConstantsAssumption
  <2> QED
    BY <1>0, <2>1, <2>2, OthersVersions
<1>3. Distinct(t)' /\ Stamps(t)'
  BY <1>0 DEF VersionInv, Distinct, Stamps
<1>4. \A j \in Lock : OwnedVersion(t, j)'
  <2> SUFFICES ASSUME NEW j \in Lock, locks'[j].owner = t PROVE OwnedVersion(t, j)'
    BY DEF OwnedVersion
  <2>1. j # k /\ locks'[j] = locks[j] /\ locks[j].owner = t
    BY <1>1, ConstantsAssumption
  <2>2. OldVersion(t, j)' = OldVersion(t, j) /\ OwnedVersion(t, j)
    BY <1>0, <2>1 DEF OldVersion, VersionInv
  <2> QED
    BY <2>1, <2>2 DEF OwnedVersion, Covers
<1>5. \A j \in Lock : FreeVersion(j)'
  BY <1>0, <1>1 DEF VersionInv, FreeVersion, Covers
<1>6. HistoryInv'
  BY <1>0 DEF VersionInv, HistoryInv
<1> QED
  BY <1>2, <1>3, <1>4, <1>5, <1>6 DEF VersionInv

\* A commit drops a lock.
LEMMA CommitReleaseVersions ==
  ASSUME VInv, Inv', NEW t \in Thread, OthersLeft(t), CommitRelease(t)
  PROVE  VersionInv' /\ MemoryInv'
<1>p. PICK p : p = i[t]
  OBVIOUS
<1>k. PICK k : k = LockOf[w_set[t][p].addr]
  OBVIOUS
<1>0. /\ Inv /\ TypeOK /\ TypeOK' /\ VersionInv /\ MemoryInv /\ Owns(t)' /\ Drops(t)
      /\ clock \in Nat /\ ts[t] \in Nat /\ WriteSetInv(t)
  BY HistoryTypes DEF VInv, Inv
<1>1. /\ i[t] = p /\ p \in 1..Len(w_set[t]) /\ p \in DOMAIN w_set[t] /\ p \in Nat
      /\ k = LockOf[w_set[t][p].addr] /\ k \in Lock /\ pc[t] = "release"
      /\ DOMAIN w_set[t] = 1..Len(w_set[t]) /\ Len(w_set[t]) \in Nat
  BY <1>0, <1>p, <1>k, LoopPosition, WriteSetType DEF CommitRelease, At
<1>2. /\ UNCHANGED <<clock, mem, hist, w_set, ts, cont>>
      /\ locks' = [locks EXCEPT ![k] = LOCK_SET_TIMESTAMP(ts[t])]
  BY <1>1 DEF CommitRelease, setVars, histVars
<1>3. \/ pc'[t] = "write_back" /\ i'[t] = p + 1
      \/ pc'[t] = "end" /\ p = Len(w_set[t])
  BY <1>0, <1>1, <1>2, NextWriteBackEffect DEF CommitRelease
<1>4. locks[k].owner = t /\ locks[k].n = p
  <2>1. ~w_set[t][p].no_drop /\ Pending(t, p)
    BY <1>0, <1>1 DEF WriteSetInv, Pending, At
  <2>2. locks[k] = LOCK_SET_ADDR_WRITE(t, p)
    BY <1>0, <1>1, <2>1 DEF Drops, Committing
  <2> QED
    BY <2>2 DEF LOCK_SET_ADDR_WRITE
<1>5. ~Stamped(t) /\ ~Stamped(t)' /\ pc[t] \in Publishing /\ pc'[t] # "unit_release"
  BY <1>1, <1>3 DEF Stamped, Publishing
<1>6. ts[t] <= clock /\ Covers(k, ts[t])
  BY <1>0, <1>1, <1>4, <1>5 DEF VersionInv, Stamps, OwnedVersion
<1>7. /\ locks'[k].owner = NoOwner
      /\ \A j \in Lock \ {k} : locks'[j] = locks[j]
  BY <1>0, <1>1, <1>2 DEF LOCK_SET_TIMESTAMP, TypeOK, SharedTypes
<1>8. \A n \in DOMAIN w_set[t] : LockOf[w_set[t][n].addr] = k => n <= p
  BY <1>0, <1>1, <1>4, <1>5 DEF VersionInv, Holds, HoldsEntry
<1>9. Holds(t)'
  <2> SUFFICES ASSUME NEW n \in DOMAIN w_set[t], pc'[t] = "write_back", n >= p + 1
               PROVE  HoldsEntry(t, n)'
    BY <1>2, <1>3, <1>5 DEF Holds, Publishing
  <2>1. HoldsEntry(t, n) /\ LockOf[w_set[t][n].addr] \in Lock \ {k}
    BY <1>0, <1>1, <1>5, <1>8, WriteSetType DEF VersionInv, Holds
  <2> QED
    BY <1>2, <1>7, <2>1 DEF HoldsEntry
<1>10. \A j \in Lock \ {k} : locks[j].owner # t \/ pc'[t] \in Publishing
  BY <1>0, <1>3, <1>7 DEF Owns, Committing, Publishing
<1>11. VersionInv'
  BY <1>0, <1>1, <1>2, <1>4, <1>5, <1>6, <1>9, <1>10, ReleaseVersions
<1>12. \A u \in Thread \ {t} : /\ pc'[u] = pc[u] /\ w_set'[u] = w_set[u] /\ i'[u] = i[u]
                               /\ arg'[u] = arg[u]
  BY DEF OthersLeft, OthersSame
<1>13. \A n : \A u \in Thread, a \in Addr :
         WritesBack(u, n, a)' <=> WritesBack(u, n, a) /\ LockOf[a] # k
  BY <1>2, <1>4, <1>5, <1>7, <1>10, <1>12, ConstantsAssumption DEF WritesBack
<1>14. \A n : \A u \in Thread, a \in Addr :
         WritesBack(u, n, a)' => /\ Outcome(u, n, a)' = Outcome(u, n, a)
                                 /\ Stored(u, n)' => Stored(u, n)
  <2> SUFFICES ASSUME NEW n, NEW u \in Thread, NEW a \in Addr, WritesBack(u, n, a)'
               PROVE  /\ Outcome(u, n, a)' = Outcome(u, n, a)
                      /\ Stored(u, n)' => Stored(u, n)
    OBVIOUS
  <2>1. Outcome(u, n, a)' = Outcome(u, n, a)
    BY <1>2 DEF Outcome
  <2>2. CASE u = t
    BY <1>1, <1>2, <1>3, <2>1, <2>2 DEF Stored, WritesBack, Publishing
  <2>3. CASE u # t
    BY <1>12, <2>1, <2>3 DEF Stored
  <2> QED
    BY <2>2, <2>3
<1>15. \A a, w : Latest(a, w)' <=> Latest(a, w)
  BY <1>2 DEF Latest
<1>16. ASSUME NEW a \in Addr
       PROVE  \/ Latest(a, mem[a])'
              \/ \E u \in Thread : \E n \in DOMAIN w_set'[u] : WritesBack(u, n, a)'
              \/ \E u \in Thread : pc'[u] = "unit_clock" /\ arg'[u].addr = a
  <2>1. CASE Latest(a, mem[a])
    BY <1>2, <1>15, <2>1
  <2>2. CASE LockOf[a] # k /\ \E u \in Thread : \E n \in DOMAIN w_set[u] : WritesBack(u, n, a)
    BY <1>2, <1>13, <2>2
  <2>3. ASSUME LockOf[a] = k, NEW u \in Thread, NEW n \in DOMAIN w_set[u], WritesBack(u, n, a)
        PROVE  Latest(a, mem[a])'
    <3>1. u = t /\ n <= p /\ n \in Nat
      BY <1>1, <1>4, <1>8, <2>3 DEF WritesBack
    <3>2. Stored(u, n)
      BY <1>1, <3>1 DEF Stored
    <3>3. Latest(a, Outcome(u, n, a)) /\ mem[a] = Outcome(u, n, a)
      BY <1>0, <2>3, <3>2 DEF MemoryInv
    <3> QED
      BY <1>2, <1>15, <3>3
  <2>4. CASE \E u \in Thread : pc[u] = "unit_clock" /\ arg[u].addr = a
    BY <1>1, <1>12, <2>4
  <2> QED
    BY <1>0, <2>1, <2>2, <2>3, <2>4 DEF MemoryInv
<1>17. ASSUME NEW u \in Thread, NEW a \in Addr, NEW n \in DOMAIN w_set'[u],
              WritesBack(u, n, a)'
       PROVE  Latest(a, Outcome(u, n, a))' /\ (Stored(u, n)' => mem'[a] = Outcome(u, n, a)')
  <2>1. WritesBack(u, n, a) /\ n \in DOMAIN w_set[u]
    BY <1>2, <1>13, <1>17
  <2>2. Latest(a, Outcome(u, n, a)) /\ (Stored(u, n) => mem[a] = Outcome(u, n, a))
    BY <1>0, <2>1 DEF MemoryInv
  <2>3. Outcome(u, n, a)' = Outcome(u, n, a) /\ (Stored(u, n)' => Stored(u, n))
    BY <1>14, <1>17
  <2>4. Latest(a, Outcome(u, n, a))'
    BY <1>15, <2>2, <2>3
  <2> QED
    BY <1>2, <2>2, <2>3, <2>4
<1>18. ASSUME NEW u \in Thread, pc'[u] = "unit_clock"
       PROVE  mem'[arg'[u].addr] = arg'[u].value
  BY <1>0, <1>2, <1>3, <1>12, <1>18 DEF MemoryInv
<1>19. MemoryInv'
  BY <1>16, <1>17, <1>18 DEF MemoryInv
<1> QED
  BY <1>11, <1>19

\* A rollback drops a lock, at the version the commit found in it.
LEMMA RollbackVersions ==
  ASSUME VInv, Inv', NEW t \in Thread, OthersLeft(t), RollbackRelease(t)
  PROVE  VersionInv' /\ MemoryInv'
<1>p. PICK p : p = i[t]
  OBVIOUS
<1>k. PICK k : k = LockOf[w_set[t][p].addr]
  OBVIOUS
<1>0. /\ Inv /\ TypeOK /\ TypeOK' /\ VersionInv /\ MemoryInv /\ Drops(t)
      /\ clock \in Nat
  BY HistoryTypes DEF VInv, Inv
<1>1. /\ i[t] = p /\ p \in 1..Len(w_set[t]) /\ p \in DOMAIN w_set[t] /\ p \in Nat
      /\ k = LockOf[w_set[t][p].addr] /\ k \in Lock /\ pc[t] = "rollback"
      /\ w_set[t][p].version \in Nat
  BY <1>0, <1>p, <1>k, LoopPosition, WriteSetType DEF RollbackRelease, At
<1>2. UNCHANGED <<clock, mem, hist, w_set, ts, cont, pc>>
  BY DEF RollbackRelease, histVars
<1>3. /\ ~Stamped(t) /\ ~Stamped(t)' /\ pc[t] \notin Publishing /\ pc'[t] # "unit_release"
      /\ pc'[t] \notin Publishing /\ pc[t] # "unit_clock" /\ Holds(t)'
  BY <1>1, <1>2 DEF Stamped, Publishing, Holds
<1>4. CASE w_set[t][i[t]].no_drop
  BY <1>0, <1>1, <1>2, <1>3, <1>4, KeepVersions DEF RollbackRelease
<1>5. CASE ~w_set[t][i[t]].no_drop
  <2>1. locks' = [locks EXCEPT ![k] = LOCK_SET_TIMESTAMP(w_set[t][p].version)]
    BY <1>1, <1>5 DEF RollbackRelease
  <2>2. locks[k].owner = t /\ locks[k].n = p
    <3>1. Pending(t, p)
      BY <1>1 DEF Pending, At
    <3>2. locks[k] = LOCK_SET_ADDR_WRITE(t, p)
      BY <1>0, <1>1, <1>5, <3>1 DEF Drops, Committing
    <3> QED
      BY <3>2 DEF LOCK_SET_ADDR_WRITE
  <2>3. w_set[t][p].version <= clock /\ Covers(k, w_set[t][p].version)
    BY <1>0, <1>1, <1>3, <2>2 DEF VersionInv, OwnedVersion, OldVersion
  <2>4. VersionInv'
    BY <1>0, <1>1, <1>2, <1>3, <2>1, <2>2, <2>3, ReleaseVersions
  <2>5. \A j \in Lock, u \in Thread \ {t} : locks'[j].owner = u <=> locks[j].owner = u
    BY <1>0, <1>1, <2>1, <2>2, ConstantsAssumption
       DEF LOCK_SET_TIMESTAMP, TypeOK, SharedTypes
  <2>6. MemoryInv'
    BY <1>0, <1>2, <1>3, <2>5, MemorySame
  <2> QED
    BY <2>4, <2>6
<1> QED
  BY <1>4, <1>5

-----------------------------------------------------------------------------
(***************************************************************************)
(* Unit stores                                                             *)
(***************************************************************************)
\* What a step of a unit store leaves to prove: t itself has nothing to keep but
\* Stamps.
LEMMA UnitVersions ==
  ASSUME VInv, TypeOK', NEW t \in Thread, OthersLeft(t), w_set' = w_set, clock <= clock',
         \A k \in Lock : locks[k].owner # t /\ locks'[k].owner # t,
         pc'[t] \notin Committing, Stamps(t)',
         \A k \in Lock, u \in Thread \ {t} :
           \/ locks'[k] = locks[k]
           \/ locks[k].owner # u /\ locks'[k].owner # u,
         \A h \in hist' \ hist, u \in Thread \ {t} :
           /\ locks[LockOf[h.addr]].owner # u
           /\ pc[u] = "unit_release" => LockOf[h.addr] # LockOf[arg[u].addr],
         \A k \in Lock : FreeVersion(k)', HistoryInv'
  PROVE  VersionInv'
<1>0. Inv /\ VersionInv
  BY DEF VInv
<1>1. \A u \in Thread \ {t} : /\ Distinct(u)' /\ Holds(u)' /\ Stamps(u)'
                              /\ \A k \in Lock : OwnedVersion(u, k)'
  <2> SUFFICES ASSUME NEW u \in Thread \ {t}
               PROVE  /\ Distinct(u)' /\ Holds(u)' /\ Stamps(u)'
                      /\ \A k \in Lock : OwnedVersion(u, k)'
    OBVIOUS
  <2> QED
    BY <1>0, OthersVersions
<1>2. Distinct(t)' /\ Holds(t)'
  BY <1>0 DEF VersionInv, Distinct, Holds, Stamped, Publishing, Committing
<1>3. \A k \in Lock : OwnedVersion(t, k)'
  BY DEF OwnedVersion
<1> QED
  BY <1>1, <1>2, <1>3 DEF VersionInv

\* A unit store takes its lock.
LEMMA UnitLockVersions ==
  ASSUME VInv, Inv', NEW t \in Thread, OthersLeft(t), UnitLock(t), locks' # locks
  PROVE  VersionInv' /\ MemoryInv'
<1>k. PICK k : k = LockOf[arg[t].addr]
  OBVIOUS
<1>0. /\ Inv /\ TypeOK /\ TypeOK' /\ VersionInv /\ MemoryInv /\ clock \in Nat /\ k \in Lock
      /\ Owns(t)
  BY <1>k, HistoryTypes, LockOfArg DEF VInv, Inv
<1>1. /\ locks[k].owner = NoOwner /\ locks' = [locks EXCEPT ![k] = LOCK_UNIT]
      /\ pc[t] = "unit_lock" /\ pc'[t] = "unit_store"
      /\ UNCHANGED <<clock, mem, hist, w_set, arg>>
  BY <1>0, <1>k, Domains DEF UnitLock, At, Goto, LOCK_GET_OWNED, setVars, histVars
<1>2. locks'[k].owner = UnitOwner /\ \A j \in Lock \ {k} : locks'[j] = locks[j]
  BY <1>0, <1>1 DEF LOCK_UNIT, TypeOK, SharedTypes
<1>3. \A j \in Lock : locks[j].owner # t /\ locks'[j].owner # t
  BY <1>0, <1>1, <1>2, ConstantsAssumption DEF Owns, Committing
<1>4. \A j \in Lock, u \in Thread \ {t} :
        \/ locks'[j] = locks[j]
        \/ locks[j].owner # u /\ locks'[j].owner # u
  BY <1>1, <1>2, ConstantsAssumption
<1>5. MemoryInv'
  BY <1>0, <1>1, <1>4, MemorySame DEF Publishing
<1>6. Stamps(t)' /\ pc'[t] \notin Committing /\ clock <= clock'
  BY <1>0, <1>1 DEF Stamps, Stamped, Publishing, Committing
<1>7. (\A j \in Lock : FreeVersion(j)') /\ HistoryInv'
  BY <1>0, <1>1, <1>2, ConstantsAssumption DEF VersionInv, FreeVersion, Covers, HistoryInv
<1>8. VersionInv'
  BY <1>0, <1>1, <1>3, <1>4, <1>6, <1>7, UnitVersions
<1> QED
  BY <1>5, <1>8

\* A unit store writes the word: nobody else writes it back.
LEMMA UnitStoreVersions ==
  ASSUME VInv, Inv', NEW t \in Thread, OthersLeft(t), UnitStore(t)
  PROVE  VersionInv' /\ MemoryInv'
<1>b. PICK b : b = arg[t].addr
  OBVIOUS
<1>0. /\ Inv /\ TypeOK /\ TypeOK' /\ VersionInv /\ MemoryInv /\ clock \in Nat
      /\ b \in Addr /\ LockOf[b] \in Lock /\ Owns(t) /\ UnitOwns
  BY <1>b, HistoryTypes, LockOfArg DEF VInv, Inv
<1>1. /\ UNCHANGED <<clock, locks, hist, w_set, arg>> /\ pc[t] = "unit_store"
      /\ pc'[t] = "unit_clock" /\ mem' = [mem EXCEPT ![b] = arg[t].value]
  BY <1>0, <1>b, Domains DEF UnitStore, At, Goto, setVars, localVars, histVars
<1>2. mem'[b] = arg[t].value /\ \A a \in Addr \ {b} : mem'[a] = mem[a]
  BY <1>0, <1>1 DEF TypeOK, SharedTypes
<1>3. locks[LockOf[b]].owner = UnitOwner
  BY <1>0, <1>1, <1>b DEF UnitOwns, UnitStoring
<1>4. \A u \in Thread \ {t} : pc[u] = "unit_clock" => arg[u].addr # b
  BY <1>0, <1>1, <1>b DEF UnitOwns, UnitStoring
<1>5. \A j \in Lock : locks[j].owner # t /\ locks'[j].owner # t
  BY <1>0, <1>1 DEF Owns, Committing
<1>6. Stamps(t)' /\ pc'[t] \notin Committing /\ clock <= clock'
  BY <1>0, <1>1 DEF Stamps, Stamped, Publishing, Committing
<1>7. (\A j \in Lock : FreeVersion(j)') /\ HistoryInv'
  BY <1>0, <1>1 DEF VersionInv, FreeVersion, Covers, HistoryInv
<1>8. VersionInv'
  BY <1>0, <1>1, <1>5, <1>6, <1>7, UnitVersions
<1>9. \A u \in Thread \ {t} : pc'[u] = pc[u] /\ i'[u] = i[u]
  BY DEF OthersLeft, OthersSame
<1>10. \A n : \A u \in Thread, a \in Addr :
         /\ WritesBack(u, n, a)' <=> WritesBack(u, n, a)
         /\ WritesBack(u, n, a) => u # t /\ a # b
  BY <1>0, <1>1, <1>3, <1>9, ConstantsAssumption DEF WritesBack, Publishing
<1>11. \A a, w : Latest(a, w)' <=> Latest(a, w)
  BY <1>1 DEF Latest
<1>12. ASSUME NEW a \in Addr
       PROVE  \/ Latest(a, mem[a])'
              \/ \E u \in Thread : \E n \in DOMAIN w_set'[u] : WritesBack(u, n, a)'
              \/ \E u \in Thread : pc'[u] = "unit_clock" /\ arg'[u].addr = a
  <2>1. CASE a = b
    BY <1>1, <1>b, <2>1
  <2>2. CASE a # b /\ Latest(a, mem[a])
    BY <1>2, <1>11, <2>2
  <2>3. CASE \E u \in Thread : \E n \in DOMAIN w_set[u] : WritesBack(u, n, a)
    BY <1>1, <1>10, <2>3
  <2>4. CASE \E u \in Thread : pc[u] = "unit_clock" /\ arg[u].addr = a
    BY <1>1, <1>9, <2>4
  <2> QED
    BY <1>0, <2>1, <2>2, <2>3, <2>4 DEF MemoryInv
<1>13. ASSUME NEW u \in Thread, NEW a \in Addr, NEW n \in DOMAIN w_set'[u],
              WritesBack(u, n, a)'
       PROVE  Latest(a, Outcome(u, n, a))' /\ (Stored(u, n)' => mem'[a] = Outcome(u, n, a)')
  <2>1. WritesBack(u, n, a) /\ n \in DOMAIN w_set[u] /\ u # t /\ a # b
    BY <1>1, <1>10, <1>13
  <2>2. mem'[a] = mem[a] /\ Outcome(u, n, a)' = Outcome(u, n, a) /\ (Stored(u, n)' <=> Stored(u, n))
    BY <1>1, <1>2, <1>9, <2>1 DEF Outcome, Stored
  <2>3. Latest(a, Outcome(u, n, a)) /\ (Stored(u, n) => mem[a] = Outcome(u, n, a))
    BY <1>0, <2>1 DEF MemoryInv
  <2>4. Latest(a, Outcome(u, n, a))'
    BY <1>11, <2>2, <2>3
  <2> QED
    BY <2>2, <2>3, <2>4
<1>14. ASSUME NEW u \in Thread, pc'[u] = "unit_clock"
       PROVE  mem'[arg'[u].addr] = arg'[u].value
  <2>1. CASE u = t
    BY <1>1, <1>2, <1>b, <2>1
  <2>2. CASE u # t
    <3>1. pc[u] = "unit_clock" /\ arg[u].addr \in Addr \ {b}
      BY <1>0, <1>4, <1>9, <1>14, <2>2, LockOfArg
    <3> QED
      BY <1>0, <1>1, <1>2, <3>1 DEF MemoryInv
  <2> QED
    BY <2>1, <2>2
<1>15. MemoryInv'
  BY <1>12, <1>13, <1>14 DEF MemoryInv
<1> QED
  BY <1>8, <1>15

\* The word of a unit store gets its timestamp.
LEMMA UnitClockVersions ==
  ASSUME VInv, Inv', NEW t \in Thread, OthersLeft(t), UnitClock(t)
  PROVE  VersionInv' /\ MemoryInv'
<1>b. PICK b : b = arg[t].addr
  OBVIOUS
<1>0. /\ Inv /\ TypeOK /\ TypeOK' /\ VersionInv /\ MemoryInv /\ clock \in Nat
      /\ b \in Addr /\ LockOf[b] \in Lock /\ Owns(t) /\ UnitOwns
      /\ \A h \in hist : h.ts <= clock /\ h.ts \in Nat
  BY <1>b, HistoryTypes, LockOfArg DEF VInv, Inv, VersionInv, HistoryInv
<1> DEFINE h0 == [ts |-> clock + 1, addr |-> b, value |-> arg[t].value]
<1>1. /\ UNCHANGED <<mem, locks, w_set, arg>> /\ pc[t] = "unit_clock"
      /\ pc'[t] = "unit_release" /\ clock' = clock + 1 /\ ts'[t] = clock + 1
      /\ hist' = hist \cup {h0}
  BY <1>0, <1>b, Domains DEF UnitClock, At, Goto, setVars
<1>2. h0.ts = clock + 1 /\ h0.addr = b /\ h0.value = arg[t].value
  OBVIOUS
<1> HIDE DEF h0
<1>3. locks[LockOf[b]].owner = UnitOwner /\ mem[b] = arg[t].value
  BY <1>0, <1>1, <1>b DEF UnitOwns, UnitStoring, MemoryInv
<1>4. \A u \in Thread \ {t} : pc[u] \in UnitStoring => LockOf[arg[u].addr] # LockOf[b]
  BY <1>0, <1>1, <1>b DEF UnitOwns, UnitStoring
<1>5. \A j \in Lock : locks[j].owner # t /\ locks'[j].owner # t
  BY <1>0, <1>1 DEF Owns, Committing
<1>6. /\ Stamps(t)' /\ pc'[t] \notin Committing /\ clock <= clock'
      /\ \A h \in hist' : h.ts <= clock'
  BY <1>0, <1>1, <1>2 DEF Stamps, Stamped, Publishing, Committing, Covers
<1>7. \A j \in Lock : FreeVersion(j)'
  <2> SUFFICES ASSUME NEW j \in Lock, locks[j].owner = NoOwner
               PROVE  locks[j].n <= clock' /\ \A h \in hist' : LockOf[h.addr] = j => h.ts <= locks[j].n
    BY <1>1 DEF FreeVersion, Covers
  <2>1. j # LockOf[b]
    BY <1>3, ConstantsAssumption
  <2>2. locks[j].n <= clock /\ locks[j].n \in Nat /\ Covers(j, locks[j].n)
    BY <1>0, HistoryTypes DEF VersionInv, FreeVersion
  <2> QED
    BY <1>0, <1>1, <1>2, <2>1, <2>2 DEF Covers
<1>8. HistoryInv'
  BY <1>0, <1>1, <1>2, <1>6 DEF HistoryInv, VersionInv
<1>9. VersionInv'
  <2>1. \A h \in hist' \ hist, u \in Thread \ {t} :
           /\ locks[LockOf[h.addr]].owner # u
           /\ pc[u] = "unit_release" => LockOf[h.addr] # LockOf[arg[u].addr]
    BY <1>1, <1>2, <1>3, <1>4, ConstantsAssumption DEF UnitStoring
  <2> QED
    BY <1>0, <1>1, <1>5, <1>6, <1>7, <1>8, <2>1, UnitVersions
<1>10. \A u \in Thread \ {t} : pc'[u] = pc[u] /\ i'[u] = i[u]
  BY DEF OthersLeft, OthersSame
<1>11. \A n : \A u \in Thread, a \in Addr :
         /\ WritesBack(u, n, a)' <=> WritesBack(u, n, a)
         /\ WritesBack(u, n, a) => u # t /\ a # b
  BY <1>0, <1>1, <1>3, <1>10, ConstantsAssumption DEF WritesBack, Publishing
<1>12. \A w : \A a \in Addr \ {b} : Latest(a, w) => Latest(a, w)'
  BY <1>1, <1>2 DEF Latest
<1>13. Latest(b, mem[b])'
  <2>1. \A g \in hist' : g.ts <= clock + 1
    BY <1>1, <1>6
  <2> QED
    BY <1>1, <1>2, <1>3, <2>1 DEF Latest
<1>14. ASSUME NEW a \in Addr
       PROVE  \/ Latest(a, mem[a])'
              \/ \E u \in Thread : \E n \in DOMAIN w_set'[u] : WritesBack(u, n, a)'
              \/ \E u \in Thread : pc'[u] = "unit_clock" /\ arg'[u].addr = a
  <2>1. CASE a = b
    BY <1>13, <2>1
  <2>2. CASE a # b /\ Latest(a, mem[a])
    BY <1>1, <1>12, <2>2
  <2>3. CASE \E u \in Thread : \E n \in DOMAIN w_set[u] : WritesBack(u, n, a)
    BY <1>1, <1>11, <2>3
  <2>4. CASE a # b /\ \E u \in Thread : pc[u] = "unit_clock" /\ arg[u].addr = a
    BY <1>1, <1>b, <1>10, <2>4
  <2> QED
    BY <1>0, <2>1, <2>2, <2>3, <2>4 DEF MemoryInv
<1>15. ASSUME NEW u \in Thread, NEW a \in Addr, NEW n \in DOMAIN w_set'[u],
              WritesBack(u, n, a)'
       PROVE  Latest(a, Outcome(u, n, a))' /\ (Stored(u, n)' => mem'[a] = Outcome(u, n, a)')
  <2>1. WritesBack(u, n, a) /\ n \in DOMAIN w_set[u] /\ u # t /\ a # b
    BY <1>1, <1>11, <1>15
  <2>2. Outcome(u, n, a)' = Outcome(u, n, a) /\ (Stored(u, n)' <=> Stored(u, n))
    BY <1>1, <1>10, <2>1 DEF Outcome, Stored
  <2>3. Latest(a, Outcome(u, n, a)) /\ (Stored(u, n) => mem[a] = Outcome(u, n, a))
    BY <1>0, <2>1 DEF MemoryInv
  <2>4. Latest(a, Outcome(u, n, a))'
    BY <1>12, <2>1, <2>2, <2>3
  <2> QED
    BY <1>1, <2>2, <2>3, <2>4
<1>16. ASSUME NEW u \in Thread, pc'[u] = "unit_clock"
       PROVE  mem'[arg'[u].addr] = arg'[u].value
  BY <1>0, <1>1, <1>10, <1>16 DEF MemoryInv
<1>17. MemoryInv'
  BY <1>14, <1>15, <1>16 DEF MemoryInv
<1> QED
  BY <1>9, <1>17

\* A unit store drops its lock at its timestamp.
LEMMA UnitReleaseVersions ==
  ASSUME VInv, Inv', NEW t \in Thread, OthersLeft(t), UnitRelease(t)
  PROVE  VersionInv' /\ MemoryInv'
<1>k. PICK k : k = LockOf[arg[t].addr]
  OBVIOUS
<1>v. PICK v : v = ts[t]
  OBVIOUS
<1>0. /\ Inv /\ TypeOK /\ TypeOK' /\ VersionInv /\ MemoryInv /\ clock \in Nat /\ k \in Lock
      /\ v \in Nat /\ Owns(t) /\ UnitOwns
  BY <1>k, <1>v, HistoryTypes, LockOfArg DEF VInv, Inv
<1>1. /\ locks' = [locks EXCEPT ![k] = LOCK_SET_TIMESTAMP(v)]
      /\ UNCHANGED <<clock, mem, hist, w_set>>
      /\ pc[t] = "unit_release" /\ pc'[t] \in {"idle", "barrier"}
  BY <1>0, <1>k, <1>v, Domains DEF UnitRelease, UnitReleaseVersion, At, Goto, setVars, histVars
<1>2. locks[k].owner = UnitOwner /\ v <= clock /\ Covers(k, v)
  BY <1>0, <1>1, <1>k, <1>v DEF UnitOwns, UnitStoring, VersionInv, Stamps
<1>3. \A j \in Lock : locks[j].owner # t
  BY <1>0, <1>1 DEF Owns, Committing
<1>4. /\ ~Stamped(t)' /\ pc'[t] # "unit_release" /\ Holds(t)'
      /\ pc[t] \notin Publishing /\ pc'[t] \notin Publishing
      /\ pc[t] # "unit_clock" /\ pc'[t] # "unit_clock"
  BY <1>1 DEF Stamped, Holds, Publishing
<1>5. VersionInv'
  BY <1>0, <1>1, <1>2, <1>3, <1>4, ReleaseVersions
<1>6. \A j \in Lock, u \in Thread \ {t} : locks'[j].owner = u <=> locks[j].owner = u
  BY <1>0, <1>1, <1>2, ConstantsAssumption DEF LOCK_SET_TIMESTAMP, TypeOK, SharedTypes
<1>7. MemoryInv'
  BY <1>0, <1>1, <1>4, <1>6, MemorySame
<1> QED
  BY <1>5, <1>7

-----------------------------------------------------------------------------
(***************************************************************************)
(* Beginning, rollover and the theorems                                    *)
(***************************************************************************)
\* A history that holds the contents m of memory at timestamp 0.
LEMMA FreshHistory ==
  ASSUME NEW m
  PROVE  /\ \A h \in InitialHistory(m) : h.ts = 0 /\ h.addr \in Addr /\ h.value = m[h.addr]
         /\ \A g, h \in InitialHistory(m) : g.addr = h.addr => g = h
         /\ \A a \in Addr : \E h \in InitialHistory(m) : h.addr = a
<1>1. \A h \in InitialHistory(m) : \E a \in Addr :
        h = [ts |-> 0, addr |-> a, value |-> m[a]] /\ h.ts = 0 /\ h.addr = a /\ h.value = m[a]
  BY DEF InitialHistory
<1>2. ASSUME NEW a \in Addr PROVE \E h \in InitialHistory(m) : h.addr = a
  <2>1. [ts |-> 0, addr |-> a, value |-> m[a]] \in InitialHistory(m)
    BY DEF InitialHistory
  <2> QED
    BY <2>1
<1> QED
  BY <1>1, <1>2

\* When no thread is in a transaction and every lock is at version 0, the
\* contents of memory are the history.
Fresh ==
  /\ Inv
  /\ clock = 0 /\ locks = [k \in Lock |-> LOCK_SET_TIMESTAMP(0)]
  /\ hist = InitialHistory(mem)
  /\ \A t \in Thread : pc[t] \in {"idle", "prepare"} /\ Distinct(t)

LEMMA FreshVersions == Fresh => VInv
<1> SUFFICES ASSUME Fresh PROVE VInv
  OBVIOUS
<1> USE DEF Fresh
<1>1. \A k \in Lock : locks[k].owner = NoOwner /\ locks[k].n = 0
  BY DEF LOCK_SET_TIMESTAMP
<1>2. /\ \A h \in hist : h.ts = 0 /\ h.addr \in Addr /\ h.value = mem[h.addr]
      /\ \A g, h \in hist : g.addr = h.addr => g = h
      /\ \A a \in Addr : \E h \in hist : h.addr = a
  BY FreshHistory
<1>3. \A t \in Thread : Holds(t) /\ Stamps(t)
  BY DEF Holds, Stamps, Stamped, Publishing
<1>4. \A k \in Lock : FreeVersion(k) /\ \A t \in Thread : OwnedVersion(t, k)
  BY <1>1, <1>2, ConstantsAssumption DEF FreeVersion, OwnedVersion, Covers
<1>5. HistoryInv
  BY <1>2 DEF HistoryInv
<1>6. VersionInv
  BY <1>3, <1>4, <1>5 DEF VersionInv
<1>7. \A a \in Addr : Latest(a, mem[a])
  BY <1>2 DEF Latest
<1>8. \A t, n, a : t \in Thread => ~WritesBack(t, n, a)
  BY DEF WritesBack, Publishing
<1>9. MemoryInv
  BY <1>7, <1>8 DEF MemoryInv
<1> QED
  BY <1>6, <1>9 DEF VInv

LEMMA RolloverVersions ==
  ASSUME VInv, Inv', rollover_clock
  PROVE  VInv'
<1>1. \A t \in Thread : Distinct(t)'
  BY DEF VInv, VersionInv, Distinct, rollover_clock, setVars
<1>2. /\ clock' = 0 /\ locks' = [k \in Lock |-> LOCK_SET_TIMESTAMP(0)]
      /\ \A t \in Thread : pc'[t] \in {"idle", "prepare"}
  BY DEF rollover_clock
<1>3. hist' = InitialHistory(mem)'
  BY DEF rollover_clock, InitialHistory
<1>4. Fresh'
  BY <1>1, <1>2, <1>3 DEF Fresh
<1> QED
  BY <1>4, FreshVersions, PTL

LEMMA InitVInv == Init => VInv
<1> SUFFICES ASSUME Init PROVE VInv
  OBVIOUS
<1>1. Inv
  BY InitInv
<1>2. \A t \in Thread : Distinct(t)
  BY DEF Init, Distinct
<1> QED
  BY <1>1, <1>2, FreshVersions DEF Init, Fresh

\* VInv is inductive.
LEMMA NextVInv == VInv /\ [Next]_vars => VInv'
<1> SUFFICES ASSUME VInv, [Next]_vars PROVE VInv'
  OBVIOUS
<1>0. Inv /\ TypeOK /\ Inv'
  BY NextInv DEF VInv, Inv
<1>1. CASE rollover_clock
  BY <1>0, <1>1, RolloverVersions
<1>2. CASE UNCHANGED vars
  BY <1>0, <1>2, StillVersions DEF VInv, vars
<1>3. ASSUME NEW t \in Thread, AppStep(t) PROVE VersionInv' /\ MemoryInv'
  BY <1>0, <1>3, LocalCall, QuietInv DEF Quiet
<1>4. ASSUME NEW t \in Thread, Tick(t) PROVE VersionInv' /\ MemoryInv'
  <2>1. OthersLeft(t)
    BY <1>0, <1>4, LocalCall
  <2>2. CASE TickDeliver(t)
    BY <1>0, <2>1, <2>2, QuietInv DEF Quiet
  <2>3. CASE TickRecentlyValidated(t) \/ TickStanding(t)
    BY <2>3, StillVersions DEF TickRecentlyValidated, TickStanding, sharedVars, setVars,
       localVars, histVars
  <2> QED
    BY <1>4, <2>2, <2>3 DEF Tick
<1>5. ASSUME NEW t \in Thread, LibraryStep(t) PROVE VersionInv' /\ MemoryInv'
  <2>1. OthersLeft(t)
    BY <1>0, <1>5, LocalLibrary
  <2>2. CASE Quiet(t)
    BY <1>0, <2>1, <2>2, QuietInv
  <2>3. CASE Stamped(t) /\ \E r \in todo[t] : stm_validate(t, r)
    BY <1>0, <2>1, <2>3, ValidateVersions
  <2>4. CASE CommitAcquire(t) \/ CommitClock(t) \/ CommitValid(t)
    BY <1>0, <2>1, <2>4, AcquireVersions, StampVersions, CommitVersions
  <2>5. CASE CommitStore(t) \/ CommitRelease(t) \/ RollbackRelease(t)
    BY <1>0, <2>1, <2>5, StoreVersions, CommitReleaseVersions, RollbackVersions
  <2>6. CASE UnitLock(t) /\ locks' # locks
    BY <1>0, <2>1, <2>6, UnitLockVersions
  <2>7. CASE UnitStore(t) \/ UnitClock(t) \/ UnitRelease(t)
    BY <1>0, <2>1, <2>7, UnitStoreVersions, UnitClockVersions, UnitReleaseVersions
  <2> QED
    BY <1>5, <2>2, <2>3, <2>4, <2>5, <2>6, <2>7 DEF LibraryStep, Quiet
<1> QED
  BY <1>0, <1>1, <1>2, <1>3, <1>4, <1>5 DEF Next, VInv

\* The version in a free lock covers every committed write of its addresses and
\* is no clock value of the future, whatever commits, aborts, unit stores and
\* rollovers have gone before: stm_validate can trust an unchanged version.
THEOREM VersionsCover == Spec => []VersionsCoverWrites
<1>1. VInv => VersionsCoverWrites
  BY DEF VInv, VersionInv, FreeVersion, Covers, VersionsCoverWrites
<1> QED
  BY InitVInv, NextVInv, <1>1, PTL DEF Spec

\* Memory holds the last committed value of every address but the ones a commit
\* past its point of no return, or a unit store, has locked.
THEOREM MemoryIsCommitted == Spec => []MemoryCommitted
<1>1. ASSUME VInv PROVE MemoryCommitted
  <2> SUFFICES ASSUME NEW a \in Addr
               PROVE  \/ IsValueAt(a, clock, mem[a])
                      \/ \E t \in Thread :
                           \/ /\ pc[t] \in {"write_back", "release"}
                              /\ locks[LockOf[a]].owner = t
                           \/ pc[t] \in UnitStoring /\ arg[t].addr = a
    BY DEF MemoryCommitted
  <2>1. CASE Latest(a, mem[a])
    BY <1>1, <2>1 DEF Latest, IsValueAt, VInv, VersionInv, HistoryInv
  <2>2. CASE \E t \in Thread : \E n \in DOMAIN w_set[t] : WritesBack(t, n, a)
    BY <2>2 DEF WritesBack, Publishing
  <2>3. CASE \E t \in Thread : pc[t] = "unit_clock" /\ arg[t].addr = a
    BY <2>3 DEF UnitStoring
  <2> QED
    BY <1>1, <2>1, <2>2, <2>3 DEF VInv, MemoryInv
<1> QED
  BY InitVInv, NextVInv, <1>1, PTL DEF Spec

\* A commit timestamp stands for one write of an address: two transactions, or
\* a transaction and a unit store, never write an address at the same time, so
\* an address has at most one value at any time of the history.
THEOREM OneValueAtATime ==
  Spec => [](\A a \in Addr, s \in Nat, v, w \in Word :
               IsValueAt(a, s, v) /\ IsValueAt(a, s, w) => v = w)
<1>1. ASSUME VInv, NEW a \in Addr, NEW s \in Nat, NEW v \in Word, NEW w \in Word,
             IsValueAt(a, s, v), IsValueAt(a, s, w)
      PROVE  v = w
  <2>1. PICK g \in hist : /\ g.addr = a /\ g.ts <= s /\ g.value = v
                          /\ \A f \in hist : f.addr = a /\ f.ts <= s => f.ts <= g.ts
    BY <1>1 DEF IsValueAt
  <2>2. PICK h \in hist : /\ h.addr = a /\ h.ts <= s /\ h.value = w
                          /\ \A f \in hist : f.addr = a /\ f.ts <= s => f.ts <= h.ts
    BY <1>1 DEF IsValueAt
  <2>3. g.ts \in Nat /\ h.ts \in Nat
    BY <1>1, HistoryTypes DEF VInv, Inv
  <2>4. g.ts = h.ts
    BY <2>1, <2>2, <2>3
  <2> QED
    BY <1>1, <2>1, <2>2, <2>4 DEF VInv, VersionInv, HistoryInv
<1>2. VInv => \A a \in Addr, s \in Nat, v, w \in Word :
                IsValueAt(a, s, v) /\ IsValueAt(a, s, w) => v = w
  BY <1>1
<1> QED
  BY InitVInv, NextVInv, <1>2, PTL DEF Spec

-----------------------------------------------------------------------------
(***************************************************************************)
(* How far the clock can run past VERSION_MAX                              *)
(***************************************************************************)
\* Threads that do not increment the clock before they call stm_prepare again.
Spent == {t \in Thread : \/ pc[t] \in {"idle", "prepare", "barrier", "end", "rollback"} \cup Publishing
                         \/ Stamped(t)}

UnitLabels == UnitStoring \cup {"unit_read_lock", "unit_read_value", "unit_read_lock2",
                               "unit_read_return", "unit_lock"}

\* Once the clock is exhausted stm_prepare lets nobody pass: every timestamp beyond
\* VERSION_MAX has been taken by a thread of its own, which is spent.
ClockInv ==
  /\ Inv
  /\ clock <= VERSION_MAX \/ clock <= VERSION_MAX + Cardinality(Spent)
  /\ \A t \in Thread : pc[t] \notin UnitLabels

\* Threads are finitely many.
LEMMA SpentCount ==
  ASSUME IsFiniteSet(Thread)
  PROVE  /\ Cardinality(Spent) \in Nat /\ Cardinality(Spent') \in Nat
         /\ IsFiniteSet(Spent) /\ IsFiniteSet(Spent')
         /\ Cardinality(Spent) <= Cardinality(Thread) /\ Cardinality(Thread) \in Nat
         /\ Spent \subseteq Spent' => Cardinality(Spent) <= Cardinality(Spent')
<1>1. Spent \subseteq Thread /\ Spent' \subseteq Thread
  BY DEF Spent
<1>2. IsFiniteSet(Spent) /\ IsFiniteSet(Spent')
  BY <1>1, FS_Subset
<1>3. Cardinality(Spent) <= Cardinality(Thread)
  BY <1>1, FS_Subset
<1>4. Spent \subseteq Spent' => Cardinality(Spent) <= Cardinality(Spent')
  BY <1>2, FS_Subset
<1> QED
  BY <1>2, <1>3, <1>4, FS_CardinalityType

\* What a step of t does to t's place and to the clock.
LEMMA SpentStep ==
  ASSUME ClockInv, NEW t \in Thread, UnitMasks = {}, AppStep(t) \/ Tick(t) \/ LibraryStep(t)
  PROVE  /\ pc'[t] \notin UnitLabels
         /\ \/ clock' = clock /\ (t \in Spent /\ clock >= VERSION_MAX => t \in Spent')
            \/ clock' = clock + 1 /\ t \notin Spent /\ t \in Spent'
<1>0. TypeOK /\ WriteSetInv(t)
      /\ pc[t] \notin UnitLabels
  BY DEF ClockInv, Inv
<1> USE <1>0, Domains DEF At, Goto, EnterRollback, ReturnToApp, Spent, Publishing, Stamped, UnitStoring,
       UnitLabels, sharedVars, localVars
<1>1. CASE AppStep(t)
  <2>1. CASE \E a \in Attr : stm_start(t, a)
    BY <2>1 DEF stm_start
  <2>2. CASE stm_start_nested(t) \/ stm_commit_nested(t) \/ stm_commit(t) \/ stm_abort(t)
             \/ stm_store_ro(t)
    BY <2>2 DEF stm_start_nested, stm_commit_nested, stm_commit, stm_abort, stm_store_ro
  <2>3. CASE \E a \in Loads[t] : stm_load_written(t, a) \/ stm_load(t, a) \/ stm_unit_load(t, a)
    BY <2>3 DEF stm_load_written, stm_load, stm_unit_load
  <2>4. CASE \E a, v, m : stm_store(t, a, v, m)
    BY <2>4 DEF stm_store
  <2>5. CASE \E e \in BOOLEAN, b \in Bounds : stm_set_extension(t, e, b)
    BY <2>5 DEF stm_set_extension
  <2> QED
    BY <1>1, <2>1, <2>2, <2>3, <2>4, <2>5 DEF AppStep
<1>2. CASE Tick(t)
  BY <1>2 DEF Tick, TickDeliver, TickRecentlyValidated, TickStanding
<1>3. CASE stm_prepare(t) \/ stm_prepare_overflow(t)
  <2>1. VERSION_MAX \in Nat /\ clock \in Nat
    BY ConstantsAssumption, HistoryTypes
  <2> QED
    BY <1>3, <2>1 DEF stm_prepare, stm_prepare_overflow, ClockExhausted
<1>4. CASE ReadLock(t) \/ ReadValue(t) \/ ReadLockChanged(t) \/ ReadLockSame(t) \/ ReadTooNew(t)
           \/ ReadRecheck(t)
  BY <1>4 DEF ReadLock, ReadValue, ReadLockChanged, ReadLockSame, ReadTooNew, ReadRecheck
<1>5. CASE stm_write(t) \/ stm_extend(t) \/ (\E r \in todo[t] : stm_validate(t, r)) \/ ExtendOk(t)
  BY <1>5 DEF stm_write, stm_extend, stm_validate, ExtendOk
<1>6. CASE CommitAcquire(t)
  BY <1>6 DEF CommitAcquire
<1>7. CASE CommitClock(t)
  BY <1>7 DEF CommitClock
<1>8. CASE CommitValid(t) \/ CommitStore(t) \/ CommitRelease(t) \/ CommitEnd(t)
  BY <1>8 DEF CommitValid, CommitStore, CommitRelease, CommitEnd, NextWriteBack
<1>9. CASE RollbackRelease(t) \/ RollbackEnd(t)
  BY <1>9 DEF RollbackRelease, RollbackEnd
<1>10. CASE UnitReadLockSame(t) \/ UnitReadReturn(t) \/ UnitLock(t) \/ UnitStore(t) \/ UnitClock(t)
            \/ UnitRelease(t)
  BY <1>10 DEF UnitReadLockSame, UnitReadReturn, UnitLock, UnitStore, UnitClock, UnitRelease
<1> QED
  BY <1>1, <1>2, <1>3, <1>4, <1>5, <1>6, <1>7, <1>8, <1>9, <1>10 DEF LibraryStep

LEMMA NextClockInv ==
  ASSUME IsFiniteSet(Thread), UnitMasks = {}
  PROVE  ClockInv /\ [Next]_vars => ClockInv'
<1> SUFFICES ASSUME ClockInv, [Next]_vars PROVE ClockInv'
  OBVIOUS
<1>0. Inv /\ Inv' /\ TypeOK /\ clock \in Nat /\ clock' \in Nat /\ VERSION_MAX \in Nat
  BY NextInv, HistoryTypes, ConstantsAssumption DEF ClockInv, Inv, TypeOK, SharedTypes
<1>1. ASSUME NEW t \in Thread, AppStep(t) \/ Tick(t) \/ LibraryStep(t) PROVE ClockInv'
  <2>1. OthersLeft(t)
    BY <1>0, <1>1, LocalCall, LocalLibrary
  <2>2. \A u \in Thread \ {t} : pc'[u] = pc[u] /\ cont'[u] = cont[u]
    BY <2>1 DEF OthersLeft, OthersSame
  <2>3. \A u \in Thread \ {t} : u \in Spent <=> u \in Spent'
    BY <2>2 DEF Spent, Stamped
  <2>4. \A u \in Thread : pc'[u] \notin UnitLabels
    BY <1>1, <2>2, SpentStep DEF ClockInv
  <2>5. CASE clock' = clock /\ (t \in Spent /\ clock >= VERSION_MAX => t \in Spent')
    <3>1. clock >= VERSION_MAX => Spent \subseteq Spent'
      BY <2>3, <2>5 DEF Spent
    <3> QED
      BY <1>0, <2>4, <2>5, <3>1, SpentCount DEF ClockInv
  <2>6. CASE clock' = clock + 1 /\ t \notin Spent /\ t \in Spent'
    <3>1. Spent' = Spent \cup {t}
      BY <2>3, <2>6 DEF Spent
    <3>2. Cardinality(Spent') = Cardinality(Spent) + 1
      BY <2>6, <3>1, SpentCount, FS_AddElement
    <3> QED
      BY <1>0, <2>4, <2>6, <3>2, SpentCount DEF ClockInv
  <2> QED
    BY <1>1, <2>5, <2>6, SpentStep
<1>2. CASE rollover_clock
  BY <1>0, <1>2 DEF rollover_clock, ClockInv, UnitLabels, UnitStoring
<1>3. CASE UNCHANGED vars
  BY <1>0, <1>3 DEF vars, ClockInv, Spent, Stamped
<1> QED
  BY <1>1, <1>2, <1>3 DEF Next

\* The margin FETCH_INC_CLOCK needs: without unit stores the clock passes VERSION_MAX
\* by at most one timestamp per thread before stm_quiesce_barrier rolls it over, so
\* versions always fit a lock word.
THEOREM ClockBounded ==
  ASSUME IsFiniteSet(Thread), UnitMasks = {}
  PROVE  Spec => []ClockOvershoot
<1>1. Init => ClockInv
  <2> SUFFICES ASSUME Init PROVE ClockInv
    OBVIOUS
  <2>1. Inv /\ clock = 0 /\ \A t \in Thread : pc[t] = "idle"
    BY InitInv DEF Init
  <2> QED
    BY <2>1, ConstantsAssumption DEF ClockInv, UnitLabels, UnitStoring
<1>2. ClockInv => ClockOvershoot
  <2> SUFFICES ASSUME ClockInv PROVE ClockOvershoot
    OBVIOUS
  <2>1. clock \in Nat /\ VERSION_MAX \in Nat
    BY HistoryTypes, ConstantsAssumption DEF ClockInv, Inv
  <2> QED
    BY <2>1, SpentCount DEF ClockInv, ClockOvershoot
<1>3. ClockInv /\ [Next]_vars => ClockInv'
  BY NextClockInv
<1> QED
  BY <1>1, <1>2, <1>3, PTL DEF Spec
=============================================================================
