----------------------------- MODULE MbSnapshot -----------------------------
(***************************************************************************)
(* Time stamps of the model-based build (make MB=1).  A lock's version and *)
(* the two ends of a snapshot are packed: a time stamp above a counter of  *)
(* updates (MBR_SET_ENTRY, src/tinySTM/src/stm.c).  The bodies of a load   *)
(* and of a commit are one step each, which takes interleavings away and   *)
(* adds none: StmCTL has their steps.                                      *)
(*                                                                         *)
(* stm_init_thread takes the descriptor from malloc and sets neither start *)
(* nor end; here the heap is fresh and they are zero.                      *)
(***************************************************************************)
EXTENDS Naturals, FiniteSets

CONSTANTS
  Tx,                \* threads
  Word,              \* addresses, each with its own lock
  UPD_BITS, TMP_BITS,
  VERSION_MAX        \* clock value at which an extension fails, < 2 ^ TMP_BITS

VARIABLES
  clock,
  version,           \* per word: the packed version in its lock
  start, end, active,
  loaded,            \* per thread: word -> version it was read at
  wset,              \* per thread: words to write
  written            \* history, per word: the times at which it was overwritten

snapVars == <<clock, version, start, end, active, loaded, wset, written>>

MBR_UPD_MASK == 2 ^ UPD_BITS - 1
MBR_GET_UPD(l) == l % 2 ^ UPD_BITS
MBR_GET_TMP(l) == l \div 2 ^ UPD_BITS
MBR_SET_ENTRY(t, u) == (t % 2 ^ TMP_BITS) * 2 ^ UPD_BITS + (u % 2 ^ UPD_BITS)

SnapInit ==
  /\ clock = 0
  /\ version = [w \in Word |-> 0]
  /\ start = [t \in Tx |-> 0] /\ end = [t \in Tx |-> 0]
  /\ active = [t \in Tx |-> FALSE]
  /\ loaded = [t \in Tx |-> {}] /\ wset = [t \in Tx |-> {}]
  /\ written = [w \in Word |-> {}]

\* stm_prepare: the ends are packed again instead of being read off the clock.
stm_prepare(t) ==
  /\ start' = [start EXCEPT ![t] = MBR_SET_ENTRY(@, 0)]
  /\ end' = [end EXCEPT ![t] = MBR_SET_ENTRY(@, MBR_UPD_MASK)]
  /\ loaded' = [loaded EXCEPT ![t] = {}]
  /\ wset' = [wset EXCEPT ![t] = {}]

Begin(t) ==
  /\ ~active[t]
  /\ active' = [active EXCEPT ![t] = TRUE]
  /\ stm_prepare(t)
  /\ UNCHANGED <<clock, version, written>>

stm_validate(t) == \A r \in loaded[t] : version[r[1]] = r[2]

\* A load extends the snapshot when the version is too new, and aborts when it
\* cannot.
stm_load(t, w) ==
  /\ active[t]
  /\ \/ /\ version[w] <= end[t]
        /\ UNCHANGED <<end, start, wset>>
        /\ loaded' = [loaded EXCEPT ![t] = @ \cup {<<w, version[w]>>}]
     \/ /\ version[w] > end[t] /\ stm_validate(t) /\ clock < VERSION_MAX
        /\ end' = [end EXCEPT ![t] = MBR_SET_ENTRY(clock, MBR_UPD_MASK)]
        /\ loaded' = [loaded EXCEPT ![t] = @ \cup {<<w, version[w]>>}]
        /\ UNCHANGED <<start, wset>>
     \/ version[w] > end[t] /\ ~(stm_validate(t) /\ clock < VERSION_MAX) /\ stm_prepare(t)
  /\ UNCHANGED <<clock, version, active, written>>

stm_store(t, w) ==
  /\ active[t]
  /\ wset' = [wset EXCEPT ![t] = @ \cup {w}]
  /\ UNCHANGED <<clock, version, start, end, active, loaded, written>>

\* A transaction without writes commits unvalidated; another takes a time
\* stamp and validates unless nobody committed since its start.
stm_commit(t) ==
  LET ts == clock + 1 IN
  /\ active[t]
  /\ \/ /\ wset[t] = {}
        /\ active' = [active EXCEPT ![t] = FALSE]
        /\ UNCHANGED <<clock, version, start, end, loaded, wset, written>>
     \/ /\ wset[t] # {} /\ clock < VERSION_MAX
        /\ clock' = ts
        /\ IF start[t] # MBR_SET_ENTRY(ts - 1, 0) /\ ~stm_validate(t)
           THEN stm_prepare(t) /\ UNCHANGED <<version, active, written>>
           ELSE /\ version' = [w \in Word |->
                     IF w \in wset[t] THEN MBR_SET_ENTRY(ts, MBR_GET_UPD(version[w]) + 1)
                     ELSE version[w]]
                /\ active' = [active EXCEPT ![t] = FALSE]
                /\ written' = [w \in Word |-> IF w \in wset[t] THEN written[w] \cup {ts}
                                              ELSE written[w]]
                /\ UNCHANGED <<start, end, loaded, wset>>

SnapNext == \E t \in Tx : \/ Begin(t) \/ stm_commit(t)
                          \/ \E w \in Word : stm_load(t, w) \/ stm_store(t, w)

SnapSpec == SnapInit /\ [][SnapNext]_snapVars

-----------------------------------------------------------------------------
\* "The value returned is consistent with respect to previous reads from the
\* same transaction" (stm.h): all that a transaction has read was in memory at
\* one moment, so nothing it read was written at or after the time at which
\* another word it had read was overwritten.
LoadsConsistent ==
  \A t \in Tx : active[t] =>
    \A r, q \in loaded[t] : \A k \in written[q[1]] :
      k > MBR_GET_TMP(q[2]) => MBR_GET_TMP(r[2]) < k
=============================================================================
