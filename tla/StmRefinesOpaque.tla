-------------------------- MODULE StmRefinesOpaque --------------------------
(***************************************************************************)
(* The refinement mapping from StmCTL to OpaqueTM.  A thread is out of its *)
(* transaction until stm_prepare has fixed its snapshot and again after    *)
(* stm_commit or stm_rollback has ended it; it has committed once          *)
(* stm_commit may write back.                                              *)
(***************************************************************************)
EXTENDS StmCTL

OutLabels == {"idle", "prepare", "barrier", "unit_read_lock", "unit_read_value",
              "unit_read_lock2", "unit_read_return", "unit_lock"} \cup UnitStoring

PhaseOf(t) ==
  IF pc[t] \in OutLabels THEN "out"
  ELSE IF ts[t] > 0 /\ pc[t] \in {"write_back", "release", "end"} THEN "committed"
  ELSE "running"

\* Outside of transactions start and the timestamps of the descriptor mean nothing.
InTx(t, v) == IF pc[t] \in OutLabels THEN 0 ELSE v

Abstract == INSTANCE OpaqueTM WITH
  time <- clock,
  phase <- [t \in Thread |-> PhaseOf(t)],
  snap <- [t \in Thread |-> InTx(t, snap[t])],
  ticket <- [t \in Thread |-> InTx(t, ts[t])]

\* Every behaviour of the locking protocol of stm.c is one of the abstract
\* transactional memory: reads of a transaction are one snapshot, commits are
\* atomic at their timestamps, aborts leave no trace.
Refinement == Abstract!Spec
=============================================================================
