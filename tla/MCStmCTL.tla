------------------------------ MODULE MCStmCTL ------------------------------
(* Small instances of StmCTL for TLC. *)
EXTENDS StmRefinesOpaque, TLC

CONSTANTS t1, t2, x, y, kx, ky, b0, b1, v0

TwoLocks == (x :> kx) @@ (y :> ky)
XLock == x :> kx

ReadWrite == {[read_only |-> FALSE, no_retry |-> FALSE]}
RetryingModes == [read_only: BOOLEAN, no_retry: {FALSE}]
LowPart == {{b0}}
FullMask == {Byte}

Reader == [t \in Thread |-> IF t = t1 THEN Addr ELSE {}]
Writer == [t \in Thread |-> IF t = t1 THEN {} ELSE Addr]
OnlyX == [t \in Thread |-> {x}]
ReaderOfX == [t \in Thread |-> IF t = t1 THEN {x} ELSE {}]
JustX == [t \in Thread |-> IF t = t1 THEN {x} ELSE {y}]
JustY == [t \in Thread |-> IF t = t1 THEN {y} ELSE {x}]

\* Each thread stores words of its own, so values identify their writer.
OwnWords == [t \in Thread |-> {[b \in Byte |-> t]}]

\* A thread outside a transaction: stm_prepare will overwrite its descriptor.
Dead(t) == pc[t] \in {"idle", "prepare", "barrier"}
Live(f, t) == IF Dead(t) THEN 0 ELSE f[t]
LiveView ==
  <<clock, locks, mem, pc, status, nesting, attr, ro, arg, l, value, i, todo,
    now, ts, cont, tx_on, hist, obs,
    [t \in Thread |->
       <<Live(can_extend, t), Live(start, t), Live(end, t), Live(r_set, t),
         Live(w_set, t), Live(nb_acquired, t), Live(standing, t),
         Live(recently_validated, t), Live(snap, t)>>]>>
=============================================================================
