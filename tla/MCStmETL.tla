------------------------------ MODULE MCStmETL ------------------------------
(* Small instances of StmETL for TLC. *)
EXTENDS StmETL, TLC

CONSTANTS t1, t2, x, y, kx, ky, b0, b1, v0

TwoLocks == (x :> kx) @@ (y :> ky)
OneLock == (x :> kx) @@ (y :> kx)
OwnWords == [t \in Thread |-> {[b \in Byte |-> t]}]
ThreadOrder == (t1 :> 1) @@ (t2 :> 2)
All == [t \in Thread |-> Addr]
Crossed == (t1 :> {y}) @@ (t2 :> {x})
Reader == (t1 :> {x, y}) @@ (t2 :> {})
Writer == (t1 :> {}) @@ (t2 :> {x, y})
StripeWriters == (t1 :> {y}) @@ (t2 :> {x, y})
OnlyX == [t \in Thread |-> {x}]

Calls(m, n) == (t1 :> m) @@ (t2 :> n)

Base == [DESIGN |-> "WRITE_BACK_ETL", CM |-> "SUICIDE", policy |-> "none",
         vr_threshold |-> 0, LockOf |-> TwoLocks, RW_SET_SIZE |-> 4,
         read_only |-> {FALSE}, Loads |-> All, Stores |-> Crossed,
         Masks |-> {Byte}, VERSION_MAX |-> 2, INCARNATION_MAX |-> 1,
         aborts |-> TRUE, MaxCalls |-> Calls(3, 3)]

\* WRITE_BACK_ETL: a reader against a writer; two writers on one stripe with
\* partial stores; a write set that grows with one word per lock.
EtlReader == [Base EXCEPT !.Loads = Reader, !.Stores = Writer, !.read_only = BOOLEAN,
                      !.MaxCalls = Calls(2, 2)]
EtlStripe == [Base EXCEPT !.LockOf = OneLock, !.Loads = Reader, !.Stores = StripeWriters,
               !.Masks = {{b0}}, !.VERSION_MAX = 1]
EtlGrow == [Base EXCEPT !.RW_SET_SIZE = 1, !.CM = "DELAY", !.VERSION_MAX = 1]
\* WRITE_THROUGH, with one and with two locks.
WtReader == [EtlReader EXCEPT !.DESIGN = "WRITE_THROUGH", !.VERSION_MAX = 1]
WtStripe == [EtlStripe EXCEPT !.DESIGN = "WRITE_THROUGH", !.CM = "DELAY",
                               !.MaxCalls = Calls(2, 2)]
\* CM_MODULAR.
Kill(p) == [Base EXCEPT !.CM = "MODULAR", !.policy = p, !.vr_threshold = -1,
                        !.Loads = OnlyX, !.Stores = OnlyX, !.MaxCalls = Calls(2, 1),
                        !.aborts = FALSE, !.VERSION_MAX = 1]
Visible(p) == [Kill(p) EXCEPT !.vr_threshold = 0]

\* Outside of a transaction snap is out of date; so is a committed write once
\* every running transaction observes a later one of the same address.
Hiding(d) == IF d.pc \in OutLabels THEN [d EXCEPT !.snap = 0] ELSE d
Oldest == {tx[t].snap : t \in {u \in Thread : tx[u].pc \notin OutLabels}} \cup {clock}
Current == {h \in hist : ~\E g \in hist : /\ g.addr = h.addr /\ g.ts > h.ts
                                          /\ \A s \in Oldest : g.ts <= s}
SnapView == <<build, clock, locks, mem, [t \in Thread |-> Hiding(tx[t])], Current>>

EtlBuilds ==
  {EtlReader, EtlStripe, EtlGrow, WtReader, WtStripe,
   Kill("aggressive"), Kill("timestamp"), Kill("delay"), Kill("suicide"),
   [Kill("karma") EXCEPT !.MaxCalls = Calls(1, 1)], Visible("timestamp")}

\* A write set that grows while a lock covers two of its entries.
GrowingStripe ==
  {[EtlStripe EXCEPT !.RW_SET_SIZE = 1, !.Stores = Writer, !.Loads = Writer]}
=============================================================================
