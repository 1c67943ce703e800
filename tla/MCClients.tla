----------------------------- MODULE MCClients -----------------------------
(***************************************************************************)
(* Several applications of StmCTL in one run: client says which one a      *)
(* behaviour is about.  They differ in what their threads load and store   *)
(* and in the build; threads, words and the lock array are the same.  The  *)
(* words x and z share a lock, y has its own.                              *)
(***************************************************************************)
EXTENDS MCStmCTL

CONSTANTS z, Clients

VARIABLE client

SharedLock == (x :> kx) @@ (y :> ky) @@ (z :> kx)

\* The constants of the cfg: in CtlUpdates each thread loads what the other one
\* stores, in nested transactions; in EaLive both use one word, with ticks.

NotRetried == {[read_only |-> FALSE, no_retry |-> TRUE]}

\* Loads, stores, unit loads and unit stores of one word, and
\* stm_set_extension in the middle of transactions that are not restarted.
OneWord == INSTANCE StmRefinesOpaque WITH Attr <- NotRetried,
  Loads <- OnlyX, Stores <- OnlyX, UnitMasks <- FullMask, Bounds <- {1},
  MaxNesting <- 1

\* t1 loads two words that t2 stores; transactions may start read-only, and
\* the clock is rolled over after every commit.
ReadersOfXY == [t \in Thread |-> IF t = t1 THEN {x, y} ELSE {}]
WritersOfXY == [t \in Thread |-> IF t = t1 THEN {} ELSE {x, y}]
TwoWords == INSTANCE StmRefinesOpaque WITH
  Loads <- ReadersOfXY, Stores <- WritersOfXY, Attr <- RetryingModes,
  VERSION_MAX <- 1

\* The same with early aborts, for transactions that are not read-only
\* (EaReadOnly.cfg is about those).
Ticked == INSTANCE StmRefinesOpaque WITH
  Loads <- ReadersOfXY, Stores <- WritersOfXY, EarlyAbort <- TRUE

\* Two words under one lock, stores of a part of a word, and transactions
\* that are not restarted.
WritersOfStripe == [t \in Thread |-> IF t = t1 THEN {z} ELSE {x, z}]
Stripe == INSTANCE StmRefinesOpaque WITH
  Loads <- ReaderOfX, Stores <- WritersOfStripe, Masks <- LowPart, Attr <- NotRetried

ClientsInit == client \in Clients /\ Init

ClientsNext ==
  /\ UNCHANGED client
  /\ \/ client = "plain" /\ Next
     \/ client = "word" /\ OneWord!Next
     \/ client = "reader" /\ TwoWords!Next
     \/ client = "ticked" /\ Ticked!Next
     \/ client = "stripe" /\ Stripe!Next

ClientsSpec == ClientsInit /\ [][ClientsNext]_<<client, vars>>

ClientsView == <<client, LiveView>>

\* The fairness of StmCTL, for the plain client.
FairClientsSpec == ClientsSpec /\ Fairness
=============================================================================
