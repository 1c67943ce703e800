----------------------------- MODULE MCServices -----------------------------
(***************************************************************************)
(* The parts of the repository that a transaction uses but that share no   *)
(* state with each other, checked together: the collector, the memory      *)
(* management, callbacks, undo log and typed accesses of a transaction,    *)
(* the statistics, the table and windows of the model-based revalidation,  *)
(* the data structures and the tables of TPC-C.  part says which of them   *)
(* runs in a behaviour; the others stay in one of their initial states.    *)
(***************************************************************************)
EXTENDS Gc, TxServices, Containers, MbTable, Pacing, Statistics, Tpcc

VARIABLE part        \* the part that runs in this behaviour

-----------------------------------------------------------------------------
(* Values of the constants. *)

\* The programs that use the collector: threads come and go, or the clock
\* rolls over, or write sets grow.
GcPrograms == {{"unlink", "exit", "peek"}, {"unlink", "rollover"},
               {"unlink", "grow"}}

Using(uses, types, aborts, plain, w, calls, tries) ==
  [uses |-> uses, types |-> types, aborts |-> aborts, plain |-> plain, w |-> w,
   maxOps |-> calls, maxAttempts |-> tries]

\* The undo log is exercised by programs that abort, give up, write the data
\* between transactions and log words, byte blocks and values too wide for
\* their entries: stale entries are applied and values truncated, and what
\* the code still promises is in UndoExact and HeapBalanced, not in a choice
\* of programs.  UndoRestores and CopiesAccounted do not hold for them.
ServicePrograms == {
  Using({"typed"}, {}, TRUE, FALSE, 4, 1, 1),
  Using({"typed"}, {}, TRUE, FALSE, 8, 1, 1),
  Using({"mem"}, {}, TRUE, FALSE, 8, 4, 2),
  Using({"cb"}, {}, TRUE, FALSE, 8, 3, 2),
  Using({"log"}, {"word", "u16"}, TRUE, FALSE, 8, 3, 2),
  Using({"log"}, {"u16"}, TRUE, TRUE, 8, 2, 2),
  Using({"log"}, {"bytes"}, TRUE, TRUE, 8, 2, 2)}

\* Two keys that fall into one bucket.
TheRequests == {<<10, 5, 1>>, <<8, 5, 0>>}

\* One item is enough: an order has two lines of it.  Two customers share a
\* last name.
ThePrices == [i \in ItemIds |-> i]
TheNames == [c \in 1 .. NumCustomers |-> IF c < 3 THEN "BAR" ELSE "OUGHT"]

-----------------------------------------------------------------------------
(* One initial state of a part that does not run. *)
GcRests == use = CHOOSE u \in Uses : TRUE
ServicesRest == prog = CHOOSE p \in Programs : TRUE
ContainersRest == kind = "pool" /\ obj.base = 0
MbRests == approx
PaceRests == method = "model"
TpccRests == /\ neworder = NewOrderRows(0)
             /\ \A d \in Districts : orders[d][1].c = 1
             /\ \A i \in ItemIds : stock[i].q = 10

ServicesParts == {"gc", "services", "containers", "table", "pacing", "statistics",
                  "tpcc"}

allVars == <<part, gcVars, servicesVars, vars, mbVars, paceVars, statVars, tpccVars>>

\* True; comparing them makes TLC evaluate the functions in the variables that
\* PartView leaves out.
ValuesKnown == allVars = allVars

AllInit ==
  /\ part \in ServicesParts
  /\ GcInit /\ ServicesInit /\ Init /\ MbInit /\ PaceInit /\ StatInit /\ TpccInit
  /\ part = "gc" \/ GcRests
  /\ part = "services" \/ ServicesRest
  /\ part = "containers" \/ ContainersRest
  /\ part = "table" \/ MbRests
  /\ part = "pacing" \/ PaceRests
  /\ part = "tpcc" \/ TpccRests
  /\ ValuesKnown

AllNext ==
  /\ UNCHANGED part
  /\ IF part = "gc" THEN GcNext ELSE UNCHANGED gcVars
  /\ IF part = "services" THEN ServicesNext ELSE UNCHANGED servicesVars
  /\ IF part = "containers" THEN Next ELSE UNCHANGED vars
  /\ IF part = "table" THEN MbNext ELSE UNCHANGED mbVars
  /\ IF part = "pacing" THEN PaceNext ELSE UNCHANGED paceVars
  /\ IF part = "statistics" THEN StatNext ELSE UNCHANGED statVars
  /\ IF part = "tpcc" THEN TpccNext ELSE UNCHANGED tpccVars

AllSpec == AllInit /\ [][AllNext]_allVars
-----------------------------------------------------------------------------
(* States that differ in the names of the collector's blocks only are the  *)
(* same: what counts is how many blocks are in which places.               *)
PlacesOf(b) ==
  [root |-> b = root, free |-> b \in free,
   own |-> {t \in Thread : b \in th[t].own},
   victim |-> {t \in Thread : b \in th[t].victim},
   holds |-> {t \in Thread : b \in th[t].holds},
   regions |-> {<<s, r>> \in Slot \X (1 .. Cardinality(Block)) :
                  r \in DOMAIN slots[s].head /\ b \in slots[s].head[r].blocks}]

\* The registers of a thread that are read before they are written again.
LiveRegisters(t) ==
  LET in(pcs) == th[t].pc \in pcs
      freeing == in({"free", "scan", "scanTs", "pop", "popped"})
  IN [pc |-> th[t].pc, idx |-> th[t].idx,
      i |-> IF in({"find", "cas", "scan", "scanTs"}) THEN th[t].i ELSE 0,
      min |-> IF freeing /\ ~ in({"free"}) THEN th[t].min ELSE 0,
      used |-> IF in({"cas"}) THEN th[t].used ELSE GcNull,
      start |-> IF in({"prepared", "tx"}) \/ (freeing /\ th[t].ret = "tx")
                 THEN th[t].start ELSE 0,
      epoch |-> IF in({"free"}) THEN th[t].epoch ELSE 0,
      ret |-> IF freeing THEN th[t].ret ELSE "off"]

GcView ==
  LET Placed == {<<b, PlacesOf(b)>> : b \in Block}
  IN <<use, clock, nb_active, slots = slots,
       [s \in Slot |-> <<slots[s].used, slots[s].ts,
                         [r \in DOMAIN slots[s].head |-> slots[s].head[r].ts]>>],
       [t \in Thread |-> LiveRegisters(t)],
       {<<p[2], Cardinality({q \in Placed : q[2] = p[2]})>> : p \in Placed}>>

\* The workers that deliver are interchangeable.
TpccView == <<wYtd, district, customer, orders, neworder, stock, stuck,
              [d \in 0 .. NumDistricts |-> Cardinality({x \in Deliverers : delivery[x] = d})]>>

\* The threads that count are interchangeable; of what one has loaded, only the
\* extreme it will compare counts, or whether the list is still the one it read.
Standing(w) == [of |-> [st[w] EXCEPT !.seen = <<>>], retried |-> retried[w],
               listed |-> w \in ToSet(stats_list),
               extreme |-> IF st[w].at \in {"setmax", "setmin"} THEN st[w].seen ELSE 0,
               current |-> st[w].at = "push" /\ st[w].seen = stats_list]

StatView == <<mod_stats_global, combined,
              {<<Standing(w), Cardinality({v \in Counter : Standing(v) = Standing(w)})>>
                : w \in Counter}>>

\* The profiles are interchangeable.
PaceView ==
  LET Profiled(p) == <<validation_period[p], validation_reset[p], validation_last[p],
                       scaler[p], samples[p], attempt = p>>
  IN <<method, tsc, tx_on, standing, opt_clock, begun,
       {<<Profiled(p), Cardinality({q \in Profile : Profiled(q) = Profiled(p)})>>
         : p \in Profile}>>

\* The parts that do not run never change.
PartView ==
  <<part, CASE part = "gc" -> GcView
            [] part = "services" -> servicesVars
            [] part = "containers" -> vars
            [] part = "table" -> mbVars
            [] part = "pacing" -> PaceView
            [] part = "statistics" -> StatView
            [] part = "tpcc" -> TpccView>>
=============================================================================
