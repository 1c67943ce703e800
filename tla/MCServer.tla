------------------------------ MODULE MCServer ------------------------------
(***************************************************************************)
(* The server and the client of the TPC-C benchmark.  They are separate    *)
(* programs that meet in the bytes of a connection only: part says which   *)
(* one runs in a behaviour, and fairness is asked of that one.             *)
(***************************************************************************)
EXTENDS TaskServer, Client

CONSTANT Parts

VARIABLE part

Run(p, x) == [kind |-> "run", prio |-> p, tx |-> x]
Other(k) == [kind |-> k, prio |-> 0, tx |-> 9]

U(b, n, S, W, k, R, e) ==
    [build |-> b, prios |-> n, servers |-> S, workers |-> W, txs |-> k, requests |-> R, enableAt |-> e]
CONSTANTS s1, s2, w1, w2

(* Two connections with two requests each, one list and one worker: every  *)
(* interleaving of insertions with a removal, the statistics switched on   *)
(* and printed on the way; one connection and two lists; requests that are *)
(* not run; and the lock-free lists, with enough requests to wrap the ring *)
(* or with two workers.                                                    *)
ServerSetups ==
    {U("locks", 1, {s1, s2}, {w1}, 2, {Run(0, 1)}, 9),
     U("locks", 2, {s1}, {w1}, 3, {Run(-1, 1), Run(7, 2)}, 1),
     U("locks", 1, {s1, s2}, {w1}, 1, {Run(0, 1), Other("ignored"), Other("noTx")}, 1),
     U("nbb", 1, {s1, s2}, {w1, w2}, 1, {Run(0, 1)}, 9),
     U("nbb", 2, {s1}, {w1, w2}, 3, {Run(0, 1)}, 9),
     U("nbb", 1, {s1, s2}, {w1}, 2, {Run(0, 1)}, 9),
     U("nbb", 1, {s1}, {w1}, 2, {Run(0, 1), Other("noTx"), Other("ignored"), Other("lost")}, 1)}

(* The lists with locks and two workers.                                   *)
TwoWorkers == {U("locks", 1, {s1, s2}, {w1, w2}, 2, {Run(0, 1)}, 9)}

(* Clients: connections shared by processes (SYNCH_SENDER) or not, mixes   *)
(* of profiles, and calls that fail.                                       *)
Load(g, n, t, y, mix, q, faults) ==
  [groups |-> g, size |-> n, txs |-> t, synch |-> y, mix |-> mix, quaglia |-> q, faults |-> faults]
TheLoads == {
  Load(1, 2, 2, TRUE, {1, 4}, FALSE, {}), Load(1, 2, 2, TRUE, {5}, TRUE, {}),
  Load(2, 1, 1, FALSE, {1, 2, 3, 4, 5}, FALSE, {}),
  Load(2, 1, 1, FALSE, {2}, FALSE, {"handshake", "connect", "fork", "send"}),
  Load(2, 2, 1, TRUE, {2}, FALSE, {"handshake", "connect", "fork"}),
  Load(1, 2, 2, TRUE, {2}, FALSE, {"send"})}

-----------------------------------------------------------------------------
programsVars == <<part, vars, clientVars>>

ProgramsInit ==
  /\ part \in Parts
  /\ Init /\ ClientInit
  /\ part = "server" \/ setup = CHOOSE u \in Setups : TRUE
  /\ part = "client" \/ load = CHOOSE l \in Loads : TRUE

ProgramsNext ==
  /\ UNCHANGED part
  /\ \/ part = "server" /\ Next /\ UNCHANGED clientVars
     \/ part = "client" /\ ClientNext /\ UNCHANGED vars

ProgramsFairness ==
  /\ \A s \in Servers : WF_vars(part = "server" /\ Server(s))
  /\ \A w \in Workers : WF_vars(part = "server" /\ Worker(w))
  /\ WF_vars(part = "server" /\ Main)
  /\ WF_clientVars(part = "client" /\ ParentNext)
  /\ \A p \in MaxProcess : WF_clientVars(part = "client" /\ p \in Process /\ ChildNext(p))

ProgramsSpec == ProgramsInit /\ [][ProgramsNext]_programsVars /\ ProgramsFairness

-----------------------------------------------------------------------------
(* Both programs end: the client has waited for all its processes, unless a *)
(* send that failed has kept the lock of its connection (LockKept); every   *)
(* I/O thread of the server, with the lock-free lists, has read all its     *)
(* requests and ended, and main has shut down unless a request was dropped  *)
(* (it waits for txs_total transactions).                                   *)
ProgramsEnd ==
  /\ (part = "server") => ServersFinish
  /\ <>(IF part = "client" THEN parent = "gone" \/ LockKept
        ELSE setup.build = "nbb" => dropped \/ main.pc = "halted")
=============================================================================
