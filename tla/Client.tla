------------------------------- MODULE Client -------------------------------
(***************************************************************************)
(* The TPC-C load generator (src/TPCC/Client/Client.c) and the part of the *)
(* server it meets first (the handshake in main of Server/Server.c, and    *)
(* the parsing of a request in worker_runMethod).  The parent announces    *)
(* how many connections will be opened and how many requests each will     *)
(* carry; it then opens one connection per group and forks the group's     *)
(* processes, which share it.  A request is a frame of 256 bytes; a send   *)
(* may put it on the stream in two parts.                                  *)
(***************************************************************************)
EXTENDS Naturals, Sequences, FiniteSetsExt

CONSTANT Loads   \* the loads to generate: records of
                 \*   groups, size, txs  the command line
                 \*   synch              SYNCH_SENDER: a lock per connection
                 \*   mix                transactions the input file asks for
                 \*   quaglia            NEWQUAGLIA, in client and server
                 \*   faults             calls that may fail

ASSUME ClientAssumption == \A l \in Loads :
  /\ l.groups \in Nat /\ l.size \in Nat /\ l.txs \in Nat
  /\ l.synch \in BOOLEAN /\ l.quaglia \in BOOLEAN
  /\ l.mix \subseteq 1..5 /\ l.faults \subseteq {"handshake", "connect", "fork", "send"}

VARIABLES
  load,        \* one of Loads, never changes
  parent,      \* where the parent process is
  group, fork, \* n and s of its loops
  child,       \* each process: where it is and how many requests it has done
  shrd_lock,   \* the lock of each connection
  stream,      \* each connection: parts of frames, in order
  announced,   \* what the server was told: connections, requests on each
  lost         \* has a request been lost?

clientVars == <<load, parent, group, fork, child, shrd_lock, stream, announced, lost>>

\* Without SYNCH_SENDER, a group is one process.
group_size == IF load.synch THEN load.size ELSE 1
Groups == 1..load.groups
Process == Groups \X (1..group_size)

NotForked == [at |-> "none", t |-> 0]

ClientInit ==
  /\ load \in Loads
  /\ parent = "handshake" /\ group = 1 /\ fork = 1
  /\ child = [p \in Process |-> NotForked]
  /\ shrd_lock = [n \in Groups |-> 0]
  /\ stream = [n \in Groups |-> <<>>]
  /\ announced = <<>>
  /\ lost = FALSE

-----------------------------------------------------------------------------
(***************************************************************************)
(* The parent                                                              *)
(***************************************************************************)
\* The server reads the announcement and refuses numbers that are not positive.
HandshakeAccepted(servers, txs) == servers > 0 /\ txs > 0

PerConnection == group_size * load.txs

handshake ==
  /\ parent = "handshake"
  /\ \/ /\ HandshakeAccepted(load.groups, PerConnection)
        /\ announced' = <<load.groups, PerConnection>>
        /\ parent' = "socket"
     \/ /\ "handshake" \in load.faults \/ ~HandshakeAccepted(load.groups, PerConnection)
        /\ parent' = "gone" /\ UNCHANGED announced
  /\ UNCHANGED <<load, group, fork, child, shrd_lock, stream, lost>>

\* Any failure while connections are opened leads to the label error.
Connect ==
  /\ parent = "socket"
  /\ \/ parent' = "fork"
     \/ "connect" \in load.faults /\ parent' = "wait"
  /\ fork' = 1
  /\ UNCHANGED <<load, group, child, shrd_lock, stream, announced, lost>>

Fork ==
  /\ parent = "fork"
  /\ \/ /\ child' = [child EXCEPT ![<<group, fork>>].at = "gate"]
        /\ IF fork < group_size
           THEN fork' = fork + 1 /\ UNCHANGED <<parent, group>>
           ELSE /\ UNCHANGED fork
                /\ IF group < load.groups
                   THEN group' = group + 1 /\ parent' = "socket"
                   ELSE parent' = "wait" /\ UNCHANGED group
     \/ "fork" \in load.faults /\ parent' = "wait" /\ UNCHANGED <<child, group, fork>>
  /\ UNCHANGED <<load, shrd_lock, stream, announced, lost>>

\* wait returns -1 once every child has ended; then the sockets are closed.
WaitForChildren ==
  /\ parent = "wait" /\ \A p \in Process : child[p].at \in {"none", "gone"}
  /\ parent' = "gone"
  /\ UNCHANGED <<load, group, fork, child, shrd_lock, stream, announced, lost>>

-----------------------------------------------------------------------------
(***************************************************************************)
(* A child process                                                         *)
(***************************************************************************)
Is(p, label) == child[p].at = label
Becomes(p, label) == child' = [child EXCEPT ![p].at = label]

\* `while (!can_start)' tests the pointer to the flag, which is never null, so
\* a child starts at once, also when the parent goes to the label error and
\* never sets the flag.
GateOpen == TRUE

PassGate(p) ==
  /\ Is(p, "gate") /\ GateOpen
  /\ Becomes(p, "next")
  /\ UNCHANGED <<load, parent, group, fork, shrd_lock, stream, announced, lost>>

\* Fields of a request after the priority and the transaction: warehouse, and
\* district, customer, name and amount, threshold, carrier or number of orders.
Fields(tx) == <<3, 5, 3, 3, 2, 5>>[tx]

\* What worker_runMethod needs to find; other transactions are not counted.
Counted(tx, fields) ==
  /\ tx \in 1..(IF load.quaglia THEN 6 ELSE 5)
  /\ fields >= <<3, 5, 3, 3, 2, 5>>[tx]

\* The first four shares of the mix are for 1..4, the rest is for 5; new orders
\* and deliveries are replaced in the other build.
createInstruction ==
  {IF load.quaglia /\ tx \in {1, 5} THEN 6 ELSE tx : tx \in load.mix}

MakeRequest(p) ==
  /\ Is(p, "next") /\ child[p].t < load.txs
  /\ Becomes(p, IF load.synch THEN "lock" ELSE "send")
  /\ UNCHANGED <<load, parent, group, fork, shrd_lock, stream, announced, lost>>

Finish(p) ==
  /\ Is(p, "next") /\ child[p].t = load.txs
  /\ Becomes(p, "gone")
  /\ UNCHANGED <<load, parent, group, fork, shrd_lock, stream, announced, lost>>

\* Mutation: the lock is seen free and then set.
CasWithoutTest(n) == TRUE

\* I_CAS(&shrd_lock[n], 0, 1)
CasWins(n) == shrd_lock[n] = 0

LockConnection(p) ==
  /\ Is(p, "lock") /\ CasWins(p[1])
  /\ shrd_lock' = [shrd_lock EXCEPT ![p[1]] = 1]
  /\ Becomes(p, "send")
  /\ UNCHANGED <<load, parent, group, fork, stream, announced, lost>>

Put(p, part) == stream' = [stream EXCEPT ![p[1]] = Append(@, part)]

Send(p) ==
  /\ Is(p, "send")
  /\ \/ /\ \E tx \in createInstruction :
             Put(p, [from |-> p, part |-> 1, tx |-> tx, fields |-> Fields(tx)])
        /\ Becomes(p, "rest") /\ UNCHANGED lost
     \/ \* a failed send is reported and the loop goes on: the lock stays taken
        /\ "send" \in load.faults
        /\ child' = [child EXCEPT ![p] = [at |-> "next", t |-> @.t + 1]]
        /\ lost' = TRUE
        /\ UNCHANGED stream
  /\ UNCHANGED <<load, parent, group, fork, shrd_lock, announced>>

\* Mutation: the lock is not given back after the send.
KeepsLock(n) == shrd_lock

Unlocked(n) == IF load.synch THEN [shrd_lock EXCEPT ![n] = 0] ELSE shrd_lock

SendRest(p) ==
  /\ Is(p, "rest")
  /\ Put(p, [from |-> p, part |-> 2, tx |-> 0, fields |-> 0])
  /\ child' = [child EXCEPT ![p] = [at |-> "next", t |-> @.t + 1]]
  /\ shrd_lock' = Unlocked(p[1])
  /\ UNCHANGED <<load, parent, group, fork, announced, lost>>

ParentNext == handshake \/ Connect \/ Fork \/ WaitForChildren
ChildNext(p) == PassGate(p) \/ MakeRequest(p) \/ Finish(p) \/ LockConnection(p)
                \/ Send(p) \/ SendRest(p)
ClientNext == ParentNext \/ \E p \in Process : ChildNext(p)

MaxProcess == (1..Max({l.groups : l \in Loads})) \X (1..Max({l.size : l \in Loads}))
ClientFairness ==
  /\ WF_clientVars(ParentNext)
  \* A process may lose the race for its connection's lock only as often as the
  \* others have requests, so weak fairness is enough.
  /\ \A p \in MaxProcess : WF_clientVars(p \in Process /\ ChildNext(p))
ClientSpec == ClientInit /\ [][ClientNext]_clientVars /\ ClientFairness

-----------------------------------------------------------------------------
(***************************************************************************)
(* Properties                                                              *)
(***************************************************************************)
\* The processes of a group share a connection, and the server cuts its stream
\* every 256 bytes: no frame starts inside another one.
FramesWhole == \A n \in Groups : \A i \in DOMAIN stream[n] :
  stream[n][i].part = 2 => i > 1 /\ stream[n][i - 1].part = 1
                           /\ stream[n][i - 1].from = stream[n][i].from

Frames(n) == Cardinality({i \in DOMAIN stream[n] :
  stream[n][i].part = 1 /\ Counted(stream[n][i].tx, stream[n][i].fields)})

\* When nothing failed, each connection has carried the number of requests that
\* the handshake announced, all of a form the server counts: what the server's
\* main waits for before it shuts down.
AnnouncedSent == parent = "gone" /\ announced # <<>> /\ load.faults = {} =>
  \A n \in Groups : Frames(n) = announced[2]

\* A send failed under SYNCH_SENDER: its process went on without giving the
\* lock of the connection back (Client.c:179-182), and the others, and itself
\* at its next request, spin for it.
LockKept == load.synch /\ lost

\* What the server receives is what the client announced: whole frames, and as
\* many as the handshake said.
StreamsWhole == FramesWhole /\ AnnouncedSent
=============================================================================
