------------------------------ MODULE MCWaiting ------------------------------
(***************************************************************************)
(* The parts of the repository in which threads, processors or a module    *)
(* wait for one another, checked together.  They share no state: part says *)
(* which of them runs in a behaviour, the others stay as they were at the  *)
(* start, and fairness is asked of the part that runs.                     *)
(*   barrier  the quiescence barrier of stm.c                              *)
(*   serial   the same with irrevocable transactions (Serial is TRUE)      *)
(*   stretch  the kernel module and the threads it interrupts              *)
(*   pool     the thread pools and barriers of TPCC/lib/thread.c           *)
(***************************************************************************)
EXTENDS Quiesce, TimeStretch, Barriers

VARIABLE part

-----------------------------------------------------------------------------
(* Values of the constants. *)

\* The code around finish_task_switch: bytes that redirect_bytes matches with
\* a two-byte pop before the last pops, with one-byte pops, and not at all.
CONSTANTS a, b, p1, p2, t1, t2, t3
Before == <<"op", "op", "op", "op", "op", "op">>
TwoBytePop == Before \o <<"op", "rex", "pop", "pop", "pop", "pop", "ret", "op">>
OneBytePops == Before \o <<"op", "op", "pop", "rex", "pop", "pop", "ret", "op">>
NoMatch == Before \o <<"op", "op", "op", "op", "pop", "pop", "ret", "op">>

With(mode, section, code, tasks, cpus) ==
  [mode |-> mode, section |-> section, code |-> code, tasks |-> tasks, cpus |-> cpus]

\* A thread that migrates between two CPUs, and two threads on one.
TheMachines == {
  With("stubborn", "set", TwoBytePop, {a}, {p1, p2}),
  With("model", "set", OneBytePops, {a}, {p1, p2}),
  With("stubborn", "set", TwoBytePop, {a, b}, {p2}),
  With("quiescent", "none", NoMatch, {a}, {p1})}

\* The tree barrier is for powers of two only; groups of two and a remainder.
ThePools == [kind : {"tree"}, n : {1, 2, 4}] \cup [kind : {"groups"}, n : 1 .. 4]
            \cup [kind : {"spin"}, n : {3}]

-----------------------------------------------------------------------------
Irrevocably == INSTANCE Quiesce WITH Serial <- TRUE, Thread <- {t1, t2}

waitingVars == <<part, vars, tsVars, barriersVars>>

WaitingInit ==
  /\ part \in {"barrier", "serial", "stretch", "pool"}
  /\ Init /\ TsInit /\ BarriersInit
  /\ part = "stretch" \/ machine = CHOOSE m \in Machines : TRUE
  /\ part = "pool" \/ pool = CHOOSE p \in Pools : TRUE

\* The program has joined the threads of its pool: nothing is left to do.
PoolEnded == \A t \in Live : step[t] = "gone"

WaitingNext ==
  /\ UNCHANGED part
  /\ \/ part = "barrier" /\ Next /\ UNCHANGED <<tsVars, barriersVars>>
     \/ part = "serial" /\ Irrevocably!Next /\ UNCHANGED <<tsVars, barriersVars>>
     \/ part = "stretch" /\ TsNext /\ UNCHANGED <<vars, barriersVars>>
     \/ part = "pool" /\ BarriersNext /\ UNCHANGED <<vars, tsVars>>
     \/ part = "pool" /\ PoolEnded /\ UNCHANGED <<vars, tsVars, barriersVars>>

\* The fairness of the specification of each part, when it runs.
WaitingFairness ==
  /\ \A t \in Thread : /\ WF_vars(part = "barrier" /\ LibraryStep(t))
                       /\ WF_vars(part = "barrier" /\ AppStep(t))
  /\ WF_tsVars(part = "stretch" /\ DelayIsOver)
  /\ WF_tsVars(part = "stretch" /\ EndCleanup)
  /\ WF_tsVars(part = "stretch" /\ CallsDone)
  /\ \A c \in CPU : /\ WF_tsVars(part = "stretch" /\ LocalReset(c))
                    /\ WF_tsVars(part = "stretch" /\ Interrupted(c))
                    /\ WF_tsVars(part = "stretch" /\ scheduler_hook(c))
                    /\ WF_tsVars(part = "stretch" /\ Tick(c))
  /\ WF_barriersVars(part = "pool" /\ PrimaryNext)
  /\ \A t \in Member : WF_barriersVars(part = "pool" /\ t \in Live /\ MemberNext(t))

WaitingSpec == WaitingInit /\ [][WaitingNext]_waitingVars /\ WaitingFairness

-----------------------------------------------------------------------------
\* BarrierReleased for the barrier without irrevocable transactions: a thread
\* asleep in stm_quiesce_barrier is woken, whoever exits or leaves meanwhile.
\* The threads are interchangeable and t1 stands for all.  (With irrevocable
\* transactions it may sleep for ever: BarrierSerial.cfg.)
BarrierOpens == (part = "barrier" /\ t1 \in waiting) ~> t1 \notin waiting

\* Every thread of a pool of thread.c runs its function as often as
\* thread_start is called and ends after thread_shutdown.
PoolsEnd == (part = "pool") => PoolEnds
=============================================================================
