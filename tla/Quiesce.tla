------------------------------ MODULE Quiesce ------------------------------
(***************************************************************************)
(* Quiescence in tinySTM (src/tinySTM/src/stm.c): the barrier at which all *)
(* registered threads meet to reset the clock, and the serial irrevocable  *)
(* mode (IRREVOCABLE_ENABLED), in which a transaction waits for all others *)
(* and runs alone.  Both share quiesce, quiesce_mutex and quiesce_cond.    *)
(* What a transaction does between its start and its end is left out.      *)
(*                                                                         *)
(* A section under quiesce_mutex is one step, because everything it reads  *)
(* and writes is protected by the mutex; only stm_quiesce keeps the mutex  *)
(* across steps (until the serial transaction ends).                       *)
(***************************************************************************)
EXTENDS Naturals, FiniteSets

CONSTANTS
  Thread,       \* thread lifetimes (descriptors): each registers once
  VERSION_MAX,  \* clock value at which stm_prepare goes to the barrier
  Serial,       \* may transactions ask for serial irrevocable mode?
  NoThread      \* holder of a free mutex

ASSUME QuiesceAssumption ==
  /\ IsFiniteSet(Thread)
  /\ VERSION_MAX \in Nat \ {0}
  /\ Serial \in BOOLEAN
  /\ NoThread \notin Thread

VARIABLES
  clock,          \* CLOCK
  quiesce,        \* 0, 1: barrier, 2: serial transaction
  threads,        \* registered descriptors (the list headed by threads)
  threads_count,  \* registered threads not blocked on the barrier
  mutex,          \* holder of quiesce_mutex
  waiting,        \* threads asleep on quiesce_cond
  pc, status,     \* where each thread is, and tx->status
  back,           \* where stm_quiesce_barrier returns to
  irrevocable,    \* global irrevocability lock
  irr,            \* tx->irrevocable & 0x07
  todo            \* threads stm_quiesce has still to look at

vars == <<clock, quiesce, threads, threads_count, mutex, waiting, pc, status,
          back, irrevocable, irr, todo>>
barrierVars == <<clock, quiesce, threads, threads_count, mutex, waiting>>
serialVars == <<irrevocable, irr, todo>>

IS_ACTIVE(s) == s \in {"ACTIVE", "IRREVOCABLE"}

At(t, label) == pc[t] = label

Goto(t, label) == pc' = [pc EXCEPT ![t] = label]

Init ==
  /\ clock = 0
  /\ quiesce = 0
  /\ threads = {}
  /\ threads_count = 0
  /\ mutex = NoThread
  /\ waiting = {}
  /\ pc = [t \in Thread |-> "new"]
  /\ status = [t \in Thread |-> "IDLE"]
  /\ back = [t \in Thread |-> "prepare"]
  /\ irrevocable = FALSE
  /\ irr = [t \in Thread |-> 0]
  /\ todo = [t \in Thread |-> {}]

-----------------------------------------------------------------------------
(***************************************************************************)
(* Registration                                                            *)
(***************************************************************************)
stm_quiesce_enter_thread(t) ==
  /\ At(t, "new") /\ mutex = NoThread
  /\ threads' = threads \cup {t}
  /\ threads_count' = threads_count + 1
  /\ Goto(t, "idle")
  /\ UNCHANGED <<clock, quiesce, mutex, waiting, status, back, serialVars>>

\* pthread_cond_signal wakes one sleeping thread, if there is one.
Signal == IF waiting = {} THEN UNCHANGED waiting
          ELSE \E w \in waiting : waiting' = waiting \ {w}

\* Mutation: a thread leaves without waking anybody.
ExitSilently == UNCHANGED waiting

\* "Wake up someone in case other threads are waiting for us"
ExitSignal == IF quiesce # 0 THEN Signal ELSE UNCHANGED waiting

stm_quiesce_exit_thread(t) ==
  /\ At(t, "idle") /\ mutex = NoThread
  /\ threads' = threads \ {t}
  /\ threads_count' = threads_count - 1
  /\ ExitSignal
  /\ Goto(t, "gone")
  /\ UNCHANGED <<clock, quiesce, mutex, status, back, serialVars>>

-----------------------------------------------------------------------------
(***************************************************************************)
(* Transactions and unit stores, as far as they meet the barrier           *)
(***************************************************************************)
stm_start(t) ==
  /\ At(t, "idle")
  /\ Goto(t, "prepare")
  /\ irr' = [irr EXCEPT ![t] = 0]
  /\ UNCHANGED <<barrierVars, status, back, irrevocable, todo>>

\* stm_prepare reads the clock, and becomes active unless it must wait for the
\* rollover or has to acquire irrevocability first.
stm_prepare(t) ==
  /\ At(t, "prepare")
  /\ \/ /\ clock >= VERSION_MAX
        /\ Goto(t, "barrier")
        /\ back' = [back EXCEPT ![t] = "prepare"]
        /\ UNCHANGED status
     \/ /\ clock < VERSION_MAX /\ irr[t] = 0
        /\ Goto(t, "check")
        /\ status' = [status EXCEPT ![t] = "ACTIVE"]
        /\ UNCHANGED back
     \/ /\ clock < VERSION_MAX /\ irr[t] # 0
        /\ Goto(t, IF irr[t] = 1 THEN "acquire" ELSE "lock")
        /\ UNCHANGED <<status, back>>
  /\ UNCHANGED <<barrierVars, serialVars>>

\* stm_check_quiesce: a serial transaction has blocked everybody else.
stm_check_quiesce(t) ==
  /\ At(t, "check")
  /\ IF quiesce = 2
       THEN Goto(t, "spin") /\ status' = [status EXCEPT ![t] = "IDLE"]
       ELSE Goto(t, "run") /\ UNCHANGED status
  /\ UNCHANGED <<barrierVars, back, serialVars>>

CheckSpin(t) ==
  /\ At(t, "spin") /\ quiesce # 2
  /\ Goto(t, "resume")
  /\ UNCHANGED <<barrierVars, status, back, serialVars>>

\* SET_STATUS(tx->status, GET_STATUS(s)) after the loop: a separate step.
CheckResume(t) ==
  /\ At(t, "resume")
  /\ status' = [status EXCEPT ![t] = "ACTIVE"]
  /\ Goto(t, "run")
  /\ UNCHANGED <<barrierVars, back, serialVars>>

\* A transaction aborts: for a conflict, or for an irrevocable one.
stm_rollback(t) ==
  /\ pc[t] \in {"run", "validate"}
  /\ status' = [status EXCEPT ![t] = "ABORTED"]
  /\ Goto(t, "prepare")
  /\ UNCHANGED <<barrierVars, back, serialVars>>

\* A transaction without writes ends at once; one that writes looks for an
\* irrevocable transaction (and aborts if there is one) ...
stm_commit(t) ==
  /\ At(t, "run")
  /\ \/ /\ status' = [status EXCEPT ![t] = "COMMITTED"]
        /\ Goto(t, "idle")
     \/ /\ ~irrevocable
        /\ Goto(t, "commit")
        /\ UNCHANGED status
  /\ UNCHANGED <<barrierVars, back, serialVars>>

\* ... before it takes its timestamp, and may still turn out to be invalid.
CommitClock(t) ==
  /\ At(t, "commit")
  /\ clock' = clock + 1
  /\ Goto(t, "validate")
  /\ UNCHANGED <<quiesce, threads, threads_count, mutex, waiting, status, back,
                 serialVars>>

\* A unit store takes a timestamp, and waits for the rollover after it.
stm_unit_write(t) ==
  /\ At(t, "idle")
  /\ clock' = clock + 1
  /\ IF clock + 1 >= VERSION_MAX
       THEN Goto(t, "barrier") /\ back' = [back EXCEPT ![t] = "idle"]
       ELSE UNCHANGED <<pc, back>>
  /\ UNCHANGED <<quiesce, threads, threads_count, mutex, waiting, status,
                 serialVars>>

-----------------------------------------------------------------------------
(***************************************************************************)
(* stm_quiesce_barrier(tx, rollover_clock, NULL)                           *)
(***************************************************************************)
\* pthread_cond_broadcast
ReleaseAll == waiting' = {}

\* Mutation: a thread that has been released is not counted again.
CountKept(n) == n

\* threads_count++ at the end of the barrier.
CountBack(n) == n + 1

\* The loop of the barrier, entered with n threads not yet blocked and the
\* value q of quiesce: everybody is blocked, or released, or t (still) waits.
BarrierLoop(t, n, q) ==
  \/ /\ q # 0 /\ n = 0
     /\ clock' = 0
     /\ quiesce' = 0
     /\ ReleaseAll
     /\ threads_count' = CountBack(n)
     /\ Goto(t, back[t])
  \/ /\ q # 0 /\ n # 0
     /\ waiting' = waiting \cup {t}
     /\ quiesce' = q
     /\ threads_count' = n
     /\ Goto(t, "wait")
     /\ UNCHANGED clock
  \/ /\ q = 0
     /\ threads_count' = CountBack(n)
     /\ quiesce' = q
     /\ Goto(t, back[t])
     /\ UNCHANGED <<clock, waiting>>

BarrierEnter(t) ==
  /\ At(t, "barrier") /\ mutex = NoThread
  /\ BarrierLoop(t, threads_count - 1, IF quiesce = 0 THEN 1 ELSE quiesce)
  /\ UNCHANGED <<threads, mutex, status, back, serialVars>>

\* pthread_cond_wait returns after a signal or a broadcast.
BarrierWake(t) ==
  /\ At(t, "wait") /\ t \notin waiting /\ mutex = NoThread
  /\ BarrierLoop(t, threads_count, quiesce)
  /\ UNCHANGED <<threads, mutex, status, back, serialVars>>

\* It may also return without one.
SpuriousWake(t) ==
  /\ t \in waiting
  /\ waiting' = waiting \ {t}
  /\ UNCHANGED <<clock, quiesce, threads, threads_count, mutex, pc, status, back,
                 serialVars>>

-----------------------------------------------------------------------------
(***************************************************************************)
(* stm_set_irrevocable(serial) and stm_quiesce(tx, 1)                      *)
(***************************************************************************)
\* Mutation: the global lock is taken without a test.
TakeIrrevocable == TRUE

\* irrevocable == 0, tested and set by ATOMIC_CAS_FULL
IrrevocableFree == ~irrevocable

\* From a running transaction: "Transaction will acquire irrevocability after
\* rollback" if somebody else has the global lock.
RequestFails(t) ==
  /\ At(t, "run") /\ Serial /\ irr[t] = 0
  /\ irrevocable
  /\ irr' = [irr EXCEPT ![t] = 1]
  /\ status' = [status EXCEPT ![t] = "ABORTED"]
  /\ Goto(t, "prepare")
  /\ UNCHANGED <<barrierVars, back, irrevocable, todo>>

\* Otherwise it takes the lock ...
RequestSucceeds(t) ==
  /\ At(t, "run") /\ Serial /\ irr[t] = 0
  /\ IrrevocableFree
  /\ irrevocable' = TRUE
  /\ irr' = [irr EXCEPT ![t] = 2]
  /\ Goto(t, "request")
  /\ UNCHANGED <<barrierVars, status, back, todo>>

\* ... and keeps it when it starts over, because it is not valid, has written
\* something or finds the mutex taken (trylock).
RequestRestarts(t) ==
  /\ At(t, "request")
  /\ status' = [status EXCEPT ![t] = "ABORTED"]
  /\ Goto(t, "prepare")
  /\ UNCHANGED <<barrierVars, back, serialVars>>

\* From stm_prepare: "Acquire irrevocability after restart".
AcquireIrrevocable(t) ==
  /\ At(t, "acquire") /\ IrrevocableFree
  /\ irrevocable' = TRUE
  /\ irr' = [irr EXCEPT ![t] = 2]
  /\ Goto(t, "lock")
  /\ UNCHANGED <<barrierVars, status, back, todo>>

\* An active transaction tries the mutex, an inactive one waits for it.
stm_quiesce(t) ==
  /\ pc[t] \in {"request", "lock"} /\ mutex = NoThread
  /\ mutex' = t
  /\ quiesce' = 2
  /\ todo' = [todo EXCEPT ![t] = threads \ {t}]
  /\ Goto(t, "scan")
  /\ UNCHANGED <<clock, threads, threads_count, waiting, status, back,
                 irrevocable, irr>>

\* "Wait for all other transactions to become inactive", one after the other.
Inactive(t, u) == ~IS_ACTIVE(status[u])

QuiesceScan(t, u) ==
  /\ At(t, "scan") /\ u \in todo[t]
  /\ Inactive(t, u)
  /\ todo' = [todo EXCEPT ![t] = @ \ {u}]
  /\ UNCHANGED <<barrierVars, pc, status, back, irrevocable, irr>>

\* Everybody else has been seen inactive: run alone.
QuiesceDone(t) ==
  /\ At(t, "scan") /\ todo[t] = {}
  /\ irr' = [irr EXCEPT ![t] = 3]
  /\ status' = [status EXCEPT ![t] = IF IS_ACTIVE(@) THEN @ ELSE "IRREVOCABLE"]
  /\ Goto(t, "serial")
  /\ UNCHANGED <<barrierVars, back, irrevocable, todo>>

\* The end of stm_commit gives up irrevocability, then the mutex and quiesce,
\* then the active status.
CommitSerial(t) ==
  /\ At(t, "serial")
  /\ irrevocable' = FALSE
  /\ Goto(t, "release")
  /\ UNCHANGED <<barrierVars, status, back, irr, todo>>

stm_quiesce_release(t) ==
  /\ At(t, "release")
  /\ quiesce' = 0
  /\ mutex' = NoThread
  /\ Goto(t, "end")
  /\ UNCHANGED <<clock, threads, threads_count, waiting, status, back,
                 serialVars>>

CommitEnd(t) ==
  /\ pc[t] \in {"validate", "end"}
  /\ status' = [status EXCEPT ![t] = "COMMITTED"]
  /\ Goto(t, "idle")
  /\ UNCHANGED <<barrierVars, back, serialVars>>

-----------------------------------------------------------------------------
LibraryStep(t) ==
  \/ stm_prepare(t) \/ stm_check_quiesce(t) \/ CheckSpin(t) \/ CheckResume(t)
  \/ BarrierEnter(t) \/ BarrierWake(t)
  \/ AcquireIrrevocable(t) \/ RequestRestarts(t) \/ stm_quiesce(t)
  \/ (\E u \in todo[t] : QuiesceScan(t, u)) \/ QuiesceDone(t)
  \/ CommitClock(t) \/ stm_quiesce_release(t) \/ CommitEnd(t)

\* A transaction ends, a thread outside of one starts one or exits.
AppStep(t) ==
  \/ stm_quiesce_exit_thread(t) \/ stm_start(t)
  \/ stm_commit(t) \/ CommitSerial(t)

\* The program ends when all threads have exited.
Terminated == (\A t \in Thread : At(t, "gone")) /\ UNCHANGED vars

Next ==
  \/ Terminated
  \/ \E t \in Thread :
    \/ stm_quiesce_enter_thread(t) \/ LibraryStep(t) \/ AppStep(t)
    \/ stm_rollback(t) \/ stm_unit_write(t) \/ SpuriousWake(t)
    \/ RequestFails(t) \/ RequestSucceeds(t)

Spec == Init /\ [][Next]_vars

(***************************************************************************)
(* Threads run, and a registered thread does not stop calling the library: *)
(* the barrier waits for idle threads, so without this it never opens.     *)
(***************************************************************************)
Fairness ==
  \A t \in Thread : WF_vars(LibraryStep(t)) /\ WF_vars(AppStep(t))

FairSpec == Spec /\ Fairness

-----------------------------------------------------------------------------
(***************************************************************************)
(* Properties                                                              *)
(***************************************************************************)
Labels == {"new", "gone", "idle", "prepare", "barrier", "wait", "check", "spin",
           "resume", "run", "commit", "validate", "request", "acquire", "lock",
           "scan", "serial", "release", "end"}

\* Types of the quiescence state of stm.c.
TypeOK ==
  /\ clock \in Nat
  /\ quiesce \in 0..2
  /\ threads \subseteq Thread
  /\ threads_count \in Nat
  /\ mutex \in Thread \cup {NoThread}
  /\ waiting \subseteq Thread
  /\ pc \in [Thread -> Labels]
  /\ status \in [Thread -> {"IDLE", "ACTIVE", "COMMITTED", "ABORTED", "IRREVOCABLE"}]
  /\ back \in [Thread -> {"prepare", "idle"}]
  /\ irrevocable \in BOOLEAN
  /\ irr \in [Thread -> 0..3]
  /\ todo \in [Thread -> SUBSET Thread]

\* Registered threads that are not blocked in the barrier.
NotBlocked == {t \in Thread : pc[t] \notin {"new", "gone", "wait"}}

\* threads_count is the number of registered threads that are not blocked in
\* the barrier, through every registration, exit, release and late wake-up.
CountsThreads ==
  /\ threads = {t \in Thread : pc[t] \notin {"new", "gone"}}
  /\ waiting \subseteq {t \in Thread : pc[t] = "wait"}
  /\ threads_count = Cardinality(NotBlocked)

\* rollover_clock resets the clock and the lock array only when every other
\* registered thread is blocked in the barrier: "Everybody is blocked".
RolloverAlone ==
  [][clock' < clock =>
       \E t \in threads : /\ pc[t] \in {"barrier", "wait"}
                          /\ \A u \in threads \ {t} : pc[u] = "wait"]_vars

\* t has acquired irrevocability and has not given it up yet.
Irrevocable(t) == irr[t] = 2 \/ At(t, "serial")

\* One transaction at a time is irrevocable and it owns the global lock;
\* quiesce is 2 exactly while one holds the mutex.
IrrevocableExclusive ==
  /\ \A t, u \in Thread : Irrevocable(t) /\ Irrevocable(u) => t = u
  /\ irrevocable <=> \E t \in Thread : Irrevocable(t)
  /\ quiesce = 2 <=> mutex # NoThread

\* "serial-irrevocable mode (no transaction can execute concurrently)"
SerialAlone ==
  \A t, u \in Thread : At(t, "serial") => pc[u] \notin {"run", "commit", "validate"}

\* A thread asleep in the barrier is woken up: neither an exiting thread nor a
\* release forgets a waiter.  (Once awake it may find the next barrier closed,
\* if the others manage to use up the whole clock before it runs.)
BarrierReleased ==
  \A t \in Thread : t \in waiting ~> t \notin waiting
=============================================================================
