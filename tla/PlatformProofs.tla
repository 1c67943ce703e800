--------------------------- MODULE PlatformProofs ---------------------------
(***************************************************************************)
(* What surrounds the transactional memory is safe for any number of       *)
(* threads, processes, CPUs and requests:                                  *)
(*   the quiescence barrier of stm.c, whose counter is right in every      *)
(*     reachable state, so that the clock is reset only when every         *)
(*     registered thread is blocked (TypeOK /\ CountsThreads is inductive);*)
(*   the kernel module, for any number of slots, any scaling factor and    *)
(*     any kernel code: unloading it restores the code byte for byte and   *)
(*     every timer, a CPU's kernel misses at most SCALE interrupts for     *)
(*     each time the countdown is started, and the callback interrupts     *)
(*     only application code of a running transaction;                     *)
(*   the spinning barrier of the benchmarks, which keeps its rounds apart  *)
(*     and elects one leader in each;                                      *)
(*   the load generator of TPC-C, which keeps its promise to the server    *)
(*     for any load and any failing calls: the frames on a connection are  *)
(*     whole, and when nothing failed there are as many as the handshake   *)
(*     announced.                                                          *)
(***************************************************************************)
EXTENDS Quiesce, TimeStretch, Barriers, Client, FiniteSetTheorems,
        WellFoundedInduction, TLAPS

-----------------------------------------------------------------------------
(* The quiescence barrier and serial mode.                                 *)

Inv == TypeOK /\ CountsThreads

(***************************************************************************)
(* Steps of one thread and the set of threads that are not blocked.        *)
(***************************************************************************)
\* The set of threads that are not blocked is finite.
LEMMA NotBlockedFinite == IsFiniteSet(NotBlocked) /\ Cardinality(NotBlocked) \in Nat
  BY QuiesceAssumption, FS_Subset, FS_CardinalityType DEF NotBlocked

\* A thread moves without entering or leaving the barrier, or registering.
LEMMA MoveKeepsCount ==
  ASSUME Inv, NEW t \in Thread, NEW lab \in Labels \ {"new", "gone", "wait"},
         pc[t] \notin {"new", "gone", "wait"}, pc' = [pc EXCEPT ![t] = lab],
         UNCHANGED <<threads, threads_count, waiting>>
  PROVE  CountsThreads'
<1>1. NotBlocked' = NotBlocked
  BY DEF Inv, TypeOK, NotBlocked
<1>2. threads' = {u \in Thread : pc'[u] \notin {"new", "gone"}}
  BY DEF Inv, TypeOK, CountsThreads
<1>3. waiting' \subseteq {u \in Thread : pc'[u] = "wait"}
  BY DEF Inv, TypeOK, CountsThreads
<1> QED
  BY <1>1, <1>2, <1>3 DEF Inv, CountsThreads

\* A thread leaves the set of threads that are not blocked.
LEMMA LeaveNotBlocked ==
  ASSUME Inv, NEW t \in Thread, NEW lab \in {"gone", "wait"},
         pc[t] \notin {"new", "gone", "wait"}, pc' = [pc EXCEPT ![t] = lab]
  PROVE  threads_count - 1 = Cardinality(NotBlocked') /\ threads_count - 1 \in Nat
<1>1. NotBlocked' = NotBlocked \ {t} /\ t \in NotBlocked
  BY DEF Inv, TypeOK, NotBlocked
<1>2. Cardinality(NotBlocked') = Cardinality(NotBlocked) - 1
  BY <1>1, NotBlockedFinite, FS_RemoveElement
<1>3. Cardinality(NotBlocked') \in Nat
  BY <1>1, NotBlockedFinite, FS_RemoveElement, FS_CardinalityType
<1> QED
  BY <1>2, <1>3 DEF Inv, CountsThreads

\* A thread joins the set of threads that are not blocked.
LEMMA JoinNotBlocked ==
  ASSUME Inv, NEW t \in Thread, NEW lab \in Labels \ {"new", "gone", "wait"},
         pc[t] \in {"new", "wait"}, pc' = [pc EXCEPT ![t] = lab]
  PROVE  threads_count + 1 = Cardinality(NotBlocked')
<1>1. NotBlocked' = NotBlocked \cup {t} /\ t \notin NotBlocked
  BY DEF Inv, TypeOK, NotBlocked
<1> QED
  BY <1>1, NotBlockedFinite, FS_AddElement DEF Inv, CountsThreads

-----------------------------------------------------------------------------
(***************************************************************************)
(* The barrier                                                             *)
(***************************************************************************)
\* Entering the barrier keeps the counter right.
LEMMA EnterKeepsInv ==
  ASSUME Inv, NEW t \in Thread, BarrierEnter(t)
  PROVE  Inv'
<1> DEFINE n == threads_count - 1
           q == IF quiesce = 0 THEN 1 ELSE quiesce
<1>1. /\ pc[t] = "barrier" /\ BarrierLoop(t, n, q) /\ q \in 1..2
      /\ threads' = threads /\ mutex' = mutex /\ status' = status
      /\ back' = back /\ irrevocable' = irrevocable /\ irr' = irr /\ todo' = todo
  BY DEF BarrierEnter, At, Inv, TypeOK, serialVars
<1>2. back[t] \in {"prepare", "idle"} /\ threads_count \in Nat
  BY DEF Inv, TypeOK
<1>3. CASE n = 0 /\ ReleaseAll /\ threads_count' = n + 1 /\ quiesce' = 0
           /\ clock' = 0 /\ pc' = [pc EXCEPT ![t] = back[t]]
  <2>1. TypeOK'
    BY <1>1, <1>2, <1>3 DEF Inv, TypeOK, Labels, ReleaseAll
  <2>2. NotBlocked' = NotBlocked
    BY <1>1, <1>2, <1>3 DEF Inv, TypeOK, NotBlocked
  <2>3. threads' = {u \in Thread : pc'[u] \notin {"new", "gone"}}
    BY <1>1, <1>2, <1>3 DEF Inv, TypeOK, CountsThreads
  <2>4. waiting' = {} /\ threads_count' = threads_count
    BY <1>2, <1>3 DEF ReleaseAll
  <2> QED
    BY <2>1, <2>2, <2>3, <2>4 DEF Inv, CountsThreads
<1>4. CASE n # 0 /\ waiting' = waiting \cup {t} /\ quiesce' = q
           /\ threads_count' = n /\ clock' = clock /\ pc' = [pc EXCEPT ![t] = "wait"]
  <2>1. n = Cardinality(NotBlocked') /\ n \in Nat
    BY <1>1, <1>4, LeaveNotBlocked
  <2>2. TypeOK'
    BY <1>1, <1>2, <1>4, <2>1 DEF Inv, TypeOK, Labels
  <2>3. threads' = {u \in Thread : pc'[u] \notin {"new", "gone"}}
    BY <1>1, <1>4 DEF Inv, TypeOK, CountsThreads
  <2>4. waiting' \subseteq {u \in Thread : pc'[u] = "wait"}
    BY <1>1, <1>4 DEF Inv, TypeOK, CountsThreads
  <2> QED
    BY <1>4, <2>1, <2>2, <2>3, <2>4 DEF Inv, CountsThreads
<1> QED
  BY <1>1, <1>3, <1>4 DEF BarrierLoop, CountBack, Goto

\* Waking up in the barrier keeps the counter right, released or not.
LEMMA WakeKeepsInv ==
  ASSUME Inv, NEW t \in Thread, BarrierWake(t)
  PROVE  Inv'
<1>1. /\ pc[t] = "wait" /\ t \notin waiting
      /\ BarrierLoop(t, threads_count, quiesce)
      /\ threads' = threads /\ mutex' = mutex /\ status' = status
      /\ back' = back /\ irrevocable' = irrevocable /\ irr' = irr /\ todo' = todo
  BY DEF BarrierWake, At, serialVars
<1>2. back[t] \in {"prepare", "idle"} /\ threads_count \in Nat /\ quiesce \in 0..2
  BY DEF Inv, TypeOK
<1>3. CASE /\ waiting' = waiting \cup {t} /\ quiesce' = quiesce
           /\ threads_count' = threads_count /\ clock' = clock
           /\ pc' = [pc EXCEPT ![t] = "wait"]
  <2>1. pc' = pc
    BY <1>1, <1>3 DEF Inv, TypeOK
  <2>2. TypeOK'
    BY <1>1, <1>2, <1>3, <2>1 DEF Inv, TypeOK
  <2>3. waiting' \subseteq {u \in Thread : pc'[u] = "wait"}
    BY <1>1, <1>3, <2>1 DEF Inv, CountsThreads
  <2>4. NotBlocked' = NotBlocked
    BY <2>1 DEF NotBlocked
  <2> QED
    BY <1>1, <1>3, <2>1, <2>2, <2>3, <2>4 DEF Inv, CountsThreads
<1>4. CASE /\ clock' \in {0, clock} /\ quiesce' = 0 /\ waiting' \in {{}, waiting}
           /\ threads_count' = threads_count + 1 /\ pc' = [pc EXCEPT ![t] = back[t]]
  <2>1. threads_count' = Cardinality(NotBlocked')
    BY <1>1, <1>2, <1>4, JoinNotBlocked DEF Labels
  <2>2. TypeOK'
    BY <1>1, <1>2, <1>4 DEF Inv, TypeOK, Labels
  <2>3. threads' = {u \in Thread : pc'[u] \notin {"new", "gone"}}
    BY <1>1, <1>2, <1>4 DEF Inv, TypeOK, CountsThreads
  <2>4. waiting' \subseteq {u \in Thread : pc'[u] = "wait"}
    BY <1>1, <1>2, <1>4 DEF Inv, TypeOK, CountsThreads
  <2> QED
    BY <2>1, <2>2, <2>3, <2>4 DEF Inv, CountsThreads
<1> QED
  BY <1>1, <1>2, <1>3, <1>4 DEF BarrierLoop, CountBack, ReleaseAll, Goto

-----------------------------------------------------------------------------
\* A wake-up by a signal or without one takes a thread out of the waiting set.
LEMMA SignalWakes ==
  ASSUME Inv, Signal \/ UNCHANGED waiting
  PROVE  waiting' \subseteq waiting
  BY DEF Signal

\* The initial state satisfies the invariant.
LEMMA InitInv == Init => Inv
<1> SUFFICES ASSUME Init PROVE Inv
  OBVIOUS
<1>1. /\ clock \in Nat /\ quiesce \in 0..2 /\ threads \subseteq Thread
      /\ threads_count \in Nat /\ waiting \subseteq Thread
      /\ mutex \in Thread \cup {NoThread}
  BY DEF Init
<1>2. pc \in [Thread -> Labels] /\ back \in [Thread -> {"prepare", "idle"}]
  BY DEF Init, Labels
<1>3. status \in [Thread -> {"IDLE", "ACTIVE", "COMMITTED", "ABORTED", "IRREVOCABLE"}]
  BY DEF Init
<1>4. irr \in [Thread -> 0..3]
  BY DEF Init
<1>5. todo \in [Thread -> SUBSET Thread]
  BY DEF Init
<1>6. irrevocable \in BOOLEAN
  BY Zenon DEF Init
<1>7. NotBlocked = {}
  BY DEF Init, NotBlocked
<1>8. Cardinality(NotBlocked) = 0
  BY <1>7, FS_EmptySet
<1>9. CountsThreads
  BY <1>8 DEF Init, CountsThreads
<1> QED
  BY <1>1, <1>2, <1>3, <1>4, <1>5, <1>6, <1>9 DEF Inv, TypeOK

(***************************************************************************)
(* The actions outside of the barrier                                      *)
(***************************************************************************)
\* Registering a thread counts it.
LEMMA RegisterKeepsInv ==
  ASSUME Inv, NEW t \in Thread, stm_quiesce_enter_thread(t)
  PROVE  Inv'
<1>1. /\ pc[t] = "new" /\ pc' = [pc EXCEPT ![t] = "idle"]
      /\ threads' = threads \cup {t} /\ threads_count' = threads_count + 1
      /\ UNCHANGED <<clock, quiesce, mutex, waiting, status, back, irrevocable,
                     irr, todo>>
  BY DEF stm_quiesce_enter_thread, At, Goto, serialVars
<1>2. TypeOK'
  BY <1>1 DEF Inv, TypeOK, Labels
<1>3. threads_count' = Cardinality(NotBlocked')
  BY <1>1, JoinNotBlocked DEF Labels
<1>4. threads' = {u \in Thread : pc'[u] \notin {"new", "gone"}}
  BY <1>1 DEF Inv, TypeOK, CountsThreads
<1>5. waiting' \subseteq {u \in Thread : pc'[u] = "wait"}
  BY <1>1 DEF Inv, TypeOK, CountsThreads
<1> QED
  BY <1>2, <1>3, <1>4, <1>5 DEF Inv, CountsThreads

\* An exiting thread is no longer counted, and may wake up a waiting one.
LEMMA ExitKeepsInv ==
  ASSUME Inv, NEW t \in Thread, stm_quiesce_exit_thread(t)
  PROVE  Inv'
<1>1. /\ pc[t] = "idle" /\ pc' = [pc EXCEPT ![t] = "gone"]
      /\ threads' = threads \ {t} /\ threads_count' = threads_count - 1
      /\ UNCHANGED <<clock, quiesce, mutex, status, back, irrevocable, irr, todo>>
  BY DEF stm_quiesce_exit_thread, At, Goto, serialVars
<1>2. waiting' \subseteq waiting
  BY SignalWakes DEF stm_quiesce_exit_thread, ExitSignal
<1>3. threads_count' = Cardinality(NotBlocked') /\ threads_count' \in Nat
  BY <1>1, LeaveNotBlocked
<1>4. TypeOK'
  BY <1>1, <1>2, <1>3 DEF Inv, TypeOK, Labels
<1>5. threads' = {u \in Thread : pc'[u] \notin {"new", "gone"}}
  BY <1>1 DEF Inv, TypeOK, CountsThreads
<1>6. waiting' \subseteq {u \in Thread : pc'[u] = "wait"}
  BY <1>1, <1>2 DEF Inv, TypeOK, CountsThreads
<1> QED
  BY <1>3, <1>4, <1>5, <1>6 DEF Inv, CountsThreads

\* A spurious wake-up changes only the set of sleeping threads.
LEMMA SpuriousKeepsInv ==
  ASSUME Inv, NEW t \in Thread, SpuriousWake(t)
  PROVE  Inv'
<1>1. waiting' \subseteq waiting
  BY DEF SpuriousWake
<1>2. UNCHANGED <<clock, quiesce, threads, threads_count, mutex, pc, status, back,
                  irrevocable, irr, todo>>
  BY DEF SpuriousWake, serialVars
<1>3. NotBlocked' = NotBlocked
  BY <1>2 DEF NotBlocked
<1>4. TypeOK'
  BY <1>1, <1>2 DEF Inv, TypeOK
<1>5. waiting' \subseteq {u \in Thread : pc'[u] = "wait"}
  BY <1>1, <1>2 DEF Inv, CountsThreads
<1> QED
  BY <1>2, <1>3, <1>4, <1>5 DEF Inv, CountsThreads

\* Steps of a thread outside of the barrier and of the registration.
StaysUnblocked(t) ==
  \/ stm_prepare(t) \/ stm_check_quiesce(t) \/ CheckSpin(t) \/ CheckResume(t)
  \/ AcquireIrrevocable(t) \/ stm_quiesce(t)
  \/ (\E u \in todo[t] : QuiesceScan(t, u)) \/ QuiesceDone(t)
  \/ CommitClock(t) \/ stm_quiesce_release(t) \/ CommitEnd(t)
  \/ stm_start(t) \/ stm_commit(t) \/ CommitSerial(t)
  \/ stm_rollback(t) \/ stm_unit_write(t)
  \/ RequestFails(t) \/ RequestSucceeds(t) \/ RequestRestarts(t)

\* They leave the registration and the barrier alone, and t stays awake.
LEMMA UnblockedFrame ==
  ASSUME Inv, NEW t \in Thread, StaysUnblocked(t)
  PROVE  /\ UNCHANGED <<threads, threads_count, waiting>>
         /\ pc[t] \notin {"new", "gone", "wait"}
         /\ \E lab \in Labels \ {"new", "gone", "wait"} : pc' = [pc EXCEPT ![t] = lab]
         /\ clock' \in {clock, clock + 1}
<1> USE DEF barrierVars, serialVars, At, Goto, Labels
<1>1. CASE stm_prepare(t)
  BY <1>1 DEF stm_prepare
<1>2. CASE stm_check_quiesce(t) \/ CheckSpin(t) \/ CheckResume(t)
  BY <1>2 DEF stm_check_quiesce, CheckSpin, CheckResume
<1>3. CASE AcquireIrrevocable(t) \/ stm_quiesce(t)
  BY <1>3 DEF AcquireIrrevocable, stm_quiesce
<1>4. CASE (\E u \in todo[t] : QuiesceScan(t, u))
  <2>1. pc[t] = "scan" /\ pc' = pc /\ UNCHANGED <<threads, threads_count, waiting, clock>>
    BY <1>4 DEF QuiesceScan
  <2>2. pc' = [pc EXCEPT ![t] = "scan"]
    BY <2>1 DEF Inv, TypeOK
  <2> QED
    BY <2>1, <2>2
<1>5. CASE QuiesceDone(t) \/ CommitClock(t) \/ stm_quiesce_release(t) \/ CommitEnd(t)
  BY <1>5 DEF QuiesceDone, CommitClock, stm_quiesce_release, CommitEnd
<1>6. CASE stm_start(t) \/ stm_commit(t) \/ CommitSerial(t) \/ stm_rollback(t)
  BY <1>6 DEF stm_start, stm_commit, CommitSerial, stm_rollback
<1>7. CASE stm_unit_write(t)
  <2>1. CASE clock + 1 >= VERSION_MAX
    BY <1>7, <2>1 DEF stm_unit_write
  <2>2. CASE ~(clock + 1 >= VERSION_MAX)
    <3>1. pc[t] = "idle" /\ pc' = pc /\ clock' = clock + 1
          /\ UNCHANGED <<threads, threads_count, waiting>>
      BY <1>7, <2>2 DEF stm_unit_write
    <3>2. pc' = [pc EXCEPT ![t] = "idle"]
      BY <3>1 DEF Inv, TypeOK
    <3> QED
      BY <3>1, <3>2
  <2> QED
    BY <2>1, <2>2
<1>8. CASE RequestFails(t) \/ RequestSucceeds(t) \/ RequestRestarts(t)
  BY <1>8 DEF RequestFails, RequestSucceeds, RequestRestarts
<1> QED
  BY <1>1, <1>2, <1>3, <1>4, <1>5, <1>6, <1>7, <1>8 DEF StaysUnblocked

\* They keep the types.
LEMMA UnblockedTypeOK ==
  ASSUME Inv, NEW t \in Thread, StaysUnblocked(t)
  PROVE  TypeOK'
<1>0. TypeOK
  BY DEF Inv
<1> USE <1>0 DEF TypeOK, Labels, barrierVars, serialVars, At, Goto
<1>1. CASE stm_prepare(t)
  BY <1>1 DEF stm_prepare
<1>2. CASE stm_check_quiesce(t)
  BY <1>2 DEF stm_check_quiesce
<1>3. CASE CheckSpin(t) \/ CheckResume(t)
  BY <1>3 DEF CheckSpin, CheckResume
<1>4. CASE AcquireIrrevocable(t)
  BY <1>4 DEF AcquireIrrevocable
<1>5. CASE stm_quiesce(t)
  BY <1>5 DEF stm_quiesce
<1>6. CASE (\E u \in todo[t] : QuiesceScan(t, u))
  BY <1>6 DEF QuiesceScan
<1>7. CASE QuiesceDone(t)
  BY <1>7 DEF QuiesceDone
<1>8. CASE CommitClock(t)
  BY <1>8 DEF CommitClock
<1>9. CASE stm_quiesce_release(t) \/ CommitEnd(t)
  BY <1>9 DEF stm_quiesce_release, CommitEnd
<1>10. CASE stm_start(t) \/ stm_rollback(t)
  BY <1>10 DEF stm_start, stm_rollback
<1>11. CASE CommitSerial(t)
  <2>1. irrevocable' \in BOOLEAN
    BY <1>11, Zenon DEF CommitSerial
  <2> QED
    BY <1>11, <2>1 DEF CommitSerial
<1>12. CASE stm_commit(t)
  BY <1>12 DEF stm_commit
<1>13. CASE stm_unit_write(t)
  BY <1>13 DEF stm_unit_write
<1>14. CASE RequestFails(t) \/ RequestRestarts(t)
  BY <1>14 DEF RequestFails, RequestRestarts
<1>15. CASE RequestSucceeds(t)
  BY <1>15 DEF RequestSucceeds
<1> QED
  BY <1>1, <1>2, <1>3, <1>4, <1>5, <1>6, <1>7, <1>8, <1>9, <1>10, <1>11, <1>12,
     <1>13, <1>14, <1>15 DEF StaysUnblocked

LEMMA UnblockedKeepInv ==
  ASSUME Inv, NEW t \in Thread, StaysUnblocked(t)
  PROVE  Inv'
<1>1. PICK lab \in Labels \ {"new", "gone", "wait"} : pc' = [pc EXCEPT ![t] = lab]
  BY UnblockedFrame
<1>2. CountsThreads'
  BY <1>1, UnblockedFrame, MoveKeepsCount
<1> QED
  BY <1>2, UnblockedTypeOK DEF Inv

\* A step of the specification is a stutter or one of the steps above.
LEMMA NextCases ==
  ASSUME Next
  PROVE  \/ UNCHANGED vars
         \/ \E t \in Thread :
              \/ stm_quiesce_enter_thread(t) \/ stm_quiesce_exit_thread(t)
              \/ BarrierEnter(t) \/ BarrierWake(t) \/ SpuriousWake(t) \/ StaysUnblocked(t)
  BY Zenon DEF Next, Terminated, LibraryStep, AppStep, StaysUnblocked

\* Inv is inductive.
LEMMA NextInv == Inv /\ [Next]_vars => Inv'
<1> SUFFICES ASSUME Inv, [Next]_vars PROVE Inv'
  OBVIOUS
<1>1. CASE UNCHANGED vars
  BY <1>1 DEF vars, Inv, TypeOK, CountsThreads, NotBlocked
<1>2. CASE \E t \in Thread :
             \/ stm_quiesce_enter_thread(t) \/ stm_quiesce_exit_thread(t)
             \/ BarrierEnter(t) \/ BarrierWake(t) \/ SpuriousWake(t) \/ StaysUnblocked(t)
  BY <1>2, RegisterKeepsInv, ExitKeepsInv, EnterKeepsInv, WakeKeepsInv,
     SpuriousKeepsInv, UnblockedKeepInv
<1> QED
  BY <1>1, <1>2, NextCases

\* The types of the quiescence state are right for any number of threads.
THEOREM TypeCorrect == Spec => []TypeOK
<1>1. Inv => TypeOK
  BY DEF Inv
<1> QED
  BY InitInv, NextInv, <1>1, PTL DEF Spec

\* threads_count is the number of registered threads that are not blocked in
\* stm_quiesce_barrier, whatever the interleaving of registrations, exits,
\* releases and wake-ups.
THEOREM Counting == Spec => []CountsThreads
<1>1. Inv => CountsThreads
  BY DEF Inv
<1> QED
  BY InitInv, NextInv, <1>1, PTL DEF Spec

-----------------------------------------------------------------------------
(***************************************************************************)
(* The rollover                                                            *)
(***************************************************************************)
\* Everybody is blocked when the counter says so.
LEMMA NobodyLeft ==
  ASSUME Inv, threads_count = 0
  PROVE  \A u \in threads : pc[u] = "wait"
<1>1. NotBlocked = {}
  BY NotBlockedFinite, FS_EmptySet DEF Inv, CountsThreads
<1> QED
  BY <1>1 DEF Inv, TypeOK, CountsThreads, NotBlocked

\* Everybody else is blocked when the counter is 1 and t is not blocked.
LEMMA OnlyMeLeft ==
  ASSUME Inv, NEW t \in Thread, pc[t] = "barrier", threads_count - 1 = 0
  PROVE  t \in threads /\ \A u \in threads \ {t} : pc[u] = "wait"
<1>1. t \in NotBlocked /\ t \in threads
  BY DEF Inv, CountsThreads, NotBlocked
<1>2. threads_count = 1
  BY DEF Inv, TypeOK
<1>3. Cardinality(NotBlocked \ {t}) = 0 /\ IsFiniteSet(NotBlocked \ {t})
  BY <1>1, <1>2, NotBlockedFinite, FS_RemoveElement DEF Inv, CountsThreads
<1>4. NotBlocked \ {t} = {}
  BY <1>3, FS_EmptySet
<1> QED
  BY <1>1, <1>4 DEF Inv, TypeOK, CountsThreads, NotBlocked

\* rollover_clock runs only when every other registered thread is blocked in
\* the barrier: no transaction sees the clock go back.
THEOREM RolloverSafe == Spec => RolloverAlone
<1> DEFINE Alone == \E t \in threads : /\ pc[t] \in {"barrier", "wait"}
                                       /\ \A u \in threads \ {t} : pc[u] = "wait"
<1>1. ASSUME Inv, [Next]_vars, clock' < clock
      PROVE  Alone
  <2>1. clock \in Nat
    BY <1>1 DEF Inv, TypeOK
  <2>2. CASE UNCHANGED vars
    BY <1>1, <2>1, <2>2 DEF vars
  <2>3. ASSUME NEW t \in Thread, BarrierEnter(t)
        PROVE  Alone
    <3>1. pc[t] = "barrier" /\ threads_count - 1 = 0
      BY <1>1, <2>1, <2>3 DEF BarrierEnter, BarrierLoop, At
    <3> QED
      BY <1>1, <3>1, OnlyMeLeft
  <2>4. ASSUME NEW t \in Thread, BarrierWake(t)
        PROVE  Alone
    <3>1. pc[t] = "wait" /\ threads_count = 0
      BY <1>1, <2>1, <2>4 DEF BarrierWake, BarrierLoop, At
    <3>2. t \in threads
      BY <1>1, <3>1 DEF Inv, CountsThreads
    <3> QED
      BY <1>1, <3>1, <3>2, NobodyLeft
  <2>5. ASSUME NEW t \in Thread,
               \/ stm_quiesce_enter_thread(t) \/ stm_quiesce_exit_thread(t)
               \/ SpuriousWake(t)
        PROVE  FALSE
    BY <1>1, <2>1, <2>5 DEF stm_quiesce_enter_thread, stm_quiesce_exit_thread,
       SpuriousWake
  <2>6. ASSUME NEW t \in Thread, StaysUnblocked(t)
        PROVE  FALSE
    BY <1>1, <2>1, <2>6, UnblockedFrame
  <2> QED
    BY <1>1, <2>2, <2>3, <2>4, <2>5, <2>6, NextCases
<1>2. Inv /\ [Next]_vars => [clock' < clock => Alone]_vars
  BY <1>1
<1> QED
  BY InitInv, NextInv, <1>2, PTL DEF Spec, RolloverAlone

-----------------------------------------------------------------------------
(***************************************************************************)
(* Irrevocability.  SerialInv strengthens IrrevocableExclusive with what   *)
(* tx->irrevocable is at each point of a transaction and with the points   *)
(* at which a thread holds quiesce_mutex between two steps.                *)
(***************************************************************************)
IrrAt(t) ==
  /\ pc[t] \in {"new", "check", "spin", "resume", "run", "commit", "validate"} =>
       irr[t] = 0
  /\ pc[t] = "acquire" => irr[t] = 1
  /\ pc[t] \in {"request", "lock", "scan"} => irr[t] = 2
  /\ pc[t] \in {"serial", "release", "end"} => irr[t] = 3
  /\ pc[t] \in {"idle", "gone"} => irr[t] \in {0, 3}
  /\ pc[t] = "prepare" => irr[t] \in {0, 1, 2}
  /\ pc[t] \in {"barrier", "wait"} =>
       irr[t] \in IF back[t] = "prepare" THEN {0, 1, 2} ELSE {0, 3}

Holds(t) == pc[t] \in {"scan", "serial", "release"}

SerialInv ==
  /\ \A t \in Thread : IrrAt(t)
  /\ \A t \in Thread : mutex = t <=> Holds(t)
  /\ IrrevocableExclusive

\* Nothing changes hands: no thread gains or gives up irrevocability or the mutex.
LEMMA NothingChangesHands ==
  ASSUME TypeOK, SerialInv, NEW t \in Thread,
         \A u \in Thread \ {t} : pc'[u] = pc[u] /\ irr'[u] = irr[u] /\ back'[u] = back[u],
         IrrAt(t)', Holds(t)' <=> Holds(t), Irrevocable(t)' <=> Irrevocable(t),
         irrevocable' <=> irrevocable, mutex' = mutex, quiesce' = 2 <=> quiesce = 2
  PROVE  SerialInv'
<1>1. \A u \in Thread : IrrAt(u)'
  <2> SUFFICES ASSUME NEW u \in Thread \ {t} PROVE IrrAt(u)'
    OBVIOUS
  <2>1. IrrAt(u) /\ pc'[u] = pc[u] /\ irr'[u] = irr[u] /\ back'[u] = back[u]
    BY DEF SerialInv
  <2> QED
    BY <2>1 DEF IrrAt
<1>2. \A u \in Thread : Holds(u)' <=> Holds(u)
  BY DEF Holds
<1>3. \A u \in Thread : Irrevocable(u)' <=> Irrevocable(u)
  BY DEF Irrevocable, At
<1>4. \A u \in Thread : mutex' = u <=> Holds(u)'
  BY <1>2 DEF SerialInv
<1>5. IrrevocableExclusive'
  BY <1>3 DEF SerialInv, IrrevocableExclusive
<1> QED
  BY <1>1, <1>4, <1>5 DEF SerialInv

\* The initial state has no irrevocable transaction.
LEMMA InitSerial == Init => SerialInv
<1> SUFFICES ASSUME Init PROVE SerialInv
  OBVIOUS
<1>1. \A t \in Thread : IrrAt(t) /\ ~Holds(t) /\ ~Irrevocable(t)
  BY DEF Init, IrrAt, Holds, Irrevocable, At
<1>2. \A t \in Thread : mutex # t
  BY QuiesceAssumption DEF Init
<1>3. ~irrevocable
  BY Zenon DEF Init
<1>4. quiesce # 2 /\ mutex = NoThread
  BY DEF Init
<1> QED
  BY <1>1, <1>2, <1>3, <1>4 DEF SerialInv, IrrevocableExclusive

\* Registration, exit and the barrier.
LEMMA BarrierSerial ==
  ASSUME TypeOK, SerialInv, NEW t \in Thread,
         \/ stm_quiesce_enter_thread(t) \/ stm_quiesce_exit_thread(t)
         \/ BarrierEnter(t) \/ BarrierWake(t) \/ SpuriousWake(t)
  PROVE  SerialInv'
<1>1. /\ \A u \in Thread \ {t} : pc'[u] = pc[u]
      /\ mutex' = mutex /\ irr' = irr /\ irrevocable' = irrevocable /\ back' = back
  BY DEF stm_quiesce_enter_thread, stm_quiesce_exit_thread, BarrierEnter,
     BarrierWake, BarrierLoop, SpuriousWake, Goto, serialVars, TypeOK
<1>2. \/ pc[t] = "new" /\ pc'[t] = "idle"
      \/ pc[t] = "idle" /\ pc'[t] = "gone"
      \/ pc[t] \in {"barrier", "wait"} /\ pc'[t] \in {"wait", back[t]}
      \/ pc'[t] = pc[t]
  BY DEF stm_quiesce_enter_thread, stm_quiesce_exit_thread, BarrierEnter,
     BarrierWake, BarrierLoop, SpuriousWake, Goto, At, TypeOK
<1>3. back[t] \in {"prepare", "idle"} /\ IrrAt(t)
  BY DEF TypeOK, SerialInv
<1>4. IrrAt(t)'
  BY <1>1, <1>2, <1>3 DEF IrrAt
<1>5. (Holds(t)' <=> Holds(t)) /\ (Irrevocable(t)' <=> Irrevocable(t))
  BY <1>1, <1>2, <1>3 DEF Holds, Irrevocable, At
<1>6. quiesce' = 2 <=> quiesce = 2
  <2>1. CASE BarrierEnter(t) \/ BarrierWake(t)
    <3>1. mutex = NoThread /\ quiesce \in 0..2
      BY <2>1 DEF BarrierEnter, BarrierWake, TypeOK
    <3>2. quiesce \in 0..1
      BY <3>1 DEF SerialInv, IrrevocableExclusive
    <3> QED
      BY <2>1, <3>2 DEF BarrierEnter, BarrierWake, BarrierLoop
  <2>2. CASE \/ stm_quiesce_enter_thread(t) \/ stm_quiesce_exit_thread(t)
             \/ SpuriousWake(t)
    BY <2>2 DEF stm_quiesce_enter_thread, stm_quiesce_exit_thread, SpuriousWake
  <2> QED
    BY <2>1, <2>2
<1> QED
  BY <1>1, <1>4, <1>5, <1>6, NothingChangesHands

\* Steps of a transaction that neither gain nor give up anything.
LEMMA PlainSerial ==
  ASSUME TypeOK, SerialInv, NEW t \in Thread,
         \/ stm_prepare(t) \/ stm_check_quiesce(t) \/ CheckSpin(t) \/ CheckResume(t)
         \/ (\E u \in todo[t] : QuiesceScan(t, u))
         \/ CommitClock(t) \/ CommitEnd(t) \/ stm_start(t) \/ stm_commit(t)
         \/ stm_rollback(t) \/ stm_unit_write(t)
         \/ QuiesceDone(t) \/ RequestRestarts(t)
  PROVE  SerialInv'
<1> USE DEF barrierVars, serialVars, At, Goto, TypeOK
<1>0. IrrAt(t) /\ t \in Thread
  BY DEF SerialInv
<1>1. CASE stm_prepare(t)
  <2>1. /\ \A u \in Thread \ {t} : pc'[u] = pc[u] /\ back'[u] = back[u]
        /\ irr' = irr /\ irrevocable' = irrevocable /\ mutex' = mutex
        /\ quiesce' = quiesce
    BY <1>1 DEF stm_prepare
  <2>2. IrrAt(t)' /\ ~Holds(t) /\ ~Holds(t)' /\ (Irrevocable(t)' <=> Irrevocable(t))
    BY <1>0, <1>1 DEF stm_prepare, IrrAt, Holds, Irrevocable
  <2> QED
    BY <2>1, <2>2, NothingChangesHands
<1>2. CASE \/ stm_check_quiesce(t) \/ CheckSpin(t) \/ CheckResume(t)
           \/ CommitClock(t) \/ CommitEnd(t) \/ stm_commit(t) \/ stm_rollback(t)
           \/ RequestRestarts(t)
  <2>1. /\ \A u \in Thread \ {t} : pc'[u] = pc[u]
        /\ irr' = irr /\ irrevocable' = irrevocable /\ mutex' = mutex /\ back' = back
        /\ quiesce' = quiesce
    BY <1>2 DEF stm_check_quiesce, CheckSpin, CheckResume, CommitClock, CommitEnd,
       stm_commit, stm_rollback, RequestRestarts
  <2>2. \/ /\ pc[t] \in {"check", "spin", "resume", "run", "commit", "validate"}
           /\ pc'[t] \in {"spin", "resume", "run", "commit", "validate", "idle",
                          "prepare"}
        \/ pc[t] = "end" /\ pc'[t] = "idle"
        \/ pc[t] = "request" /\ pc'[t] = "prepare"
    BY <1>2 DEF stm_check_quiesce, CheckSpin, CheckResume, CommitClock, CommitEnd,
       stm_commit, stm_rollback, RequestRestarts
  <2>3. IrrAt(t)' /\ ~Holds(t) /\ ~Holds(t)' /\ (Irrevocable(t)' <=> Irrevocable(t))
    BY <1>0, <2>1, <2>2 DEF IrrAt, Holds, Irrevocable
  <2> QED
    BY <2>1, <2>3, NothingChangesHands
<1>3. CASE \E u \in todo[t] : QuiesceScan(t, u)
  <2>1. /\ pc' = pc /\ irr' = irr /\ irrevocable' = irrevocable /\ mutex' = mutex
        /\ back' = back /\ quiesce' = quiesce
    BY <1>3 DEF QuiesceScan
  <2>2. IrrAt(t)' /\ (Holds(t)' <=> Holds(t)) /\ (Irrevocable(t)' <=> Irrevocable(t))
    BY <1>0, <2>1 DEF IrrAt, Holds, Irrevocable
  <2> QED
    BY <2>1, <2>2, NothingChangesHands
<1>4. CASE stm_start(t) \/ stm_unit_write(t)
  <2>1. /\ \A u \in Thread \ {t} : pc'[u] = pc[u] /\ irr'[u] = irr[u] /\ back'[u] = back[u]
        /\ irrevocable' = irrevocable /\ mutex' = mutex /\ quiesce' = quiesce
    BY <1>4 DEF stm_start, stm_unit_write
  <2>2. pc[t] = "idle" /\ irr[t] \in {0, 3}
    BY <1>0, <1>4 DEF stm_start, stm_unit_write, IrrAt
  <2>3. \/ pc'[t] = "prepare" /\ irr'[t] = 0
        \/ pc'[t] = "barrier" /\ back'[t] = "idle" /\ irr'[t] = irr[t]
        \/ pc'[t] = "idle" /\ irr'[t] = irr[t]
    BY <1>4 DEF stm_start, stm_unit_write
  <2>4. IrrAt(t)' /\ ~Holds(t) /\ ~Holds(t)' /\ ~Irrevocable(t) /\ ~Irrevocable(t)'
    BY <2>2, <2>3 DEF IrrAt, Holds, Irrevocable
  <2> QED
    BY <2>1, <2>4, NothingChangesHands
<1>5. CASE QuiesceDone(t)
  <2>1. /\ \A u \in Thread \ {t} : pc'[u] = pc[u] /\ irr'[u] = irr[u]
        /\ irrevocable' = irrevocable /\ mutex' = mutex /\ quiesce' = quiesce
        /\ back' = back /\ pc[t] = "scan" /\ pc'[t] = "serial" /\ irr'[t] = 3
    BY <1>5 DEF QuiesceDone
  <2>2. IrrAt(t)' /\ Holds(t) /\ Holds(t)' /\ Irrevocable(t) /\ Irrevocable(t)'
    BY <1>0, <2>1 DEF IrrAt, Holds, Irrevocable
  <2> QED
    BY <2>1, <2>2, NothingChangesHands
<1> QED
  BY <1>1, <1>2, <1>3, <1>4, <1>5

\* Steps that gain or give up irrevocability or the mutex.
LEMMA HandoverSerial ==
  ASSUME TypeOK, SerialInv, NEW t \in Thread,
         \/ RequestFails(t) \/ RequestSucceeds(t) \/ AcquireIrrevocable(t)
         \/ stm_quiesce(t) \/ CommitSerial(t) \/ stm_quiesce_release(t)
  PROVE  SerialInv'
<1> USE DEF barrierVars, serialVars, At, Goto, TypeOK
<1>0. IrrAt(t) /\ IrrevocableExclusive /\ (mutex = t <=> Holds(t)) /\ NoThread # t
  BY QuiesceAssumption DEF SerialInv
<1>1. /\ \A u \in Thread \ {t} : pc'[u] = pc[u] /\ irr'[u] = irr[u]
      /\ back' = back
  BY DEF RequestFails, RequestSucceeds, AcquireIrrevocable, stm_quiesce, CommitSerial,
     stm_quiesce_release
<1>2. \A u \in Thread \ {t} : /\ IrrAt(u)' /\ (Holds(u)' <=> Holds(u))
                              /\ Irrevocable(u)' <=> Irrevocable(u)
  <2> SUFFICES ASSUME NEW u \in Thread \ {t}
               PROVE  /\ IrrAt(u)' /\ (Holds(u)' <=> Holds(u))
                      /\ Irrevocable(u)' <=> Irrevocable(u)
    OBVIOUS
  <2>1. IrrAt(u) /\ pc'[u] = pc[u] /\ irr'[u] = irr[u] /\ back'[u] = back[u]
    BY <1>1 DEF SerialInv
  <2> QED
    BY <2>1 DEF IrrAt, Holds, Irrevocable
<1>3. IrrAt(t)'
  BY <1>0, <1>1 DEF RequestFails, RequestSucceeds, AcquireIrrevocable, stm_quiesce,
     CommitSerial, stm_quiesce_release, IrrAt
<1>4. \A u \in Thread : mutex' = u <=> Holds(u)'
  <2>1. CASE \/ RequestFails(t) \/ RequestSucceeds(t) \/ AcquireIrrevocable(t)
             \/ CommitSerial(t)
    <3>1. mutex' = mutex /\ (Holds(t)' <=> Holds(t))
      BY <2>1 DEF RequestFails, RequestSucceeds, AcquireIrrevocable, CommitSerial, Holds
    <3> QED
      BY <1>2, <3>1 DEF SerialInv
  <2>2. CASE stm_quiesce(t)
    <3>1. mutex = NoThread /\ mutex' = t /\ Holds(t)'
      BY <2>2 DEF stm_quiesce, Holds
    <3>2. \A u \in Thread : ~Holds(u)
      BY <3>1, QuiesceAssumption DEF SerialInv
    <3> QED
      BY <1>2, <3>1, <3>2
  <2>3. CASE stm_quiesce_release(t)
    <3>1. mutex' = NoThread /\ ~Holds(t)' /\ Holds(t)
      BY <2>3 DEF stm_quiesce_release, Holds
    <3>2. \A u \in Thread \ {t} : ~Holds(u)
      BY <1>0, <3>1 DEF SerialInv
    <3> QED
      BY <1>2, <3>1, <3>2, QuiesceAssumption
  <2> QED
    BY <2>1, <2>2, <2>3
<1>5. quiesce' = 2 <=> mutex' # NoThread
  BY <1>0 DEF RequestFails, RequestSucceeds, AcquireIrrevocable, stm_quiesce,
     CommitSerial, stm_quiesce_release, IrrevocableExclusive
<1>6. /\ \A u, v \in Thread : Irrevocable(u)' /\ Irrevocable(v)' => u = v
      /\ irrevocable' <=> \E u \in Thread : Irrevocable(u)'
  <2>1. CASE irrevocable /\ UNCHANGED irrevocable /\ ~Irrevocable(t) /\ ~Irrevocable(t)'
    BY <1>0, <1>2, <2>1 DEF IrrevocableExclusive
  <2>2. CASE ~irrevocable /\ irrevocable' /\ Irrevocable(t)'
    BY <1>0, <1>2, <2>2 DEF IrrevocableExclusive
  <2>3. CASE ~irrevocable' /\ Irrevocable(t) /\ ~Irrevocable(t)'
    BY <1>0, <1>2, <2>3 DEF IrrevocableExclusive
  <2>4. CASE (irrevocable' <=> irrevocable) /\ (Irrevocable(t)' <=> Irrevocable(t))
    BY <1>0, <1>2, <2>4 DEF IrrevocableExclusive
  <2>5. CASE RequestFails(t) \/ RequestSucceeds(t) \/ AcquireIrrevocable(t)
    <3>1. ~Irrevocable(t)
      BY <1>0, <2>5 DEF RequestFails, RequestSucceeds, AcquireIrrevocable, IrrAt,
         Irrevocable
    <3>2. \/ irrevocable /\ UNCHANGED irrevocable /\ ~Irrevocable(t)'
          \/ ~irrevocable /\ irrevocable' /\ Irrevocable(t)'
      BY <2>5 DEF RequestFails, RequestSucceeds, AcquireIrrevocable, IrrevocableFree,
         Irrevocable
    <3> QED
      BY <2>1, <2>2, <3>1, <3>2
  <2>6. CASE stm_quiesce(t) \/ stm_quiesce_release(t)
    BY <1>0, <2>4, <2>6 DEF stm_quiesce, stm_quiesce_release, IrrAt, Irrevocable
  <2>7. CASE CommitSerial(t)
    BY <1>0, <2>3, <2>7 DEF CommitSerial, IrrAt, Irrevocable
  <2> QED
    BY <2>5, <2>6, <2>7
<1> QED
  BY <1>2, <1>3, <1>4, <1>5, <1>6 DEF SerialInv, IrrevocableExclusive

\* SerialInv is inductive relative to the types.
LEMMA NextSerial == TypeOK /\ SerialInv /\ [Next]_vars => SerialInv'
<1> SUFFICES ASSUME TypeOK, SerialInv, [Next]_vars PROVE SerialInv'
  OBVIOUS
<1>1. CASE UNCHANGED vars
  BY <1>1 DEF vars, SerialInv, IrrAt, Holds, IrrevocableExclusive, Irrevocable, At
<1>2. CASE \E t \in Thread :
             \/ stm_quiesce_enter_thread(t) \/ stm_quiesce_exit_thread(t)
             \/ BarrierEnter(t) \/ BarrierWake(t) \/ SpuriousWake(t) \/ StaysUnblocked(t)
  BY <1>2, BarrierSerial, PlainSerial, HandoverSerial DEF StaysUnblocked
<1> QED
  BY <1>1, <1>2, NextCases

\* At most one transaction is irrevocable at any time, it owns the global
\* irrevocability lock, and quiesce is 2 exactly while it holds the mutex.
THEOREM IrrevocableAlone == Spec => []IrrevocableExclusive
<1>1. SerialInv => IrrevocableExclusive
  BY DEF SerialInv
<1> QED
  BY TypeCorrect, InitSerial, NextSerial, <1>1, PTL DEF Spec


-----------------------------------------------------------------------------
(* The kernel module: the patch of finish_task_switch.                     *)

\* A non-empty set of numbers between two bounds has a largest element, which
\* is the one Max returns: the scan of check_patch_compatibility stops there.
LEMMA LargestOf ==
  ASSUME NEW lo \in Nat, NEW hi \in Nat, NEW S \in SUBSET (lo .. hi), S # {}
  PROVE  Max(S) \in S
<1> DEFINE T == {hi - x : x \in S}
<1>1. T \subseteq Nat /\ T # {}
  <2>1. \A x \in S : hi - x \in Nat
    OBVIOUS
  <2>2. PICK x \in S : TRUE
    OBVIOUS
  <2>3. hi - x \in T
    BY <2>2
  <2> QED
    BY <2>1, <2>3
<1> DEFINE R == OpToRel(<, Nat)
<1>2. IsWellFoundedOn(R, Nat)
  BY NatLessThanWellFounded
<1> HIDE DEF R
<1>3. \E m \in T : \A y \in T : ~ (<<y, m>> \in R)
  BY <1>1, <1>2, WFMin
<1>4. PICK x \in S : \A y \in T : ~ (<<y, hi - x>> \in R)
  BY <1>3
<1>5. \A y \in S : x >= y
  <2> SUFFICES ASSUME NEW y \in S, ~ (x >= y) PROVE FALSE
    OBVIOUS
  <2>1. hi - y \in T /\ hi - y \in Nat /\ hi - x \in Nat /\ hi - y < hi - x
    OBVIOUS
  <2>2. <<hi - y, hi - x>> \in R
    BY <2>1 DEF R, OpToRel
  <2> QED
    BY <1>4, <2>1, <2>2
<1> QED
  BY <1>5 DEF Max

\* What the jump replaces lies within the code.
InCode(code, s) ==
  /\ s.next \in Nat /\ s.n \in Nat
  /\ s.next - s.n >= 1 /\ s.next - 1 <= Len(code)

\* check_patch_compatibility returns bytes of the code, also when it finds
\* no suitable return and stops in front of the function.
LEMMA PatchInCode ==
  ASSUME NEW code \in Seq(STRING), Len(code) > Fts
  PROVE  InCode(code, check_patch_compatibility(code))
<1> DEFINE rets == {p \in Fts..Len(code) :
                      code[p] = "ret" /\ \A j \in 1..4 : code[p - j] \in Pops}
<1>1. Fts \in Nat /\ Fts > 6 /\ Len(code) \in Nat
  BY TimeStretchAssumption
<1>2. CASE rets = {}
  <2>1. check_patch_compatibility(code) = [next |-> Fts - 1, n |-> 4]
    BY <1>2 DEF check_patch_compatibility
  <2> QED
    BY <1>1, <2>1 DEF InCode
<1>3. CASE rets # {}
  <2>1. Max(rets) \in Fts .. Len(code)
    BY <1>1, <1>3, LargestOf
  <2>2. \/ check_patch_compatibility(code) = [next |-> Max(rets), n |-> 5]
        \/ check_patch_compatibility(code) = [next |-> Max(rets) + 1, n |-> 4]
    BY <1>3 DEF check_patch_compatibility
  <2> HIDE DEF rets
  <2> QED
    BY <1>1, <2>1, <2>2 DEF InCode
<1> QED
  BY <1>2, <1>3

\* Writing the saved bytes over the jump restores the code.
LEMMA UnpatchRestores ==
  ASSUME NEW code \in Seq(STRING), NEW s, InCode(code, s), NEW bytes
  PROVE  Overwritten(Overwritten(code, s, bytes), s,
                     SubSeq(code, s.next - s.n, s.next - 1)) = code
<1> DEFINE first == s.next - s.n
           last == s.next - 1
           saved == SubSeq(code, first, last)
           patched == Overwritten(code, s, bytes)
           again == Overwritten(patched, s, saved)
<1>1. first \in Int /\ last \in Int /\ first >= 1 /\ last <= Len(code)
  BY DEF InCode
<1>2. DOMAIN patched = DOMAIN code
      /\ \A i \in DOMAIN code : i \notin first .. last => patched[i] = code[i]
  BY DEF Overwritten
<1>3. DOMAIN again = DOMAIN code
      /\ \A i \in DOMAIN code :
           again[i] = IF i \in first .. last THEN saved[i - first + 1]
                                            ELSE patched[i]
  BY <1>2 DEF Overwritten
<1>4. \A i \in first .. last : saved[i - first + 1] = code[i]
  BY <1>1
<1>5. \A i \in DOMAIN code : again[i] = code[i]
  BY <1>1, <1>2, <1>3, <1>4
<1>6. again = [i \in DOMAIN code |-> again[i]]
  BY <1>3 DEF Overwritten
<1> QED
  BY <1>3, <1>5, <1>6

-----------------------------------------------------------------------------
(* The kernel module: the inductive invariant.                             *)

\* The flag of a CPU tells the period of its timer, and the interrupts its
\* kernel has missed and those the countdown still lets pass are together at
\* most what the countdown and its reloads allow: this is what makes
\* KernelKeepsTime inductive.
TimerInv ==
  /\ stretch_flag \in [CPU -> {0, 1}]
  /\ timer \in [CPU -> {"normal", "stretched"}]
  /\ overticks \in [CPU -> 0..SCALE]
  /\ missed \in [CPU -> Nat]
  /\ reloads \in [CPU -> Nat]
  /\ \A c \in CPU : c \in Watched => missed[c] + overticks[c] <= Allowed(reloads[c])
  /\ \A c \in CPU : timer[c] = "normal" <=> stretch_flag[c] = 0

\* A thread in its own code inside a transaction has tx_on set.
UserInv ==
  /\ life \in [Task -> {"dead", "new", "registered", "callback set", "idle", "freed",
                       "stm", "app", "callback", "masked"}]
  /\ txOn \in [Task -> BOOLEAN]
  /\ \A t \in Task : life[t] = "app" => txOn[t]

\* What time_stretch_init does to the code.
Patched ==
  LET s == check_patch_compatibility(machine.code)
  IN /\ site = [next |-> s.next, n |-> s.n,
                saved |-> SubSeq(machine.code, s.next - s.n, s.next - 1)]
     /\ text = Overwritten(machine.code, site, Jump)

\* The stages of the module's life: once it is leaving, the kernel's code is
\* restored and the device closed, and once the delay is over no hook runs, so
\* nothing can stretch a timer after the flags were found cleared.
ModuleInv ==
  /\ mod \in {"out", "in", "leaving"}
  /\ hook \in [CPU -> {"no", "found", "none"}]
  /\ mod = "in" => apic = "module" /\ Patched /\ job.kind \in {"no", "release", "calls"}
  /\ mod # "in" => apic = "kernel" /\ text = machine.code /\ res = {} /\ ~ opened
  /\ mod = "leaving" => /\ job.kind \in {"delay", "cleanup", "calls", "wait"}
                        /\ job.kind # "delay" => \A c \in CPU : hook[c] = "no"
  /\ mod = "out" => /\ job = NoJob
                    /\ \A c \in CPU : hook[c] = "no" /\ stretch_flag[c] = 0

TsInv == machine \in Machines /\ TimerInv /\ UserInv /\ ModuleInv

\* Each reload allows SCALE more.
LEMMA AllowedGrows ==
  /\ SCALE \in Nat /\ Allowed(0) = SCALE
  /\ \A n \in Nat : /\ Allowed(n) \in Nat /\ SCALE <= Allowed(n)
                    /\ Allowed(n + 1) = Allowed(n) + SCALE
<1>1. SCALE \in Nat /\ Allowed(0) = SCALE
  BY TimeStretchAssumption DEF Allowed
<1>2. ASSUME NEW n \in Nat
      PROVE  /\ Allowed(n) \in Nat /\ SCALE <= Allowed(n)
             /\ Allowed(n + 1) = Allowed(n) + SCALE
  <2>1. SCALE * n \in Nat
    BY <1>1
  <2>2. SCALE * (1 + n) = SCALE + SCALE * n
    BY <1>1
  <2>3. SCALE * (1 + (n + 1)) = SCALE + SCALE + SCALE * n
    BY <1>1
  <2> QED
    BY <1>1, <2>1, <2>2, <2>3 DEF Allowed
<1> QED
  BY <1>1, <1>2

\* The initial states satisfy it.
LEMMA TsInitInv == TsInit => TsInv
<1> SUFFICES ASSUME TsInit PROVE TsInv
  OBVIOUS
<1>1. TimerInv
  BY AllowedGrows DEF TsInit, TimerInv
<1>2. UserInv
  <2>1. \A t \in Task : life[t] = "dead"
    BY DEF TsInit
  <2>2. txOn \in [Task -> BOOLEAN]
    BY DEF TsInit
  <2> QED
    BY <2>1, <2>2 DEF TsInit, UserInv
<1>3. ModuleInv
  BY DEF TsInit, ModuleInv, NoJob
<1> QED
  BY <1>1, <1>2, <1>3 DEF TsInit, TsInv

\* A step of the system is a step of the module, of a CPU or of a thread.
LEMMA TsSteps ==
  ASSUME TsInv, TsNext
  PROVE  \/ time_stretch_init \/ (\E k \in {1, 2, 3, 5} : InitFails(k))
         \/ DelayIsOver \/ EndCleanup \/ CallsDone \/ time_stretch_open
         \/ \E c \in CPU :
              \/ time_stretch_release(c) \/ StartCleanup(c) \/ LocalReset(c)
              \/ Interrupted(c) \/ my_smp_apic_timer_interrupt(c) \/ KernelTick(c)
              \/ scheduler_hook(c)
              \/ \E t \in Task \cup {NoTask} : Switch(c, t)
              \/ \E t \in Task : ThreadNext(t, c)
<1>1. machine.cpus \subseteq CPU /\ machine.tasks \subseteq Task
  BY TimeStretchAssumption DEF TsInv
<1>2. CASE ModuleNext
  BY <1>1, <1>2 DEF ModuleNext
<1>3. CASE \E c \in machine.cpus :
             \/ Tick(c) \/ scheduler_hook(c)
             \/ \E t \in machine.tasks \cup {NoTask} : Switch(c, t)
             \/ \E t \in machine.tasks : ThreadNext(t, c)
  BY <1>1, <1>3 DEF Tick
<1> QED
  BY <1>2, <1>3 DEF TsNext

\* The machine does not change.
LEMMA MachineKept == ASSUME TsInv, TsNext PROVE machine' = machine
<1>1. ASSUME NEW c \in CPU, NEW t \in Task, ThreadNext(t, c)
      PROVE  machine' = machine
  BY <1>1 DEF ThreadNext, register_ts_thread, register_callback, register_buffer,
       FreeDescriptor, deregister_ts_thread, StartTransaction, LeaveStm, EnterStm,
       EndTransaction, MaskTicks, Revalidated, Moves
<1>2. ASSUME NEW c \in CPU,
             \/ time_stretch_release(c) \/ StartCleanup(c) \/ LocalReset(c)
             \/ Interrupted(c) \/ my_smp_apic_timer_interrupt(c) \/ KernelTick(c)
             \/ scheduler_hook(c)
      PROVE  machine' = machine
  BY <1>2 DEF time_stretch_release, StartCleanup, LocalReset, Interrupted,
       my_smp_apic_timer_interrupt, KernelTick, scheduler_hook
<1>3. ASSUME NEW c \in CPU, NEW t \in Task \cup {NoTask}, Switch(c, t)
      PROVE  machine' = machine
  BY <1>3 DEF Switch
<1>4. ASSUME \/ time_stretch_init \/ (\E k \in {1, 2, 3, 5} : InitFails(k))
             \/ DelayIsOver \/ EndCleanup \/ CallsDone \/ time_stretch_open
      PROVE  machine' = machine
  BY <1>4 DEF time_stretch_init, InitFails, DelayIsOver, EndCleanup, CallsDone,
       time_stretch_open
<1> QED
  BY <1>1, <1>2, <1>3, <1>4, TsSteps

-----------------------------------------------------------------------------
(* Timers.                                                                 *)

\* The interrupt of a CPU: missed and overticks move together.
LEMMA TickKeepsTime ==
  ASSUME TimerInv, NEW c \in CPU, my_smp_apic_timer_interrupt(c)
  PROVE  TimerInv'
<1>0. CASE c \notin Watched
  <2>1. UNCHANGED tickVars
    BY <1>0 DEF my_smp_apic_timer_interrupt, StretchedTick, CountDown, NormalTick, LocalTick
  <2>2. /\ overticks' \in [CPU -> 0..SCALE]
        /\ \A d \in CPU : d # c => overticks'[d] = overticks[d]
    <3>1. \/ overticks' = [overticks EXCEPT ![c] = IF overticks[c] = 0 THEN SCALE ELSE overticks[c] - 1]
          \/ overticks' = [overticks EXCEPT ![c] = 0]
          \/ overticks' = overticks
      BY DEF my_smp_apic_timer_interrupt, StretchedTick, CountDown, NormalTick, timerVars
    <3>2. overticks \in [CPU -> 0..SCALE] /\ SCALE \in Nat
      BY AllowedGrows DEF TimerInv
    <3> QED
      BY <3>1, <3>2
  <2>3. /\ stretch_flag' \in [CPU -> {0, 1}] /\ timer' \in [CPU -> {"normal", "stretched"}]
        /\ \A d \in CPU : timer'[d] = "normal" <=> stretch_flag'[d] = 0
    BY DEF my_smp_apic_timer_interrupt, StretchedTick, NormalTick, Stretch, Unstretch,
         TimerInv, timerVars
  <2>4. \A d \in CPU : d \in Watched => missed'[d] + overticks'[d] <= Allowed(reloads'[d])
    BY <1>0, <2>1, <2>2 DEF TimerInv, tickVars
  <2> QED
    BY <2>1, <2>2, <2>3, <2>4 DEF TimerInv, tickVars
<1>1. CASE c \in Watched /\ CountDown(c) /\ Stretch(c)
  <2>1. /\ SCALE \in Nat /\ overticks[c] \in 0..SCALE /\ missed[c] \in Nat
        /\ reloads[c] \in Nat /\ Allowed(reloads[c]) \in Nat
        /\ missed[c] + overticks[c] <= Allowed(reloads[c])
    BY <1>1, AllowedGrows DEF TimerInv
  <2>2. \/ overticks[c] = 0 /\ overticks' = [overticks EXCEPT ![c] = SCALE]
           /\ missed' = [missed EXCEPT ![c] = 0]
           /\ reloads' = [reloads EXCEPT ![c] = 0]
        \/ overticks[c] # 0 /\ overticks' = [overticks EXCEPT ![c] = overticks[c] - 1]
           /\ missed' = [missed EXCEPT ![c] = missed[c] + 1]
           /\ reloads' = reloads
    BY <1>1, <2>1 DEF CountDown, LocalTick, TimerInv
  <2>3. /\ overticks' \in [CPU -> 0..SCALE]
        /\ missed' \in [CPU -> Nat] /\ reloads' \in [CPU -> Nat]
    <3>1. \/ overticks' = [overticks EXCEPT ![c] = SCALE]
          \/ /\ overticks' = [overticks EXCEPT ![c] = overticks[c] - 1]
             /\ overticks[c] # 0
      BY <2>2, Zenon
    <3>2. missed' = [missed EXCEPT ![c] = 0] \/ missed' = [missed EXCEPT ![c] = missed[c] + 1]
      BY <2>2
    <3>3. reloads' = [reloads EXCEPT ![c] = 0] \/ reloads' = reloads
      BY <2>2
    <3>4. overticks' \in [CPU -> 0..SCALE]
      BY <2>1, <3>1 DEF TimerInv
    <3>5. missed' \in [CPU -> Nat]
      BY <2>1, <3>2 DEF TimerInv
    <3>6. reloads' \in [CPU -> Nat]
      BY <3>3 DEF TimerInv
    <3> QED
      BY <3>4, <3>5, <3>6
  <2>4. missed'[c] + overticks'[c] <= Allowed(reloads'[c])
    <3>1. CASE overticks[c] = 0
      <4>1. missed'[c] = 0 /\ overticks'[c] = SCALE /\ reloads'[c] = 0
        BY <2>2, <3>1 DEF TimerInv
      <4> QED
        BY <4>1, AllowedGrows
    <3>2. CASE overticks[c] # 0
      <4>1. missed'[c] = missed[c] + 1 /\ overticks'[c] = overticks[c] - 1
            /\ reloads'[c] = reloads[c]
        BY <2>2, <3>2 DEF TimerInv
      <4> QED
        BY <2>1, <4>1
    <3> QED
      BY <3>1, <3>2
  <2>5. ASSUME NEW d \in CPU, d # c
        PROVE  missed'[d] = missed[d] /\ overticks'[d] = overticks[d]
               /\ reloads'[d] = reloads[d]
    BY <2>2, <2>5 DEF TimerInv
  <2>6. \A d \in CPU : d \in Watched => missed'[d] + overticks'[d] <= Allowed(reloads'[d])
    BY <2>4, <2>5 DEF TimerInv
  <2>7. /\ stretch_flag' \in [CPU -> {0, 1}] /\ timer' \in [CPU -> {"normal", "stretched"}]
        /\ \A d \in CPU : timer'[d] = "normal" <=> stretch_flag'[d] = 0
    BY <1>1 DEF Stretch, TimerInv
  <2> QED
    BY <2>3, <2>6, <2>7 DEF TimerInv
<1>2. CASE c \in Watched /\ NormalTick(c)
  <2>1. /\ SCALE \in Nat /\ overticks[c] \in 0..SCALE /\ missed[c] \in Nat
        /\ reloads[c] \in Nat /\ Allowed(reloads[c]) \in Nat
        /\ missed[c] + overticks[c] <= Allowed(reloads[c])
    BY <1>2, AllowedGrows DEF TimerInv
  <2>2. CASE stretch_flag[c] = 1
    <3>1. /\ overticks' = [overticks EXCEPT ![c] = 0]
          /\ \/ missed' = [missed EXCEPT ![c] = 0] /\ reloads' = [reloads EXCEPT ![c] = 0]
             \/ /\ overticks[c] # 0 /\ reloads' = reloads
                /\ missed' = [missed EXCEPT ![c] = missed[c] + 1]
      BY <1>2, <2>1, <2>2 DEF NormalTick, LocalTick, TimerInv
    <3>2. /\ overticks' \in [CPU -> 0..SCALE]
          /\ missed' \in [CPU -> Nat] /\ reloads' \in [CPU -> Nat]
      BY <2>1, <3>1 DEF TimerInv
    <3>3. /\ overticks'[c] = 0
          /\ \/ missed'[c] = 0 /\ reloads'[c] = 0
             \/ overticks[c] # 0 /\ missed'[c] = missed[c] + 1 /\ reloads'[c] = reloads[c]
      BY <3>1 DEF TimerInv
    <3>4. missed'[c] + overticks'[c] <= Allowed(reloads'[c])
      <4>1. CASE missed'[c] = 0 /\ reloads'[c] = 0
        BY <3>3, <4>1, AllowedGrows
      <4>2. CASE overticks[c] # 0 /\ missed'[c] = missed[c] + 1 /\ reloads'[c] = reloads[c]
        BY <2>1, <3>3, <4>2
      <4> QED
        BY <3>3, <4>1, <4>2
    <3>5. ASSUME NEW d \in CPU, d # c
          PROVE  missed'[d] = missed[d] /\ overticks'[d] = overticks[d]
                 /\ reloads'[d] = reloads[d]
      BY <3>1, <3>5 DEF TimerInv
    <3>6. \A d \in CPU : d \in Watched => missed'[d] + overticks'[d] <= Allowed(reloads'[d])
      BY <3>4, <3>5 DEF TimerInv
    <3> QED
      BY <1>2, <2>2, <3>2, <3>6 DEF NormalTick, Unstretch, TimerInv
  <2>3. CASE stretch_flag[c] = 0
    BY <1>2, <2>1, <2>3, AllowedGrows DEF NormalTick, LocalTick, TimerInv, timerVars
  <2> QED
    BY <2>2, <2>3 DEF TimerInv
<1> QED
  BY <1>0, <1>1, <1>2 DEF my_smp_apic_timer_interrupt, StretchedTick

LEMMA TimerStep == ASSUME TsInv, TsNext PROVE TimerInv'
<1> USE AllowedGrows
<1>1. CASE UNCHANGED <<timerVars, tickVars>>
  BY <1>1 DEF TsInv, TimerInv, timerVars, tickVars
<1>2. CASE EndCleanup
  BY <1>2 DEF TsInv, TimerInv, EndCleanup
<1>3. ASSUME NEW c \in CPU, Interrupted(c) \/ LocalReset(c)
      PROVE  TimerInv'
  BY <1>3 DEF Interrupted, LocalReset, timer_reset, Unstretch, tickVars, TsInv, TimerInv
<1>4. ASSUME NEW c \in CPU, my_smp_apic_timer_interrupt(c)
      PROVE  TimerInv'
  BY <1>4, TickKeepsTime DEF TsInv
<1>5. ASSUME NEW c \in CPU, KernelTick(c)
      PROVE  TimerInv'
  <2>1. /\ UNCHANGED <<stretch_flag, overticks, timer>>
        /\ \/ UNCHANGED <<missed, reloads>>
           \/ missed' = [missed EXCEPT ![c] = 0] /\ reloads' = [reloads EXCEPT ![c] = 0]
    BY <1>5 DEF KernelTick, LocalTick, timerVars, tickVars
  <2>2. CASE UNCHANGED <<missed, reloads>>
    BY <1>1, <2>1, <2>2 DEF timerVars, tickVars
  <2>3. CASE missed' = [missed EXCEPT ![c] = 0] /\ reloads' = [reloads EXCEPT ![c] = 0]
    BY <2>1, <2>3 DEF TsInv, TimerInv
  <2> QED
    BY <2>1, <2>2, <2>3
<1>6. ASSUME NEW c \in CPU, scheduler_hook(c)
      PROVE  TimerInv'
  <2>0. missed' = missed
    BY <1>6 DEF scheduler_hook
  <2>1. CASE hook[c] = "found" /\ Stretch(c)
             /\ overticks' = [overticks EXCEPT ![c] = SCALE]
             /\ reloads' = IF c \in Watched THEN [reloads EXCEPT ![c] = @ + 1] ELSE reloads
    <3>1. CASE c \in Watched
      BY <2>0, <2>1, <3>1 DEF Stretch, TsInv, TimerInv
    <3>2. CASE c \notin Watched
      BY <2>0, <2>1, <3>2 DEF Stretch, TsInv, TimerInv
    <3> QED
      BY <3>1, <3>2
  <2>2. CASE Unstretch(c) /\ overticks' = [overticks EXCEPT ![c] = 0] /\ reloads' = reloads
    BY <2>0, <2>2 DEF Unstretch, TsInv, TimerInv
  <2>3. CASE UNCHANGED <<stretch_flag, overticks, timer, reloads>>
    BY <2>0, <2>3 DEF TsInv, TimerInv
  <2> QED
    BY <1>6, <2>1, <2>2, <2>3 DEF scheduler_hook, timerVars
<1>7. ASSUME NEW c \in CPU, NEW t \in Task, ThreadNext(t, c)
      PROVE  TimerInv'
  <2>1. CASE register_callback(t, c)
    BY <2>1 DEF register_callback, Stretch, tickVars, TsInv, TimerInv
  <2>2. CASE deregister_ts_thread(t, c)
    BY <2>2 DEF deregister_ts_thread, Unstretch, tickVars, TsInv, TimerInv
  <2>3. CASE UNCHANGED cpuVars
    BY <1>1, <2>3 DEF cpuVars
  <2> QED
    BY <1>7, <2>1, <2>2, <2>3 DEF ThreadNext, register_ts_thread, register_buffer,
         FreeDescriptor, StartTransaction, LeaveStm, EnterStm, EndTransaction,
         MaskTicks, Revalidated, Moves
<1>8. ASSUME NEW c \in CPU, time_stretch_release(c) \/ StartCleanup(c)
      PROVE  TimerInv'
  BY <1>1, <1>8 DEF time_stretch_release, StartCleanup, cpuVars
<1>9. ASSUME NEW c \in CPU, NEW t \in Task \cup {NoTask}, Switch(c, t)
      PROVE  TimerInv'
  BY <1>1, <1>9 DEF Switch
<1>10. ASSUME \/ time_stretch_init \/ (\E k \in {1, 2, 3, 5} : InitFails(k))
              \/ DelayIsOver \/ CallsDone \/ time_stretch_open
       PROVE  TimerInv'
  BY <1>1, <1>10 DEF time_stretch_init, InitFails, DelayIsOver, CallsDone,
       time_stretch_open, cpuVars
<1> QED
  BY <1>2, <1>3, <1>4, <1>5, <1>6, <1>7, <1>8, <1>9, <1>10, TsSteps

-----------------------------------------------------------------------------
(* Threads.                                                                *)

\* A tick delivers the callback to a thread in its own code only, whatever
\* buffer its slot holds.
LEMMA DeliveredInApp ==
  ASSUME NEW t, NEW b, NEW outcome \in Outcome(t, b), outcome = "deliver"
  PROVE  life[t] = "app"
<1>1. PICK late \in BOOLEAN, window \in BOOLEAN :
        outcome = IF machine.mode \in {"stubborn", "quiescent"}
                  THEN Stubborn(t, b, late, window) ELSE ModelBased(t, b, window)
  BY DEF Outcome
<1>2. ASSUME Stubborn(t, b, late, window) = "deliver"
      PROVE  life[t] = "app"
  BY <1>2 DEF Stubborn
<1>3. ASSUME ModelBased(t, b, window) = "deliver"
      PROVE  life[t] = "app"
  BY <1>3 DEF ModelBased
<1> QED
  BY <1>1, <1>2, <1>3

\* A tick leaves the threads alone, or diverts one thread from its own code.
LEMMA TickUser ==
  ASSUME NEW c \in CPU, my_smp_apic_timer_interrupt(c)
  PROVE  /\ txOn' = txOn
         /\ \/ life' = life
            \/ \E t : life[t] = "app" /\ life' = [life EXCEPT ![t] = "callback"]
<1>1. CASE UNCHANGED userVars
  BY <1>1 DEF userVars
<1>2. CASE \E i : \E outcome \in Outcome(slot[i], buffer[i]) :
                    Deliver(slot[i], buffer[i], outcome)
  BY <1>2, DeliveredInApp DEF Deliver
<1> QED
  BY <1>1, <1>2 DEF my_smp_apic_timer_interrupt, StretchedTick

\* A thread moves between application, STM and callback with tx_on.
LEMMA MovesUser ==
  ASSUME UserInv, NEW t \in Task, NEW c \in CPU, NEW from, NEW on \in BOOLEAN,
         NEW to \in {"idle", "stm", "app", "masked"}, to = "app" => on,
         Moves(t, c, from, to, on)
  PROVE  /\ UserInv'
         /\ \A u \in Task : life'[u] = "callback" => life[u] = "callback"
<1>1. life' = [life EXCEPT ![t] = to] /\ txOn' = [txOn EXCEPT ![t] = on]
  BY DEF Moves
<1>2. txOn' \in [Task -> BOOLEAN]
  BY <1>1 DEF UserInv
<1>3. \A u \in Task : life'[u] = "app" => txOn'[u]
  BY <1>1 DEF UserInv
<1> QED
  BY <1>1, <1>2, <1>3 DEF UserInv

\* A step of a thread keeps tx_on right and calls no callback.
LEMMA ThreadUser ==
  ASSUME UserInv, NEW t \in Task, NEW c \in CPU, ThreadNext(t, c)
  PROVE  /\ UserInv'
         /\ \A u \in Task : life'[u] = "callback" => life[u] = "callback"
<1>1. ASSUME NEW to \in {"registered", "callback set", "idle", "freed", "new"},
             life' = [life EXCEPT ![t] = to], txOn' = txOn
      PROVE  /\ UserInv'
             /\ \A u \in Task : life'[u] = "callback" => life[u] = "callback"
  BY <1>1 DEF UserInv
<1>2. CASE \/ register_ts_thread(t, c) \/ register_callback(t, c)
           \/ register_buffer(t, c)
  <2>1. \/ life' = [life EXCEPT ![t] = "registered"]
        \/ life' = [life EXCEPT ![t] = "callback set"]
        \/ life' = [life EXCEPT ![t] = "idle"]
    BY <1>2 DEF register_ts_thread, register_callback, register_buffer, Runs,
         InitThread, UserInv
  <2>2. txOn' = txOn
    BY <1>2 DEF register_ts_thread, register_callback, register_buffer
  <2> QED
    BY <1>1, <2>1, <2>2
<1>3. CASE FreeDescriptor(t, c)
  BY <1>1, <1>3 DEF FreeDescriptor
<1>4. CASE deregister_ts_thread(t, c)
  BY <1>1, <1>4 DEF deregister_ts_thread
<1>5. CASE StartTransaction(t, c)
  BY <1>5, MovesUser DEF StartTransaction
<1>6. CASE LeaveStm(t, c)
  BY <1>6, MovesUser DEF LeaveStm
<1>7. CASE EnterStm(t, c)
  BY <1>7, MovesUser DEF EnterStm
<1>8. CASE EndTransaction(t, c)
  BY <1>8, MovesUser DEF EndTransaction
<1>9. CASE MaskTicks(t, c)
  BY <1>9, MovesUser DEF MaskTicks
<1>10. CASE Revalidated(t, c)
  BY <1>10, MovesUser DEF Revalidated
<1> QED
  BY <1>2, <1>3, <1>4, <1>5, <1>6, <1>7, <1>8, <1>9, <1>10 DEF ThreadNext

\* Every step keeps tx_on right, and diverts a thread only from its own code.
LEMMA UserStep ==
  ASSUME TsInv, TsNext
  PROVE  /\ UserInv'
         /\ \A t \in Task : life'[t] = "callback" => life[t] \in {"callback", "app"}
<1> DEFINE Goal == /\ UserInv'
                   /\ \A t \in Task : life'[t] = "callback"
                                     => life[t] \in {"callback", "app"}
<1> USE DEF TsInv
<1>1. CASE UNCHANGED <<life, txOn>>
  BY <1>1 DEF UserInv
<1>2. ASSUME NEW c \in CPU, my_smp_apic_timer_interrupt(c)
      PROVE  Goal
  <2>1. CASE life' = life
    BY <1>1, <1>2, <2>1, TickUser
  <2>2. CASE \E t : life[t] = "app" /\ life' = [life EXCEPT ![t] = "callback"]
    BY <1>2, <2>2, TickUser DEF UserInv
  <2> QED
    BY <1>2, <2>1, <2>2, TickUser
<1>3. ASSUME NEW c \in CPU, NEW t \in Task, ThreadNext(t, c)
      PROVE  Goal
  BY <1>3, ThreadUser
<1>4. CASE time_stretch_open
  <2>1. life' = [t \in Task |-> "new"] /\ txOn' = txOn
    BY <1>4 DEF time_stretch_open
  <2> QED
    BY <2>1 DEF UserInv
<1>5. ASSUME NEW c \in CPU, time_stretch_release(c)
      PROVE  Goal
  <2>1. life' = [t \in Task |-> "dead"] /\ txOn' = [t \in Task |-> FALSE]
    BY <1>5 DEF time_stretch_release
  <2>2. txOn' \in [Task -> BOOLEAN]
    BY <2>1
  <2> QED
    BY <2>1, <2>2 DEF UserInv
<1>6. ASSUME NEW c \in CPU,
             \/ StartCleanup(c) \/ LocalReset(c) \/ Interrupted(c) \/ KernelTick(c)
             \/ scheduler_hook(c)
      PROVE  Goal
  BY <1>1, <1>6 DEF StartCleanup, LocalReset, Interrupted, KernelTick, scheduler_hook,
       userVars
<1>7. ASSUME NEW c \in CPU, NEW t \in Task \cup {NoTask}, Switch(c, t)
      PROVE  Goal
  BY <1>1, <1>7 DEF Switch, userVars
<1>8. ASSUME \/ time_stretch_init \/ (\E k \in {1, 2, 3, 5} : InitFails(k))
             \/ DelayIsOver \/ CallsDone \/ EndCleanup
      PROVE  Goal
  BY <1>1, <1>8 DEF time_stretch_init, InitFails, DelayIsOver, CallsDone, EndCleanup,
       userVars
<1> QED
  BY <1>2, <1>3, <1>4, <1>5, <1>6, <1>7, <1>8, TsSteps

-----------------------------------------------------------------------------
(* The module.                                                             *)

\* Steps that leave the module's own state alone keep ModuleInv if they set
\* no hook and stretch no timer while it is out.
LEMMA ModuleKept ==
  ASSUME ModuleInv, UNCHANGED <<moduleVars, machine>>,
         hook' \in [CPU -> {"no", "found", "none"}],
         mod = "in" => job'.kind \in {"no", "release", "calls"},
         mod # "in" => opened' = opened,
         mod = "leaving" => job'.kind \in {"delay", "cleanup", "calls", "wait"},
         mod = "leaving" /\ job'.kind # "delay" => \A c \in CPU : hook'[c] = "no",
         mod = "out" => /\ job' = job
                        /\ \A c \in CPU : hook'[c] = "no" /\ stretch_flag'[c] = 0
  PROVE  ModuleInv'
BY DEF ModuleInv, moduleVars, Patched

\* Loading patches the code and the timer interrupt.
LEMMA InitPatches ==
  ASSUME TsInv, time_stretch_init
  PROVE  ModuleInv'
<1>1. mod = "out" /\ text = machine.code /\ job = NoJob
  BY DEF TsInv, ModuleInv, time_stretch_init
<1>2. mod' = "in" /\ apic' = "module" /\ machine' = machine /\ job' = job /\ hook' = hook
  BY DEF time_stretch_init, scheduler_patch, cpuVars
<1> DEFINE s == check_patch_compatibility(machine.code)
<1>3. /\ site' = [next |-> s.next, n |-> s.n,
                  saved |-> SubSeq(machine.code, s.next - s.n, s.next - 1)]
      /\ text' = Overwritten(machine.code, s, Jump)
  BY <1>1 DEF time_stretch_init, scheduler_patch, prepare_self_patch
<1>4. text' = Overwritten(machine.code, site', Jump)
  BY <1>3 DEF Overwritten
<1>5. Patched'
  BY <1>2, <1>3, <1>4 DEF Patched
<1> QED
  BY <1>1, <1>2, <1>5 DEF TsInv, ModuleInv, NoJob

\* A failed load undoes whatever it had registered.
LEMMA InitFailsClean ==
  ASSUME TsInv, NEW k \in {1, 2, 3, 5}, InitFails(k)
  PROVE  ModuleInv'
<1>1. res' = {}
  <2>1. CASE k = 1
    BY <2>1 DEF InitFails
  <2>2. CASE k = 2
    BY <2>2 DEF InitFails, Unwound, Parts
  <2>3. CASE k = 3
    <3>1. \A j \in 1..2 : Parts[j] \in {"class", "chrdev"}
      BY DEF Parts
    <3>2. Unwound(k) = {"class", "chrdev"}
      BY <2>3 DEF Unwound
    <3> QED
      BY <2>3, <3>1, <3>2 DEF InitFails
  <2>4. CASE k = 5
    <3>1. \A j \in 1..4 : Parts[j] \in {"file", "device", "class", "chrdev"}
      BY DEF Parts
    <3>2. Unwound(k) = {"file", "device", "class", "chrdev"}
      BY <2>4 DEF Unwound
    <3> QED
      BY <2>4, <3>1, <3>2 DEF InitFails
  <2> QED
    BY <2>1, <2>2, <2>3, <2>4
<1>2. UNCHANGED <<mod, text, apic, site, opened, job, hook, stretch_flag, machine>>
  BY DEF InitFails, deviceVars, cpuVars, timerVars
<1> QED
  BY <1>1, <1>2 DEF TsInv, ModuleInv, InitFails, Patched

\* Unloading starts by restoring the code byte for byte.
LEMMA CleanupRestores ==
  ASSUME TsInv, NEW c \in CPU, StartCleanup(c)
  PROVE  ModuleInv'
<1> DEFINE code == machine.code
           s == check_patch_compatibility(code)
<1>1. mod = "in" /\ Patched
  BY DEF StartCleanup, TsInv, ModuleInv
<1>2. code \in Seq(STRING) /\ Len(code) > Fts
  BY TimeStretchAssumption DEF TsInv
<1>3. InCode(code, s)
  BY <1>2, PatchInCode
<1>4. /\ text = Overwritten(code, site, Jump)
      /\ site.next = s.next /\ site.n = s.n
      /\ site.saved = SubSeq(code, s.next - s.n, s.next - 1)
  BY <1>1 DEF Patched
<1>5. text' = code
  <2>1. text' = Overwritten(text, site, site.saved)
    BY DEF StartCleanup, scheduler_unpatch
  <2> HIDE DEF code, s
  <2>2. InCode(code, site) /\ site.saved = SubSeq(code, site.next - site.n, site.next - 1)
    BY <1>3, <1>4 DEF InCode
  <2>3. Overwritten(Overwritten(code, site, Jump), site,
                    SubSeq(code, site.next - site.n, site.next - 1)) = code
    BY <1>2, <2>2, UnpatchRestores
  <2> QED
    BY <1>4, <2>1, <2>2, <2>3
<1>6. /\ mod' = "leaving" /\ res' = {} /\ apic' = "kernel" /\ ~ opened'
      /\ job'.kind = "delay" /\ hook' = hook /\ machine' = machine
  BY DEF StartCleanup, scheduler_unpatch, deviceVars, cpuVars
<1> QED
  BY <1>5, <1>6 DEF TsInv, ModuleInv

LEMMA ModuleStep == ASSUME TsInv, TsNext PROVE ModuleInv'
<1> USE DEF TsInv
<1>1. CASE time_stretch_init
  BY <1>1, InitPatches
<1>2. ASSUME NEW k \in {1, 2, 3, 5}, InitFails(k)
      PROVE  ModuleInv'
  BY <1>2, InitFailsClean
<1>3. CASE DelayIsOver
  <2>1. /\ UNCHANGED <<moduleVars, machine, opened, hook, stretch_flag>>
        /\ job.kind = "delay" /\ job'.kind \in {"cleanup", job'.kind}
        /\ \A c \in CPU : hook[c] = "no"
    BY <1>3 DEF DelayIsOver, deviceVars, cpuVars, timerVars
  <2>2. mod = "leaving"
    BY <2>1 DEF ModuleInv, NoJob
  <2>3. job' = [job EXCEPT !.kind = "cleanup"]
    BY <1>3 DEF DelayIsOver
  <2> QED
    BY <2>1, <2>2, <2>3, ModuleKept DEF ModuleInv
<1>4. CASE EndCleanup
  <2>1. job.kind = "wait" /\ \A c \in CPU : stretch_flag[c] = 0
    BY <1>4 DEF EndCleanup
  <2>2. mod = "leaving"
    BY <2>1 DEF ModuleInv, NoJob
  <2> QED
    BY <1>4, <2>1, <2>2 DEF EndCleanup, ModuleInv, deviceVars
<1>5. CASE CallsDone
  <2>1. /\ UNCHANGED <<moduleVars, machine, opened, hook, stretch_flag>>
        /\ job.kind = "calls"
    BY <1>5 DEF CallsDone, deviceVars, cpuVars, timerVars
  <2>2. mod # "out"
    BY <2>1 DEF ModuleInv, NoJob
  <2>3. job' = IF mod = "leaving" THEN [job EXCEPT !.kind = "wait"] ELSE NoJob
    BY <1>5 DEF CallsDone
  <2> QED
    BY <2>1, <2>2, <2>3, ModuleKept DEF ModuleInv, NoJob
<1>6. CASE time_stretch_open
  BY <1>6 DEF time_stretch_open, ModuleInv, moduleVars, cpuVars, timerVars, Patched
<1>7. ASSUME NEW c \in CPU, time_stretch_release(c)
      PROVE  ModuleInv'
  <2>1. mod = "in"
    BY <1>7 DEF time_stretch_release, ModuleInv
  <2> QED
    BY <1>7, <2>1 DEF time_stretch_release, ModuleInv, moduleVars, cpuVars, timerVars,
         Patched
<1>8. ASSUME NEW c \in CPU, StartCleanup(c)
      PROVE  ModuleInv'
  BY <1>8, CleanupRestores
<1>9. ASSUME NEW c \in CPU, LocalReset(c)
      PROVE  ModuleInv'
  <2>1. /\ UNCHANGED <<moduleVars, machine, opened, hook>> /\ mod # "out"
        /\ job'.kind = "calls" /\ job.kind # "delay"
    BY <1>9 DEF LocalReset, deviceVars, ModuleInv, NoJob
  <2> QED
    BY <2>1, ModuleKept DEF ModuleInv
<1>10. ASSUME NEW c \in CPU, Interrupted(c)
       PROVE  ModuleInv'
  <2>1. UNCHANGED <<moduleVars, machine, opened, hook>> /\ mod # "out"
    BY <1>10 DEF Interrupted, deviceVars, ModuleInv, NoJob
  <2>2. job' = [job EXCEPT !.ipi = @ \ {c}]
    BY <1>10 DEF Interrupted
  <2>3. mod = "leaving" => job'.kind = job.kind
    BY <2>2
  <2>4. mod = "in" => job'.kind = job.kind
    BY <2>2
  <2> QED
    BY <2>1, <2>3, <2>4, ModuleKept DEF ModuleInv
<1>11. ASSUME NEW c \in CPU, my_smp_apic_timer_interrupt(c)
       PROVE  ModuleInv'
  <2>1. UNCHANGED <<moduleVars, machine, opened, hook, job>> /\ mod = "in"
    BY <1>11 DEF my_smp_apic_timer_interrupt, deviceVars, ModuleInv
  <2> QED
    BY <2>1, ModuleKept DEF ModuleInv
<1>12. ASSUME NEW c \in CPU, KernelTick(c)
       PROVE  ModuleInv'
  <2>1. UNCHANGED <<moduleVars, machine, opened, hook, job, stretch_flag>>
    BY <1>12 DEF KernelTick, deviceVars, timerVars
  <2> QED
    BY <2>1, ModuleKept DEF ModuleInv
<1>13. ASSUME NEW c \in CPU, scheduler_hook(c)
       PROVE  ModuleInv'
  <2>1. UNCHANGED <<moduleVars, machine, opened, job>> /\ hook[c] # "no"
        /\ hook' = [hook EXCEPT ![c] = "no"]
    BY <1>13 DEF scheduler_hook, deviceVars
  <2>2. mod # "out"
    BY <2>1 DEF ModuleInv
  <2> QED
    BY <2>1, <2>2, ModuleKept DEF ModuleInv
<1>14. ASSUME NEW c \in CPU, NEW t \in Task \cup {NoTask}, Switch(c, t)
       PROVE  ModuleInv'
  <2>1. UNCHANGED <<moduleVars, machine, opened, job, stretch_flag>>
    BY <1>14 DEF Switch, deviceVars, timerVars
  <2>2. hook' \in [CPU -> {"no", "found", "none"}]
    BY <1>14 DEF Switch, ModuleInv
  <2>3. mod # "in" => hook' = [hook EXCEPT ![c] = "no"]
    BY <1>14 DEF Switch, ModuleInv
  <2> QED
    BY <2>1, <2>2, <2>3, ModuleKept DEF ModuleInv
<1>15. ASSUME NEW c \in CPU, NEW t \in Task, ThreadNext(t, c)
       PROVE  ModuleInv'
  <2>1. opened
    BY <1>15 DEF ThreadNext, register_ts_thread, register_callback, register_buffer,
         FreeDescriptor, deregister_ts_thread, StartTransaction, LeaveStm, EnterStm,
         EndTransaction, MaskTicks, Revalidated, Moves, Runs
  <2>2. mod = "in"
    BY <2>1 DEF ModuleInv
  <2>3. UNCHANGED <<moduleVars, job, hook, machine>>
    BY <1>15 DEF ThreadNext, register_ts_thread, register_callback, register_buffer,
         FreeDescriptor, deregister_ts_thread, StartTransaction, LeaveStm, EnterStm,
         EndTransaction, MaskTicks, Revalidated, Moves, cpuVars
  <2> QED
    BY <2>2, <2>3, ModuleKept DEF ModuleInv
<1> QED
  BY <1>1, <1>2, <1>3, <1>4, <1>5, <1>6, <1>7, <1>8, <1>9, <1>10, <1>11, <1>12, <1>13,
     <1>14, <1>15, TsSteps

-----------------------------------------------------------------------------
(* The kernel module: theorems.                                            *)

\* The invariant holds in every reachable state.
THEOREM TsInvariant == TsSpec => []TsInv
<1>1. TsInv /\ [TsNext]_tsVars => TsInv'
  <2> SUFFICES ASSUME TsInv, [TsNext]_tsVars PROVE TsInv'
    OBVIOUS
  <2>1. CASE TsNext
    BY <2>1, MachineKept, TimerStep, UserStep, ModuleStep DEF TsInv
  <2>2. CASE UNCHANGED tsVars
    <3>1. UNCHANGED <<mod, text, apic, res, site, opened, job, stretch_flag, overticks,
                      timer, hook, missed, reloads, life, txOn, machine>>
      BY <2>2 DEF tsVars, moduleVars, deviceVars, cpuVars, timerVars, tickVars, userVars
    <3>2. TimerInv' /\ UserInv'
      BY <3>1 DEF TsInv, TimerInv, UserInv
    <3>3. ModuleInv'
      BY <3>1 DEF TsInv, ModuleInv, Patched
    <3> QED
      BY <3>1, <3>2, <3>3 DEF TsInv
  <2> QED
    BY <2>1, <2>2
<1> QED
  BY <1>1, TsInitInv, PTL DEF TsSpec

\* What a stretched timer costs the kernel, for every scaling factor: since
\* local_apic_timer_interrupt last ran on a CPU it was skipped at most SCALE
\* times, and SCALE times more for each registered thread switched in there
\* since; ioctls, switches to other threads and resets from other CPUs that
\* fall in between cost nothing.
THEOREM KernelTimeKept == TsSpec => []KernelKeepsTime
<1>1. TsInv => KernelKeepsTime
  <2>1. Watched \subseteq CPU
    BY TimeStretchAssumption
  <2>2. ASSUME TimerInv, NEW c \in CPU, c \in Watched
        PROVE  missed[c] <= Allowed(reloads[c])
    <3>1. /\ missed[c] \in Nat /\ overticks[c] \in 0..SCALE /\ Allowed(reloads[c]) \in Nat
          /\ missed[c] + overticks[c] <= Allowed(reloads[c]) /\ SCALE \in Nat
      BY <2>2, AllowedGrows DEF TimerInv
    <3> QED
      BY <3>1
  <2> QED
    BY <2>1, <2>2 DEF TsInv, KernelKeepsTime
<1> QED
  BY <1>1, TsInvariant, PTL

\* For every kernel code and every position of the patch in it, the code after
\* scheduler_unpatch is the code before scheduler_patch, and no timer is left
\* stretched when the module is gone.
THEOREM UnloadComplete == TsSpec => []UnloadRestores
<1>1. TsInv => UnloadRestores
  BY DEF TsInv, TimerInv, ModuleInv, UnloadRestores
<1> QED
  BY <1>1, TsInvariant, PTL

\* The handler of the timer interrupt diverts a thread to stm_revalidate only
\* out of the application code of a transaction under way.
THEOREM CallbacksInApp == TsSpec => CallbackInApp
<1>1. TsInv /\ [TsNext]_tsVars =>
        [\A t \in Task : life[t] # "callback" /\ life'[t] = "callback"
                           => life[t] = "app" /\ txOn[t]]_tsVars
  <2> SUFFICES ASSUME TsInv, TsNext
               PROVE  \A t \in Task : life[t] # "callback" /\ life'[t] = "callback"
                                        => life[t] = "app" /\ txOn[t]
    OBVIOUS
  <2>1. \A t \in Task : life'[t] = "callback" => life[t] \in {"callback", "app"}
    BY UserStep
  <2>2. \A t \in Task : life[t] = "app" => txOn[t]
    BY DEF TsInv, UserInv
  <2> QED
    BY <2>1, <2>2
<1> QED
  BY <1>1, TsInvariant, PTL DEF TsSpec, CallbackInApp

-----------------------------------------------------------------------------
(***************************************************************************)
(* The spinning barrier of barrier.h.  A round has two halves: while barr  *)
(* is -1 threads arrive, and c1 says how many have not; from the first     *)
(* increment of barr on they leave, and nobody arrives until the thread    *)
(* that made it has reset the barrier.                                     *)
(***************************************************************************)
OutsideBarrier == {"start", "call", "left", "work", "join", "gone"}
Leading == {"lead", "spin2", "reset2", "reset3"}
AtSteps(S) == {t \in Live : step[t] \in S}

\* Rounds 1 to m had one leader each.
LedOnce(m) ==
  /\ \A t \in Live : led[t] \subseteq 1..m
  /\ \A t, u \in Live : t # u => led[t] \cap led[u] = {}
  /\ \A e \in 1..m : \E t \in Live : e \in led[t]

\* r rounds are over and threads arrive for the next.
Arriving(r) ==
  /\ barr = 0 - 1 /\ c2 = pool.n
  /\ c1 = pool.n - Cardinality(AtSteps({"spin1"}))
  /\ \A t \in Live :
       /\ left[t] = r
       /\ \/ step[t] \in OutsideBarrier /\ entered[t] = r
          \/ step[t] \in {"dec", "spin1"} /\ entered[t] = r + 1
  /\ LedOnce(r)

\* All have arrived for round r + 1, l is its leader, and threads leave; when l
\* resets the barrier, the others have left.
LeavingBehind(r, l) ==
  /\ step[l] \in Leading
  /\ \A t \in Live : t # l => step[t] \notin Leading
  /\ step[l] \in {"lead", "spin2"} => c1 = 0 /\ c2 = Cardinality(AtSteps({"spin1", "lead", "follow"}))
  /\ step[l] \in {"reset2", "reset3"} =>
       /\ c1 = pool.n /\ c2 = IF step[l] = "reset2" THEN 0 ELSE pool.n
       /\ \A t \in Live : t # l => step[t] \in OutsideBarrier
  /\ barr >= 0
  /\ \A t \in Live :
       /\ entered[t] = r + 1
       /\ \/ step[t] \in OutsideBarrier /\ left[t] = r + 1
          \/ step[t] \in {"spin1", "follow"} \cup Leading /\ left[t] = r
  /\ LedOnce(r + 1)

SpinType ==
  /\ step = [m \in Member |-> step[m]]
  /\ entered \in [Member -> Nat] /\ left \in [Member -> Nat]
  /\ led \in [Member -> SUBSET Nat]
  /\ c1 \in Int /\ c2 \in Int /\ barr \in Int

SpinInv ==
  /\ pool \in Pools
  /\ pool.kind = "spin" =>
       /\ SpinType
       /\ \E r \in Nat : Arriving(r) \/ \E l \in Live : LeavingBehind(r, l)

\* The threads of a pool are a finite set of pool.n members.
LEMMA LiveFinite ==
  ASSUME pool \in Pools
  PROVE  /\ pool.n \in Nat /\ pool.n >= 1 /\ Live \subseteq Member /\ 0 \in Live
         /\ IsFiniteSet(Live) /\ Cardinality(Live) = pool.n
<1>1. pool.n \in Nat /\ pool.n >= 1 /\ pool.n <= MaxPool /\ MaxPool \in Nat
  BY BarriersAssumption
<1>2. Live \subseteq Member /\ 0 \in Live
  BY <1>1 DEF Live, Member
<1>3. IsFiniteSet(Live) /\ Cardinality(Live) = pool.n
  <2>1. 0 \in Int /\ pool.n - 1 \in Int /\ ~(0 > pool.n - 1) /\ (pool.n - 1) - 0 + 1 = pool.n
    BY <1>1
  <2> DEFINE m == pool.n - 1
  <2>2. IsFiniteSet(0 .. m) /\ Cardinality(0 .. m) = IF 0 > m THEN 0 ELSE m - 0 + 1
    <3> HIDE DEF m
    <3>1. m \in Int
      BY <2>1 DEF m
    <3> QED
      BY <3>1, FS_Interval
  <2> QED
    BY <2>1, <2>2 DEF Live
<1> QED
  BY <1>1, <1>2, <1>3

\* How many threads are at some steps, before and after thread t moves.
LEMMA StepCount ==
  ASSUME pool \in Pools, SpinType, pool' = pool, NEW t \in Live, NEW to,
         step' = [step EXCEPT ![t] = to], NEW S
  PROVE  /\ Cardinality(AtSteps(S)) \in Nat
         /\ step[t] \in S /\ to \in S => Cardinality(AtSteps(S))' = Cardinality(AtSteps(S))
         /\ step[t] \notin S /\ to \notin S => Cardinality(AtSteps(S))' = Cardinality(AtSteps(S))
         /\ step[t] \notin S /\ to \in S => Cardinality(AtSteps(S))' = Cardinality(AtSteps(S)) + 1
         /\ step[t] \in S /\ to \notin S => Cardinality(AtSteps(S))' = Cardinality(AtSteps(S)) - 1
<1>1. IsFiniteSet(AtSteps(S)) /\ Cardinality(AtSteps(S)) \in Nat
  BY LiveFinite, FS_Subset, FS_CardinalityType DEF AtSteps
<1>2. Live' = Live /\ Live \subseteq Member
  BY LiveFinite DEF Live
<1>3. \A u \in Live : step'[u] = IF u = t THEN to ELSE step[u]
  BY <1>2 DEF SpinType
<1>4. CASE step[t] \in S <=> to \in S
  <2>1. AtSteps(S)' = AtSteps(S)
    BY <1>2, <1>3, <1>4 DEF AtSteps
  <2> QED
    BY <1>1, <1>4, <2>1
<1>5. CASE step[t] \notin S /\ to \in S
  <2>1. AtSteps(S)' = AtSteps(S) \cup {t} /\ t \notin AtSteps(S)
    BY <1>2, <1>3, <1>5 DEF AtSteps
  <2> QED
    BY <1>1, <1>5, <2>1, FS_AddElement
<1>6. CASE step[t] \in S /\ to \notin S
  <2>1. AtSteps(S)' = AtSteps(S) \ {t} /\ t \in AtSteps(S)
    BY <1>2, <1>3, <1>6 DEF AtSteps
  <2> QED
    BY <1>1, <1>6, <2>1, FS_RemoveElement
<1> QED
  BY <1>1, <1>4, <1>5, <1>6

\* No thread is at those steps, or every one is.
LEMMA StepsEmptyFull ==
  ASSUME pool \in Pools, NEW S
  PROVE  /\ Cardinality(AtSteps(S)) = 0 => \A t \in Live : step[t] \notin S
         /\ Cardinality(AtSteps(S)) = pool.n => \A t \in Live : step[t] \in S
         /\ (\A t \in Live : step[t] \in S) => Cardinality(AtSteps(S)) = pool.n
         /\ (\A t \in Live : step[t] \notin S) => Cardinality(AtSteps(S)) = 0
<1>1. IsFiniteSet(AtSteps(S)) /\ (Cardinality(AtSteps(S)) = Cardinality(Live) => AtSteps(S) = Live)
  BY LiveFinite, FS_Subset DEF AtSteps
<1>2. Cardinality(AtSteps(S)) = 0 <=> AtSteps(S) = {}
  BY <1>1, FS_EmptySet
<1>3. (\A t \in Live : step[t] \in S) => AtSteps(S) = Live
  BY DEF AtSteps
<1>4. (\A t \in Live : step[t] \notin S) => AtSteps(S) = {}
  BY DEF AtSteps
<1> QED
  BY <1>1, <1>2, <1>3, <1>4, LiveFinite DEF AtSteps

-----------------------------------------------------------------------------
(* The spinning barrier: its steps.                                        *)

LEMMA SpinInit ==
  ASSUME BarriersInit
  PROVE  SpinInv
<1>1. pool \in Pools
  BY DEF BarriersInit
<1> SUFFICES ASSUME pool.kind = "spin"
             PROVE  SpinType /\ Arriving(0)
  BY <1>1 DEF SpinInv
<1>2. pool.n \in Nat /\ Live \subseteq Member
  BY <1>1, LiveFinite
<1>3. SpinType
  <2>1. step = [m \in Member |-> step[m]]
    BY DEF BarriersInit, thread_startup
  <2> QED
    BY <1>2, <2>1 DEF BarriersInit, atomic_reset, SpinType
<1>4. \A t \in Live : step[t] \in OutsideBarrier /\ left[t] = 0 /\ entered[t] = 0 /\ led[t] = {}
  BY <1>2 DEF BarriersInit, thread_startup, OutsideBarrier
<1>5. Cardinality(AtSteps({"spin1"})) = 0
  BY <1>1, <1>4, StepsEmptyFull DEF OutsideBarrier
<1>6. LedOnce(0)
  BY <1>4 DEF LedOnce
<1> QED
  BY <1>2, <1>3, <1>4, <1>5, <1>6 DEF BarriersInit, atomic_reset, Arriving

\* A thread moves outside of the barrier.
OutsideStep(t) ==
  /\ step[t] \in OutsideBarrier
  /\ \E to \in OutsideBarrier : step' = [step EXCEPT ![t] = to]
  /\ UNCHANGED <<pool, spinVars, entered, left, led>>

\* What a step of a pool with the spinning barrier is.
LEMMA SpinSteps ==
  ASSUME SpinInv, BarriersNext, pool.kind = "spin"
  PROVE  \E t \in Live : \/ OutsideStep(t) \/ SpinEnter(t) \/ SpinArrive(t) \/ SpinElect(t)
                         \/ SpinSynced(t) \/ SpinReset(t)
<1>1. pool \in Pools /\ SpinType /\ 0 \in Live /\ Live \subseteq Member
  BY LiveFinite DEF SpinInv
<1>2. \A t \in Live : step[t] \in OutsideBarrier \cup {"dec", "spin1", "follow"} \cup Leading
  BY DEF SpinInv, Arriving, LeavingBehind
<1>3. ASSUME PrimaryNext
      PROVE  OutsideStep(0)
  BY <1>3 DEF PrimaryNext, thread_start, thread_shutdown, JoinAll, OutsideStep, OutsideBarrier, Go,
     poolVars, spinVars, cellVars
<1>4. ASSUME NEW t \in Live, AfterBarrier(t) \/ RunSection(t)
      PROVE  OutsideStep(t)
  <2>1. CASE RunSection(t)
    BY <2>1 DEF RunSection, OutsideStep, OutsideBarrier, Go
  <2>2. CASE AfterBarrier(t)
    <3>1. (CASE stage[t] = "begin" /\ doShutdown -> IF t = 0 THEN "join" ELSE "gone"
             [] stage[t] = "begin" /\ ~doShutdown -> "work"
             [] OTHER -> IF t = 0 THEN "start" ELSE "call") \in OutsideBarrier
      BY DEF OutsideBarrier
    <3> QED
      BY <2>2, <3>1 DEF AfterBarrier, OutsideStep, OutsideBarrier, Go
  <2> QED
    BY <1>4, <2>1, <2>2
<1>5. ASSUME NEW t \in Live, Barrier(t)
      PROVE  SpinEnter(t) \/ SpinArrive(t) \/ SpinElect(t) \/ SpinSynced(t) \/ SpinReset(t)
  <2>1. step[t] \notin {"up", "check", "report", "signal"}
    BY <1>2 DEF OutsideBarrier, Leading
  <2> QED
    BY <1>5, <2>1 DEF Barrier, TreeEnter, TreeUp, TreePaired, TreeDown, GroupsEnter, GroupsCheck,
       GroupsReport, GroupsWoken, GroupsSignal
<1> QED
  BY <1>1, <1>3, <1>4, <1>5 DEF BarriersNext, MemberNext

\* A step outside leaves both halves of a round as they are.
LEMMA OutsideKeeps ==
  ASSUME SpinInv, pool.kind = "spin", NEW t \in Live, OutsideStep(t)
  PROVE  SpinInv'
<1>1. pool \in Pools /\ SpinType /\ Live \subseteq Member /\ Live' = Live /\ pool' = pool
  BY LiveFinite DEF SpinInv, OutsideStep, Live
<1>2. PICK to \in OutsideBarrier : step' = [step EXCEPT ![t] = to]
  BY DEF OutsideStep
<1>3. to \notin {"spin1", "lead", "follow"} /\ step[t] \notin {"spin1", "lead", "follow"}
  BY DEF OutsideBarrier, OutsideStep
<1>4. \A u \in Live : step'[u] = IF u = t THEN to ELSE step[u]
  BY <1>1, <1>2 DEF SpinType
<1>5. /\ Cardinality(AtSteps({"spin1"}))' = Cardinality(AtSteps({"spin1"}))
      /\ Cardinality(AtSteps({"spin1", "lead", "follow"}))' =
           Cardinality(AtSteps({"spin1", "lead", "follow"}))
  BY <1>1, <1>2, <1>3, StepCount
<1>6. SpinType'
  BY <1>1, <1>2, <1>3 DEF SpinType, OutsideStep, spinVars
<1>7. ASSUME NEW m
      PROVE  LedOnce(m) => LedOnce(m)'
  BY <1>1 DEF LedOnce, OutsideStep
<1>8. ASSUME NEW r \in Nat, Arriving(r)
      PROVE  Arriving(r)'
  BY <1>1, <1>4, <1>5, <1>7, <1>8 DEF Arriving, OutsideStep, OutsideBarrier, spinVars
<1>9. ASSUME NEW r \in Nat, NEW l \in Live, LeavingBehind(r, l)
      PROVE  LeavingBehind(r, l)'
  <2>1. l # t
    BY <1>9 DEF LeavingBehind, OutsideStep, OutsideBarrier, Leading
  <2> QED
    BY <1>1, <1>4, <1>5, <1>7, <1>9, <2>1
       DEF LeavingBehind, OutsideStep, OutsideBarrier, Leading, spinVars
<1> QED
  BY <1>1, <1>6, <1>8, <1>9 DEF SpinInv

\* Threads arrive only in the first half.
LEMMA ArriveKeeps ==
  ASSUME SpinInv, pool.kind = "spin", NEW t \in Live, SpinEnter(t) \/ SpinArrive(t)
  PROVE  SpinInv'
<1>1. pool \in Pools /\ SpinType /\ Live \subseteq Member /\ Live' = Live /\ pool' = pool
  BY LiveFinite DEF SpinInv, SpinEnter, SpinArrive, Live
<1>2. PICK r \in Nat : Arriving(r)
  <2>1. barr = 0 - 1 \/ step[t] = "dec"
    BY DEF SpinEnter, SpinArrive
  <2>2. ASSUME NEW r \in Nat, NEW l \in Live, LeavingBehind(r, l)
        PROVE  FALSE
    BY <1>1, <2>1, <2>2 DEF LeavingBehind, OutsideBarrier, Leading
  <2> QED
    BY <2>2 DEF SpinInv
<1> DEFINE to == IF step[t] = "dec" THEN "spin1" ELSE "dec"
<1>3. step' = [step EXCEPT ![t] = to] /\ led' = led /\ left' = left
      /\ c2' = c2 /\ barr' = barr
  BY DEF SpinEnter, SpinArrive, Enter, Go, spinVars
<1>4. \A u \in Live : step'[u] = IF u = t THEN to ELSE step[u]
  BY <1>1, <1>3 DEF SpinType
<1>5. LedOnce(r)'
  BY <1>1, <1>2, <1>3 DEF LedOnce, Arriving
<1>6. CASE SpinEnter(t)
  <2>1. step[t] = "call" /\ entered' = [entered EXCEPT ![t] = @ + 1] /\ c1' = c1
    BY <1>6 DEF SpinEnter, Enter, spinVars
  <2>2. Cardinality(AtSteps({"spin1"}))' = Cardinality(AtSteps({"spin1"}))
    <3>1. step[t] \notin {"spin1"} /\ to \notin {"spin1"}
      BY <2>1
    <3> HIDE DEF to
    <3> QED
      BY <1>1, <1>3, <3>1, StepCount
  <2>3. SpinType'
    BY <1>1, <1>3, <2>1 DEF SpinType
  <2>4. Arriving(r)'
    BY <1>1, <1>2, <1>3, <1>4, <1>5, <2>1, <2>2 DEF Arriving, SpinType, OutsideBarrier
  <2> QED
    BY <1>1, <2>3, <2>4 DEF SpinInv
<1>7. CASE SpinArrive(t)
  <2>1. step[t] = "dec" /\ entered' = entered /\ c1' = c1 - 1
    BY <1>7 DEF SpinArrive
  <2>2. /\ Cardinality(AtSteps({"spin1"}))' = Cardinality(AtSteps({"spin1"})) + 1
        /\ Cardinality(AtSteps({"spin1"})) \in Nat /\ pool.n \in Nat
    BY <1>1, <1>3, <2>1, StepCount, LiveFinite
  <2>3. SpinType'
    BY <1>1, <1>3, <2>1 DEF SpinType
  <2>4. c1' = pool'.n - Cardinality(AtSteps({"spin1"}))'
    BY <1>1, <1>2, <2>1, <2>2 DEF Arriving
  <2>5. Arriving(r)'
    BY <1>1, <1>2, <1>3, <1>4, <1>5, <2>1, <2>4 DEF Arriving, SpinType, OutsideBarrier
  <2> QED
    BY <1>1, <2>3, <2>5 DEF SpinInv
<1> QED
  BY <1>6, <1>7

\* The first to see that all have arrived leads; the others follow.
LEMMA ElectKeeps ==
  ASSUME SpinInv, pool.kind = "spin", NEW t \in Live, SpinElect(t)
  PROVE  SpinInv'
<1>1. /\ pool \in Pools /\ SpinType /\ Live \subseteq Member /\ Live' = Live /\ pool' = pool
      /\ pool.n \in Nat /\ pool.n >= 1
  BY LiveFinite DEF SpinInv, SpinElect, Live
<1>2. step[t] = "spin1" /\ c1 = 0 /\ barr' = barr + 1
      /\ UNCHANGED <<c1, c2, entered, left>>
  BY DEF SpinElect
<1>3. CASE \E r \in Nat : Arriving(r)
  <2>1. PICK r \in Nat : Arriving(r)
    BY <1>3
  <2>2. step' = [step EXCEPT ![t] = "lead"] /\ led' = [led EXCEPT ![t] = @ \cup {entered[t]}]
        /\ barr' = 0
    BY <2>1 DEF SpinElect, Elected, Arriving, Go
  <2>3. \A u \in Live : step[u] = "spin1" /\ entered[u] = r + 1 /\ left[u] = r
    <3>1. Cardinality(AtSteps({"spin1"})) \in Nat
      BY <1>1, <2>2, StepCount
    <3>2. Cardinality(AtSteps({"spin1"})) = pool.n
      BY <1>1, <1>2, <2>1, <3>1 DEF Arriving
    <3>3. \A u \in Live : step[u] = "spin1"
      BY <1>1, <3>2, StepsEmptyFull
    <3> QED
      BY <2>1, <3>3 DEF Arriving, OutsideBarrier
  <2>4. \A u \in Live : step'[u] = IF u = t THEN "lead" ELSE "spin1"
    BY <1>1, <2>2, <2>3 DEF SpinType
  <2>5. Cardinality(AtSteps({"spin1", "lead", "follow"}))' = c2'
    <3>1. Cardinality(AtSteps({"spin1", "lead", "follow"})) = pool.n
      BY <1>1, <2>3, StepsEmptyFull
    <3>2. Cardinality(AtSteps({"spin1", "lead", "follow"}))' =
            Cardinality(AtSteps({"spin1", "lead", "follow"}))
      BY <1>1, <1>2, <2>2, StepCount
    <3> QED
      BY <1>2, <2>1, <3>1, <3>2 DEF Arriving
  <2>6. LedOnce(r + 1)'
    <3>1. LedOnce(r)
      BY <2>1 DEF Arriving
    <3>2. \A u \in Live : led'[u] = IF u = t THEN led[u] \cup {r + 1} ELSE led[u]
      BY <1>1, <2>2, <2>3 DEF SpinType
    <3>3. \A u \in Live : led'[u] \subseteq 1 .. (r + 1)
      <4>1. \A e \in 1 .. r : e \in 1 .. (r + 1)
        OBVIOUS
      <4>2. r + 1 \in 1 .. (r + 1)
        OBVIOUS
      <4> QED
        BY <3>1, <3>2, <4>1, <4>2 DEF LedOnce
    <3>4. \A u, v \in Live : u # v => led'[u] \cap led'[v] = {}
      <4>1. \A u \in Live : r + 1 \notin led[u]
        BY <3>1 DEF LedOnce
      <4>2. \A u, v \in Live : u # v => led[u] \cap led[v] = {}
        BY <3>1 DEF LedOnce
      <4> SUFFICES ASSUME NEW u \in Live, NEW v \in Live, u # v, NEW e \in led'[u], e \in led'[v]
                   PROVE  FALSE
        OBVIOUS
      <4> QED
        BY <3>2, <4>1, <4>2
    <3>5. \A e \in 1 .. (r + 1) : \E u \in Live : e \in led'[u]
      <4>1. \A e \in 1 .. (r + 1) : e = r + 1 \/ e \in 1 .. r
        OBVIOUS
      <4> QED
        BY <3>1, <3>2, <4>1 DEF LedOnce
    <3> QED
      BY <1>1, <3>3, <3>4, <3>5 DEF LedOnce
  <2>7. LeavingBehind(r, t)'
    BY <1>1, <1>2, <2>2, <2>3, <2>4, <2>5, <2>6 DEF LeavingBehind, Leading
  <2>8. SpinType'
    BY <1>1, <1>2, <2>2 DEF SpinType
  <2> QED
    BY <1>1, <2>7, <2>8 DEF SpinInv
<1>4. CASE \E r \in Nat : \E l \in Live : LeavingBehind(r, l)
  <2>1. PICK r \in Nat, l \in Live : LeavingBehind(r, l)
    BY <1>4
  <2>2. barr >= 0 /\ barr + 1 # 0 /\ barr + 1 >= 0
    BY <1>1, <2>1 DEF LeavingBehind, SpinType
  <2>3. step' = [step EXCEPT ![t] = "follow"] /\ led' = led
    BY <2>2 DEF SpinElect, Elected, Go
  <2>4. l # t /\ step[l] \in {"lead", "spin2"}
    BY <1>1, <1>2, <2>1 DEF LeavingBehind, Leading, OutsideBarrier
  <2>5. \A u \in Live : step'[u] = IF u = t THEN "follow" ELSE step[u]
    BY <1>1, <2>3 DEF SpinType
  <2>6. Cardinality(AtSteps({"spin1", "lead", "follow"}))' =
          Cardinality(AtSteps({"spin1", "lead", "follow"}))
    BY <1>1, <1>2, <2>3, StepCount
  <2>7. LedOnce(r + 1)'
    BY <1>1, <2>1, <2>3 DEF LedOnce, LeavingBehind
  <2>8. LeavingBehind(r, l)'
    BY <1>1, <1>2, <2>1, <2>2, <2>4, <2>5, <2>6, <2>7 DEF LeavingBehind, Leading, OutsideBarrier
  <2>9. SpinType'
    BY <1>1, <1>2, <2>3 DEF SpinType
  <2> QED
    BY <1>1, <2>8, <2>9 DEF SpinInv
<1> QED
  BY <1>3, <1>4 DEF SpinInv

\* The others leave; the leader waits for them.
LEMMA SyncedKeeps ==
  ASSUME SpinInv, pool.kind = "spin", NEW t \in Live, SpinSynced(t)
  PROVE  SpinInv'
<1>1. /\ pool \in Pools /\ SpinType /\ Live \subseteq Member /\ Live' = Live /\ pool' = pool
      /\ pool.n \in Nat /\ pool.n >= 1
  BY LiveFinite DEF SpinInv, SpinSynced, Live
<1>2. step[t] \in {"lead", "follow"} /\ c2' = c2 - 1 /\ UNCHANGED <<c1, barr, entered, led>>
  BY DEF SpinSynced
<1>3. PICK r \in Nat, l \in Live : LeavingBehind(r, l)
  <2>1. ASSUME NEW r \in Nat, Arriving(r)
        PROVE  FALSE
    BY <1>2, <2>1 DEF Arriving, OutsideBarrier
  <2> QED
    BY <2>1 DEF SpinInv
<1> DEFINE to == IF step[t] = "lead" THEN "spin2" ELSE "left"
<1>4. step' = [step EXCEPT ![t] = to]
      /\ left' = IF step[t] = "lead" THEN left ELSE [left EXCEPT ![t] = @ + 1]
  BY DEF SpinSynced, Leave, Go
<1>5. \A u \in Live : step'[u] = IF u = t THEN to ELSE step[u]
  BY <1>1, <1>4 DEF SpinType
<1>6. \A u \in Live : left'[u] = IF u = t /\ step[t] # "lead" THEN left[u] + 1 ELSE left[u]
  BY <1>1, <1>4 DEF SpinType
<1>7. step[l] \in {"lead", "spin2"} /\ (step[t] = "lead" <=> l = t)
  BY <1>2, <1>3 DEF LeavingBehind, Leading, OutsideBarrier
<1>8. c2' = Cardinality(AtSteps({"spin1", "lead", "follow"}))'
  <2>1. Cardinality(AtSteps({"spin1", "lead", "follow"}))' =
          Cardinality(AtSteps({"spin1", "lead", "follow"})) - 1
    <3>1. step[t] \in {"spin1", "lead", "follow"} /\ to \notin {"spin1", "lead", "follow"}
      BY <1>2
    <3> HIDE DEF to
    <3> QED
      BY <1>1, <1>4, <3>1, StepCount
  <2> QED
    BY <1>2, <1>3, <1>7, <2>1 DEF LeavingBehind
<1>9. LedOnce(r + 1)'
  BY <1>1, <1>2, <1>3 DEF LedOnce, LeavingBehind
<1>10. LeavingBehind(r, l)'
  BY <1>1, <1>2, <1>3, <1>5, <1>6, <1>7, <1>8, <1>9 DEF LeavingBehind, Leading, OutsideBarrier, SpinType
<1>11. SpinType'
  BY <1>1, <1>2, <1>4 DEF SpinType
<1> QED
  BY <1>1, <1>10, <1>11 DEF SpinInv

\* The leader resets the barrier when all the others have left, and the next
\* round begins with its last store.
LEMMA ResetKeeps ==
  ASSUME SpinInv, pool.kind = "spin", NEW t \in Live, SpinReset(t)
  PROVE  SpinInv'
<1>1. /\ pool \in Pools /\ SpinType /\ Live \subseteq Member /\ Live' = Live /\ pool' = pool
      /\ pool.n \in Nat /\ pool.n >= 1
  BY LiveFinite DEF SpinInv, SpinReset, Live
<1>2. step[t] \in {"spin2", "reset2", "reset3"} /\ UNCHANGED <<entered, led>>
  BY DEF SpinReset, ResetInOrder
<1>3. PICK r \in Nat, l \in Live : LeavingBehind(r, l)
  <2>1. ASSUME NEW r \in Nat, Arriving(r)
        PROVE  FALSE
    BY <1>2, <2>1 DEF Arriving, OutsideBarrier
  <2> QED
    BY <2>1 DEF SpinInv
<1>4. l = t /\ LedOnce(r + 1)'
  BY <1>1, <1>2, <1>3 DEF LeavingBehind, Leading, LedOnce
<1>5. CASE step[t] = "spin2"
  <2>1. c2 = 0 /\ c1' = pool.n /\ step' = [step EXCEPT ![t] = "reset2"] /\ UNCHANGED <<c2, barr, left>>
    BY <1>5 DEF SpinReset, ResetInOrder, Go
  <2>2. \A u \in Live : step'[u] = IF u = t THEN "reset2" ELSE step[u]
    BY <1>1, <2>1 DEF SpinType
  <2>3. \A u \in Live : u # t => step[u] \in OutsideBarrier
    <3>1. Cardinality(AtSteps({"spin1", "lead", "follow"})) = 0
      BY <1>3, <1>4, <1>5, <2>1 DEF LeavingBehind
    <3>2. \A u \in Live : step[u] \notin {"spin1", "lead", "follow"}
      BY <1>1, <3>1, StepsEmptyFull
    <3> QED
      BY <1>3, <1>4, <3>2 DEF LeavingBehind
  <2>4. LeavingBehind(r, t)'
    BY <1>1, <1>2, <1>3, <1>4, <1>5, <2>1, <2>2, <2>3 DEF LeavingBehind, Leading, OutsideBarrier
  <2>5. SpinType'
    BY <1>1, <1>2, <2>1 DEF SpinType
  <2> QED
    BY <1>1, <2>4, <2>5 DEF SpinInv
<1>6. CASE step[t] = "reset2"
  <2>1. c2' = pool.n /\ step' = [step EXCEPT ![t] = "reset3"] /\ UNCHANGED <<c1, barr, left>>
    BY <1>6 DEF SpinReset, ResetInOrder, Go
  <2>2. \A u \in Live : step'[u] = IF u = t THEN "reset3" ELSE step[u]
    BY <1>1, <2>1 DEF SpinType
  <2>3. LeavingBehind(r, t)'
    BY <1>1, <1>2, <1>3, <1>4, <1>6, <2>1, <2>2 DEF LeavingBehind, Leading, OutsideBarrier
  <2>4. SpinType'
    BY <1>1, <1>2, <2>1 DEF SpinType
  <2> QED
    BY <1>1, <2>3, <2>4 DEF SpinInv
<1>7. CASE step[t] = "reset3"
  <2>1. /\ barr' = 0 - 1 /\ step' = [step EXCEPT ![t] = "left"]
        /\ left' = [left EXCEPT ![t] = @ + 1] /\ UNCHANGED <<c1, c2>>
    BY <1>7 DEF SpinReset, ResetInOrder, Leave, Go
  <2>2. \A u \in Live : step'[u] = IF u = t THEN "left" ELSE step[u]
    BY <1>1, <2>1 DEF SpinType
  <2>3. \A u \in Live : step'[u] \in OutsideBarrier
    BY <1>3, <1>4, <1>7, <2>2 DEF LeavingBehind, OutsideBarrier
  <2>4. Cardinality(AtSteps({"spin1"}))' = 0
    <3>1. \A u \in Live : step[u] \notin {"spin1"}
      BY <1>3, <1>4, <1>7 DEF LeavingBehind, OutsideBarrier
    <3>2. Cardinality(AtSteps({"spin1"})) = 0
      BY <1>1, <3>1, StepsEmptyFull
    <3>3. step[t] \notin {"spin1"} /\ "left" \notin {"spin1"}
      BY <1>7
    <3> QED
      BY <1>1, <2>1, <3>2, <3>3, StepCount
  <2>5. \A u \in Live : left'[u] = r + 1 /\ entered'[u] = r + 1
    BY <1>1, <1>2, <1>3, <1>4, <1>7, <2>1 DEF LeavingBehind, SpinType, OutsideBarrier, Leading
  <2>6. c1' = pool.n /\ c2' = pool.n
    BY <1>3, <1>4, <1>7, <2>1 DEF LeavingBehind
  <2>7. Arriving(r + 1)'
    BY <1>1, <1>4, <2>1, <2>3, <2>4, <2>5, <2>6 DEF Arriving
  <2>8. SpinType'
    BY <1>1, <1>2, <2>1 DEF SpinType
  <2> QED
    BY <1>1, <2>7, <2>8 DEF SpinInv
<1> QED
  BY <1>2, <1>5, <1>6, <1>7

LEMMA SpinNext ==
  ASSUME SpinInv, [BarriersNext]_barriersVars
  PROVE  SpinInv'
<1>1. CASE UNCHANGED barriersVars
  <2>1. UNCHANGED <<pool, step, c1, c2, barr, entered, left, led>>
    BY <1>1 DEF barriersVars, spinVars
  <2>2. \A S : AtSteps(S)' = AtSteps(S)
    BY <2>1 DEF AtSteps, Live
  <2>3. SpinType => SpinType'
    BY <2>1 DEF SpinType
  <2>4. \A m : LedOnce(m) => LedOnce(m)'
    BY <2>1 DEF LedOnce, Live
  <2>5. \A r \in Nat : Arriving(r) => Arriving(r)'
    BY <2>1, <2>2, <2>4 DEF Arriving, Live
  <2>6. \A r \in Nat, l \in Live : LeavingBehind(r, l) => LeavingBehind(r, l)'
    BY <2>1, <2>2, <2>4 DEF LeavingBehind, Live
  <2> QED
    BY <2>1, <2>3, <2>5, <2>6 DEF SpinInv, Live
<1>2. pool' = pool
  BY DEF barriersVars, BarriersNext, PrimaryNext, thread_start, thread_shutdown, JoinAll,
     MemberNext, AfterBarrier, RunSection, Barrier, TreeEnter, TreeUp, TreePaired, TreeDown,
     GroupsEnter, GroupsCheck, GroupsReport, GroupsWoken, GroupsSignal, SpinEnter, SpinArrive,
     SpinElect, SpinSynced, SpinReset
<1>3. CASE pool.kind # "spin"
  BY <1>2, <1>3 DEF SpinInv
<1>4. CASE BarriersNext /\ pool.kind = "spin"
  BY <1>4, SpinSteps, OutsideKeeps, ArriveKeeps, ElectKeeps, SyncedKeeps, ResetKeeps
<1> QED
  BY <1>1, <1>3, <1>4

\* The spinning barrier (my_thread_barrier of barrier.h) keeps its rounds apart
\* and elects one leader each time, for any number of threads and however
\* often it is used.
THEOREM SpinRoundsApart == BarriersSpec => [](pool.kind = "spin" => RoundsApart)
<1>1. ASSUME SpinInv, pool.kind = "spin"
      PROVE  RoundsApart
  <2>1. pool \in Pools /\ SpinType /\ Live \subseteq Member /\ 0 \in Live
    BY <1>1, LiveFinite DEF SpinInv
  <2> DEFINE Over(m) == /\ LedOnce(m)
                        /\ \A t, u \in Live : left[t] <= m /\ left[t] <= entered[u]
  <2>2. \E m \in Nat : Over(m)
    <3>1. ASSUME NEW r \in Nat, Arriving(r)
          PROVE  Over(r)
      BY <3>1 DEF Arriving
    <3>2. ASSUME NEW r \in Nat, NEW l \in Live, LeavingBehind(r, l)
          PROVE  Over(r + 1) /\ r + 1 \in Nat
      BY <3>2 DEF LeavingBehind
    <3>3. \E r \in Nat : Arriving(r) \/ \E l \in Live : LeavingBehind(r, l)
      BY <1>1 DEF SpinInv
    <3> HIDE DEF Over
    <3> QED
      BY <3>1, <3>2, <3>3
  <2>m. PICK m \in Nat : Over(m)
    BY <2>2
  <2>3. BarrierSeparates
    BY <2>m DEF BarrierSeparates
  <2>4. \A e \in 1 .. Max({left[t] : t \in Live}) : \E t \in Live : e \in led[t]
    <3> DEFINE S == {left[t] : t \in Live}
    <3>1. S \in SUBSET (0 .. m) /\ S # {}
      BY <2>1, <2>m DEF SpinType
    <3>2. Max(S) \in S
      <4> HIDE DEF S
      <4> QED
        BY <3>1, LargestOf
    <3>3. Max(S) \in Nat /\ Max(S) <= m
      BY <2>1, <2>m, <3>2 DEF SpinType
    <3> HIDE DEF S
    <3>4. \A e \in 1 .. Max(S) : e \in 1 .. m
      BY <3>3
    <3>5. \A e \in 1 .. Max(S) : \E t \in Live : e \in led[t]
      BY <2>m, <3>4 DEF LedOnce
    <3> QED
      BY <3>5 DEF S
  <2>5. OneLeader
    BY <2>m, <2>4 DEF OneLeader, LedOnce
  <2> QED
    BY <2>3, <2>5 DEF RoundsApart
<1> QED
  BY <1>1, SpinInit, SpinNext, PTL DEF BarriersSpec

-----------------------------------------------------------------------------
(***************************************************************************)
(* The load generator: the inductive invariant.                            *)
(***************************************************************************)
Places == {"none", "gate", "next", "lock", "send", "rest", "gone"}
Part == [from : Process, part : {1, 2}, tx : 0..6, fields : 0..5]

ClientType ==
  /\ load \in Loads
  /\ parent \in {"handshake", "socket", "fork", "wait", "gone"}
  /\ group \in Nat /\ fork \in Nat
  /\ child \in [Process -> [at : Places, t : Nat]]
  /\ shrd_lock \in [Groups -> {0, 1}]
  /\ stream \in [Groups -> Seq(Part)]
  /\ announced \in {<<>>, <<load.groups, PerConnection>>}
  /\ lost \in BOOLEAN

\* A process does its requests and no more.
RequestsInv ==
  /\ lost => "send" \in load.faults
  /\ \A p \in Process :
       /\ child[p].t <= load.txs
       /\ child[p].at \in {"lock", "send", "rest"} => child[p].t < load.txs
       /\ child[p].at = "gone" => child[p].t = load.txs

Forked(p) == child[p].at # "none"

\* The parent's loops leave out no process, unless a call fails.
ParentInv ==
  /\ parent \in {"socket", "fork"} =>
       /\ group \in Groups /\ group_size > 0
       /\ \A p \in Process : Forked(p) => p[1] <= group
       /\ \A p \in Process : p[1] < group => Forked(p)
  /\ parent = "fork" =>
       /\ fork \in 1..group_size
       /\ \A p \in Process : p[1] = group => (Forked(p) <=> p[2] < fork)
  /\ parent = "socket" => \A p \in Process : Forked(p) => p[1] < group
  /\ parent = "handshake" =>
       announced = <<>> /\ group = 1 /\ \A p \in Process : ~Forked(p)
  /\ parent \in {"wait", "gone"} /\ announced # <<>> /\ load.faults = {} =>
       \A p \in Process : Forked(p)
  /\ parent = "gone" /\ announced # <<>> => \A p \in Process : child[p].at \in {"none", "gone"}

Sending(p) == child[p].at \in {"send", "rest"}

\* A connection has one sender at a time.
SenderInv ==
  /\ \A p \in Process : load.synch /\ Sending(p) => shrd_lock[p[1]] = 1
  /\ \A p, q \in Process : p[1] = q[1] /\ Sending(p) /\ Sending(q) => p = q

\* A process in the middle of a frame wrote the last part on its connection.
StreamInv ==
  /\ FramesWhole
  /\ \A p \in Process : child[p].at = "rest" =>
       LET s == stream[p[1]] IN
         Len(s) > 0 /\ s[Len(s)].part = 1 /\ s[Len(s)].from = p
  /\ \A n \in Groups : \A i \in DOMAIN stream[n] :
       stream[n][i].part = 1 => Counted(stream[n][i].tx, stream[n][i].fields)

\* The requests begun on connection n, and the frames begun on its stream.
Begun(n) == {x \in (1..group_size) \X (1..load.txs) :
               \/ x[2] <= child[<<n, x[1]>>].t
               \/ x[2] = child[<<n, x[1]>>].t + 1 /\ child[<<n, x[1]>>].at = "rest"}
Started(n) == {i \in DOMAIN stream[n] : stream[n][i].part = 1}

CountInv == ~lost => \A n \in Groups : Cardinality(Started(n)) = Cardinality(Begun(n))

ClientInv == ClientType /\ RequestsInv /\ ParentInv /\ SenderInv /\ StreamInv /\ CountInv

-----------------------------------------------------------------------------
(* The load generator: sizes and sets.                                     *)

\* A load is what a command line can ask for.
LEMMA LoadTypes ==
  ASSUME load \in Loads
  PROVE  /\ load.groups \in Nat /\ load.txs \in Nat /\ group_size \in Nat
         /\ load.synch \in BOOLEAN /\ load.quaglia \in BOOLEAN /\ load.mix \subseteq 1..5
         /\ PerConnection \in Nat
         /\ ~load.synch => group_size = 1
  BY ClientAssumption DEF group_size, PerConnection

\* What is announced to the server is the number of all requests of a group.
LEMMA AllRequests ==
  ASSUME load \in Loads
  PROVE  /\ IsFiniteSet((1..group_size) \X (1..load.txs))
         /\ Cardinality((1..group_size) \X (1..load.txs)) = PerConnection
<1>1. load.txs \in Nat /\ group_size \in Nat
  BY LoadTypes
<1>2. IsFiniteSet(1..group_size) /\ Cardinality(1..group_size) = group_size
  BY <1>1, FS_Interval
<1>3. IsFiniteSet(1..load.txs) /\ Cardinality(1..load.txs) = load.txs
  BY <1>1, FS_Interval
<1> DEFINE S == 1..group_size
           T == 1..load.txs
<1>4. IsFiniteSet(S) /\ IsFiniteSet(T) /\ Cardinality(S) * Cardinality(T) = PerConnection
  BY <1>2, <1>3 DEF PerConnection
<1> HIDE DEF S, T
<1>5. IsFiniteSet(S \X T) /\ Cardinality(S \X T) = Cardinality(S) * Cardinality(T)
  BY <1>4, FS_Product
<1> QED
  BY <1>4, <1>5 DEF S, T

\* The sets that are counted are finite.
LEMMA CountsFinite ==
  ASSUME ClientType, NEW n \in Groups
  PROVE  IsFiniteSet(Begun(n)) /\ IsFiniteSet(Started(n))
<1>1. load \in Loads
  BY DEF ClientType
<1>2. IsFiniteSet(Begun(n))
  BY <1>1, AllRequests, FS_Subset DEF Begun
<1>3. stream[n] \in Seq(Part)
  BY DEF ClientType
<1>4. Len(stream[n]) \in Nat /\ DOMAIN stream[n] = 1..Len(stream[n])
  BY <1>3
<1>5. IsFiniteSet(DOMAIN stream[n])
  <2> DEFINE k == Len(stream[n])
  <2>1. 1 \in Int /\ k \in Int
    BY <1>4
  <2> HIDE DEF k
  <2>2. IsFiniteSet(1..k)
    BY <2>1, FS_Interval
  <2> QED
    BY <1>4, <2>2 DEF k
<1> QED
  BY <1>2, <1>5, FS_Subset DEF Started

-----------------------------------------------------------------------------
(* The load generator: the start.                                          *)

\* The invariant holds when the client starts.
LEMMA ClientInitInv == ClientInit => ClientInv
<1> SUFFICES ASSUME ClientInit PROVE ClientInv
  OBVIOUS
<1> USE DEF ClientInit
<1>1. load.groups \in Nat /\ load.txs \in Nat /\ group_size \in Nat
  BY LoadTypes
<1>2. ClientType
  <2>1. child \in [Process -> [at : Places, t : Nat]]
    BY DEF NotForked, Places
  <2>2. stream \in [Groups -> Seq(Part)]
    OBVIOUS
  <2> QED
    BY <2>1, <2>2 DEF ClientType
<1>3. RequestsInv
  BY <1>1 DEF RequestsInv, NotForked
<1>4. ParentInv
  BY DEF ParentInv, Forked, NotForked
<1>5. SenderInv
  BY DEF SenderInv, Sending, NotForked
<1>6. StreamInv
  BY DEF StreamInv, FramesWhole, NotForked
<1>7. CountInv
  <2> SUFFICES ASSUME NEW n \in Groups
               PROVE  Cardinality(Started(n)) = Cardinality(Begun(n))
    BY DEF CountInv
  <2>1. Started(n) = {}
    BY DEF Started
  <2>2. \A s \in 1..group_size : <<n, s>> \in Process
    BY DEF Process
  <2>3. Begun(n) = {}
    BY <1>1, <2>2 DEF Begun, NotForked
  <2> QED
    BY <2>1, <2>3
<1> QED
  BY <1>2, <1>3, <1>4, <1>5, <1>6, <1>7 DEF ClientInv

-----------------------------------------------------------------------------
(* The load generator: the parent.                                         *)

\* The load decides the processes, and never changes.
LEMMA LoadKept ==
  ASSUME load' = load
  PROVE  /\ group_size' = group_size /\ Groups' = Groups /\ Process' = Process
         /\ PerConnection' = PerConnection /\ Part' = Part
         /\ \A tx, f : Counted(tx, f)' = Counted(tx, f)
  BY DEF group_size, Groups, Process, PerConnection, Part, Counted

\* A step that leaves the streams alone, and where every process goes on
\* without finishing a request or starting to send.
LEMMA StreamsKept ==
  ASSUME ClientInv, load' = load, stream' = stream, lost' = lost,
         \A p \in Process : child'[p].t = child[p].t /\ (child'[p].at = "rest") = (child[p].at = "rest")
  PROVE  StreamInv' /\ CountInv'
<1>1. Groups' = Groups /\ Process' = Process /\ group_size' = group_size
      /\ \A tx, f : Counted(tx, f)' = Counted(tx, f)
  BY LoadKept
<1>2. StreamInv'
  BY <1>1 DEF ClientInv, StreamInv, FramesWhole
<1>3. ASSUME NEW n \in Groups PROVE Begun(n)' = Begun(n) /\ Started(n)' = Started(n)
  <2>1. \A s \in 1..group_size : <<n, s>> \in Process
    BY DEF Process
  <2> QED
    BY <1>1, <2>1 DEF Begun, Started
<1> QED
  BY <1>1, <1>2, <1>3 DEF ClientInv, CountInv

\* The parent announces the load, or gives up.
LEMMA HandshakeStep == ASSUME ClientInv, handshake PROVE ClientInv'
<1> USE DEF ClientInv, handshake
<1>1. group_size' = group_size /\ Groups' = Groups /\ Process' = Process
      /\ PerConnection' = PerConnection /\ Part' = Part
  BY LoadKept
<1>2. load.groups \in Nat /\ load.txs \in Nat /\ group_size \in Nat
  BY LoadTypes DEF ClientType
<1>3. ClientType'
  BY <1>1 DEF ClientType
<1>4. RequestsInv'
  BY <1>1 DEF RequestsInv
<1>5. ParentInv'
  <2>1. ASSUME parent' = "socket" PROVE group \in Groups /\ group_size > 0 /\ group = 1
    <3>1. group = 1
      BY DEF ParentInv
    <3>2. load.groups > 0 /\ group_size * load.txs > 0
      BY <2>1 DEF HandshakeAccepted, PerConnection
    <3>3. group_size # 0
      BY <1>2, <3>2
    <3> QED
      BY <1>2, <3>1, <3>2, <3>3 DEF Groups
  <2>2. CASE parent' = "socket"
    BY <1>1, <1>2, <2>1, <2>2 DEF ParentInv, Process, Groups, Forked
  <2>3. CASE parent' = "gone"
    BY <1>1, <2>3 DEF ParentInv
  <2> QED
    BY <2>2, <2>3
<1>6. SenderInv'
  BY <1>1 DEF SenderInv, Sending
<1>7. StreamInv' /\ CountInv'
  BY <1>1, StreamsKept
<1> QED
  BY <1>3, <1>4, <1>5, <1>6, <1>7

\* The parent opens the connection of a group, or gives up.
LEMMA ConnectStep == ASSUME ClientInv, Connect PROVE ClientInv'
<1> USE DEF ClientInv, Connect
<1>1. group_size' = group_size /\ Groups' = Groups /\ Process' = Process
      /\ PerConnection' = PerConnection /\ Part' = Part
  BY LoadKept
<1>2. group_size \in Nat
  BY LoadTypes DEF ClientType
<1>3. ClientType'
  BY <1>1 DEF ClientType
<1>4. RequestsInv'
  BY <1>1 DEF RequestsInv
<1>5. ParentInv'
  BY <1>1, <1>2 DEF ParentInv, Forked, Process, Groups
<1>6. SenderInv'
  BY <1>1 DEF SenderInv, Sending
<1>7. StreamInv' /\ CountInv'
  BY <1>1, StreamsKept
<1> QED
  BY <1>3, <1>4, <1>5, <1>6, <1>7

\* The parent closes its sockets once the children have ended.
LEMMA WaitStep == ASSUME ClientInv, WaitForChildren PROVE ClientInv'
<1> USE DEF ClientInv, WaitForChildren
<1>1. group_size' = group_size /\ Groups' = Groups /\ Process' = Process
      /\ PerConnection' = PerConnection /\ Part' = Part
  BY LoadKept
<1>2. ClientType'
  BY <1>1 DEF ClientType
<1>3. RequestsInv'
  BY <1>1 DEF RequestsInv
<1>4. ParentInv'
  BY <1>1 DEF ParentInv, Forked
<1>5. SenderInv'
  BY <1>1 DEF SenderInv, Sending
<1>6. StreamInv' /\ CountInv'
  BY <1>1, StreamsKept
<1> QED
  BY <1>2, <1>3, <1>4, <1>5, <1>6

\* The parent forks the next process of the group, or gives up.
LEMMA ForkStep == ASSUME ClientInv, Fork PROVE ClientInv'
<1> USE DEF ClientInv, Fork
<1>1. group_size' = group_size /\ Groups' = Groups /\ Process' = Process
      /\ PerConnection' = PerConnection /\ Part' = Part
  BY LoadKept
<1>2. group_size \in Nat /\ load.groups \in Nat
  BY LoadTypes DEF ClientType
<1>3. ASSUME "fork" \in load.faults, parent' = "wait", UNCHANGED <<child, group, fork>>
      PROVE  ClientInv'
  <2>1. ClientType' /\ RequestsInv' /\ SenderInv'
    BY <1>1, <1>3 DEF ClientType, RequestsInv, SenderInv, Sending
  <2>2. ParentInv'
    BY <1>1, <1>3 DEF ParentInv
  <2>3. StreamInv' /\ CountInv'
    BY <1>1, <1>3, StreamsKept
  <2> QED
    BY <2>1, <2>2, <2>3
<1>4. ASSUME child' = [child EXCEPT ![<<group, fork>>].at = "gate"],
             IF fork < group_size
               THEN fork' = fork + 1 /\ UNCHANGED <<parent, group>>
               ELSE /\ UNCHANGED fork
                    /\ IF group < load.groups
                         THEN group' = group + 1 /\ parent' = "socket"
                         ELSE parent' = "wait" /\ UNCHANGED group
      PROVE  ClientInv'
  <2>1. <<group, fork>> \in Process
    BY DEF ParentInv, Process
  <2>2. \A p \in Process :
          /\ child'[p].t = child[p].t
          /\ p # <<group, fork>> => child'[p] = child[p]
    BY <1>4 DEF ClientType
  <2>3. child'[<<group, fork>>].at = "gate"
    BY <1>4, <2>1 DEF ClientType
  <2>4. child[<<group, fork>>].at = "none"
    BY <1>2, <2>1 DEF ParentInv, Forked
  <2>5. ClientType'
    <3>1. child' \in [Process -> [at : Places, t : Nat]]
      BY <1>4 DEF ClientType, Places
    <3>2. group' \in Nat /\ fork' \in Nat /\ parent' \in {"socket", "fork", "wait"}
      BY <1>4 DEF ClientType
    <3> QED
      BY <1>1, <3>1, <3>2 DEF ClientType
  <2>6. RequestsInv'
    BY <1>1, <2>2, <2>3 DEF RequestsInv
  <2>7. SenderInv'
    BY <1>1, <2>2, <2>3 DEF SenderInv, Sending
  <2>8. ParentInv'
    <3>1. \A p \in Process : Forked(p)' <=> Forked(p) \/ p = <<group, fork>>
      BY <2>1, <2>2, <2>3 DEF Forked
    <3>2. \A p \in Process : p[1] \in 1..load.groups /\ p[2] \in 1..group_size
                             /\ p = <<p[1], p[2]>>
      BY DEF Process, Groups
    <3>3. group \in 1..load.groups /\ fork \in 1..group_size
      BY DEF ParentInv, Groups
    <3>4. CASE fork < group_size
      BY <1>1, <1>2, <1>4, <3>1, <3>2, <3>3, <3>4 DEF ParentInv
    <3>5. CASE fork = group_size /\ group < load.groups
      BY <1>1, <1>2, <1>4, <3>1, <3>2, <3>3, <3>5 DEF ParentInv, Groups
    <3>6. CASE fork = group_size /\ group = load.groups
      BY <1>1, <1>2, <1>4, <3>1, <3>2, <3>3, <3>6 DEF ParentInv
    <3> QED
      BY <1>2, <3>3, <3>4, <3>5, <3>6
  <2>9. StreamInv' /\ CountInv'
    BY <1>1, <2>2, <2>3, <2>4, StreamsKept
  <2> QED
    BY <2>5, <2>6, <2>7, <2>8, <2>9
<1> QED
  BY <1>3, <1>4

-----------------------------------------------------------------------------
(* The load generator: the processes.                                      *)

\* A process that is forked moves on; the parent's invariant is about which
\* ones are.
LEMMA ChildParent ==
  ASSUME ClientInv, NEW p \in Process, child[p].at \notin {"none", "gone"},
         UNCHANGED <<load, parent, group, fork, announced>>,
         \A q \in Process : q # p => child'[q] = child[q], child'[p].at # "none"
  PROVE  ParentInv'
<1>1. group_size' = group_size /\ Groups' = Groups /\ Process' = Process
  BY LoadKept
<1>2. \A q \in Process : Forked(q)' <=> Forked(q)
  BY DEF Forked
<1>3. ~(parent = "gone" /\ announced # <<>>)
  BY DEF ClientInv, ParentInv
<1> QED
  BY <1>1, <1>2, <1>3 DEF ClientInv, ParentInv

\* A process moves and sends nothing: past the gate, to a request, to its end
\* or to the lock it has taken.
LEMMA QuietStep ==
  ASSUME ClientInv, NEW p \in Process,
         PassGate(p) \/ MakeRequest(p) \/ Finish(p) \/ LockConnection(p)
  PROVE  ClientInv'
<1> USE DEF ClientInv, PassGate, MakeRequest, Finish, LockConnection, Is, Becomes
<1>1. group_size' = group_size /\ Groups' = Groups /\ Process' = Process
      /\ PerConnection' = PerConnection /\ Part' = Part
  BY LoadKept
<1>2. load.txs \in Nat /\ (~load.synch => group_size = 1) /\ load.synch \in BOOLEAN
  BY LoadTypes DEF ClientType
<1>3. p[1] \in Groups /\ p[2] \in 1..group_size
  BY DEF Process
<1>4. PICK to \in {"next", "lock", "send", "gone"} :
        /\ child' = [child EXCEPT ![p].at = to]
        /\ to \in {"lock", "send"} => child[p].t < load.txs
        /\ to = "gone" => child[p].t = load.txs
        /\ to = "send" => \/ ~load.synch /\ shrd_lock' = shrd_lock
                          \/ shrd_lock[p[1]] = 0 /\ shrd_lock' = [shrd_lock EXCEPT ![p[1]] = 1]
        /\ to # "send" => shrd_lock' = shrd_lock
  <2>1. CASE PassGate(p)
    BY <2>1
  <2>2. CASE MakeRequest(p)
    BY <1>2, <2>2
  <2>3. CASE Finish(p)
    BY <2>3
  <2>4. CASE LockConnection(p)
    BY <2>4 DEF RequestsInv, CasWins
  <2> QED
    BY <2>1, <2>2, <2>3, <2>4
<1>5. /\ \A q \in Process : child'[q].t = child[q].t /\ (q # p => child'[q] = child[q])
      /\ child'[p].at = to
  BY <1>4 DEF ClientType
<1>6. child[p].at \notin {"none", "rest", "send", "gone"}
  OBVIOUS
<1>7. ClientType'
  <2>1. child' \in [Process -> [at : Places, t : Nat]]
    BY <1>4 DEF ClientType, Places
  <2>2. shrd_lock' \in [Groups -> {0, 1}]
    BY <1>3, <1>4 DEF ClientType
  <2> QED
    BY <1>1, <2>1, <2>2 DEF ClientType
<1>8. RequestsInv'
  BY <1>1, <1>4, <1>5 DEF RequestsInv
<1>9. ParentInv'
  BY <1>5, <1>6, ChildParent
<1>10. SenderInv'
  <2>1. \A q \in Process : q # p => (Sending(q)' <=> Sending(q))
    BY <1>5 DEF Sending
  <2>2. CASE to # "send"
    BY <1>1, <1>4, <1>5, <2>1, <2>2 DEF SenderInv, Sending
  <2>3. CASE to = "send" /\ ~load.synch
    <3>1. \A q \in Process : q[1] = p[1] => q = p
      BY <1>2, <2>3 DEF Process
    <3> QED
      BY <1>1, <2>1, <2>3, <3>1 DEF SenderInv
  <2>4. CASE to = "send" /\ load.synch
    <3>1. \A q \in Process : q[1] = p[1] => ~Sending(q)
      BY <1>4, <2>4 DEF SenderInv
    <3>2. \A n \in Groups : shrd_lock'[n] = IF n = p[1] THEN 1 ELSE shrd_lock[n]
      BY <1>4, <2>4 DEF ClientType
    <3>3. \A q \in Process : q[1] \in Groups
      BY DEF Process
    <3> QED
      BY <1>1, <2>1, <2>4, <3>1, <3>2, <3>3 DEF SenderInv
  <2> QED
    BY <1>2, <2>2, <2>3, <2>4
<1>11. StreamInv' /\ CountInv'
  BY <1>1, <1>5, <1>6, StreamsKept
<1> QED
  BY <1>7, <1>8, <1>9, <1>10, <1>11

\* A frame is begun.
LEMMA FrameBegins ==
  ASSUME ClientInv, NEW p \in Process, Is(p, "send"), Becomes(p, "rest"),
         UNCHANGED <<load, parent, group, fork, shrd_lock, announced, lost>>,
         NEW tx \in createInstruction,
         Put(p, [from |-> p, part |-> 1, tx |-> tx, fields |-> Fields(tx)])
  PROVE  ClientInv'
<1> USE DEF ClientInv, Is, Becomes
<1> DEFINE n == p[1]
           x == [from |-> p, part |-> 1, tx |-> tx, fields |-> Fields(tx)]
           s == stream[n]
<1>1. group_size' = group_size /\ Groups' = Groups /\ Process' = Process
      /\ PerConnection' = PerConnection /\ Part' = Part
      /\ \A u, f : Counted(u, f)' = Counted(u, f)
  BY LoadKept
<1>2. load.txs \in Nat /\ load.mix \subseteq 1..5 /\ group_size \in Nat
  BY LoadTypes DEF ClientType
<1>3. n \in Groups /\ p[2] \in 1..group_size /\ p = <<n, p[2]>>
  BY DEF Process
<1>4. tx \in 1..6 /\ Fields(tx) \in 2..5 /\ Counted(tx, Fields(tx))
  <2>1. tx \in 1..(IF load.quaglia THEN 6 ELSE 5)
    BY <1>2 DEF createInstruction
  <2>2. tx \in {1, 2, 3, 4, 5, 6}
    BY <2>1
  <2>3. Fields(tx) \in {2, 3, 5}
    BY <2>2 DEF Fields
  <2> QED
    BY <2>1, <2>2, <2>3 DEF Counted, Fields
<1>5. x \in Part
  BY <1>4 DEF Part
<1>6. s \in Seq(Part) /\ stream'[n] = Append(s, x)
      /\ \A m \in Groups : m # n => stream'[m] = stream[m]
  BY <1>3 DEF ClientType, Put
<1>7. /\ Len(stream'[n]) = Len(s) + 1 /\ DOMAIN stream'[n] = 1..(Len(s) + 1)
      /\ Len(s) \in Nat /\ DOMAIN s = 1..Len(s)
      /\ \A i \in 1..Len(s) : stream'[n][i] = s[i]
      /\ stream'[n][Len(s) + 1] = x
  BY <1>5, <1>6
<1>8. /\ child'[p] = [at |-> "rest", t |-> child[p].t]
      /\ \A q \in Process : q # p => child'[q] = child[q]
  BY DEF ClientType
<1>9. ClientType'
  <2>1. child' \in [Process -> [at : Places, t : Nat]]
    BY DEF ClientType, Places
  <2>2. stream' \in [Groups -> Seq(Part)]
    BY <1>3, <1>5 DEF ClientType, Put
  <2> QED
    BY <1>1, <2>1, <2>2 DEF ClientType
<1>10. RequestsInv'
  BY <1>1, <1>8 DEF RequestsInv
<1>11. ParentInv'
  BY <1>8, ChildParent
<1>12. \A q \in Process : Sending(q)' <=> Sending(q)
  BY <1>8 DEF Sending
<1>13. SenderInv'
  BY <1>1, <1>12 DEF SenderInv
<1> HIDE DEF x, s, n
<1>14. StreamInv'
  <2>1. FramesWhole'
    <3> SUFFICES ASSUME NEW m \in Groups, NEW i \in DOMAIN stream'[m], stream'[m][i].part = 2
                 PROVE  i > 1 /\ stream'[m][i - 1].part = 1
                        /\ stream'[m][i - 1].from = stream'[m][i].from
      BY <1>1 DEF FramesWhole
    <3>1. CASE m # n
      BY <1>6, <3>1 DEF StreamInv, FramesWhole
    <3>2. CASE m = n
      <4>1. i \in 1..Len(s)
        BY <1>7, <3>2 DEF x
      <4>2. i > 1 /\ s[i - 1].part = 1 /\ s[i - 1].from = s[i].from
        BY <1>3, <1>7, <3>2, <4>1 DEF StreamInv, FramesWhole, s
      <4>3. i - 1 \in 1..Len(s)
        BY <1>7, <4>1, <4>2
      <4> QED
        BY <1>7, <3>2, <4>1, <4>2, <4>3
    <3> QED
      BY <3>1, <3>2
  <2>2. ASSUME NEW q \in Process, child'[q].at = "rest"
        PROVE  LET z == stream'[q[1]] IN
                 Len(z) > 0 /\ z[Len(z)].part = 1 /\ z[Len(z)].from = q
    <3>1. CASE q = p
      BY <1>7, <3>1 DEF x, n
    <3>2. CASE q # p
      <4>1. Sending(q) /\ Sending(p)
        BY <1>8, <2>2, <3>2 DEF Sending
      <4>2. q[1] # n /\ q[1] \in Groups
        BY <3>2, <4>1 DEF SenderInv, n, Process
      <4> QED
        BY <1>6, <1>8, <2>2, <3>2, <4>2 DEF StreamInv
    <3> QED
      BY <3>1, <3>2
  <2>3. ASSUME NEW m \in Groups, NEW i \in DOMAIN stream'[m], stream'[m][i].part = 1
        PROVE  Counted(stream'[m][i].tx, stream'[m][i].fields)
    <3>1. CASE m # n
      BY <1>6, <2>3, <3>1 DEF StreamInv
    <3>2. CASE m = n /\ i \in 1..Len(s)
      BY <1>3, <1>7, <2>3, <3>2 DEF StreamInv, s
    <3>3. CASE m = n /\ i = Len(s) + 1
      BY <1>4, <1>7, <3>3 DEF x
    <3> QED
      BY <1>7, <3>1, <3>2, <3>3
  <2> QED
    BY <1>1, <2>1, <2>2, <2>3 DEF StreamInv
<1>15. CountInv'
  <2> SUFFICES ASSUME ~lost, NEW m \in Groups
               PROVE  Cardinality(Started(m)') = Cardinality(Begun(m)')
    BY <1>1 DEF CountInv
  <2>1. Cardinality(Started(m)) = Cardinality(Begun(m))
    BY DEF CountInv
  <2>2. \A k \in 1..group_size : <<m, k>> \in Process
    BY DEF Process
  <2>3. CASE m # n
    <3>1. \A k \in 1..group_size : child'[<<m, k>>] = child[<<m, k>>]
      BY <1>3, <1>8, <2>2, <2>3
    <3>2. Begun(m)' = Begun(m)
      BY <1>1, <3>1 DEF Begun
    <3>3. Started(m)' = Started(m)
      BY <1>6, <2>3 DEF Started
    <3> QED
      BY <2>1, <3>2, <3>3
  <2>4. CASE m = n
    <3> DEFINE c == child[p].t
    <3>1. Started(m)' = Started(m) \cup {Len(s) + 1} /\ Len(s) + 1 \notin Started(m)
      BY <1>7, <2>4 DEF Started, s, x
    <3>2. c \in Nat /\ c < load.txs
      BY DEF RequestsInv, ClientType
    <3>3. <<p[2], c + 1>> \notin Begun(m)
      BY <1>3, <2>4, <3>2 DEF Begun
    <3>4. Begun(m)' = Begun(m) \cup {<<p[2], c + 1>>}
      <4>1. \A k \in 1..group_size : k # p[2] => child'[<<m, k>>] = child[<<m, k>>]
        BY <1>3, <1>8, <2>2
      <4>2. <<m, p[2]>> = p
        BY <1>3, <2>4
      <4>3. p[2] \in 1..group_size /\ c + 1 \in 1..load.txs
        BY <1>2, <1>3, <3>2
      <4> QED
        BY <1>1, <1>8, <3>2, <4>1, <4>2, <4>3 DEF Begun
    <3>5. IsFiniteSet(Begun(m)) /\ IsFiniteSet(Started(m))
      BY CountsFinite
    <3>6. Cardinality(Started(m)') = Cardinality(Started(m)) + 1
      BY <3>1, <3>5, FS_AddElement
    <3>7. Cardinality(Begun(m)') = Cardinality(Begun(m)) + 1
      BY <3>3, <3>4, <3>5, FS_AddElement
    <3> QED
      BY <2>1, <3>6, <3>7
  <2> QED
    BY <2>3, <2>4
<1> QED
  BY <1>9, <1>10, <1>11, <1>13, <1>14, <1>15

\* A send that fails costs the request, and the connection its lock.
LEMMA SendFails ==
  ASSUME ClientInv, NEW p \in Process, Is(p, "send"), "send" \in load.faults,
         child' = [child EXCEPT ![p] = [at |-> "next", t |-> @.t + 1]], lost' = TRUE,
         UNCHANGED <<load, parent, group, fork, shrd_lock, stream, announced>>
  PROVE  ClientInv'
<1> USE DEF ClientInv, Is
<1>1. group_size' = group_size /\ Groups' = Groups /\ Process' = Process
      /\ PerConnection' = PerConnection /\ Part' = Part
      /\ \A u, f : Counted(u, f)' = Counted(u, f)
  BY LoadKept
<1>2. load.txs \in Nat
  BY LoadTypes DEF ClientType
<1>3. /\ child'[p] = [at |-> "next", t |-> child[p].t + 1]
      /\ \A q \in Process : q # p => child'[q] = child[q]
  BY DEF ClientType
<1>4. ClientType'
  <2>1. child' \in [Process -> [at : Places, t : Nat]]
    BY DEF ClientType, Places
  <2> QED
    BY <1>1, <2>1 DEF ClientType
<1>5. RequestsInv'
  BY <1>1, <1>2, <1>3 DEF RequestsInv, ClientType
<1>6. ParentInv'
  BY <1>3, ChildParent
<1>7. SenderInv'
  BY <1>1, <1>3 DEF SenderInv, Sending
<1>8. StreamInv'
  BY <1>1, <1>3 DEF StreamInv, FramesWhole
<1>9. CountInv'
  BY DEF CountInv
<1> QED
  BY <1>4, <1>5, <1>6, <1>7, <1>8, <1>9

\* The rest of a frame follows its beginning, and the connection is free again.
LEMMA FrameEnds == ASSUME ClientInv, NEW p \in Process, SendRest(p) PROVE ClientInv'
<1> USE DEF ClientInv, Is, SendRest
<1> DEFINE n == p[1]
           x == [from |-> p, part |-> 2, tx |-> 0, fields |-> 0]
           s == stream[n]
<1>1. group_size' = group_size /\ Groups' = Groups /\ Process' = Process
      /\ PerConnection' = PerConnection /\ Part' = Part
      /\ \A u, f : Counted(u, f)' = Counted(u, f)
  BY LoadKept
<1>2. load.txs \in Nat /\ load.synch \in BOOLEAN /\ group_size \in Nat
  BY LoadTypes DEF ClientType
<1>3. n \in Groups /\ p[2] \in 1..group_size /\ p = <<n, p[2]>>
  BY DEF Process
<1>4. x \in Part
  BY DEF Part
<1>5. s \in Seq(Part) /\ stream'[n] = Append(s, x)
      /\ \A m \in Groups : m # n => stream'[m] = stream[m]
  BY <1>3 DEF ClientType, Put
<1>6. /\ Len(stream'[n]) = Len(s) + 1 /\ DOMAIN stream'[n] = 1..(Len(s) + 1)
      /\ Len(s) \in Nat /\ DOMAIN s = 1..Len(s)
      /\ \A i \in 1..Len(s) : stream'[n][i] = s[i]
      /\ stream'[n][Len(s) + 1] = x
  BY <1>4, <1>5
<1>7. /\ child'[p] = [at |-> "next", t |-> child[p].t + 1]
      /\ \A q \in Process : q # p => child'[q] = child[q]
  BY DEF ClientType
<1>8. \A q \in Process : q # p => (Sending(q)' <=> Sending(q))
  BY <1>7 DEF Sending
<1>9. ~Sending(p)' /\ Sending(p)
  BY <1>7 DEF Sending
<1>10. \A q \in Process : q # p /\ Sending(q) => q[1] # n /\ q[1] \in Groups
  BY <1>9 DEF SenderInv, Process
<1>11. \A m \in Groups : m # n => shrd_lock'[m] = shrd_lock[m]
  BY DEF Unlocked, ClientType
<1>12. ClientType'
  <2>1. child' \in [Process -> [at : Places, t : Nat]]
    BY DEF ClientType, Places
  <2>2. stream' \in [Groups -> Seq(Part)]
    BY <1>3, <1>4 DEF ClientType, Put
  <2>3. shrd_lock' \in [Groups -> {0, 1}]
    BY DEF ClientType, Unlocked
  <2> QED
    BY <1>1, <2>1, <2>2, <2>3 DEF ClientType
<1>13. RequestsInv'
  BY <1>1, <1>2, <1>7 DEF RequestsInv, ClientType
<1>14. ParentInv'
  BY <1>7, ChildParent
<1>15. SenderInv'
  BY <1>1, <1>8, <1>9, <1>10, <1>11 DEF SenderInv
<1>16. Len(s) > 0 /\ s[Len(s)].part = 1 /\ s[Len(s)].from = p
  BY DEF StreamInv
<1> HIDE DEF x, s, n
<1>17. StreamInv'
  <2>1. FramesWhole'
    <3> SUFFICES ASSUME NEW m \in Groups, NEW i \in DOMAIN stream'[m], stream'[m][i].part = 2
                 PROVE  i > 1 /\ stream'[m][i - 1].part = 1
                        /\ stream'[m][i - 1].from = stream'[m][i].from
      BY <1>1 DEF FramesWhole
    <3>1. CASE m # n
      BY <1>5, <3>1 DEF StreamInv, FramesWhole
    <3>2. CASE m = n /\ i \in 1..Len(s)
      <4>1. i > 1 /\ s[i - 1].part = 1 /\ s[i - 1].from = s[i].from
        BY <1>3, <1>6, <3>2 DEF StreamInv, FramesWhole, s
      <4>2. i - 1 \in 1..Len(s)
        BY <1>6, <3>2, <4>1
      <4> QED
        BY <1>6, <3>2, <4>1, <4>2
    <3>3. CASE m = n /\ i = Len(s) + 1
      BY <1>6, <1>16, <3>3 DEF x
    <3> QED
      BY <1>6, <3>1, <3>2, <3>3
  <2>2. ASSUME NEW q \in Process, child'[q].at = "rest"
        PROVE  LET z == stream'[q[1]] IN
                 Len(z) > 0 /\ z[Len(z)].part = 1 /\ z[Len(z)].from = q
    <3>1. q # p
      BY <1>7, <2>2
    <3>2. child[q].at = "rest" /\ Sending(q)
      BY <1>7, <2>2, <3>1 DEF Sending
    <3> QED
      BY <1>5, <1>10, <3>1, <3>2 DEF StreamInv
  <2>3. ASSUME NEW m \in Groups, NEW i \in DOMAIN stream'[m], stream'[m][i].part = 1
        PROVE  Counted(stream'[m][i].tx, stream'[m][i].fields)
    <3>1. CASE m # n
      BY <1>5, <2>3, <3>1 DEF StreamInv
    <3>2. CASE m = n
      <4>1. i \in 1..Len(s)
        BY <1>6, <2>3, <3>2 DEF x
      <4> QED
        BY <1>3, <1>6, <2>3, <3>2, <4>1 DEF StreamInv, s
    <3> QED
      BY <3>1, <3>2
  <2> QED
    BY <1>1, <2>1, <2>2, <2>3 DEF StreamInv
<1>18. CountInv'
  <2> SUFFICES ASSUME ~lost, NEW m \in Groups
               PROVE  Started(m)' = Started(m) /\ Begun(m)' = Begun(m)
    BY <1>1 DEF CountInv
  <2>1. Started(m)' = Started(m)
    <3>1. CASE m # n
      BY <1>5, <3>1 DEF Started
    <3>2. CASE m = n
      BY <1>6, <3>2 DEF Started, s, x
    <3> QED
      BY <3>1, <3>2
  <2>2. \A k \in 1..group_size : <<m, k>> \in Process
    BY DEF Process
  <2> DEFINE Has(c, j) == \/ j <= c.t
                          \/ j = c.t + 1 /\ c.at = "rest"
  <2>3. \A k \in 1..group_size : \A j \in 1..load.txs :
          Has(child'[<<m, k>>], j) <=> Has(child[<<m, k>>], j)
    <3> SUFFICES ASSUME NEW k \in 1..group_size, NEW j \in 1..load.txs
                 PROVE  Has(child'[<<m, k>>], j) <=> Has(child[<<m, k>>], j)
      OBVIOUS
    <3>1. CASE <<m, k>> # p
      BY <1>7, <2>2, <3>1
    <3>2. CASE <<m, k>> = p
      <4>1. child[p].t \in Nat /\ child[p].at = "rest"
        BY DEF ClientType
      <4> QED
        BY <1>2, <1>7, <3>2, <4>1
    <3> QED
      BY <3>1, <3>2
  <2> QED
    BY <1>1, <2>1, <2>3 DEF Begun
<1> QED
  BY <1>12, <1>13, <1>14, <1>15, <1>17, <1>18

-----------------------------------------------------------------------------
(* The load generator: the theorem.                                        *)

\* Every step keeps the invariant.
LEMMA ClientStep == ClientInv /\ [ClientNext]_clientVars => ClientInv'
<1> SUFFICES ASSUME ClientInv, [ClientNext]_clientVars PROVE ClientInv'
  OBVIOUS
<1>1. CASE ParentNext
  BY <1>1, HandshakeStep, ConnectStep, ForkStep, WaitStep DEF ParentNext
<1>2. ASSUME NEW p \in Process, ChildNext(p) PROVE ClientInv'
  <2>1. CASE Send(p)
    <3>1. ASSUME NEW tx \in createInstruction, Becomes(p, "rest"), UNCHANGED lost,
                 Put(p, [from |-> p, part |-> 1, tx |-> tx, fields |-> Fields(tx)])
          PROVE  ClientInv'
      BY <2>1, <3>1, FrameBegins DEF Send
    <3>2. ASSUME "send" \in load.faults, lost' = TRUE, UNCHANGED stream,
                 child' = [child EXCEPT ![p] = [at |-> "next", t |-> @.t + 1]]
          PROVE  ClientInv'
      BY <2>1, <3>2, SendFails DEF Send
    <3> QED
      BY <2>1, <3>1, <3>2 DEF Send
  <2> QED
    BY <1>2, <2>1, QuietStep, FrameEnds DEF ChildNext
<1>3. CASE UNCHANGED clientVars
  <2> USE <1>3 DEF clientVars, ClientInv
  <2>1. group_size' = group_size /\ Groups' = Groups /\ Process' = Process
        /\ PerConnection' = PerConnection /\ Part' = Part
    BY LoadKept
  <2>2. ClientType' /\ RequestsInv' /\ SenderInv'
    BY <2>1 DEF ClientType, RequestsInv, SenderInv, Sending
  <2>3. ParentInv'
    BY <2>1 DEF ParentInv, Forked
  <2>4. StreamInv' /\ CountInv'
    BY StreamsKept
  <2> QED
    BY <2>2, <2>3, <2>4
<1> QED
  BY <1>1, <1>2, <1>3 DEF ClientNext

\* Once the parent is gone, every process has begun all of its requests.
LEMMA AllBegun ==
  ASSUME ClientInv, parent = "gone", announced # <<>>, load.faults = {}, NEW n \in Groups
  PROVE  Frames(n) = announced[2]
<1> USE DEF ClientInv
<1>1. load \in Loads /\ load.txs \in Nat /\ group_size \in Nat
  BY LoadTypes DEF ClientType
<1>2. \A k \in 1..group_size : <<n, k>> \in Process
  BY DEF Process
<1>3. \A k \in 1..group_size : child[<<n, k>>].t = load.txs
  BY <1>2 DEF ParentInv, RequestsInv, Forked
<1>4. Begun(n) = (1..group_size) \X (1..load.txs)
  BY <1>1, <1>3 DEF Begun
<1>5. Cardinality(Begun(n)) = PerConnection
  BY <1>1, <1>4, AllRequests
<1>6. ~lost
  BY DEF RequestsInv
<1>7. Frames(n) = Cardinality(Started(n))
  BY DEF Frames, Started, StreamInv
<1>8. announced[2] = PerConnection
  BY DEF ClientType
<1> QED
  BY <1>5, <1>6, <1>7, <1>8 DEF CountInv

\* What the server receives is what the client announced, for every load: on a
\* connection that any number of processes share (shrd_lock in Client.c) every
\* frame is whole, also when calls fail, and when none does the connection has
\* carried the announced number of requests, all of a form the server counts,
\* by the time the parent is gone.
THEOREM StreamsAreWhole == ClientSpec => []StreamsWhole
<1>1. ClientInv => StreamsWhole
  <2> SUFFICES ASSUME ClientInv PROVE StreamsWhole
    OBVIOUS
  <2>1. AnnouncedSent
    BY AllBegun DEF AnnouncedSent
  <2> QED
    BY <2>1 DEF StreamsWhole, ClientInv, StreamInv
<1> QED
  BY <1>1, ClientInitInv, ClientStep, PTL DEF ClientSpec
=============================================================================
