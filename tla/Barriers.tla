------------------------------ MODULE Barriers ------------------------------
(***************************************************************************)
(* The barriers and the thread pool of the benchmarks: the logarithmic     *)
(* barrier and the barrier in groups of src/TPCC/lib/thread.c, the         *)
(* spinning barrier of barrier.h, and the pool thread_startup,             *)
(* thread_start, thread_shutdown that meets at one of them before and      *)
(* after every parallel section.                                           *)
(*                                                                         *)
(* A section under one mutex is one step, since all it touches is under    *)
(* that mutex; in the barrier in groups a thread keeps its own mutex while *)
(* it takes another's, so those are explicit.  A thread asleep on a        *)
(* condition is woken by a signal only (pthread_cond_wait may also return  *)
(* spuriously, which `while (THREAD_COND_WAIT(..) != 0)' does not notice). *)
(***************************************************************************)
EXTENDS Integers, FiniteSetsExt

CONSTANTS
  Pools,     \* the pools to look at: records of kind and n (the threads)
  MaxPool,   \* no pool has more threads than this
  Starts     \* how often thread_start is called before thread_shutdown

ASSUME BarriersAssumption ==
  /\ Starts \in Nat /\ MaxPool \in Nat
  /\ \A p \in Pools : p.kind \in {"tree", "groups", "spin"} /\ p.n \in 1..MaxPool

VARIABLES
  pool,                    \* one of Pools, never changes
  step,                    \* where each thread is
  level,                   \* i: level of the tree, or loop counter
  cnt, held,               \* count of each barrier cell, and its mutex
  c1, c2, barr,            \* the spinning barrier
  stage,                   \* which barrier of the pool a thread is at
  doShutdown, started,     \* global_doShutdown, calls of thread_start so far
  entered, left, ran, led  \* history: barriers entered and left, sections
                           \* run, and barriers a thread was the leader of

cellVars == <<cnt, held>>
spinVars == <<c1, c2, barr>>
poolVars == <<stage, doShutdown, started, ran>>
barriersVars == <<pool, step, level, cellVars, spinVars, poolVars, entered, left, led>>

Member == 0..(MaxPool - 1)
Live == 0..(pool.n - 1)
Free == 0 - 1      \* an unlocked mutex

atomic_reset(n) == c1 = n /\ c2 = n /\ barr = 0 - 1

thread_startup ==
  /\ step = [t \in Member |-> IF t = 0 THEN "start" ELSE "call"]
  /\ stage = [t \in Member |-> "begin"]
  /\ doShutdown = FALSE /\ started = 0

BarriersInit ==
  /\ pool \in Pools
  /\ thread_startup
  /\ level = [t \in Member |-> 0]
  /\ cnt = [i \in Member |-> 0] /\ held = [i \in Member |-> Free]
  /\ atomic_reset(pool.n)
  /\ entered = [t \in Member |-> 0] /\ left = [t \in Member |-> 0]
  /\ ran = [t \in Member |-> 0] /\ led = [t \in Member |-> {}]

Go(t, to) == step' = [step EXCEPT ![t] = to]

\* Thread t is woken if it sleeps on the condition; a signal nobody waits for
\* is lost.
Wakes(t, to, w, asleep, awake) ==
  step' = [step EXCEPT ![t] = to, ![w] = IF @ = asleep THEN awake ELSE @]

Leave(t) ==
  /\ Go(t, "left")
  /\ left' = [left EXCEPT ![t] = @ + 1]

Enter(t, to) ==
  /\ step[t] = "call"
  /\ Go(t, to)
  /\ entered' = [entered EXCEPT ![t] = @ + 1]

-----------------------------------------------------------------------------
(***************************************************************************)
(* thread_barrier: pairs of threads meet at the cells of a binary tree;    *)
(* the one with the even index goes up, the other waits until it returns.  *)
(***************************************************************************)
Levels == {2, 4, 8, 16}
Base(i) == MapThenSumSet(LAMBDA j : pool.n \div j, {j \in Levels : j < i})
Cell(t, i) == Base(i) + t \div i

TreeEnter(t) ==
  /\ pool.kind = "tree"
  /\ IF pool.n < 2 THEN /\ step[t] = "call" /\ Leave(t)
                        /\ entered' = [entered EXCEPT ![t] = @ + 1]
     ELSE Enter(t, "up") /\ UNCHANGED left
  /\ level' = [level EXCEPT ![t] = 2]
  /\ UNCHANGED <<pool, cellVars, spinVars, poolVars, led>>

\* After the last level the thread turns and goes down again.
Above(t) == IF 2 * level[t] <= pool.n THEN "up" ELSE "turn"

TreeUp(t) ==
  LET i == level[t]
      x == Cell(t, i)
  IN /\ step[t] = "up"
     /\ cnt' = [cnt EXCEPT ![x] = @ + 1]
     /\ IF t % i = 0
        THEN IF cnt[x] + 1 < 2 THEN Go(t, "pair") /\ UNCHANGED level
             ELSE Go(t, Above(t)) /\ level' = [level EXCEPT ![t] = 2 * i]
        ELSE /\ IF cnt[x] + 1 = 2
                THEN Wakes(t, "all", t - i \div 2, "pair", "paired")
                ELSE Go(t, "all")
             /\ UNCHANGED level
     /\ UNCHANGED <<pool, held, spinVars, poolVars, entered, left, led>>

TreePaired(t) ==
  /\ step[t] = "paired" /\ pool.kind = "tree"
  /\ IF cnt[Cell(t, level[t])] < 2 THEN Go(t, "pair") /\ UNCHANGED level
     ELSE Go(t, Above(t)) /\ level' = [level EXCEPT ![t] = 2 * @]
  /\ UNCHANGED <<pool, cellVars, spinVars, poolVars, entered, left, led>>

\* Mutation: a cell keeps its count.
KeepsCount(t, x) == UNCHANGED cnt

\* "count = 0" before the waiting threads run on.
CellReset(t, x) == cnt' = [cnt EXCEPT ![x] = 0]

\* Woken by the partner, or back from the top: the cells below are reset and
\* those who wait there let go.
TreeDown(t) ==
  LET i == level[t] \div 2
  IN /\ step[t] \in {"turn", "go"} /\ pool.kind = "tree"
     /\ IF i > 1
        THEN /\ CellReset(t, Cell(t, i))
             /\ Wakes(t, "turn", t + i \div 2, "all", "go")
             /\ level' = [level EXCEPT ![t] = i]
             /\ UNCHANGED left
        ELSE Leave(t) /\ UNCHANGED <<level, cnt>>
     /\ UNCHANGED <<pool, held, spinVars, poolVars, entered, led>>

-----------------------------------------------------------------------------
(***************************************************************************)
(* thread_barrier_no_limit: the members of a group report to their         *)
(* coordinator, the coordinators to the primary thread, which lets them go *)
(***************************************************************************)
CeilLog2(n) == Min({k \in 0..n : 2 ^ k >= n})
threadsPerGroup == IF pool.n <= 2 THEN 1 ELSE CeilLog2(pool.n - 1)
numGroups == IF pool.n <= 2 THEN 1
             ELSE (pool.n - 1 + threadsPerGroup - 1) \div threadsPerGroup
lastGroupCoordId == (numGroups - 1) * threadsPerGroup + 1
lastGroupSize == pool.n - lastGroupCoordId

GroupSize(c) == IF c = lastGroupCoordId THEN lastGroupSize ELSE threadsPerGroup

IsCoord(t) == t > 0 /\ (pool.n <= 3 \/ t % threadsPerGroup = 1)
CoordOf(t) == 1 + threadsPerGroup * ((t - 1) \div threadsPerGroup)

\* Thread t holds mutex i / takes it / the mutex is free.
Takes(t, i) == held[i] = Free /\ held' = [held EXCEPT ![i] = t]
Drops(t, i) == held' = [held EXCEPT ![i] = Free]

GroupsEnter(t) ==
  /\ pool.kind = "groups"
  /\ IF pool.n < 2
     THEN /\ step[t] = "call" /\ Leave(t)
          /\ entered' = [entered EXCEPT ![t] = @ + 1] /\ UNCHANGED <<cnt, held>>
     ELSE /\ Takes(t, t)
          /\ Enter(t, IF t = 0 \/ IsCoord(t) THEN "check" ELSE "report")
          /\ cnt' = IF IsCoord(t) THEN [cnt EXCEPT ![t] = @ + 1] ELSE cnt
          /\ UNCHANGED left
  /\ level' = [level EXCEPT ![t] = 0]
  /\ UNCHANGED <<pool, spinVars, poolVars, led>>

Expected(t) == IF t = 0 THEN numGroups ELSE GroupSize(t)

\* The primary thread and the coordinators wait until all have reported.
GroupsCheck(t) ==
  /\ \/ step[t] = "check"
     \/ step[t] = "paired" /\ pool.kind = "groups" /\ held[t] = Free
  /\ IF cnt[t] < Expected(t)
     THEN Go(t, "pair") /\ Drops(t, t)
     ELSE /\ Go(t, IF t = 0 THEN "signal" ELSE "report")
          /\ held' = [held EXCEPT ![t] = t]
  /\ UNCHANGED <<pool, level, cnt, spinVars, poolVars, entered, left, led>>

\* Mutation: the report wakes nobody.
ReportSilently(t, to) == Go(t, "all")

\* The last report wakes the one who waits for it.
ReportWakes(t, to) ==
  IF cnt[to] + 1 = (IF to = 0 THEN numGroups ELSE GroupSize(to))
  THEN Wakes(t, "all", to, "pair", "paired") ELSE Go(t, "all")

\* A coordinator reports to the primary thread, a member to its coordinator,
\* and goes to sleep, giving up its own mutex.
GroupsReport(t) ==
  LET to == IF IsCoord(t) THEN 0 ELSE CoordOf(t)
  IN /\ step[t] = "report" /\ held[to] = Free
     /\ cnt' = [cnt EXCEPT ![to] = @ + 1]
     /\ ReportWakes(t, to)
     /\ Drops(t, t)
     /\ UNCHANGED <<pool, level, spinVars, poolVars, entered, left, led>>

\* Whom the primary thread and the coordinators let go, in order.
Target(t, i) == IF t = 0 THEN i * threadsPerGroup + 1 ELSE t + i + 1
Targets(t) == IF t = 0 THEN numGroups ELSE GroupSize(t) - 1

GroupsWoken(t) ==
  /\ step[t] = "go" /\ pool.kind = "groups" /\ held[t] = Free
  /\ IF IsCoord(t) THEN /\ Go(t, "signal") /\ Takes(t, t) /\ UNCHANGED left
     ELSE Leave(t) /\ UNCHANGED held
  /\ UNCHANGED <<pool, level, cnt, spinVars, poolVars, entered, led>>

GroupsSignal(t) ==
  /\ step[t] = "signal"
  /\ IF level[t] < Targets(t)
     THEN LET m == Target(t, level[t])
          IN /\ held[m] = Free
             /\ Wakes(t, "signal", m, "all", "go")
             /\ level' = [level EXCEPT ![t] = @ + 1]
             /\ UNCHANGED <<cnt, held, left>>
     ELSE /\ CellReset(t, t)
          /\ Drops(t, t)
          /\ Leave(t)
          /\ UNCHANGED level
  /\ UNCHANGED <<pool, spinVars, poolVars, entered, led>>

-----------------------------------------------------------------------------
(***************************************************************************)
(* my_thread_barrier                                                       *)
(***************************************************************************)
\* "Wait for the leader to finish resetting the barrier"
SpinEnter(t) ==
  /\ pool.kind = "spin" /\ barr = 0 - 1
  /\ Enter(t, "dec")
  /\ UNCHANGED <<pool, level, cellVars, spinVars, poolVars, left, led>>

SpinArrive(t) ==
  /\ step[t] = "dec"
  /\ c1' = c1 - 1
  /\ Go(t, "spin1")
  /\ UNCHANGED <<pool, level, cellVars, c2, barr, poolVars, entered, left, led>>

\* atomic_inc_and_test: the increment that reaches zero.
Elected(b) == b = 0

SpinElect(t) ==
  /\ step[t] = "spin1" /\ c1 = 0
  /\ barr' = barr + 1
  /\ led' = IF Elected(barr + 1) THEN [led EXCEPT ![t] = @ \cup {entered[t]}] ELSE led
  /\ Go(t, IF Elected(barr + 1) THEN "lead" ELSE "follow")
  /\ UNCHANGED <<pool, level, cellVars, c1, c2, poolVars, entered, left>>

SpinSynced(t) ==
  /\ step[t] \in {"lead", "follow"}
  /\ c2' = c2 - 1
  /\ IF step[t] = "lead" THEN Go(t, "spin2") /\ UNCHANGED left ELSE Leave(t)
  /\ UNCHANGED <<pool, level, cellVars, c1, barr, poolVars, entered, led>>

\* atomic_reset by the leader: three stores, in this order.
ResetInOrder(t) ==
  \/ /\ step[t] = "spin2" /\ c2 = 0
     /\ c1' = pool.n /\ Go(t, "reset2") /\ UNCHANGED <<c2, barr, left>>
  \/ step[t] = "reset2" /\ c2' = pool.n /\ Go(t, "reset3") /\ UNCHANGED <<c1, barr, left>>
  \/ step[t] = "reset3" /\ barr' = 0 - 1 /\ Leave(t) /\ UNCHANGED <<c1, c2>>

SpinReset(t) ==
  /\ ResetInOrder(t)
  /\ UNCHANGED <<pool, level, cellVars, poolVars, entered, led>>

-----------------------------------------------------------------------------
(***************************************************************************)
(* The pool                                                                *)
(***************************************************************************)
\* threadWait after the barrier: run the section, or stop.
AfterBarrier(t) ==
  /\ step[t] = "left"
  /\ Go(t, CASE stage[t] = "begin" /\ doShutdown -> IF t = 0 THEN "join" ELSE "gone"
             [] stage[t] = "begin" /\ ~doShutdown -> "work"
             [] OTHER -> IF t = 0 THEN "start" ELSE "call")
  /\ stage' = [stage EXCEPT ![t] = "begin"]
  /\ UNCHANGED <<pool, level, cellVars, spinVars, doShutdown, started, ran,
                 entered, left, led>>

RunSection(t) ==
  /\ step[t] = "work"
  /\ ran' = [ran EXCEPT ![t] = @ + 1]
  /\ stage' = [stage EXCEPT ![t] = "end"]
  /\ Go(t, "call")
  /\ UNCHANGED <<pool, level, cellVars, spinVars, doShutdown, started, entered,
                 left, led>>

thread_start ==
  /\ step[0] = "start" /\ started < Starts
  /\ started' = started + 1
  /\ Go(0, "call")
  /\ UNCHANGED <<pool, level, cellVars, spinVars, stage, doShutdown, ran,
                 entered, left, led>>

thread_shutdown ==
  /\ step[0] = "start" /\ started = Starts
  /\ doShutdown' = TRUE
  /\ Go(0, "call")
  /\ UNCHANGED <<pool, level, cellVars, spinVars, stage, started, ran, entered,
                 left, led>>

JoinAll ==
  /\ step[0] = "join" /\ \A t \in Live \ {0} : step[t] = "gone"
  /\ Go(0, "gone")
  /\ UNCHANGED <<pool, level, cellVars, spinVars, poolVars, entered, left, led>>

Barrier(t) ==
  \/ TreeEnter(t) \/ TreeUp(t) \/ TreePaired(t) \/ TreeDown(t)
  \/ GroupsEnter(t) \/ GroupsCheck(t) \/ GroupsReport(t) \/ GroupsWoken(t)
  \/ GroupsSignal(t)
  \/ SpinEnter(t) \/ SpinArrive(t) \/ SpinElect(t) \/ SpinSynced(t) \/ SpinReset(t)

MemberNext(t) == Barrier(t) \/ AfterBarrier(t) \/ RunSection(t)
PrimaryNext == thread_start \/ thread_shutdown \/ JoinAll

BarriersNext == PrimaryNext \/ \E t \in Live : MemberNext(t)

\* Every thread that can run does.
BarriersFairness ==
  WF_barriersVars(PrimaryNext)
  /\ \A t \in Member : WF_barriersVars(t \in Live /\ MemberNext(t))

BarriersSpec == BarriersInit /\ [][BarriersNext]_barriersVars /\ BarriersFairness

-----------------------------------------------------------------------------
(***************************************************************************)
(* Properties                                                              *)
(***************************************************************************)
\* No thread leaves a barrier before every thread of the pool has entered it,
\* however often the barrier is used and however far the threads are apart.
BarrierSeparates == \A t, u \in Live : left[t] <= entered[u]

\* The spinning barrier has one leader each time (the thread that gets 1).
OneLeader == pool.kind = "spin" =>
  /\ \A t, u \in Live : t # u => led[t] \cap led[u] = {}
  /\ \A e \in 1..Max({left[t] : t \in Live}) : \E t \in Live : e \in led[t]

\* The parallel sections run once by every thread for each thread_start, and
\* the pool shuts down: nobody is left asleep at a barrier.
PoolEnds == <>(\A t \in Live : step[t] = "gone" /\ ran[t] = Starts)

\* A barrier of thread.c keeps rounds apart and, where it elects a leader,
\* elects one.
RoundsApart == BarrierSeparates /\ OneLeader
=============================================================================
