----------------------------- MODULE Statistics -----------------------------
(***************************************************************************)
(* The counters of the STM: the module mod_stats (src/tinySTM/src/         *)
(* mod_stats.c, with the sampling of LEARNING builds) and the latencies of *)
(* STM_STATS builds (include/stm_stats.h).                                 *)
(*                                                                         *)
(* A thread counts alone, in callbacks of its own transactions.  When it   *)
(* exits it pushes its latencies on a shared list and merges its counters  *)
(* into mod_stats_global word by word, without a lock; stm_exit combines   *)
(* the list once the threads are gone.                                     *)
(*                                                                         *)
(* A running mean is kept as a sum and a number of samples.                *)
(***************************************************************************)
EXTENDS Naturals, Sequences, SequencesExt, FiniteSetsExt

CONSTANTS
  Counter,            \* threads
  MaxTx,              \* bound on the transactions of a thread
  MaxAborts,          \* bound on the aborts of a thread
  MaxWork,            \* bound on the time a thread spends in transactions
  SAMPLING_INTERVAL,  \* commits of a sample
  ULONG_MAX

ASSUME StatisticsAssumption == /\ SAMPLING_INTERVAL \in Nat \ {0}
                               /\ MaxAborts < ULONG_MAX

VARIABLES
  st,                 \* per thread: its mod_stats_data_t and stm_stats_t
  mod_stats_global,
  stats_list,         \* the threads' latencies, newest first
  combined,           \* what stm_exit prints, when it has: <<totals>>
  retried             \* history: per thread, the retries of each commit

statVars == <<st, mod_stats_global, stats_list, combined, retried>>

Latency == [local |-> 0, samples |-> 0, sum |-> 0]

\* mod_stats_on_thread_init.
FreshStats ==
  [at |-> "idle", commits |-> 0, retries |-> 0, retries_acc |-> 0, retries_cnt |-> 0,
   retries_min |-> ULONG_MAX, retries_max |-> 0,
   commitCounter |-> 0, abortCounter |-> 0, sampled |-> <<>>,
   clk |-> 0, aborts |-> 0, seen |-> <<>>,
   commit |-> Latency, completion |-> Latency, abort_plt_real |-> Latency]

StatInit ==
  /\ st = [w \in Counter |-> FreshStats]
  /\ mod_stats_global = [commits |-> 0, retries_cnt |-> 0, retries_acc |-> 0,
                         retries_min |-> ULONG_MAX, retries_max |-> 0]
  /\ stats_list = <<>>
  /\ combined = <<>>
  /\ retried = [w \in Counter |-> <<>>]

-----------------------------------------------------------------------------
\* Latencies.

stm_stats_entry_reset(entry, clk) == [entry EXCEPT !.local = clk]

stm_stats_entry_update(entry, clk) ==
  [local |-> clk, samples |-> entry.samples + 1, sum |-> entry.sum + (clk - entry.local)]

stm_stats_entry_combine(a, b) ==
  [local |-> a.local, samples |-> a.samples + b.samples, sum |-> a.sum + b.sum]

\* The three latencies modelled of the twelve.
stm_stats_combine(a, b) ==
  [commit         |-> stm_stats_entry_combine(a.commit, b.commit),
   completion     |-> stm_stats_entry_combine(a.completion, b.completion),
   abort_plt_real |-> stm_stats_entry_combine(a.abort_plt_real, b.abort_plt_real)]

\* stm_prepare restarts the latencies of the attempt.
Prepared(s) ==
  [s EXCEPT !.completion = stm_stats_entry_reset(@, s.clk),
            !.abort_plt_real = stm_stats_entry_reset(@, s.clk)]

-----------------------------------------------------------------------------
\* A thread's transactions.

Idle(w) == st[w].at = "idle" /\ combined = <<>>

\* update_statistics closes the sample of the last SAMPLING_INTERVAL commits.
update_statistics(s) ==
  [s EXCEPT !.sampled = Append(@, [ncommit |-> s.commitCounter, nabort |-> s.abortCounter]),
            !.commitCounter = 0, !.abortCounter = 0]

\* stm_start, then mod_stats_on_start.
mod_stats_on_start(w) ==
  LET s == Prepared([st[w] EXCEPT !.commit = stm_stats_entry_reset(@, st[w].clk),
                                  !.at = "running"]) IN
  /\ Idle(w) /\ st[w].commits < MaxTx
  /\ st' = [st EXCEPT ![w] = IF s.commitCounter >= SAMPLING_INTERVAL
                             THEN update_statistics(s) ELSE s]
  /\ UNCHANGED <<mod_stats_global, stats_list, combined, retried>>

Work(w) ==
  /\ st[w].at = "running" /\ st[w].clk < MaxWork
  /\ st' = [st EXCEPT ![w].clk = @ + 1]
  /\ UNCHANGED <<mod_stats_global, stats_list, combined, retried>>

\* mod_stats_on_abort; the attempt restarts at once or after a wait.
mod_stats_on_abort(w) ==
  LET s == [st[w] EXCEPT !.abort_plt_real = stm_stats_entry_update(@, st[w].clk),
                         !.retries = @ + 1, !.aborts = @ + 1,
                         !.abortCounter = @ + 1] IN
  /\ st[w].at = "running" /\ st[w].aborts < MaxAborts
  /\ \E wait \in 0 .. 1 :
       /\ s.clk + wait <= MaxWork
       /\ st' = [st EXCEPT ![w] = Prepared([s EXCEPT !.clk = @ + wait])]
  /\ UNCHANGED <<mod_stats_global, stats_list, combined, retried>>

NoRetries(s) == 0

mod_stats_on_commit(w) ==
  LET s == st[w] IN
  /\ s.at = "running"
  /\ st' = [st EXCEPT ![w] =
       [s EXCEPT !.at = "idle",
                 !.commits = @ + 1,
                 !.retries_acc = @ + s.retries,
                 !.retries_cnt = @ + 1,
                 !.retries_min = Min({@, s.retries}),
                 !.retries_max = Max({@, s.retries}),
                 !.retries = NoRetries(s),
                 !.commitCounter = @ + 1,
                 !.commit = stm_stats_entry_update(@, s.clk),
                 !.completion = stm_stats_entry_update(@, s.clk)]]
  /\ retried' = [retried EXCEPT ![w] = Append(@, s.aborts - FoldLeft(+, 0, @))]
  /\ UNCHANGED <<mod_stats_global, stats_list, combined>>

-----------------------------------------------------------------------------
\* stm_exit_thread: the latencies, then mod_stats_on_thread_exit, one action
\* per access to a shared word.

Moves(w, from, to) == st[w].at = from /\ st' = [st EXCEPT ![w].at = to]
MovesWith(w, from, to, seen) ==
  st[w].at = from /\ st' = [st EXCEPT ![w].at = to, ![w].seen = seen]

\* The mutant CasAnyway stores whatever is there.
CasAnyway(word, seen) == TRUE
CasHolds(word, seen) == word = seen

LoadHead(w) ==
  /\ Idle(w) \/ st[w].at = "insert"
  /\ st' = [st EXCEPT ![w].at = "push", ![w].seen = stats_list]
  /\ UNCHANGED <<mod_stats_global, stats_list, combined, retried>>

PushHead(w) ==
  /\ st[w].at = "push"
  /\ IF CasHolds(stats_list, st[w].seen)
     THEN /\ Moves(w, "push", "commits")
          /\ stats_list' = <<w>> \o st[w].seen
     ELSE Moves(w, "push", "insert") /\ UNCHANGED stats_list
  /\ UNCHANGED <<mod_stats_global, combined, retried>>

\* Three fetch-and-adds.
MergeCounts(w) ==
  /\ \/ /\ Moves(w, "commits", "count")
        /\ mod_stats_global' = [mod_stats_global EXCEPT !.commits = @ + st[w].commits]
     \/ /\ Moves(w, "count", "aborts")
        /\ mod_stats_global' = [mod_stats_global EXCEPT !.retries_cnt = @ + st[w].retries_cnt]
     \/ /\ Moves(w, "aborts", "max")
        /\ mod_stats_global' = [mod_stats_global EXCEPT !.retries_acc = @ + st[w].retries_acc]
  /\ UNCHANGED <<stats_list, combined, retried>>

\* retry_max and retry_min: load, compare, compare-and-swap.
LoadExtreme(w) ==
  /\ \/ MovesWith(w, "max", IF st[w].retries_max > mod_stats_global.retries_max
                            THEN "setmax" ELSE "min", mod_stats_global.retries_max)
     \/ MovesWith(w, "min", IF st[w].retries_min < mod_stats_global.retries_min
                            THEN "setmin" ELSE "gone", mod_stats_global.retries_min)
  /\ UNCHANGED <<mod_stats_global, stats_list, combined, retried>>

StoreExtreme(w) ==
  /\ \/ /\ st[w].at = "setmax"
        /\ IF CasHolds(mod_stats_global.retries_max, st[w].seen)
           THEN /\ Moves(w, "setmax", "min")
                /\ mod_stats_global' = [mod_stats_global EXCEPT !.retries_max = st[w].retries_max]
           ELSE Moves(w, "setmax", "max") /\ UNCHANGED mod_stats_global
     \/ /\ st[w].at = "setmin"
        /\ IF CasHolds(mod_stats_global.retries_min, st[w].seen)
           THEN /\ Moves(w, "setmin", "gone")
                /\ mod_stats_global' = [mod_stats_global EXCEPT !.retries_min = st[w].retries_min]
           ELSE Moves(w, "setmin", "min") /\ UNCHANGED mod_stats_global
  /\ UNCHANGED <<stats_list, combined, retried>>

stm_stats_list_combine(list) ==
  FoldLeft(LAMBDA acc, w : stm_stats_combine(acc, st[w]),
           [commit |-> Latency, completion |-> Latency, abort_plt_real |-> Latency], list)

\* Called from main once the threads are gone.
stm_exit ==
  /\ \A w \in Counter : st[w].at = "gone"
  /\ combined = <<>>
  /\ combined' = <<stm_stats_list_combine(stats_list)>>
  /\ UNCHANGED <<st, mod_stats_global, stats_list, retried>>

stm_get_global_stats(name) ==
  CASE name = "global_nb_commits"  -> mod_stats_global.commits
    [] name = "global_nb_aborts"   -> mod_stats_global.retries_acc
    [] name = "global_max_retries" -> mod_stats_global.retries_max

StatNext ==
  \/ \E w \in Counter :
       \/ mod_stats_on_start(w) \/ Work(w) \/ mod_stats_on_abort(w)
       \/ mod_stats_on_commit(w) \/ LoadHead(w) \/ PushHead(w)
       \/ MergeCounts(w) \/ LoadExtreme(w) \/ StoreExtreme(w)
  \/ stm_exit

StatSpec == StatInit /\ [][StatNext]_statVars

-----------------------------------------------------------------------------
\* Properties.

AllRetries == UNION {ToSet(retried[w]) : w \in Counter}
Overall(f(_)) == MapThenSumSet(f, Counter)

\* The merge without a lock loses no thread: when the threads are gone, the
\* global counters are those of all their transactions, the extremes included
\* (mod_stats_on_thread_exit, stm_get_global_stats).  Aborts of a transaction that never committed
\* are not counted: retries_acc grows at a commit.
GlobalCountsExact ==
  (\A w \in Counter : st[w].at = "gone") =>
    /\ stm_get_global_stats("global_nb_commits") = Overall(LAMBDA w : Len(retried[w]))
    /\ mod_stats_global.retries_cnt = mod_stats_global.commits
    /\ stm_get_global_stats("global_nb_aborts") = Overall(LAMBDA w : FoldLeft(+, 0, retried[w]))
    /\ stm_get_global_stats("global_max_retries") = Max(AllRetries \cup {0})
    /\ mod_stats_global.retries_min = Min(AllRetries \cup {ULONG_MAX})

\* Samples lose nothing: a thread's closed samples and its running counters
\* together hold each commit and each abort once (update_statistics).
SamplesComplete ==
  \A w \in Counter :
    /\ FoldLeft(LAMBDA n, x : n + x.ncommit, st[w].commitCounter, st[w].sampled) = st[w].commits
    /\ FoldLeft(LAMBDA n, x : n + x.nabort, st[w].abortCounter, st[w].sampled) = st[w].aborts

\* The printed latencies are those of every transaction of every thread: as
\* many samples as commits and aborts, and the time from start to commit
\* covers the last attempt and the aborted ones before it.
LatenciesNested ==
  combined # <<>> =>
    /\ combined[1].commit.samples = Overall(LAMBDA w : st[w].commits)
    /\ combined[1].completion.samples = combined[1].commit.samples
    /\ combined[1].abort_plt_real.samples = Overall(LAMBDA w : st[w].aborts)
    /\ combined[1].commit.sum >= combined[1].completion.sum + combined[1].abort_plt_real.sum
    /\ combined[1].commit.sum <= Overall(LAMBDA w : st[w].clk)

\* Counters, samples and latencies agree with what the threads did.
StatisticsExact == GlobalCountsExact /\ SamplesComplete /\ LatenciesNested
=============================================================================
