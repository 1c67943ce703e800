------------------------------- MODULE Pacing -------------------------------
(***************************************************************************)
(* When the next extra validation of a transaction is due: the control     *)
(* buffer's opt_clock, as one thread computes it in the two builds that do *)
(* so,                                                                     *)
(*   "model"      make MB=1: stm_validate and stm_read_invisible           *)
(*                (src/tinySTM/src/stm.c) with a plan from MbTable;        *)
(*   "heuristic"  EA_QUIESCENT_HEURISTIC: stm_ea_qh_* (include/stm_ea.h).  *)
(* Both keep, per transaction profile, a sliding window of the periods     *)
(* between two validations (include/sliding-window.h) and a bit that says  *)
(* whether this attempt has validated before (include/bitmap.h).           *)
(*                                                                         *)
(* A mean is a pair <<sum, count>>.  The mean of no sample is 0.0/0.0, and *)
(* its conversion to an integer, undefined in C, is 2^63 on x86-64: Far.   *)
(***************************************************************************)
EXTENDS Naturals, Sequences, SequencesExt

CONSTANTS
  Profile,          \* ids of transaction profiles (tx->attr->id)
  S_WINDOW_SIZE,    \* slots of a window
  Steps,            \* by how much the time stamp counter advances
  MaxTsc,         \* bound on the counter
  Far               \* a moment that never comes

ASSUME PacingAssumption == /\ S_WINDOW_SIZE \in Nat \ {0}
                           /\ Steps \subseteq Nat /\ MaxTsc < Far

VARIABLES
  method,           \* the build: "model" or "heuristic" (fixed)
  tsc,              \* the time stamp counter
  attempt,          \* the running attempt's profile, or "none"
  tx_on, standing, opt_clock,           \* the control buffer
  validation_period, validation_reset, validation_last, scaler,  \* per profile
  begun,            \* history: when the attempt started
  samples           \* history: the periods recorded, per profile

paceVars == <<method, tsc, attempt, tx_on, standing, opt_clock, validation_period,
              validation_reset, validation_last, scaler, begun, samples>>

NoMean == <<0, 1>>   \* 0.0: to be computed

-----------------------------------------------------------------------------
\* The sliding window.

EmptyWindow == [filled |-> FALSE, position |-> 0, mean |-> NoMean,
                value |-> [i \in 0 .. S_WINDOW_SIZE - 1 |-> 0],
                sum |-> [i \in 0 .. S_WINDOW_SIZE - 1 |-> 0]]

\* winS_updateU: each slot keeps the sum of the window that ends in it.
winS_updateU(w, sample) ==
  LET new == (w.position + 1) % S_WINDOW_SIZE IN
    [filled   |-> w.filled \/ new = 0,
     position |-> new,
     mean     |-> NoMean,
     sum      |-> [w.sum EXCEPT ![new] = (w.sum[w.position] - w.value[new]) + sample],
     value    |-> [w.value EXCEPT ![new] = sample]]

Count(w) == IF w.filled THEN S_WINDOW_SIZE ELSE w.position

\* winS_getMeanU: computed once after an update, then cached.
winS_getMeanU(w) ==
  IF w.mean[1] = 0 /\ w.mean[2] # 0 THEN <<w.sum[w.position], Count(w)>> ELSE w.mean

Cached(w) == [w EXCEPT !.mean = winS_getMeanU(w)]

\* The conversion of scale/20 times a mean to an integer.
Truncated(mean, scale) ==
  IF mean[2] = 0 THEN Far ELSE (mean[1] * scale) \div (mean[2] * 20)

-----------------------------------------------------------------------------
\* stm_ea_qh_init_thread: 0.5, in twentieths.
FreshScaler == [p \in Profile |-> 10]

PaceInit ==
  /\ method \in {"model", "heuristic"}
  /\ tsc = 1 /\ begun = 1
  /\ attempt = "none" /\ tx_on = FALSE /\ standing = FALSE /\ opt_clock = 0
  /\ validation_period = [p \in Profile |-> EmptyWindow]
  /\ validation_reset = [p \in Profile |-> FALSE]
  /\ validation_last = [p \in Profile |-> 0]
  /\ scaler = FreshScaler
  /\ samples = [p \in Profile |-> <<>>]

\* bitmap_reset; the mutant KeepsBits forgets it.
KeepsBits == validation_reset
bitmap_reset == [p \in Profile |-> FALSE]

Due(base, delay) == IF delay = Far \/ base + delay > Far THEN Far ELSE base + delay

\* The moment an attempt starts with; the mutant OldMoment keeps the last
\* attempt's.
OldMoment(p, scale) == opt_clock
FirstMoment(p, scale) ==
  IF method = "model" THEN 0
  ELSE Due(tsc, Truncated(winS_getMeanU(validation_period[p]), scale))

FirstWindow(p) == IF method = "model" THEN validation_period
                  ELSE [validation_period EXCEPT ![p] = Cached(@)]

\* stm_prepare, for an attempt of profile p.
prepare(p) ==
  /\ attempt' = p /\ tx_on' = TRUE /\ standing' = FALSE
  /\ validation_reset' = bitmap_reset
  /\ begun' = tsc
  /\ opt_clock' = FirstMoment(p, scaler[p])
  /\ validation_period' = FirstWindow(p)
  /\ UNCHANGED <<method, tsc, validation_last, scaler, samples>>

StartAttempt(p) == attempt = "none" /\ prepare(p)

\* A commit, or an abort that is not retried.
Finish ==
  /\ attempt # "none" /\ tx_on
  /\ attempt' = "none" /\ tx_on' = FALSE
  /\ UNCHANGED <<method, tsc, standing, opt_clock, validation_period, validation_reset,
                 validation_last, scaler, begun, samples>>

Tick ==
  /\ \E d \in Steps : tsc + d <= MaxTsc /\ tsc' = tsc + d
  /\ UNCHANGED <<method, attempt, tx_on, standing, opt_clock, validation_period,
                 validation_reset, validation_last, scaler, begun, samples>>

\* The period since the last validation, recorded from the second validation
\* of the attempt on.
RecordPeriod(p) ==
  IF validation_reset[p]
  THEN /\ validation_period' =
            [validation_period EXCEPT ![p] = winS_updateU(@, tsc - validation_last[p])]
       /\ samples' = [samples EXCEPT ![p] = Append(@, tsc - validation_last[p])]
       /\ UNCHANGED validation_reset
  ELSE validation_reset' = [validation_reset EXCEPT ![p] = TRUE]
       /\ UNCHANGED <<validation_period, samples>>

\* The plan for a mean period: none when it is zero or the validation would
\* cost more than it saves; else MbTable's t_opt, before the period's end.
Plans(mean) == LET period == Truncated(mean, 20) IN
                 {0} \cup (IF period = Far THEN {Far} ELSE {t \in 1 .. period : t < period})

\* The counter has advanced since the profile's last validation.
Later(p) == tsc > validation_last[p]

\* A validation that succeeds, "model" build.
ValidateModel(p) ==
  /\ method = "model" /\ attempt = p /\ Later(p)
  /\ validation_last' = [validation_last EXCEPT ![p] = tsc]
  /\ IF tx_on /\ ~standing
     THEN RecordPeriod(p) /\ opt_clock' = 0
     ELSE /\ \E t_opt \in Plans(winS_getMeanU(validation_period[p])) :
               opt_clock' = IF t_opt = 0 THEN 0 ELSE Due(tsc, t_opt)
          /\ validation_period' = [validation_period EXCEPT ![p] = Cached(@)]
          /\ UNCHANGED <<validation_reset, samples>>
  /\ standing' = FALSE /\ tx_on' = TRUE
  /\ UNCHANGED <<method, tsc, attempt, scaler, begun>>

\* A read that enters the read set, "model" build; the bit is not set before
\* the attempt's first validation.
ReadModel(p) ==
  /\ method = "model" /\ attempt = p /\ tx_on
  /\ validation_reset[p] /\ ~standing
  /\ \E t_opt \in Plans(winS_getMeanU(validation_period[p])) \ {0} :
       opt_clock' = Due(validation_last[p], t_opt)
  /\ validation_period' = [validation_period EXCEPT ![p] = Cached(@)]
  /\ UNCHANGED <<method, tsc, attempt, tx_on, standing, validation_reset,
                 validation_last, scaler, begun, samples>>

\* stm_ea_qh_validate_incr: a validation that succeeds, "heuristic" build.
stm_ea_qh_validate_incr(p) ==
  /\ method = "heuristic" /\ attempt = p /\ Later(p)
  /\ IF tx_on
     THEN /\ RecordPeriod(p)
          /\ validation_last' = [validation_last EXCEPT ![p] = tsc]
          /\ opt_clock' = Due(tsc, Truncated(winS_getMeanU(validation_period'[p]), scaler[p]))
          /\ UNCHANGED scaler
     ELSE /\ opt_clock' = 0
          /\ scaler' = [scaler EXCEPT ![p] = IF @ <= 18 THEN @ + 1 ELSE @]
          /\ UNCHANGED <<validation_period, validation_reset, validation_last, samples>>
  /\ tx_on' = TRUE /\ standing' = FALSE
  /\ UNCHANGED <<method, tsc, attempt, begun>>

\* A validation that fails; the attempt restarts with the next prepare.
\* In the "heuristic" build one that a tick asked for shortens the period.
ValidateFails(p) ==
  LET scaled == IF method = "heuristic" /\ ~tx_on /\ scaler[p] >= 2
                THEN scaler[p] - 1 ELSE scaler[p] IN
  /\ attempt = p
  /\ scaler' = [scaler EXCEPT ![p] = scaled]
  /\ tx_on' = TRUE /\ standing' = FALSE
  /\ validation_reset' = bitmap_reset
  /\ begun' = tsc
  /\ opt_clock' = FirstMoment(p, scaled)
  /\ validation_period' = FirstWindow(p)
  /\ UNCHANGED <<method, tsc, attempt, validation_last, samples>>

\* The kernel finds the moment come (timestretch): it calls stm_revalidate,
\* which clears tx_on, or leaves the tick standing when the thread is inside
\* the library.
Deliver ==
  /\ attempt # "none" /\ tx_on /\ opt_clock # 0 /\ opt_clock = tsc
  /\ \/ tx_on' = FALSE /\ UNCHANGED standing
     \/ standing' = TRUE /\ UNCHANGED tx_on
  /\ UNCHANGED <<method, tsc, attempt, opt_clock, validation_period, validation_reset,
                 validation_last, scaler, begun, samples>>

PaceNext ==
  \/ Tick \/ Deliver \/ Finish
  \/ \E p \in Profile : \/ StartAttempt(p) \/ ValidateModel(p) \/ ReadModel(p)
                        \/ stm_ea_qh_validate_incr(p) \/ ValidateFails(p)

PaceSpec == PaceInit /\ [][PaceNext]_paceVars

-----------------------------------------------------------------------------
\* Properties.

LastPeriods(p) == LET n == Len(samples[p]) IN
  SubSeq(samples[p], IF n > S_WINDOW_SIZE THEN n - S_WINDOW_SIZE + 1 ELSE 1, n)

\* The window, its first sample in slot 1 and its mean cached across
\* transactions, always yields the mean of the last S_WINDOW_SIZE periods of
\* its own profile, or of all of them while there are fewer
\* (sliding-window.h: winS_updateU, winS_getMeanU).
WindowExact ==
  \A p \in Profile : samples[p] # <<>> =>
    LET mean == winS_getMeanU(validation_period[p]) IN
      /\ mean[2] > 0
      /\ mean[1] * Len(LastPeriods(p)) = FoldLeft(+, 0, LastPeriods(p)) * mean[2]

\* What the kernel is told concerns the running attempt: the moment to deliver
\* a tick was computed from a validation of this attempt or from its start,
\* and never lies before it, though windows and stamps outlive attempts.
DeadlineOfAttempt ==
  attempt # "none" => opt_clock = 0 \/ opt_clock >= begun

\* A period that enters a window lies within one attempt: the time spent
\* between an abort or a commit and the next attempt of the profile is never
\* taken for a validation period (bitmap_reset in stm_prepare).
PeriodsWithinAttempt ==
  [][\A p \in Profile : samples'[p] # samples[p] =>
        attempt = p /\ validation_last[p] >= begun]_paceVars

\* What the pacing of revalidations rests on is exact: the mean of the window
\* and the moment asked of the kernel.
PacingExact == WindowExact /\ DeadlineOfAttempt
=============================================================================
