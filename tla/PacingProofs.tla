---------------------------- MODULE PacingProofs ----------------------------
(***************************************************************************)
(* The pacing of revalidations, for any profiles and any window.  A bit of *)
(* the bitmap that is set stands for a validation of the running attempt,  *)
(* because an attempt clears all of them when it starts: a period is       *)
(* recorded only between two validations of one attempt.                   *)
(***************************************************************************)
EXTENDS Pacing, TLAPS

\* The inductive invariant: a bit that is set has a stamp of this attempt.
PaceInv ==
  /\ tsc \in Nat /\ begun \in Nat /\ begun <= tsc
  /\ validation_last \in [Profile -> Nat]
  /\ validation_reset \in [Profile -> BOOLEAN]
  /\ samples = [p \in Profile |-> samples[p]]
  /\ \A p \in Profile : validation_reset[p] => validation_last[p] >= begun

\* What a validation of profile p that succeeds does to its bit, its stamp and
\* its samples.
LEMMA RecordsWithin ==
  ASSUME PaceInv, NEW p \in Profile, UNCHANGED <<tsc, begun>>,
         validation_last' = [validation_last EXCEPT ![p] = tsc],
         RecordPeriod(p) \/ UNCHANGED <<validation_reset, samples>>
  PROVE  /\ PaceInv'
         /\ \A q \in Profile :
              samples'[q] # samples[q] => q = p /\ validation_last[q] >= begun
<1>1. \A q \in Profile : samples'[q] # samples[q] => q = p /\ validation_last[q] >= begun
  BY DEF PaceInv, RecordPeriod
<1>2. validation_reset' \in [Profile -> BOOLEAN] /\ samples' = [q \in Profile |-> samples'[q]]
  BY DEF PaceInv, RecordPeriod
<1>3. \A q \in Profile : q # p => validation_reset'[q] = validation_reset[q]
  BY DEF PaceInv, RecordPeriod
<1>4. /\ validation_last' \in [Profile -> Nat] /\ validation_last'[p] = tsc
      /\ \A q \in Profile : q # p => validation_last'[q] = validation_last[q]
  BY DEF PaceInv
<1> QED
  BY <1>1, <1>2, <1>3, <1>4 DEF PaceInv

LEMMA PaceStep ==
  ASSUME PaceInv, [PaceNext]_paceVars
  PROVE  /\ PaceInv'
         /\ \A p \in Profile :
              samples'[p] # samples[p] => attempt = p /\ validation_last[p] >= begun
<1>1. ASSUME UNCHANGED paceVars
      PROVE  PaceInv' /\ samples' = samples
  BY <1>1 DEF paceVars, PaceInv
<1>2. ASSUME Tick
      PROVE  PaceInv' /\ samples' = samples
  <2>1. PICK d \in Steps : tsc' = tsc + d
    BY <1>2 DEF Tick
  <2>2. tsc' \in Nat /\ begun <= tsc'
    BY <2>1, PacingAssumption DEF PaceInv
  <2> QED
    BY <1>2, <2>2 DEF Tick, PaceInv
<1>3. ASSUME Deliver \/ Finish
      PROVE  PaceInv' /\ samples' = samples
  BY <1>3 DEF Deliver, Finish, PaceInv
<1>4. ASSUME NEW p \in Profile, StartAttempt(p) \/ ValidateFails(p)
      PROVE  PaceInv' /\ samples' = samples
  <2>1. /\ validation_reset' = [q \in Profile |-> FALSE] /\ begun' = tsc
        /\ UNCHANGED <<tsc, validation_last, samples>>
    BY <1>4 DEF StartAttempt, ValidateFails, prepare, bitmap_reset
  <2> QED
    BY <2>1 DEF PaceInv
<1>5. ASSUME NEW p \in Profile, ReadModel(p)
      PROVE  PaceInv' /\ samples' = samples
  BY <1>5 DEF ReadModel, PaceInv
<1>6. ASSUME NEW p \in Profile, ValidateModel(p)
      PROVE  /\ PaceInv' /\ attempt = p
             /\ \A q \in Profile : samples'[q] # samples[q] => q = p /\ validation_last[q] >= begun
  BY <1>6, RecordsWithin DEF ValidateModel
<1>7. ASSUME NEW p \in Profile, stm_ea_qh_validate_incr(p)
      PROVE  /\ PaceInv' /\ attempt = p
             /\ \A q \in Profile : samples'[q] # samples[q] => q = p /\ validation_last[q] >= begun
  <2>1. CASE tx_on
    BY <1>7, <2>1, RecordsWithin DEF stm_ea_qh_validate_incr
  <2>2. CASE ~tx_on
    BY <1>7, <2>2 DEF stm_ea_qh_validate_incr, PaceInv
  <2> QED
    BY <2>1, <2>2
<1> QED
  BY <1>1, <1>2, <1>3, <1>4, <1>5, <1>6, <1>7 DEF PaceNext

\* A period that enters a window lies within one attempt, for any number of
\* profiles, any window and any advance of the time stamp counter: the bit that
\* lets it in is cleared by every stm_prepare, and a bit that is set has a stamp
\* of the running attempt.
THEOREM PeriodsInAttempt == PaceSpec => PeriodsWithinAttempt
<1>1. PaceInit => PaceInv
  BY DEF PaceInit, PaceInv
<1>2. PaceInv /\ [PaceNext]_paceVars => PaceInv'
  BY PaceStep
<1>3. PaceInv /\ [PaceNext]_paceVars =>
        [\A p \in Profile : samples'[p] # samples[p] =>
            attempt = p /\ validation_last[p] >= begun]_paceVars
  BY PaceStep
<1> QED
  BY <1>1, <1>2, <1>3, PTL DEF PaceSpec, PeriodsWithinAttempt
=============================================================================
