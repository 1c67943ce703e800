------------------------------ MODULE OpaqueTM ------------------------------
(***************************************************************************)
(* What a transactional memory promises, without locks, read sets or       *)
(* memory words: a history of committed writes ordered by timestamps, and  *)
(* transactions that observe it at one point in time.  include/stm.h puts  *)
(* it as "the value returned is consistent with respect to previous reads  *)
(* from the same transaction" (stm_load) and "it executes atomically and   *)
(* in isolation" (unit operations).                                        *)
(***************************************************************************)
EXTENDS Naturals

CONSTANTS Thread, Addr, Word

VARIABLES
  time,     \* the last timestamp handed out
  hist,     \* committed writes, as records [ts, addr, value]
  phase,    \* "out" of a transaction, "running" or "committed" one
  snap,     \* the timestamp a transaction observes history at, 0 outside
  obs,      \* what it has observed, as records [addr, value]
  ticket    \* its commit timestamp, 0 before it has one

vars == <<time, hist, phase, snap, obs, ticket>>

IsValueAt(H, a, s, w) ==
  \E h \in H :
    /\ h.addr = a /\ h.ts <= s /\ h.value = w
    /\ \A g \in H : g.addr = a /\ g.ts <= s => g.ts <= h.ts

\* Everything in O is the committed value at timestamp s.
Consistent(H, O, s) == \A o \in O : IsValueAt(H, o.addr, s, o.value)

\* One committed value per address, all of timestamp 0.
Fresh(H) ==
  /\ \A h \in H : h.ts = 0 /\ h.value \in Word
  /\ \A a \in Addr : \E h \in H : h.addr = a
  /\ \A g, h \in H : g.addr = h.addr => g = h

Init ==
  /\ time = 0
  /\ Fresh(hist)
  /\ phase = [t \in Thread |-> "out"]
  /\ snap = [t \in Thread |-> 0]
  /\ obs = [t \in Thread |-> {}]
  /\ ticket = [t \in Thread |-> 0]

\* A transaction starts in the present.
Begin(t) ==
  /\ phase[t] = "out"
  /\ phase' = [phase EXCEPT ![t] = "running"]
  /\ snap' = [snap EXCEPT ![t] = time]
  /\ UNCHANGED <<time, hist, obs, ticket>>

\* It reads a value of its snapshot.
Observe(t) ==
  /\ phase[t] = "running" /\ ticket[t] = 0
  /\ \E a \in Addr, w \in Word :
       /\ IsValueAt(hist, a, snap[t], w)
       /\ obs' = [obs EXCEPT ![t] = @ \cup {[addr |-> a, value |-> w]}]
  /\ UNCHANGED <<time, hist, phase, snap, ticket>>

\* It moves to a later snapshot that shows everything it has seen so far.
Extend(t) ==
  /\ phase[t] = "running" /\ ticket[t] = 0
  /\ \E s \in snap[t]..time :
       /\ Consistent(hist, obs[t], s)
       /\ snap' = [snap EXCEPT ![t] = s]
  /\ UNCHANGED <<time, hist, phase, obs, ticket>>

\* New writes of timestamp s, which no running transaction may have missed.
Publish(W, s) ==
  /\ \A h \in W : h.ts = s /\ h.addr \in Addr /\ h.value \in Word
  /\ hist' = hist \cup W
  /\ \A u \in Thread : phase[u] = "running" =>
       Consistent(hist \cup W, obs[u], snap[u])

TakeTicket(t) ==
  /\ phase[t] = "running" /\ ticket[t] = 0
  /\ time' = time + 1
  /\ ticket' = [ticket EXCEPT ![t] = time + 1]

\* The commit of t: nothing it observed has changed before its timestamp.
Commit(t, s) ==
  /\ phase[t] = "running"
  /\ Consistent(hist, obs[t], s - 1)
  /\ hist' # hist /\ hist \subseteq hist' /\ Publish(hist' \ hist, s)
  /\ phase' = [phase EXCEPT ![t] = "committed"]

CommitNow(t) ==
  TakeTicket(t) /\ Commit(t, time + 1) /\ UNCHANGED <<snap, obs>>

CommitLater(t) ==
  \/ TakeTicket(t) /\ UNCHANGED <<hist, phase, snap, obs>>
  \/ ticket[t] > 0 /\ Commit(t, ticket[t]) /\ UNCHANGED <<time, snap, obs, ticket>>

\* It ends: committed, aborted, or without having written anything.
Finish(t) ==
  /\ phase[t] # "out"
  /\ phase' = [phase EXCEPT ![t] = "out"]
  /\ obs' = [obs EXCEPT ![t] = {}]
  /\ ticket' = [ticket EXCEPT ![t] = 0]
  /\ snap' = [snap EXCEPT ![t] = 0]
  /\ UNCHANGED <<time, hist>>

\* A store outside any transaction.
UnitCommit(t) ==
  /\ phase[t] = "out"
  /\ time' = time + 1
  /\ \E a \in Addr, w \in Word : Publish({[ts |-> time + 1, addr |-> a, value |-> w]}, time + 1)
  /\ UNCHANGED <<phase, snap, obs, ticket>>

\* The timestamps start over: the present becomes time 0.
NewEpoch ==
  /\ \A t \in Thread : phase[t] = "out"
  /\ time' = 0
  /\ Fresh(hist')
  /\ \A h \in hist' : IsValueAt(hist, h.addr, time, h.value)
  /\ UNCHANGED <<phase, snap, obs, ticket>>

\* A timestamp nobody commits at.
Skip == time' = time + 1 /\ UNCHANGED <<hist, phase, snap, obs, ticket>>

Next ==
  \/ \E t \in Thread : Begin(t) \/ Observe(t) \/ Extend(t) \/ CommitNow(t)
                         \/ CommitLater(t) \/ Finish(t) \/ UnitCommit(t)
  \/ NewEpoch \/ Skip

Spec == Init /\ [][Next]_vars
=============================================================================
