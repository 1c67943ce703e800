------------------------------ MODULE MbTable ------------------------------
(***************************************************************************)
(* The table of revalidation plans of the model-based build (make MB=1):   *)
(* src/tinySTM/src/mb-hash-table.c.  hashT_get maps the time between two   *)
(* validations (tv), the update rate of the read set (ur) and the risk     *)
(* accumulated since the last validation (acc) to the moment at which an   *)
(* extra validation pays off (t_opt).  All threads share the table.        *)
(*                                                                         *)
(* An entry leaves the free list by a compare-and-swap of freeHEAD, is     *)
(* filled by its thread alone and enters a bucket by a compare-and-swap of *)
(* the bucket's head; it is never returned.  An empty free list is refilled*)
(* with a pool of entries under the try-lock poolLOCK.                     *)
(*                                                                         *)
(* The doubles ur and acc are naturals counted in a quantum finer than the *)
(* rounding step (UNIT quanta).  An entry that is linked never changes, so *)
(* the walk of a bucket is one step.                                       *)
(***************************************************************************)
EXTENDS Naturals, FiniteSets, FiniteSetsExt

CONSTANTS
  User,             \* threads that call hashT_get
  Requests,         \* the triples <<tv, ur, acc>> they ask for
  MaxRequests,      \* bound on the calls of a thread
  MaxPools,         \* bound on the pools malloc can supply
  POOL_SIZE,        \* entries of a pool
  TVAL, UNIT,       \* 2^TVAL_ROUND_BITS and one rounding step of a double
  INDEX_BITS,       \* bits of each of the three parts of the index
  BINSEARCH_THS,    \* the binary search stops at this step
  NoEntry

\* hashT_init uses data[0], get_mb_data_pool data[0] and data[1].
ASSUME MbAssumption == /\ POOL_SIZE \in Nat /\ POOL_SIZE > 1
                       /\ TVAL > 0 /\ UNIT > 0
                       /\ Requests \subseteq Nat \X Nat \X Nat

VARIABLES
  approx,           \* MB_APPROX_PRECISION (fixed)
  phase,            \* of the process: "new", "live", "gone", "exited"
  hashT, freeHEAD, poolLOCK,
  pools,            \* pools allocated so far
  next_free, next_data, plan,   \* the fields of the entries
  mb                \* per thread: where it is in hashT_get, and its locals

mbVars == <<approx, phase, hashT, freeHEAD, poolLOCK, pools, next_free,
            next_data, plan, mb>>
tableVars == <<hashT, freeHEAD, poolLOCK, pools, next_free, next_data, plan>>

Entry == (1 .. MaxPools) \X (0 .. POOL_SIZE - 1)
BlankPlan == [key |-> <<0, 0, 0>>, points |-> {}]

-----------------------------------------------------------------------------
\* Arithmetic.

\* A double is cut after URATE_ROUND_BITS binary digits; one below two steps
\* becomes zero, because the test is dbl_sh_b >= 52.
Rounded(v) == IF ~approx THEN v
              ELSE IF v < 2 * UNIT THEN 0 ELSE v - (v % UNIT)

RoundedTime(tv) == IF approx THEN tv - (tv % TVAL) ELSE tv

\* The leading mantissa bits of a double.
Mantissa(v) ==
  IF v = 0 THEN 0
  ELSE LET e == CHOOSE e \in 0 .. v : 2 ^ e <= v /\ v < 2 ^ (e + 1)
       IN ((v - 2 ^ e) * 2 ^ INDEX_BITS) \div 2 ^ e

KeyOf(req) == <<RoundedTime(req[1]), Rounded(req[2]), Rounded(req[3])>>

Bucket(key) ==
  << (IF approx THEN key[1] \div TVAL ELSE key[1]) % 2 ^ INDEX_BITS,
     Mantissa(key[2]), Mantissa(key[3]) >>

LongestTime == Max({r[1] : r \in Requests})

\* mb_calculate: a binary search for the zero of the cost's derivative.  The
\* derivative is not computed here, so both directions are followed at each
\* step; t_opt is one of the points evaluated, and an entry holds all of them.
Evaluated[step \in 0 .. LongestTime, t \in 0 .. 2 * LongestTime] ==
  {t} \cup IF step \div 2 > BINSEARCH_THS
           THEN Evaluated[step \div 2, t + step \div 2]
                  \cup Evaluated[step \div 2, t - step \div 2]
           ELSE {}

mb_calculate(tv) == Evaluated[tv \div 2, tv \div 2]

-----------------------------------------------------------------------------
\* The table's life.

AllBuckets == {Bucket(KeyOf(r)) : r \in Requests}

\* next_free of the entries of pool p, when the list starts at `first`.
Chained(p, first) ==
  [i \in 0 .. POOL_SIZE - 1 |->
     IF i < first \/ i = POOL_SIZE - 1 THEN NoEntry ELSE <<p, i + 1>>]

FreshPool(p, first) ==
  /\ next_free' = [e \in Entry |-> IF e[1] = p THEN Chained(p, first)[e[2]]
                                   ELSE next_free[e]]
  /\ next_data' = [e \in Entry |-> IF e[1] = p THEN NoEntry ELSE next_data[e]]
  /\ plan' = [e \in Entry |-> IF e[1] = p THEN BlankPlan ELSE plan[e]]

Resting == [at |-> "out", asked |-> 0, req |-> NoEntry, data |-> NoEntry,
            next |-> NoEntry, answer |-> NoEntry]

MbInit ==
  /\ approx \in BOOLEAN
  /\ phase = "new"
  /\ hashT = NoEntry /\ freeHEAD = NoEntry /\ poolLOCK = 0 /\ pools = 0
  /\ next_free = [e \in Entry |-> NoEntry]
  /\ next_data = [e \in Entry |-> NoEntry]
  /\ plan = [e \in Entry |-> BlankPlan]
  /\ mb = [u \in User |-> Resting]

\* stm_init calls it before any thread runs; it exits the process when one of
\* the two allocations fails.
hashT_init ==
  /\ phase = "new"
  /\ \/ /\ phase' = "live"
        /\ hashT' = [b \in AllBuckets |-> NoEntry]
        /\ pools' = 1
        /\ FreshPool(1, 0)
        /\ freeHEAD' = <<1, 0>>
        /\ UNCHANGED poolLOCK
     \/ phase' = "exited" /\ UNCHANGED tableVars
  /\ UNCHANGED <<approx, mb>>

\* stm_exit calls it once the threads are done.  It leaves freeHEAD pointing
\* into the freed pool.
hashT_fini ==
  /\ phase = "live"
  /\ \A u \in User : mb[u].at = "out"
  /\ phase' = "gone" /\ hashT' = NoEntry
  /\ UNCHANGED <<approx, freeHEAD, poolLOCK, pools, next_free, next_data, plan, mb>>

-----------------------------------------------------------------------------
\* hashT_get, one action per access to the shared words.

\* The entries on the list that starts at e.
From(e, next) ==
  LET Reached[n \in 0 .. Cardinality(Entry)] ==
        IF n = 0 THEN {e} \ {NoEntry}
        ELSE (Reached[n - 1] \cup {next[x] : x \in Reached[n - 1]}) \ {NoEntry}
  IN Reached[Cardinality(Entry)]

At(u, place) == phase = "live" /\ mb[u].at = place
Goes(u, place) == mb' = [mb EXCEPT ![u].at = place]

\* An entry answers a request when all three parts of its key agree.
Matches(e, key) == plan[e].key = key

\* The walk of the bucket: a hit returns the entry, a miss goes for a new one.
Lookup(u) ==
  /\ At(u, "out") /\ mb[u].asked < MaxRequests
  /\ \E req \in Requests :
       LET key  == KeyOf(req)
           hits == {e \in From(hashT[Bucket(key)], next_data) : Matches(e, key)}
       IN \/ \E e \in hits :
               /\ \A x \in hits : x \in From(e, next_data)
               /\ mb' = [mb EXCEPT ![u].asked = @ + 1, ![u].req = req,
                                   ![u].answer = e]
          \/ /\ hits = {}
             /\ mb' = [mb EXCEPT ![u].asked = @ + 1, ![u].req = req,
                                 ![u].answer = NoEntry, ![u].at = "again"]
  /\ UNCHANGED <<approx, phase, tableVars>>

\* get_mb_data: data = freeHEAD.
LoadFree(u) ==
  /\ At(u, "again")
  /\ mb' = [mb EXCEPT ![u].data = freeHEAD,
                      ![u].at = IF freeHEAD = NoEntry THEN "lock" ELSE "next"]
  /\ UNCHANGED <<approx, phase, tableVars>>

\* The argument data->next_free, read before the compare-and-swap.
ReadNext(u) ==
  /\ At(u, "next")
  /\ mb' = [mb EXCEPT ![u].next = next_free[mb[u].data], ![u].at = "pop"]
  /\ UNCHANGED <<approx, phase, tableVars>>

\* The mutant CAS_ALWAYS: a plain store in place of the compare-and-swap.
CAS_ALWAYS(word, old) == TRUE
CAS_ADDRESS(word, old) == word = old

Pop(u) ==
  /\ At(u, "pop")
  /\ IF CAS_ADDRESS(freeHEAD, mb[u].data)
     THEN freeHEAD' = mb[u].next /\ Goes(u, "fill")
     ELSE Goes(u, "again") /\ UNCHANGED freeHEAD
  /\ UNCHANGED <<approx, phase, hashT, poolLOCK, pools, next_free, next_data, plan>>

\* get_mb_data_pool: a try-lock; a thread that misses it starts again.
LOCK_POOL == poolLOCK = 0

LockPool(u) ==
  /\ At(u, "lock")
  /\ IF LOCK_POOL THEN poolLOCK' = 1 /\ Goes(u, "refill")
                  ELSE Goes(u, "again") /\ UNCHANGED poolLOCK
  /\ UNCHANGED <<approx, phase, hashT, freeHEAD, pools, next_free, next_data, plan>>

\* Under the lock: someone else refilled, or malloc failed, or a new pool
\* whose first entry the thread keeps.
GetPool(u) ==
  /\ At(u, "refill")
  /\ \/ Goes(u, "giveup") /\ UNCHANGED <<pools, next_free, next_data, plan>>
     \/ /\ freeHEAD = NoEntry /\ pools < MaxPools
        /\ pools' = pools + 1
        /\ FreshPool(pools + 1, 1)
        /\ mb' = [mb EXCEPT ![u].at = "publish", ![u].data = <<pools + 1, 0>>]
  /\ UNCHANGED <<approx, phase, hashT, freeHEAD, poolLOCK>>

PublishPool(u) ==
  /\ At(u, "publish")
  /\ freeHEAD' = <<mb[u].data[1], 1>>
  /\ Goes(u, "unlock")
  /\ UNCHANGED <<approx, phase, hashT, poolLOCK, pools, next_free, next_data, plan>>

UnlockPool(u) ==
  /\ \/ At(u, "unlock") /\ Goes(u, "fill")
     \/ At(u, "giveup") /\ Goes(u, "again")
  /\ poolLOCK' = 0
  /\ UNCHANGED <<approx, phase, hashT, freeHEAD, pools, next_free, next_data, plan>>

\* The key and mb_calculate's result; the entry is still private.
Fill(u) ==
  LET key == KeyOf(mb[u].req) IN
  /\ At(u, "fill")
  /\ plan' = [plan EXCEPT ![mb[u].data] = [key |-> key, points |-> mb_calculate(key[1])]]
  /\ next_free' = [next_free EXCEPT ![mb[u].data] = NoEntry]
  /\ Goes(u, "head")
  /\ UNCHANGED <<approx, phase, hashT, freeHEAD, poolLOCK, pools, next_data>>

LoadBucket(u) ==
  /\ At(u, "head")
  /\ next_data' = [next_data EXCEPT ![mb[u].data] = hashT[Bucket(KeyOf(mb[u].req))]]
  /\ Goes(u, "link")
  /\ UNCHANGED <<approx, phase, hashT, freeHEAD, poolLOCK, pools, next_free, plan>>

\* The bucket's compare-and-swap; the miss returns the new entry.
Link(u) ==
  LET b == Bucket(KeyOf(mb[u].req)) IN
  /\ At(u, "link")
  /\ IF CAS_ADDRESS(hashT[b], next_data[mb[u].data])
     THEN /\ hashT' = [hashT EXCEPT ![b] = mb[u].data]
          /\ mb' = [mb EXCEPT ![u].at = "out", ![u].answer = mb[u].data,
                              ![u].data = NoEntry, ![u].next = NoEntry]
     ELSE Goes(u, "head") /\ UNCHANGED hashT
  /\ UNCHANGED <<approx, phase, freeHEAD, poolLOCK, pools, next_free, next_data, plan>>

MbStep(u) == \/ Lookup(u) \/ LoadFree(u) \/ ReadNext(u) \/ Pop(u)
             \/ LockPool(u) \/ GetPool(u) \/ PublishPool(u) \/ UnlockPool(u)
             \/ Fill(u) \/ LoadBucket(u) \/ Link(u)

MbNext == hashT_init \/ hashT_fini \/ \E u \in User : MbStep(u)

MbSpec == MbInit /\ [][MbNext]_mbVars

-----------------------------------------------------------------------------
\* Properties.

\* The entries a thread has in hand.
InHand(u) ==
  CASE mb[u].at = "publish" -> {e \in Entry : e[1] = mb[u].data[1]}
    [] mb[u].at \in {"unlock", "fill", "head", "link"} -> {mb[u].data}
    [] OTHER -> {}

\* No entry is lost or used twice: each entry of the pools malloc supplied is
\* in exactly one place, the free list, one bucket or one thread's hands.
\* Depends on the compare-and-swap of freeHEAD failing after any other thread
\* has taken data, though data->next_free may have been read from an entry that
\* is already in use (get_mb_data), and on poolLOCK in get_mb_data_pool.
EntriesPartitioned ==
  phase = "live" =>
    LET free      == From(freeHEAD, next_free)
        bucket(b) == From(hashT[b], next_data)
    IN /\ free \cup UNION {bucket(b) : b \in AllBuckets} \cup UNION {InHand(u) : u \in User}
            = {e \in Entry : e[1] <= pools}
       /\ Cardinality(free)
            + MapThenSumSet(LAMBDA b : Cardinality(bucket(b)), AllBuckets)
            + MapThenSumSet(LAMBDA u : Cardinality(InHand(u)), User)
            = pools * POOL_SIZE

\* What hashT_get returns was computed for the caller's own (rounded) triple and
\* stays linked in that triple's bucket, whichever thread computed it; the
\* moment it proposes lies before the predicted next validation (t_opt < tv).
AnswersFit ==
  phase = "live" =>
    \A u \in User : mb[u].answer # NoEntry =>
      LET key == KeyOf(mb[u].req) IN
        /\ plan[mb[u].answer].key = key
        /\ mb[u].answer \in From(hashT[Bucket(key)], next_data)
        /\ \A t_opt \in plan[mb[u].answer].points : t_opt < Max({key[1], 1})
        /\ key[1] <= mb[u].req[1] /\ key[2] <= mb[u].req[2] /\ key[3] <= mb[u].req[3]

\* The lock-free table is sound: no entry is lost, and every answer belongs to
\* the question.
TableSound == EntriesPartitioned /\ AnswersFit
=============================================================================
