----------------------------- MODULE HashTable ------------------------------
(***************************************************************************)
(* TPCC/lib/hashtable.c over list.c and pair.c.  A list is a sequence of   *)
(* data sorted by the compare function (the head node is position 0), so   *)
(* findPrevious returns an index and a null next pointer is the end of the *)
(* sequence.  A table is [buckets, pairs]: numBucket chains and one dummy  *)
(* chain after them for the iterator, and the set of pairs allocated and   *)
(* not yet freed.  The build options are arguments: noDup is               *)
(* LIST_NO_DUPLICATES, resizable is HASHTABLE_RESIZABLE (off under STM).   *)
(* malloc is assumed to succeed.  TLC only (RECURSIVE).                    *)
(***************************************************************************)
EXTENDS Integers, Sequences, FiniteSets, SequencesExt

(* list.c: the elements are pairs [k, v] compared by k.                    *)

list_alloc == <<>>
list_isEmpty(list) == list = <<>>
list_getSize(list) == Len(list)

\* An iterator is the position of the element returned last.
list_iter_reset == 0
list_iter_hasNext(list, at) == at < Len(list)
list_iter_next(list, at) == at + 1

\* The position of the last element smaller than k (0: the head).
RECURSIVE PreviousFrom(_, _, _)
PreviousFrom(list, k, prev) ==
  IF prev = Len(list) \/ list[prev + 1].k >= k THEN prev
  ELSE PreviousFrom(list, k, prev + 1)

findPrevious(list, k) == PreviousFrom(list, k, 0)

NextIs(list, prev, k) == prev < Len(list) /\ list[prev + 1].k = k

NOT_FOUND == [k |-> 0, v |-> 0]

list_find(list, k) ==
  LET prev == findPrevious(list, k)
  IN IF NextIs(list, prev, k) THEN list[prev + 1] ELSE NOT_FOUND

list_insert(list, pair, noDup) ==
  LET prev == findPrevious(list, pair.k)
  IN IF noDup /\ NextIs(list, prev, pair.k) THEN [l |-> list, ret |-> FALSE]
     ELSE [l |-> InsertAt(list, prev + 1, pair), ret |-> TRUE]

list_remove(list, k) ==
  LET prev == findPrevious(list, k)
  IN IF NextIs(list, prev, k) THEN [l |-> RemoveAt(list, prev + 1), ret |-> TRUE]
     ELSE [l |-> list, ret |-> FALSE]

-----------------------------------------------------------------------------
allocBuckets(numBucket) == [i \in 0..numBucket |-> list_alloc]

hashtable_alloc(initNumBucket) ==
  [buckets |-> allocBuckets(initNumBucket), pairs |-> {}]

\* The dummy chain is the last one.
NumBucket(h) == Cardinality(DOMAIN h.buckets) - 1

\* Bug: the dummy bucket is counted.
SlotOfAll(h, k) == k % (NumBucket(h) + 1)

\* hash(key) % numBucket, with the identity as hash function
Slot(h, k) == k % NumBucket(h)

hashtable_getSize(h) ==
  LET RECURSIVE Count(_)
      Count(i) == IF i = NumBucket(h) THEN 0
                  ELSE list_getSize(h.buckets[i]) + Count(i + 1)
  IN Count(0)

hashtable_isEmpty(h) == \A i \in 0..(NumBucket(h) - 1) : list_isEmpty(h.buckets[i])

hashtable_find(h, k) == list_find(h.buckets[Slot(h, k)], k)

hashtable_containsKey(h, k) == hashtable_find(h, k) # NOT_FOUND

\* rehash: every pair of the old chains, in order, into growth times as many
\* buckets.  The pairs move, the old chains are freed.
rehash(h, growth, noDup) ==
  LET n == growth * NumBucket(h)
      all == FoldLeft(LAMBDA acc, i : acc \o h.buckets[i - 1], <<>>,
                      [i \in 1..NumBucket(h) |-> i])
      Move(b, pair) == [b EXCEPT ![pair.k % n] = list_insert(@, pair, noDup).l]
  IN [h EXCEPT !.buckets = FoldLeft(Move, allocBuckets(n), all)]

hashtable_insert(h, k, v, resize, growth, noDup) ==
  LET pair == [k |-> k, v |-> v]
      grow == resize > 0 /\ hashtable_getSize(h) + 1 >= NumBucket(h) * resize
      h1 == IF grow THEN rehash(h, growth, noDup) ELSE h
      r == list_insert(h1.buckets[Slot(h1, k)], pair, noDup)
  IN IF hashtable_find(h, k) # NOT_FOUND THEN [t |-> h, ret |-> FALSE]
     ELSE IF ~r.ret THEN [t |-> h1, ret |-> FALSE]
     ELSE [t |-> [h1 EXCEPT !.buckets[Slot(h1, k)] = r.l, !.pairs = @ \cup {pair}],
           ret |-> TRUE]

hashtable_remove(h, k) ==
  LET pair == hashtable_find(h, k)
      r == list_remove(h.buckets[Slot(h, k)], k)
  IN IF pair = NOT_FOUND THEN [t |-> h, ret |-> FALSE]
     ELSE [t |-> [h EXCEPT !.buckets[Slot(h, k)] = r.l, !.pairs = @ \ {pair}],
           ret |-> TRUE]

\* The iterator is [bucket, at]: chain and position of the element returned
\* last.  next returns the new iterator; bucket = numBucket means exhausted.
hashtable_iter_reset == [bucket |-> 0, at |-> list_iter_reset]

RECURSIVE IterSkip(_, _)
IterSkip(h, it) ==
  IF it.bucket = NumBucket(h) \/ list_iter_hasNext(h.buckets[it.bucket], it.at) THEN it
  ELSE IterSkip(h, [bucket |-> it.bucket + 1, at |-> list_iter_reset])

hashtable_iter_hasNext(h, it) == IterSkip(h, it).bucket < NumBucket(h)

hashtable_iter_next(h, it) ==
  LET there == IterSkip(h, it)
  IN [there EXCEPT !.at = list_iter_next(h.buckets[there.bucket], @)]

RECURSIVE IterAll(_, _)
IterAll(h, it) ==
  IF ~hashtable_iter_hasNext(h, it) THEN <<>>
  ELSE LET nx == hashtable_iter_next(h, it)
       IN <<h.buckets[nx.bucket][nx.at]>> \o IterAll(h, nx)

\* The map a table stands for.
HtContents(h) == [k \in {p.k : p \in h.pairs} |-> hashtable_find(h, k).v]
=============================================================================
