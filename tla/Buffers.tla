------------------------------ MODULE Buffers -------------------------------
(***************************************************************************)
(* The array-backed containers of TPCC/lib: queue.c, vector.c, heap.c,     *)
(* bitmap.c and the per-thread pool of memory.c.  An array is a function   *)
(* from its indices; a cell never written holds UNSET.  Operations return  *)
(* [t |-> the new structure, ret |-> result].  malloc is assumed to        *)
(* succeed.  TLC only (RECURSIVE).                                         *)
(***************************************************************************)
EXTENDS Integers, Sequences, FiniteSets, FiniteSetsExt, SequencesExt

UNSET == -1
NONE == 0

Blank(n) == [i \in 0..(n - 1) |-> UNSET]

-----------------------------------------------------------------------------
(* queue.c: a ring; pop points before the first element, push after the    *)
(* last one, and one cell stays empty.                                     *)

queue_alloc(initCapacity) ==
  LET capacity == IF initCapacity < 2 THEN 2 ELSE initCapacity
  IN [pop |-> capacity - 1, push |-> 0, elements |-> Blank(capacity)]

Cap(q) == Cardinality(DOMAIN q.elements)

queue_isEmpty(q) == (q.pop + 1) % Cap(q) = q.push

queue_clear(q) == [q EXCEPT !.pop = Cap(q) - 1, !.push = 0]

\* What the ring holds, front first.
QueueContents(q) ==
  LET n == (q.push - q.pop - 1 + Cap(q)) % Cap(q)
  IN [i \in 1..n |-> q.elements[(q.pop + i) % Cap(q)]]

\* The copy loops of a resize put the elements at 0, 1, ... of the new array.
Compacted(q) ==
  IF q.pop < q.push
  THEN [i \in 1..(q.push - q.pop - 1) |-> q.elements[q.pop + i]]
  ELSE [i \in 1..(Cap(q) - q.pop - 1) |-> q.elements[q.pop + i]]
       \o [i \in 1..q.push |-> q.elements[i - 1]]

queue_push(q, v) ==
  LET newPush == (q.push + 1) % Cap(q)
      all == Compacted(q)
      big == [pop |-> 2 * Cap(q) - 1, push |-> Len(all),
              elements |-> [i \in 0..(2 * Cap(q) - 1) |->
                              IF i < Len(all) THEN all[i + 1] ELSE UNSET]]
  IN IF newPush = q.pop
     THEN [t |-> [big EXCEPT !.elements[big.push] = v, !.push = @ + 1], ret |-> TRUE]
     ELSE [t |-> [q EXCEPT !.elements[q.push] = v, !.push = newPush], ret |-> TRUE]

queue_front(q) ==
  IF queue_isEmpty(q) THEN NONE ELSE q.elements[(q.pop + 1) % Cap(q)]

queue_pop(q) ==
  [t |-> IF queue_isEmpty(q) THEN q ELSE [q EXCEPT !.pop = (@ + 1) % Cap(q)],
   ret |-> queue_front(q)]

\* TMqueue_get: the offset-th element; only the cell just past the last one
\* is recognised as being outside.
TMqueue_get(q, offset) ==
  LET at == (q.pop + offset) % Cap(q)
  IN IF at = q.push THEN NONE ELSE q.elements[at]

\* queue_shuffle: as many random swaps as there are elements.
queue_shuffle(q) ==
  LET n == IF q.pop < q.push THEN q.push - (q.pop + 1)
           ELSE Cap(q) - (q.pop - q.push + 1)
      Cell(r) == (q.pop + 1 + r) % Cap(q)
      Swapped(e, a, b) == [e EXCEPT ![a] = e[b], ![b] = e[a]]
      RECURSIVE After(_)
      After(i) == IF i = 0 THEN {q.elements}
                  ELSE {Swapped(e, Cell(r1), Cell(r2)) :
                          e \in After(i - 1), r1, r2 \in 0..(n - 1)}
  IN {[q EXCEPT !.elements = e] : e \in After(n)}

-----------------------------------------------------------------------------
(* vector.c *)

vector_alloc(initCapacity) ==
  [size |-> 0, elements |-> Blank(IF initCapacity < 1 THEN 1 ELSE initCapacity)]

VecContents(a) == [i \in 1..a.size |-> a.elements[i - 1]]

Grown(a, n) == [i \in 0..(n - 1) |-> IF i < a.size THEN a.elements[i] ELSE UNSET]

vector_at(a, i) == IF i < 0 \/ i >= a.size THEN NONE ELSE a.elements[i]

vector_pushBack(a, v) ==
  LET a1 == IF a.size = Cap(a) THEN [a EXCEPT !.elements = Grown(a, 2 * Cap(a))] ELSE a
  IN [t |-> [a1 EXCEPT !.elements[a.size] = v, !.size = @ + 1], ret |-> TRUE]

vector_popBack(a) ==
  IF a.size < 1 THEN [t |-> a, ret |-> NONE]
  ELSE [t |-> [a EXCEPT !.size = @ - 1], ret |-> a.elements[a.size - 1]]

vector_clear(a) == [a EXCEPT !.size = 0]

\* qsort of the first size elements
vector_sort(a) ==
  LET sorted == SetToSortSeq({<<a.elements[i], i>> : i \in 0..(a.size - 1)},
                             LAMBDA x, y : x[1] < y[1] \/ (x[1] = y[1] /\ x[2] < y[2]))
  IN [a EXCEPT !.elements = [i \in DOMAIN @ |->
        IF i < a.size THEN sorted[i + 1][1] ELSE @[i]]]

\* vector_copy(dst, src): the destination grows to the source's capacity.
vector_copy(dst, src) ==
  LET e == IF Cap(dst) < src.size THEN Blank(Cap(src)) ELSE dst.elements
  IN [size |-> src.size,
      elements |-> [i \in DOMAIN e |-> IF i < src.size THEN src.elements[i] ELSE e[i]]]

-----------------------------------------------------------------------------
(* heap.c: cell 0 is unused; the largest element is in cell 1.             *)

heap_alloc(initCapacity) ==
  [size |-> 0, elements |-> Blank(IF initCapacity > 0 THEN initCapacity ELSE 1)]

PARENT(i) == i \div 2
Swap(h, i, j) ==
  [h EXCEPT !.elements[i] = h.elements[j], !.elements[j] = h.elements[i]]

RECURSIVE siftUp(_, _)
siftUp(h, i) ==
  IF i <= 1 \/ h.elements[PARENT(i)] >= h.elements[i] THEN h
  ELSE siftUp(Swap(h, PARENT(i), i), PARENT(i))

heap_insert(h, v) ==
  LET h1 == IF h.size + 1 >= Cap(h)
            THEN [h EXCEPT !.elements = [i \in 0..(2 * Cap(h) - 1) |->
                    IF i <= h.size /\ i < Cap(h) THEN h.elements[i] ELSE UNSET]]
            ELSE h
      n == h.size + 1
  IN [t |-> siftUp([h1 EXCEPT !.size = n, !.elements[n] = v], n), ret |-> TRUE]

\* The larger of a cell and its children inside the heap.
Largest(h, i) ==
  LET l == 2 * i  r == 2 * i + 1
      m == IF l <= h.size /\ h.elements[l] > h.elements[i] THEN l ELSE i
  IN IF r <= h.size /\ h.elements[r] > h.elements[m] THEN r ELSE m

RECURSIVE heapify(_, _)
heapify(h, i) ==
  LET m == Largest(h, i) IN IF m = i THEN h ELSE heapify(Swap(h, i, m), m)

heap_remove(h) ==
  IF h.size < 1 THEN [t |-> h, ret |-> NONE]
  ELSE [t |-> heapify([h EXCEPT !.elements[1] = h.elements[h.size],
                                !.size = @ - 1], 1),
        ret |-> h.elements[1]]

heap_isValid(h) ==
  \A i \in 1..(h.size - 1) : h.elements[i + 1] <= h.elements[PARENT(i + 1)]

HeapContents(h) ==
  LET e == [i \in 1..h.size |-> h.elements[i]]
  IN [v \in {e[i] : i \in DOMAIN e} |-> Cardinality({i \in DOMAIN e : e[i] = v})]

-----------------------------------------------------------------------------
(* bitmap.c: words of WORD bits; a word is the set of its bits that are 1. *)

WORD == 3

DIVIDE_AND_ROUND_UP(a, b) == (a + b - 1) \div b

bitmap_alloc(numBit) ==
  [numBit |-> numBit,
   bits |-> [w \in 0..(DIVIDE_AND_ROUND_UP(numBit, WORD) - 1) |-> {}]]

Inside(b, i) == i >= 0 /\ i < b.numBit
Bit(b, i) == (i % WORD) \in b.bits[i \div WORD]

bitmap_set(b, i) ==
  IF ~Inside(b, i) THEN [t |-> b, ret |-> FALSE]
  ELSE [t |-> [b EXCEPT !.bits[i \div WORD] = @ \cup {i % WORD}], ret |-> TRUE]

bitmap_clear(b, i) ==
  IF ~Inside(b, i) THEN [t |-> b, ret |-> FALSE]
  ELSE [t |-> [b EXCEPT !.bits[i \div WORD] = @ \ {i % WORD}], ret |-> TRUE]

bitmap_clearAll(b) == [b EXCEPT !.bits = [w \in DOMAIN @ |-> {}]]

bitmap_isClear(b, i) == Inside(b, i) /\ ~Bit(b, i)
bitmap_isSet(b, i) == Inside(b, i) /\ Bit(b, i)

\* findClear and findSet: the first index from start on, or -1.
FirstBit(b, start, value) ==
  LET hits == {i \in 0..(b.numBit - 1) : i >= start /\ Bit(b, i) = value}
  IN IF hits = {} THEN -1 ELSE Min(hits)

bitmap_getNumSet(b) == Cardinality({i \in 0..(b.numBit - 1) : Bit(b, i)})
bitmap_getNumClear(b) == b.numBit - bitmap_getNumSet(b)

\* Every bit of every word, those past numBit included.
bitmap_toggleAll(b) ==
  [b EXCEPT !.bits = [w \in DOMAIN @ |-> (0..(WORD - 1)) \ @[w]]]

BitContents(b) == {i \in 0..(b.numBit - 1) : Bit(b, i)}

-----------------------------------------------------------------------------
(* memory.c: a pool is a list of blocks, newest first; memory_get bumps    *)
(* the newest block and skips to an address that is a multiple of 8.  base *)
(* is the misalignment malloc gives the contents of every block, live the  *)
(* ranges handed out so far, [block, from, to).                            *)

ALIGN == 8

allocPool(init, growth, base) ==
  [blocks |-> <<[size |-> 0, capacity |-> init]>>, nextCapacity |-> init * growth,
   growth |-> growth, base |-> base, live |-> {}]

addBlockToPool(p, n) ==
  LET capacity == IF n > p.nextCapacity THEN n * p.growth ELSE p.nextCapacity
  IN [p EXCEPT !.blocks = Append(@, [size |-> 0, capacity |-> capacity]),
               !.nextCapacity = capacity * p.growth]

\* numByte + 7
Reserved(n) == n + ALIGN - 1

memory_get(p, n) ==
  LET need == Reserved(n)
      last == p.blocks[Len(p.blocks)]
      p1 == IF last.size + need > last.capacity THEN addBlockToPool(p, need) ELSE p
      b == Len(p1.blocks)
      from == p1.blocks[b].size
      skew == (p.base + from) % ALIGN
      at == IF skew = 0 THEN from ELSE from + (ALIGN - skew)
  IN [p1 EXCEPT !.blocks[b].size = @ + need,
                !.live = @ \cup {[block |-> b, from |-> at, to |-> at + n]}]
=============================================================================
