----------------------------- MODULE Containers -----------------------------
(***************************************************************************)
(* The data structures of TPCC/lib as one state machine: kind says which   *)
(* structure the program works on (it never changes), obj is that          *)
(* structure, and every step is one call of its interface.  What each call *)
(* must do is stated against the mathematical object the structure stands  *)
(* for: a map, a bag, a sequence or a set.                                 *)
(***************************************************************************)
EXTENDS Integers, Sequences, FiniteSets

CONSTANTS
  Kinds,      \* the structures explored
  RbKeys, AvlKeys, HtKeys,  \* keys of each map
  Vals,       \* values the calls of the maps are tried with
  RbVals,     \* the ones a red-black tree goes on with
  Items,      \* elements of the buffers
  MaxItems,   \* bound: elements in a buffer, copies of a key in the AVL tree
  NumBits,    \* bits of the bitmap
  Sizes,      \* sizes asked of the pool
  MaxGets     \* bound: allocations from the pool

ASSUME ContainersAssumption ==
  /\ RbKeys \cup AvlKeys \cup HtKeys \cup Vals \cup Items \cup Sizes \subseteq Nat \ {0}
  /\ RbVals \subseteq Vals /\ MaxItems \in Nat /\ NumBits \in Nat /\ MaxGets \in Nat

VARIABLES kind, obj
vars == <<kind, obj>>

Rb == INSTANCE RbTree
Avl == INSTANCE AvlTree
Ht == INSTANCE HashTable
Buf == INSTANCE Buffers

\* The table is allocated as MAP_ALLOC does for the resizable build, and with
\* a fixed number of buckets for the build of the server (STM).
RESIZE_RATIO == 2
GROWTH_FACTOR == 2
Ratio == IF kind = "hashtable_resizable" THEN RESIZE_RATIO ELSE 0

Allocated(k) ==
  CASE k = "rbtree"   -> {Rb!rbtree_alloc}
    [] k = "avltree"  -> {Avl!jsw_avlnew}
    [] k = "hashtable" -> {Ht!hashtable_alloc(2)}
    [] k = "hashtable_resizable" -> {Ht!hashtable_alloc(1)}
    [] k = "queue"    -> {Buf!queue_alloc(1)}
    [] k = "vector"   -> {Buf!vector_alloc(0)}
    [] k = "heap"     -> {Buf!heap_alloc(0)}
    [] k = "bitmap"   -> {Buf!bitmap_alloc(NumBits)}
    [] k = "pool"     -> {Buf!allocPool(32, 2, base) : base \in {0, 3}}

Init == kind \in Kinds /\ obj \in Allocated(kind)

-----------------------------------------------------------------------------
IsTable == kind \in {"hashtable", "hashtable_resizable"}
HtInsert(k, v) ==
  Ht!hashtable_insert(obj, k, v, Ratio, GROWTH_FACTOR, TRUE)

RbInsert == kind = "rbtree" /\ \E k \in RbKeys, v \in RbVals :
              obj' = Rb!Renamed(Rb!rbtree_insert(obj, k, v).t)
RbDelete == kind = "rbtree" /\ \E k \in RbKeys : obj' = Rb!Renamed(Rb!rbtree_delete(obj, k).t)
RbUpdate == kind = "rbtree" /\ \E k \in RbKeys, v \in RbVals :
              obj' = Rb!Renamed(Rb!rbtree_update(obj, k, v).t)

AvlBag(t) ==
  [k \in AvlKeys |-> Cardinality({n \in DOMAIN t.heap : t.heap[n].data = k})]
CopiesOf(k) == AvlBag(obj)[k]
AvlInsert == kind = "avltree" /\ \E k \in AvlKeys :
               CopiesOf(k) < 2 /\ Cardinality(DOMAIN obj.heap) < MaxItems + 2
               /\ obj' = Avl!Renumbered(Avl!jsw_avlinsert(obj, k).t)
AvlErase == /\ kind = "avltree" /\ obj.root # Avl!NIL
            /\ \E k \in AvlKeys : obj' = Avl!Renumbered(Avl!jsw_avlerase(obj, k).t)

TableInsert == IsTable /\ \E k \in HtKeys, v \in Vals : obj' = HtInsert(k, v).t
TableRemove == IsTable /\ \E k \in HtKeys : obj' = Ht!hashtable_remove(obj, k).t

QueuePush == /\ kind = "queue" /\ Len(Buf!QueueContents(obj)) < MaxItems
             /\ \E v \in Items : obj' = Buf!queue_push(obj, v).t
QueuePop == kind = "queue" /\ obj' = Buf!queue_pop(obj).t
QueueClear == kind = "queue" /\ obj' = Buf!queue_clear(obj)
QueueShuffle == kind = "queue" /\ obj' \in Buf!queue_shuffle(obj)

VectorPush == /\ kind = "vector" /\ obj.size < MaxItems
              /\ \E v \in Items : obj' = Buf!vector_pushBack(obj, v).t
VectorPop == kind = "vector" /\ obj' = Buf!vector_popBack(obj).t
VectorClear == kind = "vector" /\ obj' = Buf!vector_clear(obj)
VectorSort == kind = "vector" /\ obj' = Buf!vector_sort(obj)
\* The program goes on with a copy made in a vector of capacity 1.
VectorCopy == kind = "vector" /\ obj' = Buf!vector_copy(Buf!vector_alloc(1), obj)

HeapInsert == /\ kind = "heap" /\ obj.size < MaxItems + 2
              /\ \E v \in Items : obj' = Buf!heap_insert(obj, v).t
HeapRemove == kind = "heap" /\ obj' = Buf!heap_remove(obj).t

BitSet == kind = "bitmap" /\ \E i \in -1..NumBits : obj' = Buf!bitmap_set(obj, i).t
BitClear == kind = "bitmap" /\ \E i \in -1..NumBits : obj' = Buf!bitmap_clear(obj, i).t
BitClearAll == kind = "bitmap" /\ obj' = Buf!bitmap_clearAll(obj)
BitToggleAll == kind = "bitmap" /\ obj' = Buf!bitmap_toggleAll(obj)

PoolGet == /\ kind = "pool" /\ Cardinality(obj.live) < MaxGets
           /\ \E n \in Sizes : obj' = Buf!memory_get(obj, n)

Next ==
  /\ \/ RbInsert \/ RbDelete \/ RbUpdate
     \/ AvlInsert \/ AvlErase
     \/ TableInsert \/ TableRemove
     \/ QueuePush \/ QueuePop \/ QueueClear \/ QueueShuffle
     \/ VectorPush \/ VectorPop \/ VectorClear \/ VectorSort \/ VectorCopy
     \/ HeapInsert \/ HeapRemove
     \/ BitSet \/ BitClear \/ BitClearAll \/ BitToggleAll
     \/ PoolGet
  /\ UNCHANGED kind

Spec == Init /\ [][Next]_vars

-----------------------------------------------------------------------------
(* The map interface, and what a map call must do.                         *)

Contents == IF kind = "rbtree" THEN Rb!RbContents(obj) ELSE Ht!HtContents(obj)
ContentsOf(t) == IF kind = "rbtree" THEN Rb!RbContents(t) ELSE Ht!HtContents(t)
MapKeys == IF kind = "rbtree" THEN RbKeys ELSE HtKeys
MAP_INSERT(k, v) ==
  IF kind = "rbtree" THEN Rb!rbtree_insert(obj, k, v) ELSE HtInsert(k, v)
MAP_REMOVE(k) ==
  IF kind = "rbtree" THEN Rb!rbtree_delete(obj, k) ELSE Ht!hashtable_remove(obj, k)
MAP_FIND(k) ==
  IF kind = "rbtree" THEN Rb!rbtree_get(obj, k) ELSE Ht!hashtable_find(obj, k).v
MAP_CONTAINS(k) ==
  IF kind = "rbtree" THEN Rb!rbtree_contains(obj, k)
  ELSE Ht!hashtable_containsKey(obj, k)

Put(m, k, v) == [x \in DOMAIN m \cup {k} |-> IF x = k THEN v ELSE m[x]]
Drop(m, k) == [x \in DOMAIN m \ {k} |-> m[x]]

\* From every reachable red-black tree and hash table each call of the map
\* interface (map.h) returns what the map it stands for returns, and leaves
\* the map that call leaves: no key is lost, duplicated or hidden by a
\* rebalancing, a rehash or a collision, whatever calls came before.  The AVL
\* tree, which takes a key twice, does the same for the bag of its keys.
MapsBehave ==
  /\ kind = "avltree" => \A k \in AvlKeys :
       LET b == AvlBag(obj)
           er == Avl!jsw_avlerase(obj, k)
       IN /\ Avl!jsw_avlfind(obj, k) = (b[k] > 0)
          /\ AvlBag(Avl!jsw_avlinsert(obj, k).t) = [b EXCEPT ![k] = @ + 1]
          /\ obj.root # Avl!NIL =>
               /\ er.ret = (IF b[k] > 0 THEN 1 ELSE 0)
               /\ AvlBag(er.t) = (IF b[k] > 0 THEN [b EXCEPT ![k] = @ - 1] ELSE b)
  /\ kind = "rbtree" \/ IsTable =>
    \A k \in MapKeys :
      LET m == Contents
          here == k \in DOMAIN m
          ins(v) == MAP_INSERT(k, v)
          rem == MAP_REMOVE(k)
      IN /\ MAP_CONTAINS(k) = here
         /\ MAP_FIND(k) = IF here THEN m[k] ELSE 0
         /\ \A v \in Vals : /\ ins(v).ret = ~here
                            /\ ContentsOf(ins(v).t) = IF here THEN m ELSE Put(m, k, v)
         /\ rem.ret = here
         /\ ContentsOf(rem.t) = Drop(m, k)
         /\ kind = "rbtree" => \A v \in Vals :
              LET up == Rb!rbtree_update(obj, k, v)
              IN up.ret = here /\ ContentsOf(up.t) = Put(m, k, v)
         /\ IsTable => /\ Ht!hashtable_getSize(obj) = Cardinality(DOMAIN m)
                       /\ Ht!hashtable_isEmpty(obj) = (DOMAIN m = {})

\* Every reachable red-black tree passes the code's own rbtree_verify (key
\* order, parent links, no red child of a red node, equal black heights) and
\* every reachable AVL tree has correct balance factors within one.
TreesBalanced ==
  /\ kind = "rbtree" => Rb!rbtree_verify(obj)
  /\ kind = "avltree" => Avl!Balanced(obj)

RbClean(t) == Rb!Freed(t, t.root) = DOMAIN t.heap
AvlClean(t) == /\ Avl!jsw_avldelete(t) = DOMAIN t.heap
               /\ t.size = Cardinality(DOMAIN t.heap)
Linked(h) == UNION {{h.buckets[b][i] : i \in DOMAIN h.buckets[b]} :
                      b \in 0..(Ht!NumBucket(h) - 1)}

\* No call leaks or leaves anything dangling: after it the nodes that are
\* allocated are exactly those that rbtree_free, or the AVL tree's
\* destruction by rotation, would free, the pairs allocated are exactly those
\* linked in the chains, and the AVL size field counts the nodes (an erase on
\* an empty AVL tree, which wraps the size, is left out: see AvlErase).
NothingLeaks ==
  /\ kind = "rbtree" => \A k \in RbKeys :
       /\ RbClean(Rb!rbtree_delete(obj, k).t)
       /\ \A v \in Vals : /\ RbClean(Rb!rbtree_insert(obj, k, v).t)
                          /\ RbClean(Rb!rbtree_update(obj, k, v).t)
  /\ kind = "avltree" => \A k \in AvlKeys :
       /\ AvlClean(Avl!jsw_avlinsert(obj, k).t)
       /\ obj.root # Avl!NIL => AvlClean(Avl!jsw_avlerase(obj, k).t)
  /\ IsTable => obj.pairs = Linked(obj)

Ascending(s) == \A i, j \in DOMAIN s : i < j => s[i] <= s[j]
Reversed(s) == [i \in DOMAIN s |-> s[Len(s) + 1 - i]]

\* The AVL traversal yields every stored item, in order, forwards and
\* backwards, and the hash table's iterator yields every pair exactly once.
IteratorsComplete ==
  /\ kind = "avltree" =>
       LET up == Avl!Traversal(obj, 1)
       IN /\ Ascending(up)
          /\ \A k \in AvlKeys : Cardinality({i \in DOMAIN up : up[i] = k}) = CopiesOf(k)
          /\ Avl!Traversal(obj, 0) = Reversed(up)
  /\ IsTable =>
       LET all == Ht!IterAll(obj, Ht!hashtable_iter_reset)
       IN /\ {all[i] : i \in DOMAIN all} = obj.pairs
          /\ Len(all) = Cardinality(obj.pairs)

MaxOf(S) == CHOOSE x \in S : \A y \in S : y <= x
Inc(b, v) == [x \in DOMAIN b \cup {v} |->
                (IF x \in DOMAIN b THEN b[x] ELSE 0) + (IF x = v THEN 1 ELSE 0)]

\* The queue is first-in first-out across wrap-around and growth, the vector
\* a sequence, the heap a bag that gives back its largest element, the bitmap
\* a set: each call returns and leaves what the abstract object does.
BuffersBehave ==
  /\ kind = "queue" =>
       LET s == Buf!QueueContents(obj)
       IN /\ Buf!queue_isEmpty(obj) = (s = <<>>)
          /\ Buf!queue_pop(obj).ret = (IF s = <<>> THEN 0 ELSE s[1])
          /\ Buf!QueueContents(Buf!queue_pop(obj).t) = (IF s = <<>> THEN s ELSE Tail(s))
          /\ \A i \in 1..Len(s) : Buf!TMqueue_get(obj, i) = s[i]
          /\ Buf!TMqueue_get(obj, Len(s) + 1) = 0
          /\ \A v \in Items :
               Buf!QueueContents(Buf!queue_push(obj, v).t) = Append(s, v)
  /\ kind = "vector" =>
       LET s == Buf!VecContents(obj)
       IN /\ \A i \in -1..Len(s) :
               Buf!vector_at(obj, i) = (IF i + 1 \in DOMAIN s THEN s[i + 1] ELSE 0)
          /\ Buf!vector_popBack(obj).ret = (IF s = <<>> THEN 0 ELSE s[Len(s)])
          /\ \A v \in Items : Buf!VecContents(Buf!vector_pushBack(obj, v).t) = Append(s, v)
          /\ Buf!VecContents(Buf!vector_copy(Buf!vector_alloc(1), obj)) = s
          /\ Ascending(Buf!VecContents(Buf!vector_sort(obj)))
  /\ kind = "heap" =>
       LET b == Buf!HeapContents(obj)
           top == Buf!heap_remove(obj)
       IN /\ Buf!heap_isValid(obj)
          /\ \A v \in Items : Buf!HeapContents(Buf!heap_insert(obj, v).t) = Inc(b, v)
          /\ obj.size > 0 => /\ top.ret = MaxOf(DOMAIN b)
                             /\ Inc(Buf!HeapContents(top.t), top.ret) = b
  /\ kind = "bitmap" =>
       LET s == Buf!BitContents(obj)
           bits == 0..(NumBits - 1)
       IN /\ \A i \in -1..NumBits :
               /\ Buf!bitmap_isSet(obj, i) = (i \in s)
               /\ Buf!bitmap_isClear(obj, i) = (i \in bits \ s)
               /\ Buf!FirstBit(obj, i, TRUE) \in s \cup {-1}
               /\ Buf!BitContents(Buf!bitmap_set(obj, i).t) = s \cup ({i} \cap bits)
          /\ Buf!bitmap_getNumSet(obj) = Cardinality(s)
          /\ Buf!bitmap_getNumClear(obj) = Cardinality(bits \ s)
          /\ Buf!BitContents(Buf!bitmap_toggleAll(obj)) = bits \ s

\* The pieces of memory a thread's pool has handed out never overlap, lie
\* inside the capacity of their block and start at a multiple of 8, whatever
\* alignment malloc gave the block.
PoolDisjoint ==
  kind = "pool" =>
    /\ \A a, b \in obj.live :
         a # b /\ a.block = b.block => a.to <= b.from \/ b.to <= a.from
    /\ \A a \in obj.live : /\ a.to <= obj.blocks[a.block].capacity
                           /\ (obj.base + a.from) % Buf!ALIGN = 0

\* Seen from outside, each structure is the map, bag, sequence or set it
\* stands for (map.h and the functions of TPCC/lib).
StructuresBehave == MapsBehave /\ IteratorsComplete /\ BuffersBehave

\* Seen from inside, each structure keeps its shape and its memory: trees
\* balanced, nothing leaked or dangling, pieces of a pool apart.
StructuresSound == TreesBalanced /\ NothingLeaks /\ PoolDisjoint
=============================================================================
