------------------------------ MODULE AvlTree -------------------------------
(***************************************************************************)
(* TPCC/lib/avltree.c: the non-recursive AVL tree.  A tree is              *)
(* [root, heap, size]; a node has data, balance and link, a pair of        *)
(* children indexed by 0 (smaller) and 1 (larger).  The C comparison       *)
(* cmp(it->data, data) < 0 is Dir(t, n, k).  P_ variants differ in the     *)
(* allocator only.  size is a size_t: it wraps below 0 (SIZE_MAX is the    *)
(* stand-in for 2^64 - 1).  TLC only (RECURSIVE).                          *)
(***************************************************************************)
EXTENDS Integers, Sequences, FiniteSets, TLC

NIL == 0
SIZE_MAX == 99

Data(t, n) == t.heap[n].data
Bal(t, n) == t.heap[n].balance
Link(t, n, d) == t.heap[n].link[d]
SetLink(t, n, d, x) == [t EXCEPT !.heap[n].link[d] = x]
SetBal(t, n, b) == [t EXCEPT !.heap[n].balance = b]
Dir(t, n, k) == IF Data(t, n) < k THEN 1 ELSE 0
Sign(d) == IF d = 0 THEN -1 ELSE 1

\* malloc returns an address that is not in use.
FreeAddr(t) ==
  CHOOSE a \in 1..(Cardinality(DOMAIN t.heap) + 1) : a \notin DOMAIN t.heap

new_node(t, n, k) ==
  [t EXCEPT !.heap = [a \in DOMAIN t.heap \cup {n} |->
     IF a = n THEN [data |-> k, balance |-> 0, link |-> [d \in {0, 1} |-> NIL]]
     ELSE t.heap[a]]]

FreeNode(t, n) == [t EXCEPT !.heap = [a \in DOMAIN t.heap \ {n} |-> t.heap[a]]]

\* The rotations work on a node pointer and leave it at the new subtree root:
\* they return [t, root].
jsw_single(t, n, d) ==
  LET save == Link(t, n, 1 - d)
      t1 == SetLink(t, n, 1 - d, Link(t, save, d))
  IN [t |-> SetLink(t1, save, d, n), root |-> save]

jsw_double(t, n, d) ==
  LET child == Link(t, n, 1 - d)
      save == Link(t, child, d)
      t1 == SetLink(t, child, d, Link(t, save, 1 - d))
      t2 == SetLink(t1, save, 1 - d, child)
  IN jsw_single(SetLink(t2, n, 1 - d, save), n, d)

jsw_adjust_balance(t, n, d, bal) ==
  LET c == Link(t, n, d)
      cc == Link(t, c, 1 - d)
      nb == IF Bal(t, cc) = bal THEN -bal ELSE 0
      cb == IF Bal(t, cc) = -bal THEN bal ELSE 0
  IN SetBal(SetBal(SetBal(t, n, nb), c, cb), cc, 0)

jsw_insert_balance(t, n, d) ==
  LET c == Link(t, n, d) bal == Sign(d)
  IN IF Bal(t, c) = bal
     THEN jsw_single(SetBal(SetBal(t, n, 0), c, 0), n, 1 - d)
     ELSE jsw_double(jsw_adjust_balance(t, n, d, bal), n, 1 - d)

jsw_remove_balance(t, n, d) ==
  LET c == Link(t, n, 1 - d) bal == Sign(d)
  IN IF Bal(t, c) = -bal
     THEN jsw_single(SetBal(SetBal(t, n, 0), c, 0), n, d) @@ [done |-> FALSE]
     ELSE IF Bal(t, c) = bal
     THEN jsw_double(jsw_adjust_balance(t, n, 1 - d, -bal), n, d) @@ [done |-> FALSE]
     ELSE jsw_single(SetBal(SetBal(t, n, -bal), c, bal), n, d) @@ [done |-> TRUE]

-----------------------------------------------------------------------------
jsw_avlnew == [root |-> NIL, heap |-> [a \in {} |-> <<>>], size |-> 0]

RECURSIVE Find(_, _, _)
Find(t, n, k) ==
  IF n = NIL \/ Data(t, n) = k THEN n ELSE Find(t, Link(t, n, Dir(t, n, k)), k)

jsw_avlfind(t, k) == Find(t, t.root, k) # NIL

\* The search of jsw_avlinsert: p is where the new node goes, s the deepest
\* node on the path whose balance is not 0 (or the root), top its parent.
RECURSIVE Search(_, _, _)
Search(t, k, at) ==
  LET q == Link(t, at.p, Dir(t, at.p, k))
  IN IF q = NIL THEN at
     ELSE Search(t, k, IF Bal(t, q) # 0 THEN [p |-> q, s |-> q, top |-> at.p]
                       ELSE [at EXCEPT !.p = q])

RECURSIVE Tilt(_, _, _, _)
Tilt(t, n, q, k) ==
  IF n = q THEN t
  ELSE LET d == Dir(t, n, k)
       IN Tilt(SetBal(t, n, Bal(t, n) + Sign(d)), Link(t, n, d), q, k)

\* The deepest unbalanced node is rotated if the new node made it too heavy.
Rebalanced(t, n, k) ==
  IF Bal(t, n) \in {-2, 2} THEN jsw_insert_balance(t, n, Dir(t, n, k))
  ELSE [t |-> t, root |-> n]

\* The subtree that was at old hangs where it hung, below top.
Hung(r, top, old) ==
  IF top = NIL THEN [r.t EXCEPT !.root = r.root]
  ELSE SetLink(r.t, top, IF Link(r.t, top, 1) = old THEN 1 ELSE 0, r.root)

\* The new node goes below the end of the search path.
Placed(t, n, k, at) ==
  Hung(Rebalanced(Tilt(SetLink(new_node(t, n, k), at.p, Dir(t, at.p, k), n), at.s, n, k),
                  at.s, k), at.top, at.s)

\* Equal keys are not looked for: the tree takes duplicates.
jsw_avlinsert(t, k) ==
  LET n == FreeAddr(t)
      start == [p |-> t.root, s |-> t.root, top |-> NIL]
      new == IF t.root = NIL THEN [new_node(t, n, k) EXCEPT !.root = n]
             ELSE Placed(t, n, k, Search(t, k, start))
  IN [t |-> [new EXCEPT !.size = @ + 1], ret |-> 1]

\* up/upd of jsw_avlerase: the path of [n, d] pairs down to the node found.
RECURSIVE PathTo(_, _, _, _)
PathTo(t, n, k, up) ==
  IF n = NIL \/ Data(t, n) = k THEN [it |-> n, up |-> up]
  ELSE LET d == Dir(t, n, k)
       IN PathTo(t, Link(t, n, d), k, Append(up, [n |-> n, d |-> d]))

RECURSIVE HeirOf(_, _, _)
HeirOf(t, n, up) ==
  IF Link(t, n, 0) = NIL THEN [it |-> n, up |-> up]
  ELSE HeirOf(t, Link(t, n, 0), Append(up, [n |-> n, d |-> 0]))

\* The walk back up the search path.
RECURSIVE Retrace(_, _)

\* The walk continues from a subtree that was rotated, unless that ends it.
RetraceFrom(r, up) ==
  LET top == up[Len(up)]
      hung == IF up = <<>> THEN [r.t EXCEPT !.root = r.root]
              ELSE SetLink(r.t, top.n, top.d, r.root)
  IN IF r.done THEN hung ELSE Retrace(hung, up)

Weighed(t, e, rest) ==
  CASE Bal(t, e.n) \in {-1, 1} -> t
    [] Bal(t, e.n) = 0 -> Retrace(t, rest)
    [] OTHER -> RetraceFrom(jsw_remove_balance(t, e.n, e.d), rest)

Retrace(t, up) ==
  LET e == up[Len(up)]
  IN IF up = <<>> THEN t
     ELSE Weighed(SetBal(t, e.n, Bal(t, e.n) - Sign(e.d)), e, SubSeq(up, 1, Len(up) - 1))

\* The node found has at most one child, which takes its place.
ErasedSingle(t, it, up) ==
  LET child == Link(t, it, IF Link(t, it, 0) = NIL THEN 1 ELSE 0)
      last == up[Len(up)]
      out == IF up = <<>> THEN [t EXCEPT !.root = child]
             ELSE SetLink(t, last.n, last.d, child)
  IN Retrace(FreeNode(out, it), up)

\* Its heir's data move into the node, and the heir leaves the tree.
ErasedHeir(t, it, h) ==
  LET above == h.up[Len(h.up)].n
      out == SetLink([t EXCEPT !.heap[it].data = Data(t, h.it)],
                     above, IF above = it THEN 1 ELSE 0, Link(t, h.it, 1))
  IN Retrace(FreeNode(out, h.it), h.up)

\* An empty tree skips the search: it still decrements size and reports 1.
Erased(t, f) ==
  LET less == IF t.size = 0 THEN SIZE_MAX ELSE t.size - 1
      heir == HeirOf(t, Link(t, f.it, 1), Append(f.up, [n |-> f.it, d |-> 1]))
      out == IF NIL \in {Link(t, f.it, 0), Link(t, f.it, 1)}
             THEN ErasedSingle(t, f.it, f.up) ELSE ErasedHeir(t, f.it, heir)
  IN IF t.root = NIL THEN [t |-> [t EXCEPT !.size = less], ret |-> 1]
     ELSE IF f.it = NIL THEN [t |-> t, ret |-> 0]
     ELSE [t |-> [out EXCEPT !.size = less], ret |-> 1]

jsw_avlerase(t, k) == Erased(t, PathTo(t, t.root, k, <<>>))

-----------------------------------------------------------------------------
(* The traversal: start and move keep the path from the root in a stack.   *)

RECURSIVE Slide(_, _, _)
Slide(t, tr, d) ==
  IF tr.it # NIL /\ Link(t, tr.it, d) # NIL
  THEN Slide(t, [it |-> Link(t, tr.it, d), path |-> Append(tr.path, tr.it)], d)
  ELSE tr

start(t, d) == IF t.root = NIL THEN [it |-> NIL, path |-> <<>>]
               ELSE Slide(t, [it |-> t.root, path |-> <<>>], d)

RECURSIVE UpWhile(_, _, _)
UpWhile(t, tr, d) ==
  IF tr.path = <<>> THEN [tr EXCEPT !.it = NIL]
  ELSE LET p == tr.path[Len(tr.path)]
           up == [it |-> p, path |-> SubSeq(tr.path, 1, Len(tr.path) - 1)]
       IN IF Link(t, p, d) = tr.it THEN UpWhile(t, up, d) ELSE up

move(t, tr, d) ==
  IF Link(t, tr.it, d) # NIL
  THEN Slide(t, [it |-> Link(t, tr.it, d), path |-> Append(tr.path, tr.it)], 1 - d)
  ELSE UpWhile(t, tr, d)

RECURSIVE Visit(_, _, _)
Visit(t, tr, d) ==
  IF tr.it = NIL THEN <<>> ELSE <<tr.it>> \o Visit(t, move(t, tr, d), d)

\* What first/next (d = 1) or last/prev (d = 0) return until they return NULL.
Traversal(t, d) ==
  LET nodes == Visit(t, start(t, 1 - d), d)
  IN [i \in DOMAIN nodes |-> Data(t, nodes[i])]

\* jsw_avldelete's destruction by rotation: the nodes it frees.
RECURSIVE Destroyed(_, _)
Destroyed(t, it) ==
  IF it = NIL THEN {}
  ELSE IF Link(t, it, 0) = NIL
  THEN {it} \cup Destroyed(FreeNode(t, it), Link(t, it, 1))
  ELSE LET save == Link(t, it, 0)
       IN Destroyed(SetLink(SetLink(t, it, 0, Link(t, save, 1)), save, 1, it), save)

jsw_avldelete(t) == Destroyed(t, t.root)

-----------------------------------------------------------------------------
RECURSIVE Height(_, _)
Height(t, n) ==
  IF n = NIL THEN 0
  ELSE LET l == Height(t, Link(t, n, 0)) r == Height(t, Link(t, n, 1))
       IN 1 + (IF l > r THEN l ELSE r)

\* Addresses matter only up to renaming: the tree with its nodes numbered
\* in key order.
RECURSIVE Ordered(_, _)
Ordered(t, n) ==
  IF n = NIL THEN <<>>
  ELSE Ordered(t, Link(t, n, 0)) \o <<n>> \o Ordered(t, Link(t, n, 1))

Renumbered(t) ==
  LET order == Ordered(t, t.root)
      Rank(n) == IF n = NIL THEN NIL ELSE CHOOSE i \in DOMAIN order : order[i] = n
  IN [t EXCEPT !.root = Rank(@),
               !.heap = [i \in DOMAIN order |->
                  [t.heap[order[i]] EXCEPT !.link = [d \in {0, 1} |-> Rank(@[d])]]]]

\* The balance field of every node is the difference of its subtrees'
\* heights, and is never more than one.
Balanced(t) ==
  \A n \in DOMAIN t.heap :
    /\ Bal(t, n) = Height(t, Link(t, n, 1)) - Height(t, Link(t, n, 0))
    /\ Bal(t, n) \in -1..1
=============================================================================
