------------------------------- MODULE RbTree -------------------------------
(***************************************************************************)
(* TPCC/lib/rbtree.c: the red-black tree behind every map of the TPC-C     *)
(* tables.  A tree is a record [root, heap]: heap maps the address of each *)
(* allocated node to its fields k, v, p, l, r, c, so a node that is        *)
(* unlinked but never released stays in DOMAIN heap.  The plain functions  *)
(* and their TM_ twins differ only in going through TM_SHARED_READ/WRITE   *)
(* and have one definition here.  Every mirrored pair (left/right) of the  *)
(* code is one definition that takes the side as a field name.             *)
(*                                                                         *)
(* Operations are pure: they return [t |-> the new tree, ret |-> result].  *)
(* malloc is assumed to succeed.  TLC only (RECURSIVE).                    *)
(***************************************************************************)
EXTENDS Integers, FiniteSets

NULL == 0
RED == 0
BLACK == 1

Mirror(side) == IF side = "l" THEN "r" ELSE "l"

\* getNode: malloc returns an address that is not in use.
NewAddr(heap) == CHOOSE a \in 1..(Cardinality(DOMAIN heap) + 1) : a \notin DOMAIN heap

\* releaseNode
Release(t, n) ==
  [t EXCEPT !.heap = [a \in DOMAIN t.heap \ {n} |-> t.heap[a]]]

LDF(t, n, f) == t.heap[n][f]
STF(t, n, f, x) == [t EXCEPT !.heap[n][f] = x]

\* parentOf, leftOf and rightOf tolerate a null node.
FieldOf(t, n, f) == IF n = NULL THEN NULL ELSE LDF(t, n, f)
parentOf(t, n) == FieldOf(t, n, "p")
colorOf(t, n) == IF n = NULL THEN BLACK ELSE LDF(t, n, "c")
setColor(t, n, c) == IF n = NULL THEN t ELSE STF(t, n, "c", c)

RECURSIVE Descend(_, _, _)
Descend(t, n, k) ==
  IF n = NULL \/ LDF(t, n, "k") = k THEN n
  ELSE Descend(t, LDF(t, n, IF k < LDF(t, n, "k") THEN "l" ELSE "r"), k)

lookup(t, k) == Descend(t, t.root, k)

\* The link of p that held x (the root when p is null) now holds y; the code
\* looks at the side the rotation came from first.
Relink(t, p, first, x, y) ==
  IF p = NULL THEN [t EXCEPT !.root = y]
  ELSE STF(t, p, IF LDF(t, p, first) = x THEN first ELSE Mirror(first), y)

\* The child n is told its new parent.
Adopted(t, n, p) == IF n = NULL THEN t ELSE STF(t, n, "p", p)

\* y takes the place of x, which becomes its child on the given side.
Raised(t, x, y, side) ==
  LET p == LDF(t, x, "p")
      above == Relink(STF(t, y, "p", p), p, side, x, y)
  IN STF(STF(above, y, side, x), x, "p", y)

\* rotateLeft is Rotate(t, x, "r"): the right child goes up.
Rotate(t, x, up) ==
  LET y == LDF(t, x, up)
      yd == LDF(t, y, Mirror(up))
  IN Raised(Adopted(STF(t, x, up, yd), yd, x), x, y, Mirror(up))

RECURSIVE ClimbInsertion(_, _)

\* The uncle is black and x an outer child: the grandparent is rotated down.
UncleBlack(t, x, side) ==
  LET p == parentOf(t, x)
      g == parentOf(t, p)
      painted == setColor(setColor(t, p, BLACK), g, RED)
  IN ClimbInsertion(IF g = NULL THEN painted ELSE Rotate(painted, g, side), x)

ClimbInsertion(t, x) ==
  LET xp == parentOf(t, x)
      g == parentOf(t, xp)
      side == IF xp = FieldOf(t, g, "l") THEN "l" ELSE "r"
      uncle == FieldOf(t, g, Mirror(side))
  IN IF x = NULL \/ x = t.root \/ colorOf(t, xp) # RED THEN t
     ELSE IF colorOf(t, uncle) = RED
     THEN ClimbInsertion(
            setColor(setColor(setColor(t, xp, BLACK), uncle, BLACK), g, RED), g)
     ELSE IF x = FieldOf(t, xp, Mirror(side))
     THEN UncleBlack(Rotate(t, xp, Mirror(side)), xp, side)
     ELSE UncleBlack(t, x, side)

RootBlack(t) == STF(t, t.root, "c", BLACK)

fixAfterInsertion(t, x) == RootBlack(ClimbInsertion(STF(t, x, "c", RED), x))

RECURSIVE LeafFor(_, _, _)
LeafFor(t, n, k) ==
  LET next == LDF(t, n, IF k < LDF(t, n, "k") THEN "l" ELSE "r")
  IN IF LDF(t, n, "k") = k \/ next = NULL THEN n ELSE LeafFor(t, next, k)

\* insert(s, k, v, n): ex is the node that already has the key, or NULL.
insert(t, k, v, n) ==
  LET fresh == [k |-> k, v |-> v, p |-> NULL, l |-> NULL, r |-> NULL, c |-> BLACK]
      leaf == LeafFor(t, t.root, k)
      side == IF k < LDF(t, leaf, "k") THEN "l" ELSE "r"
      t1 == STF([t EXCEPT !.heap[n] = [fresh EXCEPT !.p = leaf]], leaf, side, n)
  IN IF t.root = NULL
     THEN [t |-> [t EXCEPT !.root = n, !.heap[n] = fresh], ex |-> NULL]
     ELSE IF LDF(t, leaf, "k") = k THEN [t |-> t, ex |-> leaf]
     ELSE [t |-> fixAfterInsertion(t1, n), ex |-> NULL]

RECURSIVE Leftmost(_, _)
Leftmost(t, n) == IF LDF(t, n, "l") = NULL THEN n ELSE Leftmost(t, LDF(t, n, "l"))

RECURSIVE ClimbWhileRight(_, _, _)
ClimbWhileRight(t, p, ch) ==
  IF p # NULL /\ ch = FieldOf(t, p, "r")
  THEN ClimbWhileRight(t, LDF(t, p, "p"), p) ELSE p

successor(t, n) ==
  IF n = NULL THEN NULL
  ELSE IF LDF(t, n, "r") # NULL THEN Leftmost(t, LDF(t, n, "r"))
  ELSE ClimbWhileRight(t, LDF(t, n, "p"), n)

\* Bug: the sibling's far child keeps its colour.
FarUntouched(t, sib, far) == t

\* SET_COLOR of the sibling's far child before the last rotation
FarBlack(t, sib, far) == setColor(t, FieldOf(t, sib, far), BLACK)

RECURSIVE fixAfterDeletion(_, _)

\* A red sibling is rotated away, so that the sibling is black.
SiblingBlack(t, xp, far) ==
  LET sib == FieldOf(t, xp, far)
  IN IF colorOf(t, sib) = RED
     THEN Rotate(setColor(setColor(t, sib, BLACK), xp, RED), xp, far) ELSE t

\* A black far child of the sibling is replaced by its red near child.
FarRed(t, sib, near) ==
  IF colorOf(t, FieldOf(t, sib, Mirror(near))) = BLACK
  THEN Rotate(setColor(setColor(t, FieldOf(t, sib, near), BLACK), sib, RED), sib, near)
  ELSE t

\* The last rotation; the loop ends with x set to the root.
LastRotation(t, x, far) ==
  LET p == parentOf(t, x)
      sib == FieldOf(t, p, far)
      painted == setColor(setColor(t, sib, colorOf(t, p)), p, BLACK)
  IN Rotate(FarBlack(painted, sib, far), p, far)

FixedAtRoot(t) == fixAfterDeletion(t, t.root)

SiblingIsBlack(t, x, near) ==
  LET far == Mirror(near)
      sib == FieldOf(t, parentOf(t, x), far)
  IN IF colorOf(t, FieldOf(t, sib, near)) = BLACK
        /\ colorOf(t, FieldOf(t, sib, far)) = BLACK
     THEN fixAfterDeletion(setColor(t, sib, RED), parentOf(t, x))
     ELSE FixedAtRoot(LastRotation(FarRed(t, sib, near), x, far))

fixAfterDeletion(t, x) ==
  LET xp == parentOf(t, x)
      near == IF x = FieldOf(t, xp, "l") THEN "l" ELSE "r"
  IN IF x = t.root \/ colorOf(t, x) # BLACK THEN setColor(t, x, BLACK)
     ELSE SiblingIsBlack(SiblingBlack(t, xp, Mirror(near)), x, near)

\* q has a child: link it to q's parent, cut q's own links, repair.
Bypassed(t, q, child) ==
  LET qp == LDF(t, q, "p")
      linked == Relink(STF(t, child, "p", qp), qp, "l", q, child)
      apart == STF(STF(STF(linked, q, "l", NULL), q, "r", NULL), q, "p", NULL)
  IN IF LDF(t, q, "c") = BLACK THEN fixAfterDeletion(apart, child) ELSE apart

\* q is a leaf that has stood in for the missing child: it is unlinked.
LeafUnlinked(t, q) ==
  LET pp == LDF(t, q, "p")
      side == IF LDF(t, pp, "l") = q THEN "l" ELSE "r"
  IN IF pp = NULL THEN t
     ELSE IF LDF(t, pp, side) = q THEN STF(STF(t, pp, side, NULL), q, "p", NULL)
     ELSE STF(t, q, "p", NULL)

NodeRemoved(t, q) ==
  LET child == IF LDF(t, q, "l") # NULL THEN LDF(t, q, "l") ELSE LDF(t, q, "r")
  IN IF child # NULL THEN Bypassed(t, q, child)
     ELSE IF LDF(t, q, "p") = NULL THEN [t EXCEPT !.root = NULL]
     ELSE LeafUnlinked(IF LDF(t, q, "c") = BLACK THEN fixAfterDeletion(t, q) ELSE t, q)

\* delete_node(s, p): returns the node that left the tree, which is p's
\* successor when p has two children.
delete_node(t, p) ==
  LET q == successor(t, p)
  IN IF LDF(t, p, "l") # NULL /\ LDF(t, p, "r") # NULL
     THEN [t |-> NodeRemoved(STF(STF(t, p, "k", LDF(t, q, "k")), p, "v", LDF(t, q, "v")), q),
           gone |-> q]
     ELSE [t |-> NodeRemoved(t, p), gone |-> p]

-----------------------------------------------------------------------------
(* The public operations.                                                  *)

rbtree_alloc == [root |-> NULL, heap |-> [a \in {} |-> <<>>]]

\* The node is allocated before the key is looked up, and released again when
\* the key was there.
WithNode(t, n) ==
  [t EXCEPT !.heap = [a \in DOMAIN t.heap \cup {n} |->
                        IF a = n THEN <<>> ELSE t.heap[a]]]

Inserted(r, n) ==
  [t |-> IF r.ex # NULL THEN Release(r.t, n) ELSE r.t, ret |-> r.ex = NULL]

rbtree_insert(t, k, v) ==
  LET n == NewAddr(t.heap) IN Inserted(insert(WithNode(t, n), k, v, n), n)

Deleted(d) == [t |-> Release(d.t, d.gone), ret |-> TRUE]

rbtree_delete(t, k) ==
  LET n == lookup(t, k)
  IN IF n = NULL THEN [t |-> t, ret |-> FALSE] ELSE Deleted(delete_node(t, n))

\* TRUE when the key was there: the value is replaced in place.
Updated(r, n, v) ==
  IF r.ex # NULL
  THEN [t |-> Release(STF(r.t, r.ex, "v", v), n), ret |-> TRUE]
  ELSE [t |-> r.t, ret |-> FALSE]

rbtree_update(t, k, v) ==
  LET n == NewAddr(t.heap) IN Updated(insert(WithNode(t, n), k, v, n), n, v)

rbtree_get(t, k) ==
  LET n == lookup(t, k) IN IF n = NULL THEN NULL ELSE LDF(t, n, "v")

rbtree_contains(t, k) == lookup(t, k) # NULL

\* freeNode: the addresses released by rbtree_free, children before parents.
RECURSIVE Freed(_, _)
Freed(t, n) ==
  IF n = NULL THEN {}
  ELSE Freed(t, LDF(t, n, "l")) \cup Freed(t, LDF(t, n, "r")) \cup {n}

-----------------------------------------------------------------------------
(* rbtree_verify, the code's own integrity check, as a predicate: parent   *)
(* links, key order along successor, and verifyRedBlack's black height     *)
(* (0 when a red node has a red child); unlike the code it also rejects    *)
(* the imbalances the code only prints.                                    *)

RECURSIVE verifyRedBlack(_, _)
verifyRedBlack(t, n) ==
  IF n = NULL THEN 1
  ELSE LET hl == verifyRedBlack(t, LDF(t, n, "l"))
           hr == verifyRedBlack(t, LDF(t, n, "r"))
           kids == {LDF(t, n, "l"), LDF(t, n, "r")} \ {NULL}
       IN IF \/ hl = 0 \/ hr # hl
             \/ \E c \in kids : LDF(t, c, "p") # n
             \/ LDF(t, n, "c") = RED /\ \E c \in kids : LDF(t, c, "c") # BLACK
          THEN 0
          ELSE IF LDF(t, n, "c") = RED THEN hl ELSE hl + 1

RECURSIVE InOrder(_, _)
InOrder(t, n) ==
  LET next == successor(t, n)
  IN IF n = NULL THEN TRUE
     ELSE IF next = NULL THEN TRUE
     ELSE LDF(t, n, "k") < LDF(t, next, "k") /\ InOrder(t, next)

rbtree_verify(t) ==
  t.root # NULL =>
    /\ LDF(t, t.root, "p") = NULL
    /\ LDF(t, t.root, "c") = BLACK
    /\ InOrder(t, Leftmost(t, t.root))
    /\ verifyRedBlack(t, t.root) > 0

\* Addresses matter only up to renaming: the tree with every node at the
\* address equal to its key.
Renamed(t) ==
  LET At(k) == CHOOSE n \in DOMAIN t.heap : LDF(t, n, "k") = k
      Name(n) == IF n = NULL THEN NULL ELSE LDF(t, n, "k")
  IN [root |-> Name(t.root),
      heap |-> [k \in {LDF(t, n, "k") : n \in DOMAIN t.heap} |->
                 [t.heap[At(k)] EXCEPT !.p = Name(@), !.l = Name(@), !.r = Name(@)]]]

\* The map a tree stands for.
RbContents(t) ==
  [k \in {LDF(t, n, "k") : n \in Freed(t, t.root)} |-> rbtree_get(t, k)]
=============================================================================
