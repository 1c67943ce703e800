---------------------------- MODULE TxServices ----------------------------
(***************************************************************************)
(* What tinySTM's modules add to a transaction through stm_register:       *)
(* allocation (mod_mem.c), user callbacks (mod_cb.c) and the undo log for  *)
(* private data (mod_log.c), plus the typed accesses of wrappers.c.        *)
(* All their state hangs off the thread's descriptor, so one thread is     *)
(* enough: it runs attempts of transactions, each of which calls the       *)
(* modules a few times and commits, or aborts and is retried or given up.  *)
(* The collector that receives freed blocks under EPOCH_GC is module Gc.   *)
(***************************************************************************)
EXTENDS Wrappers

CONSTANTS
  Blk,           \* blocks malloc can return
  Wd,            \* words of the program's private data
  Val,           \* values of those words
  Size,          \* bytes of shared memory
  Programs       \* the programs to consider, see below

\* A program: the modules it uses, the types it logs, whether its attempts
\* may abort, whether it writes private data outside transactions, the word
\* size of its build, and the bounds on its calls per attempt and attempts.
Program == [uses: SUBSET {"mem", "cb", "log", "typed"},
            types: SUBSET {"word", "u16", "bytes"},
            aborts: BOOLEAN, plain: BOOLEAN, w: {4, 8},
            maxOps: Nat, maxAttempts: Nat]

ASSUME ServicesAssumption ==
  /\ Size \in Nat /\ Size % 8 = 0
  /\ Blk \subseteq Nat /\ Val \subseteq Nat /\ Programs \subseteq Program

VARIABLES
  prog,          \* the program (never changes)
  pc,            \* "out" of or "in" a transaction
  ops, attempts, \* counters of the bounds
  heap,          \* per block: 1 live, 0 free (a double free shows as -1)
  mi,            \* mod_mem_info_t: lists allocated and freed
  icb,           \* mod_cb_info_t: lists commit and abort
  ws,            \* mod_log_w_set_t: entries and allocated
  local,         \* the private data
  view,          \* shared memory as the transaction sees it
  ended,         \* how the attempt the last step ended ended, if it did
  called,        \* the callbacks that step called, in order
  ghost          \* what the attempt should amount to

servicesVars == <<prog, pc, ops, attempts, heap, mi, icb, ws, local, view, ended,
          called, ghost>>

\* The reference: state at the start of the attempt, with what earlier aborts
\* left in the undo log, blocks allocated and freed and callbacks registered
\* by the attempt, words it logged, shared memory.
Fresh(h, l, v, log) ==
  [heap |-> h, local |-> l, view |-> v, kept |-> log, got |-> {}, gave |-> {},
   commit |-> <<>>, abort |-> <<>>, logged |-> {}, ref |-> v]

ServicesInit ==
  /\ prog \in Programs
  /\ pc = "out" /\ ops = 0 /\ attempts = 0
  /\ heap = [b \in Blk |-> 0]
  /\ mi = [allocated |-> <<>>, freed |-> <<>>]
  /\ icb = [commit |-> <<>>, abort |-> <<>>]
  /\ ws = [entries |-> <<>>, allocated |-> 0]
  /\ local \in [Wd -> {Min(Val)}]
  /\ view = [j \in 0..(Size - 1) |-> 100 + j]
  /\ ended = "no" /\ called = <<>>
  /\ ghost = Fresh(heap, local, view, <<>>)

Live == {b \in Blk : heap[b] = 1}

\* malloc returns the first block that is not allocated (none: the bound).
NewBlock == {b \in Blk \ Live : \A c \in Blk \ Live : b <= c}

\* Blocks added to (n = 1) or taken from (n = -1) the live ones, once per
\* occurrence in the list.
Counted(h, list, n) ==
  FoldLeft(LAMBDA acc, b : [acc EXCEPT ![b] = @ + n], h, list)

----------------------------------------------------------------------------
(* Calls inside a transaction. *)

Call(use) ==
  /\ use \in prog.uses
  /\ pc = "in" /\ ops < prog.maxOps
  /\ ops' = ops + 1
  /\ ended' = "no" /\ called' = <<>>
  /\ UNCHANGED <<prog, pc, attempts>>

stm_malloc ==
  /\ Call("mem")
  /\ \E b \in NewBlock :
       /\ heap' = [heap EXCEPT ![b] = 1]
       /\ mi' = [mi EXCEPT !.allocated = <<b>> \o @]
       /\ ghost' = [ghost EXCEPT !.got = @ \cup {b}]
  /\ UNCHANGED <<icb, ws, local, view>>

\* The block stays allocated until commit.  (The stores of stm_free2 into the
\* block's words are ordinary transactional stores.)
stm_free ==
  /\ Call("mem")
  /\ \E b \in Live \ ghost.gave :
       /\ mi' = [mi EXCEPT !.freed = <<b>> \o @]
       /\ ghost' = [ghost EXCEPT !.gave = @ \cup {b}]
  /\ UNCHANGED <<heap, icb, ws, local, view>>

stm_on_commit ==
  /\ Call("cb")
  /\ icb' = [icb EXCEPT !.commit = <<ops>> \o @]
  /\ ghost' = [ghost EXCEPT !.commit = Append(@, ops)]
  /\ UNCHANGED <<heap, mi, ws, local, view>>

stm_on_abort ==
  /\ Call("cb")
  /\ icb' = [icb EXCEPT !.abort = <<ops>> \o @]
  /\ ghost' = [ghost EXCEPT !.abort = Append(@, ops)]
  /\ UNCHANGED <<heap, mi, ws, local, view>>

\* An undo entry.  A block logged as bytes is copied into memory of its own.
stm_log(type) ==
  /\ Call("log")
  /\ type \in prog.types
  /\ \E x \in Wd,
        copies \in IF type = "bytes" THEN {<<b>> : b \in NewBlock} ELSE {<<>>} :
       /\ ws' = [entries |-> Append(ws.entries, [type |-> type, a |-> x,
                                                 v |-> local[x],
                                                 copy |-> copies]),
                 allocated |-> ws.allocated + Len(copies)]
       /\ heap' = Counted(heap, copies, 1)
       /\ ghost' = [ghost EXCEPT !.logged = @ \cup {x}]
  /\ UNCHANGED <<mi, icb, local, view>>

\* The program overwrites private data it has logged.
WriteLogged ==
  /\ Call("log")
  /\ \E x \in ghost.logged, v \in Val : local' = [local EXCEPT ![x] = v]
  /\ UNCHANGED <<heap, mi, icb, ws, view, ghost>>

\* The bytes a store of this call writes: all different.
Payload(size) == [k \in 1..size |-> 10 * (ops + 1) + k]

\* The effect a store of buf at a should have.
Stored(m, a, buf) ==
  [j \in DOMAIN m |-> IF j \in a..(a + Len(buf) - 1) THEN buf[j - a + 1]
                                                     ELSE m[j]]

StoreValue ==
  /\ Call("typed")
  /\ \E size \in {1, 2, 4, 8}, a \in 0..(Size - 1) :
       /\ a + size <= Size
       /\ view' = StoreTyped(view, prog.w, a, Payload(size))
       /\ ghost' = [ghost EXCEPT !.ref = Stored(@, a, Payload(size))]
  /\ UNCHANGED <<heap, mi, icb, ws, local>>

StoreBytes ==
  /\ Call("typed")
  /\ \E size \in 0..Size, a \in 0..(Size - 1) :
       /\ a + size <= Size
       /\ view' = stm_store_bytes(view, prog.w, a, Payload(size))
       /\ ghost' = [ghost EXCEPT !.ref = Stored(@, a, Payload(size))]
  /\ UNCHANGED <<heap, mi, icb, ws, local>>

SetBytes ==
  /\ Call("typed")
  /\ \E count \in 0..Size, a \in 0..(Size - 1) :
       /\ a + count <= Size
       /\ view' = stm_set_bytes(view, prog.w, a, 7, count)
       /\ ghost' = [ghost EXCEPT !.ref = Stored(@, a, [k \in 1..count |-> 7])]
  /\ UNCHANGED <<heap, mi, icb, ws, local>>

----------------------------------------------------------------------------
(* The callbacks the modules register. *)

\* The copies the entries of the log point to.
Copies == FoldLeft(LAMBDA acc, e : acc \o e.copy, <<>>, ws.entries)

\* mod_log_on_commit frees copies from the first entry on until as many as
\* were allocated have been freed.
CopiesFreed ==
  SubSeq(Copies, 1, Min({ws.allocated, Len(Copies)}))

\* Width of a char of the undo log, and of the wider types stored in one.
CharBits == 2
WideBits == 4

\* What comes back from an entry: the 16, 32 and 64-bit entries keep their
\* value in a (signed) char.
Logged(type, v) ==
  IF type = "u16"
    THEN LET c == v % 2^CharBits
         IN (IF c >= 2^(CharBits - 1) THEN c - 2^CharBits ELSE c) % 2^WideBits
    ELSE v

\* Private data l with the values of the entries put back one after the other.
Replayed(l, entries) ==
  FoldLeft(LAMBDA acc, e : [acc EXCEPT ![e.a] = Logged(e.type, e.v)], l, entries)

UndoneForward == Replayed(local, ws.entries)

\* mod_log_on_abort: the log applied in reverse order.
Undone == Replayed(local, Reverse(ws.entries))

\* The blocks mod_mem_on_abort gives back.
DisposedOnAbort == mi.allocated

NoCallbacks == [commit |-> <<>>, abort |-> <<>>]

\* mod_cb's lists after a commit or an abort: both are emptied.
CallbacksLeft == NoCallbacks

\* stm_commit calls the modules' commit callbacks.
Commit ==
  /\ pc = "in"
  /\ pc' = "out"
  /\ heap' = Counted(Counted(heap, mi.freed, -1), CopiesFreed, -1)
  /\ mi' = [allocated |-> <<>>, freed |-> <<>>]
  /\ called' = icb.commit
  /\ icb' = CallbacksLeft
  /\ ws' = [entries |-> <<>>, allocated |-> ws.allocated - Len(CopiesFreed)]
  /\ ended' = "commit"
  /\ UNCHANGED <<prog, ops, attempts, local, view, ghost>>

\* stm_rollback calls their abort callbacks; the log keeps its entries.
Abort ==
  /\ prog.aborts
  /\ pc = "in"
  /\ heap' = Counted(Counted(heap, DisposedOnAbort, -1), Copies, -1)
  /\ mi' = [allocated |-> <<>>, freed |-> <<>>]
  /\ called' = icb.abort
  /\ icb' = CallbacksLeft
  /\ local' = Undone
  /\ ws' = [ws EXCEPT !.allocated = @ - Len(Copies)]
  /\ view' = ghost.view
  /\ ended' = "abort"
  /\ pc' = "aborted"
  /\ UNCHANGED <<prog, ops, attempts, ghost>>

\* The transaction is started: first attempt, or retry after an abort.
Start ==
  /\ pc \in {"out", "aborted"}
  /\ attempts < prog.maxAttempts
  /\ pc' = "in" /\ ops' = 0 /\ attempts' = attempts + 1
  /\ ended' = "no" /\ called' = <<>>
  /\ ghost' = Fresh(heap, local, view, ws.entries)
  /\ UNCHANGED <<prog, heap, mi, icb, ws, local, view>>

\* The program gives the transaction up: stm_rollback returns without a retry.
GiveUp ==
  /\ pc = "aborted"
  /\ pc' = "out"
  /\ ended' = "no" /\ called' = <<>>
  /\ UNCHANGED <<prog, ops, attempts, heap, mi, icb, ws, local, view, ghost>>

\* The program writes its private data outside transactions.
PlainWrite ==
  /\ prog.plain /\ "log" \in prog.uses
  /\ pc = "out"
  /\ \E x \in Wd, v \in Val : local' = [local EXCEPT ![x] = v]
  /\ ended' = "no" /\ called' = <<>>
  /\ UNCHANGED <<prog, pc, ops, attempts, heap, mi, icb, ws, view, ghost>>

ServicesNext ==
  \/ stm_malloc \/ stm_free \/ stm_on_commit \/ stm_on_abort
  \/ (\E type \in {"word", "u16", "bytes"} : stm_log(type)) \/ WriteLogged
  \/ StoreValue \/ StoreBytes \/ SetBytes
  \/ Commit \/ Abort \/ Start \/ GiveUp \/ PlainWrite

ServicesSpec == ServicesInit /\ [][ServicesNext]_servicesVars

----------------------------------------------------------------------------
(* Properties. *)

\* "Upon abort, modifications are reverted" (mod_log.h:25): after
\* mod_log_on_abort the private data is what it was when the attempt began.
\* The code does not keep this promise: mod_log_on_abort applies the entries
\* but never resets nb_entries (mod_log.c:350-424), so a later abort applies
\* them again, and 16, 32 and 64-bit entries keep their value in a char
\* (mod_log.c:63-65).
UndoRestores == ended = "abort" => local = ghost.local

\* The assertion at the end of mod_log_on_abort (mod_log.c:423): every copy a
\* byte entry allocated has been freed, none more often than allocated.
CopiesAccounted == ended = "abort" => ws.allocated = 0

\* What the undo log does promise.  However often the attempt logged and
\* overwrote a word, an abort restores the data the attempt began with,
\* provided that every value fits the entry that keeps it and that the
\* entries earlier aborts left in the log still agree with the data: they do
\* while the transaction is retried, they need not once it was given up and
\* the program changed the data outside a transaction.
UndoExact ==
  /\ ended = "abort"
  /\ \A i \in DOMAIN ws.entries :
       LET e == ws.entries[i] IN Logged(e.type, e.v) = e.v
  /\ Replayed(ghost.local, Reverse(ghost.kept)) = ghost.local
  => local = ghost.local

\* No entry an earlier abort left in the log points to a copy (the abort that
\* left it has freed that copy).
NoCopiesKept == \A i \in DOMAIN ghost.kept : ghost.kept[i].copy = <<>>

\* An attempt that aborts leaves the heap as it found it, one that commits
\* adds what it allocated and removes what it freed (mod_mem.h:23), also when
\* a block was allocated and freed by the same attempt or holds a copy of the
\* undo log; nothing is freed twice or lost, unless the log still points to
\* copies that an earlier abort freed.
HeapBalanced ==
  NoCopiesKept =>
  /\ \A b \in Blk : heap[b] \in {0, 1}
  /\ ended = "abort" => heap = ghost.heap
  /\ ended = "commit" =>
       Live = ({b \in Blk : ghost.heap[b] = 1} \cup ghost.got) \ ghost.gave
  /\ CopiesAccounted

\* Every callback registered by the attempt for the way it ended is called
\* once, newest first, none registered for the other way or by another
\* attempt is (mod_cb.h:41-44), and none survives the attempt.
CallbacksOnce ==
  /\ ended = "commit" => called = Reverse(ghost.commit)
  /\ ended = "abort" => called = Reverse(ghost.abort)
  /\ ended # "no" => icb = NoCallbacks

\* Typed and byte-wise stores change exactly the bytes they name, whatever
\* their alignment and however many words they touch, and a typed load
\* returns the bytes at its address.
TypedAccess ==
  "typed" \in prog.uses =>
  /\ pc = "in" => view = ghost.ref
  /\ \A size \in {1, 2, 4, 8}, a \in 0..(Size - 1) :
       a + size <= Size =>
         LET bytes == [k \in 1..size |-> view[a + k - 1]]
         IN /\ LoadTyped(view, prog.w, a, size) = bytes
            /\ stm_load_bytes(view, prog.w, a, size) = bytes

\* However an attempt ends, what it leaves is exact: private data (as far as
\* UndoExact goes), heap and callbacks as mod_log.c, mod_mem.c and mod_cb.c
\* leave them, and the bytes its typed accesses (wrappers.c) named.
AttemptExact == UndoExact /\ HeapBalanced /\ CallbacksOnce /\ TypedAccess
=============================================================================
