----------------------------- MODULE Wrappers -----------------------------
(***************************************************************************)
(* The typed loads and stores of tinySTM/src/wrappers.c over the word      *)
(* operations of the STM.  Memory is a function from byte addresses 0..n   *)
(* to bytes; w is sizeof(stm_word_t), 4 or 8 depending on the build.  The  *)
(* signed, floating-point and pointer variants only reinterpret the bits   *)
(* of the unsigned one of their size.                                      *)
(***************************************************************************)
EXTENDS Integers, Sequences, SequencesExt, FiniteSetsExt

\* A byte of a union that was never assigned.
Junk == -1

\* The word-sized operations of the STM, on the word that starts at byte a.
stm_load(m, w, a) == [k \in 0..(w - 1) |-> m[a + k]]

stm_store2(m, w, a, val, mask) ==
  [j \in DOMAIN m |-> IF j \in a..(a + w - 1) /\ (j - a) \in mask
                        THEN val[j - a] ELSE m[j]]

stm_store(m, w, a, val) == stm_store2(m, w, a, val, 0..(w - 1))

\* addr & ~(sizeof(stm_word_t) - 1)
WordAddr(w, a) == a - (a % w)

\* How many bytes the loop over the "First bytes" handles.
FirstBytes(w, a, size) == IF a % w = 0 THEN 0 ELSE Min({w - (a % w), size})

\* The word accesses of a byte-wise operation, in order: the first bytes, the
\* full words and the last bytes.  Each takes n bytes at offset off of the
\* word at addr, for the bytes of the buffer from pos on.
Pieces(w, a, size) ==
  LET first == FirstBytes(w, a, size)
      full == (size - first) \div w
      last == (size - first) % w
      next == a + first
  IN (IF first > 0 THEN <<[addr |-> WordAddr(w, a), off |-> a % w,
                           pos |-> 0, n |-> first]>> ELSE <<>>)
     \o [k \in 1..full |-> [addr |-> next + (k - 1) * w, off |-> 0,
                            pos |-> first + (k - 1) * w, n |-> w]]
     \o (IF last > 0 THEN <<[addr |-> next + full * w, off |-> 0,
                             pos |-> first + full * w, n |-> last]>> ELSE <<>>)

stm_load_bytes(m, w, a, size) ==
  FoldLeft(LAMBDA buf, p :
             buf \o [k \in 1..p.n |-> stm_load(m, w, p.addr)[p.off + k - 1]],
           <<>>, Pieces(w, a, size))

stm_store_bytes(m, w, a, buf) ==
  FoldLeft(LAMBDA mem, p :
             LET val == [k \in 0..(w - 1) |->
                           IF k \in p.off..(p.off + p.n - 1)
                             THEN buf[p.pos + k - p.off + 1] ELSE 0]
             IN stm_store2(mem, w, p.addr, val, p.off..(p.off + p.n - 1)),
           m, Pieces(w, a, Len(buf)))

stm_set_bytes(m, w, a, byte, count) ==
  FoldLeft(LAMBDA mem, p :
             stm_store2(mem, w, p.addr, [k \in 0..(w - 1) |-> byte],
                        p.off..(p.off + p.n - 1)),
           m, Pieces(w, a, count))

\* stm_load_u8 ... stm_load_u64: size is 1, 2, 4 or 8.
LoadTyped(m, w, a, size) ==
  IF a % size # 0 THEN stm_load_bytes(m, w, a, size)
  ELSE IF size > w
    THEN [k \in 1..size |-> stm_load(m, w, a + (IF k > w THEN w ELSE 0))
                              [(k - 1) % w]]
  ELSE [k \in 1..size |-> stm_load(m, w, WordAddr(w, a))[(a % w) + k - 1]]

\* stm_store_u8 ... stm_store_u64 of the bytes buf.
StoreTyped(m, w, a, buf) ==
  LET size == Len(buf)
      val(off, pos) == [k \in 0..(w - 1) |->
                          IF k - off + pos + 1 \in 1..size /\ k >= off
                            THEN buf[k - off + pos + 1] ELSE Junk]
  IN IF a % size # 0 THEN stm_store_bytes(m, w, a, buf)
     ELSE IF size > w
       THEN stm_store(stm_store(m, w, a, val(0, 0)), w, a + w, val(0, w))
     ELSE stm_store2(m, w, WordAddr(w, a), val(a % w, 0),
                     (a % w)..((a % w) + size - 1))
=============================================================================
