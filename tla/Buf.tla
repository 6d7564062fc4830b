---------------------------------- MODULE Buf ----------------------------------
(***************************************************************************)
(* The string buffers of src/buf.c, on a memory of blocks of cells.  A     *)
(* memory is [blk, b]: the blocks by address, and the struct of each       *)
(* buffer.  Address 0 is buf_initial, the cell that all buffers without an *)
(* allocation share.  Allocation does not fail (buf.c does not check it).  *)
(* A write outside a block adds cells to it, so that it can be seen.       *)
(***************************************************************************)
EXTENDS Integers, Sequences, FiniteSets, FiniteSetsExt

CONSTANTS SLACK,        \* the 16 of GROW_N
          ADDF,         \* the 64 of buf_vaddf
          CHUNK,        \* the 8192 of buf_read
          NUL,
          JUNK          \* a cell that was never written

ASSUME SizesAssumption == SLACK \in Nat /\ ADDF \in Nat /\ CHUNK \in Nat

space(c) == c = " "

Fresh(blk) == Min(1 .. Cardinality(DOMAIN blk) \ DOMAIN blk)

\* The cells of a block from an offset on are overwritten.
Store(blk, p, off, data) ==
  [blk EXCEPT ![p] = [i \in DOMAIN blk[p] \cup (off .. off + Len(data) - 1) |->
     IF i \in off .. off + Len(data) - 1 THEN data[i - off + 1] ELSE blk[p][i]]]

Cells(m, b, off, n) == [i \in 1..n |-> m.blk[m.b[b].buf][off + i - 1]]
Text(m, b) == Cells(m, b, 0, m.b[b].len)

Put(m, b, off, data) == [m EXCEPT !.blk = Store(@, m.b[b].buf, off, data)]

GROW_N(n) == ((n + SLACK) * 3) \div 2

\* realloc moves the block; without an allocation there is none to move.
GROW(m, b, want) ==
  LET r    == m.b[b]
      cur  == IF GROW_N(r.alloc) < want THEN want ELSE GROW_N(r.alloc)
      p    == Fresh(m.blk)
      old  == IF r.alloc = 0 THEN << >> ELSE m.blk[r.buf]
      mem  == [i \in 0 .. cur - 1 |-> IF i \in DOMAIN old THEN old[i] ELSE
                                     IF r.alloc = 0 /\ i = 0 THEN NUL ELSE JUNK]
  IN  IF want <= r.alloc THEN m
      ELSE [blk |-> [q \in (DOMAIN m.blk \cup {p}) \ ({r.buf} \ {0}) |->
                       IF q = p THEN mem ELSE m.blk[q]],
            b   |-> [m.b EXCEPT ![b].buf = p, ![b].alloc = cur]]

buf_grow(m, b, extra) == GROW(m, b, m.b[b].len + extra + 1)

Empty == [buf |-> 0, alloc |-> 0, len |-> 0, pos |-> 0]

buf_init(m, b, hint) ==
  LET n == [m EXCEPT !.b[b] = Empty] IN IF hint > 0 THEN buf_grow(n, b, hint) ELSE n

buf_release(m, b) ==
  IF m.b[b].alloc = 0 THEN m
  ELSE buf_init([m EXCEPT !.blk = [q \in DOMAIN @ \ {m.b[b].buf} |-> @[q]]], b, 0)

\* Defective: hands out the shared cell of a buffer without an allocation.
buf_detach_shared(m, b) == [m |-> buf_init(m, b, 0), s |-> m.b[b].buf]

buf_detach(m, b) ==
  LET n == buf_grow(m, b, 0) IN [m |-> buf_init(n, b, 0), s |-> n.b[b].buf]

buf_setlen(m, b, len) ==
  LET n == Put(m, b, len, <<NUL>>)
  IN  [n EXCEPT !.b[b].len = len, !.b[b].pos = IF @ > len THEN len ELSE @]

buf_avail(m, b) == IF m.b[b].alloc > 0 THEN m.b[b].alloc - m.b[b].len - 1 ELSE 0

buf_addch(m, b, c) ==
  LET n == buf_grow(m, b, 1) IN [Put(n, b, n.b[b].len, <<c, NUL>>) EXCEPT !.b[b].len = @ + 1]

buf_add(m, b, data) ==
  LET n == buf_grow(m, b, Len(data))
  IN  buf_setlen(Put(n, b, n.b[b].len, data), b, n.b[b].len + Len(data))

\* vsnprintf writes at most size - 1 characters and a null.
vsnprintf(m, b, s) ==
  LET room == m.b[b].alloc - m.b[b].len - 1
  IN  Put(m, b, m.b[b].len, SubSeq(s, 1, IF Len(s) < room THEN Len(s) ELSE room) \o <<NUL>>)

buf_vaddf(m, b, s) ==
  LET n == IF buf_avail(m, b) = 0 THEN buf_grow(m, b, ADDF) ELSE m
      o == vsnprintf(n, b, s)
  IN  buf_setlen(IF Len(s) > buf_avail(o, b)
                 THEN vsnprintf(buf_grow(o, b, Len(s)), b, s) ELSE o, b, o.b[b].len + Len(s))

\* fread delivers data, of at most size bytes.
buf_fread(m, b, size, data) ==
  LET n == buf_grow(m, b, size)
  IN  IF data # << >> THEN buf_setlen(Put(n, b, n.b[b].len, data), b, n.b[b].len + Len(data))
      ELSE IF m.b[b].alloc = 0 THEN buf_release(n, b) ELSE n

buf_ltrim(m, b) ==
  LET t == Text(m, b)
      k == Min({i \in 0 .. Len(t) : i = Len(t) \/ ~space(t[i + 1])})
      n == [m EXCEPT !.b[b].pos = IF @ < k THEN 0 ELSE @ - k]
  IN  buf_setlen(Put(n, b, 0, SubSeq(t, k + 1, Len(t))), b, Len(t) - k)

buf_rtrim(m, b) ==
  LET t == Text(m, b)
  IN  buf_setlen(m, b, Max({i \in 0 .. Len(t) : i = 0 \/ ~space(t[i])}))

\* A negative offset counts from the end.
Offset(m, b, off) == IF off < 0 THEN m.b[b].len + off ELSE off

buf_splice(m, b, off, len, data) ==
  LET at    == Offset(m, b, off)
      delta == Len(data) - len
      n     == IF delta > 0 THEN buf_grow(m, b, delta) ELSE m
      o     == Put(n, b, at + Len(data), Cells(n, b, at + len, n.b[b].len - at - len))
  IN  buf_setlen(Put(o, b, at, data), b, n.b[b].len + delta)

buf_fgetc(m, b) == IF m.b[b].pos < m.b[b].len THEN [m EXCEPT !.b[b].pos = @ + 1] ELSE m

buf_ungetc(m, b, c) ==
  IF m.b[b].pos > 0
  THEN [Put(m, b, m.b[b].pos - 1, <<c>>) EXCEPT !.b[b].pos = @ - 1] ELSE m

buf_rewind(m, b) == [m EXCEPT !.b[b].pos = 0]
=============================================================================
