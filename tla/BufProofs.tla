------------------------------ MODULE BufProofs ------------------------------
(***************************************************************************)
(* String buffers keep their text, their block and their distance from one *)
(* another, for any number of buffers, any bytes and sizes, and whatever   *)
(* the order of operations and failed reads.                               *)
(*                                                                         *)
(* An operation on a buffer changes its struct and its block and nothing   *)
(* else (Only).  That, shown once for the three ways of writing (GROW,     *)
(* Put and changes of the struct), composes to the operations of buf.c.    *)
(***************************************************************************)
EXTENDS BufUse, Indices, SequenceTheorems

Struct == [buf : Nat, alloc : Nat, len : Nat, pos : Nat]
Block(x, b) == x.blk[x.b[b].buf]
Size(r) == IF r.alloc = 0 THEN 1 ELSE r.alloc

\* The struct of a buffer agrees with its block.
Good(x, b) ==
  /\ x.b[b].buf \in DOMAIN x.blk
  /\ x.b[b].alloc = 0 <=> x.b[b].buf = 0
  /\ DOMAIN Block(x, b) = 0 .. Size(x.b[b]) - 1
  /\ x.b[b].len < Size(x.b[b])
  /\ x.b[b].pos <= x.b[b].len

\* No two buffers share a block, buf_initial apart.
Memory(x) ==
  /\ x = [blk |-> x.blk, b |-> x.b]
  /\ x.b \in [Bufs -> Struct]
  /\ IsFiniteSet(DOMAIN x.blk) /\ DOMAIN x.blk \subseteq Nat
  /\ 0 \in DOMAIN x.blk /\ x.blk[0] = [i \in {0} |-> NUL]
  /\ \A b \in Bufs : Good(x, b)
  /\ \A b, c \in Bufs : b # c /\ x.b[b].buf = x.b[c].buf => x.b[b].buf = 0

\* From x to y at most buffer b has changed, and its block, which may have moved.
Only(x, y, b) ==
  /\ y = [blk |-> y.blk, b |-> y.b]
  /\ y.b \in [Bufs -> Struct]
  /\ \A c \in Bufs \ {b} : y.b[c] = x.b[c]
  /\ y.b[b].buf \in {0, x.b[b].buf} \/ y.b[b].buf \notin DOMAIN x.blk
  /\ DOMAIN y.blk = (DOMAIN x.blk \ ({x.b[b].buf} \ {0})) \cup {y.b[b].buf}
  /\ \A q \in DOMAIN x.blk \ {x.b[b].buf} : y.blk[q] = x.blk[q]
  /\ y.blk[0] = x.blk[0]

\* The blocks that are neither a buffer's nor buf_initial are those of h.
Rest(x, h) ==
  /\ h \subseteq DOMAIN x.blk \ {0}
  /\ \A b \in Bufs : x.b[b].buf \notin h
  /\ \A p \in DOMAIN x.blk \ {0} : p \in h \/ \E b \in Bufs : x.b[b].buf = p

\* The text of a buffer, cell by cell, and the null behind it.
Spells(x, b, t) == x.b[b].len = Len(t) /\ \A i \in 1 .. Len(t) : Block(x, b)[i - 1] = t[i]
Ends(x, b) == Block(x, b)[x.b[b].len] = NUL

-----------------------------------------------------------------------------
(* What a change of one buffer leaves alone *)

\* The other buffers keep their struct and their block.
LEMMA OnlyOther ==
  ASSUME NEW x, Memory(x), NEW b \in Bufs, NEW y, Only(x, y, b), NEW c \in Bufs, c # b
  PROVE  y.b[c] = x.b[c] /\ Block(y, c) = Block(x, c) /\ Good(y, c)
<1>1. y.b[c] = x.b[c]
  BY DEF Only
<1>2. x.b[c].buf \in DOMAIN x.blk /\ Good(x, c)
  BY DEF Memory, Good
<1>3. Block(y, c) = Block(x, c) /\ x.b[c].buf \in DOMAIN y.blk
  <2>1. CASE x.b[c].buf = 0
    BY <1>1, <2>1 DEF Only, Block, Memory
  <2>2. CASE x.b[c].buf # 0
    <3>1. x.b[c].buf # x.b[b].buf
      BY <2>2 DEF Memory
    <3>. QED
      BY <1>1, <1>2, <3>1 DEF Only, Block
  <2>. QED
    BY <2>1, <2>2
<1>. QED
  BY <1>1, <1>2, <1>3 DEF Good

\* At most buffer b has changed, as long as nothing has.
LEMMA OnlySelf ==
  ASSUME NEW x, Memory(x), NEW b \in Bufs
  PROVE  Only(x, x, b)
<1>1. x.b[b].buf \in DOMAIN x.blk /\ 0 \in DOMAIN x.blk
  BY DEF Memory, Good
<1>. QED
  BY <1>1 DEF Only, Memory

\* Memory stays in order when the buffer that changes does.
LEMMA OnlyMemory ==
  ASSUME NEW x, Memory(x), NEW b \in Bufs, NEW y, Only(x, y, b), Good(y, b)
  PROVE  Memory(y)
<1>1. IsFiniteSet(DOMAIN y.blk) /\ DOMAIN y.blk \subseteq Nat
  <2>. DEFINE D == DOMAIN x.blk \ ({x.b[b].buf} \ {0})
  <2>1. D \in SUBSET (DOMAIN x.blk) /\ IsFiniteSet(DOMAIN x.blk)
    BY DEF Memory
  <2>2. IsFiniteSet(D)
    BY <2>1, FS_Subset
  <2>3. IsFiniteSet(D \cup {y.b[b].buf})
    BY <2>2, FS_AddElement
  <2>4. y.b[b].buf \in Nat
    BY DEF Only, Struct
  <2>. QED
    BY <2>3, <2>4 DEF Only, Memory
<1>2. 0 \in DOMAIN y.blk /\ y.blk[0] = [i \in {0} |-> NUL]
  BY DEF Only, Memory
<1>3. \A c \in Bufs : Good(y, c)
  BY OnlyOther
<1>4. ASSUME NEW c \in Bufs, c # b, y.b[b].buf = y.b[c].buf
      PROVE  y.b[b].buf = 0
  <2>1. y.b[c] = x.b[c]
    BY <1>4 DEF Only
  <2>2. x.b[c].buf \in DOMAIN x.blk
    BY DEF Memory, Good
  <2>. QED
    BY <1>4, <2>1, <2>2 DEF Only, Memory
<1>5. \A c, d \in Bufs : c # d /\ y.b[c].buf = y.b[d].buf => y.b[c].buf = 0
  <2>1. \A c \in Bufs \ {b} : y.b[c] = x.b[c]
    BY DEF Only
  <2>2. \A c, d \in Bufs : c # d /\ x.b[c].buf = x.b[d].buf => x.b[c].buf = 0
    BY DEF Memory
  <2>. QED
    BY <1>4, <2>1, <2>2
<1>. QED
  BY <1>1, <1>2, <1>3, <1>5 DEF Memory, Only

\* No block is lost, and none that was given away is taken back.
LEMMA OnlyRest ==
  ASSUME NEW x, Memory(x), NEW b \in Bufs, NEW y, Only(x, y, b), NEW h, Rest(x, h)
  PROVE  Rest(y, h)
<1>1. x.b[b].buf \notin h /\ y.b[b].buf \notin h
  BY DEF Only, Rest
<1>2. h \subseteq DOMAIN y.blk \ {0}
  BY <1>1 DEF Only, Rest
<1>3. \A c \in Bufs : y.b[c].buf \notin h
  BY <1>1 DEF Only, Rest
<1>4. ASSUME NEW p \in DOMAIN y.blk \ {0}, p \notin h
      PROVE  \E c \in Bufs : y.b[c].buf = p
  <2>1. CASE p = y.b[b].buf
    BY <2>1
  <2>2. CASE p # y.b[b].buf
    <3>1. p \in DOMAIN x.blk \ {0} /\ p # x.b[b].buf
      BY <1>4, <2>2 DEF Only
    <3>2. PICK c \in Bufs : x.b[c].buf = p
      BY <1>4, <3>1, SMTT(20) DEF Rest
    <3>. QED
      BY <3>1, <3>2 DEF Only
  <2>. QED
    BY <2>1, <2>2
<1>. QED
  BY <1>2, <1>3, <1>4 DEF Rest

\* Steps of an operation add up.
LEMMA OnlyTrans ==
  ASSUME NEW x, Memory(x), NEW b \in Bufs, NEW y, Only(x, y, b), NEW z, Only(y, z, b)
  PROVE  Only(x, z, b)
<1>1. \A c \in Bufs \ {b} : z.b[c] = x.b[c]
  BY DEF Only
<1>2. x.b[b].buf \in DOMAIN x.blk
  BY DEF Memory, Good
<1>3. z.b[b].buf \in {0, x.b[b].buf} \/ z.b[b].buf \notin DOMAIN x.blk
  BY DEF Only
<1>4. DOMAIN z.blk = (DOMAIN x.blk \ ({x.b[b].buf} \ {0})) \cup {z.b[b].buf}
  <2>1. 0 \in DOMAIN x.blk
    BY DEF Memory
  <2>. QED
    BY <1>2, <2>1 DEF Only
<1>5. ASSUME NEW q \in DOMAIN x.blk \ {x.b[b].buf}
      PROVE  z.blk[q] = x.blk[q]
  <2>1. CASE q = 0
    BY <2>1 DEF Only
  <2>2. CASE q # 0
    <3>1. q \in DOMAIN y.blk /\ q # y.b[b].buf /\ y.blk[q] = x.blk[q]
      BY <2>2 DEF Only
    <3>. QED
      BY <3>1 DEF Only
  <2>. QED
    BY <2>1, <2>2
<1>. QED
  BY <1>1, <1>3, <1>4, <1>5, Zenon DEF Only

-----------------------------------------------------------------------------
(* The three ways of writing: GROW, Put and changes of the struct *)

\* realloc returns an address that is not in use.
LEMMA FreshIsNew ==
  ASSUME NEW blk, IsFiniteSet(DOMAIN blk), DOMAIN blk \subseteq Nat, 0 \in DOMAIN blk
  PROVE  Fresh(blk) \in Nat \ {0} /\ Fresh(blk) \notin DOMAIN blk
<1>. DEFINE D == DOMAIN blk
            n == Cardinality(D)
            S == 1 .. n \ D
<1>1. n \in Nat
  BY FS_CardinalityType
<1>2. S # {}
  <2>1. SUFFICES ASSUME S = {}
                 PROVE  FALSE
    OBVIOUS
  <2>2. 0 .. n \in SUBSET D
    BY <1>1, <2>1
  <2>3. Cardinality(0 .. n) <= n
    BY <2>2, FS_Subset, Zenon
  <2>4. Cardinality(0 .. n) = n + 1
    BY <1>1, FS_Interval
  <2>. QED
    BY <1>1, <2>3, <2>4
<1>3. S \in SUBSET Nat
  BY <1>1
<1>4. \E k \in S : \A j \in S : k <= j
  BY <1>2, <1>3, LeastNumber, Zenon
<1>5. Min(S) \in S
  BY <1>4 DEF Min
<1>6. Fresh(blk) = Min(S)
  BY DEF Fresh
<1>. QED
  BY <1>1, <1>5, <1>6

\* GROW gives a buffer room, and keeps its text.
LEMMA GrowEffect ==
  ASSUME NEW x, Memory(x), NEW b \in Bufs, NEW n \in Nat, NEW y, y = GROW(x, b, n)
  PROVE  /\ Memory(y) /\ Only(x, y, b)
         /\ y.b[b].alloc >= n /\ y.b[b].alloc >= x.b[b].alloc
         /\ y.b[b].len = x.b[b].len /\ y.b[b].pos = x.b[b].pos
         /\ \A i \in 0 .. x.b[b].len : Block(y, b)[i] = Block(x, b)[i]
<1>. DEFINE r   == x.b[b]
            cur == IF GROW_N(r.alloc) < n THEN n ELSE GROW_N(r.alloc)
            p   == Fresh(x.blk)
            old == IF r.alloc = 0 THEN << >> ELSE x.blk[r.buf]
            mem == [i \in 0 .. cur - 1 |-> IF i \in DOMAIN old THEN old[i] ELSE
                                          IF r.alloc = 0 /\ i = 0 THEN NUL ELSE JUNK]
<1>1. r \in Struct /\ Good(x, b)
  BY DEF Memory
<1>2. CASE n <= r.alloc
  <2>1. y = x
    BY <1>2 DEF GROW
  <2>2. Only(x, x, b)
    BY OnlySelf
  <2>. QED
    BY <1>1, <1>2, <2>1, <2>2 DEF Struct
<1>3. CASE ~(n <= r.alloc)
  <2>1. p \in Nat \ {0} /\ p \notin DOMAIN x.blk
    BY FreshIsNew DEF Memory
  <2>2. cur \in Nat /\ cur >= n /\ cur > r.alloc
    <3>1. GROW_N(r.alloc) \in Nat
      BY <1>1, SizesAssumption DEF GROW_N, Struct
    <3>. QED
      BY <1>1, <1>3, <3>1 DEF Struct
  <2>3. y = [blk |-> [q \in (DOMAIN x.blk \cup {p}) \ ({r.buf} \ {0}) |->
                        IF q = p THEN mem ELSE x.blk[q]],
             b   |-> [x.b EXCEPT ![b].buf = p, ![b].alloc = cur]]
    BY <1>3 DEF GROW
  <2>. HIDE DEF cur, p, mem
  <2>4. /\ y.b \in [Bufs -> Struct] /\ y.b[b].buf = p /\ y.b[b].alloc = cur
        /\ y.b[b].len = r.len /\ y.b[b].pos = r.pos
        /\ \A c \in Bufs \ {b} : y.b[c] = x.b[c]
    BY <1>1, <2>1, <2>2, <2>3 DEF Memory, Struct
  <2>5. /\ DOMAIN y.blk = (DOMAIN x.blk \ ({r.buf} \ {0})) \cup {p}
        /\ y.blk[p] = mem
        /\ \A q \in DOMAIN x.blk \ {r.buf} : y.blk[q] = x.blk[q]
        /\ y.blk[0] = x.blk[0]
    <3>1. r.buf \in DOMAIN x.blk /\ 0 \in DOMAIN x.blk
      BY <1>1 DEF Good, Memory
    <3>. QED
      BY <2>1, <2>3, <3>1
  <2>6. Only(x, y, b)
    BY <2>1, <2>3, <2>4, <2>5 DEF Only
  <2>7. Block(y, b) = mem
    BY <2>4, <2>5 DEF Block
  <2>8. DOMAIN mem = 0 .. cur - 1
    BY DEF mem
  <2>9. r.len < cur /\ r.pos <= r.len
    BY <1>1, <2>2 DEF Good, Size, Struct
  <2>10. Good(y, b)
    <3>1. p \in DOMAIN y.blk
      BY <2>5
    <3>2. cur # 0 /\ Size(y.b[b]) = cur
      BY <1>1, <2>2, <2>4 DEF Size, Struct
    <3>. QED
      BY <2>1, <2>4, <2>7, <2>8, <2>9, <3>1, <3>2 DEF Good
  <2>11. \A i \in 0 .. r.len : mem[i] = Block(x, b)[i]
    <3>1. CASE r.alloc = 0
      <4>1. r.len = 0 /\ Block(x, b) = [i \in {0} |-> NUL]
        BY <1>1, <3>1 DEF Good, Size, Struct, Block, Memory
      <4>2. mem[0] = NUL
        BY <2>2, <3>1 DEF mem
      <4>. QED
        BY <4>1, <4>2
    <3>2. CASE r.alloc # 0
      <4>1. DOMAIN x.blk[r.buf] = 0 .. r.alloc - 1 /\ r.len < r.alloc
        BY <1>1, <3>2 DEF Good, Size, Block
      <4>2. \A i \in 0 .. r.len : i \in DOMAIN x.blk[r.buf] /\ i \in 0 .. cur - 1
        BY <1>1, <2>2, <4>1 DEF Struct
      <4>. QED
        BY <3>2, <4>2 DEF mem, Block
    <3>. QED
      BY <3>1, <3>2
  <2>12. cur >= r.alloc
    BY <1>1, <2>2 DEF Struct
  <2>. QED
    BY <2>2, <2>4, <2>6, <2>7, <2>10, <2>11, <2>12, OnlyMemory
<1>. QED
  BY <1>2, <1>3

\* Only nulls are written into buf_initial.
OnlyNull(x, b, data) == x.b[b].alloc = 0 => \A i \in 1 .. Len(data) : data[i] = NUL

\* From x to y data have been written into the block of b.
Wrote(x, y, b, off, data) ==
  /\ Memory(y) /\ Only(x, y, b) /\ y.b = x.b
  /\ \A i \in 0 .. Size(x.b[b]) - 1 :
       Block(y, b)[i] = IF off <= i /\ i < off + Len(data) THEN data[i - off + 1] ELSE Block(x, b)[i]

\* Writing within the block of a buffer; into buf_initial only a null may go.
LEMMA PutEffect ==
  ASSUME NEW x, Memory(x), NEW b \in Bufs, NEW off \in Nat, NEW data, Len(data) \in Nat,
         off + Len(data) <= Size(x.b[b]),
         OnlyNull(x, b, data), NEW y, y = Put(x, b, off, data)
  PROVE  Wrote(x, y, b, off, data)
<1>. DEFINE r   == x.b[b]
            D   == DOMAIN x.blk[r.buf] \cup (off .. off + Len(data) - 1)
            new == [i \in D |-> IF i \in off .. off + Len(data) - 1 THEN data[i - off + 1] ELSE x.blk[r.buf][i]]
<1>1. r \in Struct /\ Good(x, b)
  BY DEF Memory
<1>2. y = [blk |-> [x.blk EXCEPT ![r.buf] = new], b |-> x.b]
  <2>1. x = [blk |-> x.blk, b |-> x.b]
    BY DEF Memory
  <2>. QED
    BY <2>1 DEF Put, Store
<1>3. Len(data) \in Nat
  OBVIOUS
<1>4. Size(r) \in Nat \ {0}
  BY <1>1 DEF Size, Struct
<1>5. D = 0 .. Size(r) - 1
  BY <1>1, <1>3, <1>4 DEF Good, Block
<1>6. \A i \in 0 .. Size(r) - 1 :
        new[i] = IF off <= i /\ i < off + Len(data) THEN data[i - off + 1] ELSE x.blk[r.buf][i]
  BY <1>3, <1>4, <1>5
<1>7. DOMAIN new = 0 .. Size(r) - 1 /\ new = [i \in DOMAIN new |-> new[i]]
  BY <1>5
<1>. HIDE DEF new
<1>8. r.buf = 0 => new = x.blk[0]
  <2>1. SUFFICES ASSUME r.buf = 0
                 PROVE  new = x.blk[0]
    OBVIOUS
  <2>2. r.alloc = 0 /\ Size(r) = 1 /\ x.blk[0] = [i \in {0} |-> NUL]
    BY <1>1, <2>1 DEF Good, Size, Memory
  <2>3. DOMAIN new = {0}
    BY <1>7, <2>2
  <2>4. new[0] = NUL
    <3>1. x.blk[r.buf][0] = NUL
      BY <2>1, <2>2
    <3>2. off <= 0 /\ 0 < off + Len(data) => data[0 - off + 1] = NUL
      BY <1>3, <2>2 DEF OnlyNull
    <3>3. 0 \in 0 .. Size(r) - 1
      BY <2>2
    <3>. QED
      BY <1>6, <3>1, <3>2, <3>3
  <2>5. new = [i \in {0} |-> NUL]
    BY <1>7, <2>3, <2>4, Zenon
  <2>. QED
    BY <2>2, <2>5
<1>9. r.buf \in DOMAIN x.blk
  BY <1>1 DEF Good
<1>10. /\ DOMAIN y.blk = DOMAIN x.blk /\ y.b = x.b /\ y.blk[r.buf] = new
       /\ \A q \in DOMAIN x.blk \ {r.buf} : y.blk[q] = x.blk[q]
  BY <1>2, <1>9
<1>11. Block(y, b) = new
  BY <1>10 DEF Block
<1>12. Only(x, y, b)
  <2>1. y.blk[0] = x.blk[0] /\ 0 \in DOMAIN x.blk
    BY <1>8, <1>10 DEF Memory
  <2>2. y = [blk |-> y.blk, b |-> y.b] /\ y.b \in [Bufs -> Struct]
    BY <1>2 DEF Memory
  <2>. QED
    BY <1>9, <1>10, <2>1, <2>2 DEF Only
<1>13. Good(y, b)
  BY <1>1, <1>7, <1>10, <1>11 DEF Good
<1>. QED
  BY <1>6, <1>10, <1>11, <1>12, <1>13, OnlyMemory DEF Block, Wrote

\* A buffer gets another length and another position.
Set(x, b, len, pos) == [x EXCEPT !.b[b] = [x.b[b] EXCEPT !.len = len, !.pos = pos]]

\* From x to y at most the length and the position of b have changed, to these.
Moved(x, y, b, len, pos) ==
  /\ Memory(y) /\ Only(x, y, b) /\ Block(y, b) = Block(x, b)
  /\ y.b[b].len = len /\ y.b[b].pos = pos /\ y.b[b].alloc = x.b[b].alloc /\ y.b[b].buf = x.b[b].buf

\* Changing the length and the position of a buffer, within its block.
LEMMA StructEffect ==
  ASSUME NEW x, Memory(x), NEW b \in Bufs, NEW len \in Nat, NEW pos \in Nat,
         len < Size(x.b[b]), pos <= len,
         NEW y, y = Set(x, b, len, pos)
  PROVE  Moved(x, y, b, len, pos)
<1>. DEFINE r == [x.b[b] EXCEPT !.len = len, !.pos = pos]
<1>1. x.b[b] \in Struct /\ Good(x, b) /\ x = [blk |-> x.blk, b |-> x.b] /\ x.b \in [Bufs -> Struct]
  BY DEF Memory
<1>2. r \in Struct /\ r.buf = x.b[b].buf /\ r.alloc = x.b[b].alloc /\ r.len = len /\ r.pos = pos
  BY <1>1, Zenon DEF Struct
<1>. HIDE DEF r
<1>3. y = [blk |-> x.blk, b |-> [x.b EXCEPT ![b] = r]]
  BY <1>1 DEF r, Set
<1>4. y.blk = x.blk /\ y.b[b] = r /\ y.b \in [Bufs -> Struct] /\ \A c \in Bufs \ {b} : y.b[c] = x.b[c]
  <2>1. y.blk = x.blk /\ y.b = [x.b EXCEPT ![b] = r]
    BY <1>3
  <2>. QED
    BY <1>1, <1>2, <2>1
<1>5. Block(y, b) = Block(x, b) /\ Size(y.b[b]) = Size(x.b[b])
  BY <1>2, <1>4 DEF Block, Size
<1>6. Good(y, b)
  BY <1>1, <1>2, <1>4, <1>5 DEF Good
<1>7. Only(x, y, b)
  <2>1. x.b[b].buf \in DOMAIN x.blk /\ 0 \in DOMAIN x.blk
    BY <1>1 DEF Good, Memory
  <2>2. y = [blk |-> y.blk, b |-> y.b]
    BY <1>3
  <2>3. DOMAIN y.blk = (DOMAIN x.blk \ ({x.b[b].buf} \ {0})) \cup {y.b[b].buf}
    BY <1>2, <1>4, <2>1
  <2>. QED
    BY <1>2, <1>4, <2>2, <2>3 DEF Only
<1>. QED
  BY <1>2, <1>4, <1>5, <1>6, <1>7, OnlyMemory DEF Moved

-----------------------------------------------------------------------------
(* The operations of buf.c: what they make of the text and the position *)

\* From x to y buffer b alone has changed, and y has this text and position in it.
Leaves(x, y, b, t, p) ==
  Memory(y) /\ Only(x, y, b) /\ Spells(y, b, t) /\ Ends(y, b) /\ y.b[b].pos = p

\* The effect of two steps is that of the second.
LEMMA LeavesTrans ==
  ASSUME NEW x, Memory(x), NEW b \in Bufs, NEW y, Only(x, y, b),
         NEW z, NEW t, NEW p, Leaves(y, z, b, t, p)
  PROVE  Leaves(x, z, b, t, p)
BY OnlyTrans DEF Leaves

\* Facts about a buffer that all the operations need.
LEMMA BufferType ==
  ASSUME NEW x, Memory(x), NEW b \in Bufs
  PROVE  /\ x.b[b] \in Struct /\ Good(x, b)
         /\ x.b[b].len \in Nat /\ x.b[b].pos \in Nat /\ x.b[b].alloc \in Nat
         /\ Size(x.b[b]) \in Nat \ {0} /\ x.b[b].len < Size(x.b[b]) /\ x.b[b].pos <= x.b[b].len
         /\ x.b[b].alloc = 0 => x.b[b].len = 0
<1>1. x.b[b] \in Struct /\ Good(x, b)
  BY DEF Memory
<1>2. x.b[b].len \in Nat /\ x.b[b].pos \in Nat /\ x.b[b].alloc \in Nat
  BY <1>1 DEF Struct
<1>. QED
  BY <1>1, <1>2 DEF Good, Size

\* The text as buf.c's callers see it is the one spelt cell by cell.
LEMMA TextIs ==
  ASSUME NEW x, NEW b \in Bufs, NEW t \in Seq(Bytes), Spells(x, b, t)
  PROVE  Text(x, b) = t
<1>1. \A i \in 1 .. Len(t) : 0 + i - 1 = i - 1
  OBVIOUS
<1>2. Text(x, b) = [i \in 1 .. Len(t) |-> t[i]]
  BY <1>1 DEF Text, Cells, Spells, Block
<1>. QED
  BY <1>2

\* buf_setlen cuts the text, clips the position and ends the text.
LEMMA SetlenEffect ==
  ASSUME NEW x, Memory(x), NEW b \in Bufs, NEW len \in Nat, len < Size(x.b[b]),
         NEW y, y = buf_setlen(x, b, len)
  PROVE  /\ Memory(y) /\ Only(x, y, b) /\ Ends(y, b) /\ y.b[b].len = len
         /\ y.b[b].pos = (IF x.b[b].pos > len THEN len ELSE x.b[b].pos)
         /\ y.b[b].alloc = x.b[b].alloc
         /\ \A i \in 0 .. len - 1 : Block(y, b)[i] = Block(x, b)[i]
<1>. DEFINE n   == Put(x, b, len, <<NUL>>)
            pos == IF x.b[b].pos > len THEN len ELSE x.b[b].pos
<1>1. x.b[b].pos \in Nat /\ Size(x.b[b]) \in Nat
  BY BufferType
<1>2. /\ Memory(n) /\ Only(x, n, b) /\ n.b = x.b
      /\ \A i \in 0 .. Size(x.b[b]) - 1 : Block(n, b)[i] = IF i = len THEN NUL ELSE Block(x, b)[i]
  <2>. DEFINE d == <<NUL>>
  <2>1. Len(d) = 1 /\ \A i \in 1 .. Len(d) : d[i] = NUL
    OBVIOUS
  <2>2. len + Len(d) <= Size(x.b[b])
    BY <1>1, <2>1
  <2>3. n = Put(x, b, len, d)
    OBVIOUS
  <2>0. Len(d) \in Nat /\ OnlyNull(x, b, d)
    BY <2>1 DEF OnlyNull
  <2>. HIDE DEF d, n
  <2>4. Wrote(x, n, b, len, d)
    BY <2>0, <2>2, <2>3, PutEffect
  <2>5. \A i \in Nat : len <= i /\ i < len + Len(d) <=> i = len
    BY <2>1
  <2>6. d[len - len + 1] = NUL
    BY <2>1
  <2>. QED
    BY <1>1, <2>4, <2>5, <2>6 DEF Wrote
<1>3. y = Set(n, b, len, pos)
  BY <1>2, Zenon DEF buf_setlen, Set
<1>4. pos \in Nat /\ pos <= len
  BY <1>1
<1>. HIDE DEF n, pos
<1>5. /\ Memory(y) /\ Only(n, y, b) /\ Block(y, b) = Block(n, b)
      /\ y.b[b].len = len /\ y.b[b].pos = pos /\ y.b[b].alloc = x.b[b].alloc
  <2>1. len < Size(n.b[b])
    BY <1>2
  <2>2. Moved(n, y, b, len, pos)
    BY <1>2, <1>3, <1>4, <2>1, StructEffect
  <2>. QED
    BY <1>2, <2>2 DEF Moved
<1>7. Block(n, b)[len] = NUL
  <2>1. len \in 0 .. Size(x.b[b]) - 1
    BY <1>1
  <2>. QED
    BY <1>2, <2>1
<1>8. \A i \in 0 .. len - 1 : Block(n, b)[i] = Block(x, b)[i]
  BY <1>1, <1>2
<1>9. Only(x, y, b)
  BY <1>2, <1>5, OnlyTrans
<1>. QED
  BY <1>5, <1>7, <1>8, <1>9 DEF Ends, pos

\* The block of a buffer begins with this text.
Starts(x, b, u) == \A i \in 1 .. Len(u) : Block(x, b)[i - 1] = u[i]

\* Text that is written behind a text stands there.
LEMMA PutBehind ==
  ASSUME NEW x, Memory(x), NEW b \in Bufs, NEW t \in Seq(Bytes), Spells(x, b, t),
         NEW s \in Seq(Bytes), Len(t) + Len(s) < Size(x.b[b]), NEW w, Wrote(x, w, b, Len(t), s)
  PROVE  Starts(w, b, t \o s)
<1>1. Size(x.b[b]) \in Nat /\ Len(t) \in Nat /\ Len(s) \in Nat
  BY BufferType
<1>2. Len(t \o s) = Len(t) + Len(s)
  OBVIOUS
<1>3. ASSUME NEW i \in 1 .. Len(t) + Len(s)
      PROVE  Block(w, b)[i - 1] = (t \o s)[i]
  <2>1. i - 1 \in 0 .. Size(x.b[b]) - 1
    BY <1>1
  <2>2. Block(w, b)[i - 1] = IF Len(t) <= i - 1 /\ i - 1 < Len(t) + Len(s) THEN s[(i - 1) - Len(t) + 1]
                             ELSE Block(x, b)[i - 1]
    BY <2>1 DEF Wrote
  <2>3. CASE i \in 1 .. Len(t)
    <3>1. Block(x, b)[i - 1] = t[i] /\ (t \o s)[i] = t[i] /\ ~(Len(t) <= i - 1)
      BY <1>1, <2>3 DEF Spells
    <3>. QED
      BY <2>2, <3>1
  <2>4. CASE ~(i \in 1 .. Len(t))
    <3>1. (i - 1) - Len(t) + 1 = i - Len(t) /\ (t \o s)[i] = s[i - Len(t)] /\ Len(t) <= i - 1 /\ i - 1 < Len(t) + Len(s)
      BY <1>1, <2>4
    <3>. QED
      BY <2>2, <3>1
  <2>. QED
    BY <2>3, <2>4
<1>. QED
  BY <1>2, <1>3 DEF Starts

\* Text that is written behind a text, with room for it and a null, is added to it.
LEMMA AppendEffect ==
  ASSUME NEW x, Memory(x), NEW b \in Bufs, NEW t \in Seq(Bytes), Spells(x, b, t),
         NEW s \in Seq(Bytes), Len(t) + Len(s) < Size(x.b[b]), x.b[b].alloc = 0 => s = << >>,
         NEW y, y = buf_setlen(Put(x, b, x.b[b].len, s), b, x.b[b].len + Len(s))
  PROVE  Leaves(x, y, b, t \o s, x.b[b].pos)
<1>. DEFINE n == Put(x, b, x.b[b].len, s)
<1>1. /\ x.b[b].pos \in Nat /\ Size(x.b[b]) \in Nat /\ x.b[b].len = Len(t) /\ x.b[b].pos <= Len(t)
      /\ Len(t) \in Nat /\ Len(s) \in Nat
  BY BufferType DEF Spells
<1>2. Memory(n) /\ Only(x, n, b) /\ n.b = x.b /\ Starts(n, b, t \o s)
  <2>1. OnlyNull(x, b, s)
    BY DEF OnlyNull
  <2>2. Len(t) + Len(s) <= Size(x.b[b])
    BY <1>1
  <2>3. Wrote(x, n, b, Len(t), s)
    BY <1>1, <2>1, <2>2, PutEffect
  <2>. HIDE DEF n
  <2>4. Starts(n, b, t \o s)
    BY <2>3, PutBehind
  <2>. QED
    BY <2>3, <2>4 DEF Wrote
<1>. HIDE DEF n
<1>3. /\ Memory(y) /\ Only(n, y, b) /\ Ends(y, b) /\ y.b[b].len = Len(t) + Len(s)
      /\ y.b[b].pos = x.b[b].pos
      /\ \A i \in 0 .. Len(t) + Len(s) - 1 : Block(y, b)[i] = Block(n, b)[i]
  <2>1. y = buf_setlen(n, b, Len(t) + Len(s)) /\ Len(t) + Len(s) \in Nat /\ Len(t) + Len(s) < Size(n.b[b])
    BY <1>1, <1>2 DEF n
  <2>2. ~(n.b[b].pos > Len(t) + Len(s))
    BY <1>1, <1>2
  <2>. QED
    BY <1>2, <2>1, <2>2, SetlenEffect
<1>4. Only(x, y, b)
  BY <1>2, <1>3, OnlyTrans, Zenon
<1>5. Len(t \o s) = Len(t) + Len(s)
  OBVIOUS
<1>6. ASSUME NEW i \in 1 .. Len(t) + Len(s)
      PROVE  Block(y, b)[i - 1] = (t \o s)[i]
  <2>1. i - 1 \in 0 .. Len(t) + Len(s) - 1
    BY <1>1
  <2>. QED
    BY <1>2, <1>3, <1>5, <2>1, Zenon DEF Starts
<1>7. Spells(y, b, t \o s)
  BY <1>3, <1>5, <1>6 DEF Spells
<1>. QED
  BY <1>3, <1>4, <1>7, Zenon DEF Leaves

\* From x to y the buffer b, with text t, has got room for more behind it.
Roomy(x, y, b, t, extra) ==
  /\ Memory(y) /\ Only(x, y, b) /\ Spells(y, b, t) /\ y.b[b].pos = x.b[b].pos
  /\ Ends(x, b) => Ends(y, b)
  /\ y.b[b].alloc > x.b[b].len + extra /\ Size(y.b[b]) = y.b[b].alloc
  /\ y.b[b].len = x.b[b].len

\* buf_grow keeps the text and makes room behind it.
LEMMA BufGrowEffect ==
  ASSUME NEW x, Memory(x), NEW b \in Bufs, NEW t, Spells(x, b, t), NEW extra \in Nat,
         NEW y, y = buf_grow(x, b, extra)
  PROVE  Roomy(x, y, b, t, extra)
<1>1. x.b[b].len \in Nat /\ x.b[b].len + extra + 1 \in Nat
  BY BufferType
<1>2. y = GROW(x, b, x.b[b].len + extra + 1)
  BY DEF buf_grow
<1>3. /\ Memory(y) /\ Only(x, y, b) /\ y.b[b].alloc >= x.b[b].len + extra + 1
      /\ y.b[b].len = x.b[b].len /\ y.b[b].pos = x.b[b].pos
      /\ \A i \in 0 .. x.b[b].len : Block(y, b)[i] = Block(x, b)[i]
  <2>. DEFINE w == x.b[b].len + extra + 1
  <2>1. w \in Nat /\ y = GROW(x, b, w)
    BY <1>1, <1>2
  <2>. HIDE DEF w
  <2>2. /\ Memory(y) /\ Only(x, y, b) /\ y.b[b].alloc >= w
        /\ y.b[b].len = x.b[b].len /\ y.b[b].pos = x.b[b].pos
        /\ \A i \in 0 .. x.b[b].len : Block(y, b)[i] = Block(x, b)[i]
    BY <2>1, GrowEffect
  <2>. QED
    BY <2>2 DEF w
<1>4. y.b[b].alloc \in Nat
  BY <1>3, BufferType
<1>5. y.b[b].alloc > x.b[b].len + extra /\ Size(y.b[b]) = y.b[b].alloc
  BY <1>1, <1>3, <1>4 DEF Size
<1>6. \A i \in 1 .. x.b[b].len : i - 1 \in 0 .. x.b[b].len
  BY <1>1
<1>7. Spells(y, b, t)
  BY <1>3, <1>6 DEF Spells
<1>8. Ends(x, b) => Ends(y, b)
  BY <1>1, <1>3 DEF Ends
<1>. QED
  BY <1>3, <1>5, <1>7, <1>8 DEF Roomy

\* What leaves memory as it is leaves the buffer's text.
LEMMA NoEffect ==
  ASSUME NEW x, Memory(x), NEW b \in Bufs, NEW t, Spells(x, b, t), Ends(x, b)
  PROVE  Leaves(x, x, b, t, x.b[b].pos)
BY OnlySelf DEF Leaves

\* buf_release leaves an empty buffer without a block.
LEMMA ReleaseEffect ==
  ASSUME NEW x, Memory(x), NEW b \in Bufs, x.b[b].alloc # 0, NEW y, y = buf_release(x, b)
  PROVE  Leaves(x, y, b, << >>, 0)
<1>. DEFINE r == x.b[b]
<1>1. r.buf \in DOMAIN x.blk /\ r.buf # 0 /\ 0 \in DOMAIN x.blk /\ x.blk[0] = [i \in {0} |-> NUL]
  BY DEF Memory, Good
<1>2. y = [blk |-> [q \in DOMAIN x.blk \ {r.buf} |-> x.blk[q]], b |-> [x.b EXCEPT ![b] = Empty]]
  <2>. DEFINE z == [x EXCEPT !.blk = [q \in DOMAIN @ \ {r.buf} |-> @[q]]]
  <2>1. x = [blk |-> x.blk, b |-> x.b]
    BY DEF Memory
  <2>2. z = [blk |-> [q \in DOMAIN x.blk \ {r.buf} |-> x.blk[q]], b |-> x.b]
    BY <2>1
  <2>3. y = buf_init(z, b, 0)
    BY DEF buf_release
  <2>. HIDE DEF z
  <2>4. y = [z EXCEPT !.b[b] = Empty]
    BY <2>3 DEF buf_init
  <2>. QED
    BY <2>2, <2>4
<1>3. Empty \in Struct /\ Empty.buf = 0 /\ Empty.alloc = 0 /\ Empty.len = 0 /\ Empty.pos = 0
  BY DEF Empty, Struct
<1>4. /\ y.b \in [Bufs -> Struct] /\ y.b[b] = Empty /\ \A c \in Bufs \ {b} : y.b[c] = x.b[c]
      /\ DOMAIN y.blk = DOMAIN x.blk \ {r.buf}
      /\ \A q \in DOMAIN x.blk \ {r.buf} : y.blk[q] = x.blk[q]
  <2>1. y.b = [x.b EXCEPT ![b] = Empty] /\ x.b \in [Bufs -> Struct]
    BY <1>2 DEF Memory
  <2>2. y.blk = [q \in DOMAIN x.blk \ {r.buf} |-> x.blk[q]]
    BY <1>2
  <2>. QED
    BY <1>3, <2>1, <2>2
<1>5. Only(x, y, b)
  <2>1. y = [blk |-> y.blk, b |-> y.b]
    BY <1>2
  <2>2. DOMAIN y.blk = (DOMAIN x.blk \ ({r.buf} \ {0})) \cup {y.b[b].buf}
    BY <1>1, <1>3, <1>4
  <2>. QED
    BY <1>1, <1>3, <1>4, <2>1, <2>2 DEF Only
<1>6. Block(y, b) = [i \in {0} |-> NUL]
  BY <1>1, <1>3, <1>4 DEF Block
<1>7. Good(y, b)
  <2>1. Size(y.b[b]) = 1 /\ 0 .. 1 - 1 = {0}
    BY <1>3, <1>4 DEF Size
  <2>2. 0 \in DOMAIN y.blk
    BY <1>1, <1>4
  <2>. QED
    BY <1>3, <1>4, <1>6, <2>1, <2>2 DEF Good
<1>8. Spells(y, b, << >>) /\ Ends(y, b) /\ y.b[b].pos = 0
  BY <1>3, <1>4, <1>6 DEF Spells, Ends
<1>. QED
  BY <1>5, <1>7, <1>8, OnlyMemory DEF Leaves

\* buf_add appends.
LEMMA AddEffect ==
  ASSUME NEW x, Memory(x), NEW b \in Bufs, NEW t \in Seq(Bytes), Spells(x, b, t),
         NEW s \in Seq(Bytes), NEW y, y = buf_add(x, b, s)
  PROVE  Leaves(x, y, b, t \o s, x.b[b].pos)
<1>. DEFINE n == buf_grow(x, b, Len(s))
<1>1. /\ Memory(n) /\ Only(x, n, b) /\ Spells(n, b, t) /\ n.b[b].pos = x.b[b].pos
      /\ n.b[b].alloc > x.b[b].len + Len(s) /\ Size(n.b[b]) = n.b[b].alloc
  BY BufGrowEffect DEF Roomy
<1>2. y = buf_setlen(Put(n, b, n.b[b].len, s), b, n.b[b].len + Len(s))
  BY DEF buf_add
<1>. HIDE DEF n
<1>3. Len(t) + Len(s) < Size(n.b[b]) /\ n.b[b].alloc # 0
  <2>1. x.b[b].len = Len(t) /\ n.b[b].alloc \in Nat
    BY <1>1, BufferType DEF Spells
  <2>. QED
    BY <1>1, <2>1
<1>4. Leaves(n, y, b, t \o s, n.b[b].pos)
  BY <1>1, <1>2, <1>3, AppendEffect
<1>. QED
  BY <1>1, <1>4, LeavesTrans

\* buf_fread appends what it is given; when that is nothing it takes back the
\* allocation it made.
LEMMA FreadEffect ==
  ASSUME NEW x, Memory(x), NEW b \in Bufs, NEW t \in Seq(Bytes), Spells(x, b, t), Ends(x, b),
         NEW s \in Seq(Bytes), NEW size \in Nat, Len(s) <= size, NEW y, y = buf_fread(x, b, size, s)
  PROVE  Leaves(x, y, b, t \o s, x.b[b].pos)
<1>. DEFINE n == buf_grow(x, b, size)
<1>1. /\ Memory(n) /\ Only(x, n, b) /\ Spells(n, b, t) /\ n.b[b].pos = x.b[b].pos /\ Ends(n, b)
      /\ n.b[b].alloc > x.b[b].len + size /\ Size(n.b[b]) = n.b[b].alloc
  BY BufGrowEffect DEF Roomy
<1>2. y = IF s # << >> THEN buf_setlen(Put(n, b, n.b[b].len, s), b, n.b[b].len + Len(s))
          ELSE IF x.b[b].alloc = 0 THEN buf_release(n, b) ELSE n
  BY DEF buf_fread
<1>. HIDE DEF n
<1>3. x.b[b].len = Len(t) /\ n.b[b].alloc \in Nat /\ x.b[b].alloc \in Nat /\ Len(t) \in Nat /\ Len(s) \in Nat
  BY <1>1, BufferType DEF Spells
<1>4. Len(t) + Len(s) < Size(n.b[b]) /\ n.b[b].alloc # 0
  BY <1>1, <1>3
<1>5. CASE s # << >>
  <2>1. y = buf_setlen(Put(n, b, n.b[b].len, s), b, n.b[b].len + Len(s))
    BY <1>2, <1>5
  <2>2. Leaves(n, y, b, t \o s, n.b[b].pos)
    BY <1>1, <1>4, <2>1, AppendEffect
  <2>. QED
    BY <1>1, <2>2, LeavesTrans
<1>6. CASE s = << >> /\ x.b[b].alloc = 0
  <2>1. x.b[b].len = 0 /\ x.b[b].pos = 0
    BY <1>6, BufferType
  <2>2. t \o s = << >>
    <3>1. t = << >>
      BY <1>3, <2>1, EmptySeq, Zenon
    <3>. QED
      BY <1>6, <3>1
  <2>3. y = buf_release(n, b)
    BY <1>2, <1>6
  <2>4. Leaves(n, y, b, << >>, 0)
    BY <1>1, <1>4, <2>3, ReleaseEffect
  <2>. QED
    BY <1>1, <2>1, <2>2, <2>4, LeavesTrans
<1>7. CASE s = << >> /\ x.b[b].alloc # 0
  <2>1. t \o s = t /\ y = n
    BY <1>2, <1>7
  <2>. QED
    BY <1>1, <2>1 DEF Leaves
<1>. QED
  BY <1>5, <1>6, <1>7

\* buf_setlen makes what is in the block the text of the buffer.
LEMMA CutEffect ==
  ASSUME NEW x, Memory(x), NEW b \in Bufs, NEW w, Memory(w), Only(x, w, b),
         NEW u \in Seq(Bytes), Len(u) < Size(w.b[b]), Starts(w, b, u),
         NEW y, y = buf_setlen(w, b, Len(u))
  PROVE  Leaves(x, y, b, u, IF w.b[b].pos > Len(u) THEN Len(u) ELSE w.b[b].pos)
<1>1. Len(u) \in Nat
  OBVIOUS
<1>2. /\ Memory(y) /\ Only(w, y, b) /\ Ends(y, b) /\ y.b[b].len = Len(u)
      /\ y.b[b].pos = (IF w.b[b].pos > Len(u) THEN Len(u) ELSE w.b[b].pos)
      /\ \A i \in 0 .. Len(u) - 1 : Block(y, b)[i] = Block(w, b)[i]
  BY <1>1, SetlenEffect
<1>3. \A i \in 1 .. Len(u) : i - 1 \in 0 .. Len(u) - 1
  BY <1>1
<1>4. Spells(y, b, u)
  BY <1>2, <1>3 DEF Spells, Starts
<1>5. Only(x, y, b)
  BY <1>2, OnlyTrans
<1>. QED
  BY <1>2, <1>4, <1>5 DEF Leaves

\* A null behind a text does not change the text.
LEMMA WithNull ==
  ASSUME NEW s \in Seq(Bytes), NEW d, d = s \o <<NUL>>
  PROVE  /\ Len(d) \in Nat /\ Len(d) = Len(s) + 1 /\ d[Len(s) + 1] = NUL
         /\ \A i \in 1 .. Len(s) : d[i] = s[i]
<1>1. s \in Seq(Bytes \cup {NUL}) /\ <<NUL>> \in Seq(Bytes \cup {NUL})
  BY SeqMonotonic
<1>2. Len(<<NUL>>) = 1 /\ <<NUL>>[1] = NUL /\ Len(s) \in Nat
  OBVIOUS
<1>3. Len(d) = Len(s) + 1
  BY <1>1, <1>2, ConcatProperties
<1>4. \A i \in 1 .. Len(s) + 1 : d[i] = IF i <= Len(s) THEN s[i] ELSE <<NUL>>[i - Len(s)]
  BY <1>1, <1>2, ConcatProperties
<1>5. Len(s) + 1 - Len(s) = 1 /\ ~(Len(s) + 1 <= Len(s)) /\ Len(s) + 1 \in 1 .. Len(s) + 1
  BY <1>2
<1>. QED
  BY <1>2, <1>3, <1>4, <1>5

\* From x to w the block of b has got s and a null behind t.
Continued(x, w, b, t, s) ==
  /\ Memory(w) /\ Only(x, w, b) /\ w.b = x.b /\ Starts(w, b, t \o s)
  /\ Block(w, b)[Len(t) + Len(s)] = NUL

\* Text and a null that are written behind a text stand there.
LEMMA PutText ==
  ASSUME NEW x, Memory(x), NEW b \in Bufs, NEW t \in Seq(Bytes), Spells(x, b, t),
         NEW s \in Seq(Bytes), Len(t) + Len(s) < x.b[b].alloc,
         NEW w, w = Put(x, b, x.b[b].len, s \o <<NUL>>)
  PROVE  Continued(x, w, b, t, s)
<1>. DEFINE d == s \o <<NUL>>
            k == Len(t)
<1>1. /\ k \in Nat /\ x.b[b].len = k /\ Size(x.b[b]) = x.b[b].alloc
      /\ x.b[b].alloc \in Nat /\ x.b[b].alloc # 0 /\ Len(s) \in Nat
  <2>1. x.b[b].alloc \in Nat /\ x.b[b].len = Len(t)
    BY BufferType DEF Spells
  <2>. QED
    BY <2>1 DEF Size
<1>2. Len(d) \in Nat /\ Len(d) = Len(s) + 1 /\ d[Len(s) + 1] = NUL /\ \A i \in 1 .. Len(s) : d[i] = s[i]
  BY WithNull
<1>3. w = Put(x, b, k, d)
  BY <1>1
<1>4. \A i \in 1 .. k : Block(x, b)[i - 1] = t[i]
  BY DEF Spells
<1>5. \A i \in 1 .. k + Len(s) : (t \o s)[i] = IF i <= k THEN t[i] ELSE s[i - k]
  BY ConcatProperties
<1>6. Len(t \o s) = k + Len(s) /\ k + Len(s) < x.b[b].alloc
  OBVIOUS
<1>. HIDE DEF d, k
<1>7. OnlyNull(x, b, d)
  BY <1>1 DEF OnlyNull
<1>8. k + Len(d) <= Size(x.b[b])
  BY <1>1, <1>2, <1>6
<1>9. Wrote(x, w, b, k, d)
  BY <1>1, <1>2, <1>3, <1>7, <1>8, PutEffect
<1>10. ASSUME NEW i \in 1 .. k + Len(s)
       PROVE  Block(w, b)[i - 1] = (t \o s)[i]
  <2>1. i - 1 \in 0 .. Size(x.b[b]) - 1
    BY <1>1, <1>6
  <2>2. Block(w, b)[i - 1] = IF k <= i - 1 /\ i - 1 < k + Len(d) THEN d[i - 1 - k + 1] ELSE Block(x, b)[i - 1]
    BY <1>9, <2>1 DEF Wrote
  <2>3. CASE i <= k
    <3>1. ~(k <= i - 1) /\ i \in 1 .. k
      BY <1>1, <2>3
    <3>. QED
      BY <1>4, <1>5, <2>2, <2>3, <3>1, Zenon
  <2>4. CASE ~(i <= k)
    <3>1. k <= i - 1 /\ i - 1 < k + Len(d) /\ i - 1 - k + 1 = i - k /\ i - k \in 1 .. Len(s)
      BY <1>1, <1>2, <2>4
    <3>. QED
      BY <1>2, <1>5, <2>2, <2>4, <3>1, Zenon
  <2>. QED
    BY <2>3, <2>4, Zenon
<1>11. Block(w, b)[k + Len(s)] = NUL
  <2>. DEFINE j == k + Len(s)
  <2>1. j \in 0 .. Size(x.b[b]) - 1 /\ k <= j /\ j < k + Len(d) /\ j - k + 1 = Len(s) + 1
    BY <1>1, <1>2, <1>6
  <2>. HIDE DEF j
  <2>2. Block(w, b)[j] = d[j - k + 1]
    BY <1>9, <2>1 DEF Wrote
  <2>3. Block(w, b)[j] = NUL
    BY <1>2, <2>1, <2>2
  <2>. QED
    BY <2>3 DEF j
<1>. QED
  BY <1>6, <1>9, <1>10, <1>11, Zenon DEF Wrote, Starts, k, Continued

\* buf_addch appends a character.
LEMMA AddchEffect ==
  ASSUME NEW x, Memory(x), NEW b \in Bufs, NEW t \in Seq(Bytes), Spells(x, b, t),
         NEW c \in Bytes, NEW y, y = buf_addch(x, b, c)
  PROVE  Leaves(x, y, b, Append(t, c), x.b[b].pos)
<1>. DEFINE n == buf_grow(x, b, 1)
            s == <<c>>
            w == Put(n, b, n.b[b].len, s \o <<NUL>>)
<1>1. /\ Memory(n) /\ Only(x, n, b) /\ Spells(n, b, t) /\ n.b[b].pos = x.b[b].pos
      /\ n.b[b].alloc > x.b[b].len + 1 /\ Size(n.b[b]) = n.b[b].alloc
  BY BufGrowEffect DEF Roomy
<1>2. s \in Seq(Bytes) /\ Len(s) = 1 /\ s \o <<NUL>> = <<c, NUL>> /\ t \o s = Append(t, c)
  <2>1. s \in Seq(Bytes) /\ Len(s) = 1 /\ t \o s = Append(t, c)
    BY AppendIsConcat
  <2>2. s \in Seq(Bytes \cup {NUL}) /\ NUL \in Bytes \cup {NUL}
    OBVIOUS
  <2>3. s \o <<NUL>> = Append(s, NUL)
    BY <2>2, AppendIsConcat
  <2>4. Append(s, NUL) = <<c, NUL>>
    <3>. DEFINE S == Bytes \cup {NUL}
                a == Append(s, NUL)
                d == <<c, NUL>>
    <3>1. a \in Seq(S) /\ Len(a) = Len(s) + 1 /\ a[Len(s) + 1] = NUL /\ \A i \in 1 .. Len(s) : a[i] = s[i]
      BY <2>2, AppendProperties
    <3>2. d \in Seq(S) /\ Len(d) = 2 /\ d[1] = c /\ d[2] = NUL
      OBVIOUS
    <3>3. Len(s) = 1 /\ s[1] = c
      OBVIOUS
    <3>. HIDE DEF S, a, d, s
    <3>4. Len(a) = 2 /\ a[1] = c /\ a[2] = NUL
      BY <3>1, <3>3
    <3>5. \A i \in 1 .. Len(a) : a[i] = d[i]
      BY <3>2, <3>4
    <3>6. a = d
      BY <3>1, <3>2, <3>4, <3>5, SeqEqual
    <3>. QED
      BY <3>6 DEF a, d
  <2>. QED
    BY <2>1, <2>3, <2>4, Zenon
<1>3. y = [w EXCEPT !.b[b].len = @ + 1]
  BY <1>2, Zenon DEF buf_addch
<1>. HIDE DEF n, s
<1>4. /\ x.b[b].len = Len(t) /\ n.b[b].len = Len(t) /\ Len(t) \in Nat /\ n.b[b].alloc \in Nat
      /\ n.b[b].pos \in Nat /\ n.b[b].pos <= Len(t)
  BY <1>1, BufferType DEF Spells
<1>5. Len(t) + Len(s) < n.b[b].alloc
  BY <1>1, <1>2, <1>4
<1>6. Memory(w) /\ Only(n, w, b) /\ w.b = n.b /\ Starts(w, b, t \o s) /\ Block(w, b)[Len(t) + Len(s)] = NUL
  <2>1. w = Put(n, b, n.b[b].len, s \o <<NUL>>)
    OBVIOUS
  <2>. HIDE DEF w
  <2>2. Continued(n, w, b, t, s)
    BY <1>1, <1>2, <1>5, <2>1, PutText
  <2>. QED
    BY <2>2 DEF Continued
<1>. HIDE DEF w
<1>7. y = Set(w, b, Len(t) + 1, n.b[b].pos)
  <2>1. w.b[b] \in Struct
    BY <1>6, BufferType
  <2>2. w.b[b].len = Len(t) /\ w.b[b].pos = n.b[b].pos
    BY <1>4, <1>6
  <2>3. [w.b[b] EXCEPT !.len = Len(t) + 1, !.pos = n.b[b].pos] = [w.b[b] EXCEPT !.len = Len(t) + 1]
    BY <2>1, <2>2, Zenon DEF Struct
  <2>. QED
    BY <1>3, <2>2, <2>3 DEF Set
<1>8. Len(t) + 1 \in Nat /\ Len(t) + 1 < Size(w.b[b]) /\ n.b[b].pos <= Len(t) + 1
  BY <1>1, <1>2, <1>4, <1>5, <1>6
<1>9. /\ Memory(y) /\ Only(w, y, b) /\ Block(y, b) = Block(w, b)
      /\ y.b[b].len = Len(t) + 1 /\ y.b[b].pos = n.b[b].pos
  <2>1. Moved(w, y, b, Len(t) + 1, n.b[b].pos)
    BY <1>4, <1>6, <1>7, <1>8, StructEffect
  <2>. QED
    BY <2>1 DEF Moved
<1>10. Spells(y, b, Append(t, c))
  <2>1. Len(t \o s) = Len(t) + 1
    BY <1>2
  <2>. QED
    BY <1>2, <1>6, <1>9, <2>1 DEF Spells, Starts
<1>11. Ends(y, b)
  BY <1>2, <1>6, <1>9 DEF Ends
<1>12. Only(x, y, b)
  <2>1. Only(x, w, b)
    BY <1>1, <1>6, OnlyTrans
  <2>. QED
    BY <1>9, <2>1, OnlyTrans
<1>. QED
  BY <1>1, <1>9, <1>10, <1>11, <1>12 DEF Leaves

\* buf_setlen cuts the text.
LEMMA SetlenText ==
  ASSUME NEW x, Memory(x), NEW b \in Bufs, NEW t \in Seq(Bytes), Spells(x, b, t),
         NEW k \in 0 .. Len(t), NEW y, y = buf_setlen(x, b, k)
  PROVE  Leaves(x, y, b, SubSeq(t, 1, k), IF x.b[b].pos > k THEN k ELSE x.b[b].pos)
<1>. DEFINE u == SubSeq(t, 1, k)
<1>1. k \in Nat /\ k <= Len(t) /\ Len(t) \in Nat
  OBVIOUS
<1>2. u \in Seq(Bytes) /\ Len(u) = k /\ \A i \in 1 .. k : u[i] = t[i]
  <2>1. \A i \in 1 .. k : t[i] \in Bytes /\ 1 + i - 1 = i
    BY <1>1, ElementOfSeq
  <2>2. /\ u \in Seq(Bytes) /\ Len(u) = (IF 1 <= k THEN k - 1 + 1 ELSE 0)
        /\ \A i \in 1 .. k - 1 + 1 : u[i] = t[1 + i - 1]
    BY <1>1, <2>1, SubSeqProperties
  <2>3. k - 1 + 1 = k /\ (~(1 <= k) => k = 0)
    BY <1>1
  <2>. QED
    BY <2>1, <2>2, <2>3
<1>3. Size(x.b[b]) \in Nat /\ x.b[b].len = Len(t) /\ x.b[b].len < Size(x.b[b])
  BY BufferType DEF Spells
<1>. HIDE DEF u
<1>4. Starts(x, b, u) /\ Len(u) < Size(x.b[b])
  BY <1>1, <1>2, <1>3 DEF Starts, Spells
<1>5. Only(x, x, b)
  BY OnlySelf
<1>6. y = buf_setlen(x, b, Len(u))
  BY <1>2
<1>7. Leaves(x, y, b, u, IF x.b[b].pos > Len(u) THEN Len(u) ELSE x.b[b].pos)
  BY <1>2, <1>4, <1>5, <1>6, CutEffect
<1>. QED
  BY <1>2, <1>7 DEF u

\* From x to w as much of s as there is room for has come behind t.
Printed(x, w, b, t, s) ==
  \E u \in Seq(Bytes) : Continued(x, w, b, t, u) /\ (Len(t) + Len(s) < x.b[b].alloc => u = s)

\* vsnprintf writes behind the text all that there is room for.
LEMMA VsnprintfEffect ==
  ASSUME NEW x, Memory(x), NEW b \in Bufs, NEW t \in Seq(Bytes), Spells(x, b, t), x.b[b].alloc # 0,
         NEW s \in Seq(Bytes), NEW w, w = vsnprintf(x, b, s)
  PROVE  Printed(x, w, b, t, s)
<1>. DEFINE room == x.b[b].alloc - x.b[b].len - 1
            k    == IF Len(s) < room THEN Len(s) ELSE room
            u    == SubSeq(s, 1, k)
<1>1. /\ x.b[b].len = Len(t) /\ x.b[b].alloc \in Nat /\ x.b[b].len < x.b[b].alloc
      /\ Len(t) \in Nat /\ Len(s) \in Nat
  <2>1. x.b[b].len = Len(t) /\ x.b[b].alloc \in Nat /\ x.b[b].len < Size(x.b[b])
    BY BufferType DEF Spells
  <2>. QED
    BY <2>1 DEF Size
<1>2. k \in Nat /\ k <= Len(s) /\ Len(t) + k < x.b[b].alloc /\ (Len(t) + Len(s) < x.b[b].alloc => k = Len(s))
  BY <1>1, SMTT(30)
<1>3. w = Put(x, b, x.b[b].len, u \o <<NUL>>)
  BY DEF vsnprintf
<1>. HIDE DEF k
<1>4. u \in Seq(Bytes) /\ Len(u) = k
  <2>1. \A i \in 1 .. k : s[i] \in Bytes
    BY <1>1, <1>2, ElementOfSeq
  <2>2. u \in Seq(Bytes) /\ Len(u) = (IF 1 <= k THEN k - 1 + 1 ELSE 0)
    BY <1>2, <2>1, SubSeqProperties
  <2>. QED
    BY <1>2, <2>2
<1>5. Len(t) + Len(s) < x.b[b].alloc => u = s
  BY <1>2, SubSeqFull
<1>. HIDE DEF u
<1>6. Len(t) + Len(u) < x.b[b].alloc
  BY <1>2, <1>4
<1>7. Continued(x, w, b, t, u)
  BY <1>3, <1>4, <1>6, PutText, Zenon
<1>. QED
  BY <1>4, <1>5, <1>7 DEF Printed

\* What stands behind a text does not change the text.
LEMMA ContinuedSpells ==
  ASSUME NEW x, NEW b \in Bufs, NEW t \in Seq(Bytes), Spells(x, b, t),
         NEW s \in Seq(Bytes), NEW w, Continued(x, w, b, t, s)
  PROVE  Spells(w, b, t)
<1>1. Len(t) \in Nat /\ Len(s) \in Nat /\ Len(t \o s) = Len(t) + Len(s) /\ w.b = x.b /\ Starts(w, b, t \o s)
  BY DEF Continued
<1>2. \A i \in 1 .. Len(t) : (t \o s)[i] = t[i] /\ i \in 1 .. Len(t) + Len(s)
  BY <1>1
<1>. QED
  BY <1>1, <1>2 DEF Spells, Starts

\* buf_vaddf appends, whether the first vsnprintf had enough room or not.
LEMMA VaddfEffect ==
  ASSUME NEW x, Memory(x), NEW b \in Bufs, NEW t \in Seq(Bytes), Spells(x, b, t),
         NEW s \in Seq(Bytes), NEW y, y = buf_vaddf(x, b, s)
  PROVE  Leaves(x, y, b, t \o s, x.b[b].pos)
<1>. DEFINE n == IF buf_avail(x, b) = 0 THEN buf_grow(x, b, ADDF) ELSE x
            o == vsnprintf(n, b, s)
            v == IF Len(s) > buf_avail(o, b) THEN vsnprintf(buf_grow(o, b, Len(s)), b, s) ELSE o
<1>1. /\ x.b[b].len = Len(t) /\ x.b[b].alloc \in Nat /\ x.b[b].len < Size(x.b[b])
      /\ Len(t) \in Nat /\ Len(s) \in Nat /\ Len(t \o s) = Len(t) + Len(s) /\ t \o s \in Seq(Bytes)
      /\ x.b[b].pos <= Len(t) /\ x.b[b].pos \in Nat
  BY BufferType DEF Spells
<1>2. y = buf_setlen(v, b, o.b[b].len + Len(s))
  BY SMTT(20) DEF buf_vaddf
<1>3. Memory(n) /\ Only(x, n, b) /\ Spells(n, b, t) /\ n.b[b].pos = x.b[b].pos /\ n.b[b].alloc # 0
  <2>1. CASE buf_avail(x, b) = 0
    <3>1. n = buf_grow(x, b, ADDF) /\ ADDF \in Nat
      BY <2>1, SizesAssumption
    <3>. HIDE DEF n
    <3>2. /\ Memory(n) /\ Only(x, n, b) /\ Spells(n, b, t) /\ n.b[b].pos = x.b[b].pos
          /\ n.b[b].alloc > x.b[b].len + ADDF
      <4>1. Roomy(x, n, b, t, ADDF)
        BY <3>1, BufGrowEffect
      <4>. QED
        BY <4>1 DEF Roomy
    <3>. QED
      BY <1>1, <3>1, <3>2
  <2>2. CASE buf_avail(x, b) # 0
    <3>1. n = x /\ x.b[b].alloc # 0
      BY <1>1, <2>2 DEF buf_avail
    <3>. QED
      BY <3>1, OnlySelf
  <2>. QED
    BY <2>1, <2>2
<1>4. o = vsnprintf(n, b, s)
  OBVIOUS
<1>5. v = IF Len(s) > buf_avail(o, b) THEN vsnprintf(buf_grow(o, b, Len(s)), b, s) ELSE o
  OBVIOUS
<1>. HIDE DEF n, o, v
<1>6. PICK u \in Seq(Bytes) : Continued(n, o, b, t, u) /\ (Len(t) + Len(s) < n.b[b].alloc => u = s)
  <2>1. Printed(n, o, b, t, s)
    BY <1>3, <1>4, VsnprintfEffect
  <2>. QED
    BY <2>1 DEF Printed
<1>7. Memory(o) /\ Only(n, o, b) /\ o.b = n.b /\ Spells(o, b, t)
  BY <1>3, <1>6, ContinuedSpells DEF Continued
<1>8. n.b[b].alloc \in Nat /\ n.b[b].len = Len(t) /\ Only(x, o, b)
  BY <1>3, <1>7, BufferType, OnlyTrans DEF Spells
<1>9. \E w : Memory(w) /\ Only(x, w, b) /\ w.b[b].pos = x.b[b].pos /\ w.b[b].len = Len(t)
             /\ w.b[b].alloc \in Nat /\ Len(t) + Len(s) < w.b[b].alloc /\ Continued(w, v, b, t, s)
  <2>1. CASE Len(s) > buf_avail(o, b)
    <3>. DEFINE g == buf_grow(o, b, Len(s))
    <3>1. v = vsnprintf(g, b, s) /\ g = buf_grow(o, b, Len(s))
      BY <1>5, <2>1
    <3>. HIDE DEF g
    <3>2. /\ Memory(g) /\ Only(o, g, b) /\ Spells(g, b, t) /\ g.b[b].pos = o.b[b].pos
          /\ g.b[b].alloc > o.b[b].len + Len(s) /\ g.b[b].len = o.b[b].len
      <4>1. Roomy(o, g, b, t, Len(s))
        BY <1>1, <1>7, <3>1, BufGrowEffect, SMTT(20)
      <4>. QED
        BY <4>1 DEF Roomy
    <3>3. g.b[b].alloc \in Nat /\ Only(x, g, b)
      BY <1>7, <1>8, <3>2, BufferType, OnlyTrans, SMTT(20)
    <3>4. Len(t) + Len(s) < g.b[b].alloc /\ g.b[b].alloc # 0
      BY <1>1, <1>7, <1>8, <3>2, <3>3
    <3>5. PICK z \in Seq(Bytes) : Continued(g, v, b, t, z) /\ (Len(t) + Len(s) < g.b[b].alloc => z = s)
      <4>1. Printed(g, v, b, t, s)
        BY <3>1, <3>2, <3>4, VsnprintfEffect
      <4>. QED
        BY <4>1 DEF Printed
    <3>. QED
      BY <1>3, <1>7, <1>8, <3>2, <3>3, <3>4, <3>5
  <2>2. CASE ~(Len(s) > buf_avail(o, b))
    <3>1. buf_avail(o, b) = n.b[b].alloc - Len(t) - 1
      BY <1>3, <1>7, <1>8 DEF buf_avail
    <3>2. Len(t) + Len(s) < n.b[b].alloc /\ v = o
      BY <1>1, <1>5, <1>8, <2>2, <3>1
    <3>. QED
      BY <1>3, <1>6, <1>8, <3>2
  <2>. QED
    BY <2>1, <2>2
<1>10. PICK w : Memory(w) /\ Only(x, w, b) /\ w.b[b].pos = x.b[b].pos /\ w.b[b].len = Len(t)
                /\ w.b[b].alloc \in Nat /\ Len(t) + Len(s) < w.b[b].alloc /\ Continued(w, v, b, t, s)
  BY <1>9
<1>11. Memory(v) /\ Only(x, v, b) /\ Starts(v, b, t \o s) /\ v.b = w.b
  BY <1>10, OnlyTrans DEF Continued
<1>12. Len(t \o s) < Size(v.b[b])
  BY <1>1, <1>10, <1>11 DEF Size
<1>13. y = buf_setlen(v, b, Len(t \o s))
  BY <1>1, <1>2, <1>7, <1>8
<1>14. Leaves(x, y, b, t \o s, IF v.b[b].pos > Len(t \o s) THEN Len(t \o s) ELSE v.b[b].pos)
  <2>. DEFINE z == t \o s
  <2>1. z \in Seq(Bytes) /\ Len(z) < Size(v.b[b]) /\ Starts(v, b, z) /\ y = buf_setlen(v, b, Len(z))
    BY <1>1, <1>11, <1>12, <1>13
  <2>. HIDE DEF z
  <2>2. Leaves(x, y, b, z, IF v.b[b].pos > Len(z) THEN Len(z) ELSE v.b[b].pos)
    BY <1>11, <2>1, CutEffect
  <2>. QED
    BY <2>2 DEF z
<1>15. (IF v.b[b].pos > Len(t \o s) THEN Len(t \o s) ELSE v.b[b].pos) = x.b[b].pos
  BY <1>1, <1>10, <1>11
<1>. QED
  BY <1>14, <1>15

\* buf_fgetc goes on by one character, buf_rewind goes to the first.
LEMMA MoveEffect ==
  ASSUME NEW x, Memory(x), NEW b \in Bufs, NEW t, Spells(x, b, t), Ends(x, b),
         NEW p \in Nat, p <= x.b[b].len, NEW y, y = [x EXCEPT !.b[b].pos = p]
  PROVE  Leaves(x, y, b, t, p)
<1>1. x.b[b] \in Struct /\ x.b[b].len \in Nat /\ x.b[b].len < Size(x.b[b])
  BY BufferType
<1>2. y = Set(x, b, x.b[b].len, p)
  <2>1. [x.b[b] EXCEPT !.len = x.b[b].len, !.pos = p] = [x.b[b] EXCEPT !.pos = p]
    BY <1>1, Zenon DEF Struct
  <2>. QED
    BY <2>1 DEF Set
<1>. DEFINE k == x.b[b].len
<1>3. k \in Nat /\ k < Size(x.b[b]) /\ p <= k /\ y = Set(x, b, k, p)
  BY <1>1, <1>2
<1>. HIDE DEF k
<1>4. Moved(x, y, b, k, p)
  BY <1>3, StructEffect
<1>. QED
  BY <1>4 DEF Moved, Leaves, Spells, Ends, k

\* buf_ungetc puts a character back before the position.
LEMMA UngetcEffect ==
  ASSUME NEW x, Memory(x), NEW b \in Bufs, NEW t \in Seq(Bytes), Spells(x, b, t), Ends(x, b),
         x.b[b].pos > 0, NEW c \in Bytes, NEW y, y = buf_ungetc(x, b, c)
  PROVE  Leaves(x, y, b, [t EXCEPT ![x.b[b].pos] = c], x.b[b].pos - 1)
<1>. DEFINE p == x.b[b].pos
            d == <<c>>
            w == Put(x, b, p - 1, d)
            u == [t EXCEPT ![p] = c]
<1>1. /\ p \in Nat /\ p # 0 /\ x.b[b].len = Len(t) /\ p <= Len(t) /\ Len(t) \in Nat
      /\ Size(x.b[b]) \in Nat /\ Len(t) < Size(x.b[b]) /\ x.b[b].alloc # 0
  BY BufferType DEF Spells
<1>2. y = [w EXCEPT !.b[b].pos = @ - 1]
  BY Zenon DEF buf_ungetc
<1>3. Len(d) \in Nat /\ Len(d) = 1 /\ d[1] = c
  OBVIOUS
<1>4. u \in Seq(Bytes) /\ Len(u) = Len(t) /\ \A j \in 1 .. Len(t) : u[j] = IF j = p THEN c ELSE t[j]
  <2>1. p \in 1 .. Len(t)
    BY <1>1
  <2>. HIDE DEF p
  <2>. QED
    BY <2>1, ExceptSeq
<1>5. w = Put(x, b, p - 1, d)
  OBVIOUS
<1>. HIDE DEF p, d, w, u
<1>6. p - 1 \in Nat /\ p - 1 + Len(d) <= Size(x.b[b])
  BY <1>1, <1>3
<1>7. OnlyNull(x, b, d)
  BY <1>1 DEF OnlyNull
<1>8. Wrote(x, w, b, p - 1, d)
  BY <1>3, <1>5, <1>6, <1>7, PutEffect, Zenon
<1>9. Memory(w) /\ Only(x, w, b) /\ w.b = x.b
  BY <1>8 DEF Wrote
<1>10. ASSUME NEW i \in 1 .. Len(t)
       PROVE  Block(w, b)[i - 1] = u[i]
  <2>1. i - 1 \in 0 .. Size(x.b[b]) - 1
    BY <1>1
  <2>2. Block(w, b)[i - 1] = IF p - 1 <= i - 1 /\ i - 1 < p - 1 + Len(d) THEN d[i - 1 - (p - 1) + 1]
                             ELSE Block(x, b)[i - 1]
    BY <1>8, <2>1 DEF Wrote
  <2>3. CASE i = p
    <3>1. p - 1 <= i - 1 /\ i - 1 < p - 1 + Len(d) /\ i - 1 - (p - 1) + 1 = 1
      BY <1>1, <1>3, <2>3
    <3>. QED
      BY <1>3, <1>4, <2>2, <2>3, <3>1
  <2>4. CASE i # p
    <3>1. ~(p - 1 <= i - 1 /\ i - 1 < p - 1 + Len(d))
      BY <1>1, <1>3, <2>4
    <3>. QED
      BY <1>4, <2>2, <2>4, <3>1 DEF Spells
  <2>. QED
    BY <2>3, <2>4
<1>11. Block(w, b)[Len(t)] = NUL
  <2>1. Len(t) \in 0 .. Size(x.b[b]) - 1 /\ ~(p - 1 <= Len(t) /\ Len(t) < p - 1 + Len(d))
    BY <1>1, <1>3
  <2>2. Block(w, b)[Len(t)] = Block(x, b)[Len(t)]
    BY <1>8, <2>1 DEF Wrote
  <2>. QED
    BY <1>1, <2>2 DEF Ends
<1>12. Spells(w, b, u) /\ Ends(w, b)
  BY <1>1, <1>4, <1>9, <1>10, <1>11 DEF Spells, Ends
<1>13. y = [w EXCEPT !.b[b].pos = p - 1]
  BY <1>2, <1>9 DEF p
<1>14. Leaves(w, y, b, u, p - 1)
  <2>1. p - 1 <= w.b[b].len
    BY <1>1, <1>9
  <2>. QED
    BY <1>6, <1>9, <1>12, <1>13, <2>1, MoveEffect
<1>15. Leaves(x, y, b, u, p - 1)
  BY <1>9, <1>14, LeavesTrans
<1>. QED
  BY <1>15 DEF u, p

\* What a part of a text consists of.
LEMMA PartOf ==
  ASSUME NEW t \in Seq(Bytes), NEW j \in Nat, NEW k \in Nat, j <= k, k <= Len(t)
  PROVE  /\ SubSeq(t, j + 1, k) \in Seq(Bytes) /\ Len(SubSeq(t, j + 1, k)) = k - j
         /\ \A i \in 1 .. k - j : SubSeq(t, j + 1, k)[i] = t[j + i]
<1>1. Len(t) \in Nat
  OBVIOUS
<1>2. \A i \in j + 1 .. k : t[i] \in Bytes
  BY <1>1, ElementOfSeq
<1>. DEFINE a == j + 1
            u == SubSeq(t, a, k)
<1>3. a \in Int /\ k \in Int /\ \A i \in a .. k : t[i] \in Bytes
  BY <1>2
<1>4. a <= k <=> j < k
  OBVIOUS
<1>5. k - a + 1 = k - j /\ \A i \in Nat : a + i - 1 = j + i
  OBVIOUS
<1>. HIDE DEF a
<1>6. u \in Seq(Bytes) /\ Len(u) = (IF a <= k THEN k - a + 1 ELSE 0) /\ \A i \in 1 .. k - a + 1 : u[i] = t[a + i - 1]
  BY <1>3, SubSeqProperties
<1>7. Len(u) = k - j
  BY <1>4, <1>5, <1>6
<1>8. \A i \in 1 .. k - j : u[i] = t[j + i]
  BY <1>5, <1>6
<1>. QED
  BY <1>6, <1>7, <1>8 DEF a

\* The number of spaces in front of a text is the one buf_ltrim counts.
LEMMA LeadingSpaces ==
  ASSUME NEW t \in Seq(Bytes), NEW k \in 0 .. Len(t), \A i \in 1 .. k : space(t[i]),
         k # Len(t) => ~space(t[k + 1])
  PROVE  Min({i \in 0 .. Len(t) : i = Len(t) \/ ~space(t[i + 1])}) = k
<1>. DEFINE S == {i \in 0 .. Len(t) : i = Len(t) \/ ~space(t[i + 1])}
<1>1. Len(t) \in Nat
  OBVIOUS
<1>2. k \in S
  OBVIOUS
<1>3. ASSUME NEW j \in S
      PROVE  k <= j
  <2>1. SUFFICES ASSUME j < k
                 PROVE  FALSE
    BY <1>1
  <2>2. j + 1 \in 1 .. k /\ j # Len(t)
    BY <1>1, <2>1
  <2>. QED
    BY <2>2
<1>4. \A j \in S : j \in Int
  BY <1>1
<1>. HIDE DEF S
<1>5. \A j \in S : (\A i \in S : j <= i) => j = k
  BY <1>2, <1>3, <1>4
<1>6. Min(S) = k
  BY <1>2, <1>3, <1>5, Zenon DEF Min
<1>. QED
  BY <1>6 DEF S

\* The length of a text without the spaces at its end is the one buf_rtrim finds.
LEMMA TrailingSpaces ==
  ASSUME NEW t \in Seq(Bytes), NEW k \in 0 .. Len(t), \A i \in k + 1 .. Len(t) : space(t[i]),
         k # 0 => ~space(t[k])
  PROVE  Max({i \in 0 .. Len(t) : i = 0 \/ ~space(t[i])}) = k
<1>. DEFINE S == {i \in 0 .. Len(t) : i = 0 \/ ~space(t[i])}
<1>1. Len(t) \in Nat
  OBVIOUS
<1>2. k \in S
  OBVIOUS
<1>3. ASSUME NEW j \in S
      PROVE  k >= j
  <2>1. SUFFICES ASSUME j > k
                 PROVE  FALSE
    BY <1>1
  <2>2. j \in k + 1 .. Len(t) /\ j # 0
    BY <1>1, <2>1
  <2>. QED
    BY <2>2
<1>4. \A j \in S : j \in Int
  BY <1>1
<1>. HIDE DEF S
<1>5. \A j \in S : (\A i \in S : j >= i) => j = k
  BY <1>2, <1>3, <1>4
<1>6. Max(S) = k
  BY <1>2, <1>3, <1>5, Zenon DEF Max
<1>. QED
  BY <1>6 DEF S

\* buf_rtrim drops the spaces at the end.
LEMMA RtrimEffect ==
  ASSUME NEW x, Memory(x), NEW b \in Bufs, NEW t \in Seq(Bytes), Spells(x, b, t),
         NEW k \in 0 .. Len(t), \A i \in k + 1 .. Len(t) : space(t[i]), k # 0 => ~space(t[k]),
         NEW y, y = buf_rtrim(x, b)
  PROVE  Leaves(x, y, b, SubSeq(t, 1, k), IF x.b[b].pos > k THEN k ELSE x.b[b].pos)
<1>1. Text(x, b) = t
  BY TextIs
<1>2. y = buf_setlen(x, b, Max({i \in 0 .. Len(t) : i = 0 \/ ~space(t[i])}))
  BY <1>1 DEF buf_rtrim
<1>3. y = buf_setlen(x, b, k)
  BY <1>2, TrailingSpaces
<1>. QED
  BY <1>3, SetlenText

\* buf_ltrim drops the spaces in front; the position stays on its character.
LEMMA LtrimEffect ==
  ASSUME NEW x, Memory(x), NEW b \in Bufs, NEW t \in Seq(Bytes), Spells(x, b, t), Ends(x, b),
         NEW k \in 0 .. Len(t), \A i \in 1 .. k : space(t[i]), k # Len(t) => ~space(t[k + 1]),
         NEW y, y = buf_ltrim(x, b)
  PROVE  Leaves(x, y, b, SubSeq(t, k + 1, Len(t)), IF x.b[b].pos < k THEN 0 ELSE x.b[b].pos - k)
<1>. DEFINE u == SubSeq(t, k + 1, Len(t))
            p == IF x.b[b].pos < k THEN 0 ELSE x.b[b].pos - k
            n == [x EXCEPT !.b[b].pos = p]
            w == Put(n, b, 0, u)
<1>1. /\ Len(t) \in Nat /\ k \in Nat /\ k <= Len(t) /\ x.b[b].len = Len(t)
      /\ x.b[b].pos \in Nat /\ x.b[b].pos <= Len(t)
      /\ Size(x.b[b]) \in Nat /\ Len(t) < Size(x.b[b]) /\ (x.b[b].alloc = 0 => Len(t) = 0)
  BY BufferType DEF Spells
<1>2. u \in Seq(Bytes) /\ Len(u) = Len(t) - k /\ \A i \in 1 .. Len(t) - k : u[i] = t[k + i]
  BY <1>1, PartOf
<1>3. p \in Nat /\ p <= Len(t) - k /\ p <= x.b[b].len
  BY <1>1, SMTT(20)
<1>4. y = buf_setlen(w, b, Len(u))
  <2>1. Text(x, b) = t
    BY TextIs
  <2>2. Min({i \in 0 .. Len(t) : i = Len(t) \/ ~space(t[i + 1])}) = k
    BY LeadingSpaces
  <2>3. y = buf_setlen(w, b, Len(t) - k)
    BY <2>1, <2>2 DEF buf_ltrim
  <2>. QED
    BY <1>2, <2>3
<1>5. n = [x EXCEPT !.b[b].pos = p] /\ w = Put(n, b, 0, u)
  OBVIOUS
<1>. HIDE DEF u, p, n, w
<1>6. Memory(n) /\ Only(x, n, b) /\ Spells(n, b, t) /\ n.b[b].pos = p
  <2>1. Leaves(x, n, b, t, p)
    BY <1>3, <1>5, MoveEffect
  <2>. QED
    BY <2>1 DEF Leaves
<1>7. /\ n.b[b].len = Len(t) /\ Size(n.b[b]) \in Nat /\ Len(t) < Size(n.b[b]) /\ (n.b[b].alloc = 0 => Len(t) = 0)
  BY <1>6, BufferType DEF Spells
<1>8. Wrote(n, w, b, 0, u)
  <2>1. OnlyNull(n, b, u)
    BY <1>1, <1>2, <1>7 DEF OnlyNull
  <2>2. 0 + Len(u) <= Size(n.b[b]) /\ Len(u) \in Nat /\ 0 \in Nat
    BY <1>1, <1>2, <1>7
  <2>. QED
    BY <1>5, <1>6, <2>1, <2>2, PutEffect, Zenon
<1>9. Memory(w) /\ Only(n, w, b) /\ w.b = n.b
  BY <1>8 DEF Wrote
<1>10. ASSUME NEW i \in 1 .. Len(u)
       PROVE  Block(w, b)[i - 1] = u[i]
  <2>1. i - 1 \in 0 .. Size(n.b[b]) - 1 /\ 0 <= i - 1 /\ i - 1 < 0 + Len(u) /\ i - 1 - 0 + 1 = i
    BY <1>1, <1>2, <1>7
  <2>2. Block(w, b)[i - 1] = u[i - 1 - 0 + 1]
    BY <1>8, <2>1 DEF Wrote
  <2>. QED
    BY <2>1, <2>2
<1>11. Starts(w, b, u)
  BY <1>10 DEF Starts
<1>12. Len(u) < Size(w.b[b]) /\ Only(x, w, b)
  <2>1. Len(u) < Size(w.b[b])
    BY <1>1, <1>2, <1>7, <1>9
  <2>2. Only(x, w, b)
    BY <1>6, <1>9, OnlyTrans, SMTT(20)
  <2>. QED
    BY <2>1, <2>2
<1>13. Leaves(x, y, b, u, IF w.b[b].pos > Len(u) THEN Len(u) ELSE w.b[b].pos)
  BY <1>2, <1>4, <1>9, <1>11, <1>12, CutEffect, SMTT(20)
<1>14. (IF w.b[b].pos > Len(u) THEN Len(u) ELSE w.b[b].pos) = p
  BY <1>1, <1>2, <1>3, <1>6, <1>9, SMTT(20)
<1>. QED
  BY <1>13, <1>14 DEF u, p

\* Where an offset points to, and a text with a part replaced.
From(t, off) == IF off < 0 THEN Len(t) + off ELSE off
Spliced(t, at, gone, s) == SubSeq(t, 1, at) \o s \o SubSeq(t, at + gone + 1, Len(t))

\* buf_splice replaces a part of the text.
LEMMA SpliceEffect ==
  ASSUME NEW x, Memory(x), NEW b \in Bufs, NEW t \in Seq(Bytes), Spells(x, b, t),
         NEW off \in Int, NEW gone \in Nat, NEW s \in Seq(Bytes),
         NEW at \in Nat, at = From(t, off), at + gone <= Len(t),
         NEW u, u = Spliced(t, at, gone, s),
         NEW y, y = buf_splice(x, b, off, gone, s)
  PROVE  Leaves(x, y, b, u, IF x.b[b].pos > Len(u) THEN Len(u) ELSE x.b[b].pos)
<1>. DEFINE delta == Len(s) - gone
            n  == IF delta > 0 THEN buf_grow(x, b, delta) ELSE x
            tl == SubSeq(t, at + gone + 1, Len(t))
            hd == SubSeq(t, 1, at)
            c  == Cells(n, b, at + gone, n.b[b].len - at - gone)
            o  == Put(n, b, at + Len(s), c)
            w  == Put(o, b, at, s)
<1>1. /\ Len(t) \in Nat /\ at \in Nat /\ Len(s) \in Nat /\ x.b[b].len = Len(t) /\ delta \in Int
      /\ x.b[b].pos \in Nat /\ x.b[b].pos <= Len(t)
      /\ Size(x.b[b]) \in Nat /\ Len(t) < Size(x.b[b]) /\ (x.b[b].alloc = 0 => Len(t) = 0)
  BY BufferType DEF Spells, From
<1>2. tl \in Seq(Bytes) /\ Len(tl) = Len(t) - (at + gone) /\ \A i \in 1 .. Len(tl) : tl[i] = t[at + gone + i]
  <2>. DEFINE k == at + gone
  <2>1. k \in Nat /\ k <= Len(t)
    BY <1>1
  <2>. HIDE DEF k
  <2>2. /\ SubSeq(t, k + 1, Len(t)) \in Seq(Bytes) /\ Len(SubSeq(t, k + 1, Len(t))) = Len(t) - k
        /\ \A i \in 1 .. Len(t) - k : SubSeq(t, k + 1, Len(t))[i] = t[k + i]
    BY <1>1, <2>1, PartOf
  <2>. QED
    BY <2>2 DEF k
<1>3. hd \in Seq(Bytes) /\ Len(hd) = at /\ \A i \in 1 .. at : hd[i] = t[i]
  <2>1. at <= Len(t) /\ 0 \in Nat /\ 0 <= at /\ 0 + 1 = 1 /\ at - 0 = at /\ \A i \in 1 .. at : 0 + i = i
    BY <1>1
  <2>2. /\ SubSeq(t, 0 + 1, at) \in Seq(Bytes) /\ Len(SubSeq(t, 0 + 1, at)) = at - 0
        /\ \A i \in 1 .. at - 0 : SubSeq(t, 0 + 1, at)[i] = t[0 + i]
    BY <1>1, <2>1, PartOf
  <2>. QED
    BY <2>1, <2>2
<1>4. y = buf_setlen(w, b, n.b[b].len + delta)
  <2>1. Offset(x, b, off) = at
    BY <1>1 DEF Offset, From
  <2>. QED
    BY <2>1 DEF buf_splice
<1>5. n = (IF delta > 0 THEN buf_grow(x, b, delta) ELSE x) /\ u = hd \o s \o tl
  BY DEF Spliced
<1>6. c = Cells(n, b, at + gone, n.b[b].len - at - gone) /\ o = Put(n, b, at + Len(s), c) /\ w = Put(o, b, at, s)
  BY Zenon
<1>7. delta = Len(s) - gone
  OBVIOUS
<1>. HIDE DEF n, tl, hd, c, o, w
<1>0. Len(tl) \in Nat /\ Len(tl) = Len(t) - (at + gone) /\ tl \in Seq(Bytes)
  BY <1>2
<1>8. /\ Memory(n) /\ Only(x, n, b) /\ Spells(n, b, t) /\ n.b[b].pos = x.b[b].pos
      /\ Len(t) + delta < Size(n.b[b])
  <2>1. CASE delta > 0
    <3>1. delta \in Nat /\ n = buf_grow(x, b, delta)
      BY <1>1, <1>5, <2>1
    <3>2. Roomy(x, n, b, t, delta)
      BY <3>1, BufGrowEffect
    <3>. QED
      BY <1>1, <3>2, SMTT(20) DEF Roomy
  <2>2. CASE ~(delta > 0)
    <3>1. n = x
      BY <1>5, <2>2
    <3>. QED
      BY <1>1, <2>2, <3>1, OnlySelf
  <2>. QED
    BY <2>1, <2>2, SMTT(20)
<1>9. /\ n.b[b].len = Len(t) /\ Size(n.b[b]) \in Nat /\ Len(t) < Size(n.b[b])
      /\ (n.b[b].alloc = 0 => Len(t) = 0 /\ Len(s) = 0)
  <2>1. n.b[b].len = Len(t) /\ Size(n.b[b]) \in Nat /\ Len(t) < Size(n.b[b]) /\ (n.b[b].alloc = 0 => Len(t) = 0)
    BY <1>8, BufferType DEF Spells
  <2>2. n.b[b].alloc = 0 => Len(s) = 0
    <3>1. n.b[b].alloc = 0 => Size(n.b[b]) = 1
      BY DEF Size
    <3>. QED
      BY <1>1, <1>7, <1>8, <2>1, <3>1, SMTT(20)
  <2>. QED
    BY <2>1, <2>2, SMTT(20)
<1>10. c = tl
  <2>1. c = [i \in 1 .. Len(tl) |-> Block(n, b)[at + gone + i - 1]]
    <3>1. n.b[b].len - at - gone = Len(tl)
      BY <1>0, <1>1, <1>9
    <3>. QED
      BY <1>6, <3>1, Zenon DEF Cells, Block
  <2>2. ASSUME NEW i \in 1 .. Len(tl)
        PROVE  Block(n, b)[at + gone + i - 1] = tl[i]
    <3>. DEFINE k == at + gone + i
    <3>1. k \in 1 .. Len(t)
      BY <1>0, <1>1
    <3>3. at + gone + i - 1 = k - 1 /\ tl[i] = t[k]
      BY <1>2
    <3>. HIDE DEF k
    <3>2. Block(n, b)[k - 1] = t[k]
      BY <1>8, <3>1 DEF Spells
    <3>. QED
      BY <3>2, <3>3
  <2>3. tl = [i \in 1 .. Len(tl) |-> tl[i]]
    BY <1>2
  <2>. QED
    BY <2>1, <2>2, <2>3
<1>11. Wrote(n, o, b, at + Len(s), tl)
  <2>. DEFINE k == at + Len(s)
  <2>1. k \in Nat /\ Len(tl) \in Nat /\ k + Len(tl) <= Size(n.b[b]) /\ o = Put(n, b, k, tl)
    <3>1. Len(t) + delta < Size(n.b[b])
      BY <1>8
    <3>3. at + Len(s) + (Len(t) - (at + gone)) = Len(t) + delta
      BY <1>1
    <3>4. Size(n.b[b]) \in Nat
      BY <1>9
    <3>5. Len(t) + delta <= Size(n.b[b])
      BY <1>1, <3>1, <3>4
    <3>6. k + Len(tl) = Len(t) + delta
      BY <1>0, <3>3
    <3>2. k \in Nat /\ k + Len(tl) <= Size(n.b[b])
      BY <1>1, <3>5, <3>6
    <3>. QED
      BY <1>0, <1>6, <1>10, <3>2
  <2>2. OnlyNull(n, b, tl)
    BY <1>1, <1>2, <1>9 DEF OnlyNull
  <2>. HIDE DEF k
  <2>3. Wrote(n, o, b, k, tl)
    BY <1>8, <2>1, <2>2, PutEffect
  <2>. QED
    BY <2>3 DEF k
<1>12. Memory(o) /\ Only(n, o, b) /\ o.b = n.b
  BY <1>11, Zenon DEF Wrote
<1>13. Wrote(o, w, b, at, s)
  <2>1. at + Len(s) <= Size(o.b[b])
    BY <1>1, <1>7, <1>8, <1>9, <1>12, SMTT(20)
  <2>2. OnlyNull(o, b, s)
    BY <1>1, <1>9, <1>12 DEF OnlyNull
  <2>. QED
    BY <1>1, <1>6, <1>12, <2>1, <2>2, PutEffect, Zenon
<1>14. Memory(w) /\ Only(o, w, b) /\ w.b = n.b
  BY <1>12, <1>13 DEF Wrote
<1>15. u \in Seq(Bytes) /\ Len(u) = Len(t) + delta
  <2>. DEFINE h == hd \o s
  <2>1. h \in Seq(Bytes) /\ Len(h) = Len(hd) + Len(s)
    BY <1>3, ConcatProperties, Zenon
  <2>2. u = h \o tl
    BY <1>5
  <2>3. Len(hd) = at
    BY <1>3
  <2>. HIDE DEF h
  <2>4. u \in Seq(Bytes) /\ Len(u) = Len(h) + Len(tl)
    <3>1. h \in Seq(Bytes) /\ tl \in Seq(Bytes)
      BY <1>0, <2>1
    <3>. QED
      BY <2>2, <3>1, ConcatProperties
  <2>5. at + Len(s) + (Len(t) - (at + gone)) = Len(t) + delta
    BY <1>1, <1>7
  <2>. QED
    BY <1>0, <2>1, <2>3, <2>4, <2>5, Zenon
<1>16. \A i \in 1 .. Len(u) : u[i] = IF i <= at THEN hd[i] ELSE
                                    IF i <= at + Len(s) THEN s[i - at] ELSE tl[i - (at + Len(s))]
  <2>. DEFINE h == hd \o s
  <2>1. /\ h \in Seq(Bytes) /\ Len(h) = at + Len(s)
        /\ \A i \in 1 .. at + Len(s) : h[i] = IF i <= at THEN hd[i] ELSE s[i - at]
    <3>1. /\ h \in Seq(Bytes) /\ Len(h) = Len(hd) + Len(s)
          /\ \A i \in 1 .. Len(hd) + Len(s) : h[i] = IF i <= Len(hd) THEN hd[i] ELSE s[i - Len(hd)]
      BY <1>3, ConcatProperties
    <3>. QED
      BY <1>3, <3>1, Zenon
  <2>2. u = h \o tl
    BY <1>5
  <2>. HIDE DEF h
  <2>3. /\ Len(u) = Len(h) + Len(tl)
        /\ \A i \in 1 .. Len(h) + Len(tl) : u[i] = IF i <= Len(h) THEN h[i] ELSE tl[i - Len(h)]
    <3>1. h \in Seq(Bytes) /\ tl \in Seq(Bytes)
      BY <1>0, <2>1
    <3>. QED
      BY <2>2, <3>1, ConcatProperties
  <2>4. ASSUME NEW i \in 1 .. Len(u)
        PROVE  u[i] = IF i <= at THEN hd[i] ELSE
                      IF i <= at + Len(s) THEN s[i - at] ELSE tl[i - (at + Len(s))]
    <3>1. u[i] = IF i <= at + Len(s) THEN h[i] ELSE tl[i - (at + Len(s))]
      BY <2>1, <2>3
    <3>2. CASE i <= at + Len(s)
      <4>1. i \in 1 .. at + Len(s)
        BY <1>1, <3>2
      <4>. QED
        BY <2>1, <3>1, <3>2, <4>1
    <3>3. CASE ~(i <= at + Len(s))
      <4>1. ~(i <= at)
        BY <1>1, <3>3
      <4>. QED
        BY <3>1, <3>3, <4>1
    <3>. QED
      BY <3>2, <3>3
  <2>. QED
    BY <2>4, SMTT(20)
<1>17. ASSUME NEW i \in 1 .. Len(u)
       PROVE  Block(w, b)[i - 1] = u[i]
  <2>1. i - 1 \in 0 .. Size(n.b[b]) - 1 /\ i \in Nat /\ i # 0
    BY <1>1, <1>8, <1>9, <1>15, SMTT(20)
  <2>2. Block(w, b)[i - 1] = IF at <= i - 1 /\ i - 1 < at + Len(s) THEN s[i - 1 - at + 1] ELSE Block(o, b)[i - 1]
    BY <1>12, <1>13, <2>1 DEF Wrote
  <2>3. Block(o, b)[i - 1] = IF at + Len(s) <= i - 1 /\ i - 1 < at + Len(s) + Len(tl)
                             THEN tl[i - 1 - (at + Len(s)) + 1] ELSE Block(n, b)[i - 1]
    BY <1>11, <2>1, Zenon DEF Wrote
  <2>4. CASE i <= at
    <3>1. ~(at <= i - 1) /\ ~(at + Len(s) <= i - 1) /\ i \in 1 .. at /\ i \in 1 .. Len(t)
      BY <1>1, <2>1, <2>4
    <3>2. Block(n, b)[i - 1] = t[i]
      BY <1>8, <3>1 DEF Spells
    <3>. QED
      BY <1>3, <1>16, <2>2, <2>3, <2>4, <3>1, <3>2
  <2>5. CASE ~(i <= at) /\ i <= at + Len(s)
    <3>1. at <= i - 1 /\ i - 1 < at + Len(s) /\ i - 1 - at + 1 = i - at
      BY <1>1, <2>1, <2>5
    <3>. QED
      BY <1>16, <2>2, <2>5, <3>1, SMTT(20)
  <2>6. CASE ~(i <= at + Len(s))
    <3>1. /\ ~(i - 1 < at + Len(s)) /\ at + Len(s) <= i - 1 /\ i - 1 < at + Len(s) + Len(tl)
          /\ i - 1 - (at + Len(s)) + 1 = i - (at + Len(s)) /\ ~(i <= at)
      <4>1. at + Len(s) + (Len(t) - (at + gone)) = Len(t) + delta
        BY <1>1
      <4>2. at + Len(s) + Len(tl) = Len(u)
        BY <1>0, <1>15, <4>1
      <4>3. i \in Nat /\ i <= Len(u) /\ Len(u) \in Nat /\ Len(s) \in Nat
        BY <1>1, <1>15
      <4>4. /\ ~(i - 1 < at + Len(s)) /\ at + Len(s) <= i - 1
            /\ i - 1 - (at + Len(s)) + 1 = i - (at + Len(s)) /\ ~(i <= at)
        BY <2>6, <4>3, SMTT(20)
      <4>5. i - 1 < Len(u)
        BY <4>3
      <4>. QED
        BY <4>2, <4>4, <4>5, SMTT(20)
    <3>2. Block(w, b)[i - 1] = tl[i - (at + Len(s))]
      BY <2>2, <2>3, <3>1
    <3>. QED
      BY <1>16, <2>6, <3>1, <3>2, Zenon
  <2>. QED
    BY <2>4, <2>5, <2>6, SMTT(20)
<1>18. Starts(w, b, u)
  BY <1>17 DEF Starts
<1>19. Only(x, w, b)
  <2>1. Only(x, o, b)
    BY <1>8, <1>12, OnlyTrans
  <2>. QED
    BY <1>14, <2>1, OnlyTrans
<1>20. Len(u) < Size(w.b[b]) /\ y = buf_setlen(w, b, Len(u)) /\ w.b[b].pos = x.b[b].pos
  BY <1>4, <1>8, <1>9, <1>14, <1>15
<1>21. Leaves(x, y, b, u, IF w.b[b].pos > Len(u) THEN Len(u) ELSE w.b[b].pos)
  BY <1>14, <1>15, <1>18, <1>19, <1>20, CutEffect, Zenon
<1>. QED
  BY <1>20, <1>21

\* Memory after read has delivered s into buffer b and buf_read has made room for
\* more; and a text that has so got longer.
Received(x, b, s) ==
  buf_grow([Put(x, b, x.b[b].len, s) EXCEPT !.b[b].len = @ + Len(s)], b, CHUNK)
Filled(x, y, b, u) ==
  Memory(y) /\ Only(x, y, b) /\ Spells(y, b, u) /\ y.b[b].pos = x.b[b].pos /\ y.b[b].alloc # 0

\* buf_read puts what it got behind the text and makes room for more.
LEMMA ReceiveEffect ==
  ASSUME NEW x, Memory(x), NEW b \in Bufs, NEW t \in Seq(Bytes), Spells(x, b, t),
         NEW s \in Seq(Bytes), Len(t) + Len(s) < Size(x.b[b]), x.b[b].alloc # 0,
         NEW y, y = Received(x, b, s)
  PROVE  Filled(x, y, b, t \o s)
<1>. DEFINE w == Put(x, b, x.b[b].len, s)
            k == Len(t) + Len(s)
            z == [w EXCEPT !.b[b].len = @ + Len(s)]
<1>1. /\ x.b[b].pos \in Nat /\ Size(x.b[b]) \in Nat /\ x.b[b].len = Len(t) /\ x.b[b].pos <= Len(t)
      /\ Len(t) \in Nat /\ Len(s) \in Nat
  <2>1. x.b[b].pos \in Nat /\ Size(x.b[b]) \in Nat /\ x.b[b].pos <= x.b[b].len
    BY BufferType, Zenon
  <2>2. x.b[b].len = Len(t)
    BY Zenon DEF Spells
  <2>3. Len(t) \in Nat /\ Len(s) \in Nat
    OBVIOUS
  <2>. QED
    BY <2>1, <2>2, <2>3
<1>2. Wrote(x, w, b, Len(t), s)
  <2>1. OnlyNull(x, b, s)
    BY DEF OnlyNull
  <2>2. Len(t) + Len(s) <= Size(x.b[b])
    BY <1>1
  <2>. QED
    BY <1>1, <2>1, <2>2, PutEffect, Zenon
<1>3. z = [w EXCEPT !.b[b].len = @ + Len(s)] /\ y = buf_grow(z, b, CHUNK)
  BY DEF Received
<1>. HIDE DEF w, z
<1>4. Memory(w) /\ Only(x, w, b) /\ w.b = x.b
  BY <1>2 DEF Wrote
<1>5. Starts(w, b, t \o s)
  BY <1>2, PutBehind
<1>6. k \in Nat /\ k < Size(w.b[b]) /\ x.b[b].pos <= k
  BY <1>1, <1>4
<1>. HIDE DEF k
<1>7. z = Set(w, b, k, x.b[b].pos)
  <2>1. w.b[b] \in Struct
    BY <1>4, BufferType
  <2>2. w.b[b].len = Len(t) /\ w.b[b].pos = x.b[b].pos
    BY <1>1, <1>4
  <2>3. [w.b[b] EXCEPT !.len = k, !.pos = x.b[b].pos] = [w.b[b] EXCEPT !.len = k]
    BY <2>1, <2>2, Zenon DEF Struct
  <2>. QED
    BY <1>3, <2>2, <2>3 DEF Set, k
<1>8. Moved(w, z, b, k, x.b[b].pos)
  BY <1>1, <1>4, <1>6, <1>7, StructEffect, Zenon
<1>9. Memory(z) /\ Only(w, z, b) /\ Block(z, b) = Block(w, b) /\ z.b[b].len = k /\ z.b[b].pos = x.b[b].pos
  BY <1>8, Zenon DEF Moved
<1>10. Spells(z, b, t \o s)
  <2>1. Len(t \o s) = k
    BY DEF k
  <2>. QED
    BY <1>5, <1>9, <2>1 DEF Spells, Starts
<1>11. Roomy(z, y, b, t \o s, CHUNK)
  BY <1>3, <1>9, <1>10, BufGrowEffect, SizesAssumption
<1>12. /\ Memory(y) /\ Only(z, y, b) /\ Spells(y, b, t \o s) /\ y.b[b].pos = x.b[b].pos
       /\ y.b[b].alloc > k + CHUNK
  BY <1>9, <1>11, Zenon DEF Roomy
<1>13. y.b[b].alloc # 0
  <2>1. y.b[b].alloc \in Nat
    BY <1>12, BufferType, Zenon
  <2>2. k + CHUNK >= 0 /\ k + CHUNK \in Nat
    BY <1>6, SizesAssumption
  <2>3. y.b[b].alloc > k + CHUNK
    BY <1>12
  <2>. QED
    BY <2>1, <2>2, <2>3
<1>14. Only(x, y, b)
  <2>1. Only(x, z, b)
    BY <1>4, <1>9, OnlyTrans
  <2>. QED
    BY <1>12, <2>1, OnlyTrans
<1>. QED
  BY <1>12, <1>13, <1>14 DEF Filled
=============================================================================
