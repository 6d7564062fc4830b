----------------------------- MODULE BufUseProofs -----------------------------
(***************************************************************************)
(* The buffers of a program that calls the operations of buf.c in any      *)
(* order: every buffer holds the text and the position that it should, and *)
(* no two share a block.  The operations themselves are in BufProofs.      *)
(***************************************************************************)
EXTENDS BufProofs

-----------------------------------------------------------------------------
(* The inductive invariant *)

\* A buffer that is not being read into holds its text and position.
Kept(b) == Spells(m, b, want[b].text) /\ Ends(m, b) /\ m.b[b].pos = want[b].pos

\* During buf_read the text is still in front of what the file has delivered, and
\* the position in it, so that both can be restored.
Restorable(b) ==
  /\ m.b[b].alloc # 0
  /\ Spells(m, b, want[b].text \o io.got)
  /\ io.oldlen = Len(want[b].text)
  /\ m.b[b].pos = want[b].pos /\ want[b].pos <= io.oldlen
  /\ io.oldalloc = 0 => want[b].text = << >>

BufInv ==
  /\ Memory(m) /\ Rest(m, held)
  /\ want \in [Bufs -> [text : Seq(Bytes), pos : Nat]]
  /\ Idle \/ (io \in Reads /\ Restorable(io.b))
  /\ \A b \in Bufs : (IF Idle THEN TRUE ELSE io.b # b) => Kept(b)

-----------------------------------------------------------------------------
(* The invariant implies the properties *)

\* What the proofs of the steps start from.
LEMMA WantType ==
  ASSUME BufInv, NEW b \in Bufs
  PROVE  want[b].text \in Seq(Bytes) /\ want[b].pos \in Nat /\ Len(want[b].text) \in Nat
<1>1. want[b] \in [text : Seq(Bytes), pos : Nat]
  BY DEF BufInv
<1>. QED
  BY <1>1

\* The structs and the blocks agree.
LEMMA InvType ==
  ASSUME BufInv
  PROVE  BufTypeOK
<1>1. ASSUME NEW b \in Bufs
      PROVE  /\ m.b[b].buf \in DOMAIN m.blk
             /\ m.b[b].alloc = 0 <=> m.b[b].buf = 0
             /\ DOMAIN m.blk[m.b[b].buf] = IF m.b[b].alloc = 0 THEN {0} ELSE 0 .. m.b[b].alloc - 1
             /\ m.b[b].len < Cardinality(DOMAIN m.blk[m.b[b].buf])
             /\ m.b[b].pos <= m.b[b].len
  <2>1. Memory(m)
    BY DEF BufInv
  <2>2. Good(m, b) /\ m.b[b].alloc \in Nat /\ m.b[b].len < Size(m.b[b]) /\ Size(m.b[b]) \in Nat \ {0}
    BY <2>1, BufferType
  <2>. DEFINE k == Size(m.b[b])
              e == k - 1
  <2>3. k \in Nat \ {0}
    BY <2>2
  <2>4. e \in Int /\ ~(0 > e) /\ e - 0 + 1 = k
    BY <2>3
  <2>. HIDE DEF e
  <2>5. Cardinality(0 .. e) = k
    BY <2>4, FS_Interval
  <2>6. DOMAIN m.blk[m.b[b].buf] = 0 .. e
    BY <2>2 DEF Good, Block, e
  <2>7. 0 .. e = IF m.b[b].alloc = 0 THEN {0} ELSE 0 .. m.b[b].alloc - 1
    <3>1. CASE m.b[b].alloc = 0
      <4>1. e = 0 /\ 0 .. 0 = {0}
        BY <3>1 DEF e, Size
      <4>. QED
        BY <3>1, <4>1
    <3>2. CASE m.b[b].alloc # 0
      BY <3>2 DEF e, Size
    <3>. QED
      BY <3>1, <3>2
  <2>8. m.b[b].len < Cardinality(DOMAIN m.blk[m.b[b].buf])
    BY <2>2, <2>5, <2>6
  <2>. QED
    BY <2>2, <2>6, <2>7, <2>8 DEF Good
<1>. QED
  BY <1>1 DEF BufTypeOK

\* The text is what the operations call for.
LEMMA InvHolds ==
  ASSUME BufInv
  PROVE  HoldsText
<1>1. ASSUME NEW b \in Bufs, IF Idle THEN TRUE ELSE io.b # b
      PROVE  /\ Text(m, b) = want[b].text
             /\ m.b[b].pos = want[b].pos
             /\ m.blk[m.b[b].buf][m.b[b].len] = NUL
  <2>1. Kept(b) /\ want[b].text \in Seq(Bytes)
    BY <1>1, WantType DEF BufInv
  <2>2. Text(m, b) = want[b].text
    BY <2>1, TextIs DEF Kept
  <2>. QED
    BY <2>1, <2>2 DEF Kept, Ends, Block
<1>. QED
  BY <1>1 DEF HoldsText

\* Every block has one owner.
LEMMA InvOwner ==
  ASSUME BufInv
  PROVE  OneOwner
<1>1. m.blk[0] = [i \in {0} |-> NUL] /\ held \subseteq DOMAIN m.blk \ {0}
  BY DEF BufInv, Memory, Rest
<1>2. ASSUME NEW p \in DOMAIN m.blk \ {0}
      PROVE  Cardinality({b \in Bufs : m.b[b].buf = p}) + (IF p \in held THEN 1 ELSE 0) = 1
  <2>. DEFINE S == {b \in Bufs : m.b[b].buf = p}
  <2>1. CASE p \in held
    <3>1. S = {}
      BY <2>1 DEF BufInv, Rest
    <3>2. Cardinality(S) = 0
      BY <3>1, FS_EmptySet, Zenon
    <3>. QED
      BY <2>1, <3>2
  <2>2. CASE p \notin held
    <3>1. PICK b \in Bufs : m.b[b].buf = p
      BY <2>2 DEF BufInv, Rest
    <3>2. S = {b}
      BY <3>1 DEF BufInv, Memory
    <3>3. Cardinality(S) = 1
      BY <3>2, FS_Singleton, Zenon
    <3>. QED
      BY <2>2, <3>3
  <2>. QED
    BY <2>1, <2>2
<1>. QED
  BY <1>1, <1>2 DEF OneOwner

-----------------------------------------------------------------------------
(* The steps keep the invariant *)

\* Buffers other than the one that changes keep their text.
LEMMA OthersKept ==
  ASSUME Memory(m), NEW b \in Bufs, Only(m, m', b), NEW c \in Bufs, c # b, Kept(c), want'[c] = want[c]
  PROVE  Kept(c)'
<1>1. m'.b[c] = m.b[c] /\ Block(m', c) = Block(m, c)
  BY OnlyOther
<1>. QED
  BY <1>1, Zenon DEF Kept, Spells, Ends, Block

\* An operation that leaves in its buffer what it is to leave.
LEMMA DoStep ==
  ASSUME BufInv, NEW b \in Bufs, NEW y, NEW t \in Seq(Bytes), NEW p \in Nat,
         Leaves(m, y, b, t, p), Do(b, y, t, p)
  PROVE  BufInv'
<1>1. /\ m' = y /\ want' = [want EXCEPT ![b] = [text |-> t, pos |-> p]] /\ Idle /\ io' = io /\ held' = held
  BY DEF Do
<1>2. Memory(m) /\ Memory(m') /\ Only(m, m', b)
  BY <1>1, Zenon DEF BufInv, Leaves
<1>3. Rest(m', held')
  <2>1. Rest(m', held)
    BY <1>2, OnlyRest DEF BufInv
  <2>. QED
    BY <1>1, <2>1
<1>4. /\ want' \in [Bufs -> [text : Seq(Bytes), pos : Nat]]
      /\ want'[b].text = t /\ want'[b].pos = p /\ \A c \in Bufs \ {b} : want'[c] = want[c]
  BY <1>1 DEF BufInv
<1>5. Idle'
  BY <1>1 DEF Idle
<1>6. Kept(b)'
  BY <1>1, <1>4, Zenon DEF Leaves, Kept, Spells, Ends, Block
<1>7. ASSUME NEW c \in Bufs, c # b
      PROVE  Kept(c)'
  <2>1. Kept(c)
    BY <1>1, Zenon DEF BufInv
  <2>. QED
    BY <1>2, <1>4, <1>7, <2>1, OthersKept, Zenon
<1>. QED
  BY <1>2, <1>3, <1>4, <1>5, <1>6, <1>7, Zenon DEF BufInv

\* The strings that are written are sequences of bytes.
LEMMA StringType ==
  ASSUME NEW k \in Int, NEW s \in Strings(k)
  PROVE  s \in Seq(Bytes) /\ Len(s) \in Nat
<1>1. PICK j \in 0 .. k : s \in [1 .. j -> Bytes]
  BY DEF Strings
<1>2. j \in Nat
  OBVIOUS
<1>3. s \in Seq(Bytes)
  BY <1>1, <1>2, SeqDef
<1>. QED
  BY <1>3

\* What is known of a buffer before an operation on it.
LEMMA BeforeStep ==
  ASSUME BufInv, Idle, NEW b \in Bufs
  PROVE  /\ Memory(m) /\ Spells(m, b, want[b].text) /\ Ends(m, b) /\ m.b[b].pos = want[b].pos
         /\ want[b].text \in Seq(Bytes) /\ want[b].pos \in Nat /\ Len(want[b].text) \in Nat
         /\ m.b[b].len = Len(want[b].text) /\ want[b].pos <= Len(want[b].text)
<1>1. Memory(m) /\ Kept(b)
  BY DEF BufInv
<1>2. Spells(m, b, want[b].text) /\ Ends(m, b) /\ m.b[b].pos = want[b].pos
  BY <1>1 DEF Kept
<1>3. m.b[b].len = Len(want[b].text)
  BY <1>2 DEF Spells
<1>4. m.b[b].pos <= m.b[b].len
  BY <1>1, BufferType
<1>. QED
  BY <1>1, <1>2, <1>3, <1>4, WantType

\* buf_grow.
LEMMA GrowStep ==
  ASSUME BufInv, Idle, NEW b \in Bufs, NEW n \in Nat, Grow(b, n)
  PROVE  BufInv'
<1>. DEFINE y == buf_grow(m, b, n)
            t == want[b].text
<1>1. Memory(m) /\ Spells(m, b, t) /\ Ends(m, b) /\ m.b[b].pos = want[b].pos /\ t \in Seq(Bytes) /\ want[b].pos \in Nat
  BY BeforeStep
<1>2. Roomy(m, y, b, t, n)
  BY <1>1, BufGrowEffect
<1>3. Leaves(m, y, b, t, want[b].pos)
  BY <1>1, <1>2, Zenon DEF Roomy, Leaves
<1>4. Do(b, y, t, want[b].pos)
  BY DEF Grow
<1>. HIDE DEF y, t
<1>. QED
  BY <1>1, <1>3, <1>4, DoStep

\* buf_release.
LEMMA ReleaseStep ==
  ASSUME BufInv, Idle, NEW b \in Bufs, Release(b)
  PROVE  BufInv'
<1>. DEFINE y == buf_release(m, b)
            t == want[b].text
<1>1. Memory(m) /\ Spells(m, b, t) /\ Ends(m, b) /\ m.b[b].pos = want[b].pos /\ t \in Seq(Bytes) /\ want[b].pos \in Nat
  BY BeforeStep
<1>2. CASE m.b[b].alloc > 0
  <2>1. Do(b, y, << >>, 0)
    BY <1>2 DEF Release
  <2>2. Leaves(m, y, b, << >>, 0)
    <3>1. m.b[b].alloc # 0
      BY <1>1, <1>2, BufferType
    <3>. QED
      BY <1>1, <3>1, ReleaseEffect
  <2>3. << >> \in Seq(Bytes) /\ 0 \in Nat
    OBVIOUS
  <2>. HIDE DEF y
  <2>. QED
    BY <2>1, <2>2, <2>3, DoStep, Zenon
<1>3. CASE ~(m.b[b].alloc > 0)
  <2>1. Do(b, y, t, want[b].pos)
    BY <1>3 DEF Release
  <2>2. y = m
    <3>1. m.b[b].alloc = 0
      BY <1>1, <1>3, BufferType
    <3>. QED
      BY <3>1 DEF buf_release
  <2>3. Leaves(m, y, b, t, want[b].pos)
    BY <1>1, <2>2, NoEffect
  <2>. HIDE DEF y, t
  <2>. QED
    BY <1>1, <2>1, <2>3, DoStep, Zenon
<1>. QED
  BY <1>2, <1>3

\* buf_add.
LEMMA AddStep ==
  ASSUME BufInv, Idle, NEW b \in Bufs, NEW s \in Seq(Bytes), Add(b, s)
  PROVE  BufInv'
<1>. DEFINE y == buf_add(m, b, s)
            t == want[b].text
            u == t \o s
<1>1. Memory(m) /\ Spells(m, b, t) /\ m.b[b].pos = want[b].pos /\ t \in Seq(Bytes) /\ want[b].pos \in Nat
  BY BeforeStep
<1>2. Leaves(m, y, b, u, want[b].pos)
  BY <1>1, AddEffect
<1>3. Do(b, y, u, want[b].pos)
  BY DEF Add
<1>4. u \in Seq(Bytes)
  BY <1>1
<1>. HIDE DEF y, u
<1>. QED
  BY <1>1, <1>2, <1>3, <1>4, DoStep

\* buf_addch.
LEMMA AddChStep ==
  ASSUME BufInv, Idle, NEW b \in Bufs, NEW c \in Bytes, AddCh(b, c)
  PROVE  BufInv'
<1>. DEFINE y == buf_addch(m, b, c)
            t == want[b].text
            u == Append(t, c)
<1>1. Memory(m) /\ Spells(m, b, t) /\ m.b[b].pos = want[b].pos /\ t \in Seq(Bytes) /\ want[b].pos \in Nat
  BY BeforeStep
<1>2. Leaves(m, y, b, u, want[b].pos)
  BY <1>1, AddchEffect
<1>3. Do(b, y, u, want[b].pos)
  BY DEF AddCh
<1>4. u \in Seq(Bytes)
  BY <1>1
<1>. HIDE DEF y, u
<1>. QED
  BY <1>1, <1>2, <1>3, <1>4, DoStep

\* buf_addf.
LEMMA AddFStep ==
  ASSUME BufInv, Idle, NEW b \in Bufs, NEW s \in Seq(Bytes), AddF(b, s)
  PROVE  BufInv'
<1>. DEFINE y == buf_vaddf(m, b, s)
            t == want[b].text
            u == t \o s
<1>1. Memory(m) /\ Spells(m, b, t) /\ m.b[b].pos = want[b].pos /\ t \in Seq(Bytes) /\ want[b].pos \in Nat
  BY BeforeStep
<1>2. Leaves(m, y, b, u, want[b].pos)
  BY <1>1, VaddfEffect
<1>3. Do(b, y, u, want[b].pos)
  BY DEF AddF
<1>4. u \in Seq(Bytes)
  BY <1>1
<1>. HIDE DEF y, u
<1>. QED
  BY <1>1, <1>2, <1>3, <1>4, DoStep

\* buf_fread.
LEMMA FreadStep ==
  ASSUME BufInv, Idle, NEW b \in Bufs, NEW s \in Seq(Bytes), NEW size \in Nat, Len(s) <= size, Fread(b, size, s)
  PROVE  BufInv'
<1>. DEFINE y == buf_fread(m, b, size, s)
            t == want[b].text
            u == t \o s
<1>1. Memory(m) /\ Spells(m, b, t) /\ Ends(m, b) /\ m.b[b].pos = want[b].pos /\ t \in Seq(Bytes) /\ want[b].pos \in Nat
  BY BeforeStep
<1>2. Leaves(m, y, b, u, want[b].pos)
  BY <1>1, FreadEffect
<1>3. Do(b, y, u, want[b].pos)
  BY DEF Fread
<1>4. u \in Seq(Bytes)
  BY <1>1
<1>. HIDE DEF y, u
<1>. QED
  BY <1>1, <1>2, <1>3, <1>4, DoStep

\* buf_fgetc.
LEMMA GetcStep ==
  ASSUME BufInv, Idle, NEW b \in Bufs, Getc(b)
  PROVE  BufInv'
<1>. DEFINE y == buf_fgetc(m, b)
            t == want[b].text
            p == IF want[b].pos < Len(want[b].text) THEN want[b].pos + 1 ELSE want[b].pos
<1>1. /\ Memory(m) /\ Spells(m, b, t) /\ Ends(m, b) /\ m.b[b].pos = want[b].pos /\ t \in Seq(Bytes)
      /\ want[b].pos \in Nat /\ m.b[b].len = Len(t) /\ Len(t) \in Nat
  BY BeforeStep
<1>2. Do(b, y, t, p)
  BY DEF Getc
<1>3. p \in Nat
  BY <1>1
<1>4. Leaves(m, y, b, t, p)
  <2>1. CASE want[b].pos < Len(t)
    <3>1. y = [m EXCEPT !.b[b].pos = p] /\ p <= m.b[b].len
      BY <1>1, <2>1 DEF buf_fgetc
    <3>. HIDE DEF y, t, p
    <3>. QED
      BY <1>1, <1>3, <3>1, MoveEffect
  <2>2. CASE ~(want[b].pos < Len(t))
    <3>1. y = m /\ p = m.b[b].pos
      BY <1>1, <2>2 DEF buf_fgetc
    <3>. QED
      BY <1>1, <3>1, NoEffect
  <2>. QED
    BY <2>1, <2>2
<1>. HIDE DEF y, t, p
<1>. QED
  BY <1>1, <1>2, <1>3, <1>4, DoStep

\* buf_ungetc.
LEMMA UngetcStep ==
  ASSUME BufInv, Idle, NEW b \in Bufs, NEW c \in Bytes, Ungetc(b, c)
  PROVE  BufInv'
<1>. DEFINE y == buf_ungetc(m, b, c)
            t == want[b].text
            p == want[b].pos
<1>1. /\ Memory(m) /\ Spells(m, b, t) /\ Ends(m, b) /\ m.b[b].pos = p /\ t \in Seq(Bytes)
      /\ p \in Nat /\ p <= Len(t) /\ Len(t) \in Nat
  BY BeforeStep
<1>2. CASE p = 0
  <2>1. Do(b, y, t, 0)
    BY <1>2 DEF Ungetc
  <2>2. y = m
    BY <1>1, <1>2 DEF buf_ungetc
  <2>3. Leaves(m, y, b, t, 0)
    BY <1>1, <1>2, <2>2, NoEffect
  <2>. HIDE DEF y, t
  <2>. QED
    BY <1>1, <2>1, <2>3, DoStep
<1>3. CASE p # 0
  <2>. DEFINE u == [t EXCEPT ![p] = c]
  <2>1. Do(b, y, u, p - 1)
    BY <1>3 DEF Ungetc
  <2>2. p - 1 \in Nat /\ p > 0
    BY <1>1, <1>3
  <2>3. Leaves(m, y, b, u, p - 1)
    BY <1>1, <2>2, UngetcEffect, Zenon
  <2>4. u \in Seq(Bytes)
    BY <1>1, <1>3
  <2>. HIDE DEF y, u, p
  <2>. QED
    BY <2>1, <2>2, <2>3, <2>4, DoStep
<1>. QED
  BY <1>2, <1>3

\* buf_rewind.
LEMMA RewindStep ==
  ASSUME BufInv, Idle, NEW b \in Bufs, Rewind(b)
  PROVE  BufInv'
<1>. DEFINE y == buf_rewind(m, b)
            t == want[b].text
<1>1. /\ Memory(m) /\ Spells(m, b, t) /\ Ends(m, b) /\ t \in Seq(Bytes) /\ m.b[b].len \in Nat
  BY BeforeStep
<1>2. Do(b, y, t, 0)
  BY DEF Rewind
<1>3. y = [m EXCEPT !.b[b].pos = 0] /\ 0 \in Nat /\ 0 <= m.b[b].len
  BY <1>1 DEF buf_rewind
<1>. HIDE DEF y, t
<1>4. Leaves(m, y, b, t, 0)
  BY <1>1, <1>3, MoveEffect
<1>. QED
  BY <1>1, <1>2, <1>3, <1>4, DoStep

\* buf_setlen, as match_and_extract_block uses it.
LEMMA SetLenStep ==
  ASSUME BufInv, Idle, NEW b \in Bufs, NEW n \in Nat, n <= m.b[b].len, SetLen(b, n)
  PROVE  BufInv'
<1>. DEFINE y == buf_setlen(m, b, n)
            t == want[b].text
            u == SubSeq(t, 1, n)
            p == IF want[b].pos > n THEN n ELSE want[b].pos
<1>1. /\ Memory(m) /\ Spells(m, b, t) /\ m.b[b].pos = want[b].pos /\ t \in Seq(Bytes)
      /\ want[b].pos \in Nat /\ m.b[b].len = Len(t) /\ Len(t) \in Nat
  BY BeforeStep
<1>2. n \in 0 .. Len(t)
  BY <1>1
<1>3. u \in Seq(Bytes) /\ Len(u) = n
  <2>1. 0 \in Nat /\ 0 <= n /\ n <= Len(t) /\ 0 + 1 = 1 /\ n - 0 = n
    BY <1>1
  <2>2. SubSeq(t, 0 + 1, n) \in Seq(Bytes) /\ Len(SubSeq(t, 0 + 1, n)) = n - 0
    BY <1>1, <2>1, PartOf
  <2>. QED
    BY <2>1, <2>2
<1>4. Do(b, y, u, p)
  BY <1>3 DEF SetLen, ClipPos
<1>5. Leaves(m, y, b, u, p)
  BY <1>1, <1>2, SetlenText
<1>6. p \in Nat
  BY <1>1
<1>. HIDE DEF y, u, p
<1>. QED
  BY <1>3, <1>4, <1>5, <1>6, DoStep

\* buf_ltrim and buf_rtrim.
LEMMA TrimStep ==
  ASSUME BufInv, Idle, NEW b \in Bufs, Trim(b)
  PROVE  BufInv'
<1>. DEFINE t == want[b].text
<1>1. /\ Memory(m) /\ Spells(m, b, t) /\ Ends(m, b) /\ m.b[b].pos = want[b].pos /\ t \in Seq(Bytes)
      /\ want[b].pos \in Nat /\ Len(t) \in Nat /\ want[b].pos <= Len(t)
  BY BeforeStep
<1>2. ASSUME NEW k \in 0 .. Len(t), \A i \in 1 .. k : space(t[i]), k # Len(t) => ~space(t[k + 1]),
             Do(b, buf_ltrim(m, b), SubSeq(t, k + 1, Len(t)),
                IF want[b].pos < k THEN 0 ELSE want[b].pos - k)
      PROVE  BufInv'
  <2>. DEFINE p == IF want[b].pos < k THEN 0 ELSE want[b].pos - k
              y == buf_ltrim(m, b)
              u == SubSeq(t, k + 1, Len(t))
  <2>1. k \in Nat /\ k <= Len(t) /\ p \in Nat
    BY <1>1
  <2>2. u \in Seq(Bytes)
    BY <1>1, <2>1, PartOf
  <2>3. Leaves(m, y, b, u, p)
    BY <1>1, <1>2, LtrimEffect, Zenon
  <2>4. Do(b, y, u, p)
    BY <1>2
  <2>. HIDE DEF p, y, u
  <2>. QED
    BY <2>1, <2>2, <2>3, <2>4, DoStep
<1>3. ASSUME NEW k \in 0 .. Len(t), \A i \in k + 1 .. Len(t) : space(t[i]), k # 0 => ~space(t[k]),
             Do(b, buf_rtrim(m, b), SubSeq(t, 1, k), IF want[b].pos > k THEN k ELSE want[b].pos)
      PROVE  BufInv'
  <2>. DEFINE p == IF want[b].pos > k THEN k ELSE want[b].pos
              y == buf_rtrim(m, b)
              u == SubSeq(t, 1, k)
  <2>1. k \in Nat /\ k <= Len(t) /\ p \in Nat
    BY <1>1
  <2>2. u \in Seq(Bytes)
    <3>1. 0 \in Nat /\ 0 <= k /\ 0 + 1 = 1
      BY <2>1
    <3>2. SubSeq(t, 0 + 1, k) \in Seq(Bytes)
      BY <1>1, <2>1, <3>1, PartOf
    <3>. QED
      BY <3>1, <3>2
  <2>3. Leaves(m, y, b, u, p)
    BY <1>1, <1>3, RtrimEffect, Zenon
  <2>4. Do(b, y, u, p)
    BY <1>3
  <2>. HIDE DEF p, y, u
  <2>. QED
    BY <2>1, <2>2, <2>3, <2>4, DoStep
<1>. QED
  BY <1>2, <1>3, Zenon DEF Trim

\* buf_splice.
LEMMA SpliceStep ==
  ASSUME BufInv, Idle, NEW b \in Bufs, NEW off \in Int, NEW n \in Nat, NEW s \in Seq(Bytes), Splice(b, off, n, s)
  PROVE  BufInv'
<1>. DEFINE y  == buf_splice(m, b, off, n, s)
            t  == want[b].text
            at == From(t, off)
            u  == Spliced(t, at, n, s)
            p  == IF m.b[b].pos > Len(u) THEN Len(u) ELSE m.b[b].pos
<1>1. Memory(m) /\ Spells(m, b, t) /\ m.b[b].pos = want[b].pos /\ t \in Seq(Bytes) /\ want[b].pos \in Nat /\ Len(t) \in Nat
  BY BeforeStep
<1>2. at >= 0 /\ at + n <= Len(t) /\ Do(b, y, u, y.b[b].pos)
  BY DEF Splice, From, Spliced
<1>3. at \in Nat
  BY <1>1, <1>2 DEF From
<1>4. at = From(t, off) /\ u = Spliced(t, at, n, s) /\ y = buf_splice(m, b, off, n, s)
  OBVIOUS
<1>5. u \in Seq(Bytes)
  <2>. DEFINE k == at + n
  <2>0. Len(t) \in Nat /\ at \in Nat /\ k <= Len(t)
    BY <1>1, <1>2, <1>3, Zenon
  <2>. HIDE DEF at, t
  <2>1. k \in Nat /\ k <= Len(t) /\ at <= Len(t) /\ 0 \in Nat /\ 0 <= at /\ 0 + 1 = 1
    BY <2>0
  <2>. HIDE DEF k
  <2>2. SubSeq(t, 0 + 1, at) \in Seq(Bytes)
    BY <1>1, <1>3, <2>1, PartOf
  <2>3. SubSeq(t, k + 1, Len(t)) \in Seq(Bytes)
    BY <1>1, <2>1, PartOf
  <2>4. SubSeq(t, 1, at) \in Seq(Bytes)
    BY <2>1, <2>2
  <2>. QED
    BY <2>3, <2>4 DEF Spliced, k
<1>. HIDE DEF y, at, u
<1>6. Leaves(m, y, b, u, p)
  BY <1>1, <1>2, <1>3, <1>4, SpliceEffect, Zenon
<1>7. y.b[b].pos = p
  BY <1>6, Zenon DEF Leaves
<1>8. p \in Nat
  BY <1>1, <1>5
<1>9. Do(b, y, u, p)
  BY <1>2, <1>7
<1>. HIDE DEF p
<1>. QED
  BY <1>5, <1>6, <1>8, <1>9, DoStep

\* buf_detach gives a block away that nobody else has, and leaves an empty buffer.
LEMMA DetachStep ==
  ASSUME BufInv, NEW b \in Bufs, Detach(b)
  PROVE  BufInv'
<1>. DEFINE n == buf_grow(m, b, 0)
            t == want[b].text
            p == n.b[b].buf
<1>1. Idle /\ m' = buf_init(n, b, 0) /\ held' = held \cup {p} /\ io' = io
      /\ want' = [want EXCEPT ![b] = [text |-> << >>, pos |-> 0]]
  BY DEF Detach, buf_detach
<1>2. Memory(m) /\ Rest(m, held) /\ Spells(m, b, t)
  BY <1>1, BeforeStep, Zenon DEF BufInv
<1>3. Roomy(m, n, b, t, 0)
  <2>1. 0 \in Nat /\ n = buf_grow(m, b, 0)
    OBVIOUS
  <2>. HIDE DEF n
  <2>. QED
    BY <1>2, <2>1, BufGrowEffect
<1>. HIDE DEF n
<1>4. Memory(n) /\ Only(m, n, b) /\ n.b[b].alloc # 0
  <2>1. Memory(n) /\ Only(m, n, b) /\ n.b[b].alloc > m.b[b].len + 0
    BY <1>3 DEF Roomy
  <2>2. m.b[b].len \in Nat /\ n.b[b].alloc \in Nat
    BY <1>2, <2>1, BufferType, Zenon
  <2>. QED
    BY <2>1, <2>2
<1>5. Rest(n, held)
  BY <1>2, <1>4, OnlyRest
<1>6. /\ n = [blk |-> n.blk, b |-> n.b] /\ n.b \in [Bufs -> Struct]
      /\ p \in DOMAIN n.blk /\ p # 0 /\ 0 \in DOMAIN n.blk /\ n.blk[0] = [i \in {0} |-> NUL]
  BY <1>4 DEF Memory, Good
<1>7. m' = [blk |-> n.blk, b |-> [n.b EXCEPT ![b] = Empty]]
  BY <1>1, <1>6 DEF buf_init
<1>8. Empty \in Struct /\ Empty.buf = 0 /\ Empty.alloc = 0 /\ Empty.len = 0 /\ Empty.pos = 0
  BY DEF Empty, Struct
<1>9. /\ m'.blk = n.blk /\ m' = [blk |-> m'.blk, b |-> m'.b]
      /\ m'.b \in [Bufs -> Struct] /\ m'.b[b] = Empty /\ \A c \in Bufs \ {b} : m'.b[c] = n.b[c]
  <2>1. m'.blk = n.blk /\ m'.b = [n.b EXCEPT ![b] = Empty] /\ m' = [blk |-> m'.blk, b |-> m'.b]
    BY <1>7
  <2>. QED
    BY <1>6, <1>8, <2>1
<1>10. Good(m', b) /\ Block(m', b) = [i \in {0} |-> NUL]
  <2>1. Block(m', b) = [i \in {0} |-> NUL]
    BY <1>6, <1>8, <1>9 DEF Block
  <2>2. Size(m'.b[b]) = 1 /\ 0 .. 1 - 1 = {0}
    BY <1>8, <1>9 DEF Size
  <2>. QED
    BY <1>6, <1>8, <1>9, <2>1, <2>2 DEF Good
<1>11. \A c \in Bufs \ {b} : Good(m', c) /\ Block(m', c) = Block(n, c)
  BY <1>4, <1>9 DEF Memory, Good, Block
<1>12. Memory(m')
  <2>1. \A c \in Bufs : Good(m', c)
    BY <1>10, <1>11
  <2>2. \A c, d \in Bufs : c # d /\ m'.b[c].buf = m'.b[d].buf => m'.b[c].buf = 0
    BY <1>4, <1>8, <1>9 DEF Memory
  <2>. QED
    BY <1>4, <1>9, <2>1, <2>2 DEF Memory
<1>13. Rest(m', held')
  <2>1. held' \subseteq DOMAIN m'.blk \ {0}
    BY <1>1, <1>5, <1>6, <1>9 DEF Rest
  <2>2. \A c \in Bufs : m'.b[c].buf \notin held'
    <3>1. \A c \in Bufs \ {b} : n.b[c].buf # p
      BY <1>4, <1>6 DEF Memory
    <3>2. m'.b[b].buf \notin held'
      BY <1>1, <1>5, <1>6, <1>8, <1>9 DEF Rest
    <3>. QED
      BY <1>1, <1>5, <1>9, <3>1, <3>2 DEF Rest
  <2>3. ASSUME NEW q \in DOMAIN m'.blk \ {0}, q \notin held'
        PROVE  \E c \in Bufs : m'.b[c].buf = q
    <3>1. PICK c \in Bufs : n.b[c].buf = q
      BY <1>1, <1>5, <1>9, <2>3 DEF Rest
    <3>2. c # b
      BY <1>1, <2>3, <3>1
    <3>. QED
      BY <1>9, <3>1, <3>2
  <2>. QED
    BY <2>1, <2>2, <2>3 DEF Rest
<1>14. /\ want' \in [Bufs -> [text : Seq(Bytes), pos : Nat]]
       /\ want'[b].text = << >> /\ want'[b].pos = 0 /\ \A c \in Bufs \ {b} : want'[c] = want[c]
  <2>1. << >> \in Seq(Bytes) /\ 0 \in Nat /\ want \in [Bufs -> [text : Seq(Bytes), pos : Nat]]
    BY DEF BufInv
  <2>. QED
    BY <1>1, <2>1
<1>15. Kept(b)'
  <2>1. Spells(m', b, << >>) /\ Ends(m', b) /\ m'.b[b].pos = 0
    BY <1>8, <1>9, <1>10 DEF Spells, Ends
  <2>. QED
    BY <1>14, <2>1 DEF Kept, Spells, Ends, Block
<1>16. ASSUME NEW c \in Bufs, c # b
       PROVE  Kept(c)'
  <2>1. Kept(c)
    BY <1>1 DEF BufInv
  <2>2. n.b[c] = m.b[c] /\ Block(n, c) = Block(m, c)
    BY <1>2, <1>4, <1>16, OnlyOther, SMTT(30)
  <2>3. m'.b[c] = m.b[c] /\ Block(m', c) = Block(m, c) /\ want'[c] = want[c]
    BY <1>9, <1>11, <1>14, <1>16, <2>2
  <2>. QED
    BY <2>1, <2>3, Zenon DEF Kept, Spells, Ends, Block
<1>17. Idle'
  BY <1>1 DEF Idle
<1>. QED
  BY <1>12, <1>13, <1>14, <1>15, <1>16, <1>17, Zenon DEF BufInv

\* Freeing a block that was given away touches no buffer.
LEMMA FreeStep ==
  ASSUME BufInv, NEW p \in held, Free(p)
  PROVE  BufInv'
<1>1. /\ Idle /\ held' = held \ {p} /\ want' = want /\ io' = io
      /\ m' = [m EXCEPT !.blk = [q \in DOMAIN m.blk \ {p} |-> m.blk[q]]]
  BY DEF Free
<1>2. Memory(m) /\ Rest(m, held) /\ m = [blk |-> m.blk, b |-> m.b]
  BY DEF BufInv, Memory
<1>3. m' = [blk |-> [q \in DOMAIN m.blk \ {p} |-> m.blk[q]], b |-> m.b]
  BY <1>1, <1>2
<1>4. /\ m'.b = m.b /\ m' = [blk |-> m'.blk, b |-> m'.b] /\ DOMAIN m'.blk = DOMAIN m.blk \ {p}
      /\ \A q \in DOMAIN m.blk \ {p} : m'.blk[q] = m.blk[q]
  BY <1>3
<1>5. p # 0 /\ \A c \in Bufs : m.b[c].buf # p
  BY <1>2 DEF Rest
<1>6. ASSUME NEW c \in Bufs
      PROVE  Good(m', c) /\ Block(m', c) = Block(m, c)
  <2>1. Good(m, c)
    BY <1>2 DEF Memory
  <2>. QED
    BY <1>4, <1>5, <2>1 DEF Good, Block
<1>7. Memory(m')
  <2>1. IsFiniteSet(DOMAIN m.blk) /\ DOMAIN m'.blk \in SUBSET (DOMAIN m.blk)
    BY <1>2, <1>4 DEF Memory
  <2>2. IsFiniteSet(DOMAIN m'.blk)
    BY <2>1, FS_Subset
  <2>. QED
    BY <1>2, <1>4, <1>5, <1>6, <2>2 DEF Memory
<1>8. Rest(m', held')
  BY <1>1, <1>2, <1>4, <1>5 DEF Rest
<1>9. ASSUME NEW c \in Bufs
      PROVE  Kept(c)'
  <2>1. Kept(c)
    BY <1>1 DEF BufInv
  <2>. QED
    BY <1>1, <1>4, <1>6, <2>1, Zenon DEF Kept, Spells, Ends, Block
<1>10. Idle' /\ want' \in [Bufs -> [text : Seq(Bytes), pos : Nat]]
  BY <1>1 DEF Idle, BufInv
<1>. QED
  BY <1>7, <1>8, <1>9, <1>10 DEF BufInv

\* Reading begins or goes on in buffer b, and the others keep their text.
LEMMA ReadingStep ==
  ASSUME BufInv, NEW b \in Bufs, Idle \/ io.b = b, Memory(m'), Only(m, m', b), want' = want,
         held' = held, io' \in Reads, io'.b = b, Restorable(b)'
  PROVE  BufInv'
<1>1. Memory(m) /\ want \in [Bufs -> [text : Seq(Bytes), pos : Nat]]
  BY DEF BufInv
<1>2. Rest(m', held')
  <2>1. Rest(m', held)
    BY <1>1, OnlyRest DEF BufInv
  <2>. QED
    BY <2>1
<1>3. ~Idle'
  BY BufferAssumption DEF Idle
<1>4. ASSUME NEW c \in Bufs, c # b
      PROVE  Kept(c)'
  <2>1. Kept(c) /\ want'[c] = want[c]
    BY <1>4 DEF BufInv
  <2>. QED
    BY <1>1, <1>4, <2>1, OthersKept
<1>5. Restorable(io.b)'
  BY Zenon DEF Restorable, Spells, Block
<1>. QED
  BY <1>1, <1>2, <1>3, <1>4, <1>5 DEF BufInv

\* buf_read makes room.
LEMMA ReadBeginStep ==
  ASSUME BufInv, NEW b \in Bufs, NEW hint \in Nat, ReadBegin(b, hint)
  PROVE  BufInv'
<1>. DEFINE t == want[b].text
            n == IF hint # 0 THEN hint ELSE CHUNK
<1>0. n \in Nat
  BY SizesAssumption
<1>1. /\ Idle /\ m' = buf_grow(m, b, n) /\ want' = want /\ held' = held
      /\ io' = [b |-> b, oldalloc |-> m.b[b].alloc, oldlen |-> m.b[b].len, got |-> << >>]
  BY DEF ReadBegin
<1>2. /\ Memory(m) /\ Spells(m, b, t) /\ m.b[b].pos = want[b].pos /\ t \in Seq(Bytes)
      /\ m.b[b].len = Len(t) /\ want[b].pos <= Len(t)
  BY <1>1, BeforeStep, Zenon
<1>3. m.b[b].alloc \in Nat /\ m.b[b].len \in Nat /\ (m.b[b].alloc = 0 => m.b[b].len = 0)
  BY <1>2, BufferType
<1>. HIDE DEF n
<1>4. Roomy(m, m', b, t, n)
  BY <1>0, <1>1, <1>2, BufGrowEffect, Zenon
<1>5. /\ Memory(m') /\ Only(m, m', b) /\ Spells(m', b, t) /\ m'.b[b].pos = m.b[b].pos
      /\ m'.b[b].alloc > m.b[b].len + n
  BY <1>4 DEF Roomy
<1>6. m'.b[b].alloc # 0
  <2>1. m'.b[b].alloc \in Nat
    BY <1>5, BufferType
  <2>. QED
    BY <1>0, <1>3, <1>5, <2>1
<1>7. /\ io' \in Reads /\ io'.b = b
      /\ io'.oldalloc = m.b[b].alloc /\ io'.oldlen = m.b[b].len /\ io'.got = << >>
  <2>1. << >> \in Seq(Bytes)
    OBVIOUS
  <2>. QED
    BY <1>1, <1>3, <2>1, Zenon DEF Reads
<1>8. Spells(m', b, t \o << >>)
  <2>1. t \o << >> = t
    BY <1>2, ConcatEmptySeq
  <2>. QED
    BY <1>5, <2>1, Zenon
<1>9. m.b[b].alloc = 0 => t = << >>
  BY <1>2, <1>3, EmptySeq
<1>10. Restorable(b)'
  <2>1. want'[b].text = t /\ want'[b].pos = want[b].pos
    BY <1>1, Zenon
  <2>. HIDE DEF t
  <2>2. Spells(m', b, want'[b].text \o io'.got)
    BY <1>7, <1>8, <2>1, Zenon
  <2>. QED
    BY <1>2, <1>5, <1>6, <1>7, <1>9, <2>1, <2>2, Zenon DEF Restorable, Spells, Block
<1>. QED
  BY <1>1, <1>5, <1>7, <1>10, ReadingStep, Zenon

\* What the proofs of the steps of buf_read start from.
LEMMA Reading ==
  ASSUME BufInv, ~Idle, NEW b, b = io.b
  PROVE  /\ b \in Bufs /\ Memory(m) /\ io.oldalloc \in Nat /\ io.oldlen \in Nat /\ io.got \in Seq(Bytes)
         /\ want[b].text \in Seq(Bytes) /\ want[b].pos \in Nat /\ Restorable(b)
<1>1. io \in Reads /\ Restorable(io.b) /\ Memory(m)
  BY DEF BufInv
<1>2. b \in Bufs /\ io.oldalloc \in Nat /\ io.oldlen \in Nat /\ io.got \in Seq(Bytes) /\ Restorable(b)
  BY <1>1 DEF Reads
<1>. QED
  BY <1>1, <1>2, WantType

\* read delivers some bytes.
LEMMA ReadSomeStep ==
  ASSUME BufInv, NEW s \in Seq(Bytes), ReadSome(s)
  PROVE  BufInv'
<1>2. PICK b \in Bufs : b = io.b
  <2>1. ~Idle
    BY Zenon DEF ReadSome
  <2>. QED
    BY <2>1, Reading
<1>. DEFINE u == want[b].text
            r == io.got
<1>1. /\ ~Idle /\ Len(s) <= buf_avail(m, b) /\ want' = want /\ held' = held
      /\ io' = [io EXCEPT !.got = r \o s] /\ m' = Received(m, b, s)
  BY <1>2, Zenon DEF ReadSome, Received
<1>3. b \in Bufs /\ Memory(m) /\ u \in Seq(Bytes) /\ r \in Seq(Bytes) /\ Restorable(b)
  BY <1>1, <1>2, Reading
<1>4. Spells(m, b, u \o r)
  BY <1>3 DEF Restorable
<1>. HIDE DEF r
<1>. DEFINE t == u \o r
<1>5. t \in Seq(Bytes) /\ Spells(m, b, t) /\ m.b[b].alloc # 0
  BY <1>3, <1>4 DEF Restorable
<1>6. r \o s \in Seq(Bytes) /\ t \o s = u \o (r \o s)
  <2>. HIDE DEF u
  <2>. QED
    BY <1>3, ConcatAssociative, SMTT(20)
<1>. HIDE DEF t, u
<1>7. Len(t) + Len(s) < Size(m.b[b])
  <2>1. m.b[b].len = Len(t) /\ Len(t) \in Nat /\ Len(s) \in Nat
    BY <1>5 DEF Spells
  <2>2. m.b[b].alloc \in Nat
    BY <1>3, BufferType
  <2>3. Len(s) <= m.b[b].alloc - Len(t) - 1 /\ Size(m.b[b]) = m.b[b].alloc
    BY <1>1, <1>5, <2>1, <2>2 DEF buf_avail, Size
  <2>. QED
    BY <2>1, <2>2, <2>3
<1>8. /\ Memory(m') /\ Only(m, m', b) /\ Spells(m', b, t \o s) /\ m'.b[b].pos = m.b[b].pos
      /\ m'.b[b].alloc # 0
  <2>1. Filled(m, m', b, t \o s)
    BY <1>1, <1>3, <1>5, <1>7, ReceiveEffect
  <2>. QED
    BY <2>1 DEF Filled
<1>9. io' \in Reads /\ io'.b = b /\ io'.oldalloc = io.oldalloc /\ io'.oldlen = io.oldlen /\ io'.got = r \o s
  <2>1. io \in Reads
    BY <1>1 DEF BufInv
  <2>. QED
    BY <1>1, <1>2, <1>6, <2>1, Zenon DEF Reads
<1>10. Restorable(b)'
  <2>1. want'[b].text = u /\ want'[b].pos = want[b].pos
    BY <1>1 DEF u
  <2>2. Spells(m', b, want'[b].text \o io'.got)
    BY <1>6, <1>8, <1>9, <2>1, Zenon
  <2>3. io.oldlen = Len(u) /\ m.b[b].pos = want[b].pos /\ want[b].pos <= io.oldlen /\ (io.oldalloc = 0 => u = << >>)
    BY <1>3 DEF Restorable, u
  <2>. QED
    BY <1>8, <1>9, <2>1, <2>2, <2>3, Zenon DEF Restorable, Spells, Block
<1>. QED
  BY <1>1, <1>2, <1>3, <1>8, <1>9, <1>10, ReadingStep, Zenon

\* buf_read is over, and leaves in its buffer what it is to leave.
LEMMA ReadDoneStep ==
  ASSUME BufInv, ~Idle, NEW b \in Bufs, b = io.b, NEW t \in Seq(Bytes), NEW p \in Nat,
         Leaves(m, m', b, t, p), io' = NONE, held' = held,
         want' = [want EXCEPT ![b] = [text |-> t, pos |-> p]]
  PROVE  BufInv'
<1>1. Memory(m) /\ Memory(m') /\ Only(m, m', b)
  BY DEF BufInv, Leaves
<1>2. Rest(m', held')
  <2>1. Rest(m', held)
    BY <1>1, OnlyRest DEF BufInv
  <2>. QED
    BY <2>1
<1>3. /\ want' \in [Bufs -> [text : Seq(Bytes), pos : Nat]]
      /\ want'[b].text = t /\ want'[b].pos = p /\ \A c \in Bufs \ {b} : want'[c] = want[c]
  BY DEF BufInv
<1>4. Idle'
  BY DEF Idle
<1>5. Kept(b)'
  BY <1>3, Zenon DEF Leaves, Kept, Spells, Ends, Block
<1>6. ASSUME NEW c \in Bufs, c # b
      PROVE  Kept(c)'
  <2>1. Kept(c)
    BY <1>6 DEF BufInv
  <2>. QED
    BY <1>1, <1>3, <1>6, <2>1, OthersKept
<1>. QED
  BY <1>1, <1>2, <1>3, <1>4, <1>5, <1>6 DEF BufInv

\* At the end of the file the text is ended.
LEMMA ReadEndStep ==
  ASSUME BufInv, ReadEnd
  PROVE  BufInv'
<1>. DEFINE b == io.b
            u == want[b].text
<1>1. /\ ~Idle /\ m' = Put(m, b, m.b[b].len, <<NUL>>) /\ io' = NONE /\ held' = held
      /\ want' = [want EXCEPT ![b].text = u \o io.got]
  BY DEF ReadEnd
<1>2. b = io.b
  OBVIOUS
<1>. HIDE DEF b
<1>. DEFINE r == io.got
<1>3. b \in Bufs /\ Memory(m) /\ u \in Seq(Bytes) /\ r \in Seq(Bytes) /\ want[b].pos \in Nat /\ Restorable(b)
  BY <1>1, <1>2, Reading
<1>4. Spells(m, b, u \o r)
  BY <1>3 DEF Restorable
<1>. DEFINE t == u \o r
<1>5. t \in Seq(Bytes) /\ Spells(m, b, t) /\ m.b[b].pos = want[b].pos
  BY <1>3, <1>4 DEF Restorable
<1>. HIDE DEF t
<1>6. want' = [want EXCEPT ![b] = [text |-> t, pos |-> want[b].pos]]
  <2>1. want' = [want EXCEPT ![b].text = t]
    BY <1>1, Zenon DEF t
  <2>2. want[b] \in [text : Seq(Bytes), pos : Nat] /\ want \in [Bufs -> [text : Seq(Bytes), pos : Nat]]
    BY <1>3 DEF BufInv
  <2>3. [want[b] EXCEPT !.text = t] = [text |-> t, pos |-> want[b].pos]
    <3>. DEFINE x == want[b]
    <3>1. x \in [text : Seq(Bytes), pos : Nat]
      BY <2>2
    <3>. HIDE DEF x
    <3>2. [x EXCEPT !.text = t] = [text |-> t, pos |-> x.pos]
      BY <3>1
    <3>. QED
      BY <3>2 DEF x
  <2>. QED
    BY <2>1, <2>3, Zenon
<1>7. Leaves(m, m', b, t, want[b].pos)
  <2>1. m.b[b].len = Len(t) /\ Len(t) \in Nat /\ Size(m.b[b]) \in Nat /\ m.b[b].len < Size(m.b[b])
    BY <1>3, <1>5, BufferType DEF Spells
  <2>. DEFINE d == <<NUL>>
              w == m'
  <2>2. Len(d) \in Nat /\ Len(d) = 1 /\ d[1] = NUL /\ Len(t) + Len(d) <= Size(m.b[b]) /\ OnlyNull(m, b, d)
    BY <2>1 DEF OnlyNull
  <2>3. w = Put(m, b, Len(t), d)
    BY <1>1, <2>1
  <2>. HIDE DEF d
  <2>4. Wrote(m, w, b, Len(t), d)
    BY <1>3, <2>1, <2>2, <2>3, PutEffect, Zenon
  <2>. HIDE DEF w
  <2>5. Memory(w) /\ Only(m, w, b) /\ w.b = m.b
    BY <2>4 DEF Wrote
  <2>6. \A i \in 0 .. Size(m.b[b]) - 1 :
          Block(w, b)[i] = IF Len(t) <= i /\ i < Len(t) + 1 THEN d[i - Len(t) + 1] ELSE Block(m, b)[i]
    BY <2>2, <2>4 DEF Wrote
  <2>7. Ends(w, b)
    <3>1. Len(t) \in 0 .. Size(m.b[b]) - 1 /\ Len(t) < Len(t) + 1 /\ Len(t) - Len(t) + 1 = 1
      BY <2>1
    <3>2. Block(w, b)[Len(t)] = d[Len(t) - Len(t) + 1]
      BY <2>1, <2>6, <3>1
    <3>. QED
      BY <2>1, <2>2, <2>5, <3>1, <3>2 DEF Ends
  <2>8. Spells(w, b, t)
    <3>1. ASSUME NEW i \in 1 .. Len(t)
          PROVE  Block(w, b)[i - 1] = t[i]
      <4>1. i - 1 \in 0 .. Size(m.b[b]) - 1 /\ ~(Len(t) <= i - 1)
        BY <2>1
      <4>. QED
        BY <1>5, <2>6, <4>1 DEF Spells
    <3>. QED
      BY <2>1, <2>5, <3>1 DEF Spells
  <2>9. Leaves(m, w, b, t, want[b].pos)
    BY <1>5, <2>5, <2>7, <2>8 DEF Leaves
  <2>. QED
    BY <2>9 DEF w
<1>. QED
  BY <1>1, <1>2, <1>3, <1>5, <1>6, <1>7, ReadDoneStep, Zenon

\* A failed buf_read leaves the buffer as it was.
LEMMA ReadFailStep ==
  ASSUME BufInv, ReadFail
  PROVE  BufInv'
<1>. DEFINE b == io.b
            u == want[b].text
<1>1. /\ ~Idle /\ io' = NONE /\ want' = want /\ held' = held
      /\ m' = IF io.oldalloc > 0 THEN buf_setlen(m, b, io.oldlen) ELSE buf_release(m, b)
  BY DEF ReadFail
<1>2. b = io.b
  OBVIOUS
<1>. HIDE DEF b
<1>. DEFINE r == io.got
<1>3. /\ b \in Bufs /\ Memory(m) /\ u \in Seq(Bytes) /\ want[b].pos \in Nat /\ Restorable(b)
      /\ io.oldalloc \in Nat /\ io.oldlen \in Nat /\ r \in Seq(Bytes)
  BY <1>1, <1>2, Reading
<1>4. Spells(m, b, u \o r)
  BY <1>3 DEF Restorable
<1>. HIDE DEF r
<1>. DEFINE t == u \o r
<1>5. /\ t \in Seq(Bytes) /\ Spells(m, b, t) /\ m.b[b].pos = want[b].pos /\ m.b[b].alloc # 0
      /\ io.oldlen = Len(u) /\ want[b].pos <= io.oldlen /\ (io.oldalloc = 0 => u = << >>)
  BY <1>3, <1>4 DEF Restorable
<1>6. Len(u) \in 0 .. Len(t) /\ SubSeq(t, 1, Len(u)) = u
  <2>1. Len(u) \in Nat /\ Len(r) \in Nat /\ Len(t) = Len(u) + Len(r)
    BY <1>3
  <2>2. SubSeq(t, 1, Len(u)) = u
    <3>. DEFINE v == SubSeq(t, 1, Len(u))
    <3>1. 0 \in Nat /\ 0 <= Len(u) /\ Len(u) <= Len(t) /\ 0 + 1 = 1 /\ Len(u) - 0 = Len(u)
      BY <2>1
    <3>2. v \in Seq(Bytes) /\ Len(v) = Len(u) /\ \A i \in 1 .. Len(u) : v[i] = t[i]
      <4>1. /\ SubSeq(t, 0 + 1, Len(u)) \in Seq(Bytes) /\ Len(SubSeq(t, 0 + 1, Len(u))) = Len(u) - 0
            /\ \A i \in 1 .. Len(u) - 0 : SubSeq(t, 0 + 1, Len(u))[i] = t[0 + i]
        BY <1>5, <2>1, <3>1, PartOf
      <4>2. \A i \in 1 .. Len(u) : 0 + i = i
        BY <2>1
      <4>. QED
        BY <3>1, <4>1, <4>2
    <3>3. \A i \in 1 .. Len(u) : t[i] = u[i]
      BY <1>3, ConcatProperties
    <3>. HIDE DEF v, t, u
    <3>4. v = u
      BY <1>3, <3>2, <3>3, SeqEqual, SMTT(20)
    <3>. QED
      BY <3>4 DEF v
  <2>. QED
    BY <2>1, <2>2
<1>. HIDE DEF t
<1>7. want' = [want EXCEPT ![b] = [text |-> u, pos |-> want[b].pos]]
  <2>1. want[b] \in [text : Seq(Bytes), pos : Nat] /\ want \in [Bufs -> [text : Seq(Bytes), pos : Nat]]
    BY <1>3 DEF BufInv
  <2>2. want[b] = [text |-> u, pos |-> want[b].pos]
    BY <2>1
  <2>. QED
    BY <1>1, <2>1, <2>2
<1>. HIDE DEF u
<1>8. Leaves(m, m', b, u, want[b].pos)
  <2>1. CASE io.oldalloc > 0
    <3>. DEFINE k == Len(u)
                w == m'
    <3>1. k \in 0 .. Len(t) /\ w = buf_setlen(m, b, k) /\ SubSeq(t, 1, k) = u
      BY <1>1, <1>5, <1>6, <2>1
    <3>2. m.b[b].pos = want[b].pos /\ ~(m.b[b].pos > k)
      BY <1>3, <1>5
    <3>. HIDE DEF k, w
    <3>3. Leaves(m, w, b, SubSeq(t, 1, k), IF m.b[b].pos > k THEN k ELSE m.b[b].pos)
      BY <1>3, <1>5, <3>1, SetlenText, Zenon
    <3>. QED
      BY <3>1, <3>2, <3>3, Zenon DEF w
  <2>2. CASE ~(io.oldalloc > 0)
    <3>1. io.oldalloc = 0
      BY <1>3, <2>2
    <3>2. u = << >> /\ Len(u) = 0 /\ want[b].pos = 0
      BY <1>3, <1>5, <3>1
    <3>3. Leaves(m, m', b, << >>, 0)
      BY <1>1, <1>3, <1>5, <2>2, ReleaseEffect, SMTT(20)
    <3>. QED
      BY <3>2, <3>3
  <2>. QED
    BY <2>1, <2>2
<1>. QED
  BY <1>1, <1>2, <1>3, <1>7, <1>8, ReadDoneStep, Zenon DEF u

\* At first all buffers share the empty string of buf_initial.
LEMMA BufInitInv ==
  ASSUME BufInit
  PROVE  BufInv
<1>1. /\ m = [blk |-> [p \in {0} |-> [i \in {0} |-> NUL]], b |-> [b \in Bufs |-> Empty]]
      /\ want = [b \in Bufs |-> [text |-> << >>, pos |-> 0]] /\ io = NONE /\ held = {}
  BY DEF BufInit
<1>2. /\ m = [blk |-> m.blk, b |-> m.b] /\ DOMAIN m.blk = {0} /\ m.blk[0] = [i \in {0} |-> NUL]
      /\ \A b \in Bufs : m.b[b] = Empty
  BY <1>1
<1>3. Empty \in Struct /\ Empty.buf = 0 /\ Empty.alloc = 0 /\ Empty.len = 0 /\ Empty.pos = 0 /\ Size(Empty) = 1
  BY DEF Empty, Struct, Size
<1>4. m.b \in [Bufs -> Struct]
  BY <1>1, <1>3
<1>5. ASSUME NEW b \in Bufs
      PROVE  Good(m, b) /\ Block(m, b) = [i \in {0} |-> NUL]
  <2>1. 0 .. 1 - 1 = {0}
    OBVIOUS
  <2>2. Block(m, b) = [i \in {0} |-> NUL] /\ DOMAIN Block(m, b) = {0}
    BY <1>2, <1>3 DEF Block
  <2>. QED
    BY <1>2, <1>3, <2>1, <2>2 DEF Good
<1>6. Memory(m)
  <2>1. IsFiniteSet(DOMAIN m.blk)
    BY <1>2, FS_Singleton, Zenon
  <2>. QED
    BY <1>2, <1>3, <1>4, <1>5, <2>1 DEF Memory
<1>7. Rest(m, held)
  BY <1>1, <1>2 DEF Rest
<1>8. want \in [Bufs -> [text : Seq(Bytes), pos : Nat]]
  <2>1. << >> \in Seq(Bytes) /\ 0 \in Nat
    OBVIOUS
  <2>. QED
    BY <1>1, <2>1
<1>9. ASSUME NEW b \in Bufs
      PROVE  Kept(b)
  <2>1. want[b].text = << >> /\ want[b].pos = 0 /\ Len(<< >>) = 0
    BY <1>1
  <2>2. m.b[b].len = 0 /\ m.b[b].pos = 0 /\ Block(m, b)[0] = NUL
    BY <1>2, <1>3, <1>5
  <2>. QED
    BY <2>1, <2>2 DEF Kept, Spells, Ends
<1>. QED
  BY <1>1, <1>6, <1>7, <1>8, <1>9 DEF BufInv, Idle

\* Nothing happens between two attempts to read.
LEMMA BufStutter ==
  ASSUME BufInv, UNCHANGED bufvars
  PROVE  BufInv'
<1>1. m' = m /\ want' = want /\ io' = io /\ held' = held
  BY DEF bufvars
<1>. QED
  BY <1>1, Zenon DEF BufInv, Memory, Rest, Idle, Restorable, Kept, Good, Spells, Ends, Block

\* Every step keeps the invariant.
LEMMA BufStepInv ==
  ASSUME BufInv, BufNext
  PROVE  BufInv'
<1>0. MaxLen \in Nat
  BY BufferAssumption
<1>1. ASSUME Idle, NEW b \in Bufs, Release(b) \/ Getc(b) \/ Rewind(b) \/ Trim(b) \/ Detach(b)
      PROVE  BufInv'
  BY <1>1, ReleaseStep, GetcStep, RewindStep, TrimStep, DetachStep
<1>2. ASSUME Idle, NEW b \in Bufs, NEW c \in Bytes, Ungetc(b, c) \/ AddCh(b, c)
      PROVE  BufInv'
  BY <1>2, UngetcStep, AddChStep
<1>3. ASSUME Idle, NEW b \in Bufs, NEW s \in Strings(Room(b)),
             Add(b, s) \/ AddF(b, s) \/ \E size \in {Len(s), Len(s) + 1} : Fread(b, size, s)
      PROVE  BufInv'
  <2>1. Room(b) \in Int
    BY <1>0, WantType DEF Room
  <2>2. s \in Seq(Bytes) /\ Len(s) \in Nat
    BY <2>1, StringType
  <2>3. ASSUME NEW size \in {Len(s), Len(s) + 1}, Fread(b, size, s)
        PROVE  BufInv'
    <3>1. size \in Nat /\ Len(s) <= size
      BY <2>2
    <3>. QED
      BY <1>3, <2>2, <2>3, <3>1, FreadStep
  <2>. QED
    BY <1>3, <2>2, <2>3, AddStep, AddFStep
<1>4. ASSUME Idle, NEW b \in Bufs, NEW n \in 0 .. MaxLen,
             Grow(b, n) \/ ReadBegin(b, n) \/ (n <= m.b[b].len /\ SetLen(b, n))
      PROVE  BufInv'
  <2>1. n \in Nat
    BY <1>0
  <2>. QED
    BY <1>4, <2>1, GrowStep, SetLenStep, ReadBeginStep
<1>5. ASSUME Idle, NEW b \in Bufs, NEW off \in -1 .. MaxLen, NEW len \in 0 .. MaxLen,
             NEW s \in Strings(MaxLen), Splice(b, off, len, s)
      PROVE  BufInv'
  <2>1. off \in Int /\ len \in Nat /\ MaxLen \in Int
    BY <1>0
  <2>2. s \in Seq(Bytes)
    BY <2>1, StringType
  <2>. QED
    BY <1>5, <2>1, <2>2, SpliceStep
<1>6. ASSUME NEW s \in Strings(MaxLen), ReadSome(s)
      PROVE  BufInv'
  <2>1. MaxLen \in Int
    BY <1>0
  <2>2. s \in Seq(Bytes)
    BY <2>1, StringType
  <2>. QED
    BY <1>6, <2>2, ReadSomeStep
<1>7. ASSUME NEW p \in held, Free(p)
      PROVE  BufInv'
  BY <1>7, FreeStep
<1>8. ASSUME try_read \/ ReadEnd \/ ReadFail
      PROVE  BufInv'
  BY <1>8, BufStutter, ReadEndStep, ReadFailStep DEF try_read
<1>. QED
  BY <1>1, <1>2, <1>3, <1>4, <1>5, <1>6, <1>7, <1>8, Zenon DEF BufNext

\* BufInv holds of every behaviour of buf.c.
LEMMA BufInvariant == BufSpec => []BufInv
<1>1. BufInit => BufInv
  BY BufInitInv
<1>2. BufInv /\ [BufNext]_bufvars => BufInv'
  BY BufStepInv, BufStutter
<1>. QED
  BY <1>1, <1>2, PTL DEF BufSpec

\* A buffer's struct agrees with its block, and no operation of buf.c writes past
\* the block, whatever the growth steps and the bytes.
THEOREM BufTypeCorrect == BufSpec => []BufTypeOK
<1>1. BufInv => BufTypeOK
  BY InvType
<1>. QED
  BY <1>1, BufInvariant, PTL

\* In every order of operations, with reads that come in pieces or fail, a buffer
\* holds the text and the position they call for (buf.c).
THEOREM BufHoldsText == BufSpec => []HoldsText
<1>1. BufInv => HoldsText
  BY InvHolds
<1>. QED
  BY <1>1, BufInvariant, PTL

\* No block is lost or has two owners, and buf_initial stays the empty string.
THEOREM BufOneOwner == BufSpec => []OneOwner
<1>1. BufInv => OneOwner
  BY InvOwner
<1>. QED
  BY <1>1, BufInvariant, PTL
=============================================================================
