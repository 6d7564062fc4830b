------------------------------- MODULE BufUse -------------------------------
(***************************************************************************)
(* Buffers in use: every operation of src/buf.c in every order, with reads *)
(* that go on over several system calls, may be short and may fail.  want  *)
(* is what the buffers should hold, kept by operations on plain sequences. *)
(***************************************************************************)
EXTENDS Buf

CONSTANTS Bufs, Bytes,
          MaxLen,       \* bound on the text of a buffer
          MaxCells,     \* bound on the cells allocated
          NONE

\* A call of buf_read: its buffer, what it remembers of it, and what the file has
\* delivered so far.
Reads == [b : Bufs, oldalloc : Nat, oldlen : Nat, got : Seq(Bytes)]

ASSUME BufferAssumption == MaxLen \in Nat /\ NONE \notin Reads

VARIABLES m,            \* memory
          want,         \* per buffer, the text and the position it stands for
          io,           \* the call of buf_read_file in progress, or NONE
          held          \* addresses that buf_detach gave to callers

bufvars == <<m, want, io, held>>

Strings(n) == UNION {[1..k -> Bytes] : k \in 0..n}

BufInit ==
  /\ m = [blk |-> [p \in {0} |-> [i \in {0} |-> NUL]], b |-> [b \in Bufs |-> Empty]]
  /\ want = [b \in Bufs |-> [text |-> << >>, pos |-> 0]]
  /\ io = NONE
  /\ held = {}

Idle == io = NONE
Fits(mem) ==
  Cardinality(UNION {{p} \X DOMAIN mem.blk[p] : p \in DOMAIN mem.blk}) <= MaxCells
Room(b) == MaxLen - Len(want[b].text)

\* One operation: its effect on memory, and the text and position it should leave.
Do(b, mem, text, pos) ==
  /\ Idle /\ Fits(mem)
  /\ m' = mem
  /\ want' = [want EXCEPT ![b] = [text |-> text, pos |-> pos]]
  /\ UNCHANGED <<io, held>>

ClipPos(b, text) == IF want[b].pos > Len(text) THEN Len(text) ELSE want[b].pos

Grow(b, extra) == Do(b, buf_grow(m, b, extra), want[b].text, want[b].pos)
Release(b) ==
  IF m.b[b].alloc > 0 THEN Do(b, buf_release(m, b), << >>, 0)
  ELSE Do(b, buf_release(m, b), want[b].text, want[b].pos)
Add(b, s) == Do(b, buf_add(m, b, s), want[b].text \o s, want[b].pos)
AddCh(b, c) == Do(b, buf_addch(m, b, c), Append(want[b].text, c), want[b].pos)
AddF(b, s) == Do(b, buf_vaddf(m, b, s), want[b].text \o s, want[b].pos)
Fread(b, size, s) == Do(b, buf_fread(m, b, size, s), want[b].text \o s, want[b].pos)
Getc(b) == Do(b, buf_fgetc(m, b), want[b].text,
              IF want[b].pos < Len(want[b].text) THEN want[b].pos + 1 ELSE want[b].pos)
Ungetc(b, c) ==
  LET p == want[b].pos
  IN  IF p = 0 THEN Do(b, buf_ungetc(m, b, c), want[b].text, 0)
      ELSE Do(b, buf_ungetc(m, b, c), [want[b].text EXCEPT ![p] = c], p - 1)
Rewind(b) == Do(b, buf_rewind(m, b), want[b].text, 0)

\* match_and_extract_block (value.c) cuts a text short.
SetLen(b, n) ==
  LET t == SubSeq(want[b].text, 1, n) IN Do(b, buf_setlen(m, b, n), t, ClipPos(b, t))

\* All the k characters in front that are spaces go, or all those behind the k-th;
\* the position stays on its character.
Trim(b) ==
  LET t == want[b].text
  IN  \E k \in 0 .. Len(t) :
        \/ /\ \A i \in 1 .. k : space(t[i])
           /\ k # Len(t) => ~space(t[k + 1])
           /\ Do(b, buf_ltrim(m, b), SubSeq(t, k + 1, Len(t)),
                 IF want[b].pos < k THEN 0 ELSE want[b].pos - k)
        \/ /\ \A i \in k + 1 .. Len(t) : space(t[i])
           /\ k # 0 => ~space(t[k])
           /\ Do(b, buf_rtrim(m, b), SubSeq(t, 1, k), IF want[b].pos > k THEN k ELSE want[b].pos)

\* buf.c leaves the position after a splice unspecified.
Splice(b, off, len, s) ==
  LET t    == want[b].text
      at   == IF off < 0 THEN Len(t) + off ELSE off
      text == SubSeq(t, 1, at) \o s \o SubSeq(t, at + len + 1, Len(t))
      mem  == buf_splice(m, b, off, len, s)
  IN  /\ at >= 0 /\ at + len <= Len(t) /\ Len(text) <= MaxLen
      /\ Do(b, mem, text, mem.b[b].pos)

Detach(b) ==
  LET d == buf_detach(m, b)
  IN  /\ Idle /\ Fits(d.m)
      /\ m' = d.m
      /\ held' = held \cup {d.s}
      /\ want' = [want EXCEPT ![b] = [text |-> << >>, pos |-> 0]]
      /\ UNCHANGED io

\* The caller frees what it was given.
Free(p) ==
  /\ Idle
  /\ held' = held \ {p}
  /\ m' = [m EXCEPT !.blk = [q \in DOMAIN @ \ {p} |-> @[q]]]
  /\ UNCHANGED <<want, io>>

\* buf_read_file and buf_read: the file is open and there is room to read, as much
\* as the caller's hint asks for.
ReadBegin(b, hint) ==
  /\ Idle
  /\ m' = buf_grow(m, b, IF hint # 0 THEN hint ELSE CHUNK) /\ Fits(m')
  /\ io' = [b |-> b, oldalloc |-> m.b[b].alloc, oldlen |-> m.b[b].len, got |-> << >>]
  /\ UNCHANGED <<want, held>>

\* EAGAIN and EINTR: try_read calls read again.
try_read == ~Idle /\ UNCHANGED bufvars

ReadSome(s) ==
  /\ ~Idle /\ s # << >>
  /\ Len(s) <= buf_avail(m, io.b)
  /\ m.b[io.b].len + Len(s) <= MaxLen
  /\ m' = buf_grow([Put(m, io.b, m.b[io.b].len, s) EXCEPT !.b[io.b].len = @ + Len(s)], io.b, CHUNK)
  /\ Fits(m')
  /\ io' = [io EXCEPT !.got = @ \o s]
  /\ UNCHANGED <<want, held>>

\* End of file; whether close succeeds does not matter to the buffer.
ReadEnd ==
  /\ ~Idle
  /\ m' = Put(m, io.b, m.b[io.b].len, <<NUL>>)
  /\ want' = [want EXCEPT ![io.b].text = @ \o io.got]
  /\ io' = NONE
  /\ UNCHANGED held

\* Defective: a buffer that had no allocation keeps what was read.
ReadFail_keep ==
  /\ ~Idle
  /\ m' = IF io.oldalloc > 0 THEN buf_setlen(m, io.b, io.oldlen) ELSE m
  /\ io' = NONE
  /\ UNCHANGED <<want, held>>

ReadFail ==
  /\ ~Idle
  /\ m' = IF io.oldalloc > 0 THEN buf_setlen(m, io.b, io.oldlen) ELSE buf_release(m, io.b)
  /\ io' = NONE
  /\ UNCHANGED <<want, held>>

BufNext ==
  \/ Idle /\ \E b \in Bufs :
       \/ Release(b) \/ Getc(b) \/ Rewind(b) \/ Trim(b) \/ Detach(b)
       \/ \E c \in Bytes : Ungetc(b, c) \/ (Room(b) > 0 /\ AddCh(b, c))
       \/ \E s \in Strings(Room(b)) :
            \/ Add(b, s) \/ AddF(b, s)
            \/ \E size \in {Len(s), Len(s) + 1} : Fread(b, size, s)
       \/ \E n \in 0 .. MaxLen : Grow(b, n) \/ ReadBegin(b, n) \/ (n <= m.b[b].len /\ SetLen(b, n))
       \/ \E off \in -1 .. MaxLen, len \in 0 .. MaxLen, s \in Strings(MaxLen) :
            Splice(b, off, len, s)
  \/ \E p \in held : Free(p)
  \/ try_read \/ ReadEnd \/ ReadFail
  \/ \E s \in Strings(MaxLen) : ReadSome(s)

\* The system call answers: some bytes or the end of the file.
Answered == ReadEnd \/ \E s \in Strings(MaxLen) : ReadSome(s)

\* The file ends and the system call answers in the end.
BufSpec == BufInit /\ [][BufNext]_bufvars /\ WF_bufvars(Answered)

-----------------------------------------------------------------------------
(* Properties *)

\* Type invariant: a buffer's struct agrees with the block it points to, which no
\* operation has written past (buf.c keeps room for the null).
BufTypeOK ==
  \A b \in Bufs :
    LET r == m.b[b]
    IN  /\ r.buf \in DOMAIN m.blk
        /\ r.alloc = 0 <=> r.buf = 0
        /\ DOMAIN m.blk[r.buf] = IF r.alloc = 0 THEN {0} ELSE 0 .. r.alloc - 1
        /\ r.len < Cardinality(DOMAIN m.blk[r.buf])
        /\ r.pos <= r.len

\* Whatever the order of operations, the allocations and the failed reads between
\* them, a buffer holds the text and the position that the operations call for,
\* ends in a null; a buf_read that reaches the end of the file has added all the
\* bytes that were delivered, in order (buf.c:251), and a failed one leaves no trace
\* (buf.c:243).
HoldsText ==
  \A b \in Bufs :
    (IF Idle THEN TRUE ELSE io.b # b) =>
      /\ Text(m, b) = want[b].text
      /\ m.b[b].pos = want[b].pos
      /\ m.blk[m.b[b].buf][m.b[b].len] = NUL

\* Every block has one owner, a buffer or a caller of buf_detach, and no block is
\* lost; nobody owns buf_initial, which stays the empty string that the other
\* buffers without an allocation take it for (buf.c:47).
OneOwner ==
  /\ m.blk[0] = [i \in {0} |-> NUL]
  /\ \A p \in DOMAIN m.blk \ {0} :
       Cardinality({b \in Bufs : m.b[b].buf = p}) + (IF p \in held THEN 1 ELSE 0) = 1
  /\ held \subseteq DOMAIN m.blk \ {0}
=============================================================================
