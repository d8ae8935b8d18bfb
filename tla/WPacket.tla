------------------------------- MODULE WPacket -------------------------------
(***************************************************************************)
(* wpacket.c, and the reading side of rpacket.c: one thread writes fields  *)
(* into a chain of buffers that doubles as it grows, goes back to rewrite  *)
(* fixed-size fields, and makes a reader that shares the buffers.  Bytes   *)
(* are copied in runs in the code and one by one here: byte k of a field   *)
(* with value v is <<v, k>>.  A requested size is larger than the length   *)
(* field: a smaller one is written past from the start.                    *)
(***************************************************************************)
EXTENDS Integers, Sequences, SequencesExt, ListOps

CONSTANTS
  Sizes,        \* sizes asked of wpacket_create
  LenSize,      \* sizeof(*w->len)
  FactorMod,    \* 2^8 for the uint8_t factor
  Widths,       \* of fixed-size fields
  Lengths,      \* of binaries and strings
  MaxFields     \* bound

\* 2^k, doubled step by step as the loops double it.
pow2(k) ==
  LET p[i \in 0 .. k] == IF i = 0 THEN 1 ELSE 2 * p[i - 1]
  IN  p[k]

ASSUME PacketAssumption ==
  /\ LenSize \in Nat /\ Widths \subseteq Nat /\ Lengths \subseteq Nat
  /\ \A size \in Sizes : size \in Nat \ {0} /\ size >= LenSize
  /\ FactorMod \in Nat /\ \E k \in 0 .. FactorMod : FactorMod = pow2(k)

VARIABLES
  w,            \* the wpacket; bufs is its chain, the last one is writebuf
  fields,       \* what was written, with the write_pos taken before it
  r,            \* the rpacket made from it, or NoReader
  done          \* fields the reader has read

pvars == <<w, fields, r, done>>

NoReader == [fields |-> -1]

Encode(v, n) == [k \in 1 .. n |-> <<v, k>>]
Decode(bytes) ==
  IF bytes # <<>> /\ bytes = Encode(bytes[1][1], Len(bytes)) THEN bytes[1][1] ELSE 0

Placeholder == 10
Rewritten == 11
Text == 12        \* the value that stands for the contents of a binary

GetSize_of_pow2(n) ==
  CHOOSE p \in {pow2(k) : k \in 0 .. n} : n <= p /\ (p > 1 => p \div 2 < n)

buffer_create(capacity) == [capacity |-> capacity, data |-> <<>>]

wpacket_create(size, raw) ==
  LET cap == GetSize_of_pow2(size)
      hdr == IF raw THEN <<>> ELSE Encode(0, LenSize)
  IN  [bufs |-> <<[capacity |-> cap, data |-> hdr]>>, factor |-> cap % FactorMod,
       raw |-> raw, len |-> 0, data_size |-> Len(hdr), wpos |-> Len(hdr), hung |-> FALSE]

PacketInit ==
  /\ \E size \in Sizes, raw \in BOOLEAN : w = wpacket_create(size, raw)
  /\ fields = <<>> /\ r = NoReader /\ done = 0

writebuf(p) == Last(p.bufs)
wpacket_get_writepos == [buf |-> Len(w.bufs), wpos |-> w.wpos]

\* Mutant: four times the size.
wpacket_expand_quad(p) ==
  LET f == (4 * p.factor) % FactorMod
  IN  [p EXCEPT !.factor = f, !.wpos = 0, !.bufs = Append(@, buffer_create(f))]

wpacket_expand(p) ==
  LET f == (2 * p.factor) % FactorMod
  IN  [p EXCEPT !.factor = f, !.wpos = 0, !.bufs = Append(@, buffer_create(f))]

\* One byte of wpacket_write; with a new buffer of no capacity its loop goes on
\* allocating for ever.
put(p, b) ==
  LET x == IF writebuf(p).capacity = p.wpos THEN wpacket_expand(p) ELSE p
  IN  CASE p.hung -> p
        [] ~p.hung /\ writebuf(x).capacity = 0 -> [x EXCEPT !.hung = TRUE]
        [] OTHER ->
             [x EXCEPT !.bufs[Len(x.bufs)].data = Append(@, b), !.wpos = @ + 1,
                       !.len = IF x.raw THEN @ ELSE @ + 1, !.data_size = @ + 1]

wpacket_write(p, bytes) ==
  LET after[k \in 0 .. Len(bytes)] == IF k = 0 THEN p ELSE put(after[k - 1], bytes[k])
  IN  after[Len(bytes)]

\* wpacket_write_uint8 and the other widths, with the position for a rewrite.
wpacket_write_number(n) ==
  /\ ~w.hung /\ Len(fields) < MaxFields
  /\ w' = wpacket_write(w, Encode(Placeholder, n))
  /\ fields' = Append(fields, [kind |-> "number", size |-> n, value |-> Placeholder,
                               wp |-> wpacket_get_writepos])
  /\ UNCHANGED <<r, done>>

\* wpacket_write_binary, and wpacket_write_string with its final zero: the size
\* goes ahead of the bytes, except in a raw packet.
wpacket_write_binary(n) ==
  /\ ~w.hung /\ Len(fields) < MaxFields
  /\ w' = wpacket_write(w, (IF w.raw THEN <<>> ELSE Encode(n, LenSize)) \o Encode(Text, n))
  /\ fields' = Append(fields, [kind |-> "binary", size |-> n, value |-> Text,
                               wp |-> wpacket_get_writepos])
  /\ UNCHANGED <<r, done>>

\* Mutant: the rewrite stays in the buffer it started in.
overwrite_here(c, b) ==
  IF c.pos >= Len(c.bufs[c.buf].data) THEN c
  ELSE [c EXCEPT !.bufs[c.buf].data[c.pos + 1] = b, !.pos = @ + 1]

\* One byte of wpacket_rewrite; at the end of a buffer it goes on in the next.
overwrite(c, b) ==
  LET d == IF c.pos >= c.bufs[c.buf].capacity THEN [c EXCEPT !.buf = @ + 1, !.pos = 0] ELSE c
  IN  [d EXCEPT !.bufs[d.buf].data[d.pos + 1] = b, !.pos = @ + 1]

overwrite_all(c, bytes) ==
  LET after[k \in 0 .. Len(bytes)] == IF k = 0 THEN c ELSE overwrite(after[k - 1], bytes[k])
  IN  after[Len(bytes)]

wpacket_rewrite(k) ==
  LET f     == fields[k]
      start == [bufs |-> w.bufs, buf |-> f.wp.buf, pos |-> f.wp.wpos]
  IN  /\ ~w.hung /\ f.kind = "number" /\ f.value = Placeholder
      /\ w' = [w EXCEPT !.bufs = overwrite_all(start, Encode(Rewritten, f.size)).bufs]
      /\ fields' = [fields EXCEPT ![k].value = Rewritten]
      /\ UNCHANGED <<r, done>>

ReadBufSize(b) == IF b \in DOMAIN w.bufs THEN Len(w.bufs[b].data) ELSE 0

\* The length is the one of this moment: later writes do not change it.
rpacket_create_by_wpacket ==
  LET len  == IF w.raw THEN w.data_size ELSE w.data_size - LenSize
      here == w.raw \/ ReadBufSize(1) > LenSize
  IN  /\ ~w.hung /\ r = NoReader
      /\ r' = [readbuf |-> IF here THEN 1 ELSE 2, rpos |-> IF w.raw THEN 0 ELSE LenSize,
               len |-> len, data_remain |-> len, binbuf |-> 0, binbufpos |-> 0,
               fields |-> Len(fields)]
      /\ UNCHANGED <<w, fields, done>>

\* Mutant: the next buffer is read from where this one ended.
switch_keep(x) ==
  IF x.rpos >= ReadBufSize(x.readbuf) /\ x.data_remain > 0
  THEN [x EXCEPT !.readbuf = @ + 1] ELSE x

\* The current buffer is read to its end: go on in the next one.
switch(x) ==
  IF x.rpos >= ReadBufSize(x.readbuf) /\ x.data_remain > 0
  THEN [x EXCEPT !.readbuf = @ + 1, !.rpos = 0] ELSE x

\* rpacket_read and the copying loops of the binary reads: the bytes and the
\* reader after them; too few bytes, and nothing is read.
read_bytes(x, n) ==
  LET at[k \in 0 .. n] ==
        IF k = 0 THEN [rd |-> x, out |-> <<>>]
        ELSE LET y == switch(at[k - 1].rd)
                 b == IF y.rpos < ReadBufSize(y.readbuf)
                      THEN w.bufs[y.readbuf].data[y.rpos + 1] ELSE <<0, 0>>
             IN  [rd |-> switch([y EXCEPT !.rpos = @ + 1, !.data_remain = @ - 1]),
                  out |-> Append(at[k - 1].out, b)]
  IN  IF x.data_remain < n THEN [rd |-> x, out |-> <<>>] ELSE at[n]

binbuf_size(x, n) == x.len

\* Contiguous data are returned in place, others are copied behind what binbuf
\* holds already.
read_contents(x, n) ==
  LET got == read_bytes(x, n)
  IN  IF x.data_remain < n \/ ReadBufSize(x.readbuf) - x.rpos >= n THEN got
      ELSE [got EXCEPT !.rd.binbuf = IF x.binbuf = 0 THEN binbuf_size(x, n) ELSE @,
                       !.rd.binbufpos = @ + n]

rpacket_read_binary(x) ==
  LET size == read_bytes(x, LenSize)
  IN  read_contents(size.rd, Decode(size.out))

\* All there is; in place, rpos does not move, for data_remain is 0 by then (155).
rpacket_raw_read_binary(x) ==
  LET got == read_contents(x, x.data_remain)
  IN  IF ReadBufSize(x.readbuf) - x.rpos >= x.data_remain
      THEN [got EXCEPT !.rd.rpos = x.rpos] ELSE got

ReadField(x, f) ==
  CASE w.raw -> rpacket_raw_read_binary(x)
    [] ~w.raw /\ f.kind = "number" -> read_bytes(x, f.size)
    [] ~w.raw /\ f.kind = "binary" -> rpacket_read_binary(x)

Read ==
  /\ r # NoReader /\ ~w.hung
  /\ done < r.fields
  /\ r' = ReadField(r, fields[done + 1]).rd
  /\ done' = IF w.raw THEN r.fields ELSE done + 1
  /\ UNCHANGED <<w, fields>>

PacketNext ==
  \/ \E n \in Widths : wpacket_write_number(n)
  \/ \E n \in Lengths : wpacket_write_binary(n)
  \/ \E k \in DOMAIN fields : wpacket_rewrite(k)
  \/ rpacket_create_by_wpacket \/ Read

PacketSpec == PacketInit /\ [][PacketNext]_pvars

-----------------------------------------------------------------------------
(* Properties.                                                             *)

Contents(f) == Encode(f.value, f.size)

\* What the reader still gets, field by field, from where it is now.
ReadRest ==
  LET at[k \in done .. r.fields] ==
        IF k = done THEN [rd |-> r, out |-> <<>>]
        ELSE LET got == ReadField(at[k - 1].rd, fields[k])
             IN  [rd |-> got.rd, out |-> Append(at[k - 1].out, got.out)]
  IN  at[r.fields].out

\* A reader gets back, field by field, what was written before it was made,
\* rewritten values included: wherever buffers end inside a field, and although
\* the writer goes on appending to the buffers they share.
ReadsBack ==
  (r # NoReader /\ ~w.hung) =>
    LET expect == [k \in 1 .. r.fields - done |-> Contents(fields[done + k])]
    IN  IF w.raw
        THEN done < r.fields =>
               rpacket_raw_read_binary(r).out = Joined(expect, r.fields - done)
        ELSE ReadRest = expect

\* The binaries copied into binbuf fit in it, however many a packet has.
BinbufHolds == r # NoReader => r.binbufpos <= r.binbuf

\* What a reader makes of a packet: the fields as they were written, with room
\* for all the binaries that have to be copied.
ReaderSound == ReadsBack /\ BinbufHolds

\* The length field, data_size and the buffers agree: what goes on the wire is
\* the header and as many bytes as it says.
LengthsAgree ==
  /\ w.data_size = Total([b \in 1 .. Len(w.bufs) |-> Len(w.bufs[b].data)], Len(w.bufs))
  /\ ~w.raw => w.data_size = LenSize + w.len
  /\ \A b \in DOMAIN w.bufs : Len(w.bufs[b].data) <= w.bufs[b].capacity

\* factor is a uint8_t: a packet created with size c takes 256 - c bytes (c of
\* them in its first buffer, twice as many in the next, and so on), not one more.
\* A packet created with 256 or more takes what its first buffer holds.
HangsWhenFull ==
  LET c == w.bufs[1].capacity
  IN  w.hung <=> /\ w.factor = 0 /\ Last(w.bufs).capacity = 0
                 /\ w.data_size = IF c < FactorMod THEN FactorMod - c ELSE c

\* A writer that grows its chain keeps the lengths in step, up to the size at
\* which factor wraps around to 0, and hangs there and nowhere else.
WriterSound == LengthsAgree /\ HangsWhenFull
=============================================================================
