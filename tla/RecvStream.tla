----------------------------- MODULE RecvStream -----------------------------
(***************************************************************************)
(* Inside a connection, the receive side: the chain of equally large,      *)
(* reference-counted buffers that readv fills (update_next_recv_pos), the  *)
(* unpacking of length-prefixed packets from it (unpack), and the rpackets *)
(* that share the buffers with the connection and outlive it (rpacket.c,   *)
(* buffer.c, refbase.c).                                                   *)
(*                                                                         *)
(* Buffers are numbered in the order of their creation; buffer b + 1 is    *)
(* b's next.  The content of a buffer is given by its place in the stream: *)
(* position p of buffer b holds unit (b - 1) * Cap + p of what was sent.   *)
(***************************************************************************)
EXTENDS Integers, Sequences, FiniteSets

CONSTANTS
  Cap,          \* units a buffer holds, and units of one read (BUFFER_SIZE)
  Hdr,          \* units of the length header (sizeof(uint32_t))
  Lens,         \* payload lengths that peers send
  MaxPackets,   \* bound: packets the peer sends
  MaxHeld,      \* bound: rpackets the application keeps at a time
  MaxBuf        \* bound: buffers; no read ends in the last one

ASSUME StreamAssumption ==
  /\ Cap \in Nat \ {0} /\ Hdr \in Nat \ {0} /\ Lens \subseteq Nat
  /\ MaxPackets \in Nat /\ MaxHeld \in Nat /\ MaxBuf \in Nat \ {0}

VARIABLES
  raw,          \* connection_create's is_raw
  bounds,       \* the peer: where the packets begin, and where the last ends
  nbuf,         \* buffers created so far
  refcount,     \* of every buffer
  unpack_buf, unpack_pos, unpack_size,
  next_recv_buf, next_recv_pos,
  phase,        \* "posted": a read is posted, "unpack": in unpack, "destroyed"
  delivered,    \* packets given to process_packet
  rpackets      \* the rpackets the application has not destroyed, by number

recvVars == <<nbuf, next_recv_buf, next_recv_pos>>
unpackVars == <<unpack_buf, unpack_pos, unpack_size>>
vars == <<raw, bounds, nbuf, refcount, unpack_buf, unpack_pos, unpack_size,
          next_recv_buf, next_recv_pos, phase, delivered, rpackets>>

Buffer == 1..MaxBuf

Abs(b, pos) == (b - 1) * Cap + pos
SentEnd     == bounds[Len(bounds)]
Smaller(a, b) == IF a <= b THEN a ELSE b

\* b->size
BufSize(b) == IF b < next_recv_buf THEN Cap
              ELSE IF b = next_recv_buf THEN next_recv_pos ELSE 0

-----------------------------------------------------------------------------
(* refbase.c and buffer.c on a function of reference counts.               *)

\* buffer_release: a buffer whose count drops to 0 is destroyed, and destroying
\* it releases the next one.
buffer_release(ref, b) ==
  LET stops == {i \in b..nbuf : ref[i] # 1}
      last  == IF stops = {} THEN nbuf ELSE CHOOSE i \in stops : \A j \in stops : i <= j
  IN  [i \in Buffer |-> IF i \in b..last THEN ref[i] - 1 ELSE ref[i]]

\* n times x = buffer_acquire(x, x->next), starting from x = b.
acquire_next(ref, b, n) ==
  LET f[i \in 0..n] ==
        IF i = 0 THEN ref
        ELSE buffer_release([f[i - 1] EXCEPT ![b + i] = @ + 1], b + i - 1)
  IN  f[n]

-----------------------------------------------------------------------------

\* connection_start_recv: one buffer, held as unpack_buf and next_recv_buf.
Init ==
  /\ raw \in BOOLEAN /\ bounds = <<0>> /\ nbuf = 1
  /\ refcount = [b \in Buffer |-> IF b = 1 THEN 2 ELSE 0]
  /\ unpack_buf = 1 /\ unpack_pos = 0 /\ unpack_size = 0
  /\ next_recv_buf = 1 /\ next_recv_pos = 0
  /\ phase = "posted" /\ delivered = 0 /\ rpackets = <<>>

PeerSends(l) ==
  /\ Len(bounds) <= MaxPackets
  /\ bounds' = Append(bounds, SentEnd + Hdr + l)
  /\ UNCHANGED <<recvVars, unpackVars, refcount, phase, delivered, rpackets>>

\* readv returned n; update_next_recv_pos fills the chain, appending a buffer
\* whenever one is full, and moves next_recv_buf along.
update_next_recv_pos(n) ==
  LET to == next_recv_buf + (next_recv_pos + n) \div Cap
      chained == [b \in Buffer |-> IF b \in (nbuf + 1)..to THEN 1 ELSE refcount[b]]
  IN  /\ phase = "posted" /\ n \in 1..Cap /\ to < MaxBuf
      /\ n <= SentEnd - Abs(next_recv_buf, next_recv_pos)
      /\ nbuf' = IF to > nbuf THEN to ELSE nbuf
      /\ refcount' = acquire_next(chained, next_recv_buf, to - next_recv_buf)
      /\ next_recv_buf' = to
      /\ next_recv_pos' = (next_recv_pos + n) % Cap
      /\ unpack_size' = unpack_size + n
      /\ phase' = "unpack"
      /\ UNCHANGED <<bounds, unpack_buf, unpack_pos, delivered, rpackets>>

\* The length found where unpacking stands; anything if that is not a header.
PkLens ==
  LET at == Abs(unpack_buf, unpack_pos)
      heads == {k \in 1..(Len(bounds) - 1) : bounds[k] = at}
  IN  IF heads = {} THEN Lens ELSE {bounds[k + 1] - bounds[k] - Hdr : k \in heads}

\* Mutant: the header is skipped in the wrong case.
DeliverSkip(len, skip, total) ==
  LET hops == (unpack_pos + total) \div Cap
      r == [buf |-> unpack_buf, readbuf |-> unpack_buf, rpos |-> unpack_pos + Hdr - skip,
            begin_pos |-> unpack_pos, len |-> len, data_remain |-> len]
  IN  /\ Cardinality(DOMAIN rpackets) < MaxHeld
      /\ delivered' = delivered + 1
      /\ rpackets' = [k \in DOMAIN rpackets \cup {delivered + 1} |->
                        IF k = delivered + 1 THEN r ELSE rpackets[k]]
      /\ unpack_buf' = unpack_buf + hops
      /\ unpack_pos' = (unpack_pos + total) % Cap
      /\ unpack_size' = unpack_size - total
      /\ refcount' = acquire_next([refcount EXCEPT ![unpack_buf] = @ + 2],
                                  unpack_buf, hops)
      /\ UNCHANGED <<recvVars, bounds, phase>>

\* A packet of len units, the read position skip units after where it begins,
\* takes two references; then the units are consumed.
Deliver(len, skip, total) ==
  LET hops == (unpack_pos + total) \div Cap
      r == [buf |-> unpack_buf, readbuf |-> unpack_buf, rpos |-> unpack_pos + skip,
            begin_pos |-> unpack_pos, len |-> len, data_remain |-> len]
  IN  /\ Cardinality(DOMAIN rpackets) < MaxHeld
      /\ delivered' = delivered + 1
      /\ rpackets' = [k \in DOMAIN rpackets \cup {delivered + 1} |->
                        IF k = delivered + 1 THEN r ELSE rpackets[k]]
      /\ unpack_buf' = unpack_buf + hops
      /\ unpack_pos' = (unpack_pos + total) % Cap
      /\ unpack_size' = unpack_size - total
      /\ refcount' = acquire_next([refcount EXCEPT ![unpack_buf] = @ + 2],
                                  unpack_buf, hops)
      /\ UNCHANGED <<recvVars, bounds, phase>>

\* Mutant: < in place of <=.
CompleteLate(len) == unpack_size > Hdr /\ Hdr + len < unpack_size

Complete(len) == unpack_size > Hdr /\ Hdr + len <= unpack_size

unpack ==
  /\ phase = "unpack" /\ ~raw
  /\ \E len \in PkLens : Complete(len) /\ Deliver(len, Hdr, Hdr + len)

unpack_raw ==
  LET len == BufSize(unpack_buf) - unpack_pos
  IN  phase = "unpack" /\ raw /\ len # 0 /\ Deliver(len, 0, len)

Nothing ==
  IF raw THEN BufSize(unpack_buf) = unpack_pos ELSE \A len \in PkLens : ~Complete(len)

\* Back in RecvFinish: the next read covers Cap units, so unless it starts a
\* buffer it reaches into the next one, which is appended if it is missing.
PostRead ==
  /\ phase = "unpack" /\ Nothing
  /\ IF next_recv_pos > 0 /\ nbuf = next_recv_buf
     THEN nbuf' = nbuf + 1 /\ refcount' = [refcount EXCEPT ![nbuf + 1] = 1]
     ELSE UNCHANGED <<nbuf, refcount>>
  /\ phase' = "posted"
  /\ UNCHANGED <<bounds, unpackVars, next_recv_buf, next_recv_pos, delivered, rpackets>>

\* rpacket_read of n units: at the end of a buffer, with data remaining, the
\* next one is acquired.
rpacket_read(k, n) ==
  LET r == rpackets[k]
      rest == r.data_remain - n
      hops == IF rest > 0 THEN (r.rpos + n) \div Cap ELSE (r.rpos + n - 1) \div Cap
  IN  /\ n \in 1..r.data_remain
      /\ rpackets' = [rpackets EXCEPT ![k] =
                        [r EXCEPT !.readbuf = @ + hops, !.rpos = @ + n - hops * Cap,
                                  !.data_remain = rest]]
      /\ refcount' = acquire_next(refcount, r.readbuf, hops)
      /\ UNCHANGED <<bounds, recvVars, unpackVars, phase, delivered>>

\* Mutant: readbuf is not released.
rpacket_leak(k) ==
  /\ refcount' = buffer_release(refcount, rpackets[k].buf)
  /\ rpackets' = [j \in DOMAIN rpackets \ {k} |-> rpackets[j]]
  /\ UNCHANGED <<bounds, recvVars, unpackVars, phase, delivered>>

rpacket_destroy(k) ==
  /\ refcount' = buffer_release(buffer_release(refcount, rpackets[k].buf),
                                rpackets[k].readbuf)
  /\ rpackets' = [j \in DOMAIN rpackets \ {k} |-> rpackets[j]]
  /\ UNCHANGED <<bounds, recvVars, unpackVars, phase, delivered>>

\* connection_destroy, after the last completion; rpackets may be left over.
connection_destroy ==
  /\ phase = "posted"
  /\ refcount' = buffer_release(buffer_release(refcount, unpack_buf), next_recv_buf)
  /\ phase' = "destroyed"
  /\ UNCHANGED <<bounds, recvVars, unpackVars, delivered, rpackets>>

Step ==
  \/ \E l \in Lens : PeerSends(l)
  \/ \E n \in 1..Cap : update_next_recv_pos(n)
  \/ unpack \/ unpack_raw \/ PostRead \/ connection_destroy
  \/ \E k \in DOMAIN rpackets :
       rpacket_destroy(k) \/ \E n \in 1..rpackets[k].data_remain : rpacket_read(k, n)

Next == Step /\ UNCHANGED raw

Spec == Init /\ [][Next]_vars

-----------------------------------------------------------------------------
(* Properties.                                                             *)

\* Packets come out as they were sent, however the reads cut the stream:
\* unpacking stands where the next packet begins, unpack_size is exactly what
\* lies between it and the receive position, and the assertions in unpack hold
\* ("unpack_buf->next should not be NULL": it never passes the chain's end).
Framing ==
  phase # "destroyed" =>
    /\ Abs(unpack_buf, unpack_pos) + unpack_size = Abs(next_recv_buf, next_recv_pos)
    /\ unpack_buf <= next_recv_buf /\ next_recv_buf <= nbuf
    /\ ~raw => Abs(unpack_buf, unpack_pos) = bounds[delivered + 1]

\* No complete packet is left behind when the next read is posted, except an
\* empty one at the end of the data: unpack wants more than a header.
NothingHeldBack ==
  phase = "posted" =>
    IF raw THEN unpack_size = 0
    ELSE \A k \in (delivered + 2)..Len(bounds) :
           \/ bounds[k] > Abs(next_recv_buf, next_recv_pos)
           \/ bounds[k] = bounds[k - 1] + Hdr

\* unpack, over all ways to cut the stream into reads: the packets come out
\* whole, in order, and as soon as their data are there.
Unpacked == Framing /\ NothingHeldBack

\* Who refers to buffer b.
Holders(b) ==
  LET one(c) == IF c THEN 1 ELSE 0
  IN  one(b > 1 /\ b <= nbuf /\ refcount[b - 1] > 0)
      + one(phase # "destroyed" /\ unpack_buf = b)
      + one(phase # "destroyed" /\ next_recv_buf = b)
      + Cardinality({k \in DOMAIN rpackets : rpackets[k].buf = b})
      + Cardinality({k \in DOMAIN rpackets : rpackets[k].readbuf = b})

\* The reference counts are exact whatever the order in which the connection
\* and the packets let go: no buffer that a packet, the connection or the
\* posted read still uses is freed, and none is leaked.
RefsExact == \A b \in Buffer : refcount[b] = Holders(b)

\* A packet's read position is inside its buffer and is the place in the stream
\* that its remaining data starts at ("data across the buffer boundary" is what
\* rpacket.c provides for).
CursorRight ==
  \A k \in DOMAIN rpackets :
    LET r == rpackets[k]
        start == Abs(r.buf, r.begin_pos) + (IF raw THEN 0 ELSE Hdr)
    IN  /\ r.rpos <= Cap
        /\ Abs(r.readbuf, r.rpos) = start + r.len - r.data_remain

=============================================================================
