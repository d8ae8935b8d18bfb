-------------------------- MODULE RecvStreamProofs --------------------------
(***************************************************************************)
(* unpack gives the packets out whole, in order and in time, for buffers,  *)
(* headers and packets of any size and for every way to cut the stream     *)
(* into reads.  The strengthening: positions stay inside their buffers,    *)
(* packets begin at least a header apart, and no more is received than was *)
(* sent.                                                                   *)
(*                                                                         *)
(* Reference counts are exact for chains of any length.  Two things are    *)
(* needed besides the count itself: a packet lies inside the chain, so     *)
(* that a reader that moves on finds a live buffer, and a buffer's         *)
(* successor lives while the buffer does.  acquire_next follows the chain; *)
(* what it does to the counts is shown by a least counterexample.          *)
(*                                                                         *)
(* Read positions are right unless a header is cut by the end of a buffer. *)
(***************************************************************************)
EXTENDS RecvStream, SeqLemmas

\* Division with remainder, which moving along the chain of buffers rests on.
LEMMA Hops ==
  ASSUME NEW x \in Nat
  PROVE  /\ (x \div Cap) \in Nat /\ (x % Cap) \in 0..(Cap - 1)
         /\ (x \div Cap) * Cap + (x % Cap) = x
<1>1. Cap \in Nat /\ Cap > 0  BY StreamAssumption
<1>2. (x % Cap) \in 0..(Cap - 1)  BY <1>1
<1>3. (x \div Cap) \in Nat  BY <1>1
<1>4. x = Cap * (x \div Cap) + (x % Cap)  BY <1>1
<1>5. Cap * (x \div Cap) = (x \div Cap) * Cap  BY <1>1, <1>3
<1> QED BY <1>2, <1>3, <1>4, <1>5

\* Moving x units on from the start of buffer b, by whole buffers and the rest.
LEMMA Moved ==
  ASSUME NEW b \in Nat \ {0}, NEW x \in Nat
  PROVE  /\ b + (x \div Cap) \in Nat \ {0} /\ b + (x \div Cap) >= b
         /\ (x % Cap) \in 0..(Cap - 1)
         /\ Abs(b + (x \div Cap), (x % Cap)) = Abs(b, x)
<1> DEFINE h == (x \div Cap)
<1>1. h \in Nat /\ (x % Cap) \in 0..(Cap - 1) /\ h * Cap + (x % Cap) = x  BY Hops
<1> HIDE DEF h
<1>2. ((b + h) - 1) * Cap = (b - 1) * Cap + h * Cap
  BY <1>1, StreamAssumption
<1>3. (b - 1) * Cap \in Int /\ h * Cap \in Int  BY <1>1, StreamAssumption
<1>4. (x % Cap) \in Int  BY <1>1, StreamAssumption
<1>5. ((b + h) - 1) * Cap + (x % Cap) = (b - 1) * Cap + x  BY <1>1, <1>2, <1>3, <1>4
<1> DEFINE m == (x % Cap)
<1>6. Abs(b + h, m) = Abs(b, x)
  <2>1. Abs(b + h, m) = ((b + h) - 1) * Cap + m  BY DEF Abs
  <2>2. Abs(b, x) = (b - 1) * Cap + x  BY DEF Abs
  <2> QED BY <1>5, <2>1, <2>2
<1>7. b + h \in Nat \ {0} /\ b + h >= b  BY <1>1
<1> QED BY <1>1, <1>6, <1>7 DEF h

\* Positions in the stream are ordered as the buffers they lie in.
LEMMA Ordered ==
  ASSUME NEW a \in Nat \ {0}, NEW b \in Nat \ {0},
         NEW p \in 0..(Cap - 1), NEW q \in 0..(Cap - 1)
  PROVE  /\ Abs(a, p) \in Nat /\ Abs(a, Cap) \in Nat
         /\ Abs(a, p) <= Abs(b, q) => a <= b
         /\ a < b => Abs(a, Cap) <= Abs(b, q)
<1>1. Cap \in Nat \ {0}  BY StreamAssumption
<1>2. (a - 1) * Cap \in Nat /\ (b - 1) * Cap \in Nat  BY <1>1
<1>3. ASSUME b < a PROVE (b - 1) * Cap + Cap <= (a - 1) * Cap
  <2>1. PICK d \in Nat : a - 1 = b + d  BY <1>3
  <2>2. (b + d) * Cap = (b - 1) * Cap + Cap + d * Cap  BY <1>1
  <2>3. d * Cap \in Nat  BY <1>1
  <2> QED BY <1>1, <1>2, <2>1, <2>2, <2>3
<1>4. ASSUME a < b PROVE (a - 1) * Cap + Cap <= (b - 1) * Cap
  <2>1. PICK d \in Nat : b - 1 = a + d  BY <1>4
  <2>2. (a + d) * Cap = (a - 1) * Cap + Cap + d * Cap  BY <1>1
  <2>3. d * Cap \in Nat  BY <1>1
  <2> QED BY <1>1, <1>2, <2>1, <2>2, <2>3
<1> DEFINE A == (a - 1) * Cap
           B == (b - 1) * Cap
<1>5. /\ A \in Nat /\ B \in Nat /\ (b < a => B + Cap <= A) /\ (a < b => A + Cap <= B)
      /\ Abs(a, p) = A + p /\ Abs(a, Cap) = A + Cap /\ Abs(b, q) = B + q
  BY <1>2, <1>3, <1>4 DEF Abs
<1> HIDE DEF A, B
<1> QED BY <1>1, <1>5


-----------------------------------------------------------------------------
(* The inductive invariant.                                                *)

ReadAt   == Abs(unpack_buf, unpack_pos)
Received == Abs(next_recv_buf, next_recv_pos)

StreamTypes ==
  /\ raw \in BOOLEAN /\ bounds \in Seq(Nat) /\ Len(bounds) > 0
  /\ nbuf \in Nat /\ delivered \in Nat /\ unpack_size \in Nat
  /\ unpack_buf \in Nat \ {0} /\ unpack_pos \in 0..(Cap - 1)
  /\ next_recv_buf \in Nat \ {0} /\ next_recv_pos \in 0..(Cap - 1)

\* Every packet the peer sent takes a header's place at least.
Apart == \A i, j \in 1..Len(bounds) : i < j => bounds[i] + Hdr <= bounds[j]

\* The positions, which stay as they are once the connection is destroyed.
Positions ==
  /\ ReadAt + unpack_size = Received /\ Received <= SentEnd
  /\ unpack_buf <= next_recv_buf /\ next_recv_buf <= nbuf
  /\ ~raw => delivered + 1 <= Len(bounds) /\ ReadAt = bounds[delivered + 1]

StreamInv == StreamTypes /\ Apart /\ Positions /\ NothingHeldBack


\* Consuming total of the unpack_size units: Deliver's arithmetic on positions.
LEMMA Consumed ==
  ASSUME StreamTypes, Positions, NEW total \in Nat, total <= unpack_size,
         NEW ub, ub = unpack_buf + ((unpack_pos + total) \div Cap),
         NEW up, up = ((unpack_pos + total) % Cap)
  PROVE  /\ ub \in Nat \ {0} /\ up \in 0..(Cap - 1) /\ unpack_size - total \in Nat
         /\ Abs(ub, up) = ReadAt + total
         /\ Abs(ub, up) + (unpack_size - total) = Received
         /\ ub <= next_recv_buf
<1> DEFINE x == unpack_pos + total
<1>1. x \in Nat  BY StreamAssumption DEF StreamTypes
<1>2. unpack_buf \in Nat \ {0}  BY DEF StreamTypes
<1> HIDE DEF x
<1>3. /\ unpack_buf + (x \div Cap) \in Nat \ {0}
      /\ (x % Cap) \in 0..(Cap - 1)
      /\ Abs(unpack_buf + (x \div Cap), (x % Cap)) = Abs(unpack_buf, x)
  BY <1>1, <1>2, Moved
<1>4. ub \in Nat \ {0} /\ up \in 0..(Cap - 1) /\ Abs(ub, up) = Abs(unpack_buf, x)
  BY <1>3 DEF x
<1>5. (unpack_buf - 1) * Cap \in Int  BY <1>2, StreamAssumption
<1>6. ReadAt \in Nat /\ Received \in Nat
  BY Ordered DEF StreamTypes, ReadAt, Received
<1>7. Abs(unpack_buf, x) = ReadAt + total
  <2>1. Abs(unpack_buf, x) = (unpack_buf - 1) * Cap + x  BY DEF Abs
  <2>2. ReadAt = (unpack_buf - 1) * Cap + unpack_pos  BY DEF Abs, ReadAt
  <2>3. unpack_pos \in Int  BY StreamAssumption DEF StreamTypes
  <2> QED BY <1>5, <2>1, <2>2, <2>3 DEF x
<1>8. unpack_size - total \in Nat  BY DEF StreamTypes
<1>9. Abs(ub, up) + (unpack_size - total) = Received
  BY <1>4, <1>6, <1>7, <1>8 DEF Positions, StreamTypes
<1>10. Abs(ub, up) <= Received  BY <1>4, <1>6, <1>7, <1>8, <1>9
<1>11. ub <= next_recv_buf  BY <1>4, <1>10, Ordered DEF Received, StreamTypes
<1> QED BY <1>4, <1>7, <1>8, <1>9, <1>11

\* What the invariant says only depends on these.
LEMMA StreamFrame ==
  ASSUME StreamInv, UNCHANGED <<raw, bounds, unpackVars, next_recv_buf, next_recv_pos>>,
         UNCHANGED delivered, nbuf' \in Nat, nbuf <= nbuf',
         phase' = "posted" => NothingHeldBack'
  PROVE  StreamInv'
<1>1. /\ raw' = raw /\ bounds' = bounds /\ delivered' = delivered
      /\ unpack_buf' = unpack_buf /\ unpack_pos' = unpack_pos /\ unpack_size' = unpack_size
      /\ next_recv_buf' = next_recv_buf /\ next_recv_pos' = next_recv_pos
  BY DEF unpackVars
<1>2. StreamTypes'  BY <1>1 DEF StreamInv, StreamTypes
<1>3. Apart'  BY <1>1 DEF StreamInv, Apart
<1>4. ReadAt' = ReadAt /\ Received' = Received /\ SentEnd' = SentEnd
  BY <1>1 DEF ReadAt, Received, SentEnd, Abs
<1>5. next_recv_buf' <= nbuf'
  BY <1>1 DEF StreamInv, StreamTypes, Positions
<1>6. Positions'  BY <1>1, <1>4, <1>5 DEF StreamInv, Positions
<1>7. NothingHeldBack'  BY DEF NothingHeldBack
<1> QED BY <1>2, <1>3, <1>6, <1>7 DEF StreamInv

\* The peer's next packet begins where its last one ends, past what was read.
LEMMA PeerStep ==
  ASSUME StreamInv, raw' = raw, NEW l \in Lens, PeerSends(l)
  PROVE  StreamInv'
<1> DEFINE e == SentEnd + Hdr + l
           n == Len(bounds)
<1>1. n \in Nat \ {0} /\ l \in Nat /\ Hdr \in Nat \ {0} /\ SentEnd \in Nat /\ Received \in Nat
  BY StreamAssumption, Ordered DEF StreamInv, StreamTypes, SentEnd, Received
<1>2. e \in Nat /\ SentEnd + Hdr <= e /\ e > SentEnd  BY <1>1
<1>3. /\ raw' = raw /\ bounds' = Append(bounds, e) /\ delivered' = delivered
      /\ unpack_buf' = unpack_buf /\ unpack_pos' = unpack_pos /\ unpack_size' = unpack_size
      /\ next_recv_buf' = next_recv_buf /\ next_recv_pos' = next_recv_pos
      /\ nbuf' = nbuf /\ phase' = phase
  BY DEF PeerSends, unpackVars, recvVars
<1> HIDE DEF e
<1>4. /\ bounds' \in Seq(Nat) /\ Len(bounds') = n + 1
      /\ \A i \in 1..n : bounds'[i] = bounds[i]
      /\ bounds'[n + 1] = e
  BY <1>2, <1>3 DEF StreamInv, StreamTypes
<1>5. StreamTypes'  BY <1>1, <1>3, <1>4 DEF StreamInv, StreamTypes
<1>6. \A i \in 1..n : bounds[i] \in Nat /\ bounds[i] <= SentEnd
  BY <1>1 DEF StreamInv, StreamTypes, Apart, SentEnd
<1>7. Apart'
  <2> SUFFICES ASSUME NEW i \in 1..(n + 1), NEW j \in 1..(n + 1), i < j
               PROVE  bounds'[i] + Hdr <= bounds'[j]
    BY <1>4 DEF Apart
  <2>1. CASE j <= n
    <3>1. i \in 1..n /\ j \in 1..n  BY <1>1, <2>1
    <3>2. bounds[i] + Hdr <= bounds[j]  BY <3>1 DEF StreamInv, Apart
    <3> QED BY <1>4, <3>1, <3>2
  <2>2. CASE j = n + 1
    <3>1. i \in 1..n  BY <1>1, <2>2
    <3>2. bounds'[i] \in Nat /\ bounds'[i] <= SentEnd  BY <1>4, <1>6, <3>1
    <3> QED BY <1>1, <1>2, <1>4, <2>2, <3>2
  <2> QED BY <1>1, <2>1, <2>2
<1>8. ReadAt' = ReadAt /\ Received' = Received /\ SentEnd' = e
  BY <1>3, <1>4 DEF ReadAt, Received, SentEnd, Abs
<1>9. Positions'
  <2>1. ReadAt' + unpack_size' = Received' /\ Received' <= SentEnd'
    BY <1>1, <1>2, <1>3, <1>8 DEF StreamInv, Positions
  <2>2. ~raw => delivered + 1 <= n /\ delivered + 1 \in 1..n /\ ReadAt = bounds[delivered + 1]
    BY <1>1 DEF StreamInv, StreamTypes, Positions
  <2>3. ~raw' => delivered' + 1 <= Len(bounds') /\ ReadAt' = bounds'[delivered' + 1]
    BY <1>1, <1>3, <1>4, <1>8, <2>2 DEF StreamInv, StreamTypes
  <2> QED BY <1>3, <2>1, <2>3 DEF StreamInv, Positions
<1>10. ASSUME phase = "posted", ~raw, NEW k \in (delivered + 2)..(n + 1)
       PROVE  bounds'[k] > Received' \/ bounds'[k] = bounds'[k - 1] + Hdr
  <2>1. CASE k = n + 1  BY <1>1, <1>2, <1>4, <1>8, <2>1 DEF StreamInv, Positions
  <2>2. CASE k <= n
    <3>1. k \in 1..n /\ k - 1 \in 1..n /\ k \in (delivered + 2)..Len(bounds)
      BY <1>1, <1>10, <2>2 DEF StreamInv, StreamTypes
    <3>2. bounds'[k] = bounds[k] /\ bounds'[k - 1] = bounds[k - 1]  BY <1>4, <3>1
    <3> QED BY <1>8, <1>10, <3>1, <3>2 DEF StreamInv, NothingHeldBack, Received
  <2> QED BY <1>1, <1>10, <2>1, <2>2 DEF StreamInv, StreamTypes
<1>11. NothingHeldBack'
  <2>1. CASE phase # "posted" \/ raw  BY <1>3, <2>1 DEF StreamInv, NothingHeldBack
  <2>2. CASE phase = "posted" /\ ~raw
    <3>1. (delivered + 2)..(n + 1) = (delivered' + 2)..Len(bounds')  BY <1>3, <1>4
    <3>2. \A k \in (delivered' + 2)..Len(bounds') :
            bounds'[k] > Received' \/ bounds'[k] = bounds'[k - 1] + Hdr
      BY <1>10, <2>2, <3>1
    <3>3. ~raw'  BY <1>3, <2>2
    <3> QED BY <3>2, <3>3 DEF NothingHeldBack, Received
  <2> QED BY <2>1, <2>2
<1> QED BY <1>5, <1>7, <1>9, <1>11 DEF StreamInv


\* A read of n units moves the receive position on, over as many buffers as it
\* takes, and never past what was sent.
LEMMA ReadStep ==
  ASSUME StreamInv, raw' = raw, NEW n \in 1..Cap, update_next_recv_pos(n)
  PROVE  StreamInv'
<1> DEFINE x == next_recv_pos + n
           to == next_recv_buf + (x \div Cap)
<1>1. /\ raw' = raw /\ bounds' = bounds /\ delivered' = delivered
      /\ unpack_buf' = unpack_buf /\ unpack_pos' = unpack_pos
      /\ next_recv_buf' = to /\ next_recv_pos' = (x % Cap)
      /\ nbuf' = (IF to > nbuf THEN to ELSE nbuf)
      /\ unpack_size' = unpack_size + n /\ phase' = "unpack"
      /\ n <= SentEnd - Received
  BY DEF update_next_recv_pos, Received
<1>2. x \in Nat /\ n \in Nat /\ next_recv_buf \in Nat \ {0} /\ next_recv_pos \in Nat
  BY StreamAssumption DEF StreamInv, StreamTypes
<1> HIDE DEF x
<1>3. /\ to \in Nat \ {0} /\ to >= next_recv_buf /\ (x % Cap) \in 0..(Cap - 1)
      /\ Abs(to, (x % Cap)) = Abs(next_recv_buf, x)
  BY <1>2, Moved
<1> HIDE DEF to
<1>4. ReadAt \in Nat /\ Received \in Nat /\ SentEnd \in Nat
  BY Ordered DEF StreamInv, StreamTypes, ReadAt, Received, SentEnd
<1>5. Abs(next_recv_buf, x) = Received + n
  <2>1. (next_recv_buf - 1) * Cap \in Int  BY <1>2, StreamAssumption
  <2>2. Abs(next_recv_buf, x) = (next_recv_buf - 1) * Cap + x  BY DEF Abs
  <2>3. Received = (next_recv_buf - 1) * Cap + next_recv_pos  BY DEF Abs, Received
  <2> QED BY <1>2, <2>1, <2>2, <2>3 DEF x
<1>6. ReadAt' = ReadAt /\ Received' = Received + n /\ SentEnd' = SentEnd
  BY <1>1, <1>3, <1>5 DEF ReadAt, Received, SentEnd
<1>7. StreamTypes'  BY <1>1, <1>2, <1>3 DEF StreamInv, StreamTypes
<1>8. Apart'  BY <1>1 DEF StreamInv, Apart
<1>9. nbuf' >= to /\ unpack_buf <= to
  BY <1>1, <1>2, <1>3 DEF StreamInv, StreamTypes, Positions
<1>10. ReadAt' + unpack_size' = Received' /\ Received' <= SentEnd'
  BY <1>1, <1>2, <1>4, <1>6 DEF StreamInv, StreamTypes, Positions
<1>11. Positions'  BY <1>1, <1>6, <1>9, <1>10 DEF StreamInv, Positions
<1>12. NothingHeldBack'  BY <1>1 DEF NothingHeldBack
<1> QED BY <1>7, <1>8, <1>11, <1>12 DEF StreamInv

\* The length found where unpacking stands: that of the next packet if the
\* peer has sent it, and nothing was received of it otherwise.
LEMMA NextPacket ==
  ASSUME StreamInv, ~raw
  PROVE  LET d == delivered + 1
         IN  /\ d \in 1..Len(bounds) /\ ReadAt = bounds[d]
             /\ d = Len(bounds) => unpack_size = 0
             /\ d < Len(bounds) => /\ PkLens = {bounds[d + 1] - bounds[d] - Hdr}
                                   /\ bounds[d + 1] - bounds[d] - Hdr \in Nat
<1> DEFINE d == delivered + 1
<1>1. d \in 1..Len(bounds) /\ ReadAt = bounds[d] /\ Len(bounds) \in Nat
  BY DEF StreamInv, StreamTypes, Positions
<1> HIDE DEF d
<1>2. \A i \in 1..Len(bounds) : bounds[i] \in Nat  BY DEF StreamInv, StreamTypes
<1>3. Hdr \in Nat /\ Hdr > 0  BY StreamAssumption
<1>4. Received \in Nat /\ unpack_size \in Nat
  BY Ordered DEF StreamInv, StreamTypes, Received
<1>5. ASSUME d = Len(bounds) PROVE unpack_size = 0
  <2>1. SentEnd = ReadAt  BY <1>1, <1>5 DEF SentEnd
  <2>2. ReadAt \in Nat  BY <1>1, <1>2
  <2> QED BY <1>4, <2>1, <2>2 DEF StreamInv, Positions
<1>6. ASSUME d < Len(bounds)
      PROVE  /\ PkLens = {bounds[d + 1] - bounds[d] - Hdr}
             /\ bounds[d + 1] - bounds[d] - Hdr \in Nat
  <2>1. d + 1 \in 1..Len(bounds) /\ d < d + 1 /\ d \in 1..(Len(bounds) - 1)  BY <1>1, <1>6
  <2>2. bounds[d] + Hdr <= bounds[d + 1]  BY <1>1, <2>1 DEF StreamInv, Apart
  <2>3. ASSUME NEW k \in 1..(Len(bounds) - 1), bounds[k] = bounds[d] PROVE k = d
    <3>1. k \in 1..Len(bounds) /\ bounds[k] \in Nat /\ bounds[d] \in Nat
      BY <1>1, <1>2, <2>3
    <3>2. (k < d => bounds[k] + Hdr <= bounds[d]) /\ (d < k => bounds[d] + Hdr <= bounds[k])
      BY <1>1, <3>1 DEF StreamInv, Apart
    <3>3. k \in Int /\ d \in Int  BY <1>1
    <3> QED BY <1>3, <2>3, <3>1, <3>2, <3>3
  <2>4. {k \in 1..(Len(bounds) - 1) : bounds[k] = ReadAt} = {d}  BY <1>1, <2>1, <2>3
  <2>5. PkLens = {bounds[k + 1] - bounds[k] - Hdr : k \in {d}}
    <3> DEFINE heads == {k \in 1..(Len(bounds) - 1) : bounds[k] = ReadAt}
    <3>1. heads # {}  BY <2>4
    <3>2. PkLens = IF heads = {} THEN Lens
                   ELSE {bounds[k + 1] - bounds[k] - Hdr : k \in heads}
      BY DEF PkLens, ReadAt
    <3> HIDE DEF heads
    <3>3. PkLens = {bounds[k + 1] - bounds[k] - Hdr : k \in heads}  BY <3>1, <3>2
    <3> QED BY <2>4, <3>3 DEF heads
  <2>6. PkLens = {bounds[d + 1] - bounds[d] - Hdr}  BY <2>5
  <2>7. bounds[d + 1] \in Nat /\ bounds[d] \in Nat  BY <1>1, <1>2, <2>1
  <2>8. bounds[d + 1] - bounds[d] - Hdr \in Nat  BY <1>3, <2>2, <2>7
  <2> QED BY <2>6, <2>8
<1> QED BY <1>1, <1>5, <1>6 DEF d


\* The length that unpack finds is one that was sent.
LEMMA UnpackedLength ==
  ASSUME StreamInv, phase = "unpack", ~raw, unpack_size > Hdr, NEW len \in PkLens
  PROVE  len \in Nat
<1>1. Hdr \in Nat \ {0} /\ delivered \in Nat /\ Len(bounds) \in Nat
  BY StreamAssumption DEF StreamInv, StreamTypes
<1> DEFINE d == delivered + 1
<1>2. /\ d \in 1..Len(bounds)
      /\ d = Len(bounds) => unpack_size = 0
      /\ d < Len(bounds) => /\ PkLens = {bounds[d + 1] - bounds[d] - Hdr}
                            /\ bounds[d + 1] - bounds[d] - Hdr \in Nat
  BY <1>1, NextPacket
<1>3. d # Len(bounds)  BY <1>1, <1>2
<1>4. d < Len(bounds)  BY <1>1, <1>2, <1>3
<1> QED BY <1>2, <1>4

\* Whatever is delivered, the units consumed come off the data received.
LEMMA DeliverStep ==
  ASSUME StreamInv, raw' = raw, phase = "unpack",
         NEW len, NEW skip, NEW total \in Nat, total <= unpack_size,
         Deliver(len, skip, total),
         ~raw => delivered + 2 <= Len(bounds) /\ ReadAt + total = bounds[delivered + 2]
  PROVE  StreamInv'
<1>1. /\ raw' = raw /\ bounds' = bounds /\ delivered' = delivered + 1
      /\ unpack_buf' = unpack_buf + ((unpack_pos + total) \div Cap)
      /\ unpack_pos' = ((unpack_pos + total) % Cap)
      /\ unpack_size' = unpack_size - total
      /\ next_recv_buf' = next_recv_buf /\ next_recv_pos' = next_recv_pos
      /\ nbuf' = nbuf /\ phase' = "unpack"
  BY DEF Deliver, recvVars
<1>2. /\ unpack_buf' \in Nat \ {0} /\ unpack_pos' \in 0..(Cap - 1)
      /\ unpack_size - total \in Nat
      /\ Abs(unpack_buf', unpack_pos') = ReadAt + total
      /\ Abs(unpack_buf', unpack_pos') + (unpack_size - total) = Received
      /\ unpack_buf' <= next_recv_buf
  BY <1>1, Consumed DEF StreamInv
<1>3. delivered \in Nat  BY DEF StreamInv, StreamTypes
<1>4. StreamTypes'  BY <1>1, <1>2, <1>3 DEF StreamInv, StreamTypes
<1>5. Apart'  BY <1>1 DEF StreamInv, Apart
<1>6. ReadAt' = ReadAt + total /\ Received' = Received /\ SentEnd' = SentEnd
  BY <1>1, <1>2 DEF ReadAt, Received, SentEnd, Abs
<1>7. ReadAt' + unpack_size' = Received'  BY <1>1, <1>2, <1>6
<1>8. ~raw' => delivered' + 1 <= Len(bounds') /\ ReadAt' = bounds'[delivered' + 1]
  <2>1. delivered' + 1 = delivered + 2  BY <1>1, <1>3
  <2> QED BY <1>1, <1>6, <2>1
<1>9. Positions'  BY <1>1, <1>2, <1>6, <1>7, <1>8 DEF StreamInv, Positions
<1>10. NothingHeldBack'  BY <1>1 DEF NothingHeldBack
<1> QED BY <1>4, <1>5, <1>9, <1>10 DEF StreamInv

LEMMA UnpackStep ==
  ASSUME StreamInv, raw' = raw, unpack
  PROVE  StreamInv'
<1> DEFINE d == delivered + 1
<1>1. PICK len \in PkLens : Complete(len) /\ Deliver(len, Hdr, Hdr + len)
  BY DEF unpack
<1>2. phase = "unpack" /\ ~raw /\ unpack_size > Hdr /\ Hdr + len <= unpack_size
  BY <1>1 DEF unpack, Complete
<1>3. /\ d \in 1..Len(bounds) /\ ReadAt = bounds[d]
      /\ d = Len(bounds) => unpack_size = 0
      /\ d < Len(bounds) => /\ PkLens = {bounds[d + 1] - bounds[d] - Hdr}
                            /\ bounds[d + 1] - bounds[d] - Hdr \in Nat
  BY <1>2, NextPacket
<1>4. Len(bounds) \in Nat /\ delivered \in Nat /\ Hdr \in Nat /\ Hdr > 0
  BY StreamAssumption DEF StreamInv, StreamTypes
<1>5. d # Len(bounds)  BY <1>2, <1>3, <1>4
<1>6. d < Len(bounds)  BY <1>3, <1>4, <1>5
<1>7. d + 1 \in 1..Len(bounds) /\ d + 1 = delivered + 2  BY <1>3, <1>4, <1>6
<1>8. bounds[d] \in Nat /\ bounds[d + 1] \in Nat
  BY <1>3, <1>7 DEF StreamInv, StreamTypes
<1>9. len = bounds[d + 1] - bounds[d] - Hdr /\ len \in Nat  BY <1>1, <1>3, <1>6
<1> HIDE DEF d
<1>10. Hdr + len \in Nat /\ ReadAt + (Hdr + len) = bounds[d + 1]
  BY <1>3, <1>4, <1>8, <1>9
<1>11. delivered + 2 <= Len(bounds) /\ ReadAt + (Hdr + len) = bounds[delivered + 2]
  BY <1>4, <1>7, <1>10
<1> QED BY <1>1, <1>2, <1>10, <1>11, DeliverStep

\* The rest of the buffer that a raw connection unpacks next.
LEMMA RawRest ==
  ASSUME StreamInv
  PROVE  LET len == BufSize(unpack_buf) - unpack_pos
         IN  /\ len \in Nat /\ len <= unpack_size
             /\ len = 0 => unpack_size = 0
<1>1. /\ unpack_buf \in Nat \ {0} /\ next_recv_buf \in Nat \ {0}
      /\ unpack_pos \in 0..(Cap - 1) /\ next_recv_pos \in 0..(Cap - 1)
      /\ unpack_size \in Nat /\ unpack_buf <= next_recv_buf
      /\ ReadAt + unpack_size = Received /\ Cap \in Nat
  BY StreamAssumption DEF StreamInv, StreamTypes, Positions
<1> DEFINE B == (unpack_buf - 1) * Cap
<1>2. B \in Int  BY <1>1
<1>3. ReadAt = B + unpack_pos /\ Abs(unpack_buf, Cap) = B + Cap  BY DEF ReadAt, Abs
<1>4. CASE unpack_buf < next_recv_buf
  <2>1. BufSize(unpack_buf) = Cap  BY <1>4 DEF BufSize
  <2>2. Abs(unpack_buf, Cap) <= Received /\ Received \in Nat
    BY <1>1, <1>4, Ordered DEF Received
  <2> HIDE DEF B
  <2>3. Cap - unpack_pos <= unpack_size  BY <1>1, <1>2, <1>3, <2>2
  <2> QED BY <1>1, <2>1, <2>3
<1>5. CASE unpack_buf = next_recv_buf
  <2>1. BufSize(unpack_buf) = next_recv_pos  BY <1>1, <1>5 DEF BufSize
  <2>2. Received = B + next_recv_pos  BY <1>5 DEF Received, Abs
  <2> HIDE DEF B
  <2>3. next_recv_pos - unpack_pos = unpack_size  BY <1>1, <1>2, <1>3, <2>2
  <2> QED BY <1>1, <2>1, <2>3
<1> QED BY <1>1, <1>4, <1>5

LEMMA UnpackRawStep ==
  ASSUME StreamInv, raw' = raw, unpack_raw
  PROVE  StreamInv'
<1> DEFINE len == BufSize(unpack_buf) - unpack_pos
<1>1. phase = "unpack" /\ raw /\ Deliver(len, 0, len)  BY DEF unpack_raw
<1>2. len \in Nat /\ len <= unpack_size  BY RawRest
<1> HIDE DEF len
<1> QED BY <1>1, <1>2, DeliverStep

\* When unpack finds nothing more, what is left is no whole packet.
LEMMA NothingLeft ==
  ASSUME StreamInv, Nothing
  PROVE  IF raw THEN unpack_size = 0
         ELSE \A k \in (delivered + 2)..Len(bounds) :
                bounds[k] > Received \/ bounds[k] = bounds[k - 1] + Hdr
<1>1. CASE raw
  <2>1. BufSize(unpack_buf) = unpack_pos /\ unpack_pos \in Int
    BY <1>1, StreamAssumption DEF Nothing, StreamInv, StreamTypes
  <2>2. BufSize(unpack_buf) - unpack_pos = 0  BY <2>1
  <2>3. unpack_size = 0  BY <2>2, RawRest
  <2> QED BY <1>1, <2>3
<1>2. CASE ~raw
  <2> SUFFICES ASSUME NEW k \in (delivered + 2)..Len(bounds)
               PROVE  bounds[k] > Received \/ bounds[k] = bounds[k - 1] + Hdr
    BY <1>2
  <2> DEFINE d == delivered + 1
  <2>1. Len(bounds) \in Nat /\ delivered \in Nat /\ Hdr \in Nat /\ Hdr > 0
        /\ unpack_size \in Nat
    BY StreamAssumption DEF StreamInv, StreamTypes
  <2>2. d < Len(bounds) /\ d + 1 = delivered + 2 /\ d + 1 <= k /\ d + 1 \in 1..Len(bounds)
        /\ k \in 1..Len(bounds)
    BY <2>1
  <2>3. /\ d \in 1..Len(bounds) /\ ReadAt = bounds[d]
        /\ PkLens = {bounds[d + 1] - bounds[d] - Hdr}
    BY <1>2, <2>1, <2>2, NextPacket
  <2>4. ~Complete(bounds[d + 1] - bounds[d] - Hdr)  BY <1>2, <2>3 DEF Nothing
  <2>5. bounds[d] \in Nat /\ bounds[d + 1] \in Nat /\ bounds[k] \in Nat
    BY <2>2, <2>3 DEF StreamInv, StreamTypes
  <2>6. bounds[d] + unpack_size = Received /\ bounds[d] + Hdr <= bounds[d + 1]
    BY <2>1, <2>2, <2>3 DEF StreamInv, Positions, Apart
  <2> HIDE DEF d
  <2>7. bounds[d + 1] > Received \/ unpack_size <= Hdr
    BY <2>1, <2>4, <2>5, <2>6 DEF Complete
  <2>8. d \in Int /\ k \in Int  BY <2>2, <2>3
  <2>9. CASE k = d + 1
    <3>1. bounds[k - 1] = bounds[d] /\ bounds[k] = bounds[d + 1]  BY <2>8, <2>9
    <3>2. bounds[d + 1] > Received \/ bounds[d + 1] = bounds[d] + Hdr
      BY <2>1, <2>5, <2>6, <2>7
    <3> QED BY <3>1, <3>2
  <2>10. CASE k > d + 1
    <3>1. bounds[d + 1] + Hdr <= bounds[k]  BY <2>2, <2>8, <2>10 DEF StreamInv, Apart
    <3> QED BY <2>1, <2>5, <2>6, <2>7, <3>1
  <2> QED BY <2>2, <2>8, <2>9, <2>10
<1> QED BY <1>1, <1>2

LEMMA PostStep ==
  ASSUME StreamInv, raw' = raw, PostRead
  PROVE  StreamInv'
<1>1. UNCHANGED <<raw, bounds, unpackVars, next_recv_buf, next_recv_pos>>
      /\ UNCHANGED delivered /\ nbuf' \in {nbuf, nbuf + 1} /\ Nothing
  BY DEF PostRead
<1>2. nbuf' \in Nat /\ nbuf <= nbuf'  BY <1>1 DEF StreamInv, StreamTypes
<1>3. /\ raw' = raw /\ bounds' = bounds /\ delivered' = delivered
      /\ unpack_size' = unpack_size /\ Received' = Received
  BY <1>1 DEF unpackVars, Received, Abs
<1>4. IF raw THEN unpack_size = 0
      ELSE \A k \in (delivered + 2)..Len(bounds) :
             bounds[k] > Received \/ bounds[k] = bounds[k - 1] + Hdr
  BY <1>1, NothingLeft
<1>5. IF raw' THEN unpack_size' = 0
      ELSE \A k \in (delivered' + 2)..Len(bounds') :
             bounds'[k] > Received' \/ bounds'[k] = bounds'[k - 1] + Hdr
  BY <1>3, <1>4
<1>6. NothingHeldBack'  BY <1>5 DEF NothingHeldBack, Received
<1> QED BY <1>1, <1>2, <1>6, StreamFrame

-----------------------------------------------------------------------------

LEMMA StreamInit == Init => StreamInv
<1> SUFFICES ASSUME Init PROVE StreamInv
  OBVIOUS
<1> USE StreamAssumption DEF Init
<1>1. StreamTypes  BY DEF StreamTypes
<1>2. Apart  BY DEF Apart
<1>3. ReadAt = 0 /\ Received = 0 /\ SentEnd = 0  BY DEF ReadAt, Received, SentEnd, Abs
<1>4. Positions  BY <1>3 DEF Positions
<1>5. NothingHeldBack  BY DEF NothingHeldBack
<1> QED BY <1>1, <1>2, <1>4, <1>5 DEF StreamInv

LEMMA StreamStep == StreamInv /\ [Next]_vars => StreamInv'
<1> SUFFICES ASSUME StreamInv, [Next]_vars PROVE StreamInv'
  OBVIOUS
<1>1. ASSUME UNCHANGED <<raw, bounds, unpackVars, next_recv_buf, next_recv_pos>>,
             UNCHANGED delivered, nbuf' = nbuf, phase' \in {phase, "destroyed"}
      PROVE  StreamInv'
  <2>1. nbuf' \in Nat /\ nbuf <= nbuf'  BY <1>1 DEF StreamInv, StreamTypes
  <2>2. ASSUME phase' = "posted" PROVE NothingHeldBack'
    BY <1>1, <2>2 DEF StreamInv, NothingHeldBack, unpackVars, Abs
  <2> QED BY <1>1, <2>1, <2>2, StreamFrame
<1>2. CASE UNCHANGED vars  BY <1>1, <1>2 DEF vars, unpackVars
<1>3. CASE Next
  <2>1. raw' = raw  BY <1>3 DEF Next
  <2>2. CASE \E l \in Lens : PeerSends(l)  BY <2>1, <2>2, PeerStep
  <2>3. CASE \E n \in 1..Cap : update_next_recv_pos(n)  BY <2>1, <2>3, ReadStep
  <2>4. CASE unpack  BY <2>1, <2>4, UnpackStep
  <2>5. CASE unpack_raw  BY <2>1, <2>5, UnpackRawStep
  <2>6. CASE PostRead  BY <2>1, <2>6, PostStep
  <2>7. CASE connection_destroy
    BY <1>1, <2>1, <2>7 DEF connection_destroy, recvVars
  <2>8. ASSUME NEW k \in DOMAIN rpackets, rpacket_destroy(k) PROVE StreamInv'
    BY <1>1, <2>1, <2>8 DEF rpacket_destroy, recvVars
  <2>9. ASSUME NEW k \in DOMAIN rpackets, NEW n \in 1..rpackets[k].data_remain,
               rpacket_read(k, n)
        PROVE  StreamInv'
    BY <1>1, <2>1, <2>9 DEF rpacket_read, recvVars
  <2> QED BY <1>3, <2>2, <2>3, <2>4, <2>5, <2>6, <2>7, <2>8, <2>9 DEF Next, Step
<1> QED BY <1>2, <1>3

\* Whatever the sizes of buffers, header and packets and however the reads cut
\* the stream, unpack stands at the next packet's header, its counts agree with
\* the receive position, it never passes the end of the chain, and no complete
\* packet waits for another read unless it is an empty one.
THEOREM UnpackedAlways == Spec => []Unpacked
<1>1. StreamInv => Unpacked
  <2> SUFFICES ASSUME StreamInv PROVE Unpacked
    OBVIOUS
  <2>1. Framing  BY DEF StreamInv, Positions, Framing, ReadAt, Received
  <2>2. NothingHeldBack  BY DEF StreamInv
  <2> QED BY <2>1, <2>2 DEF Unpacked
<1> QED BY <1>1, StreamInit, StreamStep, PTL DEF Spec


-----------------------------------------------------------------------------
(* Reference counts.  ref counts exactly when buffer b has as many as ext[b] *)
(* holders outside the chain and one more if the buffer before it lives.     *)

Exact(ref, ext, n) ==
  /\ ref \in [Buffer -> Nat] /\ ext \in [Buffer -> Nat]
  /\ \A b \in Buffer : b > n => ext[b] = 0
  /\ \A b \in Buffer :
       ref[b] = ext[b] + IF b > 1 /\ b <= n /\ ref[b - 1] > 0 THEN 1 ELSE 0

\* One reference of a goes to b.
MoveRef(ext, a, b) ==
  [x \in Buffer |-> ext[x] + (IF x = b THEN 1 ELSE 0) - (IF x = a THEN 1 ELSE 0)]

\* The chain after a living buffer lives.
LEMMA ChainLives ==
  ASSUME NEW ref, NEW ext, NEW n \in Buffer, Exact(ref, ext, n),
         NEW b \in 1..n, ref[b] > 0
  PROVE  \A c \in b..n : ref[c] > 0
<1> DEFINE S == {c \in b..n : ~(ref[c] > 0)}
<1>1. MaxBuf \in Nat \ {0} /\ n \in 1..MaxBuf /\ b \in Nat \ {0}
  BY StreamAssumption DEF Buffer
<1>2. \A c \in b..n : c \in Buffer /\ ref[c] \in Nat /\ c \in Nat
  BY <1>1 DEF Exact, Buffer
<1>3. ASSUME S # {} PROVE FALSE
  <2>1. S \in SUBSET Nat  BY <1>2
  <2>2. PICK m \in S : \A y \in S : m <= y  BY <1>3, <2>1, LeastElement
  <2>3. m # b /\ m \in b..n /\ ~(ref[m] > 0)  BY <2>2
  <2>4. m - 1 \in b..n /\ m > 1 /\ m <= n  BY <1>1, <2>3
  <2>5. m - 1 \notin S  BY <1>1, <2>2, <2>3, <2>4
  <2>6. ref[m - 1] > 0  BY <2>4, <2>5
  <2>7. ref[m] = ext[m] + 1 /\ ext[m] \in Nat  BY <1>2, <2>3, <2>4, <2>6 DEF Exact
  <2> QED BY <2>3, <2>7
<1> QED BY <1>3

\* buffer_acquire of a buffer that lives.
LEMMA AcquireExact ==
  ASSUME NEW ref, NEW ext, NEW n \in Buffer, Exact(ref, ext, n),
         NEW b \in 1..n, ref[b] > 0, NEW k \in Nat
  PROVE  Exact([ref EXCEPT ![b] = @ + k], [ext EXCEPT ![b] = @ + k], n)
<1> DEFINE r == [ref EXCEPT ![b] = @ + k]
           e == [ext EXCEPT ![b] = @ + k]
<1>1. MaxBuf \in Nat \ {0} /\ n \in 1..MaxBuf /\ b \in Buffer
  BY StreamAssumption DEF Buffer
<1>2. ref \in [Buffer -> Nat] /\ ext \in [Buffer -> Nat]  BY DEF Exact
<1>3. /\ r \in [Buffer -> Nat] /\ e \in [Buffer -> Nat]
      /\ r[b] = ref[b] + k /\ e[b] = ext[b] + k
      /\ \A x \in Buffer \ {b} : r[x] = ref[x] /\ e[x] = ext[x]
  BY <1>1, <1>2
<1> HIDE DEF r, e
<1>4. \A x \in Buffer : ref[x] \in Nat /\ ext[x] \in Nat  BY <1>2
<1>5. \A x \in Buffer : r[x] > 0 <=> ref[x] > 0  BY <1>1, <1>3, <1>4
<1>6. \A x \in Buffer : x > n => e[x] = 0
  BY <1>1, <1>3 DEF Exact, Buffer
<1>7. ASSUME NEW x \in Buffer
      PROVE  r[x] = e[x] + IF x > 1 /\ x <= n /\ r[x - 1] > 0 THEN 1 ELSE 0
  <2>1. x > 1 => x - 1 \in Buffer  BY <1>1 DEF Buffer
  <2>2. (x > 1 /\ x <= n /\ r[x - 1] > 0) <=> (x > 1 /\ x <= n /\ ref[x - 1] > 0)
    BY <1>5, <2>1
  <2>3. ref[x] = ext[x] + IF x > 1 /\ x <= n /\ r[x - 1] > 0 THEN 1 ELSE 0
    BY <2>2 DEF Exact
  <2> QED BY <1>3, <1>4, <2>3
<1> QED BY <1>3, <1>6, <1>7 DEF Exact, r, e

\* Where the cascade of a release ends: all buffers before that have count 1.
LEMMA ReleaseEffect ==
  ASSUME nbuf \in Buffer, NEW ref \in [Buffer -> Nat], NEW b \in 1..nbuf
  PROVE  \E last \in b..nbuf :
           /\ buffer_release(ref, b) =
                [i \in Buffer |-> IF i \in b..last THEN ref[i] - 1 ELSE ref[i]]
           /\ \A i \in b..nbuf : i < last => ref[i] = 1
           /\ last < nbuf => ref[last] # 1
<1> DEFINE stops == {i \in b..nbuf : ref[i] # 1}
           last  == IF stops = {} THEN nbuf ELSE CHOOSE i \in stops : \A j \in stops : i <= j
<1>1. nbuf \in Nat /\ b \in Nat  BY StreamAssumption DEF Buffer
<1>2. buffer_release(ref, b) =
        [i \in Buffer |-> IF i \in b..last THEN ref[i] - 1 ELSE ref[i]]
  BY DEF buffer_release
<1>3. CASE stops = {}
  <2>1. last = nbuf /\ last \in b..nbuf  BY <1>1, <1>3
  <2>2. \A i \in b..nbuf : ref[i] = 1  BY <1>3
  <2> HIDE DEF last, stops
  <2> QED BY <1>1, <1>2, <2>1, <2>2
<1>4. CASE stops # {}
  <2>1. stops \in SUBSET Nat  BY <1>1
  <2>2. \E i \in stops : \A j \in stops : i <= j  BY <1>4, <2>1, LeastElement
  <2>3. last \in stops /\ \A j \in stops : last <= j  BY <1>4, <2>2
  <2>4. last \in b..nbuf /\ ref[last] # 1  BY <2>3
  <2> HIDE DEF last
  <2>5. ASSUME NEW i \in b..nbuf, i < last PROVE ref[i] = 1
    <3>1. i \notin stops  BY <1>1, <2>3, <2>4, <2>5
    <3> QED BY <3>1
  <2> QED BY <1>2, <2>4, <2>5
<1> QED BY <1>3, <1>4

\* buffer_release of a buffer that somebody outside the chain holds.
LEMMA ReleaseExact ==
  ASSUME nbuf \in Buffer, NEW ref, NEW ext, Exact(ref, ext, nbuf),
         NEW b \in 1..nbuf, ext[b] > 0
  PROVE  Exact(buffer_release(ref, b), [ext EXCEPT ![b] = @ - 1], nbuf)
<1> DEFINE r == buffer_release(ref, b)
           e == [ext EXCEPT ![b] = @ - 1]
<1>1. MaxBuf \in Nat \ {0} /\ nbuf \in 1..MaxBuf /\ b \in Buffer /\ b \in 1..MaxBuf
  BY StreamAssumption DEF Buffer
<1>2. ref \in [Buffer -> Nat] /\ ext \in [Buffer -> Nat]  BY DEF Exact
<1>3. PICK last \in b..nbuf :
        /\ r = [i \in Buffer |-> IF i \in b..last THEN ref[i] - 1 ELSE ref[i]]
        /\ \A i \in b..nbuf : i < last => ref[i] = 1
        /\ last < nbuf => ref[last] # 1
  BY <1>2, ReleaseEffect
<1>4. ref[b] > 0  BY <1>1, <1>2 DEF Exact
<1>5. \A i \in b..nbuf : ref[i] > 0  BY <1>4, ChainLives
<1>6. \A i \in Buffer : ref[i] \in Nat /\ ext[i] \in Nat /\ i \in Nat
  BY <1>1, <1>2 DEF Buffer
<1>7. \A i \in Buffer : r[i] = IF i \in b..last THEN ref[i] - 1 ELSE ref[i]  BY <1>3
<1>8. \A i \in b..last : i \in Buffer /\ ref[i] > 0 /\ i \in b..nbuf
  BY <1>1, <1>5 DEF Buffer
<1>9. r \in [Buffer -> Nat]
  <2>1. \A i \in Buffer : (IF i \in b..last THEN ref[i] - 1 ELSE ref[i]) \in Nat
    BY <1>6, <1>8
  <2> QED BY <1>3, <2>1
<1>10. /\ e \in [Buffer -> Nat] /\ e[b] = ext[b] - 1
       /\ \A x \in Buffer \ {b} : e[x] = ext[x]
  BY <1>1, <1>2, <1>6
<1> HIDE DEF r, e
<1>11. \A x \in Buffer : x > nbuf => e[x] = 0
  BY <1>1, <1>10 DEF Exact, Buffer
<1>12. ASSUME NEW x \in Buffer
       PROVE  r[x] = e[x] + IF x > 1 /\ x <= nbuf /\ r[x - 1] > 0 THEN 1 ELSE 0
  <2>1. x > 1 => x - 1 \in Buffer  BY <1>1 DEF Buffer
  <2>2. ref[x] = ext[x] + IF x > 1 /\ x <= nbuf /\ ref[x - 1] > 0 THEN 1 ELSE 0
    BY DEF Exact
  <2>3. x \in Nat /\ ref[x] \in Nat /\ ext[x] \in Nat /\ last \in Nat /\ b \in Nat /\ nbuf \in Nat
    BY <1>1, <1>6
  <2>4. CASE x < b \/ x > last + 1
    <3>1. r[x] = ref[x] /\ e[x] = ext[x]  BY <1>7, <1>10, <2>3, <2>4
    <3>2. x > 1 => r[x - 1] = ref[x - 1]  BY <1>7, <2>1, <2>3, <2>4
    <3> QED BY <2>2, <3>1, <3>2
  <2>5. CASE x = b
    <3>1. r[x] = ref[x] - 1 /\ e[x] = ext[x] - 1  BY <1>7, <1>10, <2>3, <2>5
    <3>2. x > 1 => r[x - 1] = ref[x - 1]  BY <1>7, <2>1, <2>3, <2>5
    <3> QED BY <2>2, <2>3, <3>1, <3>2
  <2>6. CASE x > b /\ x <= last
    <3>1. r[x] = ref[x] - 1 /\ e[x] = ext[x]  BY <1>7, <1>10, <2>3, <2>6
    <3>2. x > 1 /\ x <= nbuf /\ x - 1 \in b..nbuf /\ x - 1 < last /\ x - 1 \in b..last
      BY <1>1, <2>3, <2>6
    <3>3. ref[x - 1] = 1 /\ r[x - 1] = 0  BY <1>3, <1>7, <2>1, <3>2
    <3> QED BY <2>2, <2>3, <3>1, <3>2, <3>3
  <2>7. CASE x = last + 1
    <3>1. r[x] = ref[x] /\ e[x] = ext[x]  BY <1>7, <1>10, <2>3, <2>7
    <3>2. x - 1 = last /\ x > 1  BY <1>1, <2>3, <2>7
    <3>3. last < nbuf => r[last] > 0 /\ ref[last] > 0
      <4>1. last \in Buffer /\ last \in b..last  BY <1>1, <2>3 DEF Buffer
      <4> QED BY <1>3, <1>6, <1>7, <1>8, <4>1
    <3>4. x <= nbuf <=> last < nbuf  BY <2>3, <2>7
    <3> QED BY <2>2, <3>1, <3>2, <3>3, <3>4
  <2> QED BY <2>3, <2>4, <2>5, <2>6, <2>7
<1> QED BY <1>9, <1>10, <1>11, <1>12 DEF Exact, r, e


\* x = buffer_acquire(x, x->next), once.
LEMMA HopExact ==
  ASSUME nbuf \in Buffer, NEW ref, NEW ext, Exact(ref, ext, nbuf),
         NEW b \in 1..nbuf, b + 1 <= nbuf, ext[b] > 0
  PROVE  Exact(buffer_release([ref EXCEPT ![b + 1] = @ + 1], b), MoveRef(ext, b, b + 1), nbuf)
<1>1. MaxBuf \in Nat \ {0} /\ nbuf \in 1..MaxBuf /\ b \in Buffer /\ b \in Nat \ {0}
      /\ b + 1 \in Buffer /\ b + 1 \in 1..nbuf /\ b + 1 \in b..nbuf /\ b + 1 # b
  BY StreamAssumption DEF Buffer
<1>2. ref \in [Buffer -> Nat] /\ ext \in [Buffer -> Nat]  BY DEF Exact
<1>3. ref[b] > 0  BY <1>1, <1>2 DEF Exact
<1>4. ref[b + 1] > 0  BY <1>1, <1>3, ChainLives
<1> DEFINE r == [ref EXCEPT ![b + 1] = @ + 1]
           e == [ext EXCEPT ![b + 1] = @ + 1]
<1>5. Exact(r, e, nbuf)  BY <1>1, <1>4, AcquireExact
<1>6. e[b] = ext[b] /\ e[b] > 0  BY <1>1, <1>2
<1> HIDE DEF r
<1>7. Exact(buffer_release(r, b), [e EXCEPT ![b] = @ - 1], nbuf)
  <2> HIDE DEF e
  <2> QED BY <1>5, <1>6, ReleaseExact
<1>8. [e EXCEPT ![b] = @ - 1] = MoveRef(ext, b, b + 1)
  <2>1. \A x \in Buffer : [e EXCEPT ![b] = @ - 1][x] = MoveRef(ext, b, b + 1)[x]
    BY <1>1, <1>2 DEF MoveRef
  <2>2. [e EXCEPT ![b] = @ - 1] = [x \in Buffer |-> [e EXCEPT ![b] = @ - 1][x]]
    BY <1>2
  <2>3. MoveRef(ext, b, b + 1) = [x \in Buffer |-> MoveRef(ext, b, b + 1)[x]]
    BY DEF MoveRef
  <2> QED BY <2>1, <2>2, <2>3
<1> QED BY <1>7, <1>8 DEF r

\* The recursive function in acquire_next, as far as n.
IsAcquire(f, ref, b, n) ==
  f = [i \in 0..n |-> IF i = 0 THEN ref
                      ELSE buffer_release([f[i - 1] EXCEPT ![b + i] = @ + 1], b + i - 1)]

LEMMA AcquireDefined ==
  ASSUME NEW ref, NEW b \in Nat, NEW n \in Nat
  PROVE  \E f : IsAcquire(f, ref, b, n)
<1> DEFINE S == {m \in Nat : ~ \E f : IsAcquire(f, ref, b, m)}
<1>1. ASSUME S # {} PROVE FALSE
  <2>1. S \in SUBSET Nat  OBVIOUS
  <2>2. PICK m \in S : \A y \in S : m <= y  BY <1>1, <2>1, LeastElement
  <2>3. m \in Nat /\ ~ \E f : IsAcquire(f, ref, b, m)  BY <2>2
  <2>4. CASE m = 0
    <3>1. IsAcquire([i \in 0..0 |-> ref], ref, b, 0)  BY DEF IsAcquire
    <3> QED BY <2>3, <2>4, <3>1
  <2>5. CASE m # 0
    <3>1. m - 1 \in Nat /\ m - 1 \notin S  BY <2>2, <2>3, <2>5
    <3>2. PICK g : IsAcquire(g, ref, b, m - 1)  BY <3>1
    <3> DEFINE h == [i \in 0..m |-> IF i < m THEN g[i]
                       ELSE buffer_release([g[m - 1] EXCEPT ![b + m] = @ + 1], b + m - 1)]
    <3>3. \A i \in 0..(m - 1) :
            g[i] = IF i = 0 THEN ref
                   ELSE buffer_release([g[i - 1] EXCEPT ![b + i] = @ + 1], b + i - 1)
      BY <3>2 DEF IsAcquire
    <3>4. ASSUME NEW i \in 0..m
          PROVE  h[i] = IF i = 0 THEN ref
                        ELSE buffer_release([h[i - 1] EXCEPT ![b + i] = @ + 1], b + i - 1)
      <4>1. CASE i < m
        <5>1. h[i] = g[i] /\ i \in 0..(m - 1)  BY <2>3, <4>1
        <5>2. i # 0 => h[i - 1] = g[i - 1]
          <6>1. i # 0 => i - 1 \in 0..m /\ i - 1 < m  BY <2>3, <4>1
          <6> QED BY <6>1
        <5> QED BY <3>3, <5>1, <5>2
      <4>2. CASE i = m
        <5>1. h[m - 1] = g[m - 1]
          <6>1. m - 1 \in 0..m /\ m - 1 < m  BY <2>3, <2>5
          <6> QED BY <6>1
        <5>2. h[m] = buffer_release([g[m - 1] EXCEPT ![b + m] = @ + 1], b + m - 1)
          <6>1. m \in 0..m /\ ~(m < m)  BY <2>3
          <6> QED BY <6>1
        <5> QED BY <2>5, <4>2, <5>1, <5>2
      <4> QED BY <2>3, <4>1, <4>2
    <3>5. h = [i \in 0..m |-> h[i]]  OBVIOUS
    <3> HIDE DEF h
    <3>6. IsAcquire(h, ref, b, m)  BY <3>4, <3>5 DEF IsAcquire
    <3> QED BY <2>3, <3>6
  <2> QED BY <2>4, <2>5
<1> QED BY <1>1

\* acquire_next moves one reference n buffers on.
LEMMA AcquireNextExact ==
  ASSUME nbuf \in Buffer, NEW ref, NEW ext, Exact(ref, ext, nbuf),
         NEW b \in 1..nbuf, NEW n \in Nat, b + n <= nbuf, ext[b] > 0
  PROVE  Exact(acquire_next(ref, b, n), MoveRef(ext, b, b + n), nbuf)
<1>1. MaxBuf \in Nat \ {0} /\ nbuf \in 1..MaxBuf /\ b \in Buffer /\ b \in Nat \ {0}
  BY StreamAssumption DEF Buffer
<1> DEFINE f == CHOOSE g : IsAcquire(g, ref, b, n)
<1>2. acquire_next(ref, b, n) = f[n]  BY DEF acquire_next, IsAcquire
<1>3. IsAcquire(f, ref, b, n)  BY <1>1, AcquireDefined
<1> HIDE DEF f
<1>4. \A i \in 0..n :
        f[i] = IF i = 0 THEN ref
               ELSE buffer_release([f[i - 1] EXCEPT ![b + i] = @ + 1], b + i - 1)
  BY <1>3 DEF IsAcquire
<1> DEFINE S == {i \in 0..n : ~Exact(f[i], MoveRef(ext, b, b + i), nbuf)}
<1>5. ext \in [Buffer -> Nat]  BY DEF Exact
<1>6. ASSUME S # {} PROVE FALSE
  <2>1. S \in SUBSET Nat  OBVIOUS
  <2>2. PICK m \in S : \A y \in S : m <= y  BY <1>6, <2>1, LeastElement
  <2>3. m \in 0..n /\ ~Exact(f[m], MoveRef(ext, b, b + m), nbuf)  BY <2>2
  <2>4. CASE m = 0
    <3>0. 0 \in 0..n  OBVIOUS
    <3>1. f[0] = ref  BY <1>4, <3>0, Zenon
    <3>2. MoveRef(ext, b, b) = ext  BY <1>5 DEF MoveRef
    <3>3. b + 0 = b  BY <1>1
    <3> QED BY <2>3, <2>4, <3>1, <3>2, <3>3
  <2>5. CASE m # 0
    <3> DEFINE p == (b + m) - 1
               e == MoveRef(ext, b, p)
    <3>1. m - 1 \in 0..n /\ m - 1 \notin S /\ b + (m - 1) = p /\ p \in 1..nbuf /\ p + 1 = b + m
          /\ p + 1 <= nbuf /\ p \in Buffer /\ p + 1 \in Buffer /\ b + m - 1 = p /\ p + 1 # b
      BY <1>1, <2>2, <2>3, <2>5 DEF Buffer
    <3>2. Exact(f[m - 1], e, nbuf)  BY <3>1
    <3>3. f[m] = buffer_release([f[m - 1] EXCEPT ![p + 1] = @ + 1], p)
      BY <1>4, <2>3, <2>5, <3>1
    <3> HIDE DEF p
    <3>4. e[p] > 0
      <4>1. e[p] = ext[p] + 1 - (IF p = b THEN 1 ELSE 0) /\ ext[p] \in Nat
        BY <1>5, <3>1 DEF MoveRef
      <4>2. p = b => ext[p] > 0  OBVIOUS
      <4> QED BY <4>1, <4>2
    <3>5. MoveRef(e, p, p + 1) = MoveRef(ext, b, b + m)
      <4>1. ASSUME NEW x \in Buffer
            PROVE  MoveRef(e, p, p + 1)[x] = MoveRef(ext, b, b + m)[x]
        <5>1. ext[x] \in Nat  BY <1>5
        <5>2. MoveRef(e, p, p + 1)[x] =
                e[x] + (IF x = p + 1 THEN 1 ELSE 0) - (IF x = p THEN 1 ELSE 0)
          BY DEF MoveRef
        <5>3. e[x] = ext[x] + (IF x = p THEN 1 ELSE 0) - (IF x = b THEN 1 ELSE 0)
          BY DEF MoveRef
        <5>4. MoveRef(ext, b, b + m)[x] =
                ext[x] + (IF x = p + 1 THEN 1 ELSE 0) - (IF x = b THEN 1 ELSE 0)
          BY <3>1 DEF MoveRef
        <5> HIDE DEF e
        <5> QED BY <5>1, <5>2, <5>3, <5>4
      <4> QED BY <4>1 DEF MoveRef
    <3> HIDE DEF e
    <3>6. Exact(f[m], MoveRef(e, p, p + 1), nbuf)  BY <3>1, <3>2, <3>3, <3>4, HopExact
    <3> QED BY <2>3, <3>5, <3>6
  <2> QED BY <2>4, <2>5
<1>7. n \in 0..n /\ n \notin S  BY <1>6
<1> QED BY <1>2, <1>7


-----------------------------------------------------------------------------
(* The references that rpackets hold, counted.                             *)

CountOf(g, b) == Cardinality({k \in DOMAIN g : g[k] = b})

LEMMA CountNat ==
  ASSUME NEW g, IsFiniteSet(DOMAIN g), NEW b
  PROVE  CountOf(g, b) \in Nat /\ \A k \in DOMAIN g : CountOf(g, g[k]) > 0
<1>1. ASSUME NEW c PROVE IsFiniteSet({k \in DOMAIN g : g[k] = c})
  BY FS_Subset
<1>2. ASSUME NEW c PROVE CountOf(g, c) \in Nat
  BY <1>1, FS_CardinalityType DEF CountOf
<1>3. ASSUME NEW k \in DOMAIN g PROVE CountOf(g, g[k]) > 0
  <2>1. {j \in DOMAIN g : g[j] = g[k]} # {}  OBVIOUS
  <2>2. CountOf(g, g[k]) # 0  BY <1>1, <2>1, FS_EmptySet DEF CountOf
  <2> QED BY <1>2, <2>2
<1> QED BY <1>2, <1>3

LEMMA CountMore ==
  ASSUME NEW g, NEW h, NEW k, k \notin DOMAIN g, IsFiniteSet(DOMAIN g),
         DOMAIN h = DOMAIN g \cup {k}, \A j \in DOMAIN g : h[j] = g[j], NEW b
  PROVE  CountOf(h, b) = CountOf(g, b) + IF h[k] = b THEN 1 ELSE 0
<1> DEFINE S == {j \in DOMAIN g : g[j] = b}
<1>1. IsFiniteSet(S) /\ k \notin S  BY FS_Subset
<1>2. CountOf(g, b) \in Nat  BY CountNat
<1>3. CASE h[k] = b
  <2>1. {j \in DOMAIN h : h[j] = b} = S \cup {k}  BY <1>3
  <2>2. Cardinality(S \cup {k}) = Cardinality(S) + 1  BY <1>1, FS_AddElement
  <2> QED BY <1>3, <2>1, <2>2 DEF CountOf
<1>4. CASE h[k] # b
  <2>1. {j \in DOMAIN h : h[j] = b} = S  BY <1>4
  <2>2. CountOf(h, b) = CountOf(g, b)  BY <2>1 DEF CountOf
  <2> QED BY <1>2, <1>4, <2>2
<1> QED BY <1>3, <1>4

LEMMA CountMoved ==
  ASSUME NEW g, NEW h, NEW k \in DOMAIN g, IsFiniteSet(DOMAIN g), DOMAIN h = DOMAIN g,
         \A j \in DOMAIN g \ {k} : h[j] = g[j], NEW b
  PROVE  CountOf(h, b) = CountOf(g, b) + (IF h[k] = b THEN 1 ELSE 0)
                                       - (IF g[k] = b THEN 1 ELSE 0)
<1> DEFINE m == [j \in DOMAIN g \ {k} |-> g[j]]
<1>1. IsFiniteSet(DOMAIN m) /\ k \notin DOMAIN m  BY FS_Subset
<1>2. DOMAIN g = DOMAIN m \cup {k} /\ \A j \in DOMAIN m : g[j] = m[j] /\ h[j] = m[j]
  OBVIOUS
<1> HIDE DEF m
<1>3. CountOf(g, b) = CountOf(m, b) + IF g[k] = b THEN 1 ELSE 0  BY <1>1, <1>2, CountMore
<1>4. CountOf(h, b) = CountOf(m, b) + IF h[k] = b THEN 1 ELSE 0  BY <1>1, <1>2, CountMore
<1>5. CountOf(m, b) \in Nat  BY <1>1, CountNat
<1> QED BY <1>3, <1>4, <1>5

-----------------------------------------------------------------------------
(* The state: who holds a buffer from outside the chain.                   *)

RPacket == [buf : Nat, readbuf : Nat, rpos : Nat, begin_pos : Nat, len : Nat, data_remain : Nat]

BufOf  == [k \in DOMAIN rpackets |-> rpackets[k].buf]
ReadOf == [k \in DOMAIN rpackets |-> rpackets[k].readbuf]

Outer ==
  [b \in Buffer |-> (IF phase # "destroyed" /\ unpack_buf = b THEN 1 ELSE 0)
                    + (IF phase # "destroyed" /\ next_recv_buf = b THEN 1 ELSE 0)
                    + CountOf(BufOf, b) + CountOf(ReadOf, b)]

\* A packet's data lie before the place where unpacking stands.
PacketsInside ==
  /\ IsFiniteSet(DOMAIN rpackets) /\ DOMAIN rpackets \subseteq 1..delivered
  /\ \A k \in DOMAIN rpackets :
       /\ rpackets[k] \in RPacket
       /\ rpackets[k].buf \in 1..nbuf /\ rpackets[k].readbuf \in 1..nbuf
       /\ Abs(rpackets[k].readbuf, rpackets[k].rpos) + rpackets[k].data_remain <= ReadAt

ChainBound ==
  /\ nbuf \in Buffer
  /\ phase = "unpack" => next_recv_buf < MaxBuf
  /\ phase \in {"posted", "unpack", "destroyed"}

RefInv ==
  /\ StreamInv /\ ChainBound /\ PacketsInside
  /\ Exact(refcount, Outer, nbuf)

LEMMA RefsCounted == RefInv => RefsExact
<1> SUFFICES ASSUME RefInv, NEW b \in Buffer PROVE refcount[b] = Holders(b)
  BY DEF RefsExact
<1> DEFINE c1 == Cardinality({k \in DOMAIN rpackets : rpackets[k].buf = b})
           c2 == Cardinality({k \in DOMAIN rpackets : rpackets[k].readbuf = b})
<1>1. CountOf(BufOf, b) = c1 /\ CountOf(ReadOf, b) = c2
  <2>1. {k \in DOMAIN BufOf : BufOf[k] = b} = {k \in DOMAIN rpackets : rpackets[k].buf = b}
    BY DEF BufOf
  <2>2. {k \in DOMAIN ReadOf : ReadOf[k] = b} = {k \in DOMAIN rpackets : rpackets[k].readbuf = b}
    BY DEF ReadOf
  <2> QED BY <2>1, <2>2 DEF CountOf
<1>2. CountOf(BufOf, b) \in Nat /\ CountOf(ReadOf, b) \in Nat
  BY CountNat DEF BufOf, ReadOf, RefInv, PacketsInside
<1>3. /\ refcount[b] = Outer[b] + (IF b > 1 /\ b <= nbuf /\ refcount[b - 1] > 0 THEN 1 ELSE 0)
      /\ Outer[b] = (IF phase # "destroyed" /\ unpack_buf = b THEN 1 ELSE 0)
                    + (IF phase # "destroyed" /\ next_recv_buf = b THEN 1 ELSE 0)
                    + CountOf(BufOf, b) + CountOf(ReadOf, b)
  BY DEF RefInv, Exact, Outer
<1>4. Holders(b) = (IF b > 1 /\ b <= nbuf /\ refcount[b - 1] > 0 THEN 1 ELSE 0)
                   + (IF phase # "destroyed" /\ unpack_buf = b THEN 1 ELSE 0)
                   + (IF phase # "destroyed" /\ next_recv_buf = b THEN 1 ELSE 0) + c1 + c2
  BY DEF Holders
<1> HIDE DEF c1, c2
<1> QED BY <1>1, <1>2, <1>3, <1>4

LEMMA RefInit == Init => RefInv
<1> SUFFICES ASSUME Init PROVE RefInv
  OBVIOUS
<1>1. StreamInv  BY StreamInit
<1>2. ChainBound  BY StreamAssumption DEF Init, ChainBound, Buffer
<1>3. DOMAIN rpackets = {}  BY DEF Init
<1>4. PacketsInside  BY <1>3, FS_EmptySet DEF PacketsInside
<1>5. \A b : CountOf(BufOf, b) = 0 /\ CountOf(ReadOf, b) = 0
  <2> SUFFICES ASSUME NEW b PROVE CountOf(BufOf, b) = 0 /\ CountOf(ReadOf, b) = 0
    OBVIOUS
  <2>1. {k \in DOMAIN BufOf : BufOf[k] = b} = {} /\ {k \in DOMAIN ReadOf : ReadOf[k] = b} = {}
    BY <1>3 DEF BufOf, ReadOf
  <2> QED BY <2>1, FS_EmptySet DEF CountOf
<1>6. Outer = [b \in Buffer |-> IF b = 1 THEN 2 ELSE 0]
  <2>1. \A b \in Buffer : (IF phase # "destroyed" /\ unpack_buf = b THEN 1 ELSE 0)
                    + (IF phase # "destroyed" /\ next_recv_buf = b THEN 1 ELSE 0)
                    + CountOf(BufOf, b) + CountOf(ReadOf, b) = IF b = 1 THEN 2 ELSE 0
    BY <1>5 DEF Init
  <2> QED BY <2>1 DEF Outer
<1>7. refcount = Outer /\ refcount \in [Buffer -> Nat] /\ nbuf = 1  BY <1>6 DEF Init
<1>8. Exact(refcount, Outer, nbuf)
  <2>1. \A b \in Buffer : b \in Nat  BY StreamAssumption DEF Buffer
  <2> QED BY <1>6, <1>7, <2>1 DEF Exact
<1> QED BY <1>1, <1>2, <1>4, <1>8 DEF RefInv


-----------------------------------------------------------------------------
(* The steps.                                                              *)

LEMMA ExactSame ==
  ASSUME NEW ref, NEW e, NEW n, Exact(ref, e, n),
         NEW f, f = [x \in Buffer |-> f[x]], \A x \in Buffer : f[x] = e[x]
  PROVE  Exact(ref, f, n)
<1>1. e = [x \in Buffer |-> e[x]]  BY DEF Exact
<1>2. f = e  BY <1>1
<1> QED BY <1>2

LEMMA OuterAt ==
  ASSUME RefInv, NEW b \in Buffer
  PROVE  /\ Outer[b] = (IF phase # "destroyed" /\ unpack_buf = b THEN 1 ELSE 0)
                       + (IF phase # "destroyed" /\ next_recv_buf = b THEN 1 ELSE 0)
                       + CountOf(BufOf, b) + CountOf(ReadOf, b)
         /\ CountOf(BufOf, b) \in Nat /\ CountOf(ReadOf, b) \in Nat
<1>1. CountOf(BufOf, b) \in Nat /\ CountOf(ReadOf, b) \in Nat
  BY CountNat DEF BufOf, ReadOf, RefInv, PacketsInside
<1> QED BY <1>1 DEF Outer

\* What a packet holds, the connection holds: places in the chain.
LEMMA Places ==
  ASSUME RefInv
  PROVE  /\ MaxBuf \in Nat \ {0} /\ Cap \in Nat \ {0} /\ nbuf \in 1..MaxBuf /\ nbuf \in Buffer
         /\ unpack_buf \in 1..nbuf /\ next_recv_buf \in 1..nbuf
         /\ unpack_buf \in Buffer /\ next_recv_buf \in Buffer
         /\ phase # "destroyed" => Outer[unpack_buf] > 0 /\ Outer[next_recv_buf] > 0
         /\ refcount \in [Buffer -> Nat] /\ Outer \in [Buffer -> Nat]
<1>1. MaxBuf \in Nat \ {0} /\ Cap \in Nat \ {0} /\ nbuf \in 1..MaxBuf /\ nbuf \in Buffer
  BY StreamAssumption DEF RefInv, ChainBound, Buffer
<1>2. unpack_buf \in 1..nbuf /\ next_recv_buf \in 1..nbuf
  BY <1>1 DEF RefInv, StreamInv, StreamTypes, Positions
<1>3. unpack_buf \in Buffer /\ next_recv_buf \in Buffer  BY <1>1, <1>2 DEF Buffer
<1>4. phase # "destroyed" => Outer[unpack_buf] > 0 /\ Outer[next_recv_buf] > 0
  BY <1>3, OuterAt
<1>5. refcount \in [Buffer -> Nat] /\ Outer \in [Buffer -> Nat]  BY DEF RefInv, Exact
<1> QED BY <1>1, <1>2, <1>3, <1>4, <1>5

LEMMA PacketsKept ==
  ASSUME RefInv, rpackets' = rpackets, delivered' = delivered,
         nbuf' \in Nat, nbuf <= nbuf', ReadAt' = ReadAt
  PROVE  PacketsInside'
<1>1. nbuf \in Nat /\ \A x \in 1..nbuf : x \in 1..nbuf'  BY Places
<1> QED BY <1>1 DEF RefInv, PacketsInside, Abs

LEMMA OuterKept ==
  ASSUME UNCHANGED <<rpackets, unpack_buf, next_recv_buf>>,
         phase' = "destroyed" <=> phase = "destroyed"
  PROVE  Outer' = Outer
BY DEF Outer, BufOf, ReadOf

\* A new buffer at the end of a living chain.
LEMMA AppendExact ==
  ASSUME NEW ref, NEW ext, NEW n \in Buffer, Exact(ref, ext, n), n + 1 \in Buffer, ref[n] > 0
  PROVE  Exact([ref EXCEPT ![n + 1] = 1], ext, n + 1)
<1> DEFINE r == [ref EXCEPT ![n + 1] = 1]
<1>1. n \in Nat /\ \A b \in Buffer : b \in Nat \ {0}  BY StreamAssumption DEF Buffer
<1>2. ref \in [Buffer -> Nat] /\ ext \in [Buffer -> Nat]  BY DEF Exact
<1>3. /\ r \in [Buffer -> Nat] /\ r[n + 1] = 1
      /\ \A b \in Buffer \ {n + 1} : r[b] = ref[b]
  BY <1>2
<1> HIDE DEF r
<1>4. \A b \in Buffer : b > n => ext[b] = 0  BY DEF Exact
<1>5. ASSUME NEW b \in Buffer
      PROVE  r[b] = ext[b] + IF b > 1 /\ b <= n + 1 /\ r[b - 1] > 0 THEN 1 ELSE 0
  <2>1. b > 1 => b - 1 \in Buffer  BY StreamAssumption DEF Buffer
  <2>2. ref[b] = ext[b] + IF b > 1 /\ b <= n /\ ref[b - 1] > 0 THEN 1 ELSE 0  BY DEF Exact
  <2>3. CASE b = n + 1
    <3>1. b - 1 = n /\ b > 1 /\ b <= n + 1 /\ b > n  BY <1>1, <2>3
    <3>2. r[n] = ref[n] /\ ext[b] = 0  BY <1>1, <1>3, <1>4, <3>1
    <3> QED BY <1>3, <2>3, <3>1, <3>2
  <2>4. CASE b # n + 1
    <3>1. r[b] = ref[b] /\ (b <= n + 1 <=> b <= n)  BY <1>1, <1>3, <2>4
    <3>2. b > 1 /\ b <= n => r[b - 1] = ref[b - 1]
      <4>1. b <= n => b - 1 # n + 1  BY <1>1
      <4> QED BY <1>3, <2>1, <4>1
    <3> QED BY <2>2, <3>1, <3>2
  <2> QED BY <2>3, <2>4
<1>6. \A b \in Buffer : b > n + 1 => ext[b] = 0  BY <1>1, <1>4
<1> QED BY <1>2, <1>3, <1>5, <1>6 DEF Exact, r

\* A release that is not the last of its buffer.
LEMMA DropExact ==
  ASSUME NEW ref, NEW ext, NEW n \in Buffer, Exact(ref, ext, n),
         NEW b \in 1..n, ref[b] > 1, ext[b] > 0
  PROVE  Exact([ref EXCEPT ![b] = @ - 1], [ext EXCEPT ![b] = @ - 1], n)
<1> DEFINE r == [ref EXCEPT ![b] = @ - 1]
           e == [ext EXCEPT ![b] = @ - 1]
<1>1. MaxBuf \in Nat \ {0} /\ n \in 1..MaxBuf /\ b \in Buffer
  BY StreamAssumption DEF Buffer
<1>2. ref \in [Buffer -> Nat] /\ ext \in [Buffer -> Nat]  BY DEF Exact
<1>3. /\ r \in [Buffer -> Nat] /\ e \in [Buffer -> Nat]
      /\ r[b] = ref[b] - 1 /\ e[b] = ext[b] - 1
      /\ \A x \in Buffer \ {b} : r[x] = ref[x] /\ e[x] = ext[x]
  BY <1>1, <1>2
<1> HIDE DEF r, e
<1>4. \A x \in Buffer : ref[x] \in Nat /\ ext[x] \in Nat  BY <1>2
<1>5. \A x \in Buffer : r[x] > 0 <=> ref[x] > 0  BY <1>1, <1>3, <1>4
<1>6. \A x \in Buffer : x > n => e[x] = 0
  BY <1>1, <1>3 DEF Exact, Buffer
<1>7. ASSUME NEW x \in Buffer
      PROVE  r[x] = e[x] + IF x > 1 /\ x <= n /\ r[x - 1] > 0 THEN 1 ELSE 0
  <2>1. x > 1 => x - 1 \in Buffer  BY <1>1 DEF Buffer
  <2>2. (x > 1 /\ x <= n /\ r[x - 1] > 0) <=> (x > 1 /\ x <= n /\ ref[x - 1] > 0)
    BY <1>5, <2>1
  <2>3. ref[x] = ext[x] + IF x > 1 /\ x <= n /\ r[x - 1] > 0 THEN 1 ELSE 0
    BY <2>2 DEF Exact
  <2> QED BY <1>3, <1>4, <2>3
<1> QED BY <1>3, <1>6, <1>7 DEF Exact, r, e

LEMMA AcquireOne ==
  ASSUME NEW ref, NEW b \in Nat
  PROVE  /\ acquire_next(ref, b, 0) = ref
         /\ acquire_next(ref, b, 1) = buffer_release([ref EXCEPT ![b + 1] = @ + 1], b)
<1>1. ASSUME NEW n \in Nat
      PROVE  \E f : /\ acquire_next(ref, b, n) = f[n]
                    /\ \A i \in 0..n : f[i] = IF i = 0 THEN ref
                         ELSE buffer_release([f[i - 1] EXCEPT ![b + i] = @ + 1], b + i - 1)
  <2> DEFINE f == CHOOSE g : IsAcquire(g, ref, b, n)
  <2>1. acquire_next(ref, b, n) = f[n]  BY DEF acquire_next, IsAcquire
  <2>2. IsAcquire(f, ref, b, n)  BY AcquireDefined
  <2> HIDE DEF f
  <2>3. \A i \in 0..n : f[i] = IF i = 0 THEN ref
          ELSE buffer_release([f[i - 1] EXCEPT ![b + i] = @ + 1], b + i - 1)
    BY <2>2 DEF IsAcquire
  <2> QED BY <2>1, <2>3
<1>2. acquire_next(ref, b, 0) = ref
  <2>1. PICK f : /\ acquire_next(ref, b, 0) = f[0]
                 /\ \A i \in 0..0 : f[i] = IF i = 0 THEN ref
                      ELSE buffer_release([f[i - 1] EXCEPT ![b + i] = @ + 1], b + i - 1)
    BY <1>1
  <2>2. 0 \in 0..0  OBVIOUS
  <2>3. f[0] = ref  BY <2>1, <2>2, Zenon
  <2> QED BY <2>1, <2>3
<1>3. acquire_next(ref, b, 1) = buffer_release([ref EXCEPT ![b + 1] = @ + 1], b)
  <2>1. PICK f : /\ acquire_next(ref, b, 1) = f[1]
                 /\ \A i \in 0..1 : f[i] = IF i = 0 THEN ref
                      ELSE buffer_release([f[i - 1] EXCEPT ![b + i] = @ + 1], b + i - 1)
    BY <1>1
  <2>2. 0 \in 0..1 /\ 1 \in 0..1 /\ 1 # 0 /\ 1 - 1 = 0 /\ b + 1 - 1 = b  OBVIOUS
  <2>3. f[0] = ref  BY <2>1, <2>2, Zenon
  <2>4. f[1] = buffer_release([f[1 - 1] EXCEPT ![b + 1] = @ + 1], b + 1 - 1)
    BY <2>1, <2>2, Zenon
  <2> QED BY <2>1, <2>2, <2>3, <2>4
<1> QED BY <1>2, <1>3


\* A read spans one end of a buffer at most.
LEMMA OneHop ==
  ASSUME NEW p \in 0..(Cap - 1), NEW n \in 1..Cap
  PROVE  ((p + n) \div Cap) \in {0, 1}
<1> DEFINE x == p + n
           h == (x \div Cap)
<1>1. Cap \in Nat \ {0} /\ x \in Nat /\ x < Cap + Cap  BY StreamAssumption
<1> HIDE DEF x
<1>2. h \in Nat /\ (x % Cap) \in 0..(Cap - 1) /\ h * Cap + (x % Cap) = x  BY <1>1, Hops
<1> HIDE DEF h
<1>3. ASSUME h >= 2 PROVE FALSE
  <2>1. PICK d \in Nat : h = 2 + d  BY <1>2, <1>3
  <2>2. (2 + d) * Cap = Cap + Cap + d * Cap /\ d * Cap \in Nat  BY <1>1
  <2>3. (x % Cap) \in Nat  BY <1>1, <1>2
  <2> QED BY <1>1, <1>2, <2>1, <2>2, <2>3
<1> QED BY <1>2, <1>3 DEF h, x

\* A read that starts a new buffer: the receive position never holds the last
\* reference to the buffer it leaves, so nothing is freed.
LEMMA LeftBufferLives ==
  ASSUME RefInv, phase # "destroyed"
  PROVE  refcount[next_recv_buf] > 1
<1> DEFINE nb == next_recv_buf
           ub == unpack_buf
<1>1. /\ MaxBuf \in Nat \ {0} /\ nbuf \in 1..MaxBuf /\ nbuf \in Buffer
      /\ ub \in 1..nbuf /\ nb \in 1..nbuf /\ ub \in Buffer /\ nb \in Buffer
      /\ Outer[ub] > 0 /\ Outer[nb] > 0
      /\ refcount \in [Buffer -> Nat] /\ Outer \in [Buffer -> Nat]
  BY Places
<1>2. refcount[nb] = Outer[nb] + IF nb > 1 /\ nb <= nbuf /\ refcount[nb - 1] > 0 THEN 1 ELSE 0
  BY <1>1 DEF RefInv, Exact
<1>3. ub <= nb  BY DEF RefInv, StreamInv, Positions
<1>4. CASE ub = nb
  <2>1. Outer[nb] = 1 + 1 + CountOf(BufOf, nb) + CountOf(ReadOf, nb)
        /\ CountOf(BufOf, nb) \in Nat /\ CountOf(ReadOf, nb) \in Nat
    BY <1>1, <1>4, OuterAt
  <2> HIDE DEF nb
  <2> QED BY <1>2, <2>1 DEF nb
<1>5. CASE ub < nb
  <2>1. refcount[ub] > 0  BY <1>1 DEF RefInv, Exact
  <2>2. nb - 1 \in ub..nbuf /\ nb > 1 /\ nb <= nbuf  BY <1>1, <1>5
  <2>3. Exact(refcount, Outer, nbuf)  BY DEF RefInv
  <2>4. refcount[nb - 1] > 0  BY <1>1, <2>1, <2>2, <2>3, ChainLives
  <2>5. refcount[nb] = Outer[nb] + 1 /\ Outer[nb] \in Nat  BY <1>1, <1>2, <2>2, <2>4
  <2> QED BY <1>1, <2>5
<1> QED BY <1>1, <1>3, <1>4, <1>5

LEMMA ReadRefs ==
  ASSUME RefInv, StreamInv', NEW n \in 1..Cap, update_next_recv_pos(n)
  PROVE  RefInv'
<1> DEFINE nb == next_recv_buf
           h  == ((next_recv_pos + n) \div Cap)
           to == nb + h
           chained == [b \in Buffer |-> IF b \in (nbuf + 1)..to THEN 1 ELSE refcount[b]]
<1>1. /\ phase = "posted" /\ phase' = "unpack" /\ to < MaxBuf
      /\ nbuf' = (IF to > nbuf THEN to ELSE nbuf)
      /\ refcount' = acquire_next(chained, nb, to - nb)
      /\ next_recv_buf' = to /\ unpack_buf' = unpack_buf /\ unpack_pos' = unpack_pos
      /\ delivered' = delivered /\ rpackets' = rpackets
  BY DEF update_next_recv_pos
<1>2. /\ MaxBuf \in Nat \ {0} /\ nbuf \in 1..MaxBuf /\ nbuf \in Buffer
      /\ nb \in 1..nbuf /\ nb \in Buffer /\ Outer[nb] > 0
      /\ refcount \in [Buffer -> Nat] /\ Outer \in [Buffer -> Nat]
  BY <1>1, Places
<1>3. Exact(refcount, Outer, nbuf)  BY DEF RefInv
<1>4. h \in {0, 1}
  <2>1. next_recv_pos \in 0..(Cap - 1)  BY DEF RefInv, StreamInv, StreamTypes
  <2> QED BY <2>1, OneHop
<1> HIDE DEF h
<1>5. to \in Nat \ {0} /\ to \in Buffer /\ to - nb = h  BY <1>1, <1>2, <1>4 DEF Buffer
<1>6. nbuf' \in Buffer /\ nbuf <= nbuf' /\ nbuf' \in Nat  BY <1>1, <1>2, <1>5 DEF Buffer
<1>7. ChainBound'  BY <1>1, <1>6 DEF ChainBound, Buffer
<1>8. ReadAt' = ReadAt  BY <1>1 DEF ReadAt, Abs
<1>9. PacketsInside'  BY <1>1, <1>6, <1>8, PacketsKept
<1>10. ASSUME NEW x \in Buffer PROVE Outer'[x] = MoveRef(Outer, nb, to)[x]
  <2>1. Outer'[x] = (IF unpack_buf = x THEN 1 ELSE 0) + (IF to = x THEN 1 ELSE 0)
                    + CountOf(BufOf, x) + CountOf(ReadOf, x)
    BY <1>1 DEF Outer, BufOf, ReadOf
  <2>2. /\ Outer[x] = (IF unpack_buf = x THEN 1 ELSE 0) + (IF nb = x THEN 1 ELSE 0)
                      + CountOf(BufOf, x) + CountOf(ReadOf, x)
        /\ CountOf(BufOf, x) \in Nat /\ CountOf(ReadOf, x) \in Nat
    BY <1>1, OuterAt
  <2>3. MoveRef(Outer, nb, to)[x] =
          Outer[x] + (IF x = to THEN 1 ELSE 0) - (IF x = nb THEN 1 ELSE 0)
    BY DEF MoveRef
  <2> HIDE DEF nb, to
  <2> QED BY <2>1, <2>2, <2>3
<1>11. Outer' = [x \in Buffer |-> Outer'[x]]  BY DEF Outer
<1>12. Exact(refcount', MoveRef(Outer, nb, to), nbuf')
  <2>1. CASE to <= nbuf
    <3>1. nbuf' = nbuf  BY <1>1, <1>2, <1>5, <2>1
    <3>2. chained = refcount
      <4>1. (nbuf + 1)..to = {}  BY <1>2, <1>5, <2>1
      <4> QED BY <1>2, <4>1
    <3>3. refcount' = acquire_next(refcount, nb, h)  BY <1>1, <1>5, <3>2
    <3>4. h \in Nat  BY <1>4
    <3> HIDE DEF chained, nb
    <3>5. Exact(acquire_next(refcount, nb, h), MoveRef(Outer, nb, nb + h), nbuf)
      BY <1>2, <1>3, <2>1, <3>4, AcquireNextExact
    <3> QED BY <3>1, <3>3, <3>5
  <2>2. CASE to > nbuf
    <3>1. h = 1 /\ nb = nbuf /\ to = nbuf + 1 /\ nbuf' = to  BY <1>1, <1>2, <1>4, <2>2
    <3>2. chained = [refcount EXCEPT ![nbuf + 1] = 1]
      <4>1. \A b \in Buffer : b \in (nbuf + 1)..to <=> b = nbuf + 1
        BY <1>2, <3>1 DEF Buffer
      <4>2. \A b \in Buffer : chained[b] = [refcount EXCEPT ![nbuf + 1] = 1][b]
        BY <1>2, <4>1
      <4> QED BY <1>2, <4>2
    <3>3. refcount[nb] > 1  BY <1>1, LeftBufferLives
    <3>4. Exact(chained, Outer, to)
      <4>1. refcount[nbuf] > 0 /\ nbuf + 1 \in Buffer  BY <1>2, <1>5, <3>1, <3>3
      <4>2. Exact([refcount EXCEPT ![nbuf + 1] = 1], Outer, nbuf + 1)
        BY <1>2, <1>3, <4>1, AppendExact
      <4> QED BY <3>1, <3>2, <4>2
    <3>5. chained \in [Buffer -> Nat] /\ chained[nb] = refcount[nb] /\ chained[to] = 1
      BY <1>2, <1>5, <3>1, <3>2
    <3> DEFINE r == [chained EXCEPT ![to] = @ + 1]
               e == [Outer EXCEPT ![to] = @ + 1]
    <3> HIDE DEF chained
    <3>6. refcount' = buffer_release(r, nb)
      <4>1. refcount' = acquire_next(chained, nb, 1)  BY <1>1, <1>5, <3>1
      <4>2. nb \in Nat /\ nb + 1 = to  BY <1>2, <3>1
      <4> HIDE DEF nb, to
      <4> QED BY <4>1, <4>2, AcquireOne
    <3>7. Exact(r, e, to)
      <4>1. to \in 1..to /\ chained[to] > 0 /\ 1 \in Nat  BY <1>5, <3>5
      <4> HIDE DEF to
      <4> QED BY <1>5, <3>4, <4>1, AcquireExact
    <3>8. r \in [Buffer -> Nat] /\ r[nb] = refcount[nb] /\ e[nb] = Outer[nb] /\ to # nb
      BY <1>2, <1>5, <3>1, <3>5
    <3>9. buffer_release(r, nb) = [r EXCEPT ![nb] = @ - 1]
      <4> HIDE DEF r, nb
      <4>1. PICK last \in nb..nbuf :
              /\ buffer_release(r, nb) =
                   [i \in Buffer |-> IF i \in nb..last THEN r[i] - 1 ELSE r[i]]
              /\ \A i \in nb..nbuf : i < last => r[i] = 1
              /\ last < nbuf => r[last] # 1
        BY <1>2, <3>8, ReleaseEffect
      <4>2. \A i \in Buffer : i \in nb..last <=> i = nb  BY <1>2, <3>1, <4>1 DEF Buffer
      <4>3. \A i \in Buffer : buffer_release(r, nb)[i] = [r EXCEPT ![nb] = @ - 1][i]
        BY <3>8, <4>1, <4>2
      <4> QED BY <3>8, <4>1, <4>3
    <3>10. Exact([r EXCEPT ![nb] = @ - 1], [e EXCEPT ![nb] = @ - 1], to)
      <4>1. nb \in 1..to /\ r[nb] > 1 /\ e[nb] > 0  BY <1>2, <3>1, <3>3, <3>8
      <4> HIDE DEF r, e, to
      <4> QED BY <1>5, <3>7, <4>1, DropExact
    <3>11. \A x \in Buffer : MoveRef(Outer, nb, to)[x] = [e EXCEPT ![nb] = @ - 1][x]
      BY <1>2, <3>8 DEF MoveRef
    <3>12. MoveRef(Outer, nb, to) = [x \in Buffer |-> MoveRef(Outer, nb, to)[x]]
      BY DEF MoveRef
    <3>13. Exact([r EXCEPT ![nb] = @ - 1], MoveRef(Outer, nb, to), to)
      BY <3>10, <3>11, <3>12, ExactSame
    <3> QED BY <3>1, <3>6, <3>9, <3>13
  <2> QED BY <1>2, <1>5, <2>1, <2>2
<1>13. Exact(refcount', Outer', nbuf')  BY <1>10, <1>11, <1>12, ExactSame
<1> QED BY <1>7, <1>9, <1>13 DEF RefInv

LEMMA PostRefs ==
  ASSUME RefInv, StreamInv', PostRead
  PROVE  RefInv'
<1>1. /\ phase = "unpack" /\ phase' = "posted"
      /\ UNCHANGED <<unpack_buf, unpack_pos, next_recv_buf, delivered, rpackets>>
  BY DEF PostRead, unpackVars
<1>2. /\ MaxBuf \in Nat \ {0} /\ nbuf \in 1..MaxBuf /\ nbuf \in Buffer
      /\ next_recv_buf \in 1..nbuf /\ Outer[next_recv_buf] > 0 /\ next_recv_buf \in Buffer
      /\ refcount \in [Buffer -> Nat] /\ Outer \in [Buffer -> Nat]
  BY <1>1, Places
<1>3. Exact(refcount, Outer, nbuf)  BY DEF RefInv
<1>4. Outer' = Outer  BY <1>1, OuterKept
<1>5. ReadAt' = ReadAt  BY <1>1 DEF ReadAt, Abs
<1>6. nbuf' \in Buffer /\ nbuf <= nbuf' /\ nbuf' \in Nat /\ Exact(refcount', Outer, nbuf')
  <2>1. CASE next_recv_pos > 0 /\ nbuf = next_recv_buf
    <3>1. nbuf' = nbuf + 1 /\ refcount' = [refcount EXCEPT ![nbuf + 1] = 1]
      BY <2>1 DEF PostRead
    <3>2. nbuf + 1 \in Buffer  BY <1>1, <1>2, <2>1 DEF RefInv, ChainBound, Buffer
    <3>3. refcount[nbuf] > 1  BY <1>1, <2>1, LeftBufferLives
    <3>4. refcount[nbuf] > 0  BY <1>2, <3>3
    <3>5. Exact([refcount EXCEPT ![nbuf + 1] = 1], Outer, nbuf + 1)
      BY <1>2, <1>3, <3>2, <3>4, AppendExact
    <3> QED BY <1>2, <3>1, <3>2, <3>5
  <2>2. CASE ~(next_recv_pos > 0 /\ nbuf = next_recv_buf)
    BY <1>2, <1>3, <2>2 DEF PostRead
  <2> QED BY <2>1, <2>2
<1>7. ChainBound'  BY <1>1, <1>6 DEF ChainBound, Buffer
<1>8. PacketsInside'  BY <1>1, <1>5, <1>6, PacketsKept
<1> QED BY <1>4, <1>6, <1>7, <1>8 DEF RefInv


\* A packet takes two references to the buffer it begins in, before the
\* connection moves on from there.
LEMMA DeliverRefs ==
  ASSUME RefInv, StreamInv', phase = "unpack",
         NEW len \in Nat, NEW skip \in Nat, NEW total \in Nat, total = skip + len,
         total <= unpack_size, Deliver(len, skip, total)
  PROVE  RefInv'
<1> DEFINE ub == unpack_buf
           hops == ((unpack_pos + total) \div Cap)
           r == [buf |-> ub, readbuf |-> ub, rpos |-> unpack_pos + skip,
                 begin_pos |-> unpack_pos, len |-> len, data_remain |-> len]
           d == delivered + 1
<1>1. /\ phase' = phase /\ delivered' = d /\ nbuf' = nbuf /\ next_recv_buf' = next_recv_buf
      /\ rpackets' = [k \in DOMAIN rpackets \cup {d} |-> IF k = d THEN r ELSE rpackets[k]]
      /\ unpack_buf' = ub + hops /\ unpack_pos' = ((unpack_pos + total) % Cap)
      /\ refcount' = acquire_next([refcount EXCEPT ![ub] = @ + 2], ub, hops)
  BY DEF Deliver, recvVars
<1>2. /\ MaxBuf \in Nat \ {0} /\ Cap \in Nat \ {0} /\ nbuf \in 1..MaxBuf /\ nbuf \in Buffer
      /\ ub \in 1..nbuf /\ ub \in Buffer /\ Outer[ub] > 0
      /\ refcount \in [Buffer -> Nat] /\ Outer \in [Buffer -> Nat]
  BY Places
<1>3. unpack_pos \in Nat /\ delivered \in Nat /\ ub \in Nat \ {0}
  BY <1>2 DEF RefInv, StreamInv, StreamTypes
<1>4. hops \in Nat  BY <1>2, <1>3
<1>5. ub + hops <= nbuf
  <2>1. unpack_buf' <= next_recv_buf' /\ next_recv_buf' <= nbuf'
        /\ unpack_buf' \in Nat /\ next_recv_buf' \in Nat /\ nbuf' \in Nat
    BY DEF StreamInv, StreamTypes, Positions
  <2> QED BY <1>1, <2>1
<1>6. ReadAt' = ReadAt + total /\ ReadAt \in Nat /\ Abs(ub, unpack_pos + skip) = ReadAt + skip
  <2>1. ReadAt' = ReadAt + total
    <3>1. Abs(unpack_buf', unpack_pos') = ReadAt + total
      BY <1>1, Consumed DEF RefInv, StreamInv
    <3> QED BY <3>1 DEF ReadAt, Abs
  <2>2. ReadAt \in Nat  BY Ordered DEF RefInv, StreamInv, StreamTypes, ReadAt
  <2>3. (ub - 1) * Cap \in Int  BY <1>2, <1>3
  <2> QED BY <1>3, <2>1, <2>2, <2>3 DEF ReadAt, Abs
<1>7. d \notin DOMAIN rpackets  BY <1>3 DEF RefInv, PacketsInside
<1>8. r \in RPacket /\ r.buf = ub /\ r.readbuf = ub /\ r.rpos = unpack_pos + skip /\ r.data_remain = len
  BY <1>3 DEF RPacket
<1> HIDE DEF r, hops
<1>9. /\ DOMAIN rpackets' = DOMAIN rpackets \cup {d} /\ rpackets'[d] = r
      /\ \A k \in DOMAIN rpackets : rpackets'[k] = rpackets[k]
  BY <1>1, <1>7
<1>10. PacketsInside'
  <2>1. IsFiniteSet(DOMAIN rpackets')  BY <1>9, FS_AddElement DEF RefInv, PacketsInside
  <2>2. DOMAIN rpackets' \subseteq 1..delivered'
    BY <1>1, <1>3, <1>9 DEF RefInv, PacketsInside
  <2>3. ASSUME NEW k \in DOMAIN rpackets'
        PROVE  /\ rpackets'[k] \in RPacket
               /\ rpackets'[k].buf \in 1..nbuf' /\ rpackets'[k].readbuf \in 1..nbuf'
               /\ Abs(rpackets'[k].readbuf, rpackets'[k].rpos) + rpackets'[k].data_remain
                    <= ReadAt'
    <3>1. CASE k = d
      <4>1. rpackets'[k] = r  BY <1>9, <3>1
      <4>2. Abs(ub, unpack_pos + skip) + len <= ReadAt'  BY <1>6
      <4> QED BY <1>1, <1>2, <1>8, <4>1, <4>2
    <3>2. CASE k # d
      <4>1. k \in DOMAIN rpackets /\ rpackets'[k] = rpackets[k]  BY <1>9, <3>2
      <4>2. /\ rpackets[k] \in RPacket
            /\ rpackets[k].buf \in 1..nbuf /\ rpackets[k].readbuf \in 1..nbuf
            /\ Abs(rpackets[k].readbuf, rpackets[k].rpos) + rpackets[k].data_remain <= ReadAt
        BY <4>1 DEF RefInv, PacketsInside
      <4>3. Abs(rpackets[k].readbuf, rpackets[k].rpos) + rpackets[k].data_remain \in Int
        <5>1. /\ rpackets[k].readbuf \in Nat /\ rpackets[k].rpos \in Nat
              /\ rpackets[k].data_remain \in Nat
          BY <4>2 DEF RPacket
        <5>2. (rpackets[k].readbuf - 1) * Cap \in Int  BY <1>2, <5>1
        <5> QED BY <5>1, <5>2 DEF Abs
      <4> QED BY <1>1, <1>6, <4>1, <4>2, <4>3
    <3> QED BY <3>1, <3>2
  <2> QED BY <2>1, <2>2, <2>3 DEF PacketsInside, Abs
<1>11. ChainBound'  BY <1>1 DEF RefInv, ChainBound
<1> DEFINE e == [Outer EXCEPT ![ub] = @ + 2]
<1>12. Exact([refcount EXCEPT ![ub] = @ + 2], e, nbuf)
  <2>1. refcount[ub] > 0  BY <1>2 DEF RefInv, Exact
  <2>2. Exact(refcount, Outer, nbuf) /\ 2 \in Nat  BY DEF RefInv
  <2> QED BY <1>2, <2>1, <2>2, AcquireExact
<1>13. e[ub] = Outer[ub] + 2 /\ e[ub] > 0 /\ \A x \in Buffer \ {ub} : e[x] = Outer[x]
  BY <1>2
<1> HIDE DEF e
<1>14. Exact(refcount', MoveRef(e, ub, ub + hops), nbuf)
  BY <1>1, <1>2, <1>4, <1>5, <1>12, <1>13, AcquireNextExact
<1>15. ASSUME NEW x \in Buffer PROVE Outer'[x] = MoveRef(e, ub, ub + hops)[x]
  <2>1. CountOf(BufOf', x) = CountOf(BufOf, x) + IF ub = x THEN 1 ELSE 0
    <3>1. /\ d \notin DOMAIN BufOf /\ IsFiniteSet(DOMAIN BufOf)
          /\ DOMAIN BufOf' = DOMAIN BufOf \cup {d} /\ BufOf'[d] = ub
          /\ \A k \in DOMAIN BufOf : BufOf'[k] = BufOf[k]
      BY <1>7, <1>8, <1>9 DEF BufOf, RefInv, PacketsInside
    <3> HIDE DEF d
    <3> QED BY <3>1, CountMore
  <2>2. CountOf(ReadOf', x) = CountOf(ReadOf, x) + IF ub = x THEN 1 ELSE 0
    <3>1. /\ d \notin DOMAIN ReadOf /\ IsFiniteSet(DOMAIN ReadOf)
          /\ DOMAIN ReadOf' = DOMAIN ReadOf \cup {d} /\ ReadOf'[d] = ub
          /\ \A k \in DOMAIN ReadOf : ReadOf'[k] = ReadOf[k]
      BY <1>7, <1>8, <1>9 DEF ReadOf, RefInv, PacketsInside
    <3> HIDE DEF d
    <3> QED BY <3>1, CountMore
  <2>3. Outer'[x] = (IF ub + hops = x THEN 1 ELSE 0) + (IF next_recv_buf = x THEN 1 ELSE 0)
                    + CountOf(BufOf', x) + CountOf(ReadOf', x)
    BY <1>1 DEF Outer, CountOf
  <2>4. /\ Outer[x] = (IF ub = x THEN 1 ELSE 0) + (IF next_recv_buf = x THEN 1 ELSE 0)
                      + CountOf(BufOf, x) + CountOf(ReadOf, x)
        /\ CountOf(BufOf, x) \in Nat /\ CountOf(ReadOf, x) \in Nat
    BY OuterAt
  <2>5. MoveRef(e, ub, ub + hops)[x] =
          e[x] + (IF x = ub + hops THEN 1 ELSE 0) - (IF x = ub THEN 1 ELSE 0)
    BY DEF MoveRef
  <2>6. e[x] = Outer[x] + IF x = ub THEN 2 ELSE 0
    <3>1. Outer[x] \in Nat  BY <1>2
    <3> QED BY <1>13, <3>1
  <2> HIDE DEF ub
  <2> QED BY <2>1, <2>2, <2>3, <2>4, <2>5, <2>6
<1>16. Outer' = [x \in Buffer |-> Outer'[x]]  BY DEF Outer
<1>17. Exact(refcount', Outer', nbuf')  BY <1>1, <1>14, <1>15, <1>16, ExactSame
<1> QED BY <1>10, <1>11, <1>17 DEF RefInv


\* Reading acquires the buffers it goes on to, and stays in the data received.
LEMMA PacketReadRefs ==
  ASSUME RefInv, StreamInv', NEW k \in DOMAIN rpackets,
         NEW n \in 1..rpackets[k].data_remain, rpacket_read(k, n)
  PROVE  RefInv'
<1> DEFINE r == rpackets[k]
           rest == r.data_remain - n
           x == IF rest > 0 THEN r.rpos + n ELSE r.rpos + n - 1
           hops == (x \div Cap)
           q == [buf |-> r.buf, readbuf |-> r.readbuf + hops, rpos |-> r.rpos + n - hops * Cap,
                 begin_pos |-> r.begin_pos, len |-> r.len, data_remain |-> rest]
<1>1. /\ r \in RPacket /\ r.buf \in 1..nbuf /\ r.readbuf \in 1..nbuf
      /\ Abs(r.readbuf, r.rpos) + r.data_remain <= ReadAt
  BY DEF RefInv, PacketsInside
<1>2. /\ phase' = phase /\ delivered' = delivered /\ nbuf' = nbuf
      /\ next_recv_buf' = next_recv_buf /\ unpack_buf' = unpack_buf /\ unpack_pos' = unpack_pos
      /\ refcount' = acquire_next(refcount, r.readbuf, hops)
  BY DEF rpacket_read, recvVars, unpackVars
<1>3. rpackets' = [rpackets EXCEPT ![k] = q]
  <2>1. rpackets' = [rpackets EXCEPT ![k] =
                       [r EXCEPT !.readbuf = @ + hops, !.rpos = @ + n - hops * Cap,
                                 !.data_remain = rest]]
    BY DEF rpacket_read
  <2>2. ASSUME NEW s \in RPacket, NEW a, NEW b, NEW c,
               NEW t, t = [s EXCEPT !.readbuf = a, !.rpos = b, !.data_remain = c]
        PROVE  t = [buf |-> s.buf, readbuf |-> a, rpos |-> b, begin_pos |-> s.begin_pos,
                    len |-> s.len, data_remain |-> c]
    BY <2>2 DEF RPacket
  <2> HIDE DEF r, hops, rest
  <2>3. [r EXCEPT !.readbuf = r.readbuf + hops, !.rpos = r.rpos + n - hops * Cap,
                  !.data_remain = rest] = q
    BY <1>1, <2>2, Zenon
  <2> QED BY <2>1, <2>3 DEF r
<1>4. /\ MaxBuf \in Nat \ {0} /\ Cap \in Nat \ {0} /\ nbuf \in 1..MaxBuf /\ nbuf \in Buffer
      /\ unpack_buf \in 1..nbuf /\ unpack_buf \in Nat \ {0}
      /\ unpack_pos \in 0..(Cap - 1)
      /\ refcount \in [Buffer -> Nat] /\ Outer \in [Buffer -> Nat]
  BY Places DEF RefInv, StreamInv, StreamTypes
<1>5. /\ r.readbuf \in Nat \ {0} /\ r.buf \in Nat /\ r.rpos \in Nat /\ r.data_remain \in Nat
      /\ r.begin_pos \in Nat /\ r.len \in Nat
      /\ n \in Nat \ {0} /\ n <= r.data_remain /\ rest \in Nat /\ x \in Nat
      /\ r.readbuf \in Buffer
  <2>1. /\ r.readbuf \in Nat \ {0} /\ r.buf \in Nat /\ r.rpos \in Nat /\ r.data_remain \in Nat
        /\ r.begin_pos \in Nat /\ r.len \in Nat
    BY <1>1, <1>4 DEF RPacket
  <2>2. n \in Nat \ {0} /\ n <= r.data_remain /\ rest \in Nat  BY <2>1
  <2>3. x \in Nat
    <3>1. r.rpos + n \in Nat /\ r.rpos + n - 1 \in Nat  BY <2>1, <2>2
    <3> QED BY <3>1
  <2>4. r.readbuf \in Buffer  BY <1>1, <1>4 DEF Buffer
  <2> QED BY <2>1, <2>2, <2>3, <2>4
<1> DEFINE B == (r.readbuf - 1) * Cap
<1>6. B \in Int /\ Abs(r.readbuf, r.rpos) = B + r.rpos /\ Abs(r.readbuf, x) = B + x
  <2>1. B \in Int  BY <1>4, <1>5
  <2> HIDE DEF x, r
  <2> QED BY <2>1 DEF Abs
<1>7. ReadAt \in Nat  BY Ordered DEF RefInv, StreamInv, StreamTypes, ReadAt
<1> HIDE DEF B
<1>8. Abs(r.readbuf, x) <= ReadAt /\ x <= r.rpos + n
  <2>1. CASE rest > 0
    <3>1. x = r.rpos + n /\ n < r.data_remain  BY <1>5, <2>1
    <3> HIDE DEF x, r
    <3> QED BY <1>1, <1>5, <1>6, <1>7, <3>1
  <2>2. CASE ~(rest > 0)
    <3>1. x = r.rpos + n - 1 /\ n = r.data_remain  BY <1>5, <2>2
    <3> HIDE DEF x, r
    <3> QED BY <1>1, <1>5, <1>6, <1>7, <3>1
  <2> QED BY <2>1, <2>2
<1>9. /\ hops \in Nat /\ (x % Cap) \in 0..(Cap - 1) /\ hops * Cap + (x % Cap) = x
  <2> HIDE DEF x
  <2> QED BY <1>5, Hops
<1>10. r.readbuf + hops <= unpack_buf /\ r.readbuf + hops \in Nat \ {0}
  <2> DEFINE rb == r.readbuf
  <2>1. rb \in Nat \ {0}  BY <1>5
  <2> HIDE DEF x, rb
  <2>2. /\ rb + (x \div Cap) \in Nat \ {0} /\ (x % Cap) \in 0..(Cap - 1)
        /\ Abs(rb + (x \div Cap), (x % Cap)) = Abs(rb, x)
    BY <1>5, <2>1, Moved
  <2>3. Abs(rb + (x \div Cap), (x % Cap)) <= Abs(unpack_buf, unpack_pos)
    BY <1>8, <2>2 DEF ReadAt, rb
  <2>4. rb + (x \div Cap) <= unpack_buf  BY <1>4, <2>2, <2>3, Ordered
  <2> QED BY <2>2, <2>4 DEF rb
<1> HIDE DEF hops
<1>11. hops * Cap \in Nat /\ hops * Cap <= x  BY <1>4, <1>5, <1>9
<1> HIDE DEF x
<1>12. q \in RPacket /\ q.buf = r.buf /\ q.readbuf = r.readbuf + hops
       /\ q.rpos = r.rpos + n - hops * Cap /\ q.data_remain = rest
  <2>1. r.rpos + n - hops * Cap \in Nat  BY <1>5, <1>8, <1>11
  <2>2. r.readbuf + hops \in Nat  BY <1>10
  <2> HIDE DEF r, rest
  <2> QED BY <1>5, <2>1, <2>2 DEF RPacket
<1>13. Abs(q.readbuf, q.rpos) + q.data_remain <= ReadAt
  <2>1. ((r.readbuf + hops) - 1) * Cap = B + hops * Cap  BY <1>4, <1>5, <1>9 DEF B
  <2>2. Abs(q.readbuf, q.rpos) = (B + hops * Cap) + (r.rpos + n - hops * Cap)
    BY <1>12, <2>1 DEF Abs
  <2>3. q.data_remain = r.data_remain - n  BY <1>12
  <2> HIDE DEF r, q
  <2> QED BY <1>1, <1>5, <1>6, <1>7, <1>11, <2>2, <2>3
<1> HIDE DEF q
<1>14. /\ DOMAIN rpackets' = DOMAIN rpackets /\ rpackets'[k] = q
       /\ \A j \in DOMAIN rpackets \ {k} : rpackets'[j] = rpackets[j]
  BY <1>3
<1>15. ReadAt' = ReadAt  BY <1>2 DEF ReadAt, Abs
<1>16. PacketsInside'
  <2>1. ASSUME NEW j \in DOMAIN rpackets'
        PROVE  /\ rpackets'[j] \in RPacket
               /\ rpackets'[j].buf \in 1..nbuf' /\ rpackets'[j].readbuf \in 1..nbuf'
               /\ Abs(rpackets'[j].readbuf, rpackets'[j].rpos) + rpackets'[j].data_remain
                    <= ReadAt'
    <3>1. CASE j = k
      <4>1. q.readbuf \in 1..nbuf  BY <1>4, <1>10, <1>12
      <4> QED BY <1>1, <1>2, <1>12, <1>13, <1>14, <1>15, <3>1, <4>1
    <3>2. CASE j # k
      BY <1>2, <1>14, <1>15, <3>2 DEF RefInv, PacketsInside
    <3> QED BY <3>1, <3>2
  <2> QED BY <1>2, <1>14, <2>1 DEF RefInv, PacketsInside, Abs
<1>17. ChainBound'  BY <1>2 DEF RefInv, ChainBound
<1>18. Outer[r.readbuf] > 0
  <2>1. k \in DOMAIN ReadOf /\ ReadOf[k] = r.readbuf /\ IsFiniteSet(DOMAIN ReadOf)
    BY DEF ReadOf, RefInv, PacketsInside
  <2>2. CountOf(ReadOf, r.readbuf) > 0  BY <2>1, CountNat
  <2> DEFINE b == r.readbuf
  <2>3. /\ Outer[b] = (IF phase # "destroyed" /\ unpack_buf = b THEN 1 ELSE 0)
                      + (IF phase # "destroyed" /\ next_recv_buf = b THEN 1 ELSE 0)
                      + CountOf(BufOf, b) + CountOf(ReadOf, b)
        /\ CountOf(BufOf, b) \in Nat /\ CountOf(ReadOf, b) \in Nat
    BY <1>5, OuterAt
  <2> HIDE DEF r
  <2> QED BY <2>2, <2>3
<1>19. Exact(refcount', MoveRef(Outer, r.readbuf, r.readbuf + hops), nbuf)
  <2>1. Exact(refcount, Outer, nbuf)  BY DEF RefInv
  <2>2. r.readbuf + hops <= nbuf  BY <1>4, <1>10
  <2> HIDE DEF r
  <2> QED BY <1>1, <1>2, <1>4, <1>9, <1>18, <2>1, <2>2, AcquireNextExact
<1>20. ASSUME NEW y \in Buffer
       PROVE  Outer'[y] = MoveRef(Outer, r.readbuf, r.readbuf + hops)[y]
  <2>1. BufOf' = BufOf
    <3>1. \A j \in DOMAIN rpackets : rpackets'[j].buf = rpackets[j].buf  BY <1>12, <1>14
    <3> QED BY <1>14, <3>1 DEF BufOf
  <2>2. CountOf(ReadOf', y) = CountOf(ReadOf, y) + (IF r.readbuf + hops = y THEN 1 ELSE 0)
                                                 - (IF r.readbuf = y THEN 1 ELSE 0)
    <3>1. /\ k \in DOMAIN ReadOf /\ IsFiniteSet(DOMAIN ReadOf) /\ DOMAIN ReadOf' = DOMAIN ReadOf
          /\ ReadOf[k] = r.readbuf /\ ReadOf'[k] = r.readbuf + hops
          /\ \A j \in DOMAIN ReadOf \ {k} : ReadOf'[j] = ReadOf[j]
      BY <1>12, <1>14 DEF ReadOf, RefInv, PacketsInside
    <3> HIDE DEF r
    <3> QED BY <3>1, CountMoved
  <2> DEFINE rb == r.readbuf
             u == IF phase # "destroyed" /\ unpack_buf = y THEN 1 ELSE 0
             v == IF phase # "destroyed" /\ next_recv_buf = y THEN 1 ELSE 0
  <2>3. Outer'[y] = u + v + CountOf(BufOf, y) + CountOf(ReadOf', y)
    BY <1>2, <2>1 DEF Outer, CountOf
  <2>4. /\ Outer[y] = u + v + CountOf(BufOf, y) + CountOf(ReadOf, y)
        /\ CountOf(BufOf, y) \in Nat /\ CountOf(ReadOf, y) \in Nat
    BY OuterAt
  <2>5. MoveRef(Outer, rb, rb + hops)[y] =
          Outer[y] + (IF y = rb + hops THEN 1 ELSE 0) - (IF y = rb THEN 1 ELSE 0)
    BY DEF MoveRef
  <2>6. u \in Nat /\ v \in Nat  OBVIOUS
  <2> HIDE DEF u, v, r
  <2> QED BY <2>2, <2>3, <2>4, <2>5, <2>6
<1>21. Outer' = [y \in Buffer |-> Outer'[y]]  BY DEF Outer
<1>22. Exact(refcount', Outer', nbuf')  BY <1>2, <1>19, <1>20, <1>21, ExactSame
<1> QED BY <1>16, <1>17, <1>22 DEF RefInv


\* Two releases, one after the other, by holders that are no longer there.
LEMMA TwoReleases ==
  ASSUME nbuf \in Buffer, NEW ref, NEW ext, Exact(ref, ext, nbuf),
         NEW a \in 1..nbuf, NEW b \in 1..nbuf,
         NEW f, f = [x \in Buffer |-> f[x]],
         \A x \in Buffer : f[x] \in Nat
           /\ ext[x] = f[x] + (IF x = a THEN 1 ELSE 0) + (IF x = b THEN 1 ELSE 0)
  PROVE  Exact(buffer_release(buffer_release(ref, a), b), f, nbuf)
<1>1. MaxBuf \in Nat \ {0} /\ nbuf \in 1..MaxBuf /\ a \in Buffer /\ b \in Buffer
  BY StreamAssumption DEF Buffer
<1>2. ext \in [Buffer -> Nat]  BY DEF Exact
<1> DEFINE r == buffer_release(ref, a)
           e == [ext EXCEPT ![a] = @ - 1]
<1>3. ext[a] > 0  BY <1>1
<1>4. Exact(r, e, nbuf)  BY <1>3, ReleaseExact
<1>5. \A x \in Buffer : e[x] = f[x] + IF x = b THEN 1 ELSE 0  BY <1>1, <1>2
<1>6. e[b] > 0  BY <1>1, <1>5
<1>7. e \in [Buffer -> Nat]  BY <1>4 DEF Exact
<1> HIDE DEF r, e
<1>8. Exact(buffer_release(r, b), [e EXCEPT ![b] = @ - 1], nbuf)  BY <1>4, <1>6, ReleaseExact
<1>9. \A x \in Buffer : f[x] = [e EXCEPT ![b] = @ - 1][x]  BY <1>1, <1>5, <1>7
<1> QED BY <1>8, <1>9, ExactSame DEF r

LEMMA PacketDestroyRefs ==
  ASSUME RefInv, StreamInv', NEW k \in DOMAIN rpackets, rpacket_destroy(k)
  PROVE  RefInv'
<1> DEFINE a == rpackets[k].buf
           b == rpackets[k].readbuf
<1>1. /\ phase' = phase /\ delivered' = delivered /\ nbuf' = nbuf
      /\ next_recv_buf' = next_recv_buf /\ unpack_buf' = unpack_buf /\ unpack_pos' = unpack_pos
      /\ refcount' = buffer_release(buffer_release(refcount, a), b)
      /\ rpackets' = [j \in DOMAIN rpackets \ {k} |-> rpackets[j]]
  BY DEF rpacket_destroy, recvVars, unpackVars
<1>2. a \in 1..nbuf /\ b \in 1..nbuf /\ IsFiniteSet(DOMAIN rpackets)
  BY DEF RefInv, PacketsInside
<1>3. /\ DOMAIN rpackets' = DOMAIN rpackets \ {k}
      /\ \A j \in DOMAIN rpackets' : rpackets'[j] = rpackets[j]
  BY <1>1
<1>4. IsFiniteSet(DOMAIN rpackets')  BY <1>2, <1>3, FS_Subset
<1>5. ReadAt' = ReadAt  BY <1>1 DEF ReadAt, Abs
<1>6. PacketsInside'
  BY <1>1, <1>3, <1>4, <1>5 DEF RefInv, PacketsInside, Abs
<1>7. ChainBound'  BY <1>1 DEF RefInv, ChainBound
<1>8. ASSUME NEW x \in Buffer
      PROVE  /\ Outer'[x] \in Nat
             /\ Outer[x] = Outer'[x] + (IF x = a THEN 1 ELSE 0) + (IF x = b THEN 1 ELSE 0)
  <2>1. CountOf(BufOf, x) = CountOf(BufOf', x) + IF a = x THEN 1 ELSE 0
    <3>1. /\ k \notin DOMAIN BufOf' /\ IsFiniteSet(DOMAIN BufOf')
          /\ DOMAIN BufOf = DOMAIN BufOf' \cup {k} /\ BufOf[k] = a
          /\ \A j \in DOMAIN BufOf' : BufOf[j] = BufOf'[j]
      BY <1>3, <1>4 DEF BufOf
    <3> QED BY <3>1, CountMore
  <2>2. CountOf(ReadOf, x) = CountOf(ReadOf', x) + IF b = x THEN 1 ELSE 0
    <3>1. /\ k \notin DOMAIN ReadOf' /\ IsFiniteSet(DOMAIN ReadOf')
          /\ DOMAIN ReadOf = DOMAIN ReadOf' \cup {k} /\ ReadOf[k] = b
          /\ \A j \in DOMAIN ReadOf' : ReadOf[j] = ReadOf'[j]
      BY <1>3, <1>4 DEF ReadOf
    <3> QED BY <3>1, CountMore
  <2>3. CountOf(BufOf', x) \in Nat /\ CountOf(ReadOf', x) \in Nat
    <3>1. IsFiniteSet(DOMAIN BufOf') /\ IsFiniteSet(DOMAIN ReadOf')
      BY <1>4 DEF BufOf, ReadOf
    <3> QED BY <3>1, CountNat
  <2> DEFINE u == IF phase # "destroyed" /\ unpack_buf = x THEN 1 ELSE 0
             v == IF phase # "destroyed" /\ next_recv_buf = x THEN 1 ELSE 0
  <2>4. Outer'[x] = u + v + CountOf(BufOf', x) + CountOf(ReadOf', x)
    BY <1>1 DEF Outer, CountOf
  <2>5. Outer[x] = u + v + CountOf(BufOf, x) + CountOf(ReadOf, x)  BY OuterAt
  <2>6. u \in Nat /\ v \in Nat  OBVIOUS
  <2> HIDE DEF u, v, a, b
  <2> QED BY <2>1, <2>2, <2>3, <2>4, <2>5, <2>6
<1>9. Outer' = [x \in Buffer |-> Outer'[x]]  BY DEF Outer
<1>10. nbuf \in Buffer /\ Exact(refcount, Outer, nbuf)  BY DEF RefInv, ChainBound
<1> HIDE DEF a, b
<1>11. Exact(refcount', Outer', nbuf')  BY <1>1, <1>2, <1>8, <1>9, <1>10, TwoReleases
<1> QED BY <1>6, <1>7, <1>11 DEF RefInv

LEMMA ConnectionDestroyRefs ==
  ASSUME RefInv, StreamInv', connection_destroy
  PROVE  RefInv'
<1>1. /\ phase = "posted" /\ phase' = "destroyed" /\ delivered' = delivered /\ nbuf' = nbuf
      /\ next_recv_buf' = next_recv_buf /\ unpack_buf' = unpack_buf /\ unpack_pos' = unpack_pos
      /\ refcount' = buffer_release(buffer_release(refcount, unpack_buf), next_recv_buf)
      /\ rpackets' = rpackets
  BY DEF connection_destroy, recvVars, unpackVars
<1>2. unpack_buf \in 1..nbuf /\ next_recv_buf \in 1..nbuf /\ nbuf \in Buffer /\ nbuf \in Nat
  BY Places
<1>3. ReadAt' = ReadAt  BY <1>1 DEF ReadAt, Abs
<1>4. PacketsInside'  BY <1>1, <1>2, <1>3, PacketsKept
<1>5. ChainBound'  BY <1>1 DEF RefInv, ChainBound
<1>6. ASSUME NEW x \in Buffer
      PROVE  /\ Outer'[x] \in Nat
             /\ Outer[x] = Outer'[x] + (IF x = unpack_buf THEN 1 ELSE 0)
                                     + (IF x = next_recv_buf THEN 1 ELSE 0)
  <2>1. Outer'[x] = 0 + 0 + CountOf(BufOf, x) + CountOf(ReadOf, x)
    BY <1>1 DEF Outer, BufOf, ReadOf
  <2>2. /\ Outer[x] = (IF unpack_buf = x THEN 1 ELSE 0) + (IF next_recv_buf = x THEN 1 ELSE 0)
                      + CountOf(BufOf, x) + CountOf(ReadOf, x)
        /\ CountOf(BufOf, x) \in Nat /\ CountOf(ReadOf, x) \in Nat
    BY <1>1, OuterAt
  <2> QED BY <2>1, <2>2
<1>7. Outer' = [x \in Buffer |-> Outer'[x]]  BY DEF Outer
<1>8. Exact(refcount, Outer, nbuf)  BY DEF RefInv
<1>9. Exact(refcount', Outer', nbuf')  BY <1>1, <1>2, <1>6, <1>7, <1>8, TwoReleases
<1> QED BY <1>4, <1>5, <1>9 DEF RefInv

LEMMA RefStep == RefInv /\ [Next]_vars => RefInv'
<1> SUFFICES ASSUME RefInv, [Next]_vars PROVE RefInv'
  OBVIOUS
<1>1. StreamInv'  BY StreamStep DEF RefInv
<1>2. ASSUME UNCHANGED <<nbuf, refcount, unpack_buf, unpack_pos, next_recv_buf, phase,
                         delivered, rpackets>>
      PROVE  RefInv'
  <2>1. ReadAt' = ReadAt /\ nbuf \in Nat  BY <1>2, Places DEF ReadAt, Abs
  <2>2. PacketsInside'  BY <1>2, <2>1, PacketsKept
  <2>3. Outer' = Outer  BY <1>2, OuterKept
  <2>4. ChainBound'  BY <1>2 DEF RefInv, ChainBound
  <2>5. Exact(refcount', Outer', nbuf')  BY <1>2, <2>3 DEF RefInv
  <2> QED BY <1>1, <2>2, <2>4, <2>5 DEF RefInv
<1>3. CASE UNCHANGED vars  BY <1>2, <1>3 DEF vars
<1>4. CASE Next
  <2>1. CASE \E l \in Lens : PeerSends(l)
    BY <1>2, <2>1 DEF PeerSends, recvVars, unpackVars
  <2>2. CASE \E n \in 1..Cap : update_next_recv_pos(n)  BY <1>1, <2>2, ReadRefs
  <2>3. CASE unpack
    <3>1. PICK len \in PkLens : Complete(len) /\ Deliver(len, Hdr, Hdr + len)
      BY <2>3 DEF unpack
    <3>2. phase = "unpack" /\ ~raw /\ unpack_size > Hdr /\ Hdr + len <= unpack_size
      BY <2>3, <3>1 DEF unpack, Complete
    <3>3. Hdr \in Nat \ {0} /\ StreamInv  BY StreamAssumption DEF RefInv
    <3>4. len \in Nat  BY <3>1, <3>2, <3>3, UnpackedLength
    <3>5. Hdr + len \in Nat /\ Hdr \in Nat  BY <3>3, <3>4
    <3> QED BY <1>1, <3>1, <3>2, <3>4, <3>5, DeliverRefs
  <2>4. CASE unpack_raw
    <3> DEFINE len == BufSize(unpack_buf) - unpack_pos
    <3>1. phase = "unpack" /\ Deliver(len, 0, len)  BY <2>4 DEF unpack_raw
    <3>2. len \in Nat /\ len <= unpack_size  BY RawRest DEF RefInv
    <3> HIDE DEF len
    <3>3. len = 0 + len /\ 0 \in Nat  BY <3>2
    <3> QED BY <1>1, <3>1, <3>2, <3>3, DeliverRefs
  <2>5. CASE PostRead  BY <1>1, <2>5, PostRefs
  <2>6. CASE connection_destroy  BY <1>1, <2>6, ConnectionDestroyRefs
  <2>7. ASSUME NEW k \in DOMAIN rpackets, rpacket_destroy(k) PROVE RefInv'
    BY <1>1, <2>7, PacketDestroyRefs
  <2>8. ASSUME NEW k \in DOMAIN rpackets, NEW n \in 1..rpackets[k].data_remain,
               rpacket_read(k, n)
        PROVE  RefInv'
    BY <1>1, <2>8, PacketReadRefs
  <2> QED BY <1>4, <2>1, <2>2, <2>3, <2>4, <2>5, <2>6, <2>7, <2>8 DEF Next, Step
<1> QED BY <1>3, <1>4

\* The connection, its packets and the chain let go of buffers in any order,
\* packets may outlive the connection, and still every count is the number of
\* holders: nothing in use is freed and nothing is leaked, for buffers, packets
\* and chains of any size.
THEOREM RefsAlwaysExact == Spec => []RefsExact
<1> QED BY RefInit, RefStep, RefsCounted, PTL DEF Spec


-----------------------------------------------------------------------------
(* The read position of a packet.  A header that lies in one buffer leaves *)
(* it inside that buffer, and reading keeps it there: this is all that the *)
(* position needs, for headers and buffers of any size.                    *)

\* The header of packet r is not cut by the end of a buffer.
HeaderWhole(r) == raw \/ r.begin_pos + Hdr <= Cap

HeadersWhole == \A k \in DOMAIN rpackets : HeaderWhole(rpackets[k])

Cursor(r) ==
  /\ r.rpos <= Cap
  /\ Abs(r.readbuf, r.rpos)
       = (Abs(r.buf, r.begin_pos) + (IF raw THEN 0 ELSE Hdr)) + (r.len - r.data_remain)

CursorInv ==
  RefInv /\ \A k \in DOMAIN rpackets : HeaderWhole(rpackets[k]) => Cursor(rpackets[k])

LEMMA CursorDelivered ==
  ASSUME RefInv, raw' = raw, NEW len \in Nat, NEW skip, skip = (IF raw THEN 0 ELSE Hdr),
         NEW total, Deliver(len, skip, total),
         \A k \in DOMAIN rpackets : HeaderWhole(rpackets[k]) => Cursor(rpackets[k])
  PROVE  \A k \in DOMAIN rpackets' : HeaderWhole(rpackets'[k]) => Cursor(rpackets'[k])
<1> DEFINE r == [buf |-> unpack_buf, readbuf |-> unpack_buf, rpos |-> unpack_pos + skip,
                 begin_pos |-> unpack_pos, len |-> len, data_remain |-> len]
           d == delivered + 1
<1>1. rpackets' = [k \in DOMAIN rpackets \cup {d} |-> IF k = d THEN r ELSE rpackets[k]]
  BY DEF Deliver
<1>2. /\ Cap \in Nat \ {0} /\ Hdr \in Nat /\ unpack_pos \in 0..(Cap - 1)
      /\ unpack_buf \in Nat \ {0} /\ raw \in BOOLEAN
  BY StreamAssumption DEF RefInv, StreamInv, StreamTypes
<1>3. skip \in Nat /\ (raw => skip = 0) /\ (~raw => skip = Hdr)  BY <1>2
<1>4. HeaderWhole(r) => Cursor(r)
  <2> SUFFICES ASSUME HeaderWhole(r) PROVE Cursor(r)  OBVIOUS
  <2>1. unpack_pos + skip <= Cap  BY <1>2, <1>3 DEF HeaderWhole
  <2> DEFINE B == (unpack_buf - 1) * Cap
  <2>2. B \in Int  BY <1>2
  <2>3. Abs(unpack_buf, unpack_pos + skip) = B + (unpack_pos + skip)
        /\ Abs(unpack_buf, unpack_pos) = B + unpack_pos
    BY DEF Abs
  <2> HIDE DEF B
  <2>4. Abs(unpack_buf, unpack_pos + skip) = (Abs(unpack_buf, unpack_pos) + skip) + (len - len)
    BY <1>2, <1>3, <2>2, <2>3
  <2> QED BY <2>1, <2>4 DEF Cursor
<1>5. DOMAIN rpackets' = DOMAIN rpackets \cup {d}
      /\ \A k \in DOMAIN rpackets \cup {d} : rpackets'[k] = IF k = d THEN r ELSE rpackets[k]
  BY <1>1
<1> HIDE DEF r, d
<1> QED BY <1>4, <1>5

LEMMA CursorRead ==
  ASSUME RefInv, raw' = raw, NEW k \in DOMAIN rpackets,
         NEW n \in 1..rpackets[k].data_remain, rpacket_read(k, n),
         \A j \in DOMAIN rpackets : HeaderWhole(rpackets[j]) => Cursor(rpackets[j])
  PROVE  \A j \in DOMAIN rpackets' : HeaderWhole(rpackets'[j]) => Cursor(rpackets'[j])
<1> DEFINE r == rpackets[k]
           rest == r.data_remain - n
           x == IF rest > 0 THEN r.rpos + n ELSE r.rpos + n - 1
           hops == (x \div Cap)
           q == [buf |-> r.buf, readbuf |-> r.readbuf + hops, rpos |-> (r.rpos + n) - hops * Cap,
                 begin_pos |-> r.begin_pos, len |-> r.len, data_remain |-> rest]
<1>1. r \in RPacket /\ r.readbuf \in 1..nbuf /\ nbuf \in Nat
  BY Places DEF RefInv, PacketsInside
<1>2. /\ r.readbuf \in Nat \ {0} /\ r.buf \in Nat /\ r.rpos \in Nat /\ r.data_remain \in Nat
      /\ r.begin_pos \in Nat /\ r.len \in Nat /\ n \in Nat \ {0} /\ n <= r.data_remain
      /\ rest \in Nat
  <2>1. /\ r.readbuf \in Nat \ {0} /\ r.buf \in Nat /\ r.rpos \in Nat /\ r.data_remain \in Nat
        /\ r.begin_pos \in Nat /\ r.len \in Nat
    BY <1>1 DEF RPacket
  <2> QED BY <2>1
<1>3. x \in Nat /\ (x = r.rpos + n \/ x = (r.rpos + n) - 1)
  <2>1. r.rpos + n \in Nat /\ (r.rpos + n) - 1 \in Nat /\ r.rpos + n - 1 = (r.rpos + n) - 1
    BY <1>2
  <2> QED BY <2>1
<1>4. Cap \in Nat \ {0} /\ Hdr \in Nat /\ raw \in BOOLEAN
  BY StreamAssumption DEF RefInv, StreamInv, StreamTypes
<1>5. hops \in Nat /\ (x % Cap) \in 0..(Cap - 1) /\ hops * Cap + (x % Cap) = x
  <2> HIDE DEF x
  <2> QED BY <1>3, Hops
<1>6. rpackets' = [rpackets EXCEPT ![k] = q]
  <2>1. rpackets' = [rpackets EXCEPT ![k] =
                       [r EXCEPT !.readbuf = @ + hops, !.rpos = @ + n - hops * Cap,
                                 !.data_remain = rest]]
    BY DEF rpacket_read
  <2>2. ASSUME NEW s \in RPacket, NEW a, NEW b, NEW c,
               NEW t, t = [s EXCEPT !.readbuf = a, !.rpos = b, !.data_remain = c]
        PROVE  t = [buf |-> s.buf, readbuf |-> a, rpos |-> b, begin_pos |-> s.begin_pos,
                    len |-> s.len, data_remain |-> c]
    BY <2>2 DEF RPacket
  <2>3. r.rpos + n - hops * Cap = (r.rpos + n) - hops * Cap
    <3>1. hops * Cap \in Int  BY <1>4, <1>5
    <3> HIDE DEF hops
    <3> QED BY <1>2, <3>1
  <2> HIDE DEF r, hops, rest
  <2>4. [r EXCEPT !.readbuf = r.readbuf + hops, !.rpos = r.rpos + n - hops * Cap,
                  !.data_remain = rest] = q
    BY <1>1, <2>2, <2>3, Zenon
  <2> QED BY <2>1, <2>4 DEF r
<1>7. ASSUME HeaderWhole(q) PROVE Cursor(q)
  <2>1. HeaderWhole(r)  BY <1>7 DEF HeaderWhole
  <2>2. Cursor(r)  BY <2>1
  <2> DEFINE B == (r.readbuf - 1) * Cap
             H == hops * Cap
             m == (x % Cap)
             S == Abs(r.buf, r.begin_pos) + (IF raw THEN 0 ELSE Hdr)
  <2>3. B \in Int /\ H \in Int /\ m \in Int /\ m < Cap /\ H + m = x
    BY <1>2, <1>4, <1>5
  <2>4. ((r.readbuf + hops) - 1) * Cap = B + H
    <3> HIDE DEF hops, r
    <3> QED BY <1>2, <1>4, <1>5
  <2>5. /\ Abs(r.readbuf, r.rpos) = B + r.rpos
        /\ Abs(r.readbuf + hops, (r.rpos + n) - H) = (B + H) + ((r.rpos + n) - H)
    BY <2>4 DEF Abs
  <2>6. S \in Int
    <3>1. (r.buf - 1) * Cap \in Int  BY <1>2, <1>4
    <3> QED BY <1>2, <1>4, <3>1 DEF Abs
  <2>7. Abs(r.readbuf, r.rpos) = S + (r.len - r.data_remain)  BY <2>2 DEF Cursor
  <2> HIDE DEF B, H, m, S, x, hops
  <2>8. (r.rpos + n) - H <= Cap  BY <1>2, <1>3, <1>4, <2>3
  <2>9. (B + H) + ((r.rpos + n) - H) = S + (r.len - rest)  BY <1>2, <2>3, <2>5, <2>6, <2>7
  <2>10. q.rpos <= Cap  BY <2>8 DEF H
  <2>11. Abs(q.readbuf, q.rpos) = S + (q.len - q.data_remain)  BY <2>5, <2>9 DEF H
  <2> QED BY <2>10, <2>11 DEF Cursor, S
<1> HIDE DEF q
<1>8. DOMAIN rpackets' = DOMAIN rpackets
      /\ \A j \in DOMAIN rpackets : rpackets'[j] = IF j = k THEN q ELSE rpackets[j]
  BY <1>6
<1> QED BY <1>7, <1>8

LEMMA CursorStep == CursorInv /\ [Next]_vars => CursorInv'
<1> SUFFICES ASSUME CursorInv, [Next]_vars PROVE CursorInv'  OBVIOUS
<1>0. RefInv /\ \A k \in DOMAIN rpackets : HeaderWhole(rpackets[k]) => Cursor(rpackets[k])
  BY DEF CursorInv
<1>1. RefInv' /\ raw' = raw  BY <1>0, RefStep DEF Next, vars
<1> SUFFICES \A k \in DOMAIN rpackets' : HeaderWhole(rpackets'[k]) => Cursor(rpackets'[k])
  BY <1>1 DEF CursorInv, HeaderWhole, Cursor, Abs
<1>2. CASE rpackets' = rpackets  BY <1>0, <1>2
<1>3. CASE UNCHANGED vars  BY <1>2, <1>3 DEF vars
<1>4. CASE Next
  <2>1. CASE \E l \in Lens : PeerSends(l)  BY <1>2, <2>1 DEF PeerSends
  <2>2. CASE \E n \in 1..Cap : update_next_recv_pos(n)  BY <1>2, <2>2 DEF update_next_recv_pos
  <2>3. CASE unpack
    <3>1. PICK len \in PkLens : Complete(len) /\ Deliver(len, Hdr, Hdr + len)
      BY <2>3 DEF unpack
    <3>2. phase = "unpack" /\ ~raw /\ unpack_size > Hdr /\ Hdr + len <= unpack_size
      BY <2>3, <3>1 DEF unpack, Complete
    <3>3. StreamInv  BY <1>0 DEF RefInv
    <3>4. len \in Nat  BY <3>1, <3>2, <3>3, UnpackedLength
    <3>5. Hdr = IF raw THEN 0 ELSE Hdr  BY <3>2
    <3> QED BY <1>0, <1>1, <3>1, <3>4, <3>5, CursorDelivered
  <2>4. CASE unpack_raw
    <3> DEFINE len == BufSize(unpack_buf) - unpack_pos
    <3>1. phase = "unpack" /\ raw /\ Deliver(len, 0, len)  BY <2>4 DEF unpack_raw
    <3>2. len \in Nat  BY <1>0, RawRest DEF RefInv
    <3> HIDE DEF len
    <3>3. 0 = IF raw THEN 0 ELSE Hdr  BY <3>1
    <3> QED BY <1>0, <1>1, <3>1, <3>2, <3>3, CursorDelivered
  <2>5. CASE PostRead  BY <1>2, <2>5 DEF PostRead
  <2>6. CASE connection_destroy  BY <1>2, <2>6 DEF connection_destroy
  <2>7. ASSUME NEW k \in DOMAIN rpackets, rpacket_destroy(k)
        PROVE  \A j \in DOMAIN rpackets' : HeaderWhole(rpackets'[j]) => Cursor(rpackets'[j])
    <3>1. rpackets' = [j \in DOMAIN rpackets \ {k} |-> rpackets[j]]
      BY <2>7 DEF rpacket_destroy
    <3> QED BY <1>0, <3>1
  <2>8. ASSUME NEW k \in DOMAIN rpackets, NEW n \in 1..rpackets[k].data_remain,
               rpacket_read(k, n)
        PROVE  \A j \in DOMAIN rpackets' : HeaderWhole(rpackets'[j]) => Cursor(rpackets'[j])
    BY <1>0, <1>1, <2>8, CursorRead
  <2> QED BY <1>4, <2>1, <2>2, <2>3, <2>4, <2>5, <2>6, <2>7, <2>8 DEF Next, Step
<1> QED BY <1>3, <1>4

\* rpacket_read, however a packet is cut into buffers and into reads: as long as
\* no header of a packet in use was cut by the end of a buffer, every packet's
\* read position is inside its buffer and where its remaining data begin.  That
\* is every raw connection, and every connection whose headers are one unit.
\* (A header that is cut leaves rpos past the end of the buffer.)
THEOREM CursorsRight == Spec => [](HeadersWhole => CursorRight)
<1>1. Init => CursorInv  BY RefInit DEF Init, CursorInv
<1>2. CursorInv => (HeadersWhole => CursorRight)
  <2> SUFFICES ASSUME CursorInv, HeadersWhole, NEW k \in DOMAIN rpackets
               PROVE  LET r == rpackets[k]
                          start == Abs(r.buf, r.begin_pos) + (IF raw THEN 0 ELSE Hdr)
                      IN  /\ r.rpos <= Cap
                          /\ Abs(r.readbuf, r.rpos) = start + r.len - r.data_remain
    BY DEF CursorRight
  <2>1. Cursor(rpackets[k])  BY DEF CursorInv, HeadersWhole
  <2>2. rpackets[k] \in RPacket  BY DEF CursorInv, RefInv, PacketsInside
  <2> QED BY <2>1, <2>2 DEF Cursor
<1> QED BY <1>1, <1>2, CursorStep, PTL DEF Spec
=============================================================================
