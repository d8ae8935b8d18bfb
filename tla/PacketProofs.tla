---------------------------- MODULE PacketProofs ----------------------------
(***************************************************************************)
(* wpacket.c and rpacket.c, for any sizes, widths and number of fields.    *)
(***************************************************************************)
EXTENDS WPacket, SeqLemmas

-----------------------------------------------------------------------------
(* The writer.  The strengthening: the capacities double from buffer to    *)
(* buffer, so that the buffers before the last one hold as many bytes as   *)
(* the last one less the first.  That ends when factor wraps around to 0,  *)
(* for factor and 2^8 are powers of two.                                   *)

IsPow(f, n) == f = [i \in 0..n |-> IF i = 0 THEN 1 ELSE 2 * f[i - 1]]

\* pow2 doubles from 1.
LEMMA PowSeq ==
  ASSUME NEW n \in Nat
  PROVE  \E f \in [0..n -> Nat \ {0}] :
           /\ f[0] = 1 /\ \A k \in 1..n : f[k] = 2 * f[k - 1]
           /\ \A m \in 0..n : pow2(m) = f[m]
<1> DEFINE S == Nat \ {0}
           G == [k \in 1..n |-> [x \in S |-> 2 * x]]
<1>1. 1 \in S /\ \A x \in S : 2 * x \in S  OBVIOUS
<1> HIDE DEF S
<1>2. G \in [1..n -> [S -> S]]  BY <1>1
<1>3. PICK f \in [0..n -> S] : Follows(f, 1, G, n)  BY <1>1, <1>2, RecDefined
<1>4. f[0] = 1 /\ \A k \in 1..n : f[k] = 2 * f[k - 1]
  <2>1. \A k \in 1..n : k - 1 \in 0..n  OBVIOUS
  <2>2. \A k \in 1..n : f[k] = G[k][f[k - 1]]  BY <1>3 DEF Follows
  <2>3. \A k \in 1..n : f[k - 1] \in S  BY <2>1
  <2> QED BY <1>3, <2>2, <2>3 DEF Follows
<1>5. ASSUME NEW m \in 0..n PROVE pow2(m) = f[m]
  <2> DEFINE g == [i \in 0..m |-> f[i]]
             c == CHOOSE y : IsPow(y, m)
  <2>1. m \in Nat /\ \A i \in 0..m : i \in 0..n  OBVIOUS
  <2>2. g = [i \in 0..m |-> g[i]] /\ \A i \in 0..m : g[i] = f[i]  OBVIOUS
  <2> HIDE DEF g
  <2>3. ASSUME NEW i \in 0..m PROVE g[i] = IF i = 0 THEN 1 ELSE 2 * g[i - 1]
    <3>1. CASE i = 0  BY <1>4, <2>2, <3>1
    <3>2. CASE i # 0
      <4>1. i \in 1..n /\ i - 1 \in 0..m  BY <3>2
      <4> QED BY <1>4, <2>2, <3>2, <4>1
    <3> QED BY <3>1, <3>2
  <2>4. IsPow(g, m)  BY <2>2, <2>3 DEF IsPow
  <2>5. IsPow(c, m)  BY <2>4
  <2>6. pow2(m) = c[m]  BY DEF pow2, IsPow
  <2> HIDE DEF c
  <2>7. \A i \in 0..m : c[i] = IF i = 0 THEN 1 ELSE 2 * c[i - 1]  BY <2>5 DEF IsPow
  <2> DEFINE Bad == {i \in 0..m : c[i] # g[i]}
  <2>8. ASSUME Bad # {} PROVE FALSE
    <3>1. Bad \in SUBSET Nat  OBVIOUS
    <3>2. PICK i \in Bad : \A y \in Bad : i <= y  BY <2>8, <3>1, LeastElement
    <3>3. i \in 0..m /\ c[i] # g[i]  BY <3>2
    <3>4. i # 0  BY <2>3, <2>7, <3>3
    <3>5. i - 1 \in 0..m /\ ~(i <= i - 1)  BY <3>3, <3>4
    <3>6. c[i - 1] = g[i - 1]  BY <3>2, <3>5
    <3> QED BY <2>3, <2>7, <3>3, <3>4, <3>6
  <2>9. m \in 0..m  BY <2>1
  <2>10. c[m] = g[m]  BY <2>8, <2>9
  <2> QED BY <2>2, <2>6, <2>9, <2>10
<1> QED BY <1>3, <1>4, <1>5 DEF S

LEMMA PowFacts ==
  ASSUME NEW k \in Nat
  PROVE  pow2(0) = 1 /\ pow2(k) \in Nat \ {0} /\ pow2(k + 1) = 2 * pow2(k)
<1>1. k + 1 \in Nat /\ k \in 0..(k + 1) /\ k + 1 \in 1..(k + 1) /\ k + 1 \in 0..(k + 1)
      /\ 0 \in 0..(k + 1) /\ (k + 1) - 1 = k
  OBVIOUS
<1>2. PICK f \in [0..(k + 1) -> Nat \ {0}] :
        /\ f[0] = 1 /\ \A i \in 1..(k + 1) : f[i] = 2 * f[i - 1]
        /\ \A m \in 0..(k + 1) : pow2(m) = f[m]
  BY <1>1, PowSeq
<1>3. f[k + 1] = 2 * f[k]  BY <1>1, <1>2
<1>4. pow2(0) = f[0] /\ pow2(k) = f[k] /\ pow2(k + 1) = f[k + 1] /\ f[k] \in Nat \ {0}
  BY <1>1, <1>2
<1> QED BY <1>2, <1>3, <1>4

\* A smaller power of two is at most half of a larger one.
LEMMA PowHalf ==
  ASSUME NEW i \in Nat, NEW j \in Nat, i < j
  PROVE  2 * pow2(i) <= pow2(j)
<1>1. \A k \in Nat : pow2(k) \in Nat \ {0} /\ pow2(k + 1) = 2 * pow2(k)  BY PowFacts
<1> DEFINE Bad == {m \in (i + 1)..j : ~(2 * pow2(i) <= pow2(m))}
<1>2. ASSUME Bad # {} PROVE FALSE
  <2>1. Bad \in SUBSET Nat  OBVIOUS
  <2>2. PICK m \in Bad : \A y \in Bad : m <= y  BY <1>2, <2>1, LeastElement
  <2>3. m \in (i + 1)..j /\ m \in Nat /\ ~(2 * pow2(i) <= pow2(m))  BY <2>2
  <2>4. CASE m = i + 1  BY <1>1, <2>3, <2>4
  <2>5. CASE m # i + 1
    <3>1. m - 1 \in (i + 1)..j /\ m - 1 \in Nat /\ ~(m <= m - 1) /\ (m - 1) + 1 = m
      BY <2>3, <2>5
    <3>2. 2 * pow2(i) <= pow2(m - 1)  BY <2>2, <3>1
    <3>3. pow2(m) = 2 * pow2(m - 1) /\ pow2(m - 1) \in Nat /\ pow2(i) \in Nat  BY <1>1, <3>1
    <3> DEFINE a == pow2(i)
               b == pow2(m - 1)
               d == pow2(m)
    <3>4. a \in Nat /\ b \in Nat /\ 2 * a <= b /\ d = 2 * b /\ ~(2 * a <= d)
      BY <2>3, <3>2, <3>3
    <3> HIDE DEF a, b, d
    <3> QED BY <3>4
  <2> QED BY <2>4, <2>5
<1>3. j \in (i + 1)..j  OBVIOUS
<1> QED BY <1>2, <1>3

\* A power of two is more than its exponent.
LEMMA PowAbove ==
  ASSUME NEW n \in Nat
  PROVE  n < pow2(n)
<1>1. \A k \in Nat : pow2(0) = 1 /\ pow2(k) \in Nat \ {0} /\ pow2(k + 1) = 2 * pow2(k)
  BY PowFacts
<1> DEFINE Bad == {m \in 0..n : ~(m < pow2(m))}
<1>2. ASSUME Bad # {} PROVE FALSE
  <2>1. Bad \in SUBSET Nat  OBVIOUS
  <2>2. PICK m \in Bad : \A y \in Bad : m <= y  BY <1>2, <2>1, LeastElement
  <2>3. m \in 0..n /\ m \in Nat /\ ~(m < pow2(m))  BY <2>2
  <2>4. m # 0  BY <1>1, <2>3
  <2>5. m - 1 \in 0..n /\ m - 1 \in Nat /\ ~(m <= m - 1) /\ (m - 1) + 1 = m  BY <2>3, <2>4
  <2>6. m - 1 < pow2(m - 1)  BY <2>2, <2>5
  <2>7. pow2(m) = 2 * pow2(m - 1) /\ pow2(m - 1) \in Nat  BY <1>1, <2>5
  <2> DEFINE a == pow2(m - 1)
             b == pow2(m)
  <2>8. a \in Nat /\ b = 2 * a /\ m - 1 < a /\ ~(m < b)  BY <2>3, <2>6, <2>7
  <2> HIDE DEF a, b
  <2> QED BY <2>3, <2>4, <2>8
<1>3. n \in 0..n  OBVIOUS
<1> QED BY <1>2, <1>3

\* A power of two divides the larger ones.
LEMMA PowMod ==
  ASSUME NEW i \in Nat, NEW j \in Nat, j <= i
  PROVE  (pow2(i) % pow2(j)) = 0
<1>1. \A k \in Nat : pow2(k) \in Nat \ {0} /\ pow2(k + 1) = 2 * pow2(k)  BY PowFacts
<1> DEFINE n == pow2(j)
           Bad == {m \in j..i : ~ \E q \in Nat : pow2(m) = n * q}
<1>2. n \in Nat \ {0}  BY <1>1
<1> HIDE DEF n
<1>3. ASSUME Bad # {} PROVE FALSE
  <2>1. Bad \in SUBSET Nat  OBVIOUS
  <2>2. PICK m \in Bad : \A y \in Bad : m <= y  BY <1>3, <2>1, LeastElement
  <2>3. m \in j..i /\ m \in Nat /\ ~ \E q \in Nat : pow2(m) = n * q  BY <2>2
  <2>4. CASE m = j
    <3>1. pow2(m) = n * 1  BY <1>2, <2>4 DEF n
    <3> QED BY <2>3, <3>1
  <2>5. CASE m # j
    <3>1. m - 1 \in j..i /\ m - 1 \in Nat /\ ~(m <= m - 1) /\ (m - 1) + 1 = m  BY <2>3, <2>5
    <3>2. PICK q \in Nat : pow2(m - 1) = n * q  BY <2>2, <3>1
    <3>3. pow2(m) = 2 * pow2(m - 1)  BY <1>1, <3>1
    <3>4. 2 * (n * q) = n * (2 * q)  BY <1>2
    <3>5. pow2(m) = n * (2 * q) /\ 2 * q \in Nat  BY <3>2, <3>3, <3>4
    <3> QED BY <2>3, <3>5
  <2> QED BY <2>4, <2>5
<1>4. i \in j..i  OBVIOUS
<1>5. PICK q \in Nat : pow2(i) = n * q  BY <1>3, <1>4
<1> DEFINE x == pow2(i)
<1>6. x \in Nat /\ q \in Int /\ 0 \in 0..(n - 1) /\ x = n * q + 0  BY <1>1, <1>2, <1>5
<1> HIDE DEF x
<1>7. (x % n) = 0  BY <1>2, <1>6, DivisionUnique
<1> QED BY <1>7 DEF x, n

Powers == {pow2(k) : k \in Nat}

LEMMA SizeOK ==
  ASSUME NEW n \in Nat \ {0}
  PROVE  GetSize_of_pow2(n) \in Powers /\ n <= GetSize_of_pow2(n)
<1>1. \A k \in Nat : pow2(0) = 1 /\ pow2(k) \in Nat \ {0} /\ pow2(k + 1) = 2 * pow2(k)
  BY PowFacts
<1> DEFINE Enough == {k \in 0..n : n <= pow2(k)}
<1>2. Enough \in SUBSET Nat  OBVIOUS
<1>3. n \in Enough
  <2>1. n < pow2(n) /\ n \in 0..n  BY PowAbove
  <2> QED BY <1>1, <2>1
<1>4. PICK k \in Enough : \A y \in Enough : k <= y  BY <1>2, <1>3, LeastElement
<1>5. k \in 0..n /\ k \in Nat /\ n <= pow2(k)  BY <1>4
<1>6. pow2(k) > 1 => pow2(k) \div 2 < n
  <2>1. CASE k = 0  BY <1>1, <2>1
  <2>2. CASE k # 0
    <3>1. k - 1 \in 0..n /\ k - 1 \in Nat /\ ~(k <= k - 1) /\ (k - 1) + 1 = k  BY <1>5, <2>2
    <3>2. ~(n <= pow2(k - 1))  BY <1>4, <3>1
    <3>3. pow2(k) = 2 * pow2(k - 1) /\ pow2(k - 1) \in Nat  BY <1>1, <3>1
    <3>4. \A a \in Nat : (2 * a) \div 2 = a  OBVIOUS
    <3> QED BY <3>2, <3>3, <3>4
  <2> QED BY <2>1, <2>2
<1> DEFINE P == {pow2(j) : j \in 0..n}
           Fits(p) == n <= p /\ (p > 1 => p \div 2 < n)
<1>7. pow2(k) \in P /\ Fits(pow2(k))  BY <1>5, <1>6
<1>8. GetSize_of_pow2(n) = CHOOSE p \in P : Fits(p)  BY DEF GetSize_of_pow2
<1>9. GetSize_of_pow2(n) \in P /\ Fits(GetSize_of_pow2(n))
  <2> HIDE DEF P, Fits
  <2> QED BY <1>7, <1>8
<1> QED BY <1>9 DEF Powers

\* One summand more.
LEMMA TotalMore ==
  ASSUME NEW n \in Nat, NEW v \in [1..n -> Nat], NEW u \in [1..(n + 1) -> Nat],
         \A k \in 1..n : u[k] = v[k]
  PROVE  Total(u, n + 1) = Total(v, n) + u[n + 1]
<1>1. PICK f \in [0..n -> Nat] : /\ f[0] = 0 /\ \A k \in 1..n : f[k] = f[k - 1] + v[k]
                                 /\ Total(v, n) = f[n]
  BY TotalSum
<1>2. n + 1 \in Nat  OBVIOUS
<1>3. PICK g \in [0..(n + 1) -> Nat] : /\ g[0] = 0 /\ \A k \in 1..(n + 1) : g[k] = g[k - 1] + u[k]
                                       /\ Total(u, n + 1) = g[n + 1]
  BY <1>2, TotalSum
<1> DEFINE Bad == {k \in 0..n : f[k] # g[k]}
<1>4. ASSUME Bad # {} PROVE FALSE
  <2>1. Bad \in SUBSET Nat  OBVIOUS
  <2>2. PICK m \in Bad : \A y \in Bad : m <= y  BY <1>4, <2>1, LeastElement
  <2>3. m \in 0..n /\ f[m] # g[m]  BY <2>2
  <2>4. m # 0  BY <1>1, <1>3, <2>3
  <2>5. m - 1 \in 0..n /\ ~(m <= m - 1) /\ m \in 1..n /\ m \in 1..(n + 1)  BY <2>3, <2>4
  <2>6. f[m - 1] = g[m - 1]  BY <2>2, <2>5
  <2> QED BY <1>1, <1>3, <2>3, <2>5, <2>6
<1>5. n \in 0..n /\ n + 1 \in 1..(n + 1) /\ (n + 1) - 1 = n  OBVIOUS
<1>6. f[n] = g[n]  BY <1>4, <1>5
<1>7. g[n + 1] = g[n] + u[n + 1]  BY <1>3, <1>5
<1> QED BY <1>1, <1>3, <1>6, <1>7

Byte == Nat \X Nat
Buf == [capacity : Nat, data : Seq(Byte)]
PacketRec ==
  [bufs : Seq(Buf), factor : Nat, raw : BOOLEAN, len : Nat, data_size : Nat, wpos : Nat,
   hung : BOOLEAN]

Lens(bs) == [b \in 1..Len(bs) |-> Len(bs[b].data)]

\* The buffers: no more data than they take, and as much as data_size says.
Packed(p) ==
  /\ Len(p.bufs) >= 1 /\ p.bufs[1].capacity \in Powers
  /\ \A b \in 1..Len(p.bufs) : Len(p.bufs[b].data) <= p.bufs[b].capacity
  /\ Len(p.bufs[Len(p.bufs)].data) = p.wpos
  /\ p.data_size = Total(Lens(p.bufs), Len(p.bufs))
  /\ ~p.raw => p.data_size = LenSize + p.len

\* How far they have been doubled, with c the first capacity and cap the last.
Doubled(p, c, cap) ==
  /\ p.hung => /\ cap = 0 /\ p.factor = 0
               /\ p.data_size = IF c < FactorMod THEN FactorMod - c ELSE c
  /\ (~p.hung /\ c < FactorMod) => /\ p.factor = cap /\ cap \in Powers /\ cap < FactorMod
                                   /\ p.data_size = (cap - c) + p.wpos
  /\ (~p.hung /\ c >= FactorMod) => /\ Len(p.bufs) = 1 /\ p.factor = 0
                                    /\ p.data_size = p.wpos

WriterOK ==
  {p \in PacketRec : Packed(p) /\ Doubled(p, p.bufs[1].capacity, p.bufs[Len(p.bufs)].capacity)}

LEMMA ModFacts ==
  /\ FactorMod \in Powers /\ FactorMod \in Nat \ {0}
  /\ \A p \in Powers : p \in Nat \ {0}
  /\ \A p \in Powers : p < FactorMod => 2 * p \in Powers /\ 2 * p <= FactorMod /\ (p % FactorMod) = p
  /\ \A p \in Powers : ~(p < FactorMod) => (p % FactorMod) = 0
  /\ (FactorMod % FactorMod) = 0 /\ ((2 * 0) % FactorMod) = 0
<1>1. \A k \in Nat : pow2(k) \in Nat \ {0} /\ pow2(k + 1) = 2 * pow2(k) /\ k + 1 \in Nat
  BY PowFacts
<1>2. FactorMod \in Nat /\ \E k \in 0..FactorMod : FactorMod = pow2(k)  BY PacketAssumption
<1>3. PICK h \in Nat : FactorMod = pow2(h)  BY <1>2
<1>4. FactorMod \in Powers /\ FactorMod \in Nat \ {0} /\ \A p \in Powers : p \in Nat \ {0}
  BY <1>1, <1>3 DEF Powers
<1>5. ASSUME NEW p \in Powers, p < FactorMod
      PROVE  2 * p \in Powers /\ 2 * p <= FactorMod /\ (p % FactorMod) = p
  <2>1. PICK k \in Nat : p = pow2(k)  BY DEF Powers
  <2>2. 2 * p \in Powers  BY <1>1, <2>1 DEF Powers
  <2>3. k < h
    <3>1. CASE h < k
      <4>1. 2 * pow2(h) <= pow2(k)  BY <3>1, PowHalf
      <4>2. 2 * FactorMod <= p /\ p \in Nat /\ FactorMod \in Nat  BY <1>3, <1>4, <2>1, <4>1
      <4> QED BY <1>5, <4>2
    <3>2. CASE h = k  BY <1>3, <1>4, <1>5, <2>1, <3>2
    <3> QED BY <3>1, <3>2
  <2>4. 2 * pow2(k) <= pow2(h)  BY <2>3, PowHalf
  <2>5. (p % FactorMod) = p  BY <1>4, <1>5, ModInt
  <2> QED BY <1>3, <2>1, <2>2, <2>4, <2>5
<1>6. ASSUME NEW p \in Powers, ~(p < FactorMod) PROVE (p % FactorMod) = 0
  <2>1. PICK k \in Nat : p = pow2(k)  BY DEF Powers
  <2>2. h <= k
    <3>1. CASE k < h
      <4>1. 2 * pow2(k) <= pow2(h)  BY <3>1, PowHalf
      <4>2. 2 * p <= FactorMod /\ p \in Nat \ {0} /\ FactorMod \in Nat  BY <1>3, <1>4, <2>1, <4>1
      <4> QED BY <1>6, <4>2
    <3> QED BY <3>1
  <2> QED BY <1>3, <2>1, <2>2, PowMod
<1>7. (FactorMod % FactorMod) = 0  BY <1>4, <1>6
<1>8. ((2 * 0) % FactorMod) = 0
  <2>1. 2 * 0 = 0 /\ 0 \in Nat /\ 0 \in Int /\ 0 < FactorMod  BY <1>4
  <2>2. (0 % FactorMod) = 0  BY <1>4, <2>1, ModInt
  <2> QED BY <2>1, <2>2
<1> QED BY <1>4, <1>5, <1>6, <1>7, <1>8

LEMMA LensType ==
  ASSUME NEW bs \in Seq(Buf)
  PROVE  Lens(bs) \in [1..Len(bs) -> Nat] /\ \A b \in 1..Len(bs) : Lens(bs)[b] = Len(bs[b].data)
<1>1. \A b \in 1..Len(bs) : Len(bs[b].data) \in Nat
  <2>1. \A b \in 1..Len(bs) : bs[b] \in Buf  OBVIOUS
  <2> QED BY <2>1 DEF Buf
<1> QED BY <1>1 DEF Lens

\* The last case of put.
WithByte(x, b) ==
  [x EXCEPT !.bufs[Len(x.bufs)].data = Append(@, b), !.wpos = @ + 1,
            !.len = IF x.raw THEN @ ELSE @ + 1, !.data_size = @ + 1]

LEMMA StoreOK ==
  ASSUME NEW x \in WriterOK, ~x.hung, x.wpos < x.bufs[Len(x.bufs)].capacity, NEW b \in Byte
  PROVE  WithByte(x, b) \in WriterOK
<1> DEFINE n  == Len(x.bufs)
           bs == x.bufs
           old == bs[n]
           new == [capacity |-> old.capacity, data |-> Append(old.data, b)]
           cs == [bs EXCEPT ![n] = new]
           ln == IF x.raw THEN x.len ELSE x.len + 1
           y  == [bufs |-> cs, factor |-> x.factor, raw |-> x.raw, len |-> ln,
                  data_size |-> x.data_size + 1, wpos |-> x.wpos + 1, hung |-> x.hung]
<1>1. x \in PacketRec /\ Packed(x) /\ Doubled(x, bs[1].capacity, bs[n].capacity)  BY DEF WriterOK
<1>2. /\ bs \in Seq(Buf) /\ x.factor \in Nat /\ x.raw \in BOOLEAN /\ x.len \in Nat
      /\ x.data_size \in Nat /\ x.wpos \in Nat /\ x.hung \in BOOLEAN
  BY <1>1 DEF PacketRec
<1>3. /\ n \in Nat /\ n >= 1 /\ n \in 1..n /\ 1 \in 1..n
      /\ \A k \in 1..n : bs[k] \in Buf
  BY <1>1, <1>2 DEF Packed
<1>4. old \in Buf /\ old.data \in Seq(Byte) /\ old.capacity \in Nat /\ Len(old.data) = x.wpos
  BY <1>1, <1>3 DEF Buf, Packed
<1>5. /\ new \in Buf /\ new.capacity = old.capacity /\ Len(new.data) = x.wpos + 1
  BY <1>4 DEF Buf
<1>6. WithByte(x, b) = y
  <2>1. x = [bufs |-> x.bufs, factor |-> x.factor, raw |-> x.raw, len |-> x.len,
             data_size |-> x.data_size, wpos |-> x.wpos, hung |-> x.hung]
    BY <1>1 DEF PacketRec
  <2>2. [old EXCEPT !.data = Append(@, b)] = new
    <3>1. old = [capacity |-> old.capacity, data |-> old.data]  BY <1>4 DEF Buf
    <3> HIDE DEF old
    <3> QED BY <3>1
  <2>3. [x.bufs EXCEPT ![n] = [old EXCEPT !.data = Append(@, b)]] = cs  BY <2>2
  <2>4. WithByte(x, b) = [x EXCEPT !.bufs = cs, !.wpos = x.wpos + 1, !.len = ln,
                                  !.data_size = x.data_size + 1]
    BY <2>1, <2>3 DEF WithByte
  <2> HIDE DEF cs, ln
  <2> QED BY <2>1, <2>4
<1> HIDE DEF new
<1>7. /\ cs \in Seq(Buf) /\ Len(cs) = n /\ cs[n] = new /\ \A k \in 1..n : k # n => cs[k] = bs[k]
  BY <1>2, <1>3, <1>5
<1>8. y \in PacketRec /\ y.bufs = cs /\ y.factor = x.factor /\ y.raw = x.raw /\ y.len = ln
      /\ y.data_size = x.data_size + 1 /\ y.wpos = x.wpos + 1 /\ y.hung = x.hung
  <2>1. ln \in Nat  BY <1>2
  <2> HIDE DEF ln, cs
  <2> QED BY <1>2, <1>7, <2>1 DEF PacketRec
<1>9. cs[1].capacity = bs[1].capacity /\ cs[n].capacity = bs[n].capacity
  <2>1. CASE n = 1  BY <1>5, <1>7, <2>1
  <2>2. CASE n # 1  BY <1>3, <1>5, <1>7, <2>2
  <2> QED BY <2>1, <2>2
<1> HIDE DEF cs, y
<1>10. Total(Lens(cs), n) = x.data_size + 1
  <2>1. Lens(bs) \in [1..n -> Nat] /\ \A k \in 1..n : Lens(bs)[k] = Len(bs[k].data)
    BY <1>2, LensType
  <2>2. Lens(cs) \in [1..n -> Nat] /\ \A k \in 1..n : Lens(cs)[k] = Len(cs[k].data)
    BY <1>7, LensType
  <2>3. \A k \in 1..n : k # n => Lens(bs)[k] = Lens(cs)[k]  BY <1>7, <2>1, <2>2
  <2>4. Total(Lens(cs), n) + Lens(bs)[n] = Total(Lens(bs), n) + Lens(cs)[n]
    <3> DEFINE u == Lens(bs)
               v == Lens(cs)
    <3> HIDE DEF n, u, v
    <3>1. u \in [1..n -> Nat] /\ v \in [1..n -> Nat] /\ n \in 1..n /\ n \in Nat
          /\ \A k \in 1..n : k # n => u[k] = v[k]
      BY <1>3, <2>1, <2>2, <2>3 DEF u, v
    <3>2. Total(v, n) + u[n] = Total(u, n) + v[n]  BY <3>1, TotalChange
    <3> QED BY <3>2 DEF u, v
  <2>5. Lens(bs)[n] = x.wpos /\ Lens(cs)[n] = x.wpos + 1  BY <1>3, <1>4, <1>5, <1>7, <2>1, <2>2
  <2>6. Total(Lens(bs), n) = x.data_size  BY <1>1 DEF Packed
  <2>7. Total(Lens(cs), n) \in Nat  BY <1>3, <2>2, TotalNat
  <2> QED BY <1>2, <2>4, <2>5, <2>6, <2>7
<1>11. Packed(y)
  <2>1. \A k \in 1..n : Len(cs[k].data) <= cs[k].capacity
    <3>1. Len(cs[n].data) <= cs[n].capacity  BY <1>2, <1>4, <1>5, <1>7
    <3>2. \A k \in 1..n : Len(bs[k].data) <= bs[k].capacity  BY <1>1 DEF Packed
    <3> QED BY <1>7, <3>1, <3>2
  <2>2. Len(cs[n].data) = x.wpos + 1  BY <1>5, <1>7
  <2>3. bs[1].capacity \in Powers /\ (~x.raw => x.data_size = LenSize + x.len)
    BY <1>1 DEF Packed
  <2>4. ~x.raw => x.data_size + 1 = LenSize + (x.len + 1)  BY <1>2, <2>3, PacketAssumption
  <2> QED BY <1>3, <1>7, <1>8, <1>9, <1>10, <2>1, <2>2, <2>3, <2>4 DEF Packed
<1>12. Doubled(y, cs[1].capacity, cs[n].capacity)
  <2>1. ~x.hung /\ bs[1].capacity \in Nat /\ bs[n].capacity \in Nat
    BY <1>3 DEF Buf
  <2>2. CASE bs[1].capacity < FactorMod
    <3>1. /\ x.factor = bs[n].capacity /\ bs[n].capacity \in Powers /\ bs[n].capacity < FactorMod
          /\ x.data_size = (bs[n].capacity - bs[1].capacity) + x.wpos
      BY <1>1, <2>1, <2>2 DEF Doubled
    <3>2. x.data_size + 1 = (bs[n].capacity - bs[1].capacity) + (x.wpos + 1)
      <4> DEFINE p == bs[1].capacity
                 q == bs[n].capacity
                 d == x.data_size
                 e == x.wpos
      <4>1. p \in Nat /\ q \in Nat /\ d \in Nat /\ e \in Nat /\ d = (q - p) + e
        BY <1>2, <2>1, <3>1
      <4> HIDE DEF p, q, d, e
      <4>2. d + 1 = (q - p) + (e + 1)  BY <4>1
      <4> QED BY <4>2 DEF p, q, d, e
    <3>3. ~(bs[1].capacity >= FactorMod)  BY <2>1, <2>2, ModFacts
    <3> QED BY <1>8, <1>9, <2>1, <3>1, <3>2, <3>3 DEF Doubled
  <2>3. CASE ~(bs[1].capacity < FactorMod)
    <3>1. bs[1].capacity >= FactorMod  BY <2>1, <2>3, ModFacts
    <3>2. n = 1 /\ x.factor = 0 /\ x.data_size = x.wpos  BY <1>1, <2>1, <3>1 DEF Doubled
    <3> QED BY <1>7, <1>8, <1>9, <2>1, <2>3, <3>2 DEF Doubled
  <2> QED BY <2>2, <2>3
<1> QED BY <1>6, <1>7, <1>8, <1>11, <1>12 DEF WriterOK

\* What wpacket_expand makes of a packet.
LEMMA Expanded ==
  ASSUME NEW p \in WriterOK, ~p.hung, p.wpos = p.bufs[Len(p.bufs)].capacity
  PROVE  \E f \in Nat, cs \in Seq(Buf) :
           /\ f = ((2 * p.factor) % FactorMod)
           /\ wpacket_expand(p) = [bufs |-> cs, factor |-> f, raw |-> p.raw, len |-> p.len,
                                   data_size |-> p.data_size, wpos |-> 0, hung |-> FALSE]
           /\ Len(cs) = Len(p.bufs) + 1 /\ (\A k \in 1..Len(p.bufs) : cs[k] = p.bufs[k])
           /\ cs[1].capacity = p.bufs[1].capacity
           /\ cs[Len(p.bufs) + 1].capacity = f /\ cs[Len(p.bufs) + 1].data = <<>>
           /\ \A k \in 1..(Len(p.bufs) + 1) : Len(cs[k].data) <= cs[k].capacity
           /\ Total(Lens(cs), Len(cs)) = p.data_size
<1> DEFINE f  == ((2 * p.factor) % FactorMod)
           bs == p.bufs
           n  == Len(p.bufs)
           new == buffer_create(f)
           cs == Append(bs, new)
<1>1. p \in PacketRec /\ Packed(p)  BY DEF WriterOK
<1>2. /\ bs \in Seq(Buf) /\ p.factor \in Nat /\ p.data_size \in Nat /\ n \in Nat /\ n >= 1
      /\ p.hung \in BOOLEAN
  BY <1>1 DEF PacketRec, Packed
<1>3. f \in Nat
  <2>1. 2 * p.factor \in Int  BY <1>2
  <2>2. f \in 0..(FactorMod - 1)  BY <2>1, ModFacts, ModRange
  <2>3. \A z \in 0..(FactorMod - 1) : z \in Nat  OBVIOUS
  <2> HIDE DEF f
  <2> QED BY <2>2, <2>3
<1> HIDE DEF f
<1>4. new \in Buf /\ new.capacity = f /\ new.data = <<>>  BY <1>3 DEF new, buffer_create, Buf
<1>5. p = [bufs |-> p.bufs, factor |-> p.factor, raw |-> p.raw, len |-> p.len,
           data_size |-> p.data_size, wpos |-> p.wpos, hung |-> p.hung]
  BY <1>1 DEF PacketRec
<1>6. wpacket_expand(p) = [p EXCEPT !.factor = f, !.wpos = 0, !.bufs = cs]
  BY DEF wpacket_expand, f
<1> HIDE DEF new
<1>7. /\ cs \in Seq(Buf) /\ Len(cs) = n + 1 /\ cs[n + 1] = new
      /\ \A k \in 1..n : cs[k] = bs[k] /\ bs[k] \in Buf
  BY <1>2, <1>4
<1>8. p.hung = FALSE  BY <1>2
<1> HIDE DEF cs
<1>9. wpacket_expand(p) = [bufs |-> cs, factor |-> f, raw |-> p.raw, len |-> p.len,
                           data_size |-> p.data_size, wpos |-> 0, hung |-> FALSE]
  BY <1>5, <1>6, <1>8
<1>10. \A k \in 1..(n + 1) : Len(cs[k].data) <= cs[k].capacity
  <2>1. \A k \in 1..n : Len(bs[k].data) <= bs[k].capacity  BY <1>1 DEF Packed
  <2>2. Len(cs[n + 1].data) <= cs[n + 1].capacity
    <3>1. Len(new.data) = 0  BY <1>4
    <3> QED BY <1>3, <1>4, <1>7, <3>1
  <2>3. \A k \in 1..(n + 1) : k = n + 1 \/ k \in 1..n  BY <1>2
  <2> QED BY <1>7, <2>1, <2>2, <2>3
<1>11. Total(Lens(cs), n + 1) = p.data_size
  <2> DEFINE u == Lens(bs)
             v == Lens(cs)
  <2>1. u \in [1..n -> Nat] /\ \A k \in 1..n : u[k] = Len(bs[k].data)  BY <1>2, LensType
  <2>2. v \in [1..(n + 1) -> Nat] /\ \A k \in 1..(n + 1) : v[k] = Len(cs[k].data)
    BY <1>7, LensType
  <2>3. Total(u, n) = p.data_size  BY <1>1 DEF Packed
  <2> HIDE DEF u, v, n
  <2>4. \A k \in 1..n : v[k] = u[k]
    <3>1. \A k \in 1..n : k \in 1..(n + 1)  BY <1>2
    <3> QED BY <1>7, <2>1, <2>2, <3>1
  <2>5. v[n + 1] = 0
    <3>1. n + 1 \in 1..(n + 1)  BY <1>2
    <3>2. Len(new.data) = 0  BY <1>4
    <3> QED BY <1>7, <2>2, <3>1, <3>2
  <2>6. Total(v, n + 1) = Total(u, n) + v[n + 1]  BY <1>2, <2>1, <2>2, <2>4, TotalMore
  <2> QED BY <1>2, <2>3, <2>5, <2>6 DEF v
<1>12. cs[1].capacity = bs[1].capacity
  <2>1. 1 \in 1..n  BY <1>2
  <2> QED BY <1>7, <2>1
<1> QED BY <1>3, <1>4, <1>7, <1>9, <1>10, <1>11, <1>12 DEF f

\* A full packet: it grows to twice its size, or hangs.
LEMMA GrowOK ==
  ASSUME NEW p \in WriterOK, ~p.hung, p.wpos = p.bufs[Len(p.bufs)].capacity,
         NEW x, x = wpacket_expand(p)
  PROVE  IF writebuf(x).capacity = 0 THEN [x EXCEPT !.hung = TRUE] \in WriterOK
         ELSE x \in WriterOK /\ ~x.hung /\ x.wpos < x.bufs[Len(x.bufs)].capacity
<1> DEFINE n == Len(p.bufs)
           c == p.bufs[1].capacity
           cap == p.bufs[n].capacity
<1>1. p \in PacketRec /\ Packed(p) /\ Doubled(p, c, cap)  BY DEF WriterOK
<1>2. /\ p.bufs \in Seq(Buf) /\ p.factor \in Nat /\ p.raw \in BOOLEAN /\ p.len \in Nat
      /\ p.data_size \in Nat /\ p.wpos \in Nat /\ n \in Nat /\ n >= 1
  BY <1>1 DEF PacketRec, Packed
<1>3. c \in Nat /\ cap \in Nat /\ c \in Powers
  <2>1. p.bufs[1] \in Buf /\ p.bufs[n] \in Buf  BY <1>2
  <2> QED BY <1>1, <2>1 DEF Buf, Packed
<1>4. PICK f \in Nat, cs \in Seq(Buf) :
           /\ f = ((2 * p.factor) % FactorMod)
           /\ x = [bufs |-> cs, factor |-> f, raw |-> p.raw, len |-> p.len,
                   data_size |-> p.data_size, wpos |-> 0, hung |-> FALSE]
           /\ Len(cs) = n + 1 /\ cs[1].capacity = c
           /\ cs[n + 1].capacity = f /\ cs[n + 1].data = <<>>
           /\ \A k \in 1..(n + 1) : Len(cs[k].data) <= cs[k].capacity
           /\ Total(Lens(cs), Len(cs)) = p.data_size
  BY Expanded
<1> HIDE DEF n, c, cap
<1>5. /\ x.bufs = cs /\ x.factor = f /\ x.raw = p.raw /\ x.len = p.len
      /\ x.data_size = p.data_size /\ x.wpos = 0 /\ x.hung = FALSE
  BY <1>4
<1>6. x \in PacketRec
  <2>1. x = [bufs |-> cs, factor |-> f, raw |-> p.raw, len |-> p.len,
             data_size |-> p.data_size, wpos |-> 0, hung |-> FALSE]
    BY <1>4
  <2> QED BY <1>2, <2>1 DEF PacketRec
<1>7. Packed(x)
  <2>1. ~p.raw => p.data_size = LenSize + p.len  BY <1>1 DEF Packed
  <2>2. Len(cs[n + 1].data) = 0  BY <1>4
  <2>3. n + 1 >= 1  BY <1>2
  <2> QED BY <1>3, <1>4, <1>5, <2>1, <2>2, <2>3 DEF Packed
<1>8. writebuf(x).capacity = f /\ x.bufs[Len(x.bufs)].capacity = f /\ x.bufs[1].capacity = c
  BY <1>4, <1>5 DEF writebuf, Last
<1>9. \/ f = 0 /\ p.data_size = (IF c < FactorMod THEN FactorMod - c ELSE c)
      \/ f # 0 /\ c < FactorMod /\ f \in Powers /\ f < FactorMod /\ p.data_size = f - c
  <2>1. FactorMod \in Nat \ {0}  BY ModFacts
  <2>2. CASE c < FactorMod
    <3>1. /\ p.factor = cap /\ cap \in Powers /\ cap < FactorMod
          /\ p.data_size = (cap - c) + p.wpos
      BY <1>1, <2>2 DEF Doubled
    <3>2. p.wpos = cap  BY DEF cap, n
    <3>3. p.data_size = 2 * cap - c  BY <1>2, <1>3, <3>1, <3>2
    <3>4. 2 * cap \in Powers /\ 2 * cap <= FactorMod  BY <3>1, ModFacts
    <3>5. f = ((2 * cap) % FactorMod)  BY <1>4, <3>1
    <3>6. CASE 2 * cap = FactorMod
      <4>1. f = 0  BY <3>5, <3>6, ModFacts
      <4> QED BY <2>2, <3>3, <3>6, <4>1
    <3>7. CASE 2 * cap # FactorMod
      <4>1. 2 * cap < FactorMod  BY <1>3, <2>1, <3>4, <3>7
      <4>2. f = 2 * cap  BY <3>4, <3>5, <4>1, ModFacts
      <4>3. f # 0  BY <3>4, <4>2, ModFacts
      <4> QED BY <2>2, <3>3, <3>4, <4>1, <4>2, <4>3
    <3> QED BY <3>6, <3>7
  <2>3. CASE ~(c < FactorMod)
    <3>1. c >= FactorMod  BY <1>3, <2>1, <2>3
    <3>2. n = 1 /\ p.factor = 0 /\ p.data_size = p.wpos  BY <1>1, <3>1 DEF Doubled, n
    <3>3. f = 0  BY <1>4, <3>2, ModFacts
    <3>4. p.wpos = c  BY <3>2 DEF c, n
    <3> QED BY <2>3, <3>2, <3>3, <3>4
  <2> QED BY <2>2, <2>3
<1>10. CASE f = 0
  <2> DEFINE y == [x EXCEPT !.hung = TRUE]
  <2>1. y = [bufs |-> cs, factor |-> f, raw |-> p.raw, len |-> p.len,
             data_size |-> p.data_size, wpos |-> 0, hung |-> TRUE]
    <3> DEFINE t == TRUE
               u == FALSE
    <3>1. x = [bufs |-> cs, factor |-> f, raw |-> p.raw, len |-> p.len,
               data_size |-> p.data_size, wpos |-> 0, hung |-> u]
      BY <1>4
    <3> HIDE DEF t, u
    <3>2. [x EXCEPT !.hung = t]
            = [bufs |-> cs, factor |-> f, raw |-> p.raw, len |-> p.len,
               data_size |-> p.data_size, wpos |-> 0, hung |-> t]
      BY <3>1
    <3> QED BY <3>2 DEF t
  <2>2. /\ y.bufs = cs /\ y.factor = f /\ y.raw = p.raw /\ y.len = p.len
        /\ y.data_size = p.data_size /\ y.wpos = 0 /\ y.hung = TRUE
    BY <2>1
  <2>3. y \in PacketRec
    <3> HIDE DEF y
    <3> QED BY <1>2, <2>1 DEF PacketRec
  <2> HIDE DEF y
  <2>4. Packed(y)  BY <1>5, <1>7, <2>2 DEF Packed
  <2>5. Doubled(y, c, f)  BY <1>9, <1>10, <2>2 DEF Doubled
  <2>6. y \in WriterOK  BY <1>5, <1>8, <2>2, <2>3, <2>4, <2>5 DEF WriterOK
  <2> QED BY <1>8, <1>10, <2>6 DEF y
<1>11. CASE f # 0
  <2>1. c < FactorMod /\ f \in Powers /\ f < FactorMod /\ p.data_size = f - c  BY <1>9, <1>11
  <2>2. f - c = (f - c) + 0 /\ ~(c >= FactorMod)  BY <1>3, <2>1, ModFacts
  <2>3. Doubled(x, c, f)  BY <1>5, <2>1, <2>2 DEF Doubled
  <2>4. x \in WriterOK  BY <1>6, <1>7, <1>8, <2>3 DEF WriterOK
  <2>5. 0 < f  BY <1>11
  <2> QED BY <1>5, <1>8, <1>11, <2>4, <2>5
<1> QED BY <1>10, <1>11

LEMMA PutOK ==
  ASSUME NEW p \in WriterOK, NEW b \in Byte
  PROVE  put(p, b) \in WriterOK
<1> DEFINE cap == p.bufs[Len(p.bufs)].capacity
           x == IF writebuf(p).capacity = p.wpos THEN wpacket_expand(p) ELSE p
<1>1. writebuf(p).capacity = cap  BY DEF writebuf, Last
<1>2. put(p, b) = CASE p.hung -> p
                    [] ~p.hung /\ writebuf(x).capacity = 0 -> [x EXCEPT !.hung = TRUE]
                    [] OTHER -> WithByte(x, b)
  BY DEF put, WithByte
<1>3. p \in PacketRec /\ Packed(p) /\ Doubled(p, p.bufs[1].capacity, cap) /\ p.hung \in BOOLEAN
  BY DEF WriterOK, PacketRec
<1>4. CASE p.hung  BY <1>2, <1>4
<1>5. CASE ~p.hung /\ cap = p.wpos
  <2>1. x = wpacket_expand(p)  BY <1>1, <1>5
  <2> HIDE DEF x
  <2>2. IF writebuf(x).capacity = 0 THEN [x EXCEPT !.hung = TRUE] \in WriterOK
        ELSE x \in WriterOK /\ ~x.hung /\ x.wpos < x.bufs[Len(x.bufs)].capacity
    BY <1>5, <2>1, GrowOK DEF cap
  <2>3. CASE writebuf(x).capacity = 0  BY <1>2, <1>5, <2>2, <2>3
  <2>4. CASE writebuf(x).capacity # 0
    <3>1. WithByte(x, b) \in WriterOK  BY <2>2, <2>4, StoreOK
    <3> QED BY <1>2, <1>5, <2>4, <3>1
  <2> QED BY <2>3, <2>4
<1>6. CASE ~p.hung /\ cap # p.wpos
  <2>1. x = p  BY <1>1, <1>6
  <2>2. Len(p.bufs) \in 1..Len(p.bufs) /\ cap \in Nat /\ p.wpos \in Nat /\ p.wpos <= cap
    <3>1. p.bufs \in Seq(Buf) /\ Len(p.bufs) >= 1 /\ p.wpos \in Nat  BY <1>3 DEF Packed, PacketRec
    <3>2. Len(p.bufs) \in 1..Len(p.bufs)  BY <3>1
    <3>3. cap \in Nat
      <4>1. p.bufs[Len(p.bufs)] \in Buf  BY <3>1, <3>2
      <4> QED BY <4>1 DEF Buf
    <3>4. p.wpos <= cap  BY <1>3, <3>2 DEF Packed
    <3> QED BY <3>1, <3>2, <3>3, <3>4
  <2>3. p.wpos < cap /\ cap # 0  BY <1>6, <2>2
  <2>4. WithByte(p, b) \in WriterOK  BY <1>6, <2>3, StoreOK
  <2>5. writebuf(x).capacity # 0  BY <1>1, <2>1, <2>3
  <2> HIDE DEF x
  <2> QED BY <1>2, <1>6, <2>1, <2>4, <2>5
<1> QED BY <1>3, <1>4, <1>5, <1>6

IsWrite(f, p, bytes) ==
  f = [k \in 0..Len(bytes) |-> IF k = 0 THEN p ELSE put(f[k - 1], bytes[k])]

\* The packet after k bytes.
WriteStages(c, p, bytes) ==
  /\ c[0] = p /\ \A k \in 1..Len(bytes) : c[k] = put(c[k - 1], bytes[k])
  /\ \A k \in 0..Len(bytes) : c[k] \in WriterOK
  /\ wpacket_write(p, bytes) = c[Len(bytes)]

LEMMA WriteSteps ==
  ASSUME NEW p \in WriterOK, NEW bytes \in Seq(Byte)
  PROVE  \E c : WriteStages(c, p, bytes)
<1> DEFINE n == Len(bytes)
           S == WriterOK
           G == [k \in 1..n |-> [x \in S |-> put(x, bytes[k])]]
           c == CHOOSE f : IsWrite(f, p, bytes)
<1>1. n \in Nat /\ \A k \in 1..n : bytes[k] \in Byte  OBVIOUS
<1>2. \A k \in 1..n, x \in S : put(x, bytes[k]) \in S  BY <1>1, PutOK
<1>3. p \in S  OBVIOUS
<1> HIDE DEF S, n
<1>4. G \in [1..n -> [S -> S]]  BY <1>2
<1>5. PICK f \in [0..n -> S] : Follows(f, p, G, n)  BY <1>1, <1>3, <1>4, RecDefined
<1>6. ASSUME NEW k \in 0..n PROVE f[k] = IF k = 0 THEN p ELSE put(f[k - 1], bytes[k])
  <2>1. CASE k = 0  BY <1>5, <2>1 DEF Follows
  <2>2. CASE k # 0
    <3>1. k \in 1..n /\ f[k - 1] \in S  BY <1>1, <2>2
    <3>2. f[k] = G[k][f[k - 1]]  BY <1>5, <3>1 DEF Follows
    <3> QED BY <2>2, <3>1, <3>2
  <2> QED BY <2>1, <2>2
<1>7. f = [k \in 0..n |-> f[k]]  OBVIOUS
<1>8. IsWrite(f, p, bytes)  BY <1>6, <1>7 DEF IsWrite, n
<1>9. IsWrite(c, p, bytes)  BY <1>8
<1>10. wpacket_write(p, bytes) = c[n]  BY DEF wpacket_write, IsWrite, n
<1> HIDE DEF c
<1>11. \A k \in 0..n : c[k] = IF k = 0 THEN p ELSE put(c[k - 1], bytes[k])  BY <1>9 DEF IsWrite, n
<1>12. c[0] \in S  BY <1>1, <1>3, <1>11
<1>13. \A k \in 1..n : c[k - 1] \in S => c[k] \in S  BY <1>1, <1>2, <1>11
<1>14. \A k \in 0..n : c[k] \in S  BY <1>1, <1>12, <1>13, StaysInside
<1>15. c[0] = p /\ \A k \in 1..n : c[k] = put(c[k - 1], bytes[k])
  <2>1. 0 \in 0..n /\ \A k \in 1..n : k \in 0..n /\ k # 0  BY <1>1
  <2> QED BY <1>11, <2>1
<1>16. WriteStages(c, p, bytes)  BY <1>10, <1>14, <1>15 DEF WriteStages, S, n
<1> QED BY <1>16

LEMMA WriteOK ==
  ASSUME NEW p \in WriterOK, NEW bytes \in Seq(Byte)
  PROVE  wpacket_write(p, bytes) \in WriterOK
<1>1. PICK c : WriteStages(c, p, bytes)  BY WriteSteps
<1>2. Len(bytes) \in 0..Len(bytes)  OBVIOUS
<1> QED BY <1>1, <1>2 DEF WriteStages

\* Bytes of fields.
LEMMA EncodeSeq ==
  ASSUME NEW v \in Nat, NEW n \in Nat
  PROVE  Encode(v, n) \in Seq(Byte) /\ Len(Encode(v, n)) = n
<1>1. \A k \in 1..n : <<v, k>> \in Byte  BY DEF Byte
<1>2. Encode(v, n) \in [1..n -> Byte]  BY <1>1 DEF Encode
<1> QED BY <1>2

LEMMA CreateWriter ==
  ASSUME NEW n \in Sizes, NEW raw \in BOOLEAN
  PROVE  wpacket_create(n, raw) \in WriterOK
<1> DEFINE cap == GetSize_of_pow2(n)
           hdr == IF raw THEN <<>> ELSE Encode(0, LenSize)
           b   == [capacity |-> cap, data |-> hdr]
           bs  == <<b>>
           h   == Len(hdr)
           p   == [bufs |-> bs, factor |-> cap % FactorMod, raw |-> raw, len |-> 0,
                   data_size |-> h, wpos |-> h, hung |-> FALSE]
<1>1. n \in Nat \ {0} /\ n >= LenSize /\ LenSize \in Nat  BY PacketAssumption
<1>2. cap \in Powers /\ n <= cap  BY <1>1, SizeOK
<1> HIDE DEF cap
<1>3. cap \in Nat \ {0}  BY <1>2, ModFacts
<1>4. hdr \in Seq(Byte) /\ h = (IF raw THEN 0 ELSE LenSize)
  <2>1. Encode(0, LenSize) \in Seq(Byte) /\ Len(Encode(0, LenSize)) = LenSize
    BY <1>1, EncodeSeq
  <2>2. CASE raw  BY <2>2
  <2>3. CASE ~raw  BY <2>1, <2>3
  <2> QED BY <2>2, <2>3
<1>5. wpacket_create(n, raw) = p  BY DEF wpacket_create, cap
<1> HIDE DEF hdr
<1>6. b \in Buf /\ b.capacity = cap /\ b.data = hdr  BY <1>3, <1>4 DEF Buf
<1> HIDE DEF b, h
<1>7. h \in Nat /\ h <= cap /\ (~raw => h = LenSize)  BY <1>1, <1>2, <1>3, <1>4
<1>8. bs \in Seq(Buf) /\ Len(bs) = 1 /\ bs[1] = b  BY <1>6
<1>9. (cap % FactorMod) = IF cap < FactorMod THEN cap ELSE 0  BY <1>2, ModFacts
<1> DEFINE f == (cap % FactorMod)
<1>10. f \in Nat  BY <1>3, <1>9
<1> HIDE DEF f, bs
<1>11. /\ p \in PacketRec /\ p.bufs = bs /\ p.factor = f /\ p.raw = raw /\ p.len = 0
       /\ p.data_size = h /\ p.wpos = h /\ p.hung = FALSE
  <2>1. p = [bufs |-> bs, factor |-> f, raw |-> raw, len |-> 0,
             data_size |-> h, wpos |-> h, hung |-> FALSE]
    BY DEF f
  <2> HIDE DEF p
  <2> QED BY <1>7, <1>8, <1>10, <2>1 DEF PacketRec
<1> HIDE DEF p
<1>12. Total(Lens(bs), 1) = h
  <2> DEFINE v == Lens(bs)
             u == [k \in 1..0 |-> 0]
  <2>1. v \in [1..1 -> Nat] /\ v[1] = h  BY <1>6, <1>8, LensType DEF h
  <2>2. u \in [1..0 -> Nat] /\ \A k \in 1..0 : u[k] = 0  OBVIOUS
  <2> HIDE DEF u, v
  <2>3. Total(u, 0) = 0  BY <2>2, TotalZero
  <2>4. v \in [1..(0 + 1) -> Nat] /\ \A k \in 1..0 : v[k] = u[k]  BY <2>1
  <2>5. Total(v, 0 + 1) = Total(u, 0) + v[0 + 1]  BY <2>2, <2>4, TotalMore
  <2> QED BY <1>7, <2>1, <2>3, <2>5 DEF v
<1>13. Packed(p)
  <2>1. ~raw => h = LenSize + 0  BY <1>1, <1>7
  <2>2. Len(bs[1].data) = h /\ bs[1].capacity = cap  BY <1>6, <1>8 DEF h
  <2>3. Len(p.bufs) = 1 /\ p.bufs[1].capacity = cap /\ Len(p.bufs[1].data) = h
        /\ p.wpos = h /\ p.data_size = h /\ p.len = 0 /\ Lens(p.bufs) = Lens(bs)
    BY <1>8, <1>11, <2>2
  <2>4. \A k \in 1..Len(p.bufs) : Len(p.bufs[k].data) <= p.bufs[k].capacity  BY <1>7, <2>3
  <2>5. p.data_size = Total(Lens(p.bufs), Len(p.bufs))  BY <1>12, <2>3
  <2>6. ~p.raw => p.data_size = LenSize + p.len  BY <1>11, <2>1, <2>3
  <2> QED BY <1>2, <2>3, <2>4, <2>5, <2>6 DEF Packed
<1>14. Doubled(p, cap, cap)
  <2>1. FactorMod \in Nat /\ f = IF cap < FactorMod THEN cap ELSE 0  BY <1>9, ModFacts DEF f
  <2>2. h = (cap - cap) + h  BY <1>3, <1>7
  <2>3. cap >= FactorMod <=> ~(cap < FactorMod)  BY <1>3, <2>1
  <2> QED BY <1>2, <1>8, <1>11, <2>1, <2>2, <2>3 DEF Doubled
<1> QED BY <1>5, <1>6, <1>8, <1>11, <1>13, <1>14 DEF WriterOK

\* Buffers that differ from bs in their bytes only.
SameShape(bs) ==
  {cs \in Seq(Buf) : /\ Len(cs) = Len(bs)
                     /\ \A k \in 1..Len(bs) : /\ cs[k].capacity = bs[k].capacity
                                              /\ Len(cs[k].data) = Len(bs[k].data)}

LEMMA OverwriteShape ==
  ASSUME NEW bs, NEW c \in [bufs : SameShape(bs), buf : Nat, pos : Nat], NEW b \in Byte
  PROVE  overwrite(c, b) \in [bufs : SameShape(bs), buf : Nat, pos : Nat]
<1> DEFINE d == IF c.pos >= c.bufs[c.buf].capacity THEN [c EXCEPT !.buf = @ + 1, !.pos = 0] ELSE c
           B == c.bufs
           i == d.buf
           m == d.pos
           data == [B[i].data EXCEPT ![m + 1] = b]
           cs == [B EXCEPT ![i] = [B[i] EXCEPT !.data = data]]
<1>1. /\ c = [bufs |-> c.bufs, buf |-> c.buf, pos |-> c.pos]
      /\ B \in SameShape(bs) /\ c.buf \in Nat /\ c.pos \in Nat
  OBVIOUS
<1>2. d = [bufs |-> B, buf |-> i, pos |-> m] /\ i \in Nat /\ m \in Nat
  <2>1. CASE c.pos >= c.bufs[c.buf].capacity
    <3>1. d = [bufs |-> B, buf |-> c.buf + 1, pos |-> 0]  BY <1>1, <2>1
    <3> HIDE DEF d
    <3> QED BY <1>1, <3>1
  <2>2. CASE ~(c.pos >= c.bufs[c.buf].capacity)
    <3>1. d = c  BY <2>2
    <3> HIDE DEF d
    <3> QED BY <1>1, <3>1
  <2> QED BY <2>1, <2>2
<1>3. overwrite(c, b) = [d EXCEPT !.bufs[i].data[m + 1] = b, !.pos = @ + 1]  BY DEF overwrite
<1> HIDE DEF d, i, m
<1>4. overwrite(c, b) = [bufs |-> cs, buf |-> i, pos |-> m + 1]
  <2>1. d.bufs = B /\ d.buf = i /\ d.pos = m  BY <1>2
  <2> QED BY <1>2, <1>3, <2>1
<1>5. B \in Seq(Buf) /\ Len(B) = Len(bs)  BY <1>1 DEF SameShape
<1>6. CASE i \notin 1..Len(B)
  <2>1. cs = B  BY <1>5, <1>6
  <2> QED BY <1>1, <1>2, <1>4, <2>1
<1>7. CASE i \in 1..Len(B)
  <2>1. B[i] \in Buf  BY <1>5, <1>7
  <2>2. B[i] = [capacity |-> B[i].capacity, data |-> B[i].data] /\ B[i].capacity \in Nat
        /\ B[i].data \in Seq(Byte)
    BY <2>1 DEF Buf
  <2>3. data \in Seq(Byte) /\ Len(data) = Len(B[i].data)
    <3> DEFINE s == B[i].data
               j == m + 1
               t == [s EXCEPT ![j] = b]
    <3>1. s \in Seq(Byte)  BY <2>2
    <3>2. data = t  OBVIOUS
    <3> HIDE DEF s, j, data
    <3>3. t \in Seq(Byte) /\ Len(t) = Len(s)
      <4>1. s \in [1..Len(s) -> Byte] /\ Len(s) \in Nat  BY <3>1
      <4>2. CASE j \in 1..Len(s)
        <5>1. t \in [1..Len(s) -> Byte]  BY <4>1, <4>2
        <5> HIDE DEF t
        <5> QED BY <4>1, <5>1
      <4>3. CASE j \notin 1..Len(s)
        <5>1. t = s  BY <4>1, <4>3
        <5> QED BY <3>1, <5>1
      <4> QED BY <4>2, <4>3
    <3> QED BY <3>2, <3>3 DEF s
  <2> DEFINE e == [B[i] EXCEPT !.data = data]
  <2>4. e = [capacity |-> B[i].capacity, data |-> data]
    <3> HIDE DEF data
    <3> QED BY <2>2
  <2>5. e \in Buf /\ e.capacity = B[i].capacity /\ Len(e.data) = Len(B[i].data)
    <3> HIDE DEF data, e
    <3> QED BY <2>2, <2>3, <2>4 DEF Buf
  <2>6. cs = [B EXCEPT ![i] = e]  OBVIOUS
  <2> HIDE DEF e, cs
  <2>7. cs \in Seq(Buf) /\ Len(cs) = Len(B) /\ cs[i] = e /\ \A k \in 1..Len(B) : k # i => cs[k] = B[k]
    BY <1>5, <1>7, <2>5, <2>6
  <2>8. cs \in SameShape(bs)
    <3>1. \A k \in 1..Len(bs) : B[k].capacity = bs[k].capacity /\ Len(B[k].data) = Len(bs[k].data)
      BY <1>1 DEF SameShape
    <3> QED BY <1>5, <1>7, <2>5, <2>7, <3>1 DEF SameShape
  <2> QED BY <1>2, <1>4, <2>8
<1> QED BY <1>6, <1>7

IsOver(f, c, bytes) ==
  f = [k \in 0..Len(bytes) |-> IF k = 0 THEN c ELSE overwrite(f[k - 1], bytes[k])]

\* The cursor after k bytes.
OverStages(c, s, bytes, S) ==
  /\ c[0] = s /\ \A k \in 1..Len(bytes) : c[k] = overwrite(c[k - 1], bytes[k])
  /\ \A k \in 0..Len(bytes) : c[k] \in S
  /\ overwrite_all(s, bytes) = c[Len(bytes)]

LEMMA OverSteps ==
  ASSUME NEW bs, NEW s \in [bufs : SameShape(bs), buf : Nat, pos : Nat], NEW bytes \in Seq(Byte)
  PROVE  \E c : OverStages(c, s, bytes, [bufs : SameShape(bs), buf : Nat, pos : Nat])
<1> DEFINE n == Len(bytes)
           S == [bufs : SameShape(bs), buf : Nat, pos : Nat]
           G == [k \in 1..n |-> [x \in S |-> overwrite(x, bytes[k])]]
           c == CHOOSE f : IsOver(f, s, bytes)
<1>1. n \in Nat /\ \A k \in 1..n : bytes[k] \in Byte  OBVIOUS
<1>2. \A k \in 1..n, x \in S : overwrite(x, bytes[k]) \in S  BY <1>1, OverwriteShape
<1>3. s \in S  OBVIOUS
<1> HIDE DEF S, n
<1>4. G \in [1..n -> [S -> S]]  BY <1>2
<1>5. PICK f \in [0..n -> S] : Follows(f, s, G, n)  BY <1>1, <1>3, <1>4, RecDefined
<1>6. ASSUME NEW k \in 0..n PROVE f[k] = IF k = 0 THEN s ELSE overwrite(f[k - 1], bytes[k])
  <2>1. CASE k = 0  BY <1>5, <2>1 DEF Follows
  <2>2. CASE k # 0
    <3>1. k \in 1..n /\ f[k - 1] \in S  BY <1>1, <2>2
    <3>2. f[k] = G[k][f[k - 1]]  BY <1>5, <3>1 DEF Follows
    <3> QED BY <2>2, <3>1, <3>2
  <2> QED BY <2>1, <2>2
<1>7. f = [k \in 0..n |-> f[k]]  OBVIOUS
<1>8. IsOver(f, s, bytes)  BY <1>6, <1>7 DEF IsOver, n
<1>9. IsOver(c, s, bytes)  BY <1>8
<1>10. overwrite_all(s, bytes) = c[n]  BY DEF overwrite_all, IsOver, n
<1> HIDE DEF c
<1>11. \A k \in 0..n : c[k] = IF k = 0 THEN s ELSE overwrite(c[k - 1], bytes[k])
  BY <1>9 DEF IsOver, n
<1>12. c[0] \in S  BY <1>1, <1>3, <1>11
<1>13. ASSUME NEW k \in 1..n, c[k - 1] \in S PROVE c[k] \in S
  <2>1. k \in 0..n /\ k # 0  BY <1>1
  <2>2. c[k] = overwrite(c[k - 1], bytes[k])  BY <1>11, <2>1
  <2> DEFINE x == c[k - 1]
  <2>3. x \in S  BY <1>13
  <2> HIDE DEF x
  <2>4. overwrite(x, bytes[k]) \in S  BY <1>2, <2>3
  <2> QED BY <2>2, <2>4 DEF x
<1>14. \A k \in 0..n : c[k] \in S  BY <1>1, <1>12, <1>13, StaysInside
<1>15. c[0] = s /\ \A k \in 1..n : c[k] = overwrite(c[k - 1], bytes[k])
  <2>1. 0 \in 0..n /\ \A k \in 1..n : k \in 0..n /\ k # 0  BY <1>1
  <2> QED BY <1>11, <2>1
<1>16. OverStages(c, s, bytes, S)  BY <1>10, <1>14, <1>15 DEF OverStages, n
<1> QED BY <1>16 DEF S

LEMMA OverwrittenShape ==
  ASSUME NEW bs, NEW s \in [bufs : SameShape(bs), buf : Nat, pos : Nat], NEW bytes \in Seq(Byte)
  PROVE  overwrite_all(s, bytes).bufs \in SameShape(bs)
<1> DEFINE S == [bufs : SameShape(bs), buf : Nat, pos : Nat]
<1>1. PICK c : OverStages(c, s, bytes, S)  BY OverSteps
<1>2. Len(bytes) \in 0..Len(bytes)  OBVIOUS
<1> HIDE DEF S
<1>3. overwrite_all(s, bytes) \in S  BY <1>1, <1>2 DEF OverStages
<1> QED BY <1>3 DEF S

\* Nothing in the invariant depends on the bytes.
LEMMA ShapeOK ==
  ASSUME NEW p \in WriterOK, NEW cs \in SameShape(p.bufs)
  PROVE  [p EXCEPT !.bufs = cs] \in WriterOK
<1> DEFINE q == [p EXCEPT !.bufs = cs]
           n == Len(p.bufs)
<1>1. p \in PacketRec /\ Packed(p) /\ Doubled(p, p.bufs[1].capacity, p.bufs[n].capacity)
  BY DEF WriterOK
<1>2. cs \in Seq(Buf) /\ Len(cs) = n
      /\ \A k \in 1..n : cs[k].capacity = p.bufs[k].capacity /\ Len(cs[k].data) = Len(p.bufs[k].data)
  BY DEF SameShape
<1>3. n \in Nat /\ n >= 1 /\ 1 \in 1..n /\ n \in 1..n  BY <1>1 DEF PacketRec, Packed
<1>4. /\ q \in PacketRec /\ q.bufs = cs /\ q.factor = p.factor /\ q.raw = p.raw /\ q.len = p.len
      /\ q.data_size = p.data_size /\ q.wpos = p.wpos /\ q.hung = p.hung
  BY <1>1, <1>2 DEF PacketRec
<1> HIDE DEF q
<1>5. Lens(cs) = Lens(p.bufs)  BY <1>2 DEF Lens
<1> HIDE DEF n
<1>6. Packed(q)
  <2>1. Len(p.bufs) = n  BY DEF n
  <2> QED BY <1>1, <1>2, <1>3, <1>4, <1>5, <2>1 DEF Packed
<1>7. Doubled(q, cs[1].capacity, cs[n].capacity)
  <2>1. Len(p.bufs) = n  BY DEF n
  <2> QED BY <1>1, <1>2, <1>3, <1>4, <2>1 DEF Doubled
<1> QED BY <1>2, <1>4, <1>6, <1>7 DEF WriterOK, q

FieldRec == [kind : {"number", "binary"}, size : Nat, value : Nat, wp : [buf : Nat, wpos : Nat]]

WriterInv == w \in WriterOK /\ fields \in Seq(FieldRec)

LEMMA WriterInvSound == WriterInv => WriterSound
<1> SUFFICES ASSUME WriterInv PROVE WriterSound  OBVIOUS
<1> DEFINE n == Len(w.bufs)
           c == w.bufs[1].capacity
           cap == w.bufs[n].capacity
<1>1. w \in PacketRec /\ Packed(w) /\ Doubled(w, c, cap)  BY DEF WriterInv, WriterOK
<1>2. w.bufs \in Seq(Buf) /\ n \in Nat /\ n >= 1 /\ w.hung \in BOOLEAN /\ DOMAIN w.bufs = 1..n
  BY <1>1 DEF PacketRec, Packed
<1>3. LengthsAgree  BY <1>1, <1>2 DEF LengthsAgree, Packed, Lens
<1>4. Last(w.bufs).capacity = cap  BY DEF Last
<1>5. c \in Powers /\ c \in Nat \ {0} /\ FactorMod \in Nat  BY <1>1, ModFacts DEF Packed
<1>6. ~w.hung => cap # 0
  <2>1. CASE c < FactorMod
    <3>1. ~w.hung => cap \in Powers  BY <1>1, <2>1 DEF Doubled
    <3> QED BY <3>1, ModFacts
  <2>2. CASE ~(c < FactorMod)
    <3>1. ~w.hung => n = 1  BY <1>1, <1>5, <2>2 DEF Doubled
    <3> QED BY <1>5, <3>1
  <2> QED BY <2>1, <2>2
<1>7. w.hung => /\ cap = 0 /\ w.factor = 0
                /\ w.data_size = IF c < FactorMod THEN FactorMod - c ELSE c
  BY <1>1 DEF Doubled
<1>8. HangsWhenFull
  <2> DEFINE full == /\ w.factor = 0 /\ Last(w.bufs).capacity = 0
                     /\ w.data_size = IF c < FactorMod THEN FactorMod - c ELSE c
  <2>1. w.hung => full  BY <1>4, <1>7
  <2>2. full => w.hung  BY <1>4, <1>6
  <2> QED BY <1>2, <2>1, <2>2, Zenon DEF HangsWhenFull
<1> QED BY <1>3, <1>8 DEF WriterSound

LEMMA WriterStep == WriterInv /\ [PacketNext]_pvars => WriterInv'
<1> SUFFICES ASSUME WriterInv, [PacketNext]_pvars PROVE WriterInv'  OBVIOUS
<1>1. w \in WriterOK /\ w \in PacketRec /\ fields \in Seq(FieldRec)  BY DEF WriterInv, WriterOK
<1>2. Widths \subseteq Nat /\ Lengths \subseteq Nat /\ LenSize \in Nat  BY PacketAssumption
<1>3. wpacket_get_writepos \in [buf : Nat, wpos : Nat]
  BY <1>1 DEF wpacket_get_writepos, PacketRec
<1>4. Placeholder \in Nat /\ Rewritten \in Nat /\ Text \in Nat  BY DEF Placeholder, Rewritten, Text
<1>5. ASSUME NEW n \in Widths, wpacket_write_number(n) PROVE WriterInv'
  <2>1. Encode(Placeholder, n) \in Seq(Byte)  BY <1>2, <1>4, EncodeSeq
  <2>2. wpacket_write(w, Encode(Placeholder, n)) \in WriterOK  BY <1>1, <2>1, WriteOK
  <2> DEFINE f == [kind |-> "number", size |-> n, value |-> Placeholder,
                   wp |-> wpacket_get_writepos]
  <2>3. f \in FieldRec
    <3> DEFINE pos == wpacket_get_writepos
               v   == Placeholder
    <3>1. pos \in [buf : Nat, wpos : Nat] /\ v \in Nat /\ n \in Nat  BY <1>2, <1>3, <1>4
    <3> DEFINE kind == "number"
    <3>2. f = [kind |-> kind, size |-> n, value |-> v, wp |-> pos] /\ kind \in {"number", "binary"}
      OBVIOUS
    <3> HIDE DEF pos, v, f, kind
    <3> QED BY <3>1, <3>2 DEF FieldRec
  <2>4. w' = wpacket_write(w, Encode(Placeholder, n)) /\ fields' = Append(fields, f)
    BY <1>5 DEF wpacket_write_number
  <2> HIDE DEF f
  <2> QED BY <1>1, <2>2, <2>3, <2>4 DEF WriterInv
<1>6. ASSUME NEW n \in Lengths, wpacket_write_binary(n) PROVE WriterInv'
  <2> DEFINE lead == IF w.raw THEN <<>> ELSE Encode(n, LenSize)
             bytes == lead \o Encode(Text, n)
             f == [kind |-> "binary", size |-> n, value |-> Text, wp |-> wpacket_get_writepos]
  <2>1. Encode(Text, n) \in Seq(Byte) /\ Encode(n, LenSize) \in Seq(Byte)
    BY <1>2, <1>4, EncodeSeq
  <2>2. lead \in Seq(Byte)
    <3>1. CASE w.raw  BY <3>1
    <3>2. CASE ~w.raw  BY <2>1, <3>2
    <3> QED BY <3>1, <3>2
  <2>3. bytes \in Seq(Byte)
    <3> HIDE DEF lead
    <3> QED BY <2>1, <2>2
  <2>4. w' = wpacket_write(w, bytes) /\ fields' = Append(fields, f)
    BY <1>6 DEF wpacket_write_binary
  <2>5. f \in FieldRec
    <3> DEFINE pos == wpacket_get_writepos
               v   == Text
    <3>1. pos \in [buf : Nat, wpos : Nat] /\ v \in Nat /\ n \in Nat  BY <1>2, <1>3, <1>4
    <3> DEFINE kind == "binary"
    <3>2. f = [kind |-> kind, size |-> n, value |-> v, wp |-> pos] /\ kind \in {"number", "binary"}
      OBVIOUS
    <3> HIDE DEF pos, v, f, kind
    <3> QED BY <3>1, <3>2 DEF FieldRec
  <2> HIDE DEF bytes, f
  <2>6. wpacket_write(w, bytes) \in WriterOK  BY <1>1, <2>3, WriteOK
  <2> QED BY <1>1, <2>4, <2>5, <2>6 DEF WriterInv
<1>7. ASSUME NEW k \in DOMAIN fields, wpacket_rewrite(k) PROVE WriterInv'
  <2> DEFINE f == fields[k]
             start == [bufs |-> w.bufs, buf |-> f.wp.buf, pos |-> f.wp.wpos]
             bytes == Encode(Rewritten, f.size)
             cs == overwrite_all(start, bytes).bufs
  <2>1. f \in FieldRec  BY <1>1
  <2>2. f.size \in Nat /\ f.wp.buf \in Nat /\ f.wp.wpos \in Nat  BY <2>1 DEF FieldRec
  <2>3. w.bufs \in SameShape(w.bufs)  BY <1>1 DEF SameShape, PacketRec
  <2>4. start \in [bufs : SameShape(w.bufs), buf : Nat, pos : Nat]  BY <2>2, <2>3
  <2>5. bytes \in Seq(Byte)  BY <1>4, <2>2, EncodeSeq
  <2>6. w' = [w EXCEPT !.bufs = cs] /\ fields' = [fields EXCEPT ![k].value = Rewritten]
    BY <1>7 DEF wpacket_rewrite
  <2>7. cs \in SameShape(w.bufs)
    <3> HIDE DEF start, bytes
    <3> QED BY <2>4, <2>5, OverwrittenShape
  <2> HIDE DEF cs
  <2>8. w' \in WriterOK  BY <1>1, <2>6, <2>7, ShapeOK
  <2>9. fields' \in Seq(FieldRec)
    <3> DEFINE g == [f EXCEPT !.value = Rewritten]
    <3>1. g \in FieldRec
      <4> HIDE DEF f
      <4> QED BY <1>4, <2>1 DEF FieldRec
    <3>2. fields' = [fields EXCEPT ![k] = g]  BY <2>6
    <3> HIDE DEF g
    <3> QED BY <1>1, <3>1, <3>2
  <2> QED BY <2>8, <2>9 DEF WriterInv
<1>8. CASE UNCHANGED <<w, fields>>  BY <1>1, <1>8 DEF WriterInv
<1>9. rpacket_create_by_wpacket \/ Read \/ UNCHANGED pvars => UNCHANGED <<w, fields>>
  BY DEF rpacket_create_by_wpacket, Read, pvars
<1> QED BY <1>5, <1>6, <1>7, <1>8, <1>9 DEF PacketNext

LEMMA WriterInit == PacketInit => WriterInv
<1> SUFFICES ASSUME PacketInit PROVE WriterInv  OBVIOUS
<1>1. w \in WriterOK  BY CreateWriter DEF PacketInit
<1>2. fields \in Seq(FieldRec)  BY DEF PacketInit
<1> QED BY <1>1, <1>2 DEF WriterInv

\* A writer's length field, data_size and buffers agree, and it hangs exactly when
\* the doubled factor has wrapped around and the buffers are full: for every width
\* of factor, every header and every requested size that holds the header.
THEOREM WriterCorrect == PacketSpec => []WriterSound
BY WriterInit, WriterStep, WriterInvSound, PTL DEF PacketSpec

-----------------------------------------------------------------------------
(* The reader.  The strengthening lays the buffers out as one string T of  *)
(* bytes: off says where in T a buffer starts and at where a field starts. *)
(* Writes append to T, rewrites change the bytes of one field of it, and   *)
(* the reader stands in a buffer at the place that corresponds to the      *)
(* bytes it has left.                                                      *)

\* The bytes of the buffers, one after the other.
Laid(bs, off, T) ==
  /\ off \in [0..Len(bs) -> Nat] /\ off[0] = 0
  /\ \A b \in 1..Len(bs) : off[b] = off[b - 1] + Len(bs[b].data)
  /\ T \in Seq(Byte) /\ Len(T) = off[Len(bs)]
  /\ \A b \in 1..Len(bs) : \A j \in 1..Len(bs[b].data) : T[off[b - 1] + j] = bs[b].data[j]

\* A buffer is only left when it is full, and only made for a byte to put in.
Filled(bs) ==
  /\ bs \in Seq(Buf) /\ Len(bs) >= 1 /\ bs[1].capacity > LenSize
  /\ \A b \in 1..Len(bs) : Len(bs[b].data) <= bs[b].capacity
  /\ \A b \in 1..Len(bs) : b < Len(bs) => Len(bs[b].data) = bs[b].capacity
  /\ \A b \in 1..Len(bs) : b > 1 => Len(bs[b].data) > 0

Ahead(raw) == IF raw THEN 0 ELSE LenSize

\* A field as it is written.
Wire(f, raw) ==
  (IF raw \/ f.kind = "number" THEN <<>> ELSE Encode(f.size, LenSize)) \o Contents(f)

\* The fields follow the length field and each other.
Spread(fs, raw, at, T) ==
  /\ at \in [1..(Len(fs) + 1) -> Nat] /\ at[1] = Ahead(raw) /\ at[Len(fs) + 1] = Len(T)
  /\ \A k \in 1..Len(fs) : at[k + 1] = at[k] + Len(Wire(fs[k], raw))
  /\ \A k \in 1..Len(fs) : \A j \in 1..Len(Wire(fs[k], raw)) : T[at[k] + j] = Wire(fs[k], raw)[j]

\* A field's write_pos is where it starts, be it the end of a full buffer.
Marked(fs, bs, off, at) ==
  \A k \in 1..Len(fs) :
    /\ fs[k].wp.buf \in 1..Len(bs) /\ fs[k].wp.wpos <= bs[fs[k].wp.buf].capacity
    /\ off[fs[k].wp.buf - 1] + fs[k].wp.wpos = at[k]

\* A reader with bytes left is in front of the next one.
Standing(x, bs, raw, off) ==
  x.data_remain > 0 =>
    /\ x.readbuf \in 1..Len(bs) /\ x.rpos < Len(bs[x.readbuf].data)
    /\ off[x.readbuf - 1] + x.rpos = (Ahead(raw) + x.len) - x.data_remain

\* The reader ends where the fields do that were written before it was made, and
\* has read to the end of a field.
Between(x, d, raw, at) ==
  /\ d <= x.fields
  /\ Ahead(raw) + x.len = at[x.fields + 1]
  /\ raw => (d < x.fields => d = 0 /\ x.data_remain = x.len)
  /\ ~raw => (Ahead(raw) + x.len) - x.data_remain = at[d + 1]

StreamOK(off, T, at) ==
  /\ Laid(w.bufs, off, T) /\ Filled(w.bufs)
  /\ w.wpos = Len(w.bufs[Len(w.bufs)].data) /\ w.data_size = Len(T)
  /\ Spread(fields, w.raw, at, T) /\ Marked(fields, w.bufs, off, at)
  /\ r # NoReader => /\ r.fields <= Len(fields)
                     /\ Standing(r, w.bufs, w.raw, off) /\ Between(r, done, w.raw, at)

ReaderRec ==
  [readbuf : Nat, rpos : Nat, len : Nat, data_remain : Int, binbuf : Nat, binbufpos : Nat,
   fields : Nat]

\* What was copied and what is left are no more than there was.
CopiesFit(x) ==
  /\ x \in ReaderRec /\ x.data_remain >= 0 /\ x.binbufpos + x.data_remain <= x.len
  /\ x.binbuf = x.len \/ (x.binbuf = 0 /\ x.binbufpos = 0)

ReaderInv ==
  /\ done \in Nat /\ (r = NoReader => done = 0)
  /\ r # NoReader => CopiesFit(r)
  /\ ~w.hung => \E off, T, at : StreamOK(off, T, at)

\* A function that never steps down never goes down.
LEMMA Rising ==
  ASSUME NEW m \in Nat, NEW f \in [0..m -> Nat], \A k \in 1..m : f[k - 1] <= f[k],
         NEW i \in 0..m, NEW j \in i..m
  PROVE  f[i] <= f[j]
<1> DEFINE Bad == {k \in i..m : ~(f[i] <= f[k])}
<1>1. ASSUME Bad # {} PROVE FALSE
  <2>1. Bad \in SUBSET Nat  OBVIOUS
  <2>2. PICK k \in Bad : \A y \in Bad : k <= y  BY <1>1, <2>1, LeastElement
  <2>3. k \in i..m /\ ~(f[i] <= f[k])  BY <2>2
  <2>4. k # i  BY <2>3
  <2>5. k - 1 \in i..m /\ k \in 1..m /\ ~(k <= k - 1) /\ k - 1 \in 0..m /\ k \in 0..m
    BY <2>3, <2>4
  <2>6. f[i] <= f[k - 1]  BY <2>2, <2>5
  <2>7. f[k - 1] <= f[k] /\ f[k - 1] \in Nat /\ f[k] \in Nat /\ f[i] \in Nat  BY <2>5
  <2> QED BY <2>3, <2>6, <2>7
<1> QED BY <1>1

LEMMA LaidFacts ==
  ASSUME NEW bs \in Seq(Buf), NEW off, NEW T, Laid(bs, off, T)
  PROVE  /\ Len(bs) \in Nat /\ T \in Seq(Byte) /\ Len(T) \in Nat /\ Len(T) = off[Len(bs)]
         /\ \A b \in 1..Len(bs) : /\ bs[b].data \in Seq(Byte) /\ Len(bs[b].data) \in Nat
                                  /\ bs[b].capacity \in Nat /\ off[b - 1] \in Nat
                                  /\ off[b] = off[b - 1] + Len(bs[b].data)
                                  /\ off[b] \in Nat /\ off[b] <= Len(T)
         /\ \A i \in 0..Len(bs) : \A j \in i..Len(bs) : off[i] \in Nat /\ off[i] <= off[j]
<1> DEFINE n == Len(bs)
<1>1. /\ off \in [0..n -> Nat] /\ T \in Seq(Byte) /\ Len(T) = off[n]
      /\ \A b \in 1..n : off[b] = off[b - 1] + Len(bs[b].data)
  BY DEF Laid
<1>2. n \in Nat /\ \A b \in 1..n : bs[b] \in Buf  OBVIOUS
<1>3. \A b \in 1..n : bs[b].data \in Seq(Byte) /\ Len(bs[b].data) \in Nat /\ bs[b].capacity \in Nat
  BY <1>2 DEF Buf
<1> HIDE DEF n
<1>4. ASSUME NEW b \in 1..n PROVE b - 1 \in 0..n /\ b \in 0..n /\ n \in b..n /\ n \in 0..n
  BY <1>2
<1>5. \A b \in 1..n : off[b - 1] \in Nat /\ off[b] \in Nat  BY <1>1, <1>4
<1>6. ASSUME NEW b \in 1..n PROVE off[b - 1] <= off[b]
  <2> DEFINE x == off[b - 1]
             y == off[b]
             z == Len(bs[b].data)
  <2>1. x \in Nat /\ z \in Nat /\ y = x + z  BY <1>1, <1>3, <1>5
  <2> HIDE DEF x, y, z
  <2>2. x <= y  BY <2>1
  <2> QED BY <2>2 DEF x, y
<1>7. \A i \in 0..n : \A j \in i..n : off[i] <= off[j]  BY <1>1, <1>2, <1>6, Rising
<1>8. \A b \in 1..n : off[b] <= Len(T)  BY <1>1, <1>4, <1>7
<1>9. Len(T) \in Nat  BY <1>1
<1> QED BY <1>1, <1>2, <1>3, <1>5, <1>7, <1>8, <1>9 DEF n

\* Buffer i, the last or a new one, takes one byte more.
OneMore(bs, cs, i, len, b) ==
  /\ Len(cs) = i /\ (\A k \in 1..Len(bs) : k # i => cs[k] = bs[k])
  /\ \/ i = Len(bs) /\ len = Len(bs[i].data) /\ \A j \in 1..len : cs[i].data[j] = bs[i].data[j]
     \/ i = Len(bs) + 1 /\ len = 0
  /\ Len(cs[i].data) = len + 1 /\ cs[i].data[len + 1] = b

MoreOff(off, i, T) == [k \in 0..i |-> IF k = i THEN Len(T) + 1 ELSE off[k]]

LEMMA LaidMore ==
  ASSUME NEW bs \in Seq(Buf), NEW off, NEW T, Laid(bs, off, T), NEW cs \in Seq(Buf),
         NEW i \in 1..(Len(bs) + 1), NEW len \in Nat, NEW b \in Byte, OneMore(bs, cs, i, len, b)
  PROVE  Laid(cs, MoreOff(off, i, T), Append(T, b))
<1> DEFINE n == Len(bs)
           t == Append(T, b)
           m == Len(T)
           o == MoreOff(off, i, T)
<1>1. /\ n \in Nat /\ T \in Seq(Byte) /\ m \in Nat /\ m = off[n]
      /\ \A k \in 1..n : /\ Len(bs[k].data) \in Nat /\ off[k - 1] \in Nat /\ off[k] \in Nat
                         /\ off[k] = off[k - 1] + Len(bs[k].data) /\ off[k] <= m
  BY LaidFacts
<1>2. \A k \in 0..n : off[k] \in Nat  BY DEF Laid
<1>3. off[0] = 0 /\ \A k \in 1..n : \A j \in 1..Len(bs[k].data) : T[off[k - 1] + j] = bs[k].data[j]
  BY DEF Laid
<1>4. t \in Seq(Byte) /\ Len(t) = m + 1 /\ t[m + 1] = b /\ \A j \in 1..m : t[j] = T[j]
  BY <1>1
<1>5. i = n \/ i = n + 1  BY DEF OneMore
<1>6. Len(cs) = i /\ \A k \in 1..n : k # i => cs[k] = bs[k]  BY DEF OneMore
<1>7. Len(cs[i].data) = len + 1 /\ cs[i].data[len + 1] = b  BY DEF OneMore
<1>8. i = n => len = Len(bs[n].data) /\ \A j \in 1..len : cs[n].data[j] = bs[n].data[j]
  BY <1>1 DEF OneMore
<1>9. i = n + 1 => len = 0  BY <1>1 DEF OneMore
<1>10. \A k \in 0..i : o[k] = IF k = i THEN m + 1 ELSE off[k]  BY DEF MoreOff
<1>11. o = [k \in 0..i |-> o[k]]  BY DEF MoreOff
<1> HIDE DEF o, t, m, n
<1>12. off[i - 1] + len = m /\ off[i - 1] \in Nat
  <2>1. CASE i = n
    <3>1. n \in 1..n  BY <2>1
    <3>2. off[n] = off[n - 1] + Len(bs[n].data)  BY <1>1, <3>1
    <3> QED BY <1>1, <1>8, <2>1, <3>1, <3>2
  <2>2. CASE i = n + 1
    <3>1. i - 1 = n /\ len = 0  BY <1>1, <1>9, <2>2
    <3> QED BY <1>1, <3>1
  <2> QED BY <1>5, <2>1, <2>2
<1>13. ASSUME NEW k \in 0..i PROVE o[k] \in Nat
  <2>1. k = i \/ k \in 0..n  BY <1>1, <1>5
  <2>2. CASE k = i  BY <1>1, <1>10, <2>2
  <2>3. CASE k # i /\ k \in 0..n  BY <1>2, <1>10, <2>3
  <2> QED BY <2>1, <2>2, <2>3
<1>14. o \in [0..i -> Nat]  BY <1>11, <1>13
<1>15. o[0] = 0
  <2>1. 0 \in 0..i /\ 0 # i  OBVIOUS
  <2> QED BY <1>3, <1>10, <2>1
<1>16. o[i] = m + 1 /\ o[i - 1] = off[i - 1]
  <2>1. i \in 0..i /\ i - 1 \in 0..i /\ i - 1 # i  OBVIOUS
  <2> QED BY <1>10, <2>1
<1>17. ASSUME NEW k \in 1..i, k # i
       PROVE  k \in 1..n /\ o[k] = off[k] /\ o[k - 1] = off[k - 1] /\ cs[k] = bs[k]
  <2>1. k \in 1..n /\ k \in 0..i /\ k - 1 \in 0..i /\ k - 1 # i  BY <1>1, <1>5, <1>17
  <2> QED BY <1>6, <1>10, <1>17, <2>1
<1>18. ASSUME NEW k \in 1..i PROVE o[k] = o[k - 1] + Len(cs[k].data)
  <2>1. CASE k = i
    <3>1. m + 1 = off[i - 1] + (len + 1)  BY <1>12
    <3> QED BY <1>7, <1>16, <2>1, <3>1
  <2>2. CASE k # i  BY <1>1, <1>17, <2>2
  <2> QED BY <2>1, <2>2
<1>19. ASSUME NEW k \in 1..i, NEW j \in 1..Len(cs[k].data)
       PROVE  t[o[k - 1] + j] = cs[k].data[j]
  <2>1. CASE k = i /\ j = len + 1
    <3> DEFINE a == off[i - 1]
    <3>0. a \in Nat /\ a + len = m  BY <1>12
    <3> HIDE DEF a
    <3>1. a + (len + 1) = m + 1  BY <3>0
    <3> USE DEF a
    <3> QED BY <1>4, <1>7, <1>16, <2>1, <3>1
  <2>2. CASE k = i /\ j # len + 1
    <3>1. j \in 1..len  BY <1>7, <2>2
    <3>2. i = n
      <4>1. CASE i = n + 1  BY <1>9, <3>1, <4>1
      <4> QED BY <1>5, <4>1
    <3>3. off[n - 1] + j \in 1..m  BY <1>12, <3>1, <3>2
    <3>4. n \in 1..n /\ j \in 1..Len(bs[n].data)  BY <1>8, <3>1, <3>2
    <3>5. T[off[n - 1] + j] = bs[n].data[j]  BY <1>3, <3>4
    <3> QED BY <1>4, <1>8, <1>16, <2>2, <3>1, <3>2, <3>3, <3>5
  <2>3. CASE k # i
    <3>1. k \in 1..n /\ o[k - 1] = off[k - 1] /\ cs[k] = bs[k]  BY <1>17, <2>3
    <3>2. T[off[k - 1] + j] = bs[k].data[j]  BY <1>3, <3>1
    <3>3. off[k - 1] + j \in 1..m
      <4>1. /\ off[k - 1] \in Nat /\ Len(bs[k].data) \in Nat /\ j \in 1..Len(bs[k].data)
            /\ off[k - 1] + Len(bs[k].data) <= m
        BY <1>1, <3>1
      <4> DEFINE a == off[k - 1]
                 d == Len(bs[k].data)
      <4> HIDE DEF a, d
      <4>2. a \in Nat /\ d \in Nat /\ j \in 1..d /\ a + d <= m  BY <4>1 DEF a, d
      <4>3. a + j \in 1..m  BY <1>1, <4>2
      <4> QED BY <4>3 DEF a
    <3> QED BY <1>4, <3>1, <3>2, <3>3
  <2> QED BY <2>1, <2>2, <2>3
<1> QED BY <1>4, <1>6, <1>14, <1>15, <1>16, <1>18, <1>19 DEF Laid, o, t

Chain(p, off, T) ==
  /\ Laid(p.bufs, off, T) /\ Filled(p.bufs)
  /\ p.wpos = Len(p.bufs[Len(p.bufs)].data) /\ p.data_size = Len(T)

\* The buffers stay where they are and keep what they hold.
Continues(bs, off, cs, off2) ==
  /\ Len(cs) >= Len(bs)
  /\ \A b \in 1..Len(bs) : /\ off2[b - 1] = off[b - 1] /\ cs[b].capacity = bs[b].capacity
                           /\ Len(cs[b].data) >= Len(bs[b].data)

LEMMA StoredByte ==
  ASSUME NEW x \in WriterOK, NEW b \in Byte
  PROVE  /\ WithByte(x, b).wpos = x.wpos + 1 /\ WithByte(x, b).data_size = x.data_size + 1
         /\ WithByte(x, b).raw = x.raw /\ Len(WithByte(x, b).bufs) = Len(x.bufs)
         /\ \A k \in 1..Len(x.bufs) : k # Len(x.bufs) => WithByte(x, b).bufs[k] = x.bufs[k]
         /\ WithByte(x, b).bufs[Len(x.bufs)]
              = [capacity |-> x.bufs[Len(x.bufs)].capacity,
                 data |-> Append(x.bufs[Len(x.bufs)].data, b)]
<1> DEFINE n  == Len(x.bufs)
           bs == x.bufs
           old == bs[n]
           new == [capacity |-> old.capacity, data |-> Append(old.data, b)]
           cs == [bs EXCEPT ![n] = new]
           ln == IF x.raw THEN x.len ELSE x.len + 1
<1>1. x \in PacketRec /\ bs \in Seq(Buf) /\ n \in 1..n
  BY DEF WriterOK, Packed, PacketRec
<1>2. old \in Buf  BY <1>1
<1>3. x = [bufs |-> x.bufs, factor |-> x.factor, raw |-> x.raw, len |-> x.len,
           data_size |-> x.data_size, wpos |-> x.wpos, hung |-> x.hung]
  BY <1>1 DEF PacketRec
<1>4. [old EXCEPT !.data = Append(@, b)] = new
  <2>1. old = [capacity |-> old.capacity, data |-> old.data]  BY <1>2 DEF Buf
  <2> HIDE DEF old
  <2> QED BY <2>1
<1>5. [x.bufs EXCEPT ![n] = [old EXCEPT !.data = Append(@, b)]] = cs  BY <1>4
<1>6. WithByte(x, b) = [x EXCEPT !.bufs = cs, !.wpos = x.wpos + 1, !.len = ln,
                                !.data_size = x.data_size + 1]
  BY <1>3, <1>5 DEF WithByte
<1> HIDE DEF new
<1>7. Len(cs) = n /\ cs[n] = new /\ \A k \in 1..n : k # n => cs[k] = bs[k]  BY <1>1
<1> HIDE DEF cs, ln
<1>8. /\ WithByte(x, b).bufs = cs /\ WithByte(x, b).wpos = x.wpos + 1
      /\ WithByte(x, b).data_size = x.data_size + 1 /\ WithByte(x, b).raw = x.raw
  BY <1>3, <1>6
<1> QED BY <1>7, <1>8 DEF new

\* What put does: it puts a byte into the last buffer, or into a new one when that
\* is full, or hangs.
PutAt(p, q, i, len, b) ==
  /\ OneMore(p.bufs, q.bufs, i, len, b)
  /\ q.wpos = len + 1 /\ q.data_size = p.data_size + 1 /\ q.raw = p.raw
  /\ i = Len(p.bufs) => q.bufs[i].capacity = p.bufs[i].capacity
  /\ i = Len(p.bufs) + 1 => p.wpos = p.bufs[Len(p.bufs)].capacity

LEMMA PutCases ==
  ASSUME NEW p \in WriterOK, NEW b \in Byte, ~put(p, b).hung
  PROVE  ~p.hung /\ \E i \in 1..(Len(p.bufs) + 1), len \in Nat : PutAt(p, put(p, b), i, len, b)
<1> DEFINE n == Len(p.bufs)
           cap == p.bufs[n].capacity
           x == IF writebuf(p).capacity = p.wpos THEN wpacket_expand(p) ELSE p
           q == put(p, b)
<1>1. writebuf(p).capacity = cap  BY DEF writebuf, Last
<1>2. q = CASE p.hung -> p
            [] ~p.hung /\ writebuf(x).capacity = 0 -> [x EXCEPT !.hung = TRUE]
            [] OTHER -> WithByte(x, b)
  BY DEF put, WithByte
<1>3. p \in PacketRec /\ Packed(p) /\ p.hung \in BOOLEAN /\ p.bufs \in Seq(Buf) /\ n \in Nat /\ n >= 1
  BY DEF WriterOK, PacketRec, Packed
<1>4. ~p.hung  BY <1>2
<1>5. n \in 1..n /\ n \in 1..(n + 1) /\ n + 1 \in 1..(n + 1) /\ n # n + 1  BY <1>3
<1>6. p.bufs[n].data \in Seq(Byte) /\ Len(p.bufs[n].data) = p.wpos /\ p.wpos \in Nat
  <2>1. p.bufs[n] \in Buf  BY <1>3, <1>5
  <2> QED BY <1>3, <2>1 DEF Buf, Packed, PacketRec
<1>7. CASE cap # p.wpos
  <2>1. x = p  BY <1>1, <1>7
  <2>2. cap # 0
    <3>1. p.bufs[n] \in Buf /\ Len(p.bufs[n].data) <= cap  BY <1>3, <1>5 DEF Packed
    <3> QED BY <1>6, <1>7, <3>1 DEF Buf
  <2>3. q = WithByte(p, b)
    <3> HIDE DEF x, q, cap
    <3> QED BY <1>1, <1>2, <1>4, <2>1, <2>2
  <2> HIDE DEF q, x
  <2>4. /\ q.wpos = p.wpos + 1 /\ q.data_size = p.data_size + 1 /\ q.raw = p.raw
        /\ Len(q.bufs) = n /\ (\A k \in 1..n : k # n => q.bufs[k] = p.bufs[k])
        /\ q.bufs[n] = [capacity |-> cap, data |-> Append(p.bufs[n].data, b)]
    BY <2>3, StoredByte
  <2>5. /\ q.bufs[n].capacity = cap /\ Len(q.bufs[n].data) = p.wpos + 1
        /\ q.bufs[n].data[p.wpos + 1] = b
        /\ \A j \in 1..p.wpos : q.bufs[n].data[j] = p.bufs[n].data[j]
    BY <1>6, <2>4
  <2>6. OneMore(p.bufs, q.bufs, n, p.wpos, b)  BY <1>6, <2>4, <2>5 DEF OneMore
  <2>7. PutAt(p, q, n, p.wpos, b)
    <3> HIDE DEF n
    <3>1. n = Len(p.bufs)  BY DEF n
    <3> QED BY <1>3, <2>4, <2>5, <2>6, <3>1 DEF PutAt, cap
  <2> QED BY <1>4, <1>5, <1>6, <2>7 DEF q
<1>8. CASE cap = p.wpos
  <2>1. x = wpacket_expand(p)  BY <1>1, <1>8
  <2> HIDE DEF x
  <2>2. IF writebuf(x).capacity = 0 THEN [x EXCEPT !.hung = TRUE] \in WriterOK
        ELSE x \in WriterOK /\ ~x.hung /\ x.wpos < x.bufs[Len(x.bufs)].capacity
    BY <1>4, <1>8, <2>1, GrowOK DEF cap
  <2>3. PICK f \in Nat, cs \in Seq(Buf) :
          /\ x = [bufs |-> cs, factor |-> f, raw |-> p.raw, len |-> p.len,
                  data_size |-> p.data_size, wpos |-> 0, hung |-> FALSE]
          /\ Len(cs) = n + 1 /\ (\A k \in 1..n : cs[k] = p.bufs[k]) /\ cs[n + 1].data = <<>>
    BY <1>4, <1>8, <2>1, Expanded
  <2>4. writebuf(x).capacity # 0
    <3>1. CASE writebuf(x).capacity = 0
      <4>1. q = [x EXCEPT !.hung = TRUE]  BY <1>2, <1>4, <3>1
      <4>2. q.hung = TRUE  BY <2>3, <4>1
      <4> QED BY <4>2
    <3> QED BY <3>1
  <2>5. q = WithByte(x, b)  BY <1>2, <1>4, <2>4
  <2>6. x \in WriterOK /\ x.wpos = 0 /\ x.bufs = cs /\ x.data_size = p.data_size /\ x.raw = p.raw
    BY <2>2, <2>3, <2>4
  <2> HIDE DEF q, n
  <2>7. /\ q.wpos = x.wpos + 1 /\ q.data_size = x.data_size + 1 /\ q.raw = x.raw
        /\ Len(q.bufs) = n + 1 /\ (\A k \in 1..(n + 1) : k # n + 1 => q.bufs[k] = cs[k])
        /\ q.bufs[n + 1] = [capacity |-> cs[n + 1].capacity, data |-> Append(cs[n + 1].data, b)]
    <3>1. /\ q.wpos = x.wpos + 1 /\ q.data_size = x.data_size + 1 /\ q.raw = x.raw
          /\ Len(q.bufs) = Len(x.bufs)
          /\ (\A k \in 1..Len(x.bufs) : k # Len(x.bufs) => q.bufs[k] = x.bufs[k])
          /\ q.bufs[Len(x.bufs)] = [capacity |-> x.bufs[Len(x.bufs)].capacity,
                                    data |-> Append(x.bufs[Len(x.bufs)].data, b)]
      BY <2>5, <2>6, StoredByte
    <3>2. x.bufs = cs /\ Len(cs) = n + 1  BY <2>3, <2>6
    <3> QED BY <3>1, <3>2
  <2>8. Len(q.bufs[n + 1].data) = 0 + 1 /\ q.bufs[n + 1].data[0 + 1] = b
    <3>1. q.bufs[n + 1].data = Append(<<>>, b)  BY <2>3, <2>7
    <3> QED BY <3>1
  <2>9. \A k \in 1..n : k # n + 1 /\ k \in 1..(n + 1)  BY <1>3
  <2>10. OneMore(p.bufs, q.bufs, n + 1, 0, b)
    <3>1. Len(p.bufs) = n /\ \A k \in 1..n : q.bufs[k] = p.bufs[k]  BY <2>3, <2>7, <2>9 DEF n
    <3> QED BY <2>7, <2>8, <3>1 DEF OneMore
  <2>11. PutAt(p, q, n + 1, 0, b)
    <3>1. Len(p.bufs) = n /\ p.wpos = p.bufs[n].capacity  BY <1>8 DEF n, cap
    <3>2. q.wpos = 0 + 1 /\ q.data_size = p.data_size + 1 /\ q.raw = p.raw  BY <2>6, <2>7
    <3> QED BY <1>5, <2>10, <3>1, <3>2 DEF PutAt
  <2> QED BY <1>4, <1>5, <2>11 DEF q, n
<1> QED BY <1>7, <1>8

LEMMA PutChain ==
  ASSUME NEW p \in WriterOK, NEW b \in Byte, ~put(p, b).hung, NEW off, NEW T, Chain(p, off, T)
  PROVE  \E off2 : /\ Chain(put(p, b), off2, Append(T, b))
                   /\ Continues(p.bufs, off, put(p, b).bufs, off2) /\ put(p, b).raw = p.raw
<1> DEFINE q == put(p, b)
           bs == p.bufs
           cs == q.bufs
           n == Len(bs)
<1>1. q \in WriterOK  BY PutOK
<1>2. PICK i \in 1..(n + 1), len \in Nat : PutAt(p, q, i, len, b)  BY PutCases
<1> HIDE DEF q
<1>3. bs \in Seq(Buf) /\ cs \in Seq(Buf) /\ p.data_size \in Nat
  BY <1>1 DEF WriterOK, PacketRec
<1>4. Laid(bs, off, T) /\ Filled(bs) /\ p.wpos = Len(bs[n].data) /\ p.data_size = Len(T)
  BY DEF Chain
<1>5. OneMore(bs, cs, i, len, b) /\ q.wpos = len + 1 /\ q.data_size = p.data_size + 1 /\ q.raw = p.raw
      /\ (i = n => cs[i].capacity = bs[i].capacity)
      /\ (i = n + 1 => p.wpos = bs[n].capacity)
  BY <1>2 DEF PutAt
<1> DEFINE off2 == MoreOff(off, i, T)
<1>6. Laid(cs, off2, Append(T, b))  BY <1>3, <1>4, <1>5, LaidMore
<1>7. Len(cs) = i /\ Len(cs[i].data) = len + 1 /\ (\A k \in 1..n : k # i => cs[k] = bs[k])
      /\ (i = n \/ i = n + 1) /\ (i = n => len = Len(bs[n].data))
  BY <1>5 DEF OneMore
<1>8. n \in Nat /\ n >= 1 /\ n \in 1..n  BY <1>3, <1>4 DEF Filled
<1>9. ASSUME NEW k \in 1..n
      PROVE  /\ off2[k - 1] = off[k - 1] /\ cs[k].capacity = bs[k].capacity
             /\ Len(cs[k].data) >= Len(bs[k].data)
  <2>1. k - 1 \in 0..i /\ k - 1 # i /\ Len(bs[k].data) \in Nat
    <3>1. bs[k] \in Buf  BY <1>3
    <3>2. Len(bs[k].data) \in Nat  BY <3>1 DEF Buf
    <3>3. k - 1 \in 0..i /\ k - 1 # i  BY <1>7, <1>8
    <3> QED BY <3>2, <3>3
  <2>2. off2[k - 1] = off[k - 1]  BY <2>1 DEF MoreOff
  <2>3. CASE k # i  BY <1>7, <2>1, <2>2, <2>3
  <2>4. CASE k = i
    <3>1. i = n  BY <1>7, <1>8, <2>4
    <3> QED BY <1>5, <1>7, <2>2, <2>4, <3>1
  <2> QED BY <2>3, <2>4
<1>10. Continues(bs, off, cs, off2)
  <2>1. i >= n  BY <1>7, <1>8
  <2> HIDE DEF off2
  <2> QED BY <1>7, <1>9, <2>1 DEF Continues
<1>11. Filled(cs)
  <2>1. bs[1].capacity > LenSize /\ (\A k \in 1..n : k < n => Len(bs[k].data) = bs[k].capacity)
        /\ \A k \in 1..n : k > 1 => Len(bs[k].data) > 0
    BY <1>4 DEF Filled
  <2>2. cs[1].capacity > LenSize
    <3>1. 1 \in 1..n  BY <1>8
    <3> QED BY <1>9, <2>1, <3>1
  <2>3. ASSUME NEW k \in 1..i, k < i PROVE Len(cs[k].data) = cs[k].capacity
    <3>1. k \in 1..n /\ k # i  BY <1>7, <1>8, <2>3
    <3>2. cs[k] = bs[k]  BY <1>7, <3>1
    <3>3. CASE k < n  BY <2>1, <3>1, <3>2, <3>3
    <3>4. CASE k = n
      <4>1. i = n + 1  BY <1>7, <3>1, <3>4
      <4> QED BY <1>4, <1>5, <3>2, <3>4, <4>1
    <3> QED BY <1>8, <3>1, <3>3, <3>4
  <2>4. ASSUME NEW k \in 1..i, k > 1 PROVE Len(cs[k].data) > 0
    <3>1. CASE k = i  BY <1>7, <3>1
    <3>2. CASE k # i
      <4>1. k \in 1..n  BY <1>7, <1>8, <3>2
      <4> QED BY <1>7, <2>1, <2>4, <3>2, <4>1
    <3> QED BY <3>1, <3>2
  <2>5. i >= 1  OBVIOUS
  <2>6. \A k \in 1..i : Len(cs[k].data) <= cs[k].capacity  BY <1>1, <1>7 DEF WriterOK, Packed
  <2> QED BY <1>3, <1>7, <2>2, <2>3, <2>4, <2>5, <2>6 DEF Filled
<1>12. q.data_size = Len(Append(T, b))
  <2>1. T \in Seq(Byte)  BY <1>4 DEF Laid
  <2> QED BY <1>4, <1>5, <2>1
<1>13. Chain(q, off2, Append(T, b))
  <2> HIDE DEF off2
  <2> QED BY <1>5, <1>6, <1>7, <1>11, <1>12 DEF Chain
<1> QED BY <1>5, <1>10, <1>13 DEF q

\* T2 is T with the first k of some bytes behind it.
Added(T, bytes, k, T2) ==
  /\ T2 \in Seq(Byte) /\ Len(T2) = Len(T) + k
  /\ (\A j \in 1..Len(T) : T2[j] = T[j]) /\ \A j \in 1..k : T2[Len(T) + j] = bytes[j]

Appended(p, off, T, bytes, k, q) ==
  \E off2, T2 : /\ Chain(q, off2, T2) /\ Added(T, bytes, k, T2)
                /\ Continues(p.bufs, off, q.bufs, off2) /\ q.raw = p.raw

\* A write puts its bytes behind the others.
LEMMA WriteChain ==
  ASSUME NEW p \in WriterOK, NEW bytes \in Seq(Byte), NEW off, NEW T, Chain(p, off, T),
         ~wpacket_write(p, bytes).hung
  PROVE  ~p.hung /\ Appended(p, off, T, bytes, Len(bytes), wpacket_write(p, bytes))
<1> DEFINE n == Len(bytes)
<1>1. PICK c : WriteStages(c, p, bytes)  BY WriteSteps
<1>2. /\ c[0] = p /\ (\A k \in 1..n : c[k] = put(c[k - 1], bytes[k]))
      /\ (\A k \in 0..n : c[k] \in WriterOK) /\ wpacket_write(p, bytes) = c[n]
  BY <1>1 DEF WriteStages
<1>3. n \in Nat /\ \A k \in 1..n : bytes[k] \in Byte  OBVIOUS
<1>4. p.bufs \in Seq(Buf) /\ Len(p.bufs) \in Nat  BY DEF WriterOK, PacketRec
<1>5. T \in Seq(Byte) /\ Len(T) \in Nat  BY DEF Chain, Laid
<1> HIDE DEF n
<1> DEFINE OK(k) == ~c[k].hung => ~p.hung /\ Appended(p, off, T, bytes, k, c[k])
<1>6. OK(0)
  <2>1. Added(T, bytes, 0, T)  BY <1>5 DEF Added
  <2>2. Continues(p.bufs, off, p.bufs, off)
    <3>1. \A b \in 1..Len(p.bufs) : Len(p.bufs[b].data) >= Len(p.bufs[b].data)
      <4>1. \A b \in 1..Len(p.bufs) : p.bufs[b] \in Buf  BY <1>4
      <4>2. \A b \in 1..Len(p.bufs) : Len(p.bufs[b].data) \in Nat  BY <4>1 DEF Buf
      <4> QED BY <4>2
    <3> QED BY <1>4, <3>1 DEF Continues
  <2>3. Appended(p, off, T, bytes, 0, p)  BY <2>1, <2>2 DEF Appended
  <2> QED BY <1>2, <2>3
<1>7. ASSUME NEW k \in 1..n, OK(k - 1) PROVE OK(k)
  <2> SUFFICES ASSUME ~c[k].hung PROVE ~p.hung /\ Appended(p, off, T, bytes, k, c[k])
    OBVIOUS
  <2> DEFINE x == c[k - 1]
             b == bytes[k]
             y == c[k]
  <2>1. k - 1 \in 0..n /\ k \in 0..n /\ k - 1 \in Nat /\ (k - 1) + 1 = k  BY <1>3
  <2>2. x \in WriterOK /\ y \in WriterOK /\ b \in Byte /\ y = put(x, b)  BY <1>2, <1>3, <2>1
  <2>3. ~x.hung  BY <2>2, PutCases
  <2>4. ~p.hung /\ Appended(p, off, T, bytes, k - 1, x)  BY <1>7, <2>3
  <2>5. PICK off1, T1 : /\ Chain(x, off1, T1) /\ Added(T, bytes, k - 1, T1)
                        /\ Continues(p.bufs, off, x.bufs, off1) /\ x.raw = p.raw
    BY <2>4 DEF Appended
  <2> HIDE DEF x, y
  <2>6. PICK off2 : /\ Chain(y, off2, Append(T1, b)) /\ Continues(x.bufs, off1, y.bufs, off2)
                    /\ y.raw = x.raw
    <3>1. ~put(x, b).hung  BY <2>2 DEF y
    <3> HIDE DEF b
    <3> QED BY <2>2, <2>5, <3>1, PutChain
  <2>7. Added(T, bytes, k, Append(T1, b))
    <3> DEFINE t == Append(T1, b)
               m == Len(T)
    <3>1. T1 \in Seq(Byte) /\ Len(T1) = m + (k - 1) /\ (\A j \in 1..m : T1[j] = T[j])
          /\ \A j \in 1..(k - 1) : T1[m + j] = bytes[j]
      BY <2>5 DEF Added
    <3> HIDE DEF b
    <3>2. t \in Seq(Byte) /\ Len(t) = Len(T1) + 1 /\ t[Len(T1) + 1] = b
          /\ \A j \in 1..Len(T1) : t[j] = T1[j]
      BY <2>2, <3>1
    <3> HIDE DEF t, m
    <3>3. m \in Nat /\ Len(T1) + 1 = m + k  BY <1>5, <2>1, <3>1 DEF m
    <3>4. ASSUME NEW j \in 1..m PROVE t[j] = T[j]
      <4>1. j \in 1..Len(T1)  BY <2>1, <3>1, <3>3
      <4> QED BY <3>1, <3>2, <4>1
    <3>5. ASSUME NEW j \in 1..k PROVE t[m + j] = bytes[j]
      <4>1. CASE j = k  BY <3>2, <3>3, <4>1 DEF b
      <4>2. CASE j # k
        <5>1. j \in 1..(k - 1) /\ m + j \in 1..Len(T1)  BY <2>1, <3>1, <3>3, <4>2
        <5> QED BY <3>1, <3>2, <5>1
      <4> QED BY <4>1, <4>2
    <3> QED BY <3>2, <3>3, <3>4, <3>5 DEF Added, t, m
  <2>8. Continues(p.bufs, off, y.bufs, off2)
    <3> DEFINE bs == p.bufs
               ds == x.bufs
               cs == y.bufs
    <3>1. ds \in Seq(Buf) /\ cs \in Seq(Buf)  BY <2>2 DEF WriterOK, PacketRec
    <3>2. /\ Len(ds) >= Len(bs)
          /\ \A i \in 1..Len(bs) : /\ off1[i - 1] = off[i - 1] /\ ds[i].capacity = bs[i].capacity
                                   /\ Len(ds[i].data) >= Len(bs[i].data)
      BY <2>5 DEF Continues
    <3>3. /\ Len(cs) >= Len(ds)
          /\ \A i \in 1..Len(ds) : /\ off2[i - 1] = off1[i - 1] /\ cs[i].capacity = ds[i].capacity
                                   /\ Len(cs[i].data) >= Len(ds[i].data)
      BY <2>6 DEF Continues
    <3>4. Len(ds) \in Nat /\ Len(cs) \in Nat /\ bs \in Seq(Buf) /\ Len(bs) \in Nat
      BY <1>4, <3>1
    <3> HIDE DEF bs, cs, ds
    <3>5. ASSUME NEW i \in 1..Len(bs)
          PROVE  /\ off2[i - 1] = off[i - 1] /\ cs[i].capacity = bs[i].capacity
                 /\ Len(cs[i].data) >= Len(bs[i].data)
      <4>1. i \in 1..Len(ds) /\ i \in 1..Len(cs)  BY <3>2, <3>3, <3>4
      <4>2. bs[i] \in Buf /\ cs[i] \in Buf /\ ds[i] \in Buf  BY <3>1, <3>4, <4>1
      <4>3. Len(bs[i].data) \in Nat /\ Len(cs[i].data) \in Nat /\ Len(ds[i].data) \in Nat
        BY <4>2 DEF Buf
      <4>4. off2[i - 1] = off[i - 1] /\ cs[i].capacity = bs[i].capacity  BY <3>2, <3>3, <4>1
      <4>5. Len(cs[i].data) >= Len(ds[i].data) /\ Len(ds[i].data) >= Len(bs[i].data)
        BY <3>2, <3>3, <4>1
      <4>6. \A u, v, z \in Nat : z >= v /\ v >= u => z >= u  OBVIOUS
      <4> QED BY <4>3, <4>4, <4>5, <4>6
    <3>6. Len(cs) >= Len(bs)  BY <3>2, <3>3, <3>4
    <3>7. Continues(bs, off, cs, off2)  BY <3>5, <3>6 DEF Continues
    <3> QED BY <3>7 DEF bs, cs
  <2>9. Appended(p, off, T, bytes, k, y)  BY <2>5, <2>6, <2>7, <2>8 DEF Appended
  <2> QED BY <2>4, <2>9 DEF y
<1> HIDE DEF OK
<1> DEFINE Bad == {k \in 0..n : ~OK(k)}
<1>8. ASSUME Bad # {} PROVE FALSE
  <2>1. Bad \in SUBSET Nat  OBVIOUS
  <2>2. PICK k \in Bad : \A z \in Bad : k <= z  BY <1>8, <2>1, LeastElement
  <2>3. k \in 0..n /\ ~OK(k)  BY <2>2
  <2>4. k # 0  BY <1>6, <2>3
  <2>5. k \in 1..n /\ k - 1 \in 0..n /\ ~(k <= k - 1)  BY <1>3, <2>3, <2>4
  <2>6. OK(k - 1)  BY <2>2, <2>5
  <2> QED BY <1>7, <2>3, <2>5, <2>6
<1>9. n \in 0..n  BY <1>3
<1>10. OK(n)  BY <1>8, <1>9
<1> QED BY <1>2, <1>10 DEF OK, n

\* No byte of T is in two buffers.
LEMMA LaidApart ==
  ASSUME NEW bs \in Seq(Buf), NEW off, NEW T, Laid(bs, off, T),
         NEW b \in 1..Len(bs), NEW j \in 1..Len(bs[b].data),
         NEW c \in 1..Len(bs), NEW i \in 1..Len(bs[c].data), off[b - 1] + j = off[c - 1] + i
  PROVE  b = c /\ j = i
<1> DEFINE n == Len(bs)
<1>1. /\ n \in Nat
      /\ \A k \in 1..n : /\ Len(bs[k].data) \in Nat /\ off[k - 1] \in Nat /\ off[k] \in Nat
                         /\ off[k] = off[k - 1] + Len(bs[k].data)
      /\ \A k \in 0..n : \A m \in k..n : off[k] <= off[m]
  BY LaidFacts
<1> HIDE DEF n
<1> DEFINE u == off[b - 1]
           v == off[c - 1]
           x == off[b]
           y == off[c]
<1>2. u \in Nat /\ v \in Nat /\ x \in Nat /\ y \in Nat /\ j \in Nat /\ i \in Nat /\ j >= 1 /\ i >= 1
      /\ u + j <= x /\ v + i <= y /\ u + j = v + i
  <2>1. b \in 1..n /\ c \in 1..n  BY DEF n
  <2>2. /\ Len(bs[b].data) \in Nat /\ u \in Nat /\ x \in Nat /\ x = u + Len(bs[b].data)
        /\ Len(bs[c].data) \in Nat /\ v \in Nat /\ y \in Nat /\ y = v + Len(bs[c].data)
    BY <1>1, <2>1
  <2> HIDE DEF u, v, x, y
  <2> DEFINE d == Len(bs[b].data)
             e == Len(bs[c].data)
  <2>3. d \in Nat /\ e \in Nat /\ j \in 1..d /\ i \in 1..e /\ x = u + d /\ y = v + e
    BY <2>2
  <2>4. u + j = v + i  BY DEF u, v
  <2> HIDE DEF d, e
  <2> QED BY <2>2, <2>3, <2>4
<1>3. b < c => x <= v
  <2> SUFFICES ASSUME b < c PROVE x <= v  OBVIOUS
  <2>1. b \in 0..n /\ c - 1 \in b..n  BY <1>1 DEF n
  <2> QED BY <1>1, <2>1
<1>4. c < b => y <= u
  <2> SUFFICES ASSUME c < b PROVE y <= u  OBVIOUS
  <2>1. c \in 0..n /\ b - 1 \in c..n  BY <1>1 DEF n
  <2> QED BY <1>1, <2>1
<1>5. b = c => u = v  OBVIOUS
<1> HIDE DEF u, v, x, y
<1>6. ~(b < c)  BY <1>2, <1>3
<1>7. ~(c < b)  BY <1>2, <1>4
<1>8. b = c
  <2>1. b \in Nat /\ c \in Nat  OBVIOUS
  <2> QED BY <1>6, <1>7, <2>1
<1> QED BY <1>2, <1>5, <1>8

\* One byte of a buffer is replaced.
LEMMA LaidChanged ==
  ASSUME NEW bs \in Seq(Buf), NEW off, NEW T, Laid(bs, off, T), NEW cs \in SameShape(bs),
         NEW i \in 1..Len(bs), NEW m \in 1..Len(bs[i].data), NEW b \in Byte,
         cs[i].data[m] = b, \A j \in 1..Len(bs[i].data) : j # m => cs[i].data[j] = bs[i].data[j],
         \A k \in 1..Len(bs) : k # i => cs[k] = bs[k]
  PROVE  Laid(cs, off, [T EXCEPT ![off[i - 1] + m] = b])
<1> DEFINE n == Len(bs)
           g == off[i - 1] + m
           t == [T EXCEPT ![g] = b]
<1>1. /\ n \in Nat /\ T \in Seq(Byte) /\ Len(T) \in Nat /\ Len(T) = off[n]
      /\ \A k \in 1..n : /\ Len(bs[k].data) \in Nat /\ off[k - 1] \in Nat /\ off[k] \in Nat
                         /\ off[k] = off[k - 1] + Len(bs[k].data) /\ off[k] <= Len(T)
  BY LaidFacts
<1>2. cs \in Seq(Buf) /\ Len(cs) = n /\ \A k \in 1..n : Len(cs[k].data) = Len(bs[k].data)
  BY DEF SameShape
<1>3. ASSUME NEW k \in 1..n, NEW j \in 1..Len(bs[k].data) PROVE off[k - 1] + j \in 1..Len(T)
  <2> DEFINE u == off[k - 1]
             d == Len(bs[k].data)
             l == Len(T)
  <2>1. u \in Nat /\ d \in Nat /\ l \in Nat /\ u + d <= l /\ j \in 1..d  BY <1>1
  <2> HIDE DEF u, d, l
  <2>2. u + j \in 1..l  BY <2>1
  <2> QED BY <2>2 DEF u, l
<1>4. g \in 1..Len(T)  BY <1>3
<1> HIDE DEF g
<1>5. t \in Seq(Byte) /\ Len(t) = Len(T) /\ t[g] = b /\ \A j \in 1..Len(T) : j # g => t[j] = T[j]
  BY <1>1, <1>4
<1> HIDE DEF t
<1>6. ASSUME NEW k \in 1..n, NEW j \in 1..Len(bs[k].data) PROVE t[off[k - 1] + j] = cs[k].data[j]
  <2>1. T[off[k - 1] + j] = bs[k].data[j]  BY DEF Laid
  <2>2. CASE k = i /\ j = m  BY <1>5, <2>2 DEF g
  <2>3. CASE ~(k = i /\ j = m)
    <3>1. off[k - 1] + j # g  BY <2>3, LaidApart DEF g
    <3>2. off[k - 1] + j \in 1..Len(T)  BY <1>3
    <3>3. t[off[k - 1] + j] = T[off[k - 1] + j]  BY <1>5, <3>1, <3>2
    <3>4. cs[k].data[j] = bs[k].data[j]
      <4>1. CASE k = i  BY <2>3, <4>1
      <4>2. CASE k # i  BY <4>2
      <4> QED BY <4>1, <4>2
    <3> QED BY <2>1, <3>3, <3>4
  <2> QED BY <2>2, <2>3
<1>7. off \in [0..n -> Nat] /\ off[0] = 0 /\ \A k \in 1..n : off[k] = off[k - 1] + Len(cs[k].data)
  BY <1>2 DEF Laid
<1>8. Laid(cs, off, t)
  <2> HIDE DEF n
  <2>1. \A k \in 1..n : \A j \in 1..Len(cs[k].data) : t[off[k - 1] + j] = cs[k].data[j]
    BY <1>2, <1>6
  <2> QED BY <1>1, <1>2, <1>5, <1>7, <2>1 DEF Laid
<1> QED BY <1>8 DEF t, g

\* A cursor of wpacket_rewrite at byte g of T.
CursorAt(c, bs, off, T, g) ==
  /\ c \in [bufs : SameShape(bs), buf : Nat, pos : Nat]
  /\ Laid(c.bufs, off, T) /\ Filled(c.bufs)
  /\ c.buf \in 1..Len(c.bufs) /\ c.pos <= c.bufs[c.buf].capacity /\ off[c.buf - 1] + c.pos = g

LEMMA OverLaid ==
  ASSUME NEW bs, NEW off, NEW T, NEW c, NEW g \in Nat, CursorAt(c, bs, off, T, g), g < Len(T),
         NEW b \in Byte
  PROVE  CursorAt(overwrite(c, b), bs, off, [T EXCEPT ![g + 1] = b], g + 1)
<1> DEFINE d == IF c.pos >= c.bufs[c.buf].capacity THEN [c EXCEPT !.buf = @ + 1, !.pos = 0] ELSE c
           B == c.bufs
           n == Len(B)
           i == d.buf
           m == d.pos
           data == [B[i].data EXCEPT ![m + 1] = b]
           cs == [B EXCEPT ![i] = [B[i] EXCEPT !.data = data]]
<1>1. /\ c \in [bufs : SameShape(bs), buf : Nat, pos : Nat]
      /\ c = [bufs |-> c.bufs, buf |-> c.buf, pos |-> c.pos]
      /\ B \in SameShape(bs) /\ c.buf \in Nat /\ c.pos \in Nat
      /\ Laid(B, off, T) /\ Filled(B) /\ c.buf \in 1..n /\ c.pos <= B[c.buf].capacity
      /\ off[c.buf - 1] + c.pos = g
  BY DEF CursorAt
<1>2. B \in Seq(Buf) /\ n = Len(bs)  BY <1>1 DEF SameShape
<1>3. /\ n \in Nat /\ T \in Seq(Byte) /\ Len(T) \in Nat /\ Len(T) = off[n]
      /\ \A k \in 1..n : /\ B[k].data \in Seq(Byte) /\ Len(B[k].data) \in Nat
                         /\ B[k].capacity \in Nat /\ off[k - 1] \in Nat /\ off[k] \in Nat
                         /\ off[k] = off[k - 1] + Len(B[k].data) /\ off[k] <= Len(T)
  BY <1>1, <1>2, LaidFacts
<1>4. /\ \A k \in 1..n : Len(B[k].data) <= B[k].capacity
      /\ \A k \in 1..n : k < n => Len(B[k].data) = B[k].capacity
      /\ \A k \in 1..n : k > 1 => Len(B[k].data) > 0
  BY <1>1 DEF Filled
<1>5. /\ d = [bufs |-> B, buf |-> i, pos |-> m] /\ i \in 1..n /\ m \in Nat
      /\ m < Len(B[i].data) /\ off[i - 1] + m = g
  <2> DEFINE l == c.buf
             e == Len(B[l].data)
             u == off[l - 1]
             v == off[l]
             cap == B[l].capacity
             z == Len(T)
  <2>1. /\ e \in Nat /\ u \in Nat /\ v \in Nat /\ cap \in Nat /\ z \in Nat /\ v = u + e /\ v <= z
        /\ (l < n => e = cap) /\ (l = n => v = z) /\ l \in 1..n /\ u + c.pos = g /\ c.pos <= cap
        /\ g < z /\ e <= cap
    BY <1>1, <1>3, <1>4
  <2>2. CASE c.pos >= cap
    <3>1. d = [bufs |-> B, buf |-> l + 1, pos |-> 0]  BY <1>1, <2>2
    <3> HIDE DEF d, e, u, v, cap, z, l
    <3>2. c.pos = cap /\ l # n
      <4>1. c.pos = cap  BY <1>1, <2>1, <2>2
      <4> QED BY <2>1, <4>1
    <3>3. l + 1 \in 1..n /\ l < n  BY <1>3, <2>1, <3>2
    <3>4. e = cap /\ g = v  BY <1>1, <2>1, <3>2, <3>3
    <3>5. Len(B[l + 1].data) > 0 /\ off[(l + 1) - 1] = v
      <4>1. l + 1 > 1 /\ (l + 1) - 1 = l  BY <2>1
      <4> QED BY <1>4, <3>3, <4>1 DEF v
    <3>6. i = l + 1 /\ m = 0  BY <3>1
    <3> QED BY <2>1, <3>1, <3>3, <3>4, <3>5, <3>6
  <2>3. CASE ~(c.pos >= cap)
    <3>1. d = c  BY <2>3
    <3> HIDE DEF d, e, u, v, cap, z, l
    <3>2. i = l /\ m = c.pos  BY <3>1 DEF l
    <3>3. c.pos < e  BY <1>1, <1>3, <2>1, <2>3
    <3> QED BY <1>1, <2>1, <3>1, <3>2, <3>3 DEF u, e, l
  <2> QED BY <2>2, <2>3
<1>6. overwrite(c, b) = [d EXCEPT !.bufs[i].data[m + 1] = b, !.pos = @ + 1]  BY DEF overwrite
<1> HIDE DEF d, i, m
<1>7. overwrite(c, b) = [bufs |-> cs, buf |-> i, pos |-> m + 1]
  <2>1. d.bufs = B /\ d.buf = i /\ d.pos = m  BY <1>5
  <2> QED BY <1>5, <1>6, <2>1
<1>8. m + 1 \in 1..Len(B[i].data) /\ off[i - 1] + (m + 1) = g + 1 /\ off[i - 1] \in Nat
  <2>1. off[i - 1] \in Nat /\ Len(B[i].data) \in Nat  BY <1>3, <1>5
  <2> DEFINE u == off[i - 1]
             l == Len(B[i].data)
  <2>2. u \in Nat /\ l \in Nat /\ m \in Nat /\ m < l /\ u + m = g  BY <1>5, <2>1
  <2> HIDE DEF u, l
  <2>3. m + 1 \in 1..l /\ u + (m + 1) = g + 1  BY <2>2
  <2> QED BY <2>1, <2>3 DEF u, l
<1>9. B[i] = [capacity |-> B[i].capacity, data |-> B[i].data] /\ B[i].data \in Seq(Byte)
  <2>1. B[i] \in Buf  BY <1>2, <1>5
  <2> QED BY <2>1 DEF Buf
<1>10. data[m + 1] = b /\ \A j \in 1..Len(B[i].data) : j # m + 1 => data[j] = B[i].data[j]
  BY <1>8, <1>9
<1>11. cs[i] = [capacity |-> B[i].capacity, data |-> data] /\ \A k \in 1..n : k # i => cs[k] = B[k]
  <2> HIDE DEF data
  <2> DEFINE e == [B[i] EXCEPT !.data = data]
  <2>1. e = [capacity |-> B[i].capacity, data |-> data]  BY <1>9
  <2>2. cs = [B EXCEPT ![i] = e]  OBVIOUS
  <2> HIDE DEF e, cs
  <2>3. cs[i] = e /\ \A k \in 1..n : k # i => cs[k] = B[k]  BY <1>2, <1>5, <2>2
  <2> QED BY <2>1, <2>3
<1> HIDE DEF cs, data
<1>12. overwrite(c, b) \in [bufs : SameShape(bs), buf : Nat, pos : Nat]  BY <1>1, OverwriteShape
<1>13. cs \in SameShape(bs)  BY <1>7, <1>12
<1>14. cs \in Seq(Buf) /\ Len(cs) = n /\ \A k \in 1..n : /\ cs[k].capacity = B[k].capacity
                                                        /\ Len(cs[k].data) = Len(B[k].data)
  BY <1>1, <1>2, <1>13 DEF SameShape
<1>15. cs \in SameShape(B)  BY <1>14 DEF SameShape
<1>16. Laid(cs, off, [T EXCEPT ![off[i - 1] + (m + 1)] = b])
  <2>1. cs[i].data[m + 1] = b /\ \A j \in 1..Len(B[i].data) : j # m + 1 => cs[i].data[j] = B[i].data[j]
    BY <1>10, <1>11
  <2>2. \A k \in 1..n : k # i => cs[k] = B[k]  BY <1>11
  <2> DEFINE q == m + 1
  <2>3. q \in 1..Len(B[i].data)  BY <1>8
  <2>4. cs[i].data[q] = b /\ \A j \in 1..Len(B[i].data) : j # q => cs[i].data[j] = B[i].data[j]
    BY <2>1
  <2> HIDE DEF q, B
  <2>5. Laid(cs, off, [T EXCEPT ![off[i - 1] + q] = b])
    BY <1>1, <1>2, <1>5, <1>15, <2>2, <2>3, <2>4, LaidChanged DEF n
  <2> QED BY <2>5 DEF q
<1>17. Filled(cs)
  <2>1. B[1].capacity > LenSize /\ n >= 1  BY <1>1 DEF Filled
  <2>2. 1 \in 1..n  BY <1>3, <2>1
  <2> QED BY <1>4, <1>14, <2>1, <2>2 DEF Filled
<1>18. m + 1 <= cs[i].capacity
  <2>1. Len(B[i].data) <= B[i].capacity  BY <1>4, <1>5
  <2>2. B[i].capacity \in Nat /\ Len(B[i].data) \in Nat  BY <1>3, <1>5
  <2> QED BY <1>5, <1>14, <2>1, <2>2
<1> DEFINE o == overwrite(c, b)
<1>19. o.bufs = cs /\ o.buf = i /\ o.pos = m + 1  BY <1>7
<1> HIDE DEF o
<1>20. CursorAt(o, bs, off, [T EXCEPT ![g + 1] = b], g + 1)
  <2>1. o \in [bufs : SameShape(bs), buf : Nat, pos : Nat]  BY <1>12 DEF o
  <2>2. Laid(cs, off, [T EXCEPT ![g + 1] = b])  BY <1>8, <1>16
  <2> QED BY <1>5, <1>8, <1>14, <1>17, <1>18, <1>19, <2>1, <2>2 DEF CursorAt
<1> QED BY <1>20 DEF o

\* T2 is T with the first k of some bytes behind the first g of its own.
Replaced(T, g, bytes, k, T2) ==
  /\ T2 \in Seq(Byte) /\ Len(T2) = Len(T) /\ (\A j \in 1..k : T2[g + j] = bytes[j])
  /\ \A j \in 1..Len(T) : (j <= g \/ j > g + k) => T2[j] = T[j]

\* A rewrite replaces the bytes of its field, wherever buffers end inside it.
LEMMA RewriteLaid ==
  ASSUME NEW bs, NEW off, NEW T \in Seq(Byte), NEW s, NEW g \in Nat, CursorAt(s, bs, off, T, g),
         NEW bytes \in Seq(Byte), g + Len(bytes) <= Len(T)
  PROVE  \E T2 : /\ Replaced(T, g, bytes, Len(bytes), T2)
                 /\ Laid(overwrite_all(s, bytes).bufs, off, T2)
                 /\ Filled(overwrite_all(s, bytes).bufs)
<1> DEFINE n == Len(bytes)
           S == [bufs : SameShape(bs), buf : Nat, pos : Nat]
<1>1. s \in S  BY DEF CursorAt
<1>2. PICK c : OverStages(c, s, bytes, S)  BY <1>1, OverSteps
<1> HIDE DEF S
<1>3. /\ c[0] = s /\ (\A k \in 1..n : c[k] = overwrite(c[k - 1], bytes[k]))
      /\ overwrite_all(s, bytes) = c[n]
  BY <1>2 DEF OverStages
<1>4. n \in Nat /\ Len(T) \in Nat /\ \A k \in 1..n : bytes[k] \in Byte  OBVIOUS
<1>5. g + n <= Len(T)  OBVIOUS
<1> HIDE DEF n
<1> DEFINE OK(k) == \E T2 : Replaced(T, g, bytes, k, T2) /\ CursorAt(c[k], bs, off, T2, g + k)
<1>6. OK(0)
  <2>1. Replaced(T, g, bytes, 0, T)  BY DEF Replaced
  <2>2. CursorAt(c[0], bs, off, T, g + 0)  BY <1>3
  <2> QED BY <2>1, <2>2
<1>7. ASSUME NEW k \in 1..n, OK(k - 1) PROVE OK(k)
  <2> DEFINE x == c[k - 1]
             b == bytes[k]
             h == g + (k - 1)
  <2>1. PICK T1 : Replaced(T, g, bytes, k - 1, T1) /\ CursorAt(x, bs, off, T1, h)  BY <1>7
  <2>2. /\ T1 \in Seq(Byte) /\ Len(T1) = Len(T) /\ (\A j \in 1..(k - 1) : T1[g + j] = bytes[j])
        /\ \A j \in 1..Len(T) : (j <= g \/ j > g + (k - 1)) => T1[j] = T[j]
    BY <2>1 DEF Replaced
  <2>3. h \in Nat /\ h + 1 = g + k /\ h < Len(T1) /\ h + 1 \in 1..Len(T) /\ k \in Nat /\ k >= 1
    BY <1>4, <1>5, <2>2
  <2>4. b \in Byte /\ c[k] = overwrite(x, b)  BY <1>3, <1>4
  <2> DEFINE t == [T1 EXCEPT ![h + 1] = b]
  <2> HIDE DEF x, h, b
  <2>5. CursorAt(overwrite(x, b), bs, off, t, h + 1)  BY <2>1, <2>3, <2>4, OverLaid
  <2>6. t \in Seq(Byte) /\ Len(t) = Len(T) /\ t[h + 1] = b
        /\ \A j \in 1..Len(T) : j # h + 1 => t[j] = T1[j]
    BY <2>2, <2>3, <2>4
  <2> HIDE DEF t
  <2>7. ASSUME NEW j \in 1..k PROVE t[g + j] = bytes[j]
    <3>1. CASE j = k  BY <2>3, <2>6, <3>1 DEF b
    <3>2. CASE j # k
      <4>1. j \in 1..(k - 1) /\ g + j # h + 1 /\ g + j \in 1..Len(T)
        BY <1>4, <1>5, <2>3, <3>2
      <4> QED BY <2>2, <2>6, <4>1
    <3> QED BY <3>1, <3>2
  <2>8. ASSUME NEW j \in 1..Len(T), j <= g \/ j > g + k PROVE t[j] = T[j]
    <3>1. j # h + 1 /\ (j <= g \/ j > g + (k - 1))  BY <2>3, <2>8
    <3> QED BY <2>2, <2>6, <3>1
  <2>9. Replaced(T, g, bytes, k, t)  BY <2>6, <2>7, <2>8 DEF Replaced
  <2>10. CursorAt(c[k], bs, off, t, g + k)  BY <2>3, <2>4, <2>5
  <2> QED BY <2>9, <2>10
<1> HIDE DEF OK
<1> DEFINE Bad == {k \in 0..n : ~OK(k)}
<1>8. ASSUME Bad # {} PROVE FALSE
  <2>1. Bad \in SUBSET Nat  OBVIOUS
  <2>2. PICK k \in Bad : \A z \in Bad : k <= z  BY <1>8, <2>1, LeastElement
  <2>3. k \in 0..n /\ ~OK(k)  BY <2>2
  <2>4. k # 0  BY <1>6, <2>3
  <2>5. k \in 1..n /\ k - 1 \in 0..n /\ ~(k <= k - 1)  BY <1>4, <2>3, <2>4
  <2>6. OK(k - 1)  BY <2>2, <2>5
  <2> QED BY <1>7, <2>3, <2>5, <2>6
<1>9. n \in 0..n  BY <1>4
<1>10. OK(n)  BY <1>8, <1>9
<1> QED BY <1>3, <1>10 DEF OK, CursorAt, n

\* One byte of rpacket_read: the reader behind it and the bytes so far.
ReadOne(s) ==
  LET y == switch(s.rd)
      b == IF y.rpos < ReadBufSize(y.readbuf)
           THEN w.bufs[y.readbuf].data[y.rpos + 1] ELSE <<0, 0>>
  IN  [rd |-> switch([y EXCEPT !.rpos = @ + 1, !.data_remain = @ - 1]),
       out |-> Append(s.out, b)]

ReadState == [rd : ReaderRec, out : Seq(Byte)]

\* Fields of a reader that a step of it changes.
Moved(x, buf, pos, left) ==
  [readbuf |-> buf, rpos |-> pos, len |-> x.len, data_remain |-> left, binbuf |-> x.binbuf,
   binbufpos |-> x.binbufpos, fields |-> x.fields]

LEMMA MovedRec ==
  ASSUME NEW x \in ReaderRec, NEW buf \in Nat, NEW pos \in Nat, NEW left \in Int
  PROVE  Moved(x, buf, pos, left) \in ReaderRec
BY DEF Moved, ReaderRec

LEMMA SwitchIs ==
  ASSUME NEW x \in ReaderRec
  PROVE  switch(x) = IF x.rpos >= ReadBufSize(x.readbuf) /\ x.data_remain > 0
                     THEN Moved(x, x.readbuf + 1, 0, x.data_remain) ELSE x
<1>1. [x EXCEPT !.readbuf = @ + 1, !.rpos = 0] = Moved(x, x.readbuf + 1, 0, x.data_remain)
  <2> DEFINE p == x.readbuf + 1
             q == 0
             y == [x EXCEPT !.readbuf = p]
  <2>1. x = [readbuf |-> x.readbuf, rpos |-> x.rpos, len |-> x.len, data_remain |-> x.data_remain,
               binbuf |-> x.binbuf, binbufpos |-> x.binbufpos, fields |-> x.fields]
    BY DEF ReaderRec
  <2> HIDE DEF p, q
  <2>2. y = [readbuf |-> p, rpos |-> x.rpos, len |-> x.len, data_remain |-> x.data_remain,
               binbuf |-> x.binbuf, binbufpos |-> x.binbufpos, fields |-> x.fields]
    BY <2>1
  <2>3. [x EXCEPT !.readbuf = p, !.rpos = q] = [y EXCEPT !.rpos = q]  BY <2>1
  <2> HIDE DEF y
  <2>4. [y EXCEPT !.rpos = q]
          = [readbuf |-> p, rpos |-> q, len |-> x.len, data_remain |-> x.data_remain,
             binbuf |-> x.binbuf, binbufpos |-> x.binbufpos, fields |-> x.fields]
    BY <2>2
  <2> QED BY <2>3, <2>4 DEF Moved, p, q
<1> QED BY <1>1 DEF switch

LEMMA AdvanceIs ==
  ASSUME NEW x \in ReaderRec
  PROVE  [x EXCEPT !.rpos = @ + 1, !.data_remain = @ - 1]
           = Moved(x, x.readbuf, x.rpos + 1, x.data_remain - 1)
<1> DEFINE p == x.rpos + 1
           q == x.data_remain - 1
           y == [x EXCEPT !.rpos = p]
<1>1. x = [readbuf |-> x.readbuf, rpos |-> x.rpos, len |-> x.len, data_remain |-> x.data_remain,
             binbuf |-> x.binbuf, binbufpos |-> x.binbufpos, fields |-> x.fields]
  BY DEF ReaderRec
<1> HIDE DEF p, q
<1>2. y = [readbuf |-> x.readbuf, rpos |-> p, len |-> x.len, data_remain |-> x.data_remain,
             binbuf |-> x.binbuf, binbufpos |-> x.binbufpos, fields |-> x.fields]
  BY <1>1
<1>3. [x EXCEPT !.rpos = p, !.data_remain = q] = [y EXCEPT !.data_remain = q]  BY <1>1
<1> HIDE DEF y
<1>4. [y EXCEPT !.data_remain = q]
        = [readbuf |-> x.readbuf, rpos |-> p, len |-> x.len, data_remain |-> q,
           binbuf |-> x.binbuf, binbufpos |-> x.binbufpos, fields |-> x.fields]
  BY <1>2
<1> QED BY <1>3, <1>4 DEF Moved, p, q

LEMMA SwitchRec ==
  ASSUME NEW x \in ReaderRec
  PROVE  switch(x) \in ReaderRec
<1>1. x.readbuf + 1 \in Nat /\ 0 \in Nat /\ x.data_remain \in Int  BY DEF ReaderRec
<1>2. Moved(x, x.readbuf + 1, 0, x.data_remain) \in ReaderRec  BY <1>1, MovedRec
<1> QED BY <1>2, SwitchIs

LEMMA ReadOneRec ==
  ASSUME w.bufs \in Seq(Buf), NEW s \in ReadState
  PROVE  ReadOne(s) \in ReadState
<1> DEFINE y == switch(s.rd)
           b == IF y.rpos < ReadBufSize(y.readbuf)
                THEN w.bufs[y.readbuf].data[y.rpos + 1] ELSE <<0, 0>>
           z == [y EXCEPT !.rpos = @ + 1, !.data_remain = @ - 1]
<1>1. s.rd \in ReaderRec /\ s.out \in Seq(Byte)  BY DEF ReadState
<1>2. y \in ReaderRec  BY <1>1, SwitchRec
<1> HIDE DEF y
<1>3. y.readbuf \in Nat /\ y.rpos \in Nat /\ y.data_remain \in Int  BY <1>2 DEF ReaderRec
<1>4. z \in ReaderRec
  <2>1. y.rpos + 1 \in Nat /\ y.data_remain - 1 \in Int  BY <1>3
  <2>2. Moved(y, y.readbuf, y.rpos + 1, y.data_remain - 1) \in ReaderRec
    BY <1>2, <1>3, <2>1, MovedRec
  <2> QED BY <1>2, <2>2, AdvanceIs
<1>5. b \in Byte
  <2>1. CASE y.rpos < ReadBufSize(y.readbuf)
    <3>1. y.readbuf \in DOMAIN w.bufs  BY <1>3, <2>1 DEF ReadBufSize
    <3>2. w.bufs[y.readbuf] \in Buf  BY <3>1
    <3>3. w.bufs[y.readbuf].data \in Seq(Byte) /\ y.rpos < Len(w.bufs[y.readbuf].data)
      BY <2>1, <3>1, <3>2 DEF Buf, ReadBufSize
    <3>4. y.rpos + 1 \in 1..Len(w.bufs[y.readbuf].data)  BY <1>3, <3>3
    <3> QED BY <2>1, <3>3, <3>4
  <2>2. CASE ~(y.rpos < ReadBufSize(y.readbuf))  BY <2>2 DEF Byte
  <2> QED BY <2>1, <2>2
<1>6. switch(z) \in ReaderRec  BY <1>4, SwitchRec
<1>7. ReadOne(s) = [rd |-> switch(z), out |-> Append(s.out, b)]  BY DEF ReadOne, y
<1> HIDE DEF b, z
<1>8. Append(s.out, b) \in Seq(Byte)  BY <1>1, <1>5
<1> QED BY <1>6, <1>7, <1>8 DEF ReadState

\* A reader n bytes further.
Behind(x, z, n) ==
  /\ z \in ReaderRec /\ z.len = x.len /\ z.data_remain = x.data_remain - n
  /\ z.binbuf = x.binbuf /\ z.binbufpos = x.binbufpos /\ z.fields = x.fields

Place(x, raw) == (Ahead(raw) + x.len) - x.data_remain

StreamAt(off, T) == w.bufs \in Seq(Buf) /\ Laid(w.bufs, off, T) /\ Filled(w.bufs)

LEMMA AheadNat == ASSUME NEW raw PROVE Ahead(raw) \in Nat
BY PacketAssumption DEF Ahead

LEMMA ReadOneAt ==
  ASSUME NEW off, NEW T, StreamAt(off, T), NEW s \in ReadState, NEW raw,
         Standing(s.rd, w.bufs, raw, off), s.rd.data_remain > 0, Ahead(raw) + s.rd.len <= Len(T)
  PROVE  /\ Behind(s.rd, ReadOne(s).rd, 1) /\ Standing(ReadOne(s).rd, w.bufs, raw, off)
         /\ ReadOne(s).out = Append(s.out, T[Place(s.rd, raw) + 1])
<1> DEFINE x == s.rd
           bs == w.bufs
           n == Len(bs)
           k == x.readbuf
           pos == x.rpos
           left == x.data_remain
           end == Ahead(raw) + x.len
           g == Place(x, raw)
           z == Moved(x, k, pos + 1, left - 1)
<1>1. x \in ReaderRec /\ s.out \in Seq(Byte)  BY DEF ReadState
<1>2. k \in Nat /\ pos \in Nat /\ left \in Int /\ x.len \in Nat  BY <1>1 DEF ReaderRec
<1>3. bs \in Seq(Buf) /\ Laid(bs, off, T) /\ Filled(bs)  BY DEF StreamAt
<1>4. k \in 1..n /\ pos < Len(bs[k].data) /\ off[k - 1] + pos = g  BY DEF Standing, Place
<1>5. end \in Nat /\ end <= Len(T) /\ left > 0 /\ g = end - left
  BY <1>2, AheadNat DEF Place
<1>6. /\ n \in Nat /\ T \in Seq(Byte) /\ Len(T) \in Nat /\ Len(T) = off[n]
      /\ \A i \in 1..n : /\ Len(bs[i].data) \in Nat /\ off[i - 1] \in Nat /\ off[i] \in Nat
                         /\ off[i] = off[i - 1] + Len(bs[i].data)
  BY <1>3, LaidFacts
<1>7. \A i \in 1..n : ReadBufSize(i) = Len(bs[i].data)  BY <1>3 DEF ReadBufSize
<1> HIDE DEF x, n, bs, end, g
<1>8. switch(x) = x
  <2>1. ~(x.rpos >= ReadBufSize(x.readbuf))  BY <1>2, <1>4, <1>6, <1>7
  <2> QED BY <1>1, <2>1, SwitchIs
<1>9. bs[k].data[pos + 1] = T[g + 1]
  <2> DEFINE u == off[k - 1]
             l == Len(bs[k].data)
  <2>1. u \in Nat /\ l \in Nat /\ pos < l /\ u + pos = g  BY <1>4, <1>6
  <2>2. \A j \in 1..l : T[u + j] = bs[k].data[j]  BY <1>3, <1>4 DEF Laid, n
  <2> HIDE DEF u, l
  <2>3. pos + 1 \in 1..l /\ u + (pos + 1) = g + 1  BY <1>2, <2>1
  <2> QED BY <2>2, <2>3
<1>10. pos < ReadBufSize(k)  BY <1>4, <1>7
<1>11. [x EXCEPT !.rpos = @ + 1, !.data_remain = @ - 1] = z  BY <1>1, AdvanceIs
<1>12. ReadOne(s) = [rd |-> switch(z), out |-> Append(s.out, T[g + 1])]
  <2>1. ReadOne(s) =
          LET y == switch(x)
              b == IF y.rpos < ReadBufSize(y.readbuf)
                   THEN bs[y.readbuf].data[y.rpos + 1] ELSE <<0, 0>>
          IN  [rd |-> switch([y EXCEPT !.rpos = @ + 1, !.data_remain = @ - 1]),
               out |-> Append(s.out, b)]
    BY DEF ReadOne, x, bs
  <2> HIDE DEF z
  <2> QED BY <1>8, <1>9, <1>10, <1>11, <2>1
<1>13. /\ z \in ReaderRec /\ z.readbuf = k /\ z.rpos = pos + 1 /\ z.len = x.len
       /\ z.data_remain = left - 1 /\ z.binbuf = x.binbuf /\ z.binbufpos = x.binbufpos
       /\ z.fields = x.fields
  <2> DEFINE p == pos + 1
             l == left - 1
  <2>1. p \in Nat /\ l \in Int /\ k \in Nat  BY <1>2
  <2>2. z = Moved(x, k, p, l)  OBVIOUS
  <2> HIDE DEF p, l, k, z
  <2>3. /\ z \in ReaderRec /\ z.readbuf = k /\ z.rpos = p /\ z.len = x.len
        /\ z.data_remain = l /\ z.binbuf = x.binbuf /\ z.binbufpos = x.binbufpos
        /\ z.fields = x.fields
    BY <1>1, <2>1, <2>2 DEF Moved, ReaderRec
  <2> QED BY <2>3 DEF p, l
<1> HIDE DEF z, k, pos, left
<1> DEFINE l == Len(bs[k].data)
           u == off[k - 1]
           v == off[k]
           big == Len(T)
<1>14. /\ l \in Nat /\ u \in Nat /\ v \in Nat /\ v = u + l /\ u + pos = g /\ pos < l /\ big \in Nat
       /\ (k = n => v = big) /\ end <= big
  BY <1>4, <1>5, <1>6
<1>15. end - (left - 1) = g + 1  BY <1>2, <1>5
<1>16. end = Ahead(raw) + x.len  BY DEF end
<1>17. CASE z.rpos >= ReadBufSize(z.readbuf) /\ z.data_remain > 0
  <2> DEFINE y == Moved(z, z.readbuf + 1, 0, z.data_remain)
  <2>1. switch(z) = y  BY <1>13, <1>17, SwitchIs
  <2>2. /\ y \in ReaderRec /\ y.readbuf = k + 1 /\ y.rpos = 0 /\ y.len = x.len
        /\ y.data_remain = left - 1 /\ y.binbuf = x.binbuf /\ y.binbufpos = x.binbufpos
        /\ y.fields = x.fields
    <3> DEFINE p == z.readbuf + 1
               o == 0
               m == z.data_remain
    <3>1. p \in Nat /\ o \in Nat /\ m \in Int  BY <1>2, <1>13 DEF k, left
    <3>2. y = Moved(z, p, o, m)  OBVIOUS
    <3> HIDE DEF p, o, m, y
    <3>3. /\ y \in ReaderRec /\ y.readbuf = p /\ y.rpos = o /\ y.len = z.len
          /\ y.data_remain = m /\ y.binbuf = z.binbuf /\ y.binbufpos = z.binbufpos
          /\ y.fields = z.fields
      BY <1>13, <3>1, <3>2 DEF Moved, ReaderRec
    <3> QED BY <1>13, <3>3 DEF p, o, m
  <2> HIDE DEF y
  <2>3. pos + 1 >= l /\ left - 1 > 0  BY <1>4, <1>7, <1>13, <1>17
  <2> HIDE DEF u, v, l, big
  <2>4. v = g + 1 /\ v < big  BY <1>2, <1>5, <1>14, <1>15, <2>3
  <2>5. k + 1 \in 1..n /\ k + 1 > 1 /\ (k + 1) - 1 = k
    <3>1. k # n  BY <1>14, <2>4
    <3> QED BY <1>4, <1>6, <3>1
  <2>6. Len(bs[k + 1].data) > 0  BY <1>3, <2>5 DEF Filled, n
  <2>7. off[(k + 1) - 1] + 0 = end - (left - 1)
    <3>1. off[(k + 1) - 1] = v  BY <2>5 DEF v
    <3> QED BY <1>14, <1>15, <2>4, <3>1
  <2>8. Standing(y, bs, raw, off)  BY <1>16, <2>2, <2>5, <2>6, <2>7 DEF Standing, n
  <2>9. Behind(x, y, 1)  BY <2>2 DEF Behind, left
  <2> QED BY <1>12, <2>1, <2>8, <2>9 DEF x, bs, g
<1>18. CASE ~(z.rpos >= ReadBufSize(z.readbuf) /\ z.data_remain > 0)
  <2>1. switch(z) = z  BY <1>13, <1>18, SwitchIs
  <2>2. ASSUME left - 1 > 0
        PROVE  k \in 1..n /\ pos + 1 < Len(bs[k].data) /\ off[k - 1] + (pos + 1) = end - (left - 1)
    <3>1. ~(pos + 1 >= l)  BY <1>4, <1>7, <1>13, <1>18, <2>2
    <3> HIDE DEF u, v, l, big
    <3>2. pos + 1 < l /\ u + (pos + 1) = end - (left - 1)
      <4>1. pos \in Nat  BY <1>2 DEF pos
      <4> QED BY <1>14, <1>15, <3>1, <4>1
    <3> QED BY <1>4, <3>2 DEF u, l
  <2>3. Standing(z, bs, raw, off)  BY <1>13, <1>16, <2>2 DEF Standing, n
  <2>4. Behind(x, z, 1)  BY <1>13 DEF Behind, left
  <2> QED BY <1>12, <2>1, <2>3, <2>4 DEF x, bs, g
<1> QED BY <1>17, <1>18

IsRead(f, x, n) ==
  f = [k \in 0..n |-> IF k = 0 THEN [rd |-> x, out |-> <<>>] ELSE ReadOne(f[k - 1])]

\* read_bytes step by step.
ReadStages(c, x, n) ==
  /\ c[0] = [rd |-> x, out |-> <<>>] /\ \A k \in 1..n : c[k] = ReadOne(c[k - 1])
  /\ \A k \in 0..n : c[k] \in ReadState
  /\ ~(x.data_remain < n) => read_bytes(x, n) = c[n]

LEMMA ReadSteps ==
  ASSUME w.bufs \in Seq(Buf), NEW x \in ReaderRec, NEW n \in Nat
  PROVE  \E c : ReadStages(c, x, n)
<1> DEFINE S == ReadState
           s == [rd |-> x, out |-> <<>>]
           G == [k \in 1..n |-> [y \in S |-> ReadOne(y)]]
           c == CHOOSE f : IsRead(f, x, n)
<1>1. s \in S  BY DEF ReadState
<1>2. \A y \in S : ReadOne(y) \in S  BY ReadOneRec
<1>3. ~(x.data_remain < n) => read_bytes(x, n) = c[n]  BY DEF read_bytes, IsRead, ReadOne
<1> HIDE DEF S
<1>4. G \in [1..n -> [S -> S]]  BY <1>2
<1>5. PICK f \in [0..n -> S] : Follows(f, s, G, n)  BY <1>1, <1>4, RecDefined
<1>6. ASSUME NEW k \in 0..n PROVE f[k] = IF k = 0 THEN s ELSE ReadOne(f[k - 1])
  <2>1. CASE k = 0  BY <1>5, <2>1 DEF Follows
  <2>2. CASE k # 0
    <3>1. k \in 1..n /\ f[k - 1] \in S  BY <2>2
    <3>2. f[k] = G[k][f[k - 1]]  BY <1>5, <3>1 DEF Follows
    <3> QED BY <2>2, <3>1, <3>2
  <2> QED BY <2>1, <2>2
<1>7. f = [k \in 0..n |-> f[k]]  OBVIOUS
<1>8. IsRead(f, x, n)  BY <1>6, <1>7 DEF IsRead
<1>9. IsRead(c, x, n)  BY <1>8
<1> HIDE DEF c
<1>10. \A k \in 0..n : c[k] = IF k = 0 THEN s ELSE ReadOne(c[k - 1])  BY <1>9 DEF IsRead
<1>11. c[0] = s /\ \A k \in 1..n : c[k] = ReadOne(c[k - 1])
  <2>1. 0 \in 0..n /\ \A k \in 1..n : k \in 0..n /\ k # 0  OBVIOUS
  <2> QED BY <1>10, <2>1
<1>12. ASSUME NEW k \in 1..n, c[k - 1] \in S PROVE c[k] \in S
  <2> DEFINE y == c[k - 1]
  <2>1. y \in S  BY <1>12
  <2> HIDE DEF y
  <2>2. ReadOne(y) \in S  BY <1>2, <2>1
  <2> QED BY <1>11, <2>2 DEF y
<1>13. c[0] \in S  BY <1>1, <1>11
<1>14. \A k \in 0..n : c[k] \in S  BY <1>12, <1>13, StaysInside
<1>15. ReadStages(c, x, n)  BY <1>3, <1>11, <1>14 DEF ReadStages, S
<1> QED BY <1>15

\* What reading n bytes gives: those behind the reader's place.
Got(x, got, n, raw, off, T) ==
  /\ Behind(x, got.rd, n) /\ Standing(got.rd, w.bufs, raw, off)
  /\ got \in ReadState /\ got.out \in Seq(Byte) /\ Len(got.out) = n
  /\ \A j \in 1..n : got.out[j] = T[Place(x, raw) + j]

LEMMA ReadBytesAt ==
  ASSUME NEW off, NEW T, StreamAt(off, T), NEW x \in ReaderRec, NEW raw,
         Standing(x, w.bufs, raw, off), Ahead(raw) + x.len <= Len(T),
         NEW n \in Nat, n <= x.data_remain
  PROVE  Got(x, read_bytes(x, n), n, raw, off, T)
<1>1. w.bufs \in Seq(Buf) /\ x.data_remain \in Int /\ x.len \in Nat  BY DEF StreamAt, ReaderRec
<1>2. PICK c : ReadStages(c, x, n)  BY <1>1, ReadSteps
<1>3. /\ c[0] = [rd |-> x, out |-> <<>>] /\ (\A k \in 1..n : c[k] = ReadOne(c[k - 1]))
      /\ (\A k \in 0..n : c[k] \in ReadState) /\ read_bytes(x, n) = c[n]
  BY <1>1, <1>2 DEF ReadStages
<1> DEFINE OK(k) == Got(x, c[k], k, raw, off, T)
<1>4. OK(0)
  <2>1. c[0].rd = x /\ c[0].out = <<>>  BY <1>3
  <2>2. Behind(x, x, 0)  BY <1>1 DEF Behind
  <2>3. c[0] \in ReadState  BY <1>3
  <2> QED BY <2>1, <2>2, <2>3 DEF Got
<1>5. ASSUME NEW k \in 1..n, OK(k - 1) PROVE OK(k)
  <2> DEFINE s == c[k - 1]
             y == s.rd
             z == ReadOne(s)
             g == Place(x, raw)
  <2>1. k - 1 \in 0..n /\ k - 1 \in Nat /\ (k - 1) + 1 = k  OBVIOUS
  <2>2. s \in ReadState /\ c[k] = z  BY <1>3, <2>1
  <2>3. /\ Behind(x, y, k - 1) /\ Standing(y, w.bufs, raw, off)
        /\ s.out \in Seq(Byte) /\ Len(s.out) = k - 1
        /\ \A j \in 1..(k - 1) : s.out[j] = T[g + j]
    BY <1>5 DEF Got
  <2> HIDE DEF s
  <2>4. y.len = x.len /\ y.data_remain = x.data_remain - (k - 1)  BY <2>3 DEF Behind
  <2>5. y.data_remain > 0  BY <1>1, <2>4
  <2>6. /\ Behind(y, z.rd, 1) /\ Standing(z.rd, w.bufs, raw, off)
        /\ z.out = Append(s.out, T[Place(y, raw) + 1])
    BY <2>2, <2>3, <2>4, <2>5, ReadOneAt
  <2>7. Place(y, raw) = g + (k - 1) /\ g \in Int
    <3>1. Ahead(raw) \in Nat  BY AheadNat
    <3> QED BY <1>1, <2>4, <3>1 DEF Place
  <2>8. Place(y, raw) + 1 = g + k  BY <2>1, <2>7
  <2> HIDE DEF y, z, g
  <2>9. Behind(x, z.rd, k)
    <3>1. z.rd.data_remain = x.data_remain - k  BY <1>1, <2>4, <2>6 DEF Behind
    <3> QED BY <2>3, <2>6, <3>1 DEF Behind
  <2>10. z \in ReadState  BY <1>1, <2>2, ReadOneRec DEF z
  <2>11. z.out \in Seq(Byte)  BY <2>10 DEF ReadState
  <2>12. Len(z.out) = k /\ z.out[k] = T[g + k] /\ \A j \in 1..(k - 1) : z.out[j] = s.out[j]
    <3> DEFINE e == T[g + k]
               o == s.out
    <3>1. z.out = Append(o, e) /\ o \in Seq(Byte) /\ Len(o) = k - 1  BY <2>3, <2>6, <2>8
    <3> HIDE DEF e, o
    <3>2. Len(Append(o, e)) = k /\ Append(o, e)[k] = e /\ \A j \in 1..(k - 1) : Append(o, e)[j] = o[j]
      BY <3>1
    <3> QED BY <3>1, <3>2 DEF e, o
  <2>13. ASSUME NEW j \in 1..k PROVE z.out[j] = T[g + j]
    <3>1. CASE j = k  BY <2>12, <3>1
    <3>2. CASE j # k
      <4>1. j \in 1..(k - 1)  BY <3>2
      <4> QED BY <2>3, <2>12, <4>1
    <3> QED BY <3>1, <3>2
  <2>14. Got(x, z, k, raw, off, T)  BY <2>6, <2>9, <2>10, <2>11, <2>12, <2>13 DEF Got, g
  <2> QED BY <2>2, <2>14
<1> HIDE DEF OK
<1> DEFINE Bad == {k \in 0..n : ~OK(k)}
<1>6. ASSUME Bad # {} PROVE FALSE
  <2>1. Bad \in SUBSET Nat  OBVIOUS
  <2>2. PICK k \in Bad : \A z \in Bad : k <= z  BY <1>6, <2>1, LeastElement
  <2>3. k \in 0..n /\ ~OK(k)  BY <2>2
  <2>4. k # 0  BY <1>4, <2>3
  <2>5. k \in 1..n /\ k - 1 \in 0..n /\ ~(k <= k - 1)  BY <2>3, <2>4
  <2>6. OK(k - 1)  BY <2>2, <2>5
  <2> QED BY <1>5, <2>3, <2>5, <2>6
<1>7. n \in 0..n  OBVIOUS
<1>8. OK(n)  BY <1>6, <1>7
<1> QED BY <1>3, <1>8 DEF OK

\* A reader n bytes further, whose binaries still fit.
Past(x, z, n, raw, off) ==
  /\ CopiesFit(z) /\ z.len = x.len /\ z.fields = x.fields /\ z.data_remain = x.data_remain - n
  /\ Standing(z, w.bufs, raw, off)

\* The n bytes of T behind g.
Piece(out, T, g, n) == out \in Seq(Byte) /\ Len(out) = n /\ \A j \in 1..n : out[j] = T[g + j]

\* A reader with everything it needs.
Ready(x, raw, off, T) ==
  /\ StreamAt(off, T) /\ CopiesFit(x) /\ Standing(x, w.bufs, raw, off)
  /\ Ahead(raw) + x.len <= Len(T)

LEMMA PlainAt ==
  ASSUME NEW off, NEW T, NEW x, NEW raw, Ready(x, raw, off, T), NEW n \in Nat, n <= x.data_remain
  PROVE  /\ Past(x, read_bytes(x, n).rd, n, raw, off)
         /\ Piece(read_bytes(x, n).out, T, Place(x, raw), n)
<1> DEFINE got == read_bytes(x, n)
           z == got.rd
<1>1. x \in ReaderRec  BY DEF Ready, CopiesFit
<1>2. Got(x, got, n, raw, off, T)  BY <1>1, ReadBytesAt DEF Ready
<1> HIDE DEF got
<1>3. Behind(x, z, n) /\ Standing(z, w.bufs, raw, off) /\ Piece(got.out, T, Place(x, raw), n)
  BY <1>2 DEF Got, Piece
<1>4. /\ x.data_remain \in Int /\ x.len \in Nat /\ x.binbufpos \in Nat /\ x.data_remain >= 0
      /\ x.binbufpos + x.data_remain <= x.len
      /\ x.binbuf = x.len \/ (x.binbuf = 0 /\ x.binbufpos = 0)
  BY DEF Ready, CopiesFit, ReaderRec
<1>5. /\ z \in ReaderRec /\ z.len = x.len /\ z.data_remain = x.data_remain - n
      /\ z.binbuf = x.binbuf /\ z.binbufpos = x.binbufpos /\ z.fields = x.fields
  BY <1>3 DEF Behind
<1> HIDE DEF z
<1>6. z.data_remain >= 0 /\ z.binbufpos + z.data_remain <= z.len  BY <1>4, <1>5
<1>7. CopiesFit(z)  BY <1>4, <1>5, <1>6 DEF CopiesFit
<1> QED BY <1>3, <1>5, <1>7 DEF Past, got, z

LEMMA ContentsAt ==
  ASSUME NEW off, NEW T, NEW x, NEW raw, Ready(x, raw, off, T), NEW n \in Nat, n <= x.data_remain
  PROVE  /\ Past(x, read_contents(x, n).rd, n, raw, off)
         /\ Piece(read_contents(x, n).out, T, Place(x, raw), n)
         /\ read_contents(x, n) = [rd |-> read_contents(x, n).rd, out |-> read_contents(x, n).out]
<1> DEFINE got == read_bytes(x, n)
           here == x.data_remain < n \/ ReadBufSize(x.readbuf) - x.rpos >= n
           size == IF x.binbuf = 0 THEN binbuf_size(x, n) ELSE got.rd.binbuf
           pos == got.rd.binbufpos + n
           z == [[got.rd EXCEPT !.binbuf = size] EXCEPT !.binbufpos = pos]
<1>1. x \in ReaderRec  BY DEF Ready, CopiesFit
<1>2. Got(x, got, n, raw, off, T)  BY <1>1, ReadBytesAt DEF Ready
<1>3. Past(x, got.rd, n, raw, off) /\ Piece(got.out, T, Place(x, raw), n)  BY PlainAt
<1>4. read_contents(x, n) = IF here THEN got
                            ELSE [got EXCEPT !.rd.binbuf = IF x.binbuf = 0 THEN binbuf_size(x, n) ELSE @,
                                             !.rd.binbufpos = @ + n]
  BY DEF read_contents
<1> HIDE DEF got
<1>5. CASE here
  <2>1. got = [rd |-> got.rd, out |-> got.out]  BY <1>2 DEF Got, ReadState
  <2>2. read_contents(x, n) = got  BY <1>4, <1>5
  <2> QED BY <1>3, <2>1, <2>2
<1>6. CASE ~here
  <2>1. got \in ReadState  BY <1>2 DEF Got
  <2>2. got = [rd |-> got.rd, out |-> got.out] /\ got.rd \in ReaderRec  BY <2>1 DEF ReadState
  <2>3. read_contents(x, n) = [rd |-> z, out |-> got.out]
    <3>1. read_contents(x, n) = [got EXCEPT !.rd.binbuf = size, !.rd.binbufpos = @ + n]
      BY <1>4, <1>6
    <3> DEFINE y == [got.rd EXCEPT !.binbuf = size]
               h == [rd |-> y, out |-> got.out]
    <3>2. [got EXCEPT !.rd.binbuf = size] = h  BY <2>2
    <3>3. y.binbufpos = got.rd.binbufpos  BY <2>2 DEF ReaderRec
    <3> HIDE DEF size
    <3>4. [got EXCEPT !.rd.binbuf = size, !.rd.binbufpos = @ + n]
            = [[got EXCEPT !.rd.binbuf = size] EXCEPT !.rd.binbufpos = @ + n]
      OBVIOUS
    <3>5. [h EXCEPT !.rd.binbufpos = @ + n] = [rd |-> z, out |-> got.out]
      <4> HIDE DEF y
      <4>1. [h EXCEPT !.rd.binbufpos = @ + n]
              = [rd |-> [y EXCEPT !.binbufpos = @ + n], out |-> got.out]
        OBVIOUS
      <4>2. [y EXCEPT !.binbufpos = @ + n] = [y EXCEPT !.binbufpos = pos]  BY <3>3
      <4> QED BY <4>1, <4>2 DEF y
    <3> QED BY <3>1, <3>2, <3>4, <3>5
  <2>4. /\ x.data_remain \in Int /\ x.len \in Nat /\ x.binbufpos \in Nat /\ x.data_remain >= 0
        /\ x.binbufpos + x.data_remain <= x.len
        /\ x.binbuf = x.len \/ (x.binbuf = 0 /\ x.binbufpos = 0)
    BY DEF Ready, CopiesFit, ReaderRec
  <2>5. Behind(x, got.rd, n)  BY <1>2 DEF Got
  <2>6. got.rd.binbuf = x.binbuf /\ got.rd.binbufpos = x.binbufpos  BY <2>5 DEF Behind
  <2>7. size = x.len /\ pos = x.binbufpos + n /\ pos \in Nat /\ size \in Nat
    BY <2>4, <2>6 DEF binbuf_size
  <2> DEFINE v == got.rd
  <2>8. v \in ReaderRec  BY <2>2
  <2> HIDE DEF size, pos, v
  <2>9. /\ z \in ReaderRec /\ z.readbuf = v.readbuf /\ z.rpos = v.rpos /\ z.len = v.len
        /\ z.data_remain = v.data_remain /\ z.binbuf = size /\ z.binbufpos = pos
        /\ z.fields = v.fields
    <3>1. z = [[v EXCEPT !.binbuf = size] EXCEPT !.binbufpos = pos]  BY DEF v
    <3> HIDE DEF z
    <3> QED BY <2>7, <2>8, <3>1 DEF ReaderRec
  <2> HIDE DEF z
  <2>10. /\ v.len = x.len /\ v.fields = x.fields /\ v.data_remain = x.data_remain - n
         /\ Standing(v, w.bufs, raw, off)
    BY <1>3 DEF Past, v
  <2>11. Standing(z, w.bufs, raw, off)  BY <2>9, <2>10 DEF Standing
  <2>12. CopiesFit(z)
    <3>1. z.data_remain >= 0 /\ z.binbufpos + z.data_remain <= z.len  BY <2>4, <2>7, <2>9, <2>10
    <3> QED BY <2>7, <2>9, <2>10, <3>1 DEF CopiesFit
  <2>13. Past(x, z, n, raw, off)  BY <2>9, <2>10, <2>11, <2>12 DEF Past
  <2>14. read_contents(x, n).rd = z /\ read_contents(x, n).out = got.out  BY <2>3
  <2> QED BY <1>3, <2>3, <2>13, <2>14
<1> QED BY <1>5, <1>6

\* Reading on from behind some bytes.
LEMMA PastReady ==
  ASSUME NEW off, NEW T, NEW x, NEW raw, Ready(x, raw, off, T), NEW n \in Int, NEW z,
         Past(x, z, n, raw, off)
  PROVE  Ready(z, raw, off, T) /\ Place(z, raw) = Place(x, raw) + n /\ z.data_remain \in Int
<1>1. x.len \in Nat /\ x.data_remain \in Int  BY DEF Ready, CopiesFit, ReaderRec
<1>2. z.len = x.len /\ z.data_remain = x.data_remain - n  BY DEF Past
<1>3. Ahead(raw) \in Nat  BY AheadNat
<1>4. Place(z, raw) = Place(x, raw) + n  BY <1>1, <1>2, <1>3 DEF Place
<1>5. Ready(z, raw, off, T)  BY <1>2 DEF Ready, Past
<1> QED BY <1>1, <1>2, <1>4, <1>5

LEMMA PieceIs ==
  ASSUME NEW out, NEW T, NEW g, NEW n \in Nat, Piece(out, T, g, n), NEW s \in Seq(Byte),
         Len(s) = n, \A j \in 1..n : T[g + j] = s[j]
  PROVE  out = s
<1>1. out \in [1..n -> Byte] /\ s \in [1..n -> Byte] /\ \A j \in 1..n : out[j] = s[j]
  BY DEF Piece
<1> QED BY <1>1

LEMMA DecodeIs ==
  ASSUME NEW v \in Nat, NEW n \in Nat \ {0}
  PROVE  Decode(Encode(v, n)) = v
<1> DEFINE s == Encode(v, n)
<1>1. s \in Seq(Byte) /\ Len(s) = n  BY EncodeSeq
<1>2. s[1] = <<v, 1>>  BY DEF Encode
<1>3. s[1][1] = v  BY <1>2
<1> HIDE DEF s
<1>4. s # <<>>  BY <1>1
<1>5. s = Encode(s[1][1], Len(s))  BY <1>1, <1>3 DEF s
<1>6. Decode(s) = v  BY <1>3, <1>4, <1>5 DEF Decode
<1> QED BY <1>6 DEF s

\* The size of a binary, and then its contents.
LEMMA BinaryAt ==
  ASSUME NEW off, NEW T, NEW x, NEW raw, Ready(x, raw, off, T), LenSize > 0, NEW n \in Nat,
         LenSize + n <= x.data_remain,
         \A j \in 1..LenSize : T[Place(x, raw) + j] = Encode(n, LenSize)[j]
  PROVE  /\ Past(x, rpacket_read_binary(x).rd, LenSize + n, raw, off)
         /\ Piece(rpacket_read_binary(x).out, T, Place(x, raw) + LenSize, n)
<1> DEFINE lead == read_bytes(x, LenSize)
           y == lead.rd
           got == read_contents(y, n)
<1>1. LenSize \in Nat  BY PacketAssumption
<1>2. x.data_remain \in Int  BY DEF Ready, CopiesFit, ReaderRec
<1>3. LenSize <= x.data_remain  BY <1>1, <1>2
<1>4. Past(x, y, LenSize, raw, off) /\ Piece(lead.out, T, Place(x, raw), LenSize)
  BY <1>1, <1>3, PlainAt
<1>5. Encode(n, LenSize) \in Seq(Byte) /\ Len(Encode(n, LenSize)) = LenSize
  BY <1>1, EncodeSeq
<1>6. lead.out = Encode(n, LenSize)
  <2> DEFINE g == Place(x, raw)
             s == Encode(n, LenSize)
             o == lead.out
  <2>1. Piece(o, T, g, LenSize) /\ s \in Seq(Byte) /\ Len(s) = LenSize
        /\ \A j \in 1..LenSize : T[g + j] = s[j]
    BY <1>4, <1>5
  <2> HIDE DEF g, s, o
  <2>2. o = s  BY <1>1, <2>1, PieceIs
  <2> QED BY <2>2 DEF o, s
<1>7. Decode(lead.out) = n  BY <1>1, <1>6, DecodeIs
<1>8. rpacket_read_binary(x) = got  BY <1>7 DEF rpacket_read_binary
<1> HIDE DEF y
<1>9. Ready(y, raw, off, T) /\ Place(y, raw) = Place(x, raw) + LenSize /\ y.data_remain \in Int
  BY <1>1, <1>4, PastReady
<1>10. y.data_remain = x.data_remain - LenSize /\ y.len = x.len /\ y.fields = x.fields
  BY <1>4 DEF Past
<1>11. n <= y.data_remain  BY <1>1, <1>2, <1>10
<1>12. Past(y, got.rd, n, raw, off) /\ Piece(got.out, T, Place(y, raw), n)
  BY <1>9, <1>11, ContentsAt
<1> HIDE DEF got
<1>13. Past(x, got.rd, LenSize + n, raw, off)
  <2>1. got.rd.data_remain = y.data_remain - n  BY <1>12 DEF Past
  <2>2. got.rd.data_remain = x.data_remain - (LenSize + n)  BY <1>1, <1>2, <1>10, <2>1
  <2> QED BY <1>10, <1>12, <2>2 DEF Past
<1> QED BY <1>8, <1>9, <1>12, <1>13

LEMMA WireSeq ==
  ASSUME NEW f \in FieldRec, NEW raw \in BOOLEAN
  PROVE  /\ Contents(f) \in Seq(Byte) /\ Len(Contents(f)) = f.size /\ f.size \in Nat
         /\ Wire(f, raw) \in Seq(Byte) /\ Len(Wire(f, raw)) \in Nat
         /\ (raw \/ f.kind = "number") => Wire(f, raw) = Contents(f)
         /\ ~(raw \/ f.kind = "number") =>
              /\ Len(Wire(f, raw)) = LenSize + f.size
              /\ \A j \in 1..LenSize : Wire(f, raw)[j] = Encode(f.size, LenSize)[j]
              /\ \A j \in 1..f.size : Wire(f, raw)[LenSize + j] = Contents(f)[j]
<1> DEFINE s == Contents(f)
           e == Encode(f.size, LenSize)
<1>1. LenSize \in Nat /\ f.size \in Nat /\ f.value \in Nat  BY PacketAssumption DEF FieldRec
<1>2. s \in Seq(Byte) /\ Len(s) = f.size  BY <1>1, EncodeSeq DEF Contents
<1>3. e \in Seq(Byte) /\ Len(e) = LenSize  BY <1>1, EncodeSeq
<1>4. Wire(f, raw) = (IF raw \/ f.kind = "number" THEN <<>> ELSE e) \o s  BY DEF Wire
<1> HIDE DEF s, e
<1>5. CASE raw \/ f.kind = "number"
  <2>1. Wire(f, raw) = <<>> \o s  BY <1>4, <1>5
  <2>2. <<>> \o s = s  BY <1>2
  <2>3. Wire(f, raw) = s  BY <2>1, <2>2
  <2> QED BY <1>1, <1>2, <1>5, <2>3 DEF s
<1>6. CASE ~(raw \/ f.kind = "number")
  <2>1. Wire(f, raw) = e \o s  BY <1>4, <1>6
  <2>2. /\ e \o s \in Seq(Byte) /\ Len(e \o s) = LenSize + f.size
        /\ (\A j \in 1..LenSize : (e \o s)[j] = e[j])
        /\ \A j \in 1..f.size : (e \o s)[LenSize + j] = s[j]
    <3> DEFINE m == LenSize
               n == f.size
    <3>1. m \in Nat /\ n \in Nat /\ Len(e) = m /\ Len(s) = n  BY <1>1, <1>2, <1>3
    <3> HIDE DEF m, n
    <3>2. /\ e \o s \in Seq(Byte) /\ Len(e \o s) = m + n
          /\ (\A j \in 1..m : (e \o s)[j] = e[j])
          /\ \A j \in 1..n : (e \o s)[m + j] = s[j]
      BY <1>2, <1>3, <3>1
    <3> QED BY <3>2 DEF m, n
  <2>3. LenSize + f.size \in Nat  BY <1>1
  <2> QED BY <1>1, <1>2, <1>6, <2>1, <2>2, <2>3 DEF s, e
<1> QED BY <1>5, <1>6

\* T has the bytes s behind g.
Holds(T, g, s) == \A j \in 1..Len(s) : T[g + j] = s[j]

\* A field is read as it was written, and the reader is behind it.
LEMMA FieldAt ==
  ASSUME NEW off, NEW T, NEW x, w.raw = FALSE, Ready(x, w.raw, off, T), LenSize > 0,
         NEW f \in FieldRec, Len(Wire(f, w.raw)) <= x.data_remain,
         Holds(T, Place(x, w.raw), Wire(f, w.raw))
  PROVE  /\ Past(x, ReadField(x, f).rd, Len(Wire(f, w.raw)), w.raw, off)
         /\ ReadField(x, f).out = Contents(f)
<1> DEFINE g == Place(x, w.raw)
           s == Contents(f)
           wire == Wire(f, w.raw)
           n == f.size
<1>1. /\ s \in Seq(Byte) /\ Len(s) = n /\ n \in Nat /\ wire \in Seq(Byte) /\ Len(wire) \in Nat
      /\ (f.kind = "number") => wire = s
      /\ ~(f.kind = "number") => /\ Len(wire) = LenSize + n
                                 /\ \A j \in 1..LenSize : wire[j] = Encode(n, LenSize)[j]
                                 /\ \A j \in 1..n : wire[LenSize + j] = s[j]
  BY WireSeq
<1>2. \A j \in 1..Len(wire) : T[g + j] = wire[j]  BY DEF Holds
<1>3. g \in Int /\ LenSize \in Nat
  <2>1. x.len \in Nat /\ x.data_remain \in Int /\ Ahead(w.raw) \in Nat
    BY AheadNat DEF Ready, CopiesFit, ReaderRec
  <2> QED BY <2>1, PacketAssumption DEF Place
<1>4. CASE f.kind = "number"
  <2>1. ReadField(x, f) = read_bytes(x, n)  BY <1>4 DEF ReadField
  <2>2. wire = s /\ Len(wire) = n  BY <1>1, <1>4
  <2>3. n <= x.data_remain  BY <2>2
  <2>4. Past(x, read_bytes(x, n).rd, n, w.raw, off) /\ Piece(read_bytes(x, n).out, T, g, n)
    BY <1>1, <2>3, PlainAt
  <2>5. read_bytes(x, n).out = s
    <3> DEFINE o == read_bytes(x, n).out
    <3>1. Piece(o, T, g, n) /\ \A j \in 1..n : T[g + j] = s[j]  BY <1>2, <2>2, <2>4
    <3> HIDE DEF o, s, g, n
    <3>2. o = s  BY <1>1, <3>1, PieceIs
    <3> QED BY <3>2 DEF o
  <2> QED BY <2>1, <2>2, <2>4, <2>5
<1>5. CASE f.kind # "number"
  <2>1. f.kind = "binary"  BY <1>5 DEF FieldRec
  <2>2. ReadField(x, f) = rpacket_read_binary(x)  BY <2>1 DEF ReadField
  <2>3. /\ Len(wire) = LenSize + n /\ (\A j \in 1..LenSize : wire[j] = Encode(n, LenSize)[j])
        /\ \A j \in 1..n : wire[LenSize + j] = s[j]
    BY <1>1, <1>5
  <2>4. LenSize + n <= x.data_remain  BY <2>3
  <2>5. \A j \in 1..LenSize : T[g + j] = Encode(n, LenSize)[j]
    <3>1. \A j \in 1..LenSize : j \in 1..(LenSize + n)  BY <1>1, <1>3
    <3> QED BY <1>2, <2>3, <3>1
  <2> DEFINE got == rpacket_read_binary(x)
             h == g + LenSize
  <2>6. Past(x, got.rd, LenSize + n, w.raw, off) /\ Piece(got.out, T, h, n)
    BY <1>1, <2>4, <2>5, BinaryAt
  <2>7. ASSUME NEW j \in 1..n PROVE T[h + j] = s[j]
    <3>1. LenSize + j \in 1..(LenSize + n) /\ g + (LenSize + j) = h + j
      <4> HIDE DEF g, n
      <4> QED BY <1>1, <1>3
    <3> QED BY <1>2, <2>3, <3>1
  <2>8. got.out = s
    <3> DEFINE o == got.out
    <3>1. Piece(o, T, h, n)  BY <2>6
    <3> HIDE DEF o, s, h, n
    <3>2. o = s  BY <1>1, <2>7, <3>1, PieceIs
    <3> QED BY <3>2 DEF o
  <2> QED BY <2>2, <2>3, <2>6, <2>8
<1> QED BY <1>4, <1>5

\* A raw packet is read in one piece.
LEMMA RawAt ==
  ASSUME NEW off, NEW T, NEW x, NEW raw, Ready(x, raw, off, T)
  PROVE  /\ Past(x, rpacket_raw_read_binary(x).rd, x.data_remain, raw, off)
         /\ Piece(rpacket_raw_read_binary(x).out, T, Place(x, raw), x.data_remain)
<1> DEFINE n == x.data_remain
           got == read_contents(x, n)
           here == ReadBufSize(x.readbuf) - x.rpos >= n
           z == [got.rd EXCEPT !.rpos = x.rpos]
<1>1. x \in ReaderRec /\ n \in Nat /\ x.rpos \in Nat
  <2>1. x \in ReaderRec /\ n \in Int /\ n >= 0 /\ x.rpos \in Nat  BY DEF Ready, CopiesFit, ReaderRec
  <2> QED BY <2>1
<1>2. n <= x.data_remain  BY <1>1
<1>3. /\ Past(x, got.rd, n, raw, off) /\ Piece(got.out, T, Place(x, raw), n)
      /\ got = [rd |-> got.rd, out |-> got.out]
  <2> DEFINE m == n
  <2> HIDE DEF n
  <2> QED BY <1>1, <1>2, ContentsAt
<1>4. rpacket_raw_read_binary(x) = IF here THEN [got EXCEPT !.rd.rpos = x.rpos] ELSE got
  BY DEF rpacket_raw_read_binary
<1> HIDE DEF got
<1>5. CASE ~here  BY <1>3, <1>4, <1>5
<1>6. CASE here
  <2>1. got.rd \in ReaderRec  BY <1>3 DEF Past, CopiesFit
  <2>2. rpacket_raw_read_binary(x).rd = z /\ rpacket_raw_read_binary(x).out = got.out
    <3>1. got = [rd |-> got.rd, out |-> got.out]  BY <1>3
    <3>2. [got EXCEPT !.rd.rpos = x.rpos] = [rd |-> z, out |-> got.out]  BY <3>1
    <3> HIDE DEF z
    <3> QED BY <1>4, <1>6, <3>2
  <2> DEFINE v == got.rd
  <2>3. v \in ReaderRec  BY <2>1
  <2> HIDE DEF v
  <2>4. /\ z \in ReaderRec /\ z.len = v.len /\ z.data_remain = v.data_remain
        /\ z.binbuf = v.binbuf /\ z.binbufpos = v.binbufpos /\ z.fields = v.fields
    <3>1. z = [v EXCEPT !.rpos = x.rpos]  BY DEF v
    <3> HIDE DEF z
    <3> QED BY <1>1, <2>3, <3>1 DEF ReaderRec
  <2> HIDE DEF z
  <2>5. v.len = x.len /\ v.fields = x.fields /\ v.data_remain = x.data_remain - n /\ CopiesFit(v)
    BY <1>3 DEF Past, v
  <2>6. z.data_remain = 0  BY <1>1, <2>4, <2>5
  <2>7. CopiesFit(z)  BY <2>4, <2>5 DEF CopiesFit
  <2>8. Standing(z, w.bufs, raw, off)  BY <2>6 DEF Standing
  <2>9. Past(x, z, n, raw, off)  BY <2>4, <2>5, <2>7, <2>8 DEF Past
  <2> QED BY <1>3, <2>2, <2>9
<1> QED BY <1>5, <1>6


\* The fields are in the order in which they were written, and do not overlap.
LEMMA SpreadFacts ==
  ASSUME NEW fs \in Seq(FieldRec), NEW raw \in BOOLEAN, NEW at, NEW T, Spread(fs, raw, at, T)
  PROVE  /\ \A k \in 1..Len(fs) :
              /\ fs[k] \in FieldRec /\ Wire(fs[k], raw) \in Seq(Byte) /\ Len(Wire(fs[k], raw)) \in Nat
              /\ at[k] \in Nat /\ at[k + 1] \in Nat /\ at[k + 1] = at[k] + Len(Wire(fs[k], raw))
              /\ Holds(T, at[k], Wire(fs[k], raw))
         /\ \A i \in 1..(Len(fs) + 1) : /\ at[i] \in Nat
                                        /\ \A j \in i..(Len(fs) + 1) : at[i] <= at[j]
<1> DEFINE n == Len(fs)
<1>1. /\ n \in Nat /\ at \in [1..(n + 1) -> Nat]
      /\ \A k \in 1..n : at[k + 1] = at[k] + Len(Wire(fs[k], raw))
      /\ \A k \in 1..n : Holds(T, at[k], Wire(fs[k], raw))
  BY DEF Spread, Holds
<1>2. ASSUME NEW k \in 1..n
      PROVE  fs[k] \in FieldRec /\ Wire(fs[k], raw) \in Seq(Byte) /\ Len(Wire(fs[k], raw)) \in Nat
  <2>1. fs[k] \in FieldRec  OBVIOUS
  <2> QED BY <2>1, WireSeq
<1> HIDE DEF n
<1>3. \A i \in 1..(n + 1) : at[i] \in Nat  BY <1>1
<1>4. \A k \in 1..n : k \in 1..(n + 1) /\ k + 1 \in 1..(n + 1)  BY <1>1
<1>5. \A k \in 1..n : at[k] \in Nat /\ at[k + 1] \in Nat  BY <1>3, <1>4
<1> DEFINE f == [k \in 0..n |-> at[k + 1]]
<1>6. f \in [0..n -> Nat]
  <2>1. \A k \in 0..n : k + 1 \in 1..(n + 1)  BY <1>1
  <2> QED BY <1>3, <2>1
<1>7. ASSUME NEW k \in 1..n PROVE f[k - 1] <= f[k]
  <2>1. k - 1 \in 0..n /\ (k - 1) + 1 = k /\ k \in 0..n  BY <1>1
  <2>2. f[k - 1] = at[k] /\ f[k] = at[k + 1]  BY <2>1
  <2> DEFINE x == at[k]
             y == at[k + 1]
             z == Len(Wire(fs[k], raw))
  <2>3. x \in Nat /\ y \in Nat /\ z \in Nat /\ y = x + z  BY <1>1, <1>2, <1>5
  <2> HIDE DEF x, y, z
  <2>4. x <= y  BY <2>3
  <2> QED BY <2>2, <2>4 DEF x, y
<1>8. ASSUME NEW i \in 1..(n + 1), NEW j \in i..(n + 1) PROVE at[i] <= at[j]
  <2> DEFINE a == i - 1
             b == j - 1
  <2>1. a \in 0..n /\ b \in a..n /\ b \in 0..n /\ a + 1 = i /\ b + 1 = j  BY <1>1
  <2> HIDE DEF a, b
  <2>2. f[a] = at[i] /\ f[b] = at[j]  BY <2>1
  <2> HIDE DEF f
  <2>3. f[a] <= f[b]  BY <1>1, <1>6, <1>7, <2>1, Rising
  <2> QED BY <2>2, <2>3
<1> QED BY <1>1, <1>2, <1>3, <1>5, <1>8 DEF n

\* One field of ReadRest.
RestOne(s, k) ==
  LET got == ReadField(s.rd, fields[k])
  IN  [rd |-> got.rd, out |-> Append(s.out, got.out)]

IsRest(f, x, d, m) ==
  f = [k \in d..m |-> IF k = d THEN [rd |-> x, out |-> <<>>] ELSE RestOne(f[k - 1], k)]

LEMMA RestDefined ==
  ASSUME NEW x, NEW d \in Nat, NEW m \in Nat, d <= m
  PROVE  \E f : IsRest(f, x, d, m)
<1> DEFINE Bad == {i \in Nat : d <= i /\ ~ \E f : IsRest(f, x, d, i)}
           s == [rd |-> x, out |-> <<>>]
<1>1. ASSUME Bad # {} PROVE FALSE
  <2>1. Bad \in SUBSET Nat  OBVIOUS
  <2>2. PICK i \in Bad : \A y \in Bad : i <= y  BY <1>1, <2>1, LeastElement
  <2>3. i \in Nat /\ d <= i /\ ~ \E f : IsRest(f, x, d, i)  BY <2>2
  <2>4. CASE i = d
    <3> DEFINE g == [k \in d..d |-> s]
    <3>1. IsRest(g, x, d, d)
      <4>1. \A k \in d..d : k = d  OBVIOUS
      <4> QED BY <4>1 DEF IsRest
    <3> QED BY <2>3, <2>4, <3>1
  <2>5. CASE i # d
    <3>1. i - 1 \in Nat /\ d <= i - 1 /\ ~(i <= i - 1)  BY <2>3, <2>5
    <3>2. i - 1 \notin Bad  BY <2>2, <3>1
    <3>3. PICK g : IsRest(g, x, d, i - 1)  BY <3>1, <3>2
    <3> DEFINE end == RestOne(g[i - 1], i)
               h == [k \in d..i |-> IF k < i THEN g[k] ELSE end]
    <3>4. \A k \in d..(i - 1) : g[k] = IF k = d THEN s ELSE RestOne(g[k - 1], k)
      BY <3>3 DEF IsRest
    <3> HIDE DEF s
    <3>5. ASSUME NEW k \in d..i PROVE h[k] = IF k = d THEN s ELSE RestOne(h[k - 1], k)
      <4>1. CASE k < i
        <5>1. h[k] = g[k] /\ k \in d..(i - 1)  BY <2>3, <4>1
        <5>2. k # d => h[k - 1] = g[k - 1]
          <6>1. k # d => k - 1 \in d..i /\ k - 1 < i  BY <2>3, <4>1
          <6> QED BY <6>1
        <5> QED BY <3>4, <5>1, <5>2
      <4>2. CASE k = i
        <5>1. i - 1 \in d..i /\ i - 1 < i /\ i \in d..i /\ ~(i < i)  BY <2>3, <3>1
        <5>2. h[i - 1] = g[i - 1] /\ h[i] = end  BY <5>1
        <5> QED BY <2>5, <4>2, <5>2
      <4> QED BY <2>3, <4>1, <4>2
    <3>6. h = [k \in d..i |-> h[k]]  OBVIOUS
    <3> HIDE DEF h
    <3>7. IsRest(h, x, d, i)  BY <3>5, <3>6 DEF IsRest, s
    <3> QED BY <2>3, <3>7
  <2> QED BY <2>4, <2>5
<1>2. m \notin Bad  BY <1>1
<1> QED BY <1>2

RestStages(c, x, d, m) ==
  /\ c[d] = [rd |-> x, out |-> <<>>]
  /\ \A k \in (d + 1)..m : c[k] = RestOne(c[k - 1], k)

LEMMA RestSteps ==
  ASSUME done \in Nat, r.fields \in Nat, done <= r.fields
  PROVE  \E c : RestStages(c, r, done, r.fields) /\ ReadRest = c[r.fields].out
<1> DEFINE d == done
           m == r.fields
           c == CHOOSE f : IsRest(f, r, d, m)
<1>1. d \in Nat /\ m \in Nat /\ d <= m  OBVIOUS
<1>2. ReadRest = c[m].out  BY DEF ReadRest, IsRest, RestOne
<1> HIDE DEF d, m
<1>3. IsRest(c, r, d, m)  BY <1>1, RestDefined
<1> HIDE DEF c
<1>4. \A k \in d..m : c[k] = IF k = d THEN [rd |-> r, out |-> <<>>] ELSE RestOne(c[k - 1], k)
  BY <1>3 DEF IsRest
<1>5. d \in d..m /\ \A k \in (d + 1)..m : k \in d..m /\ k # d  BY <1>1
<1>6. RestStages(c, r, d, m)  BY <1>4, <1>5 DEF RestStages
<1> QED BY <1>2, <1>6 DEF d, m

\* What has been read of the fields d + 1 to k.
ReadTo(s, d, k, x, off, T, at) ==
  /\ Ready(s.rd, w.raw, off, T) /\ Place(s.rd, w.raw) = at[k + 1] /\ s.rd.len = x.len
  /\ s.out \in Seq(Seq(Byte)) /\ Len(s.out) = k - d
  /\ \A j \in 1..(k - d) : s.out[j] = Contents(fields[d + j])

LEMMA RestOneAt ==
  ASSUME fields \in Seq(FieldRec), w.raw = FALSE, LenSize > 0, NEW off, NEW T, NEW at,
         Spread(fields, w.raw, at, T), NEW x, NEW d \in Nat, NEW m \in 0..Len(fields),
         Ahead(w.raw) + x.len = at[m + 1],
         NEW k \in (d + 1)..m, NEW s, ReadTo(s, d, k - 1, x, off, T, at)
  PROVE  ReadTo(RestOne(s, k), d, k, x, off, T, at)
<1> DEFINE n == Len(fields)
           f == fields[k]
           wire == Wire(f, w.raw)
           y == s.rd
           got == ReadField(y, f)
           z == got.rd
           l == k - d
<1>1. n \in Nat /\ m \in Nat /\ m <= n /\ k \in Nat /\ d < k /\ k <= m /\ k \in 1..n /\ m + 1 \in (k + 1)..(n + 1)
      /\ k + 1 \in 1..(n + 1)
  OBVIOUS
<1>2. /\ f \in FieldRec /\ Len(wire) \in Nat /\ at[k] \in Nat /\ at[k + 1] \in Nat
      /\ at[k + 1] = at[k] + Len(wire) /\ Holds(T, at[k], wire) /\ at[k + 1] <= at[m + 1]
      /\ at[m + 1] \in Nat
  <2>1. /\ \A i \in 1..n :
             /\ fields[i] \in FieldRec /\ Len(Wire(fields[i], w.raw)) \in Nat
             /\ at[i] \in Nat /\ at[i + 1] \in Nat /\ at[i + 1] = at[i] + Len(Wire(fields[i], w.raw))
             /\ Holds(T, at[i], Wire(fields[i], w.raw))
        /\ \A i \in 1..(n + 1) : at[i] \in Nat /\ \A j \in i..(n + 1) : at[i] <= at[j]
    <3>1. w.raw \in BOOLEAN  OBVIOUS
    <3> QED BY <3>1, SpreadFacts
  <2>2. m + 1 \in 1..(n + 1)  BY <1>1
  <2> HIDE DEF n
  <2> QED BY <1>1, <2>1, <2>2
<1>3. (k - 1) + 1 = k  BY <1>1
<1>4. Ready(y, w.raw, off, T) /\ Place(y, w.raw) = at[k] /\ y.len = x.len  BY <1>3 DEF ReadTo
<1>5. y.data_remain \in Int /\ y.len \in Nat /\ Ahead(w.raw) \in Nat
  BY <1>4, AheadNat DEF Ready, CopiesFit, ReaderRec
<1>6. Len(wire) <= y.data_remain
  <2> DEFINE a == Ahead(w.raw)
             b == at[k]
             c == at[k + 1]
             e == at[m + 1]
             u == Len(wire)
             v == y.data_remain
             g == y.len
  <2>1. /\ a \in Nat /\ b \in Nat /\ c \in Nat /\ e \in Nat /\ u \in Nat /\ v \in Int /\ g \in Nat
        /\ a + g = e /\ (a + g) - v = b /\ c = b + u /\ c <= e
    BY <1>2, <1>4, <1>5 DEF Place
  <2> HIDE DEF a, b, c, e, u, v, g
  <2>2. u <= v  BY <2>1
  <2> QED BY <2>2 DEF u, v
<1>7. Holds(T, Place(y, w.raw), wire)  BY <1>2, <1>4
<1>8. Past(y, z, Len(wire), w.raw, off) /\ got.out = Contents(f)
  <2>1. f \in FieldRec /\ Ready(y, w.raw, off, T) /\ Len(Wire(f, w.raw)) <= y.data_remain
        /\ Holds(T, Place(y, w.raw), Wire(f, w.raw))
    BY <1>2, <1>4, <1>6, <1>7
  <2> HIDE DEF f, y
  <2>2. /\ Past(y, ReadField(y, f).rd, Len(Wire(f, w.raw)), w.raw, off)
        /\ ReadField(y, f).out = Contents(f)
    BY <2>1, FieldAt
  <2> QED BY <2>2
<1>9. Ready(z, w.raw, off, T) /\ Place(z, w.raw) = Place(y, w.raw) + Len(wire)
  <2> HIDE DEF wire, z
  <2> QED BY <1>2, <1>4, <1>8, PastReady
<1>10. z.len = x.len  BY <1>4, <1>8 DEF Past
<1>11. Contents(f) \in Seq(Byte)
  <2>1. w.raw \in BOOLEAN  OBVIOUS
  <2> QED BY <1>2, <2>1, WireSeq
<1>12. s.out \in Seq(Seq(Byte)) /\ Len(s.out) = l - 1 /\ \A j \in 1..(l - 1) : s.out[j] = Contents(fields[d + j])
  <2>1. (k - 1) - d = l - 1  BY <1>1
  <2> QED BY <2>1 DEF ReadTo
<1> DEFINE o == Append(s.out, got.out)
<1>13. RestOne(s, k) = [rd |-> z, out |-> o]  BY DEF RestOne
<1>14. l \in Nat /\ l >= 1 /\ d + l = k  BY <1>1
<1>15. o \in Seq(Seq(Byte)) /\ Len(o) = l /\ \A j \in 1..l : o[j] = Contents(fields[d + j])
  <2> DEFINE g == got.out
             q == s.out
  <2>1. g \in Seq(Byte) /\ q \in Seq(Seq(Byte)) /\ Len(q) = l - 1 /\ g = Contents(fields[d + l])
    BY <1>8, <1>11, <1>12, <1>14
  <2> HIDE DEF g, q, l
  <2>2. o = Append(q, g)  BY DEF g, q
  <2>3. o \in Seq(Seq(Byte)) /\ Len(o) = l /\ o[l] = g /\ \A j \in 1..(l - 1) : o[j] = q[j]
    BY <1>14, <2>1, <2>2
  <2>4. \A j \in 1..l : j = l \/ j \in 1..(l - 1)  BY <1>14
  <2> QED BY <1>12, <2>1, <2>3, <2>4 DEF q
<1> HIDE DEF o, z, f
<1> QED BY <1>2, <1>4, <1>9, <1>10, <1>13, <1>15 DEF ReadTo

\* The rest of a packet is read field by field as it was written.
LEMMA RestAt ==
  ASSUME fields \in Seq(FieldRec), w.raw = FALSE, LenSize > 0, done \in Nat,
         r.fields \in 0..Len(fields), done <= r.fields,
         NEW off, NEW T, NEW at, Spread(fields, w.raw, at, T), Ready(r, w.raw, off, T),
         Ahead(w.raw) + r.len = at[r.fields + 1], Place(r, w.raw) = at[done + 1]
  PROVE  ReadRest = [k \in 1..(r.fields - done) |-> Contents(fields[done + k])]
<1> DEFINE d == done
           m == r.fields
<1>1. d \in Nat /\ m \in Nat /\ d <= m  OBVIOUS
<1>2. PICK c : RestStages(c, r, d, m) /\ ReadRest = c[m].out  BY <1>1, RestSteps
<1>3. c[d] = [rd |-> r, out |-> <<>>] /\ \A k \in (d + 1)..m : c[k] = RestOne(c[k - 1], k)
  BY <1>2 DEF RestStages
<1> DEFINE OK(k) == ReadTo(c[k], d, k, r, off, T, at)
<1>4. OK(d)
  <2>1. c[d].rd = r /\ c[d].out = <<>>  BY <1>3
  <2>2. d - d = 0  BY <1>1
  <2>3. <<>> \in Seq(Seq(Byte)) /\ Len(<<>>) = 0  OBVIOUS
  <2> QED BY <2>1, <2>2, <2>3 DEF ReadTo
<1>5. ASSUME NEW k \in (d + 1)..m, OK(k - 1) PROVE OK(k)
  <2> DEFINE s == c[k - 1]
  <2>1. ReadTo(s, d, k - 1, r, off, T, at)  BY <1>5
  <2>2. c[k] = RestOne(s, k)  BY <1>3
  <2> HIDE DEF s
  <2>3. ReadTo(RestOne(s, k), d, k, r, off, T, at)  BY <1>1, <2>1, RestOneAt
  <2> QED BY <2>2, <2>3
<1> HIDE DEF OK, d, m
<1> DEFINE Bad == {k \in d..m : ~OK(k)}
<1>6. ASSUME Bad # {} PROVE FALSE
  <2>1. Bad \in SUBSET Nat  BY <1>1
  <2>2. PICK k \in Bad : \A y \in Bad : k <= y  BY <1>6, <2>1, LeastElement
  <2>3. k \in d..m /\ ~OK(k)  BY <2>2
  <2>4. k # d  BY <1>4, <2>3
  <2>5. k \in (d + 1)..m /\ k - 1 \in d..m /\ ~(k <= k - 1)  BY <1>1, <2>3, <2>4
  <2>6. OK(k - 1)  BY <2>2, <2>5
  <2> QED BY <1>5, <2>3, <2>5, <2>6
<1>7. m \in d..m  BY <1>1
<1>8. OK(m)  BY <1>6, <1>7
<1> DEFINE o == c[m].out
           e == [k \in 1..(m - d) |-> Contents(fields[d + k])]
<1>9. o \in Seq(Seq(Byte)) /\ Len(o) = m - d /\ \A j \in 1..(m - d) : o[j] = Contents(fields[d + j])
  BY <1>8 DEF OK, ReadTo
<1>10. o = [j \in 1..(m - d) |-> o[j]]
  <2> HIDE DEF o
  <2> QED BY <1>9
<1>11. o = e  BY <1>9, <1>10
<1> QED BY <1>2, <1>11 DEF d, m

LEMMA PieceMore ==
  ASSUME NEW T, NEW s, NEW g \in Nat, Piece(s, T, 0, g), NEW t \in Seq(Byte), Holds(T, g, t)
  PROVE  Piece(s \o t, T, 0, g + Len(t))
<1> DEFINE l == Len(t)
           h == g + l
           q == s \o t
<1>1. s \in Seq(Byte) /\ Len(s) = g /\ \A j \in 1..g : s[j] = T[0 + j]  BY DEF Piece
<1>2. l \in Nat /\ \A j \in 1..l : T[g + j] = t[j]  BY DEF Holds
<1>3. /\ q \in Seq(Byte) /\ Len(q) = h
      /\ (\A j \in 1..g : q[j] = s[j]) /\ \A j \in 1..l : q[g + j] = t[j]
  BY <1>1
<1> HIDE DEF q, l
<1>4. ASSUME NEW j \in 1..h PROVE q[j] = T[0 + j]
  <2>1. CASE j <= g
    <3>1. j \in 1..g  BY <2>1
    <3> QED BY <1>1, <1>3, <3>1
  <2>2. CASE ~(j <= g)
    <3>1. j - g \in 1..l /\ g + (j - g) = j /\ 0 + j = j  BY <1>2, <2>2
    <3>2. T[g + (j - g)] = t[j - g] /\ q[g + (j - g)] = t[j - g]  BY <1>2, <1>3, <3>1
    <3> QED BY <3>1, <3>2
  <2> QED BY <2>1, <2>2
<1> QED BY <1>3, <1>4 DEF Piece, q, l

\* The contents of the first fields, joined, are the first bytes.
LEMMA JoinedAt ==
  ASSUME fields \in Seq(FieldRec), w.raw = TRUE, NEW m \in 0..Len(fields), NEW T, NEW at,
         Spread(fields, w.raw, at, T)
  PROVE  Piece(Joined([k \in 1..m |-> Contents(fields[k])], m), T, 0, at[m + 1])
<1> DEFINE n == Len(fields)
           v == [k \in 1..m |-> Contents(fields[k])]
<1>1. n \in Nat /\ m \in Nat /\ m <= n /\ \A k \in 1..m : k \in 1..n /\ k - 1 \in 0..m /\ k \in 0..m
  OBVIOUS
<1>2. w.raw \in BOOLEAN  OBVIOUS
<1>3. \A k \in 1..n : /\ fields[k] \in FieldRec /\ at[k] \in Nat
                      /\ at[k + 1] = at[k] + Len(Wire(fields[k], w.raw))
                      /\ Holds(T, at[k], Wire(fields[k], w.raw))
  BY <1>2, SpreadFacts
<1>4. ASSUME NEW k \in 1..m
      PROVE  /\ v[k] \in Seq(Byte) /\ at[k] \in Nat /\ at[k + 1] = at[k] + Len(v[k])
             /\ Holds(T, at[k], v[k])
  <2>1. k \in 1..n  BY <1>1
  <2>2. fields[k] \in FieldRec  BY <1>3, <2>1
  <2>3. Contents(fields[k]) \in Seq(Byte) /\ Wire(fields[k], w.raw) = Contents(fields[k])
    BY <1>2, <2>2, WireSeq
  <2>4. v[k] = Contents(fields[k])  OBVIOUS
  <2> HIDE DEF v
  <2> QED BY <1>3, <2>1, <2>3, <2>4
<1>5. v \in [1..m -> Seq(Byte)]
  <2>1. v = [k \in 1..m |-> v[k]]  OBVIOUS
  <2> HIDE DEF v
  <2> QED BY <1>4, <2>1
<1> HIDE DEF v, n
<1>6. PICK f \in [0..m -> Seq(Byte)] : Joins(f, v, m)  BY <1>1, <1>5, JoinedSteps
<1>7. f[0] = <<>> /\ (\A k \in 1..m : f[k] = f[k - 1] \o v[k]) /\ Joined(v, m) = f[m]
  BY <1>6 DEF Joins
<1> DEFINE OK(k) == Piece(f[k], T, 0, at[k + 1])
<1>8. at[1] = 0  BY DEF Spread, Ahead
<1>9. OK(0)
  <2>1. 0 + 1 = 1 /\ <<>> \in Seq(Byte) /\ Len(<<>>) = 0 /\ 1..0 = {}  OBVIOUS
  <2> QED BY <1>7, <1>8, <2>1 DEF Piece
<1>10. ASSUME NEW k \in 1..m, OK(k - 1) PROVE OK(k)
  <2> DEFINE s == f[k - 1]
             t == v[k]
             g == at[k]
             h == at[k + 1]
  <2>1. (k - 1) + 1 = k /\ k - 1 \in 0..m  BY <1>1
  <2>2. Piece(s, T, 0, g)  BY <1>10, <2>1
  <2>3. t \in Seq(Byte) /\ g \in Nat /\ h = g + Len(t) /\ Holds(T, g, t)  BY <1>4
  <2>4. f[k] = s \o t  BY <1>7
  <2> HIDE DEF s, t, g, h
  <2>5. Piece(s \o t, T, 0, h)  BY <2>2, <2>3, PieceMore
  <2> QED BY <2>4, <2>5 DEF h
<1> HIDE DEF OK
<1> DEFINE Bad == {k \in 0..m : ~OK(k)}
<1>11. ASSUME Bad # {} PROVE FALSE
  <2>1. Bad \in SUBSET Nat  BY <1>1
  <2>2. PICK k \in Bad : \A y \in Bad : k <= y  BY <1>11, <2>1, LeastElement
  <2>3. k \in 0..m /\ ~OK(k)  BY <2>2
  <2>4. k # 0  BY <1>9, <2>3
  <2>5. k \in 1..m /\ k - 1 \in 0..m /\ ~(k <= k - 1)  BY <1>1, <2>3, <2>4
  <2>6. OK(k - 1)  BY <2>2, <2>5
  <2> QED BY <1>10, <2>3, <2>5, <2>6
<1>12. m \in 0..m  BY <1>1
<1>13. OK(m)  BY <1>11, <1>12
<1> QED BY <1>7, <1>13 DEF OK, v

LEMMA RawRest ==
  ASSUME fields \in Seq(FieldRec), w.raw = TRUE, r.fields \in 0..Len(fields), done = 0,
         NEW off, NEW T, NEW at, Spread(fields, w.raw, at, T), Ready(r, w.raw, off, T),
         Ahead(w.raw) + r.len = at[r.fields + 1], r.data_remain = r.len
  PROVE  rpacket_raw_read_binary(r).out
           = Joined([k \in 1..(r.fields - done) |-> Contents(fields[done + k])], r.fields - done)
<1> DEFINE m == r.fields
           n == r.len
           o == rpacket_raw_read_binary(r).out
           v == [k \in 1..m |-> Contents(fields[k])]
           u == [k \in 1..(m - done) |-> Contents(fields[done + k])]
           j == Joined(v, m)
<1>1. m \in 0..Len(fields) /\ m \in Nat  OBVIOUS
<1>2. n \in Nat  BY DEF Ready, CopiesFit, ReaderRec
<1>3. Ahead(w.raw) = 0  BY DEF Ahead
<1>4. Place(r, w.raw) = 0 /\ at[m + 1] = n  BY <1>2, <1>3 DEF Place
<1>5. Piece(o, T, Place(r, w.raw), r.data_remain)  BY RawAt
<1>6. Piece(o, T, 0, n)  BY <1>4, <1>5
<1>7. Piece(j, T, 0, n)  BY <1>1, <1>4, JoinedAt
<1> HIDE DEF o, j
<1>8. o = j
  <2>1. j \in Seq(Byte) /\ Len(j) = n /\ \A i \in 1..n : T[0 + i] = j[i]  BY <1>7 DEF Piece
  <2> HIDE DEF n
  <2> QED BY <1>2, <1>6, <2>1, PieceIs
<1>9. m - done = m /\ \A k \in 1..m : done + k = k
  <2> HIDE DEF m
  <2> QED BY <1>1
<1>10. u = v  BY <1>9
<1>11. Joined(u, m - done) = j
  <2> HIDE DEF u, v
  <2> QED BY <1>9, <1>10 DEF j
<1> QED BY <1>8, <1>11 DEF o

\* The header is not empty and the first buffer has room behind it.
RoomForData == LenSize > 0 /\ \A n \in Sizes : n > LenSize

\* A reader is in front of the next field.
LEMMA ReaderReady ==
  ASSUME WriterInv, ReaderInv, r # NoReader, NEW off, NEW T, NEW at, StreamOK(off, T, at)
  PROVE  /\ Spread(fields, w.raw, at, T) /\ Between(r, done, w.raw, at)
         /\ Ready(r, w.raw, off, T) /\ r.fields \in 0..Len(fields) /\ done <= r.fields
         /\ Ahead(w.raw) + r.len = at[r.fields + 1]
<1>1. w.raw \in BOOLEAN /\ w.bufs \in Seq(Buf) /\ fields \in Seq(FieldRec)
  BY DEF WriterInv, WriterOK, PacketRec
<1>2. CopiesFit(r)  BY DEF ReaderInv
<1>3. /\ Laid(w.bufs, off, T) /\ Filled(w.bufs) /\ Spread(fields, w.raw, at, T)
      /\ r.fields <= Len(fields) /\ Standing(r, w.bufs, w.raw, off) /\ Between(r, done, w.raw, at)
  BY DEF StreamOK
<1>4. r.fields \in Nat  BY <1>2 DEF CopiesFit, ReaderRec
<1>5. r.fields \in 0..Len(fields)  BY <1>1, <1>3, <1>4
<1>6. done <= r.fields /\ Ahead(w.raw) + r.len = at[r.fields + 1]  BY <1>3 DEF Between
<1>7. Ready(r, w.raw, off, T)
  <2> DEFINE n == Len(fields)
             i == r.fields + 1
  <2>1. i \in 1..(n + 1) /\ n + 1 \in i..(n + 1)  BY <1>1, <1>5
  <2> HIDE DEF i, n
  <2>2. at[i] <= at[n + 1]  BY <1>1, <1>3, <2>1, SpreadFacts DEF n
  <2>3. at[n + 1] = Len(T)  BY <1>3 DEF Spread, n
  <2>4. Ahead(w.raw) + r.len <= Len(T)  BY <1>6, <2>2, <2>3 DEF i
  <2> QED BY <1>1, <1>2, <1>3, <2>4 DEF Ready, StreamAt
<1> QED BY <1>3, <1>5, <1>6, <1>7

LEMMA ReaderInvSound ==
  ASSUME LenSize > 0, WriterInv, ReaderInv
  PROVE  ReaderSound
<1>1. w \in WriterOK /\ w.raw \in BOOLEAN /\ w.hung \in BOOLEAN /\ w.bufs \in Seq(Buf)
      /\ fields \in Seq(FieldRec) /\ done \in Nat
  BY DEF WriterInv, WriterOK, PacketRec, ReaderInv
<1>2. BinbufHolds
  <2> SUFFICES ASSUME r # NoReader PROVE r.binbufpos <= r.binbuf  BY DEF BinbufHolds
  <2>1. /\ r \in ReaderRec /\ r.data_remain >= 0 /\ r.binbufpos + r.data_remain <= r.len
        /\ r.binbuf = r.len \/ (r.binbuf = 0 /\ r.binbufpos = 0)
    BY DEF ReaderInv, CopiesFit
  <2>2. r.data_remain \in Int /\ r.binbufpos \in Nat /\ r.len \in Nat  BY <2>1 DEF ReaderRec
  <2> QED BY <2>1, <2>2
<1>3. ASSUME r # NoReader, ~w.hung
      PROVE  LET expect == [k \in 1 .. r.fields - done |-> Contents(fields[done + k])]
             IN  IF w.raw
                 THEN done < r.fields =>
                        rpacket_raw_read_binary(r).out = Joined(expect, r.fields - done)
                 ELSE ReadRest = expect
  <2>1. PICK off, T, at : StreamOK(off, T, at)  BY <1>3 DEF ReaderInv
  <2>2. /\ Spread(fields, w.raw, at, T) /\ Between(r, done, w.raw, at)
        /\ Ready(r, w.raw, off, T) /\ r.fields \in 0..Len(fields) /\ done <= r.fields
        /\ Ahead(w.raw) + r.len = at[r.fields + 1]
    BY <1>3, <2>1, ReaderReady
  <2>3. CASE w.raw
    <3>1. SUFFICES ASSUME done < r.fields
                   PROVE  rpacket_raw_read_binary(r).out
                            = Joined([k \in 1..(r.fields - done) |-> Contents(fields[done + k])],
                                     r.fields - done)
      BY <2>3
    <3>2. done = 0 /\ r.data_remain = r.len  BY <2>2, <2>3, <3>1 DEF Between
    <3>3. w.raw = TRUE  BY <1>1, <2>3
    <3> QED BY <1>1, <2>2, <3>2, <3>3, RawRest
  <2>4. CASE ~w.raw
    <3>1. w.raw = FALSE  BY <1>1, <2>4
    <3>2. Place(r, w.raw) = at[done + 1]  BY <2>2, <2>4 DEF Between, Place
    <3>3. ReadRest = [k \in 1..(r.fields - done) |-> Contents(fields[done + k])]
      BY <1>1, <2>2, <3>1, <3>2, RestAt
    <3> QED BY <2>4, <3>3
  <2> QED BY <2>3, <2>4
<1>4. ReadsBack  BY <1>3 DEF ReadsBack
<1> QED BY <1>2, <1>4 DEF ReaderSound

\* One field more.
MoreAt(at, n, T) == [k \in 1..(n + 2) |-> IF k = n + 2 THEN Len(T) ELSE at[k]]

LEMMA SpreadMore ==
  ASSUME NEW fs \in Seq(FieldRec), NEW raw \in BOOLEAN, NEW at, NEW T \in Seq(Byte),
         Spread(fs, raw, at, T), NEW f \in FieldRec, NEW T2,
         Added(T, Wire(f, raw), Len(Wire(f, raw)), T2)
  PROVE  Spread(Append(fs, f), raw, MoreAt(at, Len(fs), T2), T2)
<1> DEFINE n == Len(fs)
           gs == Append(fs, f)
           at2 == MoreAt(at, n, T2)
           wire == Wire(f, raw)
           l == Len(wire)
           m == Len(T)
<1>1. /\ n \in Nat /\ m \in Nat /\ at \in [1..(n + 1) -> Nat] /\ at[1] = Ahead(raw) /\ at[n + 1] = m
      /\ \A k \in 1..n : at[k + 1] = at[k] + Len(Wire(fs[k], raw))
      /\ \A k \in 1..n : \A j \in 1..Len(Wire(fs[k], raw)) : T[at[k] + j] = Wire(fs[k], raw)[j]
  BY DEF Spread
<1>2. l \in Nat /\ wire \in Seq(Byte)  BY WireSeq
<1>3. /\ T2 \in Seq(Byte) /\ Len(T2) = m + l /\ (\A j \in 1..m : T2[j] = T[j])
      /\ \A j \in 1..l : T2[m + j] = wire[j]
  BY DEF Added
<1>4. Len(gs) = n + 1 /\ gs[n + 1] = f /\ \A k \in 1..n : gs[k] = fs[k]  OBVIOUS
<1>5. /\ \A i \in 1..n : /\ at[i] \in Nat /\ at[i + 1] \in Nat /\ Len(Wire(fs[i], raw)) \in Nat
                         /\ at[i + 1] = at[i] + Len(Wire(fs[i], raw))
      /\ \A i \in 1..(n + 1) : at[i] \in Nat /\ \A j \in i..(n + 1) : at[i] <= at[j]
  BY SpreadFacts
<1>6. at2 = [k \in 1..(n + 2) |-> IF k = n + 2 THEN m + l ELSE at[k]]  BY <1>3 DEF MoreAt
<1> HIDE DEF n, gs, at2, wire, l, m
<1>7. n + 2 \in 1..(n + 2) /\ \A k \in 1..(n + 1) : k \in 1..(n + 2) /\ k # n + 2  BY <1>1
<1>8. at2[n + 2] = m + l /\ \A k \in 1..(n + 1) : at2[k] = at[k]  BY <1>6, <1>7
<1>9. at2 \in [1..(n + 2) -> Nat]
  <2>1. \A k \in 1..(n + 2) : k = n + 2 \/ k \in 1..(n + 1)  BY <1>1
  <2>2. m + l \in Nat  BY <1>1, <1>2
  <2> QED BY <1>5, <1>6, <2>1, <2>2
<1>10. 1 \in 1..(n + 1) /\ n + 1 \in 1..(n + 1) /\ (n + 1) + 1 = n + 2  BY <1>1
<1>11. \A k \in 1..(n + 1) : k = n + 1 \/ k \in 1..n  BY <1>1
<1>12. \A k \in 1..n : k \in 1..(n + 1) /\ k + 1 \in 1..(n + 1) /\ n + 1 \in (k + 1)..(n + 1)  BY <1>1
<1>13. ASSUME NEW k \in 1..(n + 1)
       PROVE  /\ at2[k + 1] = at2[k] + Len(Wire(gs[k], raw))
              /\ \A j \in 1..Len(Wire(gs[k], raw)) : T2[at2[k] + j] = Wire(gs[k], raw)[j]
  <2>1. CASE k = n + 1
    <3>1. Wire(gs[k], raw) = wire /\ Len(Wire(gs[k], raw)) = l  BY <1>4, <2>1 DEF wire, l
    <3>2. at2[k + 1] = m + l /\ at2[k] = m  BY <1>1, <1>8, <1>10, <2>1
    <3> QED BY <1>3, <3>1, <3>2
  <2>2. CASE k \in 1..n
    <3> DEFINE old == Wire(fs[k], raw)
               e == Len(old)
               a == at[k]
               b == at[k + 1]
    <3>1. gs[k] = fs[k] /\ at2[k] = a /\ at2[k + 1] = b  BY <1>4, <1>8, <1>12, <2>2
    <3>2. a \in Nat /\ b \in Nat /\ e \in Nat /\ b = a + e  BY <1>5, <2>2
    <3>3. b <= m  BY <1>1, <1>5, <1>12, <2>2
    <3>4. \A j \in 1..e : T[a + j] = old[j]  BY <1>1, <2>2
    <3> HIDE DEF old, e, a, b
    <3>5. \A j \in 1..e : a + j \in 1..m  BY <1>1, <3>2, <3>3
    <3>6. \A j \in 1..e : T2[a + j] = old[j]  BY <1>3, <3>4, <3>5
    <3> QED BY <3>1, <3>2, <3>6 DEF old, e
  <2> QED BY <1>11, <2>1, <2>2
<1>14. at2[1] = Ahead(raw)  BY <1>1, <1>8, <1>10
<1>15. at2 \in [1..(Len(gs) + 1) -> Nat] /\ at2[Len(gs) + 1] = Len(T2)
  BY <1>3, <1>4, <1>8, <1>9, <1>10
<1>16. Len(gs) = n + 1  BY <1>4
<1> QED BY <1>13, <1>14, <1>15, <1>16 DEF Spread, gs, at2, n

\* A field that is written at the end of the last buffer is marked there.
LEMMA MarkedMore ==
  ASSUME NEW fs \in Seq(FieldRec), NEW raw \in BOOLEAN, NEW at, NEW T, Spread(fs, raw, at, T),
         NEW bs \in Seq(Buf), NEW off, Laid(bs, off, T), Filled(bs), Marked(fs, bs, off, at),
         NEW f \in FieldRec, f.wp.buf = Len(bs), f.wp.wpos = Len(bs[Len(bs)].data),
         NEW cs \in Seq(Buf), NEW off2, Continues(bs, off, cs, off2), NEW T2
  PROVE  Marked(Append(fs, f), cs, off2, MoreAt(at, Len(fs), T2))
<1> DEFINE n == Len(fs)
           gs == Append(fs, f)
           at2 == MoreAt(at, n, T2)
           q == Len(bs)
<1>1. Len(gs) = n + 1 /\ gs[n + 1] = f /\ (\A k \in 1..n : gs[k] = fs[k]) /\ n \in Nat  OBVIOUS
<1>2. q \in Nat /\ q >= 1 /\ Len(bs[q].data) <= bs[q].capacity  BY DEF Filled
<1>3. /\ \A b \in 1..q : /\ Len(bs[b].data) \in Nat /\ off[b - 1] \in Nat
                         /\ off[b] = off[b - 1] + Len(bs[b].data)
      /\ Len(T) = off[q]
  BY LaidFacts
<1>4. /\ Len(cs) >= q /\ Len(cs) \in Nat
      /\ \A b \in 1..q : off2[b - 1] = off[b - 1] /\ cs[b].capacity = bs[b].capacity
  BY DEF Continues
<1>5. at[n + 1] = Len(T)  BY DEF Spread
<1>6. \A k \in 1..n : /\ fs[k].wp.buf \in 1..q /\ fs[k].wp.wpos <= bs[fs[k].wp.buf].capacity
                      /\ off[fs[k].wp.buf - 1] + fs[k].wp.wpos = at[k]
  BY DEF Marked
<1>7. at2 = [k \in 1..(n + 2) |-> IF k = n + 2 THEN Len(T2) ELSE at[k]]  BY DEF MoreAt
<1>8. f.wp.buf = q /\ f.wp.wpos = Len(bs[q].data)  OBVIOUS
<1> HIDE DEF n, gs, at2, q
<1>9. \A k \in 1..(n + 1) : k \in 1..(n + 2) /\ k # n + 2  BY <1>1
<1>10. \A k \in 1..(n + 1) : at2[k] = at[k]  BY <1>7, <1>9
<1>11. q \in 1..q /\ \A b \in 1..q : b \in 1..Len(cs)  BY <1>2, <1>4
<1>12. \A k \in 1..(n + 1) : k = n + 1 \/ k \in 1..n  BY <1>1
<1>13. ASSUME NEW k \in 1..(n + 1)
       PROVE  /\ gs[k].wp.buf \in 1..Len(cs) /\ gs[k].wp.wpos <= cs[gs[k].wp.buf].capacity
              /\ off2[gs[k].wp.buf - 1] + gs[k].wp.wpos = at2[k]
  <2>1. CASE k = n + 1
    <3>1. gs[k].wp.buf = q /\ gs[k].wp.wpos = Len(bs[q].data)  BY <1>1, <1>8, <2>1
    <3>2. at2[k] = off[q]  BY <1>3, <1>5, <1>10, <2>1
    <3> QED BY <1>2, <1>3, <1>4, <1>11, <3>1, <3>2
  <2>2. CASE k \in 1..n  BY <1>1, <1>4, <1>6, <1>10, <1>11, <2>2
  <2> QED BY <1>12, <2>1, <2>2
<1> QED BY <1>1, <1>13 DEF Marked, gs, at2, n

\* A reader stands where it stood, whatever is written behind it.
LEMMA StandingKept ==
  ASSUME NEW x \in ReaderRec, NEW bs \in Seq(Buf), NEW cs \in Seq(Buf), NEW off, NEW off2, NEW raw,
         Continues(bs, off, cs, off2), Standing(x, bs, raw, off)
  PROVE  Standing(x, cs, raw, off2)
<1> SUFFICES ASSUME x.data_remain > 0
             PROVE  /\ x.readbuf \in 1..Len(cs) /\ x.rpos < Len(cs[x.readbuf].data)
                    /\ off2[x.readbuf - 1] + x.rpos = (Ahead(raw) + x.len) - x.data_remain
  BY DEF Standing
<1> DEFINE b == x.readbuf
           p == x.rpos
           g == (Ahead(raw) + x.len) - x.data_remain
<1>1. b \in 1..Len(bs) /\ p < Len(bs[b].data) /\ off[b - 1] + p = g  BY DEF Standing
<1>2. /\ Len(cs) >= Len(bs)
      /\ off2[b - 1] = off[b - 1] /\ Len(cs[b].data) >= Len(bs[b].data)
  BY <1>1 DEF Continues
<1>3. p \in Nat  BY DEF ReaderRec
<1> HIDE DEF b, p, g
<1>4. Len(cs) \in Nat /\ Len(bs) \in Nat  OBVIOUS
<1>5. b \in 1..Len(cs)  BY <1>1, <1>2, <1>4
<1>6. bs[b] \in Buf /\ cs[b] \in Buf  BY <1>1, <1>5
<1>7. Len(bs[b].data) \in Nat /\ Len(cs[b].data) \in Nat  BY <1>6 DEF Buf
<1>8. p < Len(cs[b].data)  BY <1>1, <1>2, <1>3, <1>7
<1> QED BY <1>1, <1>2, <1>5, <1>8 DEF b, p, g

LEMMA BetweenKept ==
  ASSUME NEW x, NEW d \in Nat, NEW raw, NEW at, NEW n \in Nat, NEW at2, x.fields \in Nat,
         x.fields <= n, \A k \in 1..(n + 1) : at2[k] = at[k], Between(x, d, raw, at)
  PROVE  Between(x, d, raw, at2)
<1>1. d <= x.fields  BY DEF Between
<1>2. x.fields + 1 \in 1..(n + 1) /\ d + 1 \in 1..(n + 1)  BY <1>1
<1>3. at2[x.fields + 1] = at[x.fields + 1] /\ at2[d + 1] = at[d + 1]  BY <1>2
<1> QED BY <1>3 DEF Between

\* A write leaves a reader what it had.
LEMMA ReaderWrite ==
  ASSUME WriterInv, ReaderInv, ~w.hung, NEW f \in FieldRec, f.wp = wpacket_get_writepos,
         w' = wpacket_write(w, Wire(f, w.raw)), fields' = Append(fields, f), r' = r, done' = done
  PROVE  ReaderInv'
<1> DEFINE wire == Wire(f, w.raw)
           n == Len(fields)
<1>1. w \in WriterOK /\ w.raw \in BOOLEAN /\ w.bufs \in Seq(Buf) /\ fields \in Seq(FieldRec)
  BY DEF WriterInv, WriterOK, PacketRec
<1>2. wire \in Seq(Byte)  BY <1>1, WireSeq
<1>3. done' \in Nat /\ (r' = NoReader => done' = 0) /\ (r' # NoReader => CopiesFit(r)')
  BY DEF ReaderInv, CopiesFit, NoReader
<1>4. ASSUME ~w'.hung PROVE \E off, T, at : StreamOK(off, T, at)'
  <2> DEFINE q == wpacket_write(w, wire)
  <2>1. q \in WriterOK /\ w' = q  BY <1>1, <1>2, WriteOK
  <2>2. ~q.hung  BY <1>4, <2>1
  <2>3. q.bufs \in Seq(Buf)  BY <2>1 DEF WriterOK, PacketRec
  <2>5. PICK off, T, at : StreamOK(off, T, at)  BY DEF ReaderInv
  <2>6. /\ Laid(w.bufs, off, T) /\ Filled(w.bufs) /\ Spread(fields, w.raw, at, T)
        /\ Marked(fields, w.bufs, off, at) /\ w.wpos = Len(w.bufs[Len(w.bufs)].data)
        /\ w.data_size = Len(T)
    BY <2>5 DEF StreamOK
  <2>7. Chain(w, off, T)  BY <2>6 DEF Chain
  <2>8. Appended(w, off, T, wire, Len(wire), q)  BY <1>1, <1>2, <2>2, <2>7, WriteChain
  <2> HIDE DEF q, wire
  <2>9. PICK off2, T2 : /\ Chain(q, off2, T2) /\ Added(T, wire, Len(wire), T2)
                        /\ Continues(w.bufs, off, q.bufs, off2) /\ q.raw = w.raw
    BY <2>8 DEF Appended
  <2>10. T \in Seq(Byte)  BY <2>6 DEF Laid
  <2>11. PICK at2 : at2 = MoreAt(at, n, T2)  OBVIOUS
  <2>12. Spread(fields', w'.raw, at2, T2)
    <3>1. Spread(Append(fields, f), w.raw, at2, T2)
      BY <1>1, <2>6, <2>9, <2>10, <2>11, SpreadMore DEF wire
    <3> QED BY <2>1, <2>9, <3>1
  <2>13. Marked(fields', w'.bufs, off2, at2)
    <3>1. f.wp.buf = Len(w.bufs) /\ f.wp.wpos = Len(w.bufs[Len(w.bufs)].data)
      BY <2>6 DEF wpacket_get_writepos
    <3>2. Marked(Append(fields, f), q.bufs, off2, at2)
      BY <1>1, <2>3, <2>6, <2>9, <2>11, <3>1, MarkedMore
    <3> QED BY <2>1, <3>2
  <2>14. Laid(w'.bufs, off2, T2) /\ Filled(w'.bufs) /\ w'.wpos = Len(w'.bufs[Len(w'.bufs)].data)
         /\ w'.data_size = Len(T2)
    BY <2>1, <2>9 DEF Chain
  <2>15. ASSUME r' # NoReader
         PROVE  /\ r'.fields <= Len(fields') /\ Standing(r', w'.bufs, w'.raw, off2)
                /\ Between(r', done', w'.raw, at2)
    <3>1. r # NoReader  BY <2>15
    <3>2. r \in ReaderRec /\ done \in Nat  BY <3>1 DEF ReaderInv, CopiesFit
    <3>3. r.fields \in Nat  BY <3>2 DEF ReaderRec
    <3>4. r.fields <= n /\ Standing(r, w.bufs, w.raw, off) /\ Between(r, done, w.raw, at)
      BY <2>5, <3>1 DEF StreamOK
    <3>5. n \in Nat /\ Len(Append(fields, f)) = n + 1  BY <1>1
    <3>6. Standing(r, q.bufs, w.raw, off2)  BY <1>1, <2>3, <2>9, <3>2, <3>4, StandingKept
    <3>7. \A k \in 1..(n + 1) : at2[k] = at[k]
      <4>1. at2 = [k \in 1..(n + 2) |-> IF k = n + 2 THEN Len(T2) ELSE at[k]]  BY <2>11 DEF MoreAt
      <4> HIDE DEF n
      <4>2. \A k \in 1..(n + 1) : k \in 1..(n + 2) /\ k # n + 2  BY <3>5
      <4> QED BY <4>1, <4>2
    <3> HIDE DEF n
    <3>8. Between(r, done, w.raw, at2)  BY <3>2, <3>3, <3>4, <3>5, <3>7, BetweenKept
    <3>9. r.fields <= Len(fields')  BY <3>3, <3>4, <3>5
    <3> QED BY <2>1, <2>9, <3>6, <3>8, <3>9
  <2>16. StreamOK(off2, T2, at2)'  BY <2>12, <2>13, <2>14, <2>15 DEF StreamOK, NoReader
  <2> QED BY <2>16
<1> QED BY <1>3, <1>4 DEF ReaderInv

\* Field k is replaced by one of the same length in the same place.
LEMMA SpreadReplaced ==
  ASSUME NEW fs \in Seq(FieldRec), NEW raw \in BOOLEAN, NEW at, NEW T \in Seq(Byte),
         Spread(fs, raw, at, T), NEW k \in 1..Len(fs), NEW g \in FieldRec, NEW l \in Nat,
         Len(Wire(fs[k], raw)) = l, Len(Wire(g, raw)) = l, NEW T2,
         Replaced(T, at[k], Wire(g, raw), l, T2)
  PROVE  Spread([fs EXCEPT ![k] = g], raw, at, T2)
<1> DEFINE n == Len(fs)
           gs == [fs EXCEPT ![k] = g]
           new == Wire(g, raw)
           a == at[k]
           m == Len(T)
<1>1. n \in Nat /\ m \in Nat /\ at \in [1..(n + 1) -> Nat] /\ at[1] = Ahead(raw) /\ at[n + 1] = m
  BY DEF Spread
<1>2. /\ \A i \in 1..n :
           /\ at[i] \in Nat /\ at[i + 1] \in Nat /\ Len(Wire(fs[i], raw)) \in Nat
           /\ at[i + 1] = at[i] + Len(Wire(fs[i], raw)) /\ Holds(T, at[i], Wire(fs[i], raw))
      /\ \A i \in 1..(n + 1) : at[i] \in Nat /\ \A j \in i..(n + 1) : at[i] <= at[j]
  BY SpreadFacts
<1>3. /\ T2 \in Seq(Byte) /\ Len(T2) = m /\ (\A j \in 1..l : T2[a + j] = new[j])
      /\ \A j \in 1..m : (j <= a \/ j > a + l) => T2[j] = T[j]
  BY DEF Replaced
<1>4. Len(gs) = n /\ gs[k] = g /\ \A i \in 1..n : i # k => gs[i] = fs[i]  OBVIOUS
<1>5. k \in 1..n /\ a \in Nat /\ at[k + 1] = a + l  BY <1>2
<1> HIDE DEF n, gs, new, a, m
<1>6. ASSUME NEW i \in 1..n
      PROVE  /\ at[i + 1] = at[i] + Len(Wire(gs[i], raw))
             /\ \A j \in 1..Len(Wire(gs[i], raw)) : T2[at[i] + j] = Wire(gs[i], raw)[j]
  <2>1. CASE i = k
    <3>1. Wire(gs[i], raw) = new /\ Len(new) = l  BY <1>4, <2>1 DEF new
    <3>2. at[i] = a /\ at[i + 1] = a + l  BY <1>5, <2>1 DEF a
    <3> QED BY <1>3, <3>1, <3>2
  <2>2. CASE i # k
    <3> DEFINE old == Wire(fs[i], raw)
               e == Len(old)
               b == at[i]
               c == at[i + 1]
    <3>1. gs[i] = fs[i]  BY <1>4, <2>2
    <3>2. b \in Nat /\ c \in Nat /\ e \in Nat /\ c = b + e /\ \A j \in 1..e : T[b + j] = old[j]
      BY <1>2 DEF Holds
    <3>3. c <= m
      <4>1. i + 1 \in 1..(n + 1) /\ n + 1 \in (i + 1)..(n + 1)  BY <1>1
      <4> QED BY <1>1, <1>2, <4>1
    <3>4. i < k => c <= a
      <4>1. i < k => i + 1 \in 1..(n + 1) /\ k \in (i + 1)..(n + 1)  BY <1>1, <1>5
      <4> QED BY <1>2, <4>1 DEF a
    <3>5. k < i => a + l <= b
      <4>1. k < i => k + 1 \in 1..(n + 1) /\ i \in (k + 1)..(n + 1)  BY <1>1, <1>5
      <4>2. k < i => at[k + 1] <= b  BY <1>2, <4>1
      <4> QED BY <1>5, <4>2
    <3>6. i < k \/ k < i  BY <1>1, <1>5, <2>2
    <3> HIDE DEF old, e, b, c
    <3>7. ASSUME NEW j \in 1..e PROVE T2[b + j] = old[j]
      <4>1. b + j \in 1..m /\ (b + j <= a \/ b + j > a + l)
        BY <1>1, <1>5, <3>2, <3>3, <3>4, <3>5, <3>6
      <4>2. T2[b + j] = T[b + j]  BY <1>3, <4>1
      <4> QED BY <3>2, <4>2
    <3> QED BY <3>1, <3>2, <3>7 DEF old, e, b, c
  <2> QED BY <2>1, <2>2
<1>7. at \in [1..(Len(gs) + 1) -> Nat] /\ at[Len(gs) + 1] = Len(T2)  BY <1>1, <1>3, <1>4
<1> QED BY <1>1, <1>4, <1>6, <1>7 DEF Spread, gs, n

\* Nothing moves in buffers of the same shape.
LEMMA ShapeContinues ==
  ASSUME NEW bs \in Seq(Buf), NEW cs \in SameShape(bs), NEW off
  PROVE  Continues(bs, off, cs, off) /\ cs \in Seq(Buf) /\ Len(cs) = Len(bs)
<1>1. /\ cs \in Seq(Buf) /\ Len(cs) = Len(bs)
      /\ \A k \in 1..Len(bs) : cs[k].capacity = bs[k].capacity /\ Len(cs[k].data) = Len(bs[k].data)
  BY DEF SameShape
<1>2. Len(bs) \in Nat  OBVIOUS
<1>3. ASSUME NEW k \in 1..Len(bs) PROVE Len(cs[k].data) >= Len(bs[k].data)
  <2>1. bs[k] \in Buf  OBVIOUS
  <2>2. Len(bs[k].data) \in Nat  BY <2>1 DEF Buf
  <2> QED BY <1>1, <2>2
<1> QED BY <1>1, <1>2, <1>3 DEF Continues

\* A rewrite changes the value of one field and no other byte.
LEMMA ReaderRewrite ==
  ASSUME WriterInv, ReaderInv, NEW k \in DOMAIN fields, wpacket_rewrite(k)
  PROVE  ReaderInv'
<1> DEFINE f == fields[k]
           g == [f EXCEPT !.value = Rewritten]
           l == f.size
           start == [bufs |-> w.bufs, buf |-> f.wp.buf, pos |-> f.wp.wpos]
           bytes == Encode(Rewritten, l)
           cs == overwrite_all(start, bytes).bufs
<1>1. w \in WriterOK /\ w \in PacketRec /\ w.raw \in BOOLEAN /\ w.bufs \in Seq(Buf)
      /\ fields \in Seq(FieldRec)
  BY DEF WriterInv, WriterOK, PacketRec
<1>2. k \in 1..Len(fields) /\ f \in FieldRec  BY <1>1
<1>3. /\ ~w.hung /\ f.kind = "number" /\ w' = [w EXCEPT !.bufs = cs]
      /\ fields' = [fields EXCEPT ![k].value = Rewritten] /\ r' = r /\ done' = done
  BY DEF wpacket_rewrite
<1>4. fields' = [fields EXCEPT ![k] = g]  BY <1>3
<1>5. l \in Nat /\ Rewritten \in Nat /\ f.wp.buf \in Nat /\ f.wp.wpos \in Nat
  BY <1>2 DEF FieldRec, Rewritten
<1>6. bytes \in Seq(Byte) /\ Len(bytes) = l  BY <1>5, EncodeSeq
<1>7. g \in FieldRec /\ g.kind = "number" /\ g.size = l /\ g.value = Rewritten /\ g.wp = f.wp
  <2> DEFINE v == Rewritten
  <2>1. v \in Nat /\ f.kind = "number" /\ f \in FieldRec  BY <1>2, <1>3, <1>5
  <2> HIDE DEF f, v
  <2>2. g = [f EXCEPT !.value = v]  BY DEF v
  <2> HIDE DEF g
  <2> QED BY <2>1, <2>2 DEF FieldRec, v
<1>8. Wire(g, w.raw) = bytes
  <2>1. Wire(g, w.raw) = Contents(g)  BY <1>1, <1>7, WireSeq
  <2> QED BY <1>7, <2>1 DEF Contents
<1>9. Len(Wire(f, w.raw)) = l
  <2>1. Wire(f, w.raw) = Contents(f) /\ Len(Contents(f)) = l  BY <1>1, <1>2, <1>3, WireSeq
  <2> QED BY <2>1
<1>10. w.bufs \in SameShape(w.bufs)  BY <1>1 DEF SameShape
<1>11. start \in [bufs : SameShape(w.bufs), buf : Nat, pos : Nat]  BY <1>5, <1>10
<1>12. cs \in SameShape(w.bufs)
  <2> HIDE DEF start, bytes
  <2> QED BY <1>6, <1>11, OverwrittenShape
<1>13. PICK off, T, at : StreamOK(off, T, at)  BY <1>3 DEF ReaderInv
<1>14. /\ Laid(w.bufs, off, T) /\ Filled(w.bufs) /\ Spread(fields, w.raw, at, T)
       /\ Marked(fields, w.bufs, off, at) /\ w.wpos = Len(w.bufs[Len(w.bufs)].data)
       /\ w.data_size = Len(T)
  BY <1>13 DEF StreamOK
<1>15. T \in Seq(Byte) /\ Len(T) \in Nat  BY <1>14 DEF Laid
<1> DEFINE p == at[k]
<1>16. p \in Nat /\ p + l <= Len(T)
  <2> DEFINE n == Len(fields)
  <2>1. /\ \A i \in 1..n : at[i] \in Nat /\ at[i + 1] = at[i] + Len(Wire(fields[i], w.raw))
        /\ \A i \in 1..(n + 1) : at[i] \in Nat /\ \A j \in i..(n + 1) : at[i] <= at[j]
    BY <1>1, <1>14, SpreadFacts
  <2>2. at[n + 1] = Len(T)  BY <1>14 DEF Spread
  <2>3. k + 1 \in 1..(n + 1) /\ n + 1 \in (k + 1)..(n + 1)  BY <1>1, <1>2
  <2> HIDE DEF n
  <2>4. at[k + 1] <= Len(T)  BY <2>1, <2>2, <2>3
  <2>5. p \in Nat /\ at[k + 1] = p + Len(Wire(f, w.raw))  BY <1>2, <2>1 DEF n
  <2> QED BY <1>9, <2>4, <2>5
<1>17. CursorAt(start, w.bufs, off, T, p)
  <2>1. /\ f.wp.buf \in 1..Len(w.bufs) /\ f.wp.wpos <= w.bufs[f.wp.buf].capacity
        /\ off[f.wp.buf - 1] + f.wp.wpos = p
    BY <1>2, <1>14 DEF Marked
  <2>2. start.bufs = w.bufs /\ start.buf = f.wp.buf /\ start.pos = f.wp.wpos  OBVIOUS
  <2> HIDE DEF start
  <2> QED BY <1>11, <1>14, <2>1, <2>2 DEF CursorAt
<1> HIDE DEF start, bytes, p, l, f, g
<1>18. PICK T2 : Replaced(T, p, bytes, Len(bytes), T2) /\ Laid(cs, off, T2) /\ Filled(cs)
  <2>1. p + Len(bytes) <= Len(T)  BY <1>6, <1>16
  <2> QED BY <1>6, <1>15, <1>16, <1>17, <2>1, RewriteLaid
<1> HIDE DEF cs
<1>19. /\ w'.bufs = cs /\ w'.raw = w.raw /\ w'.wpos = w.wpos /\ w'.data_size = w.data_size
       /\ w'.hung = w.hung
  BY <1>1, <1>3 DEF PacketRec
<1>20. Continues(w.bufs, off, cs, off) /\ cs \in Seq(Buf) /\ Len(cs) = Len(w.bufs)
  BY <1>1, <1>12, ShapeContinues
<1>21. Spread(fields', w'.raw, at, T2)
  <2>1. Replaced(T, at[k], Wire(g, w.raw), l, T2)  BY <1>6, <1>8, <1>18 DEF p
  <2>2. Len(Wire(g, w.raw)) = l /\ Len(Wire(fields[k], w.raw)) = l  BY <1>6, <1>8, <1>9 DEF f
  <2>3. Spread([fields EXCEPT ![k] = g], w.raw, at, T2)
    BY <1>1, <1>2, <1>5, <1>7, <1>14, <1>15, <2>1, <2>2, SpreadReplaced
  <2> QED BY <1>4, <1>19, <2>3
<1>22. Marked(fields', w'.bufs, off, at)
  <2> DEFINE gs == [fields EXCEPT ![k] = g]
  <2>1. Len(gs) = Len(fields) /\ gs[k] = g /\ \A i \in 1..Len(fields) : i # k => gs[i] = fields[i]
    BY <1>1, <1>2
  <2>2. \A i \in 1..Len(fields) : gs[i].wp = fields[i].wp  BY <1>7, <2>1 DEF f
  <2>3. \A b \in 1..Len(w.bufs) : cs[b].capacity = w.bufs[b].capacity  BY <1>20 DEF Continues
  <2> HIDE DEF gs
  <2>4. Marked(gs, cs, off, at)  BY <1>14, <1>20, <2>1, <2>2, <2>3 DEF Marked
  <2> QED BY <1>4, <1>19, <2>4 DEF gs
<1>23. w'.wpos = Len(w'.bufs[Len(w'.bufs)].data) /\ w'.data_size = Len(T2)
  <2>1. Len(T2) = Len(T)  BY <1>18 DEF Replaced
  <2>2. Len(w.bufs) \in 1..Len(w.bufs)  BY <1>1, <1>14 DEF Filled
  <2>3. Len(cs[Len(w.bufs)].data) = Len(w.bufs[Len(w.bufs)].data)
    BY <1>12, <2>2 DEF SameShape
  <2> QED BY <1>14, <1>19, <1>20, <2>1, <2>3
<1>24. Laid(w'.bufs, off, T2) /\ Filled(w'.bufs)  BY <1>18, <1>19
<1>25. Len(fields') = Len(fields)
  <2> HIDE DEF g
  <2> QED BY <1>1, <1>2, <1>4
<1>26. ASSUME r' # NoReader
       PROVE  /\ r'.fields <= Len(fields') /\ Standing(r', w'.bufs, w'.raw, off)
              /\ Between(r', done', w'.raw, at)
  <2>1. r # NoReader  BY <1>3, <1>26
  <2>2. r \in ReaderRec  BY <2>1 DEF ReaderInv, CopiesFit
  <2>3. r.fields <= Len(fields) /\ Standing(r, w.bufs, w.raw, off) /\ Between(r, done, w.raw, at)
    BY <1>13, <2>1 DEF StreamOK
  <2>4. Standing(r, cs, w.raw, off)  BY <1>1, <1>20, <2>2, <2>3, StandingKept
  <2> QED BY <1>3, <1>19, <1>25, <2>3, <2>4
<1>27. StreamOK(off, T2, at)'
  BY <1>21, <1>22, <1>23, <1>24, <1>26 DEF StreamOK, NoReader
<1>28. done' \in Nat /\ (r' = NoReader => done' = 0) /\ (r' # NoReader => CopiesFit(r)')
  BY <1>3 DEF ReaderInv, CopiesFit, NoReader
<1> QED BY <1>27, <1>28 DEF ReaderInv

\* A new reader is behind the length field, in the first buffer if there is
\* anything to read.
LEMMA ReaderCreate ==
  ASSUME WriterInv, ReaderInv, rpacket_create_by_wpacket
  PROVE  ReaderInv'
<1> DEFINE len  == IF w.raw THEN w.data_size ELSE w.data_size - LenSize
           here == w.raw \/ ReadBufSize(1) > LenSize
           buf  == IF here THEN 1 ELSE 2
           pos  == IF w.raw THEN 0 ELSE LenSize
           n    == Len(fields)
           m    == Len(w.bufs)
           d    == Len(w.bufs[1].data)
           a    == Ahead(w.raw)
<1>1. w.raw \in BOOLEAN /\ w.bufs \in Seq(Buf) /\ fields \in Seq(FieldRec) /\ w.data_size \in Nat
  BY DEF WriterInv, WriterOK, PacketRec
<1>2. /\ ~w.hung /\ r = NoReader
      /\ r' = [readbuf |-> buf, rpos |-> pos, len |-> len, data_remain |-> len, binbuf |-> 0,
               binbufpos |-> 0, fields |-> n]
      /\ w' = w /\ fields' = fields /\ done' = done
  BY DEF rpacket_create_by_wpacket
<1>3. done = 0  BY <1>2 DEF ReaderInv
<1>4. PICK off, T, at : StreamOK(off, T, at)  BY <1>2 DEF ReaderInv
<1>5. /\ Laid(w.bufs, off, T) /\ Filled(w.bufs) /\ w.wpos = Len(w.bufs[m].data)
      /\ w.data_size = Len(T) /\ Spread(fields, w.raw, at, T) /\ Marked(fields, w.bufs, off, at)
  BY <1>4 DEF StreamOK
<1>6. a \in Nat /\ pos = a /\ len = w.data_size - a /\ LenSize \in Nat /\ a <= LenSize
  <2>1. LenSize \in Nat  BY PacketAssumption
  <2>2. CASE w.raw  BY <1>1, <2>1, <2>2 DEF Ahead
  <2>3. CASE ~w.raw  BY <2>1, <2>3 DEF Ahead
  <2> QED BY <2>2, <2>3
<1>7. at[1] = a /\ at[n + 1] = w.data_size /\ a <= w.data_size /\ n \in Nat
  <2>1. at[1] = a /\ at[n + 1] = w.data_size  BY <1>5 DEF Spread
  <2>2. 1 \in 1..(n + 1) /\ n + 1 \in 1..(n + 1) /\ n \in Nat  BY <1>1
  <2>3. at[1] <= at[n + 1]  BY <1>1, <1>5, <2>2, SpreadFacts
  <2> QED BY <2>1, <2>2, <2>3
<1>8. len \in Nat /\ a + len = w.data_size
  <2> DEFINE e == w.data_size
  <2>1. e \in Nat /\ a \in Nat /\ a <= e /\ len = e - a  BY <1>1, <1>6, <1>7
  <2> HIDE DEF e, a, len
  <2> QED BY <2>1 DEF e
<1>9. /\ m \in Nat /\ m >= 1 /\ w.bufs[1].capacity > LenSize /\ w.bufs[1].capacity \in Nat /\ d \in Nat
      /\ off[0] = 0 /\ off[1] = d /\ w.data_size = off[m] /\ (m > 1 => d = w.bufs[1].capacity)
  <2>1. /\ m \in Nat /\ m >= 1 /\ w.bufs[1].capacity > LenSize
        /\ \A b \in 1..m : b < m => Len(w.bufs[b].data) = w.bufs[b].capacity
    BY <1>1, <1>5 DEF Filled
  <2>2. 1 \in 1..m  BY <2>1
  <2>3. m > 1 => d = w.bufs[1].capacity  BY <2>1, <2>2
  <2>4. off[0] = 0 /\ Len(T) = off[m] /\ off[1] = off[0] + d  BY <1>5, <2>2 DEF Laid
  <2>5. w.bufs[1] \in Buf  BY <1>1, <2>2
  <2>6. d \in Nat /\ w.bufs[1].capacity \in Nat  BY <2>5 DEF Buf
  <2>7. off[1] = d  BY <2>4, <2>6
  <2> QED BY <1>5, <2>1, <2>3, <2>4, <2>6, <2>7
<1>10. len > 0 => buf = 1 /\ a < d
  <2>1. len > 0 => a < d
    <3> DEFINE e == w.data_size
               c == w.bufs[1].capacity
    <3>1. m = 1 => e = d  BY <1>9
    <3>2. /\ m \in Nat /\ m >= 1 /\ c > LenSize /\ c \in Nat /\ d \in Nat /\ (m > 1 => d = c)
          /\ a \in Nat /\ a <= LenSize /\ LenSize \in Nat /\ len \in Nat /\ a + len = e /\ e \in Nat
      BY <1>1, <1>6, <1>8, <1>9
    <3> HIDE DEF a, d, e, c, m, len
    <3> QED BY <3>1, <3>2
  <2>2. ReadBufSize(1) = d
    <3>1. 1 \in DOMAIN w.bufs  BY <1>1, <1>9
    <3> QED BY <3>1 DEF ReadBufSize
  <2>3. ~w.raw => a = LenSize  BY DEF Ahead
  <2>4. (a < d) => here
    <3> HIDE DEF a, d
    <3> QED BY <1>6, <1>9, <2>2, <2>3
  <2> QED BY <2>1, <2>4
<1>11. buf \in Nat /\ pos \in Nat  BY <1>6
<1> HIDE DEF len, here, buf, pos, d, a, m
<1>12. /\ r' \in ReaderRec /\ r'.readbuf = buf /\ r'.rpos = pos /\ r'.len = len
       /\ r'.data_remain = len /\ r'.binbuf = 0 /\ r'.binbufpos = 0 /\ r'.fields = n
  BY <1>2, <1>7, <1>8, <1>11 DEF ReaderRec
<1>13. CopiesFit(r)'  BY <1>8, <1>12 DEF CopiesFit
<1>14. Standing(r', w.bufs, w.raw, off)
  <2>1. ASSUME len > 0
        PROVE  buf \in 1..m /\ pos < Len(w.bufs[buf].data)
               /\ off[buf - 1] + pos = (Ahead(w.raw) + len) - len
    <3>1. buf = 1 /\ pos < d /\ 1 \in 1..m  BY <1>6, <1>9, <1>10, <2>1
    <3>2. off[1 - 1] + pos = (a + len) - len  BY <1>6, <1>8, <1>9
    <3> QED BY <3>1, <3>2 DEF d, a
  <2> QED BY <1>12, <2>1 DEF Standing, m
<1>15. Between(r', done, w.raw, at)
  <2>1. (a + len) - len = at[0 + 1] /\ 0 <= n
    <3>1. (a + len) - len = a /\ 0 + 1 = 1  BY <1>6, <1>8
    <3>2. 0 <= n  BY <1>7
    <3> QED BY <1>7, <3>1, <3>2
  <2>2. a + len = at[n + 1]  BY <1>7, <1>8
  <2> QED BY <1>3, <1>12, <2>1, <2>2 DEF Between, a
<1>16. n <= Len(fields)  BY <1>7
<1>17. StreamOK(off, T, at)'
  BY <1>2, <1>5, <1>12, <1>14, <1>15, <1>16 DEF StreamOK, m
<1>18. done' \in Nat /\ done' = 0  BY <1>2, <1>3
<1> QED BY <1>13, <1>17, <1>18 DEF ReaderInv

\* A read takes the reader to the end of a field, or of a raw packet.
LEMMA ReaderRead ==
  ASSUME LenSize > 0, WriterInv, ReaderInv, Read
  PROVE  ReaderInv'
<1> DEFINE f == fields[done + 1]
           n == Len(fields)
<1>1. w.raw \in BOOLEAN /\ w.bufs \in Seq(Buf) /\ fields \in Seq(FieldRec) /\ done \in Nat /\ n \in Nat
  BY DEF WriterInv, WriterOK, PacketRec, ReaderInv
<1>2. /\ r # NoReader /\ ~w.hung /\ done < r.fields /\ r' = ReadField(r, f).rd
      /\ done' = (IF w.raw THEN r.fields ELSE done + 1) /\ w' = w /\ fields' = fields
  BY DEF Read
<1>3. PICK off, T, at : StreamOK(off, T, at)  BY <1>2 DEF ReaderInv
<1>4. /\ Spread(fields, w.raw, at, T) /\ Between(r, done, w.raw, at)
      /\ Ready(r, w.raw, off, T) /\ r.fields \in 0..n /\ done <= r.fields
      /\ Ahead(w.raw) + r.len = at[r.fields + 1]
  BY <1>2, <1>3, ReaderReady
<1>5. r.fields \in Nat /\ r.len \in Nat /\ r.data_remain \in Int /\ Ahead(w.raw) \in Nat
  BY <1>4, AheadNat DEF Ready, CopiesFit, ReaderRec
<1> DEFINE l == IF w.raw THEN r.data_remain ELSE Len(Wire(f, w.raw))
<1>6. /\ Past(r, r', l, w.raw, off) /\ done' \in Nat /\ done' <= r.fields
      /\ Between(r', done', w.raw, at)
  <2>1. CASE w.raw
    <3>1. ReadField(r, f) = rpacket_raw_read_binary(r) /\ l = r.data_remain /\ done' = r.fields
      BY <1>2, <2>1 DEF ReadField
    <3>2. Past(r, r', l, w.raw, off)
      <4>1. Past(r, rpacket_raw_read_binary(r).rd, r.data_remain, w.raw, off)  BY <1>4, RawAt
      <4> QED BY <1>2, <3>1, <4>1
    <3>3. r'.len = r.len /\ r'.fields = r.fields  BY <3>2 DEF Past
    <3>4. Between(r', done', w.raw, at)
      <4>1. done' <= r'.fields /\ ~(done' < r'.fields)  BY <1>5, <3>1, <3>3
      <4> QED BY <1>4, <2>1, <3>3, <4>1 DEF Between
    <3>5. done' <= r.fields /\ done' \in Nat  BY <1>5, <3>1
    <3> QED BY <3>2, <3>4, <3>5
  <2>2. CASE ~w.raw
    <3> DEFINE i == done + 1
               wire == Wire(f, w.raw)
               e == Len(wire)
    <3>1. l = e /\ done' = i  BY <1>2, <2>2
    <3>2. i \in 1..n /\ i + 1 \in 1..(n + 1) /\ r.fields + 1 \in (i + 1)..(n + 1) /\ i \in Nat
          /\ i <= r.fields
      BY <1>1, <1>2, <1>4, <1>5
    <3>3. /\ f \in FieldRec /\ e \in Nat /\ at[i] \in Nat /\ at[i + 1] \in Nat
          /\ at[i + 1] = at[i] + e /\ Holds(T, at[i], wire) /\ at[i + 1] <= at[r.fields + 1]
          /\ at[r.fields + 1] \in Nat
      <4>1. /\ \A j \in 1..n :
                 /\ fields[j] \in FieldRec /\ Len(Wire(fields[j], w.raw)) \in Nat
                 /\ at[j] \in Nat /\ at[j + 1] \in Nat
                 /\ at[j + 1] = at[j] + Len(Wire(fields[j], w.raw))
                 /\ Holds(T, at[j], Wire(fields[j], w.raw))
            /\ \A k \in 1..(n + 1) : at[k] \in Nat /\ \A j \in k..(n + 1) : at[k] <= at[j]
        BY <1>1, <1>4, SpreadFacts
      <4>2. r.fields + 1 \in 1..(n + 1)  BY <1>1, <1>4, <1>5
      <4> HIDE DEF n
      <4> QED BY <3>2, <4>1, <4>2
    <3>4. Place(r, w.raw) = at[i]  BY <1>4, <2>2 DEF Between, Place
    <3>5. e <= r.data_remain
      <4> DEFINE a == Ahead(w.raw)
                 b == at[i]
                 c == at[i + 1]
                 g == at[r.fields + 1]
                 v == r.data_remain
                 len == r.len
      <4>1. /\ a \in Nat /\ b \in Nat /\ c \in Nat /\ g \in Nat /\ e \in Nat /\ v \in Int /\ len \in Nat
            /\ a + len = g /\ (a + len) - v = b /\ c = b + e /\ c <= g
        BY <1>4, <1>5, <3>3, <3>4 DEF Place
      <4> HIDE DEF a, b, c, g, v, len, e
      <4>2. e <= v  BY <4>1
      <4> QED BY <4>2 DEF v
    <3>6. Holds(T, Place(r, w.raw), wire)  BY <3>3, <3>4
    <3>7. w.raw = FALSE  BY <1>1, <2>2
    <3>8. Past(r, ReadField(r, f).rd, e, w.raw, off)
      <4> HIDE DEF f
      <4> QED BY <1>4, <3>3, <3>5, <3>6, <3>7, FieldAt
    <3>9. Past(r, r', e, w.raw, off)  BY <1>2, <3>8
    <3>10. r'.len = r.len /\ r'.fields = r.fields /\ r'.data_remain = r.data_remain - e
      BY <3>9 DEF Past
    <3>11. (Ahead(w.raw) + r'.len) - r'.data_remain = at[i + 1]
      <4> DEFINE a == Ahead(w.raw)
                 b == at[i]
                 c == at[i + 1]
                 v == r.data_remain
                 len == r.len
      <4>1. /\ a \in Nat /\ b \in Nat /\ e \in Nat /\ v \in Int /\ len \in Nat
            /\ (a + len) - v = b /\ c = b + e
        BY <1>5, <3>3, <3>4 DEF Place
      <4> HIDE DEF a, b, c, v, len, e
      <4>2. (a + len) - (v - e) = c  BY <4>1
      <4> QED BY <3>10, <4>2 DEF a, c, v, len
    <3>12. Between(r', i, w.raw, at)
      <4> HIDE DEF i
      <4> QED BY <1>4, <2>2, <3>2, <3>10, <3>11 DEF Between
    <3> QED BY <3>1, <3>2, <3>9, <3>12
  <2> QED BY <2>1, <2>2
<1> HIDE DEF l, f
<1>7. CopiesFit(r') /\ r'.fields = r.fields /\ Standing(r', w.bufs, w.raw, off)  BY <1>6 DEF Past
<1>8. r' # NoReader
  <2>1. NoReader.fields = -1  BY DEF NoReader
  <2>2. r'.fields # -1  BY <1>5, <1>7
  <2> QED BY <2>1, <2>2
<1>9. /\ Laid(w.bufs, off, T) /\ Filled(w.bufs) /\ w.wpos = Len(w.bufs[Len(w.bufs)].data)
      /\ w.data_size = Len(T) /\ Marked(fields, w.bufs, off, at)
  BY <1>3 DEF StreamOK
<1>10. r'.fields <= n  BY <1>4, <1>7
<1>11. StreamOK(off, T, at)'  BY <1>2, <1>4, <1>6, <1>7, <1>9, <1>10 DEF StreamOK
<1> QED BY <1>6, <1>7, <1>8, <1>11 DEF ReaderInv, CopiesFit, NoReader

\* A new packet: its one buffer holds the length field, or nothing.
LEMMA ReaderInit ==
  ASSUME RoomForData, PacketInit
  PROVE  ReaderInv
<1>1. PICK n \in Sizes, raw \in BOOLEAN : w = wpacket_create(n, raw)  BY DEF PacketInit
<1>2. fields = <<>> /\ r = NoReader /\ done = 0  BY DEF PacketInit
<1> DEFINE cap == GetSize_of_pow2(n)
           hdr == IF raw THEN <<>> ELSE Encode(0, LenSize)
           buf == [capacity |-> cap, data |-> hdr]
           h   == Len(hdr)
           off == [k \in 0..1 |-> IF k = 0 THEN 0 ELSE h]
           at  == [k \in 1..1 |-> h]
<1>3. n \in Nat \ {0} /\ n > LenSize /\ LenSize \in Nat  BY PacketAssumption DEF RoomForData
<1>4. cap \in Powers /\ n <= cap  BY <1>3, SizeOK
<1>5. cap \in Nat  BY <1>4, ModFacts
<1>6. hdr \in Seq(Byte) /\ h = Ahead(raw) /\ h \in Nat /\ h <= LenSize
  <2>1. Encode(0, LenSize) \in Seq(Byte) /\ Len(Encode(0, LenSize)) = LenSize
    BY <1>3, EncodeSeq
  <2>2. CASE raw  BY <1>3, <2>2 DEF Ahead
  <2>3. CASE ~raw  BY <1>3, <2>1, <2>3 DEF Ahead
  <2> QED BY <2>2, <2>3
<1>7. w.bufs = <<buf>> /\ w.raw = raw /\ w.data_size = h /\ w.wpos = h
  BY <1>1 DEF wpacket_create
<1> HIDE DEF cap, hdr, h
<1>8. buf \in Buf /\ buf.capacity = cap /\ buf.data = hdr  BY <1>5, <1>6 DEF Buf
<1> HIDE DEF buf
<1>9. /\ w.bufs \in Seq(Buf) /\ Len(w.bufs) = 1 /\ w.bufs[1] = buf
      /\ \A b \in 1..1 : b = 1 /\ ~(b < 1) /\ ~(b > 1)
  BY <1>7, <1>8
<1>10. cap > LenSize /\ h <= cap  BY <1>3, <1>4, <1>5, <1>6
<1>11. Filled(w.bufs)
  <2>1. Len(buf.data) <= buf.capacity /\ buf.capacity > LenSize  BY <1>8, <1>10 DEF h
  <2> QED BY <1>9, <2>1 DEF Filled
<1>12. off \in [0..1 -> Nat] /\ off[0] = 0 /\ off[1] = h  BY <1>6
<1> HIDE DEF off
<1>13. Laid(w.bufs, off, hdr)
  <2>1. Len(hdr) = h /\ 0 + h = h /\ 1 - 1 = 0  BY <1>6 DEF h
  <2>2. \A j \in 1..Len(hdr) : hdr[0 + j] = hdr[j]
    <3>1. Len(hdr) \in Nat  BY <1>6
    <3> QED BY <3>1
  <2> QED BY <1>6, <1>8, <1>9, <1>12, <2>1, <2>2 DEF Laid
<1>14. at \in [1..1 -> Nat] /\ at[1] = h  BY <1>6
<1> HIDE DEF at
<1>15. Len(fields) = 0 /\ 0 + 1 = 1 /\ 1..0 = {}  BY <1>2
<1>16. Spread(fields, w.raw, at, hdr)
  <2>1. Len(hdr) = h  BY DEF h
  <2> QED BY <1>6, <1>7, <1>14, <1>15, <2>1 DEF Spread
<1>17. Marked(fields, w.bufs, off, at)  BY <1>15 DEF Marked
<1>18. w.wpos = Len(w.bufs[Len(w.bufs)].data) /\ w.data_size = Len(hdr)
  BY <1>7, <1>8, <1>9 DEF h
<1>19. StreamOK(off, hdr, at)  BY <1>2, <1>11, <1>13, <1>16, <1>17, <1>18 DEF StreamOK
<1> QED BY <1>2, <1>19 DEF ReaderInv

LEMMA ReaderStep ==
  ASSUME RoomForData, WriterInv, ReaderInv, [PacketNext]_pvars
  PROVE  ReaderInv'
<1>1. w.raw \in BOOLEAN /\ fields \in Seq(FieldRec) /\ w \in PacketRec
  BY DEF WriterInv, WriterOK, PacketRec
<1>2. Widths \subseteq Nat /\ Lengths \subseteq Nat  BY PacketAssumption
<1>3. wpacket_get_writepos \in [buf : Nat, wpos : Nat]
  BY <1>1 DEF wpacket_get_writepos, PacketRec
<1>4. Placeholder \in Nat /\ Text \in Nat  BY DEF Placeholder, Text
<1>5. ASSUME NEW n \in Widths, wpacket_write_number(n) PROVE ReaderInv'
  <2> DEFINE kind == "number"
             v == Placeholder
             pos == wpacket_get_writepos
             f == [kind |-> kind, size |-> n, value |-> v, wp |-> pos]
  <2>1. /\ ~w.hung /\ w' = wpacket_write(w, Encode(v, n)) /\ fields' = Append(fields, f)
        /\ r' = r /\ done' = done
    BY <1>5 DEF wpacket_write_number
  <2>2. kind = "number" /\ kind \in {"number", "binary"} /\ v \in Nat /\ n \in Nat
        /\ pos \in [buf : Nat, wpos : Nat]
    BY <1>2, <1>3, <1>4
  <2> HIDE DEF kind, v, pos
  <2>3. f \in FieldRec /\ f.kind = kind /\ f.size = n /\ f.value = v /\ f.wp = pos
    BY <2>2 DEF FieldRec
  <2> HIDE DEF f
  <2>4. Wire(f, w.raw) = Contents(f)  BY <1>1, <2>2, <2>3, WireSeq
  <2>5. Wire(f, w.raw) = Encode(v, n)  BY <2>3, <2>4 DEF Contents
  <2> QED BY <2>1, <2>3, <2>5, ReaderWrite DEF pos
<1>6. ASSUME NEW n \in Lengths, wpacket_write_binary(n) PROVE ReaderInv'
  <2> DEFINE kind == "binary"
             v == Text
             pos == wpacket_get_writepos
             f == [kind |-> kind, size |-> n, value |-> v, wp |-> pos]
             bytes == (IF w.raw THEN <<>> ELSE Encode(n, LenSize)) \o Encode(v, n)
  <2>1. /\ ~w.hung /\ w' = wpacket_write(w, bytes) /\ fields' = Append(fields, f)
        /\ r' = r /\ done' = done
    BY <1>6 DEF wpacket_write_binary
  <2>2. kind # "number" /\ kind \in {"number", "binary"} /\ v \in Nat /\ n \in Nat
        /\ pos \in [buf : Nat, wpos : Nat]
    BY <1>2, <1>3, <1>4
  <2> HIDE DEF kind, v, pos
  <2>3. f \in FieldRec /\ f.kind = kind /\ f.size = n /\ f.value = v /\ f.wp = pos
    BY <2>2 DEF FieldRec
  <2> HIDE DEF f
  <2>4. Contents(f) = Encode(v, n)  BY <2>3 DEF Contents
  <2>5. Wire(f, w.raw) = bytes
    <3>1. (w.raw \/ f.kind = "number") <=> w.raw  BY <1>1, <2>2, <2>3
    <3> QED BY <2>3, <2>4, <3>1 DEF Wire
  <2> HIDE DEF bytes
  <2> QED BY <2>1, <2>3, <2>5, ReaderWrite DEF pos
<1>7. ASSUME NEW k \in DOMAIN fields, wpacket_rewrite(k) PROVE ReaderInv'
  BY <1>7, ReaderRewrite
<1>8. ASSUME rpacket_create_by_wpacket PROVE ReaderInv'  BY <1>8, ReaderCreate
<1>9. ASSUME Read PROVE ReaderInv'  BY <1>9, ReaderRead DEF RoomForData
<1>10. ASSUME UNCHANGED pvars PROVE ReaderInv'
  BY <1>10 DEF pvars, ReaderInv, StreamOK, CopiesFit, NoReader
<1> QED BY <1>5, <1>6, <1>7, <1>8, <1>9, <1>10 DEF PacketNext

\* A reader gets back what was written before it was made, rewritten values
\* included, and its binaries fit in binbuf: for every requested size that is
\* larger than the length field, wherever the buffers end.
THEOREM ReaderCorrect == RoomForData => (PacketSpec => []ReaderSound)
<1> SUFFICES ASSUME RoomForData PROVE PacketSpec => []ReaderSound  OBVIOUS
<1>1. PacketInit => WriterInv /\ ReaderInv  BY WriterInit, ReaderInit
<1>2. (WriterInv /\ ReaderInv) /\ [PacketNext]_pvars => (WriterInv /\ ReaderInv)'
  BY WriterStep, ReaderStep
<1>3. WriterInv /\ ReaderInv => ReaderSound  BY ReaderInvSound DEF RoomForData
<1> QED BY <1>1, <1>2, <1>3, PTL DEF PacketSpec
=============================================================================
