----------------------------- MODULE SeqLemmas -----------------------------
(***************************************************************************)
(* Lemmas that the other proofs share: least elements, sequences without   *)
(* repetition, what Without leaves of one, recursive functions, sums,      *)
(* joined sequences and remainders.                                        *)
(***************************************************************************)
EXTENDS ListOps, SequencesExt, FiniteSetTheorems, SequenceTheorems, WellFoundedInduction, TLAPS

\* A set of numbers has a least one.  It stands in for induction: a claim about
\* all numbers that fails has a least number at which it fails.
LEMMA LeastElement ==
  ASSUME NEW S \in SUBSET Nat, S # {}
  PROVE  \E x \in S : \A y \in S : x <= y
<1>1. PICK x \in S : \A y \in S : ~(<<y, x>> \in OpToRel(<, Nat))
  BY NatLessThanWellFounded, WFMin, Zenon
<1>2. \A y \in S : ~(y < x)  BY <1>1 DEF OpToRel
<1>3. \A y \in S : x <= y  BY <1>2
<1> QED BY <1>3

NoRepeat(s) == \A i, j \in 1..Len(s) : s[i] = s[j] => i = j
Elems(s) == {s[i] : i \in 1..Len(s)}

LEMMA ElemsSeq ==
  ASSUME NEW S, NEW s \in Seq(S)
  PROVE  Elems(s) \subseteq S /\ (s = <<>> <=> Elems(s) = {}) /\ ToSet(s) = Elems(s)
<1>1. Elems(s) \subseteq S  BY DEF Elems
<1>2. s = <<>> => Elems(s) = {}  BY DEF Elems
<1>3. ASSUME s # <<>> PROVE Elems(s) # {}
  <2>1. 1 \in 1..Len(s)  BY <1>3
  <2> QED BY <2>1 DEF Elems
<1>4. ToSet(s) = Elems(s)  BY DEF ToSet, Elems
<1> QED BY <1>1, <1>2, <1>3, <1>4

LEMMA ElemsTail ==
  ASSUME NEW S, NEW s \in Seq(S), NoRepeat(s), s # <<>>
  PROVE  /\ Tail(s) \in Seq(S) /\ NoRepeat(Tail(s)) /\ Head(s) \in Elems(s)
         /\ Elems(Tail(s)) = Elems(s) \ {Head(s)}
<1>1. Len(s) \in Nat \ {0} /\ Len(Tail(s)) = Len(s) - 1 /\ Tail(s) \in Seq(S)
  <2>1. Len(s) \in Nat \ {0}  OBVIOUS
  <2> QED BY <2>1
<1>2. \A i \in 1..(Len(s) - 1) : Tail(s)[i] = s[i + 1]  BY <1>1
<1>3. NoRepeat(Tail(s))
  <2> SUFFICES ASSUME NEW i \in 1..(Len(s) - 1), NEW j \in 1..(Len(s) - 1),
                      Tail(s)[i] = Tail(s)[j]
               PROVE  i = j
    BY <1>1 DEF NoRepeat
  <2>1. i + 1 \in 1..Len(s) /\ j + 1 \in 1..Len(s)  BY <1>1
  <2>2. s[i + 1] = s[j + 1]  BY <1>2
  <2>3. i + 1 = j + 1  BY <2>1, <2>2 DEF NoRepeat
  <2> QED BY <2>3
<1>4. Head(s) = s[1] /\ 1 \in 1..Len(s)  BY <1>1
<1>5. ASSUME NEW x \in Elems(Tail(s)) PROVE x \in Elems(s) \ {Head(s)}
  <2>1. PICK i \in 1..(Len(s) - 1) : x = s[i + 1]  BY <1>1, <1>2, <1>5 DEF Elems
  <2>2. i + 1 \in 1..Len(s) /\ i + 1 # 1  BY <1>1
  <2>3. s[i + 1] # s[1]  BY <1>4, <2>2 DEF NoRepeat
  <2> QED BY <1>4, <2>1, <2>2, <2>3 DEF Elems
<1>6. ASSUME NEW x \in Elems(s), x # Head(s) PROVE x \in Elems(Tail(s))
  <2>1. PICK i \in 1..Len(s) : x = s[i]  BY <1>6 DEF Elems
  <2>2. i # 1  BY <1>4, <1>6, <2>1
  <2>3. i - 1 \in 1..(Len(s) - 1) /\ (i - 1) + 1 = i  BY <1>1, <2>2
  <2>4. Tail(s)[i - 1] = x  BY <1>2, <2>1, <2>3
  <2> QED BY <1>1, <2>3, <2>4 DEF Elems
<1> QED BY <1>1, <1>3, <1>4, <1>5, <1>6 DEF Elems

LEMMA ElemsCat ==
  ASSUME NEW S, NEW s \in Seq(S), NEW t \in Seq(S), NoRepeat(s), NoRepeat(t),
         Elems(s) \cap Elems(t) = {}
  PROVE  s \o t \in Seq(S) /\ NoRepeat(s \o t) /\ Elems(s \o t) = Elems(s) \cup Elems(t)
<1> DEFINE n == Len(s)
           m == Len(t)
           u == s \o t
<1>1. n \in Nat /\ m \in Nat /\ u \in Seq(S) /\ Len(u) = n + m  OBVIOUS
<1>2. \A i \in 1..(n + m) : u[i] = IF i <= n THEN s[i] ELSE t[i - n]  BY <1>1
<1>3. \A i \in 1..(n + m) : /\ i <= n => i \in 1..n /\ u[i] = s[i] /\ u[i] \in Elems(s)
                            /\ i > n => i - n \in 1..m /\ u[i] = t[i - n] /\ u[i] \in Elems(t)
  BY <1>1, <1>2 DEF Elems
<1> HIDE DEF u
<1>4. NoRepeat(u)
  <2> SUFFICES ASSUME NEW i \in 1..(n + m), NEW j \in 1..(n + m), u[i] = u[j]
               PROVE  i = j
    BY <1>1 DEF NoRepeat
  <2>1. CASE i <= n /\ j <= n  BY <1>3, <2>1 DEF NoRepeat
  <2>2. CASE i > n /\ j > n
    <3>1. i - n = j - n  BY <1>3, <2>2 DEF NoRepeat
    <3> QED BY <1>1, <3>1
  <2>3. CASE i <= n /\ j > n  BY <1>3, <2>3
  <2>4. CASE i > n /\ j <= n  BY <1>3, <2>4
  <2> QED BY <1>1, <2>1, <2>2, <2>3, <2>4
<1>5. ASSUME NEW x \in Elems(u) PROVE x \in Elems(s) \cup Elems(t)
  <2>1. PICK i \in 1..(n + m) : x = u[i]  BY <1>1, <1>5 DEF Elems
  <2> QED BY <1>1, <1>3, <2>1
<1>6. ASSUME NEW x \in Elems(s) PROVE x \in Elems(u)
  <2>1. PICK i \in 1..n : x = s[i]  BY <1>6 DEF Elems
  <2>2. i \in 1..(n + m) /\ u[i] = x  BY <1>1, <1>3, <2>1
  <2> QED BY <1>1, <2>2 DEF Elems
<1>7. ASSUME NEW x \in Elems(t) PROVE x \in Elems(u)
  <2>1. PICK i \in 1..m : x = t[i]  BY <1>7 DEF Elems
  <2>2. n + i \in 1..(n + m) /\ n + i > n /\ (n + i) - n = i  BY <1>1, <2>1
  <2>3. u[n + i] = x  BY <1>3, <2>1, <2>2
  <2> QED BY <1>1, <2>2, <2>3 DEF Elems
<1> QED BY <1>1, <1>4, <1>5, <1>6, <1>7 DEF u

LEMMA ElemsPut ==
  ASSUME NEW S, NEW s \in Seq(S), NoRepeat(s), NEW x \in S, x \notin Elems(s)
  PROVE  /\ Append(s, x) \in Seq(S) /\ NoRepeat(Append(s, x))
         /\ Elems(Append(s, x)) = Elems(s) \cup {x}
<1>1. /\ Append(s, x) \in Seq(S) /\ Len(Append(s, x)) = Len(s) + 1 /\ Len(s) \in Nat
      /\ \A i \in 1..Len(s) : Append(s, x)[i] = s[i]
      /\ Append(s, x)[Len(s) + 1] = x
  OBVIOUS
<1>2. \A i \in 1..(Len(s) + 1) : i \in 1..Len(s) \/ i = Len(s) + 1  BY <1>1
<1>3. \A i \in 1..Len(s) : s[i] # x /\ i \in 1..(Len(s) + 1)  BY <1>1 DEF Elems
<1>4. Len(s) + 1 \in 1..(Len(s) + 1)  BY <1>1
<1>5. NoRepeat(Append(s, x))  BY <1>1, <1>2, <1>3 DEF NoRepeat
<1>6. Elems(Append(s, x)) = Elems(s) \cup {x}  BY <1>1, <1>2, <1>3, <1>4 DEF Elems
<1> QED BY <1>1, <1>5, <1>6

\* How often x is in a sequence without repetition.
LEMMA ElemsCount ==
  ASSUME NEW S, NEW s \in Seq(S), NoRepeat(s), NEW x
  PROVE  Cardinality({i \in DOMAIN s : s[i] = x}) = IF x \in Elems(s) THEN 1 ELSE 0
<1>1. DOMAIN s = 1..Len(s)  OBVIOUS
<1>2. CASE x \in Elems(s)
  <2>1. PICK i \in 1..Len(s) : s[i] = x  BY <1>2 DEF Elems
  <2>2. {k \in DOMAIN s : s[k] = x} = {i}  BY <1>1, <2>1 DEF NoRepeat
  <2>3. Cardinality({i}) = 1  BY FS_Singleton
  <2> QED BY <1>2, <2>2, <2>3
<1>3. CASE x \notin Elems(s)
  <2>1. {k \in DOMAIN s : s[k] = x} = {}  BY <1>1, <1>3 DEF Elems
  <2> QED BY <1>3, <2>1, FS_EmptySet
<1> QED BY <1>2, <1>3


\* A sequence without repetition is as long as it has elements.
LEMMA ElemsSize ==
  ASSUME NEW S, NEW s \in Seq(S), NoRepeat(s)
  PROVE  IsFiniteSet(Elems(s)) /\ Cardinality(Elems(s)) = Len(s)
<1>1. Len(s) \in Nat /\ s \in [1..Len(s) -> Elems(s)]  BY DEF Elems
<1>2. s \in Bijection(1..Len(s), Elems(s))
  BY <1>1 DEF Bijection, Injection, Surjection, IsInjective, NoRepeat, Elems
<1>3. ExistsBijection(1..Len(s), Elems(s))  BY <1>2 DEF ExistsBijection
<1>4. IsFiniteSet(1..Len(s)) /\ Cardinality(1..Len(s)) = Len(s)  BY <1>1, FS_Interval
<1> QED BY <1>3, <1>4, FS_Bijection

\* A sequence cut in two.
FirstOf(s, n) == SubSeq(s, 1, n)
RestOf(s, n) == SubSeq(s, n + 1, Len(s))

LEMMA ElemsCut ==
  ASSUME NEW S, NEW s \in Seq(S), NoRepeat(s), NEW n \in 0..Len(s)
  PROVE  /\ FirstOf(s, n) \in Seq(S) /\ NoRepeat(FirstOf(s, n)) /\ Len(FirstOf(s, n)) = n
         /\ RestOf(s, n) \in Seq(S) /\ NoRepeat(RestOf(s, n))
         /\ Len(RestOf(s, n)) = Len(s) - n
         /\ Elems(FirstOf(s, n)) \cap Elems(RestOf(s, n)) = {}
         /\ Elems(FirstOf(s, n)) \cup Elems(RestOf(s, n)) = Elems(s)
<1> DEFINE m == Len(s)
           a == FirstOf(s, n)
           b == RestOf(s, n)
<1>1. m \in Nat /\ n \in Nat /\ n <= m  OBVIOUS
<1>2. a \in Seq(S) /\ Len(a) = n /\ \A i \in 1..n : a[i] = s[i]
  BY <1>1 DEF FirstOf
<1>3. b \in Seq(S) /\ Len(b) = m - n /\ \A i \in 1..(m - n) : b[i] = s[n + i]
  BY <1>1 DEF RestOf
<1> HIDE DEF a, b
<1>4. NoRepeat(a)  BY <1>1, <1>2 DEF NoRepeat
<1>5. NoRepeat(b)
  <2> SUFFICES ASSUME NEW i \in 1..(m - n), NEW j \in 1..(m - n), b[i] = b[j]
               PROVE  i = j
    BY <1>3 DEF NoRepeat
  <2>1. n + i \in 1..m /\ n + j \in 1..m  BY <1>1
  <2>2. s[n + i] = s[n + j]  BY <1>3
  <2>3. n + i = n + j  BY <2>1, <2>2 DEF NoRepeat
  <2> QED BY <1>1, <2>3
<1>6. ASSUME NEW x \in Elems(a), x \in Elems(b) PROVE FALSE
  <2>1. PICK i \in 1..n : x = s[i]  BY <1>2 DEF Elems
  <2>2. PICK j \in 1..(m - n) : x = s[n + j]  BY <1>3, <1>6 DEF Elems
  <2>3. i \in 1..m /\ n + j \in 1..m /\ i # n + j  BY <1>1
  <2> QED BY <2>1, <2>2, <2>3 DEF NoRepeat
<1>7. ASSUME NEW x \in Elems(s) PROVE x \in Elems(a) \cup Elems(b)
  <2>1. PICK i \in 1..m : x = s[i]  BY <1>7 DEF Elems
  <2>2. CASE i <= n
    <3>1. i \in 1..n  BY <1>1, <2>2
    <3> QED BY <1>2, <2>1, <3>1 DEF Elems
  <2>3. CASE i > n
    <3>1. i - n \in 1..(m - n) /\ n + (i - n) = i  BY <1>1, <2>3
    <3>2. b[i - n] = x  BY <1>3, <2>1, <3>1
    <3> QED BY <1>3, <3>1, <3>2 DEF Elems
  <2> QED BY <1>1, <2>2, <2>3
<1>8. ASSUME NEW x \in Elems(a) PROVE x \in Elems(s)
  <2>1. PICK i \in 1..n : x = s[i]  BY <1>2 DEF Elems
  <2>2. i \in 1..m  BY <1>1
  <2> QED BY <2>1, <2>2 DEF Elems
<1>9. ASSUME NEW x \in Elems(b) PROVE x \in Elems(s)
  <2>1. PICK j \in 1..(m - n) : x = s[n + j]  BY <1>3 DEF Elems
  <2>2. n + j \in 1..m  BY <1>1
  <2> QED BY <2>1, <2>2 DEF Elems
<1> QED BY <1>2, <1>3, <1>4, <1>5, <1>6, <1>7, <1>8, <1>9 DEF a, b

-----------------------------------------------------------------------------
(* Without.                                                                *)

\* The recursive function in Without, as far as n.
IsKept(f, s, W, n) ==
  f = [i \in 0..n |-> IF i = 0 THEN <<>>
                      ELSE IF s[i] \in W THEN f[i - 1] ELSE Append(f[i - 1], s[i])]

LEMMA KeptDefined ==
  ASSUME NEW s, NEW W, NEW n \in Nat
  PROVE  \E f : IsKept(f, s, W, n)
<1> DEFINE S == {m \in Nat : ~ \E f : IsKept(f, s, W, m)}
<1>1. ASSUME S # {} PROVE FALSE
  <2>1. S \in SUBSET Nat  OBVIOUS
  <2>2. PICK m \in S : \A y \in S : m <= y  BY <1>1, <2>1, LeastElement
  <2>3. m \in Nat /\ ~ \E f : IsKept(f, s, W, m)  BY <2>2
  <2>4. CASE m = 0
    <3>1. IsKept([i \in 0..0 |-> <<>>], s, W, 0)  BY DEF IsKept
    <3> QED BY <2>3, <2>4, <3>1
  <2>5. CASE m # 0
    <3>1. m - 1 \in Nat /\ m - 1 \notin S  BY <2>2, <2>3, <2>5
    <3>2. PICK g : IsKept(g, s, W, m - 1)  BY <3>1
    <3> DEFINE last == IF s[m] \in W THEN g[m - 1] ELSE Append(g[m - 1], s[m])
               h == [i \in 0..m |-> IF i < m THEN g[i] ELSE last]
    <3>3. \A i \in 0..(m - 1) :
            g[i] = IF i = 0 THEN <<>>
                   ELSE IF s[i] \in W THEN g[i - 1] ELSE Append(g[i - 1], s[i])
      BY <3>2 DEF IsKept
    <3>4. ASSUME NEW i \in 0..m
          PROVE  h[i] = IF i = 0 THEN <<>>
                        ELSE IF s[i] \in W THEN h[i - 1] ELSE Append(h[i - 1], s[i])
      <4>1. CASE i < m
        <5>1. h[i] = g[i] /\ i \in 0..(m - 1)  BY <2>3, <4>1
        <5>2. i # 0 => h[i - 1] = g[i - 1]
          <6>1. i # 0 => i - 1 \in 0..m /\ i - 1 < m  BY <2>3, <4>1
          <6> QED BY <6>1
        <5> QED BY <3>3, <5>1, <5>2
      <4>2. CASE i = m
        <5>1. h[m - 1] = g[m - 1]
          <6>1. m - 1 \in 0..m /\ m - 1 < m  BY <2>3, <2>5
          <6> QED BY <6>1
        <5>2. h[m] = last
          <6>1. m \in 0..m /\ ~(m < m)  BY <2>3
          <6> QED BY <6>1
        <5> QED BY <2>5, <4>2, <5>1, <5>2
      <4> QED BY <2>3, <4>1, <4>2
    <3>5. h = [i \in 0..m |-> h[i]]  OBVIOUS
    <3> HIDE DEF h
    <3>6. IsKept(h, s, W, m)  BY <3>4, <3>5 DEF IsKept
    <3> QED BY <2>3, <3>6
  <2> QED BY <2>4, <2>5
<1> QED BY <1>1

\* The elements outside W, each once, are left.
LEMMA WithoutElems ==
  ASSUME NEW S, NEW s \in Seq(S), NoRepeat(s), NEW W
  PROVE  /\ Without(s, W) \in Seq(S) /\ NoRepeat(Without(s, W))
         /\ Elems(Without(s, W)) = Elems(s) \ W
         /\ Len(Without(s, W)) = Len(s) - Cardinality(Elems(s) \cap W)
<1> DEFINE n == Len(s)
           f == CHOOSE g : IsKept(g, s, W, n)
           Upto(i) == {s[k] : k \in 1..i}
           Good(i) == f[i] \in Seq(S) /\ NoRepeat(f[i]) /\ Elems(f[i]) = Upto(i) \ W
<1>1. n \in Nat  OBVIOUS
<1>2. Without(s, W) = f[n]  BY DEF Without, IsKept
<1>3. IsKept(f, s, W, n)  BY <1>1, KeptDefined
<1> HIDE DEF f, n
<1>4. \A i \in 0..n :
        f[i] = IF i = 0 THEN <<>>
               ELSE IF s[i] \in W THEN f[i - 1] ELSE Append(f[i - 1], s[i])
  BY <1>3 DEF IsKept
<1>5. ASSUME NEW S0 \in SUBSET Nat, S0 = {i \in 0..n : ~Good(i)}, S0 # {} PROVE FALSE
  <2>2. PICK m \in S0 : \A y \in S0 : m <= y  BY <1>5, LeastElement
  <2>3. m \in 0..n /\ ~Good(m)  BY <1>5, <2>2, Zenon
  <2>4. CASE m = 0
    <3>1. f[0] = <<>>  BY <1>4, <2>3, <2>4
    <3>2. Elems(<<>>) = {} /\ NoRepeat(<<>>) /\ Upto(0) = {}  BY DEF Elems, NoRepeat
    <3>3. Good(0)  BY <3>1, <3>2
    <3> QED BY <2>3, <2>4, <3>3
  <2>5. CASE m # 0
    <3>1. m - 1 \in 0..n /\ ~(m <= m - 1) /\ m \in 1..n  BY <1>1, <2>3, <2>5
    <3>2. Good(m - 1)
      <4>1. m - 1 \notin S0  BY <2>2, <3>1, Zenon
      <4> QED BY <1>5, <3>1, <4>1, Zenon
    <3>3. f[m] = IF s[m] \in W THEN f[m - 1] ELSE Append(f[m - 1], s[m])
      BY <1>4, <2>3, <2>5
    <3>4. s[m] \in S  BY <3>1 DEF n
    <3>5. Upto(m) = Upto(m - 1) \cup {s[m]}
      <4>1. \A k \in 1..m : k \in 1..(m - 1) \/ k = m  BY <1>1, <3>1
      <4>2. \A k \in 1..(m - 1) : k \in 1..m  BY <1>1, <3>1
      <4>3. m \in 1..m  BY <1>1, <3>1
      <4> QED BY <4>1, <4>2, <4>3
    <3>6. s[m] \notin Upto(m - 1)
      <4>1. ASSUME NEW k \in 1..(m - 1) PROVE s[k] # s[m]
        <5>1. k \in 1..n /\ k # m  BY <1>1, <3>1
        <5> QED BY <3>1, <5>1 DEF NoRepeat, n
      <4> QED BY <4>1
    <3> HIDE DEF Upto
    <3>7. CASE s[m] \in W  BY <2>3, <3>2, <3>3, <3>5, <3>7
    <3>8. CASE s[m] \notin W
      <4>1. s[m] \notin Elems(f[m - 1])  BY <3>2, <3>6
      <4>2. /\ f[m] \in Seq(S) /\ NoRepeat(f[m])
            /\ Elems(f[m]) = Elems(f[m - 1]) \cup {s[m]}
        BY <3>2, <3>3, <3>4, <3>8, <4>1, ElemsPut
      <4> QED BY <2>3, <3>2, <3>5, <3>8, <4>2
    <3> QED BY <3>7, <3>8
  <2> QED BY <2>4, <2>5
<1>6. Good(n)
  <2> DEFINE S0 == {i \in 0..n : ~Good(i)}
  <2>1. S0 \in SUBSET Nat /\ n \in 0..n  BY <1>1
  <2>2. S0 = {}  BY <1>5, <2>1
  <2> QED BY <2>1, <2>2, Zenon
<1>7. Upto(n) = Elems(s)  BY DEF Elems, n
<1>8. Len(f[n]) = n - Cardinality(Elems(s) \cap W)
  <2>1. IsFiniteSet(Elems(s)) /\ Cardinality(Elems(s)) = n  BY ElemsSize DEF n
  <2>2. Cardinality(Elems(f[n])) = Len(f[n])  BY <1>6, ElemsSize
  <2>3. Cardinality(Elems(s) \ W) = Cardinality(Elems(s)) - Cardinality(Elems(s) \cap W)
    BY <2>1, FS_Difference
  <2> QED BY <1>6, <1>7, <2>1, <2>2, <2>3
<1> QED BY <1>2, <1>6, <1>7, <1>8 DEF n


-----------------------------------------------------------------------------
(* Recursive functions that stay inside a set.                             *)

\* f starts with x, and its value at i is G[i] of the one before, up to n.
Follows(f, x, G, n) ==
  f[0] = x /\ \A i \in 1..n : f[i] = G[i][f[i - 1]]

\* There is such a function, whatever the steps in G do.
LEMMA RecDefined ==
  ASSUME NEW S, NEW x \in S, NEW n \in Nat, NEW G \in [1..n -> [S -> S]]
  PROVE  \E f \in [0..n -> S] : Follows(f, x, G, n)
<1> DEFINE Bad == {m \in 0..n : ~ \E f \in [0..m -> S] : Follows(f, x, G, m)}
<1>1. ASSUME Bad # {} PROVE FALSE
  <2>1. Bad \in SUBSET Nat  OBVIOUS
  <2>2. PICK m \in Bad : \A y \in Bad : m <= y  BY <1>1, <2>1, LeastElement
  <2>3. m \in 0..n /\ ~ \E f \in [0..m -> S] : Follows(f, x, G, m)  BY <2>2
  <2>4. CASE m = 0
    <3> DEFINE g == [i \in 0..0 |-> x]
    <3>1. g \in [0..0 -> S] /\ g[0] = x  OBVIOUS
    <3>2. Follows(g, x, G, 0)  BY <3>1 DEF Follows
    <3> QED BY <2>3, <2>4, <3>1, <3>2
  <2>5. CASE m # 0
    <3>1. m - 1 \in 0..n /\ ~(m <= m - 1) /\ m \in 1..n /\ m \in Nat  BY <2>3, <2>5
    <3>2. m - 1 \notin Bad  BY <2>2, <3>1
    <3>3. PICK g \in [0..(m - 1) -> S] : Follows(g, x, G, m - 1)  BY <3>1, <3>2
    <3> DEFINE h == [i \in 0..m |-> IF i < m THEN g[i] ELSE G[m][g[m - 1]]]
    <3>4. \A i \in 0..(m - 1) : h[i] = g[i] /\ g[i] \in S  BY <3>1
    <3>5. m - 1 \in 0..(m - 1) /\ 0 \in 0..(m - 1)  BY <3>1
    <3>6. h[m] = G[m][h[m - 1]] /\ G[m][g[m - 1]] \in S
      <4>1. h[m] = G[m][g[m - 1]]  BY <3>1
      <4>2. G[m] \in [S -> S] /\ g[m - 1] \in S  BY <3>1, <3>5
      <4> QED BY <3>4, <3>5, <4>1, <4>2
    <3>7. h \in [0..m -> S]
      <4>1. \A i \in 0..m : i \in 0..(m - 1) \/ i = m  BY <3>1
      <4>2. \A i \in 0..m : h[i] \in S  BY <3>4, <3>6, <4>1
      <4>3. h = [i \in 0..m |-> h[i]]  OBVIOUS
      <4> HIDE DEF h
      <4> QED BY <4>2, <4>3
    <3> HIDE DEF h
    <3>8. h[0] = x  BY <3>3, <3>4, <3>5 DEF Follows
    <3>9. ASSUME NEW i \in 1..m PROVE h[i] = G[i][h[i - 1]]
      <4>1. CASE i = m  BY <3>6, <4>1
      <4>2. CASE i # m
        <5>1. i \in 1..(m - 1) /\ i - 1 \in 0..(m - 1) /\ i \in 0..(m - 1)  BY <3>1, <4>2
        <5>2. g[i] = G[i][g[i - 1]]  BY <3>3, <5>1 DEF Follows
        <5> QED BY <3>4, <5>1, <5>2
      <4> QED BY <4>1, <4>2
    <3>10. Follows(h, x, G, m)  BY <3>8, <3>9 DEF Follows
    <3> QED BY <2>3, <3>7, <3>10
  <2> QED BY <2>4, <2>5
<1>2. n \in 0..n  OBVIOUS
<1> QED BY <1>1, <1>2

\* And it stays inside the set when every step does.
LEMMA StaysInside ==
  ASSUME NEW S, NEW n \in Nat, NEW f, f[0] \in S,
         \A i \in 1..n : f[i - 1] \in S => f[i] \in S
  PROVE  \A i \in 0..n : f[i] \in S
<1> DEFINE Bad == {m \in 0..n : f[m] \notin S}
<1>1. ASSUME Bad # {} PROVE FALSE
  <2>1. Bad \in SUBSET Nat  OBVIOUS
  <2>2. PICK m \in Bad : \A y \in Bad : m <= y  BY <1>1, <2>1, LeastElement
  <2>3. m \in 0..n /\ f[m] \notin S  BY <2>2
  <2>4. m \in 1..n /\ m - 1 \in 0..n /\ ~(m <= m - 1)  BY <2>3
  <2>5. f[m - 1] \in S  BY <2>2, <2>4
  <2> QED BY <2>3, <2>4, <2>5
<1> QED BY <1>1

\* Induction over a range of numbers, for a claim that is a function.
LEMMA Stepwise ==
  ASSUME NEW n \in Nat, NEW P \in [0..n -> BOOLEAN], P[0],
         \A i \in 1..n : P[i - 1] => P[i]
  PROVE  \A i \in 0..n : P[i]
<1> DEFINE Bad == {i \in 0..n : ~P[i]}
<1>1. ASSUME Bad # {} PROVE FALSE
  <2>1. Bad \in SUBSET Nat  OBVIOUS
  <2>2. PICK i \in Bad : \A j \in Bad : i <= j  BY <1>1, <2>1, LeastElement
  <2>3. i \in 0..n /\ ~P[i]  BY <2>2
  <2>4. i \in 1..n /\ i - 1 \in 0..n /\ ~(i <= i - 1)  BY <2>3
  <2>5. P[i - 1]  BY <2>2, <2>4
  <2> QED BY <2>3, <2>4, <2>5
<1> QED BY <1>1

-----------------------------------------------------------------------------
(* Concatenation: of a cut sequence, in Joined and in Without.             *)

\* A sequence cut in two, put together again.
LEMMA CutJoined ==
  ASSUME NEW S, NEW s \in Seq(S), NEW n \in 0..Len(s)
  PROVE  s = FirstOf(s, n) \o RestOf(s, n)
<1>1. 1 \in 1..(Len(s) + 1) /\ n \in (1 - 1)..Len(s) /\ Len(s) \in n..Len(s)  OBVIOUS
<1>2. SubSeq(s, 1, n) \o SubSeq(s, n + 1, Len(s)) = SubSeq(s, 1, Len(s))
  BY <1>1, ConcatAdjacentSubSeq
<1> QED BY <1>2, SubSeqFull DEF FirstOf, RestOf

IsJoin(f, v, n) == f = [k \in 0..n |-> IF k = 0 THEN <<>> ELSE f[k - 1] \o v[k]]

Joins(f, v, n) ==
  f[0] = <<>> /\ (\A k \in 1..n : f[k] = f[k - 1] \o v[k]) /\ Joined(v, n) = f[n]

LEMMA JoinedSteps ==
  ASSUME NEW S, NEW n \in Nat, NEW v \in [1..n -> Seq(S)]
  PROVE  \E f \in [0..n -> Seq(S)] : Joins(f, v, n)
<1> DEFINE G == [k \in 1..n |-> [x \in Seq(S) |-> x \o v[k]]]
           c == CHOOSE f : IsJoin(f, v, n)
<1>1. \A k \in 1..n, x \in Seq(S) : x \o v[k] \in Seq(S)  OBVIOUS
<1>2. G \in [1..n -> [Seq(S) -> Seq(S)]]  BY <1>1
<1>3. <<>> \in Seq(S)  OBVIOUS
<1>4. PICK f \in [0..n -> Seq(S)] : Follows(f, <<>>, G, n)  BY <1>2, <1>3, RecDefined
<1>5. f[0] = <<>> /\ \A k \in 1..n : f[k] = f[k - 1] \o v[k]
  <2>1. \A k \in 1..n : k - 1 \in 0..n  OBVIOUS
  <2>2. \A k \in 1..n : f[k] = G[k][f[k - 1]]  BY <1>4 DEF Follows
  <2>3. \A k \in 1..n : f[k - 1] \in Seq(S)  BY <2>1
  <2> QED BY <1>4, <2>2, <2>3 DEF Follows
<1>6. IsJoin(f, v, n)
  <2>1. f = [k \in 0..n |-> f[k]]  OBVIOUS
  <2>2. \A k \in 0..n : k = 0 \/ k \in 1..n  OBVIOUS
  <2>3. \A k \in 0..n : f[k] = IF k = 0 THEN <<>> ELSE f[k - 1] \o v[k]  BY <1>5, <2>2
  <2> QED BY <2>1, <2>3 DEF IsJoin
<1>7. IsJoin(c, v, n)  BY <1>6
<1>8. Joined(v, n) = c[n]  BY DEF Joined, IsJoin
<1> HIDE DEF c
<1>9. c[0] = <<>> /\ \A k \in 1..n : c[k] = c[k - 1] \o v[k]
  <2>1. \A k \in 0..n : c[k] = IF k = 0 THEN <<>> ELSE c[k - 1] \o v[k]  BY <1>7 DEF IsJoin
  <2>2. 0 \in 0..n /\ \A k \in 1..n : k \in 0..n /\ k # 0  OBVIOUS
  <2> QED BY <2>1, <2>2
<1>10. c[0] \in Seq(S)  BY <1>3, <1>9
<1>11. \A k \in 1..n : c[k - 1] \in Seq(S) => c[k] \in Seq(S)  BY <1>1, <1>9
<1>12. \A k \in 0..n : c[k] \in Seq(S)  BY <1>10, <1>11, StaysInside
<1> DEFINE g == [k \in 0..n |-> c[k]]
<1>13. g \in [0..n -> Seq(S)] /\ \A k \in 0..n : g[k] = c[k]  BY <1>12
<1>14. 0 \in 0..n /\ n \in 0..n /\ \A k \in 1..n : k \in 0..n /\ k - 1 \in 0..n  OBVIOUS
<1> HIDE DEF g
<1>15. g[0] = <<>> /\ (\A k \in 1..n : g[k] = g[k - 1] \o v[k]) /\ g[n] = c[n]
  BY <1>9, <1>13, <1>14
<1>16. Joins(g, v, n)  BY <1>8, <1>15 DEF Joins
<1> QED BY <1>13, <1>16

LEMMA JoinedNone == ASSUME NEW v PROVE Joined(v, 0) = <<>>
<1> DEFINE c == CHOOSE f : IsJoin(f, v, 0)
<1>1. IsJoin([k \in 0..0 |-> <<>>], v, 0)  BY DEF IsJoin
<1>2. IsJoin(c, v, 0)  BY <1>1
<1>3. Joined(v, 0) = c[0]  BY DEF Joined, IsJoin
<1> HIDE DEF c
<1> QED BY <1>2, <1>3 DEF IsJoin

LEMMA JoinedSeq ==
  ASSUME NEW S, NEW v \in Seq(Seq(S))
  PROVE  Joined(v, Len(v)) \in Seq(S)
<1> DEFINE n == Len(v)
<1>1. v \in [1..n -> Seq(S)] /\ n \in Nat  OBVIOUS
<1> HIDE DEF n
<1>2. PICK f \in [0..n -> Seq(S)] : Joins(f, v, n)  BY <1>1, JoinedSteps
<1>3. f[n] \in Seq(S)  BY <1>1, <1>2
<1> QED BY <1>2, <1>3 DEF Joins, n

\* Joining two lists after each other.
LEMMA JoinedCat ==
  ASSUME NEW S, NEW v \in Seq(Seq(S)), NEW w \in Seq(Seq(S))
  PROVE  Joined(v \o w, Len(v \o w)) = Joined(v, Len(v)) \o Joined(w, Len(w))
<1> DEFINE n == Len(v)
           m == Len(w)
           u == v \o w
<1>1. v \in [1..n -> Seq(S)] /\ w \in [1..m -> Seq(S)] /\ n \in Nat /\ m \in Nat  OBVIOUS
<1> DEFINE l == n + m
<1>2. u \in [1..l -> Seq(S)] /\ Len(u) = l
  <2>1. u \in Seq(Seq(S)) /\ Len(u) = l  OBVIOUS
  <2> HIDE DEF u, l
  <2>2. u \in [1..Len(u) -> Seq(S)]  BY <2>1
  <2> QED BY <2>1, <2>2
<1>3. (\A k \in 1..n : u[k] = v[k]) /\ \A k \in 1..m : u[n + k] = w[k]  OBVIOUS
<1>4. l \in Nat /\ l = n + m  BY <1>1
<1> HIDE DEF n, m, u, l
<1>5. PICK f \in [0..n -> Seq(S)] : Joins(f, v, n)  BY <1>1, JoinedSteps
<1>6. PICK g \in [0..m -> Seq(S)] : Joins(g, w, m)  BY <1>1, JoinedSteps
<1>7. PICK h \in [0..l -> Seq(S)] : Joins(h, u, l)  BY <1>2, <1>4, JoinedSteps
<1>8. /\ f[0] = <<>> /\ \A k \in 1..n : f[k] = f[k - 1] \o v[k]
      /\ g[0] = <<>> /\ \A k \in 1..m : g[k] = g[k - 1] \o w[k]
      /\ h[0] = <<>> /\ \A k \in 1..l : h[k] = h[k - 1] \o u[k]
  BY <1>5, <1>6, <1>7 DEF Joins
<1>9. \A k \in 0..n : h[k] = f[k]
  <2> DEFINE P == [k \in 0..n |-> h[k] = f[k]]
  <2>1. P \in [0..n -> BOOLEAN]  OBVIOUS
  <2>2. P[0]
    <3>1. 0 \in 0..n  BY <1>1
    <3> QED BY <1>8, <3>1
  <2>3. ASSUME NEW k \in 1..n, P[k - 1] PROVE P[k]
    <3>1. k - 1 \in 0..n /\ k \in 0..n /\ k \in 1..l  BY <1>1, <1>4
    <3>2. h[k - 1] = f[k - 1]  BY <2>3, <3>1
    <3>3. h[k] = f[k]  BY <1>8, <1>3, <3>1, <3>2
    <3> QED BY <3>1, <3>3
  <2> HIDE DEF P
  <2>4. \A k \in 0..n : P[k]  BY <1>1, <2>1, <2>2, <2>3, Stepwise
  <2> QED BY <2>4 DEF P
<1>10. \A k \in 0..m : h[n + k] = f[n] \o g[k]
  <2> DEFINE P == [k \in 0..m |-> h[n + k] = f[n] \o g[k]]
  <2>1. f[n] \in Seq(S)  BY <1>1
  <2>2. P[0]
    <3>1. h[n] = f[n] /\ n + 0 = n /\ 0 \in 0..m  BY <1>1, <1>9
    <3>2. f[n] \o g[0] = f[n]  BY <1>8, <2>1, ConcatEmptySeq
    <3> QED BY <3>1, <3>2
  <2>3. ASSUME NEW k \in 1..m, P[k - 1] PROVE P[k]
    <3>1. /\ k - 1 \in 0..m /\ k \in 0..m /\ n + k \in 1..l
          /\ (n + k) - 1 = n + (k - 1)
      BY <1>1, <1>4
    <3>2. h[n + (k - 1)] = f[n] \o g[k - 1]  BY <2>3, <3>1
    <3>3. h[n + k] = h[(n + k) - 1] \o u[n + k]  BY <1>8, <3>1
    <3>4. w[k] \in Seq(S) /\ g[k - 1] \in Seq(S)  BY <1>1, <3>1
    <3>5. (f[n] \o g[k - 1]) \o w[k] = f[n] \o (g[k - 1] \o w[k])
      <4> DEFINE a == f[n]
                 b == g[k - 1]
                 d == w[k]
      <4>1. a \in Seq(S) /\ b \in Seq(S) /\ d \in Seq(S)  BY <2>1, <3>4
      <4> HIDE DEF a, b, d
      <4>2. (a \o b) \o d = a \o (b \o d)  BY <4>1, ConcatAssociative
      <4> QED BY <4>2 DEF a, b, d
    <3>6. g[k] = g[k - 1] \o w[k] /\ u[n + k] = w[k]  BY <1>8, <1>3
    <3>7. h[n + k] = f[n] \o g[k]  BY <3>1, <3>2, <3>3, <3>5, <3>6
    <3> QED BY <3>1, <3>7
  <2>4. P \in [0..m -> BOOLEAN]  OBVIOUS
  <2> HIDE DEF P
  <2>5. \A k \in 0..m : P[k]  BY <1>1, <2>2, <2>3, <2>4, Stepwise
  <2> QED BY <2>5 DEF P
<1>11. h[l] = f[n] \o g[m]  BY <1>1, <1>10, <1>4
<1>12. Joined(u, l) = h[l] /\ Joined(v, n) = f[n] /\ Joined(w, m) = g[m]
  BY <1>5, <1>6, <1>7 DEF Joins
<1> QED BY <1>2, <1>11, <1>12 DEF n, m, u, l

\* Without takes a concatenation apart.
Keeps(f, s, W) ==
  /\ f[0] = <<>> /\ Without(s, W) = f[Len(s)]
  /\ \A k \in 1..Len(s) : f[k] = IF s[k] \in W THEN f[k - 1] ELSE Append(f[k - 1], s[k])

LEMMA WithoutSteps ==
  ASSUME NEW S, NEW s \in Seq(S), NEW W
  PROVE  \E f \in [0..Len(s) -> Seq(S)] : Keeps(f, s, W)
<1> DEFINE n == Len(s)
           c == CHOOSE g : IsKept(g, s, W, n)
<1>1. n \in Nat /\ \A k \in 1..n : s[k] \in S  OBVIOUS
<1>2. Without(s, W) = c[n]  BY DEF Without, IsKept
<1>3. IsKept(c, s, W, n)  BY <1>1, KeptDefined
<1> HIDE DEF c, n
<1>4. \A k \in 0..n : c[k] = IF k = 0 THEN <<>>
                             ELSE IF s[k] \in W THEN c[k - 1] ELSE Append(c[k - 1], s[k])
  BY <1>3 DEF IsKept
<1>5. c[0] = <<>> /\ \A k \in 1..n : c[k] = IF s[k] \in W THEN c[k - 1] ELSE Append(c[k - 1], s[k])
  BY <1>1, <1>4
<1>6. \A x \in Seq(S), e \in S : Append(x, e) \in Seq(S)  OBVIOUS
<1>7. \A k \in 1..n : c[k - 1] \in Seq(S) => c[k] \in Seq(S)  BY <1>1, <1>5, <1>6
<1>8. c[0] \in Seq(S)  BY <1>5
<1>9. \A k \in 0..n : c[k] \in Seq(S)  BY <1>1, <1>7, <1>8, StaysInside
<1> DEFINE g == [k \in 0..n |-> c[k]]
<1>10. g \in [0..n -> Seq(S)] /\ \A k \in 0..n : g[k] = c[k]  BY <1>9
<1>11. 0 \in 0..n /\ n \in 0..n /\ \A k \in 1..n : k \in 0..n /\ k - 1 \in 0..n  BY <1>1
<1> HIDE DEF g
<1>12. /\ g[0] = <<>> /\ g[n] = c[n]
       /\ \A k \in 1..n : g[k] = IF s[k] \in W THEN g[k - 1] ELSE Append(g[k - 1], s[k])
  BY <1>5, <1>10, <1>11
<1>13. Keeps(g, s, W)  BY <1>2, <1>12 DEF Keeps, n
<1> QED BY <1>10, <1>13 DEF n

\* A sequence with nothing of W is left as it is, one with nothing else vanishes.
LEMMA WithoutNone ==
  ASSUME NEW S, NEW s \in Seq(S), NEW W, Elems(s) \cap W = {}
  PROVE  Without(s, W) = s
<1> DEFINE n == Len(s)
<1>1. n \in Nat /\ \A k \in 1..n : s[k] \in S /\ s[k] \notin W  BY DEF Elems
<1>2. PICK f \in [0..Len(s) -> Seq(S)] : Keeps(f, s, W)  BY WithoutSteps
<1>3. f[0] = <<>> /\ (\A k \in 1..n : f[k] = Append(f[k - 1], s[k])) /\ Without(s, W) = f[n]
  BY <1>1, <1>2 DEF Keeps
<1> DEFINE P == [k \in 0..n |-> f[k] = SubSeq(s, 1, k)]
<1>4. P \in [0..n -> BOOLEAN]  OBVIOUS
<1>5. P[0]
  <2>1. SubSeq(s, 1, 0) = <<>>  OBVIOUS
  <2>2. 0 \in 0..n /\ f[0] = <<>>  BY <1>1, <1>3
  <2> QED BY <2>1, <2>2
<1>6. ASSUME NEW k \in 1..n, P[k - 1] PROVE P[k]
  <2>1. k \in 0..n /\ k - 1 \in 0..n  BY <1>1
  <2>2. f[k] = Append(SubSeq(s, 1, k - 1), s[k])  BY <1>3, <1>6, <2>1
  <2>3. Append(SubSeq(s, 1, k - 1), s[k]) = SubSeq(s, 1, k)  BY <1>1
  <2> QED BY <2>1, <2>2, <2>3
<1> HIDE DEF P
<1>7. \A k \in 0..n : P[k]  BY <1>1, <1>4, <1>5, <1>6, Stepwise
<1>8. P[n]  BY <1>1, <1>7
<1>9. f[n] = SubSeq(s, 1, n)
  <2>1. n \in 0..n  BY <1>1
  <2> HIDE DEF n
  <2> QED BY <1>8, <2>1 DEF P
<1>10. SubSeq(s, 1, n) = s  OBVIOUS
<1> QED BY <1>3, <1>9, <1>10

LEMMA WithoutAll ==
  ASSUME NEW S, NEW s \in Seq(S), NEW W, Elems(s) \subseteq W
  PROVE  Without(s, W) = <<>>
<1> DEFINE n == Len(s)
           E == {<<>>}
<1>1. n \in Nat /\ \A k \in 1..n : s[k] \in W  BY DEF Elems
<1>2. PICK f \in [0..Len(s) -> Seq(S)] : Keeps(f, s, W)  BY WithoutSteps
<1>3. f[0] \in E /\ \A k \in 1..n : f[k - 1] \in E => f[k] \in E  BY <1>1, <1>2 DEF Keeps
<1>4. Without(s, W) = f[n]  BY <1>2 DEF Keeps
<1> HIDE DEF E, n
<1>5. \A k \in 0..n : f[k] \in E  BY <1>1, <1>3, StaysInside
<1>6. f[n] \in E  BY <1>1, <1>5
<1> QED BY <1>4, <1>6 DEF E

\* Without takes a concatenation apart.
LEMMA WithoutCat ==
  ASSUME NEW S, NEW s \in Seq(S), NEW t \in Seq(S), NEW W
  PROVE  Without(s \o t, W) = Without(s, W) \o Without(t, W)
<1> DEFINE n == Len(s)
           m == Len(t)
           u == s \o t
           l == n + m
<1>1. n \in Nat /\ m \in Nat /\ l \in Nat /\ l = n + m /\ \A k \in 1..m : t[k] \in S  OBVIOUS
<1>2. u \in Seq(S) /\ Len(u) = l  OBVIOUS
<1>3. (\A k \in 1..n : u[k] = s[k]) /\ \A k \in 1..m : u[n + k] = t[k]  OBVIOUS
<1> HIDE DEF u
<1>4. PICK f \in [0..Len(s) -> Seq(S)] : Keeps(f, s, W)  BY WithoutSteps
<1>5. PICK g \in [0..Len(t) -> Seq(S)] : Keeps(g, t, W)  BY WithoutSteps
<1>6. PICK h \in [0..Len(u) -> Seq(S)] : Keeps(h, u, W)  BY <1>2, WithoutSteps
<1>7. /\ f[0] = <<>>
      /\ \A k \in 1..n : f[k] = IF s[k] \in W THEN f[k - 1] ELSE Append(f[k - 1], s[k])
      /\ g[0] = <<>>
      /\ \A k \in 1..m : g[k] = IF t[k] \in W THEN g[k - 1] ELSE Append(g[k - 1], t[k])
      /\ h[0] = <<>>
      /\ \A k \in 1..l : h[k] = IF u[k] \in W THEN h[k - 1] ELSE Append(h[k - 1], u[k])
  BY <1>2, <1>4, <1>5, <1>6 DEF Keeps
<1>8. f \in [0..n -> Seq(S)] /\ g \in [0..m -> Seq(S)]  BY <1>4, <1>5
<1>9. ASSUME NEW x \in Seq(S), NEW y \in Seq(S), NEW e \in S
      PROVE  Append(x \o y, e) = x \o Append(y, e)
  <2>1. <<e>> \in Seq(S) /\ x \o y \in Seq(S)  OBVIOUS
  <2>2. Append(x \o y, e) = (x \o y) \o <<e>>  BY <2>1, AppendIsConcat
  <2>3. Append(y, e) = y \o <<e>>  BY AppendIsConcat
  <2> QED BY <2>1, <2>2, <2>3, ConcatAssociative
<1> HIDE DEF n, m, l
<1>10. \A k \in 0..n : h[k] = f[k]
  <2> DEFINE P == [k \in 0..n |-> h[k] = f[k]]
  <2>1. P \in [0..n -> BOOLEAN]  OBVIOUS
  <2>2. P[0]
    <3>1. 0 \in 0..n  BY <1>1
    <3> QED BY <1>7, <3>1
  <2>3. ASSUME NEW k \in 1..n, P[k - 1] PROVE P[k]
    <3>1. k - 1 \in 0..n /\ k \in 0..n /\ k \in 1..l  BY <1>1
    <3>2. h[k - 1] = f[k - 1]  BY <2>3, <3>1
    <3>3. h[k] = f[k]  BY <1>3, <1>7, <3>1, <3>2
    <3> QED BY <3>1, <3>3
  <2> HIDE DEF P
  <2>4. \A k \in 0..n : P[k]  BY <1>1, <2>1, <2>2, <2>3, Stepwise
  <2> QED BY <2>4 DEF P
<1>11. \A k \in 0..m : h[n + k] = f[n] \o g[k]
  <2> DEFINE P == [k \in 0..m |-> h[n + k] = f[n] \o g[k]]
  <2>1. f[n] \in Seq(S)  BY <1>1, <1>8
  <2>2. P[0]
    <3>1. h[n] = f[n] /\ n + 0 = n /\ 0 \in 0..m  BY <1>1, <1>10
    <3>2. f[n] \o g[0] = f[n]  BY <1>7, <2>1, ConcatEmptySeq
    <3> QED BY <3>1, <3>2
  <2>3. ASSUME NEW k \in 1..m, P[k - 1] PROVE P[k]
    <3>1. /\ k - 1 \in 0..m /\ k \in 0..m /\ n + k \in 1..l
          /\ (n + k) - 1 = n + (k - 1)
      BY <1>1
    <3>2. h[n + (k - 1)] = f[n] \o g[k - 1]  BY <2>3, <3>1
    <3>3. t[k] \in S /\ g[k - 1] \in Seq(S)  BY <1>1, <1>8, <3>1
    <3>4. h[n + k] = IF t[k] \in W THEN h[n + (k - 1)] ELSE Append(h[n + (k - 1)], t[k])
      BY <1>3, <1>7, <3>1
    <3>5. Append(f[n] \o g[k - 1], t[k]) = f[n] \o Append(g[k - 1], t[k])
      BY <1>9, <2>1, <3>3
    <3>6. g[k] = IF t[k] \in W THEN g[k - 1] ELSE Append(g[k - 1], t[k])  BY <1>7
    <3>7. h[n + k] = f[n] \o g[k]  BY <3>2, <3>4, <3>5, <3>6
    <3> QED BY <3>1, <3>7
  <2>4. P \in [0..m -> BOOLEAN]  OBVIOUS
  <2> HIDE DEF P
  <2>5. \A k \in 0..m : P[k]  BY <1>1, <2>2, <2>3, <2>4, Stepwise
  <2> QED BY <2>5 DEF P
<1>12. h[l] = f[n] \o g[m]
  <2>1. m \in 0..m /\ l = n + m  BY <1>1
  <2> QED BY <1>11, <2>1
<1>13. Without(u, W) = h[l] /\ Without(s, W) = f[n] /\ Without(t, W) = g[m]
  BY <1>2, <1>4, <1>5, <1>6 DEF Keeps, n, m
<1> QED BY <1>12, <1>13 DEF u

-----------------------------------------------------------------------------
(* Sums.                                                                   *)

IsSum(f, v, n) == f = [k \in 0..n |-> IF k = 0 THEN 0 ELSE f[k - 1] + v[k]]

LEMMA TotalSum ==
  ASSUME NEW n \in Nat, NEW v \in [1..n -> Nat]
  PROVE  \E f \in [0..n -> Nat] :
           /\ f[0] = 0 /\ (\A k \in 1..n : f[k] = f[k - 1] + v[k]) /\ Total(v, n) = f[n]
<1> DEFINE G == [k \in 1..n |-> [x \in Nat |-> x + v[k]]]
           c == CHOOSE f : IsSum(f, v, n)
<1>1. \A k \in 1..n, x \in Nat : x + v[k] \in Nat  OBVIOUS
<1>2. G \in [1..n -> [Nat -> Nat]]  BY <1>1
<1>3. PICK f \in [0..n -> Nat] : Follows(f, 0, G, n)  BY <1>2, RecDefined
<1>4. f[0] = 0 /\ \A k \in 1..n : f[k] = f[k - 1] + v[k]
  <2>1. \A k \in 1..n : k - 1 \in 0..n  OBVIOUS
  <2>2. \A k \in 1..n : f[k] = G[k][f[k - 1]]  BY <1>3 DEF Follows
  <2>3. \A k \in 1..n : f[k - 1] \in Nat  BY <2>1
  <2> QED BY <1>3, <2>2, <2>3 DEF Follows
<1>5. IsSum(f, v, n)
  <2>1. f = [k \in 0..n |-> f[k]]  OBVIOUS
  <2>2. \A k \in 0..n : f[k] = IF k = 0 THEN 0 ELSE f[k - 1] + v[k]  BY <1>4
  <2> QED BY <2>1, <2>2 DEF IsSum
<1>6. IsSum(c, v, n)  BY <1>5
<1>7. Total(v, n) = c[n]  BY DEF Total, IsSum
<1> HIDE DEF c
<1>8. c[0] = 0 /\ \A k \in 1..n : c[k] = c[k - 1] + v[k]  BY <1>6 DEF IsSum
<1>9. \A k \in 0..n : c[k] = f[k]
  <2> DEFINE Bad == {k \in 0..n : c[k] # f[k]}
  <2>1. ASSUME Bad # {} PROVE FALSE
    <3>0. Bad \in SUBSET Nat  OBVIOUS
    <3>1. PICK m \in Bad : \A y \in Bad : m <= y  BY <2>1, <3>0, LeastElement
    <3>2. m \in 1..n  BY <1>4, <1>8, <3>1
    <3>3. m - 1 \in 0..n /\ ~(m <= m - 1)  BY <3>2
    <3>4. c[m - 1] = f[m - 1]  BY <3>1, <3>3
    <3> QED BY <1>4, <1>8, <3>1, <3>2, <3>4
  <2> QED BY <2>1
<1>10. n \in 0..n  OBVIOUS
<1> QED BY <1>4, <1>7, <1>9, <1>10

LEMMA TotalNat ==
  ASSUME NEW n \in Nat, NEW v \in [1..n -> Nat]
  PROVE  Total(v, n) \in Nat
BY TotalSum

LEMMA TotalZero ==
  ASSUME NEW n \in Nat, NEW v \in [1..n -> Nat], \A k \in 1..n : v[k] = 0
  PROVE  Total(v, n) = 0
<1>1. PICK f \in [0..n -> Nat] : /\ f[0] = 0 /\ \A k \in 1..n : f[k] = f[k - 1] + v[k]
                                 /\ Total(v, n) = f[n]
  BY TotalSum
<1> DEFINE Bad == {k \in 0..n : f[k] # 0}
<1>2. ASSUME Bad # {} PROVE FALSE
  <2>0. Bad \in SUBSET Nat  OBVIOUS
  <2>1. PICK m \in Bad : \A y \in Bad : m <= y  BY <1>2, <2>0, LeastElement
  <2>2. m \in 1..n  BY <1>1, <2>1
  <2>3. m - 1 \in 0..n /\ ~(m <= m - 1)  BY <2>2
  <2>4. f[m - 1] = 0  BY <2>1, <2>3
  <2> QED BY <1>1, <2>1, <2>2, <2>4
<1> QED BY <1>1, <1>2

LEMMA TotalLess ==
  ASSUME NEW n \in Nat, NEW v \in [1..n -> Nat], NEW w \in [1..n -> Nat],
         \A k \in 1..n : v[k] <= w[k]
  PROVE  Total(v, n) <= Total(w, n)
<1>1. PICK f \in [0..n -> Nat] : /\ f[0] = 0 /\ \A k \in 1..n : f[k] = f[k - 1] + v[k]
                                 /\ Total(v, n) = f[n]
  BY TotalSum
<1>2. PICK g \in [0..n -> Nat] : /\ g[0] = 0 /\ \A k \in 1..n : g[k] = g[k - 1] + w[k]
                                 /\ Total(w, n) = g[n]
  BY TotalSum
<1> DEFINE Bad == {k \in 0..n : ~(f[k] <= g[k])}
<1>3. ASSUME Bad # {} PROVE FALSE
  <2>0. Bad \in SUBSET Nat  OBVIOUS
  <2>1. PICK m \in Bad : \A y \in Bad : m <= y  BY <1>3, <2>0, LeastElement
  <2>2. m \in 1..n  BY <1>1, <1>2, <2>1
  <2>3. m - 1 \in 0..n /\ ~(m <= m - 1)  BY <2>2
  <2>4. f[m - 1] <= g[m - 1]  BY <2>1, <2>3
  <2>5. f[m - 1] \in Nat /\ g[m - 1] \in Nat /\ v[m] \in Nat /\ w[m] \in Nat /\ v[m] <= w[m]
    BY <2>2, <2>3
  <2> QED BY <1>1, <1>2, <2>1, <2>2, <2>4, <2>5
<1>4. n \in 0..n  OBVIOUS
<1>5. f[n] <= g[n]  BY <1>3, <1>4
<1> QED BY <1>1, <1>2, <1>5

\* What changing one summand does.
LEMMA TotalChange ==
  ASSUME NEW n \in Nat, NEW v \in [1..n -> Nat], NEW w \in [1..n -> Nat],
         NEW i \in 1..n, \A k \in 1..n : k # i => v[k] = w[k]
  PROVE  Total(w, n) + v[i] = Total(v, n) + w[i]
<1>1. PICK f \in [0..n -> Nat] : /\ f[0] = 0 /\ \A k \in 1..n : f[k] = f[k - 1] + v[k]
                                 /\ Total(v, n) = f[n]
  BY TotalSum
<1>2. PICK g \in [0..n -> Nat] : /\ g[0] = 0 /\ \A k \in 1..n : g[k] = g[k - 1] + w[k]
                                 /\ Total(w, n) = g[n]
  BY TotalSum
<1> DEFINE Good(k) == IF k < i THEN g[k] = f[k] ELSE g[k] + v[i] = f[k] + w[i]
           Bad == {k \in 0..n : ~Good(k)}
<1>3. ASSUME Bad # {} PROVE FALSE
  <2>0. Bad \in SUBSET Nat  OBVIOUS
  <2>1. PICK m \in Bad : \A y \in Bad : m <= y  BY <1>3, <2>0, LeastElement
  <2>2. m \in 1..n  BY <1>1, <1>2, <2>1
  <2>3. m - 1 \in 0..n /\ ~(m <= m - 1)  BY <2>2
  <2>4. Good(m - 1) /\ ~Good(m)  BY <2>1, <2>3
  <2>5. /\ f[m - 1] \in Nat /\ g[m - 1] \in Nat /\ v[m] \in Nat /\ w[m] \in Nat
        /\ v[i] \in Nat /\ w[i] \in Nat
    BY <2>2, <2>3
  <2>6. f[m] = f[m - 1] + v[m] /\ g[m] = g[m - 1] + w[m]  BY <1>1, <1>2, <2>2
  <2>10. m # i => v[m] = w[m]  BY <2>2
  <2>7. CASE m < i  BY <2>10, <2>2, <2>4, <2>5, <2>6, <2>7
  <2>8. CASE m = i  BY <2>2, <2>4, <2>5, <2>6, <2>8
  <2>9. CASE m > i
    <3>1. ~(m < i) /\ ~(m - 1 < i) /\ v[m] = w[m]  BY <2>2, <2>9, <2>10
    <3>2. g[m - 1] + v[i] = f[m - 1] + w[i] /\ g[m] + v[i] # f[m] + w[i]  BY <2>4, <3>1
    <3>3. g[m] = g[m - 1] + v[m]  BY <2>6, <3>1
    <3> DEFINE a == f[m - 1]
               b == g[m - 1]
               x == v[m]
               y == v[i]
               z == w[i]
    <3>4. a \in Nat /\ b \in Nat /\ x \in Nat /\ y \in Nat /\ z \in Nat  BY <2>5
    <3>5. b + y = a + z  BY <3>2
    <3>6. (b + x) + y # (a + x) + z  BY <2>6, <3>2, <3>3
    <3> HIDE DEF a, b, x, y, z
    <3> QED BY <3>4, <3>5, <3>6
  <2> QED BY <2>2, <2>7, <2>8, <2>9
<1>4. n \in 0..n /\ ~(n < i)  OBVIOUS
<1>5. Good(n)  BY <1>3, <1>4
<1> QED BY <1>1, <1>2, <1>4, <1>5

-----------------------------------------------------------------------------
(* Remainders.                                                             *)

LEMMA Division ==
  ASSUME NEW x \in Nat, NEW n \in Nat \ {0}
  PROVE  /\ (x \div n) \in Nat /\ (x % n) \in 0..(n - 1)
         /\ x = n * (x \div n) + (x % n)
<1>1. (x % n) \in 0..(n - 1)  OBVIOUS
<1>2. (x \div n) \in Nat  OBVIOUS
<1>3. x = n * (x \div n) + (x % n)  OBVIOUS
<1> QED BY <1>1, <1>2, <1>3

\* Multiples of n that are less than n apart are the same.
LEMMA MultiplesApart ==
  ASSUME NEW n \in Nat \ {0}, NEW p \in Int, NEW q \in Int, n * p < n * q + n
  PROVE  p <= q
<1>1. ASSUME p >= q + 1 PROVE FALSE
  <2>1. n * p >= n * (q + 1)
    <3> DEFINE d == p - (q + 1)
    <3>1. d \in Nat /\ p = (q + 1) + d  BY <1>1
    <3> HIDE DEF d
    <3>2. n * p = n * (q + 1) + n * d  BY <3>1
    <3>3. n * d \in Nat  BY <3>1
    <3>4. n * (q + 1) \in Int  OBVIOUS
    <3> QED BY <3>2, <3>3, <3>4
  <2>2. n * (q + 1) = n * q + n  OBVIOUS
  <2>3. n * p \in Int /\ n * q \in Int  OBVIOUS
  <2> QED BY <2>1, <2>2, <2>3
<1> QED BY <1>1

LEMMA DivisionUnique ==
  ASSUME NEW x \in Nat, NEW n \in Nat \ {0}, NEW q \in Int, NEW s \in 0..(n - 1),
         x = n * q + s
  PROVE  (x \div n) = q /\ (x % n) = s
<1> DEFINE p == (x \div n)
           t == (x % n)
<1>1. p \in Nat /\ t \in 0..(n - 1) /\ x = n * p + t  BY Division
<1> HIDE DEF p, t
<1>2. n * p \in Int /\ n * q \in Int  BY <1>1
<1>3. n * p < n * q + n /\ n * q < n * p + n  BY <1>1, <1>2
<1>4. p <= q /\ q <= p  BY <1>1, <1>3, MultiplesApart
<1>5. p = q  BY <1>1, <1>4
<1>6. t = s  BY <1>1, <1>2, <1>5
<1> QED BY <1>5, <1>6 DEF p, t

\* Numbers near the first multiples of n, the negative ones too.
LEMMA ModInt ==
  ASSUME NEW v \in Nat, NEW n \in Nat \ {0}, v < n, NEW x \in Int,
         x = v \/ x = v - n \/ x = v + n
  PROVE  (x % n) = v
<1>1. (x % n) \in 0..(n - 1)  OBVIOUS
<1>2. (x \div n) \in Int  OBVIOUS
<1>3. x = n * (x \div n) + (x % n)  OBVIOUS
<1> DEFINE q == (x \div n)
           t == (x % n)
<1> HIDE DEF q, t
<1>4. q \in Int /\ t \in 0..(n - 1) /\ x = n * q + t  BY <1>1, <1>2, <1>3 DEF q, t
<1>5. n * 0 = 0 /\ n * 1 = n /\ n * (-1) = -n /\ n * q \in Int  BY <1>4
<1>6. CASE x = v
  <2>1. n * q < n * 0 + n /\ n * 0 < n * q + n  BY <1>4, <1>5, <1>6
  <2>2. q = 0  BY <1>4, <2>1, MultiplesApart
  <2> QED BY <1>4, <1>5, <1>6, <2>2 DEF t
<1>7. CASE x = v - n
  <2>1. n * q < n * (-1) + n /\ n * (-1) < n * q + n  BY <1>4, <1>5, <1>7
  <2>2. q = -1  BY <1>4, <2>1, MultiplesApart
  <2> QED BY <1>4, <1>5, <1>7, <2>2 DEF t
<1>8. CASE x = v + n
  <2>1. n * q < n * 1 + n /\ n * 1 < n * q + n  BY <1>4, <1>5, <1>8
  <2>2. q = 1  BY <1>4, <2>1, MultiplesApart
  <2> QED BY <1>4, <1>5, <1>8, <2>2 DEF t
<1> QED BY <1>6, <1>7, <1>8

LEMMA ModRange ==
  ASSUME NEW x \in Int, NEW n \in Nat \ {0}
  PROVE  (x % n) \in 0..(n - 1)
OBVIOUS

\* n numbers in a row have all remainders modulo n, each once.
LEMMA Residues ==
  ASSUME NEW a \in Nat, NEW n \in Nat \ {0}
  PROVE  /\ \A i \in 0..(n - 1) : ((a + i) % n) \in 0..(n - 1)
         /\ \A i, j \in 0..(n - 1) : ((a + i) % n) = ((a + j) % n) => i = j
         /\ \A s \in 0..(n - 1) : \E i \in 0..(n - 1) : ((a + i) % n) = s
<1>1. ASSUME NEW i \in 0..(n - 1) PROVE ((a + i) % n) \in 0..(n - 1)
  <2>1. a + i \in Nat  OBVIOUS
  <2> QED BY <2>1, Division
<1>2. ASSUME NEW i \in 0..(n - 1), NEW j \in 0..(n - 1), ((a + i) % n) = ((a + j) % n)
      PROVE  i = j
  <2> DEFINE p == ((a + i) \div n)
             q == ((a + j) \div n)
             t == ((a + i) % n)
  <2>1. a + i \in Nat /\ a + j \in Nat  OBVIOUS
  <2>2. p \in Nat /\ q \in Nat /\ t \in 0..(n - 1)
        /\ a + i = n * p + t /\ a + j = n * q + t
    BY <1>2, <2>1, Division
  <2> HIDE DEF p, q, t
  <2>3. n * p \in Int /\ n * q \in Int  BY <2>2
  <2>4. n * p < n * q + n /\ n * q < n * p + n  BY <2>2, <2>3
  <2>5. p <= q /\ q <= p  BY <2>2, <2>4, MultiplesApart
  <2>6. p = q  BY <2>2, <2>5
  <2> QED BY <2>2, <2>3, <2>6
<1>3. ASSUME NEW s \in 0..(n - 1) PROVE \E i \in 0..(n - 1) : ((a + i) % n) = s
  <2> DEFINE p == (a \div n)
             t == (a % n)
  <2>1. p \in Nat /\ t \in 0..(n - 1) /\ a = n * p + t  BY Division
  <2> HIDE DEF p, t
  <2>2. n * p \in Int /\ n * (p + 1) = n * p + n  BY <2>1
  <2>3. CASE t <= s
    <3>1. s - t \in 0..(n - 1) /\ a + (s - t) \in Nat /\ a + (s - t) = n * p + s
      BY <2>1, <2>2, <2>3
    <3>2. ((a + (s - t)) % n) = s  BY <2>1, <3>1, DivisionUnique
    <3> QED BY <3>1, <3>2
  <2>4. CASE t > s
    <3> DEFINE d == (s - t) + n
    <3>1. d \in 0..(n - 1) /\ a + d \in Nat /\ a + d = n * (p + 1) + s
      BY <2>1, <2>2, <2>4
    <3> HIDE DEF d
    <3>2. p + 1 \in Int  BY <2>1
    <3>3. ((a + d) % n) = s  BY <3>1, <3>2, DivisionUnique
    <3> QED BY <3>1, <3>3
  <2> QED BY <2>1, <2>3, <2>4
<1> QED BY <1>1, <1>2, <1>3
=============================================================================
