--------------------------- MODULE ConnectorProofs ---------------------------
(***************************************************************************)
(* Connects are handed on once, for any number of them and any FD_SETSIZE. *)
(* OneCallback counts where a connect is; the strengthening says it with   *)
(* sets: neither list has a connect twice, no connect is in both, and what *)
(* is in one has had no callback.  The loop counter that is not reset does *)
(* no harm here, whatever natural number it is.                            *)
(***************************************************************************)
EXTENDS Connector, SeqLemmas

\* The two lists share nothing, and nothing is in one of them twice.
ListsApart ==
  /\ extern_pending \in Seq(Conn) /\ NoRepeat(extern_pending)
  /\ pending \in Seq(Conn) /\ NoRepeat(pending)
  /\ Elems(extern_pending) \cap Elems(pending) = {}

Queued == Elems(extern_pending) \cup Elems(pending)

\* Who waits has had no callback, and nobody has had two.
Unanswered ==
  /\ answers \in [Conn -> Seq({"sock", "-1"})]
  /\ \A p \in Conn : Len(answers[p]) <= 1
  /\ \A p \in Queued : answers[p] = <<>>

\* Between two rounds of select, Set is what is pending.
Watched ==
  /\ i \in Nat
  /\ phase \in {"idle", "select"} => Set = Elems(pending)
  /\ phase # "gone" => fd_seisize = Len(pending) /\ fd_seisize <= FD_SETSIZE

HandInv == ListsApart /\ Unanswered /\ Watched

LEMMA HandInit == ConnInit => HandInv
<1> SUFFICES ASSUME ConnInit PROVE HandInv
  OBVIOUS
<1>1. Elems(<<>>) = {} /\ NoRepeat(<<>>)  BY DEF Elems, NoRepeat
<1>2. ListsApart  BY <1>1 DEF ConnInit, ListsApart
<1>3. Unanswered  BY <1>1 DEF ConnInit, Unanswered, Queued
<1>4. Watched  BY <1>1, ConnectorAssumption DEF ConnInit, Watched
<1> QED BY <1>2, <1>3, <1>4 DEF HandInv

\* The counts that OneCallback and SetExact speak of.
LEMMA HandedSound == HandInv => HandedOnOnce
<1> SUFFICES ASSUME HandInv PROVE HandedOnOnce
  OBVIOUS
<1> USE DEF HandInv
<1>1. ASSUME NEW p \in Conn
      PROVE  LET q == extern_pending \o pending
             IN  Len(answers[p]) + Cardinality({k \in DOMAIN q : q[k] = p}) <= 1
  <2> DEFINE q == extern_pending \o pending
             c == Cardinality({k \in DOMAIN q : q[k] = p})
  <2>1. q \in Seq(Conn) /\ NoRepeat(q) /\ Elems(q) = Queued
    BY ElemsCat DEF ListsApart, Queued
  <2>2. c = IF p \in Queued THEN 1 ELSE 0
    BY <2>1, ElemsCount
  <2>3. Len(answers[p]) \in Nat /\ Len(answers[p]) <= 1
        /\ (p \in Queued => Len(answers[p]) = 0)
    BY DEF Unanswered
  <2> HIDE DEF c
  <2> DEFINE m == Len(answers[p])
  <2>4. c \in {0, 1} /\ m \in {0, 1} /\ ~(c = 1 /\ m = 1)
    <3> HIDE DEF m
    <3>0. m \in Nat /\ m <= 1  BY <2>3 DEF m
    <3>1. m \in {0, 1}  BY <3>0
    <3>2. c \in {0, 1} /\ (c = 1 => p \in Queued)  BY <2>2
    <3>3. p \in Queued => m # 1  BY <2>3 DEF m
    <3> QED BY <3>1, <3>2, <3>3
  <2> HIDE DEF m
  <2>5. m + c <= 1  BY <2>4
  <2> QED BY <2>5 DEF c, m
<1>2. OneCallback  BY <1>1 DEF OneCallback, Watched
<1>3. SetExact  BY ElemsSeq DEF SetExact, Watched, ListsApart
<1> QED BY <1>2, <1>3 DEF HandedOnOnce

\* Callbacks for connects that leave the lists.
LEMMA CallStep ==
  ASSUME Unanswered, NEW ps, NEW with \in {"sock", "-1"}, answers' = Call(ps, with),
         \A p \in ps : p \in Conn => answers[p] = <<>>,
         Queued' \subseteq Conn, \A p \in Queued' : p \notin ps /\ answers[p] = <<>>
  PROVE  Unanswered'
<1>1. answers' = [p \in Conn |-> IF p \in ps THEN Append(answers[p], with) ELSE answers[p]]
  BY DEF Call
<1>2. ASSUME NEW p \in Conn
      PROVE  answers'[p] \in Seq({"sock", "-1"}) /\ Len(answers'[p]) <= 1
  <2>1. CASE p \in ps
    <3>1. answers'[p] = Append(<<>>, with)  BY <1>1, <2>1
    <3> QED BY <3>1
  <2>2. CASE p \notin ps  BY <1>1, <2>2 DEF Unanswered
  <2> QED BY <2>1, <2>2
<1>3. answers' \in [Conn -> Seq({"sock", "-1"})]  BY <1>1, <1>2
<1>4. \A p \in Queued' : answers'[p] = <<>>  BY <1>1
<1> QED BY <1>2, <1>3, <1>4 DEF Unanswered

\* The same when nobody is called.
LEMMA QuietStep ==
  ASSUME Unanswered, answers' = answers,
         \A p \in Queued' : answers[p] = <<>>
  PROVE  Unanswered'
BY DEF Unanswered


-----------------------------------------------------------------------------
(* The steps.                                                              *)

\* A new connect is queued behind the others, or answered at once.
LEMMA ConnectStep ==
  ASSUME HandInv, NEW p \in Conn, connector_connect(p)
  PROVE  HandInv'
<1> USE DEF HandInv
<1>1. ToSet(extern_pending) = Elems(extern_pending) /\ ToSet(pending) = Elems(pending)
      /\ Elems(extern_pending) \subseteq Conn /\ Elems(pending) \subseteq Conn
  BY ElemsSeq DEF ListsApart
<1>2. p \notin Queued /\ answers[p] = <<>> /\ UNCHANGED <<pending, Set, fd_seisize, phase, i>>
  BY <1>1 DEF connector_connect, Asked, Queued
<1>3. Watched'  BY <1>2 DEF Watched
<1>4. CASE answers' = Call({p}, "sock") /\ UNCHANGED extern_pending
  <2>1. ListsApart' /\ Queued' = Queued  BY <1>2, <1>4 DEF ListsApart, Queued
  <2>2. Queued \subseteq Conn /\ \A q \in Queued : q # p /\ answers[q] = <<>>
    BY <1>1, <1>2 DEF Unanswered, Queued
  <2>3. Unanswered'  BY <1>2, <1>4, <2>1, <2>2, CallStep
  <2> QED BY <1>3, <2>1, <2>3
<1>5. CASE extern_pending' = Append(extern_pending, p) /\ UNCHANGED answers
  <2>1. /\ extern_pending' \in Seq(Conn) /\ NoRepeat(extern_pending')
        /\ Elems(extern_pending') = Elems(extern_pending) \cup {p}
    BY <1>2, <1>5, ElemsPut DEF ListsApart, Queued
  <2>2. ListsApart'  BY <1>2, <2>1 DEF ListsApart, Queued
  <2>3. Queued' = Queued \cup {p}  BY <1>2, <2>1 DEF Queued
  <2>4. Unanswered'  BY <1>2, <1>5, <2>3, QuietStep DEF Unanswered
  <2> QED BY <1>3, <2>2, <2>4
<1> QED BY <1>4, <1>5 DEF connector_connect

\* What fits is moved over, in order; the rest is called back.
LEMMA RunStep ==
  ASSUME HandInv, connector_run
  PROVE  HandInv'
<1> USE DEF HandInv
<1> DEFINE room == IF fd_seisize < FD_SETSIZE THEN FD_SETSIZE - fd_seisize ELSE 0
           size == Len(extern_pending)
           n    == IF room < size THEN room ELSE size
           new  == SubSeq(extern_pending, 1, n)
           full == SubSeq(extern_pending, n + 1, size)
<1>1. /\ phase = "idle" /\ phase' = "select" /\ i' = 0
      /\ extern_pending' = <<>> /\ pending' = pending \o new
      /\ Set' = Set \cup ToSet(new) /\ fd_seisize' = fd_seisize + n
      /\ answers' = Call(ToSet(full), "-1")
  BY DEF connector_run
<1>2. fd_seisize = Len(pending) /\ fd_seisize <= FD_SETSIZE /\ Set = Elems(pending)
      /\ Len(pending) \in Nat /\ size \in Nat
  BY <1>1 DEF Watched, ListsApart
<1>3. n \in 0..size /\ fd_seisize + n <= FD_SETSIZE
  BY <1>2, ConnectorAssumption
<1>0. new = FirstOf(extern_pending, n) /\ full = RestOf(extern_pending, n)
  BY DEF FirstOf, RestOf
<1> HIDE DEF n, new, full
<1>4. /\ new \in Seq(Conn) /\ NoRepeat(new) /\ Len(new) = n
      /\ full \in Seq(Conn) /\ NoRepeat(full)
      /\ Elems(new) \cap Elems(full) = {}
      /\ Elems(new) \cup Elems(full) = Elems(extern_pending)
  <2>1. extern_pending \in Seq(Conn) /\ NoRepeat(extern_pending)
        /\ n \in 0..Len(extern_pending)
    BY <1>3 DEF ListsApart
  <2> QED BY <1>0, <2>1, ElemsCut
<1>5. ToSet(new) = Elems(new) /\ ToSet(full) = Elems(full)  BY <1>4, ElemsSeq
<1>6. /\ pending' \in Seq(Conn) /\ NoRepeat(pending')
      /\ Elems(pending') = Elems(pending) \cup Elems(new)
  BY <1>1, <1>4, ElemsCat DEF ListsApart
<1>7. Elems(<<>>) = {} /\ NoRepeat(<<>>)  BY DEF Elems, NoRepeat
<1>8. ListsApart'  BY <1>1, <1>6, <1>7 DEF ListsApart
<1>9. Queued' = Elems(pending) \cup Elems(new)  BY <1>1, <1>6, <1>7 DEF Queued
<1>10. Elems(pending) \cup Elems(extern_pending) = Queued
       /\ Elems(pending) \cap Elems(extern_pending) = {}
  BY DEF Queued, ListsApart
<1>11. Elems(pending') \subseteq Conn  BY <1>6, ElemsSeq
<1>12. Unanswered'
  <2>1. \A p \in Elems(full) : answers[p] = <<>>  BY <1>4, <1>10 DEF Unanswered
  <2>2. \A p \in Queued' : p \notin Elems(full) /\ answers[p] = <<>>
    BY <1>4, <1>9, <1>10 DEF Unanswered
  <2>3. Queued' \subseteq Conn  BY <1>6, <1>9, <1>11
  <2> QED BY <1>1, <1>5, <2>1, <2>2, <2>3, CallStep
<1>13. Len(pending') = Len(pending) + n
  <2>1. pending \in Seq(Conn) /\ new \in Seq(Conn)  BY <1>4 DEF ListsApart
  <2>2. Len(pending \o new) = Len(pending) + Len(new)  BY <2>1
  <2> QED BY <1>1, <1>4, <2>2
<1>14. Watched'  BY <1>1, <1>2, <1>3, <1>5, <1>6, <1>13 DEF Watched
<1> QED BY <1>8, <1>12, <1>14

\* Some of the pending connects leave the list and are called back.
LEMMA LeaveStep ==
  ASSUME HandInv, phase # "gone", phase' # "gone",
         NEW gone, gone \subseteq Elems(pending), NEW with \in {"sock", "-1"},
         pending' \in Seq(Conn), NoRepeat(pending'),
         Elems(pending') = Elems(pending) \ gone,
         Len(pending') = Len(pending) - Cardinality(gone),
         answers' = Call(gone, with), fd_seisize' = fd_seisize - Cardinality(gone),
         extern_pending' = extern_pending, i' \in Nat,
         phase' \in {"idle", "select"} => Set' = Elems(pending')
  PROVE  HandInv'
<1> USE DEF HandInv
<1>1. ListsApart'  BY DEF ListsApart
<1>2. Queued' = Queued \ gone
  BY DEF Queued, ListsApart
<1>3. Elems(extern_pending) \subseteq Conn /\ Elems(pending) \subseteq Conn
  BY ElemsSeq DEF ListsApart
<1>4. Unanswered'
  <2>1. \A p \in gone : answers[p] = <<>>  BY DEF Unanswered, Queued
  <2>2. \A p \in Queued' : p \notin gone /\ answers[p] = <<>>
    BY <1>2 DEF Unanswered
  <2>3. Queued' \subseteq Conn  BY <1>2, <1>3 DEF Queued
  <2> QED BY <2>1, <2>2, <2>3, CallStep
<1>5. fd_seisize' = Len(pending') /\ fd_seisize' <= FD_SETSIZE
  <2>1. fd_seisize = Len(pending) /\ fd_seisize <= FD_SETSIZE  BY DEF Watched
  <2>2. Len(pending) \in Nat /\ Len(pending') \in Nat  BY DEF ListsApart
  <2>3. IsFiniteSet(Elems(pending))  BY ElemsSize DEF ListsApart
  <2>4. Cardinality(gone) \in Nat  BY <2>3, FS_Subset, FS_CardinalityType
  <2> QED BY <2>1, <2>2, <2>4, ConnectorAssumption
<1>6. Watched'  BY <1>5 DEF Watched
<1> QED BY <1>1, <1>4, <1>6

\* What the first loop leaves, wherever i makes it stop.
LEMMA Examined ==
  ASSUME HandInv, NEW n \in 0..Len(pending), NEW writable
  PROVE  LET r == examine(n, writable)
         IN  /\ r.list \in Seq(Conn) /\ NoRepeat(r.list)
             /\ r.done \subseteq Elems(pending)
             /\ Elems(r.list) = Elems(pending) \ r.done
             /\ Len(r.list) = Len(pending) - Cardinality(r.done)
<1> USE DEF HandInv
<1> DEFINE seen == SubSeq(pending, 1, n)
           rest == SubSeq(pending, n + 1, Len(pending))
           left == Without(seen, writable)
           done == Elems(seen) \cap writable
<1>0. seen = FirstOf(pending, n) /\ rest = RestOf(pending, n)
      /\ examine(n, writable) = [list |-> rest \o left, done |-> ToSet(seen) \cap writable]
  BY DEF examine, FirstOf, RestOf
<1> HIDE DEF seen, rest
<1>1. /\ seen \in Seq(Conn) /\ NoRepeat(seen) /\ Len(seen) = n
      /\ rest \in Seq(Conn) /\ NoRepeat(rest) /\ Len(rest) = Len(pending) - n
      /\ Elems(seen) \cap Elems(rest) = {} /\ Elems(seen) \cup Elems(rest) = Elems(pending)
  <2>1. pending \in Seq(Conn) /\ NoRepeat(pending)  BY DEF ListsApart
  <2> QED BY <1>0, <2>1, ElemsCut
<1>2. examine(n, writable) = [list |-> rest \o left, done |-> ToSet(seen) \cap writable]
  BY <1>0
<1>3. /\ left \in Seq(Conn) /\ NoRepeat(left) /\ Elems(left) = Elems(seen) \ writable
      /\ Len(left) = Len(seen) - Cardinality(done)
  BY <1>1, WithoutElems
<1>4. examine(n, writable) = [list |-> rest \o left, done |-> done]
  BY <1>1, <1>2, ElemsSeq
<1> HIDE DEF left
<1>5. Elems(rest) \cap Elems(left) = {}  BY <1>1, <1>3
<1>6. /\ rest \o left \in Seq(Conn) /\ NoRepeat(rest \o left)
      /\ Elems(rest \o left) = Elems(rest) \cup Elems(left)
  BY <1>1, <1>3, <1>5, ElemsCat
<1>7. Elems(rest \o left) = Elems(pending) \ done  BY <1>1, <1>3, <1>6
<1>8. Len(rest \o left) = Len(rest) + Len(left)
  <2>1. rest \in Seq(Conn) /\ left \in Seq(Conn)  BY <1>1, <1>3, Zenon
  <2> QED BY <2>1
<1>9. Cardinality(done) \in Nat
  <2>1. IsFiniteSet(Elems(seen))  BY <1>1, ElemsSize
  <2> QED BY <2>1, FS_Subset, FS_CardinalityType
<1>10. done \subseteq Elems(pending)  BY <1>1
<1> DEFINE c == Cardinality(done)
           m == Len(pending)
<1>11. m \in Nat /\ n \in Nat  BY DEF ListsApart
<1> HIDE DEF c, m
<1>12. Len(rest \o left) = m - c
  <2>1. Len(rest) = m - n /\ Len(left) = n - c  BY <1>1, <1>3 DEF m, c
  <2>2. c \in Nat  BY <1>9 DEF c
  <2> QED BY <1>8, <1>11, <2>1, <2>2
<1> QED BY <1>4, <1>6, <1>7, <1>10, <1>12 DEF m, c

LEMMA SelectStep ==
  ASSUME HandInv, Select
  PROVE  HandInv'
<1> DEFINE size == Len(pending)
           n    == IF i < size THEN size - i ELSE 0
<1>1. PICK writable \in {{}, Set \cap ready} :
        LET r == examine(IF writable = {} THEN 0 ELSE n, writable)
        IN  /\ pending' = r.list /\ answers' = Call(r.done, "sock")
            /\ fd_seisize' = fd_seisize - Cardinality(r.done)
  BY DEF Select
<1>2. phase = "select" /\ phase' = "timeouts" /\ UNCHANGED <<extern_pending, i>>
  BY DEF Select
<1> DEFINE k == IF writable = {} THEN 0 ELSE n
           r == examine(k, writable)
<1>3. k \in 0..size /\ i \in Nat
  BY DEF HandInv, ListsApart, Watched
<1>4. /\ pending' = r.list /\ answers' = Call(r.done, "sock")
      /\ fd_seisize' = fd_seisize - Cardinality(r.done)
  BY <1>1
<1> HIDE DEF k
<1>5. /\ r.list \in Seq(Conn) /\ NoRepeat(r.list)
      /\ r.done \subseteq Elems(pending)
      /\ Elems(r.list) = Elems(pending) \ r.done
      /\ Len(r.list) = Len(pending) - Cardinality(r.done)
  BY <1>3, Examined
<1> HIDE DEF r
<1> QED BY <1>2, <1>3, <1>4, <1>5, LeaveStep

LEMMA TimeOutsStep ==
  ASSUME HandInv, TimeOuts
  PROVE  HandInv'
<1> DEFINE late == Elems(pending) \cap expired
<1>1. pending \in Seq(Conn) /\ NoRepeat(pending) /\ ToSet(pending) = Elems(pending)
  BY ElemsSeq DEF HandInv, ListsApart
<1>2. /\ phase = "timeouts" /\ phase' \in {"idle", "select"}
      /\ pending' = Without(pending, late) /\ answers' = Call(late, "-1")
      /\ fd_seisize' = fd_seisize - Cardinality(late)
      /\ Set' = Elems(pending) \ late /\ i' = Len(pending)
      /\ extern_pending' = extern_pending
  BY <1>1 DEF TimeOuts
<1>3. /\ pending' \in Seq(Conn) /\ NoRepeat(pending')
      /\ Elems(pending') = Elems(pending) \ late
      /\ Len(pending') = Len(pending) - Cardinality(Elems(pending) \cap late)
  BY <1>1, <1>2, WithoutElems
<1>4. Elems(pending) \cap late = late /\ late \subseteq Elems(pending)  OBVIOUS
<1>5. i' \in Nat  BY <1>1, <1>2
<1> HIDE DEF late
<1> QED BY <1>2, <1>3, <1>4, <1>5, LeaveStep

LEMMA HandStep == HandInv /\ [ConnNext]_nvars => HandInv'
<1> SUFFICES ASSUME HandInv, [ConnNext]_nvars PROVE HandInv'
  OBVIOUS
<1>1. CASE UNCHANGED <<extern_pending, pending, Set, fd_seisize, phase, i, answers>>
  BY <1>1 DEF HandInv, ListsApart, Unanswered, Watched, Queued
<1>2. ASSUME NEW p \in Conn, connector_connect(p) PROVE HandInv'
  BY <1>2, ConnectStep
<1>3. ASSUME NEW p \in Conn, Finished(p) \/ Expire(p) PROVE HandInv'
  BY <1>1, <1>3 DEF Finished, Expire
<1>4. CASE RunTimeOver  BY <1>1, <1>4 DEF RunTimeOver
<1>5. CASE connector_run  BY <1>5, RunStep
<1>6. CASE NothingPending
  BY <1>6 DEF NothingPending, HandInv, ListsApart, Unanswered, Watched, Queued
<1>7. CASE Select  BY <1>7, SelectStep
<1>8. CASE TimeOuts  BY <1>8, TimeOutsStep
<1>9. CASE connector_destroy
  <2>1. Elems(<<>>) = {} /\ NoRepeat(<<>>)  BY DEF Elems, NoRepeat
  <2>2. /\ phase' = "gone" /\ extern_pending' = <<>> /\ pending' = <<>>
        /\ UNCHANGED <<i, answers>>
    BY <1>9 DEF connector_destroy
  <2>3. ListsApart' /\ Queued' = {}  BY <2>1, <2>2 DEF ListsApart, Queued
  <2>4. Unanswered'  BY <2>2, <2>3, QuietStep DEF HandInv
  <2>5. Watched'  BY <2>2 DEF Watched, HandInv
  <2> QED BY <2>3, <2>4, <2>5 DEF HandInv
<1>10. CASE UNCHANGED nvars  BY <1>1, <1>10 DEF nvars
<1> QED
  BY <1>2, <1>3, <1>4, <1>5, <1>6, <1>7, <1>8, <1>9, <1>10 DEF ConnNext, Run

\* connector_connect, connector_run and the time-outs hand every connect from
\* list to list and to at most one callback, fd_seisize is the number watched
\* and stays within FD_SETSIZE, and select is asked about exactly those: for any
\* number of connects, any FD_SETSIZE and whatever the loop counter was left at.
THEOREM ConnectsHandedOnOnce == ConnSpec => []HandedOnOnce
<1> QED BY HandInit, HandStep, HandedSound, PTL DEF ConnSpec
=============================================================================
