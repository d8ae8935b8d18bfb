--------------------------- MODULE ServicesProofs ---------------------------
(***************************************************************************)
(* Coroutines, timers and the block allocator, for any number of           *)
(* coroutines, slots, threads and lists.                                   *)
(***************************************************************************)
EXTENDS CoSche, TimingWheel, BlockAllocator, SeqLemmas

-----------------------------------------------------------------------------
(* coro/co_sche.c.  A coroutine is in one place at a time.  OnePlace       *)
(* counts places; here it is said with sets: no coroutine is queued twice, *)
(* and those queued, asleep and running are disjoint and together the ones *)
(* alive.  The scheduler itself is queued while its status says so only.   *)

Everyone == Coro \cup {s_co}
Statuses == {"NONE", "ACTIVE", "YIELD", "SLEEP", "DIE"}

CoTypes ==
  /\ running \in Everyone \cup {"abort"}
  /\ active_list \in Seq(Everyone)
  /\ sleepers \subseteq Coro
  /\ status \in [Everyone -> Statuses]
  /\ coro_size \in Nat
  /\ stop \in BOOLEAN /\ scheduling \in BOOLEAN

\* A coroutine that is alive is in exactly one of the three places.
InPlace(c) ==
  /\ (c \in Alive) <=> (c \in Elems(active_list) \/ c \in sleepers \/ running = c)
  /\ ~(c \in Elems(active_list) /\ c \in sleepers)
  /\ running = c => c \notin Elems(active_list) /\ c \notin sleepers

Queued ==
  /\ NoRepeat(active_list)
  /\ status[s_co] = "YIELD" => s_co \notin Elems(active_list)

Counted == coro_size = Cardinality(Alive) /\ (stop <=> scheduling /\ Alive = {})

CoInv ==
  /\ CoTypes /\ Queued /\ Counted
  /\ ~scheduling => running = s_co
  /\ running # "abort" => \A c \in Coro : InPlace(c)

LEMMA CoInitial == CoInit => CoInv
<1> SUFFICES ASSUME CoInit PROVE CoInv
  OBVIOUS
<1>1. status \in [Everyone -> Statuses] /\ \A c \in Coro : status[c] = "NONE"
  BY CoAssumption DEF CoInit, Everyone, Statuses
<1>2. Alive = {}  BY <1>1 DEF Alive
<1>3. Elems(active_list) = {} /\ NoRepeat(active_list) /\ active_list \in Seq(Everyone)
  BY DEF CoInit, Elems, NoRepeat
<1>4. CoTypes  BY <1>1, <1>3 DEF CoInit, CoTypes, Everyone
<1>5. Queued  BY <1>3 DEF Queued
<1>6. Counted  BY <1>2, FS_EmptySet DEF Counted, CoInit
<1>7. \A c \in Coro : InPlace(c)  BY <1>2, <1>3, CoAssumption DEF InPlace, CoInit
<1> QED BY <1>4, <1>5, <1>6, <1>7 DEF CoInv, CoInit

-----------------------------------------------------------------------------
(* What check_time_out and _sche_next do to the places.                    *)

\* check_time_out takes sleepers off the heap, each of them once.
LEMMA WokenOnce ==
  ASSUME CoTypes, NEW w \in Woken \cup {<<>>}
  PROVE  w \in Seq(sleepers) /\ NoRepeat(w)
<1>1. CASE w = <<>>  BY <1>1 DEF NoRepeat
<1>2. CASE w \in Woken
  <2>1. PICK T \in SUBSET (sleepers \ overdue) : w \in SetToSeqs(T)
    BY <1>2 DEF Woken, SetToAllKPermutations
  <2>2. w \in [1..Cardinality(T) -> T]
        /\ \A i, j \in 1..Cardinality(T) : i # j => w[i] # w[j]
    BY <2>1 DEF SetToSeqs
  <2> DEFINE n == Cardinality(T)
  <2>3. n \in Nat
    <3>1. T \in SUBSET Coro  BY DEF CoTypes
    <3>2. IsFiniteSet(T)  BY <3>1, FS_Subset, CoAssumption
    <3> QED BY <3>2, FS_CardinalityType
  <2> HIDE DEF n
  <2>4. w \in [1..n -> sleepers] /\ \A i, j \in 1..n : i # j => w[i] # w[j]
    BY <2>2 DEF n
  <2>5. w \in Seq(sleepers) /\ Len(w) = n  BY <2>3, <2>4
  <2> QED BY <2>4, <2>5 DEF NoRepeat
<1> QED BY <1>1, <1>2

\* The three outcomes of check_time_out: no one doubled, no one lost.
LEMMA TimeOutLists ==
  ASSUME CoInv, running # "abort", NEW t \in check_time_out
  PROVE  /\ t.active \in Seq(Everyone) /\ NoRepeat(t.active)
         /\ t.woken \subseteq sleepers /\ t.sleepers = sleepers \ t.woken
         /\ Elems(t.active) = Elems(active_list) \cup t.woken
<1>1. PICK w \in Woken \cup {<<>>} :
        t = [active |-> active_list \o w, sleepers |-> sleepers \ ToSet(w),
             woken |-> ToSet(w)]
  BY DEF check_time_out
<1>2. w \in Seq(sleepers) /\ NoRepeat(w)  BY WokenOnce DEF CoInv
<1>3. ToSet(w) = Elems(w) /\ Elems(w) \subseteq sleepers  BY <1>2, ElemsSeq
<1>4. w \in Seq(Everyone)
  <2>1. sleepers \subseteq Everyone  BY DEF CoInv, CoTypes, Everyone
  <2> QED BY <1>2, <2>1
<1>5. active_list \in Seq(Everyone) /\ NoRepeat(active_list) /\ sleepers \subseteq Coro
  BY DEF CoInv, CoTypes, Queued
<1>6. Elems(active_list) \cap Elems(w) = {}  BY <1>3, <1>5 DEF CoInv, InPlace
<1>7. /\ active_list \o w \in Seq(Everyone) /\ NoRepeat(active_list \o w)
      /\ Elems(active_list \o w) = Elems(active_list) \cup Elems(w)
  BY <1>2, <1>4, <1>5, <1>6, ElemsCat
<1> QED BY <1>1, <1>3, <1>7

\* What _sche_next does to the three places, for a caller that is not queued
\* when it yields.
LEMMA NextPlaces ==
  ASSUME NEW co \in Everyone, NEW t, NEW st \in [Everyone -> Statuses],
         t.active \in Seq(Everyone), NoRepeat(t.active),
         st[co] = "YIELD" => co \notin Elems(t.active),
         _sche_next(co, t, st)
  PROVE  /\ active_list' \in Seq(Everyone) /\ NoRepeat(active_list')
         /\ \E next \in Everyone :
              /\ \/ next \in Elems(t.active)
                 \/ next = s_co /\ t.active = <<>>
              /\ running' = IF co = next THEN "abort" ELSE next
              /\ Elems(active_list') =
                   (Elems(t.active) \ {next}) \cup (IF st[co] = "YIELD" THEN {co} ELSE {})
         /\ status' \in [Everyone -> Statuses]
         /\ status' = [st EXCEPT ![co] = IF st[co] = "YIELD" THEN "ACTIVE" ELSE @]
         /\ sleepers' = t.sleepers
<1> DEFINE next == IF t.active = <<>> THEN s_co ELSE Head(t.active)
           rest == IF t.active = <<>> THEN <<>> ELSE Tail(t.active)
<1>1. /\ running' = IF co = next THEN "abort" ELSE next
      /\ active_list' = IF st[co] = "YIELD" THEN Append(rest, co) ELSE rest
      /\ status' = IF st[co] = "YIELD" THEN [st EXCEPT ![co] = "ACTIVE"] ELSE st
      /\ sleepers' = t.sleepers
  BY DEF _sche_next
<1>2. /\ rest \in Seq(Everyone) /\ NoRepeat(rest) /\ next \in Everyone
      /\ next \in Elems(t.active) \/ (next = s_co /\ t.active = <<>>)
      /\ Elems(rest) = Elems(t.active) \ {next}
  <2>1. CASE t.active = <<>>  BY <2>1 DEF Everyone, NoRepeat, Elems
  <2>2. CASE t.active # <<>>
    <3>1. /\ Tail(t.active) \in Seq(Everyone) /\ NoRepeat(Tail(t.active))
          /\ Head(t.active) \in Elems(t.active)
          /\ Elems(Tail(t.active)) = Elems(t.active) \ {Head(t.active)}
      BY <2>2, ElemsTail
    <3>2. Elems(t.active) \subseteq Everyone  BY ElemsSeq
    <3> QED BY <2>2, <3>1, <3>2
  <2> QED BY <2>1, <2>2
<1> HIDE DEF next, rest
<1>3. /\ active_list' \in Seq(Everyone) /\ NoRepeat(active_list')
      /\ Elems(active_list') =
           (Elems(t.active) \ {next}) \cup (IF st[co] = "YIELD" THEN {co} ELSE {})
  <2>1. CASE st[co] = "YIELD"
    <3>1. co \notin Elems(rest)  BY <1>2, <2>1
    <3> QED BY <1>1, <1>2, <2>1, <3>1, ElemsPut
  <2>2. CASE st[co] # "YIELD"  BY <1>1, <1>2, <2>2
  <2> QED BY <2>1, <2>2
<1>4. /\ status' \in [Everyone -> Statuses]
      /\ status' = [st EXCEPT ![co] = IF st[co] = "YIELD" THEN "ACTIVE" ELSE @]
  BY <1>1 DEF Statuses
<1> QED BY <1>1, <1>2, <1>3, <1>4

-----------------------------------------------------------------------------
(* The steps.                                                              *)

\* Whoever switches, whatever the clock has woken: co leaves the stack for the
\* list or for the heap, and the others stay where t has them.
LEMMA TurnStep ==
  ASSUME CoInv, scheduling, NEW co \in Everyone, running = co,
         NEW t, NEW st \in [Everyone -> Statuses],
         t.active \in Seq(Everyone), NoRepeat(t.active), t.sleepers \subseteq Coro,
         \A c \in Coro : c \notin Elems(t.active) \/ c \notin t.sleepers,
         \A c \in Coro \ {co} : c \in Elems(t.active) \cup t.sleepers
                                  <=> c \in Elems(active_list) \cup sleepers,
         co \in Coro => /\ co \notin Elems(t.active)
                        /\ st[co] = "YIELD" <=> co \notin t.sleepers,
         st[s_co] = status[s_co],
         s_co \in Elems(t.active) <=> s_co \in Elems(active_list),
         \A c \in Coro : st[c] \in {"NONE", "DIE"} <=> status[c] \in {"NONE", "DIE"},
         _sche_next(co, t, st), UNCHANGED <<coro_size, stop, scheduling>>
  PROVE  CoInv'
<1>1. co \in Coro \/ co = s_co  BY DEF Everyone
<1>2. st[co] = "YIELD" => co \notin Elems(t.active)
  BY <1>1 DEF CoInv, Queued
<1>3. /\ active_list' \in Seq(Everyone) /\ NoRepeat(active_list')
      /\ \E next \in Everyone :
           /\ \/ next \in Elems(t.active)
              \/ next = s_co /\ t.active = <<>>
           /\ running' = IF co = next THEN "abort" ELSE next
           /\ Elems(active_list') =
                (Elems(t.active) \ {next}) \cup (IF st[co] = "YIELD" THEN {co} ELSE {})
      /\ status' \in [Everyone -> Statuses]
      /\ status' = [st EXCEPT ![co] = IF st[co] = "YIELD" THEN "ACTIVE" ELSE @]
      /\ sleepers' = t.sleepers
  BY <1>2, NextPlaces
<1>4. PICK next \in Everyone :
           /\ \/ next \in Elems(t.active)
              \/ next = s_co /\ t.active = <<>>
           /\ running' = IF co = next THEN "abort" ELSE next
           /\ Elems(active_list') =
                (Elems(t.active) \ {next}) \cup (IF st[co] = "YIELD" THEN {co} ELSE {})
  BY <1>3
<1>5. CoTypes'  BY <1>3, <1>4 DEF CoInv, CoTypes
<1>6. status'[co] = (IF st[co] = "YIELD" THEN "ACTIVE" ELSE st[co])
      /\ \A c \in Everyone \ {co} : status'[c] = st[c]
  BY <1>3
<1>7. Alive' = Alive
  <2>1. \A c \in Coro : status'[c] \in {"NONE", "DIE"} <=> status[c] \in {"NONE", "DIE"}
    BY <1>6 DEF Everyone
  <2> QED BY <2>1 DEF Alive
<1>8. Queued'
  <2>1. ASSUME status'[s_co] = "YIELD" PROVE s_co \notin Elems(active_list')
    <3>1. s_co \in Everyone  BY DEF Everyone
    <3>2. co # s_co /\ status[s_co] = "YIELD"  BY <1>6, <2>1, <3>1
    <3>3. s_co \notin Elems(t.active)  BY <3>2 DEF CoInv, Queued
    <3> QED BY <1>4, <3>2, <3>3
  <2> QED BY <1>3, <2>1 DEF Queued
<1>9. Counted'  BY <1>7 DEF CoInv, Counted
<1>10. ASSUME running' # "abort", NEW c \in Coro PROVE InPlace(c)'
  <2>1. running' = next /\ next # co  BY <1>4, <1>10
  <2>2. running # "abort" /\ c # s_co  BY CoAssumption DEF Everyone
  <2>3. InPlace(c)  BY <2>2 DEF CoInv
  <2>4. CASE c = co
    <3>1. c \in Alive'  BY <1>7, <2>3, <2>4 DEF InPlace
    <3>2. c \in Elems(active_list') <=> st[co] = "YIELD"  BY <1>4, <2>4
    <3>3. c \in sleepers' <=> st[co] # "YIELD"  BY <1>3, <2>4
    <3> QED BY <2>1, <2>4, <3>1, <3>2, <3>3 DEF InPlace
  <2>5. CASE c # co
    <3>1. c \in Elems(active_list') <=> c \in Elems(t.active) /\ c # next  BY <1>4, <2>5
    <3>2. c \in Alive' <=> c \in Elems(active_list) \/ c \in sleepers
      BY <1>7, <2>3, <2>5 DEF InPlace
    <3>3. c \in Alive' <=> c \in Elems(t.active) \/ c \in t.sleepers  BY <2>5, <3>2
    <3>4. next = c => c \in Elems(t.active)  BY <1>4, <2>2
    <3> QED BY <1>3, <2>1, <3>1, <3>3, <3>4 DEF InPlace
  <2> QED BY <2>4, <2>5
<1>11. scheduling'  OBVIOUS
<1> QED BY <1>5, <1>8, <1>9, <1>10, <1>11 DEF CoInv

\* Waking changes neither who is alive nor the scheduler's status.
LEMMA WakeKeeps ==
  ASSUME CoInv, running # "abort", NEW t \in check_time_out
  PROVE  /\ Wake(status, t) \in [Everyone -> Statuses]
         /\ \A c \in Everyone \ t.woken : Wake(status, t)[c] = status[c]
         /\ \A c \in Coro : Wake(status, t)[c] \in {"NONE", "DIE"}
                              <=> status[c] \in {"NONE", "DIE"}
         /\ s_co \notin t.woken /\ t.woken \subseteq Coro
<1>1. t.woken \subseteq sleepers /\ sleepers \subseteq Coro
  BY TimeOutLists DEF CoInv, CoTypes
<1>2. status \in [Everyone -> Statuses] /\ DOMAIN status = Everyone
  BY DEF CoInv, CoTypes
<1>3. /\ Wake(status, t) \in [Everyone -> Statuses]
      /\ \A c \in Everyone \ t.woken : Wake(status, t)[c] = status[c]
      /\ \A c \in Everyone \cap t.woken : Wake(status, t)[c] = "ACTIVE"
  BY <1>2 DEF Wake, Statuses
<1>4. \A c \in t.woken : status[c] \notin {"NONE", "DIE"}
  BY <1>1 DEF CoInv, InPlace, Alive
<1> QED BY <1>1, <1>3, <1>4, CoAssumption DEF Everyone

LEMMA YieldStep ==
  ASSUME CoInv, NEW c \in Coro, coro_yield(c)
  PROVE  CoInv'
<1>1. PICK t \in check_time_out : _sche_next(c, t, [Wake(status, t) EXCEPT ![c] = "YIELD"])
  BY DEF coro_yield
<1>2. running = c /\ running # "abort" /\ c \in Everyone /\ scheduling
      /\ UNCHANGED <<coro_size, stop, scheduling>>
  BY CoAssumption DEF coro_yield, Everyone, CoInv, CoTypes
<1> DEFINE st == [Wake(status, t) EXCEPT ![c] = "YIELD"]
<1>3. InPlace(c) /\ \A d \in Coro : InPlace(d)  BY <1>2 DEF CoInv
<1>4. /\ t.active \in Seq(Everyone) /\ NoRepeat(t.active)
      /\ t.woken \subseteq sleepers /\ t.sleepers = sleepers \ t.woken
      /\ Elems(t.active) = Elems(active_list) \cup t.woken
  BY <1>2, TimeOutLists
<1>5. /\ Wake(status, t) \in [Everyone -> Statuses]
      /\ \A d \in Everyone \ t.woken : Wake(status, t)[d] = status[d]
      /\ \A d \in Coro : Wake(status, t)[d] \in {"NONE", "DIE"}
                           <=> status[d] \in {"NONE", "DIE"}
      /\ s_co \notin t.woken /\ t.woken \subseteq Coro
  BY <1>2, WakeKeeps
<1>6. /\ st \in [Everyone -> Statuses] /\ st[c] = "YIELD"
      /\ \A d \in Everyone \ {c} : st[d] = Wake(status, t)[d]
  BY <1>2, <1>5 DEF Statuses
<1> HIDE DEF st
<1>7. sleepers \subseteq Coro  BY DEF CoInv, CoTypes
<1>8. t.sleepers \subseteq Coro /\ \A d \in Coro : d \notin Elems(t.active) \/ d \notin t.sleepers
  BY <1>3, <1>4, <1>7 DEF InPlace
<1>9. \A d \in Coro \ {c} : d \in Elems(t.active) \cup t.sleepers
                              <=> d \in Elems(active_list) \cup sleepers
  BY <1>4
<1>10. c \notin Elems(t.active) /\ c \notin t.sleepers  BY <1>2, <1>3, <1>4 DEF InPlace
<1>11. st[s_co] = status[s_co]  BY <1>5, <1>6, CoAssumption DEF Everyone
<1>12. s_co \in Elems(t.active) <=> s_co \in Elems(active_list)  BY <1>4, <1>5
<1>13. status[c] \notin {"NONE", "DIE"}  BY <1>2, <1>3 DEF InPlace, Alive
<1>14. \A d \in Coro : st[d] \in {"NONE", "DIE"} <=> status[d] \in {"NONE", "DIE"}
  BY <1>5, <1>6, <1>13 DEF Everyone
<1>15. _sche_next(c, t, st)  BY <1>1 DEF st
<1> QED BY <1>2, <1>4, <1>6, <1>8, <1>9, <1>10, <1>11, <1>12, <1>14, <1>15, TurnStep

LEMMA ScheduleStep ==
  ASSUME CoInv, Schedule
  PROVE  CoInv'
<1>1. PICK t \in check_time_out :
        IF t.active # <<>> THEN _sche_next(s_co, t, Wake(status, t))
        ELSE UNCHANGED <<running, active_list, status, sleepers>>
  BY DEF Schedule
<1>2. running = s_co /\ running # "abort" /\ s_co \in Everyone /\ scheduling
      /\ UNCHANGED <<coro_size, stop, scheduling>>
  BY CoAssumption DEF Schedule, Everyone
<1>3. CASE t.active = <<>>
  BY <1>1, <1>2, <1>3 DEF CoInv, CoTypes, Queued, Counted, InPlace, Alive
<1>4. CASE t.active # <<>>
  <2>1. _sche_next(s_co, t, Wake(status, t))  BY <1>1, <1>4
  <2>2. /\ t.active \in Seq(Everyone) /\ NoRepeat(t.active)
        /\ t.woken \subseteq sleepers /\ t.sleepers = sleepers \ t.woken
        /\ Elems(t.active) = Elems(active_list) \cup t.woken
    BY <1>2, TimeOutLists
  <2>3. /\ Wake(status, t) \in [Everyone -> Statuses]
        /\ \A d \in Everyone \ t.woken : Wake(status, t)[d] = status[d]
        /\ \A d \in Coro : Wake(status, t)[d] \in {"NONE", "DIE"}
                             <=> status[d] \in {"NONE", "DIE"}
        /\ s_co \notin t.woken /\ t.woken \subseteq Coro
    BY <1>2, WakeKeeps
  <2>4. \A d \in Coro : InPlace(d)  BY <1>2 DEF CoInv
  <2>5. sleepers \subseteq Coro  BY DEF CoInv, CoTypes
  <2>6. t.sleepers \subseteq Coro
        /\ \A d \in Coro : d \notin Elems(t.active) \/ d \notin t.sleepers
    BY <2>2, <2>4, <2>5 DEF InPlace
  <2>7. \A d \in Coro \ {s_co} : d \in Elems(t.active) \cup t.sleepers
                                   <=> d \in Elems(active_list) \cup sleepers
    BY <2>2
  <2>8. Wake(status, t)[s_co] = status[s_co]  BY <1>2, <2>3
  <2>9. s_co \in Elems(t.active) <=> s_co \in Elems(active_list)  BY <2>2, <2>3
  <2>10. s_co \notin Coro  BY CoAssumption
  <2> QED BY <1>2, <2>1, <2>2, <2>3, <2>6, <2>7, <2>8, <2>9, <2>10, TurnStep
<1> QED BY <1>3, <1>4

\* The heap has room for one more sleeper than those asleep while a coroutine
\* runs, if it was made as large as there are coroutines.
LEMMA RoomToSleep ==
  ASSUME CoInv, Cardinality(Coro) <= max_coro, NEW c \in Coro, running = c
  PROVE  HasRoom
<1>1. running # "abort"  BY CoAssumption
<1>2. sleepers \in SUBSET Coro /\ c \notin sleepers
  BY <1>1 DEF CoInv, CoTypes, InPlace
<1>3. IsFiniteSet(Coro) /\ max_coro \in Nat  BY CoAssumption
<1>4. Cardinality(Coro) \in Nat  BY <1>3, FS_CardinalityType
<1>5. /\ IsFiniteSet(sleepers) /\ Cardinality(sleepers) <= Cardinality(Coro)
      /\ Cardinality(Coro) = Cardinality(sleepers) => Coro = sleepers
  BY <1>2, <1>3, FS_Subset
<1>6. Cardinality(sleepers) \in Nat  BY <1>5, FS_CardinalityType
<1>7. Cardinality(sleepers) # Cardinality(Coro)  BY <1>2, <1>5
<1> QED BY <1>3, <1>4, <1>5, <1>6, <1>7 DEF HasRoom

LEMMA SleepStep ==
  ASSUME CoInv, Cardinality(Coro) <= max_coro, NEW c \in Coro, coro_sleep(c)
  PROVE  CoInv'
<1> DEFINE t == [active |-> active_list, sleepers |-> sleepers \cup {c}]
           st == [status EXCEPT ![c] = "SLEEP"]
<1>1. running = c /\ running # "abort" /\ c \in Everyone /\ scheduling
      /\ UNCHANGED <<coro_size, stop, scheduling>>
  BY CoAssumption DEF coro_sleep, Everyone, CoInv, CoTypes
<1>2. HasRoom  BY <1>1, RoomToSleep
<1>3. _sche_next(c, t, st)  BY <1>2 DEF coro_sleep
<1>4. InPlace(c) /\ \A d \in Coro : InPlace(d)  BY <1>1 DEF CoInv
<1>5. /\ t.active \in Seq(Everyone) /\ NoRepeat(t.active) /\ t.active = active_list
      /\ t.sleepers = sleepers \cup {c} /\ sleepers \subseteq Coro
      /\ status \in [Everyone -> Statuses]
  BY DEF CoInv, CoTypes, Queued
<1>6. /\ st \in [Everyone -> Statuses] /\ st[c] = "SLEEP"
      /\ \A d \in Everyone \ {c} : st[d] = status[d]
  BY <1>1, <1>5 DEF Statuses
<1> HIDE DEF st, t
<1>7. t.sleepers \subseteq Coro /\ \A d \in Coro : d \notin Elems(t.active) \/ d \notin t.sleepers
  BY <1>1, <1>4, <1>5 DEF InPlace
<1>8. \A d \in Coro \ {c} : d \in Elems(t.active) \cup t.sleepers
                              <=> d \in Elems(active_list) \cup sleepers
  BY <1>5
<1>9. c \notin Elems(t.active) /\ c \in t.sleepers /\ st[c] # "YIELD"
  BY <1>1, <1>4, <1>5, <1>6 DEF InPlace
<1>10. st[s_co] = status[s_co]  BY <1>6, CoAssumption DEF Everyone
<1>11. status[c] \notin {"NONE", "DIE"}  BY <1>1, <1>4 DEF InPlace, Alive
<1>12. \A d \in Coro : st[d] \in {"NONE", "DIE"} <=> status[d] \in {"NONE", "DIE"}
  BY <1>6, <1>11 DEF Everyone
<1>13. s_co \in Elems(t.active) <=> s_co \in Elems(active_list)  BY <1>5
<1> QED BY <1>1, <1>3, <1>5, <1>6, <1>7, <1>8, <1>9, <1>10, <1>12, <1>13, TurnStep

\* The last coroutine that ends stops the loop of sche_schedule.
LEMMA EndStep ==
  ASSUME CoInv, NEW c \in Coro, coro_fun(c)
  PROVE  CoInv'
<1>1. /\ running = c /\ running' = s_co /\ status' = [status EXCEPT ![c] = "DIE"]
      /\ coro_size' = coro_size - 1 /\ stop' = (coro_size' = 0)
      /\ UNCHANGED <<active_list, sleepers, scheduling>>
  BY DEF coro_fun
<1>2. running # "abort" /\ running # s_co /\ scheduling /\ c \in Everyone
  BY <1>1, CoAssumption DEF CoInv, CoTypes, Everyone
<1>3. \A d \in Coro : InPlace(d)  BY <1>2 DEF CoInv
<1>4. status \in [Everyone -> Statuses] /\ coro_size \in Nat  BY DEF CoInv, CoTypes
<1>5. /\ status' \in [Everyone -> Statuses] /\ status'[c] = "DIE"
      /\ \A d \in Everyone \ {c} : status'[d] = status[d]
  BY <1>1, <1>2, <1>4 DEF Statuses
<1>6. c \in Alive  BY <1>1, <1>3 DEF InPlace
<1>7. Alive' = Alive \ {c}  BY <1>5 DEF Alive, Everyone
<1>8. IsFiniteSet(Alive)  BY FS_Subset, CoAssumption DEF Alive
<1>9. IsFiniteSet(Alive \ {c}) /\ Cardinality(Alive \ {c}) = Cardinality(Alive) - 1
  BY <1>6, <1>8, FS_RemoveElement
<1>10. coro_size' = Cardinality(Alive') /\ coro_size' \in Nat
  <2>1. coro_size = Cardinality(Alive)  BY DEF CoInv, Counted
  <2>2. Cardinality(Alive \ {c}) \in Nat  BY <1>9, FS_CardinalityType
  <2> QED BY <1>1, <1>7, <1>9, <2>1, <2>2
<1>11. stop' <=> Alive' = {}  BY <1>1, <1>7, <1>9, <1>10, FS_EmptySet
<1>12. Counted'  BY <1>1, <1>2, <1>10, <1>11 DEF Counted
<1>13. CoTypes'  BY <1>1, <1>5, <1>10 DEF CoInv, CoTypes, Everyone
<1>14. Queued'
  <2>1. status'[s_co] = status[s_co]  BY <1>5, CoAssumption DEF Everyone
  <2> QED BY <1>1, <2>1 DEF CoInv, Queued
<1>15. ASSUME NEW d \in Coro PROVE InPlace(d)'
  <2>1. running' # d  BY <1>1, CoAssumption
  <2>2. CASE d = c
    <3>1. d \notin Alive'  BY <1>7, <2>2
    <3> QED BY <1>1, <1>3, <2>1, <2>2, <3>1 DEF InPlace
  <2>3. CASE d # c
    <3>1. d \in Alive' <=> d \in Alive  BY <1>7, <2>3
    <3> QED BY <1>1, <1>3, <2>1, <2>3, <3>1 DEF InPlace
  <2> QED BY <2>2, <2>3
<1> QED BY <1>1, <1>12, <1>13, <1>14, <1>15 DEF CoInv

LEMMA SpawnStep ==
  ASSUME CoInv, NEW c \in Coro, sche_spawn(c)
  PROVE  CoInv'
<1>1. /\ ~scheduling /\ status[c] = "NONE"
      /\ active_list' = Append(active_list, c) /\ status' = [status EXCEPT ![c] = "ACTIVE"]
      /\ coro_size' = coro_size + 1 /\ UNCHANGED <<running, sleepers, stop, scheduling>>
  BY DEF sche_spawn
<1>2. running = s_co /\ running # "abort" /\ c \in Everyone /\ c # s_co
  BY <1>1, CoAssumption DEF CoInv, Everyone
<1>3. \A d \in Coro : InPlace(d)  BY <1>2 DEF CoInv
<1>4. /\ status \in [Everyone -> Statuses] /\ coro_size \in Nat
      /\ active_list \in Seq(Everyone) /\ NoRepeat(active_list)
  BY DEF CoInv, CoTypes, Queued
<1>5. /\ status' \in [Everyone -> Statuses] /\ status'[c] = "ACTIVE"
      /\ \A d \in Everyone \ {c} : status'[d] = status[d]
  BY <1>1, <1>2, <1>4 DEF Statuses
<1>6. c \notin Alive /\ Alive' = Alive \cup {c}  BY <1>1, <1>5 DEF Alive, Everyone
<1>7. c \notin Elems(active_list) /\ c \notin sleepers  BY <1>3, <1>6 DEF InPlace
<1>8. /\ active_list' \in Seq(Everyone) /\ NoRepeat(active_list')
      /\ Elems(active_list') = Elems(active_list) \cup {c}
  BY <1>1, <1>2, <1>4, <1>7, ElemsPut
<1>9. IsFiniteSet(Alive)  BY FS_Subset, CoAssumption DEF Alive
<1>10. coro_size' = Cardinality(Alive')
  BY <1>1, <1>6, <1>9, FS_AddElement DEF CoInv, Counted
<1>11. ~stop' /\ ~scheduling'  BY <1>1 DEF CoInv, Counted
<1>12. Counted'  BY <1>10, <1>11 DEF Counted
<1>13. CoTypes'  BY <1>1, <1>4, <1>5, <1>8 DEF CoInv, CoTypes
<1>14. Queued'
  <2>1. status'[s_co] = status[s_co]  BY <1>2, <1>5 DEF Everyone
  <2> QED BY <1>2, <1>8, <2>1 DEF CoInv, Queued
<1>15. ASSUME NEW d \in Coro PROVE InPlace(d)'
  <2>1. d \in Alive' <=> d \in Alive \/ d = c  BY <1>6
  <2>2. d \in Elems(active_list') <=> d \in Elems(active_list) \/ d = c  BY <1>8
  <2>3. running' # d  BY <1>1, <1>2, CoAssumption
  <2> QED BY <1>1, <1>3, <1>7, <2>1, <2>2, <2>3 DEF InPlace
<1> QED BY <1>1, <1>2, <1>12, <1>13, <1>14, <1>15 DEF CoInv

LEMMA CoStep ==
  ASSUME Cardinality(Coro) <= max_coro, CoInv, [CoNext]_covars
  PROVE  CoInv'
<1>1. ASSUME UNCHANGED <<running, active_list, sleepers, status, coro_size, stop, scheduling>>
      PROVE  CoInv'
  BY <1>1 DEF CoInv, CoTypes, Queued, Counted, InPlace, Alive
<1>2. CASE UNCHANGED covars  BY <1>1, <1>2 DEF covars
<1>3. CASE \E c \in Coro : sche_spawn(c) \/ RunCoro(c)
  BY <1>3, SpawnStep, YieldStep, SleepStep, EndStep DEF RunCoro
<1>4. CASE sche_schedule
  <2>1. /\ ~scheduling /\ scheduling' /\ scheduling' \in BOOLEAN /\ coro_size > 0
        /\ UNCHANGED <<running, active_list, sleepers, status, coro_size, stop>>
    BY <1>4 DEF sche_schedule
  <2>2. Alive' = Alive /\ Alive # {} /\ ~stop
    BY <2>1, FS_EmptySet DEF CoInv, Counted, Alive
  <2>3. Counted'  BY <2>1, <2>2 DEF CoInv, Counted
  <2> QED BY <2>1, <2>2, <2>3 DEF CoInv, CoTypes, Queued, InPlace
<1>5. CASE Schedule  BY <1>5, ScheduleStep
<1>6. CASE SleepOver  BY <1>1, <1>6 DEF SleepOver
<1> QED BY <1>2, <1>3, <1>4, <1>5, <1>6 DEF CoNext

\* Spawning, yielding, sleeping, waking and ending move every coroutine between
\* the stack, the list and the heap without doubling or losing it, and the loop
\* of sche_schedule ends with the last one: for any number of coroutines that
\* sche_create was told of (a sleeper that the heap has no room for is lost).
THEOREM CoroAlwaysInOnePlace ==
  ASSUME Cardinality(Coro) <= max_coro
  PROVE  CoSpec => []OnePlace
<1>1. CoInv => OnePlace
  <2> SUFFICES ASSUME CoInv PROVE OnePlace
    OBVIOUS
  <2>1. ASSUME NEW c \in Coro, running # "abort"
        PROVE  Cardinality({i \in DOMAIN active_list : active_list[i] = c})
                 + (IF c \in sleepers THEN 1 ELSE 0) + (IF running = c THEN 1 ELSE 0)
                 = IF c \in Alive THEN 1 ELSE 0
    <3>1. active_list \in Seq(Everyone) /\ NoRepeat(active_list)
      BY DEF CoInv, CoTypes, Queued
    <3>2. Cardinality({i \in DOMAIN active_list : active_list[i] = c})
            = IF c \in Elems(active_list) THEN 1 ELSE 0
      BY <3>1, ElemsCount
    <3>3. InPlace(c)  BY <2>1 DEF CoInv
    <3> QED BY <3>2, <3>3 DEF InPlace
  <2> QED BY <2>1 DEF OnePlace, CoInv, Counted
<1>2. CoInv /\ [CoNext]_covars => CoInv'  BY CoStep
<1> QED BY <1>1, <1>2, CoInitial, PTL DEF CoSpec

-----------------------------------------------------------------------------
(* timing_wheel.c.  No item fires before its time.  The invariant says how *)
(* far an item in the slot d places ahead may still be from its time: its  *)
(* remaining time and what the clock has run since the last update are less*)
(* than d + 2 slots; the slots that a running update has passed are empty. *)

\* The slot d places ahead of c.
Ahead(c, d) == (c + d) % slot_size

LEMMA AheadIs ==
  ASSUME NEW c \in Nat, NEW d \in Nat, c + d < slot_size + slot_size
  PROVE  Ahead(c, d) = IF c + d < slot_size THEN c + d ELSE (c + d) - slot_size
<1>1. slot_size \in Nat \ {0}  BY WheelAssumption
<1>2. CASE c + d < slot_size  BY <1>1, <1>2, ModInt DEF Ahead
<1>3. CASE ~(c + d < slot_size)
  <2> DEFINE v == (c + d) - slot_size
  <2>1. v \in Nat /\ v < slot_size /\ c + d \in Int /\ c + d = v + slot_size  BY <1>1, <1>3
  <2> HIDE DEF v
  <2>2. Ahead(c, d) = v  BY <1>1, <2>1, ModInt DEF Ahead
  <2> QED BY <1>3, <2>2 DEF v
<1> QED BY <1>2, <1>3

LEMMA AheadSlots ==
  ASSUME NEW c \in 0..(slot_size - 1)
  PROVE  /\ \A d \in 0..(slot_size - 1) : Ahead(c, d) \in 0..(slot_size - 1)
         /\ \A d, e \in 0..(slot_size - 1) : Ahead(c, d) = Ahead(c, e) => d = e
         /\ \A s \in 0..(slot_size - 1) : \E d \in 0..(slot_size - 1) : Ahead(c, d) = s
<1>1. slot_size \in Nat \ {0} /\ c \in Nat  BY WheelAssumption
<1> QED BY <1>1, Residues DEF Ahead

\* First i slots ahead, then d more.
LEMMA AheadTwice ==
  ASSUME NEW c \in 0..(slot_size - 1), NEW i \in 0..slot_size, NEW d \in 0..(slot_size - 1)
  PROVE  /\ Ahead(c, i) \in 0..(slot_size - 1)
         /\ i + d < slot_size => Ahead(Ahead(c, i), d) = Ahead(c, i + d)
         /\ ~(i + d < slot_size) => /\ (i + d) - slot_size \in 0..(i - 1)
                                    /\ Ahead(Ahead(c, i), d) = Ahead(c, (i + d) - slot_size)
<1>1. slot_size \in Nat \ {0}  BY WheelAssumption
<1> DEFINE a == Ahead(c, i)
<1>2. a = IF c + i < slot_size THEN c + i ELSE (c + i) - slot_size
  <2>1. c + i < slot_size + slot_size /\ c \in Nat /\ i \in Nat  BY <1>1
  <2> QED BY <2>1, AheadIs
<1>3. a \in 0..(slot_size - 1)  BY <1>1, <1>2
<1> HIDE DEF a
<1>4. Ahead(a, d) = IF a + d < slot_size THEN a + d ELSE (a + d) - slot_size
  <2>1. a + d < slot_size + slot_size /\ a \in Nat /\ d \in Nat  BY <1>1, <1>3
  <2> QED BY <2>1, AheadIs
<1>5. CASE i + d < slot_size
  <2> DEFINE e == i + d
  <2>1. c + e < slot_size + slot_size /\ c \in Nat /\ e \in Nat  BY <1>1, <1>5
  <2>2. Ahead(c, e) = IF c + e < slot_size THEN c + e ELSE (c + e) - slot_size
    <3> HIDE DEF e
    <3> QED BY <2>1, AheadIs
  <2> QED BY <1>1, <1>2, <1>3, <1>4, <1>5, <2>2 DEF a
<1>6. CASE ~(i + d < slot_size)
  <2> DEFINE e == (i + d) - slot_size
  <2>1. c + e < slot_size + slot_size /\ c \in Nat /\ e \in Nat /\ e \in 0..(i - 1)
    BY <1>1, <1>6
  <2>2. Ahead(c, e) = IF c + e < slot_size THEN c + e ELSE (c + e) - slot_size
    <3> HIDE DEF e
    <3> QED BY <2>1, AheadIs
  <2> QED BY <1>1, <1>2, <1>3, <1>4, <1>6, <2>1, <2>2 DEF a
<1> QED BY <1>5, <1>6

-----------------------------------------------------------------------------
(* The clock.                                                              *)

\* The time from b to a, on the clock that wraps around.
Since(a, b) == (a - b) % ClockWrap

LEMMA SinceIs ==
  ASSUME NEW a \in 0..(ClockWrap - 1), NEW b \in 0..(ClockWrap - 1)
  PROVE  /\ Since(a, b) = IF a >= b THEN a - b ELSE (a - b) + ClockWrap
         /\ Since(a, b) \in 0..(ClockWrap - 1)
<1>1. ClockWrap \in Nat \ {0}  BY WheelAssumption
<1> DEFINE v == IF a >= b THEN a - b ELSE (a - b) + ClockWrap
           x == a - b
<1>2. v \in Nat /\ v < ClockWrap /\ x \in Int /\ (x = v \/ x = v - ClockWrap)  BY <1>1
<1> HIDE DEF v, x
<1>3. (x % ClockWrap) = v  BY <1>1, <1>2, ModInt
<1>4. v \in 0..(ClockWrap - 1)  BY <1>1, <1>2
<1> QED BY <1>3, <1>4 DEF Since, x, v

LEMMA TickClock ==
  ASSUME NEW a \in 0..(ClockWrap - 1), NEW b \in 0..(ClockWrap - 1),
         Since(a, b) < MaxGap, NEW c, c = (a + 1) % ClockWrap
  PROVE  c \in 0..(ClockWrap - 1) /\ Since(c, b) = Since(a, b) + 1
<1>1. ClockWrap \in Nat \ {0} /\ MaxGap \in Nat /\ MaxGap < ClockWrap  BY WheelAssumption
<1> DEFINE v == IF a + 1 = ClockWrap THEN 0 ELSE a + 1
           x == a + 1
<1>2. v \in Nat /\ v < ClockWrap /\ x \in Int /\ (x = v \/ x = v + ClockWrap)  BY <1>1
<1>3. c = v
  <2> HIDE DEF v
  <2>1. c = (x % ClockWrap)  OBVIOUS
  <2> HIDE DEF x
  <2> QED BY <1>1, <1>2, <2>1, ModInt
<1>4. c \in 0..(ClockWrap - 1)  BY <1>1, <1>2, <1>3
<1>5. Since(a, b) = IF a >= b THEN a - b ELSE (a - b) + ClockWrap  BY SinceIs
<1>6. Since(c, b) = IF c >= b THEN c - b ELSE (c - b) + ClockWrap  BY <1>4, SinceIs
<1> HIDE DEF x
<1>7. CASE a + 1 = ClockWrap  BY <1>1, <1>3, <1>4, <1>5, <1>6, <1>7
<1>8. CASE a + 1 # ClockWrap  BY <1>1, <1>3, <1>4, <1>5, <1>6, <1>8
<1> QED BY <1>7, <1>8

\* Time adds up as long as it does not go once around.
LEMMA SinceSplit ==
  ASSUME NEW a \in 0..(ClockWrap - 1), NEW b \in 0..(ClockWrap - 1),
         NEW c \in 0..(ClockWrap - 1), Since(b, c) <= Since(a, c)
  PROVE  Since(a, b) = Since(a, c) - Since(b, c)
<1>1. ClockWrap \in Nat \ {0}  BY WheelAssumption
<1>2. Since(a, b) = IF a >= b THEN a - b ELSE (a - b) + ClockWrap  BY SinceIs
<1>3. Since(a, c) = IF a >= c THEN a - c ELSE (a - c) + ClockWrap  BY SinceIs
<1>4. Since(b, c) = IF b >= c THEN b - c ELSE (b - c) + ClockWrap  BY SinceIs
<1> QED BY <1>1, <1>2, <1>3, <1>4

-----------------------------------------------------------------------------
(* The wheel.                                                              *)

WheelTypes ==
  /\ now \in 0..(ClockWrap - 1) /\ last_update \in 0..(ClockWrap - 1)
  /\ current \in 0..(slot_size - 1)
  /\ slot \in [0..(slot_size - 1) -> Seq(Item)]
  /\ firing \in Seq(Item) /\ left \in [Item -> Nat]
  /\ updating \in [i : Nat, interval : Nat, now : 0..(ClockWrap - 1)]

\* When time d + 1 precisions after the update, less what has passed, is over,
\* less than one precision of the timeout of x is left.
OnTime(x, d) == left[x] = 0 \/ left[x] + Since(now, last_update) < precision * (d + 2)

WheelInv ==
  /\ WheelTypes
  /\ Since(now, last_update) <= MaxGap
  /\ \A k \in 0..(slot_size - 1) : NoRepeat(slot[k])
  /\ updating # Idle =>
       /\ precision * updating.interval <= Since(updating.now, last_update)
       /\ Since(updating.now, last_update) <= Since(now, last_update)
       /\ updating.i <= updating.interval /\ updating.i <= slot_size
  /\ \A d \in 0..(updating.i - 1) : slot[Ahead(current, d)] = <<>>
  /\ \A d \in 0..(slot_size - 1) : \A x \in Elems(slot[Ahead(current, d)]) : OnTime(x, d)
  /\ \A x \in Elems(firing) : left[x] < precision


LEMMA GapSince == Gap = Since(now, last_update)
BY DEF Gap, Since

LEMMA WheelStart == WheelInit => WheelInv
<1> SUFFICES ASSUME WheelInit PROVE WheelInv  OBVIOUS
<1>1. /\ ClockWrap \in Nat \ {0} /\ slot_size \in Nat \ {0} /\ precision \in Nat \ {0}
      /\ MaxGap \in Nat
  BY WheelAssumption
<1>2. /\ now \in {0, ClockWrap - 1} /\ last_update = now /\ current = 0
      /\ slot = [i \in 0..(slot_size - 1) |-> <<>>] /\ firing = <<>>
      /\ updating = Idle /\ left = [x \in Item |-> 0]
  BY DEF WheelInit
<1>3. now \in 0..(ClockWrap - 1) /\ current \in 0..(slot_size - 1)  BY <1>1, <1>2
<1>4. /\ updating \in [i : Nat, interval : Nat, now : 0..(ClockWrap - 1)]
      /\ updating.i = 0
  BY <1>1, <1>2 DEF Idle
<1>5. <<>> \in Seq(Item) /\ NoRepeat(<<>>) /\ Elems(<<>>) = {}  BY DEF NoRepeat, Elems
<1>6. WheelTypes  BY <1>2, <1>3, <1>4, <1>5 DEF WheelTypes
<1>7. Since(now, last_update) = 0  BY <1>1, <1>2, <1>3, SinceIs
<1>8. \A d \in 0..(slot_size - 1) : slot[Ahead(current, d)] = <<>>
  BY <1>2, <1>3, AheadSlots
<1>9. \A d \in 0..(updating.i - 1) : FALSE  BY <1>4
<1> QED BY <1>1, <1>2, <1>5, <1>6, <1>7, <1>8, <1>9 DEF WheelInv

LEMMA TickStep ==
  ASSUME WheelInv, Tick
  PROVE  WheelInv'
<1> DEFINE g == Since(now, last_update)
<1>1. /\ now \in 0..(ClockWrap - 1) /\ last_update \in 0..(ClockWrap - 1)
      /\ left \in [Item -> Nat]
      /\ slot \in [0..(slot_size - 1) -> Seq(Item)] /\ firing \in Seq(Item)
      /\ current \in 0..(slot_size - 1)
      /\ updating \in [i : Nat, interval : Nat, now : 0..(ClockWrap - 1)]
  BY DEF WheelInv, WheelTypes
<1>2. /\ g < MaxGap /\ now' = (now + 1) % ClockWrap
      /\ left' = [x \in Item |-> IF left[x] > 0 THEN left[x] - 1 ELSE 0]
      /\ last_update' = last_update /\ current' = current /\ slot' = slot
      /\ updating' = updating /\ firing' = firing
  BY GapSince DEF Tick
<1>3. /\ ClockWrap \in Nat \ {0} /\ slot_size \in Nat \ {0} /\ precision \in Nat \ {0}
      /\ MaxGap \in Nat
  BY WheelAssumption
<1>4. now' \in 0..(ClockWrap - 1) /\ Since(now', last_update) = g + 1
  BY <1>1, <1>2, TickClock
<1>5. g \in Nat  BY <1>1, SinceIs
<1>6. \A x \in Item : /\ left'[x] \in Nat /\ left'[x] <= left[x] /\ left[x] \in Nat
                      /\ left'[x] = 0 \/ left'[x] + 1 = left[x]
  BY <1>1, <1>2
<1>7. WheelTypes'
  <2>1. left' \in [Item -> Nat]  BY <1>1, <1>2
  <2> QED BY <1>1, <1>2, <1>4, <2>1 DEF WheelTypes
<1> HIDE DEF g
<1>8. g + 1 <= MaxGap  BY <1>2, <1>3, <1>5
<1>9. ASSUME NEW d \in 0..(slot_size - 1), NEW x \in Elems(slot[Ahead(current, d)])
      PROVE  left'[x] = 0 \/ left'[x] + (g + 1) < precision * (d + 2)
  <2>1. x \in Item
    <3>1. slot[Ahead(current, d)] \in Seq(Item)  BY <1>1, AheadSlots
    <3> QED BY <3>1, ElemsSeq
  <2>2. left[x] = 0 \/ left[x] + g < precision * (d + 2)  BY DEF WheelInv, OnTime, g
  <2>3. precision * (d + 2) \in Int  BY <1>3
  <2>4. left'[x] \in Nat /\ left[x] \in Nat /\ (left'[x] = 0 \/ left'[x] + 1 = left[x])
    BY <1>6, <2>1
  <2> QED BY <1>5, <2>2, <2>3, <2>4
<1>10. ASSUME NEW x \in Elems(firing) PROVE left'[x] < precision
  <2>1. x \in Item /\ left[x] < precision  BY <1>1, ElemsSeq DEF WheelInv
  <2> QED BY <1>3, <1>6, <2>1
<1>11. ASSUME updating # Idle
       PROVE  /\ precision * updating.interval <= Since(updating.now, last_update)
              /\ Since(updating.now, last_update) <= g + 1
              /\ updating.i <= updating.interval /\ updating.i <= slot_size
  <2>1. Since(updating.now, last_update) <= g  BY <1>11 DEF WheelInv, g
  <2>2. Since(updating.now, last_update) \in Int  BY <1>1, SinceIs
  <2> QED BY <1>5, <1>11, <2>1, <2>2 DEF WheelInv
<1> QED BY <1>2, <1>4, <1>7, <1>8, <1>9, <1>10, <1>11 DEF WheelInv, OnTime

LEMMA UnRegisterStep ==
  ASSUME WheelInv, NEW y \in Item, UnRegisterTimer(y)
  PROVE  WheelInv'
<1>1. /\ left \in [Item -> Nat] /\ slot \in [0..(slot_size - 1) -> Seq(Item)]
      /\ firing \in Seq(Item) /\ current \in 0..(slot_size - 1)
  BY DEF WheelInv, WheelTypes
<1>2. /\ slot' = [i \in DOMAIN slot |-> Without(slot[i], {y})]
      /\ left' = [left EXCEPT ![y] = 0]
      /\ now' = now /\ last_update' = last_update /\ current' = current
      /\ updating' = updating /\ firing' = firing
  BY DEF UnRegisterTimer
<1>3. ASSUME NEW k \in 0..(slot_size - 1)
      PROVE  /\ slot'[k] \in Seq(Item) /\ NoRepeat(slot'[k])
             /\ Elems(slot'[k]) \subseteq Elems(slot[k])
  <2>1. slot[k] \in Seq(Item) /\ NoRepeat(slot[k])  BY <1>1 DEF WheelInv
  <2>2. slot'[k] = Without(slot[k], {y})  BY <1>1, <1>2
  <2> DEFINE s == slot[k]
  <2> HIDE DEF s
  <2>3. /\ Without(s, {y}) \in Seq(Item) /\ NoRepeat(Without(s, {y}))
        /\ Elems(Without(s, {y})) = Elems(s) \ {y}
    BY <2>1, WithoutElems DEF s
  <2> QED BY <2>2, <2>3 DEF s
<1>4. slot' \in [0..(slot_size - 1) -> Seq(Item)]
  <2>1. slot' = [k \in 0..(slot_size - 1) |-> slot'[k]]  BY <1>1, <1>2
  <2> QED BY <1>3, <2>1
<1>5. left' \in [Item -> Nat] /\ \A x \in Item : left'[x] = 0 \/ left'[x] = left[x]
  BY <1>1, <1>2
<1>6. WheelTypes'  BY <1>2, <1>4, <1>5 DEF WheelInv, WheelTypes
<1>7. ASSUME NEW d \in 0..(updating.i - 1), slot[Ahead(current, d)] = <<>>,
             Ahead(current, d) \in 0..(slot_size - 1)
      PROVE  slot'[Ahead(current, d)] = <<>>
  <2>1. Elems(slot[Ahead(current, d)]) = {}  BY <1>7 DEF Elems
  <2>2. Elems(slot'[Ahead(current, d)]) = {}  BY <1>3, <1>7, <2>1
  <2> QED BY <1>3, <1>7, <2>2, ElemsSeq
<1>8. \A d \in 0..(updating.i - 1) : Ahead(current, d) \in 0..(slot_size - 1)
  <2>1. updating.i <= slot_size /\ updating.i \in Nat
    <3>1. CASE updating = Idle  BY <3>1, WheelAssumption DEF Idle
    <3>2. CASE updating # Idle  BY <3>2 DEF WheelInv, WheelTypes
    <3> QED BY <3>1, <3>2
  <2>2. slot_size \in Nat \ {0}  BY WheelAssumption
  <2>3. \A d \in 0..(updating.i - 1) : d \in 0..(slot_size - 1)  BY <2>1, <2>2
  <2> QED BY <1>1, <2>3, AheadSlots
<1>9. \A d \in 0..(updating.i - 1) : slot'[Ahead(current, d)] = <<>>
  BY <1>7, <1>8 DEF WheelInv
<1>10. ASSUME NEW d \in 0..(slot_size - 1), NEW x \in Elems(slot'[Ahead(current, d)])
       PROVE  left'[x] = 0 \/ left'[x] + Since(now, last_update) < precision * (d + 2)
  <2>1. Ahead(current, d) \in 0..(slot_size - 1)  BY <1>1, AheadSlots
  <2>2. x \in Elems(slot[Ahead(current, d)]) /\ x \in Item
    BY <1>1, <1>3, <2>1, ElemsSeq
  <2>3. left[x] = 0 \/ left[x] + Since(now, last_update) < precision * (d + 2)
    BY <2>2 DEF WheelInv, OnTime
  <2> QED BY <1>5, <2>2, <2>3
<1>11. ASSUME NEW x \in Elems(firing) PROVE left'[x] < precision
  <2>1. x \in Item /\ left[x] < precision  BY <1>1, ElemsSeq DEF WheelInv
  <2> QED BY <1>5, <2>1, WheelAssumption
<1> QED BY <1>2, <1>3, <1>6, <1>9, <1>10, <1>11 DEF WheelInv, OnTime


\* The slot of a new timer: far enough ahead that no update of the wheel that has
\* begun reaches it, and not one precision too near.
LEMMA SlotsAhead ==
  ASSUME WheelInv, NEW timeout \in Timeouts,
         NEW t, t = IF timeout < precision THEN precision ELSE timeout
  PROVE  /\ t \in Nat /\ slots_ahead(t) \in Nat
         /\ t + Since(now, last_update) < precision * (slots_ahead(t) + 2)
         /\ updating # Idle => updating.i <= slots_ahead(t)
<1> DEFINE g == Since(now, last_update)
           v == g + (t - precision)
           x == now + ((t - last_update) - precision)
           n == slots_ahead(t)
<1>1. /\ now \in 0..(ClockWrap - 1) /\ last_update \in 0..(ClockWrap - 1)
      /\ updating \in [i : Nat, interval : Nat, now : 0..(ClockWrap - 1)]
  BY DEF WheelInv, WheelTypes
<1>2. /\ ClockWrap \in Nat \ {0} /\ precision \in Nat \ {0} /\ MaxGap \in Nat
      /\ MaxGap < ClockWrap /\ timeout \in Nat /\ MaxGap + timeout < ClockWrap
  BY WheelAssumption
<1>3. t \in Nat /\ t >= precision /\ (t = precision \/ t = timeout)  BY <1>2
<1>4. g \in Nat /\ g <= MaxGap  BY <1>1, SinceIs DEF WheelInv
<1>5. g = IF now >= last_update THEN now - last_update
          ELSE (now - last_update) + ClockWrap
  BY <1>1, SinceIs
<1> HIDE DEF g
<1>6. v \in Nat /\ v < ClockWrap /\ x \in Int /\ (x = v \/ x = v - ClockWrap)
  BY <1>1, <1>2, <1>3, <1>4, <1>5
<1>7. n = ((x % ClockWrap) \div precision)  BY DEF slots_ahead
<1> HIDE DEF x
<1>8. (x % ClockWrap) = v  BY <1>2, <1>6, ModInt
<1> DEFINE r == (v % precision)
<1>9. n \in Nat /\ r \in 0..(precision - 1) /\ v = precision * n + r
  <2>1. n = (v \div precision) /\ v \in Nat  BY <1>6, <1>7, <1>8
  <2> HIDE DEF n, v
  <2> QED BY <1>2, <2>1, Division
<1> HIDE DEF n, r
<1>10. precision * n \in Nat /\ precision * (n + 2) = precision * n + (precision + precision)
  BY <1>2, <1>9
<1>11. t + g < precision * (n + 2)  BY <1>2, <1>3, <1>4, <1>9, <1>10
<1>12. ASSUME updating # Idle PROVE updating.i <= n
  <2> DEFINE q == updating.interval
             w == Since(updating.now, last_update)
  <2>1. precision * q <= w /\ w <= g /\ updating.i <= q  BY <1>12 DEF WheelInv, g
  <2>2. q \in Nat /\ updating.i \in Nat /\ w \in Nat  BY <1>1, SinceIs
  <2> HIDE DEF q, w
  <2>3. precision * q \in Nat  BY <1>2, <2>2
  <2>4. precision * q < precision * n + precision
    BY <1>2, <1>3, <1>4, <1>9, <1>10, <2>1, <2>2, <2>3
  <2>5. q <= n  BY <1>2, <1>9, <2>2, <2>4, MultiplesApart
  <2> QED BY <1>9, <2>1, <2>2, <2>5
<1> QED BY <1>3, <1>9, <1>11, <1>12 DEF n, g

LEMMA RegisterStep ==
  ASSUME WheelInv, NEW y \in Item, NEW timeout \in Timeouts, RegisterTimer(y, timeout)
  PROVE  WheelInv'
<1> DEFINE t == IF timeout < precision THEN precision ELSE timeout
           n == slots_ahead(t)
           s == Ahead(current, n)
           u == <<y>> \o slot[s]
<1>1. /\ left \in [Item -> Nat] /\ slot \in [0..(slot_size - 1) -> Seq(Item)]
      /\ firing \in Seq(Item) /\ current \in 0..(slot_size - 1)
      /\ updating \in [i : Nat, interval : Nat, now : 0..(ClockWrap - 1)]
  BY DEF WheelInv, WheelTypes
<1>2. /\ ~Registered(y) /\ n < slot_size
      /\ slot' = [slot EXCEPT ![s] = u]
      /\ left' = [left EXCEPT ![y] = t]
      /\ now' = now /\ last_update' = last_update /\ current' = current
      /\ updating' = updating /\ firing' = firing
  BY DEF RegisterTimer, Ahead
<1>3. slot_size \in Nat \ {0} /\ precision \in Nat \ {0}  BY WheelAssumption
<1>4. /\ t \in Nat /\ n \in Nat /\ t + Since(now, last_update) < precision * (n + 2)
      /\ updating # Idle => updating.i <= n
  <2> HIDE DEF t
  <2> QED BY SlotsAhead DEF t
<1> HIDE DEF t, n
<1>5. n \in 0..(slot_size - 1)  BY <1>2, <1>3, <1>4
<1>6. s \in 0..(slot_size - 1)  BY <1>1, <1>5, AheadSlots
<1>7. /\ y \notin Elems(firing)
      /\ \A k \in 0..(slot_size - 1) : y \notin Elems(slot[k])
  <2>1. ToSet(firing) = Elems(firing)  BY <1>1, ElemsSeq
  <2>2. \A k \in 0..(slot_size - 1) : ToSet(slot[k]) = Elems(slot[k])  BY <1>1, ElemsSeq
  <2>3. DOMAIN slot = 0..(slot_size - 1)  BY <1>1
  <2> QED BY <1>2, <2>1, <2>2, <2>3 DEF Registered, Chained
<1>8. u \in Seq(Item) /\ NoRepeat(u) /\ Elems(u) = Elems(slot[s]) \cup {y}
  <2> DEFINE o == <<y>>
             q == slot[s]
  <2>1. o \in Seq(Item) /\ NoRepeat(o) /\ Elems(o) = {y}
    <3>1. o \in Seq(Item) /\ Len(o) = 1 /\ o[1] = y  OBVIOUS
    <3>2. 1..1 = {1}  OBVIOUS
    <3> QED BY <3>1, <3>2 DEF NoRepeat, Elems
  <2>2. q \in Seq(Item) /\ NoRepeat(q) /\ y \notin Elems(q)  BY <1>1, <1>6, <1>7 DEF WheelInv
  <2>3. u = o \o q  OBVIOUS
  <2> HIDE DEF o, q, u
  <2>4. Elems(o) \cap Elems(q) = {}  BY <2>1, <2>2
  <2>5. o \o q \in Seq(Item) /\ NoRepeat(o \o q) /\ Elems(o \o q) = Elems(o) \cup Elems(q)
    BY <2>1, <2>2, <2>4, ElemsCat
  <2> QED BY <2>1, <2>3, <2>5 DEF q
<1> HIDE DEF u
<1>9. /\ slot' \in [0..(slot_size - 1) -> Seq(Item)] /\ slot'[s] = u
      /\ \A k \in 0..(slot_size - 1) : k # s => slot'[k] = slot[k]
  BY <1>1, <1>2, <1>6, <1>8
<1>10. /\ left' \in [Item -> Nat] /\ left'[y] = t
       /\ \A x \in Item : x # y => left'[x] = left[x]
  BY <1>1, <1>2, <1>4
<1>11. WheelTypes'  BY <1>2, <1>9, <1>10 DEF WheelInv, WheelTypes
<1> HIDE DEF s
<1>12. \A k \in 0..(slot_size - 1) : NoRepeat(slot'[k])  BY <1>8, <1>9 DEF WheelInv
<1>13. ASSUME NEW d \in 0..(updating.i - 1) PROVE slot'[Ahead(current, d)] = <<>>
  <2>1. updating # Idle  BY <1>1, <1>13 DEF Idle
  <2>2. updating.i <= n /\ updating.i \in Nat  BY <1>1, <1>4, <2>1
  <2>3. d \in 0..(slot_size - 1) /\ d # n  BY <1>3, <1>5, <2>2
  <2>4. Ahead(current, d) \in 0..(slot_size - 1) /\ Ahead(current, d) # s
    BY <1>1, <1>5, <2>3, AheadSlots DEF s
  <2> QED BY <1>9, <2>4 DEF WheelInv
<1>14. ASSUME NEW d \in 0..(slot_size - 1), NEW x \in Elems(slot'[Ahead(current, d)])
       PROVE  left'[x] = 0 \/ left'[x] + Since(now, last_update) < precision * (d + 2)
  <2>1. Ahead(current, d) \in 0..(slot_size - 1)  BY <1>1, AheadSlots
  <2>2. CASE x = y
    <3>1. Ahead(current, d) = s  BY <1>7, <1>9, <1>14, <2>1, <2>2
    <3>2. d = n  BY <1>1, <1>5, <3>1, AheadSlots DEF s
    <3> QED BY <1>4, <1>10, <2>2, <3>2
  <2>3. CASE x # y
    <3>1. x \in Elems(slot[Ahead(current, d)])  BY <1>8, <1>9, <1>14, <2>1, <2>3
    <3>2. x \in Item  BY <1>1, <2>1, <3>1, ElemsSeq
    <3> QED BY <1>10, <2>3, <3>1, <3>2 DEF WheelInv, OnTime
  <2> QED BY <2>2, <2>3
<1>15. ASSUME NEW x \in Elems(firing) PROVE left'[x] < precision
  <2>1. x \in Item /\ left[x] < precision /\ x # y  BY <1>1, <1>7, ElemsSeq DEF WheelInv
  <2> QED BY <1>10, <2>1
<1> QED BY <1>2, <1>11, <1>12, <1>13, <1>14, <1>15 DEF WheelInv, OnTime


LEMMA UpdateStep ==
  ASSUME WheelInv, UpdateWheel
  PROVE  WheelInv'
<1> DEFINE g == Since(now, last_update)
           q == (g \div precision)
<1>1. now \in 0..(ClockWrap - 1) /\ last_update \in 0..(ClockWrap - 1)
  BY DEF WheelInv, WheelTypes
<1>2. /\ updating' = [i |-> 0, interval |-> q, now |-> now]
      /\ now' = now /\ last_update' = last_update /\ current' = current
      /\ slot' = slot /\ firing' = firing /\ left' = left
  BY GapSince DEF UpdateWheel
<1>3. precision \in Nat \ {0} /\ slot_size \in Nat \ {0}  BY WheelAssumption
<1>4. g \in Nat  BY <1>1, SinceIs
<1> HIDE DEF g
<1>5. q \in Nat /\ precision * q <= g
  <2> DEFINE r == (g % precision)
  <2>1. q \in Nat /\ r \in 0..(precision - 1) /\ g = precision * q + r
    BY <1>3, <1>4, Division
  <2> HIDE DEF q, r
  <2>2. precision * q \in Nat  BY <1>3, <2>1
  <2> QED BY <2>1, <2>2
<1> HIDE DEF q
<1>6. /\ updating'.i = 0 /\ updating'.interval = q /\ updating'.now = now  BY <1>2
<1>7. WheelTypes'
  <2>1. updating' \in [i : Nat, interval : Nat, now : 0..(ClockWrap - 1)]
    BY <1>1, <1>2, <1>5
  <2> QED BY <1>2, <2>1 DEF WheelInv, WheelTypes
<1>8. /\ precision * updating'.interval <= Since(updating'.now, last_update)
      /\ Since(updating'.now, last_update) <= Since(now, last_update)
      /\ updating'.i <= updating'.interval /\ updating'.i <= slot_size
  BY <1>3, <1>4, <1>5, <1>6 DEF g
<1>9. \A d \in 0..(updating'.i - 1) : FALSE  BY <1>6
<1> QED BY <1>2, <1>7, <1>8, <1>9 DEF WheelInv, OnTime

LEMMA ActiveStep ==
  ASSUME WheelInv, Active
  PROVE  WheelInv'
<1> DEFINE g == Since(now, last_update)
           i == updating.i
           q == updating.interval
           s == Ahead(current, i)
<1>1. /\ now \in 0..(ClockWrap - 1) /\ last_update \in 0..(ClockWrap - 1)
      /\ left \in [Item -> Nat] /\ slot \in [0..(slot_size - 1) -> Seq(Item)]
      /\ current \in 0..(slot_size - 1)
      /\ updating \in [i : Nat, interval : Nat, now : 0..(ClockWrap - 1)]
  BY DEF WheelInv, WheelTypes
<1>2. /\ updating # Idle /\ i < q /\ i < slot_size
      /\ firing' = slot[s] /\ slot' = [slot EXCEPT ![s] = <<>>]
      /\ updating' = [updating EXCEPT !.i = @ + 1]
      /\ now' = now /\ last_update' = last_update /\ current' = current /\ left' = left
  BY DEF Active, More, Ahead
<1>3. precision \in Nat \ {0} /\ slot_size \in Nat \ {0}  BY WheelAssumption
<1>4. i \in Nat /\ q \in Nat /\ updating.now \in 0..(ClockWrap - 1) /\ g \in Nat
      /\ Since(updating.now, last_update) \in Nat
  BY <1>1, SinceIs
<1>5. /\ updating'.i = i + 1 /\ updating'.interval = q /\ updating'.now = updating.now
      /\ updating' \in [i : Nat, interval : Nat, now : 0..(ClockWrap - 1)]
  <2>1. updating' = [i |-> i + 1, interval |-> q, now |-> updating.now]  BY <1>1, <1>2
  <2> HIDE DEF i, q
  <2> QED BY <1>4, <2>1
<1>6. i \in 0..(slot_size - 1) /\ s \in 0..(slot_size - 1)
  <2>1. i \in 0..(slot_size - 1)  BY <1>2, <1>3, <1>4
  <2> QED BY <1>1, <2>1, AheadSlots
<1>7. /\ precision * q <= Since(updating.now, last_update)
      /\ Since(updating.now, last_update) <= g
  BY <1>2 DEF WheelInv
<1> HIDE DEF g, i, q
<1>8. precision * (i + 1) <= g
  <2> DEFINE e == q - (i + 1)
  <2>1. e \in Nat /\ q = (i + 1) + e  BY <1>2, <1>4
  <2> HIDE DEF e
  <2>2. precision * q = precision * (i + 1) + precision * e  BY <1>3, <1>4, <2>1
  <2>3. precision * e \in Nat /\ precision * (i + 1) \in Nat  BY <1>3, <1>4, <2>1
  <2>4. precision * q <= g  BY <1>3, <1>4, <1>7
  <2> QED BY <1>4, <2>2, <2>3, <2>4
<1>9. ASSUME NEW x \in Elems(slot[s]) PROVE left[x] < precision
  <2>1. left[x] = 0 \/ left[x] + g < precision * (i + 2)
    BY <1>6 DEF WheelInv, OnTime, g
  <2>2. x \in Item  BY <1>1, <1>6, ElemsSeq
  <2>3. left[x] \in Nat  BY <1>1, <2>2
  <2>4. precision * (i + 2) = precision * (i + 1) + precision /\ precision * (i + 1) \in Nat
    BY <1>3, <1>4
  <2> QED BY <1>3, <1>4, <1>8, <2>1, <2>3, <2>4
<1> HIDE DEF s
<1>10. <<>> \in Seq(Item) /\ NoRepeat(<<>>) /\ Elems(<<>>) = {}  BY DEF NoRepeat, Elems
<1>11. /\ slot' \in [0..(slot_size - 1) -> Seq(Item)] /\ slot'[s] = <<>>
       /\ \A k \in 0..(slot_size - 1) : k # s => slot'[k] = slot[k]
  BY <1>1, <1>2, <1>6, <1>10
<1>12. WheelTypes'
  <2>1. slot[s] \in Seq(Item)  BY <1>1, <1>6
  <2> QED BY <1>1, <1>2, <1>5, <1>11, <2>1 DEF WheelTypes
<1>13. \A k \in 0..(slot_size - 1) : NoRepeat(slot'[k])  BY <1>10, <1>11 DEF WheelInv
<1>14. updating'.i <= updating'.interval /\ updating'.i <= slot_size
  BY <1>2, <1>3, <1>4, <1>5
<1>15. ASSUME NEW d \in 0..(updating'.i - 1) PROVE slot'[Ahead(current, d)] = <<>>
  <2>1. d \in 0..i  BY <1>4, <1>5
  <2>2. CASE d = i  BY <1>11, <2>2 DEF s
  <2>3. CASE d # i
    <3>1. d \in 0..(i - 1) /\ d \in 0..(slot_size - 1)  BY <1>3, <1>4, <1>6, <2>1, <2>3
    <3>2. Ahead(current, d) \in 0..(slot_size - 1)  BY <1>1, <3>1, AheadSlots
    <3>3. slot[Ahead(current, d)] = <<>>  BY <3>1 DEF WheelInv, i
    <3> QED BY <1>11, <3>2, <3>3
  <2> QED BY <2>2, <2>3
<1>16. ASSUME NEW d \in 0..(slot_size - 1), NEW x \in Elems(slot'[Ahead(current, d)])
       PROVE  OnTime(x, d)
  <2>1. Ahead(current, d) \in 0..(slot_size - 1)  BY <1>1, AheadSlots
  <2>2. x \in Elems(slot[Ahead(current, d)])  BY <1>10, <1>11, <1>16, <2>1
  <2> QED BY <2>2 DEF WheelInv
<1>17. precision * updating'.interval <= Since(updating'.now, last_update)
       /\ Since(updating'.now, last_update) <= Since(now, last_update)
  BY <1>5, <1>7 DEF g
<1> QED BY <1>2, <1>9, <1>12, <1>13, <1>14, <1>15, <1>16, <1>17 DEF WheelInv, OnTime

LEMMA CallbackStep ==
  ASSUME WheelInv, Callback
  PROVE  WheelInv'
<1>1. /\ firing # <<>> /\ firing' = Tail(firing)
      /\ now' = now /\ last_update' = last_update /\ current' = current
      /\ slot' = slot /\ updating' = updating /\ left' = left
  BY DEF Callback
<1>2. firing \in Seq(Item)  BY DEF WheelInv, WheelTypes
<1>3. firing' \in Seq(Item) /\ Elems(firing') \subseteq Elems(firing)
  <2>1. /\ Tail(firing) \in Seq(Item) /\ Len(Tail(firing)) = Len(firing) - 1
        /\ \A k \in 1..(Len(firing) - 1) : Tail(firing)[k] = firing[k + 1]
    BY <1>1, <1>2
  <2>2. \A k \in 1..(Len(firing) - 1) : k + 1 \in 1..Len(firing)  BY <1>2
  <2> QED BY <1>1, <2>1, <2>2 DEF Elems
<1>4. WheelTypes'  BY <1>1, <1>3 DEF WheelInv, WheelTypes
<1> QED BY <1>1, <1>3, <1>4 DEF WheelInv, OnTime

LEMMA UpdateEndStep ==
  ASSUME WheelInv, UpdateEnd
  PROVE  WheelInv'
<1> DEFINE g == Since(now, last_update)
           w == Since(updating.now, last_update)
           g2 == Since(now, updating.now)
           i == updating.i
           q == updating.interval
           c == Ahead(current, i)
<1>1. /\ now \in 0..(ClockWrap - 1) /\ last_update \in 0..(ClockWrap - 1)
      /\ left \in [Item -> Nat] /\ slot \in [0..(slot_size - 1) -> Seq(Item)]
      /\ current \in 0..(slot_size - 1)
      /\ updating \in [i : Nat, interval : Nat, now : 0..(ClockWrap - 1)]
  BY DEF WheelInv, WheelTypes
<1>2. /\ updating # Idle /\ ~(i < q /\ i < slot_size)
      /\ current' = c /\ last_update' = updating.now /\ updating' = Idle
      /\ now' = now /\ slot' = slot /\ firing' = firing /\ left' = left
  BY DEF UpdateEnd, More, Ahead
<1>3. /\ precision \in Nat \ {0} /\ slot_size \in Nat \ {0} /\ ClockWrap \in Nat \ {0}
      /\ MaxGap \in Nat
  BY WheelAssumption
<1>4. i \in Nat /\ q \in Nat /\ updating.now \in 0..(ClockWrap - 1) /\ g \in Nat /\ w \in Nat
      /\ g2 \in Nat
  BY <1>1, SinceIs
<1>5. /\ precision * q <= w /\ w <= g /\ i <= q /\ i <= slot_size /\ g <= MaxGap
  BY <1>2 DEF WheelInv
<1>6. g2 = g - w  BY <1>1, <1>4, <1>5, SinceSplit
<1>7. i \in 0..slot_size  BY <1>3, <1>4, <1>5
<1>8. c \in 0..(slot_size - 1)
  <2>1. 0 \in 0..(slot_size - 1)  BY <1>3
  <2> QED BY <1>1, <1>7, <2>1, AheadTwice
<1>9. \A d \in 0..(i - 1) : slot[Ahead(current, d)] = <<>>  BY DEF WheelInv
<1>10. \A d \in 0..(slot_size - 1) : \A x \in Elems(slot[Ahead(current, d)]) :
         left[x] = 0 \/ left[x] + g < precision * (d + 2)
  BY DEF WheelInv, OnTime
<1>11. updating' \in [i : Nat, interval : Nat, now : 0..(ClockWrap - 1)] /\ updating'.i = 0
  BY <1>2, <1>3 DEF Idle
<1>12. WheelTypes'  BY <1>2, <1>4, <1>8, <1>11 DEF WheelInv, WheelTypes
<1>13. g2 <= MaxGap  BY <1>3, <1>4, <1>5, <1>6
<1> HIDE DEF g, g2, w, i, q
<1>14. ASSUME NEW d \in 0..(slot_size - 1), NEW x \in Elems(slot[Ahead(c, d)])
       PROVE  left[x] = 0 \/ left[x] + g2 < precision * (d + 2)
  <2>1. x \in Item
    <3>1. slot[Ahead(c, d)] \in Seq(Item)  BY <1>1, <1>8, AheadSlots
    <3> QED BY <3>1, ElemsSeq
  <2>2. left[x] \in Nat  BY <1>1, <2>1
  <2>3. CASE i + d < slot_size
    <3>1. Ahead(c, d) = Ahead(current, i + d)  BY <1>1, <1>7, <2>3, AheadTwice
    <3>2. i + d \in 0..(slot_size - 1) /\ i < slot_size  BY <1>3, <1>4, <2>3
    <3>3. i = q  BY <1>2, <1>4, <1>5, <3>2
    <3> DEFINE e == i + d
    <3>4. e \in 0..(slot_size - 1) /\ x \in Elems(slot[Ahead(current, e)])
      BY <1>14, <3>1, <3>2
    <3> HIDE DEF e
    <3>5. left[x] = 0 \/ left[x] + g < precision * (e + 2)  BY <1>10, <3>4
    <3>6. precision * (e + 2) = precision * i + precision * (d + 2)
      BY <1>3, <1>4 DEF e
    <3>7. precision * i \in Nat /\ precision * (d + 2) \in Nat  BY <1>3, <1>4
    <3>8. precision * i <= w  BY <1>5, <3>3
    <3> QED BY <1>4, <1>6, <2>2, <3>5, <3>6, <3>7, <3>8
  <2>4. CASE ~(i + d < slot_size)
    <3> DEFINE e == (i + d) - slot_size
    <3>1. e \in 0..(i - 1) /\ Ahead(c, d) = Ahead(current, e)
      BY <1>1, <1>7, <2>4, AheadTwice
    <3>2. slot[Ahead(c, d)] = <<>>  BY <1>9, <3>1
    <3>3. Elems(<<>>) = {}  BY DEF Elems
    <3> QED BY <1>14, <3>2, <3>3
  <2> QED BY <2>3, <2>4
<1>15. \A d \in 0..(updating'.i - 1) : FALSE  BY <1>11
<1> HIDE DEF c
<1> QED BY <1>2, <1>12, <1>13, <1>14, <1>15 DEF WheelInv, OnTime, g2

LEMMA WheelStep == WheelInv /\ [WheelNext]_wvars => WheelInv'
<1> SUFFICES ASSUME WheelInv, [WheelNext]_wvars PROVE WheelInv'  OBVIOUS
<1>1. CASE UNCHANGED wvars  BY <1>1 DEF WheelInv, WheelTypes, OnTime, wvars
<1>2. CASE WheelNext
  BY <1>2, TickStep, UnRegisterStep, RegisterStep, UpdateStep, ActiveStep, CallbackStep,
     UpdateEndStep DEF WheelNext
<1> QED BY <1>1, <1>2

\* For any precision, wheel size and timeouts that fit into the clock, no timer
\* fires a whole precision early: not when its slot is counted from an old update,
\* not when a callback registers it in the middle of one, and not across the wrap.
THEOREM NeverEarly == WheelSpec => NotEarly
<1>1. ASSUME WheelInv, [WheelNext]_wvars
      PROVE  [\A x \in Item : x \in ToSet(firing) /\ x \notin ToSet(firing')
                                => left[x] < precision]_wvars
  <2>1. ToSet(firing) = Elems(firing)
    <3>1. firing \in Seq(Item)  BY <1>1 DEF WheelInv, WheelTypes
    <3> QED BY <3>1, ElemsSeq
  <2>2. \A x \in ToSet(firing) : left[x] < precision  BY <1>1, <2>1 DEF WheelInv
  <2> QED BY <2>2
<1> QED BY <1>1, WheelStart, WheelStep, PTL DEF WheelSpec, NotEarly

-----------------------------------------------------------------------------
(* block_obj_allocator.c.  Whoever has the lists, the blocks are counted:  *)
(* those in the lists and those in use are the blocks of the lists made,   *)
(* and free_size of a thread that has not raced is the blocks of its lists,*)
(* with the list that it has given back and not subtracted yet.  Such a    *)
(* thread that has started keeps a list, so that a block can come back.    *)

-----------------------------------------------------------------------------
(* How many blocks a set of lists has.                                     *)

SizeOf(F, sizes) == [f \in FreeList |-> IF f \in F THEN sizes[f] ELSE 0]

LEMMA SizeOfType ==
  ASSUME NEW F, NEW sizes \in [FreeList -> Nat]
  PROVE  /\ MaxLists \in Nat /\ FreeList = 1..MaxLists
         /\ SizeOf(F, sizes) \in [1..MaxLists -> Nat]
         /\ Blocks(F, sizes) = Total(SizeOf(F, sizes), MaxLists)
         /\ Blocks(F, sizes) \in Nat
         /\ \A f \in FreeList : SizeOf(F, sizes)[f] = IF f \in F THEN sizes[f] ELSE 0
<1>1. MaxLists \in Nat /\ FreeList = 1..MaxLists  BY PoolAssumption DEF FreeList
<1>2. SizeOf(F, sizes) \in [1..MaxLists -> Nat]  BY <1>1 DEF SizeOf
<1>3. Blocks(F, sizes) = Total(SizeOf(F, sizes), MaxLists)  BY DEF Blocks, SizeOf
<1>4. \A f \in FreeList : SizeOf(F, sizes)[f] = IF f \in F THEN sizes[f] ELSE 0
  BY DEF SizeOf
<1> QED BY <1>1, <1>2, <1>3, <1>4, TotalNat

LEMMA BlocksSame ==
  ASSUME NEW F, NEW sizes, NEW sizes2, \A f \in FreeList \cap F : sizes2[f] = sizes[f]
  PROVE  Blocks(F, sizes2) = Blocks(F, sizes)
<1>1. [f \in FreeList |-> IF f \in F THEN sizes2[f] ELSE 0]
      = [f \in FreeList |-> IF f \in F THEN sizes[f] ELSE 0]
  OBVIOUS
<1> QED BY <1>1 DEF Blocks

LEMMA BlocksLess ==
  ASSUME NEW F, NEW sizes \in [FreeList -> Nat]
  PROVE  Blocks(F, sizes) <= Blocks(FreeList, sizes)
<1> DEFINE v == SizeOf(F, sizes)
           w == SizeOf(FreeList, sizes)
<1>1. /\ MaxLists \in Nat /\ v \in [1..MaxLists -> Nat] /\ w \in [1..MaxLists -> Nat]
      /\ Blocks(F, sizes) = Total(v, MaxLists) /\ Blocks(FreeList, sizes) = Total(w, MaxLists)
  BY SizeOfType
<1>2. \A f \in 1..MaxLists : v[f] <= w[f]
  <2>1. FreeList = 1..MaxLists  BY SizeOfType
  <2>2. \A f \in FreeList : v[f] = (IF f \in F THEN sizes[f] ELSE 0) /\ w[f] = sizes[f]
    BY SizeOfType
  <2>3. \A f \in FreeList : sizes[f] \in Nat  OBVIOUS
  <2> QED BY <2>1, <2>2, <2>3
<1> HIDE DEF v, w
<1> QED BY <1>1, <1>2, TotalLess

LEMMA BlocksZero ==
  ASSUME NEW F, NEW sizes \in [FreeList -> Nat], \A f \in FreeList \cap F : sizes[f] = 0
  PROVE  Blocks(F, sizes) = 0
<1> DEFINE v == SizeOf(F, sizes)
<1>1. /\ MaxLists \in Nat /\ FreeList = 1..MaxLists /\ v \in [1..MaxLists -> Nat]
      /\ Blocks(F, sizes) = Total(v, MaxLists)
      /\ \A f \in FreeList : v[f] = IF f \in F THEN sizes[f] ELSE 0
  BY SizeOfType
<1>2. \A f \in 1..MaxLists : v[f] = 0  BY <1>1
<1> HIDE DEF v
<1> QED BY <1>1, <1>2, TotalZero

\* Only list f comes, goes or changes its size.
SameBut(f, F, F2, sizes, sizes2) ==
  \A g \in FreeList \ {f} : (g \in F <=> g \in F2) /\ sizes2[g] = sizes[g]

LEMMA BlocksChange ==
  ASSUME NEW F, NEW F2, NEW sizes \in [FreeList -> Nat], NEW sizes2 \in [FreeList -> Nat],
         NEW f \in FreeList, SameBut(f, F, F2, sizes, sizes2)
  PROVE  Blocks(F2, sizes2) + (IF f \in F THEN sizes[f] ELSE 0)
           = Blocks(F, sizes) + (IF f \in F2 THEN sizes2[f] ELSE 0)
<1> DEFINE v == SizeOf(F, sizes)
           w == SizeOf(F2, sizes2)
<1>1. /\ MaxLists \in Nat /\ FreeList = 1..MaxLists
      /\ v \in [1..MaxLists -> Nat] /\ w \in [1..MaxLists -> Nat]
      /\ Blocks(F, sizes) = Total(v, MaxLists) /\ Blocks(F2, sizes2) = Total(w, MaxLists)
      /\ \A g \in FreeList : v[g] = IF g \in F THEN sizes[g] ELSE 0
      /\ \A g \in FreeList : w[g] = IF g \in F2 THEN sizes2[g] ELSE 0
  BY SizeOfType
<1>2. \A g \in 1..MaxLists : g # f => v[g] = w[g]  BY <1>1 DEF SameBut
<1>3. f \in 1..MaxLists  BY <1>1
<1>4. v[f] = (IF f \in F THEN sizes[f] ELSE 0) /\ w[f] = (IF f \in F2 THEN sizes2[f] ELSE 0)
  BY <1>1
<1>6. MaxLists \in Nat /\ v \in [1..MaxLists -> Nat] /\ w \in [1..MaxLists -> Nat]  BY <1>1
<1>7. \A g \in 1..MaxLists : g # f => v[g] = w[g]  BY <1>2
<1> HIDE DEF v, w
<1>5. Total(w, MaxLists) + v[f] = Total(v, MaxLists) + w[f]  BY <1>3, <1>6, <1>7, TotalChange
<1> QED BY <1>1, <1>4, <1>5

-----------------------------------------------------------------------------
(* The invariant.                                                          *)

Own(t) == Elems(free_list[t]) \cup Elems(recover[t])

PoolTypes ==
  /\ central \in Seq(FreeList) /\ size \in [FreeList -> Nat] /\ made \in 0..MaxLists
  /\ free_list \in [AThread -> Seq(FreeList)] /\ recover \in [AThread -> Seq(FreeList)]
  /\ free_size \in [AThread -> Nat] /\ giving \in [AThread -> 0..MaxLists]
  /\ out \in Nat

\* The lists of one thread.
Apart(fl, rec) ==
  NoRepeat(fl) /\ NoRepeat(rec) /\ Elems(fl) \cap Elems(rec) = {}

Shape(fl, rec, sizes) ==
  /\ \A k \in 1..Len(rec) : sizes[rec[k]] \in IF k = 1 THEN 0..(init_size - 1) ELSE {0}
  /\ \A f \in Elems(fl) : sizes[f] > 0

Places ==
  /\ NoRepeat(central)
  /\ \A t \in AThread : Apart(free_list[t], recover[t]) /\ Own(t) \cap Elems(central) = {}
  /\ \A t, u \in AThread : t # u => Own(t) \cap Own(u) = {}
  /\ \A f \in FreeList :
       f <= made <=> (f \in Elems(central) \/ \E t \in AThread : f \in Own(t))

Sizes ==
  /\ \A f \in Elems(central) : size[f] = init_size
  /\ \A t \in AThread : Shape(free_list[t], recover[t], size)
  /\ \A f \in FreeList : f > made => size[f] = 0

Given(t) == IF giving[t] = 0 THEN 0 ELSE init_size

\* No block is lost; who has not raced counts right, and keeps a list.
Counts ==
  /\ Blocks(FreeList, size) + out = init_size * made
  /\ \A t \in AThread \ raced : /\ free_size[t] = Blocks(Own(t), size) + Given(t)
                                /\ t \in started => Own(t) # {}
  /\ crashed => raced # {}

PoolInv == PoolTypes /\ Places /\ Sizes /\ Counts


LEMMA PoolStart == PoolInit => PoolInv
<1> SUFFICES ASSUME PoolInit PROVE PoolInv  OBVIOUS
<1>1. /\ central = <<>> /\ size = [f \in FreeList |-> 0] /\ made = 0 /\ out = 0 /\ ~crashed
      /\ started = {}
      /\ \A t \in AThread : /\ free_list[t] = <<>> /\ recover[t] = <<>>
                            /\ free_size[t] = 0 /\ giving[t] = 0
  BY DEF PoolInit
<1>2. MaxLists \in Nat /\ FreeList = 1..MaxLists /\ init_size \in Nat  BY PoolAssumption DEF FreeList
<1>3. PoolTypes  BY <1>1, <1>2 DEF PoolTypes, PoolInit
<1>4. Elems(<<>>) = {} /\ NoRepeat(<<>>) /\ Len(<<>>) = 0  BY DEF Elems, NoRepeat
<1>5. \A t \in AThread : Own(t) = {}  BY <1>1, <1>4 DEF Own
<1>6. Places  BY <1>1, <1>2, <1>4, <1>5 DEF Places, Apart
<1>7. Sizes  BY <1>1, <1>2, <1>4 DEF Sizes, Shape
<1>8. \A F : Blocks(F, size) = 0
  <2> TAKE F
  <2>1. size \in [FreeList -> Nat] /\ \A f \in FreeList \cap F : size[f] = 0  BY <1>1
  <2> QED BY <2>1, BlocksZero
<1>9. init_size * made = 0  BY <1>1, <1>2
<1>10. Counts  BY <1>1, <1>8, <1>9 DEF Counts, Given
<1> QED BY <1>3, <1>6, <1>7, <1>10 DEF PoolInv

\* No count exceeds the blocks there are.
LEMMA BlocksBound ==
  ASSUME NEW sizes \in [FreeList -> Nat], NEW m \in 0..MaxLists, NEW o \in Nat,
         Blocks(FreeList, sizes) + o = init_size * m, NEW F
  PROVE  Blocks(F, sizes) \in Nat /\ Blocks(F, sizes) + init_size < SizeWrap
<1>2. Blocks(F, sizes) \in Nat /\ Blocks(FreeList, sizes) \in Nat /\ MaxLists \in Nat
  BY SizeOfType
<1>3. Blocks(F, sizes) <= Blocks(FreeList, sizes)  BY BlocksLess
<1>5. init_size \in Nat /\ init_size * MaxLists + init_size < SizeWrap /\ SizeWrap \in Nat
  BY PoolAssumption
<1>6. init_size * m <= init_size * MaxLists
  <2>1. PICK k \in Nat : MaxLists = m + k
    <3>1. MaxLists - m \in Nat /\ MaxLists = m + (MaxLists - m)  BY <1>2
    <3> QED BY <3>1
  <2>2. init_size * MaxLists = init_size * m + init_size * k  BY <1>5, <2>1
  <2>3. init_size * m \in Nat /\ init_size * k \in Nat  BY <1>5, <2>1
  <2> QED BY <2>2, <2>3
<1> DEFINE a == init_size * m
           b == init_size * MaxLists
<1>7. a \in Nat /\ b \in Nat  BY <1>2, <1>5
<1> HIDE DEF a, b
<1>8. a <= b /\ b + init_size < SizeWrap /\ Blocks(FreeList, sizes) + o = a
  BY <1>5, <1>6 DEF a, b
<1> QED BY <1>2, <1>3, <1>5, <1>7, <1>8

LEMMA BlocksNat ==
  ASSUME PoolTypes, Counts, NEW F
  PROVE  Blocks(F, size) \in Nat /\ Blocks(F, size) + init_size < SizeWrap
<1>1. size \in [FreeList -> Nat] /\ out \in Nat /\ made \in 0..MaxLists  BY DEF PoolTypes
<1>2. Blocks(FreeList, size) + out = init_size * made  BY DEF Counts
<1> QED BY <1>1, <1>2, BlocksBound

LEMMA ListsOwn ==
  ASSUME PoolTypes, Places, NEW t \in AThread
  PROVE  /\ Lists(t) \in Seq(FreeList) /\ NoRepeat(Lists(t)) /\ Elems(Lists(t)) = Own(t)
         /\ ToSet(Lists(t)) = Own(t) /\ Own(t) \subseteq FreeList
<1>1. free_list[t] \in Seq(FreeList) /\ recover[t] \in Seq(FreeList)  BY DEF PoolTypes
<1>2. /\ NoRepeat(free_list[t]) /\ NoRepeat(recover[t])
      /\ Elems(free_list[t]) \cap Elems(recover[t]) = {}
  BY DEF Places, Apart
<1>3. Lists(t) \in Seq(FreeList) /\ NoRepeat(Lists(t)) /\ Elems(Lists(t)) = Own(t)
  BY <1>1, <1>2, ElemsCat DEF Lists, Own
<1>4. ToSet(Lists(t)) = Elems(Lists(t)) /\ Elems(Lists(t)) \subseteq FreeList  BY <1>3, ElemsSeq
<1> QED BY <1>3, <1>4

\* The invariant gives the property.
LEMMA PoolSoundFromInv == PoolInv => PoolSound
<1> SUFFICES ASSUME PoolInv PROVE PoolSound  OBVIOUS
<1>0. PoolTypes /\ Places /\ Sizes /\ Counts  BY DEF PoolInv
<1>1. \A t \in AThread : /\ Lists(t) \in Seq(FreeList) /\ NoRepeat(Lists(t))
                         /\ Elems(Lists(t)) = Own(t) /\ ToSet(Lists(t)) = Own(t)
  BY <1>0, ListsOwn
<1>2. central \in Seq(FreeList) /\ NoRepeat(central)  BY <1>0 DEF PoolTypes, Places
<1>3. ToSet(central) = Elems(central) /\ Elems(central) \subseteq FreeList  BY <1>2, ElemsSeq
<1>4. OneOwner
  <2>1. ASSUME NEW t \in AThread, NEW u \in AThread,
               NEW i \in DOMAIN Lists(t), NEW j \in DOMAIN Lists(u), Lists(t)[i] = Lists(u)[j]
        PROVE  t = u /\ i = j
    <3>1. i \in 1..Len(Lists(t)) /\ j \in 1..Len(Lists(u))  BY <1>1
    <3>2. Lists(t)[i] \in Elems(Lists(t)) /\ Lists(u)[j] \in Elems(Lists(u))  BY <3>1 DEF Elems
    <3>3. Lists(t)[i] \in Own(t) /\ Lists(t)[i] \in Own(u)  BY <1>1, <2>1, <3>2
    <3>4. t = u  BY <1>0, <3>3 DEF Places
    <3> QED BY <1>1, <2>1, <3>1, <3>4 DEF NoRepeat
  <2>2. \A i, j \in DOMAIN central : central[i] = central[j] => i = j  BY <1>2 DEF NoRepeat
  <2>3. \A t \in AThread : ToSet(Lists(t)) \cap ToSet(central) = {}  BY <1>0, <1>1, <1>3 DEF Places
  <2>4. ToSet(central) \cup UNION {ToSet(Lists(t)) : t \in AThread} = 1 .. made
    <3> DEFINE U == ToSet(central) \cup UNION {ToSet(Lists(t)) : t \in AThread}
    <3>1. \A f : f \in U <=> (f \in Elems(central) \/ \E t \in AThread : f \in Own(t))
      BY <1>1, <1>3
    <3>2. \A t \in AThread : Own(t) \subseteq FreeList  BY <1>0, ListsOwn
    <3>3. made \in Nat /\ made <= MaxLists /\ FreeList = 1..MaxLists /\ MaxLists \in Nat
      BY <1>0, PoolAssumption DEF PoolTypes, FreeList
    <3>4. \A f \in FreeList : f <= made <=> f \in U  BY <1>0, <3>1 DEF Places
    <3>5. U \subseteq FreeList  BY <1>3, <3>1, <3>2
    <3> HIDE DEF U
    <3>6. ASSUME NEW f \in U PROVE f \in 1..made  BY <3>3, <3>4, <3>5
    <3>7. ASSUME NEW f \in 1..made PROVE f \in U
      <4>1. f \in FreeList /\ f <= made  BY <3>3
      <4> QED BY <3>4, <4>1
    <3>8. U = 1..made  BY <3>6, <3>7
    <3> QED BY <3>8 DEF U
  <2> QED BY <2>1, <2>2, <2>3, <2>4 DEF OneOwner
<1>5. RecoverShape
  <2> SUFFICES ASSUME NEW t \in AThread
               PROVE  /\ \A k \in DOMAIN recover[t] :
                           size[recover[t][k]] \in IF k = 1 THEN 0 .. init_size - 1 ELSE {0}
                      /\ \A k \in DOMAIN free_list[t] : size[free_list[t][k]] > 0
    BY DEF RecoverShape
  <2>1. free_list[t] \in Seq(FreeList) /\ recover[t] \in Seq(FreeList)  BY <1>0 DEF PoolTypes
  <2>2. DOMAIN recover[t] = 1..Len(recover[t]) /\ DOMAIN free_list[t] = 1..Len(free_list[t])
    BY <2>1
  <2>3. Shape(free_list[t], recover[t], size)  BY <1>0 DEF Sizes
  <2>4. \A k \in 1..Len(free_list[t]) : free_list[t][k] \in Elems(free_list[t])  BY DEF Elems
  <2> QED BY <2>2, <2>3, <2>4 DEF Shape
<1>6. FreeSizeExact
  <2>1. ASSUME NEW t \in AThread \ raced, giving[t] = 0 PROVE free_size[t] = Held(t)
    <3>1. free_size[t] = Blocks(Own(t), size) + 0  BY <1>0, <2>1 DEF Counts, Given
    <3>2. Blocks(Own(t), size) \in Nat  BY <1>0, BlocksNat
    <3>3. Held(t) = Blocks(Own(t), size)  BY <1>1 DEF Held
    <3> QED BY <3>1, <3>2, <3>3
  <2> QED BY <1>0, <2>1 DEF FreeSizeExact, Counts
<1> QED BY <1>4, <1>5, <1>6 DEF PoolSound


-----------------------------------------------------------------------------
(* A step of thread t that changes the size of list f, and where f is.     *)

Changes(t, f, fl2, rec2) ==
  LET own2 == Elems(fl2) \cup Elems(rec2)
  IN  /\ free_list' = [free_list EXCEPT ![t] = fl2] /\ recover' = [recover EXCEPT ![t] = rec2]
      /\ fl2 \in Seq(FreeList) /\ rec2 \in Seq(FreeList)
      /\ Apart(fl2, rec2) /\ Shape(fl2, rec2, size')
      /\ size' \in [FreeList -> Nat] /\ \A g \in FreeList \ {f} : size'[g] = size[g]
      /\ central' \in Seq(FreeList) /\ NoRepeat(central') /\ made' \in 0..MaxLists
      /\ f \in Own(t) \/ f \in Elems(central) \/ f > made
      /\ \A g \in FreeList \ {f} : /\ g \in own2 <=> g \in Own(t)
                                   /\ g \in Elems(central') <=> g \in Elems(central)
                                   /\ g <= made' <=> g <= made
      /\ f <= made' /\ (f \in own2 <=> f \notin Elems(central'))
      /\ f \in Elems(central') => size'[f] = init_size

LEMMA ListStep ==
  ASSUME PoolInv, NEW t \in AThread, NEW f \in FreeList, NEW fl2, NEW rec2,
         Changes(t, f, fl2, rec2)
  PROVE  /\ Places' /\ Sizes'
         /\ Own(t)' = Elems(fl2) \cup Elems(rec2)
         /\ \A u \in AThread \ {t} : /\ Own(u)' = Own(u)
                                     /\ Blocks(Own(u), size)' = Blocks(Own(u), size)
<1> DEFINE own2 == Elems(fl2) \cup Elems(rec2)
<1>0. PoolTypes /\ Places /\ Sizes  BY DEF PoolInv
<1>1. /\ free_list' = [free_list EXCEPT ![t] = fl2] /\ recover' = [recover EXCEPT ![t] = rec2]
      /\ fl2 \in Seq(FreeList) /\ rec2 \in Seq(FreeList)
      /\ Apart(fl2, rec2) /\ Shape(fl2, rec2, size')
      /\ size' \in [FreeList -> Nat] /\ \A g \in FreeList \ {f} : size'[g] = size[g]
      /\ central' \in Seq(FreeList) /\ NoRepeat(central') /\ made' \in 0..MaxLists
  BY DEF Changes
<1>2. /\ f \in Own(t) \/ f \in Elems(central) \/ f > made
      /\ \A g \in FreeList \ {f} : /\ g \in own2 <=> g \in Own(t)
                                   /\ g \in Elems(central') <=> g \in Elems(central)
                                   /\ g <= made' <=> g <= made
      /\ f <= made' /\ (f \in own2 <=> f \notin Elems(central'))
      /\ f \in Elems(central') => size'[f] = init_size
  BY DEF Changes
<1>3. free_list \in [AThread -> Seq(FreeList)] /\ recover \in [AThread -> Seq(FreeList)]
  BY <1>0 DEF PoolTypes
<1>4. free_list'[t] = fl2 /\ recover'[t] = rec2 /\ Own(t)' = own2  BY <1>1, <1>3 DEF Own
<1>5. \A u \in AThread \ {t} : /\ free_list'[u] = free_list[u] /\ recover'[u] = recover[u]
                               /\ Own(u)' = Own(u)
  BY <1>1, <1>3 DEF Own
<1>6. \A u \in AThread : Own(u) \subseteq FreeList  BY <1>0, ListsOwn
<1>7. own2 \subseteq FreeList  BY <1>1, ElemsSeq
<1>8. Elems(central') \subseteq FreeList  BY <1>1, ElemsSeq
<1>9. made \in Nat /\ f \in Nat  BY <1>0, PoolAssumption DEF PoolTypes, FreeList
<1>10. \A u \in AThread \ {t} : f \notin Own(u)
  <2> SUFFICES ASSUME NEW u \in AThread \ {t}, f \in Own(u) PROVE FALSE  OBVIOUS
  <2>1. f \notin Own(t) /\ f \notin Elems(central) /\ f <= made  BY <1>0 DEF Places
  <2> QED BY <1>2, <1>9, <2>1
<1> HIDE DEF own2
<1>11. Places'
  <2>1. \A u \in AThread : Apart(free_list'[u], recover'[u])  BY <1>0, <1>1, <1>4, <1>5 DEF Places
  <2>2. own2 \cap Elems(central') = {}
    <3> SUFFICES ASSUME NEW g \in own2, g \in Elems(central') PROVE FALSE  OBVIOUS
    <3>1. CASE g = f  BY <1>2, <3>1
    <3>2. CASE g # f
      <4>1. g \in FreeList \ {f}  BY <1>7, <3>2
      <4>2. g \in Own(t) /\ g \in Elems(central)  BY <1>2, <4>1
      <4> QED BY <1>0, <4>2 DEF Places
    <3> QED BY <3>1, <3>2
  <2>3. ASSUME NEW u \in AThread \ {t} PROVE Own(u) \cap Elems(central') = {}
    <3> SUFFICES ASSUME NEW g \in Own(u), g \in Elems(central') PROVE FALSE  OBVIOUS
    <3>1. g \in FreeList \ {f}  BY <1>6, <1>10
    <3>2. g \in Elems(central)  BY <1>2, <3>1
    <3> QED BY <1>0, <3>2 DEF Places
  <2>4. ASSUME NEW u \in AThread \ {t} PROVE Own(u) \cap own2 = {}
    <3> SUFFICES ASSUME NEW g \in Own(u), g \in own2 PROVE FALSE  OBVIOUS
    <3>1. g \in FreeList \ {f}  BY <1>6, <1>10
    <3>2. g \in Own(t)  BY <1>2, <3>1
    <3> QED BY <1>0, <3>2 DEF Places
  <2>5. ASSUME NEW g \in FreeList
        PROVE  g <= made' <=> (g \in Elems(central') \/ \E u \in AThread : g \in Own(u)')
    <3>1. CASE g = f  BY <1>2, <1>4, <3>1
    <3>2. CASE g # f
      <4>1. g \in FreeList \ {f}  BY <3>2
      <4>2. g <= made <=> (g \in Elems(central) \/ \E u \in AThread : g \in Own(u))
        BY <1>0 DEF Places
      <4>3. \A u \in AThread : g \in Own(u)' <=> g \in Own(u)  BY <1>2, <1>4, <1>5, <4>1
      <4>4. (g <= made' <=> g <= made) /\ (g \in Elems(central') <=> g \in Elems(central))
        BY <1>2, <4>1
      <4> QED BY <4>2, <4>3, <4>4
    <3> QED BY <3>1, <3>2
  <2>6. \A u \in AThread : Own(u)' \cap Elems(central') = {}  BY <1>4, <1>5, <2>2, <2>3
  <2>7. \A u, w \in AThread : u # w => Own(u)' \cap Own(w)' = {}
    <3> SUFFICES ASSUME NEW u \in AThread, NEW w \in AThread, u # w
                 PROVE  Own(u)' \cap Own(w)' = {}
      OBVIOUS
    <3>1. CASE u = t  BY <1>4, <1>5, <2>4, <3>1
    <3>2. CASE w = t  BY <1>4, <1>5, <2>4, <3>2
    <3>3. CASE u # t /\ w # t
      <4>1. Own(u) \cap Own(w) = {}  BY <1>0 DEF Places
      <4> QED BY <1>5, <3>3, <4>1
    <3> QED BY <3>1, <3>2, <3>3
  <2> QED BY <1>1, <2>1, <2>5, <2>6, <2>7 DEF Places
<1>12. Sizes'
  <2>1. ASSUME NEW g \in Elems(central') PROVE size'[g] = init_size
    <3>1. CASE g = f  BY <1>2, <3>1
    <3>2. CASE g # f
      <4>1. g \in FreeList \ {f}  BY <1>8, <3>2
      <4>2. g \in Elems(central) /\ size'[g] = size[g]  BY <1>1, <1>2, <4>1
      <4> QED BY <1>0, <4>2 DEF Sizes
    <3> QED BY <3>1, <3>2
  <2>2. ASSUME NEW u \in AThread \ {t} PROVE Shape(free_list[u], recover[u], size')
    <3>1. Shape(free_list[u], recover[u], size)  BY <1>0 DEF Sizes
    <3>2. \A g \in Own(u) : size'[g] = size[g]  BY <1>1, <1>6, <1>10
    <3>3. \A g \in Elems(free_list[u]) : size'[g] = size[g]  BY <3>2 DEF Own
    <3>4. \A k \in 1..Len(recover[u]) : recover[u][k] \in Own(u)  BY DEF Own, Elems
    <3>5. \A k \in 1..Len(recover[u]) : size'[recover[u][k]] = size[recover[u][k]]
      BY <3>2, <3>4
    <3> QED BY <3>1, <3>3, <3>5 DEF Shape
  <2>3. \A u \in AThread : Shape(free_list'[u], recover'[u], size')
    BY <1>1, <1>4, <1>5, <2>2
  <2>4. ASSUME NEW g \in FreeList, g > made' PROVE size'[g] = 0
    <3>1. g \in Nat /\ made' \in Nat  BY <1>1, PoolAssumption DEF FreeList
    <3>2. g # f /\ ~(g <= made')  BY <1>2, <2>4, <3>1
    <3>3. ~(g <= made) /\ size'[g] = size[g]  BY <1>1, <1>2, <3>2
    <3>4. g > made  BY <1>9, <3>1, <3>3
    <3> QED BY <1>0, <3>3, <3>4 DEF Sizes
  <2> QED BY <2>1, <2>3, <2>4 DEF Sizes
<1>13. ASSUME NEW u \in AThread \ {t} PROVE Blocks(Own(u), size)' = Blocks(Own(u), size)
  <2>1. \A g \in FreeList \cap Own(u) : size'[g] = size[g]  BY <1>1, <1>10
  <2>2. Blocks(Own(u), size') = Blocks(Own(u), size)  BY <2>1, BlocksSame
  <2>3. Blocks(Own(u), size)' = Blocks(Own(u)', size')  BY DEF Blocks, FreeList
  <2> QED BY <1>5, <2>2, <2>3
<1> QED BY <1>4, <1>5, <1>11, <1>12, <1>13 DEF own2


\* Such a step counts right.
CountsOn(t, f, own2, v) ==
  /\ v \in Int /\ free_size' = [free_size EXCEPT ![t] = v % SizeWrap]
  /\ giving' \in [AThread -> 0..MaxLists] /\ \A u \in AThread \ {t} : giving'[u] = giving[u]
  /\ started' \subseteq started \cup {t} /\ raced' = raced /\ crashed' = crashed
  /\ out' \in Nat /\ (size'[f] + out') + init_size * made = (size[f] + out) + init_size * made'
  /\ t \notin raced => v = Blocks(own2, size') + Given(t)' /\ own2 # {}

LEMMA CountStep ==
  ASSUME PoolInv, NEW t \in AThread, NEW f \in FreeList, NEW fl2, NEW rec2, NEW v,
         Changes(t, f, fl2, rec2), CountsOn(t, f, Elems(fl2) \cup Elems(rec2), v)
  PROVE  PoolInv'
<1> DEFINE own2 == Elems(fl2) \cup Elems(rec2)
<1>0. PoolTypes /\ Counts  BY DEF PoolInv
<1>1. /\ Places' /\ Sizes' /\ Own(t)' = own2
      /\ \A u \in AThread \ {t} : /\ Own(u)' = Own(u)
                                  /\ Blocks(Own(u), size)' = Blocks(Own(u), size)
  BY ListStep
<1>2. /\ size' \in [FreeList -> Nat] /\ \A g \in FreeList \ {f} : size'[g] = size[g]
      /\ central' \in Seq(FreeList) /\ made' \in 0..MaxLists
      /\ free_list' = [free_list EXCEPT ![t] = fl2] /\ recover' = [recover EXCEPT ![t] = rec2]
      /\ fl2 \in Seq(FreeList) /\ rec2 \in Seq(FreeList)
  BY DEF Changes
<1> HIDE DEF own2
<1>3. /\ v \in Int /\ free_size' = [free_size EXCEPT ![t] = v % SizeWrap]
      /\ giving' \in [AThread -> 0..MaxLists] /\ \A u \in AThread \ {t} : giving'[u] = giving[u]
      /\ started' \subseteq started \cup {t} /\ raced' = raced /\ crashed' = crashed
      /\ out' \in Nat /\ (size'[f] + out') + init_size * made = (size[f] + out) + init_size * made'
      /\ t \notin raced => v = Blocks(own2, size') + Given(t)' /\ own2 # {}
  BY DEF CountsOn, own2
<1>4. /\ size \in [FreeList -> Nat] /\ out \in Nat /\ made \in 0..MaxLists
      /\ free_size \in [AThread -> Nat]
      /\ free_list \in [AThread -> Seq(FreeList)] /\ recover \in [AThread -> Seq(FreeList)]
  BY <1>0 DEF PoolTypes
<1>5. init_size \in Nat /\ SizeWrap \in Nat \ {0} /\ MaxLists \in Nat
  <2>1. init_size * MaxLists \in Nat  BY PoolAssumption
  <2> QED BY <2>1, PoolAssumption
<1>6. (v % SizeWrap) \in Nat
  <2>1. v \in Int /\ SizeWrap \in Nat \ {0}  BY <1>3, <1>5
  <2>2. (v % SizeWrap) \in 0..(SizeWrap - 1)  BY <2>1, ModRange
  <2> QED BY <2>1, <2>2
<1>7. PoolTypes'  BY <1>2, <1>3, <1>4, <1>6 DEF PoolTypes, FreeList
<1>8. Blocks(FreeList, size') + out' = init_size * made'
  <2>1. SameBut(f, FreeList, FreeList, size, size')  BY <1>2 DEF SameBut
  <2>2. Blocks(FreeList, size') + (IF f \in FreeList THEN size[f] ELSE 0)
          = Blocks(FreeList, size) + (IF f \in FreeList THEN size'[f] ELSE 0)
    <3>1. size \in [FreeList -> Nat] /\ size' \in [FreeList -> Nat]  BY <1>2, <1>4
    <3> QED BY <2>1, <3>1, BlocksChange
  <2>3. Blocks(FreeList, size) + out = init_size * made  BY <1>0 DEF Counts
  <2>4. Blocks(FreeList, size') \in Nat /\ Blocks(FreeList, size) \in Nat
    BY <1>2, <1>4, SizeOfType
  <2> DEFINE a == Blocks(FreeList, size')
             b == Blocks(FreeList, size)
             c == init_size * made
             d == init_size * made'
             x == size[f]
             y == size'[f]
             o == out'
  <2>5. a \in Nat /\ b \in Nat /\ c \in Nat /\ d \in Nat /\ x \in Nat /\ y \in Nat
        /\ o \in Nat /\ out \in Nat
    <3>1. made \in Nat /\ made' \in Nat  BY <1>2, <1>4
    <3>2. \A m \in Nat : init_size * m \in Nat  BY <1>5
    <3>3. x \in Nat /\ y \in Nat  BY <1>2, <1>4
    <3>4. out' \in Nat /\ out \in Nat  BY <1>3, <1>4
    <3> QED BY <2>4, <3>1, <3>2, <3>3, <3>4
  <2>6. a + x = b + y /\ b + out = c /\ (y + o) + c = (x + out) + d
    BY <1>3, <2>2, <2>3
  <2> HIDE DEF a, b, c, d, x, y, o
  <2>7. d = o + ((b + y) - x)  BY <2>5, <2>6
  <2>8. a + o = d  BY <2>5, <2>6, <2>7
  <2> QED BY <2>8 DEF a, d, o
<1>9. \A u \in AThread \ {t} : Given(u)' = Given(u) /\ free_size'[u] = free_size[u]
  BY <1>3, <1>4 DEF Given
<1>10. ASSUME t \notin raced PROVE free_size'[t] = Blocks(own2, size') + Given(t)'
  <2>1. Blocks(own2, size') \in Nat /\ Blocks(own2, size') + init_size < SizeWrap
    BY <1>2, <1>3, <1>8, BlocksBound
  <2>2. Given(t)' \in Nat /\ Given(t)' <= init_size  BY <1>5 DEF Given
  <2>3. v \in Nat /\ v < SizeWrap  BY <1>3, <1>5, <1>10, <2>1, <2>2
  <2>4. (v % SizeWrap) = v  BY <1>5, <2>3, ModInt
  <2> QED BY <1>3, <1>4, <1>10, <2>4
<1>11. Blocks(FreeList, size)' + out' = (init_size * made)'
  <2>1. Blocks(FreeList, size)' = Blocks(FreeList, size')  BY DEF Blocks, FreeList
  <2> QED BY <1>8, <2>1
<1>12. Blocks(Own(t), size)' = Blocks(own2, size')
  <2>1. Blocks(Own(t), size)' = Blocks(Own(t)', size')  BY DEF Blocks, FreeList
  <2> QED BY <1>1, <2>1
<1>13. ASSUME NEW u \in AThread \ raced'
       PROVE  /\ free_size'[u] = Blocks(Own(u), size)' + Given(u)'
              /\ u \in started' => Own(u)' # {}
  <2>1. CASE u = t  BY <1>1, <1>3, <1>10, <1>12, <2>1
  <2>2. CASE u # t
    <3>1. u \in AThread \ raced /\ u \in AThread \ {t}  BY <1>3, <2>2
    <3>2. free_size[u] = Blocks(Own(u), size) + Given(u) /\ (u \in started => Own(u) # {})
      BY <1>0, <3>1 DEF Counts
    <3> QED BY <1>1, <1>3, <1>9, <3>1, <3>2
  <2> QED BY <2>1, <2>2
<1>14. crashed' => raced' # {}  BY <1>0, <1>3 DEF Counts
<1>15. Counts'  BY <1>11, <1>13, <1>14 DEF Counts
<1> QED BY <1>1, <1>7, <1>15 DEF PoolInv


-----------------------------------------------------------------------------
(* The lists of a thread while one of them changes.                        *)

LEMMA ShapeKept ==
  ASSUME NEW fl, NEW rec, NEW fl2, NEW sizes, NEW sizes2, Shape(fl, rec, sizes),
         \A g \in Elems(rec) : sizes2[g] = sizes[g], \A g \in Elems(fl2) : sizes2[g] > 0
  PROVE  Shape(fl2, rec, sizes2)
<1>1. \A k \in 1..Len(rec) : rec[k] \in Elems(rec)  BY DEF Elems
<1> QED BY <1>1 DEF Shape

LEMMA ShapeZero ==
  ASSUME NEW fl, NEW rec, NEW sizes,
         \A g \in Elems(rec) : sizes[g] = 0, \A g \in Elems(fl) : sizes[g] > 0
  PROVE  Shape(fl, rec, sizes)
<1>1. \A k \in 1..Len(rec) : rec[k] \in Elems(rec)  BY DEF Elems
<1>2. 0 \in 0..(init_size - 1)  BY PoolAssumption
<1> QED BY <1>1, <1>2 DEF Shape

LEMMA ShapeHead ==
  ASSUME NEW fl, NEW rec \in Seq(FreeList), NEW sizes, Shape(fl, rec, sizes), rec # <<>>
  PROVE  /\ sizes[Head(rec)] \in 0..(init_size - 1)
         /\ \A g \in Elems(Tail(rec)) : sizes[g] = 0
         /\ sizes[Head(rec)] = 0 => \A g \in Elems(rec) : sizes[g] = 0
<1>1. Len(rec) \in Nat \ {0} /\ Len(Tail(rec)) = Len(rec) - 1 /\ Head(rec) = rec[1]
  <2>1. Len(rec) \in Nat \ {0}  OBVIOUS
  <2> QED BY <2>1
<1>2. \A i \in 1..(Len(rec) - 1) : Tail(rec)[i] = rec[i + 1]  BY <1>1
<1>3. 1 \in 1..Len(rec)  BY <1>1
<1>4. sizes[Head(rec)] \in 0..(init_size - 1)  BY <1>1, <1>3 DEF Shape
<1>5. \A k \in 1..Len(rec) : k # 1 => sizes[rec[k]] = 0  BY DEF Shape
<1>6. ASSUME NEW g \in Elems(Tail(rec)) PROVE sizes[g] = 0
  <2>1. PICK i \in 1..(Len(rec) - 1) : g = rec[i + 1]  BY <1>1, <1>2, <1>6 DEF Elems
  <2>2. i + 1 \in 1..Len(rec) /\ i + 1 # 1  BY <1>1
  <2> QED BY <1>5, <2>1, <2>2
<1>7. ASSUME sizes[Head(rec)] = 0, NEW g \in Elems(rec) PROVE sizes[g] = 0
  <2>1. PICK k \in 1..Len(rec) : g = rec[k]  BY <1>7 DEF Elems
  <2> QED BY <1>1, <1>5, <1>7, <2>1
<1> QED BY <1>4, <1>6, <1>7

\* What the invariant says of one thread.
LEMMA ThreadFacts ==
  ASSUME PoolInv, NEW t \in AThread
  PROVE  /\ free_list[t] \in Seq(FreeList) /\ recover[t] \in Seq(FreeList)
         /\ NoRepeat(free_list[t]) /\ NoRepeat(recover[t])
         /\ Elems(free_list[t]) \cap Elems(recover[t]) = {}
         /\ Elems(free_list[t]) \subseteq FreeList /\ Elems(recover[t]) \subseteq FreeList
         /\ Own(t) = Elems(free_list[t]) \cup Elems(recover[t])
         /\ Own(t) \cap Elems(central) = {} /\ \A f \in Own(t) : f <= made
         /\ Shape(free_list[t], recover[t], size)
         /\ free_size[t] \in Nat /\ Blocks(Own(t), size) \in Nat
         /\ t \notin raced => /\ free_size[t] = Blocks(Own(t), size) + Given(t)
                              /\ t \in started => Own(t) # {}
<1>1. PoolTypes /\ Places /\ Sizes /\ Counts  BY DEF PoolInv
<1>2. /\ free_list[t] \in Seq(FreeList) /\ recover[t] \in Seq(FreeList) /\ free_size[t] \in Nat
  BY <1>1 DEF PoolTypes
<1>3. /\ NoRepeat(free_list[t]) /\ NoRepeat(recover[t])
      /\ Elems(free_list[t]) \cap Elems(recover[t]) = {} /\ Own(t) \cap Elems(central) = {}
  BY <1>1 DEF Places, Apart
<1>4. Elems(free_list[t]) \subseteq FreeList /\ Elems(recover[t]) \subseteq FreeList
  BY <1>2, ElemsSeq
<1>5. Own(t) = Elems(free_list[t]) \cup Elems(recover[t])  BY DEF Own
<1>6. \A f \in Own(t) : f <= made  BY <1>1, <1>4, <1>5 DEF Places
<1>7. Shape(free_list[t], recover[t], size)  BY <1>1 DEF Sizes
<1>8. Blocks(Own(t), size) \in Nat  BY <1>1, BlocksNat
<1>9. t \notin raced => /\ free_size[t] = Blocks(Own(t), size) + Given(t)
                        /\ t \in started => Own(t) # {}
  BY <1>1 DEF Counts
<1> QED BY <1>2, <1>3, <1>4, <1>5, <1>6, <1>7, <1>8, <1>9

\* The state that all threads share.
LEMMA PoolFacts ==
  ASSUME PoolInv
  PROVE  /\ central \in Seq(FreeList) /\ NoRepeat(central)
         /\ size \in [FreeList -> Nat] /\ made \in 0..MaxLists /\ out \in Nat
         /\ giving \in [AThread -> 0..MaxLists]
         /\ FreeList = 1..MaxLists /\ MaxLists \in Nat /\ init_size \in Nat /\ init_size > 1
         /\ free_list = [u \in AThread |-> free_list[u]]
         /\ recover = [u \in AThread |-> recover[u]]
         /\ free_size \in [AThread -> Nat]
BY PoolAssumption DEF PoolInv, PoolTypes, Places, FreeList


-----------------------------------------------------------------------------
(* The operations.                                                         *)

LEMMA CentralStep ==
  ASSUME PoolInv, NEW t \in AThread, alloc_central(t)
  PROVE  PoolInv'
<1> DEFINE fresh == central = <<>>
           f     == IF fresh THEN made + 1 ELSE Head(central)
           sizes == IF fresh THEN [size EXCEPT ![f] = init_size] ELSE size
           fl2   == Append(free_list[t], f)
           rec2  == recover[t]
           own2  == Elems(fl2) \cup Elems(rec2)
<1>0. PoolTypes /\ Places /\ Sizes /\ Counts  BY DEF PoolInv
<1>1. /\ central \in Seq(FreeList) /\ NoRepeat(central)
      /\ size \in [FreeList -> Nat] /\ made \in 0..MaxLists /\ out \in Nat
      /\ giving \in [AThread -> 0..MaxLists]
      /\ FreeList = 1..MaxLists /\ MaxLists \in Nat /\ init_size \in Nat /\ init_size > 1
  BY PoolFacts
<1>2. /\ giving[t] = 0 /\ free_size[t] = 0 /\ (fresh => made < MaxLists)
      /\ made' = (IF fresh THEN made + 1 ELSE made)
      /\ central' = (IF fresh THEN central ELSE Tail(central))
      /\ started' = started \cup {t} /\ giving' = giving /\ crashed' = crashed /\ raced' = raced
      /\ get(t, f, fl2, rec2, sizes[f], sizes)
  BY DEF alloc_central, Ready
<1>3. /\ free_list[t] \in Seq(FreeList) /\ recover[t] \in Seq(FreeList)
      /\ NoRepeat(free_list[t]) /\ NoRepeat(recover[t])
      /\ Elems(free_list[t]) \cap Elems(recover[t]) = {}
      /\ Own(t) = Elems(free_list[t]) \cup Elems(recover[t])
      /\ Own(t) \cap Elems(central) = {} /\ (\A g \in Own(t) : g <= made)
      /\ Shape(free_list[t], recover[t], size)
      /\ Blocks(Own(t), size) \in Nat
      /\ t \notin raced => free_size[t] = Blocks(Own(t), size) + Given(t)
  BY ThreadFacts
\* The list that arrives.
<1>4. /\ f \in FreeList /\ (f \in Elems(central) \/ f > made) /\ f <= made'
      /\ sizes \in [FreeList -> Nat] /\ sizes[f] = init_size
      /\ (\A g \in FreeList \ {f} : sizes[g] = size[g])
      /\ size[f] + init_size * made' = init_size + init_size * made
      /\ central' \in Seq(FreeList) /\ NoRepeat(central') /\ made' \in 0..MaxLists
      /\ Elems(central') = Elems(central) \ {f}
      /\ (\A g \in FreeList \ {f} : g <= made' <=> g <= made)
  <2>1. CASE fresh
    <3>1. f = made + 1 /\ f \in FreeList /\ f > made  BY <1>1, <1>2, <2>1
    <3>2. size[f] = 0  BY <1>0, <3>1 DEF Sizes
    <3>3. sizes = [size EXCEPT ![f] = init_size]  BY <2>1
    <3>4. made' = made + 1 /\ central' = <<>> /\ made' \in 0..MaxLists  BY <1>1, <1>2, <2>1
    <3>5. Elems(central') = {} /\ Elems(central) = {}  BY <2>1, <3>4 DEF Elems
    <3>6. init_size * made' = init_size + init_size * made
      <4>1. made \in Nat /\ init_size * (made + 1) = init_size + init_size * made  BY <1>1
      <4> QED BY <3>4, <4>1
    <3>7. init_size * made' \in Nat  
      <4>1. made' \in Nat  BY <1>1, <3>4
      <4>2. \A m \in Nat : init_size * m \in Nat  BY <1>1
      <4> QED BY <4>1, <4>2
    <3>8. sizes \in [FreeList -> Nat] /\ sizes[f] = init_size
          /\ (\A g \in FreeList \ {f} : sizes[g] = size[g])
      BY <1>1, <3>1, <3>3
    <3>9. \A g \in FreeList \ {f} : g <= made' <=> g <= made  BY <1>1, <3>1, <3>4
    <3>10. size[f] + init_size * made' = init_size + init_size * made  BY <3>2, <3>6, <3>7
    <3> HIDE DEF f, sizes
    <3> QED BY <1>1, <2>1, <3>1, <3>4, <3>5, <3>8, <3>9, <3>10
  <2>2. CASE ~fresh
    <3>1. f = Head(central) /\ sizes = size  BY <2>2
    <3>2. /\ Tail(central) \in Seq(FreeList) /\ NoRepeat(Tail(central)) /\ f \in Elems(central)
          /\ Elems(Tail(central)) = Elems(central) \ {f}
      BY <1>1, <2>2, <3>1, ElemsTail
    <3>3. f \in FreeList  BY <1>1, <3>2, ElemsSeq
    <3>4. f <= made /\ size[f] = init_size  BY <1>0, <3>2, <3>3 DEF Places, Sizes
    <3>5. made' = made /\ central' = Tail(central)  BY <1>2, <2>2
    <3> HIDE DEF f, sizes
    <3> QED BY <1>1, <3>1, <3>2, <3>3, <3>4, <3>5
  <2> QED BY <2>1, <2>2
<1> HIDE DEF fresh, f, sizes
<1>5. f \notin Own(t)
  <2>1. made \in Nat /\ f \in Nat  BY <1>1, <1>4
  <2> QED BY <1>3, <1>4, <2>1
<1>6. fl2 \in Seq(FreeList) /\ NoRepeat(fl2) /\ Elems(fl2) = Elems(free_list[t]) \cup {f}
  <2>1. f \notin Elems(free_list[t])  BY <1>3, <1>5
  <2> QED BY <1>3, <1>4, <2>1, ElemsPut
<1>7. Elems(rec2) = Elems(recover[t])  OBVIOUS
<1>8. own2 = Own(t) \cup {f}  BY <1>3, <1>6
<1>9. /\ size' = [sizes EXCEPT ![f] = init_size - 1]
      /\ free_size' = [free_size EXCEPT ![t] = (init_size - 1) % SizeWrap]
      /\ free_list' = [free_list EXCEPT ![t] = fl2] /\ recover' = [recover EXCEPT ![t] = rec2]
      /\ out' = out + 1
  <2>1. sizes[f] - 1 = init_size - 1 /\ init_size - 1 # 0  BY <1>1, <1>4
  <2> QED BY <1>2, <1>4, <2>1 DEF get
<1> HIDE DEF fl2, rec2, own2
<1>10. /\ size' \in [FreeList -> Nat] /\ size'[f] = init_size - 1
       /\ (\A g \in FreeList \ {f} : size'[g] = size[g])
  <2>1. init_size - 1 \in Nat  BY <1>1
  <2> QED BY <1>4, <1>9, <2>1
<1>11. Apart(fl2, rec2)  BY <1>3, <1>5, <1>6, <1>7 DEF Apart, rec2
<1>12. Shape(fl2, rec2, size')
  <2>1. \A g \in Elems(recover[t]) : size'[g] = size[g]
    <3>1. Elems(recover[t]) \subseteq FreeList  BY <1>3, ElemsSeq
    <3> QED BY <1>3, <1>5, <1>10, <3>1
  <2>2. ASSUME NEW g \in Elems(fl2) PROVE size'[g] > 0
    <3>1. CASE g = f  BY <1>1, <1>10, <3>1
    <3>2. CASE g # f
      <4>1. g \in Elems(free_list[t])  BY <1>6, <3>2
      <4>2. Elems(free_list[t]) \subseteq FreeList  BY <1>3, ElemsSeq
      <4>3. size[g] > 0  BY <1>3, <4>1 DEF Shape
      <4> QED BY <1>10, <3>2, <4>1, <4>2, <4>3
    <3> QED BY <3>1, <3>2
  <2> QED BY <1>3, <2>1, <2>2, ShapeKept DEF rec2
<1>13. Changes(t, f, fl2, rec2)
  <2>1. fl2 \in Seq(FreeList) /\ rec2 \in Seq(FreeList)  BY <1>3, <1>6 DEF rec2
  <2>2. \A g \in FreeList \ {f} : /\ g \in own2 <=> g \in Own(t)
                                  /\ g \in Elems(central') <=> g \in Elems(central)
    BY <1>4, <1>8
  <2>3. f \in own2 /\ f \notin Elems(central')  BY <1>4, <1>8
  <2> QED BY <1>4, <1>9, <1>10, <1>11, <1>12, <2>1, <2>2, <2>3 DEF Changes, own2
<1>14. CountsOn(t, f, own2, init_size - 1)
  <2>1. ASSUME t \notin raced
        PROVE  init_size - 1 = Blocks(own2, size') + Given(t)' /\ own2 # {}
    <3>1. Given(t)' = 0 /\ Given(t) = 0  BY <1>2 DEF Given
    <3>2. Blocks(Own(t), size) = 0  BY <1>2, <1>3, <2>1, <3>1
    <3>3. SameBut(f, Own(t), own2, size, size')
      BY <1>8, <1>10 DEF SameBut
    <3>4. size \in [FreeList -> Nat] /\ size' \in [FreeList -> Nat] /\ f \in FreeList
      BY <1>1, <1>4, <1>10
    <3>5. Blocks(own2, size') + (IF f \in Own(t) THEN size[f] ELSE 0)
            = Blocks(Own(t), size) + (IF f \in own2 THEN size'[f] ELSE 0)
      BY <3>3, <3>4, BlocksChange
    <3>6. f \in own2 /\ f \notin Own(t)  BY <1>5, <1>8
    <3>7. Blocks(own2, size') \in Nat  BY <3>4, SizeOfType
    <3> QED BY <1>1, <1>10, <3>1, <3>2, <3>5, <3>6, <3>7
  <2>2. (size'[f] + out') + init_size * made = (size[f] + out) + init_size * made'
    <3> DEFINE c == init_size * made
               d == init_size * made'
               x == size[f]
    <3>1. c \in Nat /\ d \in Nat /\ x \in Nat
      <4>1. \A m \in Nat : init_size * m \in Nat  BY <1>1
      <4>2. made \in Nat /\ made' \in Nat  BY <1>1, <1>4
      <4> QED BY <1>1, <1>4, <4>1, <4>2
    <3>2. x + d = init_size + c  BY <1>4
    <3>3. size'[f] = init_size - 1 /\ out' = out + 1  BY <1>9, <1>10
    <3> HIDE DEF c, d, x
    <3>4. (size'[f] + out') + c = (x + out) + d  BY <1>1, <3>1, <3>2, <3>3
    <3> QED BY <3>4 DEF c, d, x
  <2>3. out' \in Nat /\ init_size - 1 \in Int  BY <1>1, <1>9
  <2> QED BY <1>1, <1>2, <1>9, <2>1, <2>2, <2>3 DEF CountsOn
<1> QED BY <1>4, <1>13, <1>14, CountStep DEF own2


\* One list of the thread's own gets a block more or less and may change place.
SameOwner(t, f, fl2, rec2, z) ==
  /\ z \in Nat /\ size' = [size EXCEPT ![f] = z]
  /\ free_list' = [free_list EXCEPT ![t] = fl2] /\ recover' = [recover EXCEPT ![t] = rec2]
  /\ free_size' = [free_size EXCEPT ![t] = ((free_size[t] + z) - size[f]) % SizeWrap]
  /\ out' \in Nat /\ z + out' = size[f] + out
  /\ UNCHANGED <<central, made, started, giving, crashed, raced>>
  /\ fl2 \in Seq(FreeList) /\ rec2 \in Seq(FreeList)
  /\ Apart(fl2, rec2) /\ Elems(fl2) \cup Elems(rec2) = Own(t)
  /\ \A g \in Elems(fl2) : size'[g] > 0
  /\ \/ \A g \in Elems(rec2) : size'[g] = 0
     \/ Shape(fl2, rec2, size')

LEMMA SameOwnerStep ==
  ASSUME PoolInv, NEW t \in AThread, NEW f \in Own(t), NEW fl2, NEW rec2, NEW z,
         giving[t] = 0, SameOwner(t, f, fl2, rec2, z)
  PROVE  PoolInv'
<1> DEFINE own2 == Elems(fl2) \cup Elems(rec2)
           v    == (free_size[t] + z) - size[f]
<1>1. /\ central \in Seq(FreeList) /\ NoRepeat(central)
      /\ size \in [FreeList -> Nat] /\ made \in 0..MaxLists /\ out \in Nat
      /\ giving \in [AThread -> 0..MaxLists] /\ init_size \in Nat
  BY PoolFacts
<1>2. /\ Own(t) = Elems(free_list[t]) \cup Elems(recover[t])
      /\ Elems(free_list[t]) \subseteq FreeList /\ Elems(recover[t]) \subseteq FreeList
      /\ Own(t) \cap Elems(central) = {} /\ (\A g \in Own(t) : g <= made)
      /\ Blocks(Own(t), size) \in Nat /\ free_size[t] \in Nat
      /\ t \notin raced => free_size[t] = Blocks(Own(t), size) + Given(t)
  BY ThreadFacts
<1>3. f \in FreeList /\ f <= made /\ f \notin Elems(central)  BY <1>2
<1>4. /\ z \in Nat /\ size' = [size EXCEPT ![f] = z] /\ own2 = Own(t)
      /\ free_list' = [free_list EXCEPT ![t] = fl2] /\ recover' = [recover EXCEPT ![t] = rec2]
      /\ free_size' = [free_size EXCEPT ![t] = v % SizeWrap]
      /\ out' \in Nat /\ z + out' = size[f] + out
      /\ central' = central /\ made' = made /\ started' = started /\ giving' = giving
      /\ crashed' = crashed /\ raced' = raced
      /\ fl2 \in Seq(FreeList) /\ rec2 \in Seq(FreeList) /\ Apart(fl2, rec2)
      /\ (\A g \in Elems(fl2) : size'[g] > 0)
  BY DEF SameOwner
<1>5. Shape(fl2, rec2, size')
  <2>1. CASE Shape(fl2, rec2, size')  BY <2>1
  <2>2. CASE \A g \in Elems(rec2) : size'[g] = 0  BY <1>4, <2>2, ShapeZero
  <2> QED BY <2>1, <2>2 DEF SameOwner
<1>6. /\ size' \in [FreeList -> Nat] /\ size'[f] = z
      /\ (\A g \in FreeList \ {f} : size'[g] = size[g])
  BY <1>1, <1>3, <1>4
<1> HIDE DEF own2, v
<1>7. Changes(t, f, fl2, rec2)
  <2>1. \A g \in FreeList \ {f} : /\ g \in own2 <=> g \in Own(t)
                                  /\ g \in Elems(central') <=> g \in Elems(central)
                                  /\ g <= made' <=> g <= made
    BY <1>4
  <2>2. f \in own2 /\ f \notin Elems(central') /\ f <= made'  BY <1>3, <1>4
  <2> QED BY <1>1, <1>4, <1>5, <1>6, <2>1, <2>2 DEF Changes, own2
<1>8. CountsOn(t, f, own2, v)
  <2>1. size[f] \in Nat /\ v = (free_size[t] + z) - size[f] /\ v \in Int
    <3>1. size[f] \in Nat  BY <1>1, <1>3
    <3> QED BY <1>2, <1>4, <3>1 DEF v
  <2>2. ASSUME t \notin raced PROVE v = Blocks(own2, size') + Given(t)' /\ own2 # {}
    <3>1. Given(t)' = 0 /\ Given(t) = 0  BY <1>4 DEF Given
    <3>2. SameBut(f, Own(t), own2, size, size')
      BY <1>4, <1>6 DEF SameBut
    <3>3. Blocks(own2, size') + (IF f \in Own(t) THEN size[f] ELSE 0)
            = Blocks(Own(t), size) + (IF f \in own2 THEN size'[f] ELSE 0)
      <4>1. size \in [FreeList -> Nat] /\ size' \in [FreeList -> Nat] /\ f \in FreeList
        BY <1>1, <1>3, <1>6
      <4> QED BY <3>2, <4>1, BlocksChange
    <3>4. Blocks(own2, size') \in Nat  BY <1>6, SizeOfType
    <3>5. Blocks(own2, size') + size[f] = Blocks(Own(t), size) + z  BY <1>4, <1>6, <3>3
    <3>6. free_size[t] = Blocks(Own(t), size)  BY <1>2, <2>2, <3>1
    <3>7. v = Blocks(own2, size')  BY <1>2, <1>4, <2>1, <3>4, <3>5, <3>6
    <3> QED BY <1>4, <3>1, <3>4, <3>7
  <2>3. (size'[f] + out') + init_size * made = (size[f] + out) + init_size * made'
    BY <1>4, <1>6
  <2> QED BY <1>1, <1>4, <2>1, <2>2, <2>3 DEF CountsOn
<1> QED BY <1>3, <1>7, <1>8, CountStep DEF own2

\* A block that is handed out of a list of the thread's own.
LEMMA OwnStep ==
  ASSUME PoolInv, NEW t \in AThread, alloc_own(t), ~crashed'
  PROVE  PoolInv'
<1> DEFINE fl  == free_list[t]
           rec == recover[t]
<1>1. size \in [FreeList -> Nat] /\ out \in Nat  BY PoolFacts
<1>2. /\ fl \in Seq(FreeList) /\ rec \in Seq(FreeList) /\ NoRepeat(fl) /\ NoRepeat(rec)
      /\ Elems(fl) \cap Elems(rec) = {} /\ Own(t) = Elems(fl) \cup Elems(rec)
      /\ Elems(fl) \subseteq FreeList /\ Elems(rec) \subseteq FreeList
      /\ Shape(fl, rec, size) /\ free_size[t] \in Nat
  BY ThreadFacts
<1>3. /\ giving[t] = 0 /\ crashed' = crashed
      /\ central' = central /\ made' = made /\ started' = started /\ giving' = giving
      /\ raced' = raced
  BY DEF alloc_own, Ready
<1>4. CASE fl # <<>>
  <2> DEFINE f   == Head(fl)
             z   == size[f] - 1
             fl2 == IF z = 0 THEN Tail(fl) ELSE fl
             rec2 == IF z = 0 THEN Append(rec, f) ELSE rec
  <2>1. get(t, f, fl, rec, free_size[t], size)  BY <1>4 DEF alloc_own
  <2>2. /\ Tail(fl) \in Seq(FreeList) /\ NoRepeat(Tail(fl)) /\ f \in Elems(fl)
        /\ Elems(Tail(fl)) = Elems(fl) \ {f}
    BY <1>2, <1>4, ElemsTail
  <2>3. f \in FreeList /\ f \in Own(t) /\ f \notin Elems(rec)  BY <1>2, <2>2
  <2>4. size[f] \in Nat /\ size[f] > 0 /\ z \in Nat  
    <3>1. size[f] \in Nat  BY <1>1, <2>3
    <3>2. size[f] > 0  BY <1>2, <2>2 DEF Shape
    <3> QED BY <3>1, <3>2
  <2>5. /\ Append(rec, f) \in Seq(FreeList) /\ NoRepeat(Append(rec, f))
        /\ Elems(Append(rec, f)) = Elems(rec) \cup {f}
    BY <1>2, <2>3, ElemsPut
  <2>6. /\ size' = [size EXCEPT ![f] = z]
        /\ free_size' = [free_size EXCEPT ![t] = (free_size[t] - 1) % SizeWrap]
        /\ free_list' = [free_list EXCEPT ![t] = fl2]
        /\ recover' = [recover EXCEPT ![t] = rec2] /\ out' = out + 1
    BY <2>1 DEF get
  <2> HIDE DEF f
  <2>7. free_size[t] - 1 = (free_size[t] + z) - size[f]  BY <1>2, <2>4
  <2>8. out' \in Nat /\ z + out' = size[f] + out
    <3>1. out \in Nat /\ out' = out + 1 /\ size[f] \in Nat  BY <1>1, <2>4, <2>6
    <3> QED BY <3>1
  <2>9. size'[f] = z /\ \A g \in FreeList \ {f} : size'[g] = size[g]  BY <1>1, <2>3, <2>6
  <2>10. /\ fl2 \in Seq(FreeList) /\ rec2 \in Seq(FreeList) /\ Apart(fl2, rec2)
         /\ Elems(fl2) \cup Elems(rec2) = Own(t)
    BY <1>2, <2>2, <2>5 DEF Apart
  <2>11. \A g \in Elems(fl) : size[g] > 0  BY <1>2 DEF Shape
  <2>12. \A g \in Elems(fl2) : size'[g] > 0
    <3>1. CASE z = 0  BY <1>2, <2>2, <2>9, <2>11, <3>1
    <3>2. CASE z # 0
      <4>1. \A g \in Elems(fl) : g # f => size'[g] > 0  BY <1>2, <2>9, <2>11
      <4>2. size'[f] > 0  BY <2>4, <2>9, <3>2
      <4> QED BY <3>2, <4>1, <4>2
    <3> QED BY <3>1, <3>2
  <2>13. \A g \in Elems(rec) : size'[g] = size[g]  BY <1>2, <2>3, <2>9
  <2>14. Shape(fl2, rec, size')  BY <1>2, <2>12, <2>13, ShapeKept
  <2> HIDE DEF z
  <2>15. Shape(fl2, rec2, size')
    <3>1. CASE z = 0
      <4>1. /\ Len(rec2) = Len(rec) + 1 /\ Len(rec) \in Nat
            /\ \A k \in 1..Len(rec) : rec2[k] = rec[k]
            /\ rec2[Len(rec) + 1] = f
        BY <1>2, <3>1
      <4>2. ASSUME NEW k \in 1..(Len(rec) + 1)
            PROVE  size'[rec2[k]] \in IF k = 1 THEN 0..(init_size - 1) ELSE {0}
        <5>1. CASE k = Len(rec) + 1
          <6>1. 0 \in 0..(init_size - 1)  BY PoolAssumption
          <6> QED BY <2>9, <3>1, <4>1, <5>1, <6>1
        <5>2. CASE k # Len(rec) + 1
          <6>1. k \in 1..Len(rec)  BY <4>1, <5>2
          <6> QED BY <2>14, <4>1, <6>1 DEF Shape
        <5> QED BY <5>1, <5>2
      <4> QED BY <2>12, <4>1, <4>2 DEF Shape
    <3>2. CASE z # 0  BY <2>14, <3>2
    <3> QED BY <3>1, <3>2
  <2> HIDE DEF fl2, rec2
  <2>16. SameOwner(t, f, fl2, rec2, z)
    BY <1>3, <2>4, <2>6, <2>7, <2>8, <2>10, <2>12, <2>15 DEF SameOwner
  <2> QED BY <1>3, <2>3, <2>16, SameOwnerStep
<1>5. CASE fl = <<>>
  <2> DEFINE f   == Head(rec)
             z   == size[f] - 1
             fl2 == IF z = 0 THEN Tail(<<f>>) ELSE <<f>>
             rec2 == IF z = 0 THEN Append(Tail(rec), f) ELSE Tail(rec)
  <2>1. 0 \notin FreeList  BY PoolAssumption DEF FreeList
  <2>2. rec # <<>> /\ size[f] # 0 /\ get(t, f, <<f>>, Tail(rec), free_size[t], size)
    BY <1>5 DEF alloc_own
  <2>3. /\ Tail(rec) \in Seq(FreeList) /\ NoRepeat(Tail(rec)) /\ f \in Elems(rec)
        /\ Elems(Tail(rec)) = Elems(rec) \ {f}
    BY <1>2, <2>2, ElemsTail
  <2>4. f \in FreeList /\ f \in Own(t) /\ f \notin Elems(Tail(rec))  BY <1>2, <2>3
  <2>5. size[f] \in Nat /\ z \in Nat
    <3>1. size[f] \in Nat  BY <1>1, <2>4
    <3> QED BY <2>2, <3>1
  <2>6. \A g \in Elems(Tail(rec)) : size[g] = 0
    <3>1. rec \in Seq(FreeList) /\ Shape(fl, rec, size) /\ rec # <<>>  BY <1>2, <2>2
    <3> HIDE DEF rec, fl
    <3> QED BY <3>1, ShapeHead
  <2>7. /\ Append(Tail(rec), f) \in Seq(FreeList) /\ NoRepeat(Append(Tail(rec), f))
        /\ Elems(Append(Tail(rec), f)) = Elems(Tail(rec)) \cup {f}
    <3> DEFINE s == Tail(rec)
    <3>1. s \in Seq(FreeList) /\ NoRepeat(s) /\ f \in FreeList /\ f \notin Elems(s)
      BY <2>3, <2>4
    <3> HIDE DEF s, f
    <3>2. /\ Append(s, f) \in Seq(FreeList) /\ NoRepeat(Append(s, f))
          /\ Elems(Append(s, f)) = Elems(s) \cup {f}
      BY <3>1, ElemsPut
    <3> QED BY <3>2 DEF s
  <2>8. /\ size' = [size EXCEPT ![f] = z]
        /\ free_size' = [free_size EXCEPT ![t] = (free_size[t] - 1) % SizeWrap]
        /\ free_list' = [free_list EXCEPT ![t] = fl2]
        /\ recover' = [recover EXCEPT ![t] = rec2] /\ out' = out + 1
    BY <2>2 DEF get
  <2> HIDE DEF f
  <2>9. free_size[t] - 1 = (free_size[t] + z) - size[f]  BY <1>2, <2>5
  <2>10. out' \in Nat /\ z + out' = size[f] + out
    <3>1. out \in Nat /\ out' = out + 1 /\ size[f] \in Nat  BY <1>1, <2>5, <2>8
    <3> QED BY <3>1
  <2>11. size'[f] = z /\ \A g \in FreeList \ {f} : size'[g] = size[g]  BY <1>1, <2>4, <2>8
  <2>12. /\ Tail(<<f>>) = <<>> /\ <<>> \in Seq(FreeList) /\ <<f>> \in Seq(FreeList)
         /\ Elems(<<>>) = {} /\ NoRepeat(<<>>) /\ Elems(<<f>>) = {f} /\ NoRepeat(<<f>>)
    BY <2>4 DEF Elems, NoRepeat
  <2>13. Elems(fl) = {}  BY <1>5, <2>12
  <2> HIDE DEF z
  <2>14. /\ fl2 \in Seq(FreeList) /\ rec2 \in Seq(FreeList) /\ Apart(fl2, rec2)
         /\ Elems(fl2) \cup Elems(rec2) = Own(t)
    BY <1>2, <2>3, <2>4, <2>7, <2>12, <2>13 DEF Apart
  <2>15. \A g \in Elems(fl2) : size'[g] > 0
    <3>1. CASE z = 0  BY <2>12, <3>1
    <3>2. CASE z # 0
      <4>1. size'[f] > 0  BY <2>5, <2>11, <3>2
      <4> QED BY <2>12, <3>2, <4>1
    <3> QED BY <3>1, <3>2
  <2>16. \A g \in Elems(rec2) : size'[g] = 0
    <3>1. \A g \in Elems(Tail(rec)) : size'[g] = 0  BY <1>2, <2>3, <2>6, <2>11
    <3> QED BY <2>7, <2>11, <3>1
  <2> HIDE DEF fl2, rec2
  <2>17. SameOwner(t, f, fl2, rec2, z)
    BY <1>3, <2>5, <2>8, <2>9, <2>10, <2>14, <2>15, <2>16 DEF SameOwner
  <2> QED BY <1>3, <2>4, <2>17, SameOwnerStep
<1> QED BY <1>4, <1>5


\* A list that has all its blocks back goes to the central allocator.
LEMMA GiveBackStep ==
  ASSUME PoolInv, NEW t \in AThread, dealloc_recover(t),
         full(Head(recover[t])), free_size[t] + 1 >= collect_factor
  PROVE  PoolInv'
<1> DEFINE fl   == free_list[t]
           rec  == recover[t]
           f    == Head(rec)
           rec2 == Tail(rec)
           own2 == Elems(fl) \cup Elems(rec2)
           v    == free_size[t] + 1
<1>1. /\ central \in Seq(FreeList) /\ NoRepeat(central)
      /\ size \in [FreeList -> Nat] /\ made \in 0..MaxLists /\ out \in Nat
      /\ giving \in [AThread -> 0..MaxLists]
      /\ FreeList = 1..MaxLists /\ MaxLists \in Nat /\ init_size \in Nat /\ init_size > 1
      /\ free_list = [u \in AThread |-> free_list[u]]
  BY PoolFacts
<1>2. /\ fl \in Seq(FreeList) /\ rec \in Seq(FreeList) /\ NoRepeat(fl) /\ NoRepeat(rec)
      /\ Elems(fl) \cap Elems(rec) = {} /\ Own(t) = Elems(fl) \cup Elems(rec)
      /\ Elems(fl) \subseteq FreeList /\ Elems(rec) \subseteq FreeList
      /\ Own(t) \cap Elems(central) = {} /\ (\A g \in Own(t) : g <= made)
      /\ Shape(fl, rec, size) /\ free_size[t] \in Nat /\ Blocks(Own(t), size) \in Nat
      /\ t \notin raced => free_size[t] = Blocks(Own(t), size) + Given(t)
  BY ThreadFacts
<1>3. /\ giving[t] = 0 /\ out > 0 /\ rec # <<>> /\ size' = [size EXCEPT ![f] = size[f] + 1]
      /\ free_size' = [free_size EXCEPT ![t] = (free_size[t] + 1) % SizeWrap] /\ out' = out - 1
      /\ recover' = [recover EXCEPT ![t] = rec2] /\ central' = Append(central, f)
      /\ giving' = [giving EXCEPT ![t] = f] /\ free_list' = free_list
      /\ made' = made /\ started' = started /\ crashed' = crashed /\ raced' = raced
  BY DEF dealloc_recover, Ready
<1>4. size[f] + 1 = init_size /\ free_size[t] + 1 >= 2 * init_size  BY DEF full, collect_factor
<1>5. /\ rec2 \in Seq(FreeList) /\ NoRepeat(rec2) /\ f \in Elems(rec)
      /\ Elems(rec2) = Elems(rec) \ {f}
  BY <1>2, <1>3, ElemsTail
<1>6. (\A g \in Elems(rec2) : size[g] = 0) /\ size[f] \in Nat
  <2>1. rec \in Seq(FreeList) /\ Shape(fl, rec, size) /\ rec # <<>>  BY <1>2, <1>3
  <2>2. size[f] \in Nat  BY <1>1, <1>2, <1>5
  <2> HIDE DEF rec, fl
  <2> QED BY <2>1, <2>2, ShapeHead
<1> HIDE DEF rec, fl, f, rec2
<1>7. f \in FreeList /\ f \in Own(t) /\ f \notin Elems(central) /\ f <= made
  BY <1>2, <1>5
<1>8. /\ Append(central, f) \in Seq(FreeList) /\ NoRepeat(Append(central, f))
      /\ Elems(Append(central, f)) = Elems(central) \cup {f}
  BY <1>1, <1>7, ElemsPut
<1>9. own2 = Own(t) \ {f} /\ own2 \subseteq FreeList  BY <1>2, <1>5
<1>10. /\ size' \in [FreeList -> Nat] /\ size'[f] = init_size
       /\ (\A g \in FreeList \ {f} : size'[g] = size[g])
  BY <1>1, <1>3, <1>4, <1>7
<1> HIDE DEF own2, v
<1>11. Changes(t, f, fl, rec2)
  <2>1. Apart(fl, rec2)  BY <1>2, <1>5 DEF Apart
  <2>2. \A g \in Elems(rec2) : size'[g] = 0  BY <1>2, <1>5, <1>6, <1>10
  <2>3. \A g \in Elems(fl) : size'[g] > 0
    <3>1. \A g \in Elems(fl) : size[g] > 0  BY <1>2 DEF Shape
    <3> QED BY <1>2, <1>5, <1>10, <3>1
  <2>4. Shape(fl, rec2, size')  BY <2>2, <2>3, ShapeZero
  <2>5. \A g \in FreeList \ {f} : /\ g \in own2 <=> g \in Own(t)
                                  /\ g \in Elems(central') <=> g \in Elems(central)
                                  /\ g <= made' <=> g <= made
    BY <1>3, <1>8, <1>9
  <2>6. f \notin own2 /\ f \in Elems(central') /\ f <= made'  BY <1>3, <1>7, <1>8, <1>9
  <2>7. free_list' = [free_list EXCEPT ![t] = fl]  BY <1>1, <1>3 DEF fl
  <2>8. central' \in Seq(FreeList) /\ NoRepeat(central') /\ made' \in 0..MaxLists
    BY <1>1, <1>3, <1>8
  <2> QED BY <1>2, <1>3, <1>5, <1>7, <1>10, <2>1, <2>4, <2>5, <2>6, <2>7, <2>8 DEF Changes, own2
<1>12. CountsOn(t, f, own2, v)
  <2>1. v = free_size[t] + 1 /\ v \in Nat  BY <1>2 DEF v
  <2>2. ASSUME t \notin raced PROVE v = Blocks(own2, size') + Given(t)' /\ own2 # {}
    <3>1. Given(t)' = init_size /\ Given(t) = 0
      <4>1. giving'[t] = f /\ f # 0  BY <1>1, <1>3, <1>7
      <4> QED BY <1>3, <4>1 DEF Given
    <3>2. SameBut(f, Own(t), own2, size, size')
      BY <1>9, <1>10 DEF SameBut
    <3>3. size \in [FreeList -> Nat] /\ size' \in [FreeList -> Nat] /\ f \in FreeList
      BY <1>1, <1>7, <1>10
    <3>4. Blocks(own2, size') + (IF f \in Own(t) THEN size[f] ELSE 0)
            = Blocks(Own(t), size) + (IF f \in own2 THEN size'[f] ELSE 0)
      BY <3>2, <3>3, BlocksChange
    <3>5. Blocks(own2, size') \in Nat  BY <3>3, SizeOfType
    <3>6. Blocks(own2, size') + size[f] = Blocks(Own(t), size)  BY <1>2, <1>7, <1>9, <3>4
    <3>7. free_size[t] = Blocks(Own(t), size)  BY <1>2, <2>2, <3>1
    <3>8. v = Blocks(own2, size') + init_size /\ Blocks(own2, size') > 0
      <4> DEFINE a == Blocks(own2, size')
                 b == free_size[t]
                 x == size[f]
      <4>1. a \in Nat /\ b \in Nat /\ x \in Nat /\ init_size \in Nat /\ init_size > 1
        BY <1>1, <1>2, <1>6, <3>5
      <4>2. a + x = b /\ v = b + 1 /\ x + 1 = init_size /\ b + 1 >= 2 * init_size
        BY <1>4, <2>1, <3>6, <3>7
      <4> HIDE DEF a, b, x
      <4>3. v = a + init_size /\ a > 0  BY <4>1, <4>2
      <4> QED BY <4>3 DEF a
    <3>9. own2 # {}
      <4> SUFFICES ASSUME own2 = {} PROVE FALSE  OBVIOUS
      <4>1. \A g \in FreeList \cap own2 : size'[g] = 0  OBVIOUS
      <4>2. Blocks(own2, size') = 0  BY <3>3, <4>1, BlocksZero
      <4> QED BY <3>8, <4>2
    <3> QED BY <3>1, <3>8, <3>9
  <2>3. (size'[f] + out') + init_size * made = (size[f] + out) + init_size * made'
    <3>1. size'[f] + out' = size[f] + out  BY <1>1, <1>3, <1>4, <1>6, <1>10
    <3> QED BY <1>3, <3>1
  <2>4. /\ giving' \in [AThread -> 0..MaxLists] /\ (\A u \in AThread \ {t} : giving'[u] = giving[u])
    BY <1>1, <1>3, <1>7
  <2>5. out' \in Nat  BY <1>1, <1>3
  <2> QED BY <1>3, <2>1, <2>2, <2>3, <2>4, <2>5 DEF CountsOn
<1> QED BY <1>7, <1>11, <1>12, CountStep DEF own2

\* A block that comes back into the list being recovered.
LEMMA RecoverStep ==
  ASSUME PoolInv, NEW t \in AThread, dealloc_recover(t)
  PROVE  PoolInv'
<1> DEFINE fl   == free_list[t]
           rec  == recover[t]
           f    == Head(rec)
           z    == size[f] + 1
           back == free_size[t] + 1 >= collect_factor
           fl2  == IF full(f) THEN Append(fl, f) ELSE fl
           rec2 == IF full(f) THEN Tail(rec) ELSE rec
<1>1. CASE full(f) /\ back  BY <1>1, GiveBackStep
<1>2. CASE ~(full(f) /\ back)
  <2>1. /\ size \in [FreeList -> Nat] /\ out \in Nat /\ init_size \in Nat /\ init_size > 1
        /\ free_list = [u \in AThread |-> free_list[u]]
        /\ recover = [u \in AThread |-> recover[u]]
    BY PoolFacts
  <2>2. /\ fl \in Seq(FreeList) /\ rec \in Seq(FreeList) /\ NoRepeat(fl) /\ NoRepeat(rec)
        /\ Elems(fl) \cap Elems(rec) = {} /\ Own(t) = Elems(fl) \cup Elems(rec)
        /\ Elems(fl) \subseteq FreeList /\ Elems(rec) \subseteq FreeList
        /\ Shape(fl, rec, size) /\ free_size[t] \in Nat
    BY ThreadFacts
  <2>3. /\ giving[t] = 0 /\ out > 0 /\ rec # <<>> /\ size' = [size EXCEPT ![f] = z]
        /\ free_size' = [free_size EXCEPT ![t] = (free_size[t] + 1) % SizeWrap] /\ out' = out - 1
        /\ central' = central /\ made' = made /\ started' = started /\ giving' = giving
        /\ crashed' = crashed /\ raced' = raced
    BY <1>2 DEF dealloc_recover, Ready
  <2>4. free_list' = [free_list EXCEPT ![t] = fl2] /\ recover' = [recover EXCEPT ![t] = rec2]
    <3>1. CASE full(f)  BY <1>2, <3>1 DEF dealloc_recover
    <3>2. CASE ~full(f)
      <4>1. free_list' = free_list /\ recover' = recover  BY <3>2 DEF dealloc_recover
      <4> QED BY <2>1, <3>2, <4>1
    <3> QED BY <3>1, <3>2
  <2>5. /\ Tail(rec) \in Seq(FreeList) /\ NoRepeat(Tail(rec)) /\ f \in Elems(rec)
        /\ Elems(Tail(rec)) = Elems(rec) \ {f}
    BY <2>2, <2>3, ElemsTail
  <2>6. f \in FreeList /\ f \in Own(t) /\ f \notin Elems(fl)  BY <2>2, <2>5
  <2>7. /\ size[f] \in 0..(init_size - 1) /\ \A g \in Elems(Tail(rec)) : size[g] = 0
    <3>1. rec \in Seq(FreeList) /\ Shape(fl, rec, size) /\ rec # <<>>  BY <2>2, <2>3
    <3> HIDE DEF rec, fl
    <3> QED BY <3>1, ShapeHead
  <2>8. /\ Append(fl, f) \in Seq(FreeList) /\ NoRepeat(Append(fl, f))
        /\ Elems(Append(fl, f)) = Elems(fl) \cup {f}
    BY <2>2, <2>6, ElemsPut
  <2>9. size[f] \in Nat /\ z \in Nat /\ z > 0 /\ (full(f) <=> z = init_size) /\ z <= init_size
    <3>1. size[f] \in Nat /\ size[f] <= init_size - 1  BY <2>1, <2>7
    <3> QED BY <2>1, <3>1 DEF full
  <2>10. Len(rec) \in Nat /\ rec[1] = f  BY <2>2, <2>3
  <2> HIDE DEF rec, fl, f
  <2>11. size'[f] = z /\ \A g \in FreeList \ {f} : size'[g] = size[g]  BY <2>1, <2>3, <2>6
  <2>12. /\ fl2 \in Seq(FreeList) /\ rec2 \in Seq(FreeList) /\ Apart(fl2, rec2)
         /\ Elems(fl2) \cup Elems(rec2) = Own(t)
    BY <2>2, <2>5, <2>8 DEF Apart
  <2>13. \A g \in Elems(fl2) : size'[g] > 0
    <3>1. \A g \in Elems(fl) : size[g] > 0  BY <2>2 DEF Shape
    <3>2. \A g \in Elems(fl) : size'[g] > 0  BY <2>2, <2>6, <2>11, <3>1
    <3> QED BY <2>8, <2>9, <2>11, <3>2
  <2>14. (\A g \in Elems(rec2) : size'[g] = 0) \/ Shape(fl2, rec2, size')
    <3>1. CASE full(f)
      <4>1. rec2 = Tail(rec)  BY <3>1
      <4> QED BY <2>2, <2>5, <2>7, <2>11, <4>1
    <3>2. CASE ~full(f)
      <4>1. rec2 = rec /\ fl2 = fl  BY <3>2
      <4>2. z \in 0..(init_size - 1)  BY <2>1, <2>9, <3>2
      <4>3. ASSUME NEW k \in 1..Len(rec), k # 1 PROVE size'[rec[k]] = 0
        <5>1. 1 \in 1..Len(rec)  BY <2>10
        <5>2. rec[k] # f  BY <2>2, <2>10, <4>3, <5>1 DEF NoRepeat
        <5>3. rec[k] \in Elems(rec)  BY DEF Elems
        <5>4. size[rec[k]] = 0  BY <2>2, <4>3 DEF Shape
        <5> QED BY <2>2, <2>11, <5>2, <5>3, <5>4
      <4>4. Shape(fl, rec, size')  BY <2>10, <2>11, <2>13, <4>1, <4>2, <4>3 DEF Shape
      <4> QED BY <4>1, <4>4
    <3> QED BY <3>1, <3>2
  <2>15. out' \in Nat /\ z + out' = size[f] + out
    <3>1. out \in Nat /\ out > 0 /\ out' = out - 1 /\ size[f] \in Nat  BY <2>1, <2>3, <2>9
    <3> QED BY <3>1
  <2>16. free_size[t] + 1 = (free_size[t] + z) - size[f]  BY <2>2, <2>9
  <2> HIDE DEF z, fl2, rec2
  <2>17. SameOwner(t, f, fl2, rec2, z)
    BY <2>3, <2>4, <2>9, <2>12, <2>13, <2>14, <2>15, <2>16 DEF SameOwner
  <2> QED BY <2>3, <2>6, <2>17, SameOwnerStep
<1> QED BY <1>1, <1>2


\* Nothing to recover: the block goes into the first list.
LEMMA FreeStep ==
  ASSUME PoolInv, NEW t \in AThread, dealloc_free(t), ~crashed'
  PROVE  PoolInv'
<1> DEFINE fl  == free_list[t]
           rec == recover[t]
           f   == Head(fl)
           z   == size[f] + 1
<1>1. /\ size \in [FreeList -> Nat] /\ out \in Nat
      /\ free_list = [u \in AThread |-> free_list[u]]
      /\ recover = [u \in AThread |-> recover[u]]
  BY PoolFacts
<1>2. /\ fl \in Seq(FreeList) /\ rec \in Seq(FreeList) /\ NoRepeat(fl) /\ NoRepeat(rec)
      /\ Elems(fl) \cap Elems(rec) = {} /\ Own(t) = Elems(fl) \cup Elems(rec)
      /\ Elems(fl) \subseteq FreeList
      /\ Shape(fl, rec, size) /\ free_size[t] \in Nat
  BY ThreadFacts
<1>3. fl # <<>>  BY DEF dealloc_free
<1>4. /\ giving[t] = 0 /\ out > 0 /\ rec = <<>> /\ size' = [size EXCEPT ![f] = z]
      /\ free_size' = [free_size EXCEPT ![t] = (free_size[t] + 1) % SizeWrap] /\ out' = out - 1
      /\ central' = central /\ made' = made /\ started' = started /\ giving' = giving
      /\ crashed' = crashed /\ raced' = raced /\ free_list' = free_list /\ recover' = recover
  BY <1>3 DEF dealloc_free, Ready
<1>5. f \in Elems(fl)  BY <1>2, <1>3, ElemsTail
<1>6. f \in FreeList /\ f \in Own(t)  BY <1>2, <1>5
<1>7. size[f] \in Nat /\ z \in Nat /\ z > 0
  <2>1. size[f] \in Nat  BY <1>1, <1>6
  <2> QED BY <2>1
<1> HIDE DEF f
<1>8. size'[f] = z /\ \A g \in FreeList \ {f} : size'[g] = size[g]  BY <1>1, <1>4, <1>6
<1>9. \A g \in Elems(fl) : size'[g] > 0
  <2>1. \A g \in Elems(fl) : size[g] > 0  BY <1>2 DEF Shape
  <2> QED BY <1>2, <1>7, <1>8, <2>1
<1>10. \A g \in Elems(rec) : size'[g] = 0  BY <1>4 DEF Elems
<1>11. Apart(fl, rec)  BY <1>2 DEF Apart
<1>12. out' \in Nat /\ z + out' = size[f] + out
  <2>1. out \in Nat /\ out > 0 /\ out' = out - 1 /\ size[f] \in Nat  BY <1>1, <1>4, <1>7
  <2> QED BY <2>1
<1>13. free_size[t] + 1 = (free_size[t] + z) - size[f]  BY <1>2, <1>7
<1>14. free_list' = [free_list EXCEPT ![t] = fl] /\ recover' = [recover EXCEPT ![t] = rec]
  BY <1>1, <1>4
<1> HIDE DEF fl, rec, z
<1>15. SameOwner(t, f, fl, rec, z)
  BY <1>2, <1>4, <1>7, <1>9, <1>10, <1>11, <1>12, <1>13, <1>14 DEF SameOwner
<1> QED BY <1>4, <1>6, <1>15, SameOwnerStep

\* A thread that has not raced never follows a null pointer.
LEMMA CrashStep ==
  ASSUME PoolInv, NEW t \in AThread, alloc_own(t) \/ dealloc_free(t), crashed'
  PROVE  PoolInv'
<1>1. /\ size \in [FreeList -> Nat] /\ giving \in [AThread -> 0..MaxLists]
  BY PoolFacts
<1>2. /\ free_list[t] \in Seq(FreeList) /\ recover[t] \in Seq(FreeList)
      /\ Own(t) = Elems(free_list[t]) \cup Elems(recover[t])
      /\ Shape(free_list[t], recover[t], size)
      /\ t \notin raced => /\ free_size[t] = Blocks(Own(t), size) + Given(t)
                           /\ t \in started => Own(t) # {}
  BY ThreadFacts
<1>3. /\ central' = central /\ size' = size /\ made' = made /\ free_list' = free_list
      /\ recover' = recover /\ free_size' = free_size /\ started' = started
      /\ giving' = giving /\ out' = out /\ raced' = raced /\ giving[t] = 0
  BY DEF alloc_own, dealloc_free, Ready, Going
<1>4. Elems(<<>>) = {}  BY DEF Elems
<1>5. t \in raced
  <2> SUFFICES ASSUME t \notin raced PROVE FALSE  OBVIOUS
  <2>1. CASE dealloc_free(t)
    <3>1. 0 \notin FreeList  BY PoolAssumption DEF FreeList
    <3>2. free_list[t] # <<>> => Head(free_list[t]) \in FreeList  BY <1>2
    <3>3. ~crashed /\ t \in started /\ free_list[t] = <<>> /\ recover[t] = <<>>
      BY <2>1, <3>1, <3>2 DEF dealloc_free, Ready, Going
    <3> QED BY <1>2, <1>4, <3>3
  <2>2. CASE alloc_own(t)
    <3>1. 0 \notin FreeList  BY PoolAssumption DEF FreeList
    <3>2. free_list[t] # <<>> => Head(free_list[t]) \in Elems(free_list[t])
      <4>1. free_list[t] # <<>> => 1 \in 1..Len(free_list[t]) /\ Head(free_list[t]) = free_list[t][1]
        BY <1>2
      <4> QED BY <4>1 DEF Elems
    <3>3. free_list[t] # <<>> => size[Head(free_list[t])] > 0 /\ Head(free_list[t]) \in FreeList
      BY <1>2, <3>2 DEF Shape
    <3>4. ~crashed /\ free_size[t] > 0 /\ free_list[t] = <<>>
          /\ (recover[t] = <<>> \/ size[Head(recover[t])] = 0)
      <4>1. ~crashed /\ free_size[t] > 0  BY <2>2 DEF alloc_own, Ready, Going
      <4>2. free_list[t] = <<>>
        <5> SUFFICES ASSUME free_list[t] # <<>> PROVE FALSE  OBVIOUS
        <5>1. size[Head(free_list[t])] # 0 /\ Head(free_list[t]) # 0  BY <1>1, <3>1, <3>3
        <5> QED BY <2>2, <4>1, <5>1 DEF alloc_own
      <4>3. recover[t] # <<>> => Head(recover[t]) # 0  BY <1>2, <3>1
      <4> QED BY <2>2, <4>1, <4>2, <4>3 DEF alloc_own
    <3>5. \A g \in Elems(recover[t]) : size[g] = 0
      <4>1. CASE recover[t] = <<>>  BY <1>4, <4>1
      <4>2. CASE recover[t] # <<>>
        <5>1. size[Head(recover[t])] = 0  BY <3>4, <4>2
        <5> DEFINE fl  == free_list[t]
                   rec == recover[t]
        <5>2. rec \in Seq(FreeList) /\ Shape(fl, rec, size) /\ rec # <<>> /\ size[Head(rec)] = 0
          BY <1>2, <4>2, <5>1
        <5> HIDE DEF fl, rec
        <5>3. \A g \in Elems(rec) : size[g] = 0  BY <5>2, ShapeHead
        <5> QED BY <5>3 DEF rec
      <4> QED BY <4>1, <4>2
    <3>6. \A g \in FreeList \cap Own(t) : size[g] = 0  BY <1>2, <1>4, <3>4, <3>5
    <3>7. Blocks(Own(t), size) = 0  BY <1>1, <3>6, BlocksZero
    <3> QED BY <1>2, <1>3, <3>4, <3>7 DEF Given
  <2> QED BY <2>1, <2>2
<1>6. PoolTypes' /\ Places' /\ Sizes'
  BY <1>3 DEF PoolInv, PoolTypes, Places, Sizes, Own, Apart, Shape
<1>7. Counts'  BY <1>3, <1>5 DEF PoolInv, Counts, Own, Given, Blocks, FreeList
<1> QED BY <1>6, <1>7 DEF PoolInv

\* The size of a list that was given back is taken off; a size that a new owner
\* has changed makes this thread one that raced.
LEMMA SubtractStep ==
  ASSUME PoolInv, NEW t \in AThread, Subtract(t)
  PROVE  PoolInv'
<1> DEFINE n == size[giving[t]]
<1>0. PoolTypes /\ Counts  BY DEF PoolInv
<1>1. /\ size \in [FreeList -> Nat] /\ giving \in [AThread -> 0..MaxLists]
      /\ FreeList = 1..MaxLists /\ MaxLists \in Nat /\ init_size \in Nat /\ init_size > 1
      /\ free_size \in [AThread -> Nat]
  BY PoolFacts
<1>2. /\ giving[t] # 0 /\ free_size' = [free_size EXCEPT ![t] = (free_size[t] - n) % SizeWrap]
      /\ giving' = [giving EXCEPT ![t] = 0]
      /\ raced' = (IF n = init_size THEN raced ELSE raced \cup {t})
      /\ central' = central /\ size' = size /\ made' = made /\ free_list' = free_list
      /\ recover' = recover /\ started' = started /\ out' = out /\ crashed' = crashed
  BY DEF Subtract
<1>3. n \in Nat  BY <1>1, <1>2
<1>4. SizeWrap \in Nat \ {0} /\ free_size[t] \in Nat
  <2>1. init_size * MaxLists \in Nat  BY PoolAssumption
  <2>2. SizeWrap \in Nat \ {0}  BY <2>1, PoolAssumption
  <2> QED BY <1>1, <2>2
<1> HIDE DEF n
<1>5. ((free_size[t] - n) % SizeWrap) \in Nat
  <2>1. free_size[t] - n \in Int  BY <1>3, <1>4
  <2>2. ((free_size[t] - n) % SizeWrap) \in 0..(SizeWrap - 1)  BY <1>4, <2>1, ModRange
  <2> QED BY <1>4, <2>2
<1>6. PoolTypes'
  <2>1. free_size' \in [AThread -> Nat] /\ giving' \in [AThread -> 0..MaxLists]
    BY <1>1, <1>2, <1>5
  <2> QED BY <1>0, <1>2, <2>1 DEF PoolTypes, FreeList
<1>7. Places' /\ Sizes'
  BY <1>2 DEF PoolInv, Places, Sizes, Own, Apart, Shape, FreeList
<1>8. \A u \in AThread : Own(u)' = Own(u) /\ Blocks(Own(u), size)' = Blocks(Own(u), size)
  BY <1>2 DEF Own, Blocks, FreeList
<1>9. Blocks(FreeList, size)' + out' = (init_size * made)'
  BY <1>0, <1>2 DEF Counts, Blocks, FreeList
<1>10. ASSUME NEW u \in AThread \ raced'
       PROVE  /\ free_size'[u] = Blocks(Own(u), size)' + Given(u)'
              /\ u \in started' => Own(u)' # {}
  <2>1. u \in AThread \ raced  BY <1>2
  <2>2. free_size[u] = Blocks(Own(u), size) + Given(u) /\ (u \in started => Own(u) # {})
    BY <1>0, <2>1 DEF Counts
  <2>3. CASE u # t
    <3>1. free_size'[u] = free_size[u] /\ giving'[u] = giving[u]  BY <1>1, <1>2, <2>3
    <3>2. Given(u)' = Given(u)  BY <3>1 DEF Given
    <3> QED BY <1>2, <1>8, <2>2, <3>1, <3>2
  <2>4. CASE u = t
    <3>1. n = init_size  BY <1>2, <2>4
    <3>2. Given(t) = init_size /\ Given(t)' = 0  BY <1>1, <1>2 DEF Given
    <3>3. Blocks(Own(t), size) \in Nat /\ Blocks(Own(t), size) + init_size < SizeWrap
      BY <1>0, BlocksNat
    <3> DEFINE b == Blocks(Own(t), size)
               x == free_size[t] - n
    <3>4. b \in Nat /\ x \in Int /\ x = b /\ b < SizeWrap
      BY <1>1, <1>4, <2>2, <2>4, <3>1, <3>2, <3>3
    <3> HIDE DEF b, x
    <3>5. (x % SizeWrap) = b  BY <1>4, <3>4, ModInt
    <3>6. free_size'[t] = b  BY <1>1, <1>2, <3>5 DEF x
    <3>7. free_size'[t] = Blocks(Own(t), size)' + Given(t)'
      BY <1>8, <3>2, <3>4, <3>6 DEF b
    <3> QED BY <1>2, <1>8, <2>2, <2>4, <3>7
  <2> QED BY <2>3, <2>4
<1>11. crashed' => raced' # {}  BY <1>0, <1>2 DEF Counts
<1>12. Counts'  BY <1>9, <1>10, <1>11 DEF Counts
<1> QED BY <1>6, <1>7, <1>12 DEF PoolInv

\* What leaves the lists and the counts alone.
LEMMA IdleStep ==
  ASSUME PoolInv,
         UNCHANGED <<central, size, made, free_list, recover, free_size, started, giving,
                     out, crashed, raced>>
  PROVE  PoolInv'
<1>1. PoolTypes' /\ Places' /\ Sizes'
  BY DEF PoolInv, PoolTypes, Places, Sizes, Own, Apart, Shape
<1>2. Counts'  BY DEF PoolInv, Counts, Own, Given, Blocks, FreeList
<1> QED BY <1>1, <1>2 DEF PoolInv

LEMMA PoolSteps == PoolInv /\ [PoolNext]_avars => PoolInv'
<1> SUFFICES ASSUME PoolInv, [PoolNext]_avars PROVE PoolInv'  OBVIOUS
<1>1. CASE UNCHANGED avars  BY <1>1, IdleStep DEF avars
<1>2. ASSUME NEW t \in AThread, alloc_central(t) PROVE PoolInv'  BY <1>2, CentralStep
<1>3. ASSUME NEW t \in AThread, alloc_own(t) PROVE PoolInv'  BY <1>3, OwnStep, CrashStep
<1>4. ASSUME NEW t \in AThread, dealloc_recover(t) PROVE PoolInv'  BY <1>4, RecoverStep
<1>5. ASSUME NEW t \in AThread, dealloc_free(t) PROVE PoolInv'  BY <1>5, FreeStep, CrashStep
<1>6. ASSUME NEW t \in AThread, Subtract(t) PROVE PoolInv'  BY <1>6, SubtractStep
<1>7. ASSUME NEW t \in AThread, spin_unlock(t) PROVE PoolInv'
  BY <1>7, IdleStep DEF spin_unlock
<1>8. ASSUME NEW t \in AThread, Intrude(t) PROVE PoolInv'  BY <1>8, IdleStep DEF Intrude
<1> QED BY <1>1, <1>2, <1>3, <1>4, <1>5, <1>6, <1>7, <1>8 DEF PoolNext

\* thread_allocator_alloc and thread_allocator_dealloc (118-177), for any number
\* of threads and lists: until a second thread comes inside the lock of the
\* central list (spin_lock(mtx, 4000) lets it in, and the model stops there), no
\* free list has two owners or none and the lists keep the shape that both ends
\* rely on, and as long as no thread has read the size of a list it no longer
\* owned (164) every free_size is the number of blocks held and no null pointer
\* is followed.
THEOREM PoolCorrect == PoolSpec => []PoolSound
<1>1. PoolInit => PoolInv  BY PoolStart
<1>2. PoolInv /\ [PoolNext]_avars => PoolInv'  BY PoolSteps
<1>3. PoolInv => PoolSound  BY PoolSoundFromInv
<1> QED BY <1>1, <1>2, <1>3, PTL DEF PoolSpec
=============================================================================
