----------------------------- MODULE TimingWheel -----------------------------
(***************************************************************************)
(* timing_wheel.c.  A slot's chain is a sequence; callbacks run one at a   *)
(* time and may register and unregister timers; the clock goes on under    *)
(* them and wraps around, as the 32-bit milliseconds do.  Callers register *)
(* a timer that is not registered, and unregister one that is in a slot    *)
(* (a fired item has slot 0, so unregistering it would clear slot 0).      *)
(***************************************************************************)
EXTENDS Integers, Sequences, SequencesExt, ListOps

CONSTANTS
  Item, precision, slot_size,
  Timeouts,     \* what callers ask for
  ClockWrap,    \* the modulus of the clock, 2^32 in the code
  MaxGap        \* bound: time between two updates

\* A timeout, and the time since the last update, fit into the clock.
ASSUME WheelAssumption ==
  /\ precision \in Nat \ {0} /\ slot_size \in Nat \ {0}
  /\ MaxGap \in Nat /\ ClockWrap \in Nat /\ MaxGap < ClockWrap
  /\ Timeouts \subseteq Nat /\ \A t \in Timeouts : MaxGap + t < ClockWrap

VARIABLES
  now, last_update, current,
  slot,         \* the chains
  updating,     \* [i, interval, now] of UpdateWheel, or idle
  firing,       \* the rest of the chain Active walks
  left          \* ghost: time left until the timeout asked for

wvars == <<now, last_update, current, slot, updating, firing, left>>

Idle == [i |-> 0, interval |-> 0, now |-> 0]
Chained(x) == \E i \in DOMAIN slot : x \in ToSet(slot[i])
Registered(x) == Chained(x) \/ x \in ToSet(firing)
Gap == (now - last_update) % ClockWrap

\* CreateTimingWheel; slot[] is taken to be zero, which malloc does not promise.
WheelInit ==
  /\ now \in {0, ClockWrap - 1} /\ last_update = now /\ current = 0
  /\ slot = [i \in 0 .. slot_size - 1 |-> <<>>]
  /\ updating = Idle /\ firing = <<>>
  /\ left = [x \in Item |-> 0]

Tick ==
  /\ Gap < MaxGap
  /\ now' = (now + 1) % ClockWrap
  /\ left' = [x \in Item |-> IF left[x] > 0 THEN left[x] - 1 ELSE 0]
  /\ UNCHANGED <<last_update, current, slot, updating, firing>>

\* Mutant: counted from the current slot, whatever time passed since the update.
slots_ahead_now(timeout) == (timeout - precision) \div precision

slots_ahead(timeout) == ((now + timeout - last_update - precision) % ClockWrap) \div precision

RegisterTimer(x, timeout) ==
  LET t == IF timeout < precision THEN precision ELSE timeout
      n == slots_ahead(t)
  IN  /\ ~Registered(x)
      /\ n < slot_size                          \* else -1
      /\ slot' = [slot EXCEPT ![(current + n) % slot_size] = <<x>> \o @]
      /\ left' = [left EXCEPT ![x] = t]
      /\ UNCHANGED <<now, last_update, current, updating, firing>>

UnRegisterTimer(x) ==
  /\ Chained(x)
  /\ slot' = [i \in DOMAIN slot |-> Without(slot[i], {x})]
  /\ left' = [left EXCEPT ![x] = 0]
  /\ UNCHANGED <<now, last_update, current, updating, firing>>

\* Nothing happens before a precision has passed.
UpdateWheel ==
  /\ updating = Idle /\ Gap >= precision
  /\ updating' = [i |-> 0, interval |-> Gap \div precision, now |-> now]
  /\ UNCHANGED <<now, last_update, current, slot, firing, left>>

More == updating.i < updating.interval /\ updating.i < slot_size

\* Active takes the whole chain of the next slot.
Active ==
  LET s == (current + updating.i) % slot_size
  IN  /\ updating # Idle /\ firing = <<>> /\ More
      /\ firing' = slot[s]
      /\ slot' = [slot EXCEPT ![s] = <<>>]
      /\ updating' = [updating EXCEPT !.i = @ + 1]
      /\ UNCHANGED <<now, last_update, current, left>>

\* The item is unlinked, then its callback runs: what it does comes next.
Callback ==
  /\ firing # <<>>
  /\ firing' = Tail(firing)
  /\ UNCHANGED <<now, last_update, current, slot, updating, left>>

\* Mutant: the current slot stays where it is.
UpdateEndStays ==
  /\ updating # Idle /\ firing = <<>> /\ ~More
  /\ last_update' = updating.now
  /\ updating' = Idle
  /\ UNCHANGED <<now, current, slot, firing, left>>

\* The remainder of the interval is dropped: last_update is now.
UpdateEnd ==
  /\ updating # Idle /\ firing = <<>> /\ ~More
  /\ current' = (current + updating.i) % slot_size
  /\ last_update' = updating.now
  /\ updating' = Idle
  /\ UNCHANGED <<now, slot, firing, left>>

WheelNext ==
  \/ Tick
  \/ \E x \in Item : UnRegisterTimer(x) \/ \E t \in Timeouts : RegisterTimer(x, t)
  \/ UpdateWheel \/ Active \/ Callback \/ UpdateEnd

\* The clock runs, and the thread that owns the wheel updates it again and again.
WheelSpec ==
  /\ WheelInit /\ [][WheelNext]_wvars
  /\ WF_wvars(Tick) /\ WF_wvars(UpdateWheel)
  /\ WF_wvars(Active) /\ WF_wvars(Callback) /\ WF_wvars(UpdateEnd)

-----------------------------------------------------------------------------
(* Properties.                                                             *)

\* A timer never fires a whole precision early, although its slot is computed
\* from the last update, the remainder of every interval is dropped, callbacks
\* register timers in the middle of an update, and the clock wraps around.
NotEarly ==
  [][\A x \in Item :
       x \in ToSet(firing) /\ x \notin ToSet(firing') => left[x] < precision]_wvars

\* A timer in the wheel fires or is unregistered: no slot is skipped when an
\* update runs over several of them or around the end of the wheel.
TimerFires == \A x \in Item : Chained(x) ~> ~Chained(x)
=============================================================================
