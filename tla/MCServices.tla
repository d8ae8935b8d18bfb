----------------------------- MODULE MCServices -----------------------------
(***************************************************************************)
(* The parts of the library in which threads, timers or coroutines run     *)
(* beside each other.  They share no state: a behaviour belongs to one of  *)
(* them, and the others stay in one initial state.                         *)
(***************************************************************************)
EXTENDS Spinlock, BlockQueue, Threads, BlockAllocator, Log, Connector, TimingWheel, CoSche

VARIABLE part

BlockOrTime == {-1, 0, 1}

servicesVars ==
  <<part, vars, qvars, tvars, avars, logvars, nvars, wvars, covars>>

ServicesInit ==
  /\ part \in {"spinlock", "queue", "threads", "allocator", "log", "connector", "wheel", "coro"}
  /\ Init /\ QInit /\ TInit /\ PoolInit /\ LogInit /\ ConnInit /\ WheelInit /\ CoInit
  /\ part # "spinlock" => count = 0
  /\ part # "threads" => wait_count = 2
  /\ part # "wheel" => now = 0

Spinning == part = "spinlock" /\ Next
              /\ UNCHANGED <<part, qvars, tvars, avars, logvars, nvars, wvars, covars>>
Queueing == part = "queue" /\ QNext
              /\ UNCHANGED <<part, vars, tvars, avars, logvars, nvars, wvars, covars>>
Meeting == part = "threads" /\ TNext
              /\ UNCHANGED <<part, vars, qvars, avars, logvars, nvars, wvars, covars>>
Allocating == part = "allocator" /\ PoolNext
              /\ UNCHANGED <<part, vars, qvars, tvars, logvars, nvars, wvars, covars>>
Logging == part = "log" /\ LogNext
              /\ UNCHANGED <<part, vars, qvars, tvars, avars, nvars, wvars, covars>>
Connecting == part = "connector" /\ ConnNext
              /\ UNCHANGED <<part, vars, qvars, tvars, avars, logvars, wvars, covars>>
Timing == part = "wheel" /\ WheelNext
              /\ UNCHANGED <<part, vars, qvars, tvars, avars, logvars, nvars, covars>>
Scheduling == part = "coro" /\ CoNext
              /\ UNCHANGED <<part, vars, qvars, tvars, avars, logvars, nvars, wvars>>

ServicesNext ==
  \/ Spinning \/ Queueing \/ Meeting \/ Allocating
  \/ Logging \/ Connecting \/ Timing \/ Scheduling

\* The fairness of each part, in the behaviours that belong to it.
ServicesFairness ==
  /\ \A t \in Thread :
       WF_vars(/\ part = "spinlock"
               /\ (Try(t) \/ Cas(t) \/ Locked(t) \/ Unlocked(t)) /\ UNCHANGED count)
  /\ \A p \in Producer : WF_qvars(part = "queue" /\ PushSignal(p))
  /\ WF_qvars(part = "queue" /\ ForceSignal)
  /\ \A c \in Consumer : WF_qvars(part = "queue" /\ Pop(c))
  /\ \A t \in PThread : WF_tvars(part = "threads" /\ Wakes(t))
  /\ WF_logvars(part = "log" /\ Worker)
  /\ WF_logvars(part = "log" /\ Join)
  /\ WF_nvars(part = "connector" /\ Run)
  /\ WF_nvars(part = "connector" /\ RunTimeOver)
  /\ \A p \in Conn : WF_nvars(part = "connector" /\ Expire(p))
  /\ WF_wvars(part = "wheel" /\ Tick)
  /\ WF_wvars(part = "wheel" /\ UpdateWheel)
  /\ WF_wvars(part = "wheel" /\ Active)
  /\ WF_wvars(part = "wheel" /\ Callback)
  /\ WF_wvars(part = "wheel" /\ UpdateEnd)
  /\ WF_covars(part = "coro" /\ Schedule)
  /\ \A c \in Coro : WF_covars(part = "coro" /\ RunCoro(c))

ServicesSpec == ServicesInit /\ [][ServicesNext]_servicesVars /\ ServicesFairness
=============================================================================
