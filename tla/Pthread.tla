------------------------------ MODULE Pthread -------------------------------
(***************************************************************************)
(* The mutex and the condition variable of the POSIX-style API             *)
(* (src/api/cxloom_mem.cpp) and the CooperativeCondition they wait on      *)
(* (include/cxloom/common/condition.h).                                    *)
(*                                                                         *)
(* In a runtime of one host (~distributed) all threads share one ClMutex   *)
(* and one ClCond.  In a runtime of several, each host has a handle of     *)
(* its own: a gate for the host's threads, behind which the winner takes   *)
(* the write lease of the shared object; the condition is a shared object  *)
(* of two bit sets that waiters poll.                                      *)
(*                                                                         *)
(* The application is the one condition variables are made for: consumers  *)
(* wait while there is no item, producers add items and signal after       *)
(* unlocking.  Handles are neither created nor destroyed here, the write   *)
(* lease of the mutex object is taken in any order (module Token says how  *)
(* it travels), and a change of the condition object under its lease       *)
(* (ChangeCondition) is one step.                                          *)
(***************************************************************************)
EXTENDS Integers, Sequences, FiniteSets, SequencesExt, FiniteSetsExt

CONSTANTS
  Hosts,        \* the hosts of the distributed case
  Home,         \* the only host of the local case
  Threads,      \* execution contexts
  HostOf,       \* HostOf[t]: the host of thread t in the distributed case
  Puts,         \* Puts[t]: items t produces; 0 for a consumer
  Timed,        \* consumers that use cl_pthread_cond_timedwait
  Triers,       \* threads that begin with a cl_pthread_mutex_trylock
  Stagers,      \* threads whose staged writes may fail to be released
  NumBits,      \* bits of SharedCondition.waiting, 64 in the code
  None          \* no thread, no host

ASSUME ThreadsAssumption ==
  /\ Home \in Hosts /\ HostOf \in [Threads -> Hosts]
  /\ Puts \in [Threads -> Nat]
  /\ Timed \subseteq Threads /\ Triers \subseteq Threads /\ Stagers \subseteq Threads
  /\ None \notin Threads \cup Hosts
ASSUME BitsAssumption == NumBits \in Nat \ {0}

Bits == 1 .. NumBits

VARIABLES
  distributed,  \* ClMutex::distributed, ClCond::distributed
  owner,        \* owner[h]: ClMutex::locked and owner of host h's handle
  gate,         \* gate[h]: the waiters of ClMutex::available, in order
  lease,        \* the host that holds the mutex object's write lease
  waiting,      \* SharedCondition.waiting
  ready,        \* SharedCondition.ready
  value,        \* the waiters of ClCond::value, in order (local case)
  guard,        \* the thread that keeps ClCond::guard (local case)
  run,          \* run[t]: where t is, its bit, and what it knows
  items         \* the application's shared variable

vars == <<distributed, owner, gate, lease, waiting, ready, value, guard, run, items>>
mutex == <<owner, gate, lease>>
condition == <<waiting, ready, value, guard>>

\* attempt: inside trylock; again: the call is the relock of a wait; expired:
\* the deadline has passed; gaveUp: the last wait did not return CL_OK.
Fresh == [pc |-> "start", attempt |-> FALSE, tried |-> FALSE, again |-> FALSE,
          bit |-> 0, expired |-> FALSE, gaveUp |-> FALSE]

Init ==
  /\ distributed \in BOOLEAN
  /\ owner = [h \in Hosts |-> None]
  /\ gate = [h \in Hosts |-> <<>>]
  /\ lease = None
  /\ waiting = {} /\ ready = {}
  /\ value = <<>>
  /\ guard = None
  /\ run = [t \in Threads |-> Fresh]
  /\ items = 0

At(t, places) == run[t].pc \in places

\* The host whose handle t uses.
Handle(t) == IF distributed THEN HostOf[t] ELSE Home

-----------------------------------------------------------------------------
(* CooperativeCondition.                                                   *)

\* An ExecutionWaitState.
Waiter(t) == [who |-> t, ready |-> FALSE]

IndexOf(q, t) == CHOOSE i \in DOMAIN q : q[i].who = t

\* Notify: the first waiter (or all) that is neither ready nor expired.
Notify(q, all) ==
  LET open == {i \in DOMAIN q : ~q[i].ready /\ ~run[q[i].who].expired}
  IN [i \in DOMAIN q |->
        [q[i] EXCEPT !.ready = @ \/ (i \in open /\ (all \/ \A j \in open : i <= j))]]

\* wait_until returns: ready or expired.
Woken(q, t) == q[IndexOf(q, t)].ready \/ run[t].expired

Erase(q, t) == RemoveAt(q, IndexOf(q, t))

-----------------------------------------------------------------------------
(* LockMutex.                                                              *)

\* Under the handle's guard: take the gate, wait for it, or (trylock) return.
Enter(t, attempt) ==
  LET h == Handle(t) IN
  \/ /\ owner[h] = None
     /\ owner' = [owner EXCEPT ![h] = t]
     /\ run' = [run EXCEPT ![t] = [@ EXCEPT !.pc = "lease", !.attempt = attempt, !.tried = TRUE]]
     /\ UNCHANGED gate
  \/ /\ owner[h] # None /\ ~attempt
     /\ gate' = [gate EXCEPT ![h] = Append(@, Waiter(t))]
     /\ run' = [run EXCEPT ![t] = [@ EXCEPT !.pc = "gate", !.attempt = FALSE, !.tried = TRUE]]
     /\ UNCHANGED owner
  \/ /\ owner[h] # None /\ attempt
     /\ run' = [run EXCEPT ![t].tried = TRUE]
     /\ UNCHANGED <<owner, gate>>

\* cl_pthread_mutex_lock; a thread that returns from a wait needs the guard of
\* the condition for a moment first.
Lock(t) ==
  /\ At(t, {"start"})
  /\ t \in Triers => run[t].tried
  /\ run[t].again => guard = None
  /\ Enter(t, FALSE)
  /\ UNCHANGED <<distributed, lease, condition, items>>

\* cl_pthread_mutex_trylock, once.
TryLock(t) ==
  /\ At(t, {"start"})
  /\ t \in Triers /\ ~run[t].tried
  /\ Enter(t, TRUE)
  /\ UNCHANGED <<distributed, lease, condition, items>>

\* The park ends and the waiter leaves the queue, without the handle's guard.
GateWake(t) ==
  LET h == Handle(t) IN
  /\ At(t, {"gate"})
  /\ gate[h][IndexOf(gate[h], t)].ready
  /\ gate' = [gate EXCEPT ![h] = Erase(@, t)]
  /\ run' = [run EXCEPT ![t].pc = "retest"]
  /\ UNCHANGED <<distributed, owner, lease, condition, items>>

\* Mutant of Retest: the predicate is not tested again.
RetestOnce(t) ==
  /\ At(t, {"retest"})
  /\ owner' = [owner EXCEPT ![Handle(t)] = t]
  /\ run' = [run EXCEPT ![t].pc = "lease"]
  /\ UNCHANGED <<distributed, gate, lease, condition, items>>

\* With the guard again: somebody else may have come first.
Retest(t) ==
  /\ At(t, {"retest"})
  /\ Enter(t, FALSE)
  /\ UNCHANGED <<distributed, lease, condition, items>>

\* AcquireWriteBuffer of the mutex object (which a lock retries until it has
\* it), then SynchronizeAcquire.
AcquireLease(t) ==
  /\ At(t, {"lease"})
  /\ distributed => lease = None
  /\ lease' = IF distributed THEN Handle(t) ELSE None
  /\ run' = [run EXCEPT ![t] = [@ EXCEPT !.pc = IF run[t].again THEN "returning" ELSE "held",
                                         !.attempt = FALSE]]
  /\ UNCHANGED <<distributed, owner, gate, condition, items>>

\* Mutant of LeaseTimesOut: nobody is notified.
LeaseTimesOutSilently(t) ==
  /\ At(t, {"lease"}) /\ run[t].attempt /\ distributed
  /\ owner' = [owner EXCEPT ![Handle(t)] = None]
  /\ run' = [run EXCEPT ![t] = [@ EXCEPT !.pc = "start", !.attempt = FALSE]]
  /\ UNCHANGED <<distributed, gate, lease, condition, items>>

\* The lease of a trylock does not come within a millisecond: the gate opens.
LeaseTimesOut(t) ==
  LET h == Handle(t) IN
  /\ At(t, {"lease"}) /\ run[t].attempt /\ distributed
  /\ owner' = [owner EXCEPT ![h] = None]
  /\ gate' = [gate EXCEPT ![h] = Notify(@, FALSE)]
  /\ run' = [run EXCEPT ![t] = [@ EXCEPT !.pc = "start", !.attempt = FALSE]]
  /\ UNCHANGED <<distributed, lease, condition, items>>

\* cl_pthread_mutex_unlock by the owner, when it succeeds.
Unlocked(t) ==
  LET h == Handle(t) IN
  /\ lease' = None
  /\ owner' = [owner EXCEPT ![h] = None]
  /\ gate' = [gate EXCEPT ![h] = Notify(@, FALSE)]

\* An unlock whose SynchronizeRelease fails changes nothing here, and the
\* application calls it again.
Unlock(t) ==
  /\ At(t, {"leaving"})
  /\ Unlocked(t)
  /\ run' = [run EXCEPT ![t].pc = IF Puts[t] > 0 THEN "notify" ELSE "done"]
  /\ UNCHANGED <<distributed, condition, items>>

-----------------------------------------------------------------------------
(* The application between lock and unlock (external).                     *)

Use(t) ==
  /\ At(t, {"held"})
  /\ Puts[t] > 0 \/ items > 0 \/ run[t].gaveUp
  /\ items' = IF Puts[t] > 0 THEN items + Puts[t] ELSE items - (IF items > 0 THEN 1 ELSE 0)
  /\ run' = [run EXCEPT ![t].pc = "leaving"]
  /\ UNCHANGED <<distributed, mutex, condition>>

MustWait(t) == At(t, {"held"}) /\ Puts[t] = 0 /\ items = 0 /\ ~run[t].gaveUp

-----------------------------------------------------------------------------
(* WaitCondition.                                                          *)

\* Mutant of FreeBits: the bit of a waiter that is not notified counts as free.
FreeBitsReady == Bits \ ready

FreeBits == Bits \ waiting

\* The first ChangeCondition of a wait reserves the lowest free bit.  Without
\* one, the wait returns CL_UNAVAILABLE and the mutex is still locked.
Register(t) ==
  /\ distributed /\ MustWait(t)
  /\ IF FreeBits = {}
       THEN /\ run' = [run EXCEPT ![t].gaveUp = TRUE]
            /\ UNCHANGED <<waiting, ready>>
       ELSE LET b == Min(FreeBits) IN
            /\ waiting' = waiting \cup {b}
            /\ ready' = ready \ {b}
            /\ run' = [run EXCEPT ![t] = [@ EXCEPT !.pc = "registered", !.bit = b, !.expired = FALSE]]
  /\ UNCHANGED <<distributed, mutex, value, guard, items>>

\* In the local case the wait keeps the guard of the condition.
Keep(t) ==
  /\ ~distributed /\ MustWait(t)
  /\ guard = None
  /\ guard' = t
  /\ run' = [run EXCEPT ![t] = [@ EXCEPT !.pc = "registered", !.expired = FALSE]]
  /\ UNCHANGED <<distributed, mutex, waiting, ready, value, items>>

\* Mutant of WaitUnlock: the guard is released before the waiter is queued.
WaitUnlockOpen(t) ==
  /\ At(t, {"registered"})
  /\ Unlocked(t)
  /\ guard' = None
  /\ run' = [run EXCEPT ![t].pc = IF distributed THEN "polling" ELSE "unlocked"]
  /\ UNCHANGED <<distributed, waiting, ready, value, items>>

\* The wait unlocks the mutex; in the local case it still has the guard.
WaitUnlock(t) ==
  /\ At(t, {"registered"})
  /\ Unlocked(t)
  /\ run' = [run EXCEPT ![t].pc = IF distributed THEN "polling" ELSE "unlocked"]
  /\ UNCHANGED <<distributed, condition, items>>

\* SynchronizeRelease fails: the mutex stays locked and the wait is over, in the
\* distributed case after its bit is given back.
WaitUnlockFails(t) ==
  /\ At(t, {"registered"}) /\ t \in Stagers
  /\ run' = [run EXCEPT ![t] = [@ EXCEPT !.pc = IF distributed THEN "cleanup" ELSE "held",
                                         !.gaveUp = TRUE]]
  /\ guard' = None
  /\ UNCHANGED <<distributed, mutex, waiting, ready, value, items>>

\* wait_until queues the waiter, then releases the guard.
Park(t) ==
  /\ At(t, {"unlocked"})
  /\ value' = Append(value, Waiter(t))
  /\ guard' = None
  /\ run' = [run EXCEPT ![t].pc = "parked"]
  /\ UNCHANGED <<distributed, mutex, waiting, ready, items>>

\* The deadline passes.
Expire(t) ==
  /\ At(t, {"parked", "polling"}) /\ t \in Timed /\ ~run[t].expired
  /\ run' = [run EXCEPT ![t].expired = TRUE]
  /\ UNCHANGED <<distributed, mutex, condition, items>>

\* wait_until returns and leaves the queue.
Wake(t) ==
  /\ At(t, {"parked"})
  /\ Woken(value, t)
  /\ run' = [run EXCEPT ![t] = [@ EXCEPT !.pc = "start", !.again = TRUE, !.expired = FALSE,
                                         !.gaveUp = ~value[IndexOf(value, t)].ready]]
  /\ value' = Erase(value, t)
  /\ UNCHANGED <<distributed, mutex, waiting, ready, guard, items>>

\* The polling loop ends: the bit is ready, or the deadline has passed and the
\* read missed it (it is not ready, or could not be read in time).
Poll(t) ==
  /\ At(t, {"polling"})
  /\ \/ run[t].bit \in ready /\ run' = [run EXCEPT ![t].pc = "cleanup"]
     \/ run[t].expired /\ run' = [run EXCEPT ![t] = [@ EXCEPT !.pc = "cleanup", !.gaveUp = TRUE]]
  /\ UNCHANGED <<distributed, mutex, condition, items>>

\* The last ChangeCondition of a wait returns the bit; then the mutex is locked
\* again, unless it was never unlocked.
Cleanup(t) ==
  /\ At(t, {"cleanup"})
  /\ waiting' = waiting \ {run[t].bit}
  /\ ready' = ready \ {run[t].bit}
  /\ run' = [run EXCEPT ![t] = [@ EXCEPT !.bit = 0, !.expired = FALSE,
                                         !.again = owner[Handle(t)] # t,
                                         !.pc = IF owner[Handle(t)] = t THEN "held" ELSE "start"]]
  /\ UNCHANGED <<distributed, mutex, value, guard, items>>

\* The wait returns with the mutex locked.
Return(t) ==
  /\ At(t, {"returning"})
  /\ guard = None
  /\ run' = [run EXCEPT ![t] = [@ EXCEPT !.pc = "held", !.again = FALSE]]
  /\ UNCHANGED <<distributed, mutex, condition, items>>

-----------------------------------------------------------------------------
(* NotifyCondition: a producer of one item signals, of more broadcasts.    *)

NotifyCondition(t) ==
  LET all == Puts[t] > 1
      pending == waiting \ ready
  IN
  /\ At(t, {"notify"})
  /\ IF distributed
       THEN /\ ready' = ready \cup (IF all \/ pending = {} THEN pending ELSE {Min(pending)})
            /\ UNCHANGED value
       ELSE /\ guard = None
            /\ value' = Notify(value, all)
            /\ UNCHANGED ready
  /\ run' = [run EXCEPT ![t].pc = "done"]
  /\ UNCHANGED <<distributed, mutex, waiting, guard, items>>

Step(t) ==
  \/ Lock(t) \/ TryLock(t) \/ GateWake(t) \/ Retest(t) \/ AcquireLease(t) \/ Unlock(t)
  \/ Use(t)
  \/ Register(t) \/ Keep(t) \/ WaitUnlock(t) \/ Park(t) \/ Wake(t) \/ Poll(t)
  \/ Cleanup(t) \/ Return(t)
  \/ NotifyCondition(t)

Next ==
  \/ \E t \in Threads : Step(t)
  \/ \E t \in Threads : LeaseTimesOut(t) \/ WaitUnlockFails(t) \/ Expire(t)

Spec == Init /\ [][Next]_vars

-----------------------------------------------------------------------------
(* Properties.                                                             *)

TypeOK ==
  /\ owner \in [Hosts -> Threads \cup {None}]
  /\ lease \in Hosts \cup {None}
  /\ waiting \subseteq Bits
  /\ guard \in Threads \cup {None}
  /\ items \in Nat

\* The threads for which a lock call has returned and no unlock yet.
Inside(t) == At(t, {"held", "leaving", "returning", "registered"})
             \/ (At(t, {"cleanup"}) /\ owner[Handle(t)] = t)

\* At most one thread of all hosts is between lock and unlock, and the handles
\* agree: a handle is locked for the thread that is inside or takes the lease,
\* and the lease is at a host exactly while a thread of it is inside.
MutualExclusion ==
  /\ TypeOK
  /\ \A t, u \in Threads : Inside(t) /\ Inside(u) => t = u
  /\ \A t \in Threads : Inside(t) \/ At(t, {"lease"}) => owner[Handle(t)] = t
  /\ \A h \in Hosts : owner[h] # None => Inside(owner[h]) \/ At(owner[h], {"lease"})
  /\ lease = None \/ \E t \in Threads : Inside(t) /\ Handle(t) = lease

\* No notification is lost or spent on nobody: while a gate is open, somebody is
\* on the way through it if anybody waits for it, whoever else came first and
\* whichever trylock gave up in between.
GateNotStranded ==
  \A h \in Hosts : owner[h] = None /\ gate[h] # <<>> =>
    \/ \E i \in DOMAIN gate[h] : gate[h][i].ready
    \/ \E t \in Threads : At(t, {"retest"}) /\ Handle(t) = h

\* The threads of a distributed wait that have a bit.
HasBit(t) == distributed /\ At(t, {"registered", "polling", "cleanup"})

\* Each bit belongs to one waiter from its registration until it cleans up, so a
\* signal reaches the waiter it selects and no later user of the bit, and a wait
\* that times out or fails leaves no bit behind.
BitsExact ==
  /\ waiting = {run[t].bit : t \in {u \in Threads : HasBit(u)}}
  /\ \A t, u \in Threads : HasBit(t) /\ HasBit(u) /\ run[t].bit = run[u].bit => t = u
  /\ ready \subseteq waiting

-----------------------------------------------------------------------------
(* Liveness.  Some thread goes on while one can, which is enough here: no  *)
(* thread has infinitely many steps.  A free lease of the mutex object is  *)
(* granted (RequestServed of module Retirement).  Deadlines, trylock       *)
(* timeouts and failures may not come.                                     *)

FairSpec == Spec /\ WF_vars(\E t \in Threads : Step(t))

\* No wakeup is lost between the test of the predicate and the wait: with an
\* item for every consumer, all threads return, in both cases.
AllReturn == <>(\A t \in Threads : At(t, {"done"}))

=============================================================================
