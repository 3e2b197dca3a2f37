----------------------------- MODULE Retirement -----------------------------
(***************************************************************************)
(* Retiring one shared object while its token protocol is running:         *)
(* FreeShared and ProgressRetirement (src/loommem/runtime.cpp), the        *)
(* transaction in shared memory (BeginRetire, AcknowledgeRetirement, Free  *)
(* in src/loommem/allocator.cpp) and TokenService::CloseObject.            *)
(*                                                                         *)
(* The allocating host starts the transaction; then every host closes the  *)
(* object and records how far it has published to each other host, every   *)
(* host drains its inbound queues up to those watermarks, every host       *)
(* forgets the object, and the storage is reclaimed.                       *)
(***************************************************************************)
EXTENDS Token

VARIABLES
  phase,    \* retirement.current.phase
  closed,   \* retirement.closed; such a host is also sealed
  drained,  \* retirement.drained
  cleaned,  \* retirement.cleaned
  due       \* due[s][d]: watermarks[s][d] - ConsumedSequence of s -> d

transaction == <<phase, closed, drained, cleaned, due>>
rvars == <<vars, transaction>>

RInit ==
  /\ Init
  /\ phase = "idle"
  /\ closed = {} /\ drained = {} /\ cleaned = {}
  /\ due = [s \in Hosts |-> [d \in Hosts |-> 0]]

\* The consumer's cursor moves when its poller has handled a message.
Consumed ==
  due' = [s \in Hosts |-> [d \in Hosts |->
            IF Len(wire'[s][d]) < Len(wire[s][d]) THEN Max({due[s][d] - 1, 0})
                                                  ELSE due[s][d]]]

\* active_operations[h]: AcquireWriteRange takes a reference that the write
\* buffer keeps until it is released; raw requests keep none between calls.
Active(h) ==
  \E r \in Requests \ Raw :
    Requester[r] = h /\ pc[r] \notin {"idle", "gaveup", "done"}

-----------------------------------------------------------------------------
(* The token protocol of a retiring object.                                *)

TokenStep ==
  /\ Next
  /\ Consumed
  /\ UNCHANGED <<phase, closed, drained, cleaned>>

\* Target refuses a request once the object retires.
RequestRefused(r) ==
  /\ pc[r] = "idle"
  /\ alloc # "allocated" /\ Locked(Requester[r])
  /\ pc' = [pc EXCEPT ![r] = "done"]
  /\ UNCHANGED <<shared, alloc, service, transport, running, transaction>>

\* Wait returns the completion status of a request that was rejected or whose
\* waiter CloseObject erased.
WaitFailed(r) ==
  /\ pc[r] = "waiting"
  /\ waiter[r] \in {"rejected", "cancelled", "none"}
  /\ waiter' = [waiter EXCEPT ![r] = "none"]
  /\ pc' = [pc EXCEPT ![r] = "done"]
  /\ UNCHANGED <<shared, alloc, available, held, pending, lease, transport, running, racing,
                 transaction>>

\* Mutant of DropRetiring: a dropped message does not move the cursor.
DropUncounted(h, s) ==
  /\ Inbound(h, s)
  /\ alloc = "retiring" /\ Locked(h)
  /\ wire' = Popped(h, s)
  /\ pub' = Room(h, s)
  /\ UNCHANGED <<shared, alloc, service, running, pc, transaction>>

\* HandleMessage drops every message of a retiring object.
DropRetiring(h, s) ==
  /\ Inbound(h, s)
  /\ alloc = "retiring" /\ Locked(h)
  /\ wire' = Popped(h, s)
  /\ pub' = Room(h, s)
  /\ Consumed
  /\ UNCHANGED <<shared, alloc, service, running, pc, phase, closed, drained, cleaned>>

\* HandleReject at the requester.
Rejected(r) ==
  IF waiter[r] \in {"none", "granted"} THEN waiter
  ELSE [waiter EXCEPT ![r] = CASE Abandoned(waiter, r) /\ ~Retained(r) -> "none"
                               [] waiter[r] = "cancelling" -> "cancelled"
                               [] OTHER -> "rejected"]

\* A handler that passed IsRetiring before BeginRetire and reads the state
\* after it: the message is consumed, at most a waiter changes.
Racing(h, s, kind) ==
  /\ Inbound(h, s)
  /\ h \in racing /\ Locked(h)
  /\ Head(wire[s][h]).kind = kind
  /\ UNCHANGED <<shared, alloc, available, held, pending, lease, running, pc,
                 phase, closed, drained, cleaned>>

\* HandleRequest rejects the request; its Target refused the object.
RejectRequest(h, s) ==
  LET r == Head(wire[s][h]).req
      d == Requester[r]
  IN
  /\ Racing(h, s, "req")
  /\ IF d = h
       THEN wire' = Popped(h, s) /\ pub' = Room(h, s) /\ waiter' = Rejected(r)
       ELSE Send(Popped(h, s), Room(h, s), h, d, Note("reject", r)) /\ UNCHANGED waiter
  /\ Consumed

\* HandleGrant rejects its own request; its Target refused the object.
RejectGrant(h, s) ==
  /\ Racing(h, s, "grant")
  /\ wire' = Popped(h, s) /\ pub' = Room(h, s)
  /\ waiter' = Rejected(Head(wire[s][h]).req)
  /\ Consumed

-----------------------------------------------------------------------------
(* The retirement transaction.                                             *)

\* FreeShared on the allocating host.  Any host may be inside an operation.
BeginRetire ==
  /\ phase = "idle" /\ alloc = "allocated"
  /\ running[Home]
  /\ alloc' = "retiring"
  /\ phase' = "closing"
  /\ closed' = {} /\ drained' = {} /\ cleaned' = {}
  /\ racing' = Hosts
  /\ UNCHANGED <<shared, service, transport, running, pc, due>>

\* ProgressRetirement runs on the poller thread, after the scan's handlers.
Progressing(h, p, done) ==
  /\ phase = p
  /\ running[h]
  /\ h \notin done

\* CloseObject: every waiter of the host is rejected and erased, unclaimed
\* grants are released, queued requests and unsent messages are discarded.  A
\* claimed lease stays.  The host acknowledges, is sealed and publishes its
\* watermarks only when neither a lease nor a reference is left.
CloseObject(h) ==
  LET mine == {r \in Requests : Requester[r] = h}
      unclaimed == {r \in mine : waiter[r] = "granted"}
      sent == Flush(pub, wire, h)
      quiet == ~held'[h] /\ ~Active(h)
  IN
  /\ Progressing(h, "closing", closed)
  /\ Locked(h)
  /\ \A r \in unclaimed : LeaseValid(r)
  /\ waiter' = [r \in Requests |-> IF r \in mine THEN "none" ELSE waiter[r]]
  /\ lease' = [r \in Requests |-> IF r \in unclaimed THEN 0 ELSE lease[r]]
  /\ held' = [held EXCEPT ![h] = @ /\ unclaimed = {}]
  /\ odd' = (odd /\ unclaimed = {})
  /\ pending' = [pending EXCEPT ![h] = <<>>]
  /\ pub' = sent
  /\ wire' = [wire EXCEPT ![h] = [d \in Hosts |-> SubSeq(wire[h][d], 1, sent[h][d])]]
  /\ closed' = IF quiet THEN closed \cup {h} ELSE closed
  /\ due' = IF quiet THEN [due EXCEPT ![h] = sent[h]] ELSE due
  /\ phase' = IF closed' = Hosts THEN "draining" ELSE phase
  /\ UNCHANGED <<owner, epoch, version, alloc, available, running, pc, drained, cleaned>>

\* Mutant of Drain: RetirementAcknowledged ignores the watermarks.
DrainEarly(h) ==
  /\ Progressing(h, "draining", drained)
  /\ drained' = drained \cup {h}
  /\ phase' = IF drained' = Hosts THEN "cleaning" ELSE phase
  /\ UNCHANGED <<vars, closed, cleaned, due>>

\* The host's callbacks have passed every watermark of its producers.
Drain(h) ==
  /\ Progressing(h, "draining", drained)
  /\ \A s \in Hosts : due[s][h] = 0
  /\ drained' = drained \cup {h}
  /\ phase' = IF drained' = Hosts THEN "cleaning" ELSE phase
  /\ UNCHANGED <<vars, closed, cleaned, due>>

\* ForgetAllocation drops the host's token state of the object.
Clean(h) ==
  /\ Progressing(h, "cleaning", cleaned)
  /\ available' = [available EXCEPT ![h] = FALSE]
  /\ held' = [held EXCEPT ![h] = FALSE]
  /\ pending' = [pending EXCEPT ![h] = <<>>]
  /\ cleaned' = cleaned \cup {h}
  /\ phase' = IF cleaned' = Hosts THEN "reclaimable" ELSE phase
  /\ UNCHANGED <<shared, alloc, waiter, lease, transport, running, racing, pc, closed, drained, due>>

\* Free: the coordinator returns the storage to the shared extents.  Free is
\* also refused while a reader is in the slot (Slots), a replica is advertised
\* (Coherence) or fewer than two extent nodes are unused (Extents); a refusal
\* changes nothing.  Nothing obliges Free to happen: FreeShared, which calls it,
\* ends at its deadline, and a later call may resume the transaction.
Free ==
  /\ phase = "reclaimable"
  /\ \A h \in Hosts : ~Active(h)
  /\ alloc' = "free"
  /\ phase' = "idle"
  /\ UNCHANGED <<shared, service, transport, running, racing, pc, closed, drained, cleaned, due>>

RNext ==
  \/ TokenStep
  \/ \E r \in Requests : RequestRefused(r)
  \/ \E r \in Requests : WaitFailed(r)
  \/ \E h, s \in Hosts : DropRetiring(h, s)
  \/ \E h, s \in Hosts : RejectRequest(h, s)
  \/ \E h, s \in Hosts : RejectGrant(h, s)
  \/ BeginRetire
  \/ \E h \in Hosts : CloseObject(h)
  \/ \E h \in Hosts : Drain(h)
  \/ \E h \in Hosts : Clean(h)
  \/ Free

RSpec == RInit /\ [][RNext]_rvars

-----------------------------------------------------------------------------
(* Properties.                                                             *)

\* The phases and host sets of RetirementControl.
RTypeOK ==
  /\ TypeOK
  /\ phase \in {"idle", "closing", "draining", "cleaning", "reclaimable"}
  /\ closed \subseteq Hosts /\ drained \subseteq Hosts /\ cleaned \subseteq Hosts
  /\ due \in [Hosts -> [Hosts -> Nat]]

\* When storage may be reused nothing refers to the object any more: no
\* message in any queue, no waiter, no lease, no queued request, no reference.
ReclaimSafe ==
  phase = "reclaimable" \/ alloc = "free" =>
    /\ \A s, d \in Hosts : wire[s][d] = <<>>
    /\ \A r \in Requests : waiter[r] = "none" /\ ~Live(r)
    /\ \A h \in Hosts : pending[h] = <<>> /\ ~held[h] /\ ~Active(h)

\* A host that closed stays closed: it has no waiter, lease or reference, and
\* whatever it still has on its queues lies below its watermarks.
ClosedIsQuiet ==
  /\ RTypeOK
  /\ phase \in {"closing", "draining"} => \A h \in closed :
       /\ ~held[h] /\ ~Active(h)
       /\ \A r \in Requests : Requester[r] = h => waiter[r] = "none"
       /\ \A d \in Hosts : Len(wire[h][d]) <= due[h][d]

-----------------------------------------------------------------------------
(* Liveness.  As in Token; a poller also progresses the retirement.        *)
(* Nothing obliges the owner to retire the object, or FreeShared to stay   *)
(* until the storage is free.                                              *)

\* One round of the poller thread of h does something.
RPoll(h) ==
  \/ Poll(h) /\ TokenStep
  \/ \E s \in Hosts : DropRetiring(h, s) \/ RejectRequest(h, s) \/ RejectGrant(h, s)
  \/ CloseObject(h) \/ Drain(h) \/ Clean(h)

\* The client of r goes on.
RResume(r) == (Resume(r) /\ TokenStep) \/ WaitFailed(r)

RFairness ==
  (\A h \in Hosts : WF_rvars(RPoll(h))) /\ (\A r \in Requests : WF_rvars(RResume(r)))

RFairSpec == RSpec /\ RFairness

\* A retirement that has begun gets as far as kReclaimable, where the next Free
\* can return the storage, whatever requests, cancellations, grants and write
\* buffers were under way and whether or not FreeShared still waits for it:
\* nobody's waiter, lease, message or watermark holds it up.
RetirementCompletes == <>Overtaken \/ (phase = "closing" ~> phase = "reclaimable")

=============================================================================
