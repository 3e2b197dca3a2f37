------------------------------- MODULE Token -------------------------------
(***************************************************************************)
(* The write-token protocol of one coherence block                         *)
(* (src/loommem/token.cpp).  Every host runs one TokenService.  All its    *)
(* state changes happen under the host's protocol_mutex_, so one handler   *)
(* is one step; hosts interact through the block's shared metadata         *)
(* (owner, token epoch, version, writeback parity) and through one SPSC    *)
(* queue per ordered pair of hosts.                                        *)
(*                                                                         *)
(* A request stands for one client call sequence on its host: Request,     *)
(* Wait, possibly Cancel or CancelAndWait, BeginWriteback, Release.        *)
(***************************************************************************)
EXTENDS Integers, Sequences, SequencesExt

CONSTANTS
  Hosts,        \* the participating hosts
  Requests,     \* request identities; each is issued once
  Requester,    \* Requester[r]: the host whose client issues r
  Home,         \* the allocating host, first owner of the token
  Raw,          \* requests issued with activate_coherence_epoch = true
  Cancellable,  \* requests whose client may give up waiting
  Capacity,     \* entries of a shared ring
  Nobody        \* the abstract holder while no request holds the token

ASSUME HostsAssumption == Home \in Hosts
ASSUME RequestsAssumption ==
  /\ Requester \in [Requests -> Hosts]
  /\ Raw \subseteq Requests
  /\ Cancellable \subseteq Requests
  /\ Nobody \notin Requests
ASSUME CapacityAssumption == Capacity \in Nat \ {0}

VARIABLES
  \* CoherenceBlockDescriptor, in shared memory
  owner,      \* token_owner
  epoch,      \* token_epoch
  version,    \* version
  odd,        \* writeback_epoch & 1: a writer is writing shared bytes
  alloc,      \* AllocationDescriptor.state
  \* TokenService of each host
  available,  \* objects_[key].available
  held,       \* objects_[key].held
  pending,    \* objects_[key].pending
  waiter,     \* waiters_[id]->state, "none" when there is no entry
  lease,      \* token epoch of the lease of a granted request, else 0
  wire,       \* wire[s][d]: shared ring s -> d followed by s's outbound_[d]
  pub,        \* pub[s][d]: how many of wire[s][d] are published in the ring
  running,    \* the host's queue poller has not met a handler error
  racing,     \* hosts whose first operation under protocol_mutex_ since the
              \* object started to retire is still to come; it may have begun
              \* before, and have tested the state of the allocation then
  \* the clients
  pc          \* where the client call sequence of a request stands

shared == <<owner, epoch, version, odd>>
service == <<available, held, pending, waiter, lease>>
transport == <<wire, pub>>
vars == <<shared, alloc, service, transport, running, racing, pc>>

Kinds == {"req", "grant", "reject", "cancel", "ack"}

\* TokenRequest, TokenGrant, TokenReject, TokenCancel and TokenCancelAck.
\* A request carries observed_version.  Every TokenCancelAck on a queue says
\* kCancelled: kTooLate is only ever answered on the requester itself.
Msg == [kind : Kinds, req : Requests, epoch : Nat, version : Nat]

\* A message whose epoch and version nobody reads.
Note(kind, r) == [kind |-> kind, req |-> r, epoch |-> 0, version |-> 0]

WaiterStates == {"none", "active", "cancelling", "granted", "cancelled", "rejected"}

Places == {"idle", "waiting", "draining", "drained", "gaveup",
           "holding", "publishing", "done"}

\* Waiter::abandoned is set together with kCancelling.
Abandoned(W, r) == W[r] \in {"cancelling", "cancelled"}

\* Waiter::retain_completion: set by CancelAndWait and never cleared.
Retained(r) == pc[r] \in {"draining", "drained", "gaveup"}

\* What completing an abandoned waiter leaves of it.
Completed(r) == IF Retained(r) THEN "cancelled" ELSE "none"

Init ==
  /\ owner = Home
  /\ epoch = 1
  /\ version = 0
  /\ odd = FALSE
  /\ alloc = "allocated"
  /\ available = [h \in Hosts |-> h = Home]
  /\ held = [h \in Hosts |-> FALSE]
  /\ pending = [h \in Hosts |-> <<>>]
  /\ waiter = [r \in Requests |-> "none"]
  /\ lease = [r \in Requests |-> 0]
  /\ wire = [s \in Hosts |-> [d \in Hosts |-> <<>>]]
  /\ pub = [s \in Hosts |-> [d \in Hosts |-> 0]]
  /\ running = [h \in Hosts |-> TRUE]
  /\ racing = {}
  /\ pc = [r \in Requests |-> "idle"]

-----------------------------------------------------------------------------
(* protocol_mutex_ and the state of the allocation.                        *)

\* An operation of h under protocol_mutex_.
Locked(h) == racing' = racing \ {h}

\* A test of the allocation state may find it allocated still.
FindsAllocated(h) == alloc = "allocated" \/ h \in racing

-----------------------------------------------------------------------------
(* Transport: outbound FIFOs in front of bounded rings.                    *)

\* The wires after h enqueues the messages ms for d.
Post(w, h, d, ms) == [w EXCEPT ![h][d] = @ \o ms]

\* ProgressOutbound: h pushes every outbound FIFO until its ring is full.
Flush(p, w, h) == [p EXCEPT ![h] = [d \in Hosts |-> Min({Len(w[h][d]), Capacity})]]

\* The poller of h may pop from s; Popped and Room are wires and rings after.
Inbound(h, s) == running[h] /\ pub[s][h] > 0
Popped(h, s) == [wire EXCEPT ![s][h] = Tail(@)]
Room(h, s) == [pub EXCEPT ![s][h] = @ - 1]

\* EnqueueOutbound of one message.  w, p: wires and rings before.
Send(w, p, h, d, m) ==
  /\ wire' = Post(w, h, d, <<m>>)
  /\ pub' = Flush(p, wire', h)

\* ProgressOutbound, called by the poller after every scan.
ProgressOutbound(h) ==
  /\ running[h]
  /\ Locked(h)
  /\ \E d \in Hosts : pub[h][d] < Min({Len(wire[h][d]), Capacity})
  /\ pub' = Flush(pub, wire, h)
  /\ UNCHANGED <<shared, alloc, service, wire, running, pc>>

-----------------------------------------------------------------------------
(* Handing the token on.                                                   *)

\* Grant to a local request whose waiter was abandoned completes the waiter
\* and releases again, so the token passes over it.
PassedOver(h, W, m) == Requester[m.req] = h /\ Abandoned(W, m.req)

\* q[n] is the first request of q that Grant does not pass over.
Served(h, W, q, n) ==
  /\ ~PassedOver(h, W, q[n])
  /\ \A i \in 1 .. n - 1 : PassedOver(h, W, q[i])

\* The waiters once the first n requests of q were passed over.
Skipped(W, q, n) ==
  [r \in Requests |-> IF \E i \in 1 .. n : q[i].req = r THEN Completed(r) ELSE W[r]]

\* Grant answers NotFound: the first request served is local and has no waiter.
HandOffFails(h, W, q) ==
  \E n \in 1 .. Len(q) :
    /\ Served(h, W, q, n)
    /\ Requester[q[n].req] = h
    /\ W[q[n].req] = "none"

\* The first n requests of q were passed over and nobody gets the token: the
\* host keeps it unheld, and rest stays queued.
PutBack(h, W, L, w, p, q, n, rest) ==
  /\ \A i \in 1 .. n : PassedOver(h, W, q[i])
  /\ held' = [held EXCEPT ![h] = FALSE]
  /\ available' = [available EXCEPT ![h] = TRUE]
  /\ pending' = [pending EXCEPT ![h] = rest]
  /\ waiter' = Skipped(W, q, n)
  /\ lease' = L
  /\ odd' = FALSE
  /\ wire' = w
  /\ pub' = p
  /\ UNCHANGED <<owner, epoch>>

\* Grant to a local request: the lease goes to its waiter; without a waiter
\* (NotFound) the token stays held by nobody.
GrantLocal(h, W, L, w, p, q, n) ==
  LET r == q[n].req IN
  /\ Served(h, W, q, n)
  /\ Requester[r] = h
  /\ held' = [held EXCEPT ![h] = TRUE]
  /\ available' = [available EXCEPT ![h] = TRUE]
  /\ pending' = [pending EXCEPT ![h] = SubSeq(q, n + 1, Len(q))]
  /\ IF W[r] = "none"
       THEN /\ waiter' = Skipped(W, q, n - 1)
            /\ lease' = L
            /\ odd' = FALSE
       ELSE /\ waiter' = [Skipped(W, q, n - 1) EXCEPT ![r] = "granted"]
            /\ lease' = [L EXCEPT ![r] = epoch]
            /\ odd' = (r \in Raw)
  /\ wire' = w
  /\ pub' = p
  /\ UNCHANGED <<owner, epoch>>

\* Grant to a remote request: the epoch moves, the owner is published, the
\* grant is enqueued and every request still pending is forwarded behind it.
GrantRemote(h, W, L, w, p, q, n) ==
  LET r == q[n].req
      d == Requester[r]
      grant == [kind |-> "grant", req |-> r, epoch |-> epoch + 1, version |-> version']
  IN
  /\ Served(h, W, q, n)
  /\ d # h
  /\ epoch' = epoch + 1
  /\ owner' = d
  /\ held' = [held EXCEPT ![h] = FALSE]
  /\ available' = [available EXCEPT ![h] = FALSE]
  /\ pending' = [pending EXCEPT ![h] = <<>>]
  /\ waiter' = Skipped(W, q, n - 1)
  /\ lease' = L
  /\ odd' = FALSE
  /\ wire' = Post(w, h, d, <<grant>> \o SubSeq(q, n + 1, Len(q)))
  /\ pub' = Flush(p, wire', h)

\* The tail of Release together with the Grant it calls, and the Releases of
\* the abandoned requests on the way.  q: the requests waiting at h; W, L, w,
\* p: waiters, leases, wires and rings so far.
HandOff(h, W, L, w, p, q) ==
  \/ PutBack(h, W, L, w, p, q, Len(q), <<>>)
  \/ \E n \in 1 .. Len(q) : GrantLocal(h, W, L, w, p, q, n)
  \/ \E n \in 1 .. Len(q) : GrantRemote(h, W, L, w, p, q, n)

\* Both Release and the Grant it calls test the state of the allocation, once
\* for every request that is passed over, so BeginRetire may come in between.
\* A Release that finds the object retiring drops the requests that wait
\* (with tests = 1, its first test was made by HandleRequest and passed); a
\* Grant that does so drops its own and leaves the others to CloseObject.
Interrupted(h, W, L, w, p, q, tests) ==
  /\ alloc # "allocated"
  /\ \/ \E n \in tests .. Len(q) :
          /\ n > 0 => h \in racing
          /\ PutBack(h, W, L, w, p, q, n, <<>>)
     \/ \E n \in 1 .. Len(q) :
          /\ h \in racing
          /\ PutBack(h, W, L, w, p, q, n - 1, SubSeq(q, n + 1, Len(q)))

\* Release and BeginWriteback accept a lease only while this holds.
LeaseValid(r) ==
  LET h == Requester[r] IN owner = h /\ epoch = lease[r] /\ held[h]

\* Release(lease of r, modified = (version' # version)) by a client.
ReleaseLease(r, W) ==
  LET h == Requester[r]
      L == [lease EXCEPT ![r] = 0]
  IN /\ LeaseValid(r)
     /\ Locked(h)
     /\ \/ FindsAllocated(h) /\ HandOff(h, W, L, wire, pub, pending[h])
        \/ Interrupted(h, W, L, wire, pub, pending[h], 0)
     /\ UNCHANGED <<alloc, running>>

-----------------------------------------------------------------------------
(* Client operations.                                                      *)

\* Request at the owner: granted at once, or queued behind the holder.
RequestLocal(r) ==
  LET h == Requester[r] IN
  /\ owner = h
  /\ IF available[h] /\ ~held[h]
       THEN /\ held' = [held EXCEPT ![h] = TRUE]
            /\ odd' = (r \in Raw)
            /\ waiter' = [waiter EXCEPT ![r] = "granted"]
            /\ lease' = [lease EXCEPT ![r] = epoch]
            /\ UNCHANGED pending
       ELSE /\ waiter' = [waiter EXCEPT ![r] = "active"]
            /\ pending' = [pending EXCEPT ![h] =
                             Append(@, [Note("req", r) EXCEPT !.version = version])]
            /\ UNCHANGED <<held, odd, lease>>
  /\ UNCHANGED transport

\* Request elsewhere: sent to the owner the shared metadata names.
RequestRemote(r) ==
  LET h == Requester[r] IN
  /\ owner # h
  /\ waiter' = [waiter EXCEPT ![r] = "active"]
  /\ Send(wire, pub, h, owner, [Note("req", r) EXCEPT !.version = version])
  /\ UNCHANGED <<odd, held, pending, lease>>

\* Mutant of Request: Target does not test the allocation state.
RequestRetiring(r) ==
  /\ pc[r] = "idle"
  /\ Locked(Requester[r])
  /\ RequestLocal(r) \/ RequestRemote(r)
  /\ pc' = [pc EXCEPT ![r] = "waiting"]
  /\ UNCHANGED <<owner, epoch, version, alloc, available, running>>

\* Raw tokens (RequestWriteToken) also need a running poller.
Request(r) ==
  /\ pc[r] = "idle"
  /\ Locked(Requester[r]) /\ FindsAllocated(Requester[r])
  /\ r \in Raw => running[Requester[r]]
  /\ RequestLocal(r) \/ RequestRemote(r)
  /\ pc' = [pc EXCEPT ![r] = "waiting"]
  /\ UNCHANGED <<owner, epoch, version, alloc, available, running>>

\* Mutant of WaitGranted: Wait leaves the waiter in place.
WaitGrantedKept(r) ==
  /\ pc[r] = "waiting" /\ waiter[r] = "granted"
  /\ pc' = [pc EXCEPT ![r] = "holding"]
  /\ UNCHANGED <<shared, alloc, service, transport, running, racing>>

\* Wait returns the lease.  It returns a failure only when the object retires
\* (Retirement!WaitFailed).
WaitGranted(r) ==
  /\ pc[r] = "waiting"
  /\ waiter[r] = "granted"
  /\ waiter' = [waiter EXCEPT ![r] = "none"]
  /\ pc' = [pc EXCEPT ![r] = "holding"]
  /\ UNCHANGED <<shared, alloc, available, held, pending, lease, transport, running, racing>>

\* Cancel finds the request granted: the grant is released unused.
CancelGranted(r) ==
  /\ waiter[r] = "granted"
  /\ UNCHANGED version
  /\ ReleaseLease(r, [waiter EXCEPT ![r] = "none"])
  /\ pc' = [pc EXCEPT ![r] = "done"]

\* Cancel finds the request completed, or retired underneath it.
CancelCompleted(r) ==
  /\ Locked(Requester[r])
  /\ \/ waiter[r] \in {"rejected", "cancelled", "none"}
     \/ waiter[r] = "active" /\ alloc # "allocated"
  /\ waiter' = [waiter EXCEPT ![r] = "none"]
  /\ pc' = [pc EXCEPT ![r] = "done"]
  /\ UNCHANGED <<shared, alloc, available, held, pending, lease, transport, running>>

\* HandleCancel at the owner takes the request out of the pending queue.
PendingAt(h, r) == {i \in DOMAIN pending[h] : pending[h][i].req = r}
Unqueue(h, r) ==
  IF PendingAt(h, r) = {} THEN UNCHANGED pending
  ELSE \E i \in PendingAt(h, r) :
         /\ \A j \in PendingAt(h, r) : i <= j
         /\ pending' = [pending EXCEPT ![h] = RemoveAt(@, i)]

\* Cancel of a request of the owner itself: HandleCancel runs in place, and
\* completes the waiter unless the request was already on its way.
CancelLocal(r) ==
  LET h == Requester[r]
      left == IF PendingAt(h, r) = {} THEN "cancelling" ELSE Completed(r)
  IN
  /\ Locked(h)
  /\ waiter[r] = "active" /\ FindsAllocated(h) /\ owner = h
  /\ Unqueue(h, r)
  /\ waiter' = [waiter EXCEPT ![r] = left]
  /\ pc' = [pc EXCEPT ![r] =
              IF Retained(r) /\ left # "none" THEN "drained" ELSE "done"]
  /\ UNCHANGED <<shared, alloc, available, held, lease, transport, running>>

\* Cancel of a request queued elsewhere: a cancellation goes to the owner.
CancelRemote(r) ==
  LET h == Requester[r] IN
  /\ Locked(h)
  /\ waiter[r] = "active" /\ FindsAllocated(h) /\ owner # h
  /\ waiter' = [waiter EXCEPT ![r] = "cancelling"]
  /\ Send(wire, pub, h, owner, Note("cancel", r))
  /\ pc' = [pc EXCEPT ![r] = IF Retained(r) THEN "drained" ELSE "done"]
  /\ UNCHANGED <<shared, alloc, available, held, pending, lease, running>>

\* Cancel, called directly ("waiting") or by CancelAndWait ("draining").
Cancel(r) ==
  /\ r \in Cancellable
  /\ pc[r] \in {"waiting", "draining"}
  /\ CancelGranted(r) \/ CancelCompleted(r) \/ CancelLocal(r) \/ CancelRemote(r)

\* CancelAndWait marks the waiter before it calls Cancel.
CancelAndWait(r) ==
  /\ r \in Cancellable
  /\ pc[r] = "waiting"
  /\ pc' = [pc EXCEPT ![r] = IF waiter[r] = "none" THEN "done" ELSE "draining"]
  /\ UNCHANGED <<shared, alloc, service, transport, running, racing>>

\* CancelAndWait sees the cancellation complete.
CancelDrained(r) ==
  /\ pc[r] = "drained"
  /\ waiter[r] \in {"cancelled", "rejected", "none"}
  /\ waiter' = [waiter EXCEPT ![r] = "none"]
  /\ pc' = [pc EXCEPT ![r] = "done"]
  /\ UNCHANGED <<shared, alloc, available, held, pending, lease, transport, running, racing>>

\* CancelAndWait times out first.
CancelTimeout(r) ==
  /\ pc[r] = "drained"
  /\ waiter[r] = "cancelling"
  /\ pc' = [pc EXCEPT ![r] = "gaveup"]
  /\ UNCHANGED <<shared, alloc, service, transport, running, racing>>

\* ReleaseWriteBuffer opens the writeback window of a buffered write.
BeginWriteback(r) ==
  /\ pc[r] = "holding" /\ r \notin Raw
  /\ Locked(Requester[r])
  /\ LeaseValid(r)
  /\ ~odd
  /\ odd' = TRUE
  /\ pc' = [pc EXCEPT ![r] = "publishing"]
  /\ UNCHANGED <<owner, epoch, version, alloc, service, transport, running>>

\* Mutant of Commit: Release does not insist on an open writeback window.
CommitUnopened(r) ==
  /\ pc[r] \in {"holding", "publishing"}
  /\ version' = version + 1
  /\ ReleaseLease(r, waiter)
  /\ pc' = [pc EXCEPT ![r] = "done"]

\* Release(lease, true): a raw write, or the end of a buffered one.
Commit(r) ==
  /\ \/ pc[r] = "holding" /\ r \in Raw
     \/ pc[r] = "publishing"
  /\ odd
  /\ version' = version + 1
  /\ ReleaseLease(r, waiter)
  /\ pc' = [pc EXCEPT ![r] = "done"]

\* AbortWriteBuffer: Release(lease, false) of a buffered write.
Abort(r) ==
  /\ pc[r] = "holding" /\ r \notin Raw
  /\ UNCHANGED version
  /\ ReleaseLease(r, waiter)
  /\ pc' = [pc EXCEPT ![r] = "done"]

Client(r) ==
  \/ Request(r)
  \/ WaitGranted(r)
  \/ Cancel(r)
  \/ CancelAndWait(r)
  \/ CancelDrained(r)
  \/ CancelTimeout(r)
  \/ BeginWriteback(r)
  \/ Commit(r)
  \/ Abort(r)

-----------------------------------------------------------------------------
(* Message handlers, run by the poller of h on the next message from s.    *)

\* HandleMessage dispatches unless the object retires.
Handling(h, s, kinds) ==
  /\ Inbound(h, s)
  /\ Head(wire[s][h]).kind \in kinds
  /\ FindsAllocated(h) /\ Locked(h)

\* Mutant of Forward: a message for another owner is consumed.
ForwardDropped(h, s) ==
  /\ Handling(h, s, {"req", "cancel"})
  /\ owner # h
  /\ wire' = Popped(h, s)
  /\ pub' = Room(h, s)
  /\ UNCHANGED <<shared, alloc, service, running, pc>>

\* A request or a cancellation for another owner is passed on.
Forward(h, s) ==
  /\ Handling(h, s, {"req", "cancel"})
  /\ owner # h
  /\ Send(Popped(h, s), Room(h, s), h, owner, Head(wire[s][h]))
  /\ UNCHANGED <<shared, alloc, service, running, pc>>

\* Mutant of QueueRequest: HandleRequest does not ask who the owner is.
QueueRequestAnywhere(h, s) ==
  /\ Handling(h, s, {"req"})
  /\ ~available[h] \/ held[h]
  /\ pending' = [pending EXCEPT ![h] = Append(@, Head(wire[s][h]))]
  /\ wire' = Popped(h, s)
  /\ pub' = Room(h, s)
  /\ UNCHANGED <<shared, alloc, available, held, waiter, lease, running, pc>>

\* A request reaches its owner while the token is held or still in flight.
QueueRequest(h, s) ==
  /\ Handling(h, s, {"req"})
  /\ owner = h
  /\ ~available[h] \/ held[h]
  /\ pending' = [pending EXCEPT ![h] = Append(@, Head(wire[s][h]))]
  /\ wire' = Popped(h, s)
  /\ pub' = Room(h, s)
  /\ UNCHANGED <<shared, alloc, available, held, waiter, lease, running, pc>>

\* Mutant of GrantRequest: a held token is granted again.
GrantRequestHeld(h, s) ==
  LET q == <<Head(wire[s][h])>> \o pending[h] IN
  /\ Handling(h, s, {"req"})
  /\ owner = h
  /\ available[h]
  /\ UNCHANGED <<version, alloc, pc>>
  /\ HandOff(h, waiter, lease, Popped(h, s), Room(h, s), q)
  /\ running' = [running EXCEPT ![h] = ~HandOffFails(h, waiter, q)]

\* A request reaches its owner and the token is free.
GrantRequest(h, s) ==
  LET q == <<Head(wire[s][h])>> \o pending[h] IN
  /\ Handling(h, s, {"req"})
  /\ owner = h
  /\ available[h] /\ ~held[h]
  /\ UNCHANGED <<version, alloc, pc>>
  /\ \/ /\ HandOff(h, waiter, lease, Popped(h, s), Room(h, s), q)
        /\ running' = [running EXCEPT ![h] = ~HandOffFails(h, waiter, q)]
     \/ /\ Interrupted(h, waiter, lease, Popped(h, s), Room(h, s), q, 1)
        /\ UNCHANGED running

\* The grant matches the authoritative metadata and a waiter of this host.
GrantMatches(h, m) ==
  /\ owner = h /\ epoch = m.epoch /\ version = m.version
  /\ waiter[m.req] # "none"

\* Mutant of AcceptGrant: HandleGrant forgets that the token is here now.
AcceptGrantAway(h, s) ==
  LET m == Head(wire[s][h]) IN
  /\ Handling(h, s, {"grant"})
  /\ GrantMatches(h, m)
  /\ ~Abandoned(waiter, m.req)
  /\ held' = [held EXCEPT ![h] = TRUE]
  /\ waiter' = [waiter EXCEPT ![m.req] = "granted"]
  /\ lease' = [lease EXCEPT ![m.req] = m.epoch]
  /\ odd' = (m.req \in Raw)
  /\ wire' = Popped(h, s)
  /\ pub' = Room(h, s)
  /\ UNCHANGED <<owner, epoch, version, alloc, available, pending, running, pc>>

\* A grant reaches a request that still waits.
AcceptGrant(h, s) ==
  LET m == Head(wire[s][h]) IN
  /\ Handling(h, s, {"grant"})
  /\ GrantMatches(h, m)
  /\ ~Abandoned(waiter, m.req)
  /\ held' = [held EXCEPT ![h] = TRUE]
  /\ available' = [available EXCEPT ![h] = TRUE]
  /\ waiter' = [waiter EXCEPT ![m.req] = "granted"]
  /\ lease' = [lease EXCEPT ![m.req] = m.epoch]
  /\ odd' = (m.req \in Raw)
  /\ wire' = Popped(h, s)
  /\ pub' = Room(h, s)
  /\ UNCHANGED <<owner, epoch, version, alloc, pending, running, pc>>

\* Mutant of ReleaseLateGrant: the waiter completes and the token stays held.
KeepLateGrant(h, s) ==
  LET m == Head(wire[s][h]) IN
  /\ Handling(h, s, {"grant"})
  /\ GrantMatches(h, m)
  /\ Abandoned(waiter, m.req)
  /\ held' = [held EXCEPT ![h] = TRUE]
  /\ available' = [available EXCEPT ![h] = TRUE]
  /\ waiter' = [waiter EXCEPT ![m.req] = Completed(m.req)]
  /\ wire' = Popped(h, s)
  /\ pub' = Room(h, s)
  /\ UNCHANGED <<shared, alloc, pending, lease, running, pc>>

\* A grant reaches an abandoned request: it completes and the token moves on.
ReleaseLateGrant(h, s) ==
  LET m == Head(wire[s][h])
      W == [waiter EXCEPT ![m.req] = Completed(m.req)]
  IN
  /\ Handling(h, s, {"grant"})
  /\ GrantMatches(h, m)
  /\ Abandoned(waiter, m.req)
  /\ UNCHANGED <<version, alloc, pc>>
  /\ \/ /\ HandOff(h, W, lease, Popped(h, s), Room(h, s), pending[h])
        /\ running' = [running EXCEPT ![h] = ~HandOffFails(h, W, pending[h])]
     \/ /\ Interrupted(h, W, lease, Popped(h, s), Room(h, s), pending[h], 0)
        /\ UNCHANGED running

\* A grant nobody waits for: HandleGrant fails and the poller stops.
RefuseGrant(h, s) ==
  /\ Handling(h, s, {"grant"})
  /\ ~GrantMatches(h, Head(wire[s][h]))
  /\ running' = [running EXCEPT ![h] = FALSE]
  /\ wire' = Popped(h, s)
  /\ pub' = Room(h, s)
  /\ UNCHANGED <<shared, alloc, service, pc>>

\* HandleCancelAck(kCancelled) at the requester.
Acknowledged(r) ==
  IF waiter[r] = "none" THEN waiter ELSE [waiter EXCEPT ![r] = Completed(r)]

\* A cancellation reaches the owner.  The request is dropped if it is queued
\* here.  A remote requester is told kCancelled in any case; a local one only
\* if the request was queued, else kTooLate, which changes nothing.
HandleCancel(h, s) ==
  LET r == Head(wire[s][h]).req
      d == Requester[r]
  IN
  /\ Handling(h, s, {"cancel"})
  /\ owner = h
  /\ Unqueue(h, r)
  /\ IF d = h
       THEN /\ waiter' = IF PendingAt(h, r) = {} THEN waiter ELSE Acknowledged(r)
            /\ wire' = Popped(h, s)
            /\ pub' = Room(h, s)
       ELSE /\ Send(Popped(h, s), Room(h, s), h, d, Note("ack", r))
            /\ UNCHANGED waiter
  /\ UNCHANGED <<shared, alloc, available, held, lease, running, pc>>

HandleCancelAck(h, s) ==
  /\ Handling(h, s, {"ack"})
  /\ waiter' = Acknowledged(Head(wire[s][h]).req)
  /\ wire' = Popped(h, s)
  /\ pub' = Room(h, s)
  /\ UNCHANGED <<shared, alloc, available, held, pending, lease, running, pc>>

HandleMessage(h, s) ==
  \/ Forward(h, s)
  \/ QueueRequest(h, s)
  \/ GrantRequest(h, s)
  \/ AcceptGrant(h, s)
  \/ ReleaseLateGrant(h, s)
  \/ RefuseGrant(h, s)
  \/ HandleCancel(h, s)
  \/ HandleCancelAck(h, s)

Next ==
  \/ \E r \in Requests : Client(r)
  \/ \E h, s \in Hosts : HandleMessage(h, s)
  \/ \E h \in Hosts : ProgressOutbound(h)

Spec == Init /\ [][Next]_vars

-----------------------------------------------------------------------------
(* Properties.                                                             *)

\* The type invariant: shared metadata, TokenService maps and queues keep
\* their types, and no ring cursor goes below zero.
TypeOK ==
  /\ owner \in Hosts /\ epoch \in Nat /\ version \in Nat /\ odd \in BOOLEAN
  /\ alloc \in {"allocated", "retiring", "free"}
  /\ available \in [Hosts -> BOOLEAN]
  /\ held \in [Hosts -> BOOLEAN]
  /\ pending \in [Hosts -> Seq(Msg)]
  /\ waiter \in [Requests -> WaiterStates]
  /\ lease \in [Requests -> Nat]
  /\ wire \in [Hosts -> [Hosts -> Seq(Msg)]]
  /\ pub \in [Hosts -> [Hosts -> Nat]]
  /\ running \in [Hosts -> BOOLEAN]
  /\ racing \subseteq Hosts
  /\ pc \in [Requests -> Places]

\* r holds the token: granted and not yet claimed by Wait, or claimed.
Live(r) == waiter[r] = "granted" \/ pc[r] \in {"holding", "publishing"}

\* Over all hosts at most one request holds the write token of the block.
SingleWriter == \A r1, r2 \in Requests : Live(r1) /\ Live(r2) => r1 = r2

\* A lease stays valid until its own holder gives it up: the metadata names
\* its host and its epoch, so BeginWriteback and Release never refuse it.
LeaseCurrent == \A r \in Requests : Live(r) => LeaseValid(r) /\ available[Requester[r]]

\* A host's own view (objects_[key].available, held) never contradicts the
\* shared metadata: only the published owner believes it has the token.
TokenAtOwner ==
  \A h \in Hosts : (available[h] => owner = h) /\ (held[h] => available[h])

\* While the token travels no host believes it has it, there is one grant, it
\* is bound for the host of its request and it agrees with the shared metadata,
\* so HandleGrant's check cannot fail.
GrantAuthoritative ==
  \A s, d \in Hosts : \A i \in DOMAIN wire[s][d] :
    LET m == wire[s][d][i] IN
    m.kind = "grant" =>
      /\ owner = d /\ Requester[m.req] = d
      /\ epoch = m.epoch /\ version = m.version
      /\ \A h \in Hosts : ~available[h]
      /\ \A s2, d2 \in Hosts : \A j \in DOMAIN wire[s2][d2] :
           wire[s2][d2][j].kind = "grant" => <<s2, d2, j>> = <<s, d, i>>

\* The inductive invariant of TokenProofs, without its types: the parts above,
\* only requests wait in a pending queue, and Wait claims a lease once.
TokenInv ==
  /\ TokenAtOwner
  /\ GrantAuthoritative
  /\ LeaseCurrent
  /\ SingleWriter
  /\ \A h \in Hosts : \A i \in DOMAIN pending[h] : pending[h][i].kind = "req"
  /\ \A r \in Requests : pc[r] \in {"holding", "publishing"} => waiter[r] = "none"

\* The places where a request, or the grant that answers it, is under way.
OnWires(r) ==
  UNION {{<<s, d, i>> : i \in {j \in DOMAIN wire[s][d] :
                                 /\ wire[s][d][j].req = r
                                 /\ wire[s][d][j].kind \in {"req", "grant"}}}
           : s, d \in Hosts}
InQueues(r) == UNION {{<<h, i>> : i \in PendingAt(h, r)} : h \in Hosts}
Copies(r) == OnWires(r) \cup InQueues(r)

\* Forwarding along a chain of owners neither loses nor duplicates a request:
\* one that waits is queued, travelling or being granted exactly once, until
\* the object retires.
RequestConserved ==
  \A r \in Requests :
    waiter[r] = "active" /\ alloc = "allocated" => Cardinality(Copies(r)) = 1

\* Requests wait only where the token is or is bound for, and only while it is
\* in use: a hand-over leaves no queue behind.  A Grant that finds the object
\* retiring puts the token back with requests behind it, but does not let it go.
BacklogAtOwner ==
  \A h \in Hosts : pending[h] # <<>> =>
    owner = h /\ (held[h] \/ ~available[h] \/ alloc # "allocated")

\* The token protocol implements the abstract write lease.
Holder == IF \E r \in Requests : Live(r) THEN CHOOSE r \in Requests : Live(r) ELSE Nobody
Lease == INSTANCE WriteLease WITH holder <- Holder, writing <- odd
ImplementsWriteLease == Lease!Spec

\* docs/cxl-token-protocol.md: "if a grant won the race, the requester
\* immediately releases the late grant".  HandleGrant and Grant find a waiter
\* for every grant, late or not, so no handler fails and no poller stops.
LateGrantReleased == \A h \in Hosts : running[h]

-----------------------------------------------------------------------------
(* Liveness.  A running poller keeps scanning its inbound queues and       *)
(* flushing its outbound FIFOs; a client that waits for or holds a token   *)
(* goes on to claim it and to release it, and one inside CancelAndWait     *)
(* goes on to cancel.  Nothing obliges a client to issue a request or to   *)
(* give one up.                                                            *)

\* One round of the poller thread of h does something.
Poll(h) == ProgressOutbound(h) \/ \E s \in Hosts : HandleMessage(h, s)

\* The client of r goes on.
Resume(r) ==
  \/ WaitGranted(r) \/ BeginWriteback(r) \/ Commit(r) \/ Abort(r)
  \/ (pc[r] = "draining" /\ Cancel(r)) \/ CancelDrained(r) \/ CancelTimeout(r)

\* A cancellation was acknowledged while its request was still under way: the
\* grant to come finds no waiter (LateGrantReleased), and the token is lost.
Overtaken ==
  \E r \in Requests :
    waiter[r] = "none" /\ Copies(r) # {} /\ FindsAllocated(Requester[r])

\* When the clients ask finitely often, a request is granted in the end unless
\* its own client cancels it or the object retires: it catches up with the owner
\* through full rings, and a token that came too late for a cancelled request,
\* also for one whose CancelAndWait has timed out, is passed on and not kept.
\* (Two hosts that ask again and again may keep the request of a third chasing
\* the token for ever.)
RequestServed ==
  <>Overtaken \/ \A r \in Requests : waiter[r] = "active" ~> waiter[r] # "active"

=============================================================================
