# Verification of CXLoom's core protocols

CXLoom is a distributed shared memory (LoomMem) and a thread runtime (LoomPar)
for hosts that share one CXL memory region. This directory holds TLA+ models of
its concurrent parts, TLC configurations that check them on small instances, and
TLAPS proofs about them. Paths such as `token.cpp` stand for
`src/src/loommem/token.cpp`; `PROJECT.json` gives the lines behind every
definition.

Run a check with `tlc -config X.cfg M` and a proof with `tlapm TokenProofs.tla`.

## The system

| component | state | operations | interaction |
| --- | --- | --- | --- |
| SPSC queue (`queue.cpp`) | head, tail and slot sequences in shared memory, one ring per ordered pair of hosts | Push, TryPop | carries every message below |
| Queue poller (`poller.cpp`) | a thread per host, a stop flag | pop one message, call its handler, flush outbound FIFOs | a handler error stops it |
| Write-token service (`token.cpp`) | in shared memory per block: owner, epoch, version, writeback parity; per host: available, held, pending requests, waiters, outbound FIFOs | Request, Wait, Cancel, CancelAndWait, BeginWriteback, Release, message handlers | messages through the rings, metadata through shared memory |
| Reads, writeback, replica cache (`runtime.cpp`) | private replicas in two indexes, their byte count; shared: membership bits, advertised versions | ReadRange, AcquireWriteRange, ReleaseWriteBuffer, SynchronizeAcquire, InvalidateReadCache | reads blocks without a lock while a token holder stores |
| Object retirement (`runtime.cpp`, `allocator.cpp`, `token.cpp`) | one transaction in shared memory: phase, three sets of hosts, watermarks | BeginRetire, CloseObject, acknowledgements, ForgetAllocation, Free | must outlive every message, waiter and reader of the object |
| Extent allocator (`allocator.cpp`) | two pools of free extents, one array of nodes | Allocate, Free | one spin lock in shared memory |
| Discovery slots (`allocator.cpp`) | per slot: object offset and reader count; per descriptor: state, operations per host, sealed hosts | LockAllocationSlot, Describe, AcquireReference, ReleaseReference | readers without the spin lock, against Allocate, Free and retirement |
| Write ranges and staged writes (`loommem/runtime.cpp`, `api/loommem.cpp`) | leases of a buffer, staged buffers per execution context | AcquireWriteRange, ReleaseWriteBuffer, AbortWriteBuffer, StageWriteBuffer, SynchronizeRelease, WriteView | one token per block; contexts of a host share its token state |
| Mutex and condition variable (`api/cxloom_mem.cpp`, `common/condition.h`) | per host: owner and waiter queue of the gate; shared: the mutex object's lease, waiting and ready bits | lock, trylock, unlock, wait, timedwait, signal, broadcast | on write buffers; waiters are native threads or fibers |
| Barrier (`barrier.cpp`) | per host: generation, arrivals, reported, broken; coordinator: arrived hosts | Wait, Handle, Break | messages that a full ring may reorder |
| Threads (`threading.cpp`, `loompar/runtime.cpp`) | records at home, executions elsewhere, running and pending counters | create, join, detach, Progress, handlers | three messages, which may be reordered |
| Function registry (`cluster_registry.cpp`) | one manifest per host, what peers announced | Install, Handle, Wait, Resolve | manifest messages; gates remote creates |

Also present and not modelled: placement scheduling, the experimental migration
transaction, argument checking wrappers, bootstrap and mapping, configuration and
tracing. `PROJECT.json` says why for each.

What is hard here: requests chase a token that moves; a cancellation races its
own request and a late grant; rings fill up and callers time out; storage is
reused while messages about it may still be in flight; readers copy blocks while
a writer stores; descriptors are looked up while their memory is reused; an
operation on several blocks fails or times out half way; a thread tests, unlocks
and parks while another signals; control messages overtake each other. `PROJECT.json` lists
these hazards line by line with the properties that cover them.

What makes each part correct: at most one valid lease per block and no request
lost (token); a bounded FIFO of whole messages (queue); no torn or stale replica
(coherence); storage reused only when nothing refers to it (retirement); an exact
partition of each pool (extents); a guard or a reference that pins what it names
(slots); leases that nobody else can lose and no error path leaks (ranges);
exclusion and no lost wakeup (mutex, condition); nobody passes a barrier early or waits for ever
(barrier); true results and exact counters (threads); agreement (registry).

## Modules

- `Token` models one coherence block and all hosts. Client calls are
  actions on a request `r` (`Request`, `WaitGranted`, `Cancel`, `CancelAndWait`,
  `CancelDrained`, `CancelTimeout`, `BeginWriteback`, `Commit`, `Abort`);
  handlers are actions on a host and an inbound ring (`Forward`, `QueueRequest`,
  `GrantRequest`, `AcceptGrant`, `ReleaseLateGrant`, `RefuseGrant`,
  `HandleCancel`, `HandleCancelAck`). `protocol_mutex_` makes each one step.
  `wire[s][d]` is the ring followed by the outbound FIFO of `s` towards `d`;
  `pub[s][d]` says how much of it is in the ring, which holds `Capacity`
  entries, and `Flush` is the push that every send and poller round attempts.
  The epoch and version of a block are plain counters; a run is finite because
  each client asks once. `Release` can hand the token on, pass over abandoned
  requests (`Skipped`), or keep it (`PutBack`); `ReleaseLease` is that whole call.
  `protocol_mutex_` is local to a host, so another host may begin to retire the
  object inside any of these steps. `racing` holds the hosts whose first operation
  under the mutex since then is still to come: such an operation may have tested
  the allocation before (`FindsAllocated`), and every later test inside it may come
  out the other way. `Interrupted` is a `Release`, or the `Grant` it calls
  (`token.cpp:320`), that finds the object retiring after zero or more requests
  were passed over: the first clears the queue, the second drops its own request and
  leaves the others queued behind a free token until the host closes the object.
- `WriteLease` is the abstract lease: one holder, who may open a write window,
  close it, and leave. `Token` implements it (`ImplementsWriteLease`).
- `Retirement` EXTENDS `Token` with the retirement transaction, `CloseObject` and
  the effect of `IsRetiring` on every handler. `BeginRetire` puts every host in
  `racing`. That allows slightly more than the code: a racing handler may take a
  message that arrived after `BeginRetire`. A watermark is kept as its distance to
  the consumer's cursor (`due`). The other refusals of `Free` (readers in the slot,
  advertised replicas, extent nodes) are in `Slots`, `Coherence` and `Extents`.
- `SpscQueue` models `Push` and `TryPop` one store at a time; `Fifo` is the
  bounded queue it implements.
- `Coherence` models a host's two replica indexes, membership and advertised
  versions, the loads of a block fill, and writers that store word by word. It
  takes mutual exclusion of writers from `Token`.
- `Barrier`, `Threads`, `ClusterRegistry` model LoomPar. Their messages form a
  set: `Progress` moves a message that does not fit to the end of `outgoing_`,
  so that later ones overtake it.
- `Extents` models both pools as sets of free extents. The code's address list
  and size bins hold the same extents; the order within a bin is left open.
- `Slots` models discovery slots and operation references, one atomic access of a
  reader at a time, against `Allocate`, `BeginRetire`, the closing acknowledgement
  and `Free`, which hold the extent lock but not the readers off. Memory that is
  no descriptor is `garbage`.
- `WriteRange` models write buffers over several blocks. A call of the token
  service is one step, so contexts interleave between any two rounds of a loop:
  the ascending acquisition, its undoing after a timeout, publication block by
  block, the cleanups after a failure, `Abort`, and the staged buffers that
  `SynchronizeRelease` publishes. The service is reduced to its answers; a request
  that a cancellation missed (finding 1) stays behind as one without waiter.
  `holder` and `stolen` are history variables for the properties.
- `Pthread` models mutex and condition variable in the local and the distributed
  case (`distributed` is chosen initially), with `CooperativeCondition` as a queue
  of waiters with a ready flag. Consumers wait while there is no item; producers
  add items, unlock, and signal or broadcast.
- `MC*` modules give the constants of the runs; `*Proofs` modules hold the theorems about
  the module they are named after, `TokenProofs` also those about `Retirement`,
  `MessagingProofs` those about `SpscQueue` and `Threads`, `MemoryProofs` those about
  `Extents` and `WriteRange`.

Definitions called `Mutant of X` are plausible slips in the code. Replacing X by
one of them makes a property fail; they are no part of any specification.

## Runs

| run | instance | shows |
| --- | --- | --- |
| `token_cancel` | 3 hosts, 2 requests of the second and 1 of the third, one of them cancellable, one raw, rings of one entry; the first host may retire the object | valid leases, one writer, conserved requests, backlog only at the owner (and none behind a free token of a live object), the inductive invariant `TokenInv`, refinement of `WriteLease` (write windows are opened and closed by the holder only); reclaimed storage has no message, waiter, lease or reference left; a closed host stays quiet |
| `token_live` | 3 hosts, 2 requests of the second and the third, one of which may be cancelled or time out in `CancelAndWait`, one raw; retirement at any moment | every request is granted in the end unless its own client cancels it or the object retires; a late grant of a cancelled one is passed on; a retirement gets to `kReclaimable` |
| `token_late_grant` | 3 hosts, 3 requests that may all be cancelled | **violation**: a poller stops and the token is lost |
| `spsc` | ring of 2, 6 pushes (three laps), 2 messages | no slot race, FIFO refinement, everything consumed |
| `coherence` | 2 hosts, 2 blocks of 2 words, room for 2 replicas, one buffered and one raw writer | no torn or stale replica, exact membership and advertised versions |
| `barrier` | 3 hosts with 1, 2 and 1 participants, one more that is too many, two faulty ones, 2 generations | nobody passes early, no message is unexpected, every generation ends, a break reaches all hosts and wakes all waiters |
| `threads` | 2 hosts, 3 threads (joined, detached, unregistered), limits of 1 | exact counters, true results, joined and detached threads are reclaimed |
| `extents` | 4 slots, 6 nodes, two object shapes | exact partition, coalescing, complete search; `Free` lacks its two nodes only with enough objects |
| `slots` | 2 slots, 2 addresses, 2 readers on 2 hosts | a guarded descriptor is the right one and complete, reader counts are exact, a reference pins its object |
| `range` | 2 blocks, 3 contexts (two of one host), 2 acquisitions each; one context may time out, and may acquire while it has staged buffers | leases stay with their context unless a failed release is repeated, no token leaks, acquisitions do not deadlock |
| `pthread` | 3 consumers (one timed, one whose unlock fails in a wait), 2 producers (signal, broadcast, one that tries first), 2 bits; one host and two | exclusion over all hosts, no stranded waiter at an open gate, exact waiter bits, all threads return |
| `registry` | 3 hosts, 3 manifests | a ready host has proof of agreement; all get ready or all fail |

Bounds. Three hosts are the fewest with a requester, a previous owner and a new
owner that are all different, which is what forwarding and overtaking need; a
ring of one entry makes rings fill up at once. Two requests of one host let an
interrupted `Release` leave one queued behind the one it drops. `token_live` has two
requests, of which one can wait at the other's host while the object is closed, or
behind its late grant. In the queue, three laps reuse
each slot twice. Two blocks compete for room in the replica cache while two
writers meet at one of them. A barrier needs a host with two participants and two
hosts besides the coordinator, and a second generation to confuse with the first.
Behaviours in which no participant misuses the barrier are among those of the
faulty instance. Three threads on two hosts meet both limits, of running threads
on either host and of pending creates at one home.
Six nodes are too few for four objects, which is the point of `extents`: an
object with no free neighbour in either pool can meet a single unused node, and a
retirement may stay in `kReclaimable`, so deadlock is not checked.
Two readers, two slots and two addresses let a slot be freed and reused, with the
same or with another address, between any two accesses of a reader. Two blocks and
three contexts are the fewest in which ranges overlap both ways and two contexts
share a host's token state; with two acquisitions each, a lease is taken again
after an abort. In `pthread` three consumers find two bits taken, two of them share
a gate, and two producers notify in either order; 64 bits differ from 2 only in how
many waiters it takes to exhaust them.
`CHECK_DEADLOCK FALSE` otherwise means that the finite set of calls is used up;
in `token_late_grant` and the other token runs a stopped poller also ends a
behaviour.

Fairness. `token_live` assumes that pollers keep scanning, and
flush and progress the retirement as they do (`Poll`, `RPoll`), and that a client
that waits for or holds a lease, or is inside `CancelAndWait`, goes on (`Resume`,
`RResume`); a poller runs for as long as no handler fails, and clients' calls are
bounded by the application. Nobody is obliged to ask, to cancel or to retire. Both
properties exclude behaviours with finding 1 (`Overtaken`), in which the token is lost.
`RequestServed` is a claim about clients that ask finitely often, as they do in the
run: each hop of a forwarded request may arrive behind a newer request that has
moved the token on (`token.cpp:414`), so two hosts that ask again and again can keep
the request of a third chasing the token for ever. `RetirementCompletes` ends at
`kReclaimable`: `FreeShared` gives up at its deadline (`runtime.cpp:213`), after
which the object stays retiring (`docs/object-retirement.md:146`) until somebody
calls it again, and `Free` itself may be refused. `spsc` assumes
a running consumer (`QueuePoller::Run`). Barriers assume pollers and woken
waiters run; threads assume that callbacks return and that workers, pollers and
`Progress` keep running; the registry assumes that its messages are handled. `range` assumes that requests
are delivered, that a context inside an operation goes on, ends its views and
reaches a release boundary, and that timeouts expire; it excludes tokens that were
lost to finding 1. `pthread` only assumes that some thread goes on while one can,
and a free lease is such a case (`RequestServed`).

## Findings

1. *A cancellation can overtake its request* (`token_late_grant`).
   `HandleCancel` (`token.cpp:543`) acknowledges a cancellation whether or not it
   found the request. `Cancel` reads the current owner from shared memory and
   sends to it directly, while the request may still be on its way through the
   previous owner. The requester erases its waiter, the request arrives, is
   granted, and `HandleGrant` fails: the poller stops with the token at a host
   that does not know it. `docs/cxl-token-protocol.md:44` promises that a late
   grant is released.

Two more were seen in the models and have no run of their own:

- *An abort after a half-failed release can take another context's lease.* A
  `ReleaseWriteBuffer` that fails at one block (its `Release` meets a local request
  left behind as in finding 1) has published or released the others. TLC's shortest
  trace: the publication of block 1 fails, the cleanup of `ReleaseWriteBuffer`
  releases block 2, another context of the host acquires and stages block 2 in the
  same epoch, and `SynchronizeRelease` (`runtime.cpp:1065`) aborts the whole buffer
  and so releases block 2 again; `Release` tells leases apart by their epoch only, and
  the staged lease is gone. `docs/loompar-synchronization.md:112` says "Other contexts'
  staged buffers are unaffected, including other fibers on the same worker." In
  `WriteRange` such a block is in `stolen`, and `LeasesKept` exempts it;
  `OnlyRepeatsSteal` shows that nothing else takes a lease away.
- *A timed-out `CancelAndWait` leaks its waiter.* `retain_completion` stays set
  (`token.cpp:308`), so the completion that comes later keeps the entry and nobody
  removes it, against `docs/cxl-token-protocol.md:45`.

Smaller observations: `docs` speak of layout version 12 where the code has 13; a
distributed timed wait that has just timed out can use up a signal meant for
another waiter, since `NotifyCondition` does not know deadlines, so an application
has to test its predicate after a timeout too (`Pthread` does); `RequestMigration`, if it
were called, would raise a migration epoch that no completion message carries, and
the joiner would wait for ever; 4096 extent nodes for 2048 slots do not quite
exclude that `Free` is short of nodes: with 2047 or 2048 objects and every gap in
both pools used it can be (`Coalesced`), and the retirement then blocks all others;
requesters are not served fairly when they ask without end (see Fairness).

## Proofs

Eight modules `*Proofs` hold 35 theorems that hold for every value of the
constants under the named ASSUMEs; between them they state 29 of the properties that the runs check on small
instances. Each follows the same pattern: an inductive invariant (`TokenInv`,
`RetireInv`, `SlotsInv`, ...), a lemma per action that it is kept, and a temporal
theorem. What an invariant adds to the property is what a step relies on:

- `TokenProofs`, about `Token`: `TypeCorrect`, `TokenSafe`, and from it
  `MutualExclusion` (`SingleWriter`), `LeasesStayValid` (`LeaseCurrent`) and
  `GrantsAreAuthoritative`; then `BacklogFollowsToken` (`BacklogAtOwner`) and
  `ImplementsLease`, the refinement of `WriteLease`. `SingleWriter` alone is not
  inductive: a grant in flight is a right nobody holds yet. `TokenInv` says where
  that right is. Only the published owner can believe it has the token
  (`TokenAtOwner`); at most one grant travels, it goes to the published owner with
  its epoch, and meanwhile nobody believes to have the token
  (`GrantAuthoritative`); a live lease is the current one of a host that has the
  token (`LeaseCurrent`); pending queues hold only requests. `SettlesSafe`, on the
  shared tail of `Release` and `Grant`, is the heart of the argument. The
  refinement needs three more facts (`LeaseInv`): a window is open only under a
  lease, a waiter that is waited for has a client who waits, and a cancellation
  in flight is of a request its client has given up. `TypeInv` adds the relation
  of rings and cursors to the types. `RequestsConserved` (`RequestConserved`) needs
  an invariant of its own, `Conserved`: no request is carried twice, by two lines or twice
  by one (`Apart`), an active waiter is carried somewhere, and the request of an idle client
  nowhere. Counting is left to the end (`ApartOnce`): the steps are about which lines
  carry what (`Cargo`), and `HandOffConserves` shows that moving a whole backlog to
  a new owner, minus what was cancelled, moves each request exactly once.
- `TokenProofs`, about `Retirement`: `TokenSafeWhileRetiring` and `BacklogWhileRetiring` carry the
  token results over to the protocol with retirement: requests wait only at the owner
  that the metadata names, also those an interrupted `Release` leaves behind a free token;
  then `ClosedStaysQuiet`
  (`ClosedIsQuiet`) and `ReclaimIsSafe` (`ReclaimSafe`). `RetireInv` orders the phases
  and says what each has made sure of: a host that closed has no waiter, lease or
  queued request, what it has still on the wire lies below its watermarks, and a
  host that drained has consumed everything below the others' watermarks. So
  when all have drained every wire is empty. An operation that tested the allocation before
  `BeginRetire` (`racing`) is why a closed host needs its own argument: closing is an
  operation under the mutex too, so a closed host is not racing and starts nothing
  (`ClientQuiet`, `HandlerQuiet`). Every way in which `Release` and the handlers end,
  `HandOff` or `Interrupted`, is one case of `Settles`, about which the lemmas are stated.
  `ImplementsLeaseWhileRetiring` and `RequestsConservedUntilRetirement` are the refinement and
  the conservation of requests for the protocol with retirement: a step that closes or
  rejects is a step of `WriteLease` (it ends waits) or none.
- `MessagingProofs`, about `SpscQueue`: `RingNeverRaces` (`NoSlotRace`) and `RingIsFifo`
  (`ImplementsFifo`). `QueueInv` relates both cursors to the sequence word of every slot
  between them and says how far `Push` and `TryPop` have come; a slot is named by
  `n % Capacity`, and distinct cursor values less than `Capacity` apart name distinct slots.
- `MessagingProofs`, about `Threads`: `CountersAreExact` (`CountersExact`) and `ResultsAreDelivered`
  (`ResultDelivered`). `ThreadsInv` says what carries an unfinished remote thread: its
  request, its execution, its completion message or the poller between the two halves of that
  message, and never two of them (`StageOK`). So a completion comes once, the late message of
  `HandleLate` is an acknowledgement, and every step adds one element to a counted set,
  removes one or leaves it alone.
- `CoherenceProofs`: `ReplicasAreCommitted`, `CurrentStaysFresh`, `DirectoryStaysExact`.
  `CoherenceInv` says what shared memory holds while a window is open, and what a fill
  may have copied given the epoch and version it read first (`CopyOK`), so that its
  last two comparisons prove the copy whole.
- `SlotsProofs`: `GuardsProtect` (`GuardedDescriptor`), `CountsAreExact`
  (`ReadersExact`), `ReferencesPin` (`ReferencePins`). `SlotsInv` adds what the holder of
  the extent lock knows at each of its steps (`LockOK`, `LiveOK`, `RetireOK`).
- `MemoryProofs`, about `Extents`: `PoolsArePartitioned` (`Partition`) and `PoolsStayCoalesced`
  (`Coalesced`), which also counts: a coalesced pool has at most one free extent more than
  objects, which bounds when `Free` can be short of nodes. `ExtentsInv` states the partition without counting: free extents and
  objects are apart, no byte is uncovered, free extents do not touch. That a failed
  `Allocate` always finds a node for the data extent it took is part of the
  argument (`AllocateFails`): the extent has a free neighbour unless taking it freed a node.
- `MemoryProofs`, about `WriteRange`: `LeasesAreKept` (`LeasesKept`) and `NothingLeaks` (`NoLeak`).
  `RangeInv` says that what a context counts on, owned or about to be claimed, is the last
  lease granted for its block unless the block was stolen (`KeptOK`); that whoever
  holds a token has it in a buffer, a claim or a cleanup loop, with the current epoch
  (`HeldOK`); that live requests are those of the waiting contexts (`WaitersOK`); that no
  block is twice in a context's buffers (`Shape`), which is why releasing one lease ends no other;
  and that a window is opened by the one who copies (`WindowOK`). Each action is one of a few kinds
  of step (`MoveKeeps`, `RequestKeeps`, `WithdrawKeeps`, `ReleaseKeeps`, `PassKeeps`, `OpenKeeps`),
  so the token service is argued about once. `NoLeak` counts the buffers that
  still wait in `SynchronizeRelease` while an earlier one is aborted as being released: without them
  the invariant is not inductive.
- `PthreadProofs`: `MutexExcludes` (`MutualExclusion`), `GateStrandsNobody`
  (`GateNotStranded`), `BitsAreExact` (`BitsExact`). `PthreadInv` adds who owns a handle,
  that a gate's queue holds exactly the threads parked there, each once, and where the
  lease is in the distributed case.
- `BarrierProofs`: `NobodyPassesEarly` (`BarrierHolds`), `MessagesAreExpected`
  (`NoneUnexpected`). `BarrierInv` bounds how far hosts are apart, says of which
  generation a message in flight can be, and what has arrived in each generation.
- `ClusterRegistryProofs`: `ReadyHostsAgree` (`ReadyAgrees`), `CreatedThreadsResolve`
  (`CreatesResolve`). `RegistryInv`: what is on its way or was heard is part of the sender's manifest.

The assumptions on constants are those of the code: fixed, finite tables and thread sets
(`IsFiniteSet` in `Barrier`, `Slots`, `Coherence`, `Extents`, needed only to count), at least one block and
one replica, positive sizes and capacities, manifests that are sequences, and markers such
as `None` that are no member of the sets they are used with. TLC evaluates them in the runs.

Only model-checked:

- every liveness property (`RequestServed`, `RetirementCompletes`, `EveryMessageConsumed`,
  `AcquisitionEnds`, `AllReturn`, `Rendezvous`, `Reclaimed`, ...): fairness is beyond the prover;
- `OnlyRepeatsSteal` of `WriteRange`: `RangeInv` says nothing of the leases that a cleanup loop
  releases for the first time;
- `SearchComplete` of `Extents`: it is about the binary order of a size, and the prover
  knows nothing of `^`.

## Not modelled, abstractions and limits

- One block per instance of `Token`, one object per instance of `Retirement`, one
  barrier id per instance of `Barrier`: they keep separate state, and share only
  queues.
- Shared memory is release/acquire: a published store is seen by whoever reads
  the publication. Cache flushes and the modes of `visibility.cpp` are assumed to
  provide that.
- Hosts do not crash and messages are neither lost nor duplicated: the code has no
  recovery and the rings are reliable. Duplicate checks in handlers are left out.
- `TOKEN_REJECT` sent through a ring is always dropped by `IsRetiring` at its
  destination; rejection reaches a waiter through `CloseObject`.
- A byte budget smaller than one block, in which a new replica evicts itself, is
  not modelled. `SpscQueue::Size`, called by a third thread, is advisory.
- `Handle`'s defensive breaks are no action of `Barrier`: `NoneUnexpected` shows
  that no message meets them. Rejected manifests need an inconsistent peer.
- `Slots` leaves open why `Free` refuses (replica holders, missing extent nodes);
  an overflow of the reader count at 2^32 - 2 is not reached.
- `WriteRange` leaves out failures of memory visibility and the object's
  retirement, and a patient context does not acquire while it has staged buffers:
  it would rely on its timeout.
- `Pthread` leaves out creating, destroying, exporting and attaching handles, errors
  of a lease other than a timeout, and failing reads of the condition object other
  than late ones. `SynchronizeAcquire` does not fail on an initialized runtime.
- `LoadUpdate` messages, statistics and backoff carry no protocol state.

## Plan

Modelled, in this order: token, lease refinement, retirement, queue, coherence,
barrier, threads, extents, registry, discovery slots, write ranges, mutex and
condition variable. Not modelled and left out on purpose: `Finalize` of LoomPar
(it refuses while threads, barriers, staged writes or control messages are left, and
a process ends after it), handle creation and destruction, placement.
Proved: every safety property of the runs but those listed as only model-checked.
