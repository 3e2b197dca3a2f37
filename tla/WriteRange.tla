----------------------------- MODULE WriteRange -----------------------------
(***************************************************************************)
(* Write buffers over several coherence blocks of one object:              *)
(* AcquireWriteRange, ReleaseWriteBuffer, AbortWriteBuffer,                *)
(* StageWriteBuffer and SynchronizeRelease (src/loommem/runtime.cpp), and  *)
(* the WriteView that owns a buffer (src/api/loommem.cpp).                 *)
(*                                                                         *)
(* An execution context collects the write tokens of its blocks one after  *)
(* the other.  The token of a block is reduced to what Request, Wait,      *)
(* CancelAndWait, BeginWriteback and Release (src/loommem/token.cpp, in    *)
(* detail in module Token) tell their callers; requests reach the owner in *)
(* any order.  A call of the token service is one step, so other contexts  *)
(* run between any two calls of a loop.  The object is not retired: that   *)
(* is the subject of module Retirement.                                    *)
(***************************************************************************)
EXTENDS Integers, Sequences, FiniteSets, SequencesExt

CONSTANTS
  Hosts,        \* the participating hosts
  Home,         \* the allocating host, first owner of every token
  Contexts,     \* execution contexts (fibers or threads) that write
  HostOf,       \* HostOf[c]: the host of context c
  Patient,      \* contexts whose acquisitions do not time out
  NumBlocks,    \* coherence blocks of the object
  MaxAcquires,  \* MaxAcquires[c]: bound on the acquisitions of context c
  None          \* no context

ASSUME ContextsAssumption ==
  /\ Home \in Hosts
  /\ HostOf \in [Contexts -> Hosts]
  /\ Patient \subseteq Contexts
  /\ None \notin Contexts
ASSUME BoundsAssumption == NumBlocks \in Nat \ {0} /\ MaxAcquires \in [Contexts -> Nat]

Blocks == 1 .. NumBlocks

VARIABLES
  owner,     \* token_owner of each block
  epoch,     \* token_epoch
  held,      \* objects_[key].held at the owner
  odd,       \* writeback_epoch & 1
  requests,  \* requests queued at the owner or on their way to it
  granted,   \* epoch of the unclaimed grant of a context, else 0
  run,       \* run[c]: where context c is and the leases it has
  acquires,  \* acquisitions so far
  holder,    \* history: whom the token was granted to, until it is released
  stolen     \* history: blocks used by one context while another held them

token == <<owner, epoch, held, odd, requests>>
vars == <<token, granted, run, acquires, holder, stolen>>

\* view: the leases of the buffer being acquired, or owned by a WriteView;
\* staged: staged_writes_[c], each buffer as its leases; writes: the buffers
\* that Commit or SynchronizeRelease has still to release, next: the next lease
\* of the first of them; todo: what a cleanup loop has still to release; final:
\* the view is being destroyed; spent: the view is still active after a Commit
\* or an Abort that failed.
Idle == [pc |-> "idle", range |-> <<1, 1>>, want |-> 1, view |-> <<>>, staged |-> <<>>,
         writes |-> <<>>, next |-> 1, todo |-> <<>>, failed |-> FALSE, final |-> FALSE,
         spent |-> FALSE]

Init ==
  /\ owner = [b \in Blocks |-> Home]
  /\ epoch = [b \in Blocks |-> 1]
  /\ held = [b \in Blocks |-> FALSE]
  /\ odd = [b \in Blocks |-> FALSE]
  /\ requests = [b \in Blocks |-> {}]
  /\ granted = [c \in Contexts |-> 0]
  /\ run = [c \in Contexts |-> Idle]
  /\ acquires = [c \in Contexts |-> 0]
  /\ holder = [b \in Blocks |-> None]
  /\ stolen = {}

-----------------------------------------------------------------------------
(* The token service.                                                      *)

\* A queued request.  live: its waiter exists.  sent: the last epoch in which
\* the request is, or travels, where a cancellation follows it: at the owner it
\* was sent to, or one move later if that was the requester's own host, which
\* forwards it.
Entry(c, b) ==
  [context |-> c, live |-> TRUE,
   sent |-> IF owner[b] = HostOf[c] THEN epoch[b] + 1 ELSE epoch[b]]

Lease(b, e) == [block |-> b, epoch |-> e]

\* Grant to request q.  G: unclaimed grants so far.  A request without waiter
\* takes the token with it: a local one leaves it held by nobody, a remote one
\* is refused by HandleGrant.
Grant(b, q, G) ==
  LET h == HostOf[q.context]
      e == IF h = owner[b] THEN epoch[b] ELSE epoch[b] + 1
  IN
  /\ owner' = [owner EXCEPT ![b] = h]
  /\ epoch' = [epoch EXCEPT ![b] = e]
  /\ held' = [held EXCEPT ![b] = TRUE]
  /\ requests' = [requests EXCEPT ![b] = @ \ {q}]
  /\ granted' = IF q.live THEN [G EXCEPT ![q.context] = e] ELSE G
  /\ holder' = [holder EXCEPT ![b] = IF q.live THEN q.context ELSE None]

\* Nobody waits at the owner.  Requests of its own contexts wait there from the
\* start; others may still be on their way.
Keep(b, G) ==
  /\ \A q \in requests[b] : HostOf[q.context] # owner[b] \/ q.sent # epoch[b] + 1
  /\ held' = [held EXCEPT ![b] = FALSE]
  /\ granted' = G
  /\ holder' = [holder EXCEPT ![b] = None]
  /\ UNCHANGED <<owner, epoch, requests>>

\* Release and BeginWriteback accept lease l of context c.
Valid(c, l) ==
  owner[l.block] = HostOf[c] /\ epoch[l.block] = l.epoch /\ held[l.block]

\* The blocks of stolen once c uses a lease of block b.
Used(c, b) == IF holder[b] \in {c, None} THEN stolen ELSE stolen \cup {b}

\* Release(l, modified) and its status: not OK for a lease that is no longer
\* valid, for a modified block without an open window, and when the next
\* request is local and has no waiter.
Release(c, l, modified, ok) ==
  LET b == l.block
      G == [granted EXCEPT ![c] = 0]
  IN
  \/ /\ ~Valid(c, l) \/ (modified /\ ~odd[b])
     /\ ~ok
     /\ granted' = G
     /\ UNCHANGED <<token, holder, stolen>>
  \/ /\ Valid(c, l) /\ (modified => odd[b])
     /\ \/ Keep(b, G) /\ ok
        \/ \E q \in requests[b] : /\ Grant(b, q, G)
                                  /\ ok = (q.live \/ HostOf[q.context] # owner[b])
     /\ odd' = [odd EXCEPT ![b] = FALSE]
     /\ stolen' = Used(c, b)

\* Request of block b by context c.
Request(c, b) ==
  IF owner[b] = HostOf[c] /\ ~held[b]
    THEN /\ held' = [held EXCEPT ![b] = TRUE]
         /\ granted' = [granted EXCEPT ![c] = epoch[b]]
         /\ holder' = [holder EXCEPT ![b] = c]
         /\ UNCHANGED <<owner, epoch, odd, requests, stolen>>
    ELSE /\ requests' = [requests EXCEPT ![b] = @ \cup {Entry(c, b)}]
         /\ granted' = [granted EXCEPT ![c] = 0]
         /\ UNCHANGED <<owner, epoch, held, odd, holder, stolen>>

\* The poller of the owner meets a request while the token is free.
Deliver(b) ==
  /\ ~held[b]
  /\ \E q \in requests[b] : Grant(b, q, granted)
  /\ UNCHANGED <<odd, run, acquires, stolen>>

-----------------------------------------------------------------------------
(* AcquireWriteRange.                                                      *)

At(c, places) == run[c].pc \in places
BlocksOf(leases) == {leases[i].block : i \in DOMAIN leases}
StagedBlocks(c) == UNION {BlocksOf(run[c].staged[i]) : i \in DOMAIN run[c].staged}

\* Mutant of NextBlock: blocks whose token is at hand are taken first.
NextBlockNearest(c, range, have) ==
  LET left == (range[1] .. range[2]) \ BlocksOf(have)
      near == {b \in left : owner[b] = HostOf[c]}
  IN CHOOSE b \in left : b \in near \/ near = {}

\* The blocks of a range are requested in ascending order.
NextBlock(c, range, have) == range[1] + Len(have)

\* Acquiring a block of one's own staged buffers would wait for oneself; a
\* context that holds staged buffers while it acquires more relies on its
\* timeout.
Acquire(c, range) ==
  LET b == NextBlock(c, range, <<>>) IN
  /\ At(c, {"idle"})
  /\ acquires[c] < MaxAcquires[c]
  /\ StagedBlocks(c) \cap (range[1] .. range[2]) = {}
  /\ c \in Patient => run[c].staged = <<>>
  /\ Request(c, b)
  /\ run' = [run EXCEPT ![c].pc = "waiting", ![c].range = range, ![c].want = b]
  /\ acquires' = [acquires EXCEPT ![c] = @ + 1]

\* Wait returns a lease; the loop requests the next block, or the buffer is
\* complete.
Claim(c) ==
  LET range == run[c].range
      have == Append(run[c].view, Lease(run[c].want, granted[c]))
      b == NextBlock(c, range, have)
  IN
  /\ At(c, {"waiting"})
  /\ granted[c] # 0
  /\ IF Len(have) <= range[2] - range[1]
       THEN /\ Request(c, b)
            /\ run' = [run EXCEPT ![c].view = have, ![c].want = b]
       ELSE /\ granted' = [granted EXCEPT ![c] = 0]
            /\ run' = [run EXCEPT ![c] = [Idle EXCEPT !.pc = "active", !.view = have,
                                                      !.staged = run[c].staged]]
            /\ UNCHANGED <<token, holder, stolen>>
  /\ UNCHANGED acquires

\* CancelAndWait of a request that is not granted.  It leaves the queue, or is
\* passed over when its turn comes; but a cancellation that overtakes the
\* request on its way to a new owner leaves it behind without a waiter.
Withdraw(c) ==
  LET b == run[c].want
      q == CHOOSE x \in requests[b] : x.context = c /\ x.live
  IN
  /\ granted[c] = 0
  /\ requests' \in {[requests EXCEPT ![b] = @ \ {q}]}
       \cup IF q.sent < epoch[b] /\ owner[b] # HostOf[c]
              THEN {[requests EXCEPT ![b] = (@ \ {q}) \cup {[q EXCEPT !.live = FALSE]}]}
              ELSE {}
  /\ UNCHANGED <<owner, epoch, held, odd, granted, holder, stolen>>

\* What a context does when a cleanup loop has come to its end.
Settle(r) ==
  IF r.todo # <<>> THEN r
  ELSE IF r.pc = "failing" /\ r.view # <<>> THEN
    [r EXCEPT !.pc = "active", !.spent = TRUE, !.writes = <<>>, !.next = 1]
  ELSE IF r.writes # <<>> THEN
    [r EXCEPT !.pc = "aborting", !.final = TRUE, !.writes = Tail(@), !.next = 1,
              !.todo = Reverse(Head(r.writes))]
  ELSE IF r.pc = "aborting" /\ r.failed /\ ~r.final THEN
    [r EXCEPT !.pc = "active", !.spent = TRUE]
  ELSE [Idle EXCEPT !.staged = r.staged]

\* The timeout expires, perhaps just before the grant: the leases collected so
\* far are released in reverse order.
GiveUp(c) ==
  /\ At(c, {"waiting"})
  /\ c \notin Patient
  /\ \/ Withdraw(c)
     \/ granted[c] # 0 /\ \E ok \in BOOLEAN : Release(c, Lease(run[c].want, granted[c]), FALSE, ok)
  /\ run' = [run EXCEPT ![c] = Settle([@ EXCEPT !.pc = "undoing", !.todo = Reverse(run[c].view)])]
  /\ UNCHANGED acquires

-----------------------------------------------------------------------------
(* WriteView, ReleaseWriteBuffer, AbortWriteBuffer and staging.            *)

\* Mutant of Cleanup: a loop stops at the first failed Release.
CleanupStops(c) ==
  LET r == run[c] IN
  /\ r.todo # <<>>
  /\ \E ok \in BOOLEAN :
       /\ Release(c, Head(r.todo), FALSE, ok)
       /\ run' = [run EXCEPT ![c] = Settle([r EXCEPT !.todo = IF ok THEN Tail(@) ELSE <<>>,
                                                     !.failed = @ \/ ~ok])]
  /\ UNCHANGED acquires

\* One round of a loop that releases without publishing; it goes on whatever
\* the status.
Cleanup(c) ==
  LET r == run[c] IN
  /\ r.todo # <<>>
  /\ \E ok \in BOOLEAN :
       /\ Release(c, Head(r.todo), FALSE, ok)
       /\ run' = [run EXCEPT ![c] = Settle([r EXCEPT !.todo = Tail(@), !.failed = @ \/ ~ok])]
  /\ UNCHANGED acquires

\* AbortWriteBuffer, by Abort or (final) by the destructor of the view.  After
\* a failed Abort the view is still active.
Abort(c, final) ==
  /\ At(c, {"active"})
  /\ run' = [run EXCEPT ![c].pc = "aborting", ![c].todo = Reverse(run[c].view),
                        ![c].failed = FALSE, ![c].final = final]
  /\ UNCHANGED <<token, granted, acquires, holder, stolen>>

\* Mutant of Stage: the view stays active.
StageShared(c) ==
  /\ At(c, {"active"}) /\ run[c].staged = <<>>
  /\ run' = [run EXCEPT ![c].staged = Append(@, run[c].view)]
  /\ UNCHANGED <<token, granted, acquires, holder, stolen>>

\* StageWriteBuffer moves the buffer; the view is inactive.  Applications do
\* not stage what they failed to commit.
Stage(c) ==
  /\ At(c, {"active"}) /\ ~run[c].spent
  /\ run' = [run EXCEPT ![c] = [Idle EXCEPT !.staged = Append(run[c].staged, run[c].view)]]
  /\ UNCHANGED <<token, granted, acquires, holder, stolen>>

\* Commit, of a view that may have failed to commit before.
Commit(c) ==
  /\ At(c, {"active"})
  /\ run' = [run EXCEPT ![c].pc = "publishing", ![c].writes = <<run[c].view>>]
  /\ UNCHANGED <<token, granted, acquires, holder, stolen>>

\* SynchronizeRelease takes all staged buffers of the context.
SynchronizeRelease(c) ==
  /\ At(c, {"idle"}) /\ run[c].staged # <<>>
  /\ run' = [run EXCEPT ![c] = [Idle EXCEPT !.pc = "publishing", !.writes = run[c].staged]]
  /\ UNCHANGED <<token, granted, acquires, holder, stolen>>

\* ReleaseWriteBuffer holds the host's LocalObjectMutex.
HoldsMutex(c) == At(c, {"copying", "failing"}) \/ (At(c, {"publishing"}) /\ run[c].next > 1)

\* BeginWriteback of the next block; if it fails, this and the remaining leases
\* are released.
BeginWriteback(c) ==
  LET r == run[c]
      l == Head(r.writes)[r.next]
      b == l.block
  IN
  /\ At(c, {"publishing"})
  /\ \A d \in Contexts \ {c} : HostOf[d] = HostOf[c] => ~HoldsMutex(d)
  /\ IF Valid(c, l) /\ ~odd[b]
       THEN /\ odd' = [odd EXCEPT ![b] = TRUE]
            /\ stolen' = Used(c, b)
            /\ run' = [run EXCEPT ![c].pc = "copying"]
       ELSE /\ run' = [run EXCEPT ![c].pc = "failing",
                                  ![c].todo = SubSeq(Head(r.writes), r.next, Len(Head(r.writes)))]
            /\ UNCHANGED <<odd, stolen>>
  /\ UNCHANGED <<owner, epoch, held, requests, granted, acquires, holder>>

\* The next block, the next buffer, or the end.
Published(r) ==
  CASE r.next < Len(Head(r.writes)) -> [r EXCEPT !.pc = "publishing", !.next = @ + 1]
    [] r.next = Len(Head(r.writes)) /\ Len(r.writes) > 1 ->
         [r EXCEPT !.pc = "publishing", !.next = 1, !.writes = Tail(@)]
    [] OTHER -> [Idle EXCEPT !.staged = r.staged]

\* Mutant of Publish: if it fails, all leases of the buffer are released.
PublishUndo(c) ==
  LET r == run[c]
      leases == Head(r.writes)
  IN
  /\ At(c, {"copying"})
  /\ \E ok \in BOOLEAN :
       /\ Release(c, leases[r.next], TRUE, ok)
       /\ run' = [run EXCEPT ![c] =
            IF ok THEN Published(r) ELSE Settle([r EXCEPT !.pc = "failing", !.todo = leases])]
  /\ UNCHANGED acquires

\* The block is copied and released; if that fails, the leases after it are
\* released.
Publish(c) ==
  LET r == run[c]
      leases == Head(r.writes)
  IN
  /\ At(c, {"copying"})
  /\ \E ok \in BOOLEAN :
       /\ Release(c, leases[r.next], TRUE, ok)
       /\ run' = [run EXCEPT ![c] =
            IF ok THEN Published(r)
            ELSE Settle([r EXCEPT !.pc = "failing", !.todo = SubSeq(leases, r.next + 1, Len(leases))])]
  /\ UNCHANGED acquires

\* What a context does by itself once it has begun.
Progress(c) ==
  \/ Claim(c)
  \/ Cleanup(c)
  \/ Abort(c, TRUE)
  \/ Commit(c)
  \/ SynchronizeRelease(c)
  \/ BeginWriteback(c)
  \/ Publish(c)

Next ==
  \/ \E c \in Contexts, lo, hi \in Blocks : lo <= hi /\ Acquire(c, <<lo, hi>>)
  \/ \E c \in Contexts : Progress(c)
  \/ \E c \in Contexts : GiveUp(c)
  \/ \E c \in Contexts : Abort(c, FALSE)
  \/ \E c \in Contexts : Stage(c)
  \/ \E b \in Blocks : Deliver(b)

Spec == Init /\ [][Next]_vars

-----------------------------------------------------------------------------
(* Properties.                                                             *)

Leases == [block : Blocks, epoch : Nat]
Places == {"idle", "waiting", "undoing", "active", "aborting", "publishing", "copying", "failing"}
Run == [pc : Places, range : Blocks \X Blocks, want : Blocks, view : Seq(Leases),
        staged : Seq(Seq(Leases)), writes : Seq(Seq(Leases)), next : Nat, todo : Seq(Leases),
        failed : BOOLEAN, final : BOOLEAN, spent : BOOLEAN]

TypeOK ==
  /\ owner \in [Blocks -> Hosts] /\ epoch \in [Blocks -> Nat \ {0}]
  /\ held \in [Blocks -> BOOLEAN] /\ odd \in [Blocks -> BOOLEAN]
  /\ requests \in [Blocks -> SUBSET [context : Contexts, live : BOOLEAN, sent : Nat]]
  /\ granted \in [Contexts -> Nat]
  /\ run \in [Contexts -> Run]
  /\ acquires \in [Contexts -> Nat]
  /\ holder \in [Blocks -> Contexts \cup {None}]
  /\ stolen \subseteq Blocks

\* The leases of some buffers, and those of one buffer from the n-th on.
Within(buffers) == UNION {ToSet(buffers[i]) : i \in DOMAIN buffers}
From(buffer, n) == {buffer[i] : i \in n .. Len(buffer)}

\* The leases that a context has not given up: staged, collected, in a view that
\* has not failed, and in the buffers still to be published.
Owned(r) ==
  Within(r.staged) \cup
    CASE r.pc \in {"waiting", "active"} /\ ~r.spent -> ToSet(r.view)
      [] r.pc = "undoing" -> ToSet(r.todo)
      [] r.pc \in {"publishing", "copying"} /\ ~r.spent ->
           From(Head(r.writes), r.next) \cup Within(Tail(r.writes))
      [] OTHER -> {}

\* The leases that a cleanup loop has still to release.
Releasing(r) ==
  ToSet(r.todo) \cup
    CASE r.pc = "failing" -> Within(Tail(r.writes))
      [] r.pc = "aborting" -> Within(r.writes)
      [] OTHER -> {}

Copying(c, b) == At(c, {"copying"}) /\ Head(run[c].writes)[run[c].next].block = b

\* What a context has collected or staged stays its own until it releases it,
\* whatever other contexts, also of the same host, time out, abort or publish:
\* the lease is valid, so publishing it cannot fail, and a block's writeback
\* window is open only while its holder copies.  A block is exempt once it has
\* been stolen: AbortWriteBuffer releases all leases of a buffer, also those
\* that the failed ReleaseWriteBuffer before it had released already.
LeasesKept ==
  /\ TypeOK
  /\ \A c \in Contexts : \A l \in Owned(run[c]) :
       l.block \notin stolen => holder[l.block] = c /\ Valid(c, l)
  /\ \A b \in Blocks \ stolen : odd[b] => \E c \in Contexts : Copying(c, b) /\ holder[b] \in {c, None}

\* No token leaks: whoever holds one has it in a buffer, is about to claim it or
\* is about to release it.  An acquisition, a commit or a boundary that failed
\* leaves nothing behind, on any of its error paths.
NoLeak ==
  \A c \in Contexts : \A b \in Blocks : holder[b] = c =>
    \/ \E l \in Owned(run[c]) \cup Releasing(run[c]) : l.block = b
    \/ At(c, {"waiting"}) /\ run[c].want = b /\ granted[c] # 0

\* c goes over leases that a failed ReleaseWriteBuffer or AbortWriteBuffer may
\* have released before: the view is still active after the failure, or
\* SynchronizeRelease aborts the buffer it could not release.
Repeating(c) == run[c].spent \/ (At(c, {"aborting"}) /\ run[c].view = <<>>)

\* A token is taken from the context that holds it, or its window opened, only
\* by one that repeats a failed release of its own (the case LeasesKept exempts).
\* No timeout, abort, publication or release boundary does so at the first
\* attempt, nor do the loops that clean up after a failure.
OnlyRepeatsSteal ==
  [][\A b \in stolen' \ stolen : \E c \in Contexts : run'[c] # run[c] /\ Repeating(c)]_vars

-----------------------------------------------------------------------------
(* Liveness.  The poller delivers requests, a context inside an operation  *)
(* goes on, one that owns a view ends it, one that staged buffers reaches  *)
(* a release boundary, and a timeout expires.  Nothing obliges a context   *)
(* to acquire or to stage.                                                 *)

FairSpec ==
  /\ Spec
  /\ \A c \in Contexts : WF_vars(Progress(c)) /\ WF_vars(GiveUp(c))
  /\ \A b \in Blocks : WF_vars(Deliver(b))

\* A token is out of reach: taken by a request without waiter, or stolen.
Wedged == stolen # {} \/ \E b \in Blocks : held[b] /\ holder[b] = None

\* Contexts that wait for overlapping ranges do not wait for each other: each
\* acquisition that does not time out is completed.
AcquisitionEnds ==
  \A c \in Patient : At(c, {"waiting"}) ~> At(c, {"active"}) \/ Wedged

=============================================================================
