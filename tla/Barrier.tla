------------------------------ MODULE Barrier ------------------------------
(***************************************************************************)
(* One world barrier of LoomPar (src/loompar/barrier.cpp).  Every host has *)
(* a fixed number of local participants; the last one to arrive reports    *)
(* the host to the coordinator, and the coordinator releases a generation  *)
(* when every host has reported it.  A misuse breaks the barrier for good  *)
(* and the host that notices tells all others.                             *)
(*                                                                         *)
(* All state of a host changes under its mutex_, so one call or handler is *)
(* one step.  Messages wait in outgoing_, which a full ring rotates        *)
(* (src/loompar/runtime.cpp, Progress), and may overtake each other.       *)
(***************************************************************************)
EXTENDS Integers, FiniteSets

CONSTANTS
  Hosts,
  Coordinator,   \* host 0
  Participants,  \* the threads that call Wait
  HostOf,        \* HostOf[p]: the host of participant p
  Count,         \* Count[h]: local_participants of host h
  Faulty,        \* participants that may break the rules of the barrier
  MaxRounds      \* bound: generations that a participant enters

ASSUME CoordinatorAssumption == Coordinator \in Hosts
ASSUME ParticipantsAssumption ==
  /\ HostOf \in [Participants -> Hosts] /\ IsFiniteSet(Participants)
  /\ Count \in [Hosts -> Nat \ {0}]
  /\ Faulty \subseteq Participants
ASSUME MaxRoundsAssumption == MaxRounds \in Nat

VARIABLES
  generation,    \* state.generation of each host
  arrivals,      \* state.local_arrivals
  reported,      \* the host has told the coordinator
  broken,
  hostArrivals,  \* the coordinator's host_arrivals
  net,           \* messages sent and not yet handled
  round,         \* the generation that a participant waits for, or Out
  calls,         \* how often a participant has called Wait
  arrived        \* specification only: arrived[h][g], arrivals in generation g

entry == <<generation, arrivals, reported, broken, hostArrivals>>
vars == <<entry, net, round, calls, arrived>>

Out == -1
Generations == 0 .. MaxRounds - 1
Message == [kind : {"arrive", "release", "failed"}, source : Hosts, target : Hosts,
            generation : Nat]

Send(kind, h, target, g) == [kind |-> kind, source |-> h, target |-> target, generation |-> g]

Init ==
  /\ generation = [h \in Hosts |-> 0]
  /\ arrivals = [h \in Hosts |-> 0]
  /\ reported = [h \in Hosts |-> FALSE]
  /\ broken = [h \in Hosts |-> FALSE]
  /\ hostArrivals = {}
  /\ net = {}
  /\ round = [p \in Participants |-> Out]
  /\ calls = [p \in Participants |-> 0]
  /\ arrived = [h \in Hosts |-> [g \in Generations |-> 0]]

-----------------------------------------------------------------------------
(* What the calls and handlers share.  sent: the messages left in flight.  *)

\* Mutant of BreakLocked: the other hosts are not told.
BreakQuietly(h, sent) ==
  /\ broken' = [broken EXCEPT ![h] = TRUE]
  /\ net' = sent
  /\ UNCHANGED <<generation, arrivals, reported, hostArrivals>>

\* BreakLocked on h, unless it is broken already.
BreakLocked(h, sent) ==
  /\ broken' = [broken EXCEPT ![h] = TRUE]
  /\ net' = IF broken[h] THEN sent
            ELSE sent \cup {Send("failed", h, k, generation[h]) : k \in Hosts \ {h}}
  /\ UNCHANGED <<generation, arrivals, reported, hostArrivals>>

\* AdvanceLocked on h.
AdvanceLocked(h) ==
  /\ generation' = [generation EXCEPT ![h] = @ + 1]
  /\ arrivals' = [arrivals EXCEPT ![h] = 0]
  /\ hostArrivals' = IF h = Coordinator THEN {} ELSE hostArrivals
  /\ reported' = [reported EXCEPT ![h] = FALSE]

\* Mutant of ArriveLocked: hosts are counted, the coordinator apart.
ArriveAnyHost(source, n, r, sent) ==
  LET all == hostArrivals \cup {source} IN
  IF Cardinality(all) < Cardinality(Hosts) - 1
    THEN /\ hostArrivals' = all
         /\ arrivals' = [arrivals EXCEPT ![Coordinator] = n]
         /\ reported' = [reported EXCEPT ![Coordinator] = r]
         /\ net' = sent
         /\ UNCHANGED generation
    ELSE /\ AdvanceLocked(Coordinator)
         /\ net' = sent \cup {Send("release", Coordinator, k, generation[Coordinator])
                                : k \in Hosts \ {Coordinator}}

\* Mutant of ArriveLocked: it advances before it sends the releases.
ArriveAdvanceFirst(source, n, r, sent) ==
  LET all == hostArrivals \cup {source} IN
  IF all # Hosts
    THEN /\ hostArrivals' = all
         /\ arrivals' = [arrivals EXCEPT ![Coordinator] = n]
         /\ reported' = [reported EXCEPT ![Coordinator] = r]
         /\ net' = sent
         /\ UNCHANGED generation
    ELSE /\ AdvanceLocked(Coordinator)
         /\ net' = sent \cup {Send("release", Coordinator, k, generation[Coordinator] + 1)
                                : k \in Hosts \ {Coordinator}}

\* Mutant of ArriveLocked: the last host to arrive is not released.
ArriveForgetful(source, n, r, sent) ==
  LET all == hostArrivals \cup {source} IN
  IF all # Hosts
    THEN /\ hostArrivals' = all
         /\ arrivals' = [arrivals EXCEPT ![Coordinator] = n]
         /\ reported' = [reported EXCEPT ![Coordinator] = r]
         /\ net' = sent
         /\ UNCHANGED generation
    ELSE /\ AdvanceLocked(Coordinator)
         /\ net' = sent \cup {Send("release", Coordinator, k, generation[Coordinator])
                                : k \in Hosts \ {Coordinator, source}}

\* ArriveLocked: the coordinator, with n local arrivals and r as reported,
\* hears that a host is complete, and releases the generation with the last.
ArriveLocked(source, n, r, sent) ==
  LET all == hostArrivals \cup {source} IN
  IF all # Hosts
    THEN /\ hostArrivals' = all
         /\ arrivals' = [arrivals EXCEPT ![Coordinator] = n]
         /\ reported' = [reported EXCEPT ![Coordinator] = r]
         /\ net' = sent
         /\ UNCHANGED generation
    ELSE /\ AdvanceLocked(Coordinator)
         /\ net' = sent \cup {Send("release", Coordinator, k, generation[Coordinator])
                                : k \in Hosts \ {Coordinator}}

-----------------------------------------------------------------------------
(* Wait, called by participant p.                                          *)

Calling(p) ==
  /\ round[p] = Out
  /\ calls[p] < MaxRounds
  /\ ~broken[HostOf[p]]
  /\ calls' = [calls EXCEPT ![p] = @ + 1]

\* Wait counts the participant; the last one of the host reports it.
Arrive(p) ==
  LET h == HostOf[p]
      g == generation[h]
      n == arrivals[h] + 1
  IN
  /\ Calling(p)
  /\ ~reported[h]
  /\ g \in Generations
  /\ IF n = Count[h] /\ h = Coordinator
       THEN ArriveLocked(h, n, TRUE, net)
       ELSE /\ arrivals' = [arrivals EXCEPT ![h] = n]
            /\ reported' = [reported EXCEPT ![h] = n = Count[h]]
            /\ net' = IF n = Count[h] THEN net \cup {Send("arrive", h, Coordinator, g)} ELSE net
            /\ UNCHANGED <<generation, hostArrivals>>
  /\ round' = [round EXCEPT ![p] = g]
  /\ arrived' = [arrived EXCEPT ![h][g] = @ + 1]
  /\ UNCHANGED broken

\* One participant too many in a generation.
TooMany(p) ==
  /\ Calling(p)
  /\ reported[HostOf[p]]
  /\ BreakLocked(HostOf[p], net)
  /\ UNCHANGED <<round, arrived>>

\* The call names another participant count than the first one did.
Mismatch(p) ==
  /\ p \in Faulty
  /\ Calling(p)
  /\ generation[HostOf[p]] > 0 \/ arrivals[HostOf[p]] > 0
  /\ BreakLocked(HostOf[p], net)
  /\ UNCHANGED <<round, arrived>>

\* Barrier's SynchronizeRelease fails before Wait is called, or its
\* SynchronizeAcquire after Wait has returned: Break.
BoundaryFails(p) ==
  /\ p \in Faulty
  /\ Calling(p)
  /\ BreakLocked(HostOf[p], net)
  /\ UNCHANGED <<round, arrived>>

\* Wait returns: FailedPrecondition if the barrier is broken, else Ok.
Return(p) ==
  /\ round[p] # Out
  /\ broken[HostOf[p]] \/ generation[HostOf[p]] # round[p]
  /\ round' = [round EXCEPT ![p] = Out]
  /\ UNCHANGED <<entry, net, calls, arrived>>

-----------------------------------------------------------------------------
(* Handle, on the poller of the target.                                    *)

\* A failure is sticky.
HandleFailed(m) ==
  /\ m \in net /\ m.kind = "failed"
  /\ broken' = [broken EXCEPT ![m.target] = TRUE]
  /\ net' = net \ {m}
  /\ UNCHANGED <<generation, arrivals, reported, hostArrivals, round, calls, arrived>>

\* A message for a broken barrier is dropped, and one of a past generation
\* (which needs a repeated message).
Ignore(m) ==
  /\ m \in net /\ m.kind # "failed"
  /\ broken[m.target] \/ m.generation < generation[m.target]
  /\ net' = net \ {m}
  /\ UNCHANGED <<entry, round, calls, arrived>>

Current(m) ==
  /\ m \in net
  /\ ~broken[m.target] /\ m.generation = generation[m.target]
  /\ UNCHANGED <<round, calls, arrived>>

HandleArrive(m) ==
  LET c == Coordinator IN
  /\ Current(m) /\ m.kind = "arrive" /\ m.target = c /\ m.source # c
  /\ ArriveLocked(m.source, arrivals[c], reported[c], net \ {m})
  /\ UNCHANGED broken

HandleRelease(m) ==
  /\ Current(m) /\ m.kind = "release" /\ m.target # Coordinator
  /\ reported[m.target]
  /\ AdvanceLocked(m.target)
  /\ net' = net \ {m}
  /\ UNCHANGED broken

\* What Handle would answer by breaking the barrier: a future generation, or a
\* release that the host is not waiting for.  It never arrives (NoneUnexpected).
Unexpected(m) ==
  /\ m.kind # "failed" /\ ~broken[m.target]
  /\ \/ m.generation > generation[m.target]
     \/ m.generation = generation[m.target] /\ m.kind = "release" /\ ~reported[m.target]

Handle(m) ==
  \/ HandleFailed(m)
  \/ Ignore(m)
  \/ HandleArrive(m)
  \/ HandleRelease(m)

Next ==
  \/ \E p \in Participants : Arrive(p)
  \/ \E p \in Participants : TooMany(p)
  \/ \E p \in Participants : Mismatch(p)
  \/ \E p \in Participants : BoundaryFails(p)
  \/ \E p \in Participants : Return(p)
  \/ \E m \in net : Handle(m)

Spec == Init /\ [][Next]_vars

-----------------------------------------------------------------------------
(* Properties.                                                             *)

\* The type invariant of BarrierManager::Entry and of the messages; no host
\* counts more arrivals than it has participants.
TypeOK ==
  /\ generation \in [Hosts -> Nat]
  /\ arrivals \in [Hosts -> Nat] /\ \A h \in Hosts : arrivals[h] <= Count[h]
  /\ reported \in [Hosts -> BOOLEAN] /\ broken \in [Hosts -> BOOLEAN]
  /\ hostArrivals \subseteq Hosts
  /\ net \subseteq Message
  /\ round \in [Participants -> Nat \cup {Out}]
  /\ calls \in [Participants -> Nat]
  /\ arrived \in [Hosts -> [Generations -> Nat]]

\* Nobody passes the barrier early: once any host has left a generation, all
\* participants of all hosts have arrived in it, and no more than those.
BarrierHolds ==
  /\ TypeOK
  /\ \A h, k \in Hosts : \A g \in Generations : g < generation[h] => arrived[k][g] = Count[k]

\* Whatever order messages arrive in, none meets a host in a generation that
\* does not expect it, so Handle's defensive breaks are never taken; and a host
\* whose participants are as many as it announced never counts one too many:
\* when it has reported, all of them wait for this very generation.
NoneUnexpected ==
  /\ \A m \in net : ~Unexpected(m)
  /\ \A h \in Hosts :
       LET own == {p \in Participants : HostOf[p] = h} IN
       Cardinality(own) = Count[h] /\ reported[h] /\ ~broken[h]
         => \A p \in own : round[p] = generation[h]

\* The poller handles what arrives, and a waiter that is notified returns.
FairSpec ==
  /\ Spec
  /\ WF_vars(\E m \in net : Handle(m))
  /\ \A p \in Participants : WF_vars(Return(p))

\* A generation in which everyone has arrived ends for all its waiters.
RoundEnds ==
  \A g \in Generations :
    (\A h \in Hosts : arrived[h][g] = Count[h]) ~> (\A p \in Participants : round[p] # g)

\* When one host breaks the barrier, every host learns of it and no
\* participant keeps waiting.
FailureSpreads ==
  (\E h \in Hosts : broken[h]) ~>
    (\A h \in Hosts : broken[h]) /\ (\A p \in Participants : round[p] = Out)

=============================================================================
