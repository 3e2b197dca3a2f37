---------------------------- MODULE BarrierProofs ----------------------------
(***************************************************************************)
(* Proofs about Barrier, for every number of hosts, participants and       *)
(* rounds and whatever breaks: nobody leaves a generation before all hosts *)
(* are complete in it, and no message meets a host that does not expect    *)
(* it.                                                                     *)
(***************************************************************************)
EXTENDS Barrier, FiniteSetTheorems, TLAPS

\* The participants of h that wait for its generation.
Waiting(h) == {p \in Participants : HostOf[p] = h /\ round[p] = generation[h]}

\* A host has reported exactly when all its participants have arrived.
ReportOK == \A h \in Hosts : reported[h] <=> arrivals[h] = Count[h]

\* No host is ahead of the coordinator, and one that is behind, by one
\* generation, is complete in its own.
LagOK ==
  \A h \in Hosts :
    /\ generation[h] <= generation[Coordinator]
    /\ generation[h] # generation[Coordinator] =>
         generation[h] + 1 = generation[Coordinator] /\ reported[h]

\* The hosts that the coordinator counts are complete in its generation.
HostsOK ==
  \A h \in hostArrivals : generation[h] = generation[Coordinator] /\ reported[h]

\* A report in flight is of a generation its host has completed, a release of
\* one the coordinator has left.
NetOK ==
  \A m \in net :
    /\ m.kind = "arrive" =>
         /\ m.target = Coordinator /\ m.source # Coordinator
         /\ m.generation <= generation[m.source]
         /\ m.generation = generation[m.source] => reported[m.source]
    /\ m.kind = "release" =>
         m.target # Coordinator /\ m.generation < generation[Coordinator]

\* What has arrived in the generations before, at and after the current one.
ArrivedOK ==
  \A h \in Hosts : \A g \in Generations :
    /\ g < generation[h] => arrived[h][g] = Count[h]
    /\ g = generation[h] => arrived[h][g] = arrivals[h]
    /\ g > generation[h] => arrived[h][g] = 0

\* Nobody waits for a later generation, and a host that is not broken counts
\* those who wait for its own.
WaitersOK ==
  /\ \A p \in Participants : round[p] <= generation[HostOf[p]]
  /\ \A h \in Hosts : ~ broken[h] => arrivals[h] = Cardinality(Waiting(h))

\* The inductive invariant.
BarrierInv ==
  TypeOK /\ ReportOK /\ LagOK /\ HostsOK /\ NetOK /\ ArrivedOK /\ WaitersOK

-----------------------------------------------------------------------------
(* The parts of a step.                                                    *)

\* Facts about the state before a step.
LEMMA StateFacts ==
  ASSUME BarrierInv
  PROVE  /\ generation \in [Hosts -> Nat] /\ arrivals \in [Hosts -> Nat]
         /\ \A h \in Hosts : arrivals[h] <= Count[h] /\ Count[h] \in Nat \ {0}
         /\ reported \in [Hosts -> BOOLEAN] /\ broken \in [Hosts -> BOOLEAN]
         /\ hostArrivals \subseteq Hosts /\ net \subseteq Message
         /\ round \in [Participants -> Nat \cup {Out}] /\ calls \in [Participants -> Nat]
         /\ arrived \in [Hosts -> [Generations -> Nat]]
BY ParticipantsAssumption DEF BarrierInv, TypeOK

\* A call of Wait counts itself.
LEMMA CallingType ==
  ASSUME BarrierInv, NEW p \in Participants, Calling(p)
  PROVE  calls' \in [Participants -> Nat]
BY StateFacts DEF Calling

\* A message has a kind, hosts and a generation.
LEMMA SendType ==
  ASSUME NEW kind \in {"arrive", "release", "failed"}, NEW h \in Hosts, NEW k \in Hosts,
         NEW g \in Nat
  PROVE  /\ Send(kind, h, k, g) \in Message
         /\ Send(kind, h, k, g).kind = kind /\ Send(kind, h, k, g).source = h
         /\ Send(kind, h, k, g).target = k /\ Send(kind, h, k, g).generation = g
BY DEF Send, Message

\* A step that at most breaks hosts, loses messages or sends failures.
LEMMA QuietStep ==
  ASSUME BarrierInv, UNCHANGED <<generation, arrivals, reported, hostArrivals, round, arrived>>,
         calls' \in [Participants -> Nat], broken' \in [Hosts -> BOOLEAN],
         \A h \in Hosts : broken[h] => broken'[h],
         net' \subseteq Message, \A m \in net' : m \in net \/ m.kind = "failed"
  PROVE  BarrierInv'
<1>1. TypeOK'
  BY DEF BarrierInv, TypeOK
<1>2. ReportOK' /\ LagOK' /\ HostsOK' /\ ArrivedOK'
  BY DEF BarrierInv, ReportOK, LagOK, HostsOK, ArrivedOK
<1>3. NetOK'
  BY DEF BarrierInv, NetOK
<1>4. WaitersOK'
  <2>1. \A h \in Hosts : Waiting(h)' = Waiting(h)
    BY DEF Waiting
  <2>2. \A h \in Hosts : ~ broken'[h] => ~ broken[h]
    OBVIOUS
  <2>. QED  BY <2>1, <2>2 DEF BarrierInv, WaitersOK
<1>. QED  BY <1>1, <1>2, <1>3, <1>4 DEF BarrierInv

\* A host breaks the barrier.
LEMMA BreakKeeps ==
  ASSUME BarrierInv, NEW p \in Participants, Calling(p), BreakLocked(HostOf[p], net),
         UNCHANGED <<round, arrived>>
  PROVE  BarrierInv'
<1>. DEFINE h == HostOf[p]
<1>1. h \in Hosts /\ generation[h] \in Nat
  BY ParticipantsAssumption, StateFacts
<1>2. /\ broken' = [broken EXCEPT ![h] = TRUE]
      /\ net' \subseteq net \cup {Send("failed", h, k, generation[h]) : k \in Hosts \ {h}}
      /\ UNCHANGED <<generation, arrivals, reported, hostArrivals>>
  BY DEF BreakLocked
<1>. HIDE DEF h
<1>3. broken' \in [Hosts -> BOOLEAN] /\ \A k \in Hosts : broken[k] => broken'[k]
  BY <1>1, <1>2, StateFacts
<1>4. \A k \in Hosts \ {h} : /\ Send("failed", h, k, generation[h]) \in Message
                             /\ Send("failed", h, k, generation[h]).kind = "failed"
  BY <1>1, SendType
<1>5. net' \subseteq Message /\ \A m \in net' : m \in net \/ m.kind = "failed"
  BY <1>2, <1>4, StateFacts
<1>. QED  BY <1>2, <1>3, <1>5, CallingType, QuietStep

\* A waiter returns: it is not one of those that are counted.
LEMMA ReturnKeeps ==
  ASSUME BarrierInv, NEW p \in Participants, Return(p)
  PROVE  BarrierInv'
<1>1. /\ UNCHANGED <<generation, arrivals, reported, broken, hostArrivals, net, calls, arrived>>
      /\ round' \in [Participants -> Nat \cup {Out}] /\ round'[p] = Out
      /\ \A q \in Participants : q # p => round'[q] = round[q]
      /\ broken[HostOf[p]] \/ generation[HostOf[p]] # round[p]
  BY StateFacts DEF Return, entry
<1>2. TypeOK'
  BY <1>1 DEF BarrierInv, TypeOK
<1>3. ReportOK' /\ LagOK' /\ HostsOK' /\ ArrivedOK' /\ NetOK'
  BY <1>1 DEF BarrierInv, ReportOK, LagOK, HostsOK, ArrivedOK, NetOK
<1>4. WaitersOK'
  <2>1. ASSUME NEW q \in Participants PROVE round'[q] <= generation[HostOf[q]]
    <3>1. generation[HostOf[q]] \in Nat
      BY ParticipantsAssumption, StateFacts
    <3>. QED  BY <1>1, <3>1 DEF BarrierInv, WaitersOK, Out
  <2>2. ASSUME NEW h \in Hosts, ~ broken[h] PROVE Waiting(h)' = Waiting(h)
    <3>1. generation[h] \in Nat /\ generation[h] # Out
      BY StateFacts DEF Out
    <3>2. HostOf[p] = h => round[p] # generation[h] /\ round'[p] # generation[h]
      BY <1>1, <2>2, <3>1
    <3>. QED  BY <1>1, <3>2 DEF Waiting
  <2>. QED  BY <1>1, <2>1, <2>2 DEF BarrierInv, WaitersOK
<1>. QED  BY <1>2, <1>3, <1>4 DEF BarrierInv

\* A failure is received.
LEMMA HandleFailedKeeps ==
  ASSUME BarrierInv, NEW m \in net, HandleFailed(m)
  PROVE  BarrierInv'
<1>1. m.target \in Hosts
  BY StateFacts DEF Message
<1>2. broken' \in [Hosts -> BOOLEAN] /\ \A h \in Hosts : broken[h] => broken'[h]
  BY <1>1, StateFacts DEF HandleFailed
<1>3. /\ net' \subseteq Message /\ \A n \in net' : n \in net
      /\ UNCHANGED <<generation, arrivals, reported, hostArrivals, round, arrived>>
      /\ calls' \in [Participants -> Nat]
  BY StateFacts DEF HandleFailed
<1>. QED  BY <1>2, <1>3, QuietStep

\* A message is dropped.
LEMMA IgnoreKeeps ==
  ASSUME BarrierInv, NEW m \in net, Ignore(m)
  PROVE  BarrierInv'
<1>1. /\ net' \subseteq Message /\ \A n \in net' : n \in net
      /\ UNCHANGED <<generation, arrivals, reported, hostArrivals, round, arrived>>
      /\ calls' \in [Participants -> Nat] /\ broken' \in [Hosts -> BOOLEAN]
      /\ \A h \in Hosts : broken[h] => broken'[h]
  BY StateFacts DEF Ignore, entry
<1>. QED  BY <1>1, QuietStep


-----------------------------------------------------------------------------
(* Generations end.                                                        *)

\* What AdvanceLocked changes.
LEMMA AdvanceEffect ==
  ASSUME BarrierInv, NEW h \in Hosts, AdvanceLocked(h)
  PROVE  /\ generation' \in [Hosts -> Nat] /\ generation'[h] = generation[h] + 1
         /\ arrivals' \in [Hosts -> Nat] /\ arrivals'[h] = 0
         /\ reported' \in [Hosts -> BOOLEAN] /\ ~ reported'[h]
         /\ \A k \in Hosts : k # h => /\ generation'[k] = generation[k]
                                      /\ arrivals'[k] = arrivals[k]
                                      /\ reported'[k] = reported[k]
         /\ hostArrivals' = IF h = Coordinator THEN {} ELSE hostArrivals
BY StateFacts DEF AdvanceLocked

\* The parts of the invariant that concern one host at a time: the host that
\* advances was complete, and nobody waits for its new generation yet.
LEMMA AdvanceLocal ==
  ASSUME BarrierInv, NEW h \in Hosts, AdvanceLocked(h), UNCHANGED broken,
         round' \in [Participants -> Nat \cup {Out}],
         \A p \in Participants : round'[p] <= generation[HostOf[p]],
         \A p \in Participants : HostOf[p] # h => round'[p] = round[p],
         arrived' \in [Hosts -> [Generations -> Nat]],
         \A k \in Hosts : k # h => arrived'[k] = arrived[k],
         \A g \in Generations : g # generation[h] => arrived'[h][g] = arrived[h][g],
         generation[h] \in Generations => arrived'[h][generation[h]] = Count[h]
  PROVE  ReportOK' /\ ArrivedOK' /\ WaitersOK'
<1>1. /\ generation' \in [Hosts -> Nat] /\ generation'[h] = generation[h] + 1
      /\ arrivals' \in [Hosts -> Nat] /\ arrivals'[h] = 0
      /\ reported' \in [Hosts -> BOOLEAN] /\ ~ reported'[h]
      /\ \A k \in Hosts : k # h => /\ generation'[k] = generation[k]
                                   /\ arrivals'[k] = arrivals[k]
                                   /\ reported'[k] = reported[k]
  BY AdvanceEffect
<1>2. ReportOK'
  BY <1>1, StateFacts DEF BarrierInv, ReportOK
<1>3. ArrivedOK'
  <2>1. ASSUME NEW k \in Hosts, NEW g \in Generations
        PROVE  /\ g < generation'[k] => arrived'[k][g] = Count[k]
               /\ g = generation'[k] => arrived'[k][g] = arrivals'[k]
               /\ g > generation'[k] => arrived'[k][g] = 0
    <3>1. CASE k # h
      BY <1>1, <3>1 DEF BarrierInv, ArrivedOK
    <3>2. CASE k = h
      <4>1. g \in Int /\ generation[h] \in Nat
        BY StateFacts, MaxRoundsAssumption DEF Generations
      <4>2. CASE g = generation[h]
        BY <1>1, <3>2, <4>1, <4>2
      <4>3. CASE g # generation[h]
        <5>1. arrived'[h][g] = arrived[h][g]
          BY <4>3
        <5>2. /\ g < generation[h] => arrived[h][g] = Count[h]
              /\ g > generation[h] => arrived[h][g] = 0
          BY DEF BarrierInv, ArrivedOK
        <5>. QED  BY SMTT(60), <1>1, <3>2, <4>1, <4>3, <5>1, <5>2
      <4>. QED  BY <4>2, <4>3
    <3>. QED  BY <3>1, <3>2
  <2>. QED  BY <2>1 DEF ArrivedOK
<1>4. WaitersOK'
  <2>1. ASSUME NEW p \in Participants PROVE round'[p] <= generation'[HostOf[p]]
    <3>1. HostOf[p] \in Hosts /\ round'[p] \in Int /\ generation[HostOf[p]] \in Nat
      BY ParticipantsAssumption, StateFacts DEF Out
    <3>. QED  BY <1>1, <3>1
  <2>2. ASSUME NEW k \in Hosts, ~ broken'[k] PROVE arrivals'[k] = Cardinality(Waiting(k)')
    <3>1. CASE k # h
      <4>1. Waiting(k)' = Waiting(k)
        BY <1>1, <3>1 DEF Waiting
      <4>. QED  BY <1>1, <2>2, <3>1, <4>1 DEF BarrierInv, WaitersOK
    <3>2. CASE k = h
      <4>1. ASSUME NEW p \in Participants, HostOf[p] = h PROVE round'[p] # generation'[h]
        <5>1. round'[p] <= generation[h] /\ round'[p] \in Int /\ generation[h] \in Nat
          BY <4>1, StateFacts DEF Out
        <5>. QED  BY <1>1, <5>1
      <4>2. Waiting(k)' = {}
        BY <3>2, <4>1 DEF Waiting
      <4>. QED  BY <1>1, <3>2, <4>2, FS_EmptySet
    <3>. QED  BY <3>1, <3>2
  <2>. QED  BY <2>1, <2>2 DEF WaitersOK
<1>. QED  BY <1>2, <1>3, <1>4

\* A host is released: it was complete, and one behind the coordinator.
LEMMA HandleReleaseKeeps ==
  ASSUME BarrierInv, NEW m \in net, HandleRelease(m)
  PROVE  BarrierInv'
<1>. DEFINE h == m.target
            c == Coordinator
<1>1. /\ m.kind = "release" /\ h \in Hosts /\ h # c /\ c \in Hosts
      /\ m.generation = generation[h] /\ reported[h]
      /\ AdvanceLocked(h) /\ UNCHANGED <<broken, round, calls, arrived>>
      /\ net' = net \ {m}
  BY StateFacts, CoordinatorAssumption DEF HandleRelease, Current, Message
<1>. HIDE DEF h, c
<1>2. /\ generation' \in [Hosts -> Nat] /\ generation'[h] = generation[h] + 1
      /\ arrivals' \in [Hosts -> Nat] /\ arrivals'[h] = 0
      /\ reported' \in [Hosts -> BOOLEAN] /\ ~ reported'[h]
      /\ \A k \in Hosts : k # h => /\ generation'[k] = generation[k]
                                   /\ arrivals'[k] = arrivals[k]
                                   /\ reported'[k] = reported[k]
      /\ hostArrivals' = hostArrivals
  BY <1>1, AdvanceEffect DEF c
<1>3. generation[h] + 1 = generation[c] /\ generation[h] \in Nat /\ generation[c] \in Nat
  <2>1. generation[h] \in Nat /\ generation[c] \in Nat
    BY <1>1, StateFacts
  <2>2. generation[h] < generation[c]
    BY <1>1 DEF BarrierInv, NetOK, h, c
  <2>. QED  BY <1>1, <2>1, <2>2 DEF BarrierInv, LagOK, c
<1>4. ReportOK' /\ ArrivedOK' /\ WaitersOK'
  <2>1. arrivals[h] = Count[h]
    BY <1>1 DEF BarrierInv, ReportOK
  <2>2. generation[h] \in Generations => arrived[h][generation[h]] = Count[h]
    BY <1>1, <2>1 DEF BarrierInv, ArrivedOK
  <2>3. \A p \in Participants : round[p] <= generation[HostOf[p]]
    BY DEF BarrierInv, WaitersOK
  <2>. QED  BY <1>1, <2>2, <2>3, StateFacts, AdvanceLocal
<1>5. TypeOK'
  BY <1>1, <1>2, StateFacts DEF BarrierInv, TypeOK
<1>6. LagOK'
  BY <1>1, <1>2, <1>3, StateFacts DEF BarrierInv, LagOK, c
<1>7. HostsOK'
  <2>1. \A k \in hostArrivals : k # h /\ k \in Hosts
    BY <1>3, StateFacts DEF BarrierInv, HostsOK, c
  <2>. QED  BY <1>1, <1>2, <2>1 DEF BarrierInv, HostsOK, c
<1>8. NetOK'
  <2>1. ASSUME NEW n \in net', n.kind = "arrive"
        PROVE  /\ n.target = c /\ n.source # c
               /\ n.generation <= generation'[n.source]
               /\ n.generation = generation'[n.source] => reported'[n.source]
    <3>1. /\ n.target = c /\ n.source # c
          /\ n.generation <= generation[n.source]
          /\ n.generation = generation[n.source] => reported[n.source]
      BY <1>1, <2>1 DEF BarrierInv, NetOK, c
    <3>2. n.source \in Hosts /\ n.generation \in Nat
      BY <1>1, <2>1, StateFacts DEF Message
    <3>. QED  BY <1>2, <1>3, <3>1, <3>2
  <2>2. ASSUME NEW n \in net', n.kind = "release"
        PROVE  n.target # c /\ n.generation < generation'[c]
    BY <1>1, <1>2, <2>2 DEF BarrierInv, NetOK, c
  <2>. QED  BY <2>1, <2>2 DEF NetOK, c
<1>. QED  BY <1>4, <1>5, <1>6, <1>7, <1>8 DEF BarrierInv

\* The coordinator ends a generation in which every host is complete.
LEMMA CoordinatorAdvances ==
  ASSUME BarrierInv, AdvanceLocked(Coordinator), UNCHANGED broken,
         ReportOK' /\ ArrivedOK' /\ WaitersOK',
         round' \in [Participants -> Nat \cup {Out}], calls' \in [Participants -> Nat],
         arrived' \in [Hosts -> [Generations -> Nat]],
         \A h \in Hosts : h # Coordinator => generation[h] = generation[Coordinator] /\ reported[h],
         NEW sent, sent \subseteq net,
         net' = sent \cup {Send("release", Coordinator, k, generation[Coordinator])
                             : k \in Hosts \ {Coordinator}}
  PROVE  BarrierInv'
<1>. DEFINE c == Coordinator
            releases == {Send("release", c, k, generation[c]) : k \in Hosts \ {c}}
<1>1. c \in Hosts /\ generation[c] \in Nat /\ net' = sent \cup releases
  BY CoordinatorAssumption, StateFacts
<1>2. \A n \in releases : /\ n \in Message /\ n.kind = "release" /\ n.target # c
                          /\ n.generation = generation[c]
  <2>1. ASSUME NEW k \in Hosts \ {c}
        PROVE  /\ Send("release", c, k, generation[c]) \in Message
               /\ Send("release", c, k, generation[c]).kind = "release"
               /\ Send("release", c, k, generation[c]).target # c
               /\ Send("release", c, k, generation[c]).generation = generation[c]
    <3>. HIDE DEF c
    <3>. QED  BY <1>1, SendType
  <2>. QED  BY <2>1
<1>. HIDE DEF releases
<1>3. /\ generation' \in [Hosts -> Nat] /\ generation'[c] = generation[c] + 1
      /\ arrivals' \in [Hosts -> Nat] /\ arrivals'[c] = 0
      /\ reported' \in [Hosts -> BOOLEAN] /\ ~ reported'[c]
      /\ \A k \in Hosts : k # c => /\ generation'[k] = generation[k]
                                   /\ arrivals'[k] = arrivals[k]
                                   /\ reported'[k] = reported[k]
      /\ hostArrivals' = {}
  BY <1>1, AdvanceEffect
<1>. HIDE DEF c
<1>4. TypeOK'
  <2>1. net' \subseteq Message
    BY <1>1, <1>2, StateFacts
  <2>2. ASSUME NEW h \in Hosts PROVE arrivals'[h] <= Count[h]
    <3>1. arrivals[h] <= Count[h] /\ Count[h] \in Nat
      BY StateFacts
    <3>2. CASE h = c
      BY <1>3, <3>1, <3>2
    <3>3. CASE h # c
      BY <1>3, <3>1, <3>3
    <3>. QED  BY <3>2, <3>3
  <2>3. broken' \in [Hosts -> BOOLEAN] /\ hostArrivals' \subseteq Hosts
    BY <1>3, StateFacts
  <2>. QED  BY <1>3, <2>1, <2>2, <2>3 DEF TypeOK
<1>5. LagOK'
  BY <1>1, <1>3 DEF LagOK, c
<1>6. HostsOK'
  BY <1>3 DEF HostsOK
<1>7. NetOK'
  <2>1. ASSUME NEW n \in net', n.kind = "arrive"
        PROVE  /\ n.target = c /\ n.source # c
               /\ n.generation <= generation'[n.source]
               /\ n.generation = generation'[n.source] => reported'[n.source]
    <3>1. n \in net
      BY <1>1, <1>2, <2>1
    <3>2. /\ n.target = c /\ n.source # c
          /\ n.generation <= generation[n.source]
          /\ n.generation = generation[n.source] => reported[n.source]
      BY <2>1, <3>1 DEF BarrierInv, NetOK, c
    <3>3. n.source \in Hosts
      BY <3>1, StateFacts DEF Message
    <3>. QED  BY <1>3, <3>2, <3>3
  <2>2. ASSUME NEW n \in net', n.kind = "release"
        PROVE  n.target # c /\ n.generation < generation'[c]
    <3>1. CASE n \in releases
      BY <1>1, <1>2, <1>3, <3>1
    <3>2. CASE n \in net
      <4>1. n.target # c /\ n.generation < generation[c] /\ n.generation \in Nat
        BY <2>2, <3>2, StateFacts DEF BarrierInv, NetOK, Message, c
      <4>. QED  BY <1>1, <1>3, <4>1
    <3>. QED  BY <1>1, <2>2, <3>1, <3>2
  <2>. QED  BY <2>1, <2>2 DEF NetOK, c
<1>. QED  BY <1>4, <1>5, <1>6, <1>7 DEF BarrierInv

\* A report reaches the coordinator.
LEMMA HandleArriveKeeps ==
  ASSUME BarrierInv, NEW m \in net, HandleArrive(m)
  PROVE  BarrierInv'
<1>. DEFINE c == Coordinator
            s == m.source
            all == hostArrivals \cup {s}
<1>1. /\ m.kind = "arrive" /\ m.generation = generation[c] /\ m.target = c /\ s # c
      /\ s \in Hosts /\ c \in Hosts
      /\ ArriveLocked(s, arrivals[c], reported[c], net \ {m})
      /\ UNCHANGED <<broken, round, calls, arrived>>
  BY StateFacts, CoordinatorAssumption DEF HandleArrive, Current, Message
<1>2. generation[s] = generation[c] /\ reported[s]
  <2>1. generation[c] <= generation[s] /\ (generation[c] = generation[s] => reported[s])
    BY <1>1 DEF BarrierInv, NetOK
  <2>2. generation[s] <= generation[c] /\ generation[s] \in Nat /\ generation[c] \in Nat
    BY <1>1, StateFacts DEF BarrierInv, LagOK
  <2>. QED  BY <2>1, <2>2
<1>3. \A h \in all : generation[h] = generation[c] /\ reported[h]
  BY <1>2 DEF BarrierInv, HostsOK
<1>4. CASE all # Hosts
  <2>1. /\ hostArrivals' = all /\ net' = net \ {m}
        /\ UNCHANGED <<generation, broken, round, calls, arrived>>
    BY <1>1, <1>4 DEF ArriveLocked
  <2>2. arrivals' = arrivals /\ reported' = reported
    <3>1. /\ arrivals' = [arrivals EXCEPT ![c] = arrivals[c]]
          /\ reported' = [reported EXCEPT ![c] = reported[c]]
      BY <1>1, <1>4 DEF ArriveLocked
    <3>2. arrivals \in [Hosts -> Nat] /\ reported \in [Hosts -> BOOLEAN] /\ c \in Hosts
      BY <1>1, StateFacts
    <3>3. arrivals' = arrivals
      BY <3>1, <3>2
    <3>4. reported' = reported
      BY <3>1, <3>2
    <3>. QED  BY <3>3, <3>4
  <2>3. all \subseteq Hosts
    BY <1>1, StateFacts
  <2>. HIDE DEF c, s, all
  <2>4. TypeOK'
    BY <2>1, <2>2, <2>3 DEF BarrierInv, TypeOK
  <2>5. ReportOK' /\ LagOK' /\ ArrivedOK'
    BY <2>1, <2>2 DEF BarrierInv, ReportOK, LagOK, ArrivedOK
  <2>6. HostsOK'
    BY <1>3, <2>1, <2>2 DEF HostsOK, c
  <2>7. NetOK'
    BY <2>1, <2>2 DEF BarrierInv, NetOK
  <2>8. WaitersOK'
    <3>1. \A h \in Hosts : Waiting(h)' = Waiting(h)
      BY <2>1 DEF Waiting
    <3>. QED  BY <2>1, <2>2, <3>1 DEF BarrierInv, WaitersOK
  <2>. QED  BY <2>4, <2>5, <2>6, <2>7, <2>8 DEF BarrierInv
<1>5. CASE all = Hosts
  <2>1. /\ AdvanceLocked(c)
        /\ net' = (net \ {m}) \cup {Send("release", c, k, generation[c]) : k \in Hosts \ {c}}
    BY <1>1, <1>5 DEF ArriveLocked
  <2>2. reported[c] /\ arrivals[c] = Count[c]
    BY <1>1, <1>3, <1>5 DEF BarrierInv, ReportOK
  <2>3. generation[c] \in Generations => arrived[c][generation[c]] = Count[c]
    BY <1>1, <2>2 DEF BarrierInv, ArrivedOK
  <2>4. \A p \in Participants : round[p] <= generation[HostOf[p]]
    BY DEF BarrierInv, WaitersOK
  <2>5. \A h \in Hosts : h # c => generation[h] = generation[c] /\ reported[h]
    BY <1>3, <1>5
  <2>. HIDE DEF s, all
  <2>6. ReportOK' /\ ArrivedOK' /\ WaitersOK'
    <3>. HIDE DEF c
    <3>. QED  BY <1>1, <2>1, <2>3, <2>4, StateFacts, AdvanceLocal
  <2>7. net \ {m} \subseteq net
    OBVIOUS
  <2>. QED  BY <1>1, <2>1, <2>5, <2>6, <2>7, StateFacts, CoordinatorAdvances
<1>. QED  BY <1>4, <1>5


\* One more participant arrives.
LEMMA ArriveKeeps ==
  ASSUME BarrierInv, NEW p \in Participants, Arrive(p)
  PROVE  BarrierInv'
<1>. DEFINE c == Coordinator
            h == HostOf[p]
            g == generation[h]
            n == arrivals[h] + 1
<1>1. /\ h \in Hosts /\ c \in Hosts /\ g \in Nat /\ g \in Generations
      /\ round[p] = Out /\ ~ broken[h] /\ ~ reported[h] /\ calls' \in [Participants -> Nat]
      /\ UNCHANGED broken
  BY ParticipantsAssumption, CoordinatorAssumption, StateFacts, CallingType DEF Arrive, Calling
<1>2. n \in Nat /\ n <= Count[h] /\ Count[h] \in Nat
  <2>1. arrivals[h] \in Nat /\ Count[h] \in Nat /\ arrivals[h] <= Count[h]
    BY <1>1, StateFacts
  <2>2. arrivals[h] # Count[h]
    BY <1>1 DEF BarrierInv, ReportOK
  <2>. HIDE DEF h
  <2>. QED  BY <2>1, <2>2
<1>3. /\ round' = [round EXCEPT ![p] = g]
      /\ arrived' = [arrived EXCEPT ![h] = [arrived[h] EXCEPT ![g] = arrived[h][g] + 1]]
  BY DEF Arrive
<1>4. IF n = Count[h] /\ h = c
        THEN ArriveLocked(h, n, TRUE, net)
        ELSE /\ arrivals' = [arrivals EXCEPT ![h] = n]
             /\ reported' = [reported EXCEPT ![h] = n = Count[h]]
             /\ net' = IF n = Count[h] THEN net \cup {Send("arrive", h, c, g)} ELSE net
             /\ UNCHANGED <<generation, hostArrivals>>
  BY DEF Arrive
<1>5. generation[h] = g /\ arrivals[h] + 1 = n /\ arrivals[h] \in Nat
  BY <1>1, StateFacts
<1>. HIDE DEF h, g, n
<1>6. /\ round' \in [Participants -> Nat \cup {Out}] /\ round'[p] = g
      /\ \A q \in Participants : q # p => round'[q] = round[q]
  BY <1>1, <1>3, StateFacts
<1>7. /\ arrived' \in [Hosts -> [Generations -> Nat]] /\ arrived'[h][g] = n
      /\ \A k \in Hosts : k # h => arrived'[k] = arrived[k]
      /\ \A f \in Generations : f # g => arrived'[h][f] = arrived[h][f]
  <2>1. arrived[h] \in [Generations -> Nat] /\ arrived[h][g] = arrivals[h]
    BY <1>1, <1>5, StateFacts DEF BarrierInv, ArrivedOK
  <2>2. [arrived[h] EXCEPT ![g] = arrived[h][g] + 1] \in [Generations -> Nat]
    BY <1>1, <2>1
  <2>. QED  BY <1>1, <1>3, <1>5, <2>1, <2>2, StateFacts
<1>8. \A q \in Participants : round'[q] <= generation[HostOf[q]]
  BY <1>1, <1>5, <1>6 DEF BarrierInv, WaitersOK, h
\* The host counts p and does not advance.
<1>9. ASSUME arrivals' = [arrivals EXCEPT ![h] = n], generation' = generation,
             reported' \in [Hosts -> BOOLEAN], reported'[h] <=> n = Count[h],
             \A k \in Hosts : k # h => reported'[k] = reported[k]
      PROVE  ReportOK' /\ ArrivedOK' /\ WaitersOK' /\ LagOK'
             /\ arrivals' \in [Hosts -> Nat] /\ \A k \in Hosts : arrivals'[k] <= Count[k]
  <2>1. /\ arrivals' \in [Hosts -> Nat] /\ arrivals'[h] = n
        /\ \A k \in Hosts : k # h => arrivals'[k] = arrivals[k]
    BY <1>1, <1>2, <1>9, StateFacts
  <2>2. ReportOK'
    BY <1>1, <1>9, <2>1 DEF BarrierInv, ReportOK
  <2>3. ArrivedOK'
    <3>1. ASSUME NEW k \in Hosts, NEW f \in Generations
          PROVE  /\ f < generation[k] => arrived'[k][f] = Count[k]
                 /\ f = generation[k] => arrived'[k][f] = arrivals'[k]
                 /\ f > generation[k] => arrived'[k][f] = 0
      <4>1. CASE k # h
        BY <1>7, <2>1, <4>1 DEF BarrierInv, ArrivedOK
      <4>2. CASE k = h /\ f = g
        BY <1>1, <1>5, <1>7, <2>1, <4>2
      <4>3. CASE k = h /\ f # g
        BY <1>5, <1>7, <4>3 DEF BarrierInv, ArrivedOK
      <4>. QED  BY <4>1, <4>2, <4>3
    <3>. QED  BY <1>9, <3>1 DEF ArrivedOK
  <2>4. WaitersOK'
    <3>1. ASSUME NEW k \in Hosts, ~ broken[k] PROVE arrivals'[k] = Cardinality(Waiting(k)')
      <4>1. arrivals[k] = Cardinality(Waiting(k))
        BY <3>1 DEF BarrierInv, WaitersOK
      <4>2. CASE k # h
        <5>1. Waiting(k)' = Waiting(k)
          BY <1>6, <1>9, <4>2 DEF Waiting, h
        <5>. QED  BY <2>1, <4>1, <4>2, <5>1
      <4>3. CASE k = h
        <5>1. Waiting(h)' = Waiting(h) \cup {p}
          BY <1>5, <1>6, <1>9 DEF Waiting, h
        <5>2. p \notin Waiting(h)
          BY <1>1, <1>5 DEF Waiting, Out
        <5>3. IsFiniteSet(Waiting(h))
          <6>1. Waiting(h) \subseteq Participants
            BY DEF Waiting
          <6>. QED  BY <6>1, ParticipantsAssumption, FS_Subset
        <5>4. Cardinality(Waiting(h) \cup {p}) = Cardinality(Waiting(h)) + 1
          BY <5>2, <5>3, FS_AddElement
        <5>. QED  BY <1>5, <2>1, <4>1, <4>3, <5>1, <5>4
      <4>. QED  BY <4>2, <4>3
    <3>. QED  BY <1>1, <1>8, <1>9, <3>1 DEF WaitersOK
  <2>5. LagOK'
    BY <1>1, <1>9 DEF BarrierInv, LagOK
  <2>6. \A k \in Hosts : arrivals'[k] <= Count[k]
    BY <1>2, <2>1, StateFacts
  <2>. QED  BY <2>1, <2>2, <2>3, <2>4, <2>5, <2>6
<1>10. CASE n = Count[h] /\ h = c
  <2>1. ArriveLocked(c, n, TRUE, net)
    BY <1>4, <1>10
  <2>2. CASE hostArrivals \cup {c} # Hosts
    <3>1. /\ hostArrivals' = hostArrivals \cup {c} /\ net' = net /\ generation' = generation
          /\ arrivals' = [arrivals EXCEPT ![h] = n] /\ reported' = [reported EXCEPT ![h] = TRUE]
      BY <1>10, <2>1, <2>2 DEF ArriveLocked
    <3>2. /\ reported' \in [Hosts -> BOOLEAN] /\ reported'[h]
          /\ \A k \in Hosts : k # h => reported'[k] = reported[k]
      BY <1>1, <3>1, StateFacts
    <3>3. /\ ReportOK' /\ ArrivedOK' /\ WaitersOK' /\ LagOK'
          /\ arrivals' \in [Hosts -> Nat] /\ \A k \in Hosts : arrivals'[k] <= Count[k]
      BY <1>9, <1>10, <3>1, <3>2
    <3>4. HostsOK'
      <4>1. \A k \in Hosts : reported[k] => reported'[k]
        BY <3>2
      <4>. QED  BY <1>10, <3>1, <3>2, <4>1, StateFacts DEF BarrierInv, HostsOK, c
    <3>5. NetOK'
      <4>1. \A m \in net : m.source \in Hosts
        BY StateFacts DEF Message
      <4>2. \A k \in Hosts : reported[k] => reported'[k]
        BY <3>2
      <4>. QED  BY <3>1, <4>1, <4>2 DEF BarrierInv, NetOK
    <3>6. TypeOK'
      <4>1. hostArrivals' \subseteq Hosts /\ net' \subseteq Message
        BY <1>1, <3>1, StateFacts
      <4>. QED  BY <1>1, <1>6, <1>7, <3>1, <3>2, <3>3, <4>1, StateFacts DEF TypeOK
    <3>. QED  BY <3>3, <3>4, <3>5, <3>6 DEF BarrierInv
  <2>3. CASE hostArrivals \cup {c} = Hosts
    <3>1. /\ AdvanceLocked(c)
          /\ net' = net \cup {Send("release", c, k, generation[c]) : k \in Hosts \ {c}}
      BY <2>1, <2>3 DEF ArriveLocked
    <3>2. \A k \in Hosts : k # c => generation[k] = generation[c] /\ reported[k]
      BY <2>3 DEF BarrierInv, HostsOK
    <3>3. arrived'[c][generation[c]] = Count[c]
      BY <1>5, <1>7, <1>10
    <3>4. /\ \A k \in Hosts : k # c => arrived'[k] = arrived[k]
          /\ \A f \in Generations : f # generation[c] => arrived'[c][f] = arrived[c][f]
      BY <1>5, <1>7, <1>10
    <3>5. \A q \in Participants : HostOf[q] # c => round'[q] = round[q]
      BY <1>6, <1>10 DEF h
    <3>6. ReportOK' /\ ArrivedOK' /\ WaitersOK'
      <4>. HIDE DEF c
      <4>. QED  BY <1>1, <1>6, <1>7, <1>8, <3>1, <3>3, <3>4, <3>5, AdvanceLocal
    <3>. QED  BY <1>1, <1>6, <1>7, <3>1, <3>2, <3>6, CoordinatorAdvances
  <2>. QED  BY <2>2, <2>3
<1>11. CASE ~ (n = Count[h] /\ h = c)
  <2>1. /\ generation' = generation /\ hostArrivals' = hostArrivals
        /\ arrivals' = [arrivals EXCEPT ![h] = n]
        /\ net' = IF n = Count[h] THEN net \cup {Send("arrive", h, c, g)} ELSE net
    BY <1>4, <1>11
  <2>2. /\ reported' \in [Hosts -> BOOLEAN] /\ (reported'[h] <=> n = Count[h])
        /\ \A k \in Hosts : k # h => reported'[k] = reported[k]
    <3>. DEFINE full == n = Count[h]
    <3>1. reported' = [reported EXCEPT ![h] = full] /\ full \in BOOLEAN
      BY <1>4, <1>11
    <3>. HIDE DEF full
    <3>2. /\ reported' \in [Hosts -> BOOLEAN] /\ reported'[h] = full
          /\ \A k \in Hosts : k # h => reported'[k] = reported[k]
      BY <1>1, <3>1, StateFacts
    <3>. QED  BY <3>2 DEF full
  <2>3. /\ ReportOK' /\ ArrivedOK' /\ WaitersOK' /\ LagOK'
        /\ arrivals' \in [Hosts -> Nat] /\ \A k \in Hosts : arrivals'[k] <= Count[k]
    BY <1>9, <2>1, <2>2
  <2>4. \A k \in Hosts : reported[k] => reported'[k]
    BY <1>1, <2>2
  <2>5. HostsOK'
    BY <2>1, <2>4, StateFacts DEF BarrierInv, HostsOK
  <2>6. n = Count[h] => h # c
    BY <1>11
  <2>7. /\ Send("arrive", h, c, g) \in Message /\ Send("arrive", h, c, g).kind = "arrive"
        /\ Send("arrive", h, c, g).source = h /\ Send("arrive", h, c, g).target = c
        /\ Send("arrive", h, c, g).generation = g
    <3>. HIDE DEF c
    <3>. QED  BY <1>1, SendType
  <2>8. NetOK'
    <3>1. \A m \in net : m.source \in Hosts
      BY StateFacts DEF Message
    <3>2. \A m \in net : /\ m.kind = "arrive" =>
                              /\ m.target = c /\ m.source # c
                              /\ m.generation <= generation'[m.source]
                              /\ m.generation = generation'[m.source] => reported'[m.source]
                         /\ m.kind = "release" => m.target # c /\ m.generation < generation'[c]
      BY <2>1, <2>4, <3>1 DEF BarrierInv, NetOK
    <3>3. CASE n = Count[h]
      <4>. DEFINE m == Send("arrive", h, c, g)
      <4>1. /\ m.kind = "arrive" /\ m.target = c /\ m.source # c
            /\ m.generation <= generation'[m.source]
            /\ m.generation = generation'[m.source] => reported'[m.source]
        BY <1>1, <1>5, <2>1, <2>2, <2>6, <2>7, <3>3
      <4>2. net' = net \cup {m}
        BY <2>1, <3>3
      <4>. HIDE DEF m
      <4>. QED  BY <3>2, <4>1, <4>2 DEF NetOK
    <3>4. CASE n # Count[h]
      BY <2>1, <3>2, <3>4 DEF NetOK
    <3>. QED  BY <3>3, <3>4
  <2>9. TypeOK'
    <3>1. hostArrivals' \subseteq Hosts /\ net' \subseteq Message
      BY <1>1, <2>1, <2>7, StateFacts
    <3>2. generation' \in [Hosts -> Nat] /\ broken' \in [Hosts -> BOOLEAN]
      BY <1>1, <2>1, StateFacts
    <3>. QED  BY <1>1, <1>6, <1>7, <2>2, <2>3, <3>1, <3>2 DEF TypeOK
  <2>. QED  BY <2>3, <2>5, <2>8, <2>9 DEF BarrierInv
<1>. QED  BY <1>10, <1>11

-----------------------------------------------------------------------------
(* The theorems.                                                           *)

\* Nobody has called Wait yet.
LEMMA InitInv == Init => BarrierInv
<1>. SUFFICES ASSUME Init PROVE BarrierInv
  OBVIOUS
<1>1. TypeOK
  BY ParticipantsAssumption DEF Init, TypeOK
<1>2. ReportOK /\ LagOK /\ HostsOK /\ NetOK
  BY ParticipantsAssumption, CoordinatorAssumption DEF Init, ReportOK, LagOK, HostsOK, NetOK
<1>3. ArrivedOK
  BY DEF Init, ArrivedOK, Generations
<1>4. WaitersOK
  <2>1. ASSUME NEW p \in Participants PROVE round[p] = Out /\ generation[HostOf[p]] = 0
    BY ParticipantsAssumption DEF Init
  <2>2. ASSUME NEW h \in Hosts PROVE arrivals[h] = Cardinality(Waiting(h))
    <3>1. Waiting(h) = {}
      BY <2>1 DEF Init, Waiting, Out
    <3>. QED  BY <3>1, FS_EmptySet DEF Init
  <2>. QED  BY <2>1, <2>2 DEF WaitersOK, Out
<1>. QED  BY <1>1, <1>2, <1>3, <1>4 DEF BarrierInv

\* Every step preserves the invariant.
LEMMA NextInv == BarrierInv /\ [Next]_vars => BarrierInv'
<1>. SUFFICES ASSUME BarrierInv, [Next]_vars PROVE BarrierInv'
  OBVIOUS
<1>1. ASSUME NEW p \in Participants, TooMany(p) \/ Mismatch(p) \/ BoundaryFails(p)
      PROVE  BarrierInv'
  BY <1>1, BreakKeeps DEF TooMany, Mismatch, BoundaryFails
<1>2. ASSUME NEW m \in net, Handle(m) PROVE BarrierInv'
  BY <1>2, HandleFailedKeeps, IgnoreKeeps, HandleArriveKeeps, HandleReleaseKeeps DEF Handle
<1>3. CASE UNCHANGED vars
  <2>1. UNCHANGED <<generation, arrivals, reported, hostArrivals, round, arrived, calls, broken, net>>
    BY <1>3 DEF vars, entry
  <2>. QED  BY <2>1, StateFacts, QuietStep
<1>. QED  BY <1>1, <1>2, <1>3, ArriveKeeps, ReturnKeeps DEF Next

\* The invariant holds in every reachable state.
LEMMA BarrierInvHolds == Spec => []BarrierInv
BY InitInv, NextInv, PTL DEF Spec

\* A host that is behind the coordinator is complete, so all are complete in the
\* generations that any host has left.
LEMMA InvHolds == BarrierInv => BarrierHolds
<1>. SUFFICES ASSUME BarrierInv PROVE BarrierHolds
  OBVIOUS
<1>1. ASSUME NEW h \in Hosts, NEW k \in Hosts, NEW g \in Generations, g < generation[h]
      PROVE  arrived[k][g] = Count[k]
  <2>1. /\ generation[h] <= generation[Coordinator] /\ g \in Int
        /\ generation[h] \in Nat /\ generation[k] \in Nat /\ generation[Coordinator] \in Nat
    BY StateFacts, CoordinatorAssumption, MaxRoundsAssumption DEF BarrierInv, LagOK, Generations
  <2>2. CASE g < generation[k]
    BY <2>2 DEF BarrierInv, ArrivedOK
  <2>3. CASE ~ (g < generation[k])
    <3>1. generation[k] + 1 = generation[Coordinator] /\ reported[k]
      BY <1>1, <2>1, <2>3 DEF BarrierInv, LagOK
    <3>2. g = generation[k]
      BY <1>1, <2>1, <2>3, <3>1
    <3>. QED  BY <3>1, <3>2 DEF BarrierInv, ArrivedOK, ReportOK
  <2>. QED  BY <2>2, <2>3
<1>. QED  BY <1>1 DEF BarrierHolds, BarrierInv

\* No message is unexpected, and a complete host has all its own participants.
LEMMA InvExpects == BarrierInv => NoneUnexpected
<1>. SUFFICES ASSUME BarrierInv PROVE NoneUnexpected
  OBVIOUS
<1>1. ASSUME NEW m \in net, Unexpected(m) PROVE FALSE
  <2>1. /\ m.kind \in {"arrive", "release"} /\ m.source \in Hosts /\ m.target \in Hosts
        /\ m.generation \in Nat /\ Coordinator \in Hosts
        /\ generation[m.source] \in Nat /\ generation[m.target] \in Nat
        /\ generation[Coordinator] \in Nat
    BY <1>1, StateFacts, CoordinatorAssumption DEF Unexpected, Message
  <2>2. CASE m.kind = "arrive"
    <3>1. m.target = Coordinator /\ m.generation <= generation[m.source]
      BY <2>2 DEF BarrierInv, NetOK
    <3>2. generation[m.source] <= generation[Coordinator]
      BY <2>1 DEF BarrierInv, LagOK
    <3>. QED  BY <1>1, <2>1, <2>2, <3>1, <3>2 DEF Unexpected
  <2>3. CASE m.kind = "release"
    <3>1. m.generation < generation[Coordinator]
      BY <2>3 DEF BarrierInv, NetOK
    <3>2. /\ generation[m.target] <= generation[Coordinator]
          /\ generation[m.target] # generation[Coordinator] =>
               generation[m.target] + 1 = generation[Coordinator] /\ reported[m.target]
      BY <2>1 DEF BarrierInv, LagOK
    <3>. QED  BY <1>1, <2>1, <3>1, <3>2 DEF Unexpected
  <2>. QED  BY <2>1, <2>2, <2>3
<1>2. ASSUME NEW h \in Hosts, NEW own, own = {p \in Participants : HostOf[p] = h},
             Cardinality(own) = Count[h], reported[h], ~ broken[h]
      PROVE  \A p \in own : round[p] = generation[h]
  <2>1. Cardinality(Waiting(h)) = Cardinality(own)
    BY <1>2 DEF BarrierInv, ReportOK, WaitersOK
  <2>2. Waiting(h) \subseteq own /\ own \subseteq Participants
    BY <1>2 DEF Waiting
  <2>3. IsFiniteSet(own)
    BY <2>2, ParticipantsAssumption, FS_Subset
  <2>4. Waiting(h) = own
    BY <2>1, <2>2, <2>3, FS_Subset
  <2>. QED  BY <2>4 DEF Waiting
<1>. QED  BY <1>1, <1>2 DEF NoneUnexpected

\* The world barrier holds: once a host has left a generation, all participants
\* of all hosts have arrived in it, whatever order messages take and whichever
\* host breaks.
THEOREM NobodyPassesEarly == Spec => []BarrierHolds
BY BarrierInvHolds, InvHolds, PTL

\* Handle's defensive breaks are never taken, and a host with as many
\* participants as it announced never counts one too many.
THEOREM MessagesAreExpected == Spec => []NoneUnexpected
BY BarrierInvHolds, InvExpects, PTL


=============================================================================
