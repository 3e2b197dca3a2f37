---------------------------- MODULE PthreadProofs ----------------------------
(***************************************************************************)
(* Proofs about Pthread, for every number of hosts, threads and bits, in   *)
(* the local and in the distributed case: the mutex excludes, its gate     *)
(* strands nobody, and each bit of the condition object belongs to one     *)
(* waiter.                                                                 *)
(***************************************************************************)
EXTENDS Pthread, SequenceTheorems, WellFoundedInduction, TLAPS

PCs == {"start", "gate", "retest", "lease", "held", "leaving", "notify", "done", "registered",
        "polling", "unlocked", "parked", "cleanup", "returning"}

RunType == [pc : PCs, attempt : BOOLEAN, tried : BOOLEAN, again : BOOLEAN,
            bit : 0 .. NumBits, expired : BOOLEAN, gaveUp : BOOLEAN]

WaiterType == [who : Threads, ready : BOOLEAN]

\* The types that TypeOK leaves open, and which places belong to which case.
RunOK ==
  /\ distributed \in BOOLEAN
  /\ run \in [Threads -> RunType]
  /\ \A t \in Threads : /\ At(t, {"polling", "cleanup"}) => distributed
                        /\ run[t].expired => At(t, {"parked", "polling", "cleanup"})

\* A handle is locked for the thread that is inside or takes the lease.
OwnerOK ==
  /\ \A t \in Threads : Inside(t) \/ At(t, {"lease"}) => owner[Handle(t)] = t
  /\ \A h \in Hosts : owner[h] # None =>
       Handle(owner[h]) = h /\ (Inside(owner[h]) \/ At(owner[h], {"lease"}))

\* In the distributed case the lease is with the thread that is inside.
LeaseOK ==
  /\ \A t \in Threads : distributed /\ Inside(t) => lease = Handle(t)
  /\ lease = None \/ \E t \in Threads : Inside(t) /\ Handle(t) = lease

\* The bits; BitsExact and that they are bits.
BitsOK ==
  /\ BitsExact
  /\ \A t \in Threads : HasBit(t) => run[t].bit \in Bits

\* The queue of a gate: its waiters are parked there, each once.
GateOK ==
  /\ gate \in [Hosts -> Seq(WaiterType)]
  /\ \A h \in Hosts : \A i \in 1 .. Len(gate[h]) :
       At(gate[h][i].who, {"gate"}) /\ Handle(gate[h][i].who) = h
  /\ \A h \in Hosts : \A i, j \in 1 .. Len(gate[h]) : gate[h][i].who = gate[h][j].who => i = j
  /\ \A t \in Threads : At(t, {"gate"}) =>
       \E i \in 1 .. Len(gate[Handle(t)]) : gate[Handle(t)][i].who = t

\* The inductive invariant.
PthreadInv == TypeOK /\ RunOK /\ OwnerOK /\ LeaseOK /\ BitsOK /\ GateOK /\ GateNotStranded

-----------------------------------------------------------------------------
(* Sets of naturals and sequences.                                         *)

\* The order of the naturals is well founded.
LEMMA LessIsWellFounded == IsWellFoundedOn({ss \in Nat \X Nat : ss[1] < ss[2]}, Nat)
BY NatLessThanWellFounded DEF OpToRel

\* A set of naturals that is not empty has a least element.
LEMMA LeastExists ==
  ASSUME NEW T \in SUBSET Nat, T # {}
  PROVE  \E x \in T : \A y \in T : x <= y
<1>. DEFINE R == {ss \in Nat \X Nat : ss[1] < ss[2]}
<1>1. IsWellFoundedOn(R, Nat)
  BY LessIsWellFounded
<1>2. ASSUME NEW x \in Nat, NEW y \in Nat, y < x PROVE <<y, x>> \in R
  <2>1. <<y, x>> \in Nat \X Nat /\ <<y, x>>[1] < <<y, x>>[2]
    BY <1>2
  <2>. QED  BY <2>1
<1>. HIDE DEF R
<1>3. PICK x \in T : \A y \in T : ~ (<<y, x>> \in R)
  BY <1>1, WFMin
<1>4. \A y \in T : ~ (y < x)
  BY <1>2, <1>3
<1>. QED  BY <1>4

\* Min chooses an element of the set.
LEMMA MinIsElement ==
  ASSUME NEW T \in SUBSET Nat, T # {}
  PROVE  Min(T) \in T
BY LeastExists DEF Min

\* A function on an initial segment is a sequence.
LEMMA FunctionIsSequence ==
  ASSUME NEW S, NEW n \in Nat, NEW f \in [1 .. n -> S]
  PROVE  f \in Seq(S) /\ Len(f) = n
OBVIOUS

\* Dropping one entry of a queue keeps the order of the others.
LEMMA RemoveAtProperties ==
  ASSUME NEW S, NEW q \in Seq(S), NEW i \in 1 .. Len(q)
  PROVE  /\ RemoveAt(q, i) \in Seq(S) /\ Len(RemoveAt(q, i)) = Len(q) - 1
         /\ \A j \in 1 .. Len(q) - 1 : RemoveAt(q, i)[j] = IF j < i THEN q[j] ELSE q[j + 1]
<1>. DEFINE front == SubSeq(q, 1, i - 1)
            rest == SubSeq(q, i + 1, Len(q))
<1>1. Len(q) \in Nat /\ i \in 1 .. Len(q) /\ \A k \in 1 .. Len(q) : q[k] \in S
  BY LenProperties, ElementOfSeq
<1>2. /\ front \in Seq(S) /\ Len(front) = i - 1
      /\ \A k \in 1 .. i - 1 : front[k] = q[k]
  <2>1. \A k \in 1 .. i - 1 : q[k] \in S
    BY <1>1
  <2>2. /\ SubSeq(q, 1, i - 1) \in Seq(S)
        /\ Len(SubSeq(q, 1, i - 1)) = IF 1 <= i - 1 THEN i - 1 - 1 + 1 ELSE 0
        /\ \A k \in 1 .. i - 1 - 1 + 1 : SubSeq(q, 1, i - 1)[k] = q[1 + k - 1]
    BY <1>1, <2>1, SubSeqProperties
  <2>. QED  BY <1>1, <2>2
<1>3. /\ rest \in Seq(S) /\ Len(rest) = Len(q) - i
      /\ \A k \in 1 .. Len(q) - i : rest[k] = q[i + k]
  <2>1. \A k \in i + 1 .. Len(q) : q[k] \in S
    BY <1>1
  <2>2. /\ SubSeq(q, i + 1, Len(q)) \in Seq(S)
        /\ Len(SubSeq(q, i + 1, Len(q))) = IF i + 1 <= Len(q) THEN Len(q) - (i + 1) + 1 ELSE 0
        /\ \A k \in 1 .. Len(q) - (i + 1) + 1 : SubSeq(q, i + 1, Len(q))[k] = q[i + 1 + k - 1]
    BY <1>1, <2>1, SubSeqProperties
  <2>. QED  BY <1>1, <2>2
<1>. HIDE DEF front, rest
<1>4. /\ front \o rest \in Seq(S)
      /\ Len(front \o rest) = Len(front) + Len(rest)
      /\ \A j \in 1 .. Len(front) + Len(rest) :
           (front \o rest)[j] = IF j <= Len(front) THEN front[j] ELSE rest[j - Len(front)]
  BY <1>2, <1>3, ConcatProperties
<1>5. ASSUME NEW j \in 1 .. Len(q) - 1
      PROVE  (front \o rest)[j] = IF j < i THEN q[j] ELSE q[j + 1]
  <2>1. CASE j < i
    BY <1>1, <1>2, <1>3, <1>4, <2>1
  <2>2. CASE ~ (j < i)
    <3>1. j - (i - 1) \in 1 .. Len(q) - i /\ i + (j - (i - 1)) = j + 1
      BY <1>1, <2>2
    <3>2. (front \o rest)[j] = rest[j - (i - 1)]
      BY <1>1, <1>2, <1>3, <1>4, <2>2
    <3>. QED  BY <1>3, <2>2, <3>1, <3>2
  <2>. QED  BY <2>1, <2>2
<1>6. RemoveAt(q, i) = front \o rest
  BY DEF RemoveAt, front, rest
<1>7. RemoveAt(q, i) \in Seq(S) /\ Len(RemoveAt(q, i)) = Len(q) - 1
  <2>1. Len(q) \in Nat /\ i \in 1 .. Len(q) /\ Len(front) = i - 1 /\ Len(rest) = Len(q) - i
    BY <1>1, <1>2, <1>3
  <2>2. Len(front) + Len(rest) = Len(q) - 1
    BY <2>1
  <2>. QED  BY <1>4, <1>6, <2>2
<1>. QED  BY <1>5, <1>6, <1>7

\* Notify of a gate wakes somebody, unless nobody waits, and moves nobody.
LEMMA NotifyProperties ==
  ASSUME NEW q \in Seq(WaiterType), \A i \in 1 .. Len(q) : ~ run[q[i].who].expired
  PROVE  /\ Notify(q, FALSE) \in Seq(WaiterType) /\ Len(Notify(q, FALSE)) = Len(q)
         /\ \A i \in 1 .. Len(q) : Notify(q, FALSE)[i].who = q[i].who
         /\ q # << >> => \E i \in 1 .. Len(q) : Notify(q, FALSE)[i].ready
<1>. DEFINE open == {i \in DOMAIN q : ~q[i].ready /\ ~run[q[i].who].expired}
            woken(i) == i \in open /\ (FALSE \/ \A j \in open : i <= j)
<1>1. /\ Len(q) \in Nat /\ DOMAIN q = 1 .. Len(q) /\ \A i \in 1 .. Len(q) : q[i] \in WaiterType
  BY LenProperties, ElementOfSeq
<1>2. Notify(q, FALSE) = [i \in 1 .. Len(q) |-> [q[i] EXCEPT !.ready = q[i].ready \/ woken(i)]]
  BY <1>1 DEF Notify
<1>3. ASSUME NEW i \in 1 .. Len(q)
      PROVE  /\ Notify(q, FALSE)[i] \in WaiterType
             /\ Notify(q, FALSE)[i].who = q[i].who
             /\ q[i].ready \/ woken(i) => Notify(q, FALSE)[i].ready
  <2>. HIDE DEF open
  <2>1. Notify(q, FALSE)[i] = [q[i] EXCEPT !.ready = q[i].ready \/ woken(i)]
    BY <1>2
  <2>2. CASE q[i].ready \/ woken(i)
    <3>1. Notify(q, FALSE)[i] = [q[i] EXCEPT !.ready = TRUE]
      BY <2>1, <2>2
    <3>. QED  BY <1>1, <3>1 DEF WaiterType
  <2>3. CASE ~ (q[i].ready \/ woken(i))
    <3>1. Notify(q, FALSE)[i] = [q[i] EXCEPT !.ready = FALSE]
      BY <2>1, <2>3
    <3>. QED  BY <1>1, <2>3, <3>1 DEF WaiterType
  <2>. QED  BY <2>2, <2>3
<1>4. DOMAIN Notify(q, FALSE) = 1 .. Len(q) /\ Notify(q, FALSE) = [i \in 1 .. Len(q) |-> Notify(q, FALSE)[i]]
  BY <1>2
<1>5. Notify(q, FALSE) \in Seq(WaiterType) /\ Len(Notify(q, FALSE)) = Len(q)
  <2>. HIDE DEF open
  <2>1. Notify(q, FALSE) \in [1 .. Len(q) -> WaiterType]
    BY <1>3, <1>4
  <2>. QED  BY <1>1, <2>1, FunctionIsSequence
<1>6. ASSUME q # << >> PROVE \E i \in 1 .. Len(q) : Notify(q, FALSE)[i].ready
  <2>1. 1 \in 1 .. Len(q)
    BY <1>1, <1>6
  <2>2. CASE open = {}
    <3>1. q[1].ready
      BY <1>1, <2>1, <2>2
    <3>. QED  BY <1>3, <2>1, <3>1
  <2>3. CASE open # {}
    <3>1. open \in SUBSET Nat
      BY <1>1
    <3>. HIDE DEF open
    <3>2. PICK i \in open : \A j \in open : i <= j
      BY <2>3, <3>1, LeastExists
    <3>3. i \in 1 .. Len(q) /\ woken(i)
      BY <1>1, <3>2 DEF open
    <3>. QED  BY <1>3, <3>3
  <2>. QED  BY <2>2, <2>3
<1>. QED  BY <1>3, <1>5, <1>6

-----------------------------------------------------------------------------
(* What a step of one thread leaves alone.                                 *)

Others(t) == \A u \in Threads : u # t => run'[u] = run[u]

\* A thread uses a handle of a host.
LEMMA HandleType ==
  ASSUME NEW t \in Threads PROVE Handle(t) \in Hosts
BY ThreadsAssumption DEF Handle

\* A step that neither locks nor unlocks.
LEMMA MutexFrame ==
  ASSUME PthreadInv, NEW t \in Threads, Others(t), UNCHANGED <<distributed, owner, lease>>,
         Inside(t)' <=> Inside(t), At(t, {"lease"})' <=> At(t, {"lease"})
  PROVE  OwnerOK' /\ LeaseOK'
<1>1. \A u \in Threads : /\ Inside(u)' <=> Inside(u)
                         /\ At(u, {"lease"})' <=> At(u, {"lease"})
                         /\ Handle(u)' = Handle(u)
  BY DEF Others, Inside, At, Handle
<1>2. \A h \in Hosts : owner[h] # None => owner[h] \in Threads
  BY DEF PthreadInv, TypeOK
<1>3. OwnerOK'
  BY <1>1, <1>2 DEF PthreadInv, OwnerOK
<1>4. LeaseOK'
  BY <1>1 DEF PthreadInv, LeaseOK
<1>. QED  BY <1>3, <1>4

\* A step that leaves the bits to their waiters.
LEMMA BitsFrame ==
  ASSUME PthreadInv, NEW t \in Threads, Others(t), UNCHANGED <<distributed, waiting>>,
         ready' \subseteq waiting,
         HasBit(t)' <=> HasBit(t), HasBit(t) => run'[t].bit = run[t].bit
  PROVE  BitsOK'
<1>1. \A u \in Threads : (HasBit(u)' <=> HasBit(u)) /\ (HasBit(u) => run'[u].bit = run[u].bit)
  BY DEF Others, HasBit, At
<1>2. {run'[u].bit : u \in {v \in Threads : HasBit(v)'}} = {run[u].bit : u \in {v \in Threads : HasBit(v)}}
  BY <1>1
<1>. QED  BY <1>1, <1>2 DEF PthreadInv, BitsOK, BitsExact

\* A step that does not concern the gates.
LEMMA GateFrame ==
  ASSUME PthreadInv, NEW t \in Threads, Others(t), UNCHANGED <<distributed, owner, gate>>,
         ~ At(t, {"gate", "retest"}), ~ At(t, {"gate"})'
  PROVE  GateOK' /\ GateNotStranded'
<1>1. \A u \in Threads : /\ At(u, {"gate"})' <=> At(u, {"gate"})
                         /\ At(u, {"retest"}) => At(u, {"retest"})'
                         /\ Handle(u)' = Handle(u)
  BY DEF Others, At, Handle
<1>2. \A h \in Hosts : \A i \in 1 .. Len(gate[h]) : gate[h][i].who \in Threads
  <2>1. ASSUME NEW h \in Hosts, NEW i \in 1 .. Len(gate[h]) PROVE gate[h][i].who \in Threads
    <3>1. gate[h] \in Seq(WaiterType)
      BY DEF PthreadInv, GateOK
    <3>2. gate[h][i] \in WaiterType
      BY <3>1, ElementOfSeq
    <3>. QED  BY <3>2 DEF WaiterType
  <2>. QED  BY <2>1
<1>3. GateOK'
  BY <1>1, <1>2 DEF PthreadInv, GateOK
<1>4. GateNotStranded'
  BY <1>1 DEF PthreadInv, GateNotStranded
<1>. QED  BY <1>3, <1>4


\* A step outside the lock and unlock calls preserves the invariant if it does
\* so for the bits and for the place it goes to.
LEMMA PlainStep ==
  ASSUME PthreadInv, NEW t \in Threads, run' \in [Threads -> RunType], Others(t),
         UNCHANGED <<distributed, owner, gate, lease>>,
         BitsOK', waiting' \subseteq Bits, guard' \in Threads \cup {None}, items' \in Nat,
         Inside(t)' <=> Inside(t),
         ~ At(t, {"lease", "gate", "retest"}), ~ At(t, {"lease", "gate"})',
         At(t, {"polling", "cleanup"})' => distributed,
         run'[t].expired => At(t, {"parked", "polling", "cleanup"})'
  PROVE  PthreadInv'
<1>1. TypeOK'
  BY DEF PthreadInv, TypeOK
<1>2. RunOK'
  BY DEF PthreadInv, RunOK, Others, At
<1>3. OwnerOK' /\ LeaseOK'
  BY MutexFrame DEF At
<1>4. GateOK' /\ GateNotStranded'
  BY GateFrame DEF At
<1>. QED  BY <1>1, <1>2, <1>3, <1>4 DEF PthreadInv

\* Facts about the state before a step, and the case where the bits are left
\* alone.
LEMMA StateFacts ==
  ASSUME PthreadInv, NEW t \in Threads
  PROVE  /\ run \in [Threads -> RunType] /\ distributed \in BOOLEAN
         /\ run[t].expired => At(t, {"parked", "polling", "cleanup"})
         /\ At(t, {"polling", "cleanup"}) => distributed
         /\ waiting \subseteq Bits /\ guard \in Threads \cup {None} /\ items \in Nat
         /\ ready \subseteq waiting
         /\ run[t].bit \in 0 .. NumBits
BY DEF PthreadInv, TypeOK, RunOK, BitsOK, BitsExact, RunType

\* A thread moves on: what it knows changes, and nothing of the others.
LEMMA Moves ==
  ASSUME PthreadInv, NEW t \in Threads, NEW r \in RunType, run' = [run EXCEPT ![t] = r]
  PROVE  run' \in [Threads -> RunType] /\ Others(t) /\ run'[t] = r
BY StateFacts DEF Others

\* The application uses what it locked.
LEMMA UseKeeps ==
  ASSUME PthreadInv, NEW t \in Threads, Use(t)
  PROVE  PthreadInv'
<1>1. /\ run' \in [Threads -> RunType] /\ Others(t)
      /\ run'[t].pc = "leaving" /\ run[t].pc = "held"
      /\ run'[t].expired = run[t].expired /\ run'[t].bit = run[t].bit
      /\ UNCHANGED <<distributed, owner, gate, lease, waiting, ready, value, guard>>
  BY StateFacts DEF Use, At, Others, RunType, PCs, mutex, condition
<1>2. items' \in Nat
  BY StateFacts, ThreadsAssumption DEF Use
<1>3. BitsOK'
  BY <1>1, StateFacts, BitsFrame DEF HasBit, At
<1>. QED  BY <1>1, <1>2, <1>3, StateFacts, PlainStep DEF Inside, At

\* A bit is reserved, or there is none.
LEMMA RegisterKeeps ==
  ASSUME PthreadInv, NEW t \in Threads, Register(t)
  PROVE  PthreadInv'
<1>1. /\ distributed /\ run[t].pc = "held"
      /\ UNCHANGED <<distributed, owner, gate, lease, value, guard, items>>
  BY DEF Register, MustWait, At, mutex
<1>2. CASE FreeBits = {}
  <2>1. /\ run' \in [Threads -> RunType] /\ Others(t)
        /\ run'[t].pc = "held" /\ UNCHANGED <<waiting, ready>>
        /\ run'[t].expired = run[t].expired /\ run'[t].bit = run[t].bit
    <3>. DEFINE r == [run[t] EXCEPT !.gaveUp = TRUE]
    <3>1. r \in RunType /\ r.pc = "held" /\ r.expired = run[t].expired /\ r.bit = run[t].bit
      BY <1>1, StateFacts DEF RunType, PCs
    <3>2. run' = [run EXCEPT ![t] = r] /\ UNCHANGED <<waiting, ready>>
      BY <1>2 DEF Register
    <3>. HIDE DEF r
    <3>. QED  BY <3>1, <3>2, Moves
  <2>2. BitsOK'
    BY <1>1, <2>1, StateFacts, BitsFrame DEF HasBit, At
  <2>. QED  BY <1>1, <2>1, <2>2, StateFacts, PlainStep DEF Inside, At
<1>3. CASE FreeBits # {}
  <2>1. PICK b \in Bits : /\ b \notin waiting
                          /\ waiting' = waiting \cup {b} /\ ready' = ready \ {b}
                          /\ run' = [run EXCEPT ![t] = [@ EXCEPT !.pc = "registered", !.bit = b,
                                                              !.expired = FALSE]]
    <3>1. Min(FreeBits) \in FreeBits
      BY <1>3, MinIsElement, BitsAssumption DEF FreeBits, Bits
    <3>. QED  BY <1>3, <3>1 DEF Register, FreeBits
  <2>2. /\ run' \in [Threads -> RunType] /\ Others(t)
        /\ run'[t].pc = "registered" /\ run'[t].bit = b /\ ~ run'[t].expired
    <3>. DEFINE r == [run[t] EXCEPT !.pc = "registered", !.bit = b, !.expired = FALSE]
    <3>0. run[t] \in RunType /\ b \in 0 .. NumBits
      BY StateFacts, BitsAssumption DEF Bits
    <3>1. r \in RunType /\ r.pc = "registered" /\ r.bit = b /\ ~ r.expired
      BY <3>0 DEF RunType, PCs
    <3>2. run' = [run EXCEPT ![t] = r]
      BY <2>1
    <3>. HIDE DEF r
    <3>. QED  BY <3>1, <3>2, Moves
  <2>3. BitsOK'
    <3>1. /\ HasBit(t)' /\ ~ HasBit(t)
          /\ \A u \in Threads : u # t => (HasBit(u)' <=> HasBit(u)) /\ run'[u].bit = run[u].bit
      BY <1>1, <2>2 DEF HasBit, At, Others
    <3>2. /\ waiting = {run[u].bit : u \in {v \in Threads : HasBit(v)}}
          /\ \A u, v \in Threads : HasBit(u) /\ HasBit(v) /\ run[u].bit = run[v].bit => u = v
          /\ ready \subseteq waiting
          /\ \A u \in Threads : HasBit(u) => run[u].bit \in Bits
      BY DEF PthreadInv, BitsOK, BitsExact
    <3>3. waiting' = {run'[u].bit : u \in {v \in Threads : HasBit(v)'}}
      BY <2>1, <2>2, <3>1, <3>2
    <3>4. \A u, v \in Threads : HasBit(u)' /\ HasBit(v)' /\ run'[u].bit = run'[v].bit => u = v
      BY <2>1, <2>2, <3>1, <3>2
    <3>5. \A u \in Threads : HasBit(u)' => run'[u].bit \in Bits
      BY <2>1, <2>2, <3>1, <3>2
    <3>. QED  BY <2>1, <3>2, <3>3, <3>4, <3>5 DEF BitsOK, BitsExact
  <2>. QED  BY <1>1, <2>1, <2>2, <2>3, StateFacts, PlainStep DEF Inside, At
<1>. QED  BY <1>2, <1>3

\* The waiter of the local case keeps the guard.
LEMMA KeepKeeps ==
  ASSUME PthreadInv, NEW t \in Threads, Keep(t)
  PROVE  PthreadInv'
<1>1. /\ ~ distributed /\ run[t].pc = "held" /\ guard' = t
      /\ run' \in [Threads -> RunType] /\ Others(t)
      /\ run'[t].pc = "registered" /\ ~ run'[t].expired
      /\ UNCHANGED <<distributed, owner, gate, lease, waiting, ready, value, items>>
  <2>. DEFINE r == [run[t] EXCEPT !.pc = "registered", !.expired = FALSE]
  <2>1. r \in RunType /\ r.pc = "registered" /\ ~ r.expired
    BY StateFacts DEF RunType, PCs
  <2>2. /\ ~ distributed /\ run[t].pc = "held" /\ guard' = t /\ run' = [run EXCEPT ![t] = r]
        /\ UNCHANGED <<distributed, owner, gate, lease, waiting, ready, value, items>>
    BY DEF Keep, MustWait, At, mutex
  <2>. HIDE DEF r
  <2>. QED  BY <2>1, <2>2, Moves
<1>2. BitsOK'
  BY <1>1, StateFacts, BitsFrame DEF HasBit, At
<1>. QED  BY <1>1, <1>2, StateFacts, PlainStep DEF Inside, At

\* An unlock inside a wait fails and the mutex stays locked.
LEMMA WaitUnlockFailsKeeps ==
  ASSUME PthreadInv, NEW t \in Threads, WaitUnlockFails(t)
  PROVE  PthreadInv'
<1>1. /\ run[t].pc = "registered" /\ guard' = None
      /\ run' \in [Threads -> RunType] /\ Others(t)
      /\ run'[t].pc = IF distributed THEN "cleanup" ELSE "held"
      /\ run'[t].expired = run[t].expired /\ run'[t].bit = run[t].bit
      /\ UNCHANGED <<distributed, owner, gate, lease, waiting, ready, value, items>>
  <2>. DEFINE r == [run[t] EXCEPT !.pc = IF distributed THEN "cleanup" ELSE "held", !.gaveUp = TRUE]
  <2>1. /\ r \in RunType /\ r.pc = (IF distributed THEN "cleanup" ELSE "held")
        /\ r.expired = run[t].expired /\ r.bit = run[t].bit
    BY StateFacts DEF RunType, PCs
  <2>2. /\ run[t].pc = "registered" /\ guard' = None /\ run' = [run EXCEPT ![t] = r]
        /\ UNCHANGED <<distributed, owner, gate, lease, waiting, ready, value, items>>
    BY DEF WaitUnlockFails, At, mutex
  <2>. HIDE DEF r
  <2>. QED  BY <2>1, <2>2, Moves
<1>2. Inside(t) /\ owner[Handle(t)] = t
  BY <1>1 DEF PthreadInv, OwnerOK, Inside, At
<1>3. Inside(t)'
  BY <1>1, <1>2 DEF Inside, At, Handle
<1>4. BitsOK'
  BY <1>1, StateFacts, BitsFrame DEF HasBit, At
<1>. QED  BY <1>1, <1>2, <1>3, <1>4, StateFacts, PlainStep DEF At

\* A waiter of the local case is queued and releases the guard.
LEMMA ParkKeeps ==
  ASSUME PthreadInv, NEW t \in Threads, Park(t)
  PROVE  PthreadInv'
<1>1. /\ run[t].pc = "unlocked" /\ guard' = None
      /\ run' \in [Threads -> RunType] /\ Others(t)
      /\ run'[t].pc = "parked" /\ run'[t].expired = run[t].expired
      /\ UNCHANGED <<distributed, owner, gate, lease, waiting, ready, items>>
  <2>. DEFINE r == [run[t] EXCEPT !.pc = "parked"]
  <2>1. r \in RunType /\ r.pc = "parked" /\ r.expired = run[t].expired
    BY StateFacts DEF RunType, PCs
  <2>2. /\ run[t].pc = "unlocked" /\ guard' = None /\ run' = [run EXCEPT ![t] = r]
        /\ UNCHANGED <<distributed, owner, gate, lease, waiting, ready, items>>
    BY DEF Park, At, mutex
  <2>. HIDE DEF r
  <2>. QED  BY <2>1, <2>2, Moves
<1>2. BitsOK'
  BY <1>1, StateFacts, BitsFrame DEF HasBit, At
<1>. QED  BY <1>1, <1>2, StateFacts, PlainStep DEF Inside, At

\* The deadline of a wait passes.
LEMMA ExpireKeeps ==
  ASSUME PthreadInv, NEW t \in Threads, Expire(t)
  PROVE  PthreadInv'
<1>1. /\ run[t].pc \in {"parked", "polling"}
      /\ run' \in [Threads -> RunType] /\ Others(t)
      /\ run'[t].pc = run[t].pc /\ run'[t].bit = run[t].bit
      /\ UNCHANGED <<distributed, owner, gate, lease, waiting, ready, value, guard, items>>
  <2>. DEFINE r == [run[t] EXCEPT !.expired = TRUE]
  <2>1. r \in RunType /\ r.pc = run[t].pc /\ r.bit = run[t].bit
    BY StateFacts DEF RunType
  <2>2. /\ run[t].pc \in {"parked", "polling"} /\ run' = [run EXCEPT ![t] = r]
        /\ UNCHANGED <<distributed, owner, gate, lease, waiting, ready, value, guard, items>>
    BY DEF Expire, At, mutex, condition
  <2>. HIDE DEF r
  <2>. QED  BY <2>1, <2>2, Moves
<1>2. BitsOK'
  BY <1>1, StateFacts, BitsFrame DEF HasBit, At
<1>. QED  BY <1>1, <1>2, StateFacts, PlainStep DEF Inside, At

\* A waiter of the local case wakes.
LEMMA WakeKeeps ==
  ASSUME PthreadInv, NEW t \in Threads, Wake(t)
  PROVE  PthreadInv'
<1>1. /\ run[t].pc = "parked"
      /\ run' \in [Threads -> RunType] /\ Others(t)
      /\ run'[t].pc = "start" /\ ~ run'[t].expired
      /\ UNCHANGED <<distributed, owner, gate, lease, waiting, ready, guard, items>>
  <2>. DEFINE b == ~value[IndexOf(value, t)].ready
              r == [run[t] EXCEPT !.pc = "start", !.again = TRUE, !.expired = FALSE, !.gaveUp = b]
  <2>1. b \in BOOLEAN
    OBVIOUS
  <2>. HIDE DEF b
  <2>2. r \in RunType /\ r.pc = "start" /\ ~ r.expired
    BY <2>1, StateFacts DEF RunType, PCs
  <2>3. /\ run[t].pc = "parked" /\ run' = [run EXCEPT ![t] = r]
        /\ UNCHANGED <<distributed, owner, gate, lease, waiting, ready, guard, items>>
    BY DEF Wake, At, mutex, b
  <2>. HIDE DEF r
  <2>. QED  BY <2>2, <2>3, Moves
<1>2. BitsOK'
  BY <1>1, StateFacts, BitsFrame DEF HasBit, At
<1>. QED  BY <1>1, <1>2, StateFacts, PlainStep DEF Inside, At


\* The polling of a waiter ends; its mutex is unlocked.
LEMMA PollKeeps ==
  ASSUME PthreadInv, NEW t \in Threads, Poll(t)
  PROVE  PthreadInv'
<1>1. /\ run[t].pc = "polling"
      /\ run' \in [Threads -> RunType] /\ Others(t)
      /\ run'[t].pc = "cleanup" /\ run'[t].bit = run[t].bit
      /\ UNCHANGED <<distributed, owner, gate, lease, waiting, ready, value, guard, items>>
  <2>0. /\ run[t].pc = "polling" /\ run[t] \in RunType
        /\ UNCHANGED <<distributed, owner, gate, lease, waiting, ready, value, guard, items>>
    BY StateFacts DEF Poll, At, mutex, condition
  <2>1. CASE run' = [run EXCEPT ![t].pc = "cleanup"]
    BY <2>0, <2>1, StateFacts DEF Others, RunType, PCs
  <2>2. CASE run' = [run EXCEPT ![t] = [@ EXCEPT !.pc = "cleanup", !.gaveUp = TRUE]]
    <3>. DEFINE r == [run[t] EXCEPT !.pc = "cleanup", !.gaveUp = TRUE]
    <3>1. r \in RunType /\ r.pc = "cleanup" /\ r.bit = run[t].bit
      BY <2>0 DEF RunType, PCs
    <3>2. run' = [run EXCEPT ![t] = r]
      BY <2>2
    <3>. HIDE DEF r
    <3>. QED  BY <2>0, <3>1, <3>2, Moves
  <2>. QED  BY <2>1, <2>2 DEF Poll
<1>2. Handle(t) \in Hosts /\ Handle(t)' = Handle(t)
  BY <1>1, HandleType DEF Handle
<1>3. owner[Handle(t)] # t
  <2>1. SUFFICES ASSUME owner[Handle(t)] = t PROVE FALSE
    OBVIOUS
  <2>2. owner[Handle(t)] # None
    BY <2>1, ThreadsAssumption
  <2>3. Inside(t) \/ At(t, {"lease"})
    BY <1>2, <2>1, <2>2 DEF PthreadInv, OwnerOK
  <2>. QED  BY <1>1, <2>3 DEF Inside, At
<1>4. BitsOK'
  BY <1>1, StateFacts, BitsFrame DEF HasBit, At
<1>5. ~ Inside(t) /\ ~ Inside(t)'
  BY <1>1, <1>2, <1>3 DEF Inside, At
<1>6. distributed
  BY <1>1, StateFacts DEF At
<1>. QED  BY <1>1, <1>4, <1>5, <1>6, StateFacts, PlainStep DEF At

\* A wait gives its bit back, and still holds the mutex if it never unlocked it.
LEMMA CleanupKeeps ==
  ASSUME PthreadInv, NEW t \in Threads, Cleanup(t)
  PROVE  PthreadInv'
<1>. DEFINE mine == owner[Handle(t)] = t
            place == IF mine THEN "held" ELSE "start"
            away == owner[Handle(t)] # t
            r == [run[t] EXCEPT !.bit = 0, !.expired = FALSE, !.again = away, !.pc = place]
<1>1. /\ run[t].pc = "cleanup" /\ run[t] \in RunType
      /\ waiting' = waiting \ {run[t].bit} /\ ready' = ready \ {run[t].bit}
      /\ UNCHANGED <<distributed, owner, gate, lease, value, guard, items>>
  BY StateFacts DEF Cleanup, At, mutex
<1>2. run' = [run EXCEPT ![t] = r]
  BY DEF Cleanup
<1>3. /\ away \in BOOLEAN /\ 0 \in 0 .. NumBits
      /\ place \in {"held", "start"} /\ (mine <=> place = "held")
  BY BitsAssumption
<1>4. Inside(t) <=> mine
  BY <1>1 DEF Inside, At
<1>. HIDE DEF mine, place, away
<1>5. r \in RunType /\ r.pc = place /\ ~ r.expired
  BY <1>1, <1>3 DEF RunType, PCs
<1>. HIDE DEF r
<1>6. /\ run' \in [Threads -> RunType] /\ Others(t) /\ run'[t].pc = place /\ ~ run'[t].expired
  BY <1>2, <1>5, Moves
<1>7. Inside(t)' <=> Inside(t)
  BY <1>3, <1>4, <1>6 DEF Inside, At
<1>8. BitsOK'
  <2>1. distributed
    BY <1>1, StateFacts DEF At
  <2>2. /\ HasBit(t) /\ ~ HasBit(t)'
        /\ \A u \in Threads : u # t => (HasBit(u)' <=> HasBit(u)) /\ run'[u].bit = run[u].bit
    BY <1>1, <1>3, <1>6, <2>1 DEF HasBit, At, Others
  <2>3. /\ waiting = {run[u].bit : u \in {v \in Threads : HasBit(v)}}
        /\ \A u, v \in Threads : HasBit(u) /\ HasBit(v) /\ run[u].bit = run[v].bit => u = v
        /\ ready \subseteq waiting
        /\ \A u \in Threads : HasBit(u) => run[u].bit \in Bits
    BY DEF PthreadInv, BitsOK, BitsExact
  <2>4. waiting' = {run'[u].bit : u \in {v \in Threads : HasBit(v)'}}
    BY <1>1, <2>2, <2>3
  <2>5. \A u, v \in Threads : HasBit(u)' /\ HasBit(v)' /\ run'[u].bit = run'[v].bit => u = v
    BY <2>2, <2>3
  <2>6. \A u \in Threads : HasBit(u)' => run'[u].bit \in Bits
    BY <2>2, <2>3
  <2>7. ready' \subseteq waiting'
    BY <1>1, <2>3
  <2>. QED  BY <2>4, <2>5, <2>6, <2>7 DEF BitsOK, BitsExact
<1>9. waiting' \subseteq Bits
  BY <1>1, StateFacts
<1>. QED  BY <1>1, <1>3, <1>6, <1>7, <1>8, <1>9, StateFacts, PlainStep DEF At

\* A wait returns with the mutex locked.
LEMMA ReturnKeeps ==
  ASSUME PthreadInv, NEW t \in Threads, Return(t)
  PROVE  PthreadInv'
<1>1. /\ run[t].pc = "returning" /\ run' \in [Threads -> RunType] /\ Others(t)
      /\ run'[t].pc = "held" /\ run'[t].expired = run[t].expired
      /\ UNCHANGED <<distributed, owner, gate, lease, waiting, ready, value, guard, items>>
  <2>. DEFINE r == [run[t] EXCEPT !.pc = "held", !.again = FALSE]
  <2>1. r \in RunType /\ r.pc = "held" /\ r.expired = run[t].expired
    BY StateFacts DEF RunType, PCs
  <2>2. /\ run[t].pc = "returning" /\ run' = [run EXCEPT ![t] = r]
        /\ UNCHANGED <<distributed, owner, gate, lease, waiting, ready, value, guard, items>>
    BY DEF Return, At, mutex, condition
  <2>. HIDE DEF r
  <2>. QED  BY <2>1, <2>2, Moves
<1>2. BitsOK'
  BY <1>1, StateFacts, BitsFrame DEF HasBit, At
<1>. QED  BY <1>1, <1>2, StateFacts, PlainStep DEF Inside, At

\* A notification marks bits that wait.
LEMMA NotifyConditionKeeps ==
  ASSUME PthreadInv, NEW t \in Threads, NotifyCondition(t)
  PROVE  PthreadInv'
<1>1. /\ run[t].pc = "notify" /\ run' \in [Threads -> RunType] /\ Others(t)
      /\ run'[t].pc = "done" /\ run'[t].expired = run[t].expired
      /\ UNCHANGED <<distributed, owner, gate, lease, waiting, guard, items>>
  BY StateFacts DEF NotifyCondition, At, Others, RunType, PCs, mutex
<1>2. ready' \subseteq waiting
  <2>1. waiting \subseteq Nat /\ ready \subseteq waiting
    BY StateFacts, BitsAssumption DEF Bits
  <2>2. waiting \ ready # {} => Min(waiting \ ready) \in waiting \ ready
    BY <2>1, MinIsElement
  <2>3. CASE distributed
    BY <2>1, <2>2, <2>3 DEF NotifyCondition
  <2>4. CASE ~ distributed
    BY <2>1, <2>4 DEF NotifyCondition
  <2>. QED  BY <2>3, <2>4
<1>3. BitsOK'
  BY <1>1, <1>2, BitsFrame DEF HasBit, At
<1>. QED  BY <1>1, <1>3, StateFacts, PlainStep DEF Inside, At


-----------------------------------------------------------------------------
(* Steps of the lock and unlock calls.                                     *)

\* Facts about the gates before a step.
LEMMA GateFacts ==
  ASSUME PthreadInv, NEW h \in Hosts
  PROVE  /\ gate[h] \in Seq(WaiterType) /\ Len(gate[h]) \in Nat
         /\ \A i \in 1 .. Len(gate[h]) : /\ gate[h][i].who \in Threads
                                         /\ run[gate[h][i].who].pc = "gate"
                                         /\ ~ run[gate[h][i].who].expired
                                         /\ Handle(gate[h][i].who) = h
<1>1. gate[h] \in Seq(WaiterType)
  BY DEF PthreadInv, GateOK
<1>2. ASSUME NEW i \in 1 .. Len(gate[h])
      PROVE  /\ gate[h][i].who \in Threads
             /\ run[gate[h][i].who].pc = "gate"
             /\ ~ run[gate[h][i].who].expired
             /\ Handle(gate[h][i].who) = h
  <2>1. gate[h][i] \in WaiterType
    BY <1>1, ElementOfSeq
  <2>2. gate[h][i].who \in Threads
    BY <2>1 DEF WaiterType
  <2>3. run[gate[h][i].who].pc = "gate" /\ Handle(gate[h][i].who) = h
    BY DEF PthreadInv, GateOK, At
  <2>. QED  BY <2>2, <2>3, StateFacts DEF At
<1>. QED  BY <1>1, <1>2, LenProperties

\* A woken waiter leaves the queue of its gate.
LEMMA GateWakeKeeps ==
  ASSUME PthreadInv, NEW t \in Threads, GateWake(t)
  PROVE  PthreadInv'
<1>. DEFINE h == Handle(t)
            k == IndexOf(gate[h], t)
            n == Len(gate[h])
<1>1. /\ run[t].pc = "gate" /\ run' \in [Threads -> RunType] /\ Others(t)
      /\ run'[t].pc = "retest" /\ run'[t].expired = run[t].expired
      /\ UNCHANGED <<distributed, owner, lease, waiting, ready, value, guard, items>>
  BY StateFacts DEF GateWake, At, Others, RunType, PCs, condition
<1>2. h \in Hosts /\ \A u \in Threads : Handle(u)' = Handle(u)
  BY <1>1, HandleType DEF Handle
<1>3. n \in Nat /\ DOMAIN gate[h] = 1 .. n
  BY <1>2, GateFacts
<1>4. k \in 1 .. n /\ gate[h][k].who = t
  <2>1. \E i \in DOMAIN gate[h] : gate[h][i].who = t
    BY <1>1, <1>3 DEF PthreadInv, GateOK, At
  <2>. QED  BY <1>3, <2>1 DEF IndexOf
<1>5. /\ gate' \in [Hosts -> Seq(WaiterType)] /\ gate'[h] = RemoveAt(gate[h], k)
      /\ \A g \in Hosts : g # h => gate'[g] = gate[g]
  <2>1. gate' = [gate EXCEPT ![h] = RemoveAt(gate[h], k)]
    BY DEF GateWake, Erase
  <2>2. gate \in [Hosts -> Seq(WaiterType)]
    BY DEF PthreadInv, GateOK
  <2>3. RemoveAt(gate[h], k) \in Seq(WaiterType)
    BY <1>2, <1>4, GateFacts, RemoveAtProperties
  <2>. HIDE DEF h, k
  <2>. QED  BY <1>2, <2>1, <2>2, <2>3
<1>6. /\ Len(gate'[h]) = n - 1
      /\ \A j \in 1 .. n - 1 : gate'[h][j] = IF j < k THEN gate[h][j] ELSE gate[h][j + 1]
  <2>1. gate[h] \in Seq(WaiterType) /\ k \in 1 .. Len(gate[h])
    BY <1>2, <1>4, GateFacts
  <2>. HIDE DEF h, k
  <2>. QED  BY <1>5, <2>1, RemoveAtProperties
<1>. HIDE DEF h, k, n
<1>7. \A j \in 1 .. n - 1 : /\ gate'[h][j].who \in Threads /\ gate'[h][j].who # t
                            /\ run[gate'[h][j].who].pc = "gate" /\ Handle(gate'[h][j].who) = h
  <2>1. ASSUME NEW j \in 1 .. n - 1
        PROVE  \E i \in 1 .. n : i # k /\ gate'[h][j] = gate[h][i]
    <3>1. CASE j < k
      BY <1>3, <1>4, <1>6, <3>1
    <3>2. CASE ~ (j < k)
      BY <1>3, <1>4, <1>6, <3>2
    <3>. QED  BY <3>1, <3>2
  <2>2. \A i \in 1 .. n : /\ gate[h][i].who \in Threads /\ run[gate[h][i].who].pc = "gate"
                          /\ Handle(gate[h][i].who) = h
    BY <1>2, GateFacts DEF n
  <2>3. \A i \in 1 .. n : gate[h][i].who = gate[h][k].who => i = k
    BY <1>2, <1>4 DEF PthreadInv, GateOK, n
  <2>. QED  BY <1>4, <2>1, <2>2, <2>3
<1>8. GateOK'
  <2>1. ASSUME NEW g \in Hosts, NEW i \in 1 .. Len(gate'[g])
        PROVE  /\ gate'[g][i].who \in Threads
               /\ run'[gate'[g][i].who].pc = "gate" /\ Handle(gate'[g][i].who) = g
    <3>1. CASE g = h
      BY <1>1, <1>6, <1>7, <2>1, <3>1 DEF Others
    <3>2. CASE g # h
      <4>1. gate'[g] = gate[g] /\ gate[g][i].who \in Threads
            /\ run[gate[g][i].who].pc = "gate" /\ Handle(gate[g][i].who) = g
        BY <1>5, <2>1, <3>2, GateFacts
      <4>2. gate[g][i].who # t
        BY <3>2, <4>1 DEF h
      <4>. QED  BY <1>1, <4>1, <4>2 DEF Others
    <3>. QED  BY <3>1, <3>2
  <2>2. ASSUME NEW g \in Hosts, NEW i \in 1 .. Len(gate'[g]), NEW j \in 1 .. Len(gate'[g]),
               gate'[g][i].who = gate'[g][j].who
        PROVE  i = j
    <3>1. \A f \in Hosts : \A a, b \in 1 .. Len(gate[f]) : gate[f][a].who = gate[f][b].who => a = b
      BY DEF PthreadInv, GateOK
    <3>2. CASE g = h
      <4>1. i \in 1 .. n - 1 /\ j \in 1 .. n - 1
        BY <1>6, <2>2, <3>2
      <4>2. \A a, b \in 1 .. n : gate[h][a].who = gate[h][b].who => a = b
        BY <1>2, <3>1 DEF n
      <4>. DEFINE old(a) == IF a < k THEN a ELSE a + 1
      <4>3. \A a \in 1 .. n - 1 : old(a) \in 1 .. n /\ gate'[h][a] = gate[h][old(a)]
        BY <1>3, <1>4, <1>6
      <4>4. old(i) = old(j)
        <5>1. gate'[h][i].who = gate'[h][j].who
          BY <2>2, <3>2
        <5>. HIDE DEF old
        <5>. QED  BY <4>1, <4>2, <4>3, <5>1
      <4>. QED  BY <1>3, <1>4, <4>1, <4>4
    <3>3. CASE g # h
      BY <1>5, <2>2, <3>1, <3>3
    <3>. QED  BY <3>2, <3>3
  <2>3. ASSUME NEW u \in Threads, run'[u].pc = "gate"
        PROVE  \E i \in 1 .. Len(gate'[Handle(u)]) : gate'[Handle(u)][i].who = u
    <3>1. u # t /\ run[u].pc = "gate" /\ Handle(u) \in Hosts
      BY <1>1, <2>3, HandleType DEF Others
    <3>2. PICK i \in 1 .. Len(gate[Handle(u)]) : gate[Handle(u)][i].who = u
      BY <3>1 DEF PthreadInv, GateOK, At
    <3>3. CASE Handle(u) = h
      <4>1. i \in 1 .. n /\ i # k /\ gate[h][i].who = u
        BY <1>4, <3>1, <3>2, <3>3 DEF n
      <4>2. CASE i < k
        BY <1>3, <1>4, <1>6, <3>3, <4>1, <4>2
      <4>3. CASE ~ (i < k)
        <5>1. i - 1 \in 1 .. n - 1 /\ ~ (i - 1 < k) /\ i - 1 + 1 = i
          BY <1>3, <1>4, <4>1, <4>3
        <5>. QED  BY <1>6, <3>3, <4>1, <5>1
      <4>. QED  BY <4>2, <4>3
    <3>4. CASE Handle(u) # h
      BY <1>5, <3>1, <3>2, <3>4
    <3>. QED  BY <3>3, <3>4
  <2>. QED  BY <1>1, <1>5, <2>1, <2>2, <2>3 DEF GateOK, At, Handle
<1>9. GateNotStranded'
  <2>1. ASSUME NEW g \in Hosts, owner'[g] = None, gate'[g] # << >>
        PROVE  \/ \E i \in DOMAIN gate'[g] : gate'[g][i].ready
               \/ \E u \in Threads : run'[u].pc = "retest" /\ Handle(u) = g
    <3>1. CASE g = h
      BY <1>1, <3>1 DEF h
    <3>2. CASE g # h
      <4>1. \/ \E i \in DOMAIN gate[g] : gate[g][i].ready
            \/ \E u \in Threads : run[u].pc = "retest" /\ Handle(u) = g
        BY <1>1, <1>5, <2>1, <3>2 DEF PthreadInv, GateNotStranded, At
      <4>. QED  BY <1>1, <1>5, <3>2, <4>1 DEF Others
    <3>. QED  BY <3>1, <3>2
  <2>. QED  BY <1>2, <2>1 DEF GateNotStranded, At
<1>10. OwnerOK' /\ LeaseOK'
  BY <1>1, MutexFrame DEF Inside, At
<1>11. BitsOK'
  BY <1>1, StateFacts, BitsFrame DEF HasBit, At
<1>12. TypeOK' /\ RunOK'
  BY <1>1, StateFacts DEF PthreadInv, TypeOK, RunOK, Others, At
<1>. QED  BY <1>8, <1>9, <1>10, <1>11, <1>12 DEF PthreadInv


\* A thread that is neither inside nor taking the lease owns no handle.
LEMMA NotOwner ==
  ASSUME PthreadInv, NEW t \in Threads, ~ Inside(t), ~ At(t, {"lease"})
  PROVE  \A h \in Hosts : owner[h] # t
BY ThreadsAssumption DEF PthreadInv, OwnerOK

\* A thread takes the gate of its handle, joins its queue, or gives up.
LEMMA EnterKeeps ==
  ASSUME PthreadInv, NEW t \in Threads, NEW attempt \in BOOLEAN, Enter(t, attempt),
         At(t, {"start"}) \/ (At(t, {"retest"}) /\ ~ attempt),
         UNCHANGED <<distributed, lease, condition, items>>
  PROVE  PthreadInv'
<1>. DEFINE h == Handle(t)
<1>1. /\ run[t] \in RunType /\ run[t].pc \in {"start", "retest"} /\ ~ run[t].expired
      /\ UNCHANGED <<distributed, lease, waiting, ready, value, guard, items>>
  BY StateFacts DEF At, condition
<1>2. h \in Hosts /\ owner \in [Hosts -> Threads \cup {None}] /\ t # None
      /\ \A u \in Threads : Handle(u)' = Handle(u)
  BY <1>1, HandleType, ThreadsAssumption DEF Handle, PthreadInv, TypeOK
<1>3. ~ Inside(t) /\ ~ At(t, {"lease"}) /\ ~ HasBit(t)
  BY <1>1 DEF Inside, At, HasBit
<1>4. \A g \in Hosts : owner[g] # t
  BY <1>3, NotOwner
<1>5. CASE /\ owner[h] = None /\ owner' = [owner EXCEPT ![h] = t] /\ UNCHANGED gate
           /\ run' = [run EXCEPT ![t] = [@ EXCEPT !.pc = "lease", !.attempt = attempt, !.tried = TRUE]]
  <2>1. /\ run' \in [Threads -> RunType] /\ Others(t) /\ run'[t].pc = "lease" /\ ~ run'[t].expired
    <3>. DEFINE r == [run[t] EXCEPT !.pc = "lease", !.attempt = attempt, !.tried = TRUE]
    <3>1. r \in RunType /\ r.pc = "lease" /\ ~ r.expired
      BY <1>1 DEF RunType, PCs
    <3>2. run' = [run EXCEPT ![t] = r]
      BY <1>5
    <3>. HIDE DEF r
    <3>. QED  BY <3>1, <3>2, Moves
  <2>2. /\ owner' \in [Hosts -> Threads \cup {None}] /\ owner'[h] = t
        /\ \A g \in Hosts : g # h => owner'[g] = owner[g]
    BY <1>2, <1>5
  <2>. HIDE DEF h
  <2>3. ~ Inside(t)' /\ \A u \in Threads : u # t => (Inside(u)' <=> Inside(u))
    <3>1. \A u \in Threads : u # t => (owner'[Handle(u)] = u <=> owner[Handle(u)] = u)
      BY <1>2, <1>5, <2>2, HandleType, ThreadsAssumption
    <3>. QED  BY <1>2, <2>1, <3>1 DEF Inside, At, Others
  <2>4. \A u \in Threads : u # t => (At(u, {"lease"})' <=> At(u, {"lease"}))
    BY <2>1 DEF At, Others
  <2>5. OwnerOK'
    <3>1. ASSUME NEW u \in Threads, Inside(u)' \/ At(u, {"lease"})' PROVE owner'[Handle(u)] = u
      <4>1. CASE u = t
        BY <2>2, <4>1 DEF h
      <4>2. CASE u # t
        <5>1. owner[Handle(u)] = u /\ Handle(u) \in Hosts /\ u # None
          BY <2>3, <2>4, <3>1, <4>2, HandleType, ThreadsAssumption DEF PthreadInv, OwnerOK
        <5>2. Handle(u) # h
          BY <1>5, <5>1 DEF h
        <5>. QED  BY <2>2, <5>1, <5>2
      <4>. QED  BY <4>1, <4>2
    <3>2. ASSUME NEW g \in Hosts, NEW u, u = owner'[g], u # None
          PROVE  Handle(u)' = g /\ (Inside(u)' \/ At(u, {"lease"})')
      <4>1. CASE g = h
        BY <1>2, <2>1, <2>2, <3>2, <4>1 DEF At, h
      <4>2. CASE g # h
        <5>1. u = owner[g] /\ u \in Threads /\ u # t
          BY <1>2, <1>4, <2>2, <3>2, <4>2
        <5>2. Handle(u) = g /\ (Inside(u) \/ At(u, {"lease"}))
          BY <3>2, <5>1 DEF PthreadInv, OwnerOK
        <5>. QED  BY <1>2, <2>3, <2>4, <5>1, <5>2
      <4>. QED  BY <4>1, <4>2
    <3>. QED  BY <1>2, <3>1, <3>2 DEF OwnerOK
  <2>6. LeaseOK'
    BY <1>1, <1>2, <1>3, <2>3 DEF PthreadInv, LeaseOK
  <2>7. BitsOK'
    BY <1>1, <1>3, <2>1, StateFacts, BitsFrame DEF HasBit, At
  <2>8. GateOK'
    <3>1. \A u \in Threads : At(u, {"gate"})' <=> At(u, {"gate"})
      BY <1>1, <2>1 DEF At, Others
    <3>2. \A g \in Hosts : \A i \in 1 .. Len(gate[g]) : gate[g][i].who \in Threads
      BY GateFacts
    <3>3. gate' = gate
      BY <1>5
    <3>4. GateOK
      BY DEF PthreadInv
    <3>6. ASSUME NEW g \in Hosts, NEW i \in 1 .. Len(gate[g])
          PROVE  run'[gate[g][i].who].pc \in {"gate"} /\ Handle(gate[g][i].who) = g
      <4>1. PICK u \in Threads : u = gate[g][i].who
        BY <3>2
      <4>2. At(u, {"gate"}) /\ Handle(u) = g
        BY <3>4, <4>1 DEF GateOK
      <4>. QED  BY <3>1, <4>1, <4>2 DEF At
    <3>7. ASSUME NEW u \in Threads, run'[u].pc \in {"gate"}
          PROVE  \E i \in 1 .. Len(gate[Handle(u)]) : gate[Handle(u)][i].who = u
      BY <3>1, <3>4, <3>7 DEF GateOK, At
    <3>8. /\ gate \in [Hosts -> Seq(WaiterType)]
          /\ \A g \in Hosts : \A i, j \in 1 .. Len(gate[g]) : gate[g][i].who = gate[g][j].who => i = j
      BY <3>4 DEF GateOK
    <3>. QED  BY ZenonT(60), <1>2, <3>3, <3>6, <3>7, <3>8 DEF GateOK, At, Handle
  <2>9. GateNotStranded'
    <3>1. ASSUME NEW g \in Hosts, owner'[g] = None, gate[g] # << >>
          PROVE  \/ \E i \in DOMAIN gate[g] : gate[g][i].ready
                 \/ \E u \in Threads : run'[u].pc = "retest" /\ Handle(u) = g
      <4>1. g # h /\ owner[g] = None
        BY <1>2, <2>2, <3>1
      <4>2. \/ \E i \in DOMAIN gate[g] : gate[g][i].ready
            \/ \E u \in Threads : run[u].pc = "retest" /\ Handle(u) = g
        BY <3>1, <4>1 DEF PthreadInv, GateNotStranded, At
      <4>3. \A u \in Threads : Handle(u) = g => u # t
        BY <4>1 DEF h
      <4>. QED  BY <2>1, <4>2, <4>3 DEF Others
    <3>. QED  BY <1>2, <1>5, <3>1 DEF GateNotStranded, At
  <2>10. TypeOK' /\ RunOK'
    BY <1>1, <2>1, <2>2, StateFacts DEF PthreadInv, TypeOK, RunOK, Others, At
  <2>. QED  BY <2>5, <2>6, <2>7, <2>8, <2>9, <2>10 DEF PthreadInv
<1>6. CASE /\ owner[h] # None /\ gate' = [gate EXCEPT ![h] = Append(@, Waiter(t))] /\ UNCHANGED owner
           /\ run' = [run EXCEPT ![t] = [@ EXCEPT !.pc = "gate", !.attempt = FALSE, !.tried = TRUE]]
  <2>1. /\ run' \in [Threads -> RunType] /\ Others(t) /\ run'[t].pc = "gate" /\ ~ run'[t].expired
    <3>. DEFINE r == [run[t] EXCEPT !.pc = "gate", !.attempt = FALSE, !.tried = TRUE]
    <3>1. r \in RunType /\ r.pc = "gate" /\ ~ r.expired
      BY <1>1 DEF RunType, PCs
    <3>2. run' = [run EXCEPT ![t] = r]
      BY <1>6
    <3>. HIDE DEF r
    <3>. QED  BY <3>1, <3>2, Moves
  <2>2. /\ gate' \in [Hosts -> Seq(WaiterType)]
        /\ Len(gate'[h]) = Len(gate[h]) + 1 /\ Len(gate[h]) \in Nat
        /\ \A i \in 1 .. Len(gate[h]) : gate'[h][i] = gate[h][i]
        /\ gate'[h][Len(gate[h]) + 1].who = t
        /\ \A g \in Hosts : g # h => gate'[g] = gate[g]
    <3>1. gate \in [Hosts -> Seq(WaiterType)] /\ gate[h] \in Seq(WaiterType)
      BY <1>2 DEF PthreadInv, GateOK
    <3>2. Waiter(t) \in WaiterType /\ Waiter(t).who = t
      BY DEF Waiter, WaiterType
    <3>3. /\ Append(gate[h], Waiter(t)) \in Seq(WaiterType)
          /\ Len(Append(gate[h], Waiter(t))) = Len(gate[h]) + 1 /\ Len(gate[h]) \in Nat
          /\ \A i \in 1 .. Len(gate[h]) : Append(gate[h], Waiter(t))[i] = gate[h][i]
          /\ Append(gate[h], Waiter(t))[Len(gate[h]) + 1] = Waiter(t)
      BY <3>1, <3>2, AppendProperties, LenProperties
    <3>. HIDE DEF h
    <3>. QED  BY <1>2, <1>6, <3>1, <3>2, <3>3
  <2>. HIDE DEF h
  <2>3. OwnerOK' /\ LeaseOK'
    BY <1>1, <1>3, <1>6, <2>1, MutexFrame DEF Inside, At
  <2>4. BitsOK'
    BY <1>1, <1>3, <2>1, StateFacts, BitsFrame DEF HasBit, At
  <2>5. GateOK'
    <3>1. ASSUME NEW g \in Hosts, NEW i \in 1 .. Len(gate'[g])
          PROVE  /\ gate'[g][i].who \in Threads
                 /\ run'[gate'[g][i].who].pc = "gate" /\ Handle(gate'[g][i].who) = g
      <4>1. CASE g = h /\ i = Len(gate[h]) + 1
        BY <2>1, <2>2, <4>1 DEF h
      <4>2. CASE ~ (g = h /\ i = Len(gate[h]) + 1)
        <5>1. i \in 1 .. Len(gate[g]) /\ gate'[g][i] = gate[g][i]
          BY <2>2, <3>1, <4>2
        <5>2. /\ gate[g][i].who \in Threads
              /\ run[gate[g][i].who].pc = "gate" /\ Handle(gate[g][i].who) = g
          BY <5>1, GateFacts
        <5>. QED  BY <1>1, <2>1, <5>1, <5>2 DEF Others
      <4>. QED  BY <4>1, <4>2
    <3>2. \A g \in Hosts : \A i \in 1 .. Len(gate[g]) : gate[g][i].who # t
      BY <1>1, GateFacts
    <3>3. ASSUME NEW g \in Hosts, NEW i \in 1 .. Len(gate'[g]), NEW j \in 1 .. Len(gate'[g]),
                 gate'[g][i].who = gate'[g][j].who
          PROVE  i = j
      <4>1. \A a, b \in 1 .. Len(gate[g]) : gate[g][a].who = gate[g][b].who => a = b
        BY DEF PthreadInv, GateOK
      <4>2. CASE g = h
        <5>. DEFINE n == Len(gate[h])
        <5>1. /\ n \in Nat /\ i \in 1 .. n + 1 /\ j \in 1 .. n + 1 /\ gate'[h][i].who = gate'[h][j].who
              /\ \A a \in 1 .. n : gate'[h][a].who = gate[h][a].who /\ gate[h][a].who # t
              /\ gate'[h][n + 1].who = t
          BY <1>2, <2>2, <3>2, <3>3, <4>2
        <5>2. \A a, b \in 1 .. n : gate[h][a].who = gate[h][b].who => a = b
          BY <4>1, <4>2
        <5>. HIDE DEF n
        <5>3. (i \in 1 .. n \/ i = n + 1) /\ (j \in 1 .. n \/ j = n + 1)
          BY <5>1
        <5>. QED  BY <5>1, <5>2, <5>3
      <4>3. CASE g # h
        BY <2>2, <3>3, <4>1, <4>3
      <4>. QED  BY <4>2, <4>3
    <3>4. ASSUME NEW u \in Threads, run'[u].pc = "gate"
          PROVE  \E i \in 1 .. Len(gate'[Handle(u)]) : gate'[Handle(u)][i].who = u
      <4>1. CASE u = t
        BY <2>2, <4>1 DEF h
      <4>2. CASE u # t
        <5>1. run[u].pc = "gate" /\ Handle(u) \in Hosts
          BY <2>1, <3>4, <4>2, HandleType DEF Others
        <5>2. PICK i \in 1 .. Len(gate[Handle(u)]) : gate[Handle(u)][i].who = u
          BY <5>1 DEF PthreadInv, GateOK, At
        <5>. QED  BY <2>2, <5>1, <5>2
      <4>. QED  BY <4>1, <4>2
    <3>. QED  BY <1>1, <2>2, <3>1, <3>3, <3>4 DEF GateOK, At, Handle
  <2>6. GateNotStranded'
    <3>1. ASSUME NEW g \in Hosts, owner'[g] = None, gate'[g] # << >>
          PROVE  \/ \E i \in DOMAIN gate'[g] : gate'[g][i].ready
                 \/ \E u \in Threads : run'[u].pc = "retest" /\ Handle(u) = g
      <4>1. g # h /\ owner[g] = None /\ gate'[g] = gate[g]
        BY <1>6, <2>2, <3>1
      <4>2. \/ \E i \in DOMAIN gate[g] : gate[g][i].ready
            \/ \E u \in Threads : run[u].pc = "retest" /\ Handle(u) = g
        BY <3>1, <4>1 DEF PthreadInv, GateNotStranded, At
      <4>3. \A u \in Threads : Handle(u) = g => u # t
        BY <4>1 DEF h
      <4>. QED  BY <2>1, <4>1, <4>2, <4>3 DEF Others
    <3>. QED  BY <1>2, <3>1 DEF GateNotStranded, At
  <2>7. TypeOK' /\ RunOK'
    BY <1>1, <1>6, <2>1, StateFacts DEF PthreadInv, TypeOK, RunOK, Others, At
  <2>. QED  BY <2>3, <2>4, <2>5, <2>6, <2>7 DEF PthreadInv
<1>7. CASE attempt /\ run' = [run EXCEPT ![t].tried = TRUE] /\ UNCHANGED <<owner, gate>>
  <2>0. run[t].pc = "start"
    BY <1>7 DEF At
  <2>1. /\ run' \in [Threads -> RunType] /\ Others(t) /\ run'[t].pc = "start" /\ ~ run'[t].expired
    BY <1>1, <1>7, <2>0, StateFacts DEF RunType, PCs, Others
  <2>2. BitsOK'
    BY <1>1, <1>3, <2>1, StateFacts, BitsFrame DEF HasBit, At
  <2>. HIDE DEF h
  <2>. QED  BY <1>1, <1>7, <2>0, <2>1, <2>2, StateFacts, PlainStep DEF Inside, At
<1>. QED  BY <1>5, <1>6, <1>7 DEF Enter

\* The holder of a gate gets the lease of the mutex object.
LEMMA AcquireLeaseKeeps ==
  ASSUME PthreadInv, NEW t \in Threads, AcquireLease(t)
  PROVE  PthreadInv'
<1>. DEFINE place == IF run[t].again THEN "returning" ELSE "held"
            r == [run[t] EXCEPT !.pc = place, !.attempt = FALSE]
<1>1. /\ run[t].pc = "lease" /\ run[t] \in RunType /\ ~ run[t].expired
      /\ distributed => lease = None
      /\ lease' = IF distributed THEN Handle(t) ELSE None
      /\ UNCHANGED <<distributed, owner, gate, waiting, ready, value, guard, items>>
  BY StateFacts DEF AcquireLease, At, condition
<1>2. run' = [run EXCEPT ![t] = r]
  BY DEF AcquireLease
<1>3. place \in {"returning", "held"}
  OBVIOUS
<1>. HIDE DEF place
<1>4. r \in RunType /\ r.pc = place /\ ~ r.expired
  BY <1>1, <1>3 DEF RunType, PCs
<1>. HIDE DEF r
<1>5. /\ run' \in [Threads -> RunType] /\ Others(t) /\ run'[t].pc = place /\ ~ run'[t].expired
  BY <1>2, <1>4, Moves
<1>6. \A u \in Threads : /\ Handle(u)' = Handle(u) /\ Handle(u) \in Hosts
                         /\ u # t => /\ Inside(u)' <=> Inside(u)
                                     /\ At(u, {"lease"})' <=> At(u, {"lease"})
  BY <1>1, <1>5, HandleType DEF Handle, Inside, At, Others
<1>7. ~ Inside(t) /\ Inside(t)' /\ At(t, {"lease"})
  BY <1>1, <1>3, <1>5 DEF Inside, At
<1>8. owner \in [Hosts -> Threads \cup {None}]
  BY DEF PthreadInv, TypeOK
<1>9. OwnerOK'
  <2>1. \A u \in Threads : Inside(u)' \/ At(u, {"lease"})' => Inside(u) \/ At(u, {"lease"})
    BY <1>6, <1>7
  <2>2. \A u \in Threads : Inside(u) \/ At(u, {"lease"}) => Inside(u)' \/ At(u, {"lease"})'
    BY <1>6, <1>7
  <2>. QED  BY <1>1, <1>6, <1>8, <2>1, <2>2 DEF PthreadInv, OwnerOK
<1>10. LeaseOK'
  <2>1. CASE distributed
    <3>1. \A u \in Threads : ~ Inside(u)
      BY <1>1, <1>6, <2>1, ThreadsAssumption DEF PthreadInv, LeaseOK
    <3>. QED  BY <1>1, <1>6, <1>7, <2>1, <3>1 DEF LeaseOK
  <2>2. CASE ~ distributed
    BY <1>1, <2>2 DEF LeaseOK
  <2>. QED  BY <2>1, <2>2
<1>11. BitsOK'
  BY <1>1, <1>3, <1>5, <1>7, StateFacts, BitsFrame DEF HasBit, At
<1>12. GateOK' /\ GateNotStranded'
  BY <1>1, <1>3, <1>5, GateFrame DEF At
<1>13. TypeOK' /\ RunOK'
  BY <1>1, <1>3, <1>5, <1>6, StateFacts DEF PthreadInv, TypeOK, RunOK, Others, At
<1>. QED  BY <1>9, <1>10, <1>11, <1>12, <1>13 DEF PthreadInv


\* A handle is unlocked and its gate notified.
Opens(t) ==
  /\ owner' = [owner EXCEPT ![Handle(t)] = None]
  /\ gate' = [gate EXCEPT ![Handle(t)] = Notify(@, FALSE)]

\* What opening a gate does to the handles and to their queues.
LEMMA OpensEffect ==
  ASSUME PthreadInv, NEW t \in Threads, Opens(t)
  PROVE  /\ owner' \in [Hosts -> Threads \cup {None}] /\ owner'[Handle(t)] = None
         /\ \A g \in Hosts : g # Handle(t) => owner'[g] = owner[g] /\ gate'[g] = gate[g]
         /\ gate' \in [Hosts -> Seq(WaiterType)]
         /\ \A g \in Hosts : /\ Len(gate'[g]) = Len(gate[g])
                             /\ \A i \in 1 .. Len(gate[g]) : gate'[g][i].who = gate[g][i].who
         /\ gate'[Handle(t)] # << >> =>
              \E i \in DOMAIN gate'[Handle(t)] : gate'[Handle(t)][i].ready
<1>. DEFINE h == Handle(t)
            q == Notify(gate[h], FALSE)
<1>1. h \in Hosts /\ owner \in [Hosts -> Threads \cup {None}] /\ gate \in [Hosts -> Seq(WaiterType)]
  BY HandleType DEF PthreadInv, TypeOK, GateOK
<1>2. gate[h] \in Seq(WaiterType) /\ \A i \in 1 .. Len(gate[h]) : ~ run[gate[h][i].who].expired
  BY <1>1, GateFacts
<1>3. /\ q \in Seq(WaiterType) /\ Len(q) = Len(gate[h])
      /\ \A i \in 1 .. Len(gate[h]) : q[i].who = gate[h][i].who
      /\ gate[h] # << >> => \E i \in 1 .. Len(gate[h]) : q[i].ready
  <2>. HIDE DEF h
  <2>. QED  BY <1>2, NotifyProperties
<1>4. owner' = [owner EXCEPT ![h] = None] /\ gate' = [gate EXCEPT ![h] = q]
  BY DEF Opens
<1>5. q # << >> => \E i \in DOMAIN q : q[i].ready
  <2>. HIDE DEF q, h
  <2>1. DOMAIN q = 1 .. Len(q)
    BY <1>3
  <2>2. q # << >> => gate[h] # << >>
    BY <1>2, <1>3
  <2>. QED  BY <1>3, <2>1, <2>2
<1>. HIDE DEF q, h
<1>6. gate' \in [Hosts -> Seq(WaiterType)] /\ gate'[h] = q /\ \A g \in Hosts : g # h => gate'[g] = gate[g]
  BY <1>1, <1>3, <1>4
<1>7. /\ owner' \in [Hosts -> Threads \cup {None}] /\ owner'[h] = None
      /\ \A g \in Hosts : g # h => owner'[g] = owner[g]
  BY <1>1, <1>4
<1>8. \A g \in Hosts : /\ Len(gate'[g]) = Len(gate[g])
                       /\ \A i \in 1 .. Len(gate[g]) : gate'[g][i].who = gate[g][i].who
  BY <1>3, <1>6
<1>. QED  BY <1>5, <1>6, <1>7, <1>8 DEF h

\* A thread that owns its handle gives it up.
LEMMA OpensKeeps ==
  ASSUME PthreadInv, NEW t \in Threads, Opens(t), run' \in [Threads -> RunType], Others(t),
         UNCHANGED <<distributed, waiting, ready, guard, items>>,
         Inside(t) \/ At(t, {"lease"}),
         (lease' = None /\ Inside(t)) \/ (lease' = lease /\ ~ Inside(t)),
         run'[t].pc \in {"start", "notify", "done", "polling", "unlocked"},
         run'[t].pc = "polling" => distributed, ~ run'[t].expired,
         HasBit(t)' <=> HasBit(t), run'[t].bit = run[t].bit
  PROVE  PthreadInv'
<1>. DEFINE h == Handle(t)
<1>1. /\ h \in Hosts /\ owner[h] = t /\ t # None
      /\ \A u \in Threads : Handle(u)' = Handle(u) /\ Handle(u) \in Hosts
  BY HandleType, ThreadsAssumption DEF Handle, PthreadInv, OwnerOK
<1>2. /\ owner' \in [Hosts -> Threads \cup {None}] /\ owner'[h] = None
      /\ \A g \in Hosts : g # h => owner'[g] = owner[g] /\ gate'[g] = gate[g]
      /\ gate' \in [Hosts -> Seq(WaiterType)]
      /\ \A g \in Hosts : /\ Len(gate'[g]) = Len(gate[g])
                          /\ \A i \in 1 .. Len(gate[g]) : gate'[g][i].who = gate[g][i].who
      /\ gate'[h] # << >> => \E i \in DOMAIN gate'[h] : gate'[h][i].ready
  BY OpensEffect
<1>3. run[t].pc \notin {"gate", "retest"} /\ owner \in [Hosts -> Threads \cup {None}]
  BY DEF Inside, At, PthreadInv, TypeOK
<1>. HIDE DEF h
<1>4. /\ ~ Inside(t)' /\ ~ At(t, {"lease"})'
      /\ \A u \in Threads : u # t => /\ Inside(u)' <=> Inside(u)
                                     /\ At(u, {"lease"})' <=> At(u, {"lease"})
  <2>1. \A u \in Threads : u # t => (owner'[Handle(u)] = u <=> owner[Handle(u)] = u)
    BY <1>1, <1>2, ThreadsAssumption
  <2>. QED  BY <1>1, <2>1 DEF Inside, At, Others
<1>5. OwnerOK'
  <2>1. ASSUME NEW u \in Threads, Inside(u)' \/ At(u, {"lease"})' PROVE owner'[Handle(u)] = u
    <3>1. u # t /\ owner[Handle(u)] = u
      BY <1>4, <2>1 DEF PthreadInv, OwnerOK
    <3>2. Handle(u) # h
      BY <1>1, <3>1
    <3>. QED  BY <1>1, <1>2, <3>1, <3>2
  <2>2. ASSUME NEW g \in Hosts, NEW u, u = owner'[g], u # None
        PROVE  Handle(u)' = g /\ (Inside(u)' \/ At(u, {"lease"})')
    <3>1. g # h /\ u = owner[g] /\ u \in Threads
      BY <1>2, <1>3, <2>2
    <3>2. Handle(u) = g /\ (Inside(u) \/ At(u, {"lease"}))
      BY <2>2, <3>1 DEF PthreadInv, OwnerOK
    <3>3. u # t
      BY <3>1, <3>2 DEF h
    <3>. QED  BY <1>1, <1>4, <3>1, <3>2, <3>3
  <2>. QED  BY <1>1, <2>1, <2>2 DEF OwnerOK
<1>6. LeaseOK'
  <2>1. CASE lease' = None /\ Inside(t)
    <3>1. ASSUME NEW u \in Threads, distributed, Inside(u)' PROVE FALSE
      <4>1. u # t /\ Inside(u)
        BY <1>4, <3>1
      <4>2. owner[Handle(u)] = u /\ lease = Handle(u) /\ Handle(u) \in Hosts
        BY <1>1, <3>1, <4>1 DEF PthreadInv, OwnerOK, LeaseOK
      <4>. QED  BY <1>1, <2>1, <3>1, <4>1, <4>2 DEF PthreadInv, LeaseOK, h
    <3>. QED  BY <2>1, <3>1 DEF LeaseOK
  <2>2. CASE lease' = lease /\ ~ Inside(t)
    BY <1>1, <1>4, <2>2 DEF PthreadInv, LeaseOK
  <2>. QED  BY <2>1, <2>2
<1>7. BitsOK'
  BY StateFacts, BitsFrame
<1>8. GateOK'
  <2>1. ASSUME NEW g \in Hosts, NEW i \in 1 .. Len(gate'[g])
        PROVE  /\ gate'[g][i].who \in Threads
               /\ run'[gate'[g][i].who].pc = "gate" /\ Handle(gate'[g][i].who) = g
    <3>1. i \in 1 .. Len(gate[g]) /\ gate'[g][i].who = gate[g][i].who
      BY <1>2, <2>1
    <3>2. /\ gate[g][i].who \in Threads
          /\ run[gate[g][i].who].pc = "gate" /\ Handle(gate[g][i].who) = g
      BY <3>1, GateFacts
    <3>. QED  BY <1>3, <3>1, <3>2 DEF Others
  <2>2. ASSUME NEW g \in Hosts, NEW i \in 1 .. Len(gate'[g]), NEW j \in 1 .. Len(gate'[g]),
               gate'[g][i].who = gate'[g][j].who
        PROVE  i = j
    BY <1>2, <2>2 DEF PthreadInv, GateOK
  <2>3. ASSUME NEW u \in Threads, run'[u].pc = "gate"
        PROVE  \E i \in 1 .. Len(gate'[Handle(u)]) : gate'[Handle(u)][i].who = u
    <3>1. run[u].pc = "gate" /\ Handle(u) \in Hosts
      BY <1>1, <2>3 DEF Others
    <3>2. PICK i \in 1 .. Len(gate[Handle(u)]) : gate[Handle(u)][i].who = u
      BY <3>1 DEF PthreadInv, GateOK, At
    <3>. QED  BY <1>2, <3>1, <3>2
  <2>. QED  BY <1>2, <2>1, <2>2, <2>3 DEF GateOK, At, Handle
<1>9. GateNotStranded'
  <2>1. ASSUME NEW g \in Hosts, owner'[g] = None, gate'[g] # << >>
        PROVE  \/ \E i \in DOMAIN gate'[g] : gate'[g][i].ready
               \/ \E u \in Threads : run'[u].pc = "retest" /\ Handle(u) = g
    <3>1. CASE g = h
      BY <1>2, <2>1, <3>1
    <3>2. CASE g # h
      <4>1. owner[g] = None /\ gate'[g] = gate[g]
        BY <1>2, <2>1, <3>2
      <4>2. \/ \E i \in DOMAIN gate[g] : gate[g][i].ready
            \/ \E u \in Threads : run[u].pc = "retest" /\ Handle(u) = g
        BY <2>1, <4>1 DEF PthreadInv, GateNotStranded, At
      <4>. QED  BY <1>3, <4>1, <4>2 DEF Others
    <3>. QED  BY <3>1, <3>2
  <2>. QED  BY <1>1, <2>1 DEF GateNotStranded, At
<1>10. TypeOK'
  BY <1>2 DEF PthreadInv, TypeOK
<1>11. RunOK'
  BY StateFacts DEF PthreadInv, RunOK, Others, At
<1>. QED  BY <1>5, <1>6, <1>7, <1>8, <1>9, <1>10, <1>11 DEF PthreadInv

\* The lease of a trylock does not come in time.
LEMMA LeaseTimesOutKeeps ==
  ASSUME PthreadInv, NEW t \in Threads, LeaseTimesOut(t)
  PROVE  PthreadInv'
<1>. DEFINE r == [run[t] EXCEPT !.pc = "start", !.attempt = FALSE]
<1>1. /\ run[t].pc = "lease" /\ run' = [run EXCEPT ![t] = r] /\ Opens(t)
      /\ UNCHANGED <<distributed, lease, waiting, ready, guard, items>>
  BY DEF LeaseTimesOut, Opens, At, condition
<1>2. r \in RunType /\ r.pc = "start" /\ ~ r.expired /\ r.bit = run[t].bit
  BY <1>1, StateFacts DEF RunType, PCs, At
<1>. HIDE DEF r
<1>3. /\ run' \in [Threads -> RunType] /\ Others(t) /\ run'[t].pc = "start" /\ ~ run'[t].expired
      /\ run'[t].bit = run[t].bit
  BY <1>1, <1>2, Moves
<1>. QED  BY <1>1, <1>3, OpensKeeps DEF Inside, At, HasBit

\* The mutex is unlocked.
LEMMA UnlockKeeps ==
  ASSUME PthreadInv, NEW t \in Threads, Unlock(t)
  PROVE  PthreadInv'
<1>. DEFINE place == IF Puts[t] > 0 THEN "notify" ELSE "done"
<1>1. /\ run[t].pc = "leaving" /\ run' = [run EXCEPT ![t].pc = place] /\ Opens(t) /\ lease' = None
      /\ UNCHANGED <<distributed, waiting, ready, guard, items>>
  BY DEF Unlock, Unlocked, Opens, At, condition
<1>2. place \in {"notify", "done"}
  OBVIOUS
<1>. HIDE DEF place
<1>3. /\ run' \in [Threads -> RunType] /\ Others(t) /\ run'[t].pc = place /\ ~ run'[t].expired
      /\ run'[t].bit = run[t].bit
  BY <1>1, <1>2, StateFacts DEF Others, RunType, PCs, At
<1>. QED  BY <1>1, <1>2, <1>3, OpensKeeps DEF Inside, At, HasBit

\* The mutex is unlocked by a wait.
LEMMA WaitUnlockKeeps ==
  ASSUME PthreadInv, NEW t \in Threads, WaitUnlock(t)
  PROVE  PthreadInv'
<1>. DEFINE place == IF distributed THEN "polling" ELSE "unlocked"
<1>1. /\ run[t].pc = "registered" /\ run' = [run EXCEPT ![t].pc = place] /\ Opens(t) /\ lease' = None
      /\ UNCHANGED <<distributed, waiting, ready, guard, items>>
  BY DEF WaitUnlock, Unlocked, Opens, At, condition
<1>2. /\ place \in {"polling", "unlocked"}
      /\ place = "polling" => distributed
      /\ distributed => place = "polling"
  OBVIOUS
<1>. HIDE DEF place
<1>3. /\ run' \in [Threads -> RunType] /\ Others(t) /\ run'[t].pc = place /\ ~ run'[t].expired
      /\ run'[t].bit = run[t].bit
  BY <1>1, <1>2, StateFacts DEF Others, RunType, PCs, At
<1>. QED  BY <1>1, <1>2, <1>3, OpensKeeps DEF Inside, At, HasBit

-----------------------------------------------------------------------------
(* The theorems.                                                           *)

\* Nobody has called anything yet.
LEMMA InitInv == Init => PthreadInv
<1>. SUFFICES ASSUME Init PROVE PthreadInv
  OBVIOUS
<1>1. /\ \A t \in Threads : run[t] = Fresh
      /\ run \in [Threads -> RunType]
  BY BitsAssumption DEF Init, Fresh, RunType, PCs
<1>2. /\ \A t \in Threads : run[t].pc = "start" /\ ~ run[t].expired
      /\ \A t \in Threads : ~ Inside(t) /\ ~ HasBit(t)
  BY <1>1 DEF Fresh, Inside, At, HasBit
<1>3. TypeOK /\ RunOK
  BY <1>1, <1>2 DEF Init, TypeOK, RunOK, At
<1>4. OwnerOK /\ LeaseOK
  BY <1>2 DEF Init, OwnerOK, LeaseOK, At
<1>5. BitsOK
  BY <1>2 DEF Init, BitsOK, BitsExact
<1>6. GateOK /\ GateNotStranded
  BY <1>2 DEF Init, GateOK, GateNotStranded, At
<1>. QED  BY <1>3, <1>4, <1>5, <1>6 DEF PthreadInv

\* Every step preserves the invariant.
LEMMA NextInv == PthreadInv /\ [Next]_vars => PthreadInv'
<1>. SUFFICES ASSUME PthreadInv, [Next]_vars PROVE PthreadInv'
  OBVIOUS
<1>1. ASSUME NEW t \in Threads, Lock(t) \/ TryLock(t) \/ Retest(t) PROVE PthreadInv'
  <2>1. CASE Lock(t)
    BY <2>1, EnterKeeps DEF Lock
  <2>2. CASE TryLock(t)
    BY <2>2, EnterKeeps DEF TryLock
  <2>3. CASE Retest(t)
    BY <2>3, EnterKeeps DEF Retest
  <2>. QED  BY <1>1, <2>1, <2>2, <2>3
<1>2. ASSUME NEW t \in Threads, Step(t) PROVE PthreadInv'
  BY <1>1, <1>2, GateWakeKeeps, AcquireLeaseKeeps, UnlockKeeps, UseKeeps, RegisterKeeps, KeepKeeps,
     WaitUnlockKeeps, ParkKeeps, WakeKeeps, PollKeeps, CleanupKeeps, ReturnKeeps,
     NotifyConditionKeeps DEF Step
<1>3. CASE UNCHANGED vars
  BY <1>3 DEF vars, PthreadInv, TypeOK, RunOK, OwnerOK, LeaseOK, BitsOK, BitsExact, GateOK,
              GateNotStranded, Inside, HasBit, Handle, At
<1>. QED  BY <1>2, <1>3, LeaseTimesOutKeeps, WaitUnlockFailsKeeps, ExpireKeeps DEF Next

\* The invariant implies mutual exclusion: in the local case all threads use one
\* handle, and in the distributed case the lease names the host of the thread
\* inside.
LEMMA InvExcludes == PthreadInv => MutualExclusion
<1>. SUFFICES ASSUME PthreadInv PROVE MutualExclusion
  OBVIOUS
<1>1. ASSUME NEW t \in Threads, NEW u \in Threads, Inside(t), Inside(u) PROVE t = u
  <2>1. Handle(t) = Handle(u)
    BY <1>1 DEF PthreadInv, LeaseOK, Handle
  <2>. QED  BY <1>1, <2>1 DEF PthreadInv, OwnerOK
<1>. QED  BY <1>1 DEF MutualExclusion, PthreadInv, OwnerOK, LeaseOK

\* The invariant holds in every reachable state.
LEMMA PthreadInvHolds == Spec => []PthreadInv
BY InitInv, NextInv, PTL DEF Spec

\* cl_pthread_mutex_lock excludes, on one host and on several: at most one
\* thread is between lock and unlock, whichever waits, trylocks that time out
\* and failed unlocks come in between, and the handles and the lease of the
\* mutex object agree on who it is.
THEOREM MutexExcludes == Spec => []MutualExclusion
BY PthreadInvHolds, InvExcludes, PTL

\* No notification of a gate is lost: while a gate is open and somebody waits
\* for it, somebody is on the way through it.
THEOREM GateStrandsNobody == Spec => []GateNotStranded
BY PthreadInvHolds, PTL DEF PthreadInv

\* Each bit of the shared condition object belongs to one waiter from its
\* registration to its cleanup.
THEOREM BitsAreExact == Spec => []BitsExact
<1>1. PthreadInv => BitsExact
  BY DEF PthreadInv, BitsOK
<1>. QED  BY PthreadInvHolds, <1>1, PTL


=============================================================================
