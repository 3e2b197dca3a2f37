---------------------------- MODULE TokenProofs ----------------------------
(***************************************************************************)
(* Proofs about Token, and about Retirement, which runs the same protocol  *)
(* while its object is retired, for every set of hosts and requests and    *)
(* every ring capacity.                                                    *)
(***************************************************************************)
EXTENDS Retirement, SequenceTheorems, FiniteSetTheorems, TLAPS

Wires == [Hosts -> [Hosts -> Seq(Msg)]]
Rings == [Hosts -> [Hosts -> Nat]]
Waiters == [Requests -> WaiterStates]

\* No ring counts more messages than its wire has.
RingsFilled(p, w) == \A s, d \in Hosts : p[s][d] <= Len(w[s][d])

\* What typing needs: a message can be popped only where there is one.
TypeInv == TypeOK /\ RingsFilled(pub, wire)

-----------------------------------------------------------------------------
(* The transport operators.                                                *)

\* What Min, defined by a choice, is of two naturals.
LEMMA MinOfTwo ==
  ASSUME NEW a \in Nat, NEW b \in Nat
  PROVE  Min({a, b}) \in Nat /\ Min({a, b}) <= a
<1>1. \E x \in {a, b} : \A y \in {a, b} : x <= y
  <2>1. CASE a <= b
    BY <2>1
  <2>2. CASE b <= a
    BY <2>2
  <2>. QED  BY <2>1, <2>2
<1>. QED  BY <1>1 DEF Min

\* Posting keeps the wires well typed and shortens none of them.
LEMMA PostType ==
  ASSUME NEW w \in Wires, NEW h \in Hosts, NEW d \in Hosts, NEW ms \in Seq(Msg)
  PROVE  /\ Post(w, h, d, ms) \in Wires
         /\ \A s, x \in Hosts : Len(w[s][x]) <= Len(Post(w, h, d, ms)[s][x])
<1>1. w[h][d] \in Seq(Msg)
  BY DEF Wires
<1>2. /\ w[h][d] \o ms \in Seq(Msg)
      /\ Len(w[h][d] \o ms) = Len(w[h][d]) + Len(ms)
      /\ Len(w[h][d]) \in Nat /\ Len(ms) \in Nat
  BY <1>1, ConcatProperties, LenProperties
<1>3. Post(w, h, d, ms) \in Wires
  BY <1>2 DEF Post, Wires
<1>4. ASSUME NEW s \in Hosts, NEW x \in Hosts
      PROVE  Len(w[s][x]) <= Len(Post(w, h, d, ms)[s][x])
  <2>1. CASE s = h /\ x = d
    BY <2>1, <1>2 DEF Post, Wires
  <2>2. CASE ~(s = h /\ x = d)
    <3>1. Post(w, h, d, ms)[s][x] = w[s][x] /\ w[s][x] \in Seq(Msg)
      BY <2>2 DEF Post, Wires
    <3>. QED  BY <3>1, LenProperties
  <2>. QED  BY <2>1, <2>2
<1>. QED  BY <1>3, <1>4

\* Flushing after a post leaves no ring with more than its wire.
LEMMA FlushType ==
  ASSUME NEW w \in Wires, NEW p \in Rings, NEW v \in Wires, NEW h \in Hosts,
         RingsFilled(p, w),
         \A s, d \in Hosts : Len(w[s][d]) <= Len(v[s][d])
  PROVE  Flush(p, v, h) \in Rings /\ RingsFilled(Flush(p, v, h), v)
<1>1. \A s, d \in Hosts : Len(v[s][d]) \in Nat /\ Len(w[s][d]) \in Nat
  BY LenProperties DEF Wires
<1>2. \A d \in Hosts : /\ Min({Len(v[h][d]), Capacity}) \in Nat
                       /\ Min({Len(v[h][d]), Capacity}) <= Len(v[h][d])
  BY <1>1, MinOfTwo, CapacityAssumption
<1>3. Flush(p, v, h) \in Rings
  BY <1>2 DEF Flush, Rings
<1>4. ASSUME NEW s \in Hosts, NEW d \in Hosts
      PROVE  Flush(p, v, h)[s][d] <= Len(v[s][d])
  <2>1. CASE s = h
    BY <2>1, <1>2 DEF Flush, Rings
  <2>2. CASE s # h
    <3>1. Flush(p, v, h)[s][d] = p[s][d] /\ p[s][d] \in Nat
      BY <2>2 DEF Flush, Rings
    <3>. QED  BY SMTT(60), <3>1, <1>1 DEF RingsFilled
  <2>. QED  BY <2>1, <2>2
<1>. QED  BY <1>3, <1>4 DEF RingsFilled

\* A message that can be popped exists, and popping it keeps the types.
LEMMA PopType ==
  ASSUME TypeInv, NEW h \in Hosts, NEW s \in Hosts, Inbound(h, s)
  PROVE  /\ wire[s][h] \in Seq(Msg) /\ wire[s][h] # <<>>
         /\ Head(wire[s][h]) \in Msg
         /\ Popped(h, s) \in Wires
         /\ Room(h, s) \in Rings
         /\ RingsFilled(Room(h, s), Popped(h, s))
<1>1. /\ wire \in Wires /\ pub \in Rings
      /\ wire[s][h] \in Seq(Msg) /\ pub[s][h] \in Nat
  BY DEF TypeInv, TypeOK, Wires, Rings
<1>2. Len(wire[s][h]) \in Nat /\ pub[s][h] <= Len(wire[s][h]) /\ pub[s][h] > 0
  BY <1>1, LenProperties DEF Inbound, TypeInv, RingsFilled
<1>3. wire[s][h] # <<>>
  BY <1>1, <1>2, EmptySeq
<1>4. /\ Head(wire[s][h]) \in Msg
      /\ Tail(wire[s][h]) \in Seq(Msg)
      /\ Len(Tail(wire[s][h])) = Len(wire[s][h]) - 1
  BY <1>1, <1>3, HeadTailProperties
<1>5. Popped(h, s) \in Wires
  BY <1>1, <1>4 DEF Popped, Wires
<1>6. Room(h, s) \in Rings
  BY <1>1, <1>2 DEF Room, Rings
<1>7. ASSUME NEW x \in Hosts, NEW d \in Hosts
      PROVE  Room(h, s)[x][d] <= Len(Popped(h, s)[x][d])
  <2>1. CASE x = s /\ d = h
    BY <2>1, <1>1, <1>2, <1>4 DEF Popped, Room, Wires, Rings
  <2>2. CASE ~(x = s /\ d = h)
    <3>1. Room(h, s)[x][d] = pub[x][d] /\ Popped(h, s)[x][d] = wire[x][d]
      BY <2>2, <1>1 DEF Popped, Room, Wires, Rings
    <3>. QED  BY <3>1 DEF TypeInv, RingsFilled
  <2>. QED  BY <2>1, <2>2
<1>. QED  BY <1>1, <1>3, <1>4, <1>5, <1>6, <1>7 DEF RingsFilled

\* EnqueueOutbound keeps wires and rings typed.
LEMMA SendType ==
  ASSUME NEW w \in Wires, NEW p \in Rings, RingsFilled(p, w),
         NEW h \in Hosts, NEW d \in Hosts, NEW m \in Msg, Send(w, p, h, d, m)
  PROVE  wire' \in Wires /\ pub' \in Rings /\ RingsFilled(pub', wire')
<1>1. <<m>> \in Seq(Msg)
  OBVIOUS
<1>. QED  BY <1>1, PostType, FlushType DEF Send

\* The part of a queue behind its n-th entry.
LEMMA RestType ==
  ASSUME NEW q \in Seq(Msg), NEW n \in Nat
  PROVE  /\ SubSeq(q, n + 1, Len(q)) \in Seq(Msg)
         /\ \A i \in 1 .. Len(SubSeq(q, n + 1, Len(q))) :
              n + i \in 1 .. Len(q) /\ SubSeq(q, n + 1, Len(q))[i] = q[n + i]
<1>1. Len(q) \in Nat /\ \A i \in 1 .. Len(q) : q[i] \in Msg
  BY LenProperties, ElementOfSeq
<1>2. \A i \in n + 1 .. Len(q) : q[i] \in Msg
  BY <1>1
<1>3. /\ SubSeq(q, n + 1, Len(q)) \in Seq(Msg)
      /\ Len(SubSeq(q, n + 1, Len(q))) = IF n + 1 <= Len(q) THEN Len(q) - (n + 1) + 1 ELSE 0
      /\ \A i \in 1 .. Len(q) - (n + 1) + 1 : SubSeq(q, n + 1, Len(q))[i] = q[n + 1 + i - 1]
  BY <1>1, <1>2, SubSeqProperties
<1>. QED  BY <1>1, <1>3

\* Dropping one entry of a pending queue leaves a queue of messages.
LEMMA RemoveAtType ==
  ASSUME NEW q \in Seq(Msg), NEW i \in DOMAIN q
  PROVE  /\ RemoveAt(q, i) \in Seq(Msg)
         /\ \A j \in 1 .. Len(RemoveAt(q, i)) :
              \E k \in 1 .. Len(q) : RemoveAt(q, i)[j] = q[k]
<1>. DEFINE front == SubSeq(q, 1, i - 1)
            rest == SubSeq(q, i + 1, Len(q))
<1>1. Len(q) \in Nat /\ i \in 1 .. Len(q) /\ \A k \in 1 .. Len(q) : q[k] \in Msg
  BY LenProperties, ElementOfSeq
<1>2. /\ front \in Seq(Msg) /\ Len(front) = i - 1
      /\ \A k \in 1 .. i - 1 : front[k] = q[k]
  <2>1. \A k \in 1 .. i - 1 : q[k] \in Msg
    BY <1>1
  <2>2. /\ SubSeq(q, 1, i - 1) \in Seq(Msg)
        /\ Len(SubSeq(q, 1, i - 1)) = IF 1 <= i - 1 THEN i - 1 - 1 + 1 ELSE 0
        /\ \A k \in 1 .. i - 1 - 1 + 1 : SubSeq(q, 1, i - 1)[k] = q[1 + k - 1]
    BY <1>1, <2>1, SubSeqProperties
  <2>. QED  BY <1>1, <2>2
<1>3. /\ rest \in Seq(Msg)
      /\ \A k \in 1 .. Len(rest) : i + k \in 1 .. Len(q) /\ rest[k] = q[i + k]
  <2>1. i \in Nat
    BY <1>1
  <2>. QED  BY <2>1, RestType
<1>. HIDE DEF front, rest
<1>4. /\ front \o rest \in Seq(Msg)
      /\ Len(front \o rest) = Len(front) + Len(rest)
      /\ \A j \in 1 .. Len(front) + Len(rest) :
           (front \o rest)[j] = IF j <= Len(front) THEN front[j] ELSE rest[j - Len(front)]
  BY <1>2, <1>3, ConcatProperties
<1>5. Len(front) \in Nat /\ Len(rest) \in Nat
  BY <1>2, <1>3, LenProperties
<1>6. ASSUME NEW j \in 1 .. Len(front \o rest)
      PROVE  \E k \in 1 .. Len(q) : (front \o rest)[j] = q[k]
  <2>1. CASE j <= Len(front)
    <3>1. j \in 1 .. i - 1 /\ j \in 1 .. Len(q) /\ (front \o rest)[j] = q[j]
      BY <1>1, <1>2, <1>4, <1>5, <2>1
    <3>. QED  BY <3>1
  <2>2. CASE ~(j <= Len(front))
    <3>1. j - Len(front) \in 1 .. Len(rest)
      BY <1>4, <1>5, <2>2
    <3>2. (front \o rest)[j] = rest[j - Len(front)]
      BY <1>4, <1>5, <2>2
    <3>. QED  BY <1>3, <3>1, <3>2
  <2>. QED  BY <2>1, <2>2
<1>7. RemoveAt(q, i) = front \o rest
  BY DEF RemoveAt, front, rest
<1>. QED  BY <1>4, <1>6, <1>7

-----------------------------------------------------------------------------
(* Type correctness.                                                       *)

\* What a step must establish about everything a hand-off may change.
ServiceType ==
  /\ owner \in Hosts /\ epoch \in Nat /\ odd \in BOOLEAN
  /\ available \in [Hosts -> BOOLEAN]
  /\ held \in [Hosts -> BOOLEAN]
  /\ pending \in [Hosts -> Seq(Msg)]
  /\ waiter \in Waiters
  /\ lease \in [Requests -> Nat]
  /\ wire \in Wires
  /\ pub \in Rings
  /\ RingsFilled(pub, wire)

\* The fields of a message have their types.
LEMMA MsgFields ==
  ASSUME NEW m \in Msg
  PROVE  /\ m.req \in Requests /\ Requester[m.req] \in Hosts
         /\ m.epoch \in Nat /\ m.version \in Nat /\ m.kind \in Kinds
BY RequestsAssumption DEF Msg

\* The n-th entry of a queue and the host that issued it.
LEMMA EntryType ==
  ASSUME NEW q \in Seq(Msg), NEW n \in 1 .. Len(q)
  PROVE  q[n] \in Msg /\ q[n].req \in Requests /\ Requester[q[n].req] \in Hosts
<1>1. q[n] \in Msg
  BY ElementOfSeq
<1>. QED  BY <1>1, MsgFields

\* Passing over abandoned requests keeps the waiters typed.
LEMMA SkippedType ==
  ASSUME NEW W \in Waiters, NEW q, NEW n
  PROVE  Skipped(W, q, n) \in Waiters
BY DEF Skipped, Completed, Waiters, WaiterStates

\* What becomes of the token after Release, interrupted by the retirement or
\* not: nobody gets it and some of the queue may stay, or a local or a remote
\* request gets it.
Settles(h, W, L, w, p, q) ==
  \/ \E n, k \in 0 .. Len(q) :
       /\ alloc = "allocated" => n = Len(q) /\ k = Len(q)
       /\ PutBack(h, W, L, w, p, q, n, SubSeq(q, k + 1, Len(q)))
  \/ \E n \in 1 .. Len(q) : FindsAllocated(h) /\ GrantLocal(h, W, L, w, p, q, n)
  \/ \E n \in 1 .. Len(q) : FindsAllocated(h) /\ GrantRemote(h, W, L, w, p, q, n)

\* Nothing is behind the last entry of a queue.
LEMMA NothingBehind ==
  ASSUME NEW q \in Seq(Msg)
  PROVE  SubSeq(q, Len(q) + 1, Len(q)) = <<>> /\ Len(q) \in 0 .. Len(q) /\ Len(q) \in Nat
<1>1. Len(q) \in Nat
  BY LenProperties
<1>2. /\ SubSeq(q, Len(q) + 1, Len(q)) \in Seq(Msg)
      /\ Len(SubSeq(q, Len(q) + 1, Len(q))) =
           IF Len(q) + 1 <= Len(q) THEN Len(q) - (Len(q) + 1) + 1 ELSE 0
  <2>1. \A i \in Len(q) + 1 .. Len(q) : q[i] \in Msg
    BY <1>1
  <2>. QED  BY <1>1, <2>1, SubSeqProperties
<1>3. Len(SubSeq(q, Len(q) + 1, Len(q))) = 0
  BY <1>1, <1>2
<1>. QED  BY <1>1, <1>2, <1>3, EmptySeq

\* A hand-off that no retirement interrupts settles the token.
LEMMA HandOffSettles ==
  ASSUME NEW h, NEW W, NEW L, NEW w, NEW p, NEW q \in Seq(Msg),
         FindsAllocated(h), HandOff(h, W, L, w, p, q)
  PROVE  Settles(h, W, L, w, p, q)
<1>1. CASE PutBack(h, W, L, w, p, q, Len(q), <<>>)
  BY <1>1, NothingBehind DEF Settles
<1>. QED  BY <1>1 DEF HandOff, Settles

\* While the object is allocated nothing else happens.
LEMMA SettlesAllocated ==
  ASSUME NEW h, NEW W, NEW L, NEW w, NEW p, NEW q \in Seq(Msg), alloc = "allocated",
         Settles(h, W, L, w, p, q)
  PROVE  HandOff(h, W, L, w, p, q)
<1>1. ASSUME NEW n, NEW k, n = Len(q) /\ k = Len(q),
             PutBack(h, W, L, w, p, q, n, SubSeq(q, k + 1, Len(q)))
      PROVE  HandOff(h, W, L, w, p, q)
  BY <1>1, NothingBehind DEF HandOff
<1>. QED  BY <1>1 DEF HandOff, Settles

\* So does one that the beginning of the retirement interrupts.
LEMMA InterruptedSettles ==
  ASSUME NEW h, NEW W, NEW L, NEW w, NEW p, NEW q \in Seq(Msg), NEW tests \in {0, 1},
         Interrupted(h, W, L, w, p, q, tests)
  PROVE  Settles(h, W, L, w, p, q)
<1>0. Len(q) \in Nat /\ alloc # "allocated"
  BY NothingBehind DEF Interrupted
<1>1. CASE \E n \in tests .. Len(q) : PutBack(h, W, L, w, p, q, n, <<>>)
  <2>1. PICK n \in tests .. Len(q) : PutBack(h, W, L, w, p, q, n, <<>>)
    BY <1>1
  <2>2. n \in 0 .. Len(q)
    BY <1>0
  <2>. QED  BY <1>0, <2>1, <2>2, NothingBehind DEF Settles
<1>2. CASE \E n \in 1 .. Len(q) : PutBack(h, W, L, w, p, q, n - 1, SubSeq(q, n + 1, Len(q)))
  <2>1. PICK n \in 1 .. Len(q) : PutBack(h, W, L, w, p, q, n - 1, SubSeq(q, n + 1, Len(q)))
    BY <1>2
  <2>2. n \in 0 .. Len(q) /\ n - 1 \in 0 .. Len(q)
    BY <1>0
  <2>. QED  BY <1>0, <2>1, <2>2 DEF Settles
<1>. QED  BY <1>1, <1>2 DEF Interrupted

\* What stays of a queue that settles.
LEMMA SettledRest ==
  ASSUME NEW q \in Seq(Msg), NEW k \in 0 .. Len(q)
  PROVE  /\ SubSeq(q, k + 1, Len(q)) \in Seq(Msg)
         /\ \A i \in DOMAIN SubSeq(q, k + 1, Len(q)) :
              k + i \in 1 .. Len(q) /\ SubSeq(q, k + 1, Len(q))[i] = q[k + i]
<1>1. k \in Nat
  BY NothingBehind
<1>2. /\ SubSeq(q, k + 1, Len(q)) \in Seq(Msg)
      /\ \A i \in 1 .. Len(SubSeq(q, k + 1, Len(q))) :
           k + i \in 1 .. Len(q) /\ SubSeq(q, k + 1, Len(q))[i] = q[k + i]
  BY <1>1, RestType
<1>. QED  BY <1>2, LenProperties

\* A client's Release settles the token.
LEMMA ReleaseSettles ==
  ASSUME TypeInv, NEW r \in Requests, NEW W, ReleaseLease(r, W)
  PROVE  /\ LeaseValid(r) /\ UNCHANGED <<alloc, running>>
         /\ Settles(Requester[r], W, [lease EXCEPT ![r] = 0], wire, pub, pending[Requester[r]])
<1>. DEFINE h == Requester[r]
            L == [lease EXCEPT ![r] = 0]
<1>1. pending[h] \in Seq(Msg)
  BY RequestsAssumption DEF TypeInv, TypeOK
<1>2. /\ LeaseValid(r) /\ UNCHANGED <<alloc, running>>
      /\ \/ FindsAllocated(h) /\ HandOff(h, W, L, wire, pub, pending[h])
         \/ Interrupted(h, W, L, wire, pub, pending[h], 0)
  BY DEF ReleaseLease
<1>. HIDE DEF h, L
<1>3. Settles(h, W, L, wire, pub, pending[h])
  BY <1>1, <1>2, HandOffSettles, InterruptedSettles
<1>. QED  BY <1>2, <1>3 DEF h, L

\* So does HandleRequest when it finds the token free.
LEMMA GrantSettles ==
  ASSUME TypeInv, NEW h \in Hosts, NEW s \in Hosts, GrantRequest(h, s)
  PROVE  /\ UNCHANGED <<version, alloc, pc>> /\ owner = h /\ available[h] /\ ~held[h]
         /\ running' \in [Hosts -> BOOLEAN]
         /\ <<Head(wire[s][h])>> \o pending[h] \in Seq(Msg)
         /\ Settles(h, waiter, lease, Popped(h, s), Room(h, s),
                    <<Head(wire[s][h])>> \o pending[h])
<1>. DEFINE q == <<Head(wire[s][h])>> \o pending[h]
<1>1. q \in Seq(Msg)
  <2>1. Inbound(h, s)
    BY DEF GrantRequest, Handling
  <2>2. Head(wire[s][h]) \in Msg
    BY <2>1, PopType DEF TypeInv, TypeOK, Wires, Rings
  <2>3. <<Head(wire[s][h])>> \in Seq(Msg) /\ pending[h] \in Seq(Msg)
    BY <2>2 DEF TypeInv, TypeOK
  <2>. QED  BY <2>3, ConcatProperties
<1>2. /\ UNCHANGED <<version, alloc, pc>> /\ owner = h /\ available[h] /\ ~held[h]
      /\ \/ /\ HandOff(h, waiter, lease, Popped(h, s), Room(h, s), q)
            /\ running' = [running EXCEPT ![h] = ~HandOffFails(h, waiter, q)]
         \/ /\ Interrupted(h, waiter, lease, Popped(h, s), Room(h, s), q, 1)
            /\ running' = running
  BY DEF GrantRequest
<1>. HIDE DEF q
<1>3. running' \in [Hosts -> BOOLEAN]
  BY <1>2 DEF TypeInv, TypeOK
<1>4. FindsAllocated(h)
  BY DEF GrantRequest, Handling
<1>5. Settles(h, waiter, lease, Popped(h, s), Room(h, s), q)
  BY <1>1, <1>2, <1>4, HandOffSettles, InterruptedSettles
<1>. QED  BY <1>1, <1>2, <1>3, <1>5 DEF q

\* And HandleGrant when the grant came too late.
LEMMA LateGrantSettles ==
  ASSUME TypeInv, NEW h \in Hosts, NEW s \in Hosts, ReleaseLateGrant(h, s), NEW r,
         r = Head(wire[s][h]).req
  PROVE  /\ UNCHANGED <<version, alloc, pc>>
         /\ running' \in [Hosts -> BOOLEAN]
         /\ Settles(h, [waiter EXCEPT ![r] = Completed(r)], lease, Popped(h, s), Room(h, s),
                    pending[h])
<1>. DEFINE W == [waiter EXCEPT ![r] = Completed(r)]
<1>1. pending[h] \in Seq(Msg)
  BY DEF TypeInv, TypeOK
<1>2. /\ UNCHANGED <<version, alloc, pc>>
      /\ \/ /\ HandOff(h, W, lease, Popped(h, s), Room(h, s), pending[h])
            /\ running' = [running EXCEPT ![h] = ~HandOffFails(h, W, pending[h])]
         \/ /\ Interrupted(h, W, lease, Popped(h, s), Room(h, s), pending[h], 0)
            /\ running' = running
  BY DEF ReleaseLateGrant
<1>. HIDE DEF W
<1>3. running' \in [Hosts -> BOOLEAN]
  BY <1>2 DEF TypeInv, TypeOK
<1>4. FindsAllocated(h)
  BY DEF ReleaseLateGrant, Handling
<1>5. Settles(h, W, lease, Popped(h, s), Room(h, s), pending[h])
  BY <1>1, <1>2, <1>4, HandOffSettles, InterruptedSettles
<1>. QED  BY <1>2, <1>3, <1>5 DEF W

\* Handing the token on keeps the types, whichever way it goes.
LEMMA SettlesType ==
  ASSUME TypeInv, version' \in Nat, NEW h \in Hosts, NEW W \in Waiters,
         NEW L \in [Requests -> Nat], NEW w \in Wires, NEW p \in Rings,
         RingsFilled(p, w), NEW q \in Seq(Msg),
         Settles(h, W, L, w, p, q)
  PROVE  ServiceType'
<1>0. /\ owner \in Hosts /\ epoch \in Nat
      /\ available \in [Hosts -> BOOLEAN]
      /\ held \in [Hosts -> BOOLEAN]
      /\ pending \in [Hosts -> Seq(Msg)]
  BY DEF TypeInv, TypeOK
<1>1. ASSUME NEW n \in 0 .. Len(q), NEW k \in 0 .. Len(q),
             PutBack(h, W, L, w, p, q, n, SubSeq(q, k + 1, Len(q)))
      PROVE  ServiceType'
  <2>1. waiter' \in Waiters
    BY <1>1, SkippedType DEF PutBack
  <2>2. pending' \in [Hosts -> Seq(Msg)]
    BY <1>0, <1>1, SettledRest DEF PutBack
  <2>. QED  BY <1>0, <1>1, <2>1, <2>2 DEF PutBack, ServiceType
<1>2. ASSUME NEW n \in 1 .. Len(q), GrantLocal(h, W, L, w, p, q, n)
      PROVE  ServiceType'
  <2>1. q[n] \in Msg /\ q[n].req \in Requests
    BY EntryType
  <2>2. waiter' \in Waiters
    <3>1. \A k : Skipped(W, q, k) \in Waiters
      BY SkippedType
    <3>2. CASE W[q[n].req] = "none"
      BY <1>2, <3>1, <3>2 DEF GrantLocal
    <3>3. CASE W[q[n].req] # "none"
      <4>1. waiter' = [Skipped(W, q, n - 1) EXCEPT ![q[n].req] = "granted"]
        BY <1>2, <3>3 DEF GrantLocal
      <4>. QED  BY <3>1, <4>1 DEF Waiters, WaiterStates
    <3>. QED  BY <3>2, <3>3
  <2>3. pending' \in [Hosts -> Seq(Msg)]
    BY <1>0, <1>2, RestType DEF GrantLocal
  <2>4. lease' \in [Requests -> Nat]
    <3>1. lease' = L \/ lease' = [L EXCEPT ![q[n].req] = epoch]
      BY <1>2 DEF GrantLocal
    <3>. QED  BY <1>0, <2>1, <3>1
  <2>5. odd' \in BOOLEAN
    <3>1. CASE W[q[n].req] = "none"
      BY <1>2, <3>1 DEF GrantLocal
    <3>2. CASE W[q[n].req] # "none"
      <4>1. odd' = (q[n].req \in Raw)
        BY <1>2, <3>2 DEF GrantLocal
      <4>. QED  BY <4>1
    <3>. QED  BY <3>1, <3>2
  <2>. QED  BY <1>0, <1>2, <2>2, <2>3, <2>4, <2>5 DEF GrantLocal, ServiceType
<1>3. ASSUME NEW n \in 1 .. Len(q), GrantRemote(h, W, L, w, p, q, n)
      PROVE  ServiceType'
  <2>. DEFINE r == q[n].req
              d == Requester[r]
              grant == [kind |-> "grant", req |-> r, epoch |-> epoch + 1,
                        version |-> version']
              rest == SubSeq(q, n + 1, Len(q))
  <2>1. r \in Requests /\ d \in Hosts
    BY EntryType
  <2>2. <<grant>> \o rest \in Seq(Msg)
    <3>1. grant \in Msg
      BY <1>0, <2>1 DEF Msg, Kinds
    <3>2. <<grant>> \in Seq(Msg) /\ rest \in Seq(Msg)
      BY <3>1, RestType
    <3>. QED  BY <3>2, ConcatProperties
  <2>3. wire' = Post(w, h, d, <<grant>> \o rest) /\ pub' = Flush(p, wire', h)
    BY <1>3 DEF GrantRemote
  <2>4. wire' \in Wires /\ pub' \in Rings /\ RingsFilled(pub', wire')
    <3>. HIDE DEF grant, rest, d
    <3>. QED  BY <2>1, <2>2, <2>3, PostType, FlushType
  <2>5. waiter' \in Waiters
    BY <1>3, SkippedType DEF GrantRemote
  <2>6. pending' \in [Hosts -> Seq(Msg)]
    BY <1>0, <1>3, EmptySeq DEF GrantRemote
  <2>7. /\ owner' \in Hosts /\ epoch' \in Nat /\ odd' \in BOOLEAN
        /\ available' \in [Hosts -> BOOLEAN] /\ held' \in [Hosts -> BOOLEAN]
        /\ lease' \in [Requests -> Nat]
    <3>1. owner' \in Hosts
      BY <1>3, <2>1 DEF GrantRemote
    <3>2. epoch' \in Nat
      BY <1>0, <1>3 DEF GrantRemote
    <3>3. odd' \in BOOLEAN /\ lease' \in [Requests -> Nat]
      BY <1>3 DEF GrantRemote
    <3>4. available' \in [Hosts -> BOOLEAN] /\ held' \in [Hosts -> BOOLEAN]
      BY <1>0, <1>3 DEF GrantRemote
    <3>. QED  BY <3>1, <3>2, <3>3, <3>4
  <2>. QED  BY <2>4, <2>5, <2>6, <2>7 DEF ServiceType
<1>. QED  BY <1>1, <1>2, <1>3 DEF Settles

\* Release keeps the types, of a live and of a retiring object.
LEMMA ReleaseLeaseType ==
  ASSUME TypeInv, version' \in Nat, NEW r \in Requests, NEW W \in Waiters,
         ReleaseLease(r, W)
  PROVE  ServiceType'
<1>. DEFINE h == Requester[r]
            L == [lease EXCEPT ![r] = 0]
<1>1. h \in Hosts /\ L \in [Requests -> Nat]
  BY RequestsAssumption DEF TypeInv, TypeOK
<1>2. /\ wire \in Wires /\ pub \in Rings /\ RingsFilled(pub, wire)
      /\ pending[h] \in Seq(Msg)
  BY <1>1 DEF TypeInv, TypeOK, Wires, Rings
<1>3. Settles(h, W, L, wire, pub, pending[h])
  BY ReleaseSettles
<1>. HIDE DEF h, L
<1>. QED  BY <1>1, <1>2, <1>3, SettlesType

\* Taking an entry out of a queue.
LEMMA UnqueueType ==
  ASSUME pending \in [Hosts -> Seq(Msg)], NEW h \in Hosts, NEW r, Unqueue(h, r)
  PROVE  pending' \in [Hosts -> Seq(Msg)]
<1>1. CASE PendingAt(h, r) = {}
  BY <1>1 DEF Unqueue
<1>2. CASE PendingAt(h, r) # {}
  <2>1. PICK i \in PendingAt(h, r) : pending' = [pending EXCEPT ![h] = RemoveAt(@, i)]
    BY <1>2 DEF Unqueue
  <2>. QED  BY <2>1, RemoveAtType DEF PendingAt
<1>. QED  BY <1>1, <1>2

\* Every client operation keeps the type invariant.
LEMMA ClientType ==
  ASSUME TypeInv, NEW r \in Requests, Client(r)
  PROVE  TypeInv'
<1>. USE DEF TypeInv, TypeOK, Wires, Rings, Waiters, WaiterStates, Places, Locked
<1>. DEFINE h == Requester[r]
<1>0. /\ h \in Hosts /\ owner \in Hosts
      /\ Note("req", r) \in Msg /\ Note("cancel", r) \in Msg
      /\ [Note("req", r) EXCEPT !.version = version] \in Msg
  BY RequestsAssumption DEF Note, Msg, Kinds
<1>. HIDE DEF h
<1>1. CASE Request(r)
  <2>1. pc' \in [Requests -> Places]
    BY <1>1 DEF Request
  <2>2. CASE RequestLocal(r)
    <3>1. CASE available[h] /\ ~held[h]
      <4>1. /\ held' = [held EXCEPT ![h] = TRUE] /\ odd' = (r \in Raw)
            /\ waiter' = [waiter EXCEPT ![r] = "granted"]
            /\ lease' = [lease EXCEPT ![r] = epoch]
            /\ UNCHANGED <<pending, wire, pub>>
        BY <2>2, <3>1 DEF RequestLocal, h, transport
      <4>2. odd' \in BOOLEAN
        BY <4>1
      <4>3. held' \in [Hosts -> BOOLEAN]
        BY <4>1
      <4>4. lease' \in [Requests -> Nat] /\ waiter' \in Waiters
        BY <4>1
      <4>. QED  BY <1>1, <2>1, <4>1, <4>2, <4>3, <4>4 DEF Request, RingsFilled
    <3>2. CASE ~(available[h] /\ ~held[h])
      <4>1. /\ waiter' = [waiter EXCEPT ![r] = "active"]
            /\ pending' = [pending EXCEPT ![h] =
                             Append(@, [Note("req", r) EXCEPT !.version = version])]
            /\ UNCHANGED <<held, odd, lease, wire, pub>>
        BY <2>2, <3>2 DEF RequestLocal, h, transport
      <4>2. pending' \in [Hosts -> Seq(Msg)]
        BY <1>0, <4>1, AppendProperties
      <4>3. waiter' \in Waiters
        BY <4>1
      <4>. QED  BY <1>1, <2>1, <4>1, <4>2, <4>3 DEF Request, RingsFilled
    <3>. QED  BY <3>1, <3>2
  <2>3. CASE RequestRemote(r)
    <3>1. /\ Send(wire, pub, h, owner, [Note("req", r) EXCEPT !.version = version])
          /\ waiter' = [waiter EXCEPT ![r] = "active"]
          /\ UNCHANGED <<odd, held, pending, lease>>
      BY <2>3 DEF RequestRemote, h
    <3>2. wire' \in Wires /\ pub' \in Rings /\ RingsFilled(pub', wire')
      BY <1>0, <3>1, SendType
    <3>3. waiter' \in Waiters
      BY <3>1
    <3>. QED  BY <1>1, <2>1, <3>1, <3>2, <3>3 DEF Request
  <2>. QED  BY <1>1, <2>2, <2>3 DEF Request
<1>2. CASE WaitGranted(r)
  BY <1>2 DEF WaitGranted, shared, transport, RingsFilled
<1>3. CASE Cancel(r)
  <2>1. CASE CancelGranted(r)
    <3>1. [waiter EXCEPT ![r] = "none"] \in Waiters
      OBVIOUS
    <3>2. ServiceType'
      BY <2>1, <3>1, ReleaseLeaseType DEF CancelGranted
    <3>3. pc' \in [Requests -> Places]
      BY <2>1 DEF CancelGranted
    <3>. QED  BY <2>1, <3>2, <3>3 DEF CancelGranted, ReleaseLease, ServiceType
  <2>2. CASE CancelCompleted(r)
    BY <2>2 DEF CancelCompleted, shared, transport, RingsFilled
  <2>3. CASE CancelLocal(r)
    <3>1. pending' \in [Hosts -> Seq(Msg)]
      BY <1>0, <2>3, UnqueueType DEF CancelLocal, h
    <3>2. waiter' \in Waiters
      BY <2>3 DEF CancelLocal, Completed
    <3>3. pc' \in [Requests -> Places]
      BY <2>3 DEF CancelLocal
    <3>. QED  BY <2>3, <3>1, <3>2, <3>3 DEF CancelLocal, shared, transport, RingsFilled
  <2>4. CASE CancelRemote(r)
    <3>1. wire' \in Wires /\ pub' \in Rings /\ RingsFilled(pub', wire')
      BY <1>0, <2>4, SendType DEF CancelRemote, h
    <3>2. waiter' \in Waiters /\ pc' \in [Requests -> Places]
      BY <2>4 DEF CancelRemote
    <3>. QED  BY <2>4, <3>1, <3>2 DEF CancelRemote, shared
  <2>. QED  BY <1>3, <2>1, <2>2, <2>3, <2>4 DEF Cancel
<1>4. CASE CancelAndWait(r)
  BY <1>4 DEF CancelAndWait, shared, service, transport, RingsFilled
<1>5. CASE CancelDrained(r)
  BY <1>5 DEF CancelDrained, shared, transport, RingsFilled
<1>6. CASE CancelTimeout(r)
  BY <1>6 DEF CancelTimeout, shared, service, transport, RingsFilled
<1>7. CASE BeginWriteback(r)
  BY <1>7 DEF BeginWriteback, service, transport, RingsFilled
<1>8. CASE Commit(r)
  <2>1. version' \in Nat /\ pc' \in [Requests -> Places]
    BY <1>8 DEF Commit
  <2>2. ServiceType'
    BY <1>8, <2>1, ReleaseLeaseType DEF Commit
  <2>. QED  BY <1>8, <2>1, <2>2 DEF Commit, ReleaseLease, ServiceType
<1>9. CASE Abort(r)
  <2>1. version' \in Nat /\ pc' \in [Requests -> Places]
    BY <1>9 DEF Abort
  <2>2. ServiceType'
    BY <1>9, <2>1, ReleaseLeaseType DEF Abort
  <2>. QED  BY <1>9, <2>1, <2>2 DEF Abort, ReleaseLease, ServiceType
<1>. QED  BY <1>1, <1>2, <1>3, <1>4, <1>5, <1>6, <1>7, <1>8, <1>9 DEF Client

\* Every message handler keeps the type invariant.
LEMMA HandlerType ==
  ASSUME TypeInv, NEW h \in Hosts, NEW s \in Hosts, HandleMessage(h, s)
  PROVE  TypeInv'
<1>. USE DEF TypeInv, TypeOK, Wires, Rings, Waiters, WaiterStates
<1>. DEFINE m == Head(wire[s][h])
<1>1. Inbound(h, s) /\ racing' \subseteq Hosts
  BY DEF HandleMessage, Handling, Locked, Forward, QueueRequest, GrantRequest, AcceptGrant,
         ReleaseLateGrant, RefuseGrant, HandleCancel, HandleCancelAck
<1>2. /\ m \in Msg /\ Popped(h, s) \in Wires /\ Room(h, s) \in Rings
      /\ RingsFilled(Room(h, s), Popped(h, s))
  BY <1>1, PopType
<1>3. /\ m.req \in Requests /\ Requester[m.req] \in Hosts /\ m.epoch \in Nat
      /\ Note("ack", m.req) \in Msg
  <2>1. m.req \in Requests /\ Requester[m.req] \in Hosts /\ m.epoch \in Nat
    BY <1>2, MsgFields
  <2>. QED  BY <2>1 DEF Note, Msg, Kinds
<1>. HIDE DEF m
<1>4. CASE Forward(h, s)
  <2>1. wire' \in Wires /\ pub' \in Rings /\ RingsFilled(pub', wire')
    BY <1>2, <1>4, SendType DEF Forward, m
  <2>. QED  BY <1>1, <1>4, <2>1 DEF Forward, shared, service
<1>5. CASE QueueRequest(h, s)
  <2>1. pending' \in [Hosts -> Seq(Msg)]
    BY <1>2, <1>5, AppendProperties DEF QueueRequest, m
  <2>. QED  BY <1>1, <1>2, <1>5, <2>1 DEF QueueRequest, shared
<1>6. CASE GrantRequest(h, s)
  <2>. DEFINE q == <<m>> \o pending[h]
  <2>1. /\ q \in Seq(Msg) /\ Settles(h, waiter, lease, Popped(h, s), Room(h, s), q)
        /\ version' = version /\ UNCHANGED <<alloc, pc>>
        /\ running' \in [Hosts -> BOOLEAN]
    BY <1>6, GrantSettles DEF m
  <2>. HIDE DEF q
  <2>2. ServiceType'
    BY <1>2, <2>1, SettlesType
  <2>. QED  BY <1>1, <2>1, <2>2 DEF ServiceType
<1>7. CASE AcceptGrant(h, s)
  <2>1. /\ waiter' = [waiter EXCEPT ![m.req] = "granted"]
        /\ lease' = [lease EXCEPT ![m.req] = m.epoch]
        /\ held' = [held EXCEPT ![h] = TRUE]
        /\ available' = [available EXCEPT ![h] = TRUE]
        /\ odd' = (m.req \in Raw)
    BY <1>7 DEF AcceptGrant, m
  <2>2. waiter' \in Waiters /\ lease' \in [Requests -> Nat]
    BY <1>3, <2>1
  <2>3. held' \in [Hosts -> BOOLEAN] /\ available' \in [Hosts -> BOOLEAN]
    BY <2>1
  <2>4. odd' \in BOOLEAN
    BY <2>1
  <2>. QED  BY <1>1, <1>2, <1>7, <2>2, <2>3, <2>4 DEF AcceptGrant
<1>8. CASE ReleaseLateGrant(h, s)
  <2>. DEFINE W == [waiter EXCEPT ![m.req] = Completed(m.req)]
  <2>1. W \in Waiters
    BY <1>3 DEF Completed
  <2>2. /\ Settles(h, W, lease, Popped(h, s), Room(h, s), pending[h])
        /\ version' = version /\ UNCHANGED <<alloc, pc>>
        /\ running' \in [Hosts -> BOOLEAN]
    BY <1>8, LateGrantSettles DEF m
  <2>. HIDE DEF W
  <2>3. ServiceType'
    BY <1>2, <2>1, <2>2, SettlesType
  <2>. QED  BY <1>1, <2>2, <2>3 DEF ServiceType
<1>9. CASE RefuseGrant(h, s)
  BY <1>1, <1>2, <1>9 DEF RefuseGrant, shared, service
<1>10. CASE HandleCancel(h, s)
  <2>1. pending' \in [Hosts -> Seq(Msg)]
    BY <1>10, UnqueueType DEF HandleCancel
  <2>2. waiter' \in Waiters
    BY <1>3, <1>10 DEF HandleCancel, Acknowledged, Completed, m
  <2>3. wire' \in Wires /\ pub' \in Rings /\ RingsFilled(pub', wire')
    <3>1. CASE Requester[m.req] = h
      BY <1>2, <1>10, <3>1 DEF HandleCancel, m
    <3>2. CASE Requester[m.req] # h
      <4>1. Send(Popped(h, s), Room(h, s), h, Requester[m.req], Note("ack", m.req))
        BY <1>10, <3>2 DEF HandleCancel, m
      <4>. QED  BY <1>2, <1>3, <4>1, SendType
    <3>. QED  BY <3>1, <3>2
  <2>. QED  BY <1>1, <1>10, <2>1, <2>2, <2>3 DEF HandleCancel, shared
<1>11. CASE HandleCancelAck(h, s)
  <2>1. waiter' \in Waiters
    BY <1>3, <1>11 DEF HandleCancelAck, Acknowledged, Completed, m
  <2>. QED  BY <1>1, <1>2, <1>11, <2>1 DEF HandleCancelAck, shared
<1>. QED  BY <1>4, <1>5, <1>6, <1>7, <1>8, <1>9, <1>10, <1>11 DEF HandleMessage

\* ProgressOutbound keeps the type invariant.
LEMMA ProgressType ==
  ASSUME TypeInv, NEW h \in Hosts, ProgressOutbound(h)
  PROVE  TypeInv'
<1>1. wire \in Wires /\ pub \in Rings /\ RingsFilled(pub, wire)
  BY DEF TypeInv, TypeOK, Wires, Rings
<1>2. \A s, d \in Hosts : Len(wire[s][d]) <= Len(wire[s][d])
  BY <1>1, LenProperties DEF Wires
<1>3. pub' \in Rings /\ wire' = wire /\ RingsFilled(pub', wire)
  BY <1>1, <1>2, FlushType DEF ProgressOutbound
<1>. QED  BY <1>3 DEF ProgressOutbound, Locked, TypeInv, TypeOK, shared, service, Rings

\* RegisterAllocation establishes the type invariant.
LEMMA TypeInit == Init => TypeInv
<1>. SUFFICES ASSUME Init PROVE TypeInv
  OBVIOUS
<1>1. wire \in Wires /\ pub \in Rings /\ RingsFilled(pub, wire)
  BY EmptySeq DEF Init, Wires, Rings, RingsFilled
<1>2. pending \in [Hosts -> Seq(Msg)]
  BY EmptySeq DEF Init
<1>3. available \in [Hosts -> BOOLEAN] /\ held \in [Hosts -> BOOLEAN]
  BY DEF Init
<1>. QED  BY <1>1, <1>2, <1>3, HostsAssumption
          DEF Init, TypeInv, TypeOK, Wires, Rings, WaiterStates, Places

\* Every step keeps the type invariant.
LEMMA TypeStep == TypeInv /\ [Next]_vars => TypeInv'
<1>. SUFFICES ASSUME TypeInv, [Next]_vars PROVE TypeInv'
  OBVIOUS
<1>1. CASE UNCHANGED vars
  BY <1>1 DEF vars, shared, service, transport, TypeInv, TypeOK, RingsFilled
<1>2. CASE Next
  BY <1>2, ClientType, HandlerType, ProgressType DEF Next
<1>. QED  BY <1>1, <1>2

\* The type invariant with filled rings, which is the inductive one.
LEMMA TypeInvariant == Spec => []TypeInv
<1>1. Init => TypeInv
  BY TypeInit
<1>2. TypeInv /\ [Next]_vars => TypeInv'
  BY TypeStep
<1>. QED  BY <1>1, <1>2, PTL DEF Spec

\* Type correctness of the token service.  It rests on a transport fact:
\* ProgressOutbound never publishes more than EnqueueOutbound queued, so TryPop
\* always finds the message whose publication it has seen.
THEOREM TypeCorrect == Spec => []TypeOK
<1>1. TypeInv => TypeOK
  BY DEF TypeInv
<1>. QED  BY <1>1, TypeInvariant, PTL

-----------------------------------------------------------------------------
(* Grants on the wires.                                                    *)

NoGrant(w) ==
  \A s, d \in Hosts : \A i \in DOMAIN w[s][d] : w[s][d][i].kind # "grant"

\* GrantAuthoritative about the wires w.
Authority(w) ==
  \A s, d \in Hosts : \A i \in DOMAIN w[s][d] :
    w[s][d][i].kind = "grant" =>
      /\ owner = d /\ Requester[w[s][d][i].req] = d
      /\ epoch = w[s][d][i].epoch /\ version = w[s][d][i].version
      /\ \A h \in Hosts : ~available[h]
      /\ \A s2, d2 \in Hosts : \A j \in DOMAIN w[s2][d2] :
           w[s2][d2][j].kind = "grant" => s2 = s /\ d2 = d /\ j = i

\* Every grant of v is one of w, moved within its wire by the same distance.
GrantsWithin(v, w) ==
  \A s, d \in Hosts : \E k \in Int : \A i \in DOMAIN v[s][d] :
    v[s][d][i].kind = "grant" => i + k \in DOMAIN w[s][d] /\ w[s][d][i + k] = v[s][d][i]

\* GrantAuthoritative, as a property of the wires alone.
LEMMA AuthorityOfWire == GrantAuthoritative <=> Authority(wire)
BY DEF GrantAuthoritative, Authority

\* Adding the same offset tells positions apart.
LEMMA SumCancels ==
  ASSUME NEW x \in Int, NEW y \in Int, NEW z \in Int, x + z = y + z
  PROVE  x = y
OBVIOUS

\* Wires whose grants are among those of authoritative wires are authoritative.
LEMMA AuthorityWithin ==
  ASSUME NEW v \in Wires, NEW w \in Wires, GrantsWithin(v, w), Authority(w)
  PROVE  Authority(v)
<1>. SUFFICES ASSUME NEW s \in Hosts, NEW d \in Hosts, NEW i \in DOMAIN v[s][d],
                     v[s][d][i].kind = "grant"
              PROVE  /\ owner = d /\ Requester[v[s][d][i].req] = d
                     /\ epoch = v[s][d][i].epoch /\ version = v[s][d][i].version
                     /\ \A h \in Hosts : ~available[h]
                     /\ \A s2, d2 \in Hosts : \A j \in DOMAIN v[s2][d2] :
                          v[s2][d2][j].kind = "grant" => s2 = s /\ d2 = d /\ j = i
  BY DEF Authority
<1>1. PICK k \in Int : \A j \in DOMAIN v[s][d] :
        v[s][d][j].kind = "grant" => j + k \in DOMAIN w[s][d] /\ w[s][d][j + k] = v[s][d][j]
  BY DEF GrantsWithin
<1>2. i + k \in DOMAIN w[s][d] /\ w[s][d][i + k] = v[s][d][i]
  BY <1>1
<1>3. \A s2, d2 \in Hosts : \A j \in DOMAIN w[s2][d2] :
        w[s2][d2][j].kind = "grant" => s2 = s /\ d2 = d /\ j = i + k
  BY <1>2 DEF Authority
<1>4. ASSUME NEW s2 \in Hosts, NEW d2 \in Hosts, NEW j \in DOMAIN v[s2][d2],
             v[s2][d2][j].kind = "grant"
      PROVE  s2 = s /\ d2 = d /\ j = i
  <2>1. PICK k2 \in Int : j + k2 \in DOMAIN w[s2][d2] /\ w[s2][d2][j + k2] = v[s2][d2][j]
    BY <1>4 DEF GrantsWithin
  <2>2. s2 = s /\ d2 = d
    BY <1>3, <1>4, <2>1
  <2>3. j + k \in DOMAIN w[s][d] /\ w[s][d][j + k].kind = "grant"
    BY <1>1, <1>4, <2>2
  <2>4. j + k = i + k
    BY <1>3, <2>3
  <2>5. i \in Int /\ j \in Int
    BY <2>2, LenProperties DEF Wires
  <2>6. j = i
    BY <2>4, <2>5, SumCancels
  <2>. QED  BY <2>2, <2>6
<1>. QED  BY <1>2, <1>4 DEF Authority

\* Wires whose grants are among those of wires without one have none.
LEMMA NoGrantWithin ==
  ASSUME NEW v, NEW w, GrantsWithin(v, w), NoGrant(w)
  PROVE  NoGrant(v)
BY DEF GrantsWithin, NoGrant

\* Wires without a grant are authoritative whatever the metadata says.
LEMMA NoGrantAuthority ==
  ASSUME NEW w, NoGrant(w)
  PROVE  Authority(w)
BY DEF NoGrant, Authority

\* Popping a message moves the rest of its wire up by one.
LEMMA PopEntries ==
  ASSUME TypeInv, NEW h \in Hosts, NEW s \in Hosts, Inbound(h, s),
         NEW a \in Hosts, NEW b \in Hosts, NEW i \in DOMAIN Popped(h, s)[a][b]
  PROVE  IF a = s /\ b = h
           THEN i + 1 \in DOMAIN wire[a][b] /\ wire[a][b][i + 1] = Popped(h, s)[a][b][i]
           ELSE i \in DOMAIN wire[a][b] /\ wire[a][b][i] = Popped(h, s)[a][b][i]
<1>0. wire \in Wires
  BY DEF TypeInv, TypeOK, Wires
<1>1. CASE a = s /\ b = h
  <2>1. Popped(h, s)[a][b] = Tail(wire[s][h])
    BY <1>0, <1>1 DEF Popped, Wires
  <2>2. /\ wire[s][h] \in Seq(Msg) /\ wire[s][h] # <<>>
    BY PopType
  <2>3. /\ Tail(wire[s][h]) \in Seq(Msg)
        /\ Len(Tail(wire[s][h])) = Len(wire[s][h]) - 1
        /\ \A j \in 1 .. Len(Tail(wire[s][h])) : Tail(wire[s][h])[j] = wire[s][h][j + 1]
    BY <2>2, HeadTailProperties
  <2>4. /\ Len(wire[s][h]) \in Nat /\ DOMAIN wire[s][h] = 1 .. Len(wire[s][h])
        /\ DOMAIN Tail(wire[s][h]) = 1 .. Len(Tail(wire[s][h]))
    BY <2>2, <2>3, LenProperties
  <2>5. i \in 1 .. Len(Tail(wire[s][h])) /\ i + 1 \in 1 .. Len(wire[s][h])
    BY <2>1, <2>3, <2>4
  <2>. QED  BY <1>1, <2>1, <2>3, <2>4, <2>5
<1>2. CASE ~(a = s /\ b = h)
  <2>1. Popped(h, s)[a][b] = wire[a][b]
    BY <1>0, <1>2 DEF Popped, Wires
  <2>. QED  BY <1>2, <2>1
<1>. QED  BY <1>1, <1>2

\* TryPop adds no grant.
LEMMA PopGrants ==
  ASSUME TypeInv, NEW h \in Hosts, NEW s \in Hosts, Inbound(h, s)
  PROVE  GrantsWithin(Popped(h, s), wire)
<1>1. ASSUME NEW a \in Hosts, NEW b \in Hosts
      PROVE  \E k \in Int : \A i \in DOMAIN Popped(h, s)[a][b] :
               i + k \in DOMAIN wire[a][b] /\ wire[a][b][i + k] = Popped(h, s)[a][b][i]
  <2>1. CASE a = s /\ b = h
    <3>1. \A i \in DOMAIN Popped(h, s)[a][b] :
            i + 1 \in DOMAIN wire[a][b] /\ wire[a][b][i + 1] = Popped(h, s)[a][b][i]
      BY <2>1, PopEntries
    <3>. QED  BY <3>1
  <2>2. CASE ~(a = s /\ b = h)
    <3>1. \A i \in DOMAIN Popped(h, s)[a][b] :
            i \in DOMAIN wire[a][b] /\ wire[a][b][i] = Popped(h, s)[a][b][i]
      BY <2>2, PopEntries
    <3>2. \A i \in DOMAIN Popped(h, s)[a][b] : i \in Int
      <4>1. Popped(h, s)[a][b] \in Seq(Msg)
        BY PopType DEF Wires
      <4>. QED  BY <4>1, LenProperties
    <3>3. \A i \in DOMAIN Popped(h, s)[a][b] : i + 0 = i
      BY <3>2
    <3>. QED  BY <3>1, <3>3
  <2>. QED  BY <2>1, <2>2
<1>. QED  BY <1>1 DEF GrantsWithin

\* Popping the grant leaves none.
LEMMA PopLastGrant ==
  ASSUME TypeInv, NEW h \in Hosts, NEW s \in Hosts, Inbound(h, s),
         Authority(wire), Head(wire[s][h]).kind = "grant"
  PROVE  NoGrant(Popped(h, s))
<1>. SUFFICES ASSUME NEW a \in Hosts, NEW b \in Hosts, NEW i \in DOMAIN Popped(h, s)[a][b],
                     Popped(h, s)[a][b][i].kind = "grant"
              PROVE  FALSE
  BY DEF NoGrant
<1>1. wire[s][h] \in Seq(Msg) /\ wire[s][h] # <<>> /\ Popped(h, s) \in Wires
  BY PopType
<1>2. 1 \in DOMAIN wire[s][h] /\ wire[s][h][1].kind = "grant"
  <2>1. Len(wire[s][h]) \in Nat \ {0} /\ DOMAIN wire[s][h] = 1 .. Len(wire[s][h])
    BY <1>1, EmptySeq, LenProperties
  <2>. QED  BY <1>1, <2>1
<1>3. \A s2, d2 \in Hosts : \A j \in DOMAIN wire[s2][d2] :
        wire[s2][d2][j].kind = "grant" => s2 = s /\ d2 = h /\ j = 1
  BY <1>2 DEF Authority
<1>4. i \in Nat \ {0}
  <2>1. Popped(h, s)[a][b] \in Seq(Msg)
    BY <1>1 DEF Wires
  <2>2. i \in 1 .. Len(Popped(h, s)[a][b]) /\ Len(Popped(h, s)[a][b]) \in Nat
    BY <2>1, LenProperties
  <2>. QED  BY <2>2
<1>5. CASE a = s /\ b = h
  <2>1. i + 1 \in DOMAIN wire[a][b] /\ wire[a][b][i + 1].kind = "grant"
    BY <1>5, PopEntries
  <2>. QED  BY <1>3, <1>4, <2>1
<1>6. CASE ~(a = s /\ b = h)
  <2>1. i \in DOMAIN wire[a][b] /\ wire[a][b][i].kind = "grant"
    BY <1>6, PopEntries
  <2>. QED  BY <1>3, <1>6, <2>1
<1>. QED  BY <1>5, <1>6

\* What a wire holds after a post: its old entries and the new ones.
LEMMA PostEntries ==
  ASSUME NEW w \in Wires, NEW h \in Hosts, NEW d \in Hosts, NEW ms \in Seq(Msg),
         NEW a \in Hosts, NEW b \in Hosts, NEW i \in DOMAIN Post(w, h, d, ms)[a][b]
  PROVE  /\ i \in Int
         /\ \/ i \in DOMAIN w[a][b] /\ Post(w, h, d, ms)[a][b][i] = w[a][b][i]
            \/ /\ a = h /\ b = d
               /\ Len(w[a][b]) \in Nat /\ i - Len(w[a][b]) \in 1 .. Len(ms)
               /\ Post(w, h, d, ms)[a][b][i] = ms[i - Len(w[a][b])]
<1>1. CASE a = h /\ b = d
  <2>1. Post(w, h, d, ms)[a][b] = w[h][d] \o ms /\ w[h][d] \in Seq(Msg)
    BY <1>1 DEF Post, Wires
  <2>2. /\ w[h][d] \o ms \in Seq(Msg)
        /\ Len(w[h][d] \o ms) = Len(w[h][d]) + Len(ms)
        /\ \A j \in 1 .. Len(w[h][d]) + Len(ms) :
             (w[h][d] \o ms)[j] = IF j <= Len(w[h][d]) THEN w[h][d][j]
                                  ELSE ms[j - Len(w[h][d])]
    BY <2>1, ConcatProperties
  <2>3. /\ Len(w[h][d]) \in Nat /\ Len(ms) \in Nat
        /\ DOMAIN w[h][d] = 1 .. Len(w[h][d])
        /\ DOMAIN (w[h][d] \o ms) = 1 .. Len(w[h][d] \o ms)
    BY <2>1, <2>2, LenProperties
  <2>4. i \in 1 .. Len(w[h][d]) + Len(ms)
    BY <2>1, <2>2, <2>3
  <2>. QED  BY SMTT(60), <1>1, <2>1, <2>2, <2>3, <2>4
<1>2. CASE ~(a = h /\ b = d)
  <2>1. Post(w, h, d, ms)[a][b] = w[a][b] /\ w[a][b] \in Seq(Msg)
    BY <1>2 DEF Post, Wires
  <2>. QED  BY <2>1, LenProperties
<1>. QED  BY <1>1, <1>2

\* EnqueueOutbound of messages other than grants adds no grant.
LEMMA PostGrants ==
  ASSUME NEW w \in Wires, NEW h \in Hosts, NEW d \in Hosts, NEW ms \in Seq(Msg),
         \A i \in 1 .. Len(ms) : ms[i].kind # "grant"
  PROVE  GrantsWithin(Post(w, h, d, ms), w)
<1>1. ASSUME NEW a \in Hosts, NEW b \in Hosts, NEW i \in DOMAIN Post(w, h, d, ms)[a][b],
             Post(w, h, d, ms)[a][b][i].kind = "grant"
      PROVE  i + 0 \in DOMAIN w[a][b] /\ w[a][b][i + 0] = Post(w, h, d, ms)[a][b][i]
  <2>1. i \in DOMAIN w[a][b] /\ w[a][b][i] = Post(w, h, d, ms)[a][b][i]
    BY SMTT(60), <1>1, PostEntries
  <2>2. i + 0 = i
    BY PostEntries
  <2>. QED  BY <2>1, <2>2
<1>. QED  BY <1>1 DEF GrantsWithin

-----------------------------------------------------------------------------
(* The token has one place.                                                *)

\* While some host has the token, no grant travels.
LEMMA NoGrantWhileAvailable ==
  ASSUME Authority(wire), NEW h \in Hosts, available[h]
  PROVE  NoGrant(wire)
BY DEF Authority, NoGrant

\* While nobody holds the token at the owner, nobody holds it anywhere.
LEMMA NobodyLive ==
  ASSUME LeaseCurrent, NEW r \in Requests, ~(held[owner] /\ available[owner])
  PROVE  ~Live(r)
BY DEF LeaseCurrent, LeaseValid

\* A step that touches neither the token nor a lease, and makes nobody live.
LEMMA TokenFrame ==
  ASSUME TokenInv, UNCHANGED <<owner, epoch, available, held, lease>>,
         \A r \in Requests : Live(r)' => Live(r)
  PROVE  (TokenAtOwner /\ LeaseCurrent /\ SingleWriter)'
BY DEF TokenInv, TokenAtOwner, LeaseCurrent, LeaseValid, SingleWriter

\* A step that touches neither the token nor the version, and sends no grant.
LEMMA GrantFrame ==
  ASSUME TokenInv, wire \in Wires, wire' \in Wires,
         UNCHANGED <<owner, epoch, version, available>>,
         GrantsWithin(wire', wire)
  PROVE  GrantAuthoritative'
<1>1. Authority(wire)
  BY AuthorityOfWire DEF TokenInv
<1>2. Authority(wire')
  BY <1>1, AuthorityWithin
<1>3. Authority(wire)'
  BY <1>2 DEF Authority
<1>. QED  BY <1>3 DEF GrantAuthoritative, Authority

\* Unchanged wires carry the same grants.
LEMMA SameWire == wire' = wire /\ wire \in Wires => GrantsWithin(wire', wire)
<1>. SUFFICES ASSUME wire' = wire, wire \in Wires,
                     NEW s \in Hosts, NEW d \in Hosts
              PROVE  \E k \in Int : \A i \in DOMAIN wire[s][d] :
                       i + k \in DOMAIN wire[s][d] /\ wire[s][d][i + k] = wire[s][d][i]
  BY DEF GrantsWithin
<1>1. \A i \in DOMAIN wire[s][d] : i \in Int
  BY LenProperties DEF Wires
<1>2. \A i \in DOMAIN wire[s][d] : i + 0 = i
  BY <1>1
<1>. QED  BY <1>2

\* Whoever the owner hands the token to, it stays in one place.
LEMMA SettlesSafe ==
  ASSUME TypeInv, TypeInv', NEW h \in Hosts, NEW W \in Waiters,
         NEW L, NEW w \in Wires, NEW p, NEW q \in Seq(Msg),
         owner = h,
         \A x \in Hosts : x # h => ~available[x] /\ ~held[x],
         \A x \in Hosts : \A i \in DOMAIN pending[x] : pending[x][i].kind = "req",
         \A i \in 1 .. Len(q) : q[i].kind = "req",
         NoGrant(w),
         \A r \in Requests : W[r] # "granted",
         \A r \in Requests : pc'[r] \notin {"holding", "publishing"},
         L \in [Requests -> Nat],
         Settles(h, W, L, w, p, q)
  PROVE  TokenInv'
<1>0. /\ available \in [Hosts -> BOOLEAN] /\ held \in [Hosts -> BOOLEAN]
      /\ pending \in [Hosts -> Seq(Msg)] /\ epoch \in Nat
  BY DEF TypeInv, TypeOK
<1>1. \A n : \A r \in Requests : Skipped(W, q, n)[r] # "granted"
  BY DEF Skipped, Completed
<1>2. (\A r \in Requests : pc[r] \in {"holding", "publishing"} => waiter[r] = "none")'
  OBVIOUS
<1>3. ASSUME NEW n \in 0 .. Len(q), NEW k \in 0 .. Len(q),
             PutBack(h, W, L, w, p, q, n, SubSeq(q, k + 1, Len(q)))
      PROVE  TokenInv'
  <2>1. \A r \in Requests : ~Live(r)'
    BY <1>1, <1>3 DEF PutBack, Live
  <2>2. LeaseCurrent' /\ SingleWriter'
    BY <2>1 DEF LeaseCurrent, SingleWriter
  <2>3. TokenAtOwner'
    BY <1>0, <1>3 DEF PutBack, TokenAtOwner
  <2>4. GrantAuthoritative'
    <3>1. NoGrant(wire)'
      BY <1>3 DEF PutBack, NoGrant
    <3>. QED  BY <3>1 DEF GrantAuthoritative, NoGrant
  <2>5. (\A x \in Hosts : \A i \in DOMAIN pending[x] : pending[x][i].kind = "req")'
    <3>1. \A i \in DOMAIN SubSeq(q, k + 1, Len(q)) : SubSeq(q, k + 1, Len(q))[i].kind = "req"
      BY SettledRest
    <3>. QED  BY <1>0, <1>3, <3>1 DEF PutBack
  <2>. QED  BY <1>2, <2>2, <2>3, <2>4, <2>5 DEF TokenInv
<1>4. ASSUME NEW n \in 1 .. Len(q), GrantLocal(h, W, L, w, p, q, n)
      PROVE  TokenInv'
  <2>. DEFINE r == q[n].req
  <2>0. r \in Requests
    BY EntryType
  <2>. HIDE DEF r
  <2>1. /\ held' = [held EXCEPT ![h] = TRUE]
        /\ available' = [available EXCEPT ![h] = TRUE]
        /\ pending' = [pending EXCEPT ![h] = SubSeq(q, n + 1, Len(q))]
        /\ owner' = owner /\ epoch' = epoch /\ wire' = w /\ Requester[r] = h
        /\ IF W[r] = "none"
             THEN waiter' = Skipped(W, q, n - 1)
             ELSE /\ waiter' = [Skipped(W, q, n - 1) EXCEPT ![r] = "granted"]
                  /\ lease' = [L EXCEPT ![r] = epoch]
    BY <1>4 DEF GrantLocal, r
  <2>2. Skipped(W, q, n - 1) \in Waiters
    BY SkippedType
  <2>3. \A x \in Requests : Live(x)' => x = r /\ W[r] # "none"
    BY <1>1, <2>0, <2>1, <2>2 DEF Live, Waiters
  <2>4. SingleWriter'
    BY <2>3 DEF SingleWriter
  <2>5. LeaseCurrent'
    <3>1. SUFFICES ASSUME W[r] # "none"
                   PROVE  LeaseValid(r)' /\ available'[Requester[r]]
      BY <2>3 DEF LeaseCurrent
    <3>2. lease'[r] = epoch
      BY <2>0, <2>1, <3>1
    <3>. QED  BY <1>0, <2>1, <3>2 DEF LeaseValid
  <2>6. TokenAtOwner'
    BY <1>0, <2>1 DEF TokenAtOwner
  <2>7. GrantAuthoritative'
    <3>1. NoGrant(wire)'
      BY <2>1 DEF NoGrant
    <3>. QED  BY <3>1 DEF GrantAuthoritative, NoGrant
  <2>8. (\A x \in Hosts : \A i \in DOMAIN pending[x] : pending[x][i].kind = "req")'
    <3>1. \A i \in DOMAIN SubSeq(q, n + 1, Len(q)) : SubSeq(q, n + 1, Len(q))[i].kind = "req"
      BY RestType, LenProperties
    <3>. QED  BY <1>0, <2>1, <3>1
  <2>. QED  BY <1>2, <2>4, <2>5, <2>6, <2>7, <2>8 DEF TokenInv
<1>5. ASSUME NEW n \in 1 .. Len(q), GrantRemote(h, W, L, w, p, q, n)
      PROVE  TokenInv'
  <2>. DEFINE r == q[n].req
              d == Requester[r]
              grant == [kind |-> "grant", req |-> r, epoch |-> epoch + 1,
                        version |-> version']
              ms == <<grant>> \o SubSeq(q, n + 1, Len(q))
              at == Len(w[h][d]) + 1
  <2>0. r \in Requests /\ d \in Hosts /\ version' \in Nat
    BY EntryType DEF TypeInv, TypeOK
  <2>1. /\ held' = [held EXCEPT ![h] = FALSE]
        /\ available' = [available EXCEPT ![h] = FALSE]
        /\ pending' = [pending EXCEPT ![h] = <<>>]
        /\ waiter' = Skipped(W, q, n - 1)
    BY <1>5 DEF GrantRemote
  <2>2. owner' = d /\ epoch' = epoch + 1 /\ wire' = Post(w, h, d, ms)
    BY <1>5 DEF GrantRemote
  <2>3. \A x \in Requests : ~Live(x)'
    BY <1>1, <2>1 DEF Live
  <2>4. LeaseCurrent' /\ SingleWriter'
    BY <2>3 DEF LeaseCurrent, SingleWriter
  <2>5. \A x \in Hosts : ~available'[x] /\ ~held'[x]
    BY <1>0, <2>1
  <2>6. TokenAtOwner'
    BY <2>5 DEF TokenAtOwner
  <2>7. (\A x \in Hosts : \A i \in DOMAIN pending[x] : pending[x][i].kind = "req")'
    BY <1>0, <2>1
  <2>8. /\ ms \in Seq(Msg) /\ Len(ms) \in Nat
        /\ \A i \in 1 .. Len(ms) : ms[i].kind = "grant" => i = 1 /\ ms[i] = grant
    <3>1. grant \in Msg
      BY <1>0, <2>0 DEF Msg, Kinds
    <3>. HIDE DEF grant
    <3>. DEFINE rest == SubSeq(q, n + 1, Len(q))
    <3>2. /\ rest \in Seq(Msg) /\ Len(rest) \in Nat
          /\ \A i \in 1 .. Len(rest) : rest[i].kind = "req"
      BY RestType, LenProperties
    <3>. HIDE DEF rest
    <3>3. /\ <<grant>> \o rest \in Seq(Msg)
          /\ Len(<<grant>> \o rest) = 1 + Len(rest)
          /\ \A i \in 1 .. 1 + Len(rest) :
               (<<grant>> \o rest)[i] = IF i <= 1 THEN grant ELSE rest[i - 1]
      <4>1. <<grant>> \in Seq(Msg) /\ Len(<<grant>>) = 1 /\ <<grant>>[1] = grant
        BY <3>1
      <4>2. /\ <<grant>> \o rest \in Seq(Msg)
            /\ Len(<<grant>> \o rest) = Len(<<grant>>) + Len(rest)
            /\ \A i \in 1 .. Len(<<grant>>) + Len(rest) :
                 (<<grant>> \o rest)[i] = IF i <= Len(<<grant>>) THEN <<grant>>[i]
                                          ELSE rest[i - Len(<<grant>>)]
        BY <3>2, <4>1, ConcatProperties
      <4>. QED  BY <3>2, <4>1, <4>2
    <3>4. ASSUME NEW i \in 1 .. Len(<<grant>> \o rest), (<<grant>> \o rest)[i].kind = "grant"
          PROVE  i = 1 /\ (<<grant>> \o rest)[i] = grant
      <4>1. i \in 1 .. 1 + Len(rest)
        BY <3>3
      <4>2. CASE i <= 1
        BY <3>2, <3>3, <4>1, <4>2
      <4>3. CASE i > 1
        <5>1. i - 1 \in 1 .. Len(rest) /\ (<<grant>> \o rest)[i] = rest[i - 1]
          BY <3>2, <3>3, <4>1, <4>3
        <5>. QED  BY <3>2, <3>4, <5>1
      <4>. QED  BY <4>1, <4>2, <4>3
    <3>5. ms = <<grant>> \o rest
      BY DEF rest
    <3>. HIDE DEF ms
    <3>6. Len(ms) \in Nat
      BY <3>2, <3>3, <3>5
    <3>7. ASSUME NEW i \in 1 .. Len(ms), ms[i].kind = "grant"
          PROVE  i = 1 /\ ms[i] = grant
      BY <3>4, <3>5, <3>7
    <3>. QED  BY <3>3, <3>5, <3>6, <3>7
  <2>9. /\ grant.kind = "grant" /\ Requester[grant.req] = d
        /\ grant.epoch = epoch + 1 /\ grant.version = version'
    OBVIOUS
  <2>10. GrantAuthoritative'
    <3>. HIDE DEF ms, grant, d
    <3>1. ASSUME NEW a \in Hosts, NEW b \in Hosts, NEW i \in DOMAIN wire'[a][b],
                 wire'[a][b][i].kind = "grant"
          PROVE  a = h /\ b = d /\ i = at /\ wire'[a][b][i] = grant
      <4>1. /\ a = h /\ b = d
            /\ Len(w[a][b]) \in Nat /\ i \in Int /\ i - Len(w[a][b]) \in 1 .. Len(ms)
            /\ wire'[a][b][i] = ms[i - Len(w[a][b])]
        BY SMTT(60), <2>0, <2>2, <2>8, <3>1, PostEntries DEF NoGrant
      <4>2. i - Len(w[a][b]) = 1 /\ wire'[a][b][i] = grant
        BY ZenonT(60), <2>8, <3>1, <4>1
      <4>. QED  BY <4>1, <4>2
    <3>. HIDE DEF at
    <3>2. ASSUME NEW a \in Hosts, NEW b \in Hosts, NEW i \in DOMAIN wire'[a][b],
                 wire'[a][b][i].kind = "grant"
          PROVE  /\ owner' = b /\ Requester[wire'[a][b][i].req] = b
                 /\ epoch' = wire'[a][b][i].epoch /\ version' = wire'[a][b][i].version
                 /\ \A x \in Hosts : ~available'[x]
                 /\ \A s2, d2 \in Hosts : \A j \in DOMAIN wire'[s2][d2] :
                      wire'[s2][d2][j].kind = "grant" => s2 = a /\ d2 = b /\ j = i
      <4>1. a = h /\ b = d /\ i = at /\ wire'[a][b][i] = grant
        BY <3>1, <3>2
      <4>2. \A s2, d2 \in Hosts : \A j \in DOMAIN wire'[s2][d2] :
              wire'[s2][d2][j].kind = "grant" => s2 = h /\ d2 = d /\ j = at
        BY <3>1
      <4>. QED  BY <2>2, <2>5, <2>9, <4>1, <4>2
    <3>3. Authority(wire)'
      BY <3>2 DEF Authority
    <3>. QED  BY <3>3 DEF Authority, GrantAuthoritative
  <2>. QED  BY <1>2, <2>4, <2>6, <2>7, <2>10 DEF TokenInv
<1>. QED  BY <1>3, <1>4, <1>5 DEF Settles

\* Release by the one live request.
LEMMA ReleaseSafe ==
  ASSUME TypeInv, TypeInv', TokenInv, NEW r \in Requests, Live(r),
         NEW W \in Waiters, W[r] # "granted",
         \A x \in Requests : x # r => W[x] = waiter[x],
         pc' = [pc EXCEPT ![r] = "done"],
         ReleaseLease(r, W)
  PROVE  TokenInv'
<1>. DEFINE h == Requester[r]
            L == [lease EXCEPT ![r] = 0]
<1>0. /\ h \in Hosts /\ wire \in Wires /\ pending[h] \in Seq(Msg)
      /\ L \in [Requests -> Nat] /\ pc \in [Requests -> Places]
      /\ available \in [Hosts -> BOOLEAN] /\ held \in [Hosts -> BOOLEAN]
      /\ pending \in [Hosts -> Seq(Msg)]
  BY RequestsAssumption DEF TypeInv, TypeOK, Wires
<1>1. owner = h /\ held[h] /\ available[h]
  BY DEF TokenInv, LeaseCurrent, LeaseValid
<1>2. \A x \in Hosts : x # h => ~available[x] /\ ~held[x]
  BY <1>0, <1>1 DEF TokenInv, TokenAtOwner
<1>3. NoGrant(wire)
  BY <1>0, <1>1, AuthorityOfWire, NoGrantWhileAvailable DEF TokenInv
<1>4. \A x \in Requests : x # r => ~Live(x)
  BY DEF TokenInv, SingleWriter
<1>5. \A x \in Requests : W[x] # "granted"
  BY <1>4 DEF Live
<1>6. \A x \in Requests : pc'[x] \notin {"holding", "publishing"}
  BY <1>0, <1>4 DEF Live
<1>7. \A x \in Hosts : \A i \in DOMAIN pending[x] : pending[x][i].kind = "req"
  BY DEF TokenInv
<1>8. Settles(h, W, L, wire, pub, pending[h])
  BY ReleaseSettles
<1>9. \A i \in 1 .. Len(pending[h]) : pending[h][i].kind = "req"
  BY <1>0, <1>7, LenProperties
<1>. HIDE DEF h, L
<1>. QED  BY <1>0, <1>1, <1>2, <1>3, <1>5, <1>6, <1>7, <1>8, <1>9, SettlesSafe

\* Taking a request out of a queue leaves only requests.
LEMMA UnqueueSafe ==
  ASSUME TypeInv, TokenInv, NEW h \in Hosts, NEW r, Unqueue(h, r)
  PROVE  (\A x \in Hosts : \A i \in DOMAIN pending[x] : pending[x][i].kind = "req")'
<1>0. pending \in [Hosts -> Seq(Msg)]
  BY DEF TypeInv, TypeOK
<1>1. \A x \in Hosts : \A i \in DOMAIN pending[x] : pending[x][i].kind = "req"
  BY DEF TokenInv
<1>2. CASE PendingAt(h, r) = {}
  BY <1>1, <1>2 DEF Unqueue
<1>3. CASE PendingAt(h, r) # {}
  <2>1. PICK i \in DOMAIN pending[h] : pending' = [pending EXCEPT ![h] = RemoveAt(@, i)]
    BY <1>3 DEF Unqueue, PendingAt
  <2>2. /\ RemoveAt(pending[h], i) \in Seq(Msg)
        /\ \A j \in 1 .. Len(RemoveAt(pending[h], i)) :
             \E k \in 1 .. Len(pending[h]) : RemoveAt(pending[h], i)[j] = pending[h][k]
    BY <1>0, RemoveAtType
  <2>3. /\ DOMAIN pending[h] = 1 .. Len(pending[h])
        /\ DOMAIN RemoveAt(pending[h], i) = 1 .. Len(RemoveAt(pending[h], i))
    BY <1>0, <2>2, LenProperties
  <2>4. \A j \in DOMAIN RemoveAt(pending[h], i) : RemoveAt(pending[h], i)[j].kind = "req"
    BY <1>1, <2>2, <2>3
  <2>. QED  BY <1>0, <1>1, <2>1, <2>4
<1>. QED  BY <1>2, <1>3

\* Queueing one more request leaves only requests in the pending queue.
LEMMA AppendReq ==
  ASSUME NEW q \in Seq(Msg), NEW m \in Msg, m.kind = "req",
         \A i \in DOMAIN q : q[i].kind = "req"
  PROVE  \A i \in DOMAIN Append(q, m) : Append(q, m)[i].kind = "req"
<1>1. /\ Append(q, m) \in Seq(Msg) /\ Len(Append(q, m)) = Len(q) + 1
      /\ \A i \in 1 .. Len(q) : Append(q, m)[i] = q[i]
      /\ Append(q, m)[Len(q) + 1] = m
  BY AppendProperties
<1>2. /\ Len(q) \in Nat /\ DOMAIN q = 1 .. Len(q)
      /\ DOMAIN Append(q, m) = 1 .. Len(Append(q, m))
  BY <1>1, LenProperties
<1>. QED  BY <1>1, <1>2

\* The remaining conjuncts of TokenInv.
OnlyRequestsWait == \A h \in Hosts : \A i \in DOMAIN pending[h] : pending[h][i].kind = "req"
ClaimedOnce == \A r \in Requests : pc[r] \in {"holding", "publishing"} => waiter[r] = "none"

\* The parts of TokenInv, in terms of the wires.
LEMMA TokenInvParts ==
  TokenInv <=> /\ TokenAtOwner /\ GrantAuthoritative /\ LeaseCurrent /\ SingleWriter
               /\ OnlyRequestsWait /\ ClaimedOnce
BY DEF TokenInv, OnlyRequestsWait, ClaimedOnce

\* A client step that keeps the token and the wires, and makes nobody live.
LEMMA QuietStep ==
  ASSUME TypeInv, TokenInv,
         UNCHANGED <<owner, epoch, version, available, held, lease, wire>>,
         \A r \in Requests : Live(r)' => Live(r),
         OnlyRequestsWait', ClaimedOnce'
  PROVE  TokenInv'
<1>1. wire \in Wires
  BY DEF TypeInv, TypeOK, Wires
<1>2. GrantAuthoritative'
  BY <1>1, SameWire, GrantFrame
<1>3. (TokenAtOwner /\ LeaseCurrent /\ SingleWriter)'
  BY TokenFrame
<1>. QED  BY <1>2, <1>3 DEF TokenInv, OnlyRequestsWait, ClaimedOnce

\* A step that may also send one message that is not a grant.
LEMMA SendStep ==
  ASSUME TypeInv, TypeInv', TokenInv,
         NEW w \in Wires, GrantsWithin(w, wire), NEW p,
         NEW h \in Hosts, NEW d \in Hosts, NEW m \in Msg, m.kind # "grant",
         Send(w, p, h, d, m),
         UNCHANGED <<owner, epoch, version, available, held, lease>>,
         \A r \in Requests : Live(r)' => Live(r),
         OnlyRequestsWait', ClaimedOnce'
  PROVE  TokenInv'
<1>1. wire \in Wires /\ wire' \in Wires
  BY DEF TypeInv, TypeOK, Wires
<1>2. Authority(w)
  BY <1>1, AuthorityOfWire, AuthorityWithin DEF TokenInv
<1>3. <<m>> \in Seq(Msg) /\ \A i \in 1 .. Len(<<m>>) : <<m>>[i].kind # "grant"
  OBVIOUS
<1>4. GrantsWithin(wire', w)
  BY <1>3, PostGrants DEF Send
<1>5. Authority(wire')
  BY <1>1, <1>2, <1>4, AuthorityWithin
<1>6. GrantAuthoritative'
  BY <1>5 DEF Authority, GrantAuthoritative
<1>7. (TokenAtOwner /\ LeaseCurrent /\ SingleWriter)'
  BY TokenFrame
<1>. QED  BY <1>6, <1>7 DEF TokenInv, OnlyRequestsWait, ClaimedOnce

\* Every client operation keeps TokenInv.
LEMMA ClientSafe ==
  ASSUME TypeInv, TypeInv', TokenInv, NEW r \in Requests, Client(r)
  PROVE  TokenInv'
<1>. DEFINE h == Requester[r]
<1>0. /\ h \in Hosts /\ owner \in Hosts /\ wire \in Wires
      /\ pc \in [Requests -> Places] /\ waiter \in Waiters
      /\ lease \in [Requests -> Nat]
      /\ pending \in [Hosts -> Seq(Msg)]
      /\ available \in [Hosts -> BOOLEAN] /\ held \in [Hosts -> BOOLEAN]
      /\ version \in Nat
  BY RequestsAssumption DEF TypeInv, TypeOK, Wires, Waiters
<1>01. /\ Note("cancel", r) \in Msg /\ Note("cancel", r).kind # "grant"
       /\ [Note("req", r) EXCEPT !.version = version] \in Msg
       /\ [Note("req", r) EXCEPT !.version = version].kind = "req"
  BY <1>0 DEF Note, Msg, Kinds
<1>02. OnlyRequestsWait /\ ClaimedOnce
  BY TokenInvParts
<1>03. GrantsWithin(wire, wire)
  <2>1. \A s, d \in Hosts : \A i \in DOMAIN wire[s][d] : i + 0 = i
    BY <1>0, LenProperties DEF Wires
  <2>. QED  BY <2>1 DEF GrantsWithin
<1>. HIDE DEF h
<1>1. CASE Request(r)
  <2>0. /\ pc' = [pc EXCEPT ![r] = "waiting"]
        /\ UNCHANGED <<owner, epoch, version, available>>
    BY <1>1 DEF Request
  <2>1. CASE RequestLocal(r) /\ available[h] /\ ~held[h]
    <3>1. /\ owner = h /\ held' = [held EXCEPT ![h] = TRUE]
          /\ waiter' = [waiter EXCEPT ![r] = "granted"]
          /\ lease' = [lease EXCEPT ![r] = epoch]
          /\ pending' = pending /\ wire' = wire
      BY <2>1 DEF RequestLocal, h, transport
    <3>2. \A x \in Requests : ~Live(x)
      BY <2>1, <3>1, NobodyLive DEF TokenInv
    <3>3. \A x \in Requests : Live(x)' => x = r
      BY <1>0, <2>0, <3>1, <3>2 DEF Live, Waiters
    <3>4. SingleWriter'
      BY <3>3 DEF SingleWriter
    <3>5. LeaseCurrent'
      <4>1. lease'[r] = epoch /\ held'[h] /\ available'[h] /\ owner' = h /\ epoch' = epoch
        BY <1>0, <2>0, <2>1, <3>1
      <4>. QED  BY <3>3, <4>1 DEF LeaseCurrent, LeaseValid, h
    <3>6. TokenAtOwner'
      BY <1>0, <2>0, <2>1, <3>1 DEF TokenInv, TokenAtOwner
    <3>7. GrantAuthoritative'
      BY <1>0, <2>0, <3>1, SameWire, GrantFrame
    <3>8. OnlyRequestsWait'
      BY <1>02, <3>1 DEF OnlyRequestsWait
    <3>9. ClaimedOnce'
      BY <1>0, <1>02, <2>0, <3>1 DEF ClaimedOnce, Waiters
    <3>. QED  BY <3>4, <3>5, <3>6, <3>7, <3>8, <3>9 DEF TokenInv, OnlyRequestsWait, ClaimedOnce
  <2>2. CASE RequestLocal(r) /\ ~(available[h] /\ ~held[h])
    <3>1. /\ waiter' = [waiter EXCEPT ![r] = "active"]
          /\ pending' = [pending EXCEPT ![h] =
                           Append(@, [Note("req", r) EXCEPT !.version = version])]
          /\ UNCHANGED <<held, lease, wire>>
      BY <2>2 DEF RequestLocal, h, transport
    <3>2. \A x \in Requests : Live(x)' => Live(x)
      BY <1>0, <2>0, <3>1 DEF Live, Waiters
    <3>3. ClaimedOnce'
      BY <1>0, <1>02, <2>0, <3>1 DEF ClaimedOnce, Waiters
    <3>4. OnlyRequestsWait'
      BY <1>0, <1>01, <1>02, <3>1, AppendReq DEF OnlyRequestsWait
    <3>. QED  BY <2>0, <3>1, <3>2, <3>3, <3>4, QuietStep
  <2>3. CASE RequestRemote(r)
    <3>1. /\ Send(wire, pub, h, owner, [Note("req", r) EXCEPT !.version = version])
          /\ waiter' = [waiter EXCEPT ![r] = "active"]
          /\ UNCHANGED <<held, pending, lease>>
      BY <2>3 DEF RequestRemote, h
    <3>2. \A x \in Requests : Live(x)' => Live(x)
      BY <1>0, <2>0, <3>1 DEF Live, Waiters
    <3>3. ClaimedOnce'
      BY <1>0, <1>02, <2>0, <3>1 DEF ClaimedOnce, Waiters
    <3>4. OnlyRequestsWait'
      BY <1>02, <3>1 DEF OnlyRequestsWait
    <3>. QED  BY <1>0, <1>01, <1>03, <2>0, <3>1, <3>2, <3>3, <3>4, SendStep
  <2>. QED  BY <1>1, <2>1, <2>2, <2>3 DEF Request
<1>2. CASE WaitGranted(r)
  <2>1. /\ waiter[r] = "granted" /\ waiter' = [waiter EXCEPT ![r] = "none"]
        /\ pc' = [pc EXCEPT ![r] = "holding"]
        /\ UNCHANGED <<owner, epoch, version, available, held, pending, lease, wire>>
    BY <1>2 DEF WaitGranted, shared, transport
  <2>. QED  BY <1>0, <1>02, <2>1, QuietStep DEF Live, OnlyRequestsWait, ClaimedOnce, Waiters
<1>3. CASE CancelCompleted(r) \/ CancelDrained(r)
  <2>1. /\ waiter' = [waiter EXCEPT ![r] = "none"]
        /\ pc' = [pc EXCEPT ![r] = "done"]
        /\ UNCHANGED <<owner, epoch, version, available, held, pending, lease, wire>>
    BY <1>3 DEF CancelCompleted, CancelDrained, shared, transport
  <2>. QED  BY <1>0, <1>02, <2>1, QuietStep DEF Live, OnlyRequestsWait, ClaimedOnce, Waiters
<1>4. CASE CancelGranted(r)
  <2>1. /\ waiter[r] = "granted" /\ ReleaseLease(r, [waiter EXCEPT ![r] = "none"])
        /\ pc' = [pc EXCEPT ![r] = "done"]
    BY <1>4 DEF CancelGranted
  <2>2. /\ [waiter EXCEPT ![r] = "none"] \in Waiters
        /\ [waiter EXCEPT ![r] = "none"][r] # "granted"
        /\ \A x \in Requests : x # r => [waiter EXCEPT ![r] = "none"][x] = waiter[x]
    BY <1>0 DEF Waiters, WaiterStates
  <2>. QED  BY <2>1, <2>2, ReleaseSafe DEF Live
<1>5. CASE CancelLocal(r)
  <2>1. /\ Unqueue(h, r)
        /\ \E left \in WaiterStates :
             left # "granted" /\ waiter' = [waiter EXCEPT ![r] = left]
        /\ \E to \in {"drained", "done"} : pc' = [pc EXCEPT ![r] = to]
        /\ UNCHANGED <<owner, epoch, version, available, held, lease, wire>>
    BY <1>5 DEF CancelLocal, Completed, WaiterStates, shared, transport, h
  <2>2. OnlyRequestsWait'
    BY <1>0, <2>1, UnqueueSafe DEF OnlyRequestsWait
  <2>3. ClaimedOnce' /\ \A x \in Requests : Live(x)' => Live(x)
    BY <1>0, <1>02, <2>1 DEF Live, ClaimedOnce, Waiters
  <2>. QED  BY <2>1, <2>2, <2>3, QuietStep
<1>6. CASE CancelRemote(r)
  <2>1. /\ Send(wire, pub, h, owner, Note("cancel", r))
        /\ waiter' = [waiter EXCEPT ![r] = "cancelling"]
        /\ \E to \in {"drained", "done"} : pc' = [pc EXCEPT ![r] = to]
        /\ UNCHANGED <<owner, epoch, version, available, held, pending, lease>>
    BY <1>6 DEF CancelRemote, shared, h
  <2>2. OnlyRequestsWait'
    BY <1>02, <2>1 DEF OnlyRequestsWait
  <2>3. ClaimedOnce' /\ \A x \in Requests : Live(x)' => Live(x)
    BY <1>0, <1>02, <2>1 DEF Live, ClaimedOnce, Waiters
  <2>. QED  BY <1>0, <1>01, <1>03, <2>1, <2>2, <2>3, SendStep
<1>7. CASE CancelAndWait(r) \/ CancelTimeout(r)
  <2>1. /\ \E to \in {"draining", "done", "gaveup"} : pc' = [pc EXCEPT ![r] = to]
        /\ UNCHANGED <<owner, epoch, version, available, held, pending, lease, wire, waiter>>
    BY <1>7 DEF CancelAndWait, CancelTimeout, shared, service, transport
  <2>. QED  BY <1>0, <1>02, <2>1, QuietStep DEF Live, OnlyRequestsWait, ClaimedOnce
<1>8. CASE BeginWriteback(r)
  <2>1. /\ pc[r] = "holding" /\ pc' = [pc EXCEPT ![r] = "publishing"]
        /\ UNCHANGED <<owner, epoch, version, available, held, pending, lease, wire, waiter>>
    BY <1>8 DEF BeginWriteback, service, transport
  <2>. QED  BY <1>0, <1>02, <2>1, QuietStep DEF Live, OnlyRequestsWait, ClaimedOnce
<1>9. CASE Commit(r) \/ Abort(r)
  <2>1. /\ pc[r] \in {"holding", "publishing"} /\ ReleaseLease(r, waiter)
        /\ pc' = [pc EXCEPT ![r] = "done"]
    BY <1>9 DEF Commit, Abort
  <2>2. waiter[r] = "none"
    BY <1>02, <2>1 DEF ClaimedOnce
  <2>. QED  BY <1>0, <2>1, <2>2, ReleaseSafe DEF Live
<1>. QED  BY <1>1, <1>2, <1>3, <1>4, <1>5, <1>6, <1>7, <1>8, <1>9 DEF Client, Cancel

\* A handler that only consumes its message.
LEMMA ConsumeStep ==
  ASSUME TypeInv, TypeInv', TokenInv, NEW h \in Hosts, NEW s \in Hosts,
         Inbound(h, s), wire' = Popped(h, s),
         UNCHANGED <<owner, epoch, version, available, held, lease>>,
         \A r \in Requests : Live(r)' => Live(r),
         OnlyRequestsWait', ClaimedOnce'
  PROVE  TokenInv'
<1>1. wire \in Wires /\ wire' \in Wires
  BY DEF TypeInv, TypeOK, Wires
<1>2. GrantAuthoritative'
  BY <1>1, PopGrants, GrantFrame
<1>3. (TokenAtOwner /\ LeaseCurrent /\ SingleWriter)'
  BY TokenFrame
<1>. QED  BY <1>2, <1>3 DEF TokenInv, OnlyRequestsWait, ClaimedOnce

\* A completed cancellation takes no lease away and gives none.
LEMMA AcknowledgedSafe ==
  ASSUME waiter \in Waiters, ClaimedOnce, NEW r \in Requests,
         waiter' \in {waiter, Acknowledged(r)}, pc' = pc
  PROVE  ClaimedOnce' /\ \A x \in Requests : Live(x)' => Live(x)
BY DEF Acknowledged, Completed, ClaimedOnce, Live, Waiters

\* Every message handler keeps TokenInv.
LEMMA HandlerSafe ==
  ASSUME TypeInv, TypeInv', TokenInv, NEW h \in Hosts, NEW s \in Hosts,
         HandleMessage(h, s)
  PROVE  TokenInv'
<1>. DEFINE m == Head(wire[s][h])
<1>0. /\ wire \in Wires /\ waiter \in Waiters /\ lease \in [Requests -> Nat]
      /\ pending \in [Hosts -> Seq(Msg)] /\ pc \in [Requests -> Places]
      /\ available \in [Hosts -> BOOLEAN] /\ held \in [Hosts -> BOOLEAN]
      /\ owner \in Hosts
  BY DEF TypeInv, TypeOK, Wires, Waiters
<1>1. Inbound(h, s)
  BY DEF HandleMessage, Handling, Forward, QueueRequest, GrantRequest, AcceptGrant,
         ReleaseLateGrant, RefuseGrant, HandleCancel, HandleCancelAck
<1>2. /\ m \in Msg /\ Popped(h, s) \in Wires /\ m.req \in Requests
      /\ Requester[m.req] \in Hosts
  BY <1>1, PopType, MsgFields
<1>3. GrantsWithin(Popped(h, s), wire)
  BY <1>1, PopGrants
<1>4. OnlyRequestsWait /\ ClaimedOnce /\ Authority(wire)
  BY TokenInvParts, AuthorityOfWire
<1>. HIDE DEF m
<1>5. CASE Forward(h, s)
  <2>1. /\ Send(Popped(h, s), Room(h, s), h, owner, m) /\ m.kind # "grant"
        /\ UNCHANGED <<owner, epoch, version, available, held, pending, waiter, lease, pc>>
    BY <1>5 DEF Forward, Handling, shared, service, m
  <2>2. /\ OnlyRequestsWait' /\ ClaimedOnce'
        /\ \A x \in Requests : Live(x)' => Live(x)
    BY <1>4, <2>1 DEF OnlyRequestsWait, ClaimedOnce, Live
  <2>. QED  BY <1>0, <1>2, <1>3, <2>1, <2>2, SendStep
<1>6. CASE QueueRequest(h, s)
  <2>1. /\ m.kind = "req" /\ wire' = Popped(h, s)
        /\ pending' = [pending EXCEPT ![h] = Append(@, m)]
        /\ UNCHANGED <<owner, epoch, version, available, held, waiter, lease, pc>>
    BY <1>6 DEF QueueRequest, Handling, shared, m
  <2>2. OnlyRequestsWait'
    BY <1>0, <1>2, <1>4, <2>1, AppendReq DEF OnlyRequestsWait
  <2>3. ClaimedOnce' /\ \A x \in Requests : Live(x)' => Live(x)
    BY <1>4, <2>1 DEF ClaimedOnce, Live
  <2>. QED  BY <1>1, <2>1, <2>2, <2>3, ConsumeStep
<1>7. CASE GrantRequest(h, s)
  <2>. DEFINE q == <<m>> \o pending[h]
  <2>1. /\ m.kind = "req" /\ owner = h /\ available[h] /\ ~held[h] /\ pc' = pc
        /\ Settles(h, waiter, lease, Popped(h, s), Room(h, s), q)
    <3>1. m.kind = "req"
      BY <1>7 DEF GrantRequest, Handling, m
    <3>. QED  BY <1>7, <3>1, GrantSettles DEF m
  <2>2. \A x \in Requests : ~Live(x)
    BY <2>1, NobodyLive DEF TokenInv
  <2>3. /\ \A x \in Requests : waiter[x] # "granted"
        /\ \A x \in Requests : pc'[x] \notin {"holding", "publishing"}
    BY <2>1, <2>2 DEF Live
  <2>4. NoGrant(Popped(h, s))
    BY <1>3, <1>4, <2>1, NoGrantWhileAvailable, NoGrantWithin
  <2>5. \A x \in Hosts : x # h => ~available[x] /\ ~held[x]
    BY <2>1 DEF TokenInv, TokenAtOwner
  <2>6. q \in Seq(Msg) /\ \A i \in 1 .. Len(q) : q[i].kind = "req"
    <3>1. <<m>> \in Seq(Msg) /\ Len(<<m>>) = 1 /\ <<m>>[1] = m
      BY <1>2
    <3>2. /\ pending[h] \in Seq(Msg) /\ Len(pending[h]) \in Nat
          /\ \A i \in 1 .. Len(pending[h]) : pending[h][i].kind = "req"
      BY <1>0, <1>4, LenProperties DEF OnlyRequestsWait
    <3>3. /\ q \in Seq(Msg) /\ Len(q) = Len(<<m>>) + Len(pending[h])
          /\ \A i \in 1 .. Len(<<m>>) + Len(pending[h]) :
               q[i] = IF i <= Len(<<m>>) THEN <<m>>[i] ELSE pending[h][i - Len(<<m>>)]
      BY <3>1, <3>2, ConcatProperties
    <3>4. ASSUME NEW i \in 1 .. Len(q) PROVE q[i].kind = "req"
      <4>. HIDE DEF q
      <4>1. CASE i <= 1
        BY <2>1, <3>1, <3>2, <3>3, <4>1
      <4>2. CASE i > 1
        <5>1. i - 1 \in 1 .. Len(pending[h]) /\ q[i] = pending[h][i - 1]
          BY <3>1, <3>2, <3>3, <4>2
        <5>. QED  BY <3>2, <5>1
      <4>3. i \in Int
        OBVIOUS
      <4>. QED  BY <4>1, <4>2, <4>3
    <3>. QED  BY <3>3, <3>4
  <2>. HIDE DEF q
  <2>. QED  BY <1>0, <1>2, <1>4, <2>1, <2>3, <2>4, <2>5, <2>6, SettlesSafe
            DEF OnlyRequestsWait
<1>8. ASSUME m.kind = "grant"
      PROVE  /\ owner = h /\ Requester[m.req] = h /\ epoch = m.epoch
             /\ \A x \in Hosts : ~available[x] /\ ~held[x]
             /\ \A x \in Requests : ~Live(x)
             /\ NoGrant(Popped(h, s))
  <2>1. NoGrant(Popped(h, s))
    BY <1>1, <1>4, <1>8, PopLastGrant DEF m
  <2>2. 1 \in DOMAIN wire[s][h] /\ wire[s][h][1] = m
    <3>1. wire[s][h] \in Seq(Msg) /\ wire[s][h] # <<>>
      BY <1>1, PopType
    <3>2. Len(wire[s][h]) \in Nat \ {0} /\ DOMAIN wire[s][h] = 1 .. Len(wire[s][h])
      BY <3>1, EmptySeq, LenProperties
    <3>. QED  BY <3>1, <3>2 DEF m
  <2>3. /\ owner = h /\ Requester[m.req] = h /\ epoch = m.epoch
        /\ \A x \in Hosts : ~available[x]
    BY <1>4, <1>8, <2>2 DEF Authority
  <2>4. \A x \in Hosts : ~held[x]
    BY <2>3 DEF TokenInv, TokenAtOwner
  <2>5. \A x \in Requests : ~Live(x)
    BY <2>3, NobodyLive DEF TokenInv
  <2>. QED  BY <2>1, <2>3, <2>4, <2>5
<1>9. CASE AcceptGrant(h, s)
  <2>1. /\ m.kind = "grant" /\ waiter[m.req] # "none"
        /\ held' = [held EXCEPT ![h] = TRUE]
        /\ available' = [available EXCEPT ![h] = TRUE]
        /\ waiter' = [waiter EXCEPT ![m.req] = "granted"]
        /\ lease' = [lease EXCEPT ![m.req] = m.epoch]
        /\ wire' = Popped(h, s)
        /\ UNCHANGED <<owner, epoch, version, pending, pc>>
    BY <1>9 DEF AcceptGrant, Handling, GrantMatches, m
  <2>2. /\ owner = h /\ Requester[m.req] = h /\ epoch = m.epoch
        /\ \A x \in Hosts : ~available[x] /\ ~held[x]
        /\ \A x \in Requests : ~Live(x)
        /\ NoGrant(Popped(h, s))
    BY <1>8, <2>1
  <2>3. \A x \in Requests : Live(x)' => x = m.req
    BY <1>0, <1>2, <2>1, <2>2 DEF Live, Waiters
  <2>4. SingleWriter'
    BY <2>3 DEF SingleWriter
  <2>5. LeaseCurrent'
    <3>1. lease'[m.req] = epoch /\ held'[h] /\ available'[h] /\ owner' = h /\ epoch' = epoch
      BY <1>0, <1>2, <2>1, <2>2
    <3>. QED  BY <2>2, <2>3, <3>1 DEF LeaseCurrent, LeaseValid
  <2>6. TokenAtOwner'
    BY <1>0, <2>1, <2>2 DEF TokenAtOwner
  <2>7. GrantAuthoritative'
    <3>1. NoGrant(wire)'
      BY <2>1, <2>2 DEF NoGrant
    <3>. QED  BY <3>1 DEF GrantAuthoritative, NoGrant
  <2>8. OnlyRequestsWait'
    BY <1>4, <2>1 DEF OnlyRequestsWait
  <2>9. ClaimedOnce'
    BY <1>0, <1>2, <1>4, <2>1 DEF ClaimedOnce, Waiters
  <2>. QED  BY <2>4, <2>5, <2>6, <2>7, <2>8, <2>9 DEF TokenInv, OnlyRequestsWait, ClaimedOnce
<1>10. CASE ReleaseLateGrant(h, s)
  <2>. DEFINE W == [waiter EXCEPT ![m.req] = Completed(m.req)]
  <2>1. /\ m.kind = "grant" /\ pc' = pc
        /\ Settles(h, W, lease, Popped(h, s), Room(h, s), pending[h])
    <3>1. m.kind = "grant"
      BY <1>10 DEF ReleaseLateGrant, Handling, m
    <3>. QED  BY <1>10, <3>1, LateGrantSettles DEF m
  <2>2. /\ owner = h
        /\ \A x \in Hosts : ~available[x] /\ ~held[x]
        /\ \A x \in Requests : ~Live(x)
        /\ NoGrant(Popped(h, s))
    BY <1>8, <2>1
  <2>3. W \in Waiters /\ \A x \in Requests : W[x] # "granted"
    BY <1>0, <1>2, <2>2 DEF Live, Completed, Waiters, WaiterStates
  <2>4. \A x \in Requests : pc'[x] \notin {"holding", "publishing"}
    BY <2>1, <2>2 DEF Live
  <2>5. pending[h] \in Seq(Msg) /\ \A i \in 1 .. Len(pending[h]) : pending[h][i].kind = "req"
    BY <1>0, <1>4, LenProperties DEF OnlyRequestsWait
  <2>. HIDE DEF W
  <2>. QED  BY <1>0, <1>2, <1>4, <2>1, <2>2, <2>3, <2>4, <2>5, SettlesSafe
            DEF OnlyRequestsWait
<1>11. CASE RefuseGrant(h, s)
  <2>1. /\ wire' = Popped(h, s)
        /\ UNCHANGED <<owner, epoch, version, available, held, pending, waiter, lease, pc>>
    BY <1>11 DEF RefuseGrant, shared, service
  <2>2. /\ OnlyRequestsWait' /\ ClaimedOnce'
        /\ \A x \in Requests : Live(x)' => Live(x)
    BY <1>4, <2>1 DEF OnlyRequestsWait, ClaimedOnce, Live
  <2>. QED  BY <1>1, <2>1, <2>2, ConsumeStep
<1>12. CASE HandleCancel(h, s)
  <2>1. /\ Unqueue(h, m.req) /\ waiter' \in {waiter, Acknowledged(m.req)}
        /\ UNCHANGED <<owner, epoch, version, available, held, lease, pc>>
    BY <1>12 DEF HandleCancel, shared, m
  <2>2. OnlyRequestsWait'
    BY <2>1, UnqueueSafe DEF OnlyRequestsWait
  <2>3. ClaimedOnce' /\ \A x \in Requests : Live(x)' => Live(x)
    BY <1>0, <1>2, <1>4, <2>1, AcknowledgedSafe
  <2>4. CASE Requester[m.req] = h
    <3>1. wire' = Popped(h, s)
      BY <1>12, <2>4 DEF HandleCancel, m
    <3>. QED  BY <1>1, <2>1, <2>2, <2>3, <3>1, ConsumeStep
  <2>5. CASE Requester[m.req] # h
    <3>1. Send(Popped(h, s), Room(h, s), h, Requester[m.req], Note("ack", m.req))
      BY <1>12, <2>5 DEF HandleCancel, m
    <3>2. Note("ack", m.req) \in Msg /\ Note("ack", m.req).kind # "grant"
      BY <1>2 DEF Note, Msg, Kinds
    <3>. QED  BY <1>2, <1>3, <2>1, <2>2, <2>3, <3>1, <3>2, SendStep
  <2>. QED  BY <2>4, <2>5
<1>13. CASE HandleCancelAck(h, s)
  <2>1. /\ wire' = Popped(h, s) /\ waiter' = Acknowledged(m.req)
        /\ UNCHANGED <<owner, epoch, version, available, held, pending, lease, pc>>
    BY <1>13 DEF HandleCancelAck, shared, m
  <2>2. OnlyRequestsWait'
    BY <1>4, <2>1 DEF OnlyRequestsWait
  <2>3. ClaimedOnce' /\ \A x \in Requests : Live(x)' => Live(x)
    BY <1>0, <1>2, <1>4, <2>1, AcknowledgedSafe
  <2>. QED  BY <1>1, <2>1, <2>2, <2>3, ConsumeStep
<1>. QED  BY <1>5, <1>6, <1>7, <1>9, <1>10, <1>11, <1>12, <1>13 DEF HandleMessage

\* ProgressOutbound keeps TokenInv.
LEMMA ProgressSafe ==
  ASSUME TypeInv, TokenInv, NEW h \in Hosts, ProgressOutbound(h)
  PROVE  TokenInv'
<1>1. UNCHANGED <<owner, epoch, version, available, held, pending, waiter, lease, wire, pc>>
  BY DEF ProgressOutbound, shared, service
<1>2. OnlyRequestsWait /\ ClaimedOnce
  BY TokenInvParts
<1>. QED  BY <1>1, <1>2, QuietStep DEF OnlyRequestsWait, ClaimedOnce, Live

\* TokenInv holds when the object has just been allocated.
LEMMA TokenInit == Init => TokenInv
<1>. SUFFICES ASSUME Init PROVE TokenInv
  OBVIOUS
<1>1. /\ \A s, d \in Hosts : wire[s][d] = <<>>
      /\ \A h \in Hosts : pending[h] = <<>>
      /\ \A h \in Hosts : ~held[h] /\ (available[h] => owner = h)
      /\ \A r \in Requests : waiter[r] = "none" /\ pc[r] = "idle"
  BY DEF Init
<1>2. GrantAuthoritative
  BY <1>1 DEF GrantAuthoritative
<1>3. TokenAtOwner
  BY <1>1 DEF TokenAtOwner
<1>4. \A r \in Requests : ~Live(r)
  BY <1>1 DEF Live
<1>5. LeaseCurrent /\ SingleWriter
  BY <1>4 DEF LeaseCurrent, SingleWriter
<1>. QED  BY <1>1, <1>2, <1>3, <1>5 DEF TokenInv

\* Every step keeps TokenInv.
LEMMA TokenKept == TypeInv /\ TypeInv' /\ TokenInv /\ [Next]_vars => TokenInv'
<1>. SUFFICES ASSUME TypeInv, TypeInv', TokenInv, [Next]_vars PROVE TokenInv'
  OBVIOUS
<1>1. CASE UNCHANGED vars
  <2>1. UNCHANGED <<owner, epoch, version, available, held, pending, waiter, lease, wire, pc>>
    BY <1>1 DEF vars, shared, service, transport
  <2>2. OnlyRequestsWait /\ ClaimedOnce
    BY TokenInvParts
  <2>. QED  BY <2>1, <2>2, QuietStep DEF OnlyRequestsWait, ClaimedOnce, Live
<1>2. CASE Next
  BY <1>2, ClientSafe, HandlerSafe, ProgressSafe DEF Next
<1>. QED  BY <1>1, <1>2

\* The token is in one place.  In every reachable state of any number of hosts
\* and requests, through Grant, forwarding, cancellation and late grants, the
\* inductive invariant holds.
THEOREM TokenSafe == Spec => []TokenInv
<1>1. Init => TokenInv
  BY TokenInit
<1>2. TypeInv /\ TypeInv' /\ TokenInv /\ [Next]_vars => TokenInv'
  BY TokenKept
<1>. QED  BY <1>1, <1>2, TypeInvariant, PTL DEF Spec

\* Mutual exclusion of writers: no interleaving of Request, Grant, Cancel and
\* Release on any hosts gives two requests the write token at once.
THEOREM MutualExclusion == Spec => []SingleWriter
<1>1. TokenInv => SingleWriter
  BY DEF TokenInv
<1>. QED  BY <1>1, TokenSafe, PTL

\* A lease that was granted stays acceptable to BeginWriteback and Release
\* until its own holder releases it.
THEOREM LeasesStayValid == Spec => []LeaseCurrent
<1>1. TokenInv => LeaseCurrent
  BY DEF TokenInv
<1>. QED  BY <1>1, TokenSafe, PTL

\* The metadata check of HandleGrant never fails: a grant in flight is unique,
\* bound for its requester and carries the published owner, epoch and version.
THEOREM GrantsAreAuthoritative == Spec => []GrantAuthoritative
<1>1. TokenInv => GrantAuthoritative
  BY DEF TokenInv
<1>. QED  BY <1>1, TokenSafe, PTL

-----------------------------------------------------------------------------
(* The state of the allocation.                                            *)

\* Clients do not retire the object; one that enters protocol_mutex_ ends the
\* race of its host with BeginRetire.
LEMMA ClientKeepsObject ==
  ASSUME NEW r \in Requests, Client(r)
  PROVE  alloc' = alloc /\ racing' \in {racing, racing \ {Requester[r]}}
BY DEF Client, Request, WaitGranted, Cancel, CancelGranted, CancelCompleted, CancelLocal,
       CancelRemote, CancelAndWait, CancelDrained, CancelTimeout, BeginWriteback, Commit, Abort,
       ReleaseLease, Locked

\* A handler runs while the object is not retired, or is the one that
\* BeginRetire met, and is it no more.
LEMMA HandlerKeepsObject ==
  ASSUME NEW h \in Hosts, NEW s \in Hosts, HandleMessage(h, s)
  PROVE  /\ alloc' = alloc /\ racing' = racing \ {h}
         /\ alloc = "allocated" \/ h \in racing
BY DEF HandleMessage, Handling, FindsAllocated, Locked, Forward, QueueRequest, GrantRequest,
       AcceptGrant, ReleaseLateGrant, RefuseGrant, HandleCancel, HandleCancelAck

-----------------------------------------------------------------------------
(* Requests wait where the token is.                                       *)

\* A step that keeps the token where it is and queues nothing.
LEMMA BacklogFrame ==
  ASSUME BacklogAtOwner, UNCHANGED <<owner, available, held>>,
         alloc # "allocated" => alloc' # "allocated",
         \A h \in Hosts : pending'[h] # <<>> => pending[h] # <<>>
  PROVE  BacklogAtOwner'
BY DEF BacklogAtOwner

\* Taking an entry out of a queue fills no queue.
LEMMA UnqueueEmpties ==
  ASSUME pending \in [Hosts -> Seq(Msg)], NEW h \in Hosts, NEW r, Unqueue(h, r)
  PROVE  \A x \in Hosts : pending'[x] # <<>> => pending[x] # <<>>
<1>1. CASE PendingAt(h, r) = {}
  BY <1>1 DEF Unqueue
<1>2. CASE PendingAt(h, r) # {}
  <2>1. PICK i \in PendingAt(h, r) : pending' = [pending EXCEPT ![h] = RemoveAt(@, i)]
    BY <1>2 DEF Unqueue
  <2>2. pending[h] # <<>>
    BY <2>1 DEF PendingAt
  <2>. QED  BY <2>1, <2>2
<1>. QED  BY <1>1, <1>2

\* Handing the token on takes the requests along.
LEMMA SettlesBacklog ==
  ASSUME TypeInv, BacklogAtOwner, NEW h \in Hosts, owner = h, alloc' = alloc,
         NEW W, NEW L, NEW w, NEW p, NEW q \in Seq(Msg), Settles(h, W, L, w, p, q)
  PROVE  BacklogAtOwner'
<1>1. /\ pending \in [Hosts -> Seq(Msg)] /\ held \in [Hosts -> BOOLEAN]
      /\ available \in [Hosts -> BOOLEAN]
  BY DEF TypeInv, TypeOK
<1>2. \A x \in Hosts : x # h => pending[x] = <<>>
  BY DEF BacklogAtOwner
<1>3. ASSUME NEW n \in 0 .. Len(q), NEW k \in 0 .. Len(q),
             alloc = "allocated" => n = Len(q) /\ k = Len(q),
             PutBack(h, W, L, w, p, q, n, SubSeq(q, k + 1, Len(q)))
      PROVE  BacklogAtOwner'
  <2>1. owner' = owner /\ pending' = [pending EXCEPT ![h] = SubSeq(q, k + 1, Len(q))]
    BY <1>3 DEF PutBack
  <2>2. CASE alloc = "allocated"
    <3>1. SubSeq(q, k + 1, Len(q)) = <<>>
      BY <1>3, <2>2, NothingBehind
    <3>2. \A x \in Hosts : pending'[x] = <<>>
      BY <1>1, <1>2, <2>1, <3>1
    <3>. QED  BY <3>2 DEF BacklogAtOwner
  <2>3. CASE alloc # "allocated"
    <3>1. \A x \in Hosts : x # h => pending'[x] = <<>>
      BY <1>1, <1>2, <2>1
    <3>. QED  BY <2>1, <2>3, <3>1 DEF BacklogAtOwner
  <2>. QED  BY <2>2, <2>3
<1>4. ASSUME NEW n \in 1 .. Len(q), GrantLocal(h, W, L, w, p, q, n) PROVE BacklogAtOwner'
  <2>1. /\ held' = [held EXCEPT ![h] = TRUE] /\ owner' = owner
        /\ pending' = [pending EXCEPT ![h] = SubSeq(q, n + 1, Len(q))]
    BY <1>4 DEF GrantLocal
  <2>2. held'[h] /\ \A x \in Hosts : x # h => pending'[x] = <<>>
    BY <1>1, <1>2, <2>1
  <2>. QED  BY <2>1, <2>2 DEF BacklogAtOwner
<1>5. ASSUME NEW n \in 1 .. Len(q), GrantRemote(h, W, L, w, p, q, n) PROVE BacklogAtOwner'
  <2>1. pending' = [pending EXCEPT ![h] = <<>>]
    BY <1>5 DEF GrantRemote
  <2>2. \A x \in Hosts : pending'[x] = <<>>
    BY <1>1, <1>2, <2>1
  <2>. QED  BY <2>2 DEF BacklogAtOwner
<1>. QED  BY <1>3, <1>4, <1>5 DEF Settles

\* Release does too; of a retiring object it drops them or leaves some behind.
LEMMA ReleaseBacklog ==
  ASSUME TypeInv, BacklogAtOwner, NEW r \in Requests, NEW W, ReleaseLease(r, W)
  PROVE  BacklogAtOwner'
<1>. DEFINE h == Requester[r]
            L == [lease EXCEPT ![r] = 0]
<1>1. h \in Hosts /\ owner = h /\ alloc' = alloc /\ pending[h] \in Seq(Msg)
  BY RequestsAssumption DEF ReleaseLease, LeaseValid, TypeInv, TypeOK
<1>2. Settles(h, W, L, wire, pub, pending[h])
  BY ReleaseSettles
<1>. HIDE DEF h, L
<1>. QED  BY <1>1, <1>2, SettlesBacklog

\* Every client operation keeps the backlog at the owner.
LEMMA ClientBacklog ==
  ASSUME TypeInv, TokenInv, BacklogAtOwner, NEW r \in Requests, Client(r)
  PROVE  BacklogAtOwner'
<1>. DEFINE h == Requester[r]
<1>0. /\ h \in Hosts /\ pending \in [Hosts -> Seq(Msg)]
      /\ held \in [Hosts -> BOOLEAN] /\ available \in [Hosts -> BOOLEAN]
  BY RequestsAssumption DEF TypeInv, TypeOK
<1>00. alloc' = alloc
  BY ClientKeepsObject
<1>1. CASE Request(r)
  <2>0. UNCHANGED <<owner, available>>
    BY <1>1 DEF Request
  <2>1. CASE RequestLocal(r) /\ available[h] /\ ~held[h]
    <3>1. /\ pending' = pending /\ held' = [held EXCEPT ![h] = TRUE]
          /\ owner = h
      BY <1>0, <2>1 DEF RequestLocal
    <3>. HIDE DEF h
    <3>. QED  BY <1>0, <1>00, <2>0, <3>1 DEF BacklogAtOwner
  <2>2. CASE RequestLocal(r) /\ ~(available[h] /\ ~held[h])
    <3>1. /\ owner = h /\ held' = held
          /\ pending' = [pending EXCEPT ![h] =
                           Append(@, [Note("req", r) EXCEPT !.version = version])]
      BY <2>2 DEF RequestLocal
    <3>. HIDE DEF h
    <3>. QED  BY <1>0, <1>00, <2>0, <2>2, <3>1 DEF BacklogAtOwner
  <2>3. CASE RequestRemote(r)
    BY <1>00, <2>0, <2>3, BacklogFrame DEF RequestRemote
  <2>. QED  BY <1>1, <2>1, <2>2, <2>3 DEF Request
<1>2. CASE WaitGranted(r) \/ CancelCompleted(r) \/ CancelRemote(r) \/ CancelDrained(r)
  <2>1. UNCHANGED <<owner, available, held, pending>>
    BY <1>2 DEF WaitGranted, CancelCompleted, CancelRemote, CancelDrained, shared
  <2>. QED  BY <1>00, <2>1, BacklogFrame
<1>3. CASE CancelAndWait(r) \/ CancelTimeout(r) \/ BeginWriteback(r)
  <2>1. UNCHANGED <<owner, available, held, pending>>
    BY <1>3 DEF CancelAndWait, CancelTimeout, BeginWriteback, shared, service
  <2>. QED  BY <1>00, <2>1, BacklogFrame
<1>4. CASE CancelGranted(r)
  BY <1>4, ReleaseBacklog DEF CancelGranted
<1>5. CASE CancelLocal(r)
  <2>1. Unqueue(h, r) /\ UNCHANGED <<owner, available, held>>
    BY <1>5 DEF CancelLocal, shared
  <2>. QED  BY <1>0, <1>00, <2>1, UnqueueEmpties, BacklogFrame
<1>6. CASE Commit(r) \/ Abort(r)
  BY <1>6, ReleaseBacklog DEF Commit, Abort
<1>. QED  BY <1>1, <1>2, <1>3, <1>4, <1>5, <1>6 DEF Client, Cancel

\* Every handler keeps the backlog at the owner.
LEMMA HandlerBacklog ==
  ASSUME TypeInv, TokenInv, BacklogAtOwner, NEW h \in Hosts, NEW s \in Hosts, HandleMessage(h, s)
  PROVE  BacklogAtOwner'
<1>0. /\ pending \in [Hosts -> Seq(Msg)]
      /\ held \in [Hosts -> BOOLEAN] /\ available \in [Hosts -> BOOLEAN]
  BY DEF TypeInv, TypeOK
<1>00. alloc' = alloc
  BY HandlerKeepsObject
<1>1. CASE Forward(h, s) \/ RefuseGrant(h, s) \/ HandleCancelAck(h, s)
  <2>1. UNCHANGED <<owner, available, held, pending>>
    BY <1>1 DEF Forward, RefuseGrant, HandleCancelAck, shared, service
  <2>. QED  BY <1>00, <2>1, BacklogFrame
<1>2. CASE QueueRequest(h, s)
  <2>1. /\ UNCHANGED <<owner, available, held>> /\ owner = h /\ (~ available[h] \/ held[h])
        /\ pending' = [pending EXCEPT ![h] = Append(@, Head(wire[s][h]))]
    BY <1>2 DEF QueueRequest, shared
  <2>. QED  BY <1>0, <1>00, <2>1 DEF BacklogAtOwner
<1>3. CASE GrantRequest(h, s)
  <2>. DEFINE q == <<Head(wire[s][h])>> \o pending[h]
  <2>1. /\ owner = h /\ q \in Seq(Msg)
        /\ Settles(h, waiter, lease, Popped(h, s), Room(h, s), q)
    BY <1>3, GrantSettles
  <2>. HIDE DEF q
  <2>. QED  BY <1>00, <2>1, SettlesBacklog
<1>4. CASE AcceptGrant(h, s)
  <2>1. /\ UNCHANGED <<owner, pending>> /\ held' = [held EXCEPT ![h] = TRUE] /\ owner = h
    BY <1>4 DEF AcceptGrant, GrantMatches
  <2>. QED  BY <1>0, <1>00, <2>1 DEF BacklogAtOwner
<1>5. CASE ReleaseLateGrant(h, s)
  <2>. DEFINE W == [waiter EXCEPT ![Head(wire[s][h]).req] = Completed(Head(wire[s][h]).req)]
  <2>1. owner = h /\ pending[h] \in Seq(Msg)
    BY <1>0, <1>5 DEF ReleaseLateGrant, GrantMatches
  <2>2. Settles(h, W, lease, Popped(h, s), Room(h, s), pending[h])
    BY <1>5, LateGrantSettles
  <2>. HIDE DEF W
  <2>. QED  BY <1>00, <2>1, <2>2, SettlesBacklog
<1>6. CASE HandleCancel(h, s)
  <2>1. Unqueue(h, Head(wire[s][h]).req) /\ UNCHANGED <<owner, available, held>>
    BY <1>6 DEF HandleCancel, shared
  <2>. QED  BY <1>0, <1>00, <2>1, UnqueueEmpties, BacklogFrame
<1>. QED  BY <1>1, <1>2, <1>3, <1>4, <1>5, <1>6 DEF HandleMessage

\* Every step keeps it.
LEMMA BacklogKept == TypeInv /\ TokenInv /\ BacklogAtOwner /\ [Next]_vars => BacklogAtOwner'
<1>. SUFFICES ASSUME TypeInv, TokenInv, BacklogAtOwner, [Next]_vars PROVE BacklogAtOwner'
  OBVIOUS
<1>1. CASE UNCHANGED vars
  BY <1>1, BacklogFrame DEF vars, shared, service
<1>2. ASSUME NEW h \in Hosts, ProgressOutbound(h) PROVE BacklogAtOwner'
  BY <1>2, BacklogFrame DEF ProgressOutbound, shared, service
<1>. QED  BY <1>1, <1>2, ClientBacklog, HandlerBacklog DEF Next

\* No request waits at a host that the token has left, nor while the token of a
\* live object is free: Release and Grant pass the queue on with the token.
THEOREM BacklogFollowsToken == Spec => []BacklogAtOwner
<1>1. Init => BacklogAtOwner
  BY DEF Init, BacklogAtOwner
<1>. QED  BY <1>1, BacklogKept, TypeInvariant, TokenSafe, PTL DEF Spec


-----------------------------------------------------------------------------
(* A cancellation travels only for a request that was given up.            *)

GivenUp == {"drained", "gaveup", "done"}

\* Every cancellation or acknowledgement in w is of a request given up in P.
CancelsIn(w, P) ==
  \A s, d \in Hosts : \A i \in DOMAIN w[s][d] :
    w[s][d][i].kind \in {"cancel", "ack"} => P[w[s][d][i].req] \in GivenUp

CancelsGivenUp == CancelsIn(wire, pc)

\* A client that gave up does not come back.
LEMMA GivenUpStays ==
  ASSUME TypeInv, Next
  PROVE  \A r \in Requests : pc[r] \in GivenUp => pc'[r] \in GivenUp
<1>0. pc \in [Requests -> Places]
  BY DEF TypeInv, TypeOK
<1>1. ASSUME NEW r \in Requests, Client(r)
      PROVE  \E to \in Places : /\ pc' = [pc EXCEPT ![r] = to]
                                /\ pc[r] \in GivenUp => to \in GivenUp
  <2>1. CASE Request(r)
    BY <2>1 DEF Request, GivenUp, Places
  <2>2. CASE WaitGranted(r) \/ CancelAndWait(r) \/ BeginWriteback(r) \/ Commit(r) \/ Abort(r)
    BY <2>2 DEF WaitGranted, CancelAndWait, BeginWriteback, Commit, Abort, GivenUp, Places
  <2>3. CASE Cancel(r)
    BY <2>3 DEF Cancel, CancelGranted, CancelCompleted, CancelLocal, CancelRemote, GivenUp, Places
  <2>4. CASE CancelDrained(r) \/ CancelTimeout(r)
    BY <2>4 DEF CancelDrained, CancelTimeout, GivenUp, Places
  <2>. QED  BY <1>1, <2>1, <2>2, <2>3, <2>4 DEF Client
<1>2. ASSUME NEW h \in Hosts, NEW s \in Hosts, HandleMessage(h, s) PROVE pc' = pc
  BY <1>2 DEF HandleMessage, Forward, QueueRequest, GrantRequest, AcceptGrant,
              ReleaseLateGrant, RefuseGrant, HandleCancel, HandleCancelAck
<1>3. ASSUME NEW h \in Hosts, ProgressOutbound(h) PROVE pc' = pc
  BY <1>3 DEF ProgressOutbound
<1>. QED  BY <1>0, <1>1, <1>2, <1>3 DEF Next

\* Popping adds no cancellation.
LEMMA CancelsPop ==
  ASSUME TypeInv, NEW h \in Hosts, NEW s \in Hosts, Inbound(h, s), NEW P, CancelsIn(wire, P)
  PROVE  CancelsIn(Popped(h, s), P)
<1>. SUFFICES ASSUME NEW a \in Hosts, NEW b \in Hosts, NEW i \in DOMAIN Popped(h, s)[a][b],
                     Popped(h, s)[a][b][i].kind \in {"cancel", "ack"}
              PROVE  P[Popped(h, s)[a][b][i].req] \in GivenUp
  BY DEF CancelsIn
<1>1. PICK j \in DOMAIN wire[a][b] : wire[a][b][j] = Popped(h, s)[a][b][i]
  BY PopEntries
<1>. QED  BY <1>1 DEF CancelsIn

\* Posting adds only what is posted.
LEMMA CancelsPost ==
  ASSUME NEW w \in Wires, NEW h \in Hosts, NEW d \in Hosts, NEW ms \in Seq(Msg), NEW P,
         CancelsIn(w, P),
         \A i \in 1 .. Len(ms) : ms[i].kind \in {"cancel", "ack"} => P[ms[i].req] \in GivenUp
  PROVE  CancelsIn(Post(w, h, d, ms), P)
<1>. SUFFICES ASSUME NEW a \in Hosts, NEW b \in Hosts, NEW i \in DOMAIN Post(w, h, d, ms)[a][b],
                     Post(w, h, d, ms)[a][b][i].kind \in {"cancel", "ack"}
              PROVE  P[Post(w, h, d, ms)[a][b][i].req] \in GivenUp
  BY DEF CancelsIn
<1>1. CASE i \in DOMAIN w[a][b] /\ Post(w, h, d, ms)[a][b][i] = w[a][b][i]
  BY <1>1 DEF CancelsIn
<1>2. CASE i - Len(w[a][b]) \in 1 .. Len(ms) /\ Post(w, h, d, ms)[a][b][i] = ms[i - Len(w[a][b])]
  BY <1>2
<1>. QED  BY <1>1, <1>2, PostEntries

\* A hand-off sends no cancellation.
LEMMA SettlesCancels ==
  ASSUME epoch \in Nat, version' \in Nat, NEW h \in Hosts, NEW W, NEW L, NEW w \in Wires, NEW p,
         NEW q \in Seq(Msg), \A i \in 1 .. Len(q) : q[i].kind = "req",
         Settles(h, W, L, w, p, q), NEW P, CancelsIn(w, P)
  PROVE  CancelsIn(wire', P)
<1>1. CASE wire' = w
  BY <1>1
<1>2. ASSUME NEW n \in 1 .. Len(q), GrantRemote(h, W, L, w, p, q, n)
      PROVE  CancelsIn(wire', P)
  <2>. DEFINE r == q[n].req
              d == Requester[r]
              grant == [kind |-> "grant", req |-> r, epoch |-> epoch + 1, version |-> version']
              rest == SubSeq(q, n + 1, Len(q))
              ms == <<grant>> \o rest
  <2>1. r \in Requests /\ d \in Hosts
    BY EntryType
  <2>2. wire' = Post(w, h, d, ms)
    BY <1>2 DEF GrantRemote
  <2>3. grant \in Msg /\ grant.kind = "grant"
    BY <2>1 DEF Msg, Kinds
  <2>4. rest \in Seq(Msg) /\ Len(rest) \in Nat /\ \A i \in 1 .. Len(rest) : rest[i].kind = "req"
    BY RestType, LenProperties
  <2>. HIDE DEF grant, rest, r, d
  <2>5. /\ ms \in Seq(Msg) /\ Len(ms) = 1 + Len(rest)
        /\ \A i \in 1 .. 1 + Len(rest) : ms[i] = IF i <= 1 THEN grant ELSE rest[i - 1]
    <3>1. <<grant>> \in Seq(Msg) /\ Len(<<grant>>) = 1 /\ <<grant>>[1] = grant
      BY <2>3
    <3>2. /\ ms \in Seq(Msg) /\ Len(ms) = Len(<<grant>>) + Len(rest)
          /\ \A i \in 1 .. Len(<<grant>>) + Len(rest) :
               ms[i] = IF i <= Len(<<grant>>) THEN <<grant>>[i] ELSE rest[i - Len(<<grant>>)]
      BY <2>4, <3>1, ConcatProperties
    <3>. QED  BY <2>4, <3>1, <3>2
  <2>. HIDE DEF ms
  <2>6. ASSUME NEW i \in 1 .. Len(ms) PROVE ms[i].kind \notin {"cancel", "ack"}
    <3>1. CASE i <= 1
      BY <2>3, <2>4, <2>5, <3>1
    <3>2. CASE i > 1
      <4>1. i - 1 \in 1 .. Len(rest) /\ ms[i] = rest[i - 1]
        BY <2>4, <2>5, <3>2
      <4>. QED  BY <2>4, <4>1
    <3>3. i \in Int
      OBVIOUS
    <3>. QED  BY <3>1, <3>2, <3>3
  <2>. QED  BY <2>1, <2>2, <2>5, <2>6, CancelsPost
<1>. QED  BY <1>1, <1>2 DEF Settles, PutBack, GrantLocal

\* Nor does a release.
LEMMA ReleaseCancels ==
  ASSUME TypeInv, TypeInv', OnlyRequestsWait, NEW r \in Requests, NEW W, ReleaseLease(r, W),
         NEW P, CancelsIn(wire, P)
  PROVE  CancelsIn(wire', P)
<1>. DEFINE h == Requester[r]
            L == [lease EXCEPT ![r] = 0]
<1>0. /\ h \in Hosts /\ wire \in Wires /\ epoch \in Nat /\ version' \in Nat
      /\ pending[h] \in Seq(Msg)
  BY RequestsAssumption DEF TypeInv, TypeOK, Wires
<1>1. Settles(h, W, L, wire, pub, pending[h])
  BY ReleaseSettles
<1>2. \A i \in 1 .. Len(pending[h]) : pending[h][i].kind = "req"
  BY <1>0, LenProperties DEF OnlyRequestsWait
<1>. HIDE DEF h, L
<1>. QED  BY <1>0, <1>1, <1>2, SettlesCancels

\* Sending one message adds only that.
LEMMA CancelsSend ==
  ASSUME NEW w \in Wires, NEW p, NEW h \in Hosts, NEW d \in Hosts, NEW m \in Msg,
         Send(w, p, h, d, m), NEW P, CancelsIn(w, P),
         m.kind \in {"cancel", "ack"} => P[m.req] \in GivenUp
  PROVE  CancelsIn(wire', P)
<1>1. <<m>> \in Seq(Msg) /\ \A i \in 1 .. Len(<<m>>) : <<m>>[i] = m
  OBVIOUS
<1>2. wire' = Post(w, h, d, <<m>>)
  BY DEF Send
<1>. QED  BY <1>1, <1>2, CancelsPost

\* A request in front of the pending queue leaves a queue of requests.
LEMMA PrefixedRequests ==
  ASSUME pending \in [Hosts -> Seq(Msg)], OnlyRequestsWait, NEW h \in Hosts,
         NEW m \in Msg, m.kind = "req"
  PROVE  /\ <<m>> \o pending[h] \in Seq(Msg)
         /\ \A i \in 1 .. Len(<<m>> \o pending[h]) : (<<m>> \o pending[h])[i].kind = "req"
<1>. DEFINE q == <<m>> \o pending[h]
<1>1. <<m>> \in Seq(Msg) /\ Len(<<m>>) = 1 /\ <<m>>[1] = m
  OBVIOUS
<1>2. /\ pending[h] \in Seq(Msg) /\ Len(pending[h]) \in Nat
      /\ \A i \in 1 .. Len(pending[h]) : pending[h][i].kind = "req"
  BY LenProperties DEF OnlyRequestsWait
<1>3. /\ q \in Seq(Msg) /\ Len(q) = Len(<<m>>) + Len(pending[h])
      /\ \A i \in 1 .. Len(<<m>>) + Len(pending[h]) :
           q[i] = IF i <= Len(<<m>>) THEN <<m>>[i] ELSE pending[h][i - Len(<<m>>)]
  BY <1>1, <1>2, ConcatProperties
<1>. HIDE DEF q
<1>4. ASSUME NEW i \in 1 .. Len(q) PROVE q[i].kind = "req"
  <2>1. CASE i <= 1
    BY <1>1, <1>2, <1>3, <2>1
  <2>2. CASE i > 1
    <3>1. i - 1 \in 1 .. Len(pending[h]) /\ q[i] = pending[h][i - 1]
      BY <1>1, <1>2, <1>3, <2>2
    <3>. QED  BY <1>2, <3>1
  <2>3. i \in Int
    OBVIOUS
  <2>. QED  BY <2>1, <2>2, <2>3
<1>. QED  BY <1>3, <1>4 DEF q

\* Every step keeps it.
LEMMA CancelsKept ==
  TypeInv /\ TypeInv' /\ TokenInv /\ CancelsGivenUp /\ [Next]_vars => CancelsGivenUp'
<1>. SUFFICES ASSUME TypeInv, TypeInv', TokenInv, CancelsGivenUp, [Next]_vars
              PROVE  CancelsIn(wire', pc')
  BY DEF CancelsGivenUp, CancelsIn
<1>1. CASE UNCHANGED vars
  BY <1>1 DEF vars, transport, CancelsGivenUp
<1>2. CASE Next
  <2>0. /\ wire \in Wires /\ pc \in [Requests -> Places] /\ owner \in Hosts /\ version \in Nat
        /\ epoch \in Nat /\ version' \in Nat /\ pending \in [Hosts -> Seq(Msg)]
        /\ OnlyRequestsWait
    BY TokenInvParts DEF TypeInv, TypeOK, Wires
  <2>1. CancelsIn(wire, pc')
    <3>1. \A s, d \in Hosts : \A i \in DOMAIN wire[s][d] : wire[s][d][i].req \in Requests
      BY <2>0, LenProperties, ElementOfSeq, MsgFields DEF Wires
    <3>. QED  BY <1>2, <3>1, GivenUpStays DEF CancelsGivenUp, CancelsIn
  <2>2. ASSUME NEW r \in Requests, Client(r) PROVE CancelsIn(wire', pc')
    <3>0. /\ Requester[r] \in Hosts /\ Note("cancel", r) \in Msg /\ Note("cancel", r).req = r
          /\ [Note("req", r) EXCEPT !.version = version] \in Msg
          /\ [Note("req", r) EXCEPT !.version = version].kind = "req"
      BY <2>0, RequestsAssumption DEF Note, Msg, Kinds
    <3>1. CASE wire' = wire
      BY <2>1, <3>1
    <3>2. CASE RequestRemote(r)
      BY <2>0, <2>1, <3>0, <3>2, CancelsSend DEF RequestRemote
    <3>3. CASE CancelRemote(r)
      <4>1. pc'[r] \in GivenUp
        BY <2>0, <3>3 DEF CancelRemote, GivenUp
      <4>. QED  BY <2>0, <2>1, <3>0, <3>3, <4>1, CancelsSend DEF CancelRemote
    <3>4. CASE \E W : ReleaseLease(r, W)
      BY <2>0, <2>1, <3>4, ReleaseCancels
    <3>5. Request(r) => RequestRemote(r) \/ wire' = wire
      BY DEF Request, RequestLocal, transport
    <3>6. Cancel(r) => CancelRemote(r) \/ wire' = wire \/ \E W : ReleaseLease(r, W)
      BY DEF Cancel, CancelGranted, CancelCompleted, CancelLocal, transport
    <3>7. Commit(r) \/ Abort(r) => \E W : ReleaseLease(r, W)
      BY DEF Commit, Abort
    <3>8. WaitGranted(r) \/ CancelAndWait(r) \/ CancelDrained(r) \/ CancelTimeout(r)
            \/ BeginWriteback(r) => wire' = wire
      BY DEF WaitGranted, CancelAndWait, CancelDrained, CancelTimeout, BeginWriteback, transport
    <3>. QED  BY <2>2, <3>1, <3>2, <3>3, <3>4, <3>5, <3>6, <3>7, <3>8 DEF Client
  <2>3. ASSUME NEW h \in Hosts, NEW s \in Hosts, HandleMessage(h, s) PROVE CancelsIn(wire', pc')
    <3>. DEFINE m == Head(wire[s][h])
                w == Popped(h, s)
    <3>0. Inbound(h, s)
      BY <2>3 DEF HandleMessage, Handling, Forward, QueueRequest, GrantRequest, AcceptGrant,
             ReleaseLateGrant, RefuseGrant, HandleCancel, HandleCancelAck
    <3>1. /\ m \in Msg /\ w \in Wires /\ m.req \in Requests /\ Requester[m.req] \in Hosts
          /\ wire[s][h] \in Seq(Msg) /\ wire[s][h] # <<>>
      BY <3>0, PopType, MsgFields
    <3>2. CancelsIn(w, pc')
      BY <2>1, <3>0, CancelsPop
    <3>3. m.kind \in {"cancel", "ack"} => pc'[m.req] \in GivenUp
      <4>1. 1 \in DOMAIN wire[s][h] /\ wire[s][h][1] = m
        <5>1. Len(wire[s][h]) \in Nat \ {0} /\ DOMAIN wire[s][h] = 1 .. Len(wire[s][h])
          BY <3>1, EmptySeq, LenProperties
        <5>. QED  BY <3>1, <5>1
      <4>. QED  BY <2>1, <4>1 DEF CancelsIn
    <3>4. CASE wire' = w
      BY <3>2, <3>4
    <3>5. CASE Forward(h, s)
      <4>1. Send(w, Room(h, s), h, owner, m)
        BY <3>5 DEF Forward
      <4>. HIDE DEF m, w
      <4>. QED  BY <2>0, <3>1, <3>2, <3>3, <4>1, CancelsSend
    <3>6. CASE GrantRequest(h, s)
      <4>. DEFINE q == <<m>> \o pending[h]
      <4>1. m.kind = "req" /\ Settles(h, waiter, lease, w, Room(h, s), q)
        <5>1. m.kind = "req"
          BY <3>6 DEF GrantRequest, Handling
        <5>. QED  BY <3>6, <5>1, GrantSettles
      <4>. HIDE DEF m, w
      <4>2. q \in Seq(Msg) /\ \A i \in 1 .. Len(q) : q[i].kind = "req"
        BY <2>0, <3>1, <4>1, PrefixedRequests
      <4>. HIDE DEF q
      <4>. QED  BY <2>0, <3>1, <3>2, <4>1, <4>2, SettlesCancels
    <3>7. CASE ReleaseLateGrant(h, s)
      <4>. DEFINE W == [waiter EXCEPT ![m.req] = Completed(m.req)]
      <4>1. Settles(h, W, lease, w, Room(h, s), pending[h])
        BY <3>7, LateGrantSettles
      <4>. HIDE DEF m, w, W
      <4>2. pending[h] \in Seq(Msg) /\ \A i \in 1 .. Len(pending[h]) : pending[h][i].kind = "req"
        BY <2>0, LenProperties DEF OnlyRequestsWait
      <4>. QED  BY <2>0, <3>1, <3>2, <4>1, <4>2, SettlesCancels
    <3>8. CASE HandleCancel(h, s)
      <4>1. m.kind = "cancel"
        BY <3>8 DEF HandleCancel, Handling
      <4>2. CASE wire' = w
        BY <3>2, <4>2
      <4>3. CASE Send(w, Room(h, s), h, Requester[m.req], Note("ack", m.req))
        <5>1. Note("ack", m.req) \in Msg /\ Note("ack", m.req).req = m.req
          BY <3>1 DEF Note, Msg, Kinds
        <5>. HIDE DEF m, w
        <5>. QED  BY <3>1, <3>2, <3>3, <4>1, <4>3, <5>1, CancelsSend
      <4>. QED  BY <3>8, <4>2, <4>3 DEF HandleCancel
    <3>9. QueueRequest(h, s) \/ AcceptGrant(h, s) \/ RefuseGrant(h, s) \/ HandleCancelAck(h, s)
            => wire' = w
      BY DEF QueueRequest, AcceptGrant, RefuseGrant, HandleCancelAck
    <3>. QED  BY SMTT(60), <2>3, <3>4, <3>5, <3>6, <3>7, <3>8, <3>9 DEF HandleMessage
  <2>4. ASSUME NEW h \in Hosts, ProgressOutbound(h) PROVE CancelsIn(wire', pc')
    BY <2>1, <2>4 DEF ProgressOutbound
  <2>. QED  BY <1>2, <2>2, <2>3, <2>4 DEF Next
<1>. QED  BY <1>1, <1>2

-----------------------------------------------------------------------------
(* The token protocol implements the write lease.                          *)

\* Shared bytes are open for writing only under a lease.
OpenUnderLease == odd => \E r \in Requests : Live(r)

\* Only a client that waits, or is about to cancel, has an open or a granted
\* waiter.  A waiter is rejected only when the object retires and its host has
\* ended the operation that BeginRetire may have met, so that no grant revives it.
AwaitedOnly ==
  \A r \in Requests :
    /\ waiter[r] = "rejected" => alloc # "allocated" /\ Requester[r] \notin racing
    /\ waiter[r] \in {"active", "granted"} => pc[r] \in {"waiting", "draining"}

\* Who the abstract holder is.
LEMMA HolderIs ==
  SingleWriter => /\ \A r \in Requests : Live(r) => Holder = r
                  /\ (\A r \in Requests : ~ Live(r)) => Holder = Nobody
<1>. SUFFICES ASSUME SingleWriter
              PROVE  /\ \A r \in Requests : Live(r) => Holder = r
                     /\ (\A r \in Requests : ~ Live(r)) => Holder = Nobody
  OBVIOUS
<1>1. ASSUME NEW r \in Requests, Live(r) PROVE Holder = r
  <2>1. \A x \in Requests : Live(x) => x = r
    BY <1>1 DEF SingleWriter
  <2>2. (CHOOSE x \in Requests : Live(x)) = r
    BY <1>1, <2>1
  <2>. QED  BY <1>1, <2>2 DEF Holder
<1>2. ASSUME \A r \in Requests : ~ Live(r) PROVE Holder = Nobody
  BY <1>2 DEF Holder
<1>. QED  BY <1>1, <1>2

\* The same in the next state.
LEMMA HolderIsNext ==
  SingleWriter' => /\ \A r \in Requests : Live(r)' => Holder' = r
                   /\ (\A r \in Requests : ~ Live(r)') => Holder' = Nobody
<1>1. (SingleWriter => /\ \A r \in Requests : Live(r) => Holder = r
                       /\ (\A r \in Requests : ~ Live(r)) => Holder = Nobody)'
  BY HolderIs, PTL
<1>. QED  BY <1>1

\* The abstract variables do not change.
LEMMA LeaseStutters ==
  ASSUME SingleWriter, SingleWriter', UNCHANGED <<odd, version>>,
         \A r \in Requests : Live(r)' <=> Live(r)
  PROVE  UNCHANGED Lease!vars
<1>1. Holder' = Holder
  <2>1. CASE \E r \in Requests : Live(r)
    BY <2>1, HolderIs, HolderIsNext
  <2>2. CASE \A r \in Requests : ~ Live(r)
    BY <2>2, HolderIs, HolderIsNext
  <2>. QED  BY <2>1, <2>2
<1>. QED  BY <1>1 DEF Lease!vars

\* A request gets the lease.
LEMMA LeaseAcquired ==
  ASSUME SingleWriter, SingleWriter', odd' \in BOOLEAN, UNCHANGED version,
         \A r \in Requests : ~ Live(r), NEW r \in Requests, Live(r)'
  PROVE  Lease!Next
<1>1. Holder = Nobody /\ Holder' = r
  BY HolderIs, HolderIsNext
<1>2. Lease!Acquire(r)
  BY <1>1 DEF Lease!Acquire
<1>. QED  BY <1>2 DEF Lease!Next

\* The holder r gives the lease up, to another request or to nobody.
LEMMA LeaseYielded ==
  ASSUME SingleWriter, SingleWriter', odd' \in BOOLEAN,
         NEW r \in Requests, Live(r), ~ Live(r)',
         odd' => \E x \in Requests : Live(x)',
         version' = version \/ (odd /\ version' = version + 1)
  PROVE  Lease!Next
<1>1. Holder = r /\ r # Nobody
  BY HolderIs, RequestsAssumption
<1>2. CASE \E x \in Requests : Live(x)'
  <2>1. PICK x \in Requests : Live(x)'
    BY <1>2
  <2>2. Holder' = x /\ x # r /\ x # Nobody
    BY <2>1, HolderIsNext, RequestsAssumption
  <2>3. Lease!Yield(x)
    BY <1>1, <2>2 DEF Lease!Yield
  <2>. QED  BY <2>3 DEF Lease!Next
<1>3. CASE \A x \in Requests : ~ Live(x)'
  <2>1. Holder' = Nobody /\ ~ odd'
    BY <1>3, HolderIsNext
  <2>2. odd' = FALSE
    BY <2>1
  <2>3. Lease!Yield(Nobody)
    BY <1>1, <2>1, <2>2 DEF Lease!Yield
  <2>. QED  BY <2>3 DEF Lease!Next
<1>. QED  BY <1>2, <1>3

\* Whom a hand-off makes live, and that bytes are open only for it.
LEMMA SettlesHolder ==
  ASSUME NEW h \in Hosts, NEW W \in Waiters, NEW L, NEW w, NEW p, NEW q \in Seq(Msg),
         \A r \in Requests : W[r] # "granted",
         \A r \in Requests : pc'[r] \notin {"holding", "publishing"},
         Settles(h, W, L, w, p, q)
  PROVE  /\ \A r \in Requests : Live(r)' => W[r] # "none"
         /\ odd' => \E r \in Requests : Live(r)'
<1>1. \A n : \A r \in Requests : Skipped(W, q, n)[r] # "granted"
  BY DEF Skipped, Completed
<1>2. ASSUME NEW n \in 0 .. Len(q), NEW rest, PutBack(h, W, L, w, p, q, n, rest)
      PROVE  /\ \A r \in Requests : Live(r)' => W[r] # "none"
             /\ odd' => \E r \in Requests : Live(r)'
  BY <1>1, <1>2 DEF PutBack, Live
<1>3. ASSUME NEW n \in 1 .. Len(q), GrantLocal(h, W, L, w, p, q, n)
      PROVE  /\ \A r \in Requests : Live(r)' => W[r] # "none"
             /\ odd' => \E r \in Requests : Live(r)'
  <2>. DEFINE r == q[n].req
  <2>1. r \in Requests
    BY EntryType
  <2>2. Skipped(W, q, n - 1) \in Waiters
    BY SkippedType
  <2>3. CASE W[r] = "none"
    BY <1>1, <1>3, <2>3 DEF GrantLocal, Live
  <2>4. CASE W[r] # "none"
    <3>1. waiter' = [Skipped(W, q, n - 1) EXCEPT ![r] = "granted"]
      BY <1>3, <2>4 DEF GrantLocal
    <3>. HIDE DEF r
    <3>2. waiter'[r] = "granted" /\ \A x \in Requests : x # r => waiter'[x] # "granted"
      BY <1>1, <2>1, <2>2, <3>1 DEF Waiters
    <3>. QED  BY <2>1, <2>4, <3>2 DEF Live
  <2>. QED  BY <2>3, <2>4
<1>4. ASSUME NEW n \in 1 .. Len(q), GrantRemote(h, W, L, w, p, q, n)
      PROVE  /\ \A r \in Requests : Live(r)' => W[r] # "none"
             /\ odd' => \E r \in Requests : Live(r)'
  BY <1>1, <1>4 DEF GrantRemote, Live
<1>. QED  BY <1>2, <1>3, <1>4 DEF Settles

\* Release by the live request r whose waiter is gone.
LEMMA ReleaseHolder ==
  ASSUME TypeInv, TokenInv, NEW r \in Requests, Live(r),
         NEW W \in Waiters, W[r] = "none",
         \A x \in Requests : x # r => W[x] = waiter[x],
         pc' = [pc EXCEPT ![r] = "done"],
         ReleaseLease(r, W)
  PROVE  ~ Live(r)' /\ (odd' => \E x \in Requests : Live(x)')
<1>. DEFINE h == Requester[r]
            L == [lease EXCEPT ![r] = 0]
<1>0. h \in Hosts /\ pending[h] \in Seq(Msg) /\ pc \in [Requests -> Places]
  BY RequestsAssumption DEF TypeInv, TypeOK
<1>1. \A x \in Requests : x # r => ~ Live(x)
  BY DEF TokenInv, SingleWriter
<1>2. /\ \A x \in Requests : W[x] # "granted"
      /\ \A x \in Requests : pc'[x] \notin {"holding", "publishing"}
  BY <1>0, <1>1 DEF Live
<1>3. Settles(h, W, L, wire, pub, pending[h])
  BY ReleaseSettles
<1>. HIDE DEF h, L
<1>. QED  BY <1>0, <1>2, <1>3, SettlesHolder

\* What every step shows: bytes stay open only under a lease, and the step is
\* one of the write lease.
Refines == OpenUnderLease' /\ [Lease!Next]_(Lease!vars)

\* Nobody gets or loses the lease.
LEMMA QuietRefines ==
  ASSUME TokenInv, TokenInv', OpenUnderLease, UNCHANGED <<odd, version>>,
         \A r \in Requests : Live(r)' <=> Live(r)
  PROVE  Refines
<1>1. SingleWriter /\ SingleWriter'
  BY DEF TokenInv
<1>2. OpenUnderLease'
  BY DEF OpenUnderLease
<1>. QED  BY <1>1, <1>2, LeaseStutters DEF Refines

\* Handing the token on grants only a request whose client waits.
LEMMA SettlesAwaited ==
  ASSUME NEW h \in Hosts, NEW W \in Waiters, NEW L, NEW w, NEW p, NEW q \in Seq(Msg),
         \A r \in Requests : Requester[r] = h /\ FindsAllocated(h) => W[r] # "rejected",
         \A r \in Requests :
           /\ W[r] = "rejected" => alloc' # "allocated" /\ Requester[r] \notin racing'
           /\ W[r] \in {"active", "granted"} => pc'[r] \in {"waiting", "draining"},
         Settles(h, W, L, w, p, q)
  PROVE  AwaitedOnly'
<1>1. \A n : \A r \in Requests : Skipped(W, q, n)[r] \in {W[r], "none", "cancelled"}
  BY DEF Skipped, Completed
<1>2. ASSUME NEW n \in 0 .. Len(q), NEW rest, PutBack(h, W, L, w, p, q, n, rest)
      PROVE  AwaitedOnly'
  BY <1>1, <1>2 DEF PutBack, AwaitedOnly
<1>3. ASSUME NEW n \in 1 .. Len(q), FindsAllocated(h), GrantLocal(h, W, L, w, p, q, n)
      PROVE  AwaitedOnly'
  <2>. DEFINE r == q[n].req
  <2>1. r \in Requests
    BY EntryType
  <2>2. Skipped(W, q, n - 1) \in Waiters
    BY SkippedType
  <2>3. CASE W[r] = "none"
    BY <1>1, <1>3, <2>3 DEF GrantLocal, AwaitedOnly
  <2>4. CASE W[r] # "none"
    <3>1. waiter' = [Skipped(W, q, n - 1) EXCEPT ![r] = "granted"]
      BY <1>3, <2>4 DEF GrantLocal
    <3>2. Requester[r] = h /\ W[r] \notin {"cancelling", "cancelled"}
      BY <1>3 DEF GrantLocal, Served, PassedOver, Abandoned
    <3>. HIDE DEF r
    <3>3. W[r] \in {"active", "granted"}
      BY <1>3, <2>1, <2>4, <3>2 DEF Waiters, WaiterStates
    <3>4. \A x \in Requests : waiter'[x] = IF x = r THEN "granted" ELSE Skipped(W, q, n - 1)[x]
      BY <2>1, <2>2, <3>1 DEF Waiters
    <3>5. ASSUME NEW x \in Requests
          PROVE  /\ waiter'[x] = "rejected" => alloc' # "allocated" /\ Requester[x] \notin racing'
                 /\ waiter'[x] \in {"active", "granted"} => pc'[x] \in {"waiting", "draining"}
      BY <1>1, <2>1, <3>3, <3>4
    <3>. QED  BY <3>5 DEF AwaitedOnly
  <2>. QED  BY <2>3, <2>4
<1>4. ASSUME NEW n \in 1 .. Len(q), GrantRemote(h, W, L, w, p, q, n) PROVE AwaitedOnly'
  BY <1>1, <1>4 DEF GrantRemote, AwaitedOnly
<1>. QED  BY <1>2, <1>3, <1>4 DEF Settles

\* Release grants only a request whose client waits.
LEMMA ReleaseAwaited ==
  ASSUME TypeInv, AwaitedOnly, NEW r \in Requests, NEW W \in Waiters, W[r] = "none",
         \A x \in Requests : x # r => W[x] = waiter[x],
         pc' = [pc EXCEPT ![r] = "done"],
         ReleaseLease(r, W)
  PROVE  AwaitedOnly'
<1>. DEFINE h == Requester[r]
            L == [lease EXCEPT ![r] = 0]
<1>0. h \in Hosts /\ pending[h] \in Seq(Msg) /\ pc \in [Requests -> Places]
  BY RequestsAssumption DEF TypeInv, TypeOK
<1>1. \A x \in Requests :
        /\ W[x] = "rejected" => alloc # "allocated" /\ Requester[x] \notin racing
        /\ W[x] \in {"active", "granted"} => pc'[x] \in {"waiting", "draining"}
  BY <1>0 DEF AwaitedOnly
<1>2. alloc' = alloc /\ racing' \subseteq racing
  BY DEF ReleaseLease, Locked
<1>3. Settles(h, W, L, wire, pub, pending[h])
  BY ReleaseSettles
<1>. HIDE DEF h, L
<1>4. \A x \in Requests : Requester[x] = h /\ FindsAllocated(h) => W[x] # "rejected"
  BY <1>1 DEF FindsAllocated
<1>5. \A x \in Requests :
        /\ W[x] = "rejected" => alloc' # "allocated" /\ Requester[x] \notin racing'
        /\ W[x] \in {"active", "granted"} => pc'[x] \in {"waiting", "draining"}
  BY <1>1, <1>2
<1>. QED  BY <1>0, <1>3, <1>4, <1>5, SettlesAwaited

\* Every client operation is a step of the write lease, or none.
LEMMA ClientRefines ==
  ASSUME TypeInv, TypeInv', TokenInv, TokenInv', OpenUnderLease, AwaitedOnly,
         NEW r \in Requests, Client(r)
  PROVE  Refines /\ AwaitedOnly'
<1>. DEFINE h == Requester[r]
<1>0. /\ pc \in [Requests -> Places] /\ waiter \in Waiters /\ odd' \in BOOLEAN /\ version \in Nat
      /\ odd \in BOOLEAN
  BY DEF TypeInv, TypeOK, Waiters
<1>00. alloc' = alloc /\ racing' \subseteq racing
  BY ClientKeepsObject
<1>01. SingleWriter /\ SingleWriter' /\ ClaimedOnce
  BY DEF TokenInv, ClaimedOnce
<1>1. CASE Request(r)
  <2>0. pc[r] = "idle" /\ pc' = [pc EXCEPT ![r] = "waiting"] /\ version' = version
    BY <1>1 DEF Request
  <2>00. waiter[r] # "granted"
    BY <2>0 DEF AwaitedOnly
  <2>1. CASE RequestLocal(r) /\ available[h] /\ ~ held[h]
    <3>1. owner = h /\ waiter' = [waiter EXCEPT ![r] = "granted"]
      BY <2>1 DEF RequestLocal
    <3>2. \A x \in Requests : ~ Live(x)
      BY <2>1, <3>1, NobodyLive DEF TokenInv
    <3>3. Live(r)'
      BY <1>0, <3>1 DEF Live, Waiters
    <3>4. Lease!Next
      BY <1>0, <1>01, <2>0, <3>2, <3>3, LeaseAcquired
    <3>5. AwaitedOnly'
      BY <1>0, <1>00, <2>0, <3>1 DEF AwaitedOnly, Waiters
    <3>. QED  BY <3>3, <3>4, <3>5 DEF Refines, OpenUnderLease
  <2>2. CASE ~ (RequestLocal(r) /\ available[h] /\ ~ held[h])
    <3>1. waiter' = [waiter EXCEPT ![r] = "active"] /\ odd' = odd
      BY <1>1, <2>2 DEF Request, RequestLocal, RequestRemote
    <3>2. \A x \in Requests : Live(x)' <=> Live(x)
      BY <1>0, <2>0, <2>00, <3>1 DEF Live, Waiters
    <3>3. AwaitedOnly'
      BY <1>0, <1>00, <2>0, <3>1 DEF AwaitedOnly, Waiters
    <3>. QED  BY <2>0, <3>1, <3>2, <3>3, QuietRefines
  <2>. QED  BY <2>1, <2>2
<1>2. CASE WaitGranted(r)
  <2>1. /\ pc[r] = "waiting" /\ waiter[r] = "granted" /\ waiter' = [waiter EXCEPT ![r] = "none"]
        /\ pc' = [pc EXCEPT ![r] = "holding"] /\ UNCHANGED <<odd, version>>
    BY <1>2 DEF WaitGranted, shared
  <2>2. \A x \in Requests : Live(x)' <=> Live(x)
    BY <1>0, <2>1 DEF Live, Waiters
  <2>3. AwaitedOnly'
    BY <1>0, <1>00, <2>1 DEF AwaitedOnly, Waiters
  <2>. QED  BY <2>1, <2>2, <2>3, QuietRefines
<1>3. CASE (pc[r] \in {"waiting", "draining"} /\ CancelCompleted(r)) \/ CancelDrained(r)
  <2>1. /\ pc[r] \in {"waiting", "draining", "drained"} /\ waiter[r] # "granted"
        /\ waiter' = [waiter EXCEPT ![r] = "none"]
        /\ pc' = [pc EXCEPT ![r] = "done"] /\ UNCHANGED <<odd, version>>
    BY <1>3 DEF CancelCompleted, CancelDrained, shared
  <2>2. \A x \in Requests : Live(x)' <=> Live(x)
    BY <1>0, <2>1 DEF Live, Waiters
  <2>3. AwaitedOnly'
    BY <1>0, <1>00, <2>1 DEF AwaitedOnly, Waiters
  <2>. QED  BY <2>1, <2>2, <2>3, QuietRefines
<1>4. CASE CancelGranted(r)
  <2>. DEFINE W == [waiter EXCEPT ![r] = "none"]
  <2>1. /\ waiter[r] = "granted" /\ ReleaseLease(r, W)
        /\ pc' = [pc EXCEPT ![r] = "done"] /\ version' = version
    BY <1>4 DEF CancelGranted
  <2>2. W \in Waiters /\ W[r] = "none" /\ \A x \in Requests : x # r => W[x] = waiter[x]
    BY <1>0 DEF Waiters, WaiterStates
  <2>. HIDE DEF W
  <2>3. Live(r)
    BY <2>1 DEF Live
  <2>4. ~ Live(r)' /\ (odd' => \E x \in Requests : Live(x)')
    BY <2>1, <2>2, <2>3, ReleaseHolder
  <2>5. Lease!Next
    BY <1>0, <1>01, <2>1, <2>3, <2>4, LeaseYielded
  <2>6. AwaitedOnly'
    BY <2>1, <2>2, ReleaseAwaited
  <2>. QED  BY <2>4, <2>5, <2>6 DEF Refines, OpenUnderLease
<1>5. CASE pc[r] \in {"waiting", "draining"} /\ (CancelLocal(r) \/ CancelRemote(r))
  <2>1. /\ waiter[r] = "active"
        /\ \E left \in {"none", "cancelled", "cancelling"} : waiter' = [waiter EXCEPT ![r] = left]
        /\ \E to \in {"drained", "done"} : pc' = [pc EXCEPT ![r] = to]
        /\ UNCHANGED <<odd, version>>
    BY <1>5 DEF CancelLocal, CancelRemote, Completed, shared
  <2>2. \A x \in Requests : Live(x)' <=> Live(x)
    BY <1>0, <1>5, <2>1 DEF Live, Waiters
  <2>3. AwaitedOnly'
    BY <1>0, <1>00, <2>1 DEF AwaitedOnly, Waiters
  <2>. QED  BY <2>1, <2>2, <2>3, QuietRefines
<1>6. CASE CancelAndWait(r)
  <2>1. /\ pc[r] = "waiting" /\ waiter' = waiter /\ UNCHANGED <<odd, version>>
        /\ pc' = [pc EXCEPT ![r] = IF waiter[r] = "none" THEN "done" ELSE "draining"]
    BY <1>6 DEF CancelAndWait, shared, service
  <2>2. \A x \in Requests : Live(x)' <=> Live(x)
    BY <1>0, <2>1 DEF Live
  <2>3. AwaitedOnly'
    BY <1>0, <1>00, <2>1 DEF AwaitedOnly
  <2>. QED  BY <2>1, <2>2, <2>3, QuietRefines
<1>7. CASE CancelTimeout(r)
  <2>1. /\ pc[r] = "drained" /\ waiter' = waiter /\ UNCHANGED <<odd, version>>
        /\ pc' = [pc EXCEPT ![r] = "gaveup"]
    BY <1>7 DEF CancelTimeout, shared, service
  <2>2. \A x \in Requests : Live(x)' <=> Live(x)
    BY <1>0, <2>1 DEF Live
  <2>3. AwaitedOnly'
    BY <1>0, <1>00, <2>1 DEF AwaitedOnly
  <2>. QED  BY <2>1, <2>2, <2>3, QuietRefines
<1>8. CASE BeginWriteback(r)
  <2>1. /\ pc[r] = "holding" /\ waiter' = waiter /\ version' = version /\ ~ odd /\ odd' = TRUE
        /\ pc' = [pc EXCEPT ![r] = "publishing"]
    BY <1>8 DEF BeginWriteback, service
  <2>2. Live(r) /\ Live(r)'
    BY <1>0, <2>1 DEF Live
  <2>3. Holder = r /\ Holder' = r /\ r # Nobody
    BY <1>01, <2>2, HolderIs, HolderIsNext, RequestsAssumption
  <2>4. Lease!Next
    BY <2>1, <2>3 DEF Lease!Next, Lease!Open
  <2>5. AwaitedOnly'
    BY <1>0, <1>00, <2>1 DEF AwaitedOnly
  <2>. QED  BY <2>2, <2>4, <2>5 DEF Refines, OpenUnderLease
<1>9. CASE Commit(r) \/ Abort(r)
  <2>1. /\ pc[r] \in {"holding", "publishing"} /\ ReleaseLease(r, waiter)
        /\ pc' = [pc EXCEPT ![r] = "done"]
        /\ version' = version \/ (odd /\ version' = version + 1)
    BY <1>9 DEF Commit, Abort
  <2>2. waiter[r] = "none" /\ Live(r)
    BY <1>01, <2>1 DEF ClaimedOnce, Live
  <2>3. ~ Live(r)' /\ (odd' => \E x \in Requests : Live(x)')
    BY <1>0, <2>1, <2>2, ReleaseHolder
  <2>4. Lease!Next
    BY <1>0, <1>01, <2>1, <2>2, <2>3, LeaseYielded
  <2>5. AwaitedOnly'
    BY <1>0, <2>1, <2>2, ReleaseAwaited
  <2>. QED  BY <2>3, <2>4, <2>5 DEF Refines, OpenUnderLease
<1>. QED  BY <1>1, <1>2, <1>3, <1>4, <1>5, <1>6, <1>7, <1>8, <1>9 DEF Client, Cancel

\* A hand-off while nobody has the lease.
LEMMA SettlesRefines ==
  ASSUME TypeInv, TypeInv', TokenInv, TokenInv', OpenUnderLease, AwaitedOnly,
         NEW h \in Hosts, NEW W \in Waiters, NEW L, NEW w, NEW p, NEW q \in Seq(Msg),
         \A r \in Requests : ~ Live(r),
         \A r \in Requests : W[r] \in {waiter[r], "none", "cancelled"},
         alloc = "allocated" \/ h \in racing, alloc' = alloc, racing' = racing \ {h},
         Settles(h, W, L, w, p, q), UNCHANGED <<version, pc>>
  PROVE  Refines /\ AwaitedOnly'
<1>1. /\ \A r \in Requests : W[r] # "granted"
      /\ \A r \in Requests : pc'[r] \notin {"holding", "publishing"}
  BY DEF Live
<1>2. odd' => \E r \in Requests : Live(r)'
  BY <1>1, SettlesHolder
<1>3. AwaitedOnly'
  <2>1. \A r \in Requests :
          /\ W[r] = "rejected" => alloc' # "allocated" /\ Requester[r] \notin racing
          /\ W[r] \in {"active", "granted"} => pc'[r] \in {"waiting", "draining"}
    BY DEF AwaitedOnly
  <2>2. \A r \in Requests : Requester[r] = h => W[r] # "rejected"
    BY <2>1
  <2>. QED  BY <2>1, <2>2, SettlesAwaited
<1>4. odd' \in BOOLEAN /\ odd \in BOOLEAN /\ SingleWriter /\ SingleWriter'
  BY DEF TypeInv, TypeOK, TokenInv
<1>5. CASE \E r \in Requests : Live(r)'
  <2>1. Lease!Next
    BY <1>4, <1>5, LeaseAcquired
  <2>. QED  BY <1>2, <1>3, <2>1 DEF Refines, OpenUnderLease
<1>6. CASE \A r \in Requests : ~ Live(r)'
  <2>1. ~ odd /\ ~ odd'
    BY <1>2, <1>6 DEF OpenUnderLease
  <2>2. odd' = odd
    BY <1>4, <2>1
  <2>. QED  BY <1>3, <1>6, <2>2, QuietRefines
<1>. QED  BY <1>5, <1>6

\* Every message handler is a step of the write lease, or none.
LEMMA HandlerRefines ==
  ASSUME TypeInv, TypeInv', TokenInv, TokenInv', OpenUnderLease, AwaitedOnly, CancelsGivenUp,
         NEW h \in Hosts, NEW s \in Hosts, HandleMessage(h, s)
  PROVE  Refines /\ AwaitedOnly'
<1>. DEFINE m == Head(wire[s][h])
<1>0. /\ waiter \in Waiters /\ pc \in [Requests -> Places] /\ pending \in [Hosts -> Seq(Msg)]
      /\ odd' \in BOOLEAN /\ SingleWriter /\ SingleWriter' /\ Authority(wire)
      /\ LeaseCurrent /\ TokenAtOwner
  BY AuthorityOfWire DEF TypeInv, TypeOK, Waiters, TokenInv
<1>1. Inbound(h, s)
  BY DEF HandleMessage, Handling, Forward, QueueRequest, GrantRequest, AcceptGrant,
         ReleaseLateGrant, RefuseGrant, HandleCancel, HandleCancelAck
<1>2. m \in Msg /\ m.req \in Requests /\ wire[s][h] \in Seq(Msg) /\ wire[s][h] # <<>>
  BY <1>1, PopType, MsgFields
<1>9. 1 \in DOMAIN wire[s][h] /\ wire[s][h][1] = m
  <2>1. Len(wire[s][h]) \in Nat \ {0} /\ DOMAIN wire[s][h] = 1 .. Len(wire[s][h])
    BY <1>2, EmptySeq, LenProperties
  <2>. QED  BY <1>2, <2>1
<1>3. ASSUME m.kind = "grant" PROVE \A x \in Requests : ~ Live(x)
  <2>1. \A x \in Hosts : ~ available[x]
    BY <1>0, <1>3, <1>9 DEF Authority
  <2>. QED  BY <1>0, <2>1, NobodyLive DEF TypeInv, TypeOK
<1>11. /\ alloc' = alloc /\ racing' = racing \ {h}
       /\ alloc = "allocated" \/ h \in racing
  BY HandlerKeepsObject
<1>. HIDE DEF m
<1>4. CASE Forward(h, s) \/ QueueRequest(h, s) \/ RefuseGrant(h, s)
  <2>1. UNCHANGED <<odd, version, waiter, pc>>
    BY <1>4 DEF Forward, QueueRequest, RefuseGrant, shared, service
  <2>2. AwaitedOnly' /\ \A x \in Requests : Live(x)' <=> Live(x)
    BY <1>11, <2>1 DEF AwaitedOnly, Live
  <2>. QED  BY <2>1, <2>2, QuietRefines
<1>5. CASE GrantRequest(h, s)
  <2>. DEFINE q == <<m>> \o pending[h]
  <2>1. /\ owner = h /\ ~ held[h] /\ UNCHANGED <<version, pc>>
        /\ Settles(h, waiter, lease, Popped(h, s), Room(h, s), q)
    BY <1>5, GrantSettles DEF m
  <2>2. \A x \in Requests : ~ Live(x)
    BY <1>0, <2>1, NobodyLive
  <2>3. q \in Seq(Msg)
    BY <1>0, <1>2, ConcatProperties
  <2>. HIDE DEF q
  <2>. QED  BY <1>0, <1>11, <2>1, <2>2, <2>3, SettlesRefines
<1>6. CASE AcceptGrant(h, s)
  <2>1. /\ m.kind = "grant" /\ waiter[m.req] \notin {"none", "cancelling", "cancelled"}
        /\ waiter' = [waiter EXCEPT ![m.req] = "granted"] /\ UNCHANGED <<version, pc>>
    BY <1>6 DEF AcceptGrant, Handling, GrantMatches, Abandoned, m
  <2>2. \A x \in Requests : ~ Live(x)
    BY <1>3, <2>1
  <2>3. \E x \in Requests : Live(x)'
    BY <1>0, <1>2, <2>1 DEF Live, Waiters
  <2>4. Lease!Next
    BY <1>0, <2>1, <2>2, <2>3, LeaseAcquired
  <2>5. AwaitedOnly'
    <3>0. Requester[m.req] = h
      BY <1>0, <1>9, <2>1 DEF Authority
    <3>1. waiter[m.req] \in {"active", "granted"}
      BY <1>0, <1>2, <1>11, <2>1, <3>0 DEF AwaitedOnly, Waiters, WaiterStates
    <3>. QED  BY <1>0, <1>2, <1>11, <2>1, <3>1 DEF AwaitedOnly, Waiters
  <2>. QED  BY <1>2, <2>3, <2>4, <2>5 DEF Refines, OpenUnderLease
<1>7. CASE ReleaseLateGrant(h, s)
  <2>. DEFINE W == [waiter EXCEPT ![m.req] = Completed(m.req)]
  <2>1. /\ m.kind = "grant" /\ UNCHANGED <<version, pc>>
        /\ Settles(h, W, lease, Popped(h, s), Room(h, s), pending[h])
    <3>1. m.kind = "grant"
      BY <1>7 DEF ReleaseLateGrant, Handling, m
    <3>. QED  BY <1>7, <3>1, LateGrantSettles DEF m
  <2>2. \A x \in Requests : ~ Live(x)
    BY <1>3, <2>1
  <2>3. W \in Waiters /\ \A x \in Requests : W[x] \in {waiter[x], "none", "cancelled"}
    BY <1>0, <1>2 DEF Completed, Waiters, WaiterStates
  <2>4. pending[h] \in Seq(Msg)
    BY <1>0
  <2>. HIDE DEF W
  <2>. QED  BY <1>11, <2>1, <2>2, <2>3, <2>4, SettlesRefines
<1>8. CASE HandleCancel(h, s) \/ HandleCancelAck(h, s)
  <2>1. waiter' \in {waiter, Acknowledged(m.req)} /\ UNCHANGED <<odd, version, pc>>
    BY <1>8 DEF HandleCancel, HandleCancelAck, shared, m
  <2>2. m.kind \in {"cancel", "ack"}
    BY <1>8 DEF HandleCancel, HandleCancelAck, Handling, m
  <2>3. waiter[m.req] \notin {"active", "granted"}
    BY <1>2, <1>9, <2>2 DEF CancelsGivenUp, CancelsIn, GivenUp, AwaitedOnly
  <2>4. \A x \in Requests : waiter'[x] = waiter[x] \/ (/\ waiter[x] \notin {"active", "granted"}
                                                        /\ waiter'[x] \in {"none", "cancelled"})
    BY <1>0, <1>2, <2>1, <2>3 DEF Acknowledged, Completed, Waiters
  <2>5. AwaitedOnly' /\ \A x \in Requests : Live(x)' <=> Live(x)
    BY <1>11, <2>1, <2>4 DEF AwaitedOnly, Live
  <2>. QED  BY <2>1, <2>5, QuietRefines
<1>. QED  BY <1>4, <1>5, <1>6, <1>7, <1>8 DEF HandleMessage

\* What the refinement needs besides TokenInv.
LeaseInv == OpenUnderLease /\ AwaitedOnly /\ CancelsGivenUp

\* Every step of the token protocol is a step of the write lease, or none.
LEMMA StepRefines ==
  TypeInv /\ TypeInv' /\ TokenInv /\ TokenInv' /\ LeaseInv /\ [Next]_vars
    => LeaseInv' /\ [Lease!Next]_(Lease!vars)
<1>. SUFFICES ASSUME TypeInv, TypeInv', TokenInv, TokenInv', LeaseInv, [Next]_vars
              PROVE  Refines /\ AwaitedOnly' /\ CancelsGivenUp'
  BY DEF LeaseInv, Refines
<1>1. CancelsGivenUp'
  BY CancelsKept DEF LeaseInv
<1>2. ASSUME UNCHANGED <<odd, version, waiter, pc, alloc>>, racing' \subseteq racing
      PROVE  Refines /\ AwaitedOnly'
  <2>1. AwaitedOnly' /\ \A x \in Requests : Live(x)' <=> Live(x)
    BY <1>2 DEF LeaseInv, AwaitedOnly, Live
  <2>. QED  BY <1>2, <2>1, QuietRefines DEF LeaseInv
<1>3. CASE UNCHANGED vars
  BY <1>1, <1>2, <1>3 DEF vars, shared, service
<1>4. ASSUME NEW h \in Hosts, ProgressOutbound(h) PROVE Refines /\ AwaitedOnly'
  BY <1>2, <1>4 DEF ProgressOutbound, Locked, shared, service
<1>5. Refines /\ AwaitedOnly'
  BY <1>3, <1>4, ClientRefines, HandlerRefines DEF Next, LeaseInv
<1>. QED  BY <1>1, <1>5

\* The token starts free.
LEMMA InitRefines == Init => Lease!Init /\ LeaseInv
<1>. SUFFICES ASSUME Init PROVE Lease!Init /\ LeaseInv
  OBVIOUS
<1>1. \A r \in Requests : ~ Live(r) /\ waiter[r] = "none"
  BY DEF Init, Live
<1>2. SingleWriter
  BY <1>1 DEF SingleWriter
<1>3. Lease!Init
  BY <1>1, <1>2, HolderIs DEF Lease!Init, Init
<1>4. CancelsGivenUp
  BY DEF Init, CancelsGivenUp, CancelsIn
<1>. QED  BY <1>1, <1>3, <1>4 DEF LeaseInv, OpenUnderLease, AwaitedOnly, Init

\* The token protocol, with its hosts, queues, forwarding and cancellation,
\* implements the write lease of WriteLease: one holder at a time, shared bytes
\* open only under the lease, and a version that moves by one and only when a
\* holder that had the block open releases.
THEOREM ImplementsLease == Spec => ImplementsWriteLease
<1>1. Init => Lease!Init /\ LeaseInv
  BY InitRefines
<1>2. TypeInv /\ TypeInv' /\ TokenInv /\ TokenInv' /\ LeaseInv /\ [Next]_vars
        => LeaseInv' /\ [Lease!Next]_(Lease!vars)
  BY StepRefines
<1>. QED  BY <1>1, <1>2, TypeInvariant, TokenSafe, PTL DEF Spec, ImplementsWriteLease, Lease!Spec

-----------------------------------------------------------------------------
(* Retirement.                                                             *)

\* A host without lease, reference, waiter or queued request of the object.
Quiet(h) ==
  /\ ~held[h] /\ ~Active(h)
  /\ \A r \in Requests : Requester[r] = h => waiter[r] = "none"
  /\ pending[h] = <<>>

\* The order of the phases, and what each has made sure of.
PhaseOK ==
  /\ phase = "idle" => alloc \in {"allocated", "free"}
  /\ phase # "idle" => alloc = "retiring"
  /\ alloc = "allocated" => closed = {} /\ drained = {} /\ racing = {}
  /\ phase = "closing" => drained = {}
  /\ phase \in {"draining", "cleaning", "reclaimable"} \/ alloc = "free" => closed = Hosts
  /\ phase \in {"cleaning", "reclaimable"} \/ alloc = "free" => drained = Hosts

\* A closed host is quiet, runs no handler and has on its queues only what
\* lies below its watermarks.
ClosedOK ==
  \A h \in closed :
    /\ h \notin racing
    /\ Quiet(h)
    /\ \A d \in Hosts : Len(wire[h][d]) <= due[h][d]

\* A drained host has passed every watermark set for it.
DrainedOK == \A h \in drained : \A s \in Hosts : due[s][h] = 0

\* The inductive invariant of the retirement transaction.
RetireInv ==
  /\ TypeInv /\ RTypeOK /\ TokenInv
  /\ PhaseOK /\ ClosedOK /\ DrainedOK

-----------------------------------------------------------------------------

(* The types of the transaction.                                           *)

\* What Max, defined by a choice, is of two naturals one of which is 0.
LEMMA MaxWithZero ==
  ASSUME NEW a \in Nat
  PROVE  Max({a - 1, 0}) = IF a = 0 THEN 0 ELSE a - 1
<1>1. CASE a = 0
  <2>1. \A x \in {a - 1, 0} : (\A y \in {a - 1, 0} : x >= y) <=> x = 0
    BY <1>1
  <2>. QED  BY <1>1, <2>1 DEF Max
<1>2. CASE a # 0
  <2>1. \A x \in {a - 1, 0} : (\A y \in {a - 1, 0} : x >= y) <=> x = a - 1
    BY <1>2
  <2>. QED  BY <1>2, <2>1 DEF Max
<1>. QED  BY <1>1, <1>2

\* How the distance to a watermark follows the cursor of its queue.
LEMMA ConsumedDue ==
  ASSUME due \in Rings, Consumed
  PROVE  /\ due' \in Rings
         /\ \A s, d \in Hosts :
              due'[s][d] = IF Len(wire'[s][d]) < Len(wire[s][d]) /\ due[s][d] # 0
                             THEN due[s][d] - 1 ELSE due[s][d]
<1>1. \A s, d \in Hosts :
        Max({due[s][d] - 1, 0}) = IF due[s][d] = 0 THEN 0 ELSE due[s][d] - 1
  BY MaxWithZero DEF Rings
<1>2. ASSUME NEW s \in Hosts, NEW d \in Hosts
      PROVE  /\ due'[s][d] = IF Len(wire'[s][d]) < Len(wire[s][d]) /\ due[s][d] # 0
                               THEN due[s][d] - 1 ELSE due[s][d]
             /\ due'[s][d] \in Nat
  <2>1. due'[s][d] = IF Len(wire'[s][d]) < Len(wire[s][d]) THEN Max({due[s][d] - 1, 0})
                                                           ELSE due[s][d]
    BY DEF Consumed
  <2>2. due[s][d] \in Nat
    BY DEF Rings
  <2>. QED  BY <1>1, <2>1, <2>2
<1>3. due' = [s \in Hosts |-> [d \in Hosts |-> due'[s][d]]]
  BY DEF Consumed
<1>4. due' \in Rings
  BY <1>2, <1>3 DEF Rings
<1>. QED  BY <1>2, <1>4

\* The rings of h after a flush of its outbound FIFOs.
LEMMA FlushedRow ==
  ASSUME NEW p \in Rings, NEW w \in Wires, NEW h \in Hosts
  PROVE  /\ \A d \in Hosts : /\ Flush(p, w, h)[h][d] \in Nat
                             /\ Flush(p, w, h)[h][d] <= Len(w[h][d])
         /\ \A s \in Hosts : s # h => Flush(p, w, h)[s] = p[s]
<1>1. \A d \in Hosts : Len(w[h][d]) \in Nat
  BY LenProperties DEF Wires
<1>2. \A d \in Hosts : /\ Min({Len(w[h][d]), Capacity}) \in Nat
                       /\ Min({Len(w[h][d]), Capacity}) <= Len(w[h][d])
  BY <1>1, MinOfTwo, CapacityAssumption
<1>. QED  BY <1>2 DEF Flush, Rings

\* A published prefix of a queue of messages.
LEMMA PrefixType ==
  ASSUME NEW q \in Seq(Msg), NEW n \in Nat, n <= Len(q)
  PROVE  /\ SubSeq(q, 1, n) \in Seq(Msg) /\ Len(SubSeq(q, 1, n)) = n
         /\ \A i \in 1 .. n : i \in DOMAIN q /\ SubSeq(q, 1, n)[i] = q[i]
<1>1. Len(q) \in Nat /\ DOMAIN q = 1 .. Len(q) /\ \A i \in 1 .. Len(q) : q[i] \in Msg
  BY LenProperties, ElementOfSeq
<1>2. \A i \in 1 .. n : q[i] \in Msg /\ i \in DOMAIN q
  BY <1>1
<1>3. /\ SubSeq(q, 1, n) \in Seq(Msg)
      /\ Len(SubSeq(q, 1, n)) = IF 1 <= n THEN n - 1 + 1 ELSE 0
      /\ \A i \in 1 .. n - 1 + 1 : SubSeq(q, 1, n)[i] = q[1 + i - 1]
  BY <1>1, <1>2, SubSeqProperties
<1>. QED  BY <1>2, <1>3

\* CloseObject truncates the wires of its host to what is published.
LEMMA CloseWires ==
  ASSUME TypeInv, NEW h \in Hosts, CloseObject(h)
  PROVE  /\ wire' \in Wires /\ pub' \in Rings /\ RingsFilled(pub', wire')
         /\ GrantsWithin(wire', wire)
         /\ \A d \in Hosts : Len(wire'[h][d]) = pub'[h][d]
         /\ \A s, d \in Hosts : s # h => wire'[s][d] = wire[s][d]
         /\ \A s, d \in Hosts : \A i \in DOMAIN wire'[s][d] :
              i \in DOMAIN wire[s][d] /\ wire[s][d][i] = wire'[s][d][i]
<1>0. wire \in Wires /\ pub \in Rings /\ RingsFilled(pub, wire)
  BY DEF TypeInv, TypeOK, Wires, Rings
<1>1. /\ pub' = Flush(pub, wire, h)
      /\ wire' = [wire EXCEPT ![h] = [d \in Hosts |-> SubSeq(wire[h][d], 1, pub'[h][d])]]
  BY DEF CloseObject
<1>2. pub' \in Rings
  <2>1. \A s, d \in Hosts : Len(wire[s][d]) <= Len(wire[s][d])
    BY <1>0, LenProperties DEF Wires
  <2>. QED  BY <1>0, <1>1, <2>1, FlushType
<1>3. /\ \A d \in Hosts : pub'[h][d] \in Nat /\ pub'[h][d] <= Len(wire[h][d])
      /\ \A s \in Hosts : s # h => pub'[s] = pub[s]
  BY <1>0, <1>1, FlushedRow
<1>4. \A d \in Hosts :
        /\ wire'[h][d] \in Seq(Msg) /\ Len(wire'[h][d]) = pub'[h][d]
        /\ \A i \in 1 .. pub'[h][d] : i \in DOMAIN wire[h][d] /\ wire'[h][d][i] = wire[h][d][i]
  <2>. SUFFICES ASSUME NEW d \in Hosts
                PROVE  /\ wire'[h][d] \in Seq(Msg) /\ Len(wire'[h][d]) = pub'[h][d]
                       /\ \A i \in 1 .. pub'[h][d] :
                            i \in DOMAIN wire[h][d] /\ wire'[h][d][i] = wire[h][d][i]
    OBVIOUS
  <2>1. wire'[h][d] = SubSeq(wire[h][d], 1, pub'[h][d]) /\ wire[h][d] \in Seq(Msg)
    BY <1>0, <1>1 DEF Wires
  <2>. QED  BY <1>3, <2>1, PrefixType
<1>5. \A s, d \in Hosts : s # h => wire'[s][d] = wire[s][d]
  BY <1>0, <1>1 DEF Wires
<1>6. wire' \in Wires
  <2>1. \A s \in Hosts : wire'[s] \in [Hosts -> Seq(Msg)]
    <3>1. wire'[h] = [d \in Hosts |-> wire'[h][d]]
      BY <1>0, <1>1 DEF Wires
    <3>2. wire'[h] \in [Hosts -> Seq(Msg)]
      BY <1>4, <3>1
    <3>. QED  BY <1>0, <1>1, <3>2 DEF Wires
  <2>2. wire' = [s \in Hosts |-> wire'[s]]
    BY <1>0, <1>1 DEF Wires
  <2>. QED  BY <2>1, <2>2 DEF Wires
<1>7. RingsFilled(pub', wire')
  <2>. SUFFICES ASSUME NEW s \in Hosts, NEW d \in Hosts PROVE pub'[s][d] <= Len(wire'[s][d])
    BY DEF RingsFilled
  <2>1. CASE s = h
    BY <1>3, <1>4, <2>1
  <2>2. CASE s # h
    BY <1>0, <1>3, <1>5, <2>2 DEF RingsFilled
  <2>. QED  BY <2>1, <2>2
<1>8. ASSUME NEW s \in Hosts, NEW d \in Hosts, NEW i \in DOMAIN wire'[s][d]
      PROVE  i \in Int /\ i \in DOMAIN wire[s][d] /\ wire[s][d][i] = wire'[s][d][i]
  <2>0. wire'[s][d] \in Seq(Msg)
    BY <1>6 DEF Wires
  <2>1. i \in 1 .. Len(wire'[s][d]) /\ Len(wire'[s][d]) \in Nat
    BY <2>0, LenProperties
  <2>2. CASE s = h
    BY <1>4, <2>1, <2>2
  <2>3. CASE s # h
    BY <1>5, <2>1, <2>3
  <2>. QED  BY <2>2, <2>3
<1>9. GrantsWithin(wire', wire)
  <2>. SUFFICES ASSUME NEW s \in Hosts, NEW d \in Hosts
                PROVE  \A i \in DOMAIN wire'[s][d] :
                         i + 0 \in DOMAIN wire[s][d] /\ wire[s][d][i + 0] = wire'[s][d][i]
    BY DEF GrantsWithin
  <2>. QED  BY <1>8
<1>. QED  BY <1>2, <1>4, <1>5, <1>6, <1>7, <1>8, <1>9


\* What the handlers that reject a request do to a waiter.
LEMMA RejectedType ==
  ASSUME waiter \in Waiters, NEW r \in Requests
  PROVE  /\ Rejected(r) \in Waiters
         /\ \A x \in Requests : /\ Rejected(r)[x] = "granted" <=> waiter[x] = "granted"
                                /\ waiter[x] = "none" => Rejected(r)[x] = "none"
                                /\ x # r => Rejected(r)[x] = waiter[x]
BY DEF Rejected, Abandoned, Waiters, WaiterStates

\* The steps of the retirement that are not steps of the token protocol.
RetireStep ==
  \/ \E r \in Requests : RequestRefused(r)
  \/ \E r \in Requests : WaitFailed(r)
  \/ \E h, s \in Hosts : DropRetiring(h, s)
  \/ \E h, s \in Hosts : RejectRequest(h, s)
  \/ \E h, s \in Hosts : RejectGrant(h, s)
  \/ BeginRetire
  \/ \E h \in Hosts : CloseObject(h)
  \/ \E h \in Hosts : Drain(h)
  \/ \E h \in Hosts : Clean(h)
  \/ Free

\* The head of an inbound queue names a request and its host.
LEMMA HeadFields ==
  ASSUME TypeInv, NEW h \in Hosts, NEW s \in Hosts, Inbound(h, s)
  PROVE  /\ Head(wire[s][h]).req \in Requests
         /\ Requester[Head(wire[s][h]).req] \in Hosts
         /\ Note("reject", Head(wire[s][h]).req) \in Msg
<1>1. Head(wire[s][h]) \in Msg
  BY PopType
<1>2. Head(wire[s][h]).req \in Requests /\ Requester[Head(wire[s][h]).req] \in Hosts
  BY <1>1, MsgFields
<1>. QED  BY <1>2 DEF Note, Msg, Kinds

\* Every retirement step keeps the types of the token protocol.
LEMMA RetireTypes ==
  ASSUME TypeInv, RetireStep
  PROVE  TypeInv'
<1>. USE DEF TypeInv, TypeOK
<1>0. waiter \in Waiters /\ pub \in Rings /\ wire \in Wires
  BY DEF Waiters, Rings, Wires
<1>1. ASSUME NEW r \in Requests, RequestRefused(r) PROVE TypeInv'
  BY <1>1 DEF RequestRefused, Locked, shared, service, transport, RingsFilled, Places
<1>2. ASSUME NEW r \in Requests, WaitFailed(r) PROVE TypeInv'
  BY <1>2 DEF WaitFailed, shared, transport, RingsFilled, Places, WaiterStates
<1>3. ASSUME NEW h \in Hosts, NEW s \in Hosts, DropRetiring(h, s) PROVE TypeInv'
  <2>1. /\ Popped(h, s) \in Wires /\ Room(h, s) \in Rings
        /\ RingsFilled(Room(h, s), Popped(h, s))
    BY <1>3, PopType DEF DropRetiring
  <2>. QED  BY <1>3, <2>1 DEF DropRetiring, Locked, shared, service, Wires, Rings
<1>4. ASSUME NEW h \in Hosts, NEW s \in Hosts,
             RejectRequest(h, s) \/ RejectGrant(h, s)
      PROVE  TypeInv'
  <2>0. Inbound(h, s) /\ racing' \subseteq Hosts
    BY <1>4 DEF RejectRequest, RejectGrant, Racing, Locked
  <2>1. /\ Popped(h, s) \in Wires /\ Room(h, s) \in Rings
        /\ RingsFilled(Room(h, s), Popped(h, s))
    BY <2>0, PopType
  <2>2. /\ Head(wire[s][h]).req \in Requests
        /\ Requester[Head(wire[s][h]).req] \in Hosts
        /\ Note("reject", Head(wire[s][h]).req) \in Msg
    BY <2>0, HeadFields
  <2>3. wire' \in Wires /\ pub' \in Rings /\ RingsFilled(pub', wire')
    <3>1. CASE wire' = Popped(h, s) /\ pub' = Room(h, s)
      BY <2>1, <3>1
    <3>2. CASE Send(Popped(h, s), Room(h, s), h, Requester[Head(wire[s][h]).req],
                    Note("reject", Head(wire[s][h]).req))
      BY <2>1, <2>2, <3>2, SendType
    <3>. QED  BY <1>4, <3>1, <3>2 DEF RejectRequest, RejectGrant
  <2>4. waiter' \in Waiters
    <3>1. waiter' = waiter \/ waiter' = Rejected(Head(wire[s][h]).req)
      BY <1>4 DEF RejectRequest, RejectGrant
    <3>. QED  BY <1>0, <2>2, <3>1, RejectedType
  <2>5. UNCHANGED <<shared, alloc, available, held, pending, lease, running, pc>>
    BY <1>4 DEF RejectRequest, RejectGrant, Racing
  <2>. QED  BY <2>0, <2>3, <2>4, <2>5 DEF shared, Wires, Rings, Waiters
<1>5. CASE BeginRetire
  BY <1>5 DEF BeginRetire, shared, service, transport, RingsFilled
<1>6. ASSUME NEW h \in Hosts, CloseObject(h) PROVE TypeInv'
  <2>1. wire' \in Wires /\ pub' \in Rings /\ RingsFilled(pub', wire')
    BY <1>6, CloseWires
  <2>2. waiter' \in Waiters
    BY <1>0, <1>6 DEF CloseObject, Waiters, WaiterStates
  <2>3. lease' \in [Requests -> Nat] /\ pending' \in [Hosts -> Seq(Msg)]
    <3>1. pending' = [pending EXCEPT ![h] = <<>>]
      BY <1>6 DEF CloseObject
    <3>. QED  BY SMTT(60), <1>6, <3>1, EmptySeq DEF CloseObject
  <2>4. held' \in [Hosts -> BOOLEAN]
    <3>1. PICK u : held' = [held EXCEPT ![h] = @ /\ u = {}]
      BY <1>6 DEF CloseObject
    <3>2. held[h] \in BOOLEAN /\ (held[h] /\ u = {}) \in BOOLEAN
      OBVIOUS
    <3>. QED  BY <3>1, <3>2
  <2>5. odd' \in BOOLEAN
    BY <1>6 DEF CloseObject
  <2>. QED  BY <1>6, <2>1, <2>2, <2>3, <2>4, <2>5 DEF CloseObject, Locked, Wires, Rings, Waiters
<1>7. ASSUME NEW h \in Hosts, Drain(h) PROVE TypeInv'
  BY <1>7 DEF Drain, vars, shared, service, transport, RingsFilled
<1>8. ASSUME NEW h \in Hosts, Clean(h) PROVE TypeInv'
  <2>1. available' \in [Hosts -> BOOLEAN] /\ held' \in [Hosts -> BOOLEAN]
    BY <1>8 DEF Clean
  <2>2. pending' \in [Hosts -> Seq(Msg)]
    BY <1>8, EmptySeq DEF Clean
  <2>. QED  BY <1>8, <2>1, <2>2 DEF Clean, shared, transport, RingsFilled
<1>9. CASE Free
  BY <1>9 DEF Free, shared, service, transport, RingsFilled
<1>. QED  BY <1>1, <1>2, <1>3, <1>4, <1>5, <1>6, <1>7, <1>8, <1>9 DEF RetireStep

\* Every step keeps the types of the transaction.
LEMMA RTypeStep ==
  ASSUME TypeInv, TypeInv', RTypeOK, RNext
  PROVE  RTypeOK'
<1>0. due \in Rings
  BY DEF RTypeOK, Rings
<1>1. CASE Consumed /\ UNCHANGED <<phase, closed, drained, cleaned>>
  <2>1. due' \in Rings
    BY <1>0, <1>1, ConsumedDue
  <2>. QED  BY <1>1, <2>1 DEF RTypeOK, TypeInv, Rings
<1>2. CASE UNCHANGED transaction
  BY <1>2 DEF RTypeOK, TypeInv, transaction
<1>3. CASE BeginRetire
  BY <1>3 DEF BeginRetire, RTypeOK, TypeInv
<1>4. ASSUME NEW h \in Hosts, CloseObject(h) PROVE RTypeOK'
  <2>1. pub' \in Rings
    BY DEF TypeInv, TypeOK, Rings
  <2>2. due' \in Rings
    <3>1. due' = due \/ due' = [due EXCEPT ![h] = pub'[h]]
      BY <1>4 DEF CloseObject
    <3>. QED  BY <1>0, <2>1, <3>1 DEF Rings
  <2>3. closed' \subseteq Hosts /\ phase' \in {"closing", "draining"}
    BY <1>4 DEF CloseObject, Progressing, RTypeOK
  <2>. QED  BY <1>4, <2>2, <2>3 DEF CloseObject, RTypeOK, TypeInv, Rings
<1>5. ASSUME NEW h \in Hosts, Drain(h) \/ Clean(h) PROVE RTypeOK'
  BY <1>5 DEF Drain, Clean, Progressing, RTypeOK, TypeInv
<1>6. CASE Free
  BY <1>6 DEF Free, RTypeOK, TypeInv
<1>7. ASSUME NEW h \in Hosts, NEW s \in Hosts,
             DropRetiring(h, s) \/ RejectRequest(h, s) \/ RejectGrant(h, s)
      PROVE  RTypeOK'
  <2>1. Consumed /\ UNCHANGED <<phase, closed, drained, cleaned>>
    BY <1>7 DEF DropRetiring, RejectRequest, RejectGrant, Racing
  <2>. QED  BY <1>1, <2>1
<1>8. ASSUME NEW r \in Requests, RequestRefused(r) \/ WaitFailed(r) PROVE RTypeOK'
  BY <1>2, <1>8 DEF RequestRefused, WaitFailed
<1>9. CASE TokenStep
  BY <1>1, <1>9 DEF TokenStep
<1>. QED  BY <1>3, <1>4, <1>5, <1>6, <1>7, <1>8, <1>9 DEF RNext


-----------------------------------------------------------------------------
(* The token invariant of a retiring object.                               *)

\* A quiet host has no live request.
LEMMA QuietNotLive ==
  ASSUME LeaseCurrent, NEW h \in Hosts, ~held[h], NEW r \in Requests, Requester[r] = h
  PROVE  ~Live(r)
BY DEF LeaseCurrent, LeaseValid

\* CloseObject releases the grant of its host that nobody claimed.
LEMMA CloseSafe ==
  ASSUME TypeInv, TypeInv', TokenInv, NEW h \in Hosts, CloseObject(h)
  PROVE  TokenInv'
<1>. DEFINE mine == {r \in Requests : Requester[r] = h}
            unclaimed == {r \in mine : waiter[r] = "granted"}
<1>1. /\ waiter' = [r \in Requests |-> IF r \in mine THEN "none" ELSE waiter[r]]
      /\ lease' = [r \in Requests |-> IF r \in unclaimed THEN 0 ELSE lease[r]]
      /\ held' = [held EXCEPT ![h] = @ /\ unclaimed = {}]
      /\ pending' = [pending EXCEPT ![h] = <<>>]
      /\ UNCHANGED <<owner, epoch, version, available, pc>>
  BY DEF CloseObject
<1>2. OnlyRequestsWait /\ ClaimedOnce
  BY TokenInvParts
<1>3. GrantAuthoritative'
  <2>1. wire \in Wires /\ wire' \in Wires /\ GrantsWithin(wire', wire)
    BY CloseWires DEF TypeInv, TypeOK, Wires
  <2>. QED  BY <1>1, <2>1, GrantFrame
<1>4. ASSUME NEW r \in Requests, Live(r)' PROVE Live(r) /\ r \notin unclaimed /\ unclaimed = {}
  <2>1. Live(r)
    BY <1>1, <1>4 DEF Live
  <2>2. r \notin unclaimed
    BY <1>1, <1>2, <1>4 DEF Live, ClaimedOnce
  <2>3. \A x \in unclaimed : x = r
    BY <2>1 DEF TokenInv, SingleWriter, Live
  <2>. QED  BY <2>1, <2>2, <2>3
<1>5. held \in [Hosts -> BOOLEAN]
  BY DEF TypeInv, TypeOK
<1>6. TokenAtOwner'
  <2>1. \A x \in Hosts : held'[x] => held[x]
    BY <1>1, <1>5
  <2>. QED  BY <1>1, <2>1 DEF TokenInv, TokenAtOwner
<1>7. LeaseCurrent'
  <2>. SUFFICES ASSUME NEW r \in Requests, Live(r)'
                PROVE  LeaseValid(r)' /\ available'[Requester[r]]
    BY DEF LeaseCurrent
  <2>1. LeaseValid(r) /\ available[Requester[r]]
    BY <1>4 DEF TokenInv, LeaseCurrent
  <2>2. lease'[r] = lease[r] /\ held' = [held EXCEPT ![h] = @ /\ TRUE]
    BY <1>1, <1>4
  <2>3. held' = held
    BY <1>5, <2>2
  <2>. QED  BY <1>1, <2>1, <2>2, <2>3 DEF LeaseValid
<1>8. SingleWriter'
  BY <1>4 DEF TokenInv, SingleWriter
<1>9. OnlyRequestsWait' /\ ClaimedOnce'
  <2>1. OnlyRequestsWait'
    <3>1. pending \in [Hosts -> Seq(Msg)]
      BY DEF TypeInv, TypeOK
    <3>. QED  BY <1>1, <1>2, <3>1 DEF OnlyRequestsWait
  <2>2. ClaimedOnce'
    BY <1>1, <1>2 DEF ClaimedOnce
  <2>. QED  BY <2>1, <2>2
<1>. QED  BY <1>3, <1>6, <1>7, <1>8, <1>9, TokenInvParts DEF TokenInv, OnlyRequestsWait, ClaimedOnce

\* ForgetAllocation of a host, when no host has a lease.
LEMMA CleanSafe ==
  ASSUME TypeInv, TokenInv, \A x \in Hosts : ~held[x], NEW h \in Hosts, Clean(h)
  PROVE  TokenInv'
<1>1. /\ available' = [available EXCEPT ![h] = FALSE]
      /\ held' = [held EXCEPT ![h] = FALSE]
      /\ pending' = [pending EXCEPT ![h] = <<>>]
      /\ UNCHANGED <<owner, epoch, version, waiter, lease, wire, pc>>
  BY DEF Clean, shared, transport
<1>2. /\ available \in [Hosts -> BOOLEAN] /\ held \in [Hosts -> BOOLEAN]
      /\ pending \in [Hosts -> Seq(Msg)]
  BY DEF TypeInv, TypeOK
<1>3. \A x \in Hosts : (available'[x] => available[x]) /\ ~held'[x]
  BY <1>1, <1>2
<1>4. \A r \in Requests : ~Live(r)'
  <2>1. \A r \in Requests : ~Live(r)
    BY QuietNotLive, RequestsAssumption DEF TokenInv
  <2>. QED  BY <1>1, <2>1 DEF Live
<1>5. GrantAuthoritative'
  BY <1>1, <1>3 DEF TokenInv, GrantAuthoritative
<1>6. TokenAtOwner' /\ LeaseCurrent' /\ SingleWriter'
  BY <1>1, <1>3, <1>4 DEF TokenInv, TokenAtOwner, LeaseCurrent, SingleWriter
<1>7. OnlyRequestsWait' /\ ClaimedOnce'
  BY <1>1, <1>2, TokenInvParts DEF OnlyRequestsWait, ClaimedOnce
<1>. QED  BY <1>5, <1>6, <1>7 DEF TokenInv, OnlyRequestsWait, ClaimedOnce

\* A racing handler that rejects, and HandleMessage dropping a message.
LEMMA RejectSafe ==
  ASSUME TypeInv, TypeInv', TokenInv, NEW h \in Hosts, NEW s \in Hosts,
         DropRetiring(h, s) \/ RejectRequest(h, s) \/ RejectGrant(h, s)
  PROVE  TokenInv'
<1>. DEFINE r == Head(wire[s][h]).req
<1>1. /\ Inbound(h, s)
      /\ UNCHANGED <<owner, epoch, version, available, held, pending, lease, pc>>
      /\ waiter' = waiter \/ waiter' = Rejected(r)
      /\ \/ wire' = Popped(h, s)
         \/ Send(Popped(h, s), Room(h, s), h, Requester[r], Note("reject", r))
  BY DEF DropRetiring, RejectRequest, RejectGrant, Racing, shared, service
<1>2. r \in Requests /\ Requester[r] \in Hosts /\ Note("reject", r) \in Msg
  BY <1>1, HeadFields
<1>. HIDE DEF r
<1>3. waiter \in Waiters
  BY DEF TypeInv, TypeOK, Waiters
<1>4. \A x \in Requests : /\ waiter'[x] = "granted" <=> waiter[x] = "granted"
                          /\ waiter[x] = "none" => waiter'[x] = "none"
  BY <1>1, <1>2, <1>3, RejectedType
<1>5. \A x \in Requests : Live(x)' => Live(x)
  BY <1>1, <1>4 DEF Live
<1>6. OnlyRequestsWait' /\ ClaimedOnce'
  BY <1>1, <1>4, TokenInvParts DEF OnlyRequestsWait, ClaimedOnce
<1>7. CASE wire' = Popped(h, s)
  BY <1>1, <1>5, <1>6, <1>7, ConsumeStep
<1>8. CASE Send(Popped(h, s), Room(h, s), h, Requester[r], Note("reject", r))
  <2>1. Popped(h, s) \in Wires /\ GrantsWithin(Popped(h, s), wire)
    BY <1>1, PopType, PopGrants
  <2>2. Note("reject", r).kind # "grant"
    BY DEF Note
  <2>. QED  BY <1>1, <1>2, <1>5, <1>6, <1>8, <2>1, <2>2, SendStep
<1>. QED  BY <1>1, <1>7, <1>8

\* Every retirement step keeps TokenInv.
LEMMA RetireSafe ==
  ASSUME TypeInv, TypeInv', TokenInv, RetireStep,
         phase = "cleaning" => \A x \in Hosts : ~held[x]
  PROVE  TokenInv'
<1>0. OnlyRequestsWait /\ ClaimedOnce
  BY TokenInvParts
<1>1. ASSUME NEW r \in Requests, RequestRefused(r) \/ WaitFailed(r) PROVE TokenInv'
  <2>1. /\ UNCHANGED <<owner, epoch, version, available, held, lease, pending, wire>>
        /\ waiter' = waiter \/ waiter' = [waiter EXCEPT ![r] = "none"]
        /\ pc' = [pc EXCEPT ![r] = "done"]
    BY <1>1 DEF RequestRefused, WaitFailed, shared, service, transport
  <2>2. pc \in [Requests -> Places] /\ waiter \in [Requests -> WaiterStates]
    BY DEF TypeInv, TypeOK
  <2>3. \A x \in Requests : Live(x)' => Live(x)
    BY <2>1, <2>2 DEF Live
  <2>4. OnlyRequestsWait' /\ ClaimedOnce'
    BY <1>0, <2>1, <2>2 DEF OnlyRequestsWait, ClaimedOnce
  <2>. QED  BY <2>1, <2>3, <2>4, QuietStep
<1>2. ASSUME UNCHANGED <<shared, service, transport, pc>> PROVE TokenInv'
  BY <1>0, <1>2, QuietStep DEF OnlyRequestsWait, ClaimedOnce, Live, shared, service, transport
<1>3. CASE BeginRetire \/ Free
  BY <1>2, <1>3 DEF BeginRetire, Free
<1>4. ASSUME NEW h \in Hosts, Drain(h) PROVE TokenInv'
  BY <1>2, <1>4 DEF Drain, vars
<1>5. ASSUME NEW h \in Hosts, Clean(h) PROVE TokenInv'
  BY <1>5, CleanSafe DEF Clean, Progressing
<1>. QED  BY <1>1, <1>3, <1>4, <1>5, CloseSafe, RejectSafe DEF RetireStep


-----------------------------------------------------------------------------
(* A quiet host stays quiet once the object retires.                       *)

\* What the rest of the system may do to the wires out of h: consume them.
OnlyConsumed(h) ==
  \A d \in Hosts : \/ wire'[h][d] = wire[h][d]
                   \/ wire[h][d] # <<>> /\ wire'[h][d] = Tail(wire[h][d])

\* A handler of x pops a message, and may post to wires out of x.
LEMMA PopOnlyConsumes ==
  ASSUME TypeInv, NEW x \in Hosts, NEW s \in Hosts, Inbound(x, s), NEW h \in Hosts, h # x,
         \/ wire' = Popped(x, s)
         \/ \E d \in Hosts : \E ms : wire' = Post(Popped(x, s), x, d, ms)
  PROVE  OnlyConsumed(h)
<1>1. /\ wire[s][x] # <<>> /\ Popped(x, s) \in Wires /\ wire \in Wires
  BY PopType DEF TypeInv, TypeOK, Wires
<1>2. wire'[h] = Popped(x, s)[h]
  BY <1>1 DEF Post, Wires
<1>. QED  BY <1>1, <1>2 DEF OnlyConsumed, Popped, Wires

\* Settling the token at x touches x, its own requests and the wires out of x.
LEMMA SettlesElsewhere ==
  ASSUME TypeInv, NEW x \in Hosts, NEW W \in Waiters, NEW L, NEW w, NEW p,
         NEW q \in Seq(Msg), Settles(x, W, L, w, p, q), NEW h \in Hosts, h # x
  PROVE  /\ held'[h] = held[h] /\ pending'[h] = pending[h]
         /\ \A r \in Requests : Requester[r] = h => waiter'[r] = W[r]
         /\ \/ wire' = w
            \/ \E d \in Hosts : \E ms : wire' = Post(w, x, d, ms)
<1>0. held \in [Hosts -> BOOLEAN] /\ pending \in [Hosts -> Seq(Msg)]
  BY DEF TypeInv, TypeOK
<1>1. ASSUME NEW n \in 0 .. Len(q), NEW rest, PutBack(x, W, L, w, p, q, n, rest)
      PROVE  /\ held'[h] = held[h] /\ pending'[h] = pending[h]
             /\ \A r \in Requests : Requester[r] = h => waiter'[r] = W[r]
             /\ wire' = w
  <2>1. /\ held' = [held EXCEPT ![x] = FALSE] /\ pending' = [pending EXCEPT ![x] = rest]
        /\ waiter' = Skipped(W, q, n) /\ wire' = w
        /\ \A i \in 1 .. n : Requester[q[i].req] = x
    BY <1>1 DEF PutBack, PassedOver
  <2>. QED  BY <1>0, <2>1 DEF Skipped
<1>2. ASSUME NEW n \in 1 .. Len(q), GrantLocal(x, W, L, w, p, q, n)
      PROVE  /\ held'[h] = held[h] /\ pending'[h] = pending[h]
             /\ \A r \in Requests : Requester[r] = h => waiter'[r] = W[r]
             /\ wire' = w
  <2>1. /\ held' = [held EXCEPT ![x] = TRUE]
        /\ pending' = [pending EXCEPT ![x] = SubSeq(q, n + 1, Len(q))]
        /\ \/ waiter' = Skipped(W, q, n - 1)
           \/ waiter' = [Skipped(W, q, n - 1) EXCEPT ![q[n].req] = "granted"]
        /\ wire' = w /\ Requester[q[n].req] = x
        /\ \A i \in 1 .. n - 1 : Requester[q[i].req] = x
    BY <1>2 DEF GrantLocal, Served, PassedOver
  <2>2. \A r \in Requests : Requester[r] = h => Skipped(W, q, n - 1)[r] = W[r]
    BY <2>1 DEF Skipped
  <2>3. Skipped(W, q, n - 1) \in Waiters
    BY SkippedType
  <2>. QED  BY <1>0, <2>1, <2>2, <2>3 DEF Waiters
<1>3. ASSUME NEW n \in 1 .. Len(q), GrantRemote(x, W, L, w, p, q, n)
      PROVE  /\ held'[h] = held[h] /\ pending'[h] = pending[h]
             /\ \A r \in Requests : Requester[r] = h => waiter'[r] = W[r]
             /\ \E d \in Hosts : \E ms : wire' = Post(w, x, d, ms)
  <2>1. /\ held' = [held EXCEPT ![x] = FALSE] /\ pending' = [pending EXCEPT ![x] = <<>>]
        /\ waiter' = Skipped(W, q, n - 1)
        /\ \E ms : wire' = Post(w, x, Requester[q[n].req], ms)
        /\ \A i \in 1 .. n - 1 : Requester[q[i].req] = x
    BY <1>3 DEF GrantRemote, Served, PassedOver
  <2>2. Requester[q[n].req] \in Hosts
    BY EntryType
  <2>. QED  BY <1>0, <2>1, <2>2 DEF Skipped
<1>. QED  BY <1>1, <1>2, <1>3 DEF Settles

\* Taking a request out of the queue of x leaves the other queues alone.
LEMMA UnqueueElsewhere ==
  ASSUME pending \in [Hosts -> Seq(Msg)], NEW x \in Hosts, NEW r, Unqueue(x, r),
         NEW h \in Hosts, h # x
  PROVE  pending'[h] = pending[h]
BY DEF Unqueue

\* A step that leaves h, its requests and its clients alone keeps it quiet.
LEMMA QuietFrame ==
  ASSUME NEW h \in Hosts, Quiet(h), held'[h] = held[h], pending'[h] = pending[h],
         \A r \in Requests : Requester[r] = h => /\ waiter'[r] = waiter[r]
                                                 /\ pc'[r] = pc[r] \/ pc'[r] = "done"
  PROVE  Quiet(h)'
<1>1. ~Active(h)'
  BY DEF Quiet, Active
<1>. QED  BY <1>1 DEF Quiet

\* The clients of a retiring object.
LEMMA ClientQuiet ==
  ASSUME TypeInv, TokenInv, alloc # "allocated", NEW h \in Hosts, h \notin racing, Quiet(h),
         NEW r \in Requests, Client(r)
  PROVE  Quiet(h)' /\ \A d \in Hosts : wire'[h][d] = wire[h][d]
<1>0. /\ waiter \in [Requests -> WaiterStates] /\ pc \in [Requests -> Places]
      /\ held \in [Hosts -> BOOLEAN] /\ pending \in [Hosts -> Seq(Msg)]
      /\ Requester[r] \in Hosts
  BY RequestsAssumption DEF TypeInv, TypeOK
<1>1. CASE Requester[r] = h
  <2>1. waiter[r] = "none" /\ pc[r] \notin {"holding", "publishing"}
    BY <1>1, QuietNotLive DEF Quiet, TokenInv, Live
  <2>2. /\ pc' = [pc EXCEPT ![r] = "done"] /\ waiter' \in {waiter, [waiter EXCEPT ![r] = "none"]}
        /\ UNCHANGED <<held, pending, wire>>
    BY SMTT(60), <1>1, <2>1
       DEF Client, Request, WaitGranted, Cancel, CancelGranted, CancelCompleted, CancelLocal,
         CancelRemote, CancelAndWait, CancelDrained, CancelTimeout, BeginWriteback, Commit, Abort,
         FindsAllocated, service, transport
  <2>. QED  BY <1>0, <2>1, <2>2, QuietFrame
<1>2. CASE Requester[r] # h
  <2>0. wire \in Wires /\ owner \in Hosts
    BY DEF TypeInv, TypeOK, Wires
  <2>1. ASSUME NEW W \in {waiter, [waiter EXCEPT ![r] = "none"]}, ReleaseLease(r, W)
        PROVE  /\ held'[h] = held[h] /\ pending'[h] = pending[h]
               /\ \A d \in Hosts : wire'[h][d] = wire[h][d]
               /\ \A x \in Requests : Requester[x] = h => waiter'[x] = waiter[x]
    <3>1. Settles(Requester[r], W, [lease EXCEPT ![r] = 0], wire, pub, pending[Requester[r]])
      BY <2>1, ReleaseSettles
    <3>2. W \in Waiters /\ \A x \in Requests : Requester[x] = h => W[x] = waiter[x]
      BY <1>0, <1>2 DEF Waiters, WaiterStates
    <3>3. pending[Requester[r]] \in Seq(Msg)
      BY <1>0
    <3>4. /\ held'[h] = held[h] /\ pending'[h] = pending[h]
          /\ \A x \in Requests : Requester[x] = h => waiter'[x] = W[x]
          /\ \/ wire' = wire
             \/ \E d \in Hosts : \E ms : wire' = Post(wire, Requester[r], d, ms)
      BY <1>0, <1>2, <3>1, <3>2, <3>3, SettlesElsewhere
    <3>5. \A d \in Hosts : wire'[h][d] = wire[h][d]
      BY <1>0, <1>2, <2>0, <3>4 DEF Post, Wires
    <3>. QED  BY <3>2, <3>4, <3>5
  <2>2. \A x \in Requests : x # r => pc'[x] = pc[x]
    BY <1>0 DEF Client, Request, WaitGranted, Cancel, CancelGranted, CancelCompleted, CancelLocal,
         CancelRemote, CancelAndWait, CancelDrained, CancelTimeout, BeginWriteback, Commit, Abort
  <2>3. /\ held'[h] = held[h] /\ pending'[h] = pending[h]
        /\ \A d \in Hosts : wire'[h][d] = wire[h][d]
        /\ \A x \in Requests : Requester[x] = h => waiter'[x] = waiter[x]
    <3>1. CASE CancelGranted(r)
      BY <2>1, <3>1 DEF CancelGranted
    <3>2. CASE Commit(r) \/ Abort(r)
      BY <2>1, <3>2 DEF Commit, Abort
    <3>3. CASE WaitGranted(r) \/ CancelCompleted(r) \/ CancelDrained(r)
      BY <1>0, <1>2, <3>3 DEF WaitGranted, CancelCompleted, CancelDrained, transport
    <3>4. CASE CancelAndWait(r) \/ CancelTimeout(r) \/ BeginWriteback(r)
      BY <3>4 DEF CancelAndWait, CancelTimeout, BeginWriteback, service, transport
    <3>5. ASSUME NEW n, Send(wire, pub, Requester[r], owner, n)
          PROVE  \A d \in Hosts : wire'[h][d] = wire[h][d]
      BY <1>0, <1>2, <2>0, <3>5 DEF Send, Post, Wires
    <3>6. CASE Request(r)
      <4>1. CASE RequestLocal(r)
        BY <1>0, <1>2, <4>1 DEF RequestLocal, transport
      <4>2. CASE RequestRemote(r)
        BY <1>0, <1>2, <3>5, <4>2 DEF RequestRemote
      <4>. QED  BY <3>6, <4>1, <4>2 DEF Request
    <3>7. CASE CancelLocal(r)
      <4>1. pending'[h] = pending[h]
        BY <1>0, <1>2, <3>7, UnqueueElsewhere DEF CancelLocal
      <4>. QED  BY <1>0, <1>2, <3>7, <4>1 DEF CancelLocal, transport
    <3>8. CASE CancelRemote(r)
      BY <1>0, <1>2, <3>5, <3>8 DEF CancelRemote
    <3>. QED  BY <3>1, <3>2, <3>3, <3>4, <3>6, <3>7, <3>8 DEF Client, Cancel
  <2>. QED  BY <1>2, <2>2, <2>3, QuietFrame
<1>. QED  BY <1>1, <1>2

\* The handlers that were already running when the object started to retire.
LEMMA HandlerQuiet ==
  ASSUME TypeInv, TokenInv, alloc # "allocated", NEW h \in Hosts, h \notin racing, Quiet(h),
         NEW x \in Hosts, NEW s \in Hosts, HandleMessage(x, s)
  PROVE  Quiet(h)' /\ OnlyConsumed(h)
<1>. DEFINE m == Head(wire[s][x])
<1>0. /\ waiter \in Waiters /\ held \in [Hosts -> BOOLEAN] /\ pending \in [Hosts -> Seq(Msg)]
  BY DEF TypeInv, TypeOK, Waiters
<1>1. Inbound(x, s) /\ x # h /\ pc' = pc
  BY DEF HandleMessage, Handling, FindsAllocated, Forward, QueueRequest, GrantRequest, AcceptGrant,
         ReleaseLateGrant, RefuseGrant, HandleCancel, HandleCancelAck
<1>2. m \in Msg /\ m.req \in Requests /\ Requester[m.req] \in Hosts
  BY <1>1, PopType, HeadFields
<1>3. m.kind = "grant" => Requester[m.req] = x
  <2>1. wire[s][x] \in Seq(Msg) /\ wire[s][x] # <<>>
    BY <1>1, PopType
  <2>2. 1 \in DOMAIN wire[s][x] /\ m = wire[s][x][1]
    BY <2>1, HeadTailProperties, EmptySeq, LenProperties
  <2>. QED  BY <2>2 DEF TokenInv, GrantAuthoritative
<1>. HIDE DEF m
<1>4. ASSUME held'[h] = held[h], pending'[h] = pending[h],
             \A r \in Requests : Requester[r] = h => waiter'[r] = waiter[r]
      PROVE  Quiet(h)'
  BY <1>1, <1>4, QuietFrame
<1>5. ASSUME NEW r \in Requests, waiter' \in {waiter, Acknowledged(r)}
      PROVE  \A y \in Requests : Requester[y] = h => waiter'[y] = waiter[y]
  BY <1>0, <1>5 DEF Acknowledged, Quiet, Waiters
<1>6. ASSUME NEW d \in Hosts, NEW n, Send(Popped(x, s), Room(x, s), x, d, n)
      PROVE  OnlyConsumed(h)
  BY <1>1, <1>6, PopOnlyConsumes DEF Send
<1>7. wire' = Popped(x, s) => OnlyConsumed(h)
  BY <1>1, PopOnlyConsumes
<1>8. ASSUME NEW W \in Waiters, NEW q \in Seq(Msg), NEW L,
             \A r \in Requests : Requester[r] = h => W[r] = waiter[r],
             Settles(x, W, L, Popped(x, s), Room(x, s), q)
      PROVE  Quiet(h)' /\ OnlyConsumed(h)
  <2>1. /\ held'[h] = held[h] /\ pending'[h] = pending[h]
        /\ \A r \in Requests : Requester[r] = h => waiter'[r] = W[r]
        /\ \/ wire' = Popped(x, s)
           \/ \E d \in Hosts : \E ms : wire' = Post(Popped(x, s), x, d, ms)
    BY <1>1, <1>8, SettlesElsewhere
  <2>2. OnlyConsumed(h)
    BY <1>1, <2>1, PopOnlyConsumes
  <2>. QED  BY <1>4, <1>8, <2>1, <2>2
<1>9. CASE Forward(x, s)
  <2>1. owner \in Hosts
    BY DEF TypeInv, TypeOK
  <2>. QED  BY <1>4, <1>6, <1>9, <2>1 DEF Forward, service
<1>10. CASE QueueRequest(x, s)
  BY <1>0, <1>1, <1>4, <1>7, <1>10 DEF QueueRequest
<1>11. CASE GrantRequest(x, s)
  <2>1. /\ <<Head(wire[s][x])>> \o pending[x] \in Seq(Msg)
        /\ Settles(x, waiter, lease, Popped(x, s), Room(x, s), <<Head(wire[s][x])>> \o pending[x])
    BY <1>11, GrantSettles
  <2>. QED  BY <1>0, <1>8, <2>1
<1>12. CASE AcceptGrant(x, s)
  <2>1. /\ held' = [held EXCEPT ![x] = TRUE] /\ waiter' = [waiter EXCEPT ![m.req] = "granted"]
        /\ wire' = Popped(x, s) /\ UNCHANGED pending /\ m.kind = "grant"
    BY <1>12 DEF AcceptGrant, Handling, m
  <2>2. held'[h] = held[h] /\ \A r \in Requests : Requester[r] = h => waiter'[r] = waiter[r]
    BY <1>0, <1>1, <1>3, <2>1 DEF Waiters
  <2>. QED  BY <1>4, <1>7, <2>1, <2>2
<1>13. CASE ReleaseLateGrant(x, s)
  <2>. DEFINE W == [waiter EXCEPT ![m.req] = Completed(m.req)]
  <2>1. W \in Waiters
    BY <1>0, <1>2 DEF Completed, Waiters, WaiterStates
  <2>2. m.kind = "grant" /\ pending[x] \in Seq(Msg)
    BY <1>0, <1>13 DEF ReleaseLateGrant, Handling, m
  <2>3. \A r \in Requests : Requester[r] = h => W[r] = waiter[r]
    BY <1>0, <1>1, <1>3, <2>2 DEF Waiters
  <2>4. Settles(x, W, lease, Popped(x, s), Room(x, s), pending[x])
    <3>1. m.req = Head(wire[s][x]).req
      BY DEF m
    <3>. QED  BY <1>13, <3>1, LateGrantSettles
  <2>. HIDE DEF W
  <2>. QED  BY <1>8, <2>1, <2>2, <2>3, <2>4
<1>14. CASE RefuseGrant(x, s)
  BY <1>4, <1>7, <1>14 DEF RefuseGrant, service
<1>15. CASE HandleCancel(x, s)
  <2>1. pending'[h] = pending[h] /\ held' = held
    BY <1>0, <1>1, <1>15, UnqueueElsewhere DEF HandleCancel
  <2>2. waiter' \in {waiter, Acknowledged(m.req)}
    BY <1>15 DEF HandleCancel, m
  <2>3. \/ wire' = Popped(x, s)
        \/ Send(Popped(x, s), Room(x, s), x, Requester[m.req], Note("ack", m.req))
    BY <1>15 DEF HandleCancel, m
  <2>. QED  BY <1>2, <1>4, <1>5, <1>6, <1>7, <2>1, <2>2, <2>3
<1>16. CASE HandleCancelAck(x, s)
  <2>1. /\ waiter' = Acknowledged(m.req) /\ wire' = Popped(x, s)
        /\ UNCHANGED <<held, pending>>
    BY <1>16 DEF HandleCancelAck, m
  <2>. QED  BY <1>2, <1>4, <1>5, <1>7, <2>1
<1>. QED  BY <1>9, <1>10, <1>11, <1>12, <1>13, <1>14, <1>15, <1>16 DEF HandleMessage


\* Dropped and rejected messages of a retiring object.
LEMMA RejectQuiet ==
  ASSUME TypeInv, NEW h \in Hosts, h \notin racing, Quiet(h), NEW x \in Hosts, NEW s \in Hosts,
         DropRetiring(x, s) \/ RejectRequest(x, s) \/ RejectGrant(x, s)
  PROVE  Quiet(h)' /\ OnlyConsumed(h)
<1>. DEFINE r == Head(wire[s][x]).req
<1>1. /\ Inbound(x, s)
      /\ UNCHANGED <<held, pending, pc>>
      /\ waiter' = waiter \/ waiter' = Rejected(r)
      /\ \/ wire' = Popped(x, s)
         \/ x # h /\ Send(Popped(x, s), Room(x, s), x, Requester[r], Note("reject", r))
  BY DEF DropRetiring, RejectRequest, RejectGrant, Racing, service
<1>2. r \in Requests /\ Requester[r] \in Hosts /\ waiter \in Waiters
  BY <1>1, HeadFields DEF TypeInv, TypeOK, Waiters
<1>. HIDE DEF r
<1>3. Quiet(h)'
  <2>1. \A y \in Requests : Requester[y] = h => waiter'[y] = waiter[y]
    BY <1>1, <1>2, RejectedType DEF Quiet
  <2>. QED  BY <1>1, <2>1, QuietFrame
<1>4. CASE wire' = Popped(x, s)
  <2>1. wire[s][x] # <<>> /\ wire \in Wires
    BY <1>1, PopType DEF TypeInv, TypeOK, Wires
  <2>2. OnlyConsumed(h)
    BY <1>4, <2>1 DEF OnlyConsumed, Popped, Wires
  <2>. QED  BY <1>3, <2>2
<1>5. CASE x # h /\ Send(Popped(x, s), Room(x, s), x, Requester[r], Note("reject", r))
  <2>1. OnlyConsumed(h)
    BY <1>1, <1>2, <1>5, PopOnlyConsumes DEF Send
  <2>. QED  BY <1>3, <2>1
<1>. QED  BY <1>1, <1>4, <1>5

\* Consuming what a closed host has on its queues keeps it below the watermarks.
LEMMA BelowWatermark ==
  ASSUME TypeInv, due \in Rings, Consumed, NEW h \in Hosts, OnlyConsumed(h),
         \A d \in Hosts : Len(wire[h][d]) <= due[h][d]
  PROVE  \A d \in Hosts : Len(wire'[h][d]) <= due'[h][d]
<1>. SUFFICES ASSUME NEW d \in Hosts PROVE Len(wire'[h][d]) <= due'[h][d]
  OBVIOUS
<1>1. wire[h][d] \in Seq(Msg) /\ Len(wire[h][d]) \in Nat /\ due[h][d] \in Nat
  BY LenProperties DEF TypeInv, TypeOK, Rings
<1>2. due'[h][d] = IF Len(wire'[h][d]) < Len(wire[h][d]) /\ due[h][d] # 0
                     THEN due[h][d] - 1 ELSE due[h][d]
  BY ConsumedDue
<1>3. CASE wire'[h][d] = wire[h][d]
  BY <1>1, <1>2, <1>3
<1>4. CASE wire[h][d] # <<>> /\ wire'[h][d] = Tail(wire[h][d])
  <2>1. Len(wire'[h][d]) = Len(wire[h][d]) - 1
    BY <1>1, <1>4, HeadTailProperties
  <2>. QED  BY <1>1, <1>2, <2>1
<1>. QED  BY <1>3, <1>4 DEF OnlyConsumed

\* A queue that nobody touches moves no cursor.
LEMMA SameWireConsumed ==
  ASSUME NEW h \in Hosts, \A d \in Hosts : wire'[h][d] = wire[h][d]
  PROVE  OnlyConsumed(h)
BY DEF OnlyConsumed

\* The retirement transaction: steps of the token protocol.
LEMMA TokenStepRetire ==
  ASSUME RetireInv, TokenStep
  PROVE  (PhaseOK /\ ClosedOK /\ DrainedOK)'
<1>. USE DEF RetireInv
<1>1. /\ UNCHANGED <<phase, closed, drained>> /\ Consumed
      /\ \/ \E r \in Requests : Client(r)
         \/ \E h, s \in Hosts : HandleMessage(h, s)
         \/ \E h \in Hosts : ProgressOutbound(h)
  BY DEF TokenStep, Next
<1>2. alloc' = alloc /\ racing' \subseteq racing
  <2>1. ASSUME NEW r \in Requests, Client(r) PROVE alloc' = alloc /\ racing' \subseteq racing
    BY <2>1, ClientKeepsObject
  <2>2. ASSUME NEW h \in Hosts, NEW s \in Hosts, HandleMessage(h, s)
        PROVE  alloc' = alloc /\ racing' \subseteq racing
    BY <2>2, HandlerKeepsObject
  <2>. QED  BY <1>1, <2>1, <2>2 DEF ProgressOutbound, Locked
<1>3. due \in Rings
  BY DEF RTypeOK, Rings
<1>4. PhaseOK'
  BY <1>1, <1>2 DEF PhaseOK
<1>5. DrainedOK'
  <2>1. \A s, h \in Hosts : due[s][h] = 0 => due'[s][h] = 0
    BY <1>1, <1>3, ConsumedDue
  <2>. QED  BY <1>1, <2>1 DEF DrainedOK, RTypeOK
<1>6. ClosedOK'
  <2>. SUFFICES ASSUME NEW h \in closed
                PROVE  h \notin racing' /\ Quiet(h)' /\ \A d \in Hosts : Len(wire'[h][d]) <= due'[h][d]
    BY <1>1 DEF ClosedOK
  <2>1. h \in Hosts /\ h \notin racing /\ Quiet(h) /\ alloc # "allocated"
    BY DEF RTypeOK, ClosedOK, PhaseOK
  <2>2. Quiet(h)' /\ OnlyConsumed(h)
    <3>1. ASSUME NEW x \in Hosts, ProgressOutbound(x)
          PROVE  Quiet(h)' /\ \A d \in Hosts : wire'[h][d] = wire[h][d]
      BY <2>1, <3>1, QuietFrame DEF ProgressOutbound, service
    <3>. QED  BY <1>1, <2>1, <3>1, ClientQuiet, HandlerQuiet, SameWireConsumed
  <2>3. \A d \in Hosts : Len(wire'[h][d]) <= due'[h][d]
    BY <1>1, <1>3, <2>1, <2>2, BelowWatermark DEF ClosedOK
  <2>. QED  BY <1>2, <2>1, <2>2, <2>3
<1>. QED  BY <1>4, <1>5, <1>6

\* The retirement transaction: dropped and rejected messages.
LEMMA RejectRetire ==
  ASSUME RetireInv, NEW x \in Hosts, NEW s \in Hosts,
         DropRetiring(x, s) \/ RejectRequest(x, s) \/ RejectGrant(x, s)
  PROVE  (PhaseOK /\ ClosedOK /\ DrainedOK)'
<1>. USE DEF RetireInv
<1>1. /\ UNCHANGED <<phase, closed, drained, alloc>> /\ Consumed /\ racing' \subseteq racing
  BY DEF DropRetiring, RejectRequest, RejectGrant, Racing, Locked
<1>2. due \in Rings
  BY DEF RTypeOK, Rings
<1>3. PhaseOK'
  BY <1>1 DEF PhaseOK
<1>4. DrainedOK'
  <2>1. \A a, h \in Hosts : due[a][h] = 0 => due'[a][h] = 0
    BY <1>1, <1>2, ConsumedDue
  <2>. QED  BY <1>1, <2>1 DEF DrainedOK, RTypeOK
<1>5. ClosedOK'
  <2>. SUFFICES ASSUME NEW h \in closed
                PROVE  h \notin racing' /\ Quiet(h)' /\ \A d \in Hosts : Len(wire'[h][d]) <= due'[h][d]
    BY <1>1 DEF ClosedOK
  <2>1. h \in Hosts /\ h \notin racing /\ Quiet(h)
    BY DEF RTypeOK, ClosedOK
  <2>2. Quiet(h)' /\ OnlyConsumed(h)
    BY <2>1, RejectQuiet
  <2>3. \A d \in Hosts : Len(wire'[h][d]) <= due'[h][d]
    BY <1>1, <1>2, <2>1, <2>2, BelowWatermark DEF ClosedOK
  <2>. QED  BY <1>1, <2>1, <2>2, <2>3
<1>. QED  BY <1>3, <1>4, <1>5

\* The retirement transaction: a host closes the object.
LEMMA CloseRetire ==
  ASSUME RetireInv, NEW h \in Hosts, CloseObject(h)
  PROVE  (PhaseOK /\ ClosedOK /\ DrainedOK)'
<1>. USE DEF RetireInv
<1>. DEFINE mine == {r \in Requests : Requester[r] = h}
            quiet == ~held'[h] /\ ~Active(h)
<1>1. /\ phase = "closing" /\ racing' = racing \ {h} /\ h \notin closed
      /\ waiter' = [r \in Requests |-> IF r \in mine THEN "none" ELSE waiter[r]]
      /\ \A x \in Hosts : x # h => held'[x] = held[x]
      /\ pending' = [pending EXCEPT ![h] = <<>>]
      /\ closed' = IF quiet THEN closed \cup {h} ELSE closed
      /\ due' = IF quiet THEN [due EXCEPT ![h] = pub'[h]] ELSE due
      /\ phase' = IF closed' = Hosts THEN "draining" ELSE phase
      /\ UNCHANGED <<alloc, pc, drained>>
  BY DEF CloseObject, Progressing, Locked
<1>2. alloc = "retiring" /\ drained = {}
  BY <1>1 DEF PhaseOK
<1>3. PhaseOK'
  BY <1>1, <1>2 DEF PhaseOK
<1>4. DrainedOK'
  BY <1>1, <1>2 DEF DrainedOK
<1>5. pending \in [Hosts -> Seq(Msg)] /\ due \in Rings
  BY DEF TypeInv, TypeOK, RTypeOK, Rings
<1>6. ASSUME NEW x \in closed
      PROVE  x \notin racing' /\ Quiet(x)' /\ \A d \in Hosts : Len(wire'[x][d]) <= due'[x][d]
  <2>1. x \in Hosts /\ x # h /\ x \notin racing /\ Quiet(x)
        /\ \A d \in Hosts : Len(wire[x][d]) <= due[x][d]
    BY <1>1 DEF RTypeOK, ClosedOK
  <2>2. Quiet(x)'
    BY <1>1, <1>5, <2>1, QuietFrame
  <2>3. \A d \in Hosts : wire'[x][d] = wire[x][d]
    BY <2>1, CloseWires
  <2>4. due'[x] = due[x]
    BY <1>1, <1>5, <2>1 DEF Rings
  <2>. QED  BY <1>1, <2>1, <2>2, <2>3, <2>4
<1>7. ASSUME quiet
      PROVE  h \notin racing' /\ Quiet(h)' /\ \A d \in Hosts : Len(wire'[h][d]) <= due'[h][d]
  <2>1. Quiet(h)'
    <3>1. ~Active(h)'
      BY <1>1, <1>7 DEF Active
    <3>. QED  BY <1>1, <1>5, <1>7, <3>1 DEF Quiet
  <2>2. \A d \in Hosts : Len(wire'[h][d]) = pub'[h][d] /\ pub'[h][d] \in Nat
    BY CloseWires DEF Rings
  <2>3. due'[h] = pub'[h]
    BY <1>1, <1>5, <1>7 DEF Rings
  <2>. QED  BY <1>1, <2>1, <2>2, <2>3
<1>8. ClosedOK'
  BY <1>1, <1>6, <1>7 DEF ClosedOK
<1>. QED  BY <1>3, <1>4, <1>8

\* The retirement transaction: the other steps.
LEMMA OtherRetire ==
  ASSUME RetireInv,
         \/ \E r \in Requests : RequestRefused(r) \/ WaitFailed(r)
         \/ BeginRetire
         \/ \E h \in Hosts : Drain(h) \/ Clean(h)
         \/ Free
  PROVE  (PhaseOK /\ ClosedOK /\ DrainedOK)'
<1>. USE DEF RetireInv
<1>1. ASSUME NEW r \in Requests, RequestRefused(r) \/ WaitFailed(r)
      PROVE  (PhaseOK /\ ClosedOK /\ DrainedOK)'
  <2>1. /\ UNCHANGED <<alloc, wire, held, pending, phase, closed, drained, due>>
        /\ racing' \subseteq racing
        /\ waiter' = waiter \/ waiter' = [waiter EXCEPT ![r] = "none"]
        /\ pc' = [pc EXCEPT ![r] = "done"]
    BY <1>1 DEF RequestRefused, WaitFailed, Locked, service, transport, transaction
  <2>2. waiter \in [Requests -> WaiterStates] /\ pc \in [Requests -> Places]
    BY DEF TypeInv, TypeOK
  <2>3. ASSUME NEW h \in closed PROVE Quiet(h)'
    <3>1. h \in Hosts /\ Quiet(h)
      BY DEF RTypeOK, ClosedOK
    <3>2. \A x \in Requests : Requester[x] = h => /\ waiter'[x] = waiter[x]
                                                  /\ pc'[x] = pc[x] \/ pc'[x] = "done"
      BY <2>1, <2>2, <3>1 DEF Quiet
    <3>. QED  BY <2>1, <3>1, <3>2, QuietFrame
  <2>. QED  BY <2>1, <2>3 DEF PhaseOK, ClosedOK, DrainedOK
<1>2. CASE BeginRetire
  BY <1>2 DEF BeginRetire, PhaseOK, ClosedOK, DrainedOK
<1>3. ASSUME NEW h \in Hosts, Drain(h) PROVE (PhaseOK /\ ClosedOK /\ DrainedOK)'
  <2>1. /\ phase = "draining" /\ \A s \in Hosts : due[s][h] = 0
        /\ drained' = drained \cup {h}
        /\ phase' = IF drained' = Hosts THEN "cleaning" ELSE phase
        /\ UNCHANGED <<vars, closed, due>>
    BY <1>3 DEF Drain, Progressing
  <2>2. closed = Hosts /\ alloc = "retiring"
    BY <2>1 DEF PhaseOK
  <2>3. PhaseOK'
    BY <2>1, <2>2 DEF PhaseOK, vars
  <2>4. DrainedOK'
    BY <2>1 DEF DrainedOK
  <2>5. ClosedOK'
    BY <2>1 DEF ClosedOK, Quiet, Active, vars, service, transport
  <2>. QED  BY <2>3, <2>4, <2>5
<1>4. ASSUME NEW h \in Hosts, Clean(h) PROVE (PhaseOK /\ ClosedOK /\ DrainedOK)'
  <2>1. /\ phase = "cleaning" /\ phase' \in {"cleaning", "reclaimable"}
        /\ held' = [held EXCEPT ![h] = FALSE] /\ pending' = [pending EXCEPT ![h] = <<>>]
        /\ UNCHANGED <<alloc, racing, waiter, wire, pc, closed, drained, due>>
    BY <1>4 DEF Clean, Progressing, transport
  <2>2. held \in [Hosts -> BOOLEAN] /\ pending \in [Hosts -> Seq(Msg)]
    BY DEF TypeInv, TypeOK
  <2>3. PhaseOK' /\ DrainedOK'
    BY <2>1 DEF PhaseOK, DrainedOK
  <2>4. ASSUME NEW x \in closed PROVE Quiet(x)'
    <3>1. x \in Hosts /\ Quiet(x)
      BY DEF RTypeOK, ClosedOK
    <3>2. held'[x] = held[x] /\ pending'[x] = pending[x]
      BY <2>1, <2>2, <3>1 DEF Quiet
    <3>. QED  BY <2>1, <3>1, <3>2, QuietFrame
  <2>5. ClosedOK'
    BY <2>1, <2>4 DEF ClosedOK
  <2>. QED  BY <2>3, <2>5
<1>5. CASE Free
  <2>1. /\ phase = "reclaimable" /\ alloc' = "free" /\ phase' = "idle"
        /\ UNCHANGED <<racing, held, pending, waiter, wire, pc, closed, drained, due>>
    BY <1>5 DEF Free, service, transport
  <2>2. closed = Hosts /\ drained = Hosts
    BY <2>1 DEF PhaseOK
  <2>3. PhaseOK' /\ DrainedOK'
    BY <2>1, <2>2 DEF PhaseOK, DrainedOK
  <2>4. ClosedOK'
    BY <2>1 DEF ClosedOK, Quiet, Active
  <2>. QED  BY <2>3, <2>4
<1>. QED  BY <1>1, <1>2, <1>3, <1>4, <1>5

\* The initial states satisfy the invariant.
LEMMA RetireInit == RInit => RetireInv
<1>. SUFFICES ASSUME RInit PROVE RetireInv
  OBVIOUS
<1>1. TypeInv /\ TokenInv
  BY TypeInit, TokenInit DEF RInit
<1>2. RTypeOK
  BY <1>1 DEF RInit, RTypeOK, TypeInv
<1>3. PhaseOK /\ ClosedOK /\ DrainedOK
  BY DEF RInit, Init, PhaseOK, ClosedOK, DrainedOK
<1>. QED  BY <1>1, <1>2, <1>3 DEF RetireInv

\* Every step keeps the invariant.
LEMMA RetireKept == RetireInv /\ [RNext]_rvars => RetireInv'
<1>. SUFFICES ASSUME RetireInv, [RNext]_rvars PROVE RetireInv'
  OBVIOUS
<1>1. CASE UNCHANGED rvars
  <2>1. UNCHANGED vars /\ UNCHANGED transaction
    BY <1>1 DEF rvars
  <2>2. TypeInv' /\ TokenInv'
    BY <2>1, TypeStep, TokenKept DEF RetireInv
  <2>3. RTypeOK'
    BY <2>1, <2>2 DEF RetireInv, RTypeOK, TypeInv, transaction
  <2>4. (PhaseOK /\ ClosedOK /\ DrainedOK)'
    BY <2>1 DEF RetireInv, PhaseOK, ClosedOK, DrainedOK, Quiet, Active, vars, service, transport,
                transaction
  <2>. QED  BY <2>2, <2>3, <2>4 DEF RetireInv
<1>2. CASE RNext
  <2>1. TokenStep \/ RetireStep
    BY <1>2 DEF RNext, RetireStep
  <2>2. TypeInv'
    BY <2>1, TypeStep, RetireTypes DEF RetireInv, TokenStep
  <2>3. phase = "cleaning" => \A x \in Hosts : ~held[x]
    BY DEF RetireInv, PhaseOK, ClosedOK, Quiet
  <2>4. TokenInv'
    BY <2>1, <2>2, <2>3, TokenKept, RetireSafe DEF RetireInv, TokenStep
  <2>5. RTypeOK'
    BY <1>2, <2>2, RTypeStep DEF RetireInv
  <2>6. (PhaseOK /\ ClosedOK /\ DrainedOK)'
    BY <2>1, TokenStepRetire, RejectRetire, CloseRetire, OtherRetire DEF RetireStep
  <2>. QED  BY <2>2, <2>4, <2>5, <2>6 DEF RetireInv
<1>. QED  BY <1>1, <1>2

\* The inductive invariant of the retirement holds throughout.
LEMMA RetireInvHolds == RSpec => []RetireInv
<1>. QED  BY RetireInit, RetireKept, PTL DEF RSpec

-----------------------------------------------------------------------------
(* What the retirement guarantees.                                         *)

\* The token protocol stays safe while the object retires: with handlers that
\* were already past IsRetiring, rejections, dropped messages, CloseObject
\* releasing unclaimed grants and ForgetAllocation, there is at most one
\* holder, its lease is valid and a grant under way is the authoritative one.
THEOREM TokenSafeWhileRetiring == RSpec => []TokenInv
<1>1. RetireInv => TokenInv
  BY DEF RetireInv
<1>. QED  BY <1>1, RetireInvHolds, PTL

\* A host that has acknowledged the closing phase stays quiet: late messages
\* and handlers of other hosts give it no waiter, lease or reference again,
\* and it publishes nothing beyond the watermarks it recorded.
THEOREM ClosedStaysQuiet == RSpec => []ClosedIsQuiet
<1>1. RetireInv => ClosedIsQuiet
  BY DEF RetireInv, ClosedIsQuiet, ClosedOK, Quiet
<1>. QED  BY <1>1, RetireInvHolds, PTL

\* Storage is reclaimed only when nothing in the system refers to the object
\* any more: no message in any ring or outbound FIFO, no waiter, no lease, no
\* queued request and no client inside an operation.
THEOREM ReclaimIsSafe == RSpec => []ReclaimSafe
<1>1. RetireInv => ReclaimSafe
  <2>. SUFFICES ASSUME RetireInv, phase = "reclaimable" \/ alloc = "free"
                PROVE  /\ \A s, d \in Hosts : wire[s][d] = <<>>
                       /\ \A r \in Requests : waiter[r] = "none" /\ ~Live(r)
                       /\ \A h \in Hosts : pending[h] = <<>> /\ ~held[h] /\ ~Active(h)
    BY DEF ReclaimSafe
  <2>1. closed = Hosts /\ drained = Hosts
    BY DEF RetireInv, PhaseOK
  <2>2. \A h \in Hosts : Quiet(h) /\ \A d \in Hosts : Len(wire[h][d]) <= due[h][d] /\ due[h][d] = 0
    BY <2>1 DEF RetireInv, ClosedOK, DrainedOK
  <2>3. ASSUME NEW s \in Hosts, NEW d \in Hosts PROVE wire[s][d] = <<>>
    <3>1. wire[s][d] \in Seq(Msg)
      BY DEF RetireInv, TypeInv, TypeOK
    <3>2. Len(wire[s][d]) = 0
      BY <2>2, <3>1, LenProperties
    <3>. QED  BY <3>1, <3>2, EmptySeq
  <2>4. ASSUME NEW r \in Requests PROVE waiter[r] = "none" /\ ~Live(r)
    <3>1. Requester[r] \in Hosts
      BY RequestsAssumption
    <3>. QED  BY <2>2, <3>1, QuietNotLive DEF Quiet, RetireInv, TokenInv
  <2>. QED  BY <2>2, <2>3, <2>4 DEF Quiet
<1>. QED  BY <1>1, RetireInvHolds, PTL


\* Every step keeps the backlog where the token is.
LEMMA RetireBacklog == RetireInv /\ BacklogAtOwner /\ [RNext]_rvars => BacklogAtOwner'
<1>. SUFFICES ASSUME RetireInv, BacklogAtOwner, [RNext]_rvars PROVE BacklogAtOwner'
  OBVIOUS
<1>0. /\ held \in [Hosts -> BOOLEAN] /\ available \in [Hosts -> BOOLEAN]
      /\ pending \in [Hosts -> Seq(Msg)]
  BY DEF RetireInv, TypeInv, TypeOK
<1>1. ASSUME [Next]_vars PROVE BacklogAtOwner'
  BY <1>1, BacklogKept DEF RetireInv
<1>2. ASSUME NEW h \in Hosts, CloseObject(h) PROVE BacklogAtOwner'
  <2>1. /\ pending' = [pending EXCEPT ![h] = <<>>] /\ UNCHANGED <<owner, available, alloc>>
        /\ \A x \in Hosts : x # h => held'[x] = held[x]
    BY <1>0, <1>2 DEF CloseObject
  <2>. QED  BY <1>0, <2>1 DEF BacklogAtOwner
<1>3. ASSUME NEW h \in Hosts, Clean(h) PROVE BacklogAtOwner'
  <2>1. /\ pending' = [pending EXCEPT ![h] = <<>>] /\ UNCHANGED <<owner, alloc>>
        /\ \A x \in Hosts : x # h => held'[x] = held[x] /\ available'[x] = available[x]
    BY <1>0, <1>3 DEF Clean, shared
  <2>. QED  BY <1>0, <2>1 DEF BacklogAtOwner
<1>4. ASSUME UNCHANGED <<owner, available, held, pending>>, alloc' = alloc \/ alloc' # "allocated"
      PROVE  BacklogAtOwner'
  BY <1>4 DEF BacklogAtOwner
<1>5. CASE UNCHANGED rvars
  <2>1. UNCHANGED vars
    BY ZenonT(60), <1>5 DEF rvars
  <2>. QED  BY <1>1, <2>1
<1>6. CASE RNext
  BY <1>1, <1>2, <1>3, <1>4, <1>6
     DEF RNext, TokenStep, RequestRefused, WaitFailed, DropRetiring, RejectRequest,
         RejectGrant, Racing, BeginRetire, Drain, Free, vars, shared, service
<1>. QED  BY <1>5, <1>6

\* With retirement in the picture, requests still wait only at the owner that
\* the metadata names, and until the object retires only while the token is in
\* use there or on its way.  A Release or HandleRequest that BeginRetire
\* interrupts may leave requests behind a token nobody holds; that token stays,
\* so they are there when CloseObject or ForgetAllocation empties the queue.
THEOREM BacklogWhileRetiring == RSpec => []BacklogAtOwner
<1>1. RInit => BacklogAtOwner
  BY DEF RInit, Init, BacklogAtOwner
<1>. QED  BY <1>1, RetireBacklog, RetireInvHolds, PTL DEF RSpec

-----------------------------------------------------------------------------
(* The protocol with retirement implements the write lease too.            *)

\* What the refinement needs besides TokenInv is kept by the token protocol.
\* The retirement sends no cancellation and revives no client.
LEMMA RetireCancels ==
  ASSUME RetireInv, CancelsGivenUp, RetireStep
  PROVE  CancelsGivenUp'
<1>0. /\ TypeInv /\ wire \in Wires /\ pc \in [Requests -> Places]
  BY DEF RetireInv, TypeInv, TypeOK, Wires
<1>. SUFFICES CancelsIn(wire', pc')
  BY DEF CancelsGivenUp, CancelsIn
<1>1. CancelsIn(wire, pc')
  <2>1. \A s, d \in Hosts : \A i \in DOMAIN wire[s][d] : wire[s][d][i].req \in Requests
    BY <1>0, LenProperties, ElementOfSeq, MsgFields DEF Wires
  <2>2. ASSUME NEW r \in Requests, RequestRefused(r) \/ WaitFailed(r)
        PROVE  \A x \in Requests : pc[x] \in GivenUp => pc'[x] \in GivenUp
    BY <1>0, <2>2 DEF RequestRefused, WaitFailed, GivenUp
  <2>3. ASSUME pc' = pc PROVE \A x \in Requests : pc[x] \in GivenUp => pc'[x] \in GivenUp
    BY <2>3
  <2>4. ASSUME NEW h \in Hosts, NEW s \in Hosts,
               DropRetiring(h, s) \/ RejectRequest(h, s) \/ RejectGrant(h, s)
        PROVE  pc' = pc
    BY <2>4 DEF DropRetiring, RejectRequest, RejectGrant, Racing
  <2>5. ASSUME NEW h \in Hosts, CloseObject(h) \/ Drain(h) \/ Clean(h) PROVE pc' = pc
    BY <2>5 DEF CloseObject, Drain, Clean, vars
  <2>6. BeginRetire \/ Free => pc' = pc
    BY DEF BeginRetire, Free
  <2>7. \A x \in Requests : pc[x] \in GivenUp => pc'[x] \in GivenUp
    BY <2>2, <2>3, <2>4, <2>5, <2>6 DEF RetireStep
  <2>. QED  BY <2>1, <2>7 DEF CancelsGivenUp, CancelsIn
<1>2. ASSUME wire' = wire PROVE CancelsIn(wire', pc')
  BY <1>1, <1>2
<1>3. ASSUME NEW h \in Hosts, NEW s \in Hosts,
             DropRetiring(h, s) \/ RejectRequest(h, s) \/ RejectGrant(h, s)
      PROVE  CancelsIn(wire', pc')
  <2>. DEFINE r == Head(wire[s][h]).req
  <2>1. Inbound(h, s)
    BY <1>3 DEF DropRetiring, RejectRequest, RejectGrant, Racing
  <2>2. CancelsIn(Popped(h, s), pc') /\ Popped(h, s) \in Wires
    BY <1>0, <1>1, <2>1, CancelsPop, PopType
  <2>3. CASE wire' = Popped(h, s)
    BY <2>2, <2>3
  <2>4. CASE Send(Popped(h, s), Room(h, s), h, Requester[r], Note("reject", r))
    <3>1. Requester[r] \in Hosts /\ Note("reject", r) \in Msg
      BY <1>0, <2>1, HeadFields
    <3>2. Note("reject", r).kind = "reject"
      BY DEF Note
    <3>. HIDE DEF r
    <3>. QED  BY <2>2, <2>4, <3>1, <3>2, CancelsSend
  <2>. QED  BY <1>3, <2>3, <2>4 DEF DropRetiring, RejectRequest, RejectGrant
<1>4. ASSUME NEW h \in Hosts, CloseObject(h) PROVE CancelsIn(wire', pc')
  BY <1>0, <1>1, <1>4, CloseWires DEF CancelsIn
<1>5. ASSUME NEW r \in Requests, RequestRefused(r) \/ WaitFailed(r) PROVE wire' = wire
  BY <1>5 DEF RequestRefused, WaitFailed, transport
<1>6. ASSUME NEW h \in Hosts, Drain(h) \/ Clean(h) PROVE wire' = wire
  BY <1>6 DEF Drain, Clean, vars, transport
<1>7. BeginRetire \/ Free => wire' = wire
  BY DEF BeginRetire, Free, transport
<1>. QED  BY <1>2, <1>3, <1>4, <1>5, <1>6, <1>7 DEF RetireStep

\* A rejection is left only where no handler runs any more.
LEMMA RejectAwaited ==
  ASSUME RetireInv, AwaitedOnly, NEW h \in Hosts, NEW s \in Hosts,
         RejectRequest(h, s) \/ RejectGrant(h, s)
  PROVE  AwaitedOnly' /\ \A x \in Requests : Live(x)' <=> Live(x)
<1>. DEFINE m == Head(wire[s][h])
<1>0. TypeInv /\ waiter \in Waiters /\ Authority(wire)
  BY AuthorityOfWire DEF RetireInv, TypeInv, TypeOK, Waiters, TokenInv
<1>1. /\ Inbound(h, s) /\ h \in racing /\ racing' = racing \ {h} /\ UNCHANGED <<alloc, pc>>
  BY DEF RejectRequest, RejectGrant, Racing, Locked
<1>2. alloc # "allocated"
  BY <1>1 DEF RetireInv, PhaseOK
<1>3. m.req \in Requests /\ wire[s][h] \in Seq(Msg) /\ wire[s][h] # <<>>
  BY <1>0, <1>1, PopType, HeadFields
<1>4. 1 \in DOMAIN wire[s][h] /\ wire[s][h][1] = m
  <2>1. Len(wire[s][h]) \in Nat \ {0} /\ DOMAIN wire[s][h] = 1 .. Len(wire[s][h])
    BY <1>3, EmptySeq, LenProperties
  <2>. QED  BY <1>3, <2>1
<1>5. waiter' = waiter \/ (waiter' = Rejected(m.req) /\ Requester[m.req] = h)
  <2>1. RejectGrant(h, s) => m.kind = "grant"
    BY DEF RejectGrant, Racing
  <2>2. m.kind = "grant" => Requester[m.req] = h
    BY <1>0, <1>4 DEF Authority
  <2>. QED  BY <2>1, <2>2 DEF RejectRequest, RejectGrant
<1>. HIDE DEF m
<1>6. ASSUME NEW x \in Requests
      PROVE  /\ waiter'[x] = "rejected" => Requester[x] \notin racing'
             /\ waiter'[x] \in {"active", "granted"} => waiter'[x] = waiter[x]
             /\ waiter'[x] = "granted" <=> waiter[x] = "granted"
  <2>1. CASE waiter'[x] = waiter[x]
    BY <1>1, <2>1 DEF AwaitedOnly
  <2>2. CASE waiter'[x] # waiter[x]
    <3>1. waiter' = Rejected(m.req) /\ Requester[m.req] = h
      BY <1>5, <2>2
    <3>2. x = m.req
      BY <1>0, <1>3, <2>2, <3>1, RejectedType
    <3>3. waiter'[x] \in {"none", "cancelled", "rejected"} /\ waiter[x] # "granted"
      BY <1>0, <1>3, <2>2, <3>1, <3>2 DEF Rejected, Waiters
    <3>. QED  BY <1>1, <3>1, <3>2, <3>3
  <2>. QED  BY <2>1, <2>2
<1>. QED  BY <1>1, <1>2, <1>6 DEF AwaitedOnly, Live

\* CloseObject takes the lease only from a request that nobody claimed.
LEMMA CloseRefines ==
  ASSUME RetireInv, RetireInv', OpenUnderLease, AwaitedOnly, NEW h \in Hosts, CloseObject(h)
  PROVE  Refines /\ AwaitedOnly'
<1>. DEFINE mine == {r \in Requests : Requester[r] = h}
            unclaimed == {r \in mine : waiter[r] = "granted"}
<1>1. /\ waiter' = [r \in Requests |-> IF r \in mine THEN "none" ELSE waiter[r]]
      /\ odd' = (odd /\ unclaimed = {})
      /\ UNCHANGED <<version, pc, alloc>> /\ racing' \subseteq racing
  BY DEF CloseObject, Locked
<1>2. /\ TokenInv /\ TokenInv' /\ SingleWriter /\ SingleWriter' /\ ClaimedOnce
      /\ odd \in BOOLEAN /\ odd' \in BOOLEAN
  BY DEF RetireInv, TokenInv, ClaimedOnce, TypeInv, TypeOK
<1>3. AwaitedOnly'
  BY <1>1 DEF AwaitedOnly
<1>4. CASE unclaimed = {}
  <2>1. odd' = odd
    BY <1>1, <1>2, <1>4
  <2>2. \A x \in Requests : waiter'[x] = "granted" <=> waiter[x] = "granted"
    BY <1>1, <1>4
  <2>3. \A x \in Requests : Live(x)' <=> Live(x)
    BY <1>1, <2>2 DEF Live
  <2>. QED  BY <1>1, <1>2, <1>3, <2>1, <2>3, QuietRefines
<1>5. CASE unclaimed # {}
  <2>1. PICK r \in unclaimed : TRUE
    BY <1>5
  <2>2. r \in Requests /\ Live(r) /\ odd' = FALSE /\ waiter'[r] = "none"
    BY <1>1, <1>5, <2>1 DEF Live
  <2>3. pc[r] \notin {"holding", "publishing"}
    BY <1>2, <2>1 DEF ClaimedOnce
  <2>4. ~ Live(r)'
    BY <1>1, <2>2, <2>3 DEF Live
  <2>. HIDE DEF unclaimed
  <2>5. Lease!Next
    BY <1>1, <1>2, <2>2, <2>4, LeaseYielded
  <2>. QED  BY <1>3, <2>2, <2>5 DEF Refines, OpenUnderLease
<1>. QED  BY <1>4, <1>5

\* Every step of the retirement is a step of the write lease, or none.
LEMMA RetireRefines ==
  ASSUME RetireInv, RetireInv', OpenUnderLease, AwaitedOnly, RetireStep
  PROVE  Refines /\ AwaitedOnly'
<1>0. /\ TokenInv /\ TokenInv' /\ waiter \in Waiters /\ pc \in [Requests -> Places] /\ PhaseOK
  BY DEF RetireInv, TypeInv, TypeOK, Waiters
<1>1. ASSUME UNCHANGED <<odd, version, waiter, pc>>,
             \A x \in Requests : waiter[x] = "rejected" =>
                                   alloc' # "allocated" /\ Requester[x] \notin racing'
      PROVE  Refines /\ AwaitedOnly'
  <2>1. AwaitedOnly' /\ \A x \in Requests : Live(x)' <=> Live(x)
    BY <1>1 DEF AwaitedOnly, Live
  <2>. QED  BY <1>0, <1>1, <2>1, QuietRefines
<1>2. ASSUME NEW r \in Requests, RequestRefused(r) \/ WaitFailed(r)
      PROVE  Refines /\ AwaitedOnly'
  <2>1. /\ UNCHANGED <<odd, version, alloc>> /\ racing' \subseteq racing
        /\ pc' = [pc EXCEPT ![r] = "done"]
        /\ pc[r] \in {"idle", "waiting"} /\ waiter[r] \notin {"active", "granted"}
        /\ waiter' = waiter \/ waiter' = [waiter EXCEPT ![r] = "none"]
    BY <1>2 DEF RequestRefused, WaitFailed, Locked, shared, service, AwaitedOnly
  <2>2. AwaitedOnly' /\ \A x \in Requests : Live(x)' <=> Live(x)
    BY <1>0, <2>1 DEF AwaitedOnly, Live, Waiters
  <2>. QED  BY <1>0, <2>1, <2>2, QuietRefines
<1>3. ASSUME NEW h \in Hosts, NEW s \in Hosts,
             RejectRequest(h, s) \/ RejectGrant(h, s)
      PROVE  Refines /\ AwaitedOnly'
  <2>1. UNCHANGED <<odd, version>>
    BY <1>3 DEF RejectRequest, RejectGrant, Racing, shared
  <2>. QED  BY <1>0, <1>3, <2>1, RejectAwaited, QuietRefines
<1>4. ASSUME NEW h \in Hosts, NEW s \in Hosts, DropRetiring(h, s) PROVE Refines /\ AwaitedOnly'
  BY <1>1, <1>4 DEF DropRetiring, Locked, shared, service, AwaitedOnly
<1>5. ASSUME NEW h \in Hosts, Drain(h) \/ Clean(h) PROVE Refines /\ AwaitedOnly'
  BY <1>1, <1>5 DEF Drain, Clean, vars, shared, service, AwaitedOnly
<1>6. CASE BeginRetire
  <2>1. alloc = "allocated" /\ UNCHANGED <<odd, version, waiter, pc>>
    BY <1>6 DEF BeginRetire, shared, service
  <2>. QED  BY <1>1, <2>1 DEF AwaitedOnly
<1>7. CASE Free
  <2>1. alloc' = "free" /\ UNCHANGED <<odd, version, waiter, pc, racing>>
    BY <1>7 DEF Free, shared, service
  <2>. QED  BY <1>1, <2>1 DEF AwaitedOnly
<1>. QED  BY <1>2, <1>3, <1>4, <1>5, <1>6, <1>7, CloseRefines DEF RetireStep

\* The token protocol of an object that is being retired implements the same
\* write lease: rejections, CloseObject releasing a grant that nobody claimed
\* and a handler that overtakes BeginRetire give the lease to nobody else, and
\* never leave shared bytes open without one.
THEOREM ImplementsLeaseWhileRetiring == RSpec => ImplementsWriteLease
<1>1. RInit => Lease!Init /\ LeaseInv
  BY InitRefines DEF RInit
<1>2. RetireInv /\ RetireInv' /\ LeaseInv /\ [RNext]_rvars => LeaseInv' /\ [Lease!Next]_(Lease!vars)
  <2>. SUFFICES ASSUME RetireInv, RetireInv', LeaseInv, [RNext]_rvars
                PROVE  LeaseInv' /\ [Lease!Next]_(Lease!vars)
    OBVIOUS
  <2>1. ASSUME [Next]_vars PROVE LeaseInv' /\ [Lease!Next]_(Lease!vars)
    BY <2>1, StepRefines DEF RetireInv
  <2>2. ASSUME RetireStep PROVE LeaseInv' /\ [Lease!Next]_(Lease!vars)
    BY <2>2, RetireRefines, RetireCancels DEF LeaseInv, Refines
  <2>3. CASE UNCHANGED rvars
    <3>1. UNCHANGED vars
      BY ZenonT(60), <2>3 DEF rvars
    <3>. QED  BY <2>1, <3>1
  <2>4. CASE RNext
    BY <2>1, <2>2, <2>4 DEF RNext, RetireStep, TokenStep
  <2>. QED  BY <2>3, <2>4
<1>. QED  BY <1>1, <1>2, RetireInvHolds, PTL DEF RSpec, ImplementsWriteLease, Lease!Spec

-----------------------------------------------------------------------------
(* A request has one place.                                                *)

\* The messages that carry a request, or the grant that answers it.
Carries(m) == m.kind \in {"req", "grant"}

\* The requests that a queue carries, and that it carries each once.
Cargo(q) == {r \in Requests : \E i \in DOMAIN q : Carries(q[i]) /\ q[i].req = r}
Single(q) ==
  \A i, j \in DOMAIN q : Carries(q[i]) /\ Carries(q[j]) /\ q[i].req = q[j].req => i = j

\* A request is under way on the wires w or in the pending queues P.
Underway(w, P, r) ==
  \/ \E s, d \in Hosts : r \in Cargo(w[s][d])
  \/ \E h \in Hosts : r \in Cargo(P[h])

\* No request is on two of them, nor twice on one.
Apart(w, P) ==
  /\ \A s, d \in Hosts : Single(w[s][d])
  /\ \A h \in Hosts : Single(P[h])
  /\ \A r \in Requests : \A s, d, x, y \in Hosts :
       r \in Cargo(w[s][d]) /\ r \in Cargo(w[x][y]) => s = x /\ d = y
  /\ \A r \in Requests : \A h, x \in Hosts : r \in Cargo(P[h]) /\ r \in Cargo(P[x]) => h = x
  /\ \A r \in Requests : \A h, s, d \in Hosts : ~(r \in Cargo(P[h]) /\ r \in Cargo(w[s][d]))

\* Nothing is carried by an empty queue.
LEMMA CargoEmpty == Cargo(<<>>) = {} /\ Single(<<>>)
BY DEF Cargo, Single

\* What a queue of one message carries.
LEMMA CargoOne ==
  ASSUME NEW m \in Msg
  PROVE  /\ <<m>> \in Seq(Msg) /\ Single(<<m>>)
         /\ \A r \in Requests : r \in Cargo(<<m>>) <=> Carries(m) /\ m.req = r
BY DEF Cargo, Single

\* Taking the head off.
LEMMA CargoTail ==
  ASSUME NEW q \in Seq(Msg), q # <<>>, Single(q)
  PROVE  /\ Single(Tail(q))
         /\ \A r \in Requests : r \in Cargo(Tail(q)) <=>
                                  r \in Cargo(q) /\ ~(Carries(Head(q)) /\ Head(q).req = r)
<1>1. /\ Tail(q) \in Seq(Msg) /\ Len(Tail(q)) = Len(q) - 1
      /\ \A i \in 1 .. Len(Tail(q)) : Tail(q)[i] = q[i + 1]
      /\ Head(q) = q[1]
  BY HeadTailProperties
<1>2. /\ Len(q) \in Nat \ {0} /\ DOMAIN q = 1 .. Len(q)
      /\ DOMAIN Tail(q) = 1 .. Len(q) - 1
  BY <1>1, LenProperties, EmptySeq
<1>3. ASSUME NEW i \in DOMAIN Tail(q)
      PROVE  i \in Nat /\ i + 1 \in DOMAIN q /\ i + 1 # 1 /\ Tail(q)[i] = q[i + 1]
  BY <1>1, <1>2, <1>3
<1>4. ASSUME NEW i \in DOMAIN Tail(q), NEW j \in DOMAIN Tail(q),
             Carries(Tail(q)[i]), Carries(Tail(q)[j]), Tail(q)[i].req = Tail(q)[j].req
      PROVE  i = j
  <2>1. i + 1 = j + 1
    BY <1>3, <1>4 DEF Single
  <2>. QED  BY <1>3, <2>1
<1>5. ASSUME NEW r \in Requests, r \in Cargo(Tail(q))
      PROVE  r \in Cargo(q) /\ ~(Carries(Head(q)) /\ Head(q).req = r)
  <2>1. PICK i \in DOMAIN Tail(q) : Carries(Tail(q)[i]) /\ Tail(q)[i].req = r
    BY <1>5 DEF Cargo
  <2>2. i + 1 \in DOMAIN q /\ i + 1 # 1 /\ Carries(q[i + 1]) /\ q[i + 1].req = r
    BY <1>3, <2>1
  <2>3. 1 \in DOMAIN q
    BY <1>2
  <2>. QED  BY <1>1, <2>2, <2>3 DEF Single, Cargo
<1>6. ASSUME NEW r \in Requests, r \in Cargo(q), ~(Carries(Head(q)) /\ Head(q).req = r)
      PROVE  r \in Cargo(Tail(q))
  <2>1. PICK i \in DOMAIN q : Carries(q[i]) /\ q[i].req = r
    BY <1>6 DEF Cargo
  <2>2. i # 1
    BY <1>1, <1>6, <2>1
  <2>3. i - 1 \in DOMAIN Tail(q) /\ i - 1 + 1 = i
    BY <1>2, <2>1, <2>2
  <2>4. Tail(q)[i - 1] = q[i]
    BY <1>3, <2>3
  <2>. QED  BY <2>1, <2>3, <2>4 DEF Cargo
<1>. QED  BY <1>4, <1>5, <1>6 DEF Single

\* One queue behind another.
LEMMA CargoConcat ==
  ASSUME NEW p \in Seq(Msg), NEW q \in Seq(Msg)
  PROVE  /\ Cargo(p \o q) = Cargo(p) \cup Cargo(q)
         /\ Single(p) /\ Single(q) /\ (\A r \in Requests : ~(r \in Cargo(p) /\ r \in Cargo(q)))
              => Single(p \o q)
<1>1. /\ p \o q \in Seq(Msg) /\ Len(p \o q) = Len(p) + Len(q)
      /\ \A i \in 1 .. Len(p) + Len(q) :
           (p \o q)[i] = IF i <= Len(p) THEN p[i] ELSE q[i - Len(p)]
  BY ConcatProperties
<1>2. /\ Len(p) \in Nat /\ Len(q) \in Nat /\ DOMAIN p = 1 .. Len(p) /\ DOMAIN q = 1 .. Len(q)
      /\ DOMAIN (p \o q) = 1 .. Len(p) + Len(q)
  BY <1>1, LenProperties
<1>3. ASSUME NEW i \in DOMAIN (p \o q)
      PROVE  \/ i \in DOMAIN p /\ (p \o q)[i] = p[i]
             \/ i - Len(p) \in DOMAIN q /\ (p \o q)[i] = q[i - Len(p)]
  BY <1>1, <1>2, <1>3
<1>4. ASSUME NEW i \in DOMAIN p PROVE i \in DOMAIN (p \o q) /\ (p \o q)[i] = p[i]
  BY <1>1, <1>2, <1>4
<1>5. ASSUME NEW i \in DOMAIN q
      PROVE  i + Len(p) \in DOMAIN (p \o q) /\ (p \o q)[i + Len(p)] = q[i]
  <2>1. i + Len(p) \in 1 .. Len(p) + Len(q) /\ ~(i + Len(p) <= Len(p)) /\ i + Len(p) - Len(p) = i
    BY <1>2, <1>5
  <2>. QED  BY <1>1, <1>2, <2>1
<1>6. Cargo(p \o q) = Cargo(p) \cup Cargo(q)
  <2>1. ASSUME NEW r \in Requests, r \in Cargo(p \o q) PROVE r \in Cargo(p) \cup Cargo(q)
    <3>1. PICK i \in DOMAIN (p \o q) : Carries((p \o q)[i]) /\ (p \o q)[i].req = r
      BY <2>1 DEF Cargo
    <3>. QED  BY <1>3, <3>1 DEF Cargo
  <2>2. ASSUME NEW r \in Requests, r \in Cargo(p) PROVE r \in Cargo(p \o q)
    BY <1>4, <2>2 DEF Cargo
  <2>3. ASSUME NEW r \in Requests, r \in Cargo(q) PROVE r \in Cargo(p \o q)
    BY <1>5, <2>3 DEF Cargo
  <2>. QED  BY <2>1, <2>2, <2>3 DEF Cargo
<1>7. ASSUME Single(p), Single(q), \A r \in Requests : ~(r \in Cargo(p) /\ r \in Cargo(q)),
             NEW i \in DOMAIN (p \o q), NEW j \in DOMAIN (p \o q),
             Carries((p \o q)[i]), Carries((p \o q)[j]), (p \o q)[i].req = (p \o q)[j].req
      PROVE  i = j
  <2>0. (p \o q)[i].req \in Requests /\ i \in Int /\ j \in Int
    <3>1. (p \o q)[i] \in Msg
      BY <1>1, <1>2, ElementOfSeq
    <3>. QED  BY <1>2, <3>1, MsgFields
  <2>1. CASE i \in DOMAIN p /\ (p \o q)[i] = p[i] /\ j \in DOMAIN p /\ (p \o q)[j] = p[j]
    BY <1>7, <2>1 DEF Single
  <2>2. CASE /\ i - Len(p) \in DOMAIN q /\ (p \o q)[i] = q[i - Len(p)]
             /\ j - Len(p) \in DOMAIN q /\ (p \o q)[j] = q[j - Len(p)]
    <3>1. i - Len(p) = j - Len(p)
      BY <1>7, <2>2 DEF Single
    <3>. QED  BY <1>2, <2>0, <3>1
  <2>3. CASE /\ i \in DOMAIN p /\ (p \o q)[i] = p[i]
             /\ j - Len(p) \in DOMAIN q /\ (p \o q)[j] = q[j - Len(p)]
    BY <1>7, <2>0, <2>3 DEF Cargo
  <2>4. CASE /\ i - Len(p) \in DOMAIN q /\ (p \o q)[i] = q[i - Len(p)]
             /\ j \in DOMAIN p /\ (p \o q)[j] = p[j]
    BY <1>7, <2>0, <2>4 DEF Cargo
  <2>. QED  BY <1>3, <2>1, <2>2, <2>3, <2>4
<1>. QED  BY <1>6, <1>7 DEF Single

\* A message more.
LEMMA CargoAppend ==
  ASSUME NEW q \in Seq(Msg), NEW m \in Msg, Single(q), Carries(m) => m.req \notin Cargo(q)
  PROVE  /\ Single(Append(q, m))
         /\ \A r \in Requests : r \in Cargo(Append(q, m)) <=>
                                  r \in Cargo(q) \/ (Carries(m) /\ m.req = r)
<1>1. Append(q, m) = q \o <<m>>
  BY AppendIsConcat
<1>2. /\ <<m>> \in Seq(Msg) /\ Single(<<m>>)
      /\ \A r \in Requests : r \in Cargo(<<m>>) <=> Carries(m) /\ m.req = r
  BY CargoOne
<1>3. /\ Cargo(q \o <<m>>) = Cargo(q) \cup Cargo(<<m>>)
      /\ Single(q) /\ Single(<<m>>) /\ (\A r \in Requests : ~(r \in Cargo(q) /\ r \in Cargo(<<m>>)))
           => Single(q \o <<m>>)
  BY <1>2, CargoConcat
<1>. QED  BY <1>1, <1>2, <1>3

\* How many entries of c lie behind the n-th.
LEMMA RestLength ==
  ASSUME NEW c \in Nat, NEW n \in 1 .. c
  PROVE  n \in Nat /\ (IF n + 1 <= c THEN c - (n + 1) + 1 ELSE 0) = c - n
OBVIOUS

\* What is left behind the n-th entry.
LEMMA CargoRest ==
  ASSUME NEW q \in Seq(Msg), NEW n \in 1 .. Len(q), Single(q)
  PROVE  /\ Single(SubSeq(q, n + 1, Len(q)))
         /\ \A r \in Requests : r \in Cargo(SubSeq(q, n + 1, Len(q))) <=>
              r \in Cargo(q) /\ \A i \in 1 .. n : ~(Carries(q[i]) /\ q[i].req = r)
<1>. DEFINE v == SubSeq(q, n + 1, Len(q))
<1>1. /\ Len(q) \in Nat /\ DOMAIN q = 1 .. Len(q) /\ \A i \in 1 .. Len(q) : q[i] \in Msg
  BY LenProperties, ElementOfSeq
<1>2. /\ v \in Seq(Msg)
      /\ Len(v) = IF n + 1 <= Len(q) THEN Len(q) - (n + 1) + 1 ELSE 0
      /\ \A i \in 1 .. Len(q) - (n + 1) + 1 : v[i] = q[n + 1 + i - 1]
  <2>1. \A i \in n + 1 .. Len(q) : q[i] \in Msg
    BY <1>1
  <2>. QED  BY <1>1, <2>1, SubSeqProperties
<1>. HIDE DEF v
<1>3. DOMAIN v = 1 .. Len(q) - n /\ n \in Nat
  <2>1. DOMAIN v = 1 .. Len(v)
    BY <1>2, LenProperties
  <2>2. /\ n \in Nat
        /\ (IF n + 1 <= Len(q) THEN Len(q) - (n + 1) + 1 ELSE 0) = Len(q) - n
    <3>. DEFINE c == Len(q)
    <3>1. c \in Nat /\ n \in 1 .. c
      BY <1>1
    <3>. HIDE DEF c
    <3>2. n \in Nat /\ (IF n + 1 <= c THEN c - (n + 1) + 1 ELSE 0) = c - n
      BY <3>1, RestLength
    <3>. QED  BY <3>2, Zenon DEF c
  <2>. QED  BY <1>2, <2>1, <2>2
<1>4. ASSUME NEW i \in DOMAIN v PROVE i \in Nat \ {0} /\ n + i \in DOMAIN q /\ v[i] = q[n + i]
  <2>1. i \in 1 .. Len(q) - (n + 1) + 1 /\ n + 1 + i - 1 = n + i /\ n + i \in 1 .. Len(q)
    BY <1>1, <1>3, <1>4
  <2>2. i \in Nat \ {0}
    BY <2>1
  <2>3. v[i] = q[n + 1 + i - 1]
    BY <1>2, <2>1
  <2>. QED  BY <1>1, <2>1, <2>2, <2>3
<1>5. ASSUME NEW i \in DOMAIN v, NEW j \in DOMAIN v,
             Carries(v[i]), Carries(v[j]), v[i].req = v[j].req
      PROVE  i = j
  <2>1. n + i = n + j
    BY <1>4, <1>5 DEF Single
  <2>. QED  BY <1>3, <1>4, <2>1
<1>6. ASSUME NEW r \in Requests, r \in Cargo(v)
      PROVE  r \in Cargo(q) /\ \A i \in 1 .. n : ~(Carries(q[i]) /\ q[i].req = r)
  <2>1. PICK i \in DOMAIN v : Carries(v[i]) /\ v[i].req = r
    BY <1>6 DEF Cargo
  <2>2. n + i \in DOMAIN q /\ Carries(q[n + i]) /\ q[n + i].req = r
    BY <1>4, <2>1
  <2>3. ASSUME NEW j \in 1 .. n PROVE j \in DOMAIN q /\ j # n + i
    BY <1>1, <1>3, <1>4
  <2>. QED  BY <2>2, <2>3 DEF Single, Cargo
<1>7. ASSUME NEW r \in Requests, r \in Cargo(q),
             \A i \in 1 .. n : ~(Carries(q[i]) /\ q[i].req = r)
      PROVE  r \in Cargo(v)
  <2>1. PICK i \in DOMAIN q : Carries(q[i]) /\ q[i].req = r
    BY <1>7 DEF Cargo
  <2>2. i \notin 1 .. n
    BY <1>7, <2>1
  <2>3. i - n \in DOMAIN v /\ n + (i - n) = i
    BY <1>1, <1>3, <2>1, <2>2
  <2>4. v[i - n] = q[i]
    BY <1>4, <2>3
  <2>. QED  BY <2>1, <2>3, <2>4 DEF Cargo
<1>. QED  BY <1>5, <1>6, <1>7 DEF Single, v

\* The entries that are left when the i-th is taken out.
LEMMA RemoveAtEntries ==
  ASSUME NEW q \in Seq(Msg), NEW i \in 1 .. Len(q)
  PROVE  /\ RemoveAt(q, i) \in Seq(Msg) /\ Len(RemoveAt(q, i)) = Len(q) - 1
         /\ \A j \in 1 .. Len(q) - 1 : j < i => RemoveAt(q, i)[j] = q[j]
         /\ \A j \in 1 .. Len(q) - 1 : j >= i => RemoveAt(q, i)[j] = q[j + 1]
<1>. DEFINE front == SubSeq(q, 1, i - 1)
            rest == SubSeq(q, i + 1, Len(q))
            c == Len(q)
<1>1. c \in Nat /\ i \in 1 .. c /\ \A k \in 1 .. c : q[k] \in Msg
  BY LenProperties, ElementOfSeq
<1>2. /\ front \in Seq(Msg) /\ Len(front) = i - 1
      /\ \A k \in 1 .. i - 1 : front[k] = q[k]
  <2>1. \A k \in 1 .. i - 1 : q[k] \in Msg
    BY <1>1
  <2>2. /\ SubSeq(q, 1, i - 1) \in Seq(Msg)
        /\ Len(SubSeq(q, 1, i - 1)) = IF 1 <= i - 1 THEN i - 1 - 1 + 1 ELSE 0
        /\ \A k \in 1 .. i - 1 - 1 + 1 : SubSeq(q, 1, i - 1)[k] = q[1 + k - 1]
    BY <1>1, <2>1, SubSeqProperties
  <2>. QED  BY <1>1, <2>2
<1>3. /\ rest \in Seq(Msg) /\ Len(rest) = IF i + 1 <= c THEN c - (i + 1) + 1 ELSE 0
      /\ \A k \in 1 .. c - (i + 1) + 1 : rest[k] = q[i + 1 + k - 1]
  <2>1. \A k \in i + 1 .. Len(q) : q[k] \in Msg
    BY <1>1
  <2>. QED  BY <1>1, <2>1, SubSeqProperties
<1>. HIDE DEF front, rest, c
<1>4. i \in Nat \ {0} /\ i <= c /\ Len(rest) = c - i
  BY <1>1, <1>3, RestLength
<1>5. /\ front \o rest \in Seq(Msg)
      /\ Len(front \o rest) = Len(front) + Len(rest)
      /\ \A j \in 1 .. Len(front) + Len(rest) :
           (front \o rest)[j] = IF j <= Len(front) THEN front[j] ELSE rest[j - Len(front)]
  BY <1>2, <1>3, ConcatProperties
<1>6. Len(front) + Len(rest) = c - 1
  BY <1>1, <1>2, <1>4
<1>7. ASSUME NEW j \in 1 .. c - 1, j < i PROVE (front \o rest)[j] = q[j]
  BY <1>1, <1>2, <1>4, <1>5, <1>6, <1>7
<1>8. ASSUME NEW j \in 1 .. c - 1, j >= i PROVE (front \o rest)[j] = q[j + 1]
  <2>1. ~(j <= Len(front))
    BY <1>1, <1>2, <1>4, <1>8
  <2>2. (front \o rest)[j] = rest[j - (i - 1)]
    BY <1>2, <1>5, <1>6, <1>8, <2>1
  <2>3. j - (i - 1) \in 1 .. c - (i + 1) + 1 /\ i + 1 + (j - (i - 1)) - 1 = j + 1
    BY <1>1, <1>4, <1>8
  <2>. QED  BY <1>3, <2>2, <2>3
<1>9. RemoveAt(q, i) = front \o rest
  BY DEF RemoveAt, front, rest
<1>. QED  BY <1>5, <1>6, <1>7, <1>8, <1>9 DEF c

\* Taking the i-th entry out takes out what it carries and nothing else.
LEMMA CargoRemove ==
  ASSUME NEW q \in Seq(Msg), NEW i \in DOMAIN q, Single(q), Carries(q[i])
  PROVE  /\ RemoveAt(q, i) \in Seq(Msg) /\ Single(RemoveAt(q, i))
         /\ \A r \in Requests : r \in Cargo(RemoveAt(q, i)) <=> r \in Cargo(q) /\ q[i].req # r
<1>. DEFINE v == RemoveAt(q, i)
            c == Len(q)
<1>1. c \in Nat /\ DOMAIN q = 1 .. c /\ i \in 1 .. c
  BY SMTT(60), LenProperties
<1>2. /\ v \in Seq(Msg) /\ Len(v) = c - 1
      /\ \A j \in 1 .. c - 1 : j < i => v[j] = q[j]
      /\ \A j \in 1 .. c - 1 : j >= i => v[j] = q[j + 1]
  BY ZenonT(60), <1>1, RemoveAtEntries
<1>. HIDE DEF v, c
<1>3. DOMAIN v = 1 .. c - 1
  BY <1>2, LenProperties
<1>. DEFINE at(j) == IF j < i THEN j ELSE j + 1
<1>4. ASSUME NEW j \in DOMAIN v
      PROVE  j \in Int /\ at(j) \in DOMAIN q /\ at(j) # i /\ v[j] = q[at(j)]
  <2>1. CASE j < i
    BY <1>1, <1>2, <1>3, <2>1
  <2>2. CASE j >= i
    BY <1>1, <1>2, <1>3, <2>2
  <2>. QED  BY <1>1, <1>3, <2>1, <2>2
<1>5. ASSUME NEW j \in DOMAIN v, NEW k \in DOMAIN v, at(j) = at(k) PROVE j = k
  <2>1. j \in Int /\ k \in Int /\ i \in Int
    BY <1>1, <1>3
  <2>. QED  BY <1>5, <2>1
<1>6. ASSUME NEW k \in DOMAIN q, k # i PROVE \E j \in DOMAIN v : at(j) = k
  <2>1. CASE k < i
    <3>1. k \in DOMAIN v /\ at(k) = k
      BY <1>1, <1>3, <2>1
    <3>. QED  BY <3>1
  <2>2. CASE k > i
    <3>1. k - 1 \in DOMAIN v /\ at(k - 1) = k
      BY <1>1, <1>3, <2>2
    <3>. QED  BY <3>1
  <2>. QED  BY <1>1, <1>6, <2>1, <2>2
<1>. HIDE DEF at
<1>7. Single(v)
  BY <1>4, <1>5 DEF Single
<1>8. ASSUME NEW r \in Requests, r \in Cargo(v) PROVE r \in Cargo(q) /\ q[i].req # r
  <2>1. PICK j \in DOMAIN v : Carries(v[j]) /\ v[j].req = r
    BY <1>8 DEF Cargo
  <2>2. at(j) \in DOMAIN q /\ at(j) # i /\ Carries(q[at(j)]) /\ q[at(j)].req = r
    BY <1>4, <2>1
  <2>. QED  BY <2>2 DEF Single, Cargo
<1>9. ASSUME NEW r \in Requests, r \in Cargo(q), q[i].req # r PROVE r \in Cargo(v)
  <2>1. PICK k \in DOMAIN q : Carries(q[k]) /\ q[k].req = r
    BY <1>9 DEF Cargo
  <2>2. PICK j \in DOMAIN v : at(j) = k
    BY <1>6, <1>9, <2>1
  <2>3. v[j] = q[k]
    BY <1>4, <2>2
  <2>. QED  BY <2>1, <2>3 DEF Cargo
<1>. QED  BY <1>2, <1>7, <1>8, <1>9 DEF v

\* What a queue carries is among the requests of its entries.
LEMMA CargoEntry ==
  ASSUME NEW q \in Seq(Msg)
  PROVE  /\ \A i \in DOMAIN q : Carries(q[i]) => q[i].req \in Cargo(q)
         /\ \A r \in Cargo(q) : r \in Requests /\ \E i \in DOMAIN q : Carries(q[i]) /\ q[i].req = r
<1>1. \A i \in DOMAIN q : q[i].req \in Requests
  <2>1. \A i \in DOMAIN q : q[i] \in Msg
    BY LenProperties, ElementOfSeq
  <2>. QED  BY <2>1, MsgFields
<1>. QED  BY <1>1 DEF Cargo

-----------------------------------------------------------------------------
(* What the transport and the queues do to the requests under way.         *)

\* One pending queue is replaced.  What the new one carries was in the old one
\* or was nowhere.
LEMMA ApartQueue ==
  ASSUME NEW w, NEW P \in [Hosts -> Seq(Msg)], NEW h \in Hosts, NEW v \in Seq(Msg),
         Apart(w, P), Single(v),
         \A r \in Cargo(v) : r \in Cargo(P[h]) \/ ~Underway(w, P, r)
  PROVE  /\ Apart(w, [P EXCEPT ![h] = v])
         /\ \A r \in Requests : Underway(w, [P EXCEPT ![h] = v], r) <=>
              r \in Cargo(v) \/ (Underway(w, P, r) /\ r \notin Cargo(P[h]))
<1>. DEFINE P2 == [P EXCEPT ![h] = v]
<1>1. P2[h] = v /\ \A x \in Hosts : x # h => P2[x] = P[x]
  OBVIOUS
<1>. HIDE DEF P2
<1>2. Apart(w, P2)
  <2>1. \A x \in Hosts : Single(P2[x])
    BY <1>1 DEF Apart
  <2>2. ASSUME NEW r \in Requests, NEW x \in Hosts, NEW y \in Hosts,
               r \in Cargo(P2[x]), r \in Cargo(P2[y])
        PROVE  x = y
    <3>1. CASE x # h /\ y # h
      BY <1>1, <2>2, <3>1 DEF Apart
    <3>2. CASE x = h /\ y # h
      BY <1>1, <2>2, <3>2 DEF Apart, Underway
    <3>3. CASE x # h /\ y = h
      BY <1>1, <2>2, <3>3 DEF Apart, Underway
    <3>. QED  BY <3>1, <3>2, <3>3
  <2>3. ASSUME NEW r \in Requests, NEW x \in Hosts, NEW s \in Hosts, NEW d \in Hosts,
               r \in Cargo(P2[x]), r \in Cargo(w[s][d])
        PROVE  FALSE
    <3>1. CASE x # h
      BY <1>1, <2>3, <3>1 DEF Apart
    <3>2. CASE x = h
      BY <1>1, <2>3, <3>2 DEF Apart, Underway
    <3>. QED  BY <3>1, <3>2
  <2>. QED  BY <2>1, <2>2, <2>3 DEF Apart
<1>3. ASSUME NEW r \in Requests
      PROVE  Underway(w, P2, r) <=> r \in Cargo(v) \/ (Underway(w, P, r) /\ r \notin Cargo(P[h]))
  <2>1. ASSUME Underway(w, P2, r), r \notin Cargo(v)
        PROVE  Underway(w, P, r) /\ r \notin Cargo(P[h])
    BY <1>1, <2>1 DEF Underway, Apart
  <2>2. ASSUME Underway(w, P, r), r \notin Cargo(P[h]) PROVE Underway(w, P2, r)
    BY <1>1, <2>2 DEF Underway
  <2>3. ASSUME r \in Cargo(v) PROVE Underway(w, P2, r)
    BY <1>1, <2>3 DEF Underway
  <2>. QED  BY <2>1, <2>2, <2>3
<1>. QED  BY <1>2, <1>3 DEF P2

\* One wire is replaced.
LEMMA ApartWire ==
  ASSUME NEW w \in Wires, NEW P, NEW a \in Hosts, NEW b \in Hosts, NEW v \in Seq(Msg),
         Apart(w, P), Single(v),
         \A r \in Cargo(v) : r \in Cargo(w[a][b]) \/ ~Underway(w, P, r)
  PROVE  /\ Apart([w EXCEPT ![a][b] = v], P)
         /\ \A r \in Requests : Underway([w EXCEPT ![a][b] = v], P, r) <=>
              r \in Cargo(v) \/ (Underway(w, P, r) /\ r \notin Cargo(w[a][b]))
<1>. DEFINE w2 == [w EXCEPT ![a][b] = v]
<1>1. w2[a][b] = v /\ \A s, d \in Hosts : ~(s = a /\ d = b) => w2[s][d] = w[s][d]
  BY DEF Wires
<1>. HIDE DEF w2
<1>2. Apart(w2, P)
  <2>1. \A s, d \in Hosts : Single(w2[s][d])
    BY <1>1 DEF Apart
  <2>2. ASSUME NEW r \in Requests, NEW s \in Hosts, NEW d \in Hosts, NEW x \in Hosts, NEW y \in Hosts,
               r \in Cargo(w2[s][d]), r \in Cargo(w2[x][y])
        PROVE  s = x /\ d = y
    <3>1. CASE ~(s = a /\ d = b) /\ ~(x = a /\ y = b)
      BY <1>1, <2>2, <3>1 DEF Apart
    <3>2. CASE s = a /\ d = b /\ ~(x = a /\ y = b)
      BY <1>1, <2>2, <3>2 DEF Apart, Underway
    <3>3. CASE ~(s = a /\ d = b) /\ x = a /\ y = b
      BY <1>1, <2>2, <3>3 DEF Apart, Underway
    <3>. QED  BY <3>1, <3>2, <3>3
  <2>3. ASSUME NEW r \in Requests, NEW x \in Hosts, NEW s \in Hosts, NEW d \in Hosts,
               r \in Cargo(P[x]), r \in Cargo(w2[s][d])
        PROVE  FALSE
    <3>1. CASE ~(s = a /\ d = b)
      BY <1>1, <2>3, <3>1 DEF Apart
    <3>2. CASE s = a /\ d = b
      BY <1>1, <2>3, <3>2 DEF Apart, Underway
    <3>. QED  BY <3>1, <3>2
  <2>. QED  BY <2>1, <2>2, <2>3 DEF Apart
<1>3. ASSUME NEW r \in Requests
      PROVE  Underway(w2, P, r) <=> r \in Cargo(v) \/ (Underway(w, P, r) /\ r \notin Cargo(w[a][b]))
  <2>1. ASSUME Underway(w2, P, r), r \notin Cargo(v)
        PROVE  Underway(w, P, r) /\ r \notin Cargo(w[a][b])
    BY <1>1, <2>1 DEF Underway, Apart
  <2>2. ASSUME Underway(w, P, r), r \notin Cargo(w[a][b]) PROVE Underway(w2, P, r)
    BY <1>1, <2>2 DEF Underway
  <2>3. ASSUME r \in Cargo(v) PROVE Underway(w2, P, r)
    BY <1>1, <2>3 DEF Underway
  <2>. QED  BY <2>1, <2>2, <2>3
<1>. QED  BY <1>2, <1>3 DEF w2

\* TryPop takes what the head carries off the wires.
LEMMA ApartPop ==
  ASSUME TypeInv, NEW h \in Hosts, NEW s \in Hosts, Inbound(h, s), NEW P, Apart(wire, P)
  PROVE  /\ Apart(Popped(h, s), P)
         /\ \A r \in Requests : Underway(Popped(h, s), P, r) <=>
              Underway(wire, P, r) /\ ~(Carries(Head(wire[s][h])) /\ Head(wire[s][h]).req = r)
         /\ Carries(Head(wire[s][h])) => Underway(wire, P, Head(wire[s][h]).req)
<1>. DEFINE q == wire[s][h]
            v == Tail(q)
            m == Head(q)
<1>1. wire \in Wires
  BY DEF TypeInv, TypeOK, Wires
<1>2. /\ q \in Seq(Msg) /\ q # <<>> /\ v \in Seq(Msg) /\ m \in Msg
      /\ Popped(h, s) = [wire EXCEPT ![s][h] = v]
  <2>1. q \in Seq(Msg) /\ q # <<>>
    BY PopType
  <2>2. v \in Seq(Msg) /\ m \in Msg
    BY <2>1, HeadTailProperties
  <2>. QED  BY <1>1, <2>1, <2>2 DEF Popped, Wires
<1>3. Single(q)
  BY DEF Apart
<1>4. Single(v) /\ \A r \in Requests : r \in Cargo(v) <=> r \in Cargo(q) /\ ~(Carries(m) /\ m.req = r)
  BY <1>2, <1>3, CargoTail
<1>5. Carries(m) => m.req \in Cargo(q)
  <2>1. 1 \in DOMAIN q /\ q[1] = m
    <3>1. Len(q) \in Nat \ {0} /\ DOMAIN q = 1 .. Len(q)
      BY <1>2, EmptySeq, LenProperties
    <3>. QED  BY <1>2, <3>1
  <2>. QED  BY <1>2, <2>1, CargoEntry
<1>. HIDE DEF v, m
<1>6. \A r \in Cargo(v) : r \in Requests
  BY <1>2, CargoEntry
<1>7. /\ Apart([wire EXCEPT ![s][h] = v], P)
      /\ \A r \in Requests : Underway([wire EXCEPT ![s][h] = v], P, r) <=>
           r \in Cargo(v) \/ (Underway(wire, P, r) /\ r \notin Cargo(wire[s][h]))
  BY <1>1, <1>2, <1>4, <1>6, ApartWire
<1>8. ASSUME NEW r \in Requests, r \in Cargo(q) PROVE Underway(wire, P, r)
  BY <1>8 DEF Underway
<1>9. ASSUME NEW r \in Requests
      PROVE  Underway(Popped(h, s), P, r) <=> Underway(wire, P, r) /\ ~(Carries(m) /\ m.req = r)
  BY <1>2, <1>4, <1>5, <1>7, <1>8
<1>10. Carries(m) => Underway(wire, P, m.req)
  BY <1>2, <1>5, <1>8, MsgFields
<1>. QED  BY <1>2, <1>7, <1>9, <1>10 DEF m, v

\* EnqueueOutbound puts what it posts on the wires.
LEMMA ApartPost ==
  ASSUME NEW w \in Wires, NEW P, NEW h \in Hosts, NEW d \in Hosts, NEW ms \in Seq(Msg),
         Apart(w, P), Single(ms), \A r \in Cargo(ms) : ~Underway(w, P, r)
  PROVE  /\ Apart(Post(w, h, d, ms), P)
         /\ \A r \in Requests : Underway(Post(w, h, d, ms), P, r) <=>
                                  Underway(w, P, r) \/ r \in Cargo(ms)
<1>. DEFINE q == w[h][d]
            v == q \o ms
<1>1. q \in Seq(Msg) /\ v \in Seq(Msg) /\ Post(w, h, d, ms) = [w EXCEPT ![h][d] = v]
  <2>1. q \in Seq(Msg)
    BY DEF Wires
  <2>2. v \in Seq(Msg)
    BY <2>1, ConcatProperties
  <2>. QED  BY <2>1, <2>2 DEF Post, Wires
<1>2. ASSUME NEW r \in Requests, r \in Cargo(q) PROVE Underway(w, P, r)
  BY <1>2 DEF Underway
<1>3. Single(q)
  BY DEF Apart
<1>. HIDE DEF q
<1>4. /\ Cargo(v) = Cargo(q) \cup Cargo(ms)
      /\ Single(q) /\ Single(ms) /\ (\A r \in Requests : ~(r \in Cargo(q) /\ r \in Cargo(ms)))
           => Single(v)
  BY <1>1, CargoConcat
<1>5. Single(v)
  BY <1>2, <1>3, <1>4
<1>. HIDE DEF v
<1>6. \A r \in Cargo(v) : r \in Cargo(w[h][d]) \/ ~Underway(w, P, r)
  BY <1>4 DEF q
<1>7. /\ Apart([w EXCEPT ![h][d] = v], P)
      /\ \A r \in Requests : Underway([w EXCEPT ![h][d] = v], P, r) <=>
           r \in Cargo(v) \/ (Underway(w, P, r) /\ r \notin Cargo(w[h][d]))
  BY <1>1, <1>5, <1>6, ApartWire
<1>8. ASSUME NEW r \in Requests
      PROVE  Underway(Post(w, h, d, ms), P, r) <=> Underway(w, P, r) \/ r \in Cargo(ms)
  BY <1>1, <1>2, <1>4, <1>7 DEF q
<1>. QED  BY <1>1, <1>7, <1>8

\* Sending one message.
LEMMA ApartSend ==
  ASSUME NEW w \in Wires, NEW p, NEW P, NEW h \in Hosts, NEW d \in Hosts, NEW m \in Msg,
         Send(w, p, h, d, m), Apart(w, P), Carries(m) => ~Underway(w, P, m.req)
  PROVE  /\ Apart(wire', P)
         /\ \A r \in Requests : Underway(wire', P, r) <=>
                                  Underway(w, P, r) \/ (Carries(m) /\ m.req = r)
<1>. DEFINE ms == <<m>>
<1>1. /\ ms \in Seq(Msg) /\ Single(ms)
      /\ \A r \in Requests : r \in Cargo(ms) <=> Carries(m) /\ m.req = r
  BY CargoOne
<1>2. wire' = Post(w, h, d, ms)
  BY DEF Send
<1>. HIDE DEF ms
<1>3. \A r \in Cargo(ms) : r \in Requests
  BY <1>1, CargoEntry
<1>4. /\ Apart(Post(w, h, d, ms), P)
      /\ \A r \in Requests : Underway(Post(w, h, d, ms), P, r) <=>
                               Underway(w, P, r) \/ r \in Cargo(ms)
  BY <1>1, <1>3, ApartPost
<1>. QED  BY <1>1, <1>2, <1>4

\* Passing over requests completes their waiters and opens none.
LEMMA SkippedActive ==
  ASSUME NEW W, NEW q, NEW n, NEW r \in Requests, Skipped(W, q, n)[r] = "active"
  PROVE  W[r] = "active" /\ \A i \in 1 .. n : q[i].req # r
BY DEF Skipped, Completed

\* A hand-off of the requests q keeps each of them once, but for those whose
\* waiter it completes or grants.
LEMMA HandOffConserves ==
  ASSUME pending \in [Hosts -> Seq(Msg)], epoch \in Nat, version' \in Nat, NEW h \in Hosts,
         NEW W \in Waiters, NEW L, NEW w \in Wires, NEW p,
         NEW q \in Seq(Msg), \A i \in 1 .. Len(q) : q[i].kind = "req",
         HandOff(h, W, L, w, p, q), Apart(w, [pending EXCEPT ![h] = q])
  PROVE  /\ Apart(wire', pending')
         /\ \A r \in Requests :
              /\ waiter'[r] = "active" => W[r] = "active"
              /\ Underway(wire', pending', r) => Underway(w, [pending EXCEPT ![h] = q], r)
              /\ Underway(w, [pending EXCEPT ![h] = q], r) /\ waiter'[r] = "active"
                   => Underway(wire', pending', r)
<1>. DEFINE P == [pending EXCEPT ![h] = q]
            U(r) == Underway(w, P, r)
<1>1. /\ P \in [Hosts -> Seq(Msg)] /\ P[h] = q
      /\ \A v : [pending EXCEPT ![h] = v] = [P EXCEPT ![h] = v]
  OBVIOUS
<1>. HIDE DEF P
<1>2. Apart(w, P)
  BY DEF P
<1>3. Single(q) /\ (\A r \in Cargo(q) : U(r)) /\ (\A r \in Cargo(q) : r \in Requests)
  <2>1. Single(q) /\ \A r \in Cargo(q) : U(r)
    BY <1>1, <1>2 DEF Apart, Underway
  <2>. QED  BY <2>1, CargoEntry
<1>4. Len(q) \in Nat /\ DOMAIN q = 1 .. Len(q)
  BY LenProperties
<1>5. /\ <<>> \in Seq(Msg) /\ Single(<<>>) /\ Cargo(<<>>) = {}
      /\ Apart(w, [P EXCEPT ![h] = <<>>])
      /\ \A r \in Requests : Underway(w, [P EXCEPT ![h] = <<>>], r) <=> U(r) /\ r \notin Cargo(q)
  <2>. DEFINE v == <<>>
  <2>1. v \in Seq(Msg) /\ Single(v) /\ Cargo(v) = {}
    BY CargoEmpty, EmptySeq
  <2>. HIDE DEF v
  <2>2. /\ Apart(w, [P EXCEPT ![h] = v])
        /\ \A r \in Requests : Underway(w, [P EXCEPT ![h] = v], r) <=>
             r \in Cargo(v) \/ (Underway(w, P, r) /\ r \notin Cargo(P[h]))
    BY <1>1, <1>2, <2>1, ApartQueue
  <2>3. /\ Apart(w, [P EXCEPT ![h] = v])
        /\ \A r \in Requests : Underway(w, [P EXCEPT ![h] = v], r) <=> U(r) /\ r \notin Cargo(q)
    BY <1>1, <2>1, <2>2
  <2>. QED  BY <2>1, <2>3 DEF v
<1>6. CASE PutBack(h, W, L, w, p, q, Len(q), <<>>)
  <2>1. wire' = w /\ pending' = [P EXCEPT ![h] = <<>>] /\ waiter' = Skipped(W, q, Len(q))
    BY <1>1, <1>6 DEF PutBack
  <2>2. ASSUME NEW r \in Requests, waiter'[r] = "active"
        PROVE  W[r] = "active" /\ r \notin Cargo(q)
    <3>1. W[r] = "active" /\ \A i \in 1 .. Len(q) : q[i].req # r
      BY <2>1, <2>2, SkippedActive
    <3>. QED  BY <1>4, <3>1 DEF Cargo
  <2>. QED  BY <1>5, <2>1, <2>2 DEF P
<1>7. ASSUME NEW n \in 1 .. Len(q), GrantLocal(h, W, L, w, p, q, n)
      PROVE  /\ Apart(wire', pending')
             /\ \A r \in Requests :
                  /\ waiter'[r] = "active" => W[r] = "active"
                  /\ Underway(wire', pending', r) => U(r)
                  /\ U(r) /\ waiter'[r] = "active" => Underway(wire', pending', r)
  <2>. DEFINE v == SubSeq(q, n + 1, Len(q))
  <2>1. wire' = w /\ pending' = [P EXCEPT ![h] = v]
    BY <1>1, <1>7 DEF GrantLocal
  <2>2. /\ v \in Seq(Msg) /\ Single(v)
        /\ \A r \in Requests : r \in Cargo(v) <=>
             r \in Cargo(q) /\ \A i \in 1 .. n : ~(Carries(q[i]) /\ q[i].req = r)
    BY <1>3, RestType, CargoRest
  <2>. HIDE DEF v
  <2>3. \A r \in Cargo(v) : r \in Requests /\ r \in Cargo(P[h])
    BY <1>1, <2>2, CargoEntry
  <2>4. /\ Apart(w, [P EXCEPT ![h] = v])
        /\ \A r \in Requests : Underway(w, [P EXCEPT ![h] = v], r) <=>
             r \in Cargo(v) \/ (Underway(w, P, r) /\ r \notin Cargo(P[h]))
    BY <1>1, <1>2, <2>2, <2>3, ApartQueue
  <2>5. ASSUME NEW r \in Requests, waiter'[r] = "active"
        PROVE  W[r] = "active" /\ \A i \in 1 .. n : q[i].req # r
    <3>1. q[n].req \in Requests
      BY EntryType
    <3>2. q[n].req # r /\ Skipped(W, q, n - 1)[r] = "active"
      <4>1. CASE W[q[n].req] = "none"
        <5>1. waiter' = Skipped(W, q, n - 1)
          BY <1>7, <4>1 DEF GrantLocal
        <5>2. Skipped(W, q, n - 1)[q[n].req] # "active"
          BY <3>1, <4>1, SkippedActive
        <5>. QED  BY <2>5, <5>1, <5>2
      <4>2. CASE W[q[n].req] # "none"
        <5>1. waiter' = [Skipped(W, q, n - 1) EXCEPT ![q[n].req] = "granted"]
          BY <1>7, <4>2 DEF GrantLocal
        <5>2. Skipped(W, q, n - 1) \in Waiters
          BY SkippedType
        <5>. QED  BY <2>5, <3>1, <5>1, <5>2 DEF Waiters
      <4>. QED  BY <4>1, <4>2
    <3>3. W[r] = "active" /\ \A i \in 1 .. n - 1 : q[i].req # r
      BY SMTT(60), <3>2, SkippedActive
    <3>4. \A i \in 1 .. n : i \in 1 .. n - 1 \/ i = n
      BY <1>4
    <3>. QED  BY <3>2, <3>3, <3>4
  <2>6. \A r \in Requests : Underway(wire', pending', r) <=>
                              r \in Cargo(v) \/ (U(r) /\ r \notin Cargo(q))
    BY <1>1, <2>1, <2>4
  <2>7. ASSUME NEW r \in Requests, r \in Cargo(v) PROVE U(r)
    BY <1>3, <2>2, <2>7
  <2>8. ASSUME NEW r \in Requests, r \in Cargo(q), waiter'[r] = "active" PROVE r \in Cargo(v)
    BY <2>2, <2>5, <2>8
  <2>. HIDE DEF U
  <2>. QED  BY <2>1, <2>4, <2>5, <2>6, <2>7, <2>8
<1>8. ASSUME NEW n \in 1 .. Len(q), GrantRemote(h, W, L, w, p, q, n)
      PROVE  /\ Apart(wire', pending')
             /\ \A r \in Requests :
                  /\ waiter'[r] = "active" => W[r] = "active"
                  /\ Underway(wire', pending', r) => U(r)
                  /\ U(r) /\ waiter'[r] = "active" => Underway(wire', pending', r)
  <2>. DEFINE c == q[n].req
              d == Requester[c]
              grant == [kind |-> "grant", req |-> c, epoch |-> epoch + 1, version |-> version']
              v == SubSeq(q, n + 1, Len(q))
              ms == <<grant>> \o v
              P2 == [P EXCEPT ![h] = <<>>]
  <2>1. c \in Requests /\ d \in Hosts /\ c \in Cargo(q)
    BY <1>4, EntryType DEF Cargo, Carries
  <2>2. wire' = Post(w, h, d, ms) /\ pending' = P2 /\ waiter' = Skipped(W, q, n - 1)
    BY <1>1, <1>8 DEF GrantRemote
  <2>3. grant \in Msg /\ Carries(grant) /\ grant.req = c
    BY <2>1 DEF Msg, Kinds, Carries
  <2>4. /\ v \in Seq(Msg) /\ Single(v)
        /\ \A r \in Requests : r \in Cargo(v) <=>
             r \in Cargo(q) /\ \A i \in 1 .. n : ~(Carries(q[i]) /\ q[i].req = r)
    BY <1>3, RestType, CargoRest
  <2>5. \A i \in 1 .. n : Carries(q[i]) /\ q[i] \in Msg
    <3>1. \A i \in 1 .. n : i \in 1 .. Len(q)
      BY <1>4
    <3>. QED  BY <3>1, EntryType DEF Carries
  <2>6. n \in 1 .. n /\ \A i \in 1 .. n : i \in 1 .. n - 1 \/ i = n
    BY <1>4
  <2>7. c \notin Cargo(v)
    BY <2>1, <2>4, <2>5, <2>6
  <2>8. /\ ms \in Seq(Msg) /\ Single(ms)
        /\ \A r \in Requests : r \in Cargo(ms) <=> r = c \/ r \in Cargo(v)
    <3>. HIDE DEF v, grant, c
    <3>. DEFINE one == <<grant>>
    <3>1. /\ one \in Seq(Msg) /\ Single(one)
          /\ \A r \in Requests : r \in Cargo(one) <=> Carries(grant) /\ grant.req = r
      BY <2>3, CargoOne
    <3>. HIDE DEF one
    <3>2. /\ Cargo(one \o v) = Cargo(one) \cup Cargo(v)
          /\ Single(one) /\ Single(v) /\ (\A r \in Requests : ~(r \in Cargo(one) /\ r \in Cargo(v)))
               => Single(one \o v)
      BY <2>4, <3>1, CargoConcat
    <3>3. one \o v \in Seq(Msg)
      BY <2>4, <3>1, ConcatProperties
    <3>4. Single(one \o v) /\ \A r \in Requests : r \in Cargo(one \o v) <=> r = c \/ r \in Cargo(v)
      BY <2>3, <2>4, <2>7, <3>1, <3>2
    <3>. QED  BY <3>3, <3>4 DEF one
  <2>. HIDE DEF ms, v, c, d, grant, P2
  <2>9. \A r \in Cargo(ms) : r \in Requests /\ r \in Cargo(q) /\ ~Underway(w, P2, r)
    <3>1. \A r \in Cargo(ms) : r \in Requests
      BY <2>8, CargoEntry
    <3>2. \A r \in Cargo(ms) : r \in Cargo(q)
      BY <2>1, <2>4, <2>8, <3>1
    <3>. QED  BY <1>5, <3>1, <3>2 DEF P2
  <2>10. /\ Apart(Post(w, h, d, ms), P2)
         /\ \A r \in Requests : Underway(Post(w, h, d, ms), P2, r) <=>
                                  Underway(w, P2, r) \/ r \in Cargo(ms)
    <3>1. Apart(w, P2)
      BY <1>5 DEF P2
    <3>. QED  BY <2>1, <2>8, <2>9, <3>1, ApartPost
  <2>11. \A r \in Requests : Underway(wire', pending', r) <=>
                               (U(r) /\ r \notin Cargo(q)) \/ r \in Cargo(ms)
    <3>1. \A r \in Requests : Underway(w, P2, r) <=> U(r) /\ r \notin Cargo(q)
      BY <1>5 DEF P2
    <3>. QED  BY <2>2, <2>10, <3>1
  <2>12. ASSUME NEW r \in Requests, waiter'[r] = "active"
         PROVE  W[r] = "active" /\ (r \in Cargo(q) => r \in Cargo(ms))
    <3>1. W[r] = "active" /\ \A i \in 1 .. n - 1 : q[i].req # r
      BY <2>2, <2>12, SkippedActive
    <3>2. CASE r = c
      BY <2>8, <3>1, <3>2
    <3>3. CASE r # c
      <4>1. \A i \in 1 .. n : q[i].req # r
        BY <2>6, <3>1, <3>3 DEF c
      <4>. QED  BY <2>4, <2>8, <3>1, <4>1
    <3>. QED  BY <3>2, <3>3
  <2>. HIDE DEF U
  <2>. QED  BY <1>3, <2>2, <2>9, <2>10, <2>11, <2>12
<1>. QED  BY <1>6, <1>7, <1>8 DEF HandOff, P

\* HandleCancel takes at most the cancelled request out of the queue.
LEMMA UnqueueConserves ==
  ASSUME pending \in [Hosts -> Seq(Msg)], OnlyRequestsWait, NEW w, NEW h \in Hosts,
         NEW r \in Requests, Unqueue(h, r), Apart(w, pending)
  PROVE  /\ Apart(w, pending')
         /\ \A x \in Requests :
              /\ Underway(w, pending', x) => Underway(w, pending, x)
              /\ Underway(w, pending, x) /\ x # r => Underway(w, pending', x)
<1>1. CASE PendingAt(h, r) = {}
  BY <1>1 DEF Unqueue
<1>2. CASE PendingAt(h, r) # {}
  <2>. DEFINE q == pending[h]
  <2>1. PICK i \in PendingAt(h, r) : pending' = [pending EXCEPT ![h] = RemoveAt(@, i)]
    BY <1>2 DEF Unqueue
  <2>2. i \in DOMAIN q /\ q[i].req = r /\ Carries(q[i]) /\ q \in Seq(Msg) /\ Single(q)
    BY DEF PendingAt, OnlyRequestsWait, Carries, Apart
  <2>. DEFINE v == RemoveAt(q, i)
  <2>3. /\ v \in Seq(Msg) /\ Single(v)
        /\ \A x \in Requests : x \in Cargo(v) <=> x \in Cargo(q) /\ q[i].req # x
    BY <2>2, CargoRemove
  <2>4. pending' = [pending EXCEPT ![h] = v]
    BY <2>1
  <2>. HIDE DEF v
  <2>5. \A x \in Cargo(v) : x \in Requests /\ x \in Cargo(q)
    BY <2>3, CargoEntry
  <2>6. /\ Apart(w, [pending EXCEPT ![h] = v])
        /\ \A x \in Requests : Underway(w, [pending EXCEPT ![h] = v], x) <=>
             x \in Cargo(v) \/ (Underway(w, pending, x) /\ x \notin Cargo(pending[h]))
    BY <2>3, <2>5, ApartQueue
  <2>7. ASSUME NEW x \in Requests, x \in Cargo(q) PROVE Underway(w, pending, x)
    BY <2>7 DEF Underway
  <2>. QED  BY <2>2, <2>3, <2>4, <2>5, <2>6, <2>7
<1>. QED  BY <1>1, <1>2

\* A request more at the end of a pending queue.
LEMMA AppendConserves ==
  ASSUME pending \in [Hosts -> Seq(Msg)], NEW w, NEW h \in Hosts, NEW m \in Msg, Carries(m),
         Apart(w, pending), ~Underway(w, pending, m.req),
         pending' = [pending EXCEPT ![h] = Append(@, m)]
  PROVE  /\ Apart(w, pending')
         /\ \A x \in Requests : Underway(w, pending', x) <=> Underway(w, pending, x) \/ m.req = x
<1>. DEFINE q == pending[h]
            v == Append(q, m)
<1>1. q \in Seq(Msg) /\ Single(q) /\ v \in Seq(Msg) /\ pending' = [pending EXCEPT ![h] = v]
  BY AppendProperties DEF Apart
<1>2. \A x \in Requests : x \in Cargo(q) => Underway(w, pending, x)
  BY DEF Underway
<1>3. m.req \in Requests /\ m.req \notin Cargo(q)
  BY <1>2, MsgFields
<1>4. /\ Single(v)
      /\ \A x \in Requests : x \in Cargo(v) <=> x \in Cargo(q) \/ (Carries(m) /\ m.req = x)
  BY <1>1, <1>3, CargoAppend
<1>. HIDE DEF v
<1>5. \A x \in Cargo(v) : x \in Requests /\ (x \in Cargo(q) \/ ~Underway(w, pending, x))
  BY <1>1, <1>4, CargoEntry
<1>6. /\ Apart(w, [pending EXCEPT ![h] = v])
      /\ \A x \in Requests : Underway(w, [pending EXCEPT ![h] = v], x) <=>
           x \in Cargo(v) \/ (Underway(w, pending, x) /\ x \notin Cargo(pending[h]))
  BY <1>1, <1>4, <1>5, ApartQueue
<1>. QED  BY <1>1, <1>2, <1>4, <1>6

\* A release hands the requests of its host on.
LEMMA ReleaseConserves ==
  ASSUME TypeInv, TypeInv', OnlyRequestsWait, alloc = "allocated", NEW r \in Requests,
         NEW W \in Waiters, ReleaseLease(r, W), Apart(wire, pending)
  PROVE  /\ Apart(wire', pending')
         /\ \A x \in Requests :
              /\ waiter'[x] = "active" => W[x] = "active"
              /\ Underway(wire', pending', x) => Underway(wire, pending, x)
              /\ Underway(wire, pending, x) /\ waiter'[x] = "active"
                   => Underway(wire', pending', x)
<1>. DEFINE h == Requester[r]
            L == [lease EXCEPT ![r] = 0]
            q == pending[h]
<1>1. /\ h \in Hosts /\ wire \in Wires /\ epoch \in Nat /\ version' \in Nat
      /\ pending \in [Hosts -> Seq(Msg)] /\ q \in Seq(Msg)
  BY RequestsAssumption DEF TypeInv, TypeOK, Wires
<1>2. HandOff(h, W, L, wire, pub, q)
  BY <1>1, ReleaseSettles, SettlesAllocated
<1>3. \A i \in 1 .. Len(q) : q[i].kind = "req"
  BY <1>1, LenProperties DEF OnlyRequestsWait
<1>4. [pending EXCEPT ![h] = q] = pending
  BY <1>1
<1>5. Apart(wire, [pending EXCEPT ![h] = q])
  BY <1>4
<1>. HIDE DEF h, L, q
<1>6. /\ Apart(wire', pending')
      /\ \A x \in Requests :
           /\ waiter'[x] = "active" => W[x] = "active"
           /\ Underway(wire', pending', x) => Underway(wire, [pending EXCEPT ![h] = q], x)
           /\ Underway(wire, [pending EXCEPT ![h] = q], x) /\ waiter'[x] = "active"
                => Underway(wire', pending', x)
  BY <1>1, <1>2, <1>3, <1>5, HandOffConserves
<1>. QED  BY <1>4, <1>6

-----------------------------------------------------------------------------
(* Forwarding neither loses nor duplicates a request.                      *)

\* While the object is allocated no request is in two places, none is under
\* way before it is issued, and one whose waiter is open is under way.
Conserves(w, P, W, C) ==
  /\ Apart(w, P)
  /\ \A r \in Requests :
       /\ C[r] = "idle" => ~Underway(w, P, r)
       /\ W[r] = "active" => Underway(w, P, r)

Conserved == alloc = "allocated" => Conserves(wire, pending, waiter, pc)

\* The same of the next state.
LEMMA ConservedNext ==
  ASSUME alloc' = "allocated" => Conserves(wire', pending', waiter', pc')
  PROVE  Conserved'
BY DEF Conserved, Conserves, Apart, Underway, Single, Cargo, Carries

\* Every client operation keeps it.
LEMMA ClientConserves ==
  ASSUME TypeInv, TypeInv', TokenInv, NEW r \in Requests, Client(r),
         alloc = "allocated", Conserves(wire, pending, waiter, pc)
  PROVE  Conserves(wire', pending', waiter', pc')
<1>. DEFINE U(x) == Underway(wire, pending, x)
            h == Requester[r]
<1>0. /\ wire \in Wires /\ pc \in [Requests -> Places] /\ owner \in Hosts /\ version \in Nat
      /\ pending \in [Hosts -> Seq(Msg)] /\ OnlyRequestsWait /\ waiter \in Waiters
      /\ h \in Hosts
  BY RequestsAssumption, TokenInvParts DEF TypeInv, TypeOK, Wires, Waiters
<1>1. /\ Apart(wire, pending)
      /\ \A x \in Requests : (pc[x] = "idle" => ~U(x)) /\ (waiter[x] = "active" => U(x))
  BY DEF Conserves
<1>2. \A x \in Requests : pc'[x] = "idle" => pc[x] = "idle" /\ x # r
  <2>1. pc' = [pc EXCEPT ![r] = pc'[r]] /\ pc'[r] # "idle"
    <3>1. CASE Request(r)
      BY <1>0, <3>1 DEF Request
    <3>2. CASE WaitGranted(r) \/ CancelAndWait(r) \/ BeginWriteback(r) \/ Commit(r) \/ Abort(r)
      BY <1>0, <3>2 DEF WaitGranted, CancelAndWait, BeginWriteback, Commit, Abort
    <3>3. CASE Cancel(r)
      BY <1>0, <3>3 DEF Cancel, CancelGranted, CancelCompleted, CancelLocal, CancelRemote
    <3>4. CASE CancelDrained(r) \/ CancelTimeout(r)
      BY <1>0, <3>4 DEF CancelDrained, CancelTimeout
    <3>. QED  BY <3>1, <3>2, <3>3, <3>4 DEF Client
  <2>. QED  BY <1>0, <2>1
<1>3. ASSUME Apart(wire', pending'),
             \A x \in Requests : Underway(wire', pending', x) => U(x) \/ x = r,
             \A x \in Requests : waiter'[x] = "active" => Underway(wire', pending', x)
      PROVE  Conserves(wire', pending', waiter', pc')
  BY <1>1, <1>2, <1>3 DEF Conserves
<1>4. ASSUME wire' = wire, pending' = pending,
             \A x \in Requests : waiter'[x] = "active" => waiter[x] = "active"
      PROVE  Conserves(wire', pending', waiter', pc')
  BY <1>1, <1>2, <1>4 DEF Conserves
<1>5. ASSUME NEW W \in Waiters, ReleaseLease(r, W),
             \A x \in Requests : W[x] = "active" => waiter[x] = "active"
      PROVE  Conserves(wire', pending', waiter', pc')
  <2>1. /\ Apart(wire', pending')
        /\ \A x \in Requests :
             /\ waiter'[x] = "active" => W[x] = "active"
             /\ Underway(wire', pending', x) => U(x)
             /\ U(x) /\ waiter'[x] = "active" => Underway(wire', pending', x)
    BY <1>0, <1>1, <1>5, ReleaseConserves
  <2>. QED  BY <1>1, <1>2, <1>5, <2>1 DEF Conserves
<1>6. CASE Request(r)
  <2>. DEFINE m == [Note("req", r) EXCEPT !.version = version]
  <2>1. m \in Msg /\ m.req = r /\ Carries(m)
    BY <1>0 DEF Note, Msg, Kinds, Carries
  <2>2. pc[r] = "idle" /\ ~U(r)
    BY <1>1, <1>6 DEF Request
  <2>3. CASE RequestRemote(r)
    <3>1. /\ Send(wire, pub, h, owner, m) /\ pending' = pending
          /\ waiter' = [waiter EXCEPT ![r] = "active"]
      BY <2>3 DEF RequestRemote
    <3>. HIDE DEF m
    <3>2. /\ Apart(wire', pending)
          /\ \A x \in Requests : Underway(wire', pending, x) <=> U(x) \/ (Carries(m) /\ m.req = x)
      BY <1>0, <1>1, <2>1, <2>2, <3>1, ApartSend
    <3>. QED  BY <1>0, <1>1, <1>3, <2>1, <3>1, <3>2 DEF Waiters
  <2>4. CASE RequestLocal(r) /\ available[h] /\ ~held[h]
    <3>1. wire' = wire /\ pending' = pending /\ waiter' = [waiter EXCEPT ![r] = "granted"]
      BY <2>4 DEF RequestLocal, transport
    <3>. QED  BY <1>0, <1>4, <3>1 DEF Waiters
  <2>5. CASE RequestLocal(r) /\ ~(available[h] /\ ~held[h])
    <3>1. /\ wire' = wire /\ pending' = [pending EXCEPT ![h] = Append(@, m)]
          /\ waiter' = [waiter EXCEPT ![r] = "active"]
      BY <2>5 DEF RequestLocal, transport
    <3>. HIDE DEF m
    <3>2. /\ Apart(wire, pending')
          /\ \A x \in Requests : Underway(wire, pending', x) <=> U(x) \/ m.req = x
      BY <1>0, <1>1, <2>1, <2>2, <3>1, AppendConserves
    <3>. QED  BY <1>0, <1>1, <1>3, <2>1, <3>1, <3>2 DEF Waiters
  <2>. QED  BY <1>6, <2>3, <2>4, <2>5 DEF Request
<1>7. CASE WaitGranted(r) \/ CancelCompleted(r) \/ CancelDrained(r)
  <2>1. wire' = wire /\ pending' = pending /\ waiter' = [waiter EXCEPT ![r] = "none"]
    BY <1>7 DEF WaitGranted, CancelCompleted, CancelDrained, transport
  <2>. QED  BY <1>0, <1>4, <2>1 DEF Waiters
<1>8. CASE CancelAndWait(r) \/ CancelTimeout(r) \/ BeginWriteback(r)
  BY <1>4, <1>8 DEF CancelAndWait, CancelTimeout, BeginWriteback, transport, service
<1>9. CASE Commit(r) \/ Abort(r)
  BY <1>0, <1>5, <1>9 DEF Commit, Abort
<1>10. CASE CancelGranted(r)
  <2>. DEFINE W == [waiter EXCEPT ![r] = "none"]
  <2>1. W \in Waiters /\ \A x \in Requests : W[x] = "active" => waiter[x] = "active"
    BY <1>0 DEF Waiters, WaiterStates
  <2>2. ReleaseLease(r, W)
    BY <1>10 DEF CancelGranted
  <2>. HIDE DEF W
  <2>. QED  BY <1>5, <2>1, <2>2
<1>11. CASE CancelLocal(r)
  <2>1. Unqueue(h, r) /\ wire' = wire
    BY <1>11 DEF CancelLocal, transport
  <2>2. waiter'[r] # "active" /\ \A x \in Requests : x # r => waiter'[x] = waiter[x]
    BY <1>0, <1>11 DEF CancelLocal, Completed, Waiters
  <2>3. /\ Apart(wire, pending')
        /\ \A x \in Requests :
             /\ Underway(wire, pending', x) => U(x)
             /\ U(x) /\ x # r => Underway(wire, pending', x)
    BY <1>0, <1>1, <2>1, UnqueueConserves
  <2>. QED  BY <1>1, <1>3, <2>1, <2>2, <2>3
<1>12. CASE CancelRemote(r)
  <2>. DEFINE m == Note("cancel", r)
  <2>1. m \in Msg /\ ~Carries(m)
    BY DEF Note, Msg, Kinds, Carries
  <2>2. /\ Send(wire, pub, h, owner, m) /\ pending' = pending
        /\ waiter' = [waiter EXCEPT ![r] = "cancelling"]
    BY <1>12 DEF CancelRemote
  <2>. HIDE DEF m
  <2>3. /\ Apart(wire', pending)
        /\ \A x \in Requests : Underway(wire', pending, x) <=> U(x) \/ (Carries(m) /\ m.req = x)
    BY <1>0, <1>1, <2>1, <2>2, ApartSend
  <2>. QED  BY <1>0, <1>1, <1>3, <2>1, <2>2, <2>3 DEF Waiters
<1>13. Cancel(r) => CancelGranted(r) \/ CancelCompleted(r) \/ CancelLocal(r) \/ CancelRemote(r)
  BY DEF Cancel
<1>. QED  BY <1>6, <1>7, <1>8, <1>9, <1>10, <1>11, <1>12, <1>13 DEF Client

\* Every message handler keeps it.  A cancellation, a refused grant or one that
\* comes late only takes out a request whose client has stopped waiting.
LEMMA HandlerConserves ==
  ASSUME TypeInv, TypeInv', TokenInv, AwaitedOnly, CancelsGivenUp,
         NEW h \in Hosts, NEW s \in Hosts, HandleMessage(h, s),
         alloc = "allocated", Conserves(wire, pending, waiter, pc)
  PROVE  Conserves(wire', pending', waiter', pc')
<1>. DEFINE U(x) == Underway(wire, pending, x)
            m == Head(wire[s][h])
            w == Popped(h, s)
            V(x) == Underway(w, pending, x)
            p == Room(h, s)
<1>0. /\ wire \in Wires /\ pc' = pc /\ owner \in Hosts /\ epoch \in Nat /\ version' \in Nat
      /\ pending \in [Hosts -> Seq(Msg)] /\ OnlyRequestsWait /\ waiter \in Waiters
  <2>1. pc' = pc
    BY DEF HandleMessage, Forward, QueueRequest, GrantRequest, AcceptGrant,
           ReleaseLateGrant, RefuseGrant, HandleCancel, HandleCancelAck
  <2>. QED  BY <2>1, TokenInvParts DEF TypeInv, TypeOK, Wires, Waiters
<1>1. /\ Apart(wire, pending)
      /\ \A x \in Requests : (pc[x] = "idle" => ~U(x)) /\ (waiter[x] = "active" => U(x))
  BY DEF Conserves
<1>2. Inbound(h, s)
  BY DEF HandleMessage, Handling, Forward, QueueRequest, GrantRequest, AcceptGrant,
         ReleaseLateGrant, RefuseGrant, HandleCancel, HandleCancelAck
<1>3. /\ m \in Msg /\ w \in Wires /\ m.req \in Requests /\ Requester[m.req] \in Hosts
      /\ wire[s][h] \in Seq(Msg) /\ wire[s][h] # <<>>
  BY <1>2, PopType, MsgFields
<1>4. 1 \in DOMAIN wire[s][h] /\ wire[s][h][1] = m
  <2>1. Len(wire[s][h]) \in Nat \ {0} /\ DOMAIN wire[s][h] = 1 .. Len(wire[s][h])
    BY <1>3, EmptySeq, LenProperties
  <2>. QED  BY <1>3, <2>1
<1>5. /\ Apart(w, pending)
      /\ \A x \in Requests : V(x) <=> U(x) /\ ~(Carries(m) /\ m.req = x)
      /\ Carries(m) => U(m.req)
  BY <1>1, <1>2, ApartPop
<1>6. m.kind \in {"cancel", "ack"} => waiter[m.req] # "active"
  <2>1. m.kind \in {"cancel", "ack"} => pc[m.req] \in GivenUp
    BY <1>4 DEF CancelsGivenUp, CancelsIn
  <2>. QED  BY <1>3, <2>1 DEF AwaitedOnly, GivenUp
<1>. HIDE DEF m, w, p
<1>7. ASSUME Apart(wire', pending'),
             \A x \in Requests : Underway(wire', pending', x) => U(x),
             \A x \in Requests : waiter'[x] = "active" =>
                                   waiter[x] = "active" /\ (U(x) => Underway(wire', pending', x))
      PROVE  Conserves(wire', pending', waiter', pc')
  BY <1>0, <1>1, <1>7 DEF Conserves
<1>8. ASSUME NEW W \in Waiters, NEW q \in Seq(Msg), \A i \in 1 .. Len(q) : q[i].kind = "req",
             HandOff(h, W, lease, w, p, q), Apart(w, [pending EXCEPT ![h] = q]),
             \A x \in Requests : Underway(w, [pending EXCEPT ![h] = q], x) => U(x),
             \A x \in Requests : W[x] = "active" =>
               waiter[x] = "active" /\ (U(x) => Underway(w, [pending EXCEPT ![h] = q], x))
      PROVE  Conserves(wire', pending', waiter', pc')
  <2>1. /\ Apart(wire', pending')
        /\ \A x \in Requests :
             /\ waiter'[x] = "active" => W[x] = "active"
             /\ Underway(wire', pending', x) => Underway(w, [pending EXCEPT ![h] = q], x)
             /\ Underway(w, [pending EXCEPT ![h] = q], x) /\ waiter'[x] = "active"
                  => Underway(wire', pending', x)
    BY <1>0, <1>3, <1>8, HandOffConserves
  <2>. HIDE DEF U
  <2>. QED  BY <1>7, <1>8, <2>1
<1>9. CASE Forward(h, s)
  <2>1. Send(w, p, h, owner, m) /\ pending' = pending /\ waiter' = waiter
    BY <1>9 DEF Forward, service, m, w, p
  <2>2. Carries(m) => ~V(m.req)
    BY <1>3, <1>5
  <2>3. /\ Apart(wire', pending)
        /\ \A x \in Requests : Underway(wire', pending, x) <=> V(x) \/ (Carries(m) /\ m.req = x)
    BY <1>0, <1>3, <1>5, <2>1, <2>2, ApartSend
  <2>4. \A x \in Requests : Underway(wire', pending', x) <=> U(x)
    BY <1>5, <2>1, <2>3
  <2>. QED  BY <1>7, <2>1, <2>3, <2>4
<1>10. CASE QueueRequest(h, s)
  <2>1. /\ m.kind = "req" /\ pending' = [pending EXCEPT ![h] = Append(@, m)]
        /\ wire' = w /\ waiter' = waiter
    BY <1>10 DEF QueueRequest, Handling, m, w
  <2>2. Carries(m) /\ ~V(m.req)
    BY <1>3, <1>5, <2>1 DEF Carries
  <2>3. /\ Apart(w, pending')
        /\ \A x \in Requests : Underway(w, pending', x) <=> V(x) \/ m.req = x
    BY <1>0, <1>3, <1>5, <2>1, <2>2, AppendConserves
  <2>4. \A x \in Requests : Underway(wire', pending', x) <=> U(x)
    BY <1>5, <2>1, <2>2, <2>3
  <2>. QED  BY <1>7, <2>1, <2>3, <2>4
<1>11. CASE GrantRequest(h, s)
  <2>. DEFINE q == <<m>> \o pending[h]
  <2>1. m.kind = "req" /\ HandOff(h, waiter, lease, w, p, q)
    <3>1. m.kind = "req"
      BY <1>11 DEF GrantRequest, Handling, m
    <3>2. q \in Seq(Msg) /\ Settles(h, waiter, lease, w, p, q)
      BY <1>11, GrantSettles DEF m, w, p
    <3>. QED  BY <3>1, <3>2, SettlesAllocated
  <2>2. q \in Seq(Msg) /\ \A i \in 1 .. Len(q) : q[i].kind = "req"
    BY <1>0, <1>3, <2>1, PrefixedRequests
  <2>3. Carries(m) /\ ~V(m.req)
    BY <1>3, <1>5, <2>1 DEF Carries
  <2>4. /\ Single(q)
        /\ \A x \in Requests : x \in Cargo(q) <=> m.req = x \/ x \in Cargo(pending[h])
    <3>. DEFINE one == <<m>>
    <3>1. /\ one \in Seq(Msg) /\ Single(one)
          /\ \A x \in Requests : x \in Cargo(one) <=> Carries(m) /\ m.req = x
      BY <1>3, CargoOne
    <3>. HIDE DEF one
    <3>2. /\ pending[h] \in Seq(Msg) /\ Single(pending[h])
          /\ \A x \in Requests : x \in Cargo(pending[h]) => V(x)
      BY <1>0, <1>5 DEF Apart, Underway
    <3>3. /\ Cargo(one \o pending[h]) = Cargo(one) \cup Cargo(pending[h])
          /\ Single(one) /\ Single(pending[h])
               /\ (\A x \in Requests : ~(x \in Cargo(one) /\ x \in Cargo(pending[h])))
               => Single(one \o pending[h])
      BY <3>1, <3>2, CargoConcat
    <3>4. /\ Single(one \o pending[h])
          /\ \A x \in Requests : x \in Cargo(one \o pending[h]) <=>
                                   m.req = x \/ x \in Cargo(pending[h])
      BY <2>3, <3>1, <3>2, <3>3
    <3>. QED  BY <3>4 DEF one
  <2>. HIDE DEF q
  <2>5. \A x \in Cargo(q) : x \in Requests /\ (x \in Cargo(pending[h]) \/ ~V(x))
    BY <2>2, <2>3, <2>4, CargoEntry
  <2>6. /\ Apart(w, [pending EXCEPT ![h] = q])
        /\ \A x \in Requests : Underway(w, [pending EXCEPT ![h] = q], x) <=>
             x \in Cargo(q) \/ (V(x) /\ x \notin Cargo(pending[h]))
    BY <1>0, <1>5, <2>2, <2>4, <2>5, ApartQueue
  <2>7. ASSUME NEW x \in Requests, x \in Cargo(pending[h]) PROVE V(x)
    BY <2>7 DEF Underway
  <2>8. \A x \in Requests : Underway(w, [pending EXCEPT ![h] = q], x) <=> U(x)
    <3>. HIDE DEF V, U
    <3>. QED  BY <1>5, <2>3, <2>4, <2>6, <2>7
  <2>. QED  BY <1>0, <1>8, <2>1, <2>2, <2>6, <2>8
<1>12. CASE AcceptGrant(h, s)
  <2>1. wire' = w /\ pending' = pending /\ waiter' = [waiter EXCEPT ![m.req] = "granted"]
    BY <1>12 DEF AcceptGrant, m, w
  <2>2. \A x \in Requests : waiter'[x] = "active" => waiter[x] = "active" /\ x # m.req
    BY <1>0, <1>3, <2>1 DEF Waiters
  <2>. QED  BY <1>5, <1>7, <2>1, <2>2
<1>13. CASE ReleaseLateGrant(h, s)
  <2>. DEFINE W == [waiter EXCEPT ![m.req] = Completed(m.req)]
              q == pending[h]
  <2>1. HandOff(h, W, lease, w, p, q)
    <3>1. m.req = Head(wire[s][h]).req
      BY DEF m
    <3>2. q \in Seq(Msg) /\ Settles(h, W, lease, w, p, q)
      BY <1>0, <1>13, <3>1, LateGrantSettles DEF w, p
    <3>. QED  BY <3>2, SettlesAllocated
  <2>2. W \in Waiters /\ \A x \in Requests : W[x] = "active" => waiter[x] = "active" /\ x # m.req
    BY <1>0, <1>3 DEF Waiters, Completed, WaiterStates
  <2>3. q \in Seq(Msg) /\ \A i \in 1 .. Len(q) : q[i].kind = "req"
    BY <1>0, LenProperties DEF OnlyRequestsWait
  <2>4. [pending EXCEPT ![h] = q] = pending
    BY <1>0
  <2>. HIDE DEF W, q
  <2>. QED  BY <1>5, <1>8, <2>1, <2>2, <2>3, <2>4
<1>14. CASE RefuseGrant(h, s)
  <2>1. m.kind = "grant" /\ ~GrantMatches(h, m) /\ wire' = w /\ pending' = pending /\ waiter' = waiter
    BY <1>14 DEF RefuseGrant, Handling, service, m, w
  <2>2. owner = h /\ epoch = m.epoch /\ version = m.version
    BY <1>4, <2>1, AuthorityOfWire DEF TokenInv, Authority
  <2>3. waiter[m.req] = "none"
    BY <2>1, <2>2 DEF GrantMatches
  <2>. QED  BY <1>5, <1>7, <2>1, <2>3
<1>15. CASE HandleCancel(h, s)
  <2>1. m.kind = "cancel" /\ Unqueue(h, m.req)
    BY <1>15 DEF HandleCancel, Handling, m
  <2>2. ~Carries(m) /\ waiter[m.req] # "active"
    BY <1>6, <2>1 DEF Carries
  <2>3. \A x \in Requests : waiter'[x] = "active" => waiter[x] = "active" /\ x # m.req
    <3>1. waiter' = waiter \/ waiter' = [waiter EXCEPT ![m.req] = Completed(m.req)]
      BY <1>15 DEF HandleCancel, Acknowledged, m
    <3>. QED  BY <1>0, <1>3, <2>2, <3>1 DEF Waiters, Completed
  <2>4. /\ Apart(w, pending')
        /\ \A x \in Requests : /\ Underway(w, pending', x) => V(x)
                               /\ V(x) /\ x # m.req => Underway(w, pending', x)
    BY <1>0, <1>3, <1>5, <2>1, UnqueueConserves
  <2>5. CASE wire' = w
    <3>. HIDE DEF V, U
    <3>. QED  BY <1>5, <1>7, <2>2, <2>3, <2>4, <2>5
  <2>6. CASE Send(w, p, h, Requester[m.req], Note("ack", m.req))
    <3>. DEFINE a == Note("ack", m.req)
    <3>1. a \in Msg /\ ~Carries(a)
      BY <1>3 DEF Note, Msg, Kinds, Carries
    <3>. HIDE DEF a
    <3>2. Send(w, p, h, Requester[m.req], a)
      BY <2>6 DEF a
    <3>3. /\ Apart(wire', pending')
          /\ \A x \in Requests : Underway(wire', pending', x) <=>
                                   Underway(w, pending', x) \/ (Carries(a) /\ a.req = x)
      BY <1>3, <2>4, <3>1, <3>2, ApartSend
    <3>. HIDE DEF V, U
    <3>. QED  BY <1>5, <1>7, <2>2, <2>3, <2>4, <3>1, <3>3
  <2>. QED  BY <1>15, <2>5, <2>6 DEF HandleCancel, m, w, p
<1>16. CASE HandleCancelAck(h, s)
  <2>1. m.kind = "ack" /\ wire' = w /\ pending' = pending /\ waiter' = Acknowledged(m.req)
    BY <1>16 DEF HandleCancelAck, Handling, m, w
  <2>2. ~Carries(m)
    BY <2>1 DEF Carries
  <2>3. \A x \in Requests : waiter'[x] = "active" => waiter[x] = "active"
    BY <1>0, <1>3, <2>1 DEF Acknowledged, Completed, Waiters
  <2>. QED  BY <1>5, <1>7, <2>1, <2>2, <2>3
<1>. QED  BY <1>9, <1>10, <1>11, <1>12, <1>13, <1>14, <1>15, <1>16 DEF HandleMessage

\* Every step of the token protocol keeps it.
LEMMA StepConserves ==
  ASSUME TypeInv, TypeInv', TokenInv, AwaitedOnly, CancelsGivenUp, Conserved, [Next]_vars
  PROVE  Conserved'
<1>. SUFFICES ASSUME alloc' = "allocated"
              PROVE  Conserves(wire', pending', waiter', pc')
  BY ConservedNext
<1>1. ASSUME UNCHANGED <<wire, pending, waiter, pc, alloc>>
      PROVE  Conserves(wire', pending', waiter', pc')
  BY <1>1 DEF Conserved
<1>2. CASE UNCHANGED vars
  BY <1>1, <1>2 DEF vars, service, transport
<1>3. ASSUME NEW h \in Hosts, ProgressOutbound(h) PROVE Conserves(wire', pending', waiter', pc')
  BY <1>1, <1>3 DEF ProgressOutbound, service
<1>4. ASSUME NEW r \in Requests, Client(r) PROVE Conserves(wire', pending', waiter', pc')
  <2>1. alloc' = alloc
    BY <1>4, ClientKeepsObject
  <2>. QED  BY <1>4, <2>1, ClientConserves DEF Conserved
<1>5. ASSUME NEW h \in Hosts, NEW s \in Hosts, HandleMessage(h, s)
      PROVE  Conserves(wire', pending', waiter', pc')
  <2>1. alloc' = alloc
    BY <1>5, HandlerKeepsObject
  <2>. QED  BY <1>5, <2>1, HandlerConserves DEF Conserved
<1>. QED  BY <1>2, <1>3, <1>4, <1>5 DEF Next

\* No step of the retirement leaves the object allocated and moves a request:
\* it either finds or makes the object retiring, or ends a failed Wait.
LEMMA RetireConserves ==
  ASSUME RetireInv, Conserved, RetireStep
  PROVE  Conserved'
<1>. SUFFICES ASSUME alloc' = "allocated"
              PROVE  Conserves(wire', pending', waiter', pc')
  BY ConservedNext
<1>0. /\ waiter \in Waiters /\ pc \in [Requests -> Places]
      /\ alloc = "allocated" => racing = {} /\ phase = "idle"
  BY DEF RetireInv, PhaseOK, TypeInv, TypeOK, Waiters
<1>1. ASSUME NEW r \in Requests, WaitFailed(r) PROVE Conserves(wire', pending', waiter', pc')
  <2>1. /\ wire' = wire /\ pending' = pending /\ alloc' = alloc
        /\ waiter' = [waiter EXCEPT ![r] = "none"] /\ pc' = [pc EXCEPT ![r] = "done"]
    BY <1>1 DEF WaitFailed, transport
  <2>2. \A x \in Requests : /\ waiter'[x] = "active" => waiter[x] = "active"
                            /\ pc'[x] = "idle" => pc[x] = "idle"
    BY <1>0, <2>1 DEF Waiters
  <2>. QED  BY <2>1, <2>2 DEF Conserved, Conserves
<1>2. ASSUME NEW r \in Requests, RequestRefused(r) PROVE FALSE
  BY <1>2 DEF RequestRefused
<1>3. ASSUME NEW h \in Hosts, NEW s \in Hosts,
             DropRetiring(h, s) \/ RejectRequest(h, s) \/ RejectGrant(h, s)
      PROVE  FALSE
  BY <1>0, <1>3 DEF DropRetiring, RejectRequest, RejectGrant, Racing
<1>4. ASSUME NEW h \in Hosts, CloseObject(h) \/ Drain(h) \/ Clean(h) PROVE FALSE
  BY <1>0, <1>4 DEF CloseObject, Drain, Clean, Progressing, vars
<1>5. ~BeginRetire /\ ~Free
  BY DEF BeginRetire, Free
<1>. QED  BY <1>1, <1>2, <1>3, <1>4, <1>5 DEF RetireStep

\* The places of a request, wire by wire and queue by queue.
LEMMA CopiesAre ==
  ASSUME NEW r \in Requests, NEW x
  PROVE  x \in Copies(r) <=>
           \/ \E s, d \in Hosts : \E i \in DOMAIN wire[s][d] :
                Carries(wire[s][d][i]) /\ wire[s][d][i].req = r /\ x = <<s, d, i>>
           \/ \E h \in Hosts : \E i \in DOMAIN pending[h] :
                pending[h][i].req = r /\ x = <<h, i>>
<1>. DEFINE At(s, d) == {<<s, d, i>> : i \in {j \in DOMAIN wire[s][d] :
                                              /\ wire[s][d][j].req = r
                                              /\ wire[s][d][j].kind \in {"req", "grant"}}}
            In(h) == {<<h, i>> : i \in PendingAt(h, r)}
<1>1. \A s, d : x \in At(s, d) <=> \E i \in DOMAIN wire[s][d] :
                Carries(wire[s][d][i]) /\ wire[s][d][i].req = r /\ x = <<s, d, i>>
  BY DEF Carries
<1>2. \A h : x \in In(h) <=> \E i \in DOMAIN pending[h] : pending[h][i].req = r /\ x = <<h, i>>
  BY DEF PendingAt
<1>. DEFINE Wired == {At(s, d) : s, d \in Hosts}
            Queued == {In(h) : h \in Hosts}
<1>3. OnWires(r) = UNION Wired /\ InQueues(r) = UNION Queued
  BY DEF OnWires, InQueues
<1>. HIDE DEF At, In
<1>4. \A S : S \in Wired <=> \E s, d \in Hosts : S = At(s, d)
  OBVIOUS
<1>5. \A S : S \in Queued <=> \E h \in Hosts : S = In(h)
  OBVIOUS
<1>. HIDE DEF Wired, Queued
<1>6. x \in Copies(r) <=> (\E s, d \in Hosts : x \in At(s, d)) \/ (\E h \in Hosts : x \in In(h))
  <2>1. x \in UNION Wired <=> \E s, d \in Hosts : x \in At(s, d)
    BY <1>4
  <2>2. x \in UNION Queued <=> \E h \in Hosts : x \in In(h)
    BY <1>5
  <2>. QED  BY <1>3, <2>1, <2>2 DEF Copies
<1>7. (\E s, d \in Hosts : x \in At(s, d)) <=>
        \E s, d \in Hosts : \E i \in DOMAIN wire[s][d] :
          Carries(wire[s][d][i]) /\ wire[s][d][i].req = r /\ x = <<s, d, i>>
  BY <1>1, Zenon
<1>8. (\E h \in Hosts : x \in In(h)) <=>
        \E h \in Hosts : \E i \in DOMAIN pending[h] : pending[h][i].req = r /\ x = <<h, i>>
  BY <1>2, Zenon
<1>. QED  BY <1>6, <1>7, <1>8, Zenon

\* A request that is under way and nowhere twice has one place.
LEMMA ApartOnce ==
  ASSUME wire \in Wires, pending \in [Hosts -> Seq(Msg)], OnlyRequestsWait,
         Apart(wire, pending), NEW r \in Requests, Underway(wire, pending, r)
  PROVE  \E x : Copies(r) = {x}
<1>1. ASSUME NEW h \in Hosts, NEW i \in DOMAIN pending[h], pending[h][i].req = r
      PROVE  r \in Cargo(pending[h]) /\ Carries(pending[h][i])
  BY <1>1 DEF OnlyRequestsWait, Carries, Cargo
<1>2. ASSUME NEW s \in Hosts, NEW d \in Hosts, r \in Cargo(wire[s][d])
      PROVE  \E x : Copies(r) = {x}
  <2>1. PICK i \in DOMAIN wire[s][d] : Carries(wire[s][d][i]) /\ wire[s][d][i].req = r
    BY <1>2 DEF Cargo
  <2>2. <<s, d, i>> \in Copies(r)
    BY <2>1, CopiesAre
  <2>3. ASSUME NEW x \in Copies(r) PROVE x = <<s, d, i>>
    <3>1. ASSUME NEW a \in Hosts, NEW b \in Hosts, NEW j \in DOMAIN wire[a][b],
                 Carries(wire[a][b][j]), wire[a][b][j].req = r
          PROVE  a = s /\ b = d /\ j = i
      <4>1. r \in Cargo(wire[a][b])
        BY <3>1 DEF Cargo
      <4>2. a = s /\ b = d
        BY <1>2, <4>1 DEF Apart
      <4>3. Single(wire[s][d])
        BY DEF Apart
      <4>. QED  BY <2>1, <3>1, <4>2, <4>3 DEF Single
    <3>2. ASSUME NEW h \in Hosts, NEW j \in DOMAIN pending[h], pending[h][j].req = r
          PROVE  FALSE
      BY <1>1, <1>2, <3>2 DEF Apart
    <3>. QED  BY <2>3, <3>1, <3>2, CopiesAre
  <2>. QED  BY <2>2, <2>3
<1>3. ASSUME NEW h \in Hosts, r \in Cargo(pending[h])
      PROVE  \E x : Copies(r) = {x}
  <2>1. PICK i \in DOMAIN pending[h] : Carries(pending[h][i]) /\ pending[h][i].req = r
    BY <1>3 DEF Cargo
  <2>2. <<h, i>> \in Copies(r)
    BY <2>1, CopiesAre
  <2>3. ASSUME NEW x \in Copies(r) PROVE x = <<h, i>>
    <3>1. ASSUME NEW a \in Hosts, NEW b \in Hosts, NEW j \in DOMAIN wire[a][b],
                 Carries(wire[a][b][j]), wire[a][b][j].req = r
          PROVE  FALSE
      <4>1. r \in Cargo(wire[a][b])
        BY <3>1 DEF Cargo
      <4>. QED  BY <1>3, <4>1 DEF Apart
    <3>2. ASSUME NEW a \in Hosts, NEW j \in DOMAIN pending[a], pending[a][j].req = r
          PROVE  a = h /\ j = i
      <4>1. a = h
        BY <1>1, <1>3, <3>2 DEF Apart
      <4>2. Single(pending[h])
        BY DEF Apart
      <4>. QED  BY <1>1, <2>1, <3>2, <4>1, <4>2 DEF Single
    <3>. QED  BY <2>3, <3>1, <3>2, CopiesAre
  <2>. QED  BY <2>2, <2>3
<1>. QED  BY <1>2, <1>3 DEF Underway

\* No request is under way before the first is issued.
LEMMA InitConserves == Init => Conserved
<1>. SUFFICES ASSUME Init PROVE Conserves(wire, pending, waiter, pc)
  BY DEF Conserved
<1>1. /\ \A s, d \in Hosts : wire[s][d] = <<>>
      /\ \A h \in Hosts : pending[h] = <<>>
      /\ \A r \in Requests : waiter[r] = "none"
  BY DEF Init
<1>. QED  BY <1>1, CargoEmpty DEF Conserves, Apart, Underway

\* Conserved is what RequestConserved says, and more.
LEMMA ConservedOnce == TypeInv /\ TokenInv /\ Conserved => RequestConserved
<1>. SUFFICES ASSUME TypeInv, TokenInv, Conserved, NEW r \in Requests,
                     waiter[r] = "active", alloc = "allocated"
              PROVE  Cardinality(Copies(r)) = 1
  BY DEF RequestConserved
<1>1. wire \in Wires /\ pending \in [Hosts -> Seq(Msg)] /\ OnlyRequestsWait
  BY TokenInvParts DEF TypeInv, TypeOK, Wires
<1>2. Apart(wire, pending) /\ Underway(wire, pending, r)
  BY DEF Conserved, Conserves
<1>3. PICK x : Copies(r) = {x}
  BY <1>1, <1>2, ApartOnce
<1>. QED  BY <1>3, FS_Singleton

\* However the owner moves while requests, grants and cancellations are under
\* way, a request that waits is on exactly one wire or in exactly one pending
\* queue, or the one grant that answers it is: forwarding, queueing, handing on
\* the backlog behind a grant, passing over abandoned requests and cancelling
\* neither lose nor duplicate it.
THEOREM RequestsConserved == Spec => []RequestConserved
<1>1. Init => LeaseInv /\ Conserved
  BY InitRefines, InitConserves
<1>2. TypeInv /\ TypeInv' /\ TokenInv /\ TokenInv' /\ LeaseInv /\ Conserved /\ [Next]_vars
        => LeaseInv' /\ Conserved'
  BY StepRefines, StepConserves DEF LeaseInv
<1>. QED  BY <1>1, <1>2, ConservedOnce, TypeInvariant, TokenSafe, PTL DEF Spec

\* The same while the object may start to retire at any moment: until
\* BeginRetire no request is lost, whatever handlers it meets half-way.
THEOREM RequestsConservedUntilRetirement == RSpec => []RequestConserved
<1>1. RInit => LeaseInv /\ Conserved
  BY InitRefines, InitConserves DEF RInit
<1>2. RetireInv /\ RetireInv' /\ LeaseInv /\ Conserved /\ [RNext]_rvars => LeaseInv' /\ Conserved'
  <2>. SUFFICES ASSUME RetireInv, RetireInv', LeaseInv, Conserved, [RNext]_rvars
                PROVE  LeaseInv' /\ Conserved'
    OBVIOUS
  <2>1. ASSUME [Next]_vars PROVE LeaseInv' /\ Conserved'
    BY <2>1, StepRefines, StepConserves DEF RetireInv, LeaseInv
  <2>2. ASSUME RetireStep PROVE LeaseInv' /\ Conserved'
    BY <2>2, RetireRefines, RetireCancels, RetireConserves DEF LeaseInv, Refines
  <2>3. CASE UNCHANGED rvars
    <3>1. UNCHANGED vars
      BY ZenonT(60), <2>3 DEF rvars
    <3>. QED  BY <2>1, <3>1
  <2>4. CASE RNext
    BY <2>1, <2>2, <2>4 DEF RNext, RetireStep, TokenStep
  <2>. QED  BY <2>3, <2>4
<1>3. RetireInv /\ Conserved => RequestConserved
  BY ConservedOnce DEF RetireInv
<1>. QED  BY <1>1, <1>2, <1>3, RetireInvHolds, PTL DEF RSpec

=============================================================================
