-------------------------- MODULE MessagingProofs --------------------------
(***************************************************************************)
(* Proofs about the rings that carry messages (SpscQueue) and about the    *)
(* thread protocol that runs over them (Threads).                          *)
(*                                                                         *)
(* The ring, for every set of messages, every capacity and any number of   *)
(* pushes: the plain stores and loads of Push and TryPop do not race, and  *)
(* the ring implements a bounded FIFO of whole messages.                   *)
(*                                                                         *)
(* The protocol, for any hosts, threads and limits: the counters that      *)
(* enforce the limits are exact, and a joiner gets the outcome of the      *)
(* thread, whatever order the messages are handled in.                     *)
(***************************************************************************)
EXTENDS SpscQueue, Threads, SequenceTheorems, FiniteSetTheorems, TLAPS

InPush == ppc # "idle"
InPop == cpc # "idle"

\* The slot of cursor value n.
At(n) == slot[n % Capacity]

\* The cursors: never more than Capacity apart, with room while a message is
\* being pushed and with a message while one is being popped.
CursorsOK ==
  /\ head <= tail /\ tail <= head + Capacity
  /\ InPush => tail < head + Capacity
  /\ InPop => head < tail

\* What lies between the cursors is published and whole.
PublishedOK ==
  \A n \in head .. tail - 1 :
    /\ At(n).header \in Messages
    /\ At(n).payload = At(n).header
    /\ At(n).sequence = n + 1

\* How far Push has come with its slot.
PushOK ==
  /\ InPush => item \in Messages
  /\ ppc \in {"payload", "sequence", "tail"} => At(tail).header = item
  /\ ppc \in {"sequence", "tail"} => At(tail).payload = item
  /\ ppc = "tail" => At(tail).sequence = tail + 1

\* What TryPop has copied is what the slot still holds.
PopOK ==
  /\ cpc \in {"payload", "head"} => copy.header = At(head).header
  /\ cpc = "head" => copy.payload = At(head).payload

\* The inductive invariant.
QueueInv == TypeOK /\ CursorsOK /\ PublishedOK /\ PushOK /\ PopOK

-----------------------------------------------------------------------------
(* The ring index.                                                         *)

\* A multiple of the capacity between two cursors that are less than a lap
\* apart is zero.
LEMMA LapIsLong ==
  ASSUME NEW k \in Int, k > 0
  PROVE  Capacity * k >= Capacity
BY CapacityAssumption

\* Cursor values less than a lap apart have different slots.
LEMMA SlotsDiffer ==
  ASSUME NEW a \in Nat, NEW b \in Nat, a < b, b < a + Capacity
  PROVE  a % Capacity # b % Capacity
<1>1. /\ Capacity \in Int /\ Capacity > 0
  BY CapacityAssumption
<1>2. /\ a \div Capacity \in Int /\ b \div Capacity \in Int
      /\ a = Capacity * (a \div Capacity) + (a % Capacity)
      /\ b = Capacity * (b \div Capacity) + (b % Capacity)
  BY <1>1
<1>3. SUFFICES ASSUME a % Capacity = b % Capacity PROVE FALSE
  OBVIOUS
<1>4. PICK k \in Int : k = (b \div Capacity) - (a \div Capacity)
  BY <1>2
<1>5. b - a = Capacity * k
  BY <1>1, <1>2, <1>3, <1>4
<1>6. CASE k > 0
  BY <1>1, <1>5, <1>6, LapIsLong
<1>7. CASE k <= 0
  BY <1>1, <1>5, <1>7
<1>. QED  BY <1>6, <1>7

\* Every cursor value has a slot.
LEMMA SlotExists ==
  ASSUME NEW n \in Nat
  PROVE  n % Capacity \in Indices
BY CapacityAssumption DEF Indices

-----------------------------------------------------------------------------
(* The invariant.                                                          *)

\* The initial ring is empty and both hosts are idle.
LEMMA QueueInit == Init => QueueInv
<1>. SUFFICES ASSUME Init PROVE QueueInv
  OBVIOUS
<1>1. TypeOK
  BY DEF Init, TypeOK, Word, Indices
<1>2. CursorsOK
  BY CapacityAssumption DEF Init, CursorsOK, InPush, InPop
<1>3. PublishedOK
  BY DEF Init, PublishedOK
<1>4. PushOK /\ PopOK
  BY DEF Init, PushOK, PopOK, InPush
<1>. QED  BY <1>1, <1>2, <1>3, <1>4 DEF QueueInv

\* A store of Push into the slot at the tail cursor leaves the slots of the
\* published messages alone.
LEMMA StoreElsewhere ==
  ASSUME QueueInv, InPush, UNCHANGED <<tail, head>>,
         \A i \in Indices : i # tail % Capacity => slot'[i] = slot[i],
         NEW n \in head .. tail - 1
  PROVE  At(n)' = At(n)
<1>1. /\ tail \in Nat /\ head \in Nat /\ tail < head + Capacity
      /\ Capacity \in Nat \ {0}
  BY CapacityAssumption DEF QueueInv, TypeOK, CursorsOK
<1>2. n \in Nat /\ n < tail /\ tail < n + Capacity
  BY <1>1
<1>3. n % Capacity # tail % Capacity
  BY <1>1, <1>2, SlotsDiffer
<1>. QED  BY <1>2, <1>3, SlotExists DEF At

\* So the published messages stay whole, and what TryPop has copied stays what
\* the slot holds.
LEMMA StoreKeepsPublished ==
  ASSUME QueueInv, InPush, UNCHANGED <<tail, head, cpc, copy>>,
         slot' \in [Indices -> [sequence : Nat, header : Word, payload : Word]],
         \A i \in Indices : i # tail % Capacity => slot'[i] = slot[i]
  PROVE  PublishedOK' /\ PopOK'
<1>1. tail \in Nat /\ head \in Nat
  BY DEF QueueInv, TypeOK
<1>2. ASSUME NEW n \in head .. tail - 1
      PROVE  At(n)' = At(n)
  BY StoreElsewhere
<1>3. PublishedOK'
  <2>. SUFFICES ASSUME NEW n \in head .. tail - 1
                PROVE  /\ At(n)'.header \in Messages
                       /\ At(n)'.payload = At(n)'.header
                       /\ At(n)'.sequence = n + 1
    BY DEF PublishedOK, At
  <2>. QED  BY <1>2 DEF QueueInv, PublishedOK
<1>4. ASSUME InPop PROVE At(head)' = At(head)
  <2>1. head \in head .. tail - 1
    BY <1>1, <1>4 DEF QueueInv, CursorsOK
  <2>2. slot'[head % Capacity] = slot[head % Capacity]
    BY <1>2, <2>1 DEF At
  <2>. QED  BY <2>2 DEF At
<1>5. PopOK'
  <2>1. CASE InPop
    BY <1>4, <2>1 DEF QueueInv, PopOK, At
  <2>2. CASE ~ InPop
    BY <2>2 DEF PopOK, InPop
  <2>. QED  BY <2>1, <2>2
<1>. QED  BY <1>3, <1>5

\* Every step of Push and of TryPop preserves the invariant.
LEMMA QueueStep == QueueInv /\ [Next]_vars => QueueInv'
<1>. SUFFICES ASSUME QueueInv, [Next]_vars PROVE QueueInv'
  OBVIOUS
<1>. USE CapacityAssumption
<1>0. /\ TypeOK /\ CursorsOK /\ PublishedOK /\ PushOK /\ PopOK
      /\ tail \in Nat /\ head \in Nat
      /\ tail % Capacity \in Indices /\ head % Capacity \in Indices
  BY SlotExists DEF QueueInv, TypeOK
<1>1. ASSUME NEW m \in Messages, PushBegin(m) PROVE QueueInv'
  <2>1. TypeOK'
    BY <1>0, <1>1 DEF TypeOK, PushBegin, Word
  <2>2. CursorsOK'
    BY <1>0, <1>1 DEF CursorsOK, PushBegin, InPush, InPop
  <2>3. PublishedOK' /\ PopOK' /\ PushOK'
    BY <1>0, <1>1 DEF PublishedOK, PopOK, PushOK, PushBegin, InPush, At
  <2>. QED  BY <2>1, <2>2, <2>3 DEF QueueInv
<1>2. ASSUME PushHeader PROVE QueueInv'
  <2>1. InPush /\ item \in Messages
    BY <1>0, <1>2 DEF PushHeader, PushOK, InPush
  <2>2. slot' = [slot EXCEPT ![tail % Capacity] = [@ EXCEPT !.header = item]]
    BY <1>2 DEF PushHeader
  <2>3. TypeOK'
    BY <1>0, <1>2, <2>1 DEF TypeOK, PushHeader, Word
  <2>4. CursorsOK'
    BY <1>0, <1>2 DEF CursorsOK, PushHeader, InPush, InPop
  <2>5. PublishedOK' /\ PopOK'
    BY <1>0, <1>2, <2>1, <2>3, StoreKeepsPublished DEF TypeOK, PushHeader
  <2>6. PushOK'
    BY <1>0, <1>2, <2>1 DEF PushOK, PushHeader, InPush, At, TypeOK
  <2>. QED  BY <2>3, <2>4, <2>5, <2>6 DEF QueueInv
<1>3. ASSUME PushPayload PROVE QueueInv'
  <2>1. InPush /\ item \in Messages
    BY <1>0, <1>3 DEF PushPayload, PushOK, InPush
  <2>3. TypeOK'
    BY <1>0, <1>3, <2>1 DEF TypeOK, PushPayload, Word
  <2>4. CursorsOK'
    BY <1>0, <1>3 DEF CursorsOK, PushPayload, InPush, InPop
  <2>5. PublishedOK' /\ PopOK'
    BY <1>0, <1>3, <2>1, <2>3, StoreKeepsPublished DEF TypeOK, PushPayload
  <2>6. PushOK'
    BY <1>0, <1>3, <2>1 DEF PushOK, PushPayload, InPush, At, TypeOK
  <2>. QED  BY <2>3, <2>4, <2>5, <2>6 DEF QueueInv
<1>4. ASSUME PushSequence PROVE QueueInv'
  <2>1. InPush /\ item \in Messages
    BY <1>0, <1>4 DEF PushSequence, PushOK, InPush
  <2>3. TypeOK'
    BY <1>0, <1>4, <2>1 DEF TypeOK, PushSequence, Word
  <2>4. CursorsOK'
    BY <1>0, <1>4 DEF CursorsOK, PushSequence, InPush, InPop
  <2>5. PublishedOK' /\ PopOK'
    BY <1>0, <1>4, <2>1, <2>3, StoreKeepsPublished DEF TypeOK, PushSequence
  <2>6. PushOK'
    BY <1>0, <1>4, <2>1 DEF PushOK, PushSequence, InPush, At, TypeOK
  <2>. QED  BY <2>3, <2>4, <2>5, <2>6 DEF QueueInv
<1>5. ASSUME PushTail PROVE QueueInv'
  <2>1. TypeOK'
    BY <1>0, <1>5 DEF TypeOK, PushTail, Word
  <2>2. CursorsOK'
    BY <1>0, <1>5 DEF CursorsOK, PushTail, InPush, InPop
  <2>3. /\ At(tail).header \in Messages
        /\ At(tail).payload = At(tail).header
        /\ At(tail).sequence = tail + 1
    BY <1>0, <1>5 DEF PushTail, PushOK, InPush
  <2>4. ASSUME NEW n \in head .. tail
        PROVE  /\ At(n).header \in Messages
               /\ At(n).payload = At(n).header
               /\ At(n).sequence = n + 1
    <3>1. CASE n = tail
      BY <2>3, <3>1
    <3>2. CASE n # tail
      BY <1>0, <3>2 DEF PublishedOK
    <3>. QED  BY <3>1, <3>2
  <2>6. head' .. tail' - 1 = head .. tail /\ slot' = slot
    BY <1>0, <1>5 DEF PushTail
  <2>7. PublishedOK'
    BY <2>4, <2>6 DEF PublishedOK, At
  <2>5. PopOK' /\ PushOK'
    BY <1>0, <1>5 DEF PopOK, PushOK, PushTail, InPush, At
  <2>. QED  BY <2>1, <2>2, <2>5, <2>7 DEF QueueInv
<1>6. ASSUME PopBegin \/ PopSequence PROVE QueueInv'
  <2>1. TypeOK'
    BY <1>0, <1>6 DEF TypeOK, PopBegin, PopSequence
  <2>2. CursorsOK'
    BY <1>0, <1>6 DEF CursorsOK, PopBegin, PopSequence, InPush, InPop
  <2>3. PublishedOK' /\ PushOK' /\ PopOK'
    BY <1>0, <1>6 DEF PublishedOK, PopOK, PushOK, PopBegin, PopSequence, InPush, At
  <2>. QED  BY <2>1, <2>2, <2>3 DEF QueueInv
<1>7. ASSUME PopHeader \/ PopPayload PROVE QueueInv'
  <2>1. TypeOK'
    BY <1>0, <1>7 DEF TypeOK, PopHeader, PopPayload
  <2>2. CursorsOK'
    BY <1>0, <1>7 DEF CursorsOK, PopHeader, PopPayload, InPush, InPop
  <2>3. PublishedOK' /\ PushOK'
    BY <1>0, <1>7 DEF PublishedOK, PushOK, PopHeader, PopPayload, InPush, At
  <2>4. PopOK'
    BY <1>0, <1>7 DEF PopOK, PopHeader, PopPayload, At, TypeOK
  <2>. QED  BY <2>1, <2>2, <2>3, <2>4 DEF QueueInv
<1>8. ASSUME PopHead PROVE QueueInv'
  <2>1. TypeOK'
    BY <1>0, <1>8 DEF TypeOK, PopHead, Word
  <2>2. CursorsOK'
    BY <1>0, <1>8 DEF CursorsOK, PopHead, InPush, InPop
  <2>3. PublishedOK'
    BY <1>0, <1>8 DEF PublishedOK, PopHead, At
  <2>4. PushOK' /\ PopOK'
    BY <1>0, <1>8 DEF PopOK, PushOK, PopHead, InPush, At
  <2>. QED  BY <2>1, <2>2, <2>3, <2>4 DEF QueueInv
<1>9. CASE UNCHANGED vars
  BY <1>0, <1>9 DEF vars, QueueInv, TypeOK, CursorsOK, PublishedOK, PushOK, PopOK,
                    InPush, InPop, At
<1>. QED  BY <1>1, <1>2, <1>3, <1>4, <1>5, <1>6, <1>7, <1>8, <1>9
          DEF Next, Producer, Consumer

\* The invariant holds in every state that Push and TryPop reach.
LEMMA QueueInvariant == Spec => []QueueInv
BY QueueInit, QueueStep, PTL DEF Spec

\* The plain stores of Push and the plain loads of TryPop never touch the same
\* slot at the same time, for every capacity and however often the ring wraps.
THEOREM RingNeverRaces == Spec => []NoSlotRace
<1>1. ASSUME QueueInv PROVE NoSlotRace
  <2>1. TypeOK /\ CursorsOK /\ tail \in Nat /\ head \in Nat
    BY <1>1 DEF QueueInv, TypeOK
  <2>2. ASSUME InPush, InPop PROVE tail % Capacity # head % Capacity
    BY <2>1, <2>2, SlotsDiffer DEF CursorsOK
  <2>. QED  BY <2>1, <2>2 DEF NoSlotRace, InPush, InPop
<1>. QED  BY <1>1, QueueInvariant, PTL

-----------------------------------------------------------------------------
(* The ring is a bounded FIFO.                                             *)

\* The published messages in order: the refinement mapping of the module.
Queue == [n \in 1 .. tail - head |-> slot[(head + n - 1) % Capacity].header]

\* The published messages are a sequence, as long as the cursors are apart.
LEMMA QueueIsSequence ==
  ASSUME QueueInv
  PROVE  /\ Queue \in Seq(Messages)
         /\ Len(Queue) = tail - head
         /\ \A n \in 1 .. tail - head : Queue[n] = At(head + n - 1).header
<1>1. tail \in Nat /\ head \in Nat /\ tail - head \in Nat
  BY DEF QueueInv, TypeOK, CursorsOK
<1>2. ASSUME NEW n \in 1 .. tail - head
      PROVE  At(head + n - 1).header \in Messages
  <2>1. head + n - 1 \in head .. tail - 1
    BY <1>1
  <2>. QED  BY <2>1 DEF QueueInv, PublishedOK
<1>3. Queue \in [1 .. tail - head -> Messages]
  BY <1>2 DEF Queue, At
<1>4. Queue \in Seq(Messages) /\ Len(Queue) = tail - head
  BY <1>1, <1>3
<1>5. \A n \in 1 .. tail - head : Queue[n] = At(head + n - 1).header
  BY DEF Queue, At
<1>. QED  BY <1>4, <1>5

\* A step that moves neither cursor and stores into no published slot is a
\* stutter of the FIFO.
LEMMA QueueStutters ==
  ASSUME QueueInv, QueueInv', UNCHANGED <<tail, head>>,
         \A n \in head .. tail - 1 : At(n)' = At(n)
  PROVE  Queue' = Queue
<1>1. tail \in Nat /\ head \in Nat
  BY DEF QueueInv, TypeOK
<1>2. ASSUME NEW n \in 1 .. tail - head
      PROVE  slot'[(head + n - 1) % Capacity] = slot[(head + n - 1) % Capacity]
  <2>1. head + n - 1 \in head .. tail - 1
    BY <1>1
  <2>. QED  BY <2>1 DEF At
<1>. QED  BY <1>1, <1>2 DEF Queue

\* Storing the tail cursor appends the message of Push.
LEMMA PushTailPuts ==
  ASSUME QueueInv, QueueInv', PushTail
  PROVE  /\ item \in Messages
         /\ Len(Queue) < Capacity
         /\ Queue' = Append(Queue, item)
<1>1. /\ tail \in Nat /\ head \in Nat /\ head <= tail /\ tail < head + Capacity
      /\ item \in Messages /\ At(tail).header = item
      /\ tail' = tail + 1 /\ head' = head /\ slot' = slot
  BY DEF QueueInv, TypeOK, CursorsOK, PushOK, InPush, PushTail
<1>2. /\ Queue \in Seq(Messages) /\ Len(Queue) = tail - head
      /\ \A n \in 1 .. tail - head : Queue[n] = At(head + n - 1).header
  BY QueueIsSequence
<1>3. Queue' = [n \in 1 .. tail + 1 - head |-> At(head + n - 1).header]
  BY <1>1 DEF Queue, At
<1>4. /\ Append(Queue, item) \in Seq(Messages)
      /\ Len(Append(Queue, item)) = tail - head + 1
      /\ \A n \in 1 .. tail - head : Append(Queue, item)[n] = Queue[n]
      /\ Append(Queue, item)[tail - head + 1] = item
  BY <1>1, <1>2, AppendProperties
<1>5. ASSUME NEW n \in 1 .. tail - head + 1
      PROVE  At(head + n - 1).header = Append(Queue, item)[n]
  <2>1. CASE n \in 1 .. tail - head
    BY <1>2, <1>4, <2>1
  <2>2. CASE n = tail - head + 1
    <3>1. head + n - 1 = tail
      BY <1>1, <2>2
    <3>. QED  BY <1>1, <1>4, <2>2, <3>1
  <2>3. n \in 1 .. tail - head \/ n = tail - head + 1
    BY <1>1
  <2>. QED  BY <2>1, <2>2, <2>3
<1>6. tail + 1 - head = tail - head + 1
  BY <1>1
<1>7. Append(Queue, item) \in [1 .. tail - head + 1 -> Messages]
  BY <1>4, LenProperties
<1>8. Queue' = Append(Queue, item)
  BY <1>3, <1>5, <1>6, <1>7
<1>9. Len(Queue) < Capacity
  BY <1>1, <1>2, CapacityAssumption
<1>. QED  BY <1>1, <1>8, <1>9

\* Storing the head cursor takes the first message, whole.
LEMMA PopHeadTakes ==
  ASSUME QueueInv, QueueInv', PopHead
  PROVE  /\ Queue # <<>>
         /\ got' = Head(Queue)
         /\ Queue' = Tail(Queue)
<1>1. /\ tail \in Nat /\ head \in Nat /\ head < tail
      /\ copy.header = At(head).header /\ copy.payload = At(head).payload
      /\ tail' = tail /\ head' = head + 1 /\ slot' = slot
  BY DEF QueueInv, TypeOK, CursorsOK, PopOK, InPop, PopHead
<1>2. /\ Queue \in Seq(Messages) /\ Len(Queue) = tail - head
      /\ \A n \in 1 .. tail - head : Queue[n] = At(head + n - 1).header
  BY QueueIsSequence
<1>3. At(head).payload = At(head).header
  BY <1>1 DEF QueueInv, PublishedOK
<1>4. Queue # <<>>
  BY <1>1, <1>2
<1>5. head + 1 - 1 = head /\ 1 \in 1 .. tail - head
  BY <1>1
<1>6. Head(Queue) = At(head).header
  BY <1>2, <1>4, <1>5
<1>7. got' = Head(Queue)
  BY <1>1, <1>3, <1>6 DEF PopHead
<1>8. Queue' = [n \in 1 .. tail - (head + 1) |-> At(head + 1 + n - 1).header]
  BY <1>1 DEF Queue, At
<1>9. /\ Tail(Queue) \in [1 .. tail - head - 1 -> Messages]
      /\ \A n \in 1 .. tail - head - 1 : Tail(Queue)[n] = Queue[n + 1]
  <2>1. /\ Tail(Queue) \in Seq(Messages) /\ Len(Tail(Queue)) = tail - head - 1
        /\ \A n \in 1 .. Len(Tail(Queue)) : Tail(Queue)[n] = Queue[n + 1]
    BY <1>2, <1>4, HeadTailProperties
  <2>. QED  BY <2>1, LenProperties
<1>10. ASSUME NEW n \in 1 .. tail - head - 1
       PROVE  Queue[n + 1] = At(head + 1 + n - 1).header
  <2>1. n + 1 \in 1 .. tail - head /\ head + (n + 1) - 1 = head + 1 + n - 1
    BY <1>1
  <2>. QED  BY <1>2, <2>1
<1>11. tail - (head + 1) = tail - head - 1
  BY <1>1
<1>. QED  BY <1>4, <1>7, <1>8, <1>9, <1>10, <1>11

\* Every step of the ring is a step of the FIFO or leaves it as it is.
LEMMA RingStepIsFifoStep == QueueInv /\ QueueInv' /\ [Next]_vars => [Fifo!Next]_(Fifo!vars)
<1>. SUFFICES ASSUME QueueInv, QueueInv', [Next]_vars
              PROVE  [Fifo!Next]_(Fifo!vars)
  OBVIOUS
<1>0. /\ slot \in [Indices -> [sequence : Nat, header : Word, payload : Word]]
      /\ tail % Capacity \in Indices
  BY SlotExists DEF QueueInv, TypeOK
<1>1. CASE PushTail
  BY <1>1, PushTailPuts DEF PushTail, Fifo!Next, Fifo!Put, Queue
<1>2. CASE PopHead
  BY <1>2, PopHeadTakes DEF Fifo!Next, Fifo!Take, Queue
<1>3. CASE PushHeader \/ PushPayload \/ PushSequence
  <2>1. /\ InPush /\ UNCHANGED <<tail, head, got>>
        /\ \A i \in Indices : i # tail % Capacity => slot'[i] = slot[i]
    BY <1>0, <1>3 DEF PushHeader, PushPayload, PushSequence, InPush
  <2>2. \A n \in head .. tail - 1 : At(n)' = At(n)
    BY <2>1, StoreElsewhere
  <2>3. Queue' = Queue
    BY <2>1, <2>2, QueueStutters
  <2>. QED  BY <2>1, <2>3 DEF Fifo!vars, Queue
<1>4. CASE \/ \E m \in Messages : PushBegin(m)
           \/ PopBegin \/ PopSequence \/ PopHeader \/ PopPayload
  BY <1>4 DEF PushBegin, PopBegin, PopSequence, PopHeader, PopPayload, Fifo!vars
<1>5. CASE UNCHANGED vars
  BY <1>5 DEF vars, Fifo!vars
<1>. QED  BY <1>1, <1>2, <1>3, <1>4, <1>5 DEF Next, Producer, Consumer

\* Push and TryPop implement a bounded FIFO: no message is lost, duplicated,
\* reordered or torn, for every capacity and every number of messages.
THEOREM RingIsFifo == Spec => ImplementsFifo
<1>1. Init => Fifo!Init
  BY DEF Init, Fifo!Init
<1>2. QueueInv /\ QueueInv' /\ [Next]_vars => [Fifo!Next]_(Fifo!vars)
  BY RingStepIsFifoStep
<1>. QED  BY <1>1, <1>2, QueueInvariant, PTL DEF Spec, ImplementsFifo, Fifo!Spec

-----------------------------------------------------------------------------
(* The thread lifecycle of Threads.                                        *)

\* A remote thread is unfinished at home as long as exactly one of these
\* carries it: its CREATE_REQ, its execution, its COMPLETE_NOTIFY, or the
\* poller of its home, between the two steps of that message.
Creating(t) == Msg("create", t, None) \in net
Executing(t) == exec[t] \in {"ready", "done", "completed"}
Completing(t) == Msg("complete", t, outcome[t]) \in net
Ending(t) ==
  handling[Home[t]] # None /\ handling[Home[t]].kind = "complete" /\ handling[Home[t]].thread = t

Unfinished(t) == state[t] \in {"launching", "running"}

\* A message under way is about a thread placed on another host than its
\* home, and a completion reports how the thread ended.
MessagesOK ==
  \A m \in net : m.kind \in {"create", "complete"} =>
    /\ place[m.thread] \notin {None, Home[m.thread]}
    /\ m.kind = "create" => m.code = None
    /\ m.kind = "complete" => m.code = outcome[m.thread] /\ m.code # None

\* So does the completion a poller is in the middle of.
HandlingOK ==
  \A h \in Hosts : handling[h] # None /\ handling[h].kind = "complete" =>
    /\ h = Home[handling[h].thread] /\ place[handling[h].thread] \notin {None, h}
    /\ handling[h].code = outcome[handling[h].thread] /\ handling[h].code # None

\* How the record at home and the stage of the execution agree.
StageOK(t) ==
  /\ state[t] = "none" => place[t] = None
  /\ place[t] = None => state[t] \in {"none", "gone"} /\ exec[t] = "none"
  /\ place[t] = Home[t] => /\ exec[t] \in {"ready", "done", "released", "reaped"}
                           /\ Unfinished(t) <=> exec[t] # "reaped"
  /\ place[t] \notin {None, Home[t]} =>
       /\ exec[t] # "released"
       /\ Unfinished(t) <=> Creating(t) \/ Executing(t) \/ Completing(t) \/ Ending(t)
       /\ Creating(t) => exec[t] = "none" /\ ~Completing(t) /\ ~Ending(t)
       /\ Executing(t) => ~Completing(t) /\ ~Ending(t)
       /\ ~(Completing(t) /\ Ending(t))

\* The outcome, from the fiber to the joiner.
ResultOK(t) ==
  /\ exec[t] \in {"done", "released", "completed"} => exitCode[t] = outcome[t] /\ outcome[t] # None
  /\ state[t] = "completed" => code[t] = outcome[t] /\ outcome[t] # None
  /\ joined[t] # None => joined[t] = outcome[t] /\ state[t] = "gone"

\* The executions local_running_ counts, and the threads local_pending_ does.
Occupants(h) ==
  {t \in Threads : place[t] = h /\ exec[t] \in {"ready", "done", "completed"}}
Awaited(h) ==
  {t \in Threads :
     /\ Home[t] = h /\ place[t] \notin {h, None}
     /\ state[t] \in {"launching", "running"}
     /\ ~(handling[h] # None /\ handling[h].thread = t /\ handling[h].kind = "complete")}

\* The counter n is the number of elements of S and respects the limit.
Counts(n, S, limit) == IsFiniteSet(S) /\ n = Cardinality(S) /\ (limit = 0 \/ n <= limit)

\* The inductive invariant.
LifeInv == MessagesOK /\ HandlingOK /\ \A t \in Threads : StageOK(t) /\ ResultOK(t)
CountInv ==
  \A h \in Hosts : /\ Counts(running[h], Occupants(h), MaxRunning)
                   /\ Counts(pending[h], Awaited(h), MaxPending)
ThreadsInv == TTypeOK /\ LifeInv /\ CountInv

-----------------------------------------------------------------------------
(* Messages and counters.                                                  *)

\* The fields of a message.
LEMMA MsgFields ==
  ASSUME NEW k, NEW t, NEW c
  PROVE  Msg(k, t, c).kind = k /\ Msg(k, t, c).thread = t /\ Msg(k, t, c).code = c
BY DEF Msg

\* A message is its fields.
LEMMA MsgIs ==
  ASSUME NEW m \in Message
  PROVE  /\ m = Msg(m.kind, m.thread, m.code)
         /\ m.kind \in {"create", "ack", "complete"} /\ m.thread \in Threads
         /\ m.code \in Codes \cup {None}
BY DEF Message, Msg

\* What the protocol sends is a message.
LEMMA MsgType ==
  ASSUME NEW k \in {"create", "ack", "complete"}, NEW t \in Threads, NEW c \in Codes \cup {None}
  PROVE  Msg(k, t, c) \in Message
BY DEF Message, Msg

\* None is no host, no code and no message.
LEMMA NoneApart ==
  /\ \A h \in Hosts : h # None
  /\ \A c \in Codes : c # None
  /\ \A m \in Message : m # None
BY NoneAssumption

\* One more element, below the limit.
LEMMA CountsOneMore ==
  ASSUME NEW n, NEW S, NEW T, NEW limit \in Nat, NEW x, Counts(n, S, limit), Below(n, limit),
         x \notin S, T = S \cup {x}
  PROVE  n \in Nat /\ Counts(n + 1, T, limit)
BY FS_AddElement, FS_CardinalityType DEF Counts, Below

\* One element less.
LEMMA CountsOneLess ==
  ASSUME NEW n, NEW S, NEW T, NEW limit \in Nat, NEW x, Counts(n, S, limit),
         x \in S, T = S \ {x}
  PROVE  n - 1 \in Nat /\ Counts(n - 1, T, limit)
<1>1. n \in Nat /\ Cardinality(T) \in Nat /\ IsFiniteSet(T)
  BY FS_RemoveElement, FS_CardinalityType DEF Counts
<1>2. Cardinality(T) = n - 1
  BY FS_RemoveElement DEF Counts
<1>. QED  BY <1>1, <1>2 DEF Counts

-----------------------------------------------------------------------------
(* What a step leaves alone.                                               *)

\* Nothing about a thread has changed.
Steady(x) ==
  /\ state'[x] = state[x] /\ place'[x] = place[x] /\ code'[x] = code[x]
  /\ exec'[x] = exec[x] /\ exitCode'[x] = exitCode[x]
  /\ outcome'[x] = outcome[x] /\ joined'[x] = joined[x]
  /\ Creating(x)' <=> Creating(x)
  /\ Completing(x)' <=> Completing(x)
  /\ Ending(x)' <=> Ending(x)

\* Such a thread stays right.
LEMMA SteadyKeeps ==
  ASSUME NEW x \in Threads, Steady(x), StageOK(x), ResultOK(x)
  PROVE  StageOK(x)' /\ ResultOK(x)'
<1>1. (Unfinished(x)' <=> Unfinished(x)) /\ (Executing(x)' <=> Executing(x))
  BY DEF Steady, Unfinished, Executing
<1>2. StageOK(x)'
  BY <1>1 DEF Steady, StageOK
<1>3. ResultOK(x)'
  BY DEF Steady, ResultOK
<1>. QED  BY <1>2, <1>3

\* A step that is about one thread.
LEMMA OneThread ==
  ASSUME LifeInv, NEW t \in Threads, \A x \in Threads \ {t} : Steady(x),
         MessagesOK', HandlingOK', StageOK(t)', ResultOK(t)'
  PROVE  LifeInv'
<1>1. \A x \in Threads : StageOK(x)' /\ ResultOK(x)'
  BY SteadyKeeps DEF LifeInv
<1>. QED  BY <1>1 DEF LifeInv

\* A step that changes no counter and no counted set.
LEMMA SameCounts ==
  ASSUME CountInv, UNCHANGED <<running, pending>>,
         \A h \in Hosts : Occupants(h)' = Occupants(h) /\ Awaited(h)' = Awaited(h)
  PROVE  CountInv'
BY DEF CountInv, Counts

\* A step that counts one more execution, or one less.
LEMMA RunningOneMore ==
  ASSUME CountInv, TTypeOK, NEW g \in Hosts, NEW t, Below(running[g], MaxRunning),
         running' = [running EXCEPT ![g] = @ + 1], UNCHANGED pending,
         t \notin Occupants(g), Occupants(g)' = Occupants(g) \cup {t},
         \A h \in Hosts \ {g} : Occupants(h)' = Occupants(h),
         \A h \in Hosts : Awaited(h)' = Awaited(h)
  PROVE  CountInv' /\ running' \in [Hosts -> Nat]
<1>1. Counts(running[g] + 1, Occupants(g)', MaxRunning)
  BY CountsOneMore, LimitsAssumption DEF CountInv
<1>2. running' \in [Hosts -> Nat] /\ running'[g] = running[g] + 1
  BY DEF TTypeOK
<1>3. ASSUME NEW h \in Hosts PROVE Counts(running'[h], Occupants(h)', MaxRunning)
  <2>1. CASE h = g
    BY <1>1, <1>2, <2>1
  <2>2. CASE h # g
    <3>1. running'[h] = running[h] /\ Occupants(h)' = Occupants(h)
      BY <2>2 DEF TTypeOK
    <3>. QED  BY <3>1 DEF CountInv
  <2>. QED  BY <2>1, <2>2
<1>4. ASSUME NEW h \in Hosts PROVE Counts(pending'[h], Awaited(h)', MaxPending)
  BY DEF CountInv
<1>. QED  BY <1>2, <1>3, <1>4 DEF CountInv, Counts

LEMMA RunningOneLess ==
  ASSUME CountInv, TTypeOK, NEW g \in Hosts, NEW t,
         running' = [running EXCEPT ![g] = @ - 1], UNCHANGED pending,
         t \in Occupants(g), Occupants(g)' = Occupants(g) \ {t},
         \A h \in Hosts \ {g} : Occupants(h)' = Occupants(h),
         \A h \in Hosts : Awaited(h)' = Awaited(h)
  PROVE  CountInv' /\ running' \in [Hosts -> Nat]
<1>1. Counts(running[g] - 1, Occupants(g)', MaxRunning) /\ running[g] - 1 \in Nat
  BY CountsOneLess, LimitsAssumption DEF CountInv
<1>2. running' \in [Hosts -> Nat] /\ running'[g] = running[g] - 1
  BY <1>1 DEF TTypeOK
<1>3. ASSUME NEW h \in Hosts PROVE Counts(running'[h], Occupants(h)', MaxRunning)
  <2>1. CASE h = g
    BY <1>1, <1>2, <2>1
  <2>2. CASE h # g
    <3>1. running'[h] = running[h] /\ Occupants(h)' = Occupants(h)
      BY <2>2 DEF TTypeOK
    <3>. QED  BY <3>1 DEF CountInv
  <2>. QED  BY <2>1, <2>2
<1>4. ASSUME NEW h \in Hosts PROVE Counts(pending'[h], Awaited(h)', MaxPending)
  BY DEF CountInv
<1>. QED  BY <1>2, <1>3, <1>4 DEF CountInv, Counts

\* A step that counts one more pending create, or one less.
LEMMA PendingOneMore ==
  ASSUME CountInv, TTypeOK, NEW g \in Hosts, NEW t, Below(pending[g], MaxPending),
         pending' = [pending EXCEPT ![g] = @ + 1], UNCHANGED running,
         t \notin Awaited(g), Awaited(g)' = Awaited(g) \cup {t},
         \A h \in Hosts \ {g} : Awaited(h)' = Awaited(h),
         \A h \in Hosts : Occupants(h)' = Occupants(h)
  PROVE  CountInv' /\ pending' \in [Hosts -> Nat]
<1>1. Counts(pending[g] + 1, Awaited(g)', MaxPending)
  BY CountsOneMore, LimitsAssumption DEF CountInv
<1>2. pending' \in [Hosts -> Nat] /\ pending'[g] = pending[g] + 1
  BY DEF TTypeOK
<1>3. ASSUME NEW h \in Hosts PROVE Counts(pending'[h], Awaited(h)', MaxPending)
  <2>1. CASE h = g
    BY <1>1, <1>2, <2>1
  <2>2. CASE h # g
    <3>1. pending'[h] = pending[h] /\ Awaited(h)' = Awaited(h)
      BY <2>2 DEF TTypeOK
    <3>. QED  BY <3>1 DEF CountInv
  <2>. QED  BY <2>1, <2>2
<1>4. ASSUME NEW h \in Hosts PROVE Counts(running'[h], Occupants(h)', MaxRunning)
  BY DEF CountInv
<1>. QED  BY <1>2, <1>3, <1>4 DEF CountInv, Counts

LEMMA PendingOneLess ==
  ASSUME CountInv, TTypeOK, NEW g \in Hosts, NEW t,
         pending' = [pending EXCEPT ![g] = @ - 1], UNCHANGED running,
         t \in Awaited(g), Awaited(g)' = Awaited(g) \ {t},
         \A h \in Hosts \ {g} : Awaited(h)' = Awaited(h),
         \A h \in Hosts : Occupants(h)' = Occupants(h)
  PROVE  CountInv' /\ pending' \in [Hosts -> Nat]
<1>1. Counts(pending[g] - 1, Awaited(g)', MaxPending) /\ pending[g] - 1 \in Nat
  BY CountsOneLess, LimitsAssumption DEF CountInv
<1>2. pending' \in [Hosts -> Nat] /\ pending'[g] = pending[g] - 1
  BY <1>1 DEF TTypeOK
<1>3. ASSUME NEW h \in Hosts PROVE Counts(pending'[h], Awaited(h)', MaxPending)
  <2>1. CASE h = g
    BY <1>1, <1>2, <2>1
  <2>2. CASE h # g
    <3>1. pending'[h] = pending[h] /\ Awaited(h)' = Awaited(h)
      BY <2>2 DEF TTypeOK
    <3>. QED  BY <3>1 DEF CountInv
  <2>. QED  BY <2>1, <2>2
<1>4. ASSUME NEW h \in Hosts PROVE Counts(running'[h], Occupants(h)', MaxRunning)
  BY DEF CountInv
<1>. QED  BY <1>2, <1>3, <1>4 DEF CountInv, Counts

-----------------------------------------------------------------------------
(* The steps of the home host.                                             *)

LEMMA CreateLocalKeeps ==
  ASSUME ThreadsInv, NEW t \in Threads, CreateLocal(t)
  PROVE  ThreadsInv'
<1>. DEFINE h == Home[t]
<1>1. /\ TTypeOK /\ LifeInv /\ CountInv /\ h \in Hosts /\ h # None
      /\ StageOK(t) /\ ResultOK(t) /\ state[t] = "none" /\ place[t] = None
  BY HomeAssumption, NoneApart DEF ThreadsInv, LifeInv, StageOK, CreateLocal
<1>2. /\ \A x \in Threads \ {t} : place'[x] = place[x] /\ exec'[x] = exec[x] /\ state'[x] = state[x]
      /\ place'[t] = h /\ exec'[t] = "ready" /\ state'[t] = "running"
      /\ UNCHANGED <<code, exitCode, pending, handling, net, outcome, joined>>
  BY <1>1 DEF TTypeOK, CreateLocal
<1>3. ASSUME NEW x \in Threads \ {t} PROVE Steady(x)
  BY <1>2 DEF Steady, Creating, Completing, Ending
<1>4. MessagesOK' /\ HandlingOK'
  <2>1. ASSUME NEW m \in net, m.kind \in {"create", "complete"} PROVE m.thread \in Threads \ {t}
    BY <1>1, <2>1, MsgIs DEF LifeInv, MessagesOK, TTypeOK
  <2>2. ASSUME NEW g \in Hosts, handling[g] # None, handling[g].kind = "complete"
        PROVE  handling[g].thread \in Threads \ {t}
    BY <1>1, <2>2, MsgIs DEF LifeInv, HandlingOK, TTypeOK
  <2>. QED  BY <1>1, <1>2, <2>1, <2>2 DEF LifeInv, MessagesOK, HandlingOK
<1>5. StageOK(t)' /\ ResultOK(t)'
  BY <1>1, <1>2 DEF StageOK, ResultOK, Unfinished
<1>6. LifeInv'
  BY <1>1, <1>3, <1>4, <1>5, OneThread
<1>7. /\ t \notin Occupants(h) /\ Occupants(h)' = Occupants(h) \cup {t}
      /\ \A g \in Hosts \ {h} : Occupants(g)' = Occupants(g)
      /\ \A g \in Hosts : Awaited(g)' = Awaited(g)
  <2>1. t \notin Occupants(h) /\ Occupants(h)' = Occupants(h) \cup {t}
    BY <1>1, <1>2 DEF Occupants
  <2>2. ASSUME NEW g \in Hosts \ {h} PROVE Occupants(g)' = Occupants(g)
    BY <1>1, <1>2, NoneApart DEF Occupants
  <2>3. ASSUME NEW g \in Hosts PROVE Awaited(g)' = Awaited(g)
    BY <1>1, <1>2 DEF Awaited
  <2>. QED  BY <2>1, <2>2, <2>3
<1>8. CountInv' /\ running' \in [Hosts -> Nat]
  BY <1>1, <1>7, RunningOneMore DEF CreateLocal
<1>9. TTypeOK'
  BY <1>1, <1>8 DEF TTypeOK, CreateLocal
<1>. QED  BY <1>6, <1>8, <1>9 DEF ThreadsInv

LEMMA CreateRemoteKeeps ==
  ASSUME ThreadsInv, NEW t \in Threads, NEW h \in Hosts, CreateRemote(t, h)
  PROVE  ThreadsInv'
<1>. DEFINE home == Home[t]
            req == Msg("create", t, None)
<1>1. /\ TTypeOK /\ LifeInv /\ CountInv /\ home \in Hosts /\ home # None /\ h # None /\ h # home
      /\ StageOK(t) /\ ResultOK(t) /\ state[t] = "none" /\ place[t] = None /\ exec[t] = "none"
  BY HomeAssumption, NoneApart DEF ThreadsInv, LifeInv, StageOK, CreateRemote
<1>2. /\ \A x \in Threads \ {t} : place'[x] = place[x] /\ state'[x] = state[x]
      /\ place'[t] = h /\ state'[t] = "launching" /\ net' = net \cup {req}
      /\ UNCHANGED <<code, exec, exitCode, running, handling, outcome, joined>>
  BY <1>1 DEF TTypeOK, CreateRemote, execution
<1>3. ASSUME NEW x \in Threads \ {t} PROVE Steady(x)
  BY <1>2, MsgFields DEF Steady, Creating, Completing, Ending
<1>4. /\ \A m \in net : m.kind \in {"create", "complete"} => m.thread \in Threads \ {t}
      /\ \A g \in Hosts : handling[g] # None /\ handling[g].kind = "complete" =>
           handling[g].thread \in Threads \ {t}
  BY <1>1, MsgIs DEF LifeInv, MessagesOK, HandlingOK, TTypeOK
<1>5. MessagesOK'
  BY <1>1, <1>2, <1>4, MsgFields DEF LifeInv, MessagesOK
<1>6. HandlingOK'
  BY <1>1, <1>2, <1>4 DEF LifeInv, HandlingOK
<1>7. Creating(t)' /\ ~Completing(t)' /\ ~Ending(t)'
  BY <1>1, <1>2, <1>4, MsgFields DEF Creating, Completing, Ending
<1>8. StageOK(t)' /\ ResultOK(t)'
  BY <1>1, <1>2, <1>7 DEF StageOK, ResultOK, Unfinished, Executing
<1>9. LifeInv'
  BY <1>1, <1>3, <1>5, <1>6, <1>8, OneThread
<1>10. /\ t \notin Awaited(home) /\ Awaited(home)' = Awaited(home) \cup {t}
       /\ \A g \in Hosts \ {home} : Awaited(g)' = Awaited(g)
       /\ \A g \in Hosts : Occupants(g)' = Occupants(g)
  BY <1>1, <1>2, <1>4 DEF Occupants, Awaited
<1>11. CountInv' /\ pending' \in [Hosts -> Nat]
  BY <1>1, <1>2, <1>10, PendingOneMore DEF CreateRemote
<1>12. TTypeOK'
  BY <1>1, <1>2, <1>11, MsgType DEF TTypeOK, CreateRemote, execution
<1>. QED  BY <1>9, <1>11, <1>12 DEF ThreadsInv

LEMMA CreateFailsKeeps ==
  ASSUME ThreadsInv, NEW t \in Threads, CreateFails(t)
  PROVE  ThreadsInv'
<1>1. /\ TTypeOK /\ LifeInv /\ CountInv /\ Home[t] \in Hosts /\ Home[t] # None
      /\ StageOK(t) /\ ResultOK(t) /\ state[t] = "none" /\ place[t] = None
  BY HomeAssumption, NoneApart DEF ThreadsInv, LifeInv, StageOK, CreateFails
<1>2. /\ \A x \in Threads \ {t} : state'[x] = state[x]
      /\ state'[t] = "gone"
      /\ UNCHANGED <<place, code, exec, exitCode, running, pending, handling, net, outcome, joined>>
  BY <1>1 DEF TTypeOK, CreateFails, execution
<1>3. ASSUME NEW x \in Threads \ {t} PROVE Steady(x)
  BY <1>2 DEF Steady, Creating, Completing, Ending
<1>4. MessagesOK' /\ HandlingOK'
  BY <1>1, <1>2 DEF LifeInv, MessagesOK, HandlingOK
<1>5. StageOK(t)' /\ ResultOK(t)'
  BY <1>1, <1>2 DEF StageOK, ResultOK
<1>6. LifeInv'
  BY <1>1, <1>3, <1>4, <1>5, OneThread
<1>7. \A g \in Hosts : Occupants(g)' = Occupants(g) /\ Awaited(g)' = Awaited(g)
  BY <1>1, <1>2 DEF Occupants, Awaited
<1>8. CountInv'
  BY <1>1, <1>2, <1>7, SameCounts
<1>9. TTypeOK'
  BY <1>1 DEF TTypeOK, CreateFails, execution
<1>. QED  BY <1>6, <1>8, <1>9 DEF ThreadsInv

LEMMA JoinBeginKeeps ==
  ASSUME ThreadsInv, NEW t \in Threads, JoinBegin(t)
  PROVE  ThreadsInv'
<1>1. TTypeOK /\ LifeInv /\ CountInv
  BY DEF ThreadsInv
<1>2. /\ UNCHANGED <<state, place, code, exec, exitCode, running, pending, handling, net, outcome,
                     joined>>
  BY DEF JoinBegin, execution
<1>3. ASSUME NEW x \in Threads PROVE Steady(x)
  BY <1>2 DEF Steady, Creating, Completing, Ending
<1>4. MessagesOK' /\ HandlingOK'
  BY <1>1, <1>2 DEF LifeInv, MessagesOK, HandlingOK
<1>5. LifeInv'
  BY <1>1, <1>3, <1>4, SteadyKeeps DEF LifeInv
<1>6. \A g \in Hosts : Occupants(g)' = Occupants(g) /\ Awaited(g)' = Awaited(g)
  BY <1>2 DEF Occupants, Awaited
<1>7. CountInv'
  BY <1>1, <1>2, <1>6, SameCounts
<1>8. TTypeOK'
  BY <1>1 DEF TTypeOK, JoinBegin, execution
<1>. QED  BY <1>5, <1>7, <1>8 DEF ThreadsInv

\* Join takes the outcome of a completed thread.
LEMMA JoinEndKeeps ==
  ASSUME ThreadsInv, NEW t \in Threads, JoinEnd(t)
  PROVE  ThreadsInv'
<1>1. /\ TTypeOK /\ LifeInv /\ CountInv /\ Home[t] \in Hosts /\ Home[t] # None
      /\ StageOK(t) /\ ResultOK(t) /\ state[t] = "completed"
  BY HomeAssumption, NoneApart DEF ThreadsInv, LifeInv, JoinEnd
<1>2. /\ \A x \in Threads \ {t} : state'[x] = state[x] /\ joined'[x] = joined[x]
      /\ state'[t] = "gone" /\ joined'[t] = code[t]
      /\ UNCHANGED <<place, code, exec, exitCode, running, pending, handling, net, outcome>>
  BY <1>1 DEF TTypeOK, JoinEnd, execution
<1>3. ASSUME NEW x \in Threads \ {t} PROVE Steady(x)
  BY <1>2 DEF Steady, Creating, Completing, Ending
<1>4. MessagesOK' /\ HandlingOK'
  BY <1>1, <1>2 DEF LifeInv, MessagesOK, HandlingOK
<1>5. /\ Creating(t)' <=> Creating(t)
      /\ Completing(t)' <=> Completing(t)
      /\ Ending(t)' <=> Ending(t)
      /\ ~Unfinished(t) /\ ~Unfinished(t)'
      /\ Executing(t)' <=> Executing(t)
  BY <1>1, <1>2 DEF Creating, Completing, Ending, Unfinished, Executing
<1>6. StageOK(t)' /\ ResultOK(t)'
  BY <1>1, <1>2, <1>5 DEF StageOK, ResultOK
<1>7. LifeInv'
  BY <1>1, <1>3, <1>4, <1>6, OneThread
<1>8. \A g \in Hosts : Occupants(g)' = Occupants(g) /\ Awaited(g)' = Awaited(g)
  BY <1>1, <1>2 DEF Occupants, Awaited
<1>9. CountInv'
  BY <1>1, <1>2, <1>8, SameCounts
<1>10. TTypeOK'
  BY <1>1 DEF TTypeOK, JoinEnd, execution
<1>. QED  BY <1>7, <1>9, <1>10 DEF ThreadsInv

LEMMA DetachKeeps ==
  ASSUME ThreadsInv, NEW t \in Threads, Detach(t)
  PROVE  ThreadsInv'
<1>1. /\ TTypeOK /\ LifeInv /\ CountInv /\ Home[t] \in Hosts /\ Home[t] # None
      /\ StageOK(t) /\ ResultOK(t) /\ state[t] \in {"launching", "running", "completed"}
  BY HomeAssumption, NoneApart DEF ThreadsInv, LifeInv, Detach, Claimable
<1>2. /\ \A x \in Threads \ {t} : state'[x] = state[x]
      /\ state'[t] = IF state[t] = "completed" THEN "gone" ELSE state[t]
      /\ UNCHANGED <<place, code, exec, exitCode, running, pending, handling, net, outcome, joined>>
  BY <1>1 DEF TTypeOK, Detach, execution
<1>3. ASSUME NEW x \in Threads \ {t} PROVE Steady(x)
  BY <1>2 DEF Steady, Creating, Completing, Ending
<1>4. MessagesOK' /\ HandlingOK'
  BY <1>1, <1>2 DEF LifeInv, MessagesOK, HandlingOK
<1>5. /\ Creating(t)' <=> Creating(t)
      /\ Completing(t)' <=> Completing(t)
      /\ Ending(t)' <=> Ending(t)
      /\ Unfinished(t)' <=> Unfinished(t)
      /\ Executing(t)' <=> Executing(t)
  BY <1>1, <1>2 DEF Creating, Completing, Ending, Unfinished, Executing
<1>6. StageOK(t)' /\ ResultOK(t)'
  BY <1>1, <1>2, <1>5 DEF StageOK, ResultOK
<1>7. LifeInv'
  BY <1>1, <1>3, <1>4, <1>6, OneThread
<1>8. \A g \in Hosts : Occupants(g)' = Occupants(g) /\ Awaited(g)' = Awaited(g)
  BY <1>1, <1>2 DEF Occupants, Awaited
<1>9. CountInv'
  BY <1>1, <1>2, <1>8, SameCounts
<1>10. TTypeOK'
  BY <1>1 DEF TTypeOK, Detach, execution
<1>. QED  BY <1>7, <1>9, <1>10 DEF ThreadsInv

-----------------------------------------------------------------------------
(* The steps of the execution host.                                        *)

\* While an execution is not over, its home has not completed the record, and
\* no completion of it is under way.
LEMMA ExecutingAlone ==
  ASSUME ThreadsInv, NEW t \in Threads, Executing(t)
  PROVE  /\ Unfinished(t) /\ place[t] \in Hosts
         /\ \A m \in net : m.kind \in {"create", "complete"} => m.thread # t
         /\ \A h \in Hosts : handling[h] # None /\ handling[h].kind = "complete" =>
              handling[h].thread # t
         /\ ~Creating(t) /\ ~Completing(t) /\ ~Ending(t)
<1>1. TTypeOK /\ MessagesOK /\ HandlingOK /\ StageOK(t) /\ Home[t] \in Hosts /\ Home[t] # None
  BY HomeAssumption, NoneApart DEF ThreadsInv, LifeInv
<1>2. place[t] \in Hosts /\ Unfinished(t)
  BY <1>1 DEF StageOK, Executing, TTypeOK
<1>3. ASSUME NEW m \in net, m.kind \in {"create", "complete"}, m.thread = t PROVE FALSE
  <2>1. m = Msg(m.kind, t, m.code) /\ place[t] \notin {None, Home[t]}
    BY <1>1, <1>3, MsgIs DEF MessagesOK, TTypeOK
  <2>2. Creating(t) \/ Completing(t)
    BY <1>1, <1>3, <2>1 DEF MessagesOK, Creating, Completing
  <2>. QED  BY <1>1, <2>1, <2>2 DEF StageOK, Executing
<1>4. ASSUME NEW h \in Hosts, handling[h] # None, handling[h].kind = "complete",
             handling[h].thread = t
      PROVE  FALSE
  BY <1>1, <1>4 DEF HandlingOK, StageOK, Executing, Ending
<1>5. ~Creating(t) /\ ~Completing(t) /\ ~Ending(t)
  BY <1>1, <1>3, <1>4, MsgFields DEF Creating, Completing, Ending
<1>. QED  BY <1>2, <1>3, <1>4, <1>5

LEMMA FinishKeeps ==
  ASSUME ThreadsInv, NEW t \in Threads, NEW c \in {Succeeded, Failed}, Finish(t, c)
  PROVE  ThreadsInv'
<1>1. /\ TTypeOK /\ LifeInv /\ CountInv /\ Home[t] \in Hosts /\ Home[t] # None
      /\ StageOK(t) /\ ResultOK(t) /\ exec[t] = "ready" /\ Executing(t)
      /\ c \in Codes /\ c # None
  BY HomeAssumption, NoneApart DEF ThreadsInv, LifeInv, Finish, Executing, Codes
<1>2. /\ \A x \in Threads \ {t} :
           exec'[x] = exec[x] /\ exitCode'[x] = exitCode[x] /\ outcome'[x] = outcome[x]
      /\ exec'[t] = "done" /\ exitCode'[t] = c /\ outcome'[t] = c
      /\ UNCHANGED <<state, place, code, running, pending, handling, net, joined>>
  BY <1>1 DEF TTypeOK, Finish, record
<1>3. /\ Unfinished(t)
      /\ \A m \in net : m.kind \in {"create", "complete"} => m.thread # t
      /\ \A h \in Hosts : handling[h] # None /\ handling[h].kind = "complete" =>
           handling[h].thread # t
  BY <1>1, ExecutingAlone
<1>4. ASSUME NEW x \in Threads \ {t} PROVE Steady(x)
  BY <1>2 DEF Steady, Creating, Completing, Ending
<1>5. MessagesOK'
  <2>1. \A m \in net : m.thread \in Threads
    BY <1>1, MsgIs DEF TTypeOK
  <2>. QED  BY <1>1, <1>2, <1>3, <2>1 DEF LifeInv, MessagesOK
<1>6. HandlingOK'
  <2>1. \A h \in Hosts : handling[h] # None => handling[h].thread \in Threads
    BY <1>1, MsgIs DEF TTypeOK
  <2>. QED  BY <1>1, <1>2, <1>3, <2>1 DEF LifeInv, HandlingOK
<1>7. ~Creating(t)' /\ ~Completing(t)' /\ ~Ending(t)' /\ Executing(t)' /\ Unfinished(t)'
  BY <1>1, <1>2, <1>3, MsgFields DEF Creating, Completing, Ending, Executing, Unfinished
<1>8. StageOK(t)' /\ ResultOK(t)'
  <2>1. StageOK(t)'
    BY <1>1, <1>2, <1>3, <1>7 DEF StageOK
  <2>2. ResultOK(t)'
    BY <1>1, <1>2, <1>3 DEF ResultOK, Unfinished
  <2>. QED  BY <2>1, <2>2
<1>9. LifeInv'
  BY <1>1, <1>4, <1>5, <1>6, <1>8, OneThread
<1>10. \A g \in Hosts : Occupants(g)' = Occupants(g) /\ Awaited(g)' = Awaited(g)
  BY <1>1, <1>2 DEF Occupants, Awaited
<1>11. CountInv'
  BY <1>1, <1>2, <1>10, SameCounts
<1>12. TTypeOK'
  BY <1>1 DEF TTypeOK, Finish, record
<1>. QED  BY <1>9, <1>11, <1>12 DEF ThreadsInv

LEMMA OnCompleteKeeps ==
  ASSUME ThreadsInv, NEW t \in Threads, OnComplete(t)
  PROVE  ThreadsInv'
<1>. DEFINE h == Home[t]
<1>1. /\ TTypeOK /\ LifeInv /\ CountInv /\ h \in Hosts /\ h # None
      /\ StageOK(t) /\ ResultOK(t) /\ exec[t] = "done" /\ place[t] = h
  BY HomeAssumption, NoneApart DEF ThreadsInv, LifeInv, OnComplete
<1>2. /\ \A x \in Threads \ {t} : exec'[x] = exec[x]
      /\ exec'[t] = "released"
      /\ UNCHANGED <<state, place, code, exitCode, pending, handling, net, outcome, joined>>
  BY <1>1 DEF TTypeOK, OnComplete, record
<1>3. ASSUME NEW x \in Threads \ {t} PROVE Steady(x)
  BY <1>2 DEF Steady, Creating, Completing, Ending
<1>4. MessagesOK' /\ HandlingOK'
  BY <1>1, <1>2 DEF LifeInv, MessagesOK, HandlingOK
<1>5. StageOK(t)' /\ ResultOK(t)'
  BY <1>1, <1>2 DEF StageOK, ResultOK, Unfinished
<1>6. LifeInv'
  BY <1>1, <1>3, <1>4, <1>5, OneThread
<1>7. /\ t \in Occupants(h) /\ Occupants(h)' = Occupants(h) \ {t}
      /\ \A g \in Hosts \ {h} : Occupants(g)' = Occupants(g)
      /\ \A g \in Hosts : Awaited(g)' = Awaited(g)
  <2>1. t \in Occupants(h) /\ Occupants(h)' = Occupants(h) \ {t}
    BY <1>1, <1>2 DEF Occupants
  <2>2. ASSUME NEW g \in Hosts \ {h} PROVE Occupants(g)' = Occupants(g)
    BY <1>1, <1>2 DEF Occupants
  <2>3. ASSUME NEW g \in Hosts PROVE Awaited(g)' = Awaited(g)
    BY <1>2 DEF Awaited
  <2>. QED  BY <2>1, <2>2, <2>3
<1>8. CountInv' /\ running' \in [Hosts -> Nat]
  BY <1>1, <1>7, RunningOneLess DEF OnComplete
<1>9. TTypeOK'
  BY <1>1, <1>8 DEF TTypeOK, OnComplete, record
<1>. QED  BY <1>6, <1>8, <1>9 DEF ThreadsInv

LEMMA CompleteLocalKeeps ==
  ASSUME ThreadsInv, NEW t \in Threads, CompleteLocal(t)
  PROVE  ThreadsInv'
<1>1. /\ TTypeOK /\ LifeInv /\ CountInv /\ Home[t] \in Hosts /\ Home[t] # None
      /\ StageOK(t) /\ ResultOK(t) /\ exec[t] = "released"
  BY HomeAssumption, NoneApart DEF ThreadsInv, LifeInv, CompleteLocal
<1>2. /\ place[t] = Home[t] /\ Unfinished(t)
  BY <1>1 DEF StageOK
<1>3. /\ \A x \in Threads \ {t} :
           exec'[x] = exec[x] /\ state'[x] = state[x] /\ code'[x] = code[x]
      /\ exec'[t] = "reaped" /\ state'[t] \in {"completed", "gone"} /\ code'[t] = exitCode[t]
      /\ UNCHANGED <<place, exitCode, running, pending, handling, net, outcome, joined>>
  BY <1>1 DEF TTypeOK, CompleteLocal, MarkCompleted
<1>4. ASSUME NEW x \in Threads \ {t} PROVE Steady(x)
  BY <1>3 DEF Steady, Creating, Completing, Ending
<1>5. MessagesOK' /\ HandlingOK'
  BY <1>1, <1>3 DEF LifeInv, MessagesOK, HandlingOK
<1>6. StageOK(t)' /\ ResultOK(t)'
  BY <1>1, <1>2, <1>3 DEF StageOK, ResultOK, Unfinished
<1>7. LifeInv'
  BY <1>1, <1>4, <1>5, <1>6, OneThread
<1>8. ASSUME NEW g \in Hosts PROVE Occupants(g)' = Occupants(g) /\ Awaited(g)' = Awaited(g)
  <2>1. Occupants(g)' = Occupants(g)
    BY <1>1, <1>3 DEF Occupants
  <2>2. Awaited(g)' = Awaited(g)
    BY <1>2, <1>3 DEF Awaited
  <2>. QED  BY <2>1, <2>2
<1>9. CountInv'
  BY <1>1, <1>3, <1>8, SameCounts
<1>10. TTypeOK'
  BY <1>1 DEF TTypeOK, CompleteLocal, MarkCompleted
<1>. QED  BY <1>7, <1>9, <1>10 DEF ThreadsInv

LEMMA CompleteRemoteKeeps ==
  ASSUME ThreadsInv, NEW t \in Threads, CompleteRemote(t)
  PROVE  ThreadsInv'
<1>1. /\ TTypeOK /\ LifeInv /\ CountInv /\ Home[t] \in Hosts /\ Home[t] # None
      /\ StageOK(t) /\ ResultOK(t) /\ exec[t] = "done" /\ place[t] # Home[t]
  BY HomeAssumption, NoneApart DEF ThreadsInv, LifeInv, CompleteRemote
<1>2. /\ \A x \in Threads \ {t} : exec'[x] = exec[x]
      /\ exec'[t] = "completed"
      /\ UNCHANGED <<state, place, code, exitCode, running, pending, handling, net, outcome, joined>>
  BY <1>1 DEF TTypeOK, CompleteRemote, record
<1>3. ASSUME NEW x \in Threads \ {t} PROVE Steady(x)
  BY <1>2 DEF Steady, Creating, Completing, Ending
<1>4. MessagesOK' /\ HandlingOK'
  BY <1>1, <1>2 DEF LifeInv, MessagesOK, HandlingOK
<1>5. /\ Creating(t)' <=> Creating(t)
      /\ Completing(t)' <=> Completing(t)
      /\ Ending(t)' <=> Ending(t)
      /\ Unfinished(t)' <=> Unfinished(t)
      /\ Executing(t) /\ Executing(t)'
  BY <1>1, <1>2 DEF Creating, Completing, Ending, Unfinished, Executing
<1>6. StageOK(t)' /\ ResultOK(t)'
  BY <1>1, <1>2, <1>5 DEF StageOK, ResultOK
<1>7. LifeInv'
  BY <1>1, <1>3, <1>4, <1>6, OneThread
<1>8. \A g \in Hosts : Occupants(g)' = Occupants(g) /\ Awaited(g)' = Awaited(g)
  BY <1>1, <1>2 DEF Occupants, Awaited
<1>9. CountInv'
  BY <1>1, <1>2, <1>8, SameCounts
<1>10. TTypeOK'
  BY <1>1 DEF TTypeOK, CompleteRemote, record
<1>. QED  BY <1>7, <1>9, <1>10 DEF ThreadsInv

\* Progress turns a completed execution into a message with its outcome.
LEMMA ReapKeeps ==
  ASSUME ThreadsInv, NEW t \in Threads, Reap(t)
  PROVE  ThreadsInv'
<1>. DEFINE note == Msg("complete", t, exitCode[t])
<1>1. /\ TTypeOK /\ LifeInv /\ CountInv /\ Home[t] \in Hosts /\ Home[t] # None
      /\ StageOK(t) /\ ResultOK(t) /\ exec[t] = "completed" /\ Executing(t)
      /\ exitCode[t] = outcome[t] /\ outcome[t] # None
  BY HomeAssumption, NoneApart DEF ThreadsInv, LifeInv, Reap, Executing, ResultOK
<1>2. PICK h \in Hosts : h = place[t] /\ h # Home[t] /\ h # None
  BY <1>1, ExecutingAlone, NoneApart DEF StageOK
<1>3. /\ \A x \in Threads \ {t} : exec'[x] = exec[x]
      /\ exec'[t] = "reaped" /\ net' = net \cup {note}
      /\ UNCHANGED <<state, place, code, exitCode, pending, handling, outcome, joined>>
  BY <1>1 DEF TTypeOK, Reap, record
<1>4. Unfinished(t) /\ ~Creating(t) /\ ~Completing(t) /\ ~Ending(t)
  BY <1>1, ExecutingAlone
<1>5. ASSUME NEW x \in Threads \ {t} PROVE Steady(x)
  BY <1>3, MsgFields DEF Steady, Creating, Completing, Ending
<1>6. MessagesOK'
  <2>1. note.kind = "complete" /\ note.thread = t /\ note.code = outcome[t]
    BY <1>1, MsgFields
  <2>2. MessagesOK
    BY <1>1 DEF LifeInv
  <2>. QED  BY <1>1, <1>2, <1>3, <2>1, <2>2 DEF MessagesOK
<1>7. HandlingOK'
  BY <1>1, <1>3 DEF LifeInv, HandlingOK
<1>8. ~Creating(t)' /\ Completing(t)' /\ ~Ending(t)' /\ ~Executing(t)' /\ Unfinished(t)'
  BY <1>1, <1>3, <1>4, MsgFields DEF Creating, Completing, Ending, Executing, Unfinished
<1>9. StageOK(t)' /\ ResultOK(t)'
  <2>1. StageOK(t)'
    BY <1>1, <1>2, <1>3, <1>8 DEF StageOK
  <2>2. ResultOK(t)'
    BY <1>1, <1>3 DEF ResultOK
  <2>. QED  BY <2>1, <2>2
<1>10. LifeInv'
  BY <1>1, <1>5, <1>6, <1>7, <1>9, OneThread
<1>11. /\ t \in Occupants(h) /\ Occupants(h)' = Occupants(h) \ {t}
       /\ \A g \in Hosts \ {h} : Occupants(g)' = Occupants(g)
       /\ \A g \in Hosts : Awaited(g)' = Awaited(g)
  <2>1. t \in Occupants(h) /\ Occupants(h)' = Occupants(h) \ {t}
    BY <1>1, <1>2, <1>3 DEF Occupants
  <2>2. ASSUME NEW g \in Hosts \ {h} PROVE Occupants(g)' = Occupants(g)
    BY <1>2, <1>3 DEF Occupants
  <2>3. ASSUME NEW g \in Hosts PROVE Awaited(g)' = Awaited(g)
    BY <1>3 DEF Awaited
  <2>. QED  BY <2>1, <2>2, <2>3
<1>12. CountInv' /\ running' \in [Hosts -> Nat]
  <2>1. running' = [running EXCEPT ![h] = @ - 1] /\ UNCHANGED pending
    BY <1>2 DEF Reap
  <2>. QED  BY <1>1, <1>2, <1>11, <2>1, RunningOneLess
<1>13. TTypeOK'
  <2>1. note \in Message
    BY <1>1, MsgType DEF TTypeOK
  <2>. QED  BY <1>1, <1>12, <2>1 DEF TTypeOK, Reap, record
<1>. QED  BY <1>10, <1>12, <1>13 DEF ThreadsInv

-----------------------------------------------------------------------------
(* The messages.                                                           *)

\* A CREATE_REQ under way is all there is of its thread.
LEMMA CreateArrives ==
  ASSUME ThreadsInv, NEW m \in net, NEW t, t = m.thread, m.kind = "create"
  PROVE  /\ t \in Threads /\ m = Msg("create", t, None)
         /\ place[t] \in Hosts /\ place[t] # Home[t] /\ place[t] # None /\ exec[t] = "none"
         /\ Unfinished(t) /\ Creating(t) /\ ~Completing(t) /\ ~Ending(t)
         /\ \A n \in net : n.kind = "complete" => n.thread # t
         /\ \A h \in Hosts : handling[h] # None /\ handling[h].kind = "complete" =>
              handling[h].thread # t
<1>1. /\ TTypeOK /\ MessagesOK /\ HandlingOK /\ t \in Threads /\ m.code = None
      /\ m = Msg("create", t, None) /\ place[t] \notin {None, Home[t]}
  BY MsgIs DEF ThreadsInv, LifeInv, TTypeOK, MessagesOK
<1>2. StageOK(t) /\ Creating(t) /\ place[t] \in Hosts
  BY <1>1 DEF ThreadsInv, LifeInv, TTypeOK, Creating
<1>3. Unfinished(t) /\ exec[t] = "none" /\ ~Completing(t) /\ ~Ending(t)
  BY <1>1, <1>2 DEF StageOK
<1>4. ASSUME NEW n \in net, n.kind = "complete", n.thread = t PROVE FALSE
  <2>1. n = Msg("complete", t, outcome[t])
    BY <1>1, <1>4, MsgIs DEF MessagesOK, TTypeOK
  <2>. QED  BY <1>3, <2>1 DEF Completing
<1>5. ASSUME NEW h \in Hosts, handling[h] # None, handling[h].kind = "complete",
             handling[h].thread = t
      PROVE  FALSE
  BY <1>1, <1>3, <1>5 DEF HandlingOK, Ending
<1>. QED  BY <1>1, <1>2, <1>3, <1>4, <1>5

\* So is a COMPLETE_NOTIFY, which reports how its thread ended.
LEMMA CompletionArrives ==
  ASSUME ThreadsInv, NEW m \in net, NEW t, t = m.thread, m.kind = "complete"
  PROVE  /\ t \in Threads /\ m = Msg("complete", t, outcome[t]) /\ outcome[t] # None
         /\ place[t] \in Hosts /\ place[t] # Home[t] /\ place[t] # None
         /\ Unfinished(t) /\ Completing(t) /\ ~Creating(t) /\ ~Executing(t) /\ ~Ending(t)
<1>1. /\ TTypeOK /\ MessagesOK /\ t \in Threads /\ outcome[t] # None
      /\ m = Msg("complete", t, outcome[t]) /\ place[t] \notin {None, Home[t]}
  BY MsgIs DEF ThreadsInv, LifeInv, TTypeOK, MessagesOK
<1>2. StageOK(t) /\ Completing(t) /\ place[t] \in Hosts
  BY <1>1 DEF ThreadsInv, LifeInv, TTypeOK, Completing
<1>. QED  BY <1>1, <1>2 DEF StageOK

\* A refusal answers the request with a completion.
LEMMA RefuseKeeps ==
  ASSUME ThreadsInv, NEW m \in net, Refuse(m)
  PROVE  ThreadsInv'
<1>. DEFINE t == m.thread
            c == IF t \in Unregistered THEN Failed ELSE AtLimit
            note == Msg("complete", t, c)
<1>1. /\ TTypeOK /\ LifeInv /\ CountInv /\ m.kind = "create" /\ c \in Codes /\ c # None
      /\ MessagesOK /\ HandlingOK
  BY NoneApart DEF ThreadsInv, LifeInv, Refuse, Codes
<1>2. /\ t \in Threads /\ m = Msg("create", t, None)
      /\ place[t] \in Hosts /\ place[t] # Home[t] /\ place[t] # None /\ exec[t] = "none"
      /\ Unfinished(t) /\ Creating(t) /\ ~Completing(t) /\ ~Ending(t)
      /\ \A n \in net : n.kind = "complete" => n.thread # t
      /\ \A h \in Hosts : handling[h] # None /\ handling[h].kind = "complete" =>
           handling[h].thread # t
  BY <1>1, CreateArrives
<1>3. StageOK(t) /\ ResultOK(t) /\ Home[t] \in Hosts /\ Home[t] # None
  BY <1>1, <1>2, HomeAssumption, NoneApart DEF LifeInv
<1>4. /\ \A x \in Threads \ {t} : outcome'[x] = outcome[x]
      /\ outcome'[t] = c /\ net' = (net \ {m}) \cup {note}
      /\ UNCHANGED <<state, place, code, exec, exitCode, running, pending, handling, joined>>
  BY <1>1, <1>2 DEF TTypeOK, Refuse, record, execution
<1>5. /\ note.kind = "complete" /\ note.thread = t /\ note.code = c /\ note \in Message
  BY <1>1, <1>2, MsgFields, MsgType
<1>. HIDE DEF c, note
<1>6. ASSUME NEW x \in Threads \ {t} PROVE Steady(x)
  BY <1>2, <1>4, <1>5, MsgFields DEF Steady, Creating, Completing, Ending
<1>7. MessagesOK'
  <2>1. \A n \in net : n.thread \in Threads
    BY <1>1, MsgIs DEF TTypeOK
  <2>2. ASSUME NEW n \in net', n.kind \in {"create", "complete"}
        PROVE  /\ place'[n.thread] \notin {None, Home[n.thread]}
               /\ n.kind = "create" => n.code = None
               /\ n.kind = "complete" => n.code = outcome'[n.thread] /\ n.code # None
    <3>1. CASE n = note
      BY <1>1, <1>2, <1>4, <1>5, <3>1
    <3>2. CASE n \in net
      BY <1>1, <1>2, <1>4, <2>1, <2>2, <3>2 DEF MessagesOK
    <3>. QED  BY <1>4, <3>1, <3>2
  <2>. QED  BY <2>2 DEF MessagesOK
<1>8. HandlingOK'
  <2>1. \A h \in Hosts : handling[h] # None => handling[h].thread \in Threads
    BY <1>1, MsgIs DEF TTypeOK
  <2>. QED  BY <1>1, <1>2, <1>4, <2>1 DEF HandlingOK
<1>9. ~Creating(t)' /\ Completing(t)' /\ ~Ending(t)' /\ ~Executing(t)' /\ Unfinished(t)'
  <2>1. note = Msg("complete", t, outcome'[t])
    BY <1>4 DEF note
  <2>. QED  BY <1>2, <1>4, <1>5, <2>1, MsgFields
            DEF Creating, Completing, Ending, Executing, Unfinished
<1>10. StageOK(t)'
  BY <1>2, <1>3, <1>4, <1>9 DEF StageOK
<1>11. ResultOK(t)'
  BY <1>2, <1>3, <1>4 DEF ResultOK, Unfinished
<1>12. LifeInv'
  BY <1>1, <1>2, <1>6, <1>7, <1>8, <1>10, <1>11, OneThread
<1>13. \A g \in Hosts : Occupants(g)' = Occupants(g) /\ Awaited(g)' = Awaited(g)
  BY <1>4 DEF Occupants, Awaited
<1>14. CountInv'
  BY <1>1, <1>4, <1>13, SameCounts
<1>15. TTypeOK'
  <2>1. net' \subseteq Message
    BY <1>1, <1>4, <1>5 DEF TTypeOK
  <2>2. outcome' \in [Threads -> Codes \cup {None}]
    BY <1>1 DEF TTypeOK, Refuse, c
  <2>. QED  BY <1>1, <2>1, <2>2 DEF TTypeOK, Refuse, record, execution
<1>. QED  BY <1>12, <1>14, <1>15 DEF ThreadsInv

\* A start turns the request into an execution.
LEMMA StartKeeps ==
  ASSUME ThreadsInv, NEW m \in net, NEW ok \in BOOLEAN, Start(m, ok)
  PROVE  ThreadsInv'
<1>. DEFINE t == m.thread
            c == IF ok THEN None ELSE Failed
            e == IF ok THEN "ready" ELSE "completed"
            now == Msg("create", t, IF ok THEN Succeeded ELSE Failed)
<1>1. /\ TTypeOK /\ LifeInv /\ CountInv /\ m.kind = "create"
      /\ c \in Codes \cup {None} /\ e \in {"ready", "completed"} /\ (e = "completed" => c # None)
      /\ MessagesOK /\ HandlingOK
  BY NoneApart DEF ThreadsInv, LifeInv, Start, Codes
<1>2. /\ t \in Threads /\ m = Msg("create", t, None)
      /\ place[t] \in Hosts /\ place[t] # Home[t] /\ place[t] # None /\ exec[t] = "none"
      /\ Unfinished(t) /\ Creating(t) /\ ~Completing(t) /\ ~Ending(t)
      /\ \A n \in net : n.kind = "complete" => n.thread # t
      /\ \A h \in Hosts : handling[h] # None /\ handling[h].kind = "complete" =>
           handling[h].thread # t
  BY <1>1, CreateArrives
<1>3. StageOK(t) /\ ResultOK(t) /\ Home[t] \in Hosts /\ Home[t] # None
  BY <1>1, <1>2, HomeAssumption, NoneApart DEF LifeInv
<1>4. PICK h \in Hosts : h = place[t]
  BY <1>2
<1>5. now.kind = "create" /\ now \in Message /\ now # None
  BY <1>1, <1>2, MsgFields, MsgType, NoneApart DEF Codes
<1>6. /\ Below(running[h], MaxRunning) /\ running' = [running EXCEPT ![h] = @ + 1]
      /\ handling[h] = None /\ handling' = [handling EXCEPT ![h] = now]
      /\ exec' = [exec EXCEPT ![t] = e] /\ exitCode' = [exitCode EXCEPT ![t] = c]
      /\ outcome' = [outcome EXCEPT ![t] = c] /\ net' = net \ {m}
      /\ UNCHANGED <<state, place, code, joining, detached, listed, pending, joined>>
  BY <1>1, <1>4 DEF Start, Popping, Target, record
<1>. HIDE DEF c, e, now
<1>7. /\ \A x \in Threads \ {t} :
           exec'[x] = exec[x] /\ exitCode'[x] = exitCode[x] /\ outcome'[x] = outcome[x]
      /\ exec'[t] = e /\ exitCode'[t] = c /\ outcome'[t] = c
      /\ \A g \in Hosts \ {h} : handling'[g] = handling[g]
      /\ handling'[h] = now
  BY <1>1, <1>2, <1>6 DEF TTypeOK
<1>8. ASSUME NEW x \in Threads \ {t} PROVE Steady(x)
  <2>1. Ending(x)' <=> Ending(x)
    BY <1>5, <1>6, <1>7, HomeAssumption DEF Ending
  <2>2. (Creating(x)' <=> Creating(x)) /\ (Completing(x)' <=> Completing(x))
    BY <1>2, <1>6, <1>7, MsgFields DEF Creating, Completing
  <2>. QED  BY <1>6, <1>7, <2>1, <2>2 DEF Steady
<1>9. MessagesOK'
  <2>1. \A n \in net : n.thread \in Threads
    BY <1>1, MsgIs DEF TTypeOK
  <2>. QED  BY <1>1, <1>2, <1>6, <1>7, <2>1 DEF MessagesOK
<1>10. HandlingOK'
  <2>1. \A g \in Hosts : handling[g] # None => handling[g].thread \in Threads
    BY <1>1, MsgIs DEF TTypeOK
  <2>2. ASSUME NEW g \in Hosts, handling'[g] # None, handling'[g].kind = "complete"
        PROVE  g # h /\ handling'[g] = handling[g] /\ handling[g].thread \in Threads \ {t}
    BY <1>2, <1>5, <1>7, <2>1, <2>2
  <2>. QED  BY <1>1, <1>6, <1>7, <2>2 DEF HandlingOK
<1>11. ~Creating(t)' /\ ~Completing(t)' /\ ~Ending(t)' /\ Executing(t)' /\ Unfinished(t)'
  <2>1. ~Creating(t)' /\ ~Completing(t)'
    BY <1>2, <1>6, MsgFields DEF Creating, Completing
  <2>2. ~Ending(t)'
    BY <1>2, <1>3, <1>5, <1>7 DEF Ending
  <2>3. Executing(t)' /\ Unfinished(t)'
    BY <1>1, <1>2, <1>6, <1>7 DEF Executing, Unfinished
  <2>. QED  BY <2>1, <2>2, <2>3
<1>12. StageOK(t)'
  BY <1>1, <1>2, <1>3, <1>6, <1>7, <1>11 DEF StageOK
<1>13. ResultOK(t)'
  BY <1>1, <1>2, <1>3, <1>6, <1>7 DEF ResultOK, Unfinished
<1>14. LifeInv'
  BY <1>1, <1>2, <1>8, <1>9, <1>10, <1>12, <1>13, OneThread
<1>15. t \notin Occupants(h) /\ Occupants(h)' = Occupants(h) \cup {t}
  BY <1>1, <1>2, <1>4, <1>6, <1>7 DEF Occupants
<1>16. ASSUME NEW g \in Hosts \ {h} PROVE Occupants(g)' = Occupants(g)
  BY <1>2, <1>4, <1>6, <1>7 DEF Occupants
<1>17. ASSUME NEW g \in Hosts PROVE Awaited(g)' = Awaited(g)
  BY <1>5, <1>6, <1>7 DEF Awaited
<1>18. CountInv' /\ running' \in [Hosts -> Nat]
  BY <1>1, <1>6, <1>15, <1>16, <1>17, RunningOneMore
<1>19. TTypeOK'
  BY <1>1, <1>5, <1>6, <1>18 DEF TTypeOK
<1>. QED  BY <1>14, <1>18, <1>19 DEF ThreadsInv

LEMMA ListKeeps ==
  ASSUME ThreadsInv, NEW h \in Hosts, List(h)
  PROVE  ThreadsInv'
<1>1. /\ TTypeOK /\ LifeInv /\ CountInv /\ MessagesOK /\ HandlingOK
      /\ handling[h] \in Message /\ handling[h].kind = "create"
  BY DEF ThreadsInv, LifeInv, TTypeOK, List
<1>2. PICK t \in Threads : t = handling[h].thread
  BY <1>1, MsgIs
<1>. DEFINE ack == Msg("ack", t, None)
<1>3. ack.kind = "ack" /\ ack \in Message
  BY MsgFields, MsgType
<1>4. /\ net' \in {net, net \cup {ack}} /\ handling' = [handling EXCEPT ![h] = None]
      /\ listed' = listed \cup {t}
      /\ UNCHANGED <<state, place, code, joining, detached, exec, exitCode, running, pending,
                     outcome, joined>>
  BY <1>2 DEF List, record
<1>. HIDE DEF ack
<1>5. /\ \A g \in Hosts \ {h} : handling'[g] = handling[g]
      /\ handling'[h] = None
  BY <1>1, <1>4 DEF TTypeOK
<1>6. ASSUME NEW x \in Threads PROVE Steady(x)
  <2>1. Ending(x)' <=> Ending(x)
    BY <1>1, <1>5, HomeAssumption DEF Ending
  <2>2. (Creating(x)' <=> Creating(x)) /\ (Completing(x)' <=> Completing(x))
    BY <1>3, <1>4, MsgFields DEF Creating, Completing
  <2>. QED  BY <1>4, <2>1, <2>2 DEF Steady
<1>7. MessagesOK'
  BY <1>1, <1>3, <1>4 DEF MessagesOK
<1>8. HandlingOK'
  BY <1>1, <1>4, <1>5 DEF HandlingOK
<1>9. LifeInv'
  BY <1>1, <1>6, <1>7, <1>8, SteadyKeeps DEF LifeInv
<1>10. ASSUME NEW g \in Hosts PROVE Occupants(g)' = Occupants(g) /\ Awaited(g)' = Awaited(g)
  <2>1. Occupants(g)' = Occupants(g)
    BY <1>4 DEF Occupants
  <2>2. Awaited(g)' = Awaited(g)
    BY <1>1, <1>4, <1>5 DEF Awaited
  <2>. QED  BY <2>1, <2>2
<1>11. CountInv'
  BY <1>1, <1>4, <1>10, SameCounts
<1>12. TTypeOK'
  BY <1>1, <1>3, <1>4 DEF TTypeOK
<1>. QED  BY <1>9, <1>11, <1>12 DEF ThreadsInv

\* A late message is an acknowledgement: a completion never comes twice.
LEMMA HandleLateKeeps ==
  ASSUME ThreadsInv, NEW m \in net, HandleLate(m)
  PROVE  ThreadsInv'
<1>1. TTypeOK /\ LifeInv /\ CountInv /\ MessagesOK /\ HandlingOK
  BY DEF ThreadsInv, LifeInv
<1>2. m.kind = "ack"
  <2>1. m.kind # "complete"
    BY CompletionArrives DEF HandleLate, Unfinished
  <2>. QED  BY <1>1, <2>1, MsgIs DEF HandleLate, TTypeOK
<1>3. /\ net' = net \ {m}
      /\ UNCHANGED <<state, place, code, joining, detached, exec, exitCode, listed, running,
                     pending, handling, outcome, joined>>
  BY DEF HandleLate, record, execution
<1>4. ASSUME NEW x \in Threads PROVE Steady(x)
  BY <1>2, <1>3, MsgFields DEF Steady, Creating, Completing, Ending
<1>5. MessagesOK' /\ HandlingOK'
  BY <1>1, <1>3 DEF MessagesOK, HandlingOK
<1>6. LifeInv'
  BY <1>1, <1>4, <1>5, SteadyKeeps DEF LifeInv
<1>7. \A g \in Hosts : Occupants(g)' = Occupants(g) /\ Awaited(g)' = Awaited(g)
  BY <1>3 DEF Occupants, Awaited
<1>8. CountInv'
  BY <1>1, <1>3, <1>7, SameCounts
<1>9. TTypeOK'
  BY <1>1, <1>3 DEF TTypeOK
<1>. QED  BY <1>6, <1>8, <1>9 DEF ThreadsInv

LEMMA HandleAckKeeps ==
  ASSUME ThreadsInv, NEW m \in net, HandleAck(m)
  PROVE  ThreadsInv'
<1>. DEFINE t == m.thread
<1>1. /\ TTypeOK /\ LifeInv /\ CountInv /\ MessagesOK /\ HandlingOK
      /\ m.kind = "ack" /\ t \in Threads /\ Unfinished(t)
  BY MsgIs DEF ThreadsInv, LifeInv, TTypeOK, HandleAck, Unfinished
<1>2. StageOK(t) /\ ResultOK(t)
  BY <1>1 DEF LifeInv
<1>3. /\ \A x \in Threads \ {t} : state'[x] = state[x]
      /\ state'[t] = "running" /\ net' = net \ {m}
      /\ UNCHANGED <<place, code, exec, exitCode, running, pending, handling, outcome, joined>>
  BY <1>1 DEF TTypeOK, HandleAck, execution
<1>4. ASSUME NEW x \in Threads
      PROVE  /\ Creating(x)' <=> Creating(x)
             /\ Completing(x)' <=> Completing(x)
             /\ Ending(x)' <=> Ending(x)
  BY <1>1, <1>3, MsgFields DEF Creating, Completing, Ending
<1>5. ASSUME NEW x \in Threads \ {t} PROVE Steady(x)
  BY <1>3, <1>4 DEF Steady
<1>6. MessagesOK' /\ HandlingOK'
  BY <1>1, <1>3 DEF MessagesOK, HandlingOK
<1>7. Unfinished(t)' /\ (Executing(t)' <=> Executing(t))
  BY <1>3 DEF Unfinished, Executing
<1>8. StageOK(t)'
  BY <1>1, <1>2, <1>3, <1>4, <1>7 DEF StageOK, Unfinished
<1>9. ResultOK(t)'
  BY <1>1, <1>2, <1>3 DEF ResultOK, Unfinished
<1>10. LifeInv'
  BY <1>1, <1>5, <1>6, <1>8, <1>9, OneThread
<1>11. \A g \in Hosts : Occupants(g)' = Occupants(g) /\ Awaited(g)' = Awaited(g)
  BY <1>1, <1>3 DEF Occupants, Awaited, Unfinished
<1>12. CountInv'
  BY <1>1, <1>3, <1>11, SameCounts
<1>13. TTypeOK'
  BY <1>1 DEF TTypeOK, HandleAck, execution
<1>. QED  BY <1>10, <1>12, <1>13 DEF ThreadsInv

\* The first half of a completion: the message becomes the poller's business.
LEMMA HandleCompleteKeeps ==
  ASSUME ThreadsInv, NEW m \in net, HandleComplete(m)
  PROVE  ThreadsInv'
<1>. DEFINE t == m.thread
            h == Home[t]
<1>1. /\ TTypeOK /\ LifeInv /\ CountInv /\ MessagesOK /\ HandlingOK /\ m.kind = "complete"
      /\ m \in Message /\ m # None
  BY NoneApart DEF ThreadsInv, LifeInv, TTypeOK, HandleComplete
<1>2. /\ t \in Threads /\ m = Msg("complete", t, outcome[t]) /\ outcome[t] # None
      /\ place[t] \in Hosts /\ place[t] # h /\ place[t] # None
      /\ Unfinished(t) /\ Completing(t) /\ ~Creating(t) /\ ~Executing(t) /\ ~Ending(t)
  BY <1>1, CompletionArrives
<1>3. StageOK(t) /\ ResultOK(t) /\ h \in Hosts /\ h # None /\ m.code = outcome[t]
  BY <1>1, <1>2, HomeAssumption, NoneApart, MsgFields DEF LifeInv
<1>4. /\ handling[h] = None /\ pending' = [pending EXCEPT ![h] = @ - 1]
      /\ handling' = [handling EXCEPT ![h] = m] /\ net' = net \ {m}
      /\ UNCHANGED <<state, place, code, joining, detached, exec, exitCode, listed, running,
                     outcome, joined>>
  BY <1>1 DEF HandleComplete, Popping, Target, record, execution
<1>5. (\A g \in Hosts \ {h} : handling'[g] = handling[g]) /\ handling'[h] = m
  BY <1>1, <1>3, <1>4 DEF TTypeOK
<1>6. ASSUME NEW x \in Threads \ {t} PROVE Steady(x)
  <2>1. Ending(x)' <=> Ending(x)
    BY <1>4, <1>5, HomeAssumption DEF Ending
  <2>2. (Creating(x)' <=> Creating(x)) /\ (Completing(x)' <=> Completing(x))
    BY <1>2, <1>4, MsgFields DEF Creating, Completing
  <2>. QED  BY <1>4, <2>1, <2>2 DEF Steady
<1>7. MessagesOK'
  BY <1>1, <1>4 DEF MessagesOK
<1>8. HandlingOK'
  BY <1>1, <1>2, <1>3, <1>4, <1>5 DEF HandlingOK
<1>9. ~Creating(t)' /\ ~Completing(t)' /\ Ending(t)' /\ ~Executing(t)' /\ Unfinished(t)'
  <2>1. ~Creating(t)' /\ ~Completing(t)'
    BY <1>2, <1>4 DEF Creating, Completing
  <2>2. Ending(t)'
    BY <1>1, <1>5 DEF Ending
  <2>3. ~Executing(t)' /\ Unfinished(t)'
    BY <1>2, <1>4 DEF Executing, Unfinished
  <2>. QED  BY <2>1, <2>2, <2>3
<1>10. StageOK(t)'
  BY <1>2, <1>3, <1>4, <1>9 DEF StageOK
<1>11. ResultOK(t)'
  BY <1>3, <1>4 DEF ResultOK
<1>12. LifeInv'
  BY <1>1, <1>2, <1>6, <1>7, <1>8, <1>10, <1>11, OneThread
<1>13. t \in Awaited(h) /\ Awaited(h)' = Awaited(h) \ {t}
  BY <1>1, <1>2, <1>4, <1>5 DEF Awaited, Unfinished
<1>14. ASSUME NEW g \in Hosts \ {h} PROVE Awaited(g)' = Awaited(g)
  BY <1>4, <1>5 DEF Awaited
<1>15. ASSUME NEW g \in Hosts PROVE Occupants(g)' = Occupants(g)
  BY <1>4 DEF Occupants
<1>16. CountInv' /\ pending' \in [Hosts -> Nat]
  BY <1>1, <1>3, <1>4, <1>13, <1>14, <1>15, PendingOneLess
<1>17. TTypeOK'
  BY <1>1, <1>4, <1>16 DEF TTypeOK
<1>. QED  BY <1>12, <1>16, <1>17 DEF ThreadsInv

\* The second half: the record takes the outcome.
LEMMA EndCompleteKeeps ==
  ASSUME ThreadsInv, NEW h \in Hosts, EndComplete(h)
  PROVE  ThreadsInv'
<1>1. /\ TTypeOK /\ LifeInv /\ CountInv /\ MessagesOK /\ HandlingOK
      /\ handling[h] \in Message /\ handling[h] # None /\ handling[h].kind = "complete"
  BY DEF ThreadsInv, LifeInv, TTypeOK, EndComplete
<1>2. PICK t \in Threads : t = handling[h].thread
  BY <1>1, MsgIs
<1>3. /\ h = Home[t] /\ place[t] \notin {None, h}
      /\ handling[h].code = outcome[t] /\ outcome[t] # None
      /\ StageOK(t) /\ ResultOK(t) /\ Ending(t)
  BY <1>1, <1>2 DEF LifeInv, HandlingOK, Ending
<1>4. Unfinished(t) /\ ~Creating(t) /\ ~Completing(t) /\ ~Executing(t)
  BY <1>3 DEF StageOK
<1>5. /\ \A x \in Threads \ {t} : state'[x] = state[x] /\ code'[x] = code[x]
      /\ state'[t] \in {"completed", "gone"} /\ code'[t] = outcome[t]
      /\ \A g \in Hosts \ {h} : handling'[g] = handling[g]
      /\ handling'[h] = None
      /\ UNCHANGED <<place, exec, exitCode, running, pending, net, outcome, joined>>
  <2>1. /\ state' = [state EXCEPT ![t] = IF detached[t] THEN "gone" ELSE "completed"]
        /\ code' = [code EXCEPT ![t] = outcome[t]]
        /\ handling' = [handling EXCEPT ![h] = None]
        /\ UNCHANGED <<place, exec, exitCode, running, pending, net, outcome, joined>>
    BY <1>2, <1>3, Zenon DEF EndComplete, MarkCompleted, execution
  <2>. QED  BY <1>1, <2>1 DEF TTypeOK
<1>6. ASSUME NEW x \in Threads \ {t} PROVE Steady(x)
  <2>1. Ending(x)' <=> Ending(x)
    BY <1>2, <1>5, HomeAssumption DEF Ending
  <2>2. (Creating(x)' <=> Creating(x)) /\ (Completing(x)' <=> Completing(x))
    BY <1>5 DEF Creating, Completing
  <2>. QED  BY <1>5, <2>1, <2>2 DEF Steady
<1>7. MessagesOK'
  BY <1>1, <1>5 DEF MessagesOK
<1>8. HandlingOK'
  BY <1>1, <1>5 DEF HandlingOK
<1>9. ~Creating(t)' /\ ~Completing(t)' /\ ~Ending(t)' /\ ~Executing(t)' /\ ~Unfinished(t)'
  BY <1>3, <1>4, <1>5 DEF Creating, Completing, Ending, Executing, Unfinished
<1>10. StageOK(t)'
  BY <1>3, <1>5, <1>9 DEF StageOK
<1>11. ResultOK(t)'
  BY <1>3, <1>4, <1>5 DEF ResultOK, Unfinished
<1>12. LifeInv'
  BY <1>1, <1>6, <1>7, <1>8, <1>10, <1>11, OneThread
<1>13. ASSUME NEW g \in Hosts PROVE Occupants(g)' = Occupants(g)
  BY <1>5 DEF Occupants
<1>14. ASSUME NEW g \in Hosts PROVE Awaited(g)' = Awaited(g)
  <2>1. CASE g = h
    <3>1. ASSUME NEW x \in Threads PROVE x \in Awaited(h)' <=> x \in Awaited(h)
      <4>1. CASE x = t
        BY <1>1, <1>2, <1>5, <4>1 DEF Awaited
      <4>2. CASE x # t
        BY <1>2, <1>5, <4>2 DEF Awaited
      <4>. QED  BY <4>1, <4>2
    <3>. QED  BY <2>1, <3>1 DEF Awaited
  <2>2. CASE g # h
    BY <1>3, <1>5, <2>2 DEF Awaited
  <2>. QED  BY <2>1, <2>2
<1>15. CountInv'
  BY <1>1, <1>5, <1>13, <1>14, SameCounts
<1>16. TTypeOK'
  <2>1. handling[h].code \in Codes \cup {None}
    BY <1>1, MsgIs
  <2>. QED  BY <1>1, <2>1 DEF TTypeOK, EndComplete, MarkCompleted, execution
<1>. QED  BY <1>12, <1>15, <1>16 DEF ThreadsInv

-----------------------------------------------------------------------------

\* No thread, no message, nothing to count.
LEMMA ThreadsStart ==
  ASSUME TInit
  PROVE  ThreadsInv
<1>1. TTypeOK
  BY DEF TInit, TTypeOK
<1>2. MessagesOK /\ HandlingOK
  BY DEF TInit, MessagesOK, HandlingOK
<1>3. ASSUME NEW t \in Threads PROVE StageOK(t) /\ ResultOK(t)
  <2>1. Home[t] # None
    BY HomeAssumption, NoneApart
  <2>. QED  BY <2>1 DEF TInit, StageOK, ResultOK
<1>4. ASSUME NEW h \in Hosts PROVE Occupants(h) = {} /\ Awaited(h) = {}
  BY DEF TInit, Occupants, Awaited
<1>5. CountInv
  BY <1>4, FS_EmptySet, LimitsAssumption DEF TInit, CountInv, Counts
<1>. QED  BY <1>1, <1>2, <1>3, <1>5 DEF ThreadsInv, LifeInv

\* Every step keeps the invariant.
LEMMA ThreadsStep ==
  ASSUME ThreadsInv, [TNext]_tvars
  PROVE  ThreadsInv'
<1>1. ASSUME NEW t \in Threads, Call(t) PROVE ThreadsInv'
  BY <1>1, CreateLocalKeeps, CreateRemoteKeeps, CreateFailsKeeps, JoinBeginKeeps, DetachKeeps
     DEF Call
<1>2. CASE Work
  BY <1>2, FinishKeeps, OnCompleteKeeps, CompleteLocalKeeps, CompleteRemoteKeeps, ReapKeeps,
     RefuseKeeps, StartKeeps, ListKeeps, HandleLateKeeps, HandleAckKeeps, HandleCompleteKeeps,
     EndCompleteKeeps, JoinEndKeeps
     DEF Work
<1>3. CASE UNCHANGED tvars
  <2>1. /\ UNCHANGED <<state, place, code, joining, detached, exec, exitCode, listed, running,
                       pending, handling, net, outcome, joined>>
        /\ TTypeOK /\ LifeInv /\ CountInv
    BY <1>3 DEF tvars, record, execution, ThreadsInv
  <2>2. TTypeOK'
    BY <2>1 DEF TTypeOK
  <2>3. \A x \in Threads : Steady(x)
    BY <2>1 DEF Steady, Creating, Completing, Ending
  <2>4. MessagesOK' /\ HandlingOK'
    BY <2>1 DEF LifeInv, MessagesOK, HandlingOK
  <2>5. LifeInv'
    BY <2>1, <2>3, <2>4, SteadyKeeps DEF LifeInv
  <2>6. \A h \in Hosts : Occupants(h)' = Occupants(h) /\ Awaited(h)' = Awaited(h)
    BY <2>1 DEF Occupants, Awaited
  <2>7. CountInv'
    BY <2>1, <2>6, SameCounts
  <2>. QED  BY <2>2, <2>5, <2>7 DEF ThreadsInv
<1>. QED  BY <1>1, <1>2, <1>3 DEF TNext

\* local_running_ and local_pending_ count what they are meant to count and
\* respect their limits, for any hosts, threads, placements and limits.
THEOREM CountersAreExact == TSpec => []CountersExact
<1>1. ASSUME ThreadsInv PROVE CountersExact
  BY <1>1 DEF ThreadsInv, CountInv, CountersExact, Counts, Occupants, Awaited
<1>. QED  BY <1>1, ThreadsStart, ThreadsStep, PTL DEF TSpec

\* A record is completed, and Join returns, with what the thread really ended
\* with, whatever is refused or overtaken on the way.
THEOREM ResultsAreDelivered == TSpec => []ResultDelivered
<1>1. ASSUME ThreadsInv PROVE ResultDelivered
  BY <1>1 DEF ThreadsInv, LifeInv, ResultOK, ResultDelivered
<1>. QED  BY <1>1, ThreadsStart, ThreadsStep, PTL DEF TSpec

=============================================================================
