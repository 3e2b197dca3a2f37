----------------------------- MODULE SpscQueue -----------------------------
(***************************************************************************)
(* One shared-memory ring between a producer and a consumer host           *)
(* (src/loommem/queue.cpp), at the grain of its stores and loads.  A       *)
(* message occupies two words of a slot, its header and its payload, so    *)
(* that a half-written slot can be told from a whole one.  Every store     *)
(* that another host reads is a release store after PublishData and every  *)
(* load of one an acquire load after AcquireData, so the steps of the two  *)
(* hosts interleave in program order.                                      *)
(*                                                                         *)
(* producer_mutex_ makes Push exclusive on its host and only the poller    *)
(* thread calls TryPop: one producer and one consumer.                     *)
(***************************************************************************)
EXTENDS Integers, Sequences

CONSTANTS
  Messages,   \* what may be sent
  Capacity,   \* identity.capacity_entries
  MaxPushes   \* bound: pushes that a behaviour may start

ASSUME CapacityAssumption == Capacity \in Nat \ {0}
ASSUME MaxPushesAssumption == MaxPushes \in Nat
ASSUME MessagesAssumption == "nothing" \notin Messages

VARIABLES
  tail, head,   \* the shared cursors; they only grow
  slot,         \* slot[i]: sequence, header, payload
  ppc, item,    \* producer: next store of Push, and its message
  cpc, copy,    \* consumer: next step of TryPop, and the words it has copied
  got           \* the message the last successful TryPop returned

vars == <<tail, head, slot, ppc, item, cpc, copy, got>>

Indices == 0 .. Capacity - 1
Word == Messages \cup {"nothing"}

Init ==
  /\ tail = 0 /\ head = 0
  /\ slot = [i \in Indices |-> [sequence |-> 0, header |-> "nothing", payload |-> "nothing"]]
  /\ ppc = "idle" /\ item = "nothing"
  /\ cpc = "idle" /\ copy = [header |-> "nothing", payload |-> "nothing"]
  /\ got = "nothing"

-----------------------------------------------------------------------------
(* Push.                                                                   *)

\* Push reads both cursors; a full queue refuses the message.
PushBegin(m) ==
  /\ ppc = "idle" /\ tail < MaxPushes
  /\ tail - head < Capacity
  /\ ppc' = "header"
  /\ item' = m
  /\ UNCHANGED <<tail, head, slot, cpc, copy, got>>

\* Mutant of PushHeader: the slot is published without its payload.
PushHeaderOnly ==
  /\ ppc = "header"
  /\ slot' = [slot EXCEPT ![tail % Capacity].header = item]
  /\ ppc' = "sequence"
  /\ UNCHANGED <<tail, head, item, cpc, copy, got>>

PushHeader ==
  /\ ppc = "header"
  /\ slot' = [slot EXCEPT ![tail % Capacity].header = item]
  /\ ppc' = "payload"
  /\ UNCHANGED <<tail, head, item, cpc, copy, got>>

PushPayload ==
  /\ ppc = "payload"
  /\ slot' = [slot EXCEPT ![tail % Capacity].payload = item]
  /\ ppc' = "sequence"
  /\ UNCHANGED <<tail, head, item, cpc, copy, got>>

PushSequence ==
  /\ ppc = "sequence"
  /\ slot' = [slot EXCEPT ![tail % Capacity].sequence = tail + 1]
  /\ ppc' = "tail"
  /\ UNCHANGED <<tail, head, item, cpc, copy, got>>

PushTail ==
  /\ ppc = "tail"
  /\ tail' = tail + 1
  /\ ppc' = "idle"
  /\ item' = "nothing"
  /\ UNCHANGED <<head, slot, cpc, copy, got>>

-----------------------------------------------------------------------------
(* TryPop.                                                                 *)

\* Mutant of PopBegin: an empty queue is not noticed.
PopBeginEmpty ==
  /\ cpc = "idle"
  /\ cpc' = "sequence"
  /\ UNCHANGED <<tail, head, slot, ppc, item, copy, got>>

\* TryPop reads both cursors; an empty queue answers at once.
PopBegin ==
  /\ cpc = "idle"
  /\ head # tail
  /\ cpc' = "sequence"
  /\ UNCHANGED <<tail, head, slot, ppc, item, copy, got>>

\* Mutant of PopSequence: the expected sequence number is one too small.
PopSequenceStale ==
  /\ cpc = "sequence"
  /\ cpc' = IF slot[head % Capacity].sequence = head THEN "header" ELSE "idle"
  /\ UNCHANGED <<tail, head, slot, ppc, item, copy, got>>

\* A slot whose sequence is not the expected one is not consumed.
PopSequence ==
  /\ cpc = "sequence"
  /\ cpc' = IF slot[head % Capacity].sequence = head + 1 THEN "header" ELSE "idle"
  /\ UNCHANGED <<tail, head, slot, ppc, item, copy, got>>

PopHeader ==
  /\ cpc = "header"
  /\ copy' = [copy EXCEPT !.header = slot[head % Capacity].header]
  /\ cpc' = "payload"
  /\ UNCHANGED <<tail, head, slot, ppc, item, got>>

PopPayload ==
  /\ cpc = "payload"
  /\ copy' = [copy EXCEPT !.payload = slot[head % Capacity].payload]
  /\ cpc' = "head"
  /\ UNCHANGED <<tail, head, slot, ppc, item, got>>

\* Both words agree unless the slot changed while it was copied.
PopHead ==
  /\ cpc = "head"
  /\ head' = head + 1
  /\ got' = IF copy.header = copy.payload THEN copy.header ELSE copy
  /\ copy' = [header |-> "nothing", payload |-> "nothing"]
  /\ cpc' = "idle"
  /\ UNCHANGED <<tail, slot, ppc, item>>

Producer ==
  \/ \E m \in Messages : PushBegin(m)
  \/ PushHeader \/ PushPayload \/ PushSequence \/ PushTail

Consumer == PopBegin \/ PopSequence \/ PopHeader \/ PopPayload \/ PopHead

Next == Producer \/ Consumer

Spec == Init /\ [][Next]_vars

-----------------------------------------------------------------------------
(* Properties.                                                             *)

\* The type invariant: cursors and slot sequences are naturals, and what
\* TryPop returns is made of words that some Push stored.
TypeOK ==
  /\ tail \in Nat /\ head \in Nat
  /\ slot \in [Indices -> [sequence : Nat, header : Word, payload : Word]]
  /\ ppc \in {"idle", "header", "payload", "sequence", "tail"} /\ item \in Word
  /\ cpc \in {"idle", "sequence", "header", "payload", "head"}
  /\ copy \in [header : Word, payload : Word]
  /\ got \in Word \cup [header : Word, payload : Word]

\* The producer never stores into the slot the consumer is copying, also when
\* the ring wraps around: the plain stores and loads never race.
NoSlotRace ==
  /\ TypeOK
  /\ ppc \in {"header", "payload", "sequence"} /\ cpc \in {"sequence", "header", "payload", "head"}
       => tail % Capacity # head % Capacity

\* Words of a message that only the producer or nobody has seen yet count as
\* not published; the queue is what lies between the cursors.
Fifo == INSTANCE Fifo WITH
          queue <- [n \in 1 .. tail - head |-> slot[(head + n - 1) % Capacity].header]

\* Push and TryPop implement a bounded FIFO of whole messages: nothing is
\* lost, duplicated, reordered or torn.
ImplementsFifo == Fifo!Spec

\* A popping consumer always finishes, and published messages are consumed:
\* the poller keeps scanning.
FairSpec == Spec /\ WF_vars(Consumer)

\* Every message that Push published is consumed by TryPop in the end.
EveryMessageConsumed == \A n \in 1 .. MaxPushes : tail >= n ~> head >= n

=============================================================================
