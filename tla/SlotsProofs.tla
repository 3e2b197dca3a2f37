---------------------------- MODULE SlotsProofs ----------------------------
(***************************************************************************)
(* Proofs about Slots, for every number of hosts, slots, addresses and     *)
(* reading threads: a reader inside a slot guard looks at a live           *)
(* descriptor, the reader counts are exact, and an operation reference     *)
(* pins its object.                                                        *)
(***************************************************************************)
EXTENDS Slots, FiniteSetTheorems, TLAPS

PCs == {"idle", "loaded", "counted", "guarded", "found", "admitted", "leaving", "using"}
LockSteps == {"unlocked", "claimed", "building", "built", "published", "freeing", "freed"}

ReaderType == [pc : PCs, slot : Slots \cup {None}, address : Addresses \cup {None},
               use : BOOLEAN, allow : BOOLEAN]

DescriptorType == [state : {"garbage", "allocated", "retiring"},
                   active : [Hosts -> Int], sealed : SUBSET Hosts]

\* The types of the records that TypeOK leaves open.
RecordsOK ==
  /\ reader \in [Readers -> ReaderType]
  /\ locked \in [step : LockSteps, slot : Slots \cup {None}, address : Addresses \cup {None}]

\* What the holder of the extent lock knows: its slot is its own; a new
\* object is not published before it is built; a dying one still is.
LockOK ==
  /\ locked.step = "unlocked" <=> locked.slot = None
  /\ locked.step \in {"building", "built", "freeing", "freed"} => locked.address \in Addresses
  /\ locked.step \in {"claimed", "building", "built"} => offset[locked.slot] = None
  /\ locked.step \in {"building", "built"} => \A s \in Slots : offset[s] # locked.address
  /\ locked.step = "built" => descriptor[locked.address] = Built
  /\ locked.step \in {"freeing", "freed"} =>
       /\ offset[locked.slot] = locked.address
       /\ locked.address = retiring /\ phase = "reclaimable"
  /\ locked.step = "freed" => descriptor[locked.address].state = "garbage"

\* No object has two slots.
OneSlot ==
  \A s, u \in Slots : offset[s] # None /\ offset[s] = offset[u] => s = u

\* A published object has a descriptor until Free returns its extents, and a
\* descriptor is published or about to be.
LiveOK ==
  /\ \A s \in Slots : /\ offset[s] # None
                      /\ ~ (locked.step = "freed" /\ locked.slot = s)
                      => descriptor[offset[s]].state # "garbage"
  /\ \A a \in Addresses : descriptor[a].state # "garbage" =>
       \/ \E s \in Slots : offset[s] = a
       \/ locked.step = "built" /\ locked.address = a

\* The retiring object stays published until it is freed.
RetireOK ==
  phase # "idle" => \E s \in Slots : offset[s] = retiring /\ retiring \in Addresses

Inside(s) == {t \in Readers : Counted(t) /\ reader[t].slot = s}

Referrers(a, h) ==
  {t \in Readers : Referring(t) /\ HostOf[t] = h /\ reader[t].address = a}

\* Where the readers are, and that their second look at the offset still holds.
ReadersOK ==
  \A t \in Readers :
    /\ reader[t].pc # "idle" => reader[t].slot \in Slots /\ reader[t].address \in Addresses
    /\ Guarded(t) => offset[reader[t].slot] = reader[t].address

\* The reader counts; the second part of ReadersExact.
CountsOK ==
  \A s \in Slots : IF locked.slot = s THEN readers[s] = Exclusive /\ Inside(s) = {}
                                      ELSE readers[s] = Cardinality(Inside(s))

\* References are to published objects that the holder's host has not sealed,
\* and none is left once the extents are returned.
ReferencesOK ==
  \A t \in Readers : Referring(t) =>
    /\ \E s \in Slots : offset[s] = reader[t].address
    /\ ~ (locked.step = "freed" /\ locked.address = reader[t].address)
    /\ HostOf[t] \notin descriptor[reader[t].address].sealed

\* The operation counts of published objects are exact.
ActiveOK ==
  \A s \in Slots : offset[s] # None => \A h \in Hosts :
    descriptor[offset[s]].active[h] = Cardinality(Referrers(offset[s], h))

\* The inductive invariant.
SlotsInv ==
  /\ TypeOK /\ RecordsOK
  /\ LockOK /\ OneSlot /\ LiveOK /\ RetireOK
  /\ ReadersOK /\ CountsOK /\ ReferencesOK /\ ActiveOK

-----------------------------------------------------------------------------
(* Helpers: what the steps of a reader change.                             *)

\* The sets that are counted are finite.
LEMMA CountedSetsFinite ==
  /\ \A s : IsFiniteSet(Inside(s)) /\ Cardinality(Inside(s)) \in Nat
  /\ \A a, h : IsFiniteSet(Referrers(a, h)) /\ Cardinality(Referrers(a, h)) \in Nat
<1>1. ASSUME NEW s PROVE IsFiniteSet(Inside(s)) /\ Cardinality(Inside(s)) \in Nat
  <2>1. Inside(s) \in SUBSET Readers
    BY DEF Inside
  <2>2. IsFiniteSet(Inside(s))
    BY <2>1, ReadersAssumption, FS_Subset
  <2>. QED  BY <2>2, FS_CardinalityType
<1>2. ASSUME NEW a, NEW h
      PROVE  IsFiniteSet(Referrers(a, h)) /\ Cardinality(Referrers(a, h)) \in Nat
  <2>1. Referrers(a, h) \in SUBSET Readers
    BY DEF Referrers
  <2>2. IsFiniteSet(Referrers(a, h))
    BY <2>1, ReadersAssumption, FS_Subset
  <2>. QED  BY <2>2, FS_CardinalityType
<1>. QED  BY <1>1, <1>2

\* Goto moves one reader and leaves what it looks for alone.
LEMMA GotoEffect ==
  ASSUME RecordsOK, NEW t \in Readers, NEW pc \in PCs, Goto(t, pc)
  PROVE  /\ reader' \in [Readers -> ReaderType]
         /\ reader'[t].pc = pc
         /\ reader'[t].slot = reader[t].slot /\ reader'[t].address = reader[t].address
         /\ \A u \in Readers : u # t => reader'[u] = reader[u]
BY DEF RecordsOK, Goto, ReaderType

\* Rest ends the attempt of one reader.
LEMMA RestEffect ==
  ASSUME RecordsOK, NEW t \in Readers, Rest(t)
  PROVE  /\ reader' \in [Readers -> ReaderType]
         /\ reader'[t].pc = "idle"
         /\ \A u \in Readers : u # t => reader'[u] = reader[u]
BY DEF RecordsOK, Rest, Resting, ReaderType, PCs

\* A step of one reader that does not count it in or out of a slot.
LEMMA InsideFrame ==
  ASSUME NEW t \in Readers, \A u \in Readers : u # t => reader'[u] = reader[u],
         Counted(t)' <=> Counted(t),
         Counted(t) => reader'[t].slot = reader[t].slot
  PROVE  \A s : Inside(s)' = Inside(s)
BY DEF Inside, Counted

\* A step of one reader that neither takes nor drops a reference.
LEMMA ReferrersFrame ==
  ASSUME NEW t \in Readers, \A u \in Readers : u # t => reader'[u] = reader[u],
         Referring(t)' <=> Referring(t),
         Referring(t) => reader'[t].address = reader[t].address
  PROVE  \A a, h : Referrers(a, h)' = Referrers(a, h)
BY DEF Referrers, Referring

\* What the allocator relies on is not disturbed by a step that changes no
\* state word, no seal, no offset and nothing of the lock holder.
LEMMA AllocatorFrame ==
  ASSUME SlotsInv, UNCHANGED <<offset, locked, phase, retiring>>,
         \A a \in Addresses : /\ descriptor'[a].state = descriptor[a].state
                              /\ descriptor'[a].sealed = descriptor[a].sealed,
         locked.step = "built" => descriptor'[locked.address] = descriptor[locked.address]
  PROVE  LockOK' /\ OneSlot' /\ LiveOK' /\ RetireOK'
<1>1. LockOK'
  BY DEF SlotsInv, LockOK
<1>2. OneSlot' /\ RetireOK'
  BY DEF SlotsInv, OneSlot, RetireOK
<1>3. LiveOK'
  BY NoneAssumption DEF SlotsInv, LiveOK, TypeOK
<1>. QED  BY <1>1, <1>2, <1>3

-----------------------------------------------------------------------------
(* The readers' steps.                                                     *)

\* A step that only moves a reader, inside or outside its slot, preserves the
\* invariant if what the reader then claims to know is true.
LEMMA ReaderMoves ==
  ASSUME SlotsInv, NEW t \in Readers, UNCHANGED <<offset, readers, descriptor, allocator>>,
         reader' \in [Readers -> ReaderType],
         \A u \in Readers : u # t => reader'[u] = reader[u],
         reader'[t].pc # "idle" => reader'[t].slot \in Slots /\ reader'[t].address \in Addresses,
         Guarded(t)' => offset[reader'[t].slot] = reader'[t].address,
         Counted(t)' <=> Counted(t),
         Counted(t) => reader'[t].slot = reader[t].slot,
         ~ Referring(t), ~ Referring(t)'
  PROVE  SlotsInv'
<1>1. TypeOK' /\ RecordsOK'
  BY DEF SlotsInv, TypeOK, RecordsOK, ReaderType, allocator
<1>2. LockOK' /\ OneSlot' /\ LiveOK' /\ RetireOK'
  BY AllocatorFrame DEF allocator
<1>3. ReadersOK'
  BY DEF SlotsInv, ReadersOK, Guarded
<1>4. \A s : Inside(s)' = Inside(s)
  BY InsideFrame
<1>5. CountsOK'
  BY <1>4 DEF SlotsInv, CountsOK, allocator
<1>6. \A a, h : Referrers(a, h)' = Referrers(a, h)
  BY ReferrersFrame
<1>7. ReferencesOK'
  BY DEF SlotsInv, ReferencesOK, Referring, allocator
<1>8. ActiveOK'
  BY <1>6 DEF SlotsInv, ActiveOK
<1>. QED  BY <1>1, <1>2, <1>3, <1>5, <1>7, <1>8 DEF SlotsInv

\* LockAllocationSlot finds the address.
LEMMA LoadKeeps ==
  ASSUME SlotsInv, NEW t \in Readers, NEW s \in Slots,
         NEW use \in BOOLEAN, NEW allow \in BOOLEAN, Load(t, s, use, allow)
  PROVE  SlotsInv'
<1>1. /\ reader' \in [Readers -> ReaderType]
      /\ reader'[t].pc = "loaded" /\ reader'[t].slot = s /\ reader'[t].address = offset[s]
      /\ \A u \in Readers : u # t => reader'[u] = reader[u]
      /\ offset[s] \in Addresses
  BY DEF SlotsInv, TypeOK, RecordsOK, ReaderType, PCs, Load
<1>2. reader[t].pc = "idle" /\ UNCHANGED <<offset, readers, descriptor, allocator>>
  BY DEF Load, At
<1>3. /\ ~ Counted(t) /\ ~ Counted(t)' /\ ~ Referring(t) /\ ~ Referring(t)' /\ ~ Guarded(t)'
  BY <1>1, <1>2 DEF Counted, Referring, Guarded
<1>. QED  BY <1>1, <1>2, <1>3, ReaderMoves

\* The second look at the offset.
LEMMA RecheckKeeps ==
  ASSUME SlotsInv, NEW t \in Readers, Recheck(t)
  PROVE  SlotsInv'
<1>1. PICK pc \in PCs : /\ pc = IF offset[reader[t].slot] = reader[t].address THEN "guarded" ELSE "leaving"
                        /\ Goto(t, pc)
  BY DEF Recheck, PCs
<1>2. /\ reader' \in [Readers -> ReaderType]
      /\ reader'[t].pc = pc
      /\ reader'[t].slot = reader[t].slot /\ reader'[t].address = reader[t].address
      /\ \A u \in Readers : u # t => reader'[u] = reader[u]
  BY <1>1, GotoEffect DEF SlotsInv
<1>3. reader[t].pc = "counted" /\ UNCHANGED <<offset, readers, descriptor, allocator>>
  BY DEF Recheck, At
<1>4. /\ Counted(t) /\ Counted(t)' /\ ~ Referring(t) /\ ~ Referring(t)'
      /\ Guarded(t)' => offset[reader'[t].slot] = reader'[t].address
      /\ reader[t].slot \in Slots /\ reader[t].address \in Addresses
  BY <1>1, <1>2, <1>3 DEF Counted, Referring, Guarded, SlotsInv, ReadersOK
<1>. QED  BY <1>2, <1>3, <1>4, ReaderMoves

\* FindDescriptorLocked.
LEMMA FindKeeps ==
  ASSUME SlotsInv, NEW t \in Readers, Find(t)
  PROVE  SlotsInv'
<1>1. PICK pc \in {"found", "leaving"} : Goto(t, pc)
  BY DEF Find
<1>2. /\ reader' \in [Readers -> ReaderType]
      /\ reader'[t].pc = pc
      /\ reader'[t].slot = reader[t].slot /\ reader'[t].address = reader[t].address
      /\ \A u \in Readers : u # t => reader'[u] = reader[u]
  BY <1>1, GotoEffect DEF SlotsInv, PCs
<1>3. reader[t].pc = "guarded" /\ UNCHANGED <<offset, readers, descriptor, allocator>>
  BY DEF Find, At
<1>4. /\ Counted(t) /\ Counted(t)' /\ ~ Referring(t) /\ ~ Referring(t)'
      /\ Guarded(t)' => offset[reader'[t].slot] = reader'[t].address
      /\ reader[t].slot \in Slots /\ reader[t].address \in Addresses
  BY <1>1, <1>2, <1>3 DEF Counted, Referring, Guarded, SlotsInv, ReadersOK
<1>. QED  BY <1>2, <1>3, <1>4, ReaderMoves

\* The compare-and-swap that counts a reader in, or finds the slot exclusive.
LEMMA CountInKeeps ==
  ASSUME SlotsInv, NEW t \in Readers, CountIn(t)
  PROVE  SlotsInv'
<1>1. /\ reader[t].pc = "loaded" /\ UNCHANGED <<offset, descriptor, allocator>>
      /\ reader[t].slot \in Slots /\ reader[t].address \in Addresses
      /\ ~ Counted(t) /\ ~ Referring(t)
  BY DEF CountIn, At, SlotsInv, ReadersOK, Counted, Referring
<1>2. CASE readers[reader[t].slot] = Exclusive
  <2>1. Rest(t) /\ UNCHANGED readers
    BY <1>2 DEF CountIn
  <2>2. /\ reader' \in [Readers -> ReaderType] /\ reader'[t].pc = "idle"
        /\ \A u \in Readers : u # t => reader'[u] = reader[u]
    BY <2>1, RestEffect DEF SlotsInv
  <2>3. ~ Counted(t)' /\ ~ Referring(t)' /\ ~ Guarded(t)'
    BY <2>2 DEF Counted, Referring, Guarded
  <2>. QED  BY <1>1, <2>1, <2>2, <2>3, ReaderMoves
<1>3. CASE readers[reader[t].slot] # Exclusive
  <2>1. Goto(t, "counted") /\ Count(reader[t].slot, 1)
    BY <1>3 DEF CountIn
  <2>2. /\ reader' \in [Readers -> ReaderType] /\ reader'[t].pc = "counted"
        /\ reader'[t].slot = reader[t].slot /\ reader'[t].address = reader[t].address
        /\ \A u \in Readers : u # t => reader'[u] = reader[u]
    BY <2>1, GotoEffect DEF SlotsInv, PCs
  <2>3. Counted(t)' /\ ~ Referring(t)' /\ ~ Guarded(t)'
    BY <2>2 DEF Counted, Referring, Guarded
  <2>4. /\ locked.slot # reader[t].slot
        /\ readers[reader[t].slot] = Cardinality(Inside(reader[t].slot))
        /\ readers[reader[t].slot] \in Nat
    BY <1>1, <1>3, CountedSetsFinite DEF SlotsInv, CountsOK
  <2>5. readers' = [readers EXCEPT ![reader[t].slot] = @ + 1]
    BY <2>1 DEF Count
  <2>6. TypeOK' /\ RecordsOK'
    BY <1>1, <2>2, <2>4, <2>5 DEF SlotsInv, TypeOK, RecordsOK, ReaderType, allocator
  <2>7. LockOK' /\ OneSlot' /\ LiveOK' /\ RetireOK'
    BY <1>1, AllocatorFrame DEF allocator
  <2>8. ReadersOK'
    BY <1>1, <2>2, <2>3 DEF SlotsInv, ReadersOK, Guarded
  <2>9. CountsOK'
    <3>. SUFFICES ASSUME NEW s \in Slots
                  PROVE  IF locked.slot = s THEN readers'[s] = Exclusive /\ Inside(s)' = {}
                                            ELSE readers'[s] = Cardinality(Inside(s)')
      BY <1>1 DEF CountsOK, allocator
    <3>1. CASE s = reader[t].slot
      <4>1. Inside(s)' = Inside(s) \cup {t} /\ t \notin Inside(s)
        BY <1>1, <2>2, <2>3, <3>1 DEF Inside, Counted
      <4>2. Cardinality(Inside(s)') = Cardinality(Inside(s)) + 1
        BY <4>1, CountedSetsFinite, FS_AddElement
      <4>3. readers'[s] = readers[s] + 1
        BY <2>5, <3>1 DEF SlotsInv, TypeOK
      <4>. QED  BY <2>4, <3>1, <4>2, <4>3
    <3>2. CASE s # reader[t].slot
      <4>1. Inside(s)' = Inside(s)
        BY <1>1, <2>2, <3>2 DEF Inside, Counted
      <4>2. readers'[s] = readers[s]
        BY <2>5, <3>2 DEF SlotsInv, TypeOK
      <4>. QED  BY <4>1, <4>2 DEF SlotsInv, CountsOK
    <3>. QED  BY <3>1, <3>2
  <2>10. ReferencesOK'
    BY <1>1, <2>2, <2>3 DEF SlotsInv, ReferencesOK, Referring, allocator
  <2>11. \A a, h : Referrers(a, h)' = Referrers(a, h)
    BY <1>1, <2>2, <2>3, ReferrersFrame
  <2>12. ActiveOK'
    BY <1>1, <2>11 DEF SlotsInv, ActiveOK
  <2>. QED  BY <2>6, <2>7, <2>8, <2>9, <2>10, <2>12 DEF SlotsInv
<1>. QED  BY <1>2, <1>3

\* ~SlotGuard, with or without a reference.
LEMMA LeaveKeeps ==
  ASSUME SlotsInv, NEW t \in Readers, Leave(t)
  PROVE  SlotsInv'
<1>1. /\ reader[t].pc \in {"admitted", "leaving"} /\ UNCHANGED <<offset, descriptor, allocator>>
      /\ reader[t].slot \in Slots /\ reader[t].address \in Addresses
      /\ Counted(t)
      /\ readers' = [readers EXCEPT ![reader[t].slot] = @ - 1]
  BY DEF Leave, Count, At, SlotsInv, ReadersOK, Counted
<1>2. /\ reader' \in [Readers -> ReaderType]
      /\ \A u \in Readers : u # t => reader'[u] = reader[u]
      /\ reader[t].pc = "admitted" => /\ reader'[t].pc = "using"
                                      /\ reader'[t].slot = reader[t].slot
                                      /\ reader'[t].address = reader[t].address
      /\ reader[t].pc = "leaving" => reader'[t].pc = "idle"
  BY GotoEffect, RestEffect DEF Leave, At, SlotsInv, PCs
<1>3. /\ ~ Counted(t)' /\ ~ Guarded(t)'
      /\ Referring(t)' <=> Referring(t)
      /\ Referring(t) => reader'[t].address = reader[t].address
  BY <1>1, <1>2 DEF Counted, Referring, Guarded
<1>4. /\ t \in Inside(reader[t].slot)
      /\ locked.slot # reader[t].slot
      /\ readers[reader[t].slot] = Cardinality(Inside(reader[t].slot))
  BY <1>1 DEF SlotsInv, CountsOK, Inside
<1>5. TypeOK' /\ RecordsOK'
  <2>1. Cardinality(Inside(reader[t].slot)) \in Nat \ {0}
    BY <1>4, CountedSetsFinite, FS_EmptySet
  <2>2. readers' \in [Slots -> Nat \cup {Exclusive}]
    <3>1. readers[reader[t].slot] - 1 \in Nat
      BY <1>4, <2>1
    <3>. QED  BY <1>1, <3>1 DEF SlotsInv, TypeOK
  <2>. QED  BY <1>1, <1>2, <2>2 DEF SlotsInv, TypeOK, RecordsOK, ReaderType, allocator
<1>6. LockOK' /\ OneSlot' /\ LiveOK' /\ RetireOK'
  BY <1>1, AllocatorFrame DEF allocator
<1>7. ReadersOK'
  BY <1>1, <1>2, <1>3 DEF SlotsInv, ReadersOK, Guarded
<1>8. CountsOK'
  <2>. SUFFICES ASSUME NEW s \in Slots
                PROVE  IF locked.slot = s THEN readers'[s] = Exclusive /\ Inside(s)' = {}
                                          ELSE readers'[s] = Cardinality(Inside(s)')
    BY <1>1 DEF CountsOK, allocator
  <2>1. CASE s = reader[t].slot
    <3>1. Inside(s)' = Inside(s) \ {t} /\ t \in Inside(s)
      BY <1>1, <1>2, <1>3, <2>1 DEF Inside, Counted
    <3>2. Cardinality(Inside(s)') = Cardinality(Inside(s)) - 1
      BY <3>1, CountedSetsFinite, FS_RemoveElement
    <3>3. readers'[s] = readers[s] - 1
      BY <1>1, <2>1 DEF SlotsInv, TypeOK
    <3>. QED  BY <1>4, <2>1, <3>2, <3>3
  <2>2. CASE s # reader[t].slot
    <3>1. Inside(s)' = Inside(s)
      BY <1>1, <1>2, <1>3, <2>2 DEF Inside, Counted
    <3>2. readers'[s] = readers[s]
      BY <1>1, <2>2 DEF SlotsInv, TypeOK
    <3>. QED  BY <3>1, <3>2 DEF SlotsInv, CountsOK
  <2>. QED  BY <2>1, <2>2
<1>9. ReferencesOK'
  BY <1>1, <1>2, <1>3 DEF SlotsInv, ReferencesOK, Referring, allocator
<1>10. \A a, h : Referrers(a, h)' = Referrers(a, h)
  BY <1>2, <1>3, ReferrersFrame
<1>11. ActiveOK'
  BY <1>1, <1>10 DEF SlotsInv, ActiveOK
<1>. QED  BY <1>5, <1>6, <1>7, <1>8, <1>9, <1>11 DEF SlotsInv

\* An operation count is stored.
StoreActive(a, h, n) == descriptor' = [descriptor EXCEPT ![a].active[h] = n]

\* Storing an operation count changes nothing else of any descriptor.
LEMMA ActiveEffect ==
  ASSUME SlotsInv, NEW a \in Addresses, NEW h \in Hosts, NEW n \in Int,
         StoreActive(a, h, n)
  PROVE  /\ descriptor' \in [Addresses -> DescriptorType]
         /\ \A b \in Addresses : /\ descriptor'[b].state = descriptor[b].state
                                 /\ descriptor'[b].sealed = descriptor[b].sealed
                                 /\ b # a => descriptor'[b] = descriptor[b]
         /\ descriptor'[a].active[h] = n
         /\ \A k \in Hosts : k # h => descriptor'[a].active[k] = descriptor[a].active[k]
<1>1. /\ descriptor \in [Addresses -> DescriptorType]
      /\ descriptor[a] \in DescriptorType /\ descriptor[a].active \in [Hosts -> Int]
  BY DEF SlotsInv, TypeOK, DescriptorType
<1>2. [descriptor[a].active EXCEPT ![h] = n] \in [Hosts -> Int]
  BY <1>1
<1>3. [descriptor[a] EXCEPT !.active = [descriptor[a].active EXCEPT ![h] = n]] \in DescriptorType
  BY <1>1, <1>2 DEF DescriptorType
<1>4. descriptor' = [descriptor EXCEPT ![a] =
                       [descriptor[a] EXCEPT !.active = [descriptor[a].active EXCEPT ![h] = n]]]
  BY DEF StoreActive
<1>5. descriptor' \in [Addresses -> DescriptorType]
  BY <1>1, <1>3, <1>4
<1>6. \A b \in Addresses : b # a => descriptor'[b] = descriptor[b]
  BY <1>1, <1>4
<1>7. descriptor'[a].state = descriptor[a].state /\ descriptor'[a].sealed = descriptor[a].sealed
  BY <1>1, <1>4 DEF DescriptorType
<1>8. /\ descriptor'[a].active[h] = n
      /\ \A k \in Hosts : k # h => descriptor'[a].active[k] = descriptor[a].active[k]
  BY <1>1, <1>4 DEF DescriptorType
<1>. QED  BY <1>5, <1>6, <1>7, <1>8

\* An object that a slot names is not the one under construction.
LEMMA PublishedNotBuilt ==
  ASSUME SlotsInv, NEW s \in Slots, offset[s] # None
  PROVE  locked.step = "built" => locked.address # offset[s]
BY DEF SlotsInv, LockOK

\* AcquireReference counts the operation, or the caller goes without.
LEMMA AdmitKeeps ==
  ASSUME SlotsInv, NEW t \in Readers, Admit(t)
  PROVE  SlotsInv'
<1>. DEFINE a == reader[t].address
            s0 == reader[t].slot
            admitted == reader[t].use /\ Accessible(t) /\ HostOf[t] \notin descriptor[a].sealed
<1>1. /\ reader[t].pc = "found" /\ UNCHANGED <<offset, readers, allocator>>
      /\ s0 \in Slots /\ a \in Addresses /\ offset[s0] = a
      /\ Counted(t) /\ ~ Referring(t) /\ Guarded(t)
      /\ HostOf[t] \in Hosts
  BY ReadersAssumption DEF Admit, Enter, At, SlotsInv, ReadersOK, Counted, Referring, Guarded
<1>2. CASE ~ admitted
  <2>1. Goto(t, "leaving") /\ UNCHANGED descriptor
    BY <1>2 DEF Admit, Enter
  <2>2. /\ reader' \in [Readers -> ReaderType] /\ reader'[t].pc = "leaving"
        /\ reader'[t].slot = reader[t].slot /\ reader'[t].address = reader[t].address
        /\ \A u \in Readers : u # t => reader'[u] = reader[u]
    BY <2>1, GotoEffect DEF SlotsInv, PCs
  <2>3. Counted(t)' /\ ~ Referring(t)' /\ ~ Guarded(t)'
    BY <2>2 DEF Counted, Referring, Guarded
  <2>. QED  BY <1>1, <2>1, <2>2, <2>3, ReaderMoves
<1>3. CASE admitted
  <2>1. /\ Goto(t, "admitted")
        /\ descriptor' = [descriptor EXCEPT ![a].active[HostOf[t]] = @ + 1]
        /\ HostOf[t] \notin descriptor[a].sealed
    BY <1>3 DEF Admit, Enter
  <2>2. /\ reader' \in [Readers -> ReaderType] /\ reader'[t].pc = "admitted"
        /\ reader'[t].slot = reader[t].slot /\ reader'[t].address = reader[t].address
        /\ \A u \in Readers : u # t => reader'[u] = reader[u]
    BY <2>1, GotoEffect DEF SlotsInv, PCs
  <2>3. Counted(t)' /\ Referring(t)' /\ Guarded(t)'
    BY <2>2 DEF Counted, Referring, Guarded
  <2>4. /\ descriptor' \in [Addresses -> DescriptorType]
        /\ \A b \in Addresses : /\ descriptor'[b].state = descriptor[b].state
                                /\ descriptor'[b].sealed = descriptor[b].sealed
                                /\ b # a => descriptor'[b] = descriptor[b]
        /\ descriptor'[a].active[HostOf[t]] = descriptor[a].active[HostOf[t]] + 1
        /\ \A k \in Hosts : k # HostOf[t] => descriptor'[a].active[k] = descriptor[a].active[k]
    <3>1. PICK n \in Int : n = descriptor[a].active[HostOf[t]] + 1
      BY <1>1 DEF SlotsInv, TypeOK
    <3>2. StoreActive(a, HostOf[t], n)
      BY <2>1, <3>1 DEF StoreActive
    <3>. QED  BY <1>1, <3>1, <3>2, ActiveEffect
  <2>5. TypeOK' /\ RecordsOK'
    BY <1>1, <2>2, <2>4 DEF SlotsInv, TypeOK, RecordsOK, ReaderType, DescriptorType, allocator
  <2>6. LockOK' /\ OneSlot' /\ LiveOK' /\ RetireOK'
    <3>1. locked.step = "built" => locked.address # a /\ locked.address \in Addresses
      BY <1>1, NoneAssumption, PublishedNotBuilt DEF SlotsInv, LockOK
    <3>. QED  BY <1>1, <2>4, <3>1, AllocatorFrame DEF allocator
  <2>7. ReadersOK'
    BY <1>1, <2>2 DEF SlotsInv, ReadersOK, Guarded
  <2>8. \A s : Inside(s)' = Inside(s)
    BY <1>1, <2>2, <2>3, InsideFrame
  <2>9. CountsOK'
    BY <1>1, <2>8 DEF SlotsInv, CountsOK, allocator
  <2>10. ReferencesOK'
    <3>. SUFFICES ASSUME NEW u \in Readers, Referring(u)'
                  PROVE  /\ \E s \in Slots : offset[s] = reader'[u].address
                         /\ ~ (locked.step = "freed" /\ locked.address = reader'[u].address)
                         /\ HostOf[u] \notin descriptor'[reader'[u].address].sealed
      BY <1>1 DEF ReferencesOK, allocator
    <3>1. CASE u # t
      BY SMTT(60), <2>2, <2>4, <3>1 DEF SlotsInv, ReferencesOK, ReadersOK, Referring
    <3>2. CASE u = t
      <4>1. locked.slot # s0
        BY <1>1 DEF SlotsInv, CountsOK, Inside
      <4>2. ~ (locked.step = "freed" /\ locked.address = a)
        BY <1>1, <4>1, NoneAssumption DEF SlotsInv, LockOK, OneSlot, RecordsOK
      <4>. QED  BY <1>1, <2>1, <2>2, <2>4, <3>2, <4>2
    <3>. QED  BY <3>1, <3>2
  <2>11. ActiveOK'
    <3>. SUFFICES ASSUME NEW s \in Slots, offset[s] # None, NEW h \in Hosts
                  PROVE  descriptor'[offset[s]].active[h] = Cardinality(Referrers(offset[s], h)')
      BY <1>1 DEF ActiveOK, Referrers
    <3>1. offset[s] \in Addresses
      BY DEF SlotsInv, TypeOK
    <3>2. descriptor[offset[s]].active[h] = Cardinality(Referrers(offset[s], h))
      BY DEF SlotsInv, ActiveOK
    <3>3. CASE offset[s] = a /\ h = HostOf[t]
      <4>1. Referrers(offset[s], h)' = Referrers(offset[s], h) \cup {t} /\ t \notin Referrers(offset[s], h)
        BY <1>1, <2>2, <2>3, <3>3 DEF Referrers, Referring
      <4>2. Cardinality(Referrers(offset[s], h)') = Cardinality(Referrers(offset[s], h)) + 1
        BY <4>1, CountedSetsFinite, FS_AddElement
      <4>. QED  BY <2>4, <3>2, <3>3, <4>2
    <3>4. CASE ~ (offset[s] = a /\ h = HostOf[t])
      <4>1. Referrers(offset[s], h)' = Referrers(offset[s], h)
        BY <1>1, <2>2, <2>3, <3>4 DEF Referrers, Referring
      <4>. QED  BY <2>4, <3>1, <3>2, <3>4, <4>1
    <3>. QED  BY <3>3, <3>4
  <2>. QED  BY <2>5, <2>6, <2>7, <2>9, <2>10, <2>11 DEF SlotsInv
<1>. QED  BY <1>2, <1>3

\* The destructor of an operation reference.
LEMMA ReleaseKeeps ==
  ASSUME SlotsInv, NEW t \in Readers, ReleaseReference(t)
  PROVE  SlotsInv'
<1>. DEFINE a == reader[t].address
<1>1. /\ reader[t].pc = "using" /\ UNCHANGED <<offset, readers, allocator>>
      /\ a \in Addresses /\ HostOf[t] \in Hosts
      /\ ~ Counted(t) /\ Referring(t)
      /\ descriptor' = [descriptor EXCEPT ![a].active[HostOf[t]] = @ - 1]
  BY ReadersAssumption DEF ReleaseReference, At, SlotsInv, ReadersOK, Counted, Referring
<1>2. /\ reader' \in [Readers -> ReaderType] /\ reader'[t].pc = "idle"
      /\ \A u \in Readers : u # t => reader'[u] = reader[u]
  BY RestEffect DEF ReleaseReference, SlotsInv
<1>3. ~ Counted(t)' /\ ~ Referring(t)' /\ ~ Guarded(t)'
  BY <1>2 DEF Counted, Referring, Guarded
<1>4. /\ descriptor' \in [Addresses -> DescriptorType]
      /\ \A b \in Addresses : /\ descriptor'[b].state = descriptor[b].state
                              /\ descriptor'[b].sealed = descriptor[b].sealed
                              /\ b # a => descriptor'[b] = descriptor[b]
      /\ descriptor'[a].active[HostOf[t]] = descriptor[a].active[HostOf[t]] - 1
      /\ \A k \in Hosts : k # HostOf[t] => descriptor'[a].active[k] = descriptor[a].active[k]
  <2>1. PICK n \in Int : n = descriptor[a].active[HostOf[t]] - 1
    BY <1>1 DEF SlotsInv, TypeOK
  <2>2. StoreActive(a, HostOf[t], n)
    BY <1>1, <2>1 DEF StoreActive
  <2>3. a \in Addresses /\ HostOf[t] \in Hosts
    BY SMTT(60), <1>1
  <2>. QED  BY <2>1, <2>2, <2>3, ActiveEffect
<1>5. TypeOK' /\ RecordsOK'
  BY ZenonT(60), <1>1, <1>2, <1>4 DEF SlotsInv, TypeOK, RecordsOK, ReaderType, DescriptorType, allocator
<1>6. LockOK' /\ OneSlot' /\ LiveOK' /\ RetireOK'
  <2>1. locked.step = "built" => locked.address # a /\ locked.address \in Addresses
    BY <1>1, NoneAssumption, PublishedNotBuilt DEF SlotsInv, LockOK, ReferencesOK
  <2>. QED  BY <1>1, <1>4, <2>1, AllocatorFrame DEF allocator
<1>7. ReadersOK'
  BY <1>1, <1>2, <1>3 DEF SlotsInv, ReadersOK, Guarded
<1>8. \A s : Inside(s)' = Inside(s)
  BY <1>1, <1>2, <1>3, InsideFrame
<1>9. CountsOK'
  BY <1>1, <1>8 DEF SlotsInv, CountsOK, allocator
<1>10. ReferencesOK'
  <2>. SUFFICES ASSUME NEW u \in Readers, u # t, Referring(u)
                PROVE  /\ \E s \in Slots : offset[s] = reader[u].address
                       /\ ~ (locked.step = "freed" /\ locked.address = reader[u].address)
                       /\ HostOf[u] \notin descriptor'[reader[u].address].sealed
    BY <1>1, <1>2, <1>3 DEF ReferencesOK, Referring, allocator
  <2>. QED  BY <1>4 DEF SlotsInv, ReferencesOK, ReadersOK, Referring
<1>11. ActiveOK'
  <2>. SUFFICES ASSUME NEW s \in Slots, offset[s] # None, NEW h \in Hosts
                PROVE  descriptor'[offset[s]].active[h] = Cardinality(Referrers(offset[s], h)')
    BY <1>1 DEF ActiveOK, Referrers
  <2>1. offset[s] \in Addresses
    BY DEF SlotsInv, TypeOK
  <2>2. descriptor[offset[s]].active[h] = Cardinality(Referrers(offset[s], h))
    BY DEF SlotsInv, ActiveOK
  <2>3. CASE offset[s] = a /\ h = HostOf[t]
    <3>1. Referrers(offset[s], h)' = Referrers(offset[s], h) \ {t} /\ t \in Referrers(offset[s], h)
      BY <1>1, <1>2, <1>3, <2>3 DEF Referrers, Referring
    <3>2. Cardinality(Referrers(offset[s], h)') = Cardinality(Referrers(offset[s], h)) - 1
      BY ZenonT(60), <3>1, CountedSetsFinite, FS_RemoveElement
    <3>. QED  BY <1>4, <2>2, <2>3, <3>2
  <2>4. CASE ~ (offset[s] = a /\ h = HostOf[t])
    <3>1. Referrers(offset[s], h)' = Referrers(offset[s], h)
      BY <1>1, <1>2, <1>3, <2>4 DEF Referrers, Referring
    <3>. QED  BY <1>4, <2>1, <2>2, <2>4, <3>1
  <2>. QED  BY <2>3, <2>4
<1>. QED  BY <1>5, <1>6, <1>7, <1>9, <1>10, <1>11 DEF SlotsInv

-----------------------------------------------------------------------------
(* The steps under the extent lock.                                        *)

\* The claim of a slot that nobody looks into.
LEMMA ClaimKeepsCounts ==
  ASSUME SlotsInv, NEW s \in Slots, Holding("unlocked"), Claim(s),
         locked'.slot = s, UNCHANGED reader
  PROVE  CountsOK' /\ readers' \in [Slots -> Nat \cup {Exclusive}]
<1>1. /\ readers[s] = 0 /\ readers' = [readers EXCEPT ![s] = Exclusive]
      /\ readers \in [Slots -> Nat \cup {Exclusive}] /\ locked.slot = None
  BY DEF Claim, Holding, SlotsInv, TypeOK, LockOK
<1>2. \A u \in Slots : readers[u] = Cardinality(Inside(u)) /\ Inside(u)' = Inside(u)
  BY <1>1, NoneAssumption DEF SlotsInv, CountsOK, Inside, Counted
<1>3. Inside(s) = {}
  BY <1>1, <1>2, CountedSetsFinite, FS_EmptySet
<1>4. readers' \in [Slots -> Nat \cup {Exclusive}]
  BY <1>1
<1>5. ASSUME NEW u \in Slots
      PROVE  IF locked'.slot = u THEN readers'[u] = Exclusive /\ Inside(u)' = {}
                                 ELSE readers'[u] = Cardinality(Inside(u)')
  BY <1>1, <1>2, <1>3
<1>. QED  BY <1>4, <1>5 DEF CountsOK

\* Storing 0 into the count of the claimed slot.
LEMMA UnlockKeepsCounts ==
  ASSUME SlotsInv, ~ Holding("unlocked"), Unlock, UNCHANGED reader
  PROVE  CountsOK' /\ readers' \in [Slots -> Nat \cup {Exclusive}]
<1>1. /\ readers' = [readers EXCEPT ![locked.slot] = 0]
      /\ readers \in [Slots -> Nat \cup {Exclusive}]
      /\ locked.slot \in Slots /\ locked'.slot = None
  BY DEF Unlock, Unlocked, Holding, SlotsInv, TypeOK, LockOK
<1>2. \A u \in Slots : Inside(u)' = Inside(u)
  BY DEF Inside, Counted
<1>3. readers' \in [Slots -> Nat \cup {Exclusive}]
  BY <1>1
<1>4. ASSUME NEW u \in Slots PROVE readers'[u] = Cardinality(Inside(u)')
  BY <1>1, <1>2, FS_EmptySet DEF SlotsInv, CountsOK
<1>. QED  BY <1>1, <1>3, <1>4, NoneAssumption DEF CountsOK

\* Steps that keep the claimed slot keep the counts.
LEMMA HoldKeepsCounts ==
  ASSUME SlotsInv, locked'.slot = locked.slot, UNCHANGED <<readers, reader>>
  PROVE  CountsOK'
<1>1. \A u \in Slots : Inside(u)' = Inside(u)
  BY DEF Inside, Counted
<1>. QED  BY <1>1 DEF SlotsInv, CountsOK

\* Nobody is inside a claimed slot.
LEMMA NobodyInside ==
  ASSUME SlotsInv, NEW t \in Readers, Guarded(t)
  PROVE  reader[t].slot # locked.slot
BY DEF SlotsInv, CountsOK, ReadersOK, Inside, Counted, Guarded

\* An object with no operation counted has no referrers.
LEMMA NoReferrers ==
  ASSUME SlotsInv, NEW s \in Slots, offset[s] # None, NEW h \in Hosts,
         descriptor[offset[s]].active[h] = 0
  PROVE  Referrers(offset[s], h) = {}
BY CountedSetsFinite, FS_EmptySet DEF SlotsInv, ActiveOK


\* Allocate claims a slot that names no object.
LEMMA AllocateClaimKeeps ==
  ASSUME SlotsInv, NEW s \in Slots, AllocateClaim(s)
  PROVE  SlotsInv'
<1>1. /\ Holding("unlocked") /\ offset[s] = None /\ Claim(s)
      /\ locked' = [step |-> "claimed", slot |-> s, address |-> None]
      /\ UNCHANGED <<offset, descriptor, phase, retiring, reader>>
  BY DEF AllocateClaim
<1>2. CountsOK' /\ readers' \in [Slots -> Nat \cup {Exclusive}]
  BY <1>1, ClaimKeepsCounts
<1>3. TypeOK' /\ RecordsOK'
  BY <1>1, <1>2 DEF SlotsInv, TypeOK, RecordsOK, LockSteps
<1>4. LockOK' /\ OneSlot' /\ RetireOK'
  BY <1>1, NoneAssumption DEF SlotsInv, LockOK, OneSlot, RetireOK
<1>5. LiveOK'
  BY <1>1 DEF SlotsInv, LiveOK, Holding
<1>6. ReadersOK' /\ ReferencesOK' /\ ActiveOK'
  BY <1>1 DEF SlotsInv, ReadersOK, ReferencesOK, ActiveOK, Guarded, Referring, Referrers
<1>. QED  BY <1>2, <1>3, <1>4, <1>5, <1>6 DEF SlotsInv

\* The slot is opened, at the end of Allocate and of Free, and when they fail.
LEMMA UnlockKeeps ==
  ASSUME SlotsInv, AllocateFails \/ OpenSlot \/ FreeRefused
  PROVE  SlotsInv'
<1>1. /\ locked.step \in {"claimed", "published", "freeing"} /\ Unlock /\ locked' = Unlocked
      /\ UNCHANGED <<offset, descriptor, phase, retiring, reader>>
  BY DEF AllocateFails, OpenSlot, FreeRefused, Holding, Unlock
<1>2. CountsOK' /\ readers' \in [Slots -> Nat \cup {Exclusive}]
  BY <1>1, UnlockKeepsCounts DEF Holding
<1>3. TypeOK' /\ RecordsOK'
  BY <1>1, <1>2 DEF SlotsInv, TypeOK, RecordsOK, LockSteps, Unlocked
<1>4. LockOK' /\ OneSlot' /\ RetireOK'
  BY <1>1 DEF SlotsInv, LockOK, OneSlot, RetireOK, Unlocked
<1>5. LiveOK'
  BY <1>1 DEF SlotsInv, LiveOK, Unlocked
<1>6. ReadersOK' /\ ReferencesOK' /\ ActiveOK'
  BY <1>1 DEF SlotsInv, ReadersOK, ReferencesOK, ActiveOK, Guarded, Referring, Referrers, Unlocked
<1>. QED  BY <1>2, <1>3, <1>4, <1>5, <1>6 DEF SlotsInv

\* Descriptor memory that is not one, and a new descriptor, have their type.
LEMMA DescriptorTypes ==
  /\ Garbage \in DescriptorType /\ Built \in DescriptorType
  /\ Garbage.state = "garbage" /\ Built.state = "allocated"
  /\ \A h \in Hosts : Garbage.active[h] = 0 /\ Built.active[h] = 0
<1>1. Garbage \in DescriptorType
  BY DEF Garbage, DescriptorType
<1>. QED  BY <1>1 DEF Garbage, Built, DescriptorType

\* Writing the descriptor of an unpublished address disturbs nobody.
LEMMA BuildKeeps ==
  ASSUME SlotsInv, NEW a \in Addresses, NEW d \in DescriptorType, NEW step \in {"building", "built"},
         \A s \in Slots : offset[s] # a,
         locked.step \in {"claimed", "building"},
         locked.step = "building" => locked.address = a,
         descriptor' = [descriptor EXCEPT ![a] = d],
         locked' = [step |-> step, slot |-> locked.slot, address |-> a],
         step = "built" => d = Built,
         step = "building" => d = Garbage,
         UNCHANGED <<offset, readers, phase, retiring, reader>>
  PROVE  SlotsInv'
<1>1. /\ descriptor' \in [Addresses -> DescriptorType] /\ descriptor'[a] = d
      /\ \A b \in Addresses : b # a => descriptor'[b] = descriptor[b]
      /\ locked'.step = step /\ locked'.slot = locked.slot /\ locked'.address = a
  BY DEF SlotsInv, TypeOK, DescriptorType
<1>2. TypeOK' /\ RecordsOK'
  BY <1>1 DEF SlotsInv, TypeOK, RecordsOK, LockSteps, DescriptorType
<1>3. LockOK'
  BY <1>1 DEF SlotsInv, LockOK
<1>4. OneSlot' /\ RetireOK'
  BY DEF SlotsInv, OneSlot, RetireOK
<1>5. LiveOK'
  <2>1. ASSUME NEW s \in Slots, offset[s] # None PROVE descriptor'[offset[s]].state # "garbage"
    BY <1>1, <2>1 DEF SlotsInv, LiveOK, TypeOK
  <2>2. ASSUME NEW b \in Addresses, descriptor'[b].state # "garbage"
        PROVE  \/ \E s \in Slots : offset[s] = b
               \/ locked'.step = "built" /\ locked'.address = b
    BY <1>1, <2>2, DescriptorTypes DEF SlotsInv, LiveOK
  <2>. QED  BY <2>1, <2>2 DEF LiveOK
<1>6. ReadersOK' /\ CountsOK'
  BY <1>1, HoldKeepsCounts DEF SlotsInv, ReadersOK, Guarded
<1>7. ReferencesOK'
  BY <1>1 DEF SlotsInv, ReferencesOK, ReadersOK, Referring
<1>8. ActiveOK'
  <2>1. ASSUME NEW s \in Slots, offset[s] # None PROVE descriptor'[offset[s]] = descriptor[offset[s]]
    BY <1>1, <2>1 DEF SlotsInv, TypeOK
  <2>. QED  BY <2>1 DEF SlotsInv, ActiveOK, Referrers, Referring
<1>. QED  BY <1>2, <1>3, <1>4, <1>5, <1>6, <1>7, <1>8 DEF SlotsInv

\* Unused storage becomes an object.
LEMMA AllocateExtentsKeeps ==
  ASSUME SlotsInv, NEW a \in Addresses, AllocateExtents(a)
  PROVE  SlotsInv'
<1>1. locked' = [step |-> "building", slot |-> locked.slot, address |-> a]
  BY DEF AllocateExtents, SlotsInv, RecordsOK
<1>. QED  BY <1>1, BuildKeeps, DescriptorTypes DEF AllocateExtents, Holding

\* Its construction ends.
LEMMA AllocateBuiltKeeps ==
  ASSUME SlotsInv, AllocateBuilt
  PROVE  SlotsInv'
<1>1. /\ locked.step = "building" /\ locked.address \in Addresses
      /\ \A s \in Slots : offset[s] # locked.address
  BY DEF AllocateBuilt, Holding, SlotsInv, LockOK
<1>2. locked' = [step |-> "built", slot |-> locked.slot, address |-> locked.address]
  BY DEF AllocateBuilt, SlotsInv, RecordsOK
<1>. QED  BY <1>1, <1>2, BuildKeeps, DescriptorTypes DEF AllocateBuilt

\* The offset is published.
LEMMA AllocatePublishKeeps ==
  ASSUME SlotsInv, AllocatePublish
  PROVE  SlotsInv'
<1>1. /\ locked.step = "built" /\ locked.address \in Addresses /\ locked.slot \in Slots
      /\ \A s \in Slots : offset[s] # locked.address
      /\ offset[locked.slot] = None /\ descriptor[locked.address] = Built
  BY DEF AllocatePublish, Holding, SlotsInv, LockOK, TypeOK
<1>2. /\ offset' = [offset EXCEPT ![locked.slot] = locked.address]
      /\ UNCHANGED <<readers, descriptor, phase, retiring, reader>>
      /\ locked' = [step |-> "published", slot |-> locked.slot, address |-> locked.address]
  BY DEF AllocatePublish, SlotsInv, RecordsOK
<1>3. /\ offset' \in [Slots -> Addresses \cup {None}] /\ offset'[locked.slot] = locked.address
      /\ \A s \in Slots : s # locked.slot => offset'[s] = offset[s]
      /\ locked'.step = "published" /\ locked'.slot = locked.slot
  BY <1>1, <1>2 DEF SlotsInv, TypeOK
<1>4. TypeOK' /\ RecordsOK'
  BY <1>1, <1>2, <1>3 DEF SlotsInv, TypeOK, RecordsOK, LockSteps
<1>5. LockOK'
  BY <1>1, <1>3, NoneAssumption DEF LockOK
<1>6. OneSlot'
  BY <1>1, <1>3 DEF SlotsInv, OneSlot
<1>7. LiveOK' /\ RetireOK'
  <2>1. ASSUME NEW s \in Slots, offset'[s] # None PROVE descriptor[offset'[s]].state # "garbage"
    BY <1>1, <1>3, <2>1, DescriptorTypes DEF SlotsInv, LiveOK
  <2>2. ASSUME NEW b \in Addresses, \E s \in Slots : offset[s] = b
        PROVE  \E s \in Slots : offset'[s] = b
    BY <1>1, <1>3, <2>2, NoneAssumption
  <2>3. LiveOK'
    BY <1>1, <1>2, <1>3, <2>1, <2>2 DEF SlotsInv, LiveOK
  <2>4. RetireOK'
    BY <1>2, <2>2 DEF SlotsInv, RetireOK
  <2>. QED  BY <2>3, <2>4
<1>8. ReadersOK'
  BY <1>2, <1>3, NobodyInside DEF SlotsInv, ReadersOK, Guarded
<1>9. CountsOK'
  BY <1>2, <1>3, HoldKeepsCounts
<1>10. ReferencesOK'
  <2>. SUFFICES ASSUME NEW t \in Readers, Referring(t)
                PROVE  /\ \E s \in Slots : offset'[s] = reader[t].address
                       /\ HostOf[t] \notin descriptor[reader[t].address].sealed
    BY <1>2, <1>3 DEF ReferencesOK, Referring
  <2>. QED  BY <1>1, <1>3, NoneAssumption DEF SlotsInv, ReferencesOK, ReadersOK, Referring
<1>11. ActiveOK'
  <2>. SUFFICES ASSUME NEW s \in Slots, offset'[s] # None, NEW h \in Hosts
                PROVE  descriptor[offset'[s]].active[h] = Cardinality(Referrers(offset'[s], h))
    BY <1>2 DEF ActiveOK, Referrers, Referring
  <2>1. CASE s = locked.slot
    <3>1. Referrers(locked.address, h) = {}
      BY <1>1 DEF SlotsInv, ReferencesOK, Referrers
    <3>. QED  BY <1>1, <1>3, <2>1, <3>1, FS_EmptySet, DescriptorTypes
  <2>2. CASE s # locked.slot
    BY <1>3, <2>2 DEF SlotsInv, ActiveOK
  <2>. QED  BY <2>1, <2>2
<1>. QED  BY <1>4, <1>5, <1>6, <1>7, <1>8, <1>9, <1>10, <1>11 DEF SlotsInv


-----------------------------------------------------------------------------
(* Retirement and Free.                                                    *)

\* BeginRetire by the allocating host.
LEMMA BeginRetireKeeps ==
  ASSUME SlotsInv, NEW a \in Addresses, BeginRetire(a)
  PROVE  SlotsInv'
<1>1. /\ locked.step = "unlocked" /\ descriptor[a].state = "allocated"
      /\ phase' = "closing" /\ retiring' = a
      /\ descriptor' = [descriptor EXCEPT ![a].state = "retiring"]
      /\ UNCHANGED <<offset, readers, locked, reader>>
  BY DEF BeginRetire, Holding
<1>2. /\ descriptor' \in [Addresses -> DescriptorType] /\ descriptor'[a].state = "retiring"
      /\ \A b \in Addresses : /\ b # a => descriptor'[b] = descriptor[b]
                              /\ descriptor'[b].sealed = descriptor[b].sealed
                              /\ descriptor'[b].active = descriptor[b].active
  BY <1>1 DEF SlotsInv, TypeOK, DescriptorType
<1>3. PICK s \in Slots : offset[s] = a
  BY <1>1 DEF SlotsInv, LiveOK
<1>4. TypeOK' /\ RecordsOK'
  BY <1>1, <1>2 DEF SlotsInv, TypeOK, RecordsOK, DescriptorType
<1>5. LockOK' /\ OneSlot' /\ RetireOK'
  BY <1>1, <1>3 DEF SlotsInv, LockOK, OneSlot, RetireOK
<1>6. LiveOK'
  BY <1>1, <1>2, <1>3, NoneAssumption DEF SlotsInv, LiveOK, TypeOK
<1>7. ReadersOK' /\ CountsOK'
  BY <1>1, HoldKeepsCounts DEF SlotsInv, ReadersOK, Guarded
<1>8. ReferencesOK'
  BY <1>1, <1>2 DEF SlotsInv, ReferencesOK, ReadersOK, Referring
<1>9. ActiveOK'
  <2>1. ASSUME NEW u \in Slots, offset[u] # None
        PROVE  descriptor'[offset[u]].active = descriptor[offset[u]].active
    BY <1>2, <2>1 DEF SlotsInv, TypeOK
  <2>. QED  BY <1>1, <2>1 DEF SlotsInv, ActiveOK, Referrers, Referring
<1>. QED  BY <1>4, <1>5, <1>6, <1>7, <1>8, <1>9 DEF SlotsInv

\* A host that has no operation under way seals the object.
LEMMA CloseKeeps ==
  ASSUME SlotsInv, NEW h \in Hosts, Close(h)
  PROVE  SlotsInv'
<1>1. /\ locked.step = "unlocked" /\ phase = "closing"
      /\ descriptor[retiring].active[h] = 0
      /\ descriptor' = [descriptor EXCEPT ![retiring].sealed = @ \cup {h}]
      /\ UNCHANGED <<offset, readers, phase, retiring, locked, reader>>
  BY DEF Close, Holding, allocator
<1>2. PICK s \in Slots : offset[s] = retiring /\ retiring \in Addresses
  BY <1>1 DEF SlotsInv, RetireOK
<1>3. /\ descriptor' \in [Addresses -> DescriptorType]
      /\ descriptor'[retiring].sealed = descriptor[retiring].sealed \cup {h}
      /\ \A b \in Addresses : /\ b # retiring => descriptor'[b] = descriptor[b]
                              /\ descriptor'[b].state = descriptor[b].state
                              /\ descriptor'[b].active = descriptor[b].active
  BY <1>1, <1>2 DEF SlotsInv, TypeOK, DescriptorType
<1>4. TypeOK' /\ RecordsOK'
  BY <1>1, <1>3 DEF SlotsInv, TypeOK, RecordsOK, DescriptorType
<1>5. LockOK' /\ OneSlot' /\ RetireOK'
  BY <1>1 DEF SlotsInv, LockOK, OneSlot, RetireOK
<1>6. LiveOK'
  BY <1>1, <1>3 DEF SlotsInv, LiveOK, TypeOK
<1>7. ReadersOK' /\ CountsOK'
  BY <1>1, HoldKeepsCounts DEF SlotsInv, ReadersOK, Guarded
<1>8. ReferencesOK'
  <2>1. Referrers(retiring, h) = {}
    BY <1>1, <1>2, NoneAssumption, NoReferrers
  <2>2. ASSUME NEW t \in Readers, Referring(t)
        PROVE  HostOf[t] \notin descriptor'[reader[t].address].sealed
    <3>1. CASE reader[t].address # retiring
      BY <1>3, <2>2, <3>1 DEF SlotsInv, ReferencesOK, ReadersOK, Referring
    <3>2. CASE reader[t].address = retiring
      <4>1. HostOf[t] # h
        BY <2>1, <2>2, <3>2 DEF Referrers
      <4>2. HostOf[t] \notin descriptor[retiring].sealed
        BY <2>2, <3>2 DEF SlotsInv, ReferencesOK
      <4>. QED  BY <1>3, <3>2, <4>1, <4>2
    <3>. QED  BY <3>1, <3>2
  <2>. QED  BY <1>1, <2>2 DEF SlotsInv, ReferencesOK, Referring
<1>9. ActiveOK'
  <2>1. ASSUME NEW u \in Slots, offset[u] # None
        PROVE  descriptor'[offset[u]].active = descriptor[offset[u]].active
    BY <1>3, <2>1 DEF SlotsInv, TypeOK
  <2>. QED  BY <1>1, <2>1 DEF SlotsInv, ActiveOK, Referrers, Referring
<1>. QED  BY <1>4, <1>5, <1>6, <1>7, <1>8, <1>9 DEF SlotsInv

\* All hosts have closed.
LEMMA CertifyKeeps ==
  ASSUME SlotsInv, Certify
  PROVE  SlotsInv'
<1>1. /\ locked.step = "unlocked" /\ phase # "idle" /\ phase' = "reclaimable"
      /\ UNCHANGED <<offset, readers, descriptor, retiring, locked, reader>>
  BY DEF Certify, Holding
<1>2. TypeOK' /\ RecordsOK'
  BY <1>1 DEF SlotsInv, TypeOK, RecordsOK
<1>3. LockOK' /\ OneSlot' /\ LiveOK' /\ RetireOK'
  BY <1>1 DEF SlotsInv, LockOK, OneSlot, LiveOK, RetireOK
<1>4. ReadersOK' /\ CountsOK'
  BY <1>1, HoldKeepsCounts DEF SlotsInv, ReadersOK, Guarded
<1>5. ReferencesOK' /\ ActiveOK'
  BY <1>1 DEF SlotsInv, ReferencesOK, ActiveOK, Referrers, Referring
<1>. QED  BY <1>2, <1>3, <1>4, <1>5 DEF SlotsInv

\* Free turns the slot exclusive.
LEMMA FreeClaimKeeps ==
  ASSUME SlotsInv, NEW s \in Slots, FreeClaim(s)
  PROVE  SlotsInv'
<1>1. /\ Holding("unlocked") /\ phase = "reclaimable" /\ offset[s] = retiring /\ Claim(s)
      /\ locked' = [step |-> "freeing", slot |-> s, address |-> retiring]
      /\ UNCHANGED <<offset, descriptor, phase, retiring, reader>>
  BY DEF FreeClaim
<1>2. retiring \in Addresses
  BY <1>1 DEF SlotsInv, RetireOK
<1>3. CountsOK' /\ readers' \in [Slots -> Nat \cup {Exclusive}]
  BY <1>1, ClaimKeepsCounts
<1>4. TypeOK' /\ RecordsOK'
  BY <1>1, <1>2, <1>3 DEF SlotsInv, TypeOK, RecordsOK, LockSteps
<1>5. LockOK' /\ OneSlot' /\ RetireOK'
  BY <1>1, <1>2, NoneAssumption DEF SlotsInv, LockOK, OneSlot, RetireOK
<1>6. LiveOK'
  BY <1>1 DEF SlotsInv, LiveOK, Holding
<1>7. ReadersOK' /\ ReferencesOK' /\ ActiveOK'
  BY <1>1 DEF SlotsInv, ReadersOK, ReferencesOK, ActiveOK, Guarded, Referring, Referrers
<1>. QED  BY <1>3, <1>4, <1>5, <1>6, <1>7 DEF SlotsInv

\* The extents return to their pools.
LEMMA FreeReturnKeeps ==
  ASSUME SlotsInv, FreeReturn
  PROVE  SlotsInv'
<1>. DEFINE a == locked.address
<1>1. /\ locked.step = "freeing" /\ locked.slot \in Slots /\ a \in Addresses
      /\ offset[locked.slot] = a /\ a = retiring /\ phase = "reclaimable"
      /\ \A h \in Hosts : descriptor[a].active[h] = 0
  BY DEF FreeReturn, Holding, SlotsInv, LockOK, TypeOK
<1>2. /\ descriptor' = [descriptor EXCEPT ![a] = Garbage]
      /\ locked' = [step |-> "freed", slot |-> locked.slot, address |-> a]
      /\ UNCHANGED <<offset, readers, phase, retiring, reader>>
  BY DEF FreeReturn, SlotsInv, RecordsOK
<1>3. /\ descriptor' \in [Addresses -> DescriptorType] /\ descriptor'[a] = Garbage
      /\ \A b \in Addresses : b # a => descriptor'[b] = descriptor[b]
      /\ locked'.step = "freed" /\ locked'.slot = locked.slot /\ locked'.address = a
  BY <1>1, <1>2, DescriptorTypes DEF SlotsInv, TypeOK, DescriptorType
<1>4. \A s \in Slots : s # locked.slot => offset[s] # a
  BY <1>1, NoneAssumption DEF SlotsInv, OneSlot
<1>5. \A h \in Hosts : Referrers(a, h) = {}
  BY <1>1, NoneAssumption, NoReferrers
<1>6. TypeOK' /\ RecordsOK'
  BY <1>1, <1>2, <1>3 DEF SlotsInv, TypeOK, RecordsOK, LockSteps, DescriptorType
<1>7. LockOK'
  BY <1>1, <1>2, <1>3, DescriptorTypes DEF SlotsInv, LockOK
<1>8. OneSlot' /\ RetireOK'
  BY <1>2 DEF SlotsInv, OneSlot, RetireOK
<1>9. LiveOK'
  <2>1. ASSUME NEW s \in Slots, offset[s] # None, s # locked.slot
        PROVE  descriptor'[offset[s]].state # "garbage"
    BY <1>1, <1>3, <1>4, <2>1 DEF SlotsInv, LiveOK, TypeOK
  <2>2. ASSUME NEW b \in Addresses, descriptor'[b].state # "garbage"
        PROVE  \E s \in Slots : offset[s] = b
    BY <1>1, <1>3, <2>2, DescriptorTypes DEF SlotsInv, LiveOK
  <2>. QED  BY <1>2, <1>3, <2>1, <2>2 DEF LiveOK
<1>10. ReadersOK' /\ CountsOK'
  BY <1>2, <1>3, HoldKeepsCounts DEF SlotsInv, ReadersOK, Guarded
<1>11. ReferencesOK'
  <2>1. ASSUME NEW t \in Readers, Referring(t) PROVE reader[t].address # a
    BY <1>5, <2>1, ReadersAssumption DEF Referrers
  <2>2. ASSUME NEW t \in Readers, Referring(t)
        PROVE  descriptor'[reader[t].address] = descriptor[reader[t].address]
    BY <1>3, <2>1, <2>2 DEF SlotsInv, ReadersOK, Referring
  <2>. QED  BY <1>2, <1>3, <2>1, <2>2 DEF SlotsInv, ReferencesOK, Referring
<1>12. ActiveOK'
  <2>. SUFFICES ASSUME NEW s \in Slots, offset[s] # None, NEW h \in Hosts
                PROVE  descriptor'[offset[s]].active[h] = Cardinality(Referrers(offset[s], h))
    BY <1>2 DEF ActiveOK, Referrers, Referring
  <2>1. CASE s = locked.slot
    BY <1>1, <1>3, <1>5, <2>1, FS_EmptySet, DescriptorTypes
  <2>2. CASE s # locked.slot
    <3>1. descriptor'[offset[s]] = descriptor[offset[s]]
      BY <1>3, <1>4, <2>2 DEF SlotsInv, TypeOK
    <3>. QED  BY <3>1 DEF SlotsInv, ActiveOK
  <2>. QED  BY <2>1, <2>2
<1>. QED  BY <1>6, <1>7, <1>8, <1>9, <1>10, <1>11, <1>12 DEF SlotsInv

\* The slot forgets the object.
LEMMA FreeUnpublishKeeps ==
  ASSUME SlotsInv, FreeUnpublish
  PROVE  SlotsInv'
<1>1. /\ locked.step = "freed" /\ locked.address \in Addresses /\ locked.slot \in Slots
      /\ offset[locked.slot] = locked.address
      /\ descriptor[locked.address].state = "garbage"
  BY DEF FreeUnpublish, Holding, SlotsInv, LockOK, TypeOK
<1>2. /\ offset' = [offset EXCEPT ![locked.slot] = None]
      /\ phase' = "idle" /\ retiring' = None
      /\ UNCHANGED <<readers, descriptor, reader>>
      /\ locked' = [step |-> "published", slot |-> locked.slot, address |-> locked.address]
  BY DEF FreeUnpublish, SlotsInv, RecordsOK
<1>3. /\ offset' \in [Slots -> Addresses \cup {None}] /\ offset'[locked.slot] = None
      /\ \A s \in Slots : s # locked.slot => offset'[s] = offset[s]
      /\ locked'.step = "published" /\ locked'.slot = locked.slot
  BY <1>1, <1>2 DEF SlotsInv, TypeOK
<1>4. TypeOK' /\ RecordsOK'
  BY <1>1, <1>2, <1>3 DEF SlotsInv, TypeOK, RecordsOK, LockSteps
<1>5. LockOK' /\ OneSlot' /\ RetireOK'
  BY <1>1, <1>2, <1>3, NoneAssumption DEF SlotsInv, LockOK, OneSlot, RetireOK
<1>6. LiveOK'
  <2>1. ASSUME NEW s \in Slots, offset'[s] # None PROVE descriptor[offset'[s]].state # "garbage"
    BY <1>3, <2>1 DEF SlotsInv, LiveOK
  <2>2. ASSUME NEW b \in Addresses, descriptor[b].state # "garbage"
        PROVE  \E s \in Slots : offset'[s] = b
    BY <1>1, <1>3, <2>2 DEF SlotsInv, LiveOK
  <2>. QED  BY <1>2, <2>1, <2>2 DEF LiveOK
<1>7. ReadersOK'
  BY <1>2, <1>3, NobodyInside DEF SlotsInv, ReadersOK, Guarded
<1>8. CountsOK'
  BY <1>2, <1>3, HoldKeepsCounts
<1>9. ReferencesOK'
  <2>. SUFFICES ASSUME NEW t \in Readers, Referring(t)
                PROVE  /\ \E s \in Slots : offset'[s] = reader[t].address
                       /\ HostOf[t] \notin descriptor[reader[t].address].sealed
    BY <1>2, <1>3 DEF ReferencesOK, Referring
  <2>. QED  BY <1>1, <1>3 DEF SlotsInv, ReferencesOK
<1>10. ActiveOK'
  <2>. SUFFICES ASSUME NEW s \in Slots, offset'[s] # None, NEW h \in Hosts
                PROVE  descriptor[offset'[s]].active[h] = Cardinality(Referrers(offset'[s], h))
    BY <1>2 DEF ActiveOK, Referrers, Referring
  <2>. QED  BY <1>3 DEF SlotsInv, ActiveOK
<1>. QED  BY <1>4, <1>5, <1>6, <1>7, <1>8, <1>9, <1>10 DEF SlotsInv

-----------------------------------------------------------------------------
(* The theorems.                                                           *)

\* No slot, no object, no reader.
LEMMA SlotsInit == Init => SlotsInv
<1>. SUFFICES ASSUME Init PROVE SlotsInv
  OBVIOUS
<1>1. \A t \in Readers : ~ Counted(t) /\ ~ Referring(t) /\ ~ Guarded(t) /\ reader[t] = Resting
  BY DEF Init, Counted, Referring, Guarded, Resting
<1>2. TypeOK /\ RecordsOK
  BY DescriptorTypes DEF Init, TypeOK, RecordsOK, ReaderType, DescriptorType, PCs, LockSteps,
                         Resting, Unlocked
<1>3. LockOK /\ OneSlot /\ RetireOK
  BY DEF Init, LockOK, OneSlot, RetireOK, Unlocked
<1>4. LiveOK
  BY DescriptorTypes DEF Init, LiveOK
<1>5. ReadersOK /\ ReferencesOK
  BY <1>1 DEF ReadersOK, ReferencesOK, Resting
<1>6. \A s \in Slots : Inside(s) = {}
  BY <1>1 DEF Inside
<1>7. CountsOK
  BY <1>6, FS_EmptySet, NoneAssumption DEF Init, CountsOK, Unlocked
<1>8. ActiveOK
  BY DEF Init, ActiveOK
<1>. QED  BY <1>2, <1>3, <1>4, <1>5, <1>7, <1>8 DEF SlotsInv

\* Every step of a reader, of Allocate, of retirement and of Free preserves the
\* invariant.
LEMMA SlotsStep == SlotsInv /\ [Next]_vars => SlotsInv'
<1>. SUFFICES ASSUME SlotsInv, [Next]_vars PROVE SlotsInv'
  OBVIOUS
<1>1. CASE \/ \E t \in Readers, s \in Slots : \E use, allow \in BOOLEAN : Load(t, s, use, allow)
           \/ \E t \in Readers : \/ CountIn(t) \/ Recheck(t) \/ Find(t) \/ Admit(t)
                                 \/ Leave(t) \/ ReleaseReference(t)
  BY <1>1, LoadKeeps, CountInKeeps, RecheckKeeps, FindKeeps, AdmitKeeps, LeaveKeeps, ReleaseKeeps
<1>2. CASE \/ \E s \in Slots : AllocateClaim(s) \/ FreeClaim(s)
           \/ \E a \in Addresses : AllocateExtents(a) \/ BeginRetire(a)
           \/ \E h \in Hosts : Close(h)
  BY <1>2, AllocateClaimKeeps, FreeClaimKeeps, AllocateExtentsKeeps, BeginRetireKeeps, CloseKeeps
<1>3. CASE AllocateFails \/ OpenSlot \/ FreeRefused \/ AllocateBuilt \/ AllocatePublish
  BY <1>3, UnlockKeeps, AllocateBuiltKeeps, AllocatePublishKeeps
<1>4. CASE Certify \/ FreeReturn \/ FreeUnpublish
  BY <1>4, CertifyKeeps, FreeReturnKeeps, FreeUnpublishKeeps
<1>5. CASE UNCHANGED vars
  <2>1. UNCHANGED <<offset, readers, descriptor, phase, retiring, locked, reader>>
    BY <1>5 DEF vars
  <2>2. TypeOK' /\ RecordsOK' /\ LockOK' /\ OneSlot' /\ LiveOK' /\ RetireOK' /\ ReadersOK'
    BY <2>1 DEF SlotsInv, TypeOK, RecordsOK, LockOK, OneSlot, LiveOK, RetireOK, ReadersOK, Guarded
  <2>3. CountsOK' /\ ReferencesOK' /\ ActiveOK'
    BY <2>1, HoldKeepsCounts DEF SlotsInv, ReferencesOK, ActiveOK, Referrers, Referring
  <2>. QED  BY <2>2, <2>3 DEF SlotsInv
<1>. QED  BY <1>1, <1>2, <1>3, <1>4, <1>5 DEF Next

\* The invariant holds in every reachable state.
LEMMA SlotsInvariant == Spec => []SlotsInv
BY SlotsInit, SlotsStep, PTL DEF Spec

\* Inside a slot guard a reader looks at the finished descriptor of the address
\* it asked for, whatever Allocate, Free and other readers do meanwhile.
THEOREM GuardsProtect == Spec => []GuardedDescriptor
<1>1. ASSUME SlotsInv PROVE GuardedDescriptor
  <2>. SUFFICES ASSUME NEW t \in Readers, Guarded(t)
                PROVE  /\ offset[reader[t].slot] = reader[t].address
                       /\ descriptor[reader[t].address].state # "garbage"
    BY DEF GuardedDescriptor
  <2>1. /\ offset[reader[t].slot] = reader[t].address
        /\ reader[t].slot \in Slots /\ reader[t].address \in Addresses
    BY <1>1 DEF SlotsInv, ReadersOK, Guarded
  <2>2. reader[t].slot # locked.slot
    BY <1>1, NobodyInside
  <2>. QED  BY <1>1, <2>1, <2>2, NoneAssumption DEF SlotsInv, LiveOK
<1>. QED  BY <1>1, SlotsInvariant, PTL

\* The reader count of a slot is the number of readers inside, and an exclusive
\* slot has none: the plain store of 0 that opens it loses nobody.
THEOREM CountsAreExact == Spec => []ReadersExact
<1>1. ASSUME SlotsInv PROVE ReadersExact
  BY <1>1 DEF SlotsInv, CountsOK, Inside, ReadersExact
<1>. QED  BY <1>1, SlotsInvariant, PTL

\* An operation reference pins its object: the storage is not returned and the
\* holder's host is not sealed before it is dropped, and the counts are exact.
THEOREM ReferencesPin == Spec => []ReferencePins
<1>1. ASSUME SlotsInv PROVE ReferencePins
  <2>1. ASSUME NEW t \in Readers, Referring(t)
        PROVE  /\ \E s \in Slots : offset[s] = reader[t].address
               /\ descriptor[reader[t].address].state # "garbage"
               /\ HostOf[t] \notin descriptor[reader[t].address].sealed
    <3>1. PICK s \in Slots : offset[s] = reader[t].address
      BY <1>1, <2>1 DEF SlotsInv, ReferencesOK
    <3>2. /\ ~ (locked.step = "freed" /\ locked.address = reader[t].address)
          /\ HostOf[t] \notin descriptor[reader[t].address].sealed
          /\ reader[t].address \in Addresses
      BY <1>1, <2>1 DEF SlotsInv, ReferencesOK, ReadersOK, Referring
    <3>3. descriptor[reader[t].address].state # "garbage"
      BY <1>1, <3>1, <3>2, NoneAssumption DEF SlotsInv, LiveOK, LockOK
    <3>. QED  BY <3>1, <3>2, <3>3
  <2>2. ASSUME NEW s \in Slots, offset[s] # None, NEW h \in Hosts
        PROVE  descriptor[offset[s]].active[h] =
                 Cardinality({t \in Readers : Referring(t) /\ HostOf[t] = h
                                              /\ reader[t].address = offset[s]})
    BY <1>1, <2>2 DEF SlotsInv, ActiveOK, Referrers
  <2>. QED  BY <2>1, <2>2 DEF ReferencePins
<1>. QED  BY <1>1, SlotsInvariant, PTL


=============================================================================
