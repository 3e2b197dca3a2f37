------------------------------- MODULE Slots -------------------------------
(***************************************************************************)
(* Discovery slots and operation references (src/loommem/allocator.cpp).   *)
(* A descriptor lives in front of its object, inside the extent, so memory *)
(* that was a descriptor a moment ago may be anything.  Readers find it    *)
(* without the extent lock: they load a slot's offset, count themselves    *)
(* in, and look at the offset again.  Allocate and Free hold the extent    *)
(* lock and claim a slot by turning its reader count from 0 to Exclusive.  *)
(*                                                                         *)
(* Which extents Allocate takes is the subject of module Extents; here an  *)
(* object is its address.  A step of a reader is one atomic access, or the *)
(* critical section of a descriptor's access_lock.                         *)
(***************************************************************************)
EXTENDS Integers, FiniteSets

CONSTANTS
  Hosts,      \* the participating hosts
  Slots,      \* header_->allocations
  Addresses,  \* object addresses of the shared data region
  Readers,    \* threads that look objects up
  HostOf,     \* HostOf[t]: the host of reader t
  None        \* no address (offset 0), or no slot

ASSUME ReadersAssumption == HostOf \in [Readers -> Hosts] /\ IsFiniteSet(Readers)
ASSUME NoneAssumption == None \notin Addresses \cup Slots

VARIABLES
  offset,      \* offset[s]: object_offset of slot s
  readers,     \* readers[s]: reader count of slot s, or Exclusive
  descriptor,  \* descriptor[a]: the descriptor memory in front of address a
  phase,       \* retirement.current.phase; the phases between are one step
  retiring,    \* retirement.current.object
  locked,      \* what the holder of extent_lock is doing
  reader       \* reader[t]: where reader t is

vars == <<offset, readers, descriptor, phase, retiring, locked, reader>>

Exclusive == -1
Unlocked == [step |-> "unlocked", slot |-> None, address |-> None]
Resting == [pc |-> "idle", slot |-> None, address |-> None, use |-> FALSE, allow |-> FALSE]

\* Descriptor memory that is not one (yet, or any more), and a new descriptor.
Garbage == [state |-> "garbage", active |-> [h \in Hosts |-> 0], sealed |-> {}]
Built == [Garbage EXCEPT !.state = "allocated"]

Init ==
  /\ offset = [s \in Slots |-> None]
  /\ readers = [s \in Slots |-> 0]
  /\ descriptor = [a \in Addresses |-> Garbage]
  /\ phase = "idle" /\ retiring = None
  /\ locked = Unlocked
  /\ reader = [t \in Readers |-> Resting]

-----------------------------------------------------------------------------
(* Readers: LockAllocationSlot, FindDescriptorLocked, and what Describe,   *)
(* IsRetiring, MutableDescriptor and AcquireReference do under the guard.  *)

allocator == <<phase, retiring, locked>>

At(t, pc) == reader[t].pc = pc
Goto(t, pc) == reader' = [reader EXCEPT ![t].pc = pc]
Rest(t) == reader' = [reader EXCEPT ![t] = Resting]
Count(s, n) == readers' = [readers EXCEPT ![s] = @ + n]

\* The scan finds the wanted address in slot s.  use: the caller wants an
\* operation reference, not only a look; allow: allow_retiring.  A scan that
\* finds nothing answers NotFound.
Load(t, s, use, allow) ==
  /\ At(t, "idle")
  /\ offset[s] # None
  /\ reader' = [reader EXCEPT ![t] =
       [pc |-> "loaded", slot |-> s, address |-> offset[s], use |-> use, allow |-> allow]]
  /\ UNCHANGED <<offset, readers, descriptor, allocator>>

\* Mutant of CountIn: an exclusive slot is not told apart.
CountInAnyway(t) ==
  /\ At(t, "loaded")
  /\ readers' = [readers EXCEPT ![reader[t].slot] = IF @ = Exclusive THEN 1 ELSE @ + 1]
  /\ Goto(t, "counted")
  /\ UNCHANGED <<offset, descriptor, allocator>>

\* The compare-and-swap of readers; an exclusive slot is given up.
CountIn(t) ==
  /\ At(t, "loaded")
  /\ IF readers[reader[t].slot] = Exclusive
       THEN Rest(t) /\ UNCHANGED readers
       ELSE Goto(t, "counted") /\ Count(reader[t].slot, 1)
  /\ UNCHANGED <<offset, descriptor, allocator>>

\* Mutant of Recheck: the offset is not loaded again.
RecheckSkipped(t) ==
  /\ At(t, "counted")
  /\ Goto(t, "guarded")
  /\ UNCHANGED <<offset, readers, descriptor, allocator>>

\* The second load of the offset.
Recheck(t) ==
  /\ At(t, "counted")
  /\ Goto(t, IF offset[reader[t].slot] = reader[t].address THEN "guarded" ELSE "leaving")
  /\ UNCHANGED <<offset, readers, descriptor, allocator>>

Accessible(t) ==
  LET state == descriptor[reader[t].address].state
  IN state = "allocated" \/ (reader[t].allow /\ state = "retiring")

\* FindDescriptorLocked reads the state without the descriptor's lock.
Find(t) ==
  /\ At(t, "guarded")
  /\ Goto(t, IF Accessible(t) THEN "found" ELSE "leaving")
  /\ UNCHANGED <<offset, readers, descriptor, allocator>>

\* AcquireReference counts the operation, or the caller goes without.
Enter(t, admitted) ==
  /\ At(t, "found")
  /\ Goto(t, IF admitted THEN "admitted" ELSE "leaving")
  /\ descriptor' = IF ~admitted THEN descriptor
                   ELSE [descriptor EXCEPT ![reader[t].address].active[HostOf[t]] = @ + 1]
  /\ UNCHANGED <<offset, readers, allocator>>

\* Mutant of Admit: a sealed host is let in.
AdmitSealed(t) == Enter(t, reader[t].use /\ Accessible(t))

\* Under access_lock the state is read again.  AcquireReference also refuses
\* a host that has sealed the object; Describe only copies.
Admit(t) ==
  Enter(t, /\ reader[t].use
           /\ Accessible(t)
           /\ HostOf[t] \notin descriptor[reader[t].address].sealed)

\* ~SlotGuard, or the fetch_sub after a failed second look.
Leave(t) ==
  /\ At(t, "admitted") \/ At(t, "leaving")
  /\ IF At(t, "admitted") THEN Goto(t, "using") ELSE Rest(t)
  /\ Count(reader[t].slot, -1)
  /\ UNCHANGED <<offset, descriptor, allocator>>

\* ReleaseReference, with no guard at all.
ReleaseReference(t) ==
  /\ At(t, "using")
  /\ descriptor' = [descriptor EXCEPT ![reader[t].address].active[HostOf[t]] = @ - 1]
  /\ Rest(t)
  /\ UNCHANGED <<offset, readers, allocator>>

-----------------------------------------------------------------------------
(* Allocate, one step per access a reader can see.                         *)

Holding(step) == locked.step = step
Claim(s) == readers[s] = 0 /\ readers' = [readers EXCEPT ![s] = Exclusive]
Unlock == readers' = [readers EXCEPT ![locked.slot] = 0] /\ locked' = Unlocked

\* LockExtents, and the compare-and-swap of a slot that names no object.
AllocateClaim(s) ==
  /\ Holding("unlocked")
  /\ offset[s] = None
  /\ Claim(s)
  /\ locked' = [step |-> "claimed", slot |-> s, address |-> None]
  /\ UNCHANGED <<offset, descriptor, phase, retiring, reader>>

\* The pools are exhausted and the slot is given back.
AllocateFails ==
  /\ Holding("claimed")
  /\ Unlock
  /\ UNCHANGED <<offset, descriptor, phase, retiring, reader>>

\* Unused storage becomes the object at a, whose descriptor is written.
AllocateExtents(a) ==
  /\ Holding("claimed")
  /\ \A s \in Slots : offset[s] # a
  /\ descriptor' = [descriptor EXCEPT ![a] = Garbage]
  /\ locked' = [locked EXCEPT !.step = "building", !.address = a]
  /\ UNCHANGED <<offset, readers, phase, retiring, reader>>

\* state.store(kAllocated) ends the construction.
AllocateBuilt ==
  /\ Holding("building")
  /\ descriptor' = [descriptor EXCEPT ![locked.address] = Built]
  /\ locked' = [locked EXCEPT !.step = "built"]
  /\ UNCHANGED <<offset, readers, phase, retiring, reader>>

\* The offset is published while the slot is still exclusive.
AllocatePublish ==
  /\ Holding("built")
  /\ offset' = [offset EXCEPT ![locked.slot] = locked.address]
  /\ locked' = [locked EXCEPT !.step = "published"]
  /\ UNCHANGED <<readers, descriptor, phase, retiring, reader>>

\* The slot is opened and the extents are unlocked, at the end of Allocate
\* and of Free.
OpenSlot ==
  /\ Holding("published")
  /\ Unlock
  /\ UNCHANGED <<offset, descriptor, phase, retiring, reader>>

-----------------------------------------------------------------------------
(* Retirement and Free.                                                    *)

\* BeginRetire by the allocating host.
BeginRetire(a) ==
  /\ Holding("unlocked")
  /\ phase = "idle" /\ descriptor[a].state = "allocated"
  /\ phase' = "closing" /\ retiring' = a
  /\ descriptor' = [descriptor EXCEPT ![a].state = "retiring"]
  /\ UNCHANGED <<offset, readers, locked, reader>>

\* AcknowledgeRetirement in phase kClosing: the host has no operation under
\* way and is sealed.
Close(h) ==
  /\ Holding("unlocked")
  /\ phase = "closing" /\ h \notin descriptor[retiring].sealed
  /\ descriptor[retiring].active[h] = 0
  /\ descriptor' = [descriptor EXCEPT ![retiring].sealed = @ \cup {h}]
  /\ UNCHANGED <<offset, readers, allocator, reader>>

\* All hosts have closed; they drain and clean (module Retirement).
Certify ==
  /\ Holding("unlocked")
  /\ phase = "closing" /\ descriptor[retiring].sealed = Hosts
  /\ phase' = "reclaimable"
  /\ UNCHANGED <<offset, readers, descriptor, retiring, locked, reader>>

\* Free turns the slot exclusive; while readers look it answers Unavailable.
FreeClaim(s) ==
  /\ Holding("unlocked")
  /\ phase = "reclaimable" /\ offset[s] = retiring
  /\ Claim(s)
  /\ locked' = [step |-> "freeing", slot |-> s, address |-> retiring]
  /\ UNCHANGED <<offset, descriptor, phase, retiring, reader>>

\* Replica holders, operations under way or too few extent nodes: nothing is
\* freed.
FreeRefused ==
  /\ Holding("freeing")
  /\ Unlock
  /\ UNCHANGED <<offset, descriptor, phase, retiring, reader>>

\* The extents return to their pools and the descriptor dies.
FreeReturn ==
  /\ Holding("freeing")
  /\ \A h \in Hosts : descriptor[locked.address].active[h] = 0
  /\ descriptor' = [descriptor EXCEPT ![locked.address] = Garbage]
  /\ locked' = [locked EXCEPT !.step = "freed"]
  /\ UNCHANGED <<offset, readers, phase, retiring, reader>>

FreeUnpublish ==
  /\ Holding("freed")
  /\ offset' = [offset EXCEPT ![locked.slot] = None]
  /\ phase' = "idle" /\ retiring' = None
  /\ locked' = [locked EXCEPT !.step = "published"]
  /\ UNCHANGED <<readers, descriptor, reader>>

Next ==
  \/ \E t \in Readers, s \in Slots : \E use, allow \in BOOLEAN : Load(t, s, use, allow)
  \/ \E t \in Readers : CountIn(t)
  \/ \E t \in Readers : Recheck(t)
  \/ \E t \in Readers : Find(t)
  \/ \E t \in Readers : Admit(t)
  \/ \E t \in Readers : Leave(t)
  \/ \E t \in Readers : ReleaseReference(t)
  \/ \E s \in Slots : AllocateClaim(s)
  \/ AllocateFails
  \/ \E a \in Addresses : AllocateExtents(a)
  \/ AllocateBuilt
  \/ AllocatePublish
  \/ OpenSlot
  \/ \E a \in Addresses : BeginRetire(a)
  \/ \E h \in Hosts : Close(h)
  \/ Certify
  \/ \E s \in Slots : FreeClaim(s)
  \/ FreeRefused
  \/ FreeReturn
  \/ FreeUnpublish

Spec == Init /\ [][Next]_vars

-----------------------------------------------------------------------------
(* Properties.                                                             *)

Counted(t) == reader[t].pc \in {"counted", "guarded", "found", "admitted", "leaving"}
Guarded(t) == reader[t].pc \in {"guarded", "found", "admitted"}
Referring(t) == reader[t].pc \in {"admitted", "using"}

TypeOK ==
  /\ offset \in [Slots -> Addresses \cup {None}]
  /\ readers \in [Slots -> Nat \cup {Exclusive}]
  /\ descriptor \in [Addresses -> [state : {"garbage", "allocated", "retiring"},
                                   active : [Hosts -> Int], sealed : SUBSET Hosts]]
  /\ phase \in {"idle", "closing", "reclaimable"}
  /\ retiring \in Addresses \cup {None}
  /\ locked.slot \in Slots \cup {None} /\ locked.address \in Addresses \cup {None}
  /\ \A t \in Readers : /\ reader[t].slot \in Slots \cup {None}
                        /\ reader[t].address \in Addresses \cup {None}

\* A reader that holds a slot guard looks at the finished descriptor of the
\* address it asked for: the slot still names it, and nobody is building,
\* destroying or reusing that memory.
GuardedDescriptor ==
  \A t \in Readers : Guarded(t) =>
    /\ offset[reader[t].slot] = reader[t].address
    /\ descriptor[reader[t].address].state # "garbage"

\* A slot's count is the number of readers inside it, and an exclusive slot
\* has none: storing 0 at the end of Allocate and Free loses nobody.
ReadersExact ==
  /\ TypeOK
  /\ \A s \in Slots :
       LET inside == {t \in Readers : Counted(t) /\ reader[t].slot = s} IN
       IF locked.slot = s THEN readers[s] = Exclusive /\ inside = {}
                          ELSE readers[s] = Cardinality(inside)

\* An operation reference pins its object: the storage is not returned and the
\* host is not sealed while the reference is held, and the counts are exact.
ReferencePins ==
  /\ \A t \in Readers : Referring(t) =>
       /\ \E s \in Slots : offset[s] = reader[t].address
       /\ descriptor[reader[t].address].state # "garbage"
       /\ HostOf[t] \notin descriptor[reader[t].address].sealed
  /\ \A s \in Slots : offset[s] # None => \A h \in Hosts :
       descriptor[offset[s]].active[h] =
         Cardinality({t \in Readers : Referring(t) /\ HostOf[t] = h
                                      /\ reader[t].address = offset[s]})

=============================================================================
