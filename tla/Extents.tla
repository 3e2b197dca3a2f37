------------------------------ MODULE Extents ------------------------------
(***************************************************************************)
(* The extent pools of SharedExtentAllocator (src/loommem/allocator.cpp).  *)
(* An object takes one extent of the data pool and one of the coherence    *)
(* pool.  Free extents of both pools are described by nodes of one bounded *)
(* array; a node that describes no free extent is unused.                  *)
(*                                                                         *)
(* Allocate and Free hold extent_lock from start to end, so each is one    *)
(* step.  The address list and the size bins are the same set of extents;  *)
(* the order inside a bin is left open.                                    *)
(***************************************************************************)
EXTENDS Integers, FiniteSets, FiniteSetsExt

CONSTANTS
  Slots,      \* kMaxAllocationSlots discovery slots
  Nodes,      \* kMaxSharedExtentNodes
  PoolBytes,  \* PoolBytes[p]: size of pool p, which starts at offset 0
  Align,      \* Align[p]: alignment of an extent of pool p
  Sizes       \* shapes of objects: [data |-> bytes, coherence |-> bytes]

Pools == {"data", "coherence"}

ASSUME NodesAssumption == Nodes \in Nat /\ Nodes >= 2
ASSUME PoolsAssumption ==
  /\ PoolBytes \in [Pools -> Nat \ {0}]
  /\ Align \in [Pools -> Nat \ {0}]
  /\ Sizes \subseteq [Pools -> Nat \ {0}]

VARIABLES
  free,      \* free[p]: the free extents of pool p
  object,    \* object[s]: the extents of the object in slot s, or Empty
  retiring   \* the slot in phase kReclaimable, or NoSlot: one at a time

evars == <<free, object, retiring>>

Extent == [offset : Nat, bytes : Nat \ {0}]
Empty == [state |-> "empty"]
NoSlot == "none"

ASSUME SlotsAssumption == IsFiniteSet(Slots) /\ NoSlot \notin Slots

End(e) == e.offset + e.bytes

AlignUp(n, a) == ((n + a - 1) \div a) * a

\* FormatSharedAllocator: one free extent in each pool.
EInit ==
  /\ free = [p \in Pools |-> {[offset |-> 0, bytes |-> PoolBytes[p]]}]
  /\ object = [s \in Slots |-> Empty]
  /\ retiring = NoSlot

-----------------------------------------------------------------------------
(* AllocateExtentLocked and FreeExtentLocked, on the pools f.              *)

\* Nodes in state kUnused.
Unused(f) == Nodes - Cardinality(f["data"]) - Cardinality(f["coherence"])

\* The order of the highest bit.
BinForBytes(bytes) == CHOOSE k \in 0 .. bytes : 2 ^ k <= bytes /\ bytes < 2 ^ (k + 1)

Fits(p, e, bytes) == AlignUp(e.offset, Align[p]) + bytes <= End(e)

\* Mutant of Found: the search starts one bin too high.
FoundAbove(f, p, bytes) ==
  LET start == BinForBytes(bytes) + 1
      fitting == {e \in f[p] : BinForBytes(e.bytes) >= start /\ Fits(p, e, bytes)}
  IN {e \in fitting : \A d \in fitting : BinForBytes(e.bytes) <= BinForBytes(d.bytes)}

\* Extents the search of the bins from that of bytes upwards can find: those
\* that fit, in the lowest bin that has one.
Found(f, p, bytes) ==
  LET start == BinForBytes(bytes)
      fitting == {e \in f[p] : BinForBytes(e.bytes) >= start /\ Fits(p, e, bytes)}
  IN {e \in fitting : \A d \in fitting : BinForBytes(e.bytes) <= BinForBytes(d.bytes)}

\* What is left of a free extent from which bytes are taken.
Remainder(p, e, bytes) ==
  LET start == AlignUp(e.offset, Align[p])
      prefix == [offset |-> e.offset, bytes |-> start - e.offset]
      suffix == [offset |-> start + bytes, bytes |-> End(e) - start - bytes]
  IN {x \in {prefix, suffix} : x.bytes # 0}

\* Splitting both ends off needs a second node.
CanTake(f, p, e, bytes) == Cardinality(Remainder(p, e, bytes)) < 2 \/ Unused(f) > 0

Take(f, p, e, bytes) == [f EXCEPT ![p] = (@ \ {e}) \cup Remainder(p, e, bytes)]
Taken(p, e, bytes) == [offset |-> AlignUp(e.offset, Align[p]), bytes |-> bytes]

Overlap(e, d) == e.offset < End(d) /\ d.offset < End(e)

\* An extent can be returned if it overlaps nothing free, and extends a free
\* neighbour or finds a node.
Neighbours(f, p, x) == {e \in f[p] : End(e) = x.offset \/ End(x) = e.offset}
CanReturn(f, p, x) ==
  /\ \A e \in f[p] : ~Overlap(e, x)
  /\ Neighbours(f, p, x) # {} \/ Unused(f) > 0

\* Mutant of Return: only the extent before x is merged with it.
ReturnBefore(f, p, x) ==
  LET merged == {e \in f[p] : End(e) = x.offset}
      all == merged \cup {x}
      start == Min({e.offset : e \in all})
  IN [f EXCEPT ![p] = (@ \ merged)
        \cup {[offset |-> start, bytes |-> Max({End(e) : e \in all}) - start]}]

\* The returned extent is merged with the neighbours it touches.
Return(f, p, x) ==
  LET merged == Neighbours(f, p, x)
      all == merged \cup {x}
      start == Min({e.offset : e \in all})
  IN [f EXCEPT ![p] = (@ \ merged)
        \cup {[offset |-> start, bytes |-> Max({End(e) : e \in all}) - start]}]

-----------------------------------------------------------------------------

FreeSlot(s) == object[s] = Empty

\* Allocate: slot s, and free extent d of the data pool; if the coherence pool
\* cannot serve the object the data extent goes back.  Without a slot or a
\* data extent nothing changes.
Allocate(s, size, d) ==
  LET left == Take(free, "data", d, size["data"])
      found == Found(left, "coherence", size["coherence"])
      data == Taken("data", d, size["data"])
  IN
  /\ FreeSlot(s)
  /\ d \in Found(free, "data", size["data"]) /\ CanTake(free, "data", d, size["data"])
  /\ \/ \E c \in found :
          /\ CanTake(left, "coherence", c, size["coherence"])
          /\ free' = Take(left, "coherence", c, size["coherence"])
          /\ object' = [object EXCEPT ![s] =
               [data |-> data, coherence |-> Taken("coherence", c, size["coherence"])]]
     \/ /\ found = {} \/ \E c \in found : ~CanTake(left, "coherence", c, size["coherence"])
        /\ free' = IF CanReturn(left, "data", data) THEN Return(left, "data", data) ELSE left
        /\ UNCHANGED object
  /\ UNCHANGED retiring

\* The retirement of the object in s is certified by all hosts (Retirement).
BecomeReclaimable(s) ==
  /\ retiring = NoSlot /\ ~FreeSlot(s)
  /\ retiring' = s
  /\ UNCHANGED <<free, object>>

\* Mutant of Free: one unused node is taken to be enough.
FreeWithOneNode(s) ==
  /\ retiring = s /\ Unused(free) >= 1
  /\ LET half == IF CanReturn(free, "data", object[s].data)
                   THEN Return(free, "data", object[s].data) ELSE free
         ok == CanReturn(free, "data", object[s].data)
                 /\ CanReturn(half, "coherence", object[s].coherence)
     IN /\ free' = IF ok THEN Return(half, "coherence", object[s].coherence) ELSE half
        /\ object' = IF ok THEN [object EXCEPT ![s] = Empty] ELSE object
        /\ retiring' = IF ok THEN NoSlot ELSE retiring

\* Free returns both extents and ends the retirement.  It refuses to start
\* unless two nodes are unused; FreeShared calls it again until its deadline.
Free(s) ==
  /\ retiring = s /\ Unused(free) >= 2
  /\ LET half == IF CanReturn(free, "data", object[s].data)
                   THEN Return(free, "data", object[s].data) ELSE free
         ok == CanReturn(free, "data", object[s].data)
                 /\ CanReturn(half, "coherence", object[s].coherence)
     IN /\ free' = IF ok THEN Return(half, "coherence", object[s].coherence) ELSE half
        /\ object' = IF ok THEN [object EXCEPT ![s] = Empty] ELSE object
        /\ retiring' = IF ok THEN NoSlot ELSE retiring

ENext ==
  \/ \E s \in Slots : \E size \in Sizes : \E d \in free["data"] : Allocate(s, size, d)
  \/ \E s \in Slots : BecomeReclaimable(s)
  \/ \E s \in Slots : Free(s)

ESpec == EInit /\ [][ENext]_evars

-----------------------------------------------------------------------------
(* Properties.                                                             *)

Live == {s \in Slots : ~FreeSlot(s)}

ETypeOK ==
  /\ \A p \in Pools : free[p] \subseteq Extent
  /\ Unused(free) >= 0
  /\ \A s \in Live : object[s] \in [Pools -> Extent]
  /\ retiring \in Slots \cup {NoSlot}

\* The pools are well formed, nodes never run below zero, and every byte of a
\* pool belongs to exactly one free extent or to exactly one live object:
\* extents never overlap and none is lost, also when Allocate fails after it
\* has taken its data extent or when nodes are too few to return both extents
\* of an object.
Partition ==
  /\ ETypeOK
  /\ \A p \in Pools : \A n \in 0 .. PoolBytes[p] - 1 :
       Cardinality({e \in free[p] : e.offset <= n /\ n < End(e)})
         + Cardinality({s \in Live : object[s][p].offset <= n /\ n < End(object[s][p])}) = 1

\* Two free extents never touch: Free leaves the pool coalesced, whatever
\* order objects die in.  So a pool has at most one more free extent than live
\* objects, and Free lacks its two unused nodes only while there are about half
\* as many objects as nodes: with Nodes = 2 * slots, as in the code, a retirement
\* in kReclaimable cannot be stuck for want of nodes before all slots but one
\* are taken, however fragmented the pools are.
Coalesced ==
  /\ \A p \in Pools :
       /\ \A e, d \in free[p] : End(e) # d.offset
       /\ Cardinality(free[p]) <= Cardinality(Live) + 1
  /\ Unused(free) < 2 => 2 * (Cardinality(Live) + 1) >= Nodes - 1

\* The search of the size bins misses no extent that would do.
SearchComplete ==
  \A p \in Pools : \A size \in Sizes :
    Found(free, p, size[p]) = {} => \A e \in free[p] : ~Fits(p, e, size[p])

=============================================================================
