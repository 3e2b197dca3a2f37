------------------------------ MODULE MCSlots ------------------------------
(***************************************************************************)
(* Two slots and two addresses, so that a slot is used again for another   *)
(* address and an address again in another slot, and two readers of        *)
(* different hosts.                                                        *)
(***************************************************************************)
EXTENDS Slots, TLC

CONSTANTS h1, h2, t1, t2

MCHostOf == t1 :> h1 @@ t2 :> h2

\* Allocate may take any free slot and any unused address.
MCSymmetry == Permutations(Slots) \cup Permutations(Addresses)

=============================================================================
