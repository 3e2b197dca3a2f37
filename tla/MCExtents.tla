----------------------------- MODULE MCExtents -----------------------------
(***************************************************************************)
(* Small pools.  Object sizes that are no multiple of the data alignment   *)
(* leave a gap in front of the next object, and gaps of different sizes    *)
(* send a later object past them.                                          *)
(***************************************************************************)
EXTENDS Extents, TLC

MCPoolBytes == [p \in Pools |-> IF p = "data" THEN 14 ELSE 8]
MCAlign == [p \in Pools |-> IF p = "data" THEN 2 ELSE 1]
MCSizes ==
  {[p \in Pools |-> IF p = "data" THEN 2 ELSE 1], [p \in Pools |-> IF p = "data" THEN 3 ELSE 2]}

\* Slots are interchangeable: Allocate may take any free one.
MCSymmetry == Permutations(Slots)

=============================================================================
