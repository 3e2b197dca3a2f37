---------------------------- MODULE MCCoherence ----------------------------
(***************************************************************************)
(* An instance of Coherence: two hosts and two blocks, a buffered session  *)
(* on the first host and a raw one on the second, both on the first block. *)
(* The second block only competes for room in the replica indexes.         *)
(***************************************************************************)
EXTENDS Coherence

CONSTANTS h1, h2, b1, b2, w1, w2

MCHostOf == [w \in Sessions |-> IF w = w1 THEN h1 ELSE h2]
MCBlockOf == [w \in Sessions |-> b1]

=============================================================================
