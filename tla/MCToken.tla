------------------------------ MODULE MCToken ------------------------------
(***************************************************************************)
(* Instances of Token: three hosts, the first of which allocated the       *)
(* block, and one request of each.                                         *)
(***************************************************************************)
EXTENDS Token

CONSTANTS h1, h2, h3, r1, r2, r3

MCRequester ==
  [r \in Requests |-> CASE r = r1 -> h1 [] r = r2 -> h2 [] OTHER -> h3]

=============================================================================
