----------------------------- MODULE MCBarrier -----------------------------
(***************************************************************************)
(* Instances of Barrier: three hosts, the first of which coordinates; the  *)
(* second has two participants, the others one.  The last participant is   *)
(* one too many on the third host.                                         *)
(***************************************************************************)
EXTENDS Barrier

CONSTANTS h1, h2, h3, p1, p2, p3, p4, p5

MCHostOf ==
  [p \in Participants |-> CASE p = p1 -> h1 [] p \in {p2, p3} -> h2 [] OTHER -> h3]
MCCount == [h \in Hosts |-> IF h = h2 THEN 2 ELSE 1]

=============================================================================
