--------------------------- MODULE MCRetirement ---------------------------
(***************************************************************************)
(* Instances of Retirement: three hosts, the first of which allocated the  *)
(* object and retires it, two requests of the second and one of the third. *)
(***************************************************************************)
EXTENDS Retirement

CONSTANTS h1, h2, h3, r1, r2, r3

MCRequester == [r \in Requests |-> IF r = r3 THEN h3 ELSE h2]

=============================================================================
