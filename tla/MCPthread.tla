----------------------------- MODULE MCPthread ------------------------------
(***************************************************************************)
(* Three consumers and two producers on two hosts, and two bits: a waiter  *)
(* may find none free.  Producer p1 signals, p2 broadcasts.                *)
(***************************************************************************)
EXTENDS Pthread, TLC

CONSTANTS h1, h2, c1, c2, c3, p1, p2

MCHostOf == c1 :> h1 @@ c2 :> h1 @@ c3 :> h2 @@ p1 :> h2 @@ p2 :> h1
MCPuts == c1 :> 0 @@ c2 :> 0 @@ c3 :> 0 @@ p1 :> 1 @@ p2 :> 2

=============================================================================
