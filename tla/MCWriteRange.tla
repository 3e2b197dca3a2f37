---------------------------- MODULE MCWriteRange ----------------------------
(***************************************************************************)
(* Two contexts on the first host, one on the second, and two blocks.      *)
(***************************************************************************)
EXTENDS WriteRange, TLC

CONSTANTS h1, h2, c1, c2, c3

MCHostOf == c1 :> h1 @@ c2 :> h1 @@ c3 :> h2
MCMaxAcquires == [c \in Contexts |-> 2]

=============================================================================
