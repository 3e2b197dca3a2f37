----------------------------- MODULE MCThreads -----------------------------
(***************************************************************************)
(* Threads on two hosts: the first creates two threads and the second one. *)
(***************************************************************************)
EXTENDS Threads

CONSTANTS h1, h2, t1, t2, t3

MCHome == [t \in Threads |-> IF t = t3 THEN h2 ELSE h1]

=============================================================================
