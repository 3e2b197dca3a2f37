-------------------------------- MODULE Fifo --------------------------------
(***************************************************************************)
(* What a queue between two hosts promises: a bounded first-in first-out   *)
(* queue of whole messages.                                                *)
(***************************************************************************)
EXTENDS Naturals, Sequences

CONSTANTS Messages, Capacity

VARIABLES
  queue,  \* the messages published and not yet consumed
  got     \* the message last consumed; initially "nothing"

vars == <<queue, got>>

Init == queue = <<>> /\ got = "nothing"

Put(m) ==
  /\ Len(queue) < Capacity
  /\ queue' = Append(queue, m)
  /\ UNCHANGED got

Take ==
  /\ queue # <<>>
  /\ got' = Head(queue)
  /\ queue' = Tail(queue)

Next == (\E m \in Messages : Put(m)) \/ Take

Spec == Init /\ [][Next]_vars

=============================================================================
