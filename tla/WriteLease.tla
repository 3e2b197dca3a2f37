----------------------------- MODULE WriteLease -----------------------------
(***************************************************************************)
(* What the token protocol promises to the writers of one coherence block, *)
(* with no hosts, queues or messages: at most one request holds the write  *)
(* lease, shared bytes are open for writing only under a lease, and the    *)
(* published version moves by one, and only when a holder that had opened  *)
(* the block gives the lease up.                                           *)
(***************************************************************************)
EXTENDS Naturals

CONSTANTS Requests, Nobody

VARIABLES
  holder,   \* the request that holds the lease, or Nobody
  writing,  \* the holder has shared bytes open for writing
  version   \* the published version of the block

vars == <<holder, writing, version>>

Init == holder = Nobody /\ writing = FALSE /\ version = 0

\* The lease is granted; a raw writer may write at once.
Acquire(r) ==
  /\ holder = Nobody
  /\ holder' = r
  /\ writing' \in BOOLEAN
  /\ UNCHANGED version

\* A buffered writer opens the block.
Open ==
  /\ holder # Nobody /\ ~writing
  /\ writing' = TRUE
  /\ UNCHANGED <<holder, version>>

\* The holder gives the lease up, publishing if it had the block open, and the
\* lease may pass to another request in the same step.
Yield(next) ==
  /\ holder # Nobody /\ next # holder
  /\ holder' = next
  /\ writing' \in (IF next = Nobody THEN {FALSE} ELSE BOOLEAN)
  /\ version' \in (IF writing THEN {version, version + 1} ELSE {version})

Next ==
  \/ \E r \in Requests : Acquire(r)
  \/ Open
  \/ \E next \in Requests \cup {Nobody} : Yield(next)

Spec == Init /\ [][Next]_vars

=============================================================================
