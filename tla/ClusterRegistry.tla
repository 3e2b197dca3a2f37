-------------------------- MODULE ClusterRegistry --------------------------
(***************************************************************************)
(* The rendezvous of function manifests                                    *)
(* (src/loompar/cluster_registry.cpp).  Every host installs one immutable  *)
(* manifest, sends one message per function (one empty message for an      *)
(* empty manifest) to every peer, and is ready when it has seen the same   *)
(* manifest from all of them.  A mismatch is a permanent failure.          *)
(*                                                                         *)
(* Install and Handle hold mutex_.  Messages wait in outgoing_, which a    *)
(* full ring rotates, so that they arrive in any order.                    *)
(***************************************************************************)
EXTENDS Naturals, Sequences, FiniteSets

CONSTANTS
  Hosts,
  Manifests,   \* the manifests a host may install: sequences of descriptors
  MaxCreates,  \* bound: creates in flight
  None         \* no descriptor, or no manifest

ASSUME MaxCreatesAssumption == MaxCreates \in Nat
ASSUME ManifestsAssumption == \A m \in Manifests : m \in Seq({m[i] : i \in DOMAIN m})
ASSUME NoneAssumption == \A m \in Manifests : m # None /\ \A i \in DOMAIN m : m[i] # None

VARIABLES
  manifest,  \* manifest[h]: descriptors_ once installed_, else None
  peers,     \* peers[h][k]: entries that h has heard from k, else None
  ready,     \* ready_
  failed,    \* failure_ is not Ok
  net,       \* manifest messages sent and not yet handled
  launched   \* threads created for another host and not yet resolved there

vars == <<manifest, peers, ready, failed, net, launched>>

Installed(h) == manifest[h] # None
Seen(h, k) == peers[h][k] # None

Most(n) == IF n = 0 THEN 1 ELSE n

\* The messages of host h, which has installed functions, to all its peers.
Announced(h, functions) ==
  {[source |-> h, target |-> k, count |-> Len(functions), index |-> i,
    entry |-> IF functions = << >> THEN None ELSE functions[i]]
     : k \in Hosts \ {h}, i \in 1 .. Most(Len(functions))}

Init ==
  /\ manifest = [h \in Hosts |-> None]
  /\ peers = [h \in Hosts |-> [k \in Hosts |-> None]]
  /\ ready = [h \in Hosts |-> FALSE]
  /\ failed = [h \in Hosts |-> FALSE]
  /\ net = {}
  /\ launched = {}

-----------------------------------------------------------------------------

\* Whether the entries heard from a peer contradict the manifest mine.
Contradicts(mine, entries) ==
  \/ Len(entries) # Len(mine)
  \/ \E i \in DOMAIN mine : entries[i] # None /\ entries[i] # mine[i]

Complete(entries) == \A i \in DOMAIN entries : entries[i] # None

\* Mutant of CheckLocked: a peer counts as soon as it has been heard of.
CheckSeen(h, mine, heard) ==
  LET others == Hosts \ {h}
      wrong == \E k \in others : heard[k] # None /\ Contradicts(mine, heard[k])
  IN IF failed[h] \/ mine = None
       THEN UNCHANGED <<ready, failed>>
       ELSE /\ failed' = [failed EXCEPT ![h] = wrong]
            /\ ready' = [ready EXCEPT ![h] = ~wrong /\ \A k \in others : heard[k] # None]

\* CheckLocked of host h with manifest mine and what it has heard.
CheckLocked(h, mine, heard) ==
  LET others == Hosts \ {h}
      wrong == \E k \in others : heard[k] # None /\ Contradicts(mine, heard[k])
  IN IF failed[h] \/ mine = None
       THEN UNCHANGED <<ready, failed>>
       ELSE /\ failed' = [failed EXCEPT ![h] = wrong]
            /\ ready' = [ready EXCEPT ![h] = ~wrong /\ \A k \in others :
                                               heard[k] # None /\ Complete(heard[k])]

\* Mutant of Install: what peers announced earlier is not looked at.
InstallUnchecked(h, functions) ==
  /\ ~Installed(h)
  /\ manifest' = [manifest EXCEPT ![h] = functions]
  /\ net' = net \cup Announced(h, functions)
  /\ UNCHANGED <<peers, ready, failed, launched>>

\* RegisterClusterFunctions: the first Install.  Repeating it with the same
\* manifest only waits again, and another manifest is refused.
Install(h, functions) ==
  /\ ~Installed(h)
  /\ manifest' = [manifest EXCEPT ![h] = functions]
  /\ net' = net \cup Announced(h, functions)
  /\ CheckLocked(h, functions, peers[h])
  /\ UNCHANGED <<peers, launched>>

\* Handle: one entry of a peer's manifest, possibly before the local Install.
Handle(m) ==
  LET h == m.target
      entries == IF Seen(h, m.source) THEN peers[h][m.source] ELSE [i \in 1 .. m.count |-> None]
      heard == [peers[h] EXCEPT ![m.source] =
                  IF m.count = 0 THEN entries ELSE [entries EXCEPT ![m.index] = m.entry]]
  IN
  /\ m \in net
  /\ net' = net \ {m}
  /\ peers' = [peers EXCEPT ![h] = heard]
  /\ CheckLocked(h, manifest[h], heard)
  /\ UNCHANGED <<manifest, launched>>

\* Mutant of Create: it does not wait for the rendezvous.
CreateInstalled(h, k, i) ==
  /\ ~failed[h]
  /\ h # k /\ Cardinality(launched) < MaxCreates
  /\ launched' = launched \cup {[home |-> h, target |-> k, index |-> i]}
  /\ UNCHANGED <<manifest, peers, ready, failed, net>>

\* CreateRegisteredThread on a ready host: function i is sent to host k,
\* which resolves it when the message arrives, ready or not.
Create(h, k, i) ==
  /\ ready[h] /\ ~failed[h]
  /\ h # k /\ Cardinality(launched) < MaxCreates
  /\ launched' = launched \cup {[home |-> h, target |-> k, index |-> i]}
  /\ UNCHANGED <<manifest, peers, ready, failed, net>>

\* Resolve for a CREATE_REQ, which does not require the host to be ready.
Resolvable(c) ==
  /\ ~failed[c.target] /\ Installed(c.target)
  /\ \E i \in DOMAIN manifest[c.target] : manifest[c.target][i] = manifest[c.home][c.index]

Resolve(c) ==
  /\ c \in launched /\ Resolvable(c)
  /\ launched' = launched \ {c}
  /\ UNCHANGED <<manifest, peers, ready, failed, net>>

Next ==
  \/ \E h \in Hosts : \E functions \in Manifests : Install(h, functions)
  \/ \E m \in net : Handle(m)
  \/ \E h, k \in Hosts : Installed(h) /\ \E i \in DOMAIN manifest[h] : Create(h, k, i)
  \/ \E c \in launched : Resolve(c)

\* The pollers handle what arrives.
Spec == Init /\ [][Next]_vars /\ WF_vars(\E m \in net : Handle(m))

-----------------------------------------------------------------------------
(* Properties.                                                             *)

\* The type invariant of ClusterFunctionRegistry.
TypeOK ==
  /\ manifest \in [Hosts -> Manifests \cup {None}]
  /\ ready \in [Hosts -> BOOLEAN] /\ failed \in [Hosts -> BOOLEAN]
  /\ \A h \in Hosts : ~(ready[h] /\ failed[h])
  /\ \A h, k \in Hosts : Seen(h, k) => k # h /\ Installed(k) /\ Len(peers[h][k]) = Len(manifest[k])

\* A host that is ready has proof that every other host installed the very
\* same manifest, and none of them will ever report a failure.
ReadyAgrees ==
  /\ TypeOK
  /\ \A h \in Hosts : ready[h] => \A k \in Hosts : manifest[k] = manifest[h] /\ ~failed[k]

\* A thread created on a ready host can be resolved wherever it is sent, even
\* on a host that is not ready yet.
CreatesResolve == \A c \in launched : Resolvable(c)

\* Once every host has installed a manifest, either all become ready or, if
\* two manifests differ, all fail: nobody waits for ever.
Rendezvous ==
  (\A h \in Hosts : Installed(h)) ~>
    \/ \A h \in Hosts : ready[h]
    \/ \A h \in Hosts : failed[h]

=============================================================================
