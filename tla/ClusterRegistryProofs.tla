----------------------- MODULE ClusterRegistryProofs -----------------------
(***************************************************************************)
(* Proofs about ClusterRegistry, for every number of hosts and every set   *)
(* of manifests: a ready host knows that all hosts installed its manifest, *)
(* and what it creates can be resolved wherever it is sent.                *)
(***************************************************************************)
EXTENDS ClusterRegistry, SequenceTheorems, TLAPS

Descriptors == UNION {{m[i] : i \in DOMAIN m} : m \in Manifests}

\* The variables are functions with these domains.
ShapeOK ==
  /\ manifest \in [Hosts -> Manifests \cup {None}]
  /\ ready \in [Hosts -> BOOLEAN] /\ failed \in [Hosts -> BOOLEAN]
  /\ peers = [h \in Hosts |-> [k \in Hosts |-> peers[h][k]]]

\* A message on its way is a line of its sender's manifest.
MessagesOK ==
  \A m \in net :
    /\ m.source \in Hosts /\ m.target \in Hosts /\ m.source # m.target
    /\ Installed(m.source)
    /\ m.count = Len(manifest[m.source])
    /\ m.index \in 1 .. Most(m.count)
    /\ m.count # 0 => m.entry = manifest[m.source][m.index]

\* What a host has heard of a peer is a part of the peer's manifest.
PeersOK ==
  \A h, k \in Hosts : Seen(h, k) =>
    /\ k # h /\ Installed(k)
    /\ peers[h][k] \in [1 .. Len(manifest[k]) -> Descriptors \cup {None}]
    /\ \A i \in 1 .. Len(manifest[k]) : peers[h][k][i] \in {None, manifest[k][i]}

\* A ready host agrees with all others.
ReadyOK ==
  \A h \in Hosts : ready[h] =>
    Installed(h) /\ ~failed[h] /\ \A k \in Hosts : manifest[k] = manifest[h]

\* Only a real disagreement fails a host.
FailedOK ==
  \A h \in Hosts : failed[h] =>
    Installed(h) /\ \E k \in Hosts : Installed(k) /\ manifest[k] # manifest[h]

\* What was created was created by a host that agreed with all others.
LaunchedOK ==
  \A c \in launched :
    /\ c.home \in Hosts /\ c.target \in Hosts /\ Installed(c.home)
    /\ c.index \in DOMAIN manifest[c.home]
    /\ \A k \in Hosts : manifest[k] = manifest[c.home]

\* The inductive invariant.
RegistryInv == ShapeOK /\ MessagesOK /\ PeersOK /\ ReadyOK /\ FailedOK /\ LaunchedOK

-----------------------------------------------------------------------------

\* A manifest is a sequence of descriptors.
LEMMA ManifestIsSequence ==
  ASSUME NEW m \in Manifests
  PROVE  /\ Len(m) \in Nat /\ m \in [1 .. Len(m) -> Descriptors]
         /\ DOMAIN m = 1 .. Len(m) /\ m # None
         /\ \A i \in 1 .. Len(m) : m[i] # None
<1>1. m \in Seq({m[i] : i \in DOMAIN m})
  BY ManifestsAssumption
<1>2. Len(m) \in Nat /\ DOMAIN m = 1 .. Len(m) /\ m \in [1 .. Len(m) -> {m[i] : i \in DOMAIN m}]
  BY <1>1, LenProperties
<1>3. \A i \in 1 .. Len(m) : m[i] \in Descriptors
  BY <1>2 DEF Descriptors
<1>. QED  BY <1>2, <1>3, NoneAssumption

\* What CheckLocked concludes: a contradiction with what was heard of a peer is
\* a disagreement with its manifest, and complete agreement with what was heard
\* is agreement with it.
LEMMA HeardIsManifest ==
  ASSUME NEW mine \in Manifests, NEW theirs \in Manifests, NEW entries,
         entries \in [1 .. Len(theirs) -> Descriptors \cup {None}],
         \A i \in 1 .. Len(theirs) : entries[i] \in {None, theirs[i]}
  PROVE  /\ Contradicts(mine, entries) => mine # theirs
         /\ ~ Contradicts(mine, entries) /\ Complete(entries) => mine = theirs
<1>1. /\ Len(mine) \in Nat /\ mine \in [1 .. Len(mine) -> Descriptors] /\ DOMAIN mine = 1 .. Len(mine)
      /\ Len(theirs) \in Nat /\ theirs \in [1 .. Len(theirs) -> Descriptors]
  BY ManifestIsSequence
<1>2. Len(entries) = Len(theirs) /\ DOMAIN entries = 1 .. Len(theirs)
  BY SMTT(60), <1>1
<1>3. ASSUME Contradicts(mine, entries) PROVE mine # theirs
  BY <1>1, <1>2, <1>3 DEF Contradicts
<1>4. ASSUME ~ Contradicts(mine, entries), Complete(entries) PROVE mine = theirs
  <2>1. Len(mine) = Len(theirs)
    BY <1>2, <1>4 DEF Contradicts
  <2>2. \A i \in 1 .. Len(mine) : mine[i] = theirs[i]
    BY <1>1, <1>2, <1>4, <2>1 DEF Contradicts, Complete
  <2>. QED  BY <1>1, <2>1, <2>2
<1>. QED  BY <1>3, <1>4

Agrees(h) == Installed(h) /\ \A k \in Hosts : manifest[k] = manifest[h]
Differs(h) == Installed(h) /\ \E k \in Hosts : Installed(k) /\ manifest[k] # manifest[h]

\* Manifests are never replaced, so agreement and disagreement are for ever.
LEMMA ConclusionsStay ==
  ASSUME NEW h \in Hosts, \A k \in Hosts : Installed(k) => manifest'[k] = manifest[k]
  PROVE  (Agrees(h) => Agrees(h)') /\ (Differs(h) => Differs(h)')
BY DEF Agrees, Differs, Installed

\* CheckLocked draws the right conclusion from what the peers have said, and
\* hosts that had drawn one before keep it.
LEMMA CheckKeeps ==
  ASSUME ShapeOK, ReadyOK, FailedOK,
         NEW h \in Hosts, NEW mine, NEW heard,
         manifest' \in [Hosts -> Manifests \cup {None}],
         \A k \in Hosts : Installed(k) => manifest'[k] = manifest[k],
         mine = manifest'[h], \A k \in Hosts : heard[k] = peers'[h][k],
         PeersOK', CheckLocked(h, mine, heard)
  PROVE  /\ ready' \in [Hosts -> BOOLEAN] /\ failed' \in [Hosts -> BOOLEAN]
         /\ ReadyOK' /\ FailedOK'
<1>. DEFINE wrong == \E k \in Hosts \ {h} : heard[k] # None /\ Contradicts(mine, heard[k])
            whole == \A k \in Hosts \ {h} : heard[k] # None /\ Complete(heard[k])
<1>1. \A k \in Hosts : (ready[k] => Agrees(k)' /\ ~failed[k]) /\ (failed[k] => Differs(k)')
  BY ConclusionsStay DEF ReadyOK, FailedOK, Agrees, Differs
<1>2. CASE failed[h] \/ mine = None
  <2>1. UNCHANGED <<ready, failed>>
    BY <1>2 DEF CheckLocked
  <2>. QED  BY <1>1, <2>1 DEF ShapeOK, ReadyOK, FailedOK, Agrees, Differs
<1>3. CASE ~ (failed[h] \/ mine = None)
  <2>1. failed' = [failed EXCEPT ![h] = wrong] /\ ready' = [ready EXCEPT ![h] = ~wrong /\ whole]
    BY <1>3 DEF CheckLocked
  <2>2. /\ ready' \in [Hosts -> BOOLEAN] /\ failed' \in [Hosts -> BOOLEAN]
        /\ failed'[h] <=> wrong
        /\ ready'[h] <=> ~wrong /\ whole
        /\ \A k \in Hosts : k # h => ready'[k] = ready[k] /\ failed'[k] = failed[k]
    BY <2>1 DEF ShapeOK
  <2>3. mine \in Manifests
    BY <1>3
  <2>4. ASSUME NEW k \in Hosts \ {h}, heard[k] # None
        PROVE  /\ manifest'[k] # None
               /\ Contradicts(mine, heard[k]) => mine # manifest'[k]
               /\ ~ Contradicts(mine, heard[k]) /\ Complete(heard[k]) => mine = manifest'[k]
    <3>1. /\ manifest'[k] \in Manifests
          /\ heard[k] \in [1 .. Len(manifest'[k]) -> Descriptors \cup {None}]
          /\ \A i \in 1 .. Len(manifest'[k]) : heard[k][i] \in {None, manifest'[k][i]}
      BY <2>4 DEF PeersOK, Seen, Installed
    <3>. QED  BY <2>3, <3>1, HeardIsManifest, NoneAssumption
  <2>5. wrong => Differs(h)'
    BY <1>3, <2>4 DEF Differs, Installed
  <2>6. ~wrong /\ whole => Agrees(h)'
    BY <1>3, <2>4 DEF Agrees, Installed
  <2>7. ReadyOK'
    BY <1>1, <2>2, <2>6 DEF ReadyOK, Agrees
  <2>8. FailedOK'
    BY <1>1, <2>2, <2>5 DEF FailedOK, Differs
  <2>. QED  BY <2>2, <2>7, <2>8
<1>. QED  BY <1>2, <1>3

\* A created thread's manifest facts are for ever, too.
LEMMA LaunchedStay ==
  ASSUME LaunchedOK, UNCHANGED launched, \A k \in Hosts : Installed(k) => manifest'[k] = manifest[k]
  PROVE  LaunchedOK'
BY DEF LaunchedOK, Installed

\* RegisterClusterFunctions.
LEMMA InstallKeeps ==
  ASSUME RegistryInv, NEW h \in Hosts, NEW functions \in Manifests, Install(h, functions)
  PROVE  RegistryInv'
<1>1. /\ manifest' \in [Hosts -> Manifests \cup {None}]
      /\ manifest[h] = None /\ manifest'[h] = functions
      /\ \A k \in Hosts : k # h => manifest'[k] = manifest[k]
      /\ \A k \in Hosts : Installed(k) => manifest'[k] = manifest[k]
      /\ UNCHANGED <<peers, launched>> /\ net' = net \cup Announced(h, functions)
      /\ CheckLocked(h, functions, peers[h])
  BY DEF RegistryInv, ShapeOK, Install, Installed
<1>2. PeersOK'
  BY <1>1 DEF RegistryInv, PeersOK, Seen, Installed
<1>3. /\ ready' \in [Hosts -> BOOLEAN] /\ failed' \in [Hosts -> BOOLEAN]
      /\ ReadyOK' /\ FailedOK'
  BY <1>1, <1>2, CheckKeeps DEF RegistryInv
<1>4. ShapeOK'
  BY <1>1, <1>3 DEF RegistryInv, ShapeOK
<1>5. MessagesOK'
  <2>1. ASSUME NEW m \in net PROVE MessagesOK!(m)'
    BY <1>1 DEF RegistryInv, MessagesOK, Installed
  <2>2. ASSUME NEW m \in Announced(h, functions) PROVE MessagesOK!(m)'
    <3>1. PICK k \in Hosts \ {h}, i \in 1 .. Most(Len(functions)) :
            m = [source |-> h, target |-> k, count |-> Len(functions), index |-> i,
                 entry |-> IF functions = << >> THEN None ELSE functions[i]]
      BY <2>2 DEF Announced
    <3>2. functions # None /\ Len(functions) \in Nat
      BY ManifestIsSequence
    <3>3. Len(functions) # 0 => functions # << >>
      OBVIOUS
    <3>. QED  BY <1>1, <3>1, <3>2, <3>3 DEF Installed
  <2>. QED  BY <1>1, <2>1, <2>2 DEF MessagesOK
<1>6. LaunchedOK'
  BY <1>1, LaunchedStay DEF RegistryInv
<1>. QED  BY <1>2, <1>3, <1>4, <1>5, <1>6 DEF RegistryInv


\* A line of a peer's manifest arrives.
LEMMA HandleKeeps ==
  ASSUME RegistryInv, NEW m \in net, Handle(m)
  PROVE  RegistryInv'
<1>. DEFINE h == m.target
            k == m.source
            entries == IF Seen(h, k) THEN peers[h][k] ELSE [i \in 1 .. m.count |-> None]
            news == IF m.count = 0 THEN entries ELSE [entries EXCEPT ![m.index] = m.entry]
            heard == [peers[h] EXCEPT ![k] = news]
<1>1. /\ h \in Hosts /\ k \in Hosts /\ h # k /\ manifest[k] \in Manifests
      /\ m.count = Len(manifest[k]) /\ m.index \in 1 .. Most(m.count)
      /\ m.count # 0 => m.entry = manifest[k][m.index]
  BY DEF RegistryInv, ShapeOK, MessagesOK, Installed
<1>2. /\ m.count \in Nat /\ manifest[k] \in [1 .. m.count -> Descriptors]
  BY <1>1, ManifestIsSequence
<1>3. /\ net' = net \ {m} /\ UNCHANGED <<manifest, launched>>
      /\ peers' = [peers EXCEPT ![h] = heard]
      /\ CheckLocked(h, manifest[h], heard)
  BY DEF Handle
<1>4. /\ entries \in [1 .. m.count -> Descriptors \cup {None}]
      /\ \A i \in 1 .. m.count : entries[i] \in {None, manifest[k][i]}
  <2>1. CASE Seen(h, k)
    BY <1>1, <2>1 DEF RegistryInv, PeersOK
  <2>2. CASE ~ Seen(h, k)
    BY <2>2
  <2>. QED  BY <2>1, <2>2
<1>5. /\ news \in [1 .. m.count -> Descriptors \cup {None}]
      /\ \A i \in 1 .. m.count : news[i] \in {None, manifest[k][i]}
  <2>1. CASE m.count = 0
    BY <1>4, <2>1
  <2>2. CASE m.count # 0
    <3>. HIDE DEF entries
    <3>. QED  BY <1>1, <1>2, <1>4, <2>2 DEF Most
  <2>. QED  BY <2>1, <2>2
<1>6. /\ \A j \in Hosts : heard[j] = IF j = k THEN news ELSE peers[h][j]
      /\ \A g, j \in Hosts : peers'[g][j] = IF g = h THEN heard[j] ELSE peers[g][j]
      /\ peers' = [g \in Hosts |-> [j \in Hosts |-> peers'[g][j]]]
  <2>. HIDE DEF news
  <2>1. peers = [g \in Hosts |-> [j \in Hosts |-> peers[g][j]]]
    BY DEF RegistryInv, ShapeOK
  <2>2. peers[h] = [j \in Hosts |-> peers[h][j]]
    BY <1>1, <2>1
  <2>3. heard = [j \in Hosts |-> IF j = k THEN news ELSE peers[h][j]]
    BY <1>1, <2>2
  <2>4. peers' = [g \in Hosts |-> IF g = h THEN heard ELSE peers[g]]
    BY <1>1, <1>3, <2>1
  <2>. QED  BY ZenonT(60), <1>1, <2>1, <2>3, <2>4
<1>. HIDE DEF heard, news
<1>7. PeersOK'
  <2>. SUFFICES ASSUME NEW g \in Hosts, NEW j \in Hosts, peers'[g][j] # None
                PROVE  /\ j # g /\ manifest[j] # None
                       /\ peers'[g][j] \in [1 .. Len(manifest[j]) -> Descriptors \cup {None}]
                       /\ \A i \in 1 .. Len(manifest[j]) : peers'[g][j][i] \in {None, manifest[j][i]}
    BY <1>3 DEF PeersOK, Seen, Installed
  <2>1. CASE g = h /\ j = k
    <3>1. peers'[g][j] = news
      BY <1>6, <2>1
    <3>2. manifest[k] # None
      BY <1>1, NoneAssumption
    <3>. QED  BY <1>1, <1>5, <2>1, <3>1, <3>2
  <2>2. CASE ~ (g = h /\ j = k)
    <3>1. peers'[g][j] = peers[g][j]
      BY <1>6, <2>2
    <3>. QED  BY <3>1 DEF RegistryInv, PeersOK, Seen, Installed
  <2>. QED  BY <2>1, <2>2
<1>8. /\ ready' \in [Hosts -> BOOLEAN] /\ failed' \in [Hosts -> BOOLEAN]
      /\ ReadyOK' /\ FailedOK'
  BY <1>1, <1>3, <1>6, <1>7, CheckKeeps DEF RegistryInv, ShapeOK
<1>9. ShapeOK'
  BY <1>3, <1>6, <1>8 DEF RegistryInv, ShapeOK
<1>10. MessagesOK'
  BY <1>3 DEF RegistryInv, MessagesOK, Installed
<1>11. LaunchedOK'
  BY <1>3, LaunchedStay DEF RegistryInv
<1>. QED  BY <1>7, <1>8, <1>9, <1>10, <1>11 DEF RegistryInv

\* Creating and resolving threads.
LEMMA ThreadsKeep ==
  ASSUME RegistryInv,
         \/ \E h, k \in Hosts : Installed(h) /\ \E i \in DOMAIN manifest[h] : Create(h, k, i)
         \/ \E c \in launched : Resolve(c)
  PROVE  RegistryInv'
<1>1. UNCHANGED <<manifest, peers, ready, failed, net>>
  BY DEF Create, Resolve
<1>2. LaunchedOK'
  <2>1. ASSUME NEW h \in Hosts, NEW k \in Hosts, Installed(h), NEW i \in DOMAIN manifest[h],
               Create(h, k, i)
        PROVE  LaunchedOK'
    BY <1>1, <2>1 DEF Create, RegistryInv, LaunchedOK, ReadyOK, Installed
  <2>2. ASSUME NEW c \in launched, Resolve(c) PROVE LaunchedOK'
    BY <1>1, <2>2 DEF Resolve, RegistryInv, LaunchedOK, Installed
  <2>. QED  BY <2>1, <2>2
<1>3. ShapeOK' /\ MessagesOK' /\ PeersOK' /\ ReadyOK' /\ FailedOK'
  BY <1>1 DEF RegistryInv, ShapeOK, MessagesOK, PeersOK, ReadyOK, FailedOK, Installed, Seen
<1>. QED  BY <1>2, <1>3 DEF RegistryInv

-----------------------------------------------------------------------------
(* The theorems.                                                           *)

\* The invariant holds in every reachable state.
LEMMA RegistryInvariant == Spec => []RegistryInv
<1>1. Init => RegistryInv
  BY DEF Init, RegistryInv, ShapeOK, MessagesOK, PeersOK, ReadyOK, FailedOK, LaunchedOK,
         Installed, Seen
<1>2. RegistryInv /\ [Next]_vars => RegistryInv'
  <2>. SUFFICES ASSUME RegistryInv, [Next]_vars PROVE RegistryInv'
    OBVIOUS
  <2>1. CASE UNCHANGED vars
    BY <2>1 DEF vars, RegistryInv, ShapeOK, MessagesOK, PeersOK, ReadyOK, FailedOK, LaunchedOK,
                Installed, Seen
  <2>. QED  BY <2>1, InstallKeeps, HandleKeeps, ThreadsKeep DEF Next
<1>. QED  BY <1>1, <1>2, PTL DEF Spec

\* A host that reports the rendezvous as complete agrees with every host of the
\* cluster, and none of them reports a failure, now or later.
THEOREM ReadyHostsAgree == Spec => []ReadyAgrees
<1>1. ASSUME RegistryInv PROVE ReadyAgrees
  <2>1. ASSUME NEW h \in Hosts, NEW k \in Hosts, Seen(h, k)
        PROVE  k # h /\ Installed(k) /\ Len(peers[h][k]) = Len(manifest[k])
    <3>1. /\ k # h /\ manifest[k] \in Manifests
          /\ peers[h][k] \in [1 .. Len(manifest[k]) -> Descriptors \cup {None}]
      BY <1>1, <2>1 DEF RegistryInv, ShapeOK, PeersOK, Installed
    <3>2. Len(manifest[k]) \in Nat /\ manifest[k] # None
      BY <3>1, ManifestIsSequence
    <3>. QED  BY <3>1, <3>2 DEF Installed
  <2>2. TypeOK
    BY <1>1, <2>1 DEF RegistryInv, ShapeOK, ReadyOK, TypeOK
  <2>3. ASSUME NEW h \in Hosts, ready[h], NEW k \in Hosts
        PROVE  manifest[k] = manifest[h] /\ ~failed[k]
    BY <1>1, <2>3 DEF RegistryInv, ReadyOK, FailedOK
  <2>. QED  BY <2>2, <2>3 DEF ReadyAgrees
<1>. QED  BY <1>1, RegistryInvariant, PTL

\* A thread created on a ready host can be resolved on the host it is sent to,
\* however far that host has come with its own rendezvous.
THEOREM CreatedThreadsResolve == Spec => []CreatesResolve
<1>1. ASSUME RegistryInv PROVE CreatesResolve
  <2>. SUFFICES ASSUME NEW c \in launched PROVE Resolvable(c)
    BY DEF CreatesResolve
  <2>1. /\ c.home \in Hosts /\ c.target \in Hosts /\ Installed(c.home)
        /\ c.index \in DOMAIN manifest[c.home]
        /\ \A k \in Hosts : manifest[k] = manifest[c.home]
    BY <1>1 DEF RegistryInv, LaunchedOK
  <2>2. ~failed[c.target]
    BY <1>1, <2>1 DEF RegistryInv, FailedOK
  <2>. QED  BY <2>1, <2>2 DEF Resolvable, Installed
<1>. QED  BY <1>1, RegistryInvariant, PTL


=============================================================================
