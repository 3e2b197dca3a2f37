--------------------------- MODULE CoherenceProofs ---------------------------
(***************************************************************************)
(* Proofs about Coherence, for every number of hosts, blocks, sessions and *)
(* replicas: no torn or uncommitted copy is ever cached, a read from the   *)
(* current index is never stale, and what a host publishes about its       *)
(* replicas is exact.                                                      *)
(***************************************************************************)
EXTENDS Coherence, FiniteSetTheorems, TLAPS

Places == {"idle", "granted", "word1", "word2", "version", "epoch", "erase", "done"}

FillType == [at : {"idle", "version", "word1", "word2", "epoch2", "version2"}, block : Blocks,
             epoch : Nat, version : Nat, words : Int \X Int]

\* The session has opened the writeback window of its block.
InWindow(w) == wpc[w] \in {"word1", "word2", "version", "epoch"}

Pair(v) == <<v, v>>

\* The shared state and the sessions.
SharedType ==
  /\ wepoch \in [Blocks -> Nat] /\ version \in [Blocks -> Nat] /\ data \in [Blocks -> Nat \X Nat]
  /\ wpc \in [Sessions -> Places] /\ buffer \in [Sessions -> Nat \X Nat]

\* The lease of a block has one holder, and its epoch is odd exactly while a
\* writeback window is open.
LeaseOK ==
  /\ \A w, u \in Sessions : Holds(w) /\ Holds(u) /\ BlockOf[w] = BlockOf[u] => w = u
  /\ \A b \in Blocks : Odd(wepoch[b]) <=> \E w \in Sessions : BlockOf[w] = b /\ InWindow(w)

\* Shared memory holds the contents of the version, but for what the session in
\* the window has stored; the session publishes the next version.
DataOK ==
  /\ \A b \in Blocks :
       (\A w \in Sessions : BlockOf[w] = b => wpc[w] \notin {"word2", "version"})
         => data[b] = Pair(version[b])
  /\ \A w \in Sessions :
       /\ wpc[w] \in {"granted", "word1", "word2", "version"} =>
            buffer[w] = Pair(version[BlockOf[w]] + 1)
       /\ wpc[w] = "word2" => data[BlockOf[w]] = <<version[BlockOf[w]] + 1, version[BlockOf[w]]>>
       /\ wpc[w] = "version" => data[BlockOf[w]] = Pair(version[BlockOf[w]] + 1)
       /\ wpc[w] \in {"epoch", "erase"} => buffer[w][1] <= version[BlockOf[w]]

\* What the read f of a host has copied is the contents of the version it
\* read while the epoch is the one it started with, and for good once it has
\* compared the two.
CopyOK(f) ==
  /\ ~ Odd(f.epoch) /\ f.epoch <= wepoch[f.block]
  /\ wepoch[f.block] = f.epoch =>
       /\ f.at \in {"word1", "word2", "epoch2"} => f.version = version[f.block]
       /\ f.at = "word2" => f.words[1] = f.version
       /\ f.at = "epoch2" => f.words = Pair(f.version)
  /\ f.at = "version2" => f.words = Pair(f.version)

FillOK == fill \in [Hosts -> FillType] /\ \A h \in Hosts : CopyOK(fill[h])

\* A committed replica, or none.
Sound(r) == r \in Replica /\ (r = None \/ (r.version \in Nat /\ r.words = Pair(r.version)))

\* What the indexes c and o make a host advertise for b.
Advertises(c, o, b) ==
  IF c[b] # None THEN c[b].version + 1 ELSE IF o[b] # None THEN o[b].version + 1 ELSE 0

\* The indexes of each host and what it publishes about them.
CacheOK ==
  /\ current \in [Hosts -> [Blocks -> Replica]] /\ old \in [Hosts -> [Blocks -> Replica]]
  /\ \A h \in Hosts, b \in Blocks : /\ Sound(current[h][b]) /\ Sound(old[h][b])
                                    /\ current[h][b] = None \/ old[h][b] = None
  /\ member \in [Hosts -> BOOLEAN] /\ blocks \in [Hosts -> Nat]
  /\ advertised \in [Hosts -> [Blocks -> Nat]]
  /\ \A h \in Hosts :
       /\ blocks[h] = Cardinality(Cached(h)) /\ blocks[h] <= MaxReplicas
       /\ member[h] <=> blocks[h] > 0
       /\ \A b \in Blocks : advertised[h][b] = Advertises(current[h], old[h], b)

\* No read is asked for more than what is published, and current has it.
FloorOK ==
  /\ floor \in [Hosts -> [Blocks -> Nat]]
  /\ \A h \in Hosts, b \in Blocks : /\ floor[h][b] <= version[b]
                                    /\ current[h][b] # None => current[h][b].version >= floor[h][b]

\* The inductive invariant.
CoherenceInv == SharedType /\ LeaseOK /\ DataOK /\ FillOK /\ CacheOK /\ FloorOK

-----------------------------------------------------------------------------
(* Arithmetic and pairs.                                                   *)

\* The greater of two numbers.
LEMMA MaxOfTwo ==
  ASSUME NEW a \in Int, NEW b \in Int
  PROVE  Max({a, b}) = IF a > b THEN a ELSE b
BY DEF Max

\* Opening or closing a window changes the parity of the epoch.
LEMMA OddFlips == \A n \in Nat : Odd(n + 1) <=> ~ Odd(n)
BY DEF Odd

\* Storing one word of a pair.
LEMMA StoredPair ==
  ASSUME NEW p \in Int \X Int, NEW x \in Int
  PROVE  [p EXCEPT ![1] = x] = <<x, p[2]>> /\ [p EXCEPT ![2] = x] = <<p[1], x>>
OBVIOUS

-----------------------------------------------------------------------------
(* What the steps of readers and writers leave alone.                      *)

\* Facts about the state before a step.
LEMMA StateFacts ==
  ASSUME CoherenceInv
  PROVE  /\ wepoch \in [Blocks -> Nat] /\ version \in [Blocks -> Nat]
         /\ data \in [Blocks -> Nat \X Nat]
         /\ wpc \in [Sessions -> Places] /\ buffer \in [Sessions -> Nat \X Nat]
         /\ fill \in [Hosts -> FillType]
         /\ current \in [Hosts -> [Blocks -> Replica]] /\ old \in [Hosts -> [Blocks -> Replica]]
         /\ member \in [Hosts -> BOOLEAN] /\ blocks \in [Hosts -> Nat]
         /\ advertised \in [Hosts -> [Blocks -> Nat]]
         /\ floor \in [Hosts -> [Blocks -> Nat]]
         /\ \A w \in Sessions : BlockOf[w] \in Blocks /\ HostOf[w] \in Hosts
BY SessionsAssumption DEF CoherenceInv, SharedType, FillOK, CacheOK, FloorOK

\* A step that changes no shared state and moves no session.
LEMMA WritersFrame ==
  ASSUME CoherenceInv, UNCHANGED <<wepoch, version, data, wpc, buffer>>
  PROVE  SharedType' /\ LeaseOK' /\ DataOK'
BY DEF CoherenceInv, SharedType, LeaseOK, DataOK, Holds, InWindow, Odd, Pair

\* A step of a writer: what a read has copied stays true as long as the epoch
\* does not move, because version and data only change in an open window.
LEMMA FillFrame ==
  ASSUME CoherenceInv, UNCHANGED fill, wepoch' \in [Blocks -> Nat],
         \A b \in Blocks : wepoch[b] <= wepoch'[b],
         \A b \in Blocks : wepoch'[b] = wepoch[b] /\ ~ Odd(wepoch[b]) => version'[b] = version[b]
  PROVE  FillOK'
<1>1. ASSUME NEW h \in Hosts, NEW f, f = fill[h] PROVE CopyOK(f)'
  <2>1. f \in FillType /\ CopyOK(f)
    BY <1>1 DEF CoherenceInv, FillOK
  <2>2. f.block \in Blocks /\ f.epoch \in Nat
    BY <2>1 DEF FillType
  <2>3. wepoch[f.block] \in Nat /\ wepoch'[f.block] \in Nat
    BY <2>2, StateFacts
  <2>4. ~ Odd(f.epoch) /\ f.epoch <= wepoch'[f.block]
    BY <2>1, <2>2, <2>3 DEF CopyOK
  <2>5. wepoch'[f.block] = f.epoch => wepoch[f.block] = f.epoch /\ version'[f.block] = version[f.block]
    <3>1. f.epoch <= wepoch[f.block] /\ wepoch[f.block] <= wepoch'[f.block]
      BY <2>1, <2>2 DEF CopyOK
    <3>2. wepoch'[f.block] = f.epoch => wepoch[f.block] = f.epoch /\ wepoch'[f.block] = wepoch[f.block]
      BY <2>2, <2>3, <3>1
    <3>. QED  BY <2>2, <2>4, <3>2
  <2>. QED  BY <2>1, <2>4, <2>5 DEF CopyOK, Odd
<1>. QED  BY <1>1 DEF CoherenceInv, FillOK

\* A step of a reader, which copies to f.
LEMMA StepKeeps ==
  ASSUME CoherenceInv, NEW h \in Hosts, NEW f \in FillType, Step(h, f), CopyOK(f),
         UNCHANGED <<wepoch, version>>
  PROVE  FillOK'
<1>1. /\ fill' \in [Hosts -> FillType] /\ fill'[h] = f
      /\ \A k \in Hosts : k # h => fill'[k] = fill[k]
  BY StateFacts DEF Step
<1>2. ASSUME NEW k \in Hosts PROVE CopyOK(fill[k])'
  <2>1. CASE k = h
    BY <1>1, <2>1 DEF CopyOK
  <2>2. CASE k # h
    <3>1. CopyOK(fill[k])
      BY DEF CoherenceInv, FillOK
    <3>. QED  BY <1>1, <2>2, <3>1 DEF CopyOK
  <2>. QED  BY <2>1, <2>2
<1>. QED  BY <1>1, <1>2 DEF FillOK

\* The indexes are left alone.
LEMMA CacheFrame ==
  ASSUME CoherenceInv, UNCHANGED cache
  PROVE  CacheOK'
<1>1. \A h \in Hosts : Cached(h)' = Cached(h)
  BY DEF cache, Cached, Entries
<1>. QED  BY <1>1 DEF CoherenceInv, CacheOK, cache

\* Floors are left alone, versions do not fall, and current gains nothing.
LEMMA FloorFrame ==
  ASSUME CoherenceInv, UNCHANGED floor, version' \in [Blocks -> Nat],
         \A b \in Blocks : version[b] <= version'[b],
         \A h \in Hosts, b \in Blocks : current'[h][b] \in {current[h][b], None}
  PROVE  FloorOK'
<1>1. ASSUME NEW h \in Hosts, NEW b \in Blocks
      PROVE  /\ floor[h][b] <= version'[b]
             /\ current'[h][b] # None => current'[h][b].version >= floor[h][b]
  <2>1. floor[h][b] \in Nat /\ version[b] \in Nat /\ version'[b] \in Nat /\ floor[h][b] <= version[b]
    BY StateFacts DEF CoherenceInv, FloorOK
  <2>2. current'[h][b] # None => current'[h][b] = current[h][b]
    OBVIOUS
  <2>. QED  BY <2>1, <2>2 DEF CoherenceInv, FloorOK
<1>. QED  BY <1>1 DEF CoherenceInv, FloorOK

-----------------------------------------------------------------------------
(* Reading.                                                                *)

\* No read is in progress.
LEMMA NoFillType ==
  ASSUME CoherenceInv
  PROVE  /\ NoFill \in FillType /\ NoFill.at = "idle" /\ NoFill.epoch = 0
         /\ NoFill.words = <<0, 0>> /\ NoFill.block \in Blocks
         /\ CopyOK(NoFill)
<1>1. (CHOOSE b \in Blocks : TRUE) \in Blocks
  BY BlocksAssumption
<1>2. /\ NoFill \in FillType /\ NoFill.at = "idle" /\ NoFill.epoch = 0
      /\ NoFill.words = <<0, 0>> /\ NoFill.block \in Blocks
  BY <1>1 DEF NoFill, FillType
<1>3. wepoch[NoFill.block] \in Nat
  BY <1>2, StateFacts
<1>. QED  BY <1>2, <1>3 DEF CopyOK, Odd

\* A reader that only copies preserves the invariant.
LEMMA CopyStep ==
  ASSUME CoherenceInv, NEW h \in Hosts, NEW f \in FillType, Step(h, f), CopyOK(f),
         ReadOnly, UNCHANGED <<cache, floor>>
  PROVE  CoherenceInv'
<1>1. UNCHANGED <<wepoch, version, data, wpc, buffer, current, floor>>
  BY DEF ReadOnly, cache
<1>2. SharedType' /\ LeaseOK' /\ DataOK'
  BY <1>1, WritersFrame
<1>3. FillOK'
  BY <1>1, StepKeeps
<1>4. CacheOK'
  BY CacheFrame
<1>5. FloorOK'
  <2>1. \A b \in Blocks : version[b] <= version'[b]
    BY <1>1, StateFacts
  <2>2. version' \in [Blocks -> Nat]
    BY <1>1, StateFacts
  <2>. QED  BY <1>1, <2>1, <2>2, FloorFrame
<1>. QED  BY <1>2, <1>3, <1>4, <1>5 DEF CoherenceInv

\* The first load of the epoch.
LEMMA FillEpochBeforeKeeps ==
  ASSUME CoherenceInv, NEW h \in Hosts, NEW b \in Blocks, FillEpochBefore(h, b)
  PROVE  CoherenceInv'
<1>. DEFINE f == [NoFill EXCEPT !.at = "version", !.block = b, !.epoch = wepoch[b]]
<1>1. ~ Odd(wepoch[b]) /\ wepoch[b] \in Nat
  BY StateFacts DEF FillEpochBefore
<1>2. f \in FillType /\ f.at = "version" /\ f.block = b /\ f.epoch = wepoch[b]
  BY <1>1, NoFillType DEF FillType
<1>3. Step(h, f) /\ ReadOnly /\ UNCHANGED <<cache, floor>>
  BY DEF FillEpochBefore
<1>. HIDE DEF f
<1>4. CopyOK(f)
  BY <1>1, <1>2 DEF CopyOK
<1>. QED  BY <1>2, <1>3, <1>4, CopyStep

\* While the epoch is even, shared memory holds the contents of the version.
LEMMA ClosedData ==
  ASSUME CoherenceInv, NEW b \in Blocks, ~ Odd(wepoch[b])
  PROVE  data[b] = Pair(version[b])
<1>1. \A w \in Sessions : BlockOf[w] = b => ~ InWindow(w)
  BY DEF CoherenceInv, LeaseOK
<1>. QED  BY <1>1 DEF CoherenceInv, DataOK, InWindow

\* Facts about the read of a host.
LEMMA FillFacts ==
  ASSUME CoherenceInv, NEW h \in Hosts
  PROVE  /\ fill[h] \in FillType /\ CopyOK(fill[h])
         /\ fill[h].block \in Blocks /\ fill[h].version \in Nat
         /\ fill[h].epoch \in Nat /\ fill[h].words \in Int \X Int
BY DEF CoherenceInv, FillOK, FillType

\* The version is read, and an old replica of it reused.
LEMMA FillVersionBeforeKeeps ==
  ASSUME CoherenceInv, NEW h \in Hosts, FillVersionBefore(h)
  PROVE  CoherenceInv'
<1>. DEFINE b == fill[h].block
            reuse == old[h][b] # None /\ old[h][b].version = version[b]
            words == IF reuse THEN old[h][b].words ELSE fill[h].words
            place == IF reuse THEN "epoch2" ELSE "word1"
            f == [fill[h] EXCEPT !.version = version[b], !.words = words, !.at = place]
<1>1. /\ b \in Blocks /\ version[b] \in Nat /\ fill[h] \in FillType /\ CopyOK(fill[h])
      /\ fill[h].words \in Int \X Int
  BY FillFacts, StateFacts
<1>2. Step(h, f) /\ ReadOnly /\ UNCHANGED <<cache, floor>>
  BY DEF FillVersionBefore
<1>3. /\ words \in Int \X Int /\ place \in {"epoch2", "word1"}
      /\ place = "epoch2" => words = Pair(version[b])
  <2>1. CASE reuse
    <3>1. old[h][b].words = Pair(version[b])
      BY <1>1, <2>1 DEF CoherenceInv, CacheOK, Sound
    <3>2. Pair(version[b]) \in Int \X Int
      BY <1>1 DEF Pair
    <3>. QED  BY <2>1, <3>1, <3>2
  <2>2. CASE ~ reuse
    BY <1>1, <2>2
  <2>. QED  BY <2>1, <2>2
<1>. HIDE DEF words, place
<1>4. /\ f \in FillType /\ f.version = version[b] /\ f.words = words /\ f.at = place
      /\ f.block = b /\ f.epoch = fill[h].epoch
  BY <1>1, <1>3 DEF FillType
<1>. HIDE DEF f
<1>5. CopyOK(f)
  BY <1>1, <1>3, <1>4 DEF CopyOK
<1>. QED  BY <1>2, <1>4, <1>5, CopyStep

\* A word is copied.
LEMMA FillWordKeeps ==
  ASSUME CoherenceInv, NEW h \in Hosts, NEW i \in 1 .. 2, FillWord(h, i)
  PROVE  CoherenceInv'
<1>. DEFINE b == fill[h].block
            v == version[b]
<1>1. /\ b \in Blocks /\ v \in Nat /\ fill[h] \in FillType /\ CopyOK(fill[h])
      /\ fill[h].words \in Int \X Int /\ data[b] \in Nat \X Nat
  BY FillFacts, StateFacts
<1>2. wepoch[b] = fill[h].epoch => data[b] = <<v, v>>
  BY <1>1, ClosedData DEF CopyOK, Pair
<1>3. ReadOnly /\ UNCHANGED <<cache, floor>>
  BY DEF FillWord
<1>4. CASE i = 1
  <2>. DEFINE words == <<data[b][1], fill[h].words[2]>>
              f == [fill[h] EXCEPT !.words = words, !.at = "word2"]
  <2>1. fill[h].at = "word1"
    BY <1>4 DEF FillWord
  <2>2. Step(h, f)
    <3>1. Step(h, [fill[h] EXCEPT !.words = [fill[h].words EXCEPT ![1] = data[b][1]], !.at = "word2"])
      BY <1>4 DEF FillWord
    <3>2. [fill[h].words EXCEPT ![1] = data[b][1]] = <<data[b][1], fill[h].words[2]>>
      BY <1>1, StoredPair
    <3>. QED  BY <3>1, <3>2
  <2>0. words \in Int \X Int /\ words[1] = data[b][1]
    BY <1>1
  <2>. HIDE DEF words
  <2>3. /\ f \in FillType /\ f.version = fill[h].version /\ f.words[1] = data[b][1]
        /\ f.at = "word2" /\ f.block = b /\ f.epoch = fill[h].epoch
    BY <1>1, <2>0 DEF FillType
  <2>. HIDE DEF f
  <2>4. CopyOK(f)
    BY <1>1, <1>2, <2>1, <2>3 DEF CopyOK
  <2>. QED  BY <1>3, <2>2, <2>3, <2>4, CopyStep
<1>5. CASE i = 2
  <2>. DEFINE words == <<fill[h].words[1], data[b][2]>>
              f == [fill[h] EXCEPT !.words = words, !.at = "epoch2"]
  <2>1. fill[h].at = "word2"
    BY <1>5 DEF FillWord
  <2>2. Step(h, f)
    <3>1. Step(h, [fill[h] EXCEPT !.words = [fill[h].words EXCEPT ![2] = data[b][2]], !.at = "epoch2"])
      BY <1>5 DEF FillWord
    <3>2. [fill[h].words EXCEPT ![2] = data[b][2]] = <<fill[h].words[1], data[b][2]>>
      BY <1>1, StoredPair
    <3>. QED  BY <3>1, <3>2
  <2>0. words \in Int \X Int
    BY <1>1
  <2>. HIDE DEF words
  <2>3. /\ f \in FillType /\ f.version = fill[h].version /\ f.words = words
        /\ f.at = "epoch2" /\ f.block = b /\ f.epoch = fill[h].epoch
    BY <1>1, <2>0 DEF FillType
  <2>. HIDE DEF f
  <2>4. CopyOK(f)
    BY <1>1, <1>2, <2>1, <2>3 DEF CopyOK, Pair, words
  <2>. QED  BY <1>3, <2>2, <2>3, <2>4, CopyStep
<1>. QED  BY <1>4, <1>5

\* The epoch is compared.
LEMMA FillEpochAfterKeeps ==
  ASSUME CoherenceInv, NEW h \in Hosts, FillEpochAfter(h)
  PROVE  CoherenceInv'
<1>1. fill[h].at = "epoch2" /\ ReadOnly /\ UNCHANGED <<cache, floor>>
  BY DEF FillEpochAfter
<1>2. CASE wepoch[fill[h].block] = fill[h].epoch
  <2>. DEFINE f == [fill[h] EXCEPT !.at = "version2"]
  <2>1. Step(h, f)
    BY <1>2 DEF FillEpochAfter
  <2>2. /\ f \in FillType /\ f.version = fill[h].version /\ f.words = fill[h].words
        /\ f.at = "version2" /\ f.block = fill[h].block /\ f.epoch = fill[h].epoch
    BY FillFacts DEF FillType
  <2>. HIDE DEF f
  <2>3. CopyOK(f)
    BY <1>1, <1>2, <2>2, FillFacts DEF CopyOK
  <2>. QED  BY <1>1, <2>1, <2>2, <2>3, CopyStep
<1>3. CASE wepoch[fill[h].block] # fill[h].epoch
  <2>1. Step(h, NoFill)
    BY <1>3 DEF FillEpochAfter
  <2>. QED  BY <1>1, <2>1, NoFillType, CopyStep
<1>. QED  BY <1>2, <1>3

\* A read is given up.
LEMMA FillAbandonKeeps ==
  ASSUME CoherenceInv, NEW h \in Hosts, FillAbandon(h)
  PROVE  CoherenceInv'
BY NoFillType, CopyStep DEF FillAbandon


-----------------------------------------------------------------------------
(* The replica indexes.                                                    *)

\* What is an entry, and that there are finitely many.
LEMMA EntriesFacts ==
  ASSUME NEW c, NEW o
  PROVE  /\ \A b \in Blocks : <<"current", b>> \in Entries(c, o) <=> c[b] # None
         /\ \A b \in Blocks : <<"old", b>> \in Entries(c, o) <=> o[b] # None
         /\ \A e \in Entries(c, o) : \E b \in Blocks : e \in {<<"current", b>>, <<"old", b>>}
         /\ IsFiniteSet(Entries(c, o)) /\ Cardinality(Entries(c, o)) \in Nat
<1>1. /\ \A b \in Blocks : <<"current", b>> \in Entries(c, o) <=> c[b] # None
      /\ \A b \in Blocks : <<"old", b>> \in Entries(c, o) <=> o[b] # None
      /\ \A e \in Entries(c, o) : \E b \in Blocks : e \in {<<"current", b>>, <<"old", b>>}
  BY DEF Entries
<1>2. Entries(c, o) \subseteq {"current", "old"} \X Blocks
  BY <1>1
<1>3. IsFiniteSet({"current", "old"})
  <2>1. IsFiniteSet({"old"})
    BY FS_Singleton
  <2>2. {"current", "old"} = {"old"} \cup {"current"}
    OBVIOUS
  <2>. QED  BY <2>1, <2>2, FS_AddElement
<1>4. IsFiniteSet({"current", "old"} \X Blocks)
  BY <1>3, BlocksAssumption, FS_Product
<1>5. IsFiniteSet(Entries(c, o))
  BY <1>2, <1>4, FS_Subset
<1>. QED  BY <1>1, <1>5, FS_CardinalityType

\* Indexes c and o that are sound, and adv, which advertises them exactly.
IndexOK(c, o, adv) ==
  /\ c \in [Blocks -> Replica] /\ o \in [Blocks -> Replica] /\ adv \in [Blocks -> Nat]
  /\ \A b \in Blocks : /\ Sound(c[b]) /\ Sound(o[b]) /\ (c[b] = None \/ o[b] = None)
                       /\ adv[b] = Advertises(c, o, b)

\* New indexes of a host are fine when they are sound and what is published
\* about them is exact.
LEMMA RecacheKeeps ==
  ASSUME CoherenceInv, NEW h \in Hosts, NEW c, NEW o, NEW n \in Nat, NEW adv,
         Recache(h, c, o, n, adv), IndexOK(c, o, adv),
         n = Cardinality(Entries(c, o)), n <= MaxReplicas
  PROVE  /\ CacheOK' /\ current'[h] = c
         /\ \A k \in Hosts : k # h => current'[k] = current[k]
<1>0. c \in [Blocks -> Replica] /\ o \in [Blocks -> Replica] /\ adv \in [Blocks -> Nat]
  BY DEF IndexOK
<1>1. /\ current' \in [Hosts -> [Blocks -> Replica]] /\ old' \in [Hosts -> [Blocks -> Replica]]
      /\ current'[h] = c /\ old'[h] = o
      /\ \A k \in Hosts : k # h => current'[k] = current[k] /\ old'[k] = old[k]
  BY <1>0, StateFacts DEF Recache
<1>2. /\ blocks' \in [Hosts -> Nat] /\ advertised' \in [Hosts -> [Blocks -> Nat]]
      /\ blocks'[h] = n /\ advertised'[h] = adv
      /\ \A k \in Hosts : k # h => blocks'[k] = blocks[k] /\ advertised'[k] = advertised[k]
  BY <1>0, StateFacts DEF Recache
<1>3. /\ member' \in [Hosts -> BOOLEAN] /\ (member'[h] <=> n > 0)
      /\ \A k \in Hosts : k # h => member'[k] = member[k]
  <2>. DEFINE bit == IF n = 0 THEN FALSE ELSE member[h] \/ blocks[h] = 0
  <2>1. member' = [member EXCEPT ![h] = bit]
    BY DEF Recache
  <2>2. bit \in BOOLEAN
    BY StateFacts
  <2>3. bit <=> n > 0
    <3>1. (member[h] <=> blocks[h] > 0) /\ blocks[h] \in Nat
      BY DEF CoherenceInv, CacheOK
    <3>. QED  BY <3>1
  <2>. HIDE DEF bit
  <2>. QED  BY <2>1, <2>2, <2>3, StateFacts
<1>4. ASSUME NEW k \in Hosts, NEW b \in Blocks
      PROVE  /\ Sound(current'[k][b]) /\ Sound(old'[k][b])
             /\ current'[k][b] = None \/ old'[k][b] = None
  <2>1. CASE k = h
    BY <1>1, <2>1 DEF IndexOK
  <2>2. CASE k # h
    BY <1>1, <2>2 DEF CoherenceInv, CacheOK
  <2>. QED  BY <2>1, <2>2
<1>5. ASSUME NEW k \in Hosts
      PROVE  /\ blocks'[k] = Cardinality(Cached(k)') /\ blocks'[k] <= MaxReplicas
             /\ member'[k] <=> blocks'[k] > 0
             /\ \A b \in Blocks : advertised'[k][b] = Advertises(current'[k], old'[k], b)
  <2>1. Cached(k)' = Entries(current'[k], old'[k])
    BY DEF Cached, Entries
  <2>2. CASE k = h
    BY <1>1, <1>2, <1>3, <2>1, <2>2 DEF IndexOK
  <2>3. CASE k # h
    <3>1. Cached(k)' = Cached(k)
      BY <1>1, <2>1, <2>3 DEF Cached
    <3>. QED  BY <1>1, <1>2, <1>3, <2>3, <3>1 DEF CoherenceInv, CacheOK
  <2>. QED  BY <2>2, <2>3
<1>6. CacheOK'
  BY <1>1, <1>2, <1>3, <1>4, <1>5 DEF CacheOK
<1>. QED  BY <1>1, <1>6

\* Facts about the indexes of a host.
LEMMA CacheFacts ==
  ASSUME CoherenceInv, NEW h \in Hosts
  PROVE  /\ current[h] \in [Blocks -> Replica] /\ old[h] \in [Blocks -> Replica]
         /\ advertised[h] \in [Blocks -> Nat]
         /\ blocks[h] = Cardinality(Cached(h)) /\ blocks[h] \in Nat /\ blocks[h] <= MaxReplicas
         /\ \A b \in Blocks :
              /\ Sound(current[h][b]) /\ Sound(old[h][b])
              /\ current[h][b] = None \/ old[h][b] = None
              /\ advertised[h][b] = Advertises(current[h], old[h], b)
         /\ IsFiniteSet(Cached(h))
         /\ \A b \in Blocks : <<"current", b>> \in Cached(h) <=> current[h][b] # None
         /\ \A b \in Blocks : <<"old", b>> \in Cached(h) <=> old[h][b] # None
         /\ \A e \in Cached(h) : \E b \in Blocks : e \in {<<"current", b>>, <<"old", b>>}
<1>1. /\ current[h] \in [Blocks -> Replica] /\ old[h] \in [Blocks -> Replica]
      /\ advertised[h] \in [Blocks -> Nat]
  BY DEF CoherenceInv, CacheOK
<1>2. /\ blocks[h] = Cardinality(Cached(h)) /\ blocks[h] \in Nat /\ blocks[h] <= MaxReplicas
      /\ \A b \in Blocks :
              /\ Sound(current[h][b]) /\ Sound(old[h][b])
              /\ current[h][b] = None \/ old[h][b] = None
              /\ advertised[h][b] = Advertises(current[h], old[h], b)
  BY DEF CoherenceInv, CacheOK
<1>3. /\ IsFiniteSet(Cached(h))
      /\ \A b \in Blocks : <<"current", b>> \in Cached(h) <=> current[h][b] # None
      /\ \A b \in Blocks : <<"old", b>> \in Cached(h) <=> old[h][b] # None
      /\ \A e \in Cached(h) : \E b \in Blocks : e \in {<<"current", b>>, <<"old", b>>}
  BY EntriesFacts DEF Cached
<1>. QED  BY <1>1, <1>2, <1>3

\* No replica is sound.
LEMMA NoneSound == Sound(None) /\ None \in Replica
BY DEF Sound, None, Replica

\* The indexes of a host without some of its entries.
LEMMA WithoutFacts ==
  ASSUME CoherenceInv, NEW h \in Hosts, NEW E \in SUBSET Cached(h)
  PROVE  /\ IndexOK(CurrentWithout(h, E), OldWithout(h, E), Withdrawn(h, E))
         /\ Entries(CurrentWithout(h, E), OldWithout(h, E)) = Cached(h) \ E
         /\ Cardinality(Cached(h) \ E) = blocks[h] - Cardinality(E)
         /\ IsFiniteSet(Cached(h) \ E)
<1>. DEFINE c == CurrentWithout(h, E)
            o == OldWithout(h, E)
            a == Withdrawn(h, E)
<1>1. /\ \A b \in Blocks : /\ c[b] = IF <<"current", b>> \in E THEN None ELSE current[h][b]
                           /\ o[b] = IF <<"old", b>> \in E THEN None ELSE old[h][b]
                           /\ a[b] = IF \E e \in E : e[2] = b THEN 0 ELSE advertised[h][b]
      /\ c = [b \in Blocks |-> c[b]] /\ o = [b \in Blocks |-> o[b]] /\ a = [b \in Blocks |-> a[b]]
  BY DEF CurrentWithout, OldWithout, Withdrawn
<1>2. \A b \in Blocks : c[b] \in Replica /\ o[b] \in Replica
  <2>1. \A b \in Blocks : current[h][b] \in Replica /\ old[h][b] \in Replica
    BY CacheFacts
  <2>. HIDE DEF c, o, a
  <2>. QED  BY <1>1, <2>1, NoneSound
<1>3. \A b \in Blocks : a[b] \in Nat
  <2>1. \A b \in Blocks : advertised[h][b] \in Nat
    BY CacheFacts
  <2>. HIDE DEF c, o, a
  <2>2. \A b \in Blocks : a[b] \in {0, advertised[h][b]}
    BY <1>1
  <2>. QED  BY <2>1, <2>2
<1>. HIDE DEF c, o, a
<1>4. \A b \in Blocks : Sound(c[b]) /\ Sound(o[b]) /\ (c[b] = None \/ o[b] = None)
  BY ZenonT(60), <1>1, CacheFacts, NoneSound
<1>5. ASSUME NEW b \in Blocks PROVE a[b] = Advertises(c, o, b)
  <2>1. /\ current[h][b] = None \/ old[h][b] = None
        /\ advertised[h][b] = Advertises(current[h], old[h], b)
        /\ <<"current", b>> \in Cached(h) <=> current[h][b] # None
        /\ <<"old", b>> \in Cached(h) <=> old[h][b] # None
    BY CacheFacts
  <2>2. CASE <<"current", b>> \in E
    <3>1. a[b] = 0
      <4>1. <<"current", b>>[2] = b
        OBVIOUS
      <4>. QED  BY <1>1, <2>2, <4>1
    <3>. QED  BY <1>1, <2>1, <2>2, <3>1 DEF Advertises
  <2>3. CASE <<"old", b>> \in E
    <3>1. a[b] = 0
      <4>1. <<"old", b>>[2] = b
        OBVIOUS
      <4>. QED  BY <1>1, <2>3, <4>1
    <3>. QED  BY <1>1, <2>1, <2>3, <3>1 DEF Advertises
  <2>4. CASE <<"current", b>> \notin E /\ <<"old", b>> \notin E
    <3>1. ASSUME NEW e \in E PROVE e[2] # b
      <4>1. PICK d \in Blocks : e \in {<<"current", d>>, <<"old", d>>}
        BY CacheFacts
      <4>. QED  BY <2>4, <4>1
    <3>2. a[b] = advertised[h][b] /\ c[b] = current[h][b] /\ o[b] = old[h][b]
      BY <1>1, <2>4, <3>1
    <3>. QED  BY <2>1, <3>2 DEF Advertises
  <2>. QED  BY <2>2, <2>3, <2>4
<1>6. Entries(c, o) = Cached(h) \ E
  <2>1. ASSUME NEW e \in Entries(c, o) PROVE e \in Cached(h) \ E
    <3>1. PICK d \in Blocks : e \in {<<"current", d>>, <<"old", d>>}
      BY EntriesFacts
    <3>2. CASE e = <<"current", d>>
      <4>1. c[d] # None
        BY <3>2, EntriesFacts
      <4>. QED  BY <1>1, <3>2, <4>1, CacheFacts
    <3>3. CASE e = <<"old", d>>
      <4>1. o[d] # None
        BY <3>3, EntriesFacts
      <4>. QED  BY <1>1, <3>3, <4>1, CacheFacts
    <3>. QED  BY <3>1, <3>2, <3>3
  <2>2. ASSUME NEW e \in Cached(h) \ E PROVE e \in Entries(c, o)
    <3>1. PICK d \in Blocks : e \in {<<"current", d>>, <<"old", d>>}
      BY CacheFacts
    <3>2. CASE e = <<"current", d>>
      <4>0. e \notin E /\ current[h][d] # None
        BY <2>2, <3>2, CacheFacts
      <4>1. c[d] # None
        BY <1>1, <3>2, <4>0
      <4>. QED  BY <3>2, <4>1, EntriesFacts
    <3>3. CASE e = <<"old", d>>
      <4>0. e \notin E /\ old[h][d] # None
        BY <2>2, <3>3, CacheFacts
      <4>1. o[d] # None
        BY <1>1, <3>3, <4>0
      <4>. QED  BY <3>3, <4>1, EntriesFacts
    <3>. QED  BY <3>1, <3>2, <3>3
  <2>. QED  BY <2>1, <2>2
<1>7. Cardinality(Cached(h) \ E) = blocks[h] - Cardinality(E) /\ IsFiniteSet(Cached(h) \ E)
  <2>1. Cached(h) \cap E = E
    OBVIOUS
  <2>2. IsFiniteSet(Cached(h)) /\ blocks[h] = Cardinality(Cached(h))
    BY CacheFacts
  <2>. QED  BY <2>1, <2>2, FS_Difference
<1>8. c \in [Blocks -> Replica] /\ o \in [Blocks -> Replica] /\ a \in [Blocks -> Nat]
  BY <1>1, <1>2, <1>3
<1>9. IndexOK(c, o, a)
  BY <1>4, <1>5, <1>8 DEF IndexOK
<1>. QED  BY <1>6, <1>7, <1>9 DEF c, o, a

\* EraseReplicaLocked.
LEMMA EraseKeeps ==
  ASSUME CoherenceInv, NEW h \in Hosts, NEW E \in SUBSET Cached(h), Erase(h, E)
  PROVE  /\ CacheOK' /\ \A b \in Blocks : current'[h][b] =
                          IF <<"current", b>> \in E THEN None ELSE current[h][b]
         /\ \A k \in Hosts : k # h => current'[k] = current[k]
<1>. DEFINE c == CurrentWithout(h, E)
            o == OldWithout(h, E)
            a == Withdrawn(h, E)
            n == blocks[h] - Cardinality(E)
<1>1. Recache(h, c, o, n, a)
  BY DEF Erase
<1>0. \A b \in Blocks : c[b] = IF <<"current", b>> \in E THEN None ELSE current[h][b]
  BY DEF CurrentWithout
<1>2. /\ IndexOK(c, o, a) /\ Entries(c, o) = Cached(h) \ E
      /\ Cardinality(Cached(h) \ E) = n /\ IsFiniteSet(Cached(h) \ E)
  BY WithoutFacts
<1>3. n \in Nat /\ n <= MaxReplicas
  <2>1. blocks[h] \in Nat /\ blocks[h] <= MaxReplicas /\ MaxReplicas \in Nat
    BY CacheFacts, MaxReplicasAssumption
  <2>2. Cardinality(E) \in Nat
    BY CacheFacts, FS_Subset, FS_CardinalityType
  <2>3. n \in Nat
    BY <1>2, FS_CardinalityType
  <2>. QED  BY <2>1, <2>2, <2>3
<1>. HIDE DEF c, o, a, n
<1>4. n = Cardinality(Entries(c, o))
  BY <1>2
<1>5. /\ CacheOK' /\ current'[h] = c
      /\ \A k \in Hosts : k # h => current'[k] = current[k]
  BY <1>1, <1>2, <1>3, <1>4, RecacheKeeps
<1>. QED  BY <1>0, <1>5

\* CacheReplicaLocked of a committed replica.
LEMMA CacheReplicaKeeps ==
  ASSUME CoherenceInv, NEW h \in Hosts, NEW b \in Blocks, NEW r, Sound(r), r # None,
         CacheReplica(h, b, r)
  PROVE  /\ CacheOK' /\ current'[h][b] = r
         /\ \A d \in Blocks : d # b => current'[h][d] \in {current[h][d], None}
         /\ \A k \in Hosts : k # h => current'[k] = current[k]
<1>1. PICK victims \in SUBSET (Cached(h) \ CachedBlock(h, b)) :
        LET gone == CachedBlock(h, b) \cup victims IN
        /\ Cardinality(Cached(h) \ gone) + 1 <= MaxReplicas
        /\ Recache(h, [CurrentWithout(h, gone) EXCEPT ![b] = r], OldWithout(h, gone),
                   blocks[h] + 1 - Cardinality(gone),
                   [Withdrawn(h, gone) EXCEPT ![b] = r.version + 1])
  BY DEF CacheReplica
<1>. DEFINE E == CachedBlock(h, b) \cup victims
            c == CurrentWithout(h, E)
            o == OldWithout(h, E)
            a == Withdrawn(h, E)
            c2 == [c EXCEPT ![b] = r]
            a2 == [a EXCEPT ![b] = r.version + 1]
            n == blocks[h] + 1 - Cardinality(E)
<1>2. Cardinality(Cached(h) \ E) + 1 <= MaxReplicas /\ Recache(h, c2, o, n, a2)
  BY <1>1
<1>3. /\ E \subseteq Cached(h)
      /\ current[h][b] # None => <<"current", b>> \in E
      /\ old[h][b] # None => <<"old", b>> \in E
  BY CacheFacts DEF CachedBlock
<1>. HIDE DEF E
<1>4. /\ IndexOK(c, o, a) /\ Entries(c, o) = Cached(h) \ E
      /\ Cardinality(Cached(h) \ E) = blocks[h] - Cardinality(E) /\ IsFiniteSet(Cached(h) \ E)
  BY <1>3, WithoutFacts
<1>5. /\ \A d \in Blocks : c[d] \in {current[h][d], None}
      /\ c[b] = None /\ o[b] = None
  BY <1>3 DEF CurrentWithout, OldWithout
<1>6. r \in Replica /\ r.version \in Nat
  BY DEF Sound
<1>. HIDE DEF c, o, a
<1>7. /\ c2 \in [Blocks -> Replica] /\ c2[b] = r /\ \A d \in Blocks : d # b => c2[d] = c[d]
      /\ a2 \in [Blocks -> Nat] /\ a2[b] = r.version + 1 /\ \A d \in Blocks : d # b => a2[d] = a[d]
  BY <1>4, <1>6 DEF IndexOK
<1>. HIDE DEF c2, a2
<1>8. Entries(c2, o) = (Cached(h) \ E) \cup {<<"current", b>>} /\ <<"current", b>> \notin Cached(h) \ E
  <2>1. <<"current", b>> \notin Entries(c, o)
    BY <1>5, EntriesFacts
  <2>2. ASSUME NEW e PROVE e \in Entries(c2, o) <=> e \in Entries(c, o) \/ e = <<"current", b>>
    <3>1. ASSUME e \in Entries(c2, o) PROVE e \in Entries(c, o) \/ e = <<"current", b>>
      <4>1. PICK d \in Blocks : e \in {<<"current", d>>, <<"old", d>>}
        BY <3>1, EntriesFacts
      <4>2. CASE e = <<"current", d>>
        <5>1. c2[d] # None
          BY <3>1, <4>2, EntriesFacts
        <5>. QED  BY <1>7, <4>2, <5>1, EntriesFacts
      <4>3. CASE e = <<"old", d>>
        BY <3>1, <4>3, EntriesFacts
      <4>. QED  BY <4>1, <4>2, <4>3
    <3>2. ASSUME e \in Entries(c, o) PROVE e \in Entries(c2, o)
      <4>1. PICK d \in Blocks : e \in {<<"current", d>>, <<"old", d>>}
        BY <3>2, EntriesFacts
      <4>2. CASE e = <<"current", d>>
        <5>1. c[d] # None
          BY <3>2, <4>2, EntriesFacts
        <5>2. c2[d] # None
          BY <1>5, <1>7, <5>1
        <5>. QED  BY <4>2, <5>2, EntriesFacts
      <4>3. CASE e = <<"old", d>>
        BY <3>2, <4>3, EntriesFacts
      <4>. QED  BY <4>1, <4>2, <4>3
    <3>3. <<"current", b>> \in Entries(c2, o)
      BY <1>7, EntriesFacts
    <3>. QED  BY <3>1, <3>2, <3>3
  <2>. QED  BY <1>4, <2>1, <2>2
<1>9. n = Cardinality(Entries(c2, o)) /\ n \in Nat /\ n <= MaxReplicas
  <2>1. Cardinality((Cached(h) \ E) \cup {<<"current", b>>}) = Cardinality(Cached(h) \ E) + 1
    BY <1>4, <1>8, FS_AddElement
  <2>2. Cardinality(Cached(h) \ E) \in Nat /\ blocks[h] \in Nat
    BY <1>4, CacheFacts, FS_CardinalityType
  <2>3. Cardinality(E) \in Nat
    BY <1>3, CacheFacts, FS_Subset, FS_CardinalityType
  <2>4. n = Cardinality(Cached(h) \ E) + 1
    BY <1>4, <2>2, <2>3
  <2>. HIDE DEF n
  <2>. QED  BY <1>2, <1>8, <2>1, <2>2, <2>4
<1>10. IndexOK(c2, o, a2)
  <2>1. ASSUME NEW d \in Blocks
        PROVE  /\ Sound(c2[d]) /\ Sound(o[d]) /\ (c2[d] = None \/ o[d] = None)
               /\ a2[d] = Advertises(c2, o, d)
    <3>1. CASE d = b
      BY <1>4, <1>5, <1>7, <3>1 DEF IndexOK, Advertises
    <3>2. CASE d # b
      BY <1>4, <1>7, <3>2 DEF IndexOK, Advertises
    <3>. QED  BY <3>1, <3>2
  <2>. QED  BY <1>4, <1>7, <2>1 DEF IndexOK
<1>. HIDE DEF n
<1>11. /\ CacheOK' /\ current'[h] = c2
       /\ \A k \in Hosts : k # h => current'[k] = current[k]
  BY <1>2, <1>9, <1>10, RecacheKeeps
<1>. QED  BY <1>5, <1>7, <1>11


\* Moving all of the current index to the old one keeps the number of entries.
LEMMA RotateCardinality ==
  ASSUME NEW c \in [Blocks -> Replica], NEW none, none = [b \in Blocks |-> None]
  PROVE  Cardinality(Entries(none, c)) = Cardinality(Entries(c, none))
<1>. DEFINE S == Entries(c, none)
            T == Entries(none, c)
            f == [e \in S |-> <<"old", e[2]>>]
<1>1. \A b \in Blocks : none[b] = None
  OBVIOUS
<1>2. \A e \in S : \E b \in Blocks : e = <<"current", b>> /\ c[b] # None
  BY <1>1, EntriesFacts
<1>3. \A e \in T : \E b \in Blocks : e = <<"old", b>> /\ c[b] # None
  BY <1>1, EntriesFacts
<1>4. \A b \in Blocks : c[b] # None => <<"current", b>> \in S /\ <<"old", b>> \in T
  BY EntriesFacts
<1>5. IsFiniteSet(S)
  BY EntriesFacts
<1>. HIDE DEF S, T
<1>6. \A e \in S : \E b \in Blocks : e = <<"current", b>> /\ f[e] = <<"old", b>> /\ f[e] \in T
  BY <1>2, <1>4
<1>7. f \in [S -> T]
  BY <1>6
<1>8. \A x, y \in S : f[x] = f[y] => x = y
  BY <1>6
<1>9. \A z \in T : \E x \in S : f[x] = z
  BY <1>3, <1>4, <1>6
<1>. HIDE DEF f
<1>10. f \in Surjection(S, T) /\ f \in Injection(S, T)
  BY <1>7, <1>8, <1>9 DEF Surjection, Injection, IsInjective
<1>. QED  BY <1>5, <1>10, FS_Surjection DEF S, T

\* An acquire boundary.
LEMMA SynchronizeAcquireKeeps ==
  ASSUME CoherenceInv, NEW h \in Hosts, SynchronizeAcquire(h)
  PROVE  CoherenceInv'
<1>. DEFINE E == {e \in Cached(h) : e[1] = "old"}
            none == [b \in Blocks |-> None]
            a == Withdrawn(h, E)
            n == blocks[h] - Cardinality(E)
<1>1. /\ Recache(h, none, current[h], n, a) /\ floor' = [floor EXCEPT ![h] = version]
      /\ UNCHANGED <<wepoch, version, data, fill, wpc, buffer>>
  BY DEF SynchronizeAcquire
<1>2. /\ E \in SUBSET Cached(h)
      /\ \A b \in Blocks : <<"current", b>> \notin E
      /\ \A b \in Blocks : old[h][b] # None => <<"old", b>> \in E
  BY CacheFacts
<1>3. CurrentWithout(h, E) = current[h] /\ OldWithout(h, E) = none
  <2>1. current[h] = [b \in Blocks |-> current[h][b]]
    BY CacheFacts
  <2>2. \A b \in Blocks : (IF <<"current", b>> \in E THEN None ELSE current[h][b]) = current[h][b]
    BY <1>2
  <2>3. \A b \in Blocks : (IF <<"old", b>> \in E THEN None ELSE old[h][b]) = None
    BY <1>2
  <2>. HIDE DEF E
  <2>4. CurrentWithout(h, E) = [b \in Blocks |-> current[h][b]]
    BY <2>2 DEF CurrentWithout
  <2>5. OldWithout(h, E) = none
    BY <2>3 DEF OldWithout
  <2>. QED  BY <2>1, <2>4, <2>5
<1>. HIDE DEF E
<1>4. /\ IndexOK(current[h], none, a) /\ Entries(current[h], none) = Cached(h) \ E
      /\ Cardinality(Cached(h) \ E) = n /\ IsFiniteSet(Cached(h) \ E)
  BY <1>2, <1>3, WithoutFacts
<1>5. n \in Nat /\ n <= MaxReplicas
  <2>1. blocks[h] \in Nat /\ blocks[h] <= MaxReplicas /\ MaxReplicas \in Nat
    BY CacheFacts, MaxReplicasAssumption
  <2>2. Cardinality(E) \in Nat
    BY <1>2, CacheFacts, FS_Subset, FS_CardinalityType
  <2>3. n \in Nat
    BY <1>4, FS_CardinalityType
  <2>. QED  BY <2>1, <2>2, <2>3
<1>6. \A b \in Blocks : none[b] = None
  OBVIOUS
<1>7. current[h] \in [Blocks -> Replica] /\ none = [b \in Blocks |-> None]
  BY CacheFacts
<1>. HIDE DEF none, a, n
<1>13. Cardinality(Entries(none, current[h])) = Cardinality(Entries(current[h], none))
  BY <1>7, RotateCardinality
<1>14. n = Cardinality(Entries(none, current[h]))
  BY <1>4, <1>13
<1>8. IndexOK(none, current[h], a)
  BY <1>4, <1>6 DEF IndexOK, Advertises
<1>9. /\ CacheOK' /\ current'[h] = none
      /\ \A k \in Hosts : k # h => current'[k] = current[k]
  BY <1>1, <1>5, <1>8, <1>14, RecacheKeeps
<1>10. SharedType' /\ LeaseOK' /\ DataOK'
  BY <1>1, WritersFrame
<1>11. FillOK'
  <2>1. wepoch' \in [Blocks -> Nat] /\ \A b \in Blocks : wepoch[b] <= wepoch'[b]
    BY <1>1, StateFacts
  <2>. QED  BY <1>1, <2>1, FillFrame
<1>12. FloorOK'
  <2>1. /\ floor' \in [Hosts -> [Blocks -> Nat]] /\ floor'[h] = version
        /\ \A k \in Hosts : k # h => floor'[k] = floor[k]
    BY <1>1, StateFacts
  <2>2. ASSUME NEW k \in Hosts, NEW b \in Blocks
        PROVE  /\ floor'[k][b] <= version'[b]
               /\ current'[k][b] # None => current'[k][b].version >= floor'[k][b]
    <3>1. CASE k = h
      BY <1>1, <1>6, <1>9, <2>1, <3>1, StateFacts
    <3>2. CASE k # h
      BY <1>1, <1>9, <2>1, <3>2 DEF CoherenceInv, FloorOK
    <3>. QED  BY <3>1, <3>2
  <2>. QED  BY <2>1, <2>2 DEF FloorOK
<1>. QED  BY <1>9, <1>10, <1>11, <1>12 DEF CoherenceInv

\* The host drops all its replicas.
LEMMA InvalidateReadCacheKeeps ==
  ASSUME CoherenceInv, NEW h \in Hosts, InvalidateReadCache(h)
  PROVE  CoherenceInv'
<1>1. /\ Erase(h, Cached(h)) /\ Cached(h) \in SUBSET Cached(h)
      /\ UNCHANGED <<wepoch, version, data, fill, wpc, buffer, floor>>
  BY DEF InvalidateReadCache
<1>2. /\ CacheOK' /\ \A b \in Blocks : current'[h][b] =
                       IF <<"current", b>> \in Cached(h) THEN None ELSE current[h][b]
      /\ \A k \in Hosts : k # h => current'[k] = current[k]
  BY <1>1, EraseKeeps
<1>3. SharedType' /\ LeaseOK' /\ DataOK'
  BY <1>1, WritersFrame
<1>4. FillOK'
  <2>1. wepoch' \in [Blocks -> Nat] /\ \A b \in Blocks : wepoch[b] <= wepoch'[b]
    BY <1>1, StateFacts
  <2>. QED  BY <1>1, <2>1, FillFrame
<1>5. FloorOK'
  <2>1. version' \in [Blocks -> Nat] /\ \A b \in Blocks : version[b] <= version'[b]
    BY <1>1, StateFacts
  <2>2. \A k \in Hosts, b \in Blocks : current'[k][b] \in {current[k][b], None}
    BY <1>2
  <2>. QED  BY <1>1, <2>1, <2>2, FloorFrame
<1>. QED  BY <1>2, <1>3, <1>4, <1>5 DEF CoherenceInv

\* A copy is accepted: it is whole and of the version that is published.
LEMMA FillAcceptKeeps ==
  ASSUME CoherenceInv, NEW h \in Hosts, FillAccept(h)
  PROVE  CoherenceInv'
<1>. DEFINE b == fill[h].block
            v == fill[h].version
            r == [version |-> v, words |-> fill[h].words]
<1>1. /\ b \in Blocks /\ v \in Nat /\ version[b] = v /\ CacheReplica(h, b, r) /\ Step(h, NoFill)
      /\ floor' = [floor EXCEPT ![h] = [floor[h] EXCEPT ![b] = Max({floor[h][b], v})]]
      /\ UNCHANGED <<wepoch, version, data, wpc, buffer>>
  BY FillFacts DEF FillAccept, ReadOnly
<1>2. Sound(r) /\ r # None /\ r.version = v
  <2>1. fill[h].words = Pair(v) /\ fill[h].words \in Int \X Int
    BY FillFacts DEF FillAccept, CopyOK
  <2>2. r.version = v /\ r.words = Pair(v) /\ r \in Replica
    BY <1>1, <2>1 DEF Replica
  <2>3. None.version = -1
    BY DEF None
  <2>. QED  BY <1>1, <2>2, <2>3 DEF Sound
<1>. HIDE DEF r, b, v
<1>3. /\ CacheOK' /\ current'[h][b] = r
      /\ \A d \in Blocks : d # b => current'[h][d] \in {current[h][d], None}
      /\ \A k \in Hosts : k # h => current'[k] = current[k]
  BY <1>1, <1>2, CacheReplicaKeeps
<1>4. SharedType' /\ LeaseOK' /\ DataOK'
  BY <1>1, WritersFrame
<1>5. FillOK'
  BY <1>1, NoFillType, StepKeeps
<1>6. FloorOK'
  <2>1. floor[h][b] \in Nat /\ floor[h][b] <= v /\ floor[h] \in [Blocks -> Nat]
    BY <1>1, StateFacts DEF CoherenceInv, FloorOK
  <2>2. Max({floor[h][b], v}) = v
    <3>1. floor[h][b] \in Int /\ v \in Int
      BY <1>1, <2>1
    <3>2. Max({floor[h][b], v}) = IF floor[h][b] > v THEN floor[h][b] ELSE v
      BY <3>1, MaxOfTwo
    <3>. QED  BY <2>1, <3>1, <3>2
  <2>3. /\ floor' \in [Hosts -> [Blocks -> Nat]] /\ floor'[h][b] = v
        /\ \A d \in Blocks : d # b => floor'[h][d] = floor[h][d]
        /\ \A k \in Hosts : k # h => floor'[k] = floor[k]
    <3>. DEFINE g == [floor[h] EXCEPT ![b] = v]
    <3>1. g \in [Blocks -> Nat] /\ g[b] = v /\ \A d \in Blocks : d # b => g[d] = floor[h][d]
      BY <1>1, <2>1
    <3>2. floor' = [floor EXCEPT ![h] = g]
      BY <1>1, <2>2
    <3>. HIDE DEF g
    <3>. QED  BY <3>1, <3>2, StateFacts
  <2>4. ASSUME NEW k \in Hosts, NEW d \in Blocks
        PROVE  /\ floor'[k][d] <= version'[d]
               /\ current'[k][d] # None => current'[k][d].version >= floor'[k][d]
    <3>1. /\ floor[k][d] <= version[d]
          /\ current[k][d] # None => current[k][d].version >= floor[k][d]
      BY DEF CoherenceInv, FloorOK
    <3>2. CASE k = h /\ d = b
      BY <1>1, <1>2, <1>3, <2>3, <3>2
    <3>3. CASE k = h /\ d # b
      <4>1. current'[h][d] # None => current'[h][d] = current[h][d]
        BY <1>3, <3>3
      <4>. QED  BY <1>1, <2>3, <3>1, <3>3, <4>1
    <3>4. CASE k # h
      BY <1>1, <1>3, <2>3, <3>1, <3>4
    <3>. QED  BY <3>2, <3>3, <3>4
  <2>. QED  BY <2>3, <2>4 DEF FloorOK
<1>. QED  BY <1>3, <1>4, <1>5, <1>6 DEF CoherenceInv

-----------------------------------------------------------------------------
(* Writing.                                                                *)

WindowPlaces == {"word1", "word2", "version", "epoch"}

\* A session that has the lease of b, or gets it, moves on.
LEMMA WriterStep ==
  ASSUME CoherenceInv, NEW w \in Sessions, NEW place \in Places, Go(w, place),
         NEW b, b = BlockOf[w], Holds(w) \/ Free(b),
         wepoch' \in [Blocks -> Nat], version' \in [Blocks -> Nat],
         data' \in [Blocks -> Nat \X Nat], buffer' \in [Sessions -> Nat \X Nat],
         \A d \in Blocks : d # b => /\ wepoch'[d] = wepoch[d] /\ version'[d] = version[d]
                                    /\ data'[d] = data[d],
         \A u \in Sessions : u # w => buffer'[u] = buffer[u],
         version[b] <= version'[b],
         (place \in WindowPlaces <=> InWindow(w)) => wepoch'[b] = wepoch[b],
         ~ (place \in WindowPlaces <=> InWindow(w)) => wepoch'[b] = wepoch[b] + 1,
         version'[b] = version[b] \/ InWindow(w),
         place \notin {"word2", "version"} => data'[b] = Pair(version'[b]),
         place \in {"granted", "word1", "word2", "version"} => buffer'[w] = Pair(version'[b] + 1),
         place = "word2" => data'[b] = <<version'[b] + 1, version'[b]>>,
         place = "version" => data'[b] = Pair(version'[b] + 1),
         place \in {"epoch", "erase"} => buffer'[w][1] <= version'[b],
         UNCHANGED <<cache, fill, floor>>
  PROVE  CoherenceInv'
<1>1. /\ wpc' \in [Sessions -> Places] /\ wpc'[w] = place
      /\ \A u \in Sessions : u # w => wpc'[u] = wpc[u]
  BY StateFacts DEF Go
<1>2. b \in Blocks /\ \A u \in Sessions : u # w /\ BlockOf[u] = b => ~ Holds(u)
  BY StateFacts DEF CoherenceInv, LeaseOK, Free
<1>3. /\ \A u \in Sessions : u # w => (Holds(u)' <=> Holds(u)) /\ (InWindow(u)' <=> InWindow(u))
      /\ InWindow(w)' <=> place \in WindowPlaces
      /\ \A u \in Sessions : InWindow(u) => Holds(u)
  BY <1>1 DEF Holds, InWindow, WindowPlaces
<1>4. wepoch[b] \in Nat /\ version[b] \in Nat /\ wepoch'[b] \in Nat
  BY <1>2, StateFacts
<1>5. Odd(wepoch[b]) <=> InWindow(w)
  BY <1>2, <1>3 DEF CoherenceInv, LeaseOK
<1>6. Odd(wepoch'[b]) <=> InWindow(w)'
  <2>1. CASE place \in WindowPlaces <=> InWindow(w)
    <3>1. wepoch'[b] = wepoch[b]
      BY <2>1
    <3>. QED  BY <1>3, <1>5, <2>1, <3>1
  <2>2. CASE ~ (place \in WindowPlaces <=> InWindow(w))
    <3>1. wepoch'[b] = wepoch[b] + 1
      BY <2>2
    <3>2. Odd(wepoch'[b]) <=> ~ Odd(wepoch[b])
      BY <1>4, <3>1, OddFlips
    <3>. QED  BY <1>3, <1>5, <2>2, <3>2
  <2>. QED  BY <2>1, <2>2
<1>7. LeaseOK'
  <2>1. ASSUME NEW x \in Sessions, NEW u \in Sessions, Holds(x)', Holds(u)', BlockOf[x] = BlockOf[u]
        PROVE  x = u
    BY <1>2, <1>3, <2>1 DEF CoherenceInv, LeaseOK
  <2>2. ASSUME NEW d \in Blocks
        PROVE  Odd(wepoch'[d]) <=> \E u \in Sessions : BlockOf[u] = d /\ InWindow(u)'
    <3>1. CASE d = b
      BY <1>2, <1>3, <1>6, <3>1
    <3>2. CASE d # b
      <4>1. wepoch'[d] = wepoch[d]
        BY <3>2
      <4>2. \A u \in Sessions : BlockOf[u] = d => u # w
        BY <3>2
      <4>3. Odd(wepoch[d]) <=> \E u \in Sessions : BlockOf[u] = d /\ InWindow(u)
        BY DEF CoherenceInv, LeaseOK
      <4>. QED  BY <1>3, <4>1, <4>2, <4>3
    <3>. QED  BY <3>1, <3>2
  <2>. QED  BY <2>1, <2>2 DEF LeaseOK, Odd
<1>8. DataOK'
  <2>1. ASSUME NEW d \in Blocks,
               \A u \in Sessions : BlockOf[u] = d => wpc'[u] \notin {"word2", "version"}
        PROVE  data'[d] = Pair(version'[d])
    <3>1. CASE d = b
      BY <1>1, <2>1, <3>1
    <3>2. CASE d # b
      <4>1. data'[d] = data[d] /\ version'[d] = version[d]
        BY <3>2
      <4>2. \A u \in Sessions : BlockOf[u] = d => wpc[u] \notin {"word2", "version"}
        BY <1>1, <2>1, <3>2
      <4>. QED  BY <4>1, <4>2 DEF CoherenceInv, DataOK
    <3>. QED  BY <3>1, <3>2
  <2>2. ASSUME NEW u \in Sessions, NEW d, d = BlockOf[u]
        PROVE  /\ wpc'[u] \in {"granted", "word1", "word2", "version"} => buffer'[u] = Pair(version'[d] + 1)
               /\ wpc'[u] = "word2" => data'[d] = <<version'[d] + 1, version'[d]>>
               /\ wpc'[u] = "version" => data'[d] = Pair(version'[d] + 1)
               /\ wpc'[u] \in {"epoch", "erase"} => buffer'[u][1] <= version'[d]
    <3>1. CASE u = w
      BY <1>1, <2>2, <3>1
    <3>2. CASE u # w
      <4>1. /\ wpc'[u] = wpc[u] /\ buffer'[u] = buffer[u] /\ d \in Blocks
            /\ wpc[u] \in {"granted", "word1", "word2", "version"} => buffer[u] = Pair(version[d] + 1)
            /\ wpc[u] = "word2" => data[d] = <<version[d] + 1, version[d]>>
            /\ wpc[u] = "version" => data[d] = Pair(version[d] + 1)
            /\ wpc[u] \in {"epoch", "erase"} => buffer[u][1] <= version[d]
        BY <1>1, <2>2, <3>2, StateFacts DEF CoherenceInv, DataOK
      <4>2. CASE d # b
        BY <4>1, <4>2
      <4>3. CASE d = b
        <5>1. wpc[u] \notin {"granted", "word1", "word2", "version", "epoch"}
          BY <1>2, <2>2, <3>2, <4>3 DEF Holds
        <5>2. buffer[u][1] \in Nat /\ version'[d] \in Nat /\ version[d] \in Nat
          BY <4>1, StateFacts
        <5>. QED  BY <4>1, <4>3, <5>1, <5>2
      <4>. QED  BY <4>2, <4>3
    <3>. QED  BY <3>1, <3>2
  <2>. QED  BY <2>1, <2>2 DEF DataOK, Pair
<1>9. SharedType'
  BY <1>1 DEF SharedType
<1>10. FillOK'
  <2>1. ASSUME NEW d \in Blocks PROVE wepoch[d] <= wepoch'[d]
    <3>1. wepoch[d] \in Nat
      BY StateFacts
    <3>2. CASE d = b
      <4>1. wepoch'[b] = wepoch[b] \/ wepoch'[b] = wepoch[b] + 1
        OBVIOUS
      <4>. QED  BY <3>1, <3>2, <4>1
    <3>3. CASE d # b
      <4>1. wepoch'[d] = wepoch[d]
        BY <3>3
      <4>. QED  BY <3>1, <4>1
    <3>. QED  BY <3>2, <3>3
  <2>2. \A d \in Blocks : wepoch'[d] = wepoch[d] /\ ~ Odd(wepoch[d]) => version'[d] = version[d]
    BY <1>5
  <2>. QED  BY <2>1, <2>2, FillFrame
<1>11. CacheOK'
  BY CacheFrame
<1>12. FloorOK'
  <2>1. ASSUME NEW d \in Blocks PROVE version[d] <= version'[d]
    <3>1. version[d] \in Nat
      BY StateFacts
    <3>2. CASE d = b
      BY <3>2
    <3>3. CASE d # b
      <4>1. version'[d] = version[d]
        BY <3>3
      <4>. QED  BY <3>1, <4>1
    <3>. QED  BY <3>2, <3>3
  <2>2. \A h \in Hosts, d \in Blocks : current'[h][d] \in {current[h][d], None}
    BY DEF cache
  <2>. QED  BY <2>1, <2>2, FloorFrame
<1>. QED  BY <1>7, <1>8, <1>9, <1>10, <1>11, <1>12 DEF CoherenceInv


\* What is known of the block of a session.
LEMMA WriterFacts ==
  ASSUME CoherenceInv, NEW w \in Sessions, NEW b, b = BlockOf[w]
  PROVE  /\ b \in Blocks /\ wepoch[b] \in Nat /\ version[b] \in Nat
         /\ data[b] \in Nat \X Nat /\ buffer[w] \in Nat \X Nat
         /\ Free(b) \/ wpc[w] \in {"granted", "word1", "epoch"} => data[b] = Pair(version[b])
         /\ wpc[w] \in {"granted", "word1", "word2", "version"} => buffer[w] = Pair(version[b] + 1)
         /\ wpc[w] = "word2" => data[b] = <<version[b] + 1, version[b]>>
         /\ wpc[w] = "version" => data[b] = Pair(version[b] + 1)
         /\ wpc[w] \in {"epoch", "erase"} => buffer[w][1] <= version[b]
<1>1. b \in Blocks
  BY StateFacts
<1>2. /\ wepoch[b] \in Nat /\ version[b] \in Nat /\ data[b] \in Nat \X Nat
      /\ buffer[w] \in Nat \X Nat
  BY <1>1, StateFacts
<1>3. ASSUME Free(b) \/ wpc[w] \in {"granted", "word1", "epoch"}
      PROVE  data[b] = Pair(version[b])
  <2>1. \A u \in Sessions : BlockOf[u] = b => wpc[u] \notin {"word2", "version"}
    <3>1. CASE Free(b)
      BY <3>1 DEF Free, Holds
    <3>2. CASE wpc[w] \in {"granted", "word1", "epoch"}
      BY <3>2 DEF CoherenceInv, LeaseOK, Holds
    <3>. QED  BY <1>3, <3>1, <3>2
  <2>. QED  BY <1>1, <2>1 DEF CoherenceInv, DataOK
<1>4. /\ wpc[w] \in {"granted", "word1", "word2", "version"} => buffer[w] = Pair(version[b] + 1)
      /\ wpc[w] = "word2" => data[b] = <<version[b] + 1, version[b]>>
      /\ wpc[w] = "version" => data[b] = Pair(version[b] + 1)
      /\ wpc[w] \in {"epoch", "erase"} => buffer[w][1] <= version[b]
  BY DEF CoherenceInv, DataOK
<1>. QED  BY <1>1, <1>2, <1>3, <1>4

\* A grant: the session copies the contents of the version.
LEMMA AcquireWriteKeeps ==
  ASSUME CoherenceInv, NEW w \in Sessions, AcquireWrite(w)
  PROVE  CoherenceInv'
<1>. DEFINE b == BlockOf[w]
            place == IF w \in Raw THEN "word1" ELSE "granted"
<1>1. /\ wpc[w] = "idle" /\ Free(b) /\ Go(w, place)
      /\ wepoch' = IF w \in Raw THEN [wepoch EXCEPT ![b] = @ + 1] ELSE wepoch
      /\ buffer' = [buffer EXCEPT ![w] = <<data[b][1] + 1, data[b][2] + 1>>]
      /\ UNCHANGED <<version, data, cache, fill, floor>>
  BY DEF AcquireWrite
<1>2. /\ b \in Blocks /\ wepoch[b] \in Nat /\ version[b] \in Nat /\ data[b] \in Nat \X Nat
      /\ data[b] = <<version[b], version[b]>>
  BY <1>1, WriterFacts DEF Pair
<1>3. place \in {"word1", "granted"} /\ (place = "word1" <=> w \in Raw)
  OBVIOUS
<1>. HIDE DEF place, b
<1>4. /\ wepoch' \in [Blocks -> Nat] /\ \A d \in Blocks : d # b => wepoch'[d] = wepoch[d]
      /\ wepoch'[b] = IF w \in Raw THEN wepoch[b] + 1 ELSE wepoch[b]
  BY <1>1, <1>2, StateFacts
<1>5. /\ buffer' \in [Sessions -> Nat \X Nat] /\ \A u \in Sessions : u # w => buffer'[u] = buffer[u]
      /\ buffer'[w] = Pair(version'[b] + 1)
  <2>1. data[b][1] + 1 = version[b] + 1 /\ data[b][2] + 1 = version[b] + 1
    BY <1>2
  <2>2. buffer' = [buffer EXCEPT ![w] = <<version[b] + 1, version[b] + 1>>]
    BY <1>1, <2>1
  <2>3. <<version[b] + 1, version[b] + 1>> \in Nat \X Nat
    BY <1>2
  <2>. QED  BY <1>1, <2>2, <2>3, StateFacts DEF Pair
<1>6. /\ version' \in [Blocks -> Nat] /\ data' \in [Blocks -> Nat \X Nat]
      /\ version[b] <= version'[b] /\ version' = version /\ data' = data
      /\ data'[b] = Pair(version'[b])
  BY <1>1, <1>2, StateFacts DEF Pair
<1>7. ~ InWindow(w) /\ place \in Places /\ (place \in WindowPlaces <=> w \in Raw)
  BY <1>1, <1>3 DEF InWindow, Places, WindowPlaces
<1>8. place \notin {"word2", "version", "epoch", "erase"}
  BY <1>3
<1>9. /\ ((place \in WindowPlaces <=> InWindow(w)) => wepoch'[b] = wepoch[b])
      /\ (~ (place \in WindowPlaces <=> InWindow(w)) => wepoch'[b] = wepoch[b] + 1)
  BY <1>4, <1>7
<1>. QED  BY <1>1, <1>4, <1>5, <1>6, <1>7, <1>8, <1>9, WriterStep DEF b

\* The session gives the lease back without a change.
LEMMA AbortWriteKeeps ==
  ASSUME CoherenceInv, NEW w \in Sessions, AbortWrite(w)
  PROVE  CoherenceInv'
<1>. DEFINE b == BlockOf[w]
<1>1. /\ wpc[w] = "granted" /\ Go(w, "done")
      /\ UNCHANGED <<wepoch, version, data, buffer>> /\ UNCHANGED <<cache, fill, floor>>
  BY DEF AbortWrite
<1>2. b \in Blocks /\ version[b] \in Nat /\ data[b] = Pair(version[b])
  BY <1>1, WriterFacts
<1>. HIDE DEF b
<1>3. /\ wepoch' \in [Blocks -> Nat] /\ version' \in [Blocks -> Nat]
      /\ data' \in [Blocks -> Nat \X Nat] /\ buffer' \in [Sessions -> Nat \X Nat]
  BY <1>1, StateFacts
<1>4. Holds(w) /\ ~ InWindow(w) /\ "done" \notin WindowPlaces /\ "done" \in Places
  BY <1>1 DEF Holds, InWindow, Places, WindowPlaces
<1>5. version[b] <= version'[b] /\ data'[b] = Pair(version'[b])
  BY <1>1, <1>2
<1>. QED  BY <1>1, <1>3, <1>4, <1>5, WriterStep DEF b

\* The writeback window opens.
LEMMA BeginWritebackKeeps ==
  ASSUME CoherenceInv, NEW w \in Sessions, BeginWriteback(w)
  PROVE  CoherenceInv'
<1>. DEFINE b == BlockOf[w]
<1>1. /\ wpc[w] = "granted" /\ Go(w, "word1") /\ wepoch' = [wepoch EXCEPT ![b] = @ + 1]
      /\ UNCHANGED <<version, data, buffer>> /\ UNCHANGED <<cache, fill, floor>>
  BY DEF BeginWriteback
<1>2. /\ b \in Blocks /\ wepoch[b] \in Nat /\ version[b] \in Nat /\ data[b] = Pair(version[b])
      /\ buffer[w] = Pair(version[b] + 1)
  BY <1>1, WriterFacts
<1>. HIDE DEF b
<1>3. /\ version' \in [Blocks -> Nat]
      /\ data' \in [Blocks -> Nat \X Nat] /\ buffer' \in [Sessions -> Nat \X Nat]
  BY <1>1, StateFacts
<1>4. /\ wepoch' \in [Blocks -> Nat] /\ wepoch'[b] = wepoch[b] + 1
      /\ \A d \in Blocks : d # b => wepoch'[d] = wepoch[d]
  BY <1>1, <1>2, StateFacts
<1>5. Holds(w) /\ ~ InWindow(w) /\ "word1" \in WindowPlaces /\ "word1" \in Places
  BY <1>1 DEF Holds, InWindow, Places, WindowPlaces
<1>6. /\ version[b] <= version'[b] /\ data'[b] = Pair(version'[b])
      /\ buffer'[w] = Pair(version'[b] + 1)
  BY <1>1, <1>2
<1>. QED  BY <1>1, <1>3, <1>4, <1>5, <1>6, WriterStep DEF b

\* A word is written back.
LEMMA StoreWordKeeps ==
  ASSUME CoherenceInv, NEW w \in Sessions, NEW i \in 1 .. 2, StoreWord(w, i)
  PROVE  CoherenceInv'
<1>. DEFINE b == BlockOf[w]
            v == version[b]
<1>0. UNCHANGED <<wepoch, version, buffer>> /\ UNCHANGED <<cache, fill, floor>>
  BY DEF StoreWord
<1>1. /\ b \in Blocks /\ v \in Nat /\ data[b] \in Nat \X Nat
      /\ wpc[w] \in {"word1", "word2"} => buffer[w] = <<v + 1, v + 1>>
      /\ wpc[w] = "word1" => data[b] = <<v, v>>
      /\ wpc[w] = "word2" => data[b] = <<v + 1, v>>
  BY WriterFacts DEF Pair
<1>2. /\ wepoch' \in [Blocks -> Nat] /\ version' \in [Blocks -> Nat]
      /\ buffer' \in [Sessions -> Nat \X Nat] /\ v <= version'[b]
  BY <1>0, <1>1, StateFacts
<1>3. CASE i = 1
  <2>1. wpc[w] = "word1" /\ Go(w, "word2")
    BY <1>3 DEF StoreWord
  <2>2. data' = [data EXCEPT ![b] = <<v + 1, v>>]
    <3>0. data' = [data EXCEPT ![b] = [data[b] EXCEPT ![1] = buffer[w][1]]]
      BY <1>3 DEF StoreWord
    <3>1. data' = [data EXCEPT ![b] = [data[b] EXCEPT ![1] = v + 1]]
      <4>1. buffer[w][1] = v + 1
        BY <1>1, <2>1
      <4>. QED  BY <3>0, <4>1
    <3>2. [data[b] EXCEPT ![1] = v + 1] = <<v + 1, data[b][2]>> /\ data[b][2] = v
      BY <1>1, <2>1, StoredPair
    <3>. QED  BY <3>1, <3>2
  <2>3. /\ data' \in [Blocks -> Nat \X Nat] /\ data'[b] = <<v + 1, v>>
        /\ \A d \in Blocks : d # b => data'[d] = data[d]
    <3>1. <<v + 1, v>> \in Nat \X Nat
      BY <1>1
    <3>. QED  BY <1>1, <2>2, <3>1, StateFacts
  <2>4. Holds(w) /\ InWindow(w) /\ "word2" \in WindowPlaces /\ "word2" \in Places
    BY <2>1 DEF Holds, InWindow, Places, WindowPlaces
  <2>5. buffer'[w] = Pair(version'[b] + 1) /\ data'[b] = <<version'[b] + 1, version'[b]>>
    BY <1>0, <1>1, <2>1, <2>3 DEF Pair
  <2>. HIDE DEF b, v
  <2>. QED  BY <1>0, <1>2, <2>1, <2>3, <2>4, <2>5, WriterStep DEF b, v
<1>4. CASE i = 2
  <2>1. wpc[w] = "word2" /\ Go(w, "version")
    BY <1>4 DEF StoreWord
  <2>2. data' = [data EXCEPT ![b] = <<v + 1, v + 1>>]
    <3>0. data' = [data EXCEPT ![b] = [data[b] EXCEPT ![2] = buffer[w][2]]]
      BY <1>4 DEF StoreWord
    <3>1. data' = [data EXCEPT ![b] = [data[b] EXCEPT ![2] = v + 1]]
      <4>1. buffer[w][2] = v + 1
        BY <1>1, <2>1
      <4>. QED  BY <3>0, <4>1
    <3>2. [data[b] EXCEPT ![2] = v + 1] = <<data[b][1], v + 1>> /\ data[b][1] = v + 1
      BY <1>1, <2>1, StoredPair
    <3>. QED  BY <3>1, <3>2
  <2>3. /\ data' \in [Blocks -> Nat \X Nat] /\ data'[b] = <<v + 1, v + 1>>
        /\ \A d \in Blocks : d # b => data'[d] = data[d]
    <3>1. <<v + 1, v + 1>> \in Nat \X Nat
      BY <1>1
    <3>. QED  BY <1>1, <2>2, <3>1, StateFacts
  <2>4. Holds(w) /\ InWindow(w) /\ "version" \in WindowPlaces /\ "version" \in Places
    BY <2>1 DEF Holds, InWindow, Places, WindowPlaces
  <2>5. buffer'[w] = Pair(version'[b] + 1) /\ data'[b] = Pair(version'[b] + 1)
    BY <1>0, <1>1, <2>1, <2>3 DEF Pair
  <2>. HIDE DEF b, v
  <2>. QED  BY <1>0, <1>2, <2>1, <2>3, <2>4, <2>5, WriterStep DEF b, v
<1>. QED  BY <1>3, <1>4

\* The version moves to the contents that are already there.
LEMMA PublishVersionKeeps ==
  ASSUME CoherenceInv, NEW w \in Sessions, PublishVersion(w)
  PROVE  CoherenceInv'
<1>. DEFINE b == BlockOf[w]
<1>1. /\ wpc[w] = "version" /\ Go(w, "epoch") /\ version' = [version EXCEPT ![b] = @ + 1]
      /\ UNCHANGED <<wepoch, data, buffer>> /\ UNCHANGED <<cache, fill, floor>>
  BY DEF PublishVersion
<1>2. /\ b \in Blocks /\ version[b] \in Nat /\ data[b] = Pair(version[b] + 1)
      /\ buffer[w] = Pair(version[b] + 1)
  BY <1>1, WriterFacts
<1>. HIDE DEF b
<1>3. /\ wepoch' \in [Blocks -> Nat]
      /\ data' \in [Blocks -> Nat \X Nat] /\ buffer' \in [Sessions -> Nat \X Nat]
  BY <1>1, StateFacts
<1>4. /\ version' \in [Blocks -> Nat] /\ version'[b] = version[b] + 1
      /\ \A d \in Blocks : d # b => version'[d] = version[d]
  BY <1>1, <1>2, StateFacts
<1>5. Holds(w) /\ InWindow(w) /\ "epoch" \in WindowPlaces /\ "epoch" \in Places
  BY <1>1 DEF Holds, InWindow, Places, WindowPlaces
<1>6. version[b] <= version'[b] /\ data'[b] = Pair(version'[b]) /\ buffer'[w][1] <= version'[b]
  BY <1>1, <1>2, <1>4 DEF Pair
<1>. QED  BY <1>1, <1>3, <1>4, <1>5, <1>6, WriterStep DEF b

\* The writeback window closes and the lease goes.
LEMMA CloseWindowKeeps ==
  ASSUME CoherenceInv, NEW w \in Sessions, CloseWindow(w)
  PROVE  CoherenceInv'
<1>. DEFINE b == BlockOf[w]
<1>1. /\ wpc[w] = "epoch" /\ Go(w, "erase") /\ wepoch' = [wepoch EXCEPT ![b] = @ + 1]
      /\ UNCHANGED <<version, data, buffer>> /\ UNCHANGED <<cache, fill, floor>>
  BY DEF CloseWindow
<1>2. /\ b \in Blocks /\ wepoch[b] \in Nat /\ version[b] \in Nat /\ data[b] = Pair(version[b])
      /\ buffer[w][1] <= version[b]
  BY <1>1, WriterFacts
<1>. HIDE DEF b
<1>3. /\ version' \in [Blocks -> Nat]
      /\ data' \in [Blocks -> Nat \X Nat] /\ buffer' \in [Sessions -> Nat \X Nat]
  BY <1>1, StateFacts
<1>4. /\ wepoch' \in [Blocks -> Nat] /\ wepoch'[b] = wepoch[b] + 1
      /\ \A d \in Blocks : d # b => wepoch'[d] = wepoch[d]
  BY <1>1, <1>2, StateFacts
<1>5. Holds(w) /\ InWindow(w) /\ "erase" \notin WindowPlaces /\ "erase" \in Places
  BY <1>1 DEF Holds, InWindow, Places, WindowPlaces
<1>6. /\ version[b] <= version'[b] /\ data'[b] = Pair(version'[b])
      /\ buffer'[w][1] <= version'[b]
  BY <1>1, <1>2
<1>. QED  BY <1>1, <1>3, <1>4, <1>5, <1>6, WriterStep DEF b

\* The host's own replicas of the block go, and it must read its own write.
LEMMA EraseOwnKeeps ==
  ASSUME CoherenceInv, NEW w \in Sessions, EraseOwn(w)
  PROVE  CoherenceInv'
<1>. DEFINE h == HostOf[w]
            b == BlockOf[w]
            m == Max({floor[h][b], buffer[w][1]})
<1>1. /\ wpc[w] = "erase" /\ Go(w, "done") /\ Erase(h, CachedBlock(h, b))
      /\ floor' = [floor EXCEPT ![h] = [floor[h] EXCEPT ![b] = m]]
      /\ UNCHANGED <<wepoch, version, data, fill, buffer>>
  BY DEF EraseOwn
<1>2. /\ h \in Hosts /\ b \in Blocks /\ buffer[w] \in Nat \X Nat /\ buffer[w][1] <= version[b]
      /\ version[b] \in Nat
  BY <1>1, WriterFacts, StateFacts
<1>3. m \in Nat /\ m <= version[b]
  <2>1. floor[h][b] \in Nat /\ floor[h][b] <= version[b]
    BY <1>2, StateFacts DEF CoherenceInv, FloorOK
  <2>2. floor[h][b] \in Int /\ buffer[w][1] \in Int /\ buffer[w][1] \in Nat
    BY <1>2, <2>1
  <2>3. m = IF floor[h][b] > buffer[w][1] THEN floor[h][b] ELSE buffer[w][1]
    BY <2>2, MaxOfTwo
  <2>. QED  BY <1>2, <2>1, <2>2, <2>3
<1>. HIDE DEF h, b, m
<1>4. /\ CachedBlock(h, b) \in SUBSET Cached(h)
      /\ current[h][b] # None => <<"current", b>> \in CachedBlock(h, b)
  BY <1>2, CacheFacts DEF CachedBlock
<1>5. /\ CacheOK'
      /\ \A d \in Blocks : current'[h][d] =
           IF <<"current", d>> \in CachedBlock(h, b) THEN None ELSE current[h][d]
      /\ \A k \in Hosts : k # h => current'[k] = current[k]
  BY <1>1, <1>2, <1>4, EraseKeeps
<1>6. /\ current'[h][b] = None
      /\ \A k \in Hosts, d \in Blocks : current'[k][d] \in {current[k][d], None}
  BY <1>2, <1>4, <1>5
<1>7. /\ wpc' \in [Sessions -> Places] /\ wpc'[w] = "done"
      /\ \A u \in Sessions : u # w => wpc'[u] = wpc[u]
  BY <1>1, StateFacts DEF Go, Places
<1>8. SharedType'
  BY <1>1, <1>7 DEF CoherenceInv, SharedType
<1>9. LeaseOK'
  <2>1. \A u \in Sessions : (Holds(u)' <=> Holds(u)) /\ (InWindow(u)' <=> InWindow(u))
    BY <1>1, <1>7 DEF Holds, InWindow
  <2>. QED  BY <1>1, <2>1 DEF CoherenceInv, LeaseOK, Odd
<1>10. DataOK'
  <2>1. \A u \in Sessions : wpc'[u] = wpc[u] \/ (wpc[u] = "erase" /\ wpc'[u] = "done")
    BY <1>1, <1>7
  <2>. QED  BY <1>1, <2>1 DEF CoherenceInv, DataOK, Pair
<1>11. FillOK'
  <2>1. wepoch' \in [Blocks -> Nat] /\ \A d \in Blocks : wepoch[d] <= wepoch'[d]
    BY <1>1, StateFacts
  <2>. QED  BY <1>1, <2>1, FillFrame
<1>12. FloorOK'
  <2>1. /\ floor' \in [Hosts -> [Blocks -> Nat]] /\ floor'[h][b] = m
        /\ \A d \in Blocks : d # b => floor'[h][d] = floor[h][d]
        /\ \A k \in Hosts : k # h => floor'[k] = floor[k]
    <3>. DEFINE g == [floor[h] EXCEPT ![b] = m]
    <3>0. floor[h] \in [Blocks -> Nat]
      BY <1>2, StateFacts
    <3>1. g \in [Blocks -> Nat] /\ g[b] = m /\ \A d \in Blocks : d # b => g[d] = floor[h][d]
      BY <1>2, <1>3, <3>0
    <3>2. floor' = [floor EXCEPT ![h] = g]
      BY <1>1
    <3>. HIDE DEF g
    <3>. QED  BY <1>2, <3>1, <3>2, StateFacts
  <2>2. ASSUME NEW k \in Hosts, NEW d \in Blocks
        PROVE  /\ floor'[k][d] <= version'[d]
               /\ current'[k][d] # None => current'[k][d].version >= floor'[k][d]
    <3>1. /\ floor[k][d] <= version[d]
          /\ current[k][d] # None => current[k][d].version >= floor[k][d]
      BY DEF CoherenceInv, FloorOK
    <3>2. CASE k = h /\ d = b
      BY <1>1, <1>3, <1>6, <2>1, <3>2
    <3>3. CASE ~ (k = h /\ d = b)
      <4>1. floor'[k][d] = floor[k][d] /\ version'[d] = version[d]
        BY <1>1, <2>1, <3>3
      <4>2. current'[k][d] # None => current'[k][d] = current[k][d]
        BY <1>6
      <4>. QED  BY <3>1, <4>1, <4>2
    <3>. QED  BY <3>2, <3>3
  <2>. QED  BY <2>1, <2>2 DEF FloorOK
<1>. QED  BY <1>5, <1>8, <1>9, <1>10, <1>11, <1>12 DEF CoherenceInv

-----------------------------------------------------------------------------
(* The invariant and the theorems.                                         *)

\* Nothing is cached and nobody writes.
LEMMA InitInv == Init => CoherenceInv
<1>. SUFFICES ASSUME Init PROVE CoherenceInv
  OBVIOUS
<1>1. SharedType
  BY DEF Init, SharedType, Places
<1>2. LeaseOK
  BY SessionsAssumption DEF Init, LeaseOK, Holds, InWindow, Odd
<1>3. DataOK
  BY SessionsAssumption DEF Init, DataOK, Pair
<1>4. FillOK
  <2>1. (CHOOSE b \in Blocks : TRUE) \in Blocks
    BY BlocksAssumption
  <2>2. /\ NoFill \in FillType /\ NoFill.at = "idle" /\ NoFill.epoch = 0 /\ NoFill.block \in Blocks
    BY <2>1 DEF NoFill, FillType
  <2>3. wepoch[NoFill.block] = 0
    BY <2>2 DEF Init
  <2>4. CopyOK(NoFill)
    BY <2>2, <2>3 DEF CopyOK, Odd
  <2>. QED  BY <2>2, <2>4 DEF Init, FillOK
<1>5. CacheOK
  <2>1. ASSUME NEW h \in Hosts
        PROVE  /\ current[h] = [b \in Blocks |-> None] /\ old[h] = [b \in Blocks |-> None]
               /\ blocks[h] = 0 /\ member[h] = FALSE /\ advertised[h] = [b \in Blocks |-> 0]
               /\ Cached(h) = {}
    BY DEF Init, Cached, Entries
  <2>2. ASSUME NEW h \in Hosts PROVE Cardinality(Cached(h)) = 0
    BY <2>1, FS_EmptySet
  <2>3. /\ current \in [Hosts -> [Blocks -> Replica]] /\ old \in [Hosts -> [Blocks -> Replica]]
        /\ member \in [Hosts -> BOOLEAN] /\ blocks \in [Hosts -> Nat]
        /\ advertised \in [Hosts -> [Blocks -> Nat]]
    BY NoneSound DEF Init
  <2>4. ASSUME NEW h \in Hosts, NEW b \in Blocks
        PROVE  /\ Sound(current[h][b]) /\ Sound(old[h][b])
               /\ current[h][b] = None \/ old[h][b] = None
               /\ advertised[h][b] = Advertises(current[h], old[h], b)
    BY <2>1, NoneSound DEF Advertises
  <2>5. ASSUME NEW h \in Hosts
        PROVE  /\ blocks[h] = Cardinality(Cached(h)) /\ blocks[h] <= MaxReplicas
               /\ member[h] <=> blocks[h] > 0
    <3>1. blocks[h] = 0 /\ blocks[h] = Cardinality(Cached(h))
      BY <2>1, <2>2
    <3>2. ~ member[h]
      BY DEF Init
    <3>. QED  BY <3>1, <3>2, MaxReplicasAssumption
  <2>. QED  BY <2>3, <2>4, <2>5 DEF CacheOK
<1>6. FloorOK
  BY DEF Init, FloorOK
<1>. QED  BY <1>1, <1>2, <1>3, <1>4, <1>5, <1>6 DEF CoherenceInv

\* Every step of readers and writers, and every boundary, preserves it.
LEMMA NextInv == CoherenceInv /\ [Next]_vars => CoherenceInv'
<1>. SUFFICES ASSUME CoherenceInv, [Next]_vars PROVE CoherenceInv'
  OBVIOUS
<1>1. CASE UNCHANGED vars
  <2>1. /\ UNCHANGED <<wepoch, version, data, wpc, buffer>> /\ UNCHANGED <<current, fill, floor>>
        /\ UNCHANGED cache
    BY <1>1 DEF vars, cache
  <2>2. /\ wepoch' \in [Blocks -> Nat] /\ version' \in [Blocks -> Nat]
        /\ \A b \in Blocks : wepoch[b] <= wepoch'[b] /\ version[b] <= version'[b]
    BY <2>1, StateFacts
  <2>3. FillOK'
    BY <2>1, <2>2, FillFrame
  <2>4. FloorOK'
    BY <2>1, <2>2, FloorFrame
  <2>. QED  BY <2>1, <2>3, <2>4, WritersFrame, CacheFrame DEF CoherenceInv
<1>2. ASSUME NEW h \in Hosts, Reader(h) PROVE CoherenceInv'
  BY <1>2, FillEpochBeforeKeeps, FillVersionBeforeKeeps, FillWordKeeps, FillEpochAfterKeeps,
     FillAcceptKeeps, FillAbandonKeeps DEF Reader
<1>3. ASSUME NEW w \in Sessions, Writer(w) PROVE CoherenceInv'
  BY <1>3, AcquireWriteKeeps, AbortWriteKeeps, BeginWritebackKeeps, StoreWordKeeps,
     PublishVersionKeeps, CloseWindowKeeps, EraseOwnKeeps DEF Writer
<1>. QED  BY <1>1, <1>2, <1>3, SynchronizeAcquireKeeps, InvalidateReadCacheKeeps DEF Next

\* The invariant holds in every reachable state.
LEMMA CoherenceInvHolds == Spec => []CoherenceInv
BY InitInv, NextInv, PTL DEF Spec

\* The state has the types of the model.
LEMMA InvTyped == CoherenceInv => TypeOK
<1>. SUFFICES ASSUME CoherenceInv PROVE TypeOK
  OBVIOUS
<1>1. \A h \in Hosts : fill[h].block \in Blocks
  BY FillFacts
<1>. QED  BY <1>1, StateFacts DEF TypeOK, Places

\* The entries that a host has of a block: at most one, in one of the indexes.
LEMMA BlockEntries ==
  ASSUME CoherenceInv, NEW h \in Hosts, NEW b \in Blocks
  PROVE  \/ /\ CachedBlock(h, b) = {} /\ current[h][b] = None /\ old[h][b] = None
         \/ CachedBlock(h, b) = {<<"current", b>>} /\ current[h][b] # None
         \/ CachedBlock(h, b) = {<<"old", b>>} /\ current[h][b] = None /\ old[h][b] # None
<1>1. /\ current[h][b] = None \/ old[h][b] = None
      /\ <<"current", b>> \in Cached(h) <=> current[h][b] # None
      /\ <<"old", b>> \in Cached(h) <=> old[h][b] # None
  BY CacheFacts
<1>2. \A e : e \in CachedBlock(h, b) <=> e \in Cached(h) /\ e \in {<<"current", b>>, <<"old", b>>}
  <2>1. ASSUME NEW e \in Cached(h), e[2] = b PROVE e \in {<<"current", b>>, <<"old", b>>}
    <3>1. PICK d \in Blocks : e \in {<<"current", d>>, <<"old", d>>}
      BY CacheFacts
    <3>. QED  BY <2>1, <3>1
  <2>2. <<"current", b>>[2] = b /\ <<"old", b>>[2] = b
    OBVIOUS
  <2>. QED  BY <2>1, <2>2 DEF CachedBlock
<1>. QED  BY <1>1, <1>2

\* No read caches a torn copy, a copy of an open writeback window or of a lost
\* update (ReadRange against ReleaseWriteBuffer and RequestWriteToken), for
\* every number of hosts, blocks and sessions.
THEOREM ReplicasAreCommitted == Spec => []ReplicasCommitted
<1>1. ASSUME CoherenceInv PROVE ReplicasCommitted
  <2>1. ASSUME NEW h \in Hosts, NEW b \in Blocks,
               NEW replica \in {current[h][b], old[h][b]} \ {None}
        PROVE  replica.words = <<replica.version, replica.version>>
    <3>1. Sound(replica) /\ replica # None
      BY <1>1, CacheFacts
    <3>. QED  BY <3>1 DEF Sound, Pair
  <2>. QED  BY <1>1, <2>1, InvTyped DEF ReplicasCommitted
<1>. QED  BY <1>1, CoherenceInvHolds, PTL

\* A read served from replicas_ is never older than the last acquire boundary
\* of its host, than the host's own writes, or than an earlier read there.
THEOREM CurrentStaysFresh == Spec => []CurrentIsFresh
<1>1. CoherenceInv => CurrentIsFresh
  BY DEF CoherenceInv, FloorOK, CurrentIsFresh
<1>. QED  BY <1>1, CoherenceInvHolds, PTL

\* What a host publishes about its replicas, replica_hosts and replica_versions,
\* is exact through rotation, eviction, replacement and invalidation.
THEOREM DirectoryStaysExact == Spec => []DirectoryExact
<1>1. ASSUME CoherenceInv PROVE DirectoryExact
  <2>1. ASSUME NEW h \in Hosts
        PROVE  /\ blocks[h] = Cardinality(Cached(h)) /\ (member[h] <=> blocks[h] > 0)
               /\ blocks[h] <= MaxReplicas
    BY <1>1 DEF CoherenceInv, CacheOK
  <2>2. ASSUME NEW h \in Hosts, NEW b \in Blocks
        PROVE  /\ {advertised[h][b]} =
                    IF CachedBlock(h, b) = {} THEN {0}
                    ELSE {(IF e[1] = "old" THEN old ELSE current)[h][b].version + 1 :
                            e \in CachedBlock(h, b)}
               /\ Cardinality(CachedBlock(h, b)) <= 1
    <3>0. advertised[h][b] = Advertises(current[h], old[h], b)
      BY <1>1, CacheFacts
    <3>1. CASE CachedBlock(h, b) = {} /\ current[h][b] = None /\ old[h][b] = None
      <4>1. Cardinality(CachedBlock(h, b)) = 0
        BY <3>1, FS_EmptySet
      <4>. QED  BY <3>0, <3>1, <4>1 DEF Advertises
    <3>2. CASE CachedBlock(h, b) = {<<"current", b>>} /\ current[h][b] # None
      <4>1. Cardinality(CachedBlock(h, b)) = 1
        BY <3>2, FS_Singleton
      <4>2. {(IF e[1] = "old" THEN old ELSE current)[h][b].version + 1 : e \in {<<"current", b>>}}
              = {current[h][b].version + 1}
        OBVIOUS
      <4>. QED  BY <3>0, <3>2, <4>1, <4>2 DEF Advertises
    <3>3. CASE CachedBlock(h, b) = {<<"old", b>>} /\ current[h][b] = None /\ old[h][b] # None
      <4>1. Cardinality(CachedBlock(h, b)) = 1
        BY <3>3, FS_Singleton
      <4>2. {(IF e[1] = "old" THEN old ELSE current)[h][b].version + 1 : e \in {<<"old", b>>}}
              = {old[h][b].version + 1}
        OBVIOUS
      <4>. QED  BY <3>0, <3>3, <4>1, <4>2 DEF Advertises
    <3>. QED  BY <1>1, <3>1, <3>2, <3>3, BlockEntries
  <2>. QED  BY <2>1, <2>2 DEF DirectoryExact
<1>. QED  BY <1>1, CoherenceInvHolds, PTL


=============================================================================
