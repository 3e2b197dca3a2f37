----------------------------- MODULE Coherence -----------------------------
(***************************************************************************)
(* Reads and writes of the blocks of one shared object                     *)
(* (src/loommem/runtime.cpp): the stable-copy loop of ReadRange against    *)
(* the writeback window of a writer, and the two replica indexes of every  *)
(* host.  The token protocol appears as its promise (WriteLease): at most  *)
(* one write session holds the lease of a block.                           *)
(*                                                                         *)
(* A block has two words, so that a torn copy can be told from a whole     *)
(* one.  A write session reads both words, adds one and publishes them,    *)
(* so that the committed contents of version v are <<v, v>> exactly when   *)
(* no update is lost.  Cached reads change nothing and are not steps.      *)
(***************************************************************************)
EXTENDS Integers, FiniteSets, SequencesExt

CONSTANTS
  Hosts, Blocks,
  Sessions,    \* write sessions, each used once
  HostOf,      \* HostOf[w]: the host of session w
  BlockOf,     \* BlockOf[w]: the block it writes
  Raw,         \* sessions that write shared bytes in place (RequestWriteToken)
  MaxReplicas  \* replica_cache_capacity_entries

ASSUME SessionsAssumption ==
  /\ HostOf \in [Sessions -> Hosts]
  /\ BlockOf \in [Sessions -> Blocks]
  /\ Raw \subseteq Sessions
ASSUME BlocksAssumption == Blocks # {} /\ IsFiniteSet(Blocks)
ASSUME MaxReplicasAssumption == MaxReplicas \in Nat \ {0}

None == [version |-> -1, words |-> <<0, 0>>]

VARIABLES
  \* CoherenceBlockDescriptor and the data of each block, in shared memory
  wepoch,    \* writeback_epoch
  version,
  data,
  member,    \* bit h of replica_hosts
  \* each host
  current,   \* replicas_[block]
  old,       \* old_replicas_[block]
  blocks,    \* cached_objects_[object].blocks
  advertised,\* advertised[h][b]: replica_versions[h] of block b, in shared memory
  fill,      \* the ReadRange that holds the object mutex, if any
  \* each write session
  wpc,
  buffer,    \* what the session will publish
  \* specification only
  floor      \* floor[h][b]: the version that a read of b on h must reach

cache == <<member, current, old, blocks, advertised>>
vars == <<wepoch, version, data, cache, fill, wpc, buffer, floor>>

NoFill == [at |-> "idle", block |-> CHOOSE b \in Blocks : TRUE,
           epoch |-> 0, version |-> 0, words |-> <<0, 0>>]

Init ==
  /\ wepoch = [b \in Blocks |-> 0]
  /\ version = [b \in Blocks |-> 0]
  /\ data = [b \in Blocks |-> <<0, 0>>]
  /\ member = [h \in Hosts |-> FALSE]
  /\ current = [h \in Hosts |-> [b \in Blocks |-> None]]
  /\ old = [h \in Hosts |-> [b \in Blocks |-> None]]
  /\ blocks = [h \in Hosts |-> 0]
  /\ advertised = [h \in Hosts |-> [b \in Blocks |-> 0]]
  /\ fill = [h \in Hosts |-> NoFill]
  /\ wpc = [w \in Sessions |-> "idle"]
  /\ buffer = [w \in Sessions |-> <<0, 0>>]
  /\ floor = [h \in Hosts |-> [b \in Blocks |-> 0]]

Odd(n) == n % 2 = 1

\* Sessions that hold the lease of their block.
Holds(w) == wpc[w] \in {"granted", "word1", "word2", "version", "epoch"}
Free(b) == \A w \in Sessions : BlockOf[w] = b => ~Holds(w)

\* The object mutex of h: a fill, a buffered publication or the invalidation
\* after one holds it.
Publishing(w) == wpc[w] \in {"word1", "word2", "version", "epoch", "erase"}
MutexFree(h) ==
  /\ fill[h].at = "idle"
  /\ \A w \in Sessions \ Raw : HostOf[w] = h => ~Publishing(w)

\* The boundary lock of h is held shared by fills and by releases in progress;
\* a raw session takes it only to release.
BoundaryFree(h) ==
  /\ MutexFree(h)
  /\ \A w \in Raw : HostOf[w] = h => wpc[w] \notin {"epoch", "erase"}

-----------------------------------------------------------------------------
(* The replica indexes of a host, always changed under replicas_mutex_.    *)

Entries(c, o) == {<<"current", b>> : b \in {x \in Blocks : c[x] # None}}
                 \cup {<<"old", b>> : b \in {x \in Blocks : o[x] # None}}

\* The host's indexes become c and o, it counts n cached blocks and advertises
\* adv; with the last block its replica_hosts bit goes.
Recache(h, c, o, n, adv) ==
  /\ current' = [current EXCEPT ![h] = c]
  /\ old' = [old EXCEPT ![h] = o]
  /\ blocks' = [blocks EXCEPT ![h] = n]
  /\ advertised' = [advertised EXCEPT ![h] = adv]
  /\ member' = [member EXCEPT ![h] = IF n = 0 THEN FALSE ELSE @ \/ blocks[h] = 0]

\* The indexes without the entries in E.
CurrentWithout(h, E) == [b \in Blocks |-> IF <<"current", b>> \in E THEN None ELSE current[h][b]]
OldWithout(h, E) == [b \in Blocks |-> IF <<"old", b>> \in E THEN None ELSE old[h][b]]

\* Erasing an entry of a block stores zero for it, whatever the index.
Withdrawn(h, E) == [b \in Blocks |-> IF \E e \in E : e[2] = b THEN 0 ELSE advertised[h][b]]

\* EraseReplicaLocked of the entries in E.
Erase(h, E) ==
  Recache(h, CurrentWithout(h, E), OldWithout(h, E), blocks[h] - Cardinality(E),
          Withdrawn(h, E))

Cached(h) == Entries(current[h], old[h])
CachedBlock(h, b) == {e \in Cached(h) : e[2] = b}

\* Mutant of CacheReplica: the version is advertised before the entries it
\* replaces are erased.
CacheReplicaEarly(h, b, replica) ==
  \E victims \in SUBSET (Cached(h) \ CachedBlock(h, b)) :
    LET gone == CachedBlock(h, b) \cup victims IN
    /\ Cardinality(Cached(h) \ gone) + 1 <= MaxReplicas
    /\ Recache(h, [CurrentWithout(h, gone) EXCEPT ![b] = replica], OldWithout(h, gone),
               blocks[h] + 1 - Cardinality(gone),
               IF CachedBlock(h, b) = {} THEN [Withdrawn(h, gone) EXCEPT ![b] = replica.version + 1]
                                         ELSE Withdrawn(h, gone))

\* CacheReplicaLocked: the replica replaces what either index has of the
\* block and its version is advertised, then EvictReplicasLocked drops older
\* entries until the rest fits.  Which entries go is the cache policy's choice
\* (LRU order and byte budget).
CacheReplica(h, b, replica) ==
  \E victims \in SUBSET (Cached(h) \ CachedBlock(h, b)) :
    LET gone == CachedBlock(h, b) \cup victims IN
    /\ Cardinality(Cached(h) \ gone) + 1 <= MaxReplicas
    /\ Recache(h, [CurrentWithout(h, gone) EXCEPT ![b] = replica], OldWithout(h, gone),
               blocks[h] + 1 - Cardinality(gone),
               [Withdrawn(h, gone) EXCEPT ![b] = replica.version + 1])

\* Mutant of SynchronizeAcquire: current survives the boundary.
SynchronizeAcquireLazy(h) ==
  /\ BoundaryFree(h)
  /\ floor' = [floor EXCEPT ![h] = version]
  /\ UNCHANGED <<wepoch, version, data, cache, fill, wpc, buffer>>

\* SynchronizeAcquire: old is dropped, current becomes old.  From here on the
\* host must not read less than what is published now.
SynchronizeAcquire(h) ==
  /\ BoundaryFree(h)
  /\ LET dropped == {e \in Cached(h) : e[1] = "old"} IN
       Recache(h, [b \in Blocks |-> None], current[h], blocks[h] - Cardinality(dropped),
               Withdrawn(h, dropped))
  /\ floor' = [floor EXCEPT ![h] = version]
  /\ UNCHANGED <<wepoch, version, data, fill, wpc, buffer>>

\* InvalidateReadCache.
InvalidateReadCache(h) ==
  /\ MutexFree(h)
  /\ Cached(h) # {}
  /\ Erase(h, Cached(h))
  /\ UNCHANGED <<wepoch, version, data, fill, wpc, buffer, floor>>

-----------------------------------------------------------------------------
(* ReadRange of a block that current does not have.                        *)

Step(h, rec) == fill' = [fill EXCEPT ![h] = rec]
ReadOnly == UNCHANGED <<wepoch, version, data, wpc, buffer>>

\* epoch_before; an odd epoch is retried.
FillEpochBefore(h, b) ==
  /\ MutexFree(h)
  /\ current[h][b] = None
  /\ ~Odd(wepoch[b])
  /\ Step(h, [NoFill EXCEPT !.at = "version", !.block = b, !.epoch = wepoch[b]])
  /\ ReadOnly /\ UNCHANGED <<cache, floor>>

\* version_before; an old replica of that version is reused.
FillVersionBefore(h) ==
  LET b == fill[h].block
      reuse == old[h][b] # None /\ old[h][b].version = version[b]
  IN
  /\ fill[h].at = "version"
  /\ Step(h, [fill[h] EXCEPT !.version = version[b],
                             !.words = IF reuse THEN old[h][b].words ELSE @,
                             !.at = IF reuse THEN "epoch2" ELSE "word1"])
  /\ ReadOnly /\ UNCHANGED <<cache, floor>>

FillWord(h, i) ==
  /\ fill[h].at = <<"word1", "word2">>[i]
  /\ Step(h, [fill[h] EXCEPT !.words[i] = data[fill[h].block][i], !.at = <<"word2", "epoch2">>[i]])
  /\ ReadOnly /\ UNCHANGED <<cache, floor>>

\* Mutant of FillEpochAfter: the second load of the epoch is not compared.
FillEpochUnchecked(h) ==
  /\ fill[h].at = "epoch2"
  /\ Step(h, [fill[h] EXCEPT !.at = "version2"])
  /\ ReadOnly /\ UNCHANGED <<cache, floor>>

\* epoch_after; a changed epoch discards the copy and the loop starts again.
FillEpochAfter(h) ==
  /\ fill[h].at = "epoch2"
  /\ Step(h, IF wepoch[fill[h].block] = fill[h].epoch
               THEN [fill[h] EXCEPT !.at = "version2"] ELSE NoFill)
  /\ ReadOnly /\ UNCHANGED <<cache, floor>>

\* version_after: the copy is accepted, cached and returned.  A later read on
\* this host must not return an older version.
FillAccept(h) ==
  LET b == fill[h].block IN
  /\ fill[h].at = "version2"
  /\ version[b] = fill[h].version
  /\ CacheReplica(h, b, [version |-> fill[h].version, words |-> fill[h].words])
  /\ floor' = [floor EXCEPT ![h][b] = Max({@, fill[h].version})]
  /\ Step(h, NoFill)
  /\ ReadOnly

\* version_after differs, or the read times out.
FillAbandon(h) ==
  /\ fill[h].at # "idle"
  /\ Step(h, NoFill)
  /\ ReadOnly /\ UNCHANGED <<cache, floor>>

-----------------------------------------------------------------------------
(* Write sessions.                                                         *)

Go(w, place) == wpc' = [wpc EXCEPT ![w] = place]

\* AcquireWriteRange copies the shared bytes under the lease.  A raw session
\* opens the writeback window with the grant and works on the shared bytes.
AcquireWrite(w) ==
  LET b == BlockOf[w] IN
  /\ wpc[w] = "idle"
  /\ Free(b)
  /\ wepoch' = IF w \in Raw THEN [wepoch EXCEPT ![b] = @ + 1] ELSE wepoch
  /\ buffer' = [buffer EXCEPT ![w] = <<data[b][1] + 1, data[b][2] + 1>>]
  /\ Go(w, IF w \in Raw THEN "word1" ELSE "granted")
  /\ UNCHANGED <<version, data, cache, fill, floor>>

\* AbortWriteBuffer.
AbortWrite(w) ==
  /\ wpc[w] = "granted"
  /\ Go(w, "done")
  /\ UNCHANGED <<wepoch, version, data, cache, fill, buffer, floor>>

\* ReleaseWriteBuffer takes the object mutex and opens the writeback window.
BeginWriteback(w) ==
  LET b == BlockOf[w] IN
  /\ wpc[w] = "granted"
  /\ MutexFree(HostOf[w])
  /\ ~Odd(wepoch[b])
  /\ wepoch' = [wepoch EXCEPT ![b] = @ + 1]
  /\ Go(w, "word1")
  /\ UNCHANGED <<version, data, cache, fill, buffer, floor>>

StoreWord(w, i) ==
  /\ wpc[w] = <<"word1", "word2">>[i]
  /\ data' = [data EXCEPT ![BlockOf[w]][i] = buffer[w][i]]
  /\ Go(w, <<"word2", "version">>[i])
  /\ UNCHANGED <<wepoch, version, cache, fill, buffer, floor>>

\* Release(lease, true): the version moves, then the window closes and the
\* lease goes.
PublishVersion(w) ==
  /\ wpc[w] = "version"
  /\ version' = [version EXCEPT ![BlockOf[w]] = @ + 1]
  /\ Go(w, "epoch")
  /\ UNCHANGED <<wepoch, data, cache, fill, buffer, floor>>

CloseWindow(w) ==
  /\ wpc[w] = "epoch"
  /\ wepoch' = [wepoch EXCEPT ![BlockOf[w]] = @ + 1]
  /\ Go(w, "erase")
  /\ UNCHANGED <<version, data, cache, fill, buffer, floor>>

\* The host's own replicas of the block go; a raw session takes the object
\* mutex only now.  From here on the host must read its own write.
EraseOwn(w) ==
  LET h == HostOf[w]
      b == BlockOf[w]
  IN
  /\ wpc[w] = "erase"
  /\ w \in Raw => MutexFree(h)
  /\ Erase(h, CachedBlock(h, b))
  /\ floor' = [floor EXCEPT ![h][b] = Max({@, buffer[w][1]})]
  /\ Go(w, "done")
  /\ UNCHANGED <<wepoch, version, data, fill, buffer>>

Reader(h) ==
  \/ \E b \in Blocks : FillEpochBefore(h, b)
  \/ FillVersionBefore(h)
  \/ \E i \in 1 .. 2 : FillWord(h, i)
  \/ FillEpochAfter(h)
  \/ FillAccept(h)
  \/ FillAbandon(h)

Writer(w) ==
  \/ AcquireWrite(w)
  \/ AbortWrite(w)
  \/ BeginWriteback(w)
  \/ \E i \in 1 .. 2 : StoreWord(w, i)
  \/ PublishVersion(w)
  \/ CloseWindow(w)
  \/ EraseOwn(w)

Next ==
  \/ \E h \in Hosts : Reader(h)
  \/ \E w \in Sessions : Writer(w)
  \/ \E h \in Hosts : SynchronizeAcquire(h)
  \/ \E h \in Hosts : InvalidateReadCache(h)

Spec == Init /\ [][Next]_vars

-----------------------------------------------------------------------------
(* Properties.                                                             *)

Replica == [version : Int, words : Int \X Int]

\* The type invariant: epochs, versions and the count of cached blocks of the
\* coherence descriptors and of the replica indexes never go below zero.
TypeOK ==
  /\ wepoch \in [Blocks -> Nat] /\ version \in [Blocks -> Nat]
  /\ data \in [Blocks -> Nat \X Nat]
  /\ member \in [Hosts -> BOOLEAN]
  /\ current \in [Hosts -> [Blocks -> Replica]]
  /\ old \in [Hosts -> [Blocks -> Replica]]
  /\ blocks \in [Hosts -> Nat]
  /\ advertised \in [Hosts -> [Blocks -> Nat]]
  /\ \A h \in Hosts : fill[h].block \in Blocks
  /\ wpc \in [Sessions -> {"idle", "granted", "word1", "word2", "version", "epoch",
                           "erase", "done"}]
  /\ buffer \in [Sessions -> Nat \X Nat]
  /\ floor \in [Hosts -> [Blocks -> Nat]]

\* Every replica holds the whole contents committed under its version: no
\* torn copy, no copy from an open window and no lost update is ever cached.
ReplicasCommitted ==
  /\ TypeOK
  /\ \A h \in Hosts, b \in Blocks :
       \A replica \in {current[h][b], old[h][b]} \ {None} :
         replica.words = <<replica.version, replica.version>>

\* A read served from current is never older than the last acquire boundary
\* of its host, than the host's own writes, or than an earlier read there.
CurrentIsFresh ==
  \A h \in Hosts, b \in Blocks : current[h][b] # None => current[h][b].version >= floor[h][b]

\* What a host publishes about its replicas is exact, through rotation,
\* eviction, replacement and invalidation: replica_hosts names it exactly while
\* it has a cached block, and the version it advertises for a block, which the
\* placement of threads reads (QueryLocality), is one more than that of the
\* only replica it has of the block, and zero when it has none.
DirectoryExact ==
  \A h \in Hosts :
    /\ blocks[h] = Cardinality(Cached(h))
    /\ member[h] <=> blocks[h] > 0
    /\ blocks[h] <= MaxReplicas
    /\ \A b \in Blocks :
         /\ {advertised[h][b]} = IF CachedBlock(h, b) = {} THEN {0}
                                 ELSE {(IF e[1] = "old" THEN old ELSE current)[h][b].version + 1 :
                                         e \in CachedBlock(h, b)}
         /\ Cardinality(CachedBlock(h, b)) <= 1

=============================================================================
