---------------------------- MODULE MemoryProofs ----------------------------
(***************************************************************************)
(* Proofs about two parts of LoomMem that share no state.                  *)
(*                                                                         *)
(* Extents, for every number of slots and nodes and pools of every size    *)
(* and alignment: every byte of a pool belongs to one free extent or to    *)
(* one object, and free extents never touch.                               *)
(*                                                                         *)
(* WriteRange, for every number of hosts, contexts, blocks and             *)
(* acquisitions: a context keeps the leases it collected or staged until   *)
(* it releases them, and no error path leaks a token.                      *)
(***************************************************************************)
EXTENDS Extents, WriteRange, FiniteSetTheorems, SequenceTheorems, TLAPS

-----------------------------------------------------------------------------
(* The extent pools of Extents.                                            *)

Covers(e, n) == e.offset <= n /\ n < End(e)

\* F is a set of free extents of pool p that are apart from each other.
FreeOK(F, p) ==
  /\ F \subseteq Extent /\ IsFiniteSet(F)
  /\ \A e \in F : End(e) <= PoolBytes[p]
  /\ \A e, d \in F : e # d => ~Overlap(e, d)
  /\ \A e, d \in F : End(e) # d.offset

\* The objects o[s] of the slots S have extents of pool p apart from each
\* other and from the free ones.
ObjectsOK(F, S, o, p) ==
  /\ \A s \in S : o[s][p] \in Extent /\ End(o[s][p]) <= PoolBytes[p]
  /\ \A s, t \in S : s # t => ~Overlap(o[s][p], o[t][p])
  /\ \A e \in F : \A s \in S : ~Overlap(e, o[s][p])

\* No byte of pool p is lost.
Complete(F, S, o, p) ==
  \A n \in Nat : n < PoolBytes[p] =>
    (\E e \in F : Covers(e, n)) \/ (\E s \in S : Covers(o[s][p], n))

Whole(F, S, o, p) == FreeOK(F, p) /\ ObjectsOK(F, S, o, p) /\ Complete(F, S, o, p)

\* The inductive invariant: a retirement is that of a live object, nodes are
\* enough for the free extents, and both pools are whole.
ExtentsInv ==
  /\ DOMAIN free = Pools
  /\ DOMAIN object = Slots
  /\ \A s \in Live : object[s] \in [Pools -> Extent]
  /\ retiring \in Live \cup {NoSlot}
  /\ Unused(free) >= 0
  /\ \A p \in Pools : Whole(free[p], Live, object, p)

-----------------------------------------------------------------------------
(* The operators.                                                          *)

LEMMA AlignUpBound ==
  ASSUME NEW n \in Nat, NEW a \in Nat \ {0}
  PROVE  AlignUp(n, a) \in Nat /\ AlignUp(n, a) >= n
<1> DEFINE q == (n + a - 1) \div a
           r == (n + a - 1) % a
<1>1. q \in Nat /\ r \in Nat /\ r < a
  OBVIOUS
<1>2. n + a - 1 = a * q + r
  OBVIOUS
<1>3. q * a = a * q /\ a * q \in Nat
  BY <1>1
<1>4. q * a >= n
  <2> HIDE DEF q, r
  <2> QED BY <1>1, <1>2, <1>3
<1> QED
  BY <1>3, <1>4 DEF AlignUp

\* Records with the same fields are equal.
LEMMA SameExtent ==
  ASSUME NEW e \in Extent, NEW d \in Extent, e.offset = d.offset, End(e) = End(d)
  PROVE  e = d
<1>1. e.bytes \in Nat /\ d.bytes \in Nat /\ e.offset \in Nat
  BY DEF Extent
<1>2. e.bytes = d.bytes
  BY <1>1 DEF End
<1> QED
  BY <1>2 DEF Extent

\* What is left of e lies in front of the part that was taken or behind it.
LEMMA RemainderParts ==
  ASSUME NEW p \in Pools, NEW e \in Extent, NEW b \in Nat \ {0}, Fits(p, e, b),
         NEW a, a = AlignUp(e.offset, Align[p])
  PROVE  /\ a \in Nat /\ e.offset <= a /\ a + b <= End(e)
         /\ Taken(p, e, b) \in Extent /\ Taken(p, e, b).offset = a /\ End(Taken(p, e, b)) = a + b
         /\ Remainder(p, e, b) \subseteq Extent
         /\ \A x \in Remainder(p, e, b) :
              (x.offset = e.offset /\ End(x) = a) \/ (x.offset = a + b /\ End(x) = End(e))
         /\ e.offset < a => \E x \in Remainder(p, e, b) : x.offset = e.offset /\ End(x) = a
         /\ a + b < End(e) => \E x \in Remainder(p, e, b) : x.offset = a + b /\ End(x) = End(e)
<1> DEFINE front == [offset |-> e.offset, bytes |-> a - e.offset]
           back == [offset |-> a + b, bytes |-> End(e) - a - b]
<1>0. e.offset \in Nat /\ e.bytes \in Nat \ {0} /\ End(e) \in Nat
  BY DEF Extent, End
<1>1. a \in Nat /\ e.offset <= a /\ a + b <= End(e)
  BY AlignUpBound, PoolsAssumption, <1>0 DEF Fits
<1>2. Remainder(p, e, b) = {x \in {front, back} : x.bytes # 0}
  BY DEF Remainder
<1>3. /\ front.offset = e.offset /\ front.bytes = a - e.offset /\ End(front) = a
      /\ back.offset = a + b /\ back.bytes = End(e) - a - b /\ End(back) = End(e)
  BY <1>0, <1>1 DEF End
<1>4. front.bytes # 0 => front \in Extent
  BY <1>0, <1>1 DEF Extent
<1>5. back.bytes # 0 => back \in Extent
  BY <1>0, <1>1 DEF Extent
<1>6. Taken(p, e, b) \in Extent /\ Taken(p, e, b).offset = a /\ End(Taken(p, e, b)) = a + b
  BY <1>1 DEF Taken, Extent, End
<1> HIDE DEF front, back
<1>7. Remainder(p, e, b) \subseteq Extent
  BY <1>2, <1>4, <1>5
<1>8. \A x \in Remainder(p, e, b) :
              (x.offset = e.offset /\ End(x) = a) \/ (x.offset = a + b /\ End(x) = End(e))
  BY <1>2, <1>3
<1>9. ASSUME e.offset < a PROVE front \in Remainder(p, e, b)
  BY <1>9, <1>0, <1>1, <1>2, <1>3
<1>10. ASSUME a + b < End(e) PROVE back \in Remainder(p, e, b)
  BY <1>10, <1>0, <1>1, <1>2, <1>3
<1> QED
  BY <1>1, <1>3, <1>6, <1>7, <1>8, <1>9, <1>10

\* A remainder has at most two extents, and exactly so many nodes.
LEMMA RemainderCount ==
  ASSUME NEW p \in Pools, NEW e \in Extent, NEW b
  PROVE  /\ IsFiniteSet(Remainder(p, e, b))
         /\ Cardinality(Remainder(p, e, b)) \in 0 .. 2
<1> DEFINE front == [offset |-> e.offset, bytes |-> AlignUp(e.offset, Align[p]) - e.offset]
           back == [offset |-> AlignUp(e.offset, Align[p]) + b,
                    bytes |-> End(e) - AlignUp(e.offset, Align[p]) - b]
<1>1. Remainder(p, e, b) \subseteq {front, back}
  BY DEF Remainder
<1> HIDE DEF front, back
<1>2. IsFiniteSet({front}) /\ Cardinality({front}) = 1
  BY FS_Singleton
<1>3. {front, back} = {front} \cup {back}
  OBVIOUS
<1>4. IsFiniteSet({front, back}) /\ Cardinality({front, back}) \in 0 .. 2
  BY <1>2, <1>3, FS_AddElement
<1> QED
  BY <1>1, <1>4, FS_Subset, FS_CardinalityType


LEMMA ExtentEnds ==
  ASSUME NEW e \in Extent
  PROVE  e.offset \in Nat /\ End(e) \in Nat /\ e.offset < End(e)
BY DEF Extent, End

\* Taking b bytes of a free extent e for the object of s keeps pool p whole.
LEMMA TakeWhole ==
  ASSUME NEW p \in Pools, NEW F, NEW S, NEW o, NEW e \in F, NEW b \in Nat \ {0},
         Whole(F, S, o, p), Fits(p, e, b), NEW s, s \notin S, NEW o2,
         \A t \in S : o2[t][p] = o[t][p], o2[s][p] = Taken(p, e, b)
  PROVE  Whole((F \ {e}) \cup Remainder(p, e, b), S \cup {s}, o2, p)
<1> DEFINE a == AlignUp(e.offset, Align[p])
           R == Remainder(p, e, b)
           G == (F \ {e}) \cup R
           x == o2[s][p]
<1>0. FreeOK(F, p) /\ ObjectsOK(F, S, o, p) /\ Complete(F, S, o, p)
  BY DEF Whole
<1>1. F \subseteq Extent /\ e \in Extent /\ PoolBytes[p] \in Nat
  BY <1>0, PoolsAssumption DEF FreeOK
<1>2. /\ a \in Nat /\ e.offset <= a /\ a + b <= End(e)
      /\ x \in Extent /\ x.offset = a /\ End(x) = a + b
      /\ R \subseteq Extent
      /\ \A d \in R : (d.offset = e.offset /\ End(d) = a) \/ (d.offset = a + b /\ End(d) = End(e))
      /\ e.offset < a => \E d \in R : d.offset = e.offset /\ End(d) = a
      /\ a + b < End(e) => \E d \in R : d.offset = a + b /\ End(d) = End(e)
  BY <1>1, RemainderParts
<1>3. e.offset \in Nat /\ End(e) \in Nat /\ e.offset < End(e) /\ End(e) <= PoolBytes[p]
  BY <1>0, <1>1, ExtentEnds DEF FreeOK
<1> HIDE DEF a, R, x
<1>4. \A d \in G : d \in Extent /\ d.offset \in Nat /\ End(d) \in Nat /\ d.offset < End(d)
  BY <1>1, <1>2, ExtentEnds
<1>5. \A d \in F \ {e} : End(d) <= e.offset \/ End(e) <= d.offset
  BY <1>0, <1>1, <1>3, <1>4 DEF FreeOK, Overlap
<1>6. FreeOK(G, p)
  <2>1. IsFiniteSet(G)
    BY <1>0, <1>1, RemainderCount, FS_Subset, FS_Union DEF FreeOK, R
  <2>2. \A d \in G : End(d) <= PoolBytes[p]
    BY <1>0, <1>1, <1>2, <1>3, <1>4 DEF FreeOK
  <2>3. ASSUME NEW d \in G, NEW c \in G, d # c PROVE ~Overlap(d, c)
    <3>1. CASE d \in F \ {e} /\ c \in F \ {e}
      BY <2>3, <3>1, <1>0 DEF FreeOK
    <3>2. CASE d \in F \ {e} /\ c \in R
      BY <3>2, <1>2, <1>3, <1>4, <1>5 DEF Overlap
    <3>3. CASE d \in R /\ c \in F \ {e}
      BY <3>3, <1>2, <1>3, <1>4, <1>5 DEF Overlap
    <3>4. CASE d \in R /\ c \in R
      <4>1. ~(d.offset = c.offset /\ End(d) = End(c))
        BY <2>3, <1>4, SameExtent
      <4> QED
        BY <3>4, <4>1, <1>2, <1>3, <1>4 DEF Overlap
    <3> QED
      BY <3>1, <3>2, <3>3, <3>4
  <2>4. ASSUME NEW d \in G, NEW c \in G PROVE End(d) # c.offset
    <3>1. CASE d \in F \ {e} /\ c \in F \ {e}
      BY <3>1, <1>0 DEF FreeOK
    <3>2. CASE d \in F \ {e} /\ c \in R
      <4>1. End(d) # e.offset
        BY <3>2, <1>0 DEF FreeOK
      <4> QED
        BY <3>2, <4>1, <1>2, <1>3, <1>4, <1>5
    <3>3. CASE d \in R /\ c \in F \ {e}
      <4>1. End(e) # c.offset
        BY <3>3, <1>0 DEF FreeOK
      <4> QED
        BY <3>3, <4>1, <1>2, <1>3, <1>4, <1>5
    <3>4. CASE d \in R /\ c \in R
      BY <3>4, <1>2, <1>3, <1>4
    <3> QED
      BY <3>1, <3>2, <3>3, <3>4
  <2> QED
    BY <1>4, <2>1, <2>2, <2>3, <2>4 DEF FreeOK
<1>7. ObjectsOK(G, S \cup {s}, o2, p)
  <2>1. \A t \in S : /\ o2[t][p] = o[t][p] /\ o[t][p] \in Extent /\ End(o[t][p]) <= PoolBytes[p]
                     /\ o[t][p].offset \in Nat /\ End(o[t][p]) \in Nat
                     /\ o[t][p].offset < End(o[t][p])
    BY <1>0, ExtentEnds DEF ObjectsOK
  <2>2. \A t \in S : End(o[t][p]) <= e.offset \/ End(e) <= o[t][p].offset
    BY <1>0, <1>3, <2>1 DEF ObjectsOK, Overlap
  <2>3. \A t \in S : ~Overlap(x, o[t][p]) /\ ~Overlap(o[t][p], x)
    BY <2>1, <2>2, <1>2, <1>3 DEF Overlap
  <2>4. \A t \in S \cup {s} : o2[t][p] \in Extent /\ End(o2[t][p]) <= PoolBytes[p]
    BY <2>1, <1>1, <1>2, <1>3 DEF x
  <2>5. ASSUME NEW t \in S \cup {s}, NEW u \in S \cup {s}, t # u
        PROVE  ~Overlap(o2[t][p], o2[u][p])
    <3>1. CASE t \in S /\ u \in S
      BY <2>5, <3>1, <2>1, <1>0 DEF ObjectsOK
    <3>2. CASE t = s \/ u = s
      BY <2>5, <3>2, <2>1, <2>3 DEF x
    <3> QED
      BY <3>1, <3>2
  <2>6. ASSUME NEW d \in G, NEW t \in S PROVE ~Overlap(d, o[t][p])
    <3>1. CASE d \in F
      BY <3>1, <1>0 DEF ObjectsOK
    <3>2. CASE d \in R
      BY <3>2, <1>2, <1>3, <1>4, <2>1, <2>2 DEF Overlap
    <3> QED
      BY <3>1, <3>2
  <2>7. ASSUME NEW d \in G PROVE ~Overlap(d, x)
    BY <1>2, <1>3, <1>4, <1>5 DEF Overlap
  <2> QED
    BY <2>1, <2>4, <2>5, <2>6, <2>7 DEF ObjectsOK, x
<1>8. Complete(G, S \cup {s}, o2, p)
  <2> SUFFICES ASSUME NEW n \in Nat, n < PoolBytes[p]
               PROVE  (\E d \in G : Covers(d, n)) \/ (\E t \in S \cup {s} : Covers(o2[t][p], n))
    BY DEF Complete
  <2>1. CASE \E d \in F : d # e /\ Covers(d, n)
    BY <2>1
  <2>2. CASE \E t \in S : Covers(o[t][p], n)
    BY <2>2
  <2>3. CASE Covers(e, n)
    <3>1. CASE n < a
      <4>1. PICK d \in R : d.offset = e.offset /\ End(d) = a
        BY <3>1, <2>3, <1>2, <1>3 DEF Covers
      <4> QED
        BY <4>1, <3>1, <2>3 DEF Covers
    <3>2. CASE a <= n /\ n < a + b
      BY <3>2, <1>2 DEF Covers, x
    <3>3. CASE a + b <= n
      <4>1. PICK d \in R : d.offset = a + b /\ End(d) = End(e)
        BY <3>3, <2>3, <1>2, <1>3 DEF Covers
      <4> QED
        BY <4>1, <3>3, <2>3 DEF Covers
    <3> QED
      BY <3>1, <3>2, <3>3, <1>2
  <2> QED
    BY <2>1, <2>2, <2>3, <1>0 DEF Complete
<1> QED
  BY <1>6, <1>7, <1>8 DEF Whole, R


\* What Min and Max, defined by a choice, are.
LEMMA MinMaxIs ==
  ASSUME NEW A \in SUBSET Int, NEW m \in A
  PROVE  /\ (\A y \in A : m <= y) => Min(A) = m
         /\ (\A y \in A : m >= y) => Max(A) = m
<1>1. ASSUME \A y \in A : m <= y PROVE Min(A) = m
  <2>1. Min(A) \in A /\ \A y \in A : Min(A) <= y
    BY <1>1 DEF Min
  <2>2. Min(A) \in Int /\ m \in Int /\ Min(A) <= m /\ m <= Min(A)
    BY <1>1, <2>1
  <2> QED
    BY <2>2
<1>2. ASSUME \A y \in A : m >= y PROVE Max(A) = m
  <2>1. Max(A) \in A /\ \A y \in A : Max(A) >= y
    BY <1>2 DEF Max
  <2>2. Max(A) \in Int /\ m \in Int /\ Max(A) >= m /\ m >= Max(A)
    BY <1>2, <2>1
  <2> QED
    BY <2>2
<1> QED
  BY <1>1, <1>2

\* The merged extent reaches from the start of the neighbour before x to the
\* end of the one behind it, and from or to an end of x where there is none.
LEMMA ReturnMerges ==
  ASSUME NEW p \in Pools, NEW f, FreeOK(f[p], p), NEW x \in Extent,
         \A e \in f[p] : ~Overlap(e, x)
  PROVE  \E m \in Extent :
           /\ Return(f, p, x) = [f EXCEPT ![p] = (f[p] \ Neighbours(f, p, x)) \cup {m}]
           /\ m.offset = x.offset \/ (\E e \in f[p] : End(e) = x.offset /\ m.offset = e.offset)
           /\ End(m) = End(x) \/ (\E e \in f[p] : e.offset = End(x) /\ End(m) = End(e))
           /\ \A e \in Neighbours(f, p, x) \cup {x} : m.offset <= e.offset /\ End(e) <= End(m)
<1> DEFINE F == f[p]
           N == Neighbours(f, p, x)
           all == N \cup {x}
           starts == {e.offset : e \in all}
           ends == {End(e) : e \in all}
<1>1. /\ F \subseteq Extent /\ N \subseteq F
      /\ \A e \in N : End(e) = x.offset \/ End(x) = e.offset
      /\ \A e \in F : End(e) = x.offset \/ End(x) = e.offset => e \in N
  BY DEF FreeOK, Neighbours
<1>2. /\ x.offset \in Nat /\ End(x) \in Nat /\ x.offset < End(x)
      /\ \A e \in F : e.offset \in Nat /\ End(e) \in Nat /\ e.offset < End(e)
  BY <1>1, ExtentEnds
<1>3. \A e, d \in F : e # d => End(e) <= d.offset \/ End(d) <= e.offset
  BY <1>2 DEF FreeOK, Overlap
<1> HIDE DEF F, N
<1>4. starts \subseteq Int /\ ends \subseteq Int
  BY <1>1, <1>2
<1>5. PICK u \in starts : /\ \A y \in starts : u <= y
                          /\ u = x.offset \/ (\E e \in F : End(e) = x.offset /\ u = e.offset)
  <2>1. CASE \E e \in F : End(e) = x.offset
    <3>1. PICK e \in F : End(e) = x.offset
      BY <2>1
    <3>2. \A d \in all : e.offset <= d.offset
      BY <3>1, <1>1, <1>2, <1>3
    <3> QED
      BY <3>1, <3>2, <1>1
  <2>2. CASE ~\E e \in F : End(e) = x.offset
    <3>1. \A d \in all : x.offset <= d.offset
      BY <2>2, <1>1, <1>2
    <3> QED
      BY <3>1
  <2> QED
    BY <2>1, <2>2
<1>6. PICK v \in ends : /\ \A y \in ends : v >= y
                        /\ v = End(x) \/ (\E e \in F : e.offset = End(x) /\ v = End(e))
  <2>1. CASE \E e \in F : e.offset = End(x)
    <3>1. PICK e \in F : e.offset = End(x)
      BY <2>1
    <3>2. \A d \in all : End(d) <= End(e)
      BY <3>1, <1>1, <1>2, <1>3
    <3> QED
      BY <3>1, <3>2, <1>1
  <2>2. CASE ~\E e \in F : e.offset = End(x)
    <3>1. \A d \in all : End(d) <= End(x)
      BY <2>2, <1>1, <1>2
    <3> QED
      BY <3>1
  <2> QED
    BY <2>1, <2>2
<1>7. Min(starts) = u /\ Max(ends) = v
  BY <1>4, <1>5, <1>6, MinMaxIs
<1> DEFINE m == [offset |-> u, bytes |-> v - u]
<1>8. /\ u \in Nat /\ v \in Nat /\ u < v
      /\ \A e \in all : u <= e.offset /\ End(e) <= v
  BY <1>1, <1>2, <1>5, <1>6
<1>9. m \in Extent /\ m.offset = u /\ End(m) = v
  BY <1>8 DEF Extent, End
<1>10. Return(f, p, x) = [f EXCEPT ![p] = (F \ N) \cup {m}]
  BY <1>7 DEF Return, F, N
<1> HIDE DEF m
<1> QED
  BY <1>5, <1>6, <1>8, <1>9, <1>10 DEF F, N

\* Returning the extent of the object of s keeps pool p whole.
LEMMA ReturnWhole ==
  ASSUME NEW p \in Pools, NEW f, p \in DOMAIN f, NEW S, NEW o, NEW s \in S,
         Whole(f[p], S, o, p), NEW o2, \A t \in S \ {s} : o2[t][p] = o[t][p]
  PROVE  Whole(Return(f, p, o[s][p])[p], S \ {s}, o2, p)
<1> DEFINE F == f[p]
           x == o[s][p]
           N == Neighbours(f, p, x)
<1>0. FreeOK(F, p) /\ ObjectsOK(F, S, o, p) /\ Complete(F, S, o, p)
  BY DEF Whole
<1>1. x \in Extent /\ End(x) <= PoolBytes[p] /\ PoolBytes[p] \in Nat /\ \A e \in F : ~Overlap(e, x)
  BY <1>0, PoolsAssumption DEF ObjectsOK
<1>2. PICK m \in Extent :
        /\ Return(f, p, x) = [f EXCEPT ![p] = (F \ N) \cup {m}]
        /\ m.offset = x.offset \/ (\E e \in F : End(e) = x.offset /\ m.offset = e.offset)
        /\ End(m) = End(x) \/ (\E e \in F : e.offset = End(x) /\ End(m) = End(e))
        /\ \A e \in N \cup {x} : m.offset <= e.offset /\ End(e) <= End(m)
  BY <1>0, <1>1, ReturnMerges
<1> DEFINE G == (F \ N) \cup {m}
<1>3. Return(f, p, x)[p] = G
  BY <1>2
<1>4. /\ F \subseteq Extent /\ N \subseteq F
      /\ \A e \in F : End(e) = x.offset \/ End(x) = e.offset => e \in N
  BY <1>0 DEF FreeOK, Neighbours
<1>5. \A e \in F \cup {x, m} : e \in Extent /\ e.offset \in Nat /\ End(e) \in Nat /\ e.offset < End(e)
  BY <1>1, <1>2, <1>4, ExtentEnds
<1>6. \A t \in S : /\ o[t][p] \in Extent /\ End(o[t][p]) <= PoolBytes[p]
                   /\ o[t][p].offset \in Nat /\ End(o[t][p]) \in Nat /\ o[t][p].offset < End(o[t][p])
  BY <1>0, ExtentEnds DEF ObjectsOK
<1> HIDE DEF F, N, x
<1>7. \A e, d \in F : (e # d => End(e) <= d.offset \/ End(d) <= e.offset) /\ End(e) # d.offset
  BY <1>0, <1>5 DEF FreeOK, Overlap
<1>8. End(m) <= PoolBytes[p]
  BY <1>0, <1>1, <1>2 DEF FreeOK
<1>9. \A d \in F \ N : End(d) < m.offset \/ End(m) < d.offset
  <2> SUFFICES ASSUME NEW d \in F \ N PROVE End(d) < m.offset \/ End(m) < d.offset
    OBVIOUS
  <2>1. End(d) < x.offset \/ End(x) < d.offset
    BY <1>1, <1>4, <1>5 DEF Overlap
  <2>2. CASE End(d) < x.offset
    BY <2>2, <1>2, <1>5, <1>7
  <2>3. CASE End(x) < d.offset
    BY <2>3, <1>2, <1>5, <1>7
  <2> QED
    BY <2>1, <2>2, <2>3
<1>10. FreeOK(G, p)
  <2>1. IsFiniteSet(G)
    <3>1. IsFiniteSet(F \ N)
      BY <1>0, FS_Subset DEF FreeOK
    <3> QED
      BY <3>1, FS_AddElement
  <2>2. \A d \in G : End(d) <= PoolBytes[p]
    BY <1>0, <1>8 DEF FreeOK
  <2>3. \A d, c \in G : d # c => ~Overlap(d, c)
    BY <1>5, <1>7, <1>9 DEF Overlap
  <2>4. \A d, c \in G : End(d) # c.offset
    BY <1>5, <1>7, <1>9
  <2> QED
    BY <1>4, <2>1, <2>2, <2>3, <2>4 DEF FreeOK
<1>11. ObjectsOK(G, S \ {s}, o2, p)
  <2>1. ASSUME NEW t \in S \ {s} PROVE End(o[t][p]) <= m.offset \/ End(m) <= o[t][p].offset
    <3>1. End(o[t][p]) <= x.offset \/ End(x) <= o[t][p].offset
      BY <1>0, <1>5, <1>6 DEF ObjectsOK, Overlap, x
    <3>2. \A e \in F : End(o[t][p]) <= e.offset \/ End(e) <= o[t][p].offset
      BY <1>0, <1>5, <1>6 DEF ObjectsOK, Overlap
    <3>3. CASE End(o[t][p]) <= x.offset
      BY <3>2, <3>3, <1>2, <1>5, <1>6
    <3>4. CASE End(x) <= o[t][p].offset
      BY <3>2, <3>4, <1>2, <1>5, <1>6
    <3> QED
      BY <3>1, <3>3, <3>4
  <2>2. \A t \in S \ {s} : ~Overlap(m, o[t][p])
    BY <2>1, <1>5, <1>6 DEF Overlap
  <2>3. \A e \in G : \A t \in S \ {s} : ~Overlap(e, o[t][p])
    BY <2>2, <1>0 DEF ObjectsOK
  <2>4. \A t \in S \ {s} : o2[t][p] = o[t][p]
    OBVIOUS
  <2> QED
    BY <2>3, <2>4, <1>0 DEF ObjectsOK
<1>12. Complete(G, S \ {s}, o2, p)
  <2> SUFFICES ASSUME NEW n \in Nat, n < PoolBytes[p]
               PROVE  (\E d \in G : Covers(d, n)) \/ (\E t \in S \ {s} : Covers(o2[t][p], n))
    BY DEF Complete
  <2>1. CASE \E d \in F \ N : Covers(d, n)
    BY <2>1
  <2>2. CASE \E t \in S \ {s} : Covers(o[t][p], n)
    BY <2>2
  <2>3. CASE \E d \in N \cup {x} : Covers(d, n)
    <3>1. PICK d \in N \cup {x} : Covers(d, n)
      BY <2>3
    <3>2. Covers(m, n)
      BY <3>1, <1>2, <1>4, <1>5 DEF Covers
    <3> QED
      BY <3>2
  <2>4. (\E e \in F : Covers(e, n)) \/ (\E t \in S : Covers(o[t][p], n))
    BY <1>0 DEF Complete
  <2> QED
    BY <2>1, <2>2, <2>3, <2>4 DEF x
<1> QED
  BY <1>3, <1>10, <1>11, <1>12 DEF Whole, x


-----------------------------------------------------------------------------
(* Nodes.                                                                  *)

\* Pools whose free extents are finite sets, so that nodes can be counted.
Countable(f) == DOMAIN f = Pools /\ \A q \in Pools : IsFiniteSet(f[q])

LEMMA UnusedType ==
  ASSUME NEW f, Countable(f)
  PROVE  Unused(f) \in Int
BY FS_CardinalityType, NodesAssumption DEF Countable, Unused, Pools

LEMMA UnusedAfter ==
  ASSUME NEW f, NEW g, NEW p \in Pools, Countable(f), Countable(g),
         \A q \in Pools \ {p} : g[q] = f[q]
  PROVE  /\ Unused(f) \in Int /\ Unused(g) \in Int
         /\ Unused(g) = Unused(f) + Cardinality(f[p]) - Cardinality(g[p])
<1>1. \A q \in Pools : Cardinality(f[q]) \in Nat /\ Cardinality(g[q]) \in Nat
  BY FS_CardinalityType DEF Countable
<1>2. CASE p = "data"
  BY <1>1, <1>2, NodesAssumption DEF Unused, Pools
<1>3. CASE p = "coherence"
  BY <1>1, <1>3, NodesAssumption DEF Unused, Pools
<1> QED
  BY <1>2, <1>3 DEF Pools

\* Taking from an extent never needs more nodes than there are, and frees one
\* when it takes all of it.
LEMMA TakeNodes ==
  ASSUME NEW f, Countable(f), NEW p \in Pools, NEW e \in f[p], e \in Extent, NEW b,
         CanTake(f, p, e, b), Unused(f) >= 0
  PROVE  /\ Countable(Take(f, p, e, b))
         /\ Take(f, p, e, b)[p] = (f[p] \ {e}) \cup Remainder(p, e, b)
         /\ \A q \in Pools \ {p} : Take(f, p, e, b)[q] = f[q]
         /\ Unused(Take(f, p, e, b)) >= 0
         /\ Remainder(p, e, b) = {} => Unused(Take(f, p, e, b)) > 0
<1> DEFINE g == Take(f, p, e, b)
           R == Remainder(p, e, b)
<1>1. IsFiniteSet(R) /\ Cardinality(R) \in Nat /\ Cardinality(R) <= 2
  BY RemainderCount
<1>2. g = [f EXCEPT ![p] = (f[p] \ {e}) \cup R]
  BY DEF Take
<1>3. /\ DOMAIN g = Pools /\ g[p] = (f[p] \ {e}) \cup R
      /\ \A q \in Pools \ {p} : g[q] = f[q]
  BY <1>2 DEF Countable
<1>4. /\ IsFiniteSet(f[p] \ {e}) /\ Cardinality(f[p]) \in Nat
      /\ Cardinality(f[p] \ {e}) = Cardinality(f[p]) - 1
  BY FS_RemoveElement, FS_CardinalityType DEF Countable
<1> HIDE DEF g, R
<1>5. /\ IsFiniteSet(g[p]) /\ Cardinality(g[p]) \in Nat
      /\ Cardinality(g[p]) <= Cardinality(f[p]) - 1 + Cardinality(R)
  <2> DEFINE K == f[p] \ {e}
  <2>0. IsFiniteSet(K)
    BY <1>4
  <2> HIDE DEF K
  <2>1. /\ IsFiniteSet(K \cup R)
        /\ Cardinality(K \cup R) = Cardinality(K) + Cardinality(R) - Cardinality(K \cap R)
    BY <1>1, <2>0, FS_Union
  <2>2. Cardinality(K \cap R) \in Nat /\ Cardinality(K \cup R) \in Nat
    BY <1>1, <2>1, FS_Subset, FS_CardinalityType
  <2>3. g[p] = K \cup R /\ Cardinality(K) = Cardinality(f[p]) - 1
    BY <1>3, <1>4 DEF K
  <2> QED
    BY <1>1, <1>4, <2>1, <2>2, <2>3
<1>6. Countable(g)
  BY <1>3, <1>5 DEF Countable
<1>7. Unused(f) \in Int /\ Unused(g) = Unused(f) + Cardinality(f[p]) - Cardinality(g[p])
  <2>1. \A q \in Pools \ {p} : g[q] = f[q]
    BY <1>3
  <2> QED
    BY ONLY <2>1, <1>6, Countable(f), p \in Pools, UnusedAfter
<1>8. Cardinality(R) < 2 \/ Unused(f) > 0
  BY DEF CanTake, R
<1>9. R = {} => Cardinality(R) = 0
  BY FS_EmptySet
<1> QED
  BY <1>1, <1>3, <1>4, <1>5, <1>6, <1>7, <1>8, <1>9 DEF g, R

\* Returning an extent takes at most one node, and none next to a free one.
LEMMA ReturnNodes ==
  ASSUME NEW f, Countable(f), NEW p \in Pools, FreeOK(f[p], p), NEW x \in Extent,
         \A e \in f[p] : ~Overlap(e, x), Unused(f) >= 0
  PROVE  /\ Countable(Return(f, p, x))
         /\ \A q \in Pools \ {p} : Return(f, p, x)[q] = f[q]
         /\ Unused(Return(f, p, x)) >= Unused(f) - 1
         /\ Neighbours(f, p, x) # {} => Unused(Return(f, p, x)) >= Unused(f)
<1> DEFINE g == Return(f, p, x)
           N == Neighbours(f, p, x)
<1>1. PICK m \in Extent : g = [f EXCEPT ![p] = (f[p] \ N) \cup {m}]
  <2> HIDE DEF g, N
  <2>1. \E m \in Extent :
          /\ g = [f EXCEPT ![p] = (f[p] \ N) \cup {m}]
          /\ m.offset = x.offset \/ (\E e \in f[p] : End(e) = x.offset /\ m.offset = e.offset)
          /\ End(m) = End(x) \/ (\E e \in f[p] : e.offset = End(x) /\ End(m) = End(e))
          /\ \A e \in N \cup {x} : m.offset <= e.offset /\ End(e) <= End(m)
    BY ReturnMerges DEF g, N
  <2> QED
    BY <2>1
<1>2. /\ DOMAIN g = Pools /\ g[p] = (f[p] \ N) \cup {m}
      /\ \A q \in Pools \ {p} : g[q] = f[q]
  BY <1>1 DEF Countable
<1>3. IsFiniteSet(f[p]) /\ N \subseteq f[p] /\ Cardinality(f[p]) \in Nat
  BY FS_CardinalityType DEF Countable, Neighbours
<1> HIDE DEF g, N
<1>4. /\ IsFiniteSet(f[p] \ N) /\ Cardinality(f[p] \ N) \in Nat
      /\ Cardinality(f[p] \ N) <= Cardinality(f[p])
      /\ N # {} => Cardinality(f[p] \ N) < Cardinality(f[p])
  <2>1. /\ IsFiniteSet(f[p] \ N)
        /\ Cardinality(f[p] \ N) <= Cardinality(f[p])
        /\ Cardinality(f[p] \ N) = Cardinality(f[p]) => f[p] \ N = f[p]
    BY <1>3, FS_Subset
  <2> QED
    BY <1>3, <2>1, FS_CardinalityType
<1>5. /\ IsFiniteSet(g[p]) /\ Cardinality(g[p]) \in Nat
      /\ Cardinality(g[p]) <= Cardinality(f[p] \ N) + 1
  <2> DEFINE K == f[p] \ N
  <2>1. IsFiniteSet(K)
    BY <1>4
  <2> HIDE DEF K
  <2>2. /\ IsFiniteSet(K \cup {m})
        /\ Cardinality(K \cup {m}) = IF m \in K THEN Cardinality(K) ELSE Cardinality(K) + 1
    BY <2>1, FS_AddElement
  <2> QED
    BY <1>2, <1>4, <2>2 DEF K
<1>6. Countable(g)
  BY <1>2, <1>5 DEF Countable
<1>7. Unused(f) \in Int /\ Unused(g) = Unused(f) + Cardinality(f[p]) - Cardinality(g[p])
  <2>1. \A q \in Pools \ {p} : g[q] = f[q]
    BY <1>2
  <2> QED
    BY ONLY <2>1, <1>6, Countable(f), p \in Pools, UnusedAfter
<1> QED
  BY <1>2, <1>3, <1>4, <1>5, <1>6, <1>7 DEF g, N


-----------------------------------------------------------------------------
(* The steps.                                                              *)

LEMMA ObjectNotEmpty ==
  ASSUME NEW r \in [Pools -> Extent]
  PROVE  r # Empty
<1>1. DOMAIN r = Pools /\ DOMAIN Empty = {"state"}
  BY DEF Empty
<1>2. "data" \in Pools /\ "data" \notin {"state"}
  BY DEF Pools
<1> QED
  BY <1>1, <1>2

LEMMA InvCountable ==
  ASSUME ExtentsInv
  PROVE  Countable(free)
BY DEF ExtentsInv, Countable, Whole, FreeOK

LEMMA ExtentsInit ==
  ASSUME EInit
  PROVE  ExtentsInv
<1>1. Live = {}
  BY DEF EInit, Live, FreeSlot
<1>2. ASSUME NEW p \in Pools PROVE Whole(free[p], Live, object, p) /\ Cardinality(free[p]) = 1
  <2> DEFINE e == [offset |-> 0, bytes |-> PoolBytes[p]]
  <2>1. free[p] = {e}
    BY DEF EInit
  <2>2. PoolBytes[p] \in Nat \ {0}
    BY PoolsAssumption
  <2>3. e \in Extent /\ e.offset = 0 /\ End(e) = PoolBytes[p]
    BY <2>2 DEF Extent, End
  <2> HIDE DEF e
  <2>4. IsFiniteSet({e}) /\ Cardinality({e}) = 1
    BY FS_Singleton
  <2>5. FreeOK({e}, p)
    BY <2>2, <2>3, <2>4 DEF FreeOK
  <2>6. Complete({e}, {}, object, p)
    BY <2>2, <2>3 DEF Complete, Covers
  <2> QED
    BY <1>1, <2>1, <2>4, <2>5, <2>6 DEF Whole, ObjectsOK
<1>3. Unused(free) >= 0
  BY <1>2, NodesAssumption DEF Unused, Pools
<1> QED
  BY <1>1, <1>2, <1>3 DEF ExtentsInv, EInit

\* Allocate: the coherence extent is there and the object is placed.
LEMMA AllocateSucceeds ==
  ASSUME ExtentsInv, NEW s \in Slots, FreeSlot(s), NEW b \in [Pools -> Nat \ {0}],
         NEW d \in free["data"], Fits("data", d, b["data"]),
         CanTake(free, "data", d, b["data"]),
         NEW left, left = Take(free, "data", d, b["data"]),
         NEW c \in left["coherence"], Fits("coherence", c, b["coherence"]),
         CanTake(left, "coherence", c, b["coherence"]),
         free' = Take(left, "coherence", c, b["coherence"]),
         object' = [object EXCEPT ![s] = [data |-> Taken("data", d, b["data"]),
                                          coherence |-> Taken("coherence", c, b["coherence"])]],
         UNCHANGED retiring
  PROVE  ExtentsInv'
<1> DEFINE r == [data |-> Taken("data", d, b["data"]),
                 coherence |-> Taken("coherence", c, b["coherence"])]
<1>0. /\ "data" \in Pools /\ "coherence" \in Pools /\ "data" # "coherence"
      /\ \A p \in Pools : p = "data" \/ p = "coherence"
      /\ b["data"] \in Nat \ {0} /\ b["coherence"] \in Nat \ {0}
  BY DEF Pools
<1>1. /\ Whole(free["data"], Live, object, "data")
      /\ Whole(free["coherence"], Live, object, "coherence")
      /\ Countable(free) /\ Unused(free) >= 0 /\ s \notin Live
  BY <1>0, InvCountable DEF ExtentsInv, Live
<1>2. free["data"] \subseteq Extent /\ free["coherence"] \subseteq Extent
  BY <1>1 DEF Whole, FreeOK
<1>3. /\ Countable(left) /\ Unused(left) >= 0 /\ left["coherence"] = free["coherence"]
      /\ left["data"] = (free["data"] \ {d}) \cup Remainder("data", d, b["data"])
  BY <1>0, <1>1, <1>2, TakeNodes
<1>4. /\ Countable(free') /\ Unused(free') >= 0 /\ free'["data"] = left["data"]
      /\ free'["coherence"] = (left["coherence"] \ {c}) \cup Remainder("coherence", c, b["coherence"])
  BY <1>0, <1>2, <1>3, TakeNodes
<1>5. Taken("data", d, b["data"]) \in Extent /\ Taken("coherence", c, b["coherence"]) \in Extent
  BY <1>0, <1>2, <1>3, RemainderParts
<1>6. r \in [Pools -> Extent] /\ r["data"] = Taken("data", d, b["data"])
      /\ r["coherence"] = Taken("coherence", c, b["coherence"])
  BY <1>5 DEF Pools
<1>7. DOMAIN object = Slots /\ Live \subseteq Slots
  BY DEF ExtentsInv, Live
<1> HIDE DEF r
<1>8. /\ DOMAIN object' = Slots /\ object'[s] = r
      /\ \A t \in Slots \ {s} : object'[t] = object[t]
  BY <1>7 DEF r
<1>9. Live' = Live \cup {s}
  BY <1>6, <1>8, ObjectNotEmpty DEF Live, FreeSlot
<1>10. \A p \in Pools : \A t \in Live : object'[t][p] = object[t][p]
  BY <1>1, <1>7, <1>8
<1>11. Whole(free'["data"], Live \cup {s}, object', "data")
  <2>1. object'[s]["data"] = Taken("data", d, b["data"])
    BY <1>6, <1>8
  <2>2. \A t \in Live : object'[t]["data"] = object[t]["data"]
    BY <1>0, <1>10
  <2>3. d \in free["data"]
    BY <1>3
  <2>4. Whole((free["data"] \ {d}) \cup Remainder("data", d, b["data"]),
              Live \cup {s}, object', "data")
    BY ONLY <1>0, <1>1, <2>1, <2>2, <2>3, Fits("data", d, b["data"]), TakeWhole
  <2> QED
    BY <1>3, <1>4, <2>4
<1>12. Whole(free'["coherence"], Live \cup {s}, object', "coherence")
  <2>1. object'[s]["coherence"] = Taken("coherence", c, b["coherence"])
    BY <1>6, <1>8
  <2>2. \A t \in Live : object'[t]["coherence"] = object[t]["coherence"]
    BY <1>0, <1>10
  <2>3. c \in free["coherence"]
    BY <1>3
  <2>4. Whole((free["coherence"] \ {c}) \cup Remainder("coherence", c, b["coherence"]),
              Live \cup {s}, object', "coherence")
    BY ONLY <1>0, <1>1, <2>1, <2>2, <2>3, Fits("coherence", c, b["coherence"]), TakeWhole
  <2> QED
    BY <1>3, <1>4, <2>4
<1>13. \A t \in Live' : object'[t] \in [Pools -> Extent]
  BY <1>1, <1>6, <1>7, <1>8, <1>9 DEF ExtentsInv
<1> QED
  BY <1>0, <1>4, <1>8, <1>9, <1>11, <1>12, <1>13 DEF ExtentsInv, Countable

\* Allocate: the coherence pool cannot serve the object.  The data extent finds
\* a neighbour or the node it has freed, so it always goes back.
LEMMA AllocateFails ==
  ASSUME ExtentsInv, NEW s \in Slots, FreeSlot(s), NEW b \in Nat \ {0},
         NEW d \in free["data"], Fits("data", d, b), CanTake(free, "data", d, b),
         NEW left, left = Take(free, "data", d, b),
         NEW data, data = Taken("data", d, b),
         free' = IF CanReturn(left, "data", data) THEN Return(left, "data", data) ELSE left,
         UNCHANGED <<object, retiring>>
  PROVE  ExtentsInv'
<1> DEFINE a == AlignUp(d.offset, Align["data"])
           R == Remainder("data", d, b)
           N == Neighbours(left, "data", data)
           o == [t \in Slots |-> IF t = s THEN [q \in Pools |-> data] ELSE object[t]]
<1>0. "data" \in Pools /\ "coherence" \in Pools /\ "data" # "coherence"
      /\ \A p \in Pools : p = "data" \/ p = "coherence"
  BY DEF Pools
<1>1. /\ Whole(free["data"], Live, object, "data")
      /\ Whole(free["coherence"], Live, object, "coherence")
      /\ Countable(free) /\ Unused(free) >= 0 /\ s \notin Live /\ Live \subseteq Slots
  BY <1>0, InvCountable DEF ExtentsInv, Live
<1>2. free["data"] \subseteq Extent /\ d \in Extent
  BY <1>1 DEF Whole, FreeOK
<1>3. /\ Countable(left) /\ Unused(left) >= 0 /\ left["coherence"] = free["coherence"]
      /\ left["data"] = (free["data"] \ {d}) \cup R
      /\ R = {} => Unused(left) > 0
  BY <1>0, <1>1, <1>2, TakeNodes
<1>4. \A t \in Live : o[t]["data"] = object[t]["data"]
  BY <1>1
<1>5. o[s]["data"] = data
  BY <1>0
<1> HIDE DEF o, N
<1>6. Whole(left["data"], Live \cup {s}, o, "data")
  <2>1. o[s]["data"] = Taken("data", d, b)
    BY <1>5
  <2>2. Whole((free["data"] \ {d}) \cup Remainder("data", d, b), Live \cup {s}, o, "data")
    BY <1>0, <1>1, <1>4, <2>1, TakeWhole
  <2> QED
    BY <1>3, <2>2
<1>7. /\ data \in Extent /\ FreeOK(left["data"], "data")
      /\ \A e \in left["data"] : ~Overlap(e, data)
  BY <1>5, <1>6 DEF Whole, ObjectsOK
<1>8. R # {} => N # {}
  <2>1. /\ data.offset = a /\ End(data) = a + b
        /\ \A x \in R : (x.offset = d.offset /\ End(x) = a) \/ (x.offset = a + b /\ End(x) = End(d))
    BY <1>0, <1>2, RemainderParts
  <2> QED
    BY <2>1, <1>3 DEF N, Neighbours
<1>9. CanReturn(left, "data", data)
  BY <1>3, <1>7, <1>8 DEF CanReturn, N
<1>10. free' = Return(left, "data", data)
  BY <1>9
<1>11. /\ Countable(free') /\ free'["coherence"] = left["coherence"]
       /\ Unused(free') >= Unused(left) - 1
       /\ N # {} => Unused(free') >= Unused(left)
  BY <1>0, <1>3, <1>7, <1>10, ReturnNodes DEF N
<1>12. Unused(left) \in Int /\ Unused(free') \in Int
  BY <1>3, <1>11, UnusedType
<1>13. Unused(free') >= 0
  BY <1>3, <1>8, <1>11, <1>12
<1>14. Whole(free'["data"], (Live \cup {s}) \ {s}, object, "data")
  <2>1. "data" \in DOMAIN left /\ s \in Live \cup {s}
    BY <1>0, <1>3 DEF Countable
  <2>2. \A t \in (Live \cup {s}) \ {s} : object[t]["data"] = o[t]["data"]
    BY <1>4
  <2> QED
    BY <1>0, <1>5, <1>6, <1>10, <2>1, <2>2, ReturnWhole, ZenonT(60)
<1>15. (Live \cup {s}) \ {s} = Live /\ Live' = Live
  BY <1>1 DEF Live, FreeSlot
<1> QED
  BY <1>0, <1>1, <1>3, <1>11, <1>13, <1>14, <1>15 DEF ExtentsInv, Countable


\* Free: with two unused nodes both extents always go back.
LEMMA FreeReturnsBoth ==
  ASSUME ExtentsInv, NEW s \in Slots, Free(s)
  PROVE  ExtentsInv'
<1> DEFINE x == object[s].data
           y == object[s].coherence
           g == Return(free, "data", x)
           half == IF CanReturn(free, "data", x) THEN g ELSE free
           ok == CanReturn(free, "data", x) /\ CanReturn(half, "coherence", y)
           o == [object EXCEPT ![s] = Empty]
<1>0. "data" \in Pools /\ "coherence" \in Pools /\ "data" # "coherence"
      /\ \A p \in Pools : p = "data" \/ p = "coherence"
  BY DEF Pools
<1>1. /\ Whole(free["data"], Live, object, "data")
      /\ Whole(free["coherence"], Live, object, "coherence")
      /\ Countable(free) /\ Unused(free) >= 0 /\ Live \subseteq Slots /\ DOMAIN object = Slots
  BY <1>0, InvCountable DEF ExtentsInv, Live
<1>2. retiring = s /\ Unused(free) >= 2 /\ s \in Live
  BY SlotsAssumption DEF Free, ExtentsInv
<1>3. /\ free' = IF ok THEN Return(half, "coherence", y) ELSE half
      /\ object' = IF ok THEN o ELSE object
      /\ retiring' = IF ok THEN NoSlot ELSE retiring
  BY DEF Free
<1>4. x = object[s]["data"] /\ y = object[s]["coherence"]
  OBVIOUS
<1>5. /\ x \in Extent /\ FreeOK(free["data"], "data") /\ \A e \in free["data"] : ~Overlap(e, x)
      /\ y \in Extent /\ FreeOK(free["coherence"], "coherence")
      /\ \A e \in free["coherence"] : ~Overlap(e, y)
  BY <1>1, <1>2, <1>4 DEF Whole, ObjectsOK
<1>6. /\ DOMAIN o = Slots /\ o[s] = Empty /\ \A t \in Slots \ {s} : o[t] = object[t]
  BY <1>1
<1> HIDE DEF x, y, g, o
<1>7. Unused(free) \in Int
  BY <1>1, UnusedType
<1>8. CanReturn(free, "data", x)
  BY <1>2, <1>5, <1>7 DEF CanReturn
<1>9. /\ Countable(g) /\ g["coherence"] = free["coherence"] /\ Unused(g) >= Unused(free) - 1
  BY <1>0, <1>1, <1>5, ReturnNodes DEF g
<1>10. Unused(g) \in Int /\ Unused(g) > 0
  BY <1>2, <1>7, <1>9, UnusedType
<1>11. half = g /\ CanReturn(g, "coherence", y)
  BY <1>5, <1>8, <1>9, <1>10 DEF CanReturn
<1>12. ok
  BY <1>8, <1>11
<1>13. free' = Return(g, "coherence", y) /\ object' = o /\ retiring' = NoSlot
  BY <1>3, <1>11, <1>12
<1>14. /\ Countable(free') /\ free'["data"] = g["data"] /\ Unused(free') >= Unused(g) - 1
  BY <1>0, <1>5, <1>9, <1>10, <1>13, ReturnNodes
<1>15. Unused(free') >= 0
  BY <1>10, <1>14, UnusedType
<1>16. Live' = Live \ {s}
  BY <1>6, <1>13 DEF Live, FreeSlot
<1>17. \A p \in Pools : \A t \in Live \ {s} : o[t][p] = object[t][p]
  BY <1>1, <1>6
<1>18. Whole(free'["data"], Live \ {s}, o, "data")
  <2>1. "data" \in DOMAIN free
    BY <1>0, <1>1 DEF Countable
  <2>2. \A t \in Live \ {s} : o[t]["data"] = object[t]["data"]
    BY <1>0, <1>17
  <2>3. Whole(Return(free, "data", object[s]["data"])["data"], Live \ {s}, o, "data")
    BY ONLY <1>0, <1>1, <1>2, <2>1, <2>2, ReturnWhole
  <2> QED
    BY <1>4, <1>14, <2>3 DEF g
<1>19. Whole(free'["coherence"], Live \ {s}, o, "coherence")
  <2>1. "coherence" \in DOMAIN g /\ Whole(g["coherence"], Live, object, "coherence")
    BY <1>0, <1>1, <1>9 DEF Countable
  <2>2. \A t \in Live \ {s} : o[t]["coherence"] = object[t]["coherence"]
    BY <1>0, <1>17
  <2>3. Whole(Return(g, "coherence", object[s]["coherence"])["coherence"], Live \ {s}, o,
              "coherence")
    BY ONLY <1>0, <1>2, <2>1, <2>2, ReturnWhole
  <2> QED
    BY <1>4, <1>13, <2>3
<1>20. \A t \in Live' : object'[t] \in [Pools -> Extent]
  BY <1>1, <1>6, <1>13, <1>16 DEF ExtentsInv
<1> QED
  BY <1>0, <1>6, <1>13, <1>14, <1>15, <1>16, <1>18, <1>19, <1>20 DEF ExtentsInv, Countable

LEMMA ExtentsKept == ExtentsInv /\ [ENext]_evars => ExtentsInv'
<1> SUFFICES ASSUME ExtentsInv, [ENext]_evars PROVE ExtentsInv'
  OBVIOUS
<1>1. ASSUME NEW s \in Slots, NEW size \in Sizes, NEW d \in free["data"], Allocate(s, size, d)
      PROVE  ExtentsInv'
  <2> DEFINE left == Take(free, "data", d, size["data"])
             data == Taken("data", d, size["data"])
             found == Found(left, "coherence", size["coherence"])
  <2>1. size \in [Pools -> Nat \ {0}] /\ size["data"] \in Nat \ {0}
    BY PoolsAssumption DEF Pools
  <2>2. /\ FreeSlot(s) /\ Fits("data", d, size["data"]) /\ CanTake(free, "data", d, size["data"])
        /\ UNCHANGED retiring
    BY <1>1 DEF Allocate, Found
  <2>3. \/ \E c \in found :
             /\ CanTake(left, "coherence", c, size["coherence"])
             /\ free' = Take(left, "coherence", c, size["coherence"])
             /\ object' = [object EXCEPT ![s] =
                  [data |-> data, coherence |-> Taken("coherence", c, size["coherence"])]]
        \/ /\ free' = IF CanReturn(left, "data", data) THEN Return(left, "data", data) ELSE left
           /\ UNCHANGED object
    BY <1>1 DEF Allocate
  <2>4. \A c \in found : c \in left["coherence"] /\ Fits("coherence", c, size["coherence"])
    BY DEF Found
  <2>5. ASSUME NEW c \in found, CanTake(left, "coherence", c, size["coherence"]),
               free' = Take(left, "coherence", c, size["coherence"]),
               object' = [object EXCEPT ![s] =
                 [data |-> data, coherence |-> Taken("coherence", c, size["coherence"])]]
        PROVE  ExtentsInv'
    BY <2>1, <2>2, <2>4, <2>5, AllocateSucceeds
  <2>6. ASSUME free' = IF CanReturn(left, "data", data) THEN Return(left, "data", data) ELSE left,
               UNCHANGED object
        PROVE  ExtentsInv'
    BY <2>1, <2>2, <2>6, AllocateFails
  <2> QED
    BY <2>3, <2>5, <2>6
<1>2. ASSUME NEW s \in Slots, BecomeReclaimable(s) PROVE ExtentsInv'
  BY <1>2 DEF BecomeReclaimable, ExtentsInv, Live, FreeSlot
<1>3. ASSUME NEW s \in Slots, Free(s) PROVE ExtentsInv'
  BY <1>3, FreeReturnsBoth
<1>4. CASE UNCHANGED evars
  BY <1>4 DEF evars, ExtentsInv, Live, FreeSlot
<1> QED
  BY <1>1, <1>2, <1>3, <1>4 DEF ENext

LEMMA ExtentsInvHolds == ESpec => []ExtentsInv
<1>1. EInit => ExtentsInv
  BY ExtentsInit
<1> QED
  BY <1>1, ExtentsKept, PTL DEF ESpec


-----------------------------------------------------------------------------
(* The properties.                                                         *)

\* Two extents that both cover a byte overlap.
LEMMA CoversOverlap ==
  ASSUME NEW e \in Extent, NEW d \in Extent, NEW n \in Nat, Covers(e, n), Covers(d, n)
  PROVE  Overlap(e, d)
BY ExtentEnds DEF Covers, Overlap

LEMMA WholePartitions ==
  ASSUME NEW p \in Pools, NEW F, NEW S, NEW o, Whole(F, S, o, p),
         NEW n \in Nat, n < PoolBytes[p]
  PROVE  Cardinality({e \in F : Covers(e, n)}) + Cardinality({s \in S : Covers(o[s][p], n)}) = 1
<1> DEFINE A == {e \in F : Covers(e, n)}
           B == {s \in S : Covers(o[s][p], n)}
<1> SUFFICES Cardinality(A) + Cardinality(B) = 1
  OBVIOUS
<1>1. /\ F \subseteq Extent /\ \A s \in S : o[s][p] \in Extent
      /\ \A e, d \in F : e # d => ~Overlap(e, d)
      /\ \A s, t \in S : s # t => ~Overlap(o[s][p], o[t][p])
      /\ \A e \in F : \A s \in S : ~Overlap(e, o[s][p])
      /\ (\E e \in F : Covers(e, n)) \/ (\E s \in S : Covers(o[s][p], n))
  BY DEF Whole, FreeOK, ObjectsOK, Complete
<1>2. \A e, d \in A : e = d
  BY <1>1, CoversOverlap
<1>3. \A s, t \in B : s = t
  BY <1>1, CoversOverlap
<1>4. A = {} \/ B = {}
  BY <1>1, CoversOverlap
<1>5. CASE A # {}
  <2>1. PICK e : A = {e}
    BY <1>2, <1>5
  <2>2. Cardinality({e}) = 1 /\ Cardinality({}) = 0
    BY FS_Singleton, FS_EmptySet
  <2> HIDE DEF A, B
  <2> QED
    BY <1>4, <1>5, <2>1, <2>2
<1>6. CASE A = {}
  <2>1. PICK s : B = {s}
    BY <1>1, <1>3, <1>6
  <2>2. Cardinality({s}) = 1 /\ Cardinality({}) = 0
    BY FS_Singleton, FS_EmptySet
  <2> HIDE DEF A, B
  <2> QED
    BY <1>6, <2>1, <2>2
<1> QED
  BY <1>5, <1>6

\* Every byte of a pool belongs to one free extent or to one object, and nodes
\* suffice, whatever is allocated and freed, and also where Allocate fails
\* half-way or Free is refused.
THEOREM PoolsArePartitioned == ESpec => []Partition
<1>1. ASSUME ExtentsInv PROVE Partition
  <2>1. ETypeOK
    BY <1>1 DEF ExtentsInv, ETypeOK, Whole, FreeOK, Live
  <2>2. ASSUME NEW p \in Pools, NEW n \in 0 .. PoolBytes[p] - 1
        PROVE  Cardinality({e \in free[p] : e.offset <= n /\ n < End(e)})
                 + Cardinality({s \in Live : object[s][p].offset <= n /\ n < End(object[s][p])}) = 1
    <3>1. PoolBytes[p] \in Nat /\ n \in Nat /\ n < PoolBytes[p]
      BY PoolsAssumption
    <3>2. Whole(free[p], Live, object, p)
      BY <1>1 DEF ExtentsInv
    <3>3. Cardinality({e \in free[p] : Covers(e, n)})
            + Cardinality({s \in Live : Covers(object[s][p], n)}) = 1
      BY <3>1, <3>2, WholePartitions
    <3> QED
      BY <3>3 DEF Covers
  <2> QED
    BY <2>1, <2>2 DEF Partition
<1> QED
  BY <1>1, ExtentsInvHolds, PTL

\* In front of a free extent that does not start the pool ends an object.
LEMMA ObjectInFront ==
  ASSUME NEW p \in Pools, NEW F, NEW S, NEW o, Whole(F, S, o, p), NEW e \in F, e.offset # 0
  PROVE  \E s \in S : End(o[s][p]) = e.offset
<1> DEFINE n == e.offset - 1
<1>1. /\ F \subseteq Extent /\ PoolBytes[p] \in Nat /\ End(e) <= PoolBytes[p]
      /\ \A s \in S : o[s][p] \in Extent
      /\ \A d \in F : d # e => ~Overlap(d, e)
      /\ \A d \in F : End(d) # e.offset
      /\ \A s \in S : ~Overlap(e, o[s][p])
  BY PoolsAssumption DEF Whole, FreeOK, ObjectsOK
<1>2. e.offset \in Nat /\ End(e) \in Nat /\ e.offset < End(e)
  BY <1>1, ExtentEnds
<1>3. n \in Nat /\ n < PoolBytes[p] /\ n + 1 = e.offset
  BY <1>1, <1>2
<1> HIDE DEF n
<1>4. (\E d \in F : Covers(d, n)) \/ (\E s \in S : Covers(o[s][p], n))
  BY <1>3 DEF Whole, Complete
<1>5. ASSUME NEW d \in F, Covers(d, n) PROVE FALSE
  <2>1. d.offset \in Nat /\ End(d) \in Nat /\ d.offset < End(d)
    BY <1>1, ExtentEnds
  <2>2. d # e /\ End(d) > e.offset
    BY <1>1, <1>2, <1>3, <1>5, <2>1 DEF Covers
  <2>3. Overlap(d, e)
    BY <1>2, <1>3, <1>5, <2>1, <2>2 DEF Covers, Overlap
  <2> QED
    BY <1>1, <2>2, <2>3
<1>6. ASSUME NEW s \in S, Covers(o[s][p], n) PROVE End(o[s][p]) = e.offset
  <2>1. o[s][p].offset \in Nat /\ End(o[s][p]) \in Nat
    BY <1>1, ExtentEnds
  <2> QED
    BY <1>1, <1>2, <1>3, <1>6, <2>1 DEF Covers, Overlap
<1> QED
  BY <1>4, <1>5, <1>6

\* So there is at most one more free extent than there are objects.
LEMMA FreeBound ==
  ASSUME NEW p \in Pools, NEW F, NEW S, IsFiniteSet(S), NEW o, Whole(F, S, o, p)
  PROVE  Cardinality(F) <= Cardinality(S) + 1
<1> DEFINE Z == {e \in F : e.offset = 0}
           K == F \ Z
           f == [e \in K |-> CHOOSE s \in S : End(o[s][p]) = e.offset]
<1>1. F \subseteq Extent /\ IsFiniteSet(F) /\ \A e, d \in F : e # d => ~Overlap(e, d)
  BY DEF Whole, FreeOK
<1>2. \A e \in F : e.offset \in Nat /\ End(e) \in Nat /\ e.offset < End(e)
  BY <1>1, ExtentEnds
<1>3. \A e, d \in F : e.offset = d.offset => e = d
  BY <1>1, <1>2 DEF Overlap
<1>4. \A e \in K : f[e] \in S /\ End(o[f[e]][p]) = e.offset
  <2> SUFFICES ASSUME NEW e \in K PROVE f[e] \in S /\ End(o[f[e]][p]) = e.offset
    OBVIOUS
  <2>1. \E s \in S : End(o[s][p]) = e.offset
    BY ObjectInFront
  <2>2. f[e] = CHOOSE s \in S : End(o[s][p]) = e.offset
    OBVIOUS
  <2> HIDE DEF f
  <2> QED
    BY <2>1, <2>2
<1>5. f \in [K -> S]
  BY <1>4
<1> HIDE DEF f
<1>6. \A e, d \in K : f[e] = f[d] => e = d
  BY <1>3, <1>4
<1>7. f \in Injection(K, S)
  BY <1>5, <1>6 DEF Injection, IsInjective
<1>8. IsFiniteSet(K) /\ Cardinality(K) <= Cardinality(S)
  BY <1>7, FS_Injection
<1>9. IsFiniteSet(Z) /\ Cardinality(Z) <= 1
  <2>1. CASE Z = {}
    BY <2>1, FS_EmptySet
  <2>2. CASE Z # {}
    <3>1. PICK e : Z = {e}
      BY <1>3, <2>2
    <3>2. IsFiniteSet({e}) /\ Cardinality({e}) = 1
      BY FS_Singleton
    <3> HIDE DEF Z
    <3> QED
      BY <3>1, <3>2
  <2> QED
    BY <2>1, <2>2
<1>10. F = K \cup Z /\ K \cap Z = {}
  OBVIOUS
<1> HIDE DEF K, Z
<1>11. Cardinality(F) = Cardinality(K) + Cardinality(Z)
  <2>1. Cardinality(K \cup Z) = Cardinality(K) + Cardinality(Z) - Cardinality(K \cap Z)
    BY <1>8, <1>9, FS_Union
  <2>2. Cardinality({}) = 0 /\ Cardinality(K) \in Nat /\ Cardinality(Z) \in Nat
    BY <1>8, <1>9, FS_EmptySet, FS_CardinalityType
  <2>3. Cardinality(K \cap Z) = 0 /\ Cardinality(F) = Cardinality(K \cup Z)
    BY <1>10, <2>2
  <2> QED
    BY <2>1, <2>2, <2>3
<1> QED
  BY <1>8, <1>9, <1>11, FS_CardinalityType

\* Free extents never touch, so that a pool has at most one more of them than
\* there are objects: FreeExtentLocked merges with both neighbours and
\* AllocateExtentLocked leaves the object between what it splits off.  As every
\* node that is not unused describes a free extent, Free finds its two nodes
\* unless there are about half as many objects as nodes.
THEOREM PoolsStayCoalesced == ESpec => []Coalesced
<1>1. ASSUME ExtentsInv PROVE Coalesced
  <2>1. IsFiniteSet(Live) /\ Cardinality(Live) \in Nat
    BY SlotsAssumption, FS_Subset, FS_CardinalityType DEF Live
  <2>2. ASSUME NEW p \in Pools
        PROVE  /\ \A e, d \in free[p] : End(e) # d.offset
               /\ Cardinality(free[p]) \in Nat
               /\ Cardinality(free[p]) <= Cardinality(Live) + 1
    <3>1. Whole(free[p], Live, object, p) /\ IsFiniteSet(free[p])
      BY <1>1 DEF ExtentsInv, Whole, FreeOK
    <3>2. Cardinality(free[p]) \in Nat /\ Cardinality(free[p]) <= Cardinality(Live) + 1
      BY <2>1, <3>1, FreeBound, FS_CardinalityType
    <3> QED
      BY <3>1, <3>2 DEF Whole, FreeOK
  <2>3. /\ Cardinality(free["data"]) \in Nat /\ Cardinality(free["coherence"]) \in Nat
        /\ Cardinality(free["data"]) <= Cardinality(Live) + 1
        /\ Cardinality(free["coherence"]) <= Cardinality(Live) + 1
    BY <2>2 DEF Pools
  <2>4. Unused(free) < 2 => 2 * (Cardinality(Live) + 1) >= Nodes - 1
    BY <2>1, <2>3, NodesAssumption DEF Unused
  <2> QED
    BY <2>2, <2>4 DEF Coalesced
<1> QED
  BY <1>1, ExtentsInvHolds, PTL

-----------------------------------------------------------------------------
(* The write buffers of WriteRange.                                        *)

\* Lease l is what the token service granted to context c last.
Current(c, l) == holder[l.block] = c /\ epoch[l.block] = l.epoch

\* The grant that c is about to claim.
Claimed(c) ==
  IF run[c].pc = "waiting" /\ granted[c] # 0 THEN {Lease(run[c].want, granted[c])} ELSE {}

\* The lease that c is publishing.
Writing(c) == Head(run[c].writes)[run[c].next]

\* No block twice: in some buffers, in one buffer, in two sets of leases.
Scattered(buffers) ==
  \A i, j \in DOMAIN buffers : \A k \in DOMAIN buffers[i], m \in DOMAIN buffers[j] :
    buffers[i][k].block = buffers[j][m].block => i = j /\ k = m
Distinct(leases) == \A k, m \in DOMAIN leases : leases[k].block = leases[m].block => k = m
Filled(buffers) == \A i \in DOMAIN buffers : buffers[i] # <<>>
Apart(S, T) == \A k \in S, l \in T : k.block # l.block

\* The buffers of a context: those that still count have no block in common.
Frame(r) ==
  /\ Filled(r.staged) /\ Scattered(r.staged)
  /\ Filled(r.writes) /\ Scattered(r.writes)
  /\ Distinct(r.view) /\ Distinct(r.todo)
  /\ Apart(Within(r.staged), ToSet(r.view)) /\ Apart(Within(r.staged), ToSet(r.todo))
  /\ Apart(Within(r.staged), Within(r.writes))
  /\ r.pc \in {"idle", "waiting", "undoing"} => ~r.spent
  /\ r.pc \in {"idle", "waiting", "undoing", "active"} => r.writes = <<>>
  /\ r.pc = "idle" => r.view = <<>>
  /\ r.pc \in {"idle", "active"} => r.next = 1
  /\ r.pc = "waiting" =>
       /\ r.want = r.range[1] + Len(r.view) /\ r.want <= r.range[2]
       /\ \A i \in DOMAIN r.view : r.view[i].block = r.range[1] + i - 1
       /\ \A l \in Within(r.staged) : l.block \notin r.range[1] .. r.range[2]
  /\ r.pc = "active" => r.view # <<>>
  /\ r.pc \in {"publishing", "copying", "failing"} =>
       /\ r.writes # <<>>
       /\ IF r.view # <<>> THEN Len(r.writes) = 1 ELSE ~r.spent
  /\ r.pc \in {"publishing", "copying"} => r.next \in DOMAIN Head(r.writes)
  /\ r.pc = "aborting" /\ ~r.final => r.view # <<>> /\ r.next = 1 /\ r.writes = <<>>

\* A cleanup loop runs exactly while there is something to release.
Shape(r) == Frame(r) /\ (r.todo # <<>> <=> r.pc \in {"undoing", "aborting", "failing"})

ShapeOK == \A c \in Contexts : Shape(run[c])

\* A holder is on the owner, which has the token.
HolderOK == \A b \in Blocks : holder[b] # None => held[b] /\ owner[b] = HostOf[holder[b]]

\* A request with a waiter is the only one of a context that waits for it.
WaiterOf(q, b) == run[q.context].pc = "waiting" /\ run[q.context].want = b /\ granted[q.context] = 0
WaitersOK ==
  /\ \A b \in Blocks : \A q \in requests[b] : q.live => WaiterOf(q, b)
  /\ \A b \in Blocks : \A p, q \in requests[b] :
       p.live /\ q.live /\ p.context = q.context => p = q
  /\ \A c \in Contexts : run[c].pc = "waiting" /\ granted[c] = 0 =>
       \E q \in requests[run[c].want] : q.context = c /\ q.live

\* What a context counts on is what it was granted.
Mine(c) == Owned(run[c]) \cup Claimed(c)
KeptOK == \A c \in Contexts : \A l \in Mine(c) : l.block \notin stolen => Current(c, l)

\* What it was granted it can still release.
HeldOK ==
  \A b \in Blocks : \A c \in Contexts : holder[b] = c =>
    \E l \in Mine(c) \cup Releasing(run[c]) : l.block = b /\ l.epoch = epoch[b]

\* Windows are opened by those who copy.
WindowOK ==
  /\ \A b \in Blocks : odd[b] => held[b]
  /\ \A c \in Contexts : run[c].pc = "copying" /\ Current(c, Writing(c)) => odd[Writing(c).block]
  /\ \A b \in Blocks \ stolen : odd[b] =>
       \E c \in Contexts : Copying(c, b) /\ holder[b] \in {c, None} /\ Valid(c, Writing(c))

\* The inductive invariant.
RangeInv == TypeOK /\ ShapeOK /\ HolderOK /\ WaitersOK /\ KeptOK /\ HeldOK /\ WindowOK

-----------------------------------------------------------------------------
(* Records and leases.                                                     *)

LEMMA RunFields ==
  ASSUME NEW r \in Run
  PROVE  /\ r.pc \in Places /\ r.range \in Blocks \X Blocks /\ r.want \in Blocks
         /\ r.view \in Seq(Leases) /\ r.todo \in Seq(Leases)
         /\ r.staged \in Seq(Seq(Leases)) /\ r.writes \in Seq(Seq(Leases))
         /\ r.next \in Nat
         /\ r.failed \in BOOLEAN /\ r.final \in BOOLEAN /\ r.spent \in BOOLEAN
BY DEF Run

LEMMA LeaseFields ==
  ASSUME NEW b, NEW e
  PROVE  Lease(b, e).block = b /\ Lease(b, e).epoch = e
BY DEF Lease

LEMMA LeaseType ==
  ASSUME NEW b \in Blocks, NEW e \in Nat
  PROVE  Lease(b, e) \in Leases
BY DEF Lease, Leases

LEMMA LeaseIs ==
  ASSUME NEW l \in Leases
  PROVE  l.block \in Blocks /\ l.epoch \in Nat /\ l = Lease(l.block, l.epoch)
BY DEF Lease, Leases

LEMMA WithinType ==
  ASSUME NEW buffers \in Seq(Seq(Leases))
  PROVE  Within(buffers) \subseteq Leases
<1>1. ASSUME NEW i \in DOMAIN buffers PROVE ToSet(buffers[i]) \subseteq Leases
  <2>1. buffers[i] \in Seq(Leases)
    OBVIOUS
  <2>. QED  BY <2>1 DEF ToSet
<1>. QED  BY <1>1 DEF Within

LEMMA ToSetType ==
  ASSUME NEW s \in Seq(Leases)
  PROVE  ToSet(s) \subseteq Leases
BY DEF ToSet

\* A head and a tail.
LEMMA HeadTail ==
  ASSUME NEW S, NEW s \in Seq(S), s # <<>>
  PROVE  /\ Head(s) \in S /\ Head(s) = s[1] /\ 1 \in DOMAIN s
         /\ Tail(s) \in Seq(S) /\ Len(Tail(s)) = Len(s) - 1 /\ Len(s) \in Nat \ {0}
         /\ DOMAIN s = 1 .. Len(s) /\ DOMAIN Tail(s) = 1 .. Len(s) - 1
         /\ \A i \in DOMAIN Tail(s) : Tail(s)[i] = s[i + 1] /\ i + 1 \in DOMAIN s
BY EmptySeq, HeadTailProperties, LenProperties

\* Owned, place by place.
LEMMA OwnedIs ==
  ASSUME NEW r \in Run
  PROVE  /\ r.pc \in {"idle", "aborting", "failing"} => Owned(r) = Within(r.staged)
         /\ r.pc \in {"waiting", "active"} /\ ~r.spent =>
              Owned(r) = Within(r.staged) \cup ToSet(r.view)
         /\ r.pc = "undoing" => Owned(r) = Within(r.staged) \cup ToSet(r.todo)
         /\ r.pc \in {"publishing", "copying"} /\ ~r.spent =>
              Owned(r) = Within(r.staged) \cup From(Head(r.writes), r.next)
                           \cup Within(Tail(r.writes))
         /\ r.pc \in {"waiting", "active", "publishing", "copying"} /\ r.spent =>
              Owned(r) = Within(r.staged)
BY DEF Owned

LEMMA ReleasingIs ==
  ASSUME NEW r \in Run
  PROVE  /\ r.pc = "failing" => Releasing(r) = ToSet(r.todo) \cup Within(Tail(r.writes))
         /\ r.pc = "aborting" => Releasing(r) = ToSet(r.todo) \cup Within(r.writes)
         /\ r.pc \notin {"failing", "aborting"} => Releasing(r) = ToSet(r.todo)
BY DEF Releasing

\* Everything a context has is a lease of a block.
LEMMA OwnedType ==
  ASSUME TypeOK, ShapeOK, NEW c \in Contexts, NEW l \in Owned(run[c]) \cup Claimed(c)
  PROVE  l \in Leases /\ l.block \in Blocks
<1>. DEFINE r == run[c]
<1>1. r \in Run /\ granted[c] \in Nat /\ Shape(r)
  BY DEF TypeOK, ShapeOK
<1>2. /\ r.pc \in Places /\ r.want \in Blocks /\ r.view \in Seq(Leases) /\ r.todo \in Seq(Leases)
      /\ r.staged \in Seq(Seq(Leases)) /\ r.writes \in Seq(Seq(Leases)) /\ r.spent \in BOOLEAN
      /\ r.next \in Nat
  BY <1>1, RunFields
<1>3. Claimed(c) \subseteq Leases
  BY <1>1, <1>2, LeaseType DEF Claimed
<1>4. Within(r.staged) \subseteq Leases /\ ToSet(r.view) \subseteq Leases /\ ToSet(r.todo) \subseteq Leases
  BY <1>2, WithinType, ToSetType
<1>5. ASSUME r.pc \in {"publishing", "copying"}
      PROVE  From(Head(r.writes), r.next) \cup Within(Tail(r.writes)) \subseteq Leases
  <2>1. Head(r.writes) \in Seq(Leases) /\ Tail(r.writes) \in Seq(Seq(Leases)) /\ r.next \in DOMAIN Head(r.writes)
    BY <1>1, <1>2, <1>5, HeadTail DEF Shape, Frame
  <2>2. From(Head(r.writes), r.next) \subseteq Leases
    BY <1>2, <2>1, SMTT(60) DEF From
  <2>. QED  BY <2>1, <2>2, WithinType
<1>. HIDE DEF r
<1>6. Owned(r) \subseteq Leases
  BY <1>1, <1>2, <1>4, <1>5, OwnedIs DEF Places
<1>. QED  BY <1>3, <1>6, LeaseIs DEF r

LEMMA WritingType ==
  ASSUME TypeOK, ShapeOK, NEW c \in Contexts, run[c].pc \in {"publishing", "copying"}
  PROVE  /\ Writing(c) \in Leases /\ Writing(c).block \in Blocks
         /\ Head(run[c].writes) \in Seq(Leases) /\ run[c].next \in DOMAIN Head(run[c].writes)
         /\ run[c].writes \in Seq(Seq(Leases)) /\ run[c].writes # <<>>
<1>1. run[c] \in Run /\ Shape(run[c])
  BY DEF TypeOK, ShapeOK
<1>2. /\ run[c].writes \in Seq(Seq(Leases)) /\ run[c].writes # <<>>
      /\ run[c].next \in DOMAIN Head(run[c].writes)
  BY <1>1, RunFields DEF Shape, Frame
<1>3. Head(run[c].writes) \in Seq(Leases)
  BY <1>2, HeadTail
<1>4. Writing(c) \in Leases
  BY <1>2, <1>3 DEF Writing
<1>. QED  BY <1>2, <1>3, <1>4, LeaseIs


-----------------------------------------------------------------------------
(* Buffers as sequences and as sets of leases.                             *)

LEMMA Smaller ==
  ASSUME NEW S, NEW T, NEW S1, NEW T1, Apart(S, T), S1 \subseteq S, T1 \subseteq T
  PROVE  Apart(S1, T1)
BY DEF Apart

LEMMA EmptyIs ==
  /\ Within(<<>>) = {} /\ ToSet(<<>>) = {} /\ Filled(<<>>) /\ Scattered(<<>>) /\ Distinct(<<>>)
  /\ \A S : <<>> \in Seq(S)
BY EmptySeq DEF Within, ToSet, Filled, Scattered, Distinct

LEMMA TailIs ==
  ASSUME NEW s \in Seq(Leases), s # <<>>
  PROVE  /\ Head(s) \in Leases /\ Tail(s) \in Seq(Leases)
         /\ ToSet(s) = {Head(s)} \cup ToSet(Tail(s))
         /\ Distinct(s) => Distinct(Tail(s)) /\ \A k \in ToSet(Tail(s)) : k.block # Head(s).block
<1>. DEFINE t == Tail(s)
<1>1. /\ Head(s) \in Leases /\ Head(s) = s[1] /\ 1 \in DOMAIN s
      /\ t \in Seq(Leases) /\ Len(s) \in Nat \ {0}
      /\ DOMAIN s = 1 .. Len(s) /\ DOMAIN t = 1 .. Len(s) - 1
      /\ \A i \in DOMAIN t : t[i] = s[i + 1] /\ i + 1 \in DOMAIN s
  BY HeadTail
<1>. HIDE DEF t
<1>2. ASSUME NEW k \in ToSet(s) PROVE k = s[1] \/ k \in ToSet(t)
  <2>1. PICK i \in DOMAIN s : k = s[i]
    BY DEF ToSet
  <2>2. CASE i # 1
    <3>1. i - 1 \in DOMAIN t /\ (i - 1) + 1 = i
      BY <1>1, <2>2
    <3>. QED  BY <1>1, <2>1, <3>1 DEF ToSet
  <2>. QED  BY <2>1, <2>2
<1>3. ToSet(t) \subseteq ToSet(s) /\ s[1] \in ToSet(s)
  BY <1>1 DEF ToSet
<1>4. ASSUME Distinct(s) PROVE Distinct(t) /\ \A k \in ToSet(t) : k.block # s[1].block
  <2>1. ASSUME NEW i \in DOMAIN t, NEW j \in DOMAIN t, t[i].block = t[j].block PROVE i = j
    <3>1. i + 1 = j + 1
      BY <1>1, <1>4, <2>1 DEF Distinct
    <3>. QED  BY <1>1, <3>1
  <2>2. ASSUME NEW i \in DOMAIN t PROVE t[i].block # s[1].block
    <3>1. i + 1 # 1
      BY <1>1
    <3>. QED  BY <1>1, <1>4, <3>1 DEF Distinct
  <2>. QED  BY <2>1, <2>2 DEF Distinct, ToSet
<1>. QED  BY <1>1, <1>2, <1>3, <1>4 DEF t

LEMMA ReverseIs ==
  ASSUME NEW s \in Seq(Leases)
  PROVE  /\ Reverse(s) \in Seq(Leases) /\ ToSet(Reverse(s)) = ToSet(s)
         /\ Reverse(s) = <<>> <=> s = <<>>
         /\ Distinct(s) => Distinct(Reverse(s))
<1>. DEFINE t == Reverse(s)
<1>1. Len(s) \in Nat /\ DOMAIN s = 1 .. Len(s)
  BY LenProperties
<1>2. /\ t \in Seq(Leases) /\ Len(t) = Len(s) /\ DOMAIN t = 1 .. Len(s)
      /\ \A i \in 1 .. Len(s) : t[i] = s[Len(s) - i + 1] /\ Len(s) - i + 1 \in 1 .. Len(s)
  <2>1. \A i \in 1 .. Len(s) : Len(s) - i + 1 \in 1 .. Len(s)
    BY <1>1
  <2>2. t = [i \in 1 .. Len(s) |-> s[(Len(s) - i) + 1]]
    BY DEF Reverse
  <2>3. \A i \in 1 .. Len(s) : s[(Len(s) - i) + 1] \in Leases
    BY <1>1, <2>1
  <2>4. t \in Seq(Leases)
    BY <1>1, <2>2, <2>3, IsASeq
  <2>5. Len(t) = Len(s)
    BY <1>1, <2>2, <2>4, LenProperties
  <2>. QED  BY <2>1, <2>2, <2>4, <2>5
<1>. HIDE DEF t
<1>3. ASSUME NEW k \in ToSet(s) PROVE k \in ToSet(t)
  <2>1. PICK i \in 1 .. Len(s) : k = s[i]
    BY <1>1 DEF ToSet
  <2>2. Len(s) - i + 1 \in 1 .. Len(s) /\ Len(s) - (Len(s) - i + 1) + 1 = i
    BY <1>1
  <2>. QED  BY <1>2, <2>1, <2>2 DEF ToSet
<1>4. ToSet(t) \subseteq ToSet(s)
  BY <1>1, <1>2 DEF ToSet
<1>5. t = <<>> <=> s = <<>>
  BY <1>1, <1>2, EmptySeq
<1>6. ASSUME Distinct(s), NEW i \in DOMAIN t, NEW j \in DOMAIN t, t[i].block = t[j].block
      PROVE  i = j
  <2>1. Len(s) - i + 1 = Len(s) - j + 1
    BY <1>1, <1>2, <1>6, SMTT(60) DEF Distinct
  <2>. QED  BY <1>1, <1>2, <2>1
<1>. QED  BY <1>2, <1>3, <1>4, <1>5, <1>6 DEF t, Distinct

\* The rest of a buffer, as a sequence and as a set.
LEMMA RestIs ==
  ASSUME NEW s \in Seq(Leases), NEW n \in 1 .. Len(s) + 1
  PROVE  /\ SubSeq(s, n, Len(s)) \in Seq(Leases)
         /\ ToSet(SubSeq(s, n, Len(s))) = From(s, n) /\ From(s, n) \subseteq ToSet(s)
         /\ SubSeq(s, n, Len(s)) = <<>> <=> n = Len(s) + 1
         /\ Distinct(s) => Distinct(SubSeq(s, n, Len(s)))
<1>. DEFINE t == SubSeq(s, n, Len(s))
<1>1. Len(s) \in Nat /\ DOMAIN s = 1 .. Len(s) /\ n \in Nat
  BY LenProperties
<1>2. /\ t \in Seq(Leases) /\ Len(t) = Len(s) - n + 1 /\ DOMAIN t = 1 .. Len(s) - n + 1
      /\ \A i \in 1 .. Len(s) - n + 1 : t[i] = s[n + i - 1]
  <2>1. t \in Seq(Leases) /\ Len(t) = Len(s) - n + 1
        /\ \A i \in 1 .. Len(s) - n + 1 : t[i] = s[n + i - 1]
    BY <1>1, SubSeqProperties
  <2>. QED  BY <2>1, LenProperties
<1>. HIDE DEF t
<1>3. ASSUME NEW k \in From(s, n) PROVE k \in ToSet(t) /\ k \in ToSet(s)
  <2>1. PICK i \in n .. Len(s) : k = s[i]
    BY DEF From
  <2>2. i - n + 1 \in 1 .. Len(s) - n + 1 /\ n + (i - n + 1) - 1 = i /\ i \in DOMAIN s
    BY <1>1
  <2>. QED  BY <1>2, <2>1, <2>2 DEF ToSet
<1>4. ASSUME NEW k \in ToSet(t) PROVE k \in From(s, n)
  <2>1. PICK i \in 1 .. Len(s) - n + 1 : k = t[i]
    BY <1>2 DEF ToSet
  <2>2. n + i - 1 \in n .. Len(s)
    BY <1>1
  <2>. QED  BY <1>2, <2>1, <2>2 DEF From
<1>5. t = <<>> <=> n = Len(s) + 1
  BY <1>1, <1>2, EmptySeq
<1>6. ASSUME Distinct(s), NEW i \in 1 .. Len(s) - n + 1, NEW j \in 1 .. Len(s) - n + 1,
             t[i].block = t[j].block
      PROVE  i = j
  <2>1. n + i - 1 \in 1 .. Len(s) /\ n + j - 1 \in 1 .. Len(s)
    BY <1>1
  <2>2. s[n + i - 1].block = s[n + j - 1].block
    BY <1>2, <1>6
  <2>3. n + i - 1 = n + j - 1
    BY <1>1, <1>6, <2>1, <2>2 DEF Distinct
  <2>. QED  BY <1>1, <2>3
<1>. QED  BY <1>2, <1>3, <1>4, <1>5, <1>6 DEF t, Distinct

LEMMA FromIs ==
  ASSUME NEW s \in Seq(Leases)
  PROVE  /\ From(s, 1) = ToSet(s) /\ From(s, Len(s) + 1) = {}
         /\ \A n \in DOMAIN s : From(s, n) = {s[n]} \cup From(s, n + 1)
         /\ Distinct(s) => \A n \in DOMAIN s : \A k \in From(s, n + 1) : k.block # s[n].block
<1>1. Len(s) \in Nat /\ DOMAIN s = 1 .. Len(s)
  BY LenProperties
<1>2. From(s, 1) = ToSet(s) /\ From(s, Len(s) + 1) = {}
  BY <1>1 DEF From, ToSet
<1>3. ASSUME NEW n \in DOMAIN s PROVE From(s, n) = {s[n]} \cup From(s, n + 1)
  <2>1. n .. Len(s) = {n} \cup (n + 1 .. Len(s))
    BY <1>1
  <2>. QED  BY <2>1 DEF From
<1>4. ASSUME Distinct(s), NEW n \in DOMAIN s, NEW k \in From(s, n + 1) PROVE k.block # s[n].block
  <2>1. PICK i \in n + 1 .. Len(s) : k = s[i]
    BY DEF From
  <2>2. i \in DOMAIN s /\ i # n
    BY <1>1
  <2>. QED  BY <1>4, <2>1, <2>2 DEF Distinct
<1>. QED  BY <1>2, <1>3, <1>4

LEMMA AppendIs ==
  ASSUME NEW s \in Seq(Leases), NEW l \in Leases
  PROVE  /\ Append(s, l) \in Seq(Leases) /\ Append(s, l) # <<>> /\ Len(Append(s, l)) = Len(s) + 1
         /\ ToSet(Append(s, l)) = ToSet(s) \cup {l}
         /\ Distinct(s) /\ (\A k \in ToSet(s) : k.block # l.block) => Distinct(Append(s, l))
<1>. DEFINE t == Append(s, l)
<1>1. /\ Len(s) \in Nat /\ DOMAIN s = 1 .. Len(s)
      /\ t \in Seq(Leases) /\ Len(t) = Len(s) + 1 /\ DOMAIN t = 1 .. Len(s) + 1
      /\ t[Len(s) + 1] = l /\ \A i \in 1 .. Len(s) : t[i] = s[i]
  <2>1. t \in Seq(Leases) /\ Len(t) = Len(s) + 1 /\ Len(s) \in Nat /\ DOMAIN s = 1 .. Len(s)
    BY AppendProperties, LenProperties
  <2>2. t[Len(s) + 1] = l /\ \A i \in 1 .. Len(s) : t[i] = s[i]
    BY AppendProperties
  <2>. QED  BY <2>1, <2>2, LenProperties
<1>. HIDE DEF t
<1>2. DOMAIN t = DOMAIN s \cup {Len(s) + 1} /\ Len(s) + 1 \notin DOMAIN s
  BY <1>1
<1>3. ToSet(t) = ToSet(s) \cup {l}
  BY <1>1, <1>2 DEF ToSet
<1>4. t # <<>>
  BY <1>1, EmptySeq
<1>5. ASSUME Distinct(s), \A k \in ToSet(s) : k.block # l.block,
             NEW i \in DOMAIN t, NEW j \in DOMAIN t, t[i].block = t[j].block
      PROVE  i = j
  BY <1>1, <1>2, <1>5 DEF Distinct, ToSet
<1>. QED  BY <1>1, <1>3, <1>4, <1>5 DEF t, Distinct

LEMMA WithinTail ==
  ASSUME NEW w \in Seq(Seq(Leases)), w # <<>>, Filled(w), Scattered(w)
  PROVE  /\ Head(w) \in Seq(Leases) /\ Head(w) # <<>> /\ Distinct(Head(w))
         /\ Tail(w) \in Seq(Seq(Leases)) /\ Filled(Tail(w)) /\ Scattered(Tail(w))
         /\ Len(Tail(w)) = Len(w) - 1
         /\ Within(w) = ToSet(Head(w)) \cup Within(Tail(w))
         /\ Apart(ToSet(Head(w)), Within(Tail(w)))
<1>. DEFINE t == Tail(w)
<1>1. /\ Head(w) \in Seq(Leases) /\ Head(w) = w[1] /\ 1 \in DOMAIN w
      /\ t \in Seq(Seq(Leases)) /\ Len(w) \in Nat \ {0} /\ Len(t) = Len(w) - 1
      /\ DOMAIN w = 1 .. Len(w) /\ DOMAIN t = 1 .. Len(w) - 1
      /\ \A i \in DOMAIN t : t[i] = w[i + 1] /\ i + 1 \in DOMAIN w
  BY HeadTail
<1>. HIDE DEF t
<1>2. w[1] # <<>> /\ Filled(t)
  BY <1>1 DEF Filled
<1>7. Distinct(w[1])
  <2>1. ASSUME NEW k \in DOMAIN w[1], NEW m \in DOMAIN w[1], w[1][k].block = w[1][m].block
        PROVE  k = m
    <3>1. 1 \in DOMAIN w
      BY <1>1
    <3>2. \A k2 \in DOMAIN w[1], m2 \in DOMAIN w[1] : w[1][k2].block = w[1][m2].block => k2 = m2
      BY <3>1, SMT DEF Scattered
    <3>. QED  BY <2>1, <3>2
  <2>. QED  BY <2>1 DEF Distinct
<1>3. ASSUME NEW i \in DOMAIN t, NEW j \in DOMAIN t, NEW k \in DOMAIN t[i], NEW m \in DOMAIN t[j],
             t[i][k].block = t[j][m].block
      PROVE  i = j /\ k = m
  <2>. DEFINE I == i + 1
              J == j + 1
  <2>1. I \in DOMAIN w /\ J \in DOMAIN w /\ t[i] = w[I] /\ t[j] = w[J]
    BY <1>1
  <2>. HIDE DEF I, J
  <2>3. k \in DOMAIN w[I] /\ m \in DOMAIN w[J] /\ w[I][k].block = w[J][m].block
    BY <1>3, <2>1, Zenon
  <2>2. I = J /\ k = m
    BY <2>1, <2>3, SMT DEF Scattered
  <2>. QED  BY <1>1, <2>2 DEF I, J
<1>4. ASSUME NEW l \in Within(w) PROVE l \in ToSet(w[1]) \cup Within(t)
  <2>1. PICK i \in DOMAIN w : l \in ToSet(w[i])
    BY DEF Within
  <2>2. CASE i # 1
    <3>1. i - 1 \in DOMAIN t /\ (i - 1) + 1 = i
      BY <1>1, <2>2, SMTT(60)
    <3>. QED  BY <1>1, <2>1, <3>1 DEF Within
  <2>. QED  BY <2>1, <2>2
<1>5. ToSet(w[1]) \cup Within(t) \subseteq Within(w)
  BY <1>1 DEF Within
<1>6. ASSUME NEW k \in ToSet(w[1]), NEW l \in Within(t) PROVE k.block # l.block
  <2>1. PICK i \in DOMAIN t : l \in ToSet(t[i])
    BY DEF Within
  <2>. DEFINE I == i + 1
  <2>2. I # 1 /\ l \in ToSet(w[I]) /\ I \in DOMAIN w
    BY <1>1, <2>1, SMTT(60)
  <2>. HIDE DEF I
  <2>3. PICK p \in DOMAIN w[1] : k = w[1][p]
    BY DEF ToSet
  <2>4. PICK m \in DOMAIN w[I] : l = w[I][m]
    BY <2>2 DEF ToSet
  <2>. QED  BY <1>1, <2>2, <2>3, <2>4, Zenon DEF Scattered
<1>8. Scattered(t) /\ Apart(ToSet(w[1]), Within(t))
  BY <1>3, <1>6 DEF Scattered, Apart
<1>. QED  BY <1>1, <1>2, <1>4, <1>5, <1>7, <1>8 DEF t

LEMMA WithinAppend ==
  ASSUME NEW w \in Seq(Seq(Leases)), Filled(w), Scattered(w),
         NEW s \in Seq(Leases), s # <<>>, Distinct(s), Apart(Within(w), ToSet(s))
  PROVE  /\ Append(w, s) \in Seq(Seq(Leases)) /\ Filled(Append(w, s)) /\ Scattered(Append(w, s))
         /\ Within(Append(w, s)) = Within(w) \cup ToSet(s)
<1>. DEFINE t == Append(w, s)
            n == Len(w) + 1
<1>1. /\ Len(w) \in Nat /\ DOMAIN w = 1 .. Len(w)
      /\ t \in Seq(Seq(Leases)) /\ DOMAIN t = 1 .. n
      /\ t[n] = s /\ \A i \in 1 .. Len(w) : t[i] = w[i]
  <2>1. t \in Seq(Seq(Leases)) /\ Len(t) = n /\ Len(w) \in Nat /\ DOMAIN w = 1 .. Len(w)
    BY AppendProperties, LenProperties
  <2>2. t[n] = s /\ \A i \in 1 .. Len(w) : t[i] = w[i]
    BY AppendProperties
  <2>. QED  BY <2>1, <2>2, LenProperties
<1>2. DOMAIN t = DOMAIN w \cup {n} /\ n \notin DOMAIN w
  BY <1>1
<1>. HIDE DEF t, n
<1>3. \A i \in DOMAIN w : t[i] = w[i]
  BY <1>1
<1>4. Filled(t) /\ Within(t) = Within(w) \cup ToSet(s)
  BY <1>1, <1>2, <1>3, ZenonT(60) DEF Filled, Within
<1>5. ASSUME NEW i \in DOMAIN t, NEW j \in DOMAIN t, NEW k \in DOMAIN t[i], NEW m \in DOMAIN t[j],
             t[i][k].block = t[j][m].block
      PROVE  i = j /\ k = m
  <2>1. CASE i \in DOMAIN w /\ j \in DOMAIN w
    BY <1>3, <1>5, <2>1 DEF Scattered
  <2>2. CASE i = n /\ j = n
    BY <1>1, <1>5, <2>2 DEF Distinct
  <2>3. CASE i \in DOMAIN w /\ j = n
    <3>1. w[i][k] \in Within(w) /\ s[m] \in ToSet(s)
      BY <1>1, <1>3, <2>3 DEF Within, ToSet
    <3>. QED  BY <1>1, <1>3, <1>5, <2>3, <3>1 DEF Apart
  <2>4. CASE i = n /\ j \in DOMAIN w
    <3>1. w[j][m] \in Within(w) /\ s[k] \in ToSet(s)
      BY <1>1, <1>3, <2>4 DEF Within, ToSet
    <3>. QED  BY <1>1, <1>3, <1>5, <2>4, <3>1 DEF Apart
  <2>. QED  BY <1>2, <2>1, <2>2, <2>3, <2>4
<1>. QED  BY <1>1, <1>4, <1>5 DEF t, Scattered

LEMMA SingleIs ==
  ASSUME NEW s \in Seq(Leases), s # <<>>, Distinct(s)
  PROVE  /\ <<s>> \in Seq(Seq(Leases)) /\ <<s>> # <<>> /\ Len(<<s>>) = 1 /\ Head(<<s>>) = s
         /\ Filled(<<s>>) /\ Scattered(<<s>>)
         /\ Within(<<s>>) = ToSet(s) /\ Tail(<<s>>) = <<>>
<1>1. /\ <<s>> \in Seq(Seq(Leases)) /\ <<s>> # <<>> /\ Len(<<s>>) = 1 /\ Head(<<s>>) = s
      /\ DOMAIN <<s>> = {1} /\ <<s>>[1] = s
  OBVIOUS
<1>2. Tail(<<s>>) = <<>>
  BY <1>1, HeadTailProperties, EmptySeq
<1>3. Filled(<<s>>) /\ Within(<<s>>) = ToSet(s)
  BY <1>1 DEF Filled, Within
<1>4. Scattered(<<s>>)
  BY <1>1 DEF Scattered, Distinct
<1>. QED  BY <1>1, <1>2, <1>3, <1>4

\* One buffer left is the first one.
LEMMA LastBuffer ==
  ASSUME NEW w \in Seq(Seq(Leases)), w # <<>>, Len(w) = 1
  PROVE  Tail(w) = <<>> /\ Within(Tail(w)) = {}
<1>1. Tail(w) \in Seq(Seq(Leases)) /\ Len(Tail(w)) = 0
  BY HeadTail
<1>2. Tail(w) = <<>>
  BY <1>1, EmptySeq
<1>. QED  BY <1>2, EmptyIs
-----------------------------------------------------------------------------
(* Steps of a context, by what they ask of the token service.              *)

\* The other contexts are where they were.
LEMMA OthersStay ==
  ASSUME TypeOK, NEW c \in Contexts, NEW n \in Run, run' = [run EXCEPT ![c] = n]
  PROVE  /\ run' \in [Contexts -> Run] /\ run'[c] = n
         /\ \A d \in Contexts \ {c} : run'[d] = run[d]
BY DEF TypeOK

LEMMA ShapeStays ==
  ASSUME TypeOK, ShapeOK, NEW c \in Contexts, NEW n \in Run, Shape(n),
         run' = [run EXCEPT ![c] = n]
  PROVE  ShapeOK'
BY OthersStay DEF ShapeOK

\* A context that has a grant, or does not wait, has no live request.
LEMMA NoLiveRequest ==
  ASSUME TypeOK, WaitersOK, NEW c \in Contexts, run[c].pc = "waiting" => granted[c] # 0,
         NEW b \in Blocks, NEW q \in requests[b], q.live
  PROVE  q.context \in Contexts \ {c}
BY DEF TypeOK, WaitersOK, WaiterOf

\* No call: a context moves leases from one of its places to another.
LEMMA MoveKeeps ==
  ASSUME RangeInv, NEW c \in Contexts, NEW n \in Run, Shape(n), run' = [run EXCEPT ![c] = n],
         UNCHANGED <<token, holder, stolen>>, acquires' \in [Contexts -> Nat],
         granted' \in {granted, [granted EXCEPT ![c] = 0]},
         run[c].pc # "copying", n.pc # "copying",
         run[c].pc = "waiting" => granted[c] # 0, n.pc # "waiting",
         Owned(n) \subseteq Mine(c),
         Mine(c) \cup Releasing(run[c]) \subseteq Owned(n) \cup Releasing(n)
  PROVE  RangeInv'
<1>1. /\ TypeOK /\ ShapeOK /\ HolderOK /\ WaitersOK /\ KeptOK /\ HeldOK /\ WindowOK
      /\ UNCHANGED <<owner, epoch, held, odd, requests, holder, stolen>>
  BY DEF RangeInv, token
<1>2. run' \in [Contexts -> Run] /\ run'[c] = n /\ \A d \in Contexts \ {c} : run'[d] = run[d]
  BY <1>1, OthersStay
<1>3. granted' \in [Contexts -> Nat] /\ \A d \in Contexts \ {c} : granted'[d] = granted[d]
  BY <1>1 DEF TypeOK
<1>4. TypeOK'
  BY <1>1, <1>2, <1>3 DEF TypeOK
<1>5. ShapeOK'
  BY <1>1, ShapeStays
<1>6. HolderOK'
  BY <1>1 DEF HolderOK
<1>7. WaitersOK'
  <2>1. ASSUME NEW b \in Blocks, NEW q \in requests[b], q.live PROVE WaiterOf(q, b)'
    <3>1. q.context \in Contexts \ {c} /\ WaiterOf(q, b)
      BY <1>1, <2>1, NoLiveRequest DEF WaitersOK
    <3>. QED  BY <1>2, <1>3, <3>1 DEF WaiterOf
  <2>2. ASSUME NEW d \in Contexts, run'[d].pc = "waiting", granted'[d] = 0
        PROVE  \E q \in requests[run'[d].want] : q.context = d /\ q.live
    <3>1. d # c
      BY <1>2, <2>2
    <3>. QED  BY <1>1, <1>2, <1>3, <2>2, <3>1 DEF WaitersOK
  <2>. QED  BY <1>1, <2>1, <2>2 DEF WaitersOK
<1>8. Mine(c)' = Owned(n) /\ Releasing(run[c])' = Releasing(n)
  BY <1>2 DEF Mine, Claimed
<1>9. ASSUME NEW d \in Contexts \ {c}
      PROVE  Mine(d)' = Mine(d) /\ Releasing(run[d])' = Releasing(run[d])
  BY <1>2, <1>3 DEF Mine, Claimed
<1>10. KeptOK'
  BY <1>1, <1>8, <1>9 DEF KeptOK, Current
<1>11. HeldOK'
  <2>1. ASSUME NEW b \in Blocks, NEW d \in Contexts, holder[b] = d
        PROVE  \E l \in Mine(d)' \cup Releasing(run[d])' : l.block = b /\ l.epoch = epoch[b]
    <3>1. PICK l \in Mine(d) \cup Releasing(run[d]) : l.block = b /\ l.epoch = epoch[b]
      BY <1>1, <2>1 DEF HeldOK
    <3>2. l \in Mine(d)' \cup Releasing(run[d])'
      BY <1>8, <1>9, <3>1
    <3>. QED  BY <3>1, <3>2
  <2>. QED  BY <1>1, <2>1 DEF HeldOK
<1>12. WindowOK'
  <2>1. ASSUME NEW d \in Contexts, run'[d].pc = "copying", Current(d, Writing(d))'
        PROVE  odd[Writing(d)'.block]
    <3>1. d # c /\ Writing(d)' = Writing(d) /\ Current(d, Writing(d))
      BY <1>1, <1>2, <2>1 DEF Writing, Current
    <3>. QED  BY <1>1, <1>2, <2>1, <3>1, SMTT(60) DEF WindowOK
  <2>2. ASSUME NEW b \in Blocks \ stolen, odd[b]
        PROVE  \E d \in Contexts :
                 Copying(d, b)' /\ holder[b] \in {d, None} /\ Valid(d, Writing(d))'
    <3>1. PICK d \in Contexts :
            Copying(d, b) /\ holder[b] \in {d, None} /\ Valid(d, Writing(d))
      BY <1>1, <2>2 DEF WindowOK
    <3>2. d # c
      BY <3>1, SMTT(60) DEF Copying, At
    <3>3. Copying(d, b)' /\ Valid(d, Writing(d))'
      BY <1>1, <1>2, <3>1, <3>2 DEF Copying, At, Writing, Valid
    <3>. QED  BY <3>1, <3>3
  <2>. QED  BY <1>1, <2>1, <2>2 DEF WindowOK
<1>. QED  BY <1>4, <1>5, <1>6, <1>7, <1>10, <1>11, <1>12 DEF RangeInv

\* A request of the next block.
LEMMA RequestKeeps ==
  ASSUME RangeInv, NEW c \in Contexts, NEW n \in Run, Shape(n), run' = [run EXCEPT ![c] = n],
         NEW b \in Blocks, Request(c, b), acquires' \in [Contexts -> Nat],
         run[c].pc \in {"idle", "waiting"}, run[c].pc = "waiting" => granted[c] # 0,
         n.pc = "waiting", n.want = b,
         Owned(n) = Mine(c), Releasing(run[c]) \subseteq Releasing(n)
  PROVE  RangeInv'
<1>. DEFINE now == owner[b] = HostOf[c] /\ ~held[b]
<1>1. /\ TypeOK /\ ShapeOK /\ HolderOK /\ WaitersOK /\ KeptOK /\ HeldOK /\ WindowOK
  BY DEF RangeInv
<1>2. run' \in [Contexts -> Run] /\ run'[c] = n /\ \A d \in Contexts \ {c} : run'[d] = run[d]
  BY <1>1, OthersStay
<1>3. /\ UNCHANGED <<owner, epoch, odd, stolen>>
      /\ granted' = [granted EXCEPT ![c] = IF now THEN epoch[b] ELSE 0]
      /\ held' = IF now THEN [held EXCEPT ![b] = TRUE] ELSE held
      /\ holder' = IF now THEN [holder EXCEPT ![b] = c] ELSE holder
      /\ requests' = IF now THEN requests ELSE [requests EXCEPT ![b] = @ \cup {Entry(c, b)}]
  BY DEF Request
<1>4. /\ Entry(c, b) \in [context : Contexts, live : BOOLEAN, sent : Nat]
      /\ Entry(c, b).context = c /\ Entry(c, b).live
  BY <1>1 DEF Entry, TypeOK
<1>5. /\ granted' \in [Contexts -> Nat] /\ granted'[c] = (IF now THEN epoch[b] ELSE 0)
      /\ \A d \in Contexts \ {c} : granted'[d] = granted[d]
      /\ epoch[b] \in Nat \ {0}
  BY <1>1, <1>3 DEF TypeOK
<1>6. /\ held' \in [Blocks -> BOOLEAN] /\ holder' \in [Blocks -> Contexts \cup {None}]
      /\ requests' \in [Blocks -> SUBSET [context : Contexts, live : BOOLEAN, sent : Nat]]
      /\ \A x \in Blocks \ {b} : held'[x] = held[x] /\ holder'[x] = holder[x]
                                 /\ requests'[x] = requests[x]
      /\ now => held'[b] = TRUE /\ holder'[b] = c
      /\ ~now => held'[b] = held[b] /\ holder'[b] = holder[b]
      /\ requests'[b] = (IF now THEN requests[b] ELSE requests[b] \cup {Entry(c, b)})
  BY <1>1, <1>3, <1>4, ZenonT(60) DEF TypeOK
<1>. HIDE DEF now
<1>7. now => held[b] = FALSE /\ owner[b] = HostOf[c] /\ holder[b] = None /\ odd[b] = FALSE
  BY <1>1 DEF now, HolderOK, WindowOK, TypeOK
<1>8. TypeOK'
  BY <1>1, <1>2, <1>3, <1>5, <1>6 DEF TypeOK
<1>9. ShapeOK'
  BY <1>1, ShapeStays
<1>10. HolderOK'
  BY <1>1, <1>3, <1>6, <1>7 DEF HolderOK
<1>11. WaitersOK'
  <2>1. ASSUME NEW x \in Blocks, NEW q \in requests[x], q.live
        PROVE  WaiterOf(q, x)' /\ q.context \in Contexts \ {c}
    <3>1. q.context \in Contexts \ {c} /\ WaiterOf(q, x)
      BY <1>1, <2>1, NoLiveRequest DEF WaitersOK
    <3>. QED  BY <1>2, <1>5, <3>1 DEF WaiterOf
  <2>2. ASSUME NEW x \in Blocks, NEW q \in requests'[x], q.live PROVE WaiterOf(q, x)'
    <3>1. q \in requests[x] \/ (x = b /\ q = Entry(c, b) /\ ~now)
      BY <1>6, <2>2
    <3>2. CASE x = b /\ q = Entry(c, b) /\ ~now
      BY <1>2, <1>4, <1>5, <3>2 DEF WaiterOf
    <3>. QED  BY <2>1, <2>2, <3>1, <3>2
  <2>3. ASSUME NEW x \in Blocks, NEW p \in requests'[x], NEW q \in requests'[x],
               p.live, q.live, p.context = q.context
        PROVE  p = q
    <3>1. /\ p \in requests[x] \/ p = Entry(c, b)
          /\ q \in requests[x] \/ q = Entry(c, b)
      BY <1>6
    <3>. QED  BY <1>1, <1>4, <2>1, <2>3, <3>1 DEF WaitersOK
  <2>4. ASSUME NEW d \in Contexts, run'[d].pc = "waiting", granted'[d] = 0
        PROVE  \E q \in requests'[run'[d].want] : q.context = d /\ q.live
    <3>1. CASE d = c
      <4>1. ~now /\ run'[d].want = b
        BY <1>2, <1>5, <2>4, <3>1
      <4>. QED  BY <1>4, <1>6, <3>1, <4>1
    <3>2. CASE d # c
      <4>1. run[d].want \in Blocks /\ run'[d] = run[d]
        BY <1>1, <1>2, <3>2, RunFields DEF TypeOK
      <4>2. PICK q \in requests[run[d].want] : q.context = d /\ q.live
        BY <1>1, <1>2, <1>5, <2>4, <3>2 DEF WaitersOK
      <4>3. q \in requests'[run[d].want]
        BY <1>6, <4>1, <4>2
      <4>. QED  BY <4>1, <4>2, <4>3
    <3>. QED  BY <3>1, <3>2
  <2>. QED  BY <2>2, <2>3, <2>4 DEF WaitersOK
<1>12. Mine(c)' = Owned(n) \cup (IF now THEN {Lease(b, epoch[b])} ELSE {})
  BY <1>2, <1>5 DEF Mine, Claimed
<1>13. ASSUME NEW d \in Contexts \ {c}
       PROVE  Mine(d)' = Mine(d) /\ Releasing(run[d])' = Releasing(run[d])
  BY <1>2, <1>5 DEF Mine, Claimed
<1>14. KeptOK'
  <2>1. ASSUME NEW d \in Contexts, NEW l \in Mine(d), l.block \notin stolen
        PROVE  Current(d, l)'
    <3>1. Current(d, l) /\ d # None
      BY <1>1, <2>1, ContextsAssumption DEF KeptOK
    <3>. QED  BY <1>3, <1>6, <1>7, <3>1 DEF Current
  <2>2. now => Current(c, Lease(b, epoch[b]))'
    BY <1>3, <1>6, LeaseFields DEF Current
  <2>. QED  BY <1>3, <1>12, <1>13, <2>1, <2>2 DEF KeptOK
<1>15. HeldOK'
  <2>1. ASSUME NEW x \in Blocks, NEW d \in Contexts, holder'[x] = d
        PROVE  \E l \in Mine(d)' \cup Releasing(run[d])' : l.block = x /\ l.epoch = epoch[x]
    <3>1. CASE now /\ x = b
      BY <1>6, <1>12, <2>1, <3>1, LeaseFields
    <3>2. CASE ~(now /\ x = b)
      <4>1. holder[x] = d
        BY <1>6, <2>1, <3>2
      <4>2. PICK l \in Mine(d) \cup Releasing(run[d]) : l.block = x /\ l.epoch = epoch[x]
        BY <1>1, <4>1 DEF HeldOK
      <4>3. l \in Mine(d)' \cup Releasing(run[d])'
        BY <1>2, <1>12, <1>13, <4>2
      <4>. QED  BY <4>2, <4>3
    <3>. QED  BY <3>1, <3>2
  <2>. QED  BY <1>3, <2>1 DEF HeldOK
<1>16. WindowOK'
  <2>1. ASSUME NEW x \in Blocks, odd[x] PROVE held'[x]
    BY <1>1, <1>6, <2>1 DEF WindowOK
  <2>2. ASSUME NEW d \in Contexts, run'[d].pc = "copying", Current(d, Writing(d))'
        PROVE  odd[Writing(d)'.block]
    <3>1. d # c /\ Writing(d)' = Writing(d)
      BY <1>2, <2>2 DEF Writing
    <3>2. Current(d, Writing(d))
      BY <1>3, <1>6, <2>2, <3>1 DEF Current
    <3>. QED  BY <1>1, <1>2, <2>2, <3>1, <3>2 DEF WindowOK
  <2>3. ASSUME NEW x \in Blocks \ stolen, odd[x]
        PROVE  \E d \in Contexts :
                 Copying(d, x)' /\ holder'[x] \in {d, None} /\ Valid(d, Writing(d))'
    <3>1. PICK d \in Contexts :
            Copying(d, x) /\ holder[x] \in {d, None} /\ Valid(d, Writing(d))
      BY <1>1, <2>3 DEF WindowOK
    <3>2. d # c /\ ~(now /\ x = b)
      BY <1>7, <2>3, <3>1 DEF Copying, At
    <3>3. run'[d] = run[d] /\ Writing(d).block = x
      BY <1>2, <3>1, <3>2 DEF Copying, Writing
    <3>4. Copying(d, x)' /\ Writing(d)' = Writing(d)
      BY <3>1, <3>3 DEF Copying, At, Writing
    <3>5. Valid(d, Writing(d))' /\ holder'[x] = holder[x]
      BY <1>3, <1>6, <3>1, <3>2, <3>3, <3>4 DEF Valid
    <3>. QED  BY <3>1, <3>4, <3>5
  <2>. QED  BY <1>3, <2>1, <2>2, <2>3 DEF WindowOK
<1>. QED  BY <1>8, <1>9, <1>10, <1>11, <1>14, <1>15, <1>16 DEF RangeInv

\* Grant, seen from the block it is about and from all others.
LEMMA GrantIs ==
  ASSUME TypeOK, NEW b \in Blocks, NEW q \in requests[b], NEW G \in [Contexts -> Nat],
         Grant(b, q, G)
  PROVE  \E e \in Nat \ {0} :
           /\ owner' \in [Blocks -> Hosts] /\ epoch' \in [Blocks -> Nat \ {0}]
           /\ held' \in [Blocks -> BOOLEAN] /\ holder' \in [Blocks -> Contexts \cup {None}]
           /\ requests' \in [Blocks -> SUBSET [context : Contexts, live : BOOLEAN, sent : Nat]]
           /\ granted' \in [Contexts -> Nat] /\ q.context \in Contexts
           /\ \A x \in Blocks \ {b} :
                /\ owner'[x] = owner[x] /\ epoch'[x] = epoch[x] /\ held'[x] = held[x]
                /\ holder'[x] = holder[x] /\ requests'[x] = requests[x]
           /\ owner'[b] = HostOf[q.context] /\ epoch'[b] = e /\ held'[b] = TRUE
           /\ requests'[b] = requests[b] \ {q}
           /\ \A d \in Contexts : q.live /\ d = q.context => granted'[d] = e
           /\ \A d \in Contexts : ~(q.live /\ d = q.context) => granted'[d] = G[d]
           /\ holder'[b] = IF q.live THEN q.context ELSE None
<1>1. q.context \in Contexts /\ HostOf[q.context] \in Hosts /\ epoch[b] \in Nat \ {0}
  BY ContextsAssumption DEF TypeOK
<1>2. PICK e \in Nat \ {0} :
        e = IF HostOf[q.context] = owner[b] THEN epoch[b] ELSE epoch[b] + 1
  BY <1>1
<1>3. /\ owner' = [owner EXCEPT ![b] = HostOf[q.context]]
      /\ epoch' = [epoch EXCEPT ![b] = e]
      /\ held' = [held EXCEPT ![b] = TRUE]
      /\ requests' = [requests EXCEPT ![b] = @ \ {q}]
      /\ granted' = IF q.live THEN [G EXCEPT ![q.context] = e] ELSE G
      /\ holder' = [holder EXCEPT ![b] = IF q.live THEN q.context ELSE None]
  BY <1>2 DEF Grant
<1>4. /\ owner' \in [Blocks -> Hosts] /\ epoch' \in [Blocks -> Nat \ {0}]
      /\ held' \in [Blocks -> BOOLEAN] /\ holder' \in [Blocks -> Contexts \cup {None}]
      /\ granted' \in [Contexts -> Nat]
      /\ owner'[b] = HostOf[q.context] /\ epoch'[b] = e /\ held'[b] = TRUE
      /\ holder'[b] = IF q.live THEN q.context ELSE None
  BY <1>1, <1>3 DEF TypeOK
<1>5. /\ requests' \in [Blocks -> SUBSET [context : Contexts, live : BOOLEAN, sent : Nat]]
      /\ requests'[b] = requests[b] \ {q}
  BY <1>3 DEF TypeOK
<1>6. \A x \in Blocks \ {b} :
        /\ owner'[x] = owner[x] /\ epoch'[x] = epoch[x] /\ held'[x] = held[x]
        /\ holder'[x] = holder[x] /\ requests'[x] = requests[x]
  BY <1>3 DEF TypeOK
<1>7. /\ \A d \in Contexts : q.live /\ d = q.context => granted'[d] = e
      /\ \A d \in Contexts : ~(q.live /\ d = q.context) => granted'[d] = G[d]
  BY <1>1, <1>3
<1>. QED  BY <1>1, <1>4, <1>5, <1>6, <1>7

\* Only the contexts L move.  They let go of block b, and nobody else counts on
\* it; G is granted without what they had claimed.
OnlyMoves(L, b, G) ==
  /\ L \subseteq Contexts
  /\ \A d \in Contexts \ L : run'[d] = run[d] /\ G[d] = granted[d]
  /\ \A d \in L :
       /\ run[d].pc = "waiting" => granted[d] # 0
       /\ run'[d].pc \notin {"waiting", "copying"}
       /\ run[d].pc = "copying" => Writing(d).block = b
       /\ Owned(run'[d]) \subseteq Mine(d)
       /\ \A l \in Owned(run'[d]) : l.block # b
       /\ \A l \in Mine(d) \cup Releasing(run[d]) : l.block # b =>
            l \in Owned(run'[d]) \cup Releasing(run'[d])
  /\ b \in stolen' \/ ~held[b] \/ holder[b] \in L \cup {None}

\* The token of block b goes from hand to hand: what Release and Deliver have
\* in common.
LEMMA PassKeeps ==
  ASSUME RangeInv, NEW b \in Blocks, NEW q \in requests[b], NEW G \in [Contexts -> Nat],
         Grant(b, q, G), odd'[b] = FALSE, odd' \in [Blocks -> BOOLEAN],
         \A x \in Blocks \ {b} : odd'[x] = odd[x],
         stolen \subseteq stolen', stolen' \subseteq Blocks,
         run' \in [Contexts -> Run], ShapeOK', acquires' \in [Contexts -> Nat],
         NEW L, OnlyMoves(L, b, G)
  PROVE  RangeInv'
<1>1. /\ TypeOK /\ ShapeOK /\ HolderOK /\ WaitersOK /\ KeptOK /\ HeldOK /\ WindowOK
  BY DEF RangeInv
<1>14. /\ L \subseteq Contexts
       /\ \A d \in Contexts \ L : run'[d] = run[d] /\ G[d] = granted[d]
       /\ \A d \in L :
            /\ run[d].pc = "waiting" => granted[d] # 0
            /\ run'[d].pc \notin {"waiting", "copying"}
            /\ run[d].pc = "copying" => Writing(d).block = b
            /\ Owned(run'[d]) \subseteq Mine(d)
            /\ \A l \in Owned(run'[d]) : l.block # b
            /\ \A l \in Mine(d) \cup Releasing(run[d]) : l.block # b =>
                 l \in Owned(run'[d]) \cup Releasing(run'[d])
       /\ b \in stolen' \/ ~held[b] \/ holder[b] \in L \cup {None}
  BY DEF OnlyMoves
<1>2. PICK e \in Nat \ {0} :
           /\ owner' \in [Blocks -> Hosts] /\ epoch' \in [Blocks -> Nat \ {0}]
           /\ held' \in [Blocks -> BOOLEAN] /\ holder' \in [Blocks -> Contexts \cup {None}]
           /\ requests' \in [Blocks -> SUBSET [context : Contexts, live : BOOLEAN, sent : Nat]]
           /\ granted' \in [Contexts -> Nat] /\ q.context \in Contexts
           /\ \A x \in Blocks \ {b} :
                /\ owner'[x] = owner[x] /\ epoch'[x] = epoch[x] /\ held'[x] = held[x]
                /\ holder'[x] = holder[x] /\ requests'[x] = requests[x]
           /\ owner'[b] = HostOf[q.context] /\ epoch'[b] = e /\ held'[b] = TRUE
           /\ requests'[b] = requests[b] \ {q}
           /\ \A d \in Contexts : q.live /\ d = q.context => granted'[d] = e
           /\ \A d \in Contexts : ~(q.live /\ d = q.context) => granted'[d] = G[d]
           /\ holder'[b] = IF q.live THEN q.context ELSE None
  BY <1>1, GrantIs
<1>3. q.live => /\ WaiterOf(q, b) /\ q.context \notin L /\ run'[q.context] = run[q.context]
                /\ run[q.context].pc = "waiting" /\ run[q.context].want = b
                /\ granted[q.context] = 0
  BY <1>14, <1>1, <1>2 DEF WaitersOK, WaiterOf
<1>4. TypeOK'
  BY <1>1, <1>2 DEF TypeOK
<1>5. HolderOK'
  BY <1>1, <1>2 DEF HolderOK
<1>6. WaitersOK'
  <2>1. ASSUME NEW x \in Blocks, NEW p \in requests'[x], p.live
        PROVE  WaiterOf(p, x)'
    <3>1. p \in requests[x] /\ p.context \in Contexts /\ WaiterOf(p, x)
      BY <1>1, <1>2, <2>1 DEF WaitersOK, TypeOK
    <3>2. p.context \notin L /\ run'[p.context] = run[p.context]
      BY <1>14, <3>1 DEF WaiterOf
    <3>3. ASSUME q.live, p.context = q.context PROVE FALSE
      <4>1. run[p.context].want = x /\ run[p.context].want = b
        BY <1>3, <3>1, <3>3 DEF WaiterOf
      <4>2. p \in requests[b] /\ p # q
        BY <1>2, <2>1, <4>1
      <4>. QED  BY <1>1, <2>1, <3>3, <4>2 DEF WaitersOK
    <3>4. granted'[p.context] = G[p.context]
      BY <1>2, <3>1, <3>3
    <3>5. granted'[p.context] = granted[p.context]
      BY <1>14, <3>1, <3>2, <3>4
    <3>. QED  BY <3>1, <3>2, <3>5 DEF WaiterOf
  <2>2. ASSUME NEW x \in Blocks, NEW p \in requests'[x], NEW p2 \in requests'[x],
               p.live, p2.live, p.context = p2.context
        PROVE  p = p2
    <3>1. p \in requests[x] /\ p2 \in requests[x]
      BY <1>2
    <3>. QED  BY <1>1, <2>2, <3>1 DEF WaitersOK
  <2>3. ASSUME NEW d \in Contexts, run'[d].pc = "waiting", granted'[d] = 0
        PROVE  \E p \in requests'[run'[d].want] : p.context = d /\ p.live
    <3>1. d \notin L /\ run'[d] = run[d] /\ G[d] = granted[d]
      BY <1>14, <2>3
    <3>2. ~(q.live /\ d = q.context) /\ granted[d] = 0 /\ run[d].want \in Blocks
      BY <1>1, <1>2, <2>3, <3>1, RunFields DEF TypeOK
    <3>3. PICK p \in requests[run[d].want] : p.context = d /\ p.live
      BY <1>1, <2>3, <3>1, <3>2 DEF WaitersOK
    <3>4. p \in requests'[run[d].want]
      BY <1>2, <3>2, <3>3
    <3>. QED  BY <3>1, <3>3, <3>4
  <2>. QED  BY <2>1, <2>2, <2>3 DEF WaitersOK
<1>7. ASSUME NEW d \in L
      PROVE  Mine(d)' = Owned(run'[d]) /\ Releasing(run[d])' = Releasing(run'[d])
  BY <1>14, <1>7 DEF Mine, Claimed
<1>8. ASSUME NEW d \in Contexts \ L, ~(q.live /\ d = q.context)
      PROVE  Mine(d)' = Mine(d) /\ Releasing(run[d])' = Releasing(run[d])
  BY <1>14, <1>2, <1>8 DEF Mine, Claimed
<1>9. ASSUME q.live, NEW d \in Contexts, d = q.context
      PROVE  /\ Mine(d)' = Mine(d) \cup {Lease(b, e)}
             /\ Releasing(run[d])' = Releasing(run[d])
  BY <1>2, <1>3, <1>9 DEF Mine, Claimed
<1>10. KeptOK'
  <2>1. ASSUME NEW d \in Contexts, NEW l \in Mine(d), l.block \notin stolen', l.block # b
        PROVE  Current(d, l)'
    <3>1. Current(d, l)
      BY <1>1, <2>1 DEF KeptOK
    <3>2. CASE l.block \in Blocks
      BY <1>2, <2>1, <3>1, <3>2 DEF Current
    <3>3. l.block \in Blocks
      BY <1>1, <2>1, OwnedType DEF Mine
    <3>. QED  BY <3>2, <3>3
  <2>2. ASSUME NEW d \in Contexts \ L, NEW l \in Mine(d), l.block \notin stolen'
        PROVE  l.block # b
    <3>1. Current(d, l) /\ d # None
      BY <1>1, <2>2, ContextsAssumption DEF KeptOK
    <3>2. ASSUME l.block = b PROVE FALSE
      <4>1. holder[b] = d /\ held[b]
        BY <1>1, <3>1, <3>2 DEF Current, HolderOK
      <4>. QED  BY <1>14, <2>2, <3>1, <3>2, <4>1
    <3>. QED  BY <3>2
  <2>3. ASSUME NEW d \in Contexts, NEW l \in Mine(d)', l.block \notin stolen'
        PROVE  Current(d, l)'
    <3>1. CASE d \in L
      <4>1. l \in Mine(d) /\ l.block # b
        BY <1>14, <1>7, <2>3, <3>1
      <4>. QED  BY <2>1, <2>3, <4>1
    <3>2. CASE d \notin L /\ l \in Mine(d)
      BY <2>1, <2>2, <2>3, <3>2
    <3>3. CASE d \notin L /\ l \notin Mine(d)
      <4>1. q.live /\ d = q.context /\ l = Lease(b, e)
        BY <1>8, <1>9, <2>3, <3>3
      <4>. QED  BY <1>2, <4>1, LeaseFields DEF Current
    <3>. QED  BY <3>1, <3>2, <3>3
  <2>. QED  BY <2>3 DEF KeptOK
<1>11. HeldOK'
  <2>1. ASSUME NEW x \in Blocks, NEW d \in Contexts, holder'[x] = d
        PROVE  \E l \in Mine(d)' \cup Releasing(run[d])' : l.block = x /\ l.epoch = epoch'[x]
    <3>1. CASE x = b
      <4>1. q.live /\ d = q.context
        BY <1>2, <2>1, <3>1, ContextsAssumption
      <4>. QED  BY <1>2, <1>9, <3>1, <4>1, LeaseFields
    <3>2. CASE x # b
      <4>1. holder[x] = d /\ epoch'[x] = epoch[x]
        BY <1>2, <2>1, <3>2
      <4>2. PICK l \in Mine(d) \cup Releasing(run[d]) : l.block = x /\ l.epoch = epoch[x]
        BY <1>1, <4>1 DEF HeldOK
      <4>3. l \in Mine(d)' \cup Releasing(run[d])'
        BY <1>14, <1>7, <1>8, <1>9, <3>2, <4>2
      <4>. QED  BY <4>1, <4>2, <4>3
    <3>. QED  BY <3>1, <3>2
  <2>. QED  BY <2>1 DEF HeldOK
<1>12. WindowOK'
  <2>1. ASSUME NEW x \in Blocks, odd'[x] PROVE held'[x]
    BY <1>1, <1>2, <2>1 DEF WindowOK
  <2>2. ASSUME NEW d \in Contexts, run'[d].pc = "copying", Current(d, Writing(d))'
        PROVE  odd'[Writing(d)'.block]
    <3>1. d \notin L /\ run'[d] = run[d] /\ Writing(d)' = Writing(d)
      BY <1>14, <2>2 DEF Writing
    <3>2. Writing(d).block \in Blocks \ {b}
      <4>1. Writing(d).block \in Blocks
        BY <1>1, <2>2, <3>1, WritingType
      <4>2. ASSUME Writing(d).block = b PROVE FALSE
        <5>1. holder'[b] = d
          BY <2>2, <3>1, <4>2 DEF Current
        <5>2. q.live /\ d = q.context
          BY <1>2, <5>1, ContextsAssumption
        <5>. QED  BY <1>3, <2>2, <3>1, <5>2
      <4>. QED  BY <4>1, <4>2
    <3>3. Current(d, Writing(d))
      BY <1>2, <2>2, <3>1, <3>2 DEF Current
    <3>. QED  BY <1>1, <2>2, <3>1, <3>2, <3>3 DEF WindowOK
  <2>3. ASSUME NEW x \in Blocks \ stolen', odd'[x]
        PROVE  \E d \in Contexts :
                 Copying(d, x)' /\ holder'[x] \in {d, None} /\ Valid(d, Writing(d))'
    <3>1. x # b /\ odd[x] /\ x \notin stolen
      BY <2>3
    <3>2. PICK d \in Contexts :
            Copying(d, x) /\ holder[x] \in {d, None} /\ Valid(d, Writing(d))
      BY <1>1, <3>1 DEF WindowOK
    <3>3. Writing(d).block = x /\ run[d].pc = "copying"
      BY <3>2 DEF Copying, Writing, At
    <3>4. d \notin L /\ run'[d] = run[d]
      BY <1>14, <3>1, <3>3
    <3>5. Copying(d, x)' /\ Writing(d)' = Writing(d)
      BY <3>2, <3>4 DEF Copying, At, Writing
    <3>6. Valid(d, Writing(d))' /\ holder'[x] = holder[x]
      BY <1>2, <3>1, <3>2, <3>3, <3>5 DEF Valid
    <3>. QED  BY <3>2, <3>5, <3>6
  <2>. QED  BY <2>1, <2>2, <2>3 DEF WindowOK
<1>. QED  BY <1>4, <1>5, <1>6, <1>10, <1>11, <1>12 DEF RangeInv

\* The token of block b stays where it is, free.
LEMMA FreeKeeps ==
  ASSUME RangeInv, NEW b \in Blocks, NEW c \in Contexts, Keep(b, [granted EXCEPT ![c] = 0]),
         odd' = [odd EXCEPT ![b] = FALSE], stolen' = Used(c, b),
         NEW n \in Run, Shape(n), run' = [run EXCEPT ![c] = n], acquires' \in [Contexts -> Nat],
         run[c].pc = "waiting" => granted[c] # 0, n.pc \notin {"waiting", "copying"},
         run[c].pc = "copying" => Writing(c).block = b,
         Owned(n) \subseteq Mine(c), \A l \in Owned(n) : l.block # b,
         \A l \in Mine(c) \cup Releasing(run[c]) : l.block # b => l \in Owned(n) \cup Releasing(n)
  PROVE  RangeInv'
<1>1. /\ TypeOK /\ ShapeOK /\ HolderOK /\ WaitersOK /\ KeptOK /\ HeldOK /\ WindowOK
  BY DEF RangeInv
<1>2. run' \in [Contexts -> Run] /\ run'[c] = n /\ \A d \in Contexts \ {c} : run'[d] = run[d]
  BY <1>1, OthersStay
<1>3. /\ UNCHANGED <<owner, epoch, requests>>
      /\ granted' \in [Contexts -> Nat] /\ granted'[c] = 0
      /\ \A d \in Contexts \ {c} : granted'[d] = granted[d]
      /\ held' \in [Blocks -> BOOLEAN] /\ holder' \in [Blocks -> Contexts \cup {None}]
      /\ odd' \in [Blocks -> BOOLEAN]
      /\ \A x \in Blocks \ {b} : held'[x] = held[x] /\ holder'[x] = holder[x] /\ odd'[x] = odd[x]
      /\ held'[b] = FALSE /\ holder'[b] = None /\ odd'[b] = FALSE
  BY <1>1 DEF TypeOK, Keep
<1>4. stolen \subseteq stolen' /\ stolen' \subseteq Blocks /\ (b \in stolen' \/ holder[b] \in {c, None})
  BY <1>1 DEF TypeOK, Used
<1>5. TypeOK'
  BY <1>1, <1>2, <1>3, <1>4 DEF TypeOK
<1>6. ShapeOK'
  BY <1>1, ShapeStays
<1>7. HolderOK'
  BY <1>1, <1>3 DEF HolderOK
<1>8. WaitersOK'
  <2>1. ASSUME NEW x \in Blocks, NEW q \in requests[x], q.live PROVE WaiterOf(q, x)'
    <3>1. q.context \in Contexts \ {c} /\ WaiterOf(q, x)
      BY <1>1, <2>1, NoLiveRequest DEF WaitersOK
    <3>. QED  BY <1>2, <1>3, <3>1 DEF WaiterOf
  <2>2. ASSUME NEW d \in Contexts, run'[d].pc = "waiting", granted'[d] = 0
        PROVE  \E q \in requests[run'[d].want] : q.context = d /\ q.live
    <3>1. d # c
      BY <1>2, <2>2
    <3>. QED  BY <1>1, <1>2, <1>3, <2>2, <3>1 DEF WaitersOK
  <2>. QED  BY <1>1, <1>3, <2>1, <2>2 DEF WaitersOK
<1>9. Mine(c)' = Owned(n) /\ Releasing(run[c])' = Releasing(n)
  BY <1>2 DEF Mine, Claimed
<1>10. ASSUME NEW d \in Contexts \ {c}
       PROVE  Mine(d)' = Mine(d) /\ Releasing(run[d])' = Releasing(run[d])
  BY <1>2, <1>3 DEF Mine, Claimed
<1>11. KeptOK'
  <2>1. ASSUME NEW d \in Contexts, NEW l \in Mine(d)', l.block \notin stolen'
        PROVE  Current(d, l)'
    <3>1. l \in Mine(d) /\ Current(d, l) /\ d # None
      BY <1>1, <1>4, <1>9, <1>10, <2>1, ContextsAssumption DEF KeptOK
    <3>2. l.block \in Blocks
      BY <1>1, <3>1, OwnedType DEF Mine
    <3>3. l.block # b
      BY <1>4, <1>9, <2>1, <3>1 DEF Current
    <3>. QED  BY <1>3, <3>1, <3>2, <3>3 DEF Current
  <2>. QED  BY <2>1 DEF KeptOK
<1>12. HeldOK'
  <2>1. ASSUME NEW x \in Blocks, NEW d \in Contexts, holder'[x] = d
        PROVE  \E l \in Mine(d)' \cup Releasing(run[d])' : l.block = x /\ l.epoch = epoch[x]
    <3>1. x # b /\ holder[x] = d
      BY <1>3, <2>1, ContextsAssumption
    <3>2. PICK l \in Mine(d) \cup Releasing(run[d]) : l.block = x /\ l.epoch = epoch[x]
      BY <1>1, <3>1 DEF HeldOK
    <3>3. l \in Mine(d)' \cup Releasing(run[d])'
      BY <1>9, <1>10, <3>1, <3>2
    <3>. QED  BY <3>2, <3>3
  <2>. QED  BY <1>3, <2>1 DEF HeldOK
<1>13. WindowOK'
  <2>1. ASSUME NEW x \in Blocks, odd'[x] PROVE held'[x]
    BY <1>1, <1>3, <2>1 DEF WindowOK
  <2>2. ASSUME NEW d \in Contexts, run'[d].pc = "copying", Current(d, Writing(d))'
        PROVE  odd'[Writing(d)'.block]
    <3>1. d # c /\ run'[d] = run[d] /\ Writing(d)' = Writing(d) /\ d # None
      BY <1>2, <2>2, ContextsAssumption DEF Writing
    <3>2. Writing(d).block \in Blocks \ {b}
      BY <1>1, <1>3, <2>2, <3>1, WritingType DEF Current
    <3>3. Current(d, Writing(d))
      BY <1>3, <2>2, <3>1, <3>2 DEF Current
    <3>. QED  BY <1>1, <1>3, <2>2, <3>1, <3>2, <3>3 DEF WindowOK
  <2>3. ASSUME NEW x \in Blocks \ stolen', odd'[x]
        PROVE  \E d \in Contexts :
                 Copying(d, x)' /\ holder'[x] \in {d, None} /\ Valid(d, Writing(d))'
    <3>1. x # b /\ odd[x] /\ x \notin stolen
      BY <1>3, <1>4, <2>3
    <3>2. PICK d \in Contexts :
            Copying(d, x) /\ holder[x] \in {d, None} /\ Valid(d, Writing(d))
      BY <1>1, <3>1 DEF WindowOK
    <3>3. Writing(d).block = x /\ run[d].pc = "copying"
      BY <3>2 DEF Copying, Writing, At
    <3>4. d # c /\ run'[d] = run[d]
      BY <1>2, <3>1, <3>3
    <3>5. Copying(d, x)' /\ Writing(d)' = Writing(d)
      BY <3>2, <3>4 DEF Copying, At, Writing
    <3>6. Valid(d, Writing(d))' /\ holder'[x] = holder[x]
      BY <1>3, <3>1, <3>2, <3>3, <3>5 DEF Valid
    <3>. QED  BY <3>2, <3>5, <3>6
  <2>. QED  BY <2>1, <2>2, <2>3 DEF WindowOK
<1>. QED  BY <1>5, <1>6, <1>7, <1>8, <1>11, <1>12, <1>13 DEF RangeInv

\* Release refuses: a lease that is not valid, or a window that is not open.
LEMMA RefusedKeeps ==
  ASSUME RangeInv, NEW c \in Contexts, NEW l \in Leases, NEW modified \in BOOLEAN,
         ~Valid(c, l) \/ (modified /\ ~odd[l.block]),
         granted' = [granted EXCEPT ![c] = 0], UNCHANGED <<token, holder, stolen>>,
         NEW n \in Run, Shape(n), run' = [run EXCEPT ![c] = n], acquires' \in [Contexts -> Nat],
         run[c].pc = "waiting" => granted[c] # 0, n.pc \notin {"waiting", "copying"},
         modified <=> run[c].pc = "copying", modified => l = Writing(c),
         Owned(n) \subseteq Mine(c),
         \A k \in Mine(c) \cup Releasing(run[c]) : k # l => k \in Owned(n) \cup Releasing(n)
  PROVE  RangeInv'
<1>1. /\ TypeOK /\ ShapeOK /\ HolderOK /\ WaitersOK /\ KeptOK /\ HeldOK /\ WindowOK
      /\ UNCHANGED <<owner, epoch, held, odd, requests, holder, stolen>>
  BY DEF RangeInv, token
<1>2. run' \in [Contexts -> Run] /\ run'[c] = n /\ \A d \in Contexts \ {c} : run'[d] = run[d]
  BY <1>1, OthersStay
<1>3. granted' \in [Contexts -> Nat] /\ \A d \in Contexts \ {c} : granted'[d] = granted[d]
  BY <1>1 DEF TypeOK
<1>4. ~Current(c, l)
  <2>1. ASSUME Current(c, l) PROVE FALSE
    <3>1. l.block \in Blocks /\ c # None
      BY LeaseIs, ContextsAssumption
    <3>2. Valid(c, l)
      BY <1>1, <2>1, <3>1 DEF Current, HolderOK, Valid
    <3>3. modified /\ ~odd[l.block] /\ run[c].pc = "copying" /\ l = Writing(c)
      BY <3>2
    <3>. QED  BY <1>1, <2>1, <3>3 DEF WindowOK
  <2>. QED  BY <2>1
<1>5. TypeOK'
  BY <1>1, <1>2, <1>3 DEF TypeOK
<1>6. ShapeOK'
  BY <1>1, ShapeStays
<1>7. HolderOK'
  BY <1>1 DEF HolderOK
<1>8. WaitersOK'
  <2>1. ASSUME NEW b \in Blocks, NEW q \in requests[b], q.live PROVE WaiterOf(q, b)'
    <3>1. q.context \in Contexts \ {c} /\ WaiterOf(q, b)
      BY <1>1, <2>1, NoLiveRequest DEF WaitersOK
    <3>. QED  BY <1>2, <1>3, <3>1 DEF WaiterOf
  <2>2. ASSUME NEW d \in Contexts, run'[d].pc = "waiting", granted'[d] = 0
        PROVE  \E q \in requests[run'[d].want] : q.context = d /\ q.live
    <3>1. d # c
      BY <1>2, <2>2
    <3>. QED  BY <1>1, <1>2, <1>3, <2>2, <3>1 DEF WaitersOK
  <2>. QED  BY <1>1, <2>1, <2>2 DEF WaitersOK
<1>9. Mine(c)' = Owned(n) /\ Releasing(run[c])' = Releasing(n)
  BY <1>2 DEF Mine, Claimed
<1>10. ASSUME NEW d \in Contexts \ {c}
       PROVE  Mine(d)' = Mine(d) /\ Releasing(run[d])' = Releasing(run[d])
  BY <1>2, <1>3 DEF Mine, Claimed
<1>11. KeptOK'
  BY <1>1, <1>9, <1>10 DEF KeptOK, Current
<1>12. HeldOK'
  <2>1. ASSUME NEW b \in Blocks, NEW d \in Contexts, holder[b] = d
        PROVE  \E k \in Mine(d)' \cup Releasing(run[d])' : k.block = b /\ k.epoch = epoch[b]
    <3>1. PICK k \in Mine(d) \cup Releasing(run[d]) : k.block = b /\ k.epoch = epoch[b]
      BY <1>1, <2>1 DEF HeldOK
    <3>2. d = c => k # l
      BY <1>4, <2>1, <3>1 DEF Current
    <3>3. k \in Mine(d)' \cup Releasing(run[d])'
      BY <1>9, <1>10, <3>1, <3>2
    <3>. QED  BY <3>1, <3>3
  <2>. QED  BY <1>1, <2>1 DEF HeldOK
<1>13. WindowOK'
  <2>1. ASSUME NEW d \in Contexts, run'[d].pc = "copying", Current(d, Writing(d))'
        PROVE  odd[Writing(d)'.block]
    <3>1. d # c /\ Writing(d)' = Writing(d) /\ Current(d, Writing(d))
      BY <1>1, <1>2, <2>1 DEF Writing, Current
    <3>. QED  BY <1>1, <1>2, <2>1, <3>1, SMTT(60) DEF WindowOK
  <2>2. ASSUME NEW b \in Blocks \ stolen, odd[b]
        PROVE  \E d \in Contexts :
                 Copying(d, b)' /\ holder[b] \in {d, None} /\ Valid(d, Writing(d))'
    <3>1. PICK d \in Contexts :
            Copying(d, b) /\ holder[b] \in {d, None} /\ Valid(d, Writing(d))
      BY <1>1, <2>2 DEF WindowOK
    <3>2. run[d].pc = "copying" /\ Writing(d).block = b
      BY <3>1 DEF Copying, At, Writing
    <3>3. d # c
      BY <2>2, <3>1, <3>2, SMTT(60)
    <3>4. Copying(d, b)' /\ Valid(d, Writing(d))'
      BY <1>1, <1>2, <3>1, <3>3 DEF Copying, At, Writing, Valid
    <3>. QED  BY <3>1, <3>4
  <2>. QED  BY <1>1, <2>1, <2>2 DEF WindowOK
<1>. QED  BY <1>5, <1>6, <1>7, <1>8, <1>11, <1>12, <1>13 DEF RangeInv

\* Release, whatever its status.
LEMMA ReleaseKeeps ==
  ASSUME RangeInv, NEW c \in Contexts, NEW l \in Leases, NEW modified \in BOOLEAN, NEW ok,
         Release(c, l, modified, ok),
         NEW n \in Run, Shape(n), run' = [run EXCEPT ![c] = n], acquires' \in [Contexts -> Nat],
         run[c].pc = "waiting" => granted[c] # 0, n.pc \notin {"waiting", "copying"},
         modified <=> run[c].pc = "copying", modified => l = Writing(c),
         Owned(n) \subseteq Mine(c), \A k \in Owned(n) : k.block # l.block,
         \A k \in Mine(c) \cup Releasing(run[c]) : k # l => k \in Owned(n) \cup Releasing(n)
  PROVE  RangeInv'
<1>. DEFINE b == l.block
            G == [granted EXCEPT ![c] = 0]
<1>1. TypeOK /\ ShapeOK /\ b \in Blocks /\ G \in [Contexts -> Nat]
  BY LeaseIs DEF RangeInv, TypeOK
<1>2. CASE /\ ~Valid(c, l) \/ (modified /\ ~odd[b])
           /\ granted' = G /\ UNCHANGED <<token, holder, stolen>>
  BY <1>2, RefusedKeeps
<1>3. CASE Keep(b, G) /\ odd' = [odd EXCEPT ![b] = FALSE] /\ stolen' = Used(c, b)
  BY <1>1, <1>3, FreeKeeps
<1>4. ASSUME NEW q \in requests[b], Grant(b, q, G), odd' = [odd EXCEPT ![b] = FALSE],
             stolen' = Used(c, b)
      PROVE  RangeInv'
  <2>. DEFINE L == {c}
  <2>1. run' \in [Contexts -> Run] /\ run'[c] = n /\ \A d \in Contexts \ {c} : run'[d] = run[d]
    BY <1>1, OthersStay
  <2>2. ShapeOK'
    BY <1>1, ShapeStays
  <2>3. /\ odd'[b] = FALSE /\ odd' \in [Blocks -> BOOLEAN]
        /\ \A x \in Blocks \ {b} : odd'[x] = odd[x]
    BY <1>1, <1>4 DEF TypeOK
  <2>4. /\ stolen \subseteq stolen' /\ stolen' \subseteq Blocks
        /\ b \in stolen' \/ ~held[b] \/ holder[b] \in L \cup {None}
    BY <1>1, <1>4 DEF Used, TypeOK
  <2>5. \A d \in Contexts \ L : run'[d] = run[d] /\ G[d] = granted[d]
    BY <1>1, <2>1 DEF TypeOK
  <2>6. \A d \in L :
          /\ run[d].pc = "waiting" => granted[d] # 0
          /\ run'[d].pc \notin {"waiting", "copying"}
          /\ run[d].pc = "copying" => Writing(d).block = b
          /\ Owned(run'[d]) \subseteq Mine(d)
          /\ \A k \in Owned(run'[d]) : k.block # b
          /\ \A k \in Mine(d) \cup Releasing(run[d]) : k.block # b =>
               k \in Owned(run'[d]) \cup Releasing(run'[d])
    BY <2>1
  <2>7. L \in SUBSET Contexts
    OBVIOUS
  <2>8. OnlyMoves(L, b, G)
    BY <2>4, <2>5, <2>6, <2>7 DEF OnlyMoves
  <2>. HIDE DEF b, G, L
  <2>. QED  BY <1>1, <1>4, <2>1, <2>2, <2>3, <2>4, <2>8, PassKeeps
<1>. QED  BY <1>2, <1>3, <1>4 DEF Release


\* CancelAndWait of a request that is not granted.
LEMMA WithdrawKeeps ==
  ASSUME RangeInv, NEW c \in Contexts, run[c].pc = "waiting", Withdraw(c),
         NEW n \in Run, Shape(n), run' = [run EXCEPT ![c] = n], acquires' \in [Contexts -> Nat],
         n.pc \notin {"waiting", "copying"}, Owned(n) \subseteq Owned(run[c]),
         Owned(run[c]) \cup Releasing(run[c]) \subseteq Owned(n) \cup Releasing(n)
  PROVE  RangeInv'
<1>. DEFINE b == run[c].want
            q == CHOOSE x \in requests[b] : x.context = c /\ x.live
            dead == [q EXCEPT !.live = FALSE]
<1>1. /\ TypeOK /\ ShapeOK /\ HolderOK /\ WaitersOK /\ KeptOK /\ HeldOK /\ WindowOK
  BY DEF RangeInv
<1>2. run' \in [Contexts -> Run] /\ run'[c] = n /\ \A d \in Contexts \ {c} : run'[d] = run[d]
  BY <1>1, OthersStay
<1>3. granted[c] = 0 /\ UNCHANGED <<owner, epoch, held, odd, granted, holder, stolen>>
  BY DEF Withdraw
<1>4. b \in Blocks
  BY <1>1, RunFields DEF TypeOK
<1>5. \E x \in requests[b] : x.context = c /\ x.live
  BY <1>1, <1>3 DEF WaitersOK
<1>6. q \in requests[b] /\ q.context = c /\ q.live
  BY <1>5
<1>7. requests' \in {[requests EXCEPT ![b] = @ \ {q}],
                     [requests EXCEPT ![b] = (@ \ {q}) \cup {dead}]}
  <2>1. requests' \in {[requests EXCEPT ![b] = @ \ {q}]}
          \cup IF q.sent < epoch[b] /\ owner[b] # HostOf[c]
                 THEN {[requests EXCEPT ![b] = (@ \ {q}) \cup {dead}]}
                 ELSE {}
    BY Zenon DEF Withdraw
  <2>. HIDE DEF dead
  <2>. QED  BY <2>1
<1>. HIDE DEF q, b
<1>8. dead \in [context : Contexts, live : BOOLEAN, sent : Nat] /\ dead.live = FALSE
  <2>1. q \in [context : Contexts, live : BOOLEAN, sent : Nat]
    BY <1>1, <1>4, <1>6 DEF TypeOK
  <2>. QED  BY <2>1
<1>. HIDE DEF dead
<1>9. /\ requests' \in [Blocks -> SUBSET [context : Contexts, live : BOOLEAN, sent : Nat]]
      /\ \A x \in Blocks \ {b} : requests'[x] = requests[x]
      /\ requests[b] \ {q} \subseteq requests'[b]
      /\ requests'[b] \subseteq (requests[b] \ {q}) \cup {dead}
  BY <1>1, <1>4, <1>6, <1>7, <1>8 DEF TypeOK
<1>10. TypeOK'
  BY <1>1, <1>2, <1>3, <1>9 DEF TypeOK
<1>11. ShapeOK'
  BY <1>1, ShapeStays
<1>12. HolderOK'
  BY <1>1, <1>3 DEF HolderOK
<1>13. WaitersOK'
  <2>1. ASSUME NEW x \in Blocks, NEW p \in requests'[x], p.live
        PROVE  p \in requests[x] /\ WaiterOf(p, x) /\ p.context \in Contexts \ {c}
    <3>1. p \in requests[x] /\ (x = b => p # q)
      BY <1>4, <1>8, <1>9, <2>1
    <3>2. p.context \in Contexts /\ WaiterOf(p, x)
      BY <1>1, <2>1, <3>1 DEF WaitersOK, TypeOK
    <3>3. ASSUME p.context = c PROVE FALSE
      <4>1. x = b
        BY <3>2, <3>3 DEF WaiterOf, b
      <4>. QED  BY <1>1, <1>6, <2>1, <3>1, <3>3, <4>1 DEF WaitersOK
    <3>. QED  BY <3>1, <3>2, <3>3
  <2>2. ASSUME NEW x \in Blocks, NEW p \in requests'[x], p.live PROVE WaiterOf(p, x)'
    BY <1>2, <1>3, <2>1, <2>2 DEF WaiterOf
  <2>3. ASSUME NEW d \in Contexts, run'[d].pc = "waiting", granted'[d] = 0
        PROVE  \E p \in requests'[run'[d].want] : p.context = d /\ p.live
    <3>1. d # c /\ run'[d] = run[d]
      BY <1>2, <2>3
    <3>2. PICK p \in requests[run[d].want] : p.context = d /\ p.live
      BY <1>1, <1>3, <2>3, <3>1 DEF WaitersOK
    <3>3. run[d].want \in Blocks
      BY <1>1, RunFields DEF TypeOK
    <3>4. p \in requests'[run[d].want]
      BY <1>6, <1>9, <3>1, <3>2, <3>3
    <3>. QED  BY <3>1, <3>2, <3>4
  <2>. QED  BY <1>1, <2>1, <2>2, <2>3 DEF WaitersOK
<1>14. Mine(c)' = Owned(n) /\ Releasing(run[c])' = Releasing(n) /\ Mine(c) = Owned(run[c])
  BY <1>2, <1>3 DEF Mine, Claimed
<1>15. ASSUME NEW d \in Contexts \ {c}
       PROVE  Mine(d)' = Mine(d) /\ Releasing(run[d])' = Releasing(run[d])
  BY <1>2, <1>3 DEF Mine, Claimed
<1>16. KeptOK'
  BY <1>1, <1>3, <1>14, <1>15 DEF KeptOK, Current
<1>17. HeldOK'
  <2>1. ASSUME NEW x \in Blocks, NEW d \in Contexts, holder[x] = d
        PROVE  \E l \in Mine(d)' \cup Releasing(run[d])' : l.block = x /\ l.epoch = epoch[x]
    <3>1. PICK l \in Mine(d) \cup Releasing(run[d]) : l.block = x /\ l.epoch = epoch[x]
      BY <1>1, <2>1 DEF HeldOK
    <3>2. l \in Mine(d)' \cup Releasing(run[d])'
      BY <1>14, <1>15, <3>1
    <3>. QED  BY <3>1, <3>2
  <2>. QED  BY <1>3, <2>1 DEF HeldOK
<1>18. WindowOK'
  <2>1. ASSUME NEW d \in Contexts, run'[d].pc = "copying", Current(d, Writing(d))'
        PROVE  odd[Writing(d)'.block]
    <3>1. d # c /\ Writing(d)' = Writing(d) /\ Current(d, Writing(d))
      BY <1>2, <1>3, <2>1 DEF Writing, Current
    <3>. QED  BY <1>1, <1>2, <2>1, <3>1, SMTT(60) DEF WindowOK
  <2>2. ASSUME NEW x \in Blocks \ stolen, odd[x]
        PROVE  \E d \in Contexts :
                 Copying(d, x)' /\ holder[x] \in {d, None} /\ Valid(d, Writing(d))'
    <3>1. PICK d \in Contexts :
            Copying(d, x) /\ holder[x] \in {d, None} /\ Valid(d, Writing(d))
      BY <1>1, <2>2 DEF WindowOK
    <3>2. d # c
      BY <3>1, SMTT(60) DEF Copying, At
    <3>3. Copying(d, x)' /\ Valid(d, Writing(d))'
      BY <1>2, <1>3, <3>1, <3>2 DEF Copying, At, Writing, Valid
    <3>. QED  BY <3>1, <3>3
  <2>. QED  BY <1>1, <1>3, <2>1, <2>2 DEF WindowOK
<1>. QED  BY <1>10, <1>11, <1>12, <1>13, <1>16, <1>17, <1>18 DEF RangeInv

\* Deliver: nobody moves.
LEMMA DeliverKeeps ==
  ASSUME RangeInv, NEW b \in Blocks, Deliver(b)
  PROVE  RangeInv'
<1>1. TypeOK /\ ShapeOK /\ WindowOK /\ ~held[b]
  BY DEF RangeInv, Deliver
<1>2. PICK q \in requests[b] : Grant(b, q, granted)
  BY DEF Deliver
<1>3. UNCHANGED <<odd, run, acquires, stolen>>
  BY DEF Deliver
<1>4. /\ odd'[b] = FALSE /\ odd' \in [Blocks -> BOOLEAN]
      /\ \A x \in Blocks \ {b} : odd'[x] = odd[x]
      /\ stolen \subseteq stolen' /\ stolen' \subseteq Blocks
      /\ run' \in [Contexts -> Run] /\ acquires' \in [Contexts -> Nat]
      /\ granted \in [Contexts -> Nat]
  BY <1>1, <1>3 DEF TypeOK, WindowOK
<1>5. ShapeOK'
  BY <1>1, <1>3 DEF ShapeOK
<1>6. OnlyMoves({}, b, granted)
  BY <1>1, <1>3 DEF OnlyMoves
<1>. QED  BY <1>2, <1>4, <1>5, <1>6, PassKeeps

-----------------------------------------------------------------------------
(* Where a context goes.                                                   *)

LEMMA IdleIs ==
  ASSUME NEW s \in Seq(Seq(Leases)), Filled(s), Scattered(s)
  PROVE  LET n == [Idle EXCEPT !.staged = s]
         IN  /\ n \in Run /\ Shape(n) /\ n.pc = "idle"
             /\ Owned(n) = Within(s) /\ Releasing(n) = {}
<1>. DEFINE n == [Idle EXCEPT !.staged = s]
<1>0. 1 \in Blocks
  BY BoundsAssumption DEF Blocks
<1>1. /\ Idle.pc = "idle" /\ Idle.view = <<>> /\ Idle.writes = <<>> /\ Idle.next = 1
      /\ Idle.todo = <<>> /\ Idle.spent = FALSE
  BY DEF Idle
<1>2. Idle \in Run
  BY <1>0, EmptyIs DEF Idle, Run, Places
<1>3. /\ n.pc = "idle" /\ n.view = <<>> /\ n.staged = s /\ n.writes = <<>> /\ n.next = 1
      /\ n.todo = <<>> /\ n.spent = FALSE /\ n \in Run
  BY <1>1, <1>2 DEF Run
<1>. HIDE DEF n
<1>4. Shape(n)
  BY <1>3, EmptyIs DEF Shape, Frame, Apart
<1>5. Owned(n) = Within(s) /\ Releasing(n) = {}
  BY <1>3, EmptyIs, OwnedIs, ReleasingIs
<1>. QED  BY <1>4, <1>5, <1>3 DEF n

\* The end of a cleanup loop loses nothing and takes nothing back.
LEMMA SettleIs ==
  ASSUME NEW r \in Run, Frame(r), r.pc \in {"undoing", "aborting", "failing"}
  PROVE  /\ Settle(r) \in Run /\ Shape(Settle(r))
         /\ Settle(r).pc \notin {"waiting", "copying"}
         /\ Owned(Settle(r)) = Owned(r) /\ Releasing(r) \subseteq Releasing(Settle(r))
<1>1. /\ r.pc \in Places /\ r.view \in Seq(Leases) /\ r.todo \in Seq(Leases)
      /\ r.staged \in Seq(Seq(Leases)) /\ r.writes \in Seq(Seq(Leases))
      /\ r.failed \in BOOLEAN /\ r.final \in BOOLEAN /\ r.spent \in BOOLEAN
  BY RunFields
<1>2. CASE r.todo # <<>>
  BY <1>2 DEF Settle, Shape
<1>3. CASE r.todo = <<>> /\ r.pc = "failing" /\ r.view # <<>>
  <2>. DEFINE n == [r EXCEPT !.pc = "active", !.spent = TRUE, !.writes = <<>>, !.next = 1]
  <2>1. Settle(r) = n
    BY <1>3 DEF Settle
  <2>2. /\ n.pc = "active" /\ n.view = r.view /\ n.staged = r.staged /\ n.writes = <<>>
        /\ n.next = 1 /\ n.todo = r.todo /\ n.final = r.final /\ n.spent = TRUE
    BY DEF Run
  <2>3. n \in Run
    BY EmptyIs DEF Run, Places
  <2>. HIDE DEF n
  <2>4. Shape(n)
    BY <1>3, <2>2, EmptyIs DEF Shape, Frame, Apart
  <2>5. Within(Tail(r.writes)) = {}
    BY <1>1, <1>3, LastBuffer DEF Frame
  <2>6. Owned(n) = Owned(r) /\ Releasing(r) = {}
    BY <1>3, <2>2, <2>3, <2>5, OwnedIs, ReleasingIs, EmptyIs
  <2>. QED  BY <2>1, <2>2, <2>3, <2>4, <2>6
<1>4. CASE r.todo = <<>> /\ ~(r.pc = "failing" /\ r.view # <<>>) /\ r.writes # <<>>
  <2>. DEFINE n == [r EXCEPT !.pc = "aborting", !.final = TRUE, !.writes = Tail(@), !.next = 1,
                             !.todo = Reverse(Head(r.writes))]
              w == r.writes
  <2>1. Settle(r) = n
    BY <1>4 DEF Settle
  <2>2. /\ n.pc = "aborting" /\ n.view = r.view /\ n.staged = r.staged /\ n.writes = Tail(w)
        /\ n.next = 1 /\ n.todo = Reverse(Head(w)) /\ n.final = TRUE /\ n.spent = r.spent
    BY DEF Run
  <2>3. /\ Head(w) \in Seq(Leases) /\ Head(w) # <<>> /\ Distinct(Head(w))
        /\ Tail(w) \in Seq(Seq(Leases)) /\ Filled(Tail(w)) /\ Scattered(Tail(w))
        /\ Within(w) = ToSet(Head(w)) \cup Within(Tail(w))
    BY <1>1, <1>4, WithinTail DEF Frame
  <2>4. /\ Reverse(Head(w)) \in Seq(Leases) /\ ToSet(Reverse(Head(w))) = ToSet(Head(w))
        /\ Reverse(Head(w)) # <<>> /\ Distinct(Reverse(Head(w)))
    BY <2>3, ReverseIs
  <2>5. n \in Run
    BY <2>3, <2>4 DEF Run, Places
  <2>. HIDE DEF n
  <2>6. Frame(n)
    <3>1. Apart(Within(r.staged), Within(w))
      BY DEF Frame
    <3>2. Apart(Within(n.staged), ToSet(n.todo)) /\ Apart(Within(n.staged), Within(n.writes))
      BY <2>2, <2>3, <2>4, <3>1, Smaller
    <3>. QED  BY <2>2, <2>3, <2>4, <3>2 DEF Frame
  <2>7. Shape(n)
    BY <2>2, <2>4, <2>6 DEF Shape
  <2>8. r.pc # "undoing"
    BY <1>4 DEF Frame
  <2>9. Owned(n) = Owned(r) /\ Releasing(n) = Within(w) /\ Releasing(r) \subseteq Within(w)
    BY <1>4, <2>2, <2>3, <2>4, <2>5, <2>8, OwnedIs, ReleasingIs, EmptyIs
  <2>. QED  BY <2>1, <2>2, <2>5, <2>7, <2>9
<1>5. CASE r.todo = <<>> /\ r.writes = <<>> /\ r.pc = "aborting" /\ r.failed /\ ~r.final
  <2>. DEFINE n == [r EXCEPT !.pc = "active", !.spent = TRUE]
  <2>1. Settle(r) = n
    BY <1>5 DEF Settle
  <2>2. /\ n.pc = "active" /\ n.view = r.view /\ n.staged = r.staged /\ n.writes = r.writes
        /\ n.next = r.next /\ n.todo = r.todo /\ n.final = r.final /\ n.spent = TRUE
    BY DEF Run
  <2>3. n \in Run
    BY DEF Run, Places
  <2>. HIDE DEF n
  <2>4. Shape(n)
    BY <1>5, <2>2 DEF Shape, Frame
  <2>5. Owned(n) = Owned(r) /\ Releasing(r) = {}
    BY <1>5, <2>2, <2>3, OwnedIs, ReleasingIs, EmptyIs
  <2>. QED  BY <2>1, <2>2, <2>3, <2>4, <2>5
<1>6. CASE /\ r.todo = <<>> /\ r.writes = <<>> /\ r.pc # "failing"
           /\ ~(r.pc = "aborting" /\ r.failed /\ ~r.final)
  <2>1. Settle(r) = [Idle EXCEPT !.staged = r.staged]
    BY <1>6 DEF Settle
  <2>2. Owned(r) = Within(r.staged) /\ Releasing(r) = {}
    BY <1>1, <1>6, OwnedIs, ReleasingIs, EmptyIs
  <2>. QED  BY <1>1, <2>1, <2>2, IdleIs DEF Frame
<1>7. r.pc = "failing" => r.writes # <<>>
  BY DEF Frame
<1>. QED  BY <1>2, <1>3, <1>4, <1>5, <1>6, <1>7

LEMMA Position ==
  ASSUME NEW n \in Nat, NEW i \in 1 .. n, NEW m \in Nat \ {0}
  PROVE  i < n \/ (i = n /\ m > 1) \/ (i = n /\ m = 1)
OBVIOUS

LEMMA LessOne ==
  ASSUME NEW m \in Nat \ {0}, m > 1
  PROVE  m - 1 # 0 /\ m # 1
OBVIOUS

\* A block is published: its lease is let go of, and nothing else.
LEMMA PublishedIs ==
  ASSUME NEW r \in Run, Shape(r), r.pc = "copying"
  PROVE  LET l == Head(r.writes)[r.next]
             n == Published(r)
         IN  /\ n \in Run /\ Shape(n) /\ n.pc \notin {"waiting", "copying"}
             /\ Owned(n) \subseteq Owned(r) /\ \A k \in Owned(n) : k.block # l.block
             /\ \A k \in Owned(r) \cup Releasing(r) : k # l => k \in Owned(n)
<1>. DEFINE w == r.writes
            s == Head(r.writes)
            l == Head(r.writes)[r.next]
            n == Published(r)
            Done == /\ n \in Run /\ Shape(n) /\ n.pc \notin {"waiting", "copying"}
                    /\ Owned(n) \subseteq Owned(r) /\ \A k \in Owned(n) : k.block # l.block
                    /\ \A k \in Owned(r) \cup Releasing(r) : k # l => k \in Owned(n)
<1>1. /\ r.staged \in Seq(Seq(Leases)) /\ w \in Seq(Seq(Leases)) /\ r.next \in Nat
      /\ r.view \in Seq(Leases) /\ r.spent \in BOOLEAN
  BY RunFields
<1>2. /\ Filled(r.staged) /\ Scattered(r.staged) /\ Filled(w) /\ Scattered(w)
      /\ Distinct(r.view) /\ Distinct(r.todo) /\ Apart(Within(r.staged), ToSet(r.view))
      /\ Apart(Within(r.staged), Within(w)) /\ r.todo = <<>> /\ w # <<>>
      /\ (IF r.view # <<>> THEN Len(w) = 1 ELSE ~r.spent) /\ r.next \in DOMAIN s
  BY DEF Shape, Frame
<1>3. /\ s \in Seq(Leases) /\ s # <<>> /\ Distinct(s)
      /\ Tail(w) \in Seq(Seq(Leases)) /\ Filled(Tail(w)) /\ Scattered(Tail(w))
      /\ Len(Tail(w)) = Len(w) - 1
      /\ Within(w) = ToSet(s) \cup Within(Tail(w)) /\ Apart(ToSet(s), Within(Tail(w)))
  BY <1>1, <1>2, WithinTail
<1>. HIDE DEF w, s, l, n
<1>4. /\ From(s, r.next) = {l} \cup From(s, r.next + 1) /\ l \in ToSet(s)
      /\ \A k \in From(s, r.next + 1) : k.block # l.block
  BY <1>2, <1>3, FromIs DEF s, l, ToSet
<1>5. /\ DOMAIN s = 1 .. Len(s) /\ Len(s) \in Nat /\ Len(w) \in Nat \ {0}
      /\ r.next \in 1 .. Len(s)
  <2>1. DOMAIN s = 1 .. Len(s) /\ Len(s) \in Nat /\ Len(w) \in Nat \ {0}
    BY <1>1, <1>2, <1>3, LenProperties, HeadTail
  <2>2. r.next \in DOMAIN s
    BY <1>2
  <2>. QED  BY <2>1, <2>2
<1>6. From(s, r.next + 1) \subseteq ToSet(s)
  <2>1. r.next + 1 \in 1 .. Len(s) + 1
    BY <1>5
  <2>. QED  BY <1>3, <2>1, RestIs
<1>7. /\ \A k \in Within(r.staged) : k.block # l.block
      /\ \A k \in From(s, r.next + 1) \cup Within(Tail(w)) : k.block # l.block
  BY <1>2, <1>3, <1>4 DEF Apart
<1>8. /\ r.spent => Owned(r) = Within(r.staged)
      /\ ~r.spent => Owned(r) = Within(r.staged) \cup {l} \cup From(s, r.next + 1) \cup Within(Tail(w))
      /\ Releasing(r) = {}
  BY <1>1, <1>2, <1>4, OwnedIs, ReleasingIs, EmptyIs DEF s, w
<1>9. ASSUME r.next < Len(s) PROVE Done
  <2>1. n = [r EXCEPT !.pc = "publishing", !.next = @ + 1]
    BY <1>9 DEF n, Published, s
  <2>2. /\ n.pc = "publishing" /\ n.view = r.view /\ n.staged = r.staged /\ n.writes = w
        /\ n.next = r.next + 1 /\ n.todo = r.todo /\ n.spent = r.spent
    BY <2>1 DEF Run, w
  <2>5. n \in Run
    <3>1. r.next + 1 \in Nat
      BY <1>1
    <3>. QED  BY <2>1, <3>1 DEF Run, Places
  <2>3. Shape(n)
    <3>1. n.next \in DOMAIN s /\ Head(n.writes) = s
      BY <1>1, <1>2, <1>5, <1>9, <2>2 DEF s, w
    <3>. QED  BY <1>2, <2>2, <3>1, EmptyIs DEF Shape, Frame, Apart
  <2>4. /\ r.spent => Owned(n) = Within(r.staged)
        /\ ~r.spent => Owned(n) = Within(r.staged) \cup From(s, r.next + 1) \cup Within(Tail(w))
    BY <1>1, <2>2, <2>5, OwnedIs DEF s, w
  <2>. QED  BY <1>7, <1>8, <2>2, <2>3, <2>4, <2>5
<1>10. ASSUME r.next = Len(s), Len(w) > 1 PROVE Done
  <2>1. n = [r EXCEPT !.pc = "publishing", !.next = 1, !.writes = Tail(@)]
    BY <1>10 DEF n, Published, s, w
  <2>2. /\ n.pc = "publishing" /\ n.view = r.view /\ n.staged = r.staged /\ n.writes = Tail(w)
        /\ n.next = 1 /\ n.todo = r.todo /\ n.spent = r.spent
    BY <2>1 DEF Run, w
  <2>9. n \in Run
    <3>1. Tail(r.writes) \in Seq(Seq(Leases))
      BY <1>3 DEF w
    <3>. QED  BY <2>1, <3>1 DEF Run, Places
  <2>3. r.view = <<>> /\ ~r.spent /\ Tail(w) # <<>> /\ From(s, r.next + 1) = {}
    <3>1. Len(Tail(w)) # 0 /\ Len(w) # 1
      BY <1>3, <1>5, <1>10, LessOne
    <3>2. Tail(w) # <<>>
      BY <3>1, EmptySeq
    <3>3. From(s, r.next + 1) = {}
      BY <1>3, <1>10, FromIs
    <3>. QED  BY <1>2, <3>1, <3>2, <3>3
  <2>4. /\ Head(Tail(w)) \in Seq(Leases) /\ Head(Tail(w)) # <<>>
        /\ Within(Tail(w)) = ToSet(Head(Tail(w))) \cup Within(Tail(Tail(w)))
    BY <1>3, <2>3, WithinTail
  <2>5. 1 \in DOMAIN Head(Tail(w)) /\ From(Head(Tail(w)), 1) = ToSet(Head(Tail(w)))
    BY <2>4, HeadTail, FromIs
  <2>6. Apart(Within(r.staged), Within(Tail(w)))
    BY <1>2, <1>3, Smaller
  <2>7. Shape(n)
    BY <1>2, <1>3, <2>2, <2>3, <2>5, <2>6, EmptyIs DEF Shape, Frame, Apart
  <2>8. Owned(n) = Within(r.staged) \cup Within(Tail(w))
    <3>1. n.pc = "publishing" /\ ~n.spent
      BY <2>2, <2>3
    <3>2. Owned(n) = Within(n.staged) \cup From(Head(n.writes), n.next) \cup Within(Tail(n.writes))
      BY <2>9, <3>1, OwnedIs
    <3>. QED  BY <2>2, <2>4, <2>5, <3>2
  <2>. QED  BY <1>7, <1>8, <2>2, <2>3, <2>7, <2>8, <2>9
<1>11. ASSUME r.next = Len(s), Len(w) = 1 PROVE Done
  <2>1. n = [Idle EXCEPT !.staged = r.staged]
    BY <1>11 DEF n, Published, s, w
  <2>2. From(s, r.next + 1) = {} /\ Within(Tail(w)) = {}
    BY <1>1, <1>2, <1>3, <1>11, FromIs, LastBuffer
  <2>3. n \in Run /\ Shape(n) /\ n.pc = "idle" /\ Owned(n) = Within(r.staged)
    BY <1>1, <1>2, <2>1, IdleIs
  <2>. QED  BY <1>7, <1>8, <2>2, <2>3
<1>12. r.next < Len(s) \/ (r.next = Len(s) /\ Len(w) > 1) \/ (r.next = Len(s) /\ Len(w) = 1)
  BY <1>5, Position
<1>13. Done
  BY <1>9, <1>10, <1>11, <1>12
<1>. QED  BY <1>13 DEF n, l

-----------------------------------------------------------------------------
(* The actions.                                                            *)

\* A context that moves leases without a call: Abort, Stage, Commit and
\* SynchronizeRelease.
LEMMA AbortKeeps ==
  ASSUME RangeInv, NEW c \in Contexts, NEW final \in BOOLEAN, Abort(c, final)
  PROVE  RangeInv'
<1>. DEFINE r == run[c]
            n == [r EXCEPT !.pc = "aborting", !.todo = Reverse(r.view),
                           !.failed = FALSE, !.final = final]
<1>1. TypeOK /\ r \in Run /\ Shape(r) /\ r.pc = "active"
  BY DEF RangeInv, TypeOK, ShapeOK, Abort, At
<1>2. /\ run' = [run EXCEPT ![c] = n] /\ UNCHANGED <<token, granted, acquires, holder, stolen>>
  BY DEF Abort
<1>. HIDE DEF r
<1>3. r.view \in Seq(Leases) /\ r.spent \in BOOLEAN
  BY <1>1, RunFields
<1>4. /\ r.view # <<>> /\ Distinct(r.view) /\ Apart(Within(r.staged), ToSet(r.view))
      /\ Filled(r.staged) /\ Scattered(r.staged) /\ r.writes = <<>> /\ r.next = 1 /\ r.todo = <<>>
  BY <1>1 DEF Shape, Frame
<1>5. /\ Reverse(r.view) \in Seq(Leases) /\ ToSet(Reverse(r.view)) = ToSet(r.view)
      /\ Reverse(r.view) # <<>> /\ Distinct(Reverse(r.view))
  BY <1>3, <1>4, ReverseIs
<1>6. /\ n.pc = "aborting" /\ n.view = r.view /\ n.staged = r.staged /\ n.writes = <<>>
      /\ n.next = 1 /\ n.todo = Reverse(r.view) /\ n.final = final /\ n.spent = r.spent
  BY <1>1, <1>4 DEF Run
<1>7. n \in Run
  BY <1>1, <1>5 DEF Run, Places
<1>. HIDE DEF n
<1>8. Shape(n)
  BY <1>4, <1>5, <1>6, EmptyIs DEF Shape, Frame, Apart
<1>9. Mine(c) = Owned(r) /\ Releasing(r) = {}
  BY <1>1, <1>4, ReleasingIs, EmptyIs DEF Mine, Claimed, r
<1>10. /\ Owned(r) \subseteq Within(r.staged) \cup ToSet(r.view) /\ Within(r.staged) \subseteq Owned(r)
       /\ Owned(n) = Within(r.staged) /\ ToSet(r.view) \subseteq Releasing(n)
  BY <1>1, <1>3, <1>5, <1>6, <1>7, OwnedIs, ReleasingIs
<1>11. /\ Owned(n) \subseteq Mine(c)
       /\ Mine(c) \cup Releasing(run[c]) \subseteq Owned(n) \cup Releasing(n)
  BY <1>9, <1>10 DEF r
<1>12. run[c].pc = "active" /\ n.pc = "aborting" /\ acquires' \in [Contexts -> Nat]
       /\ granted' = granted
  BY <1>1, <1>2, <1>6 DEF r, TypeOK
<1>. QED  BY <1>2, <1>7, <1>8, <1>11, <1>12, MoveKeeps

LEMMA StageKeeps ==
  ASSUME RangeInv, NEW c \in Contexts, Stage(c)
  PROVE  RangeInv'
<1>. DEFINE r == run[c]
            s == Append(r.staged, r.view)
            n == [Idle EXCEPT !.staged = s]
<1>1. TypeOK /\ r \in Run /\ Shape(r) /\ r.pc = "active" /\ ~r.spent
  BY DEF RangeInv, TypeOK, ShapeOK, Stage, At
<1>2. /\ run' = [run EXCEPT ![c] = n] /\ UNCHANGED <<token, granted, acquires, holder, stolen>>
  BY DEF Stage
<1>. HIDE DEF r
<1>3. r.view \in Seq(Leases) /\ r.staged \in Seq(Seq(Leases))
  BY <1>1, RunFields
<1>4. /\ r.view # <<>> /\ Distinct(r.view) /\ Apart(Within(r.staged), ToSet(r.view))
      /\ Filled(r.staged) /\ Scattered(r.staged) /\ r.todo = <<>>
  BY <1>1 DEF Shape, Frame
<1>5. /\ s \in Seq(Seq(Leases)) /\ Filled(s) /\ Scattered(s)
      /\ Within(s) = Within(r.staged) \cup ToSet(r.view)
  BY <1>3, <1>4, WithinAppend
<1>. HIDE DEF s
<1>6. n \in Run /\ Shape(n) /\ n.pc = "idle" /\ Owned(n) = Within(s)
  BY <1>5, IdleIs
<1>. HIDE DEF n
<1>7. /\ Mine(c) = Owned(r) /\ Releasing(r) = {} /\ Owned(r) = Within(s)
  BY <1>1, <1>4, <1>5, OwnedIs, ReleasingIs, EmptyIs DEF Mine, Claimed, r
<1>8. /\ Owned(n) \subseteq Mine(c)
      /\ Mine(c) \cup Releasing(run[c]) \subseteq Owned(n) \cup Releasing(n)
  BY <1>6, <1>7 DEF r
<1>9. run[c].pc = "active" /\ acquires' \in [Contexts -> Nat] /\ granted' = granted
  BY <1>1, <1>2 DEF r, TypeOK
<1>. QED  BY <1>2, <1>6, <1>8, <1>9, MoveKeeps

LEMMA CommitKeeps ==
  ASSUME RangeInv, NEW c \in Contexts, Commit(c)
  PROVE  RangeInv'
<1>. DEFINE r == run[c]
            n == [r EXCEPT !.pc = "publishing", !.writes = <<r.view>>]
<1>1. TypeOK /\ r \in Run /\ Shape(r) /\ r.pc = "active"
  BY DEF RangeInv, TypeOK, ShapeOK, Commit, At
<1>2. /\ run' = [run EXCEPT ![c] = n] /\ UNCHANGED <<token, granted, acquires, holder, stolen>>
  BY DEF Commit
<1>. HIDE DEF r
<1>3. r.view \in Seq(Leases) /\ r.spent \in BOOLEAN
  BY <1>1, RunFields
<1>4. /\ r.view # <<>> /\ Distinct(r.view) /\ Apart(Within(r.staged), ToSet(r.view))
      /\ Filled(r.staged) /\ Scattered(r.staged) /\ r.next = 1 /\ r.todo = <<>>
  BY <1>1 DEF Shape, Frame
<1>5. /\ <<r.view>> \in Seq(Seq(Leases)) /\ <<r.view>> # <<>> /\ Len(<<r.view>>) = 1
      /\ Head(<<r.view>>) = r.view /\ Filled(<<r.view>>) /\ Scattered(<<r.view>>)
      /\ Within(<<r.view>>) = ToSet(r.view) /\ Tail(<<r.view>>) = <<>>
      /\ 1 \in DOMAIN r.view /\ From(r.view, 1) = ToSet(r.view)
  BY <1>3, <1>4, SingleIs, HeadTail, FromIs
<1>6. /\ n.pc = "publishing" /\ n.view = r.view /\ n.staged = r.staged /\ n.writes = <<r.view>>
      /\ n.next = 1 /\ n.todo = <<>> /\ n.spent = r.spent
  BY <1>1, <1>4 DEF Run
<1>7. n \in Run
  BY <1>1, <1>5 DEF Run, Places
<1>. HIDE DEF n
<1>8. Shape(n)
  BY <1>4, <1>5, <1>6, EmptyIs DEF Shape, Frame, Apart
<1>9. Mine(c) = Owned(r) /\ Releasing(r) = {}
  BY <1>1, <1>4, ReleasingIs, EmptyIs DEF Mine, Claimed, r
<1>10. Owned(n) = Owned(r)
  BY <1>1, <1>3, <1>5, <1>6, <1>7, OwnedIs, EmptyIs, ZenonT(60)
<1>11. /\ Owned(n) \subseteq Mine(c)
       /\ Mine(c) \cup Releasing(run[c]) \subseteq Owned(n) \cup Releasing(n)
  BY <1>9, <1>10 DEF r
<1>12. run[c].pc = "active" /\ acquires' \in [Contexts -> Nat] /\ granted' = granted
  BY <1>1, <1>2 DEF r, TypeOK
<1>. QED  BY <1>2, <1>6, <1>7, <1>8, <1>11, <1>12, MoveKeeps

LEMMA SynchronizeReleaseKeeps ==
  ASSUME RangeInv, NEW c \in Contexts, SynchronizeRelease(c)
  PROVE  RangeInv'
<1>. DEFINE r == run[c]
            n == [Idle EXCEPT !.pc = "publishing", !.writes = r.staged]
            w == r.staged
<1>1. TypeOK /\ r \in Run /\ Shape(r) /\ r.pc = "idle" /\ w # <<>>
  BY DEF RangeInv, TypeOK, ShapeOK, SynchronizeRelease, At
<1>2. /\ run' = [run EXCEPT ![c] = n] /\ UNCHANGED <<token, granted, acquires, holder, stolen>>
  BY DEF SynchronizeRelease
<1>. HIDE DEF r
<1>3. w \in Seq(Seq(Leases)) /\ r.spent \in BOOLEAN
  BY <1>1, RunFields
<1>4. Filled(w) /\ Scattered(w) /\ r.todo = <<>>
  BY <1>1 DEF Shape, Frame
<1>5. /\ Head(w) \in Seq(Leases) /\ Head(w) # <<>>
      /\ Within(w) = ToSet(Head(w)) \cup Within(Tail(w))
  BY <1>1, <1>3, <1>4, WithinTail
<1>6. 1 \in DOMAIN Head(w) /\ From(Head(w), 1) = ToSet(Head(w))
  BY <1>5, HeadTail, FromIs
<1>7. /\ Idle \in Run /\ Idle.view = <<>> /\ Idle.staged = <<>> /\ Idle.next = 1
      /\ Idle.todo = <<>> /\ Idle.spent = FALSE
  BY BoundsAssumption, EmptyIs DEF Idle, Run, Places, Blocks
<1>8. /\ n.pc = "publishing" /\ n.view = <<>> /\ n.staged = <<>> /\ n.writes = w
      /\ n.next = 1 /\ n.todo = <<>> /\ n.spent = FALSE
  BY <1>7 DEF Run
<1>9. n \in Run
  BY <1>3, <1>7 DEF Run, Places
<1>. HIDE DEF n, w
<1>10. Shape(n)
  BY <1>1, <1>4, <1>6, <1>8, EmptyIs DEF Shape, Frame, Apart
<1>11. Mine(c) = Within(w) /\ Releasing(r) = {}
  BY <1>1, <1>4, OwnedIs, ReleasingIs, EmptyIs DEF Mine, Claimed, r, w
<1>12. Owned(n) = Within(w)
  <2>1. Owned(n) = Within(n.staged) \cup From(Head(n.writes), n.next) \cup Within(Tail(n.writes))
    BY <1>8, <1>9, OwnedIs
  <2>. QED  BY <1>5, <1>6, <1>8, <2>1, EmptyIs
<1>13. /\ Owned(n) \subseteq Mine(c)
       /\ Mine(c) \cup Releasing(run[c]) \subseteq Owned(n) \cup Releasing(n)
  BY <1>11, <1>12 DEF r
<1>14. run[c].pc = "idle" /\ acquires' \in [Contexts -> Nat] /\ granted' = granted
  BY <1>1, <1>2 DEF r, TypeOK
<1>. QED  BY <1>2, <1>8, <1>9, <1>10, <1>13, <1>14, MoveKeeps

\* What Acquire asks of the staged buffers.
LEMMA StagedBlocksIs ==
  ASSUME NEW c
  PROVE  StagedBlocks(c) = {l.block : l \in Within(run[c].staged)}
BY DEF StagedBlocks, BlocksOf, Within, ToSet

LEMMA AcquireKeeps ==
  ASSUME RangeInv, NEW c \in Contexts, NEW lo \in Blocks, NEW hi \in Blocks, lo <= hi,
         Acquire(c, <<lo, hi>>)
  PROVE  RangeInv'
<1>. DEFINE r == run[c]
            n == [r EXCEPT !.pc = "waiting", !.range = <<lo, hi>>, !.want = lo]
<1>1. TypeOK /\ r \in Run /\ Shape(r) /\ r.pc = "idle"
  BY DEF RangeInv, TypeOK, ShapeOK, Acquire, At
<1>2. lo \in Int /\ NextBlock(c, <<lo, hi>>, <<>>) = lo
  BY BoundsAssumption, EmptySeq DEF NextBlock, Blocks
<1>3. /\ Request(c, lo) /\ run' = [run EXCEPT ![c] = n]
      /\ acquires' = [acquires EXCEPT ![c] = @ + 1]
      /\ StagedBlocks(c) \cap (lo .. hi) = {}
  BY <1>2 DEF Acquire
<1>4. \A l \in Within(r.staged) : l.block \notin lo .. hi
  BY <1>3, StagedBlocksIs
<1>. HIDE DEF r
<1>5. /\ Filled(r.staged) /\ Scattered(r.staged) /\ r.writes = <<>> /\ r.view = <<>> /\ r.todo = <<>>
      /\ r.next = 1 /\ ~r.spent
  BY <1>1 DEF Shape, Frame
<1>6. /\ n.pc = "waiting" /\ n.view = <<>> /\ n.staged = r.staged /\ n.writes = <<>>
      /\ n.next = 1 /\ n.todo = <<>> /\ n.spent = r.spent
      /\ n.range = <<lo, hi>> /\ n.range[1] = lo /\ n.range[2] = hi /\ n.want = lo
  BY <1>1, <1>5 DEF Run
<1>7. n \in Run
  BY <1>1 DEF Run, Places
<1>. HIDE DEF n
<1>8. n.want = n.range[1] + Len(n.view) /\ n.want <= n.range[2] /\ DOMAIN n.view = {}
  BY <1>2, <1>6, EmptySeq
<1>9. Shape(n)
  BY <1>4, <1>5, <1>6, <1>8, EmptyIs DEF Shape, Frame, Apart
<1>10. Mine(c) = Within(r.staged) /\ Releasing(r) = {}
  BY <1>1, <1>5, OwnedIs, ReleasingIs, EmptyIs DEF Mine, Claimed, r
<1>11. Owned(n) = Mine(c) /\ Releasing(run[c]) \subseteq Releasing(n)
  BY <1>5, <1>6, <1>7, <1>10, OwnedIs, EmptyIs DEF r
<1>12. run[c].pc = "idle" /\ acquires' \in [Contexts -> Nat]
  BY <1>1, <1>3 DEF r, TypeOK
<1>. QED  BY <1>3, <1>6, <1>7, <1>9, <1>11, <1>12, RequestKeeps

\* The lease that a context claims is of a block it does not have yet.
LEMMA ClaimIs ==
  ASSUME RangeInv, NEW c \in Contexts, run[c].pc = "waiting"
  PROVE  LET r == run[c]
             l == Lease(r.want, granted[c])
         IN  /\ l \in Leases /\ l.block = r.want
             /\ \A k \in Within(r.staged) \cup ToSet(r.view) : k.block # r.want
             /\ Owned(r) = Within(r.staged) \cup ToSet(r.view)
             /\ Releasing(r) = {}
             /\ granted[c] # 0 => Mine(c) = Owned(r) \cup {l}
<1>. DEFINE r == run[c]
            l == Lease(r.want, granted[c])
<1>1. TypeOK /\ r \in Run /\ Shape(r) /\ granted[c] \in Nat
  BY DEF RangeInv, TypeOK, ShapeOK
<1>2. granted[c] # 0 => Mine(c) = Owned(r) \cup {l}
  BY DEF Mine, Claimed
<1>. HIDE DEF r
<1>3. /\ r.want \in Blocks /\ r.range \in Blocks \X Blocks /\ r.view \in Seq(Leases)
      /\ r.pc = "waiting"
  BY <1>1, RunFields DEF r
<1>4. l \in Leases /\ l.block = r.want
  BY <1>1, <1>3, LeaseType, LeaseFields
<1>. HIDE DEF l
<1>5. /\ r.want = r.range[1] + Len(r.view) /\ r.want <= r.range[2] /\ ~r.spent /\ r.todo = <<>>
      /\ \A i \in DOMAIN r.view : r.view[i].block = r.range[1] + i - 1
      /\ \A k \in Within(r.staged) : k.block \notin r.range[1] .. r.range[2]
  BY <1>1, <1>3 DEF Shape, Frame
<1>6. r.range[1] \in Int /\ r.range[2] \in Int
  BY <1>3, BoundsAssumption DEF Blocks
<1>7. DOMAIN r.view = 1 .. Len(r.view) /\ Len(r.view) \in Nat
  BY <1>3, LenProperties
<1>8. r.want \in r.range[1] .. r.range[2] /\ \A i \in DOMAIN r.view : r.range[1] + i - 1 # r.want
  BY <1>5, <1>6, <1>7
<1>9. \A k \in Within(r.staged) \cup ToSet(r.view) : k.block # r.want
  BY <1>5, <1>8 DEF ToSet
<1>10. Owned(r) = Within(r.staged) \cup ToSet(r.view) /\ Releasing(r) = {}
  BY <1>1, <1>3, <1>5, OwnedIs, ReleasingIs, EmptyIs
<1>. QED  BY <1>2, <1>4, <1>9, <1>10 DEF r, l

LEMMA ClaimKeeps ==
  ASSUME RangeInv, NEW c \in Contexts, Claim(c)
  PROVE  RangeInv'
<1>. DEFINE r == run[c]
            l == Lease(r.want, granted[c])
            have == Append(r.view, l)
            b == r.range[1] + Len(have)
<1>1. TypeOK /\ r \in Run /\ Shape(r) /\ r.pc = "waiting" /\ granted[c] # 0
  BY DEF RangeInv, TypeOK, ShapeOK, Claim, At
<1>2. acquires' = acquires
  BY DEF Claim
<1>3. \/ /\ Len(have) <= r.range[2] - r.range[1] /\ Request(c, b)
         /\ run' = [run EXCEPT ![c] = [r EXCEPT !.view = have, !.want = b]]
      \/ /\ granted' = [granted EXCEPT ![c] = 0]
         /\ run' = [run EXCEPT ![c] = [Idle EXCEPT !.pc = "active", !.view = have,
                                                   !.staged = r.staged]]
         /\ UNCHANGED <<token, holder, stolen>>
  BY DEF Claim, NextBlock
<1>4. /\ l \in Leases /\ l.block = r.want
      /\ \A k \in Within(r.staged) \cup ToSet(r.view) : k.block # r.want
      /\ Owned(r) = Within(r.staged) \cup ToSet(r.view)
      /\ Releasing(r) = {} /\ Mine(c) = Owned(r) \cup {l}
  BY <1>1, ClaimIs
<1>. HIDE DEF r, l
<1>5. /\ r.want \in Blocks /\ r.range \in Blocks \X Blocks /\ r.view \in Seq(Leases)
      /\ r.staged \in Seq(Seq(Leases))
  BY <1>1, RunFields
<1>6. /\ r.want = r.range[1] + Len(r.view) /\ r.want <= r.range[2] /\ ~r.spent /\ r.todo = <<>>
      /\ \A i \in DOMAIN r.view : r.view[i].block = r.range[1] + i - 1
      /\ \A k \in Within(r.staged) : k.block \notin r.range[1] .. r.range[2]
      /\ Filled(r.staged) /\ Scattered(r.staged) /\ Distinct(r.view)
      /\ Apart(Within(r.staged), ToSet(r.view)) /\ r.writes = <<>>
  BY <1>1 DEF Shape, Frame
<1>7. /\ have \in Seq(Leases) /\ have # <<>> /\ Len(have) = Len(r.view) + 1
      /\ ToSet(have) = ToSet(r.view) \cup {l} /\ Distinct(have)
  BY <1>4, <1>5, <1>6, AppendIs
<1>8. Apart(Within(r.staged), ToSet(have))
  BY <1>4, <1>6, <1>7 DEF Apart
<1>9. /\ DOMAIN r.view = 1 .. Len(r.view) /\ Len(r.view) \in Nat /\ DOMAIN have = 1 .. Len(r.view) + 1
      /\ have[Len(r.view) + 1] = l /\ \A i \in 1 .. Len(r.view) : have[i] = r.view[i]
  <2>1. have[Len(r.view) + 1] = l /\ \A i \in 1 .. Len(r.view) : have[i] = r.view[i]
    BY <1>4, <1>5, AppendProperties
  <2>. QED  BY <1>5, <1>7, <2>1, LenProperties
<1>10. r.range[1] \in Int /\ r.range[2] \in Int /\ r.range[1] >= 1 /\ r.range[2] <= NumBlocks
       /\ NumBlocks \in Nat
  BY <1>5, BoundsAssumption DEF Blocks
<1>. HIDE DEF have
<1>11. CASE /\ Len(have) <= r.range[2] - r.range[1] /\ Request(c, b)
            /\ run' = [run EXCEPT ![c] = [r EXCEPT !.view = have, !.want = b]]
  <2>. DEFINE n == [r EXCEPT !.view = have, !.want = b]
  <2>1. b \in Int /\ b <= r.range[2] /\ b \in Blocks
    BY <1>7, <1>9, <1>10, <1>11, SMTT(60) DEF Blocks
  <2>. HIDE DEF b
  <2>2. /\ n.pc = "waiting" /\ n.view = have /\ n.staged = r.staged /\ n.writes = <<>>
        /\ n.next = r.next /\ n.todo = <<>> /\ n.spent = r.spent /\ n.range = r.range /\ n.want = b
    BY <1>1, <1>6 DEF Run
  <2>3. n \in Run
    BY <1>1, <1>7, <2>1 DEF Run
  <2>. HIDE DEF n
  <2>4. ASSUME NEW i \in DOMAIN have PROVE have[i].block = r.range[1] + i - 1
    <3>1. CASE i \in 1 .. Len(r.view)
      BY <1>6, <1>9, <3>1
    <3>2. CASE i = Len(r.view) + 1
      BY <1>4, <1>6, <1>9, <1>10, <3>2
    <3>. QED  BY <1>9, <3>1, <3>2
  <2>5. Shape(n)
    BY <1>6, <1>7, <1>8, <2>1, <2>2, <2>4, EmptyIs DEF Shape, Frame, Apart, b
  <2>6. Owned(n) = Mine(c) /\ Releasing(run[c]) \subseteq Releasing(n)
    BY <1>4, <1>6, <1>7, <2>2, <2>3, OwnedIs DEF r
  <2>7. run[c].pc = "waiting" /\ acquires' \in [Contexts -> Nat]
    BY <1>1, <1>2 DEF r, TypeOK
  <2>. QED  BY <1>1, <1>11, <2>1, <2>2, <2>3, <2>5, <2>6, <2>7, RequestKeeps DEF n
<1>12. CASE /\ granted' = [granted EXCEPT ![c] = 0]
            /\ run' = [run EXCEPT ![c] = [Idle EXCEPT !.pc = "active", !.view = have,
                                                      !.staged = r.staged]]
            /\ UNCHANGED <<token, holder, stolen>>
  <2>. DEFINE n == [Idle EXCEPT !.pc = "active", !.view = have, !.staged = r.staged]
  <2>1. /\ Idle \in Run /\ Idle.writes = <<>> /\ Idle.next = 1
        /\ Idle.todo = <<>> /\ Idle.spent = FALSE
    BY BoundsAssumption, EmptyIs DEF Idle, Run, Places, Blocks
  <2>2. /\ n.pc = "active" /\ n.view = have /\ n.staged = r.staged /\ n.writes = <<>>
        /\ n.next = 1 /\ n.todo = <<>> /\ n.spent = FALSE
    BY <2>1 DEF Run
  <2>3. n \in Run
    BY <1>5, <1>7, <2>1 DEF Run, Places
  <2>. HIDE DEF n
  <2>4. Shape(n)
    BY <1>6, <1>7, <1>8, <2>2, EmptyIs DEF Shape, Frame, Apart
  <2>5. Owned(n) = Mine(c)
    BY <1>4, <1>7, <2>2, <2>3, OwnedIs
  <2>6. /\ Owned(n) \subseteq Mine(c)
        /\ Mine(c) \cup Releasing(run[c]) \subseteq Owned(n) \cup Releasing(n)
    BY <1>4, <2>5 DEF r
  <2>7. run[c].pc = "waiting" /\ acquires' \in [Contexts -> Nat]
    BY <1>1, <1>2 DEF r, TypeOK
  <2>. QED  BY <1>1, <1>12, <2>2, <2>3, <2>4, <2>6, <2>7, MoveKeeps DEF n
<1>. QED  BY <1>3, <1>11, <1>12

LEMMA GiveUpKeeps ==
  ASSUME RangeInv, NEW c \in Contexts, GiveUp(c)
  PROVE  RangeInv'
<1>. DEFINE r == run[c]
            l == Lease(r.want, granted[c])
            m == [r EXCEPT !.pc = "undoing", !.todo = Reverse(r.view)]
            n == Settle(m)
<1>1. TypeOK /\ r \in Run /\ Shape(r) /\ r.pc = "waiting"
  BY DEF RangeInv, TypeOK, ShapeOK, GiveUp, At
<1>2. /\ run' = [run EXCEPT ![c] = n] /\ acquires' = acquires
      /\ \/ Withdraw(c)
         \/ granted[c] # 0 /\ \E ok \in BOOLEAN : Release(c, l, FALSE, ok)
  BY DEF GiveUp
<1>3. /\ l \in Leases /\ l.block = r.want
      /\ \A k \in Within(r.staged) \cup ToSet(r.view) : k.block # r.want
      /\ Owned(r) = Within(r.staged) \cup ToSet(r.view)
      /\ Releasing(r) = {}
      /\ granted[c] # 0 => Mine(c) = Owned(r) \cup {l}
  BY <1>1, ClaimIs
<1>. HIDE DEF r, l
<1>4. r.view \in Seq(Leases)
  BY <1>1, RunFields
<1>5. /\ Reverse(r.view) \in Seq(Leases) /\ ToSet(Reverse(r.view)) = ToSet(r.view)
      /\ Distinct(Reverse(r.view))
  BY <1>1, <1>4, ReverseIs DEF Shape, Frame
<1>6. /\ m.pc = "undoing" /\ m.view = r.view /\ m.staged = r.staged /\ m.writes = r.writes
      /\ m.todo = Reverse(r.view) /\ m.spent = r.spent
  BY <1>1 DEF Run
<1>7. m \in Run
  BY <1>1, <1>5 DEF Run, Places
<1>. HIDE DEF m
<1>8. Frame(m)
  BY <1>1, <1>5, <1>6 DEF Shape, Frame
<1>9. Owned(m) = Owned(r)
  BY <1>3, <1>5, <1>6, <1>7, OwnedIs
<1>10. n \in Run /\ Shape(n) /\ n.pc \notin {"waiting", "copying"} /\ Owned(n) = Owned(r)
  BY <1>6, <1>7, <1>8, <1>9, SettleIs
<1>. HIDE DEF n
<1>11. acquires' \in [Contexts -> Nat] /\ run[c].pc = "waiting" /\ Owned(n) = Owned(run[c])
       /\ Releasing(run[c]) = {}
  BY <1>1, <1>2, <1>3, <1>10 DEF TypeOK, r
<1>12. CASE Withdraw(c)
  BY <1>2, <1>10, <1>11, <1>12, WithdrawKeeps
<1>13. ASSUME granted[c] # 0, NEW ok \in BOOLEAN, Release(c, l, FALSE, ok)
       PROVE  RangeInv'
  <2>1. /\ Owned(n) \subseteq Mine(c) /\ \A k \in Owned(n) : k.block # l.block
        /\ \A k \in Mine(c) \cup Releasing(run[c]) : k # l => k \in Owned(n) \cup Releasing(n)
    BY <1>3, <1>10, <1>11, <1>13
  <2>. QED  BY <1>2, <1>3, <1>10, <1>11, <1>13, <2>1, ReleaseKeeps
<1>. QED  BY <1>2, <1>12, <1>13

LEMMA CleanupKeeps ==
  ASSUME RangeInv, NEW c \in Contexts, Cleanup(c)
  PROVE  RangeInv'
<1>. DEFINE r == run[c]
            l == Head(r.todo)
<1>1. TypeOK /\ r \in Run /\ Shape(r) /\ r.todo # <<>>
  BY DEF RangeInv, TypeOK, ShapeOK, Cleanup
<1>2. PICK ok \in BOOLEAN :
        /\ Release(c, l, FALSE, ok)
        /\ run' = [run EXCEPT ![c] = Settle([r EXCEPT !.todo = Tail(@), !.failed = @ \/ ~ok])]
  BY Zenon DEF Cleanup
<1>3. acquires' = acquires
  BY DEF Cleanup
<1>. DEFINE m == [r EXCEPT !.todo = Tail(@), !.failed = @ \/ ~ok]
            n == Settle(m)
<1>4. run' = [run EXCEPT ![c] = n]
  BY <1>2
<1>. HIDE DEF r
<1>5. r.todo \in Seq(Leases) /\ r.failed \in BOOLEAN
  BY <1>1, RunFields
<1>6. /\ r.pc \in {"undoing", "aborting", "failing"} /\ Distinct(r.todo)
      /\ Apart(Within(r.staged), ToSet(r.todo))
  BY <1>1 DEF Shape, Frame
<1>7. /\ l \in Leases /\ Tail(r.todo) \in Seq(Leases) /\ ToSet(r.todo) = {l} \cup ToSet(Tail(r.todo))
      /\ Distinct(Tail(r.todo)) /\ \A k \in ToSet(Tail(r.todo)) : k.block # l.block
  BY <1>1, <1>5, <1>6, TailIs
<1>. HIDE DEF l
<1>8. /\ m.pc = r.pc /\ m.view = r.view /\ m.staged = r.staged /\ m.writes = r.writes
      /\ m.next = r.next /\ m.todo = Tail(r.todo) /\ m.spent = r.spent /\ m.final = r.final
      /\ m.range = r.range /\ m.want = r.want
  BY <1>1 DEF Run
<1>9. m \in Run
  BY <1>1, <1>5, <1>7 DEF Run
<1>. HIDE DEF m
<1>10. Frame(m)
  <2>1. Apart(Within(m.staged), ToSet(m.todo))
    BY <1>6, <1>7, <1>8, Smaller
  <2>. QED  BY <1>1, <1>7, <1>8, <2>1 DEF Shape, Frame
<1>11. /\ n \in Run /\ Shape(n) /\ n.pc \notin {"waiting", "copying"} /\ Owned(n) = Owned(m)
       /\ Releasing(m) \subseteq Releasing(n)
  BY <1>6, <1>8, <1>9, <1>10, SettleIs
<1>. HIDE DEF n
<1>12. Mine(c) = Owned(r)
  BY <1>6 DEF Mine, Claimed, r
<1>13. CASE r.pc = "undoing"
  <2>1. /\ Owned(r) = Within(r.staged) \cup {l} \cup ToSet(m.todo)
        /\ Owned(m) = Within(r.staged) \cup ToSet(m.todo)
        /\ Releasing(r) = {l} \cup ToSet(m.todo)
    BY <1>1, <1>7, <1>8, <1>9, <1>13, OwnedIs, ReleasingIs
  <2>2. /\ Owned(n) \subseteq Mine(c) /\ \A k \in Owned(n) : k.block # l.block
        /\ \A k \in Mine(c) \cup Releasing(run[c]) : k # l => k \in Owned(n) \cup Releasing(n)
    BY <1>6, <1>7, <1>8, <1>11, <1>12, <2>1 DEF Apart, r
  <2>3. run[c].pc = "undoing" /\ acquires' \in [Contexts -> Nat]
    BY <1>1, <1>3, <1>13 DEF r, TypeOK
  <2>. QED  BY <1>2, <1>4, <1>7, <1>11, <2>2, <2>3, ReleaseKeeps
<1>14. CASE r.pc \in {"aborting", "failing"}
  <2>1. Owned(r) = Within(r.staged) /\ Owned(m) = Within(r.staged)
    BY <1>1, <1>8, <1>9, <1>14, OwnedIs
  <2>2. \A k \in Releasing(r) : k # l => k \in Releasing(m)
    BY <1>1, <1>7, <1>8, <1>9, <1>14, ReleasingIs
  <2>3. /\ Owned(n) \subseteq Mine(c) /\ \A k \in Owned(n) : k.block # l.block
        /\ \A k \in Mine(c) \cup Releasing(run[c]) : k # l => k \in Owned(n) \cup Releasing(n)
    BY <1>6, <1>7, <1>11, <1>12, <2>1, <2>2 DEF Apart, r
  <2>4. run[c].pc \in {"aborting", "failing"} /\ acquires' \in [Contexts -> Nat]
    BY <1>1, <1>3, <1>14 DEF r, TypeOK
  <2>. QED  BY <1>2, <1>4, <1>7, <1>11, <2>3, <2>4, ReleaseKeeps
<1>. QED  BY <1>6, <1>13, <1>14

LEMMA PublishKeeps ==
  ASSUME RangeInv, NEW c \in Contexts, Publish(c)
  PROVE  RangeInv'
<1>. DEFINE r == run[c]
            s == Head(r.writes)
            l == s[r.next]
            m == [r EXCEPT !.pc = "failing", !.todo = SubSeq(s, r.next + 1, Len(s))]
<1>1. TypeOK /\ ShapeOK /\ r \in Run /\ Shape(r) /\ r.pc = "copying" /\ l = Writing(c)
  BY DEF RangeInv, TypeOK, ShapeOK, Publish, At, Writing
<1>2. PICK ok \in BOOLEAN :
        /\ Release(c, l, TRUE, ok)
        /\ run' = [run EXCEPT ![c] = IF ok THEN Published(r) ELSE Settle(m)]
  BY DEF Publish
<1>3. acquires' \in [Contexts -> Nat] /\ run[c].pc = "copying" /\ l \in Leases
  BY <1>1, WritingType DEF Publish, TypeOK
<1>4. Mine(c) = Owned(r)
  BY <1>1 DEF Mine, Claimed
<1>5. CASE ok
  <2>. DEFINE n == Published(r)
  <2>1. /\ n \in Run /\ Shape(n) /\ n.pc \notin {"waiting", "copying"}
        /\ Owned(n) \subseteq Owned(r) /\ \A k \in Owned(n) : k.block # l.block
        /\ \A k \in Owned(r) \cup Releasing(r) : k # l => k \in Owned(n)
    BY <1>1, PublishedIs
  <2>2. run' = [run EXCEPT ![c] = n]
    BY <1>2, <1>5
  <2>3. Release(c, l, TRUE, ok) /\ l = Writing(c)
    BY <1>1, <1>2
  <2>. HIDE DEF n, l
  <2>4. /\ Owned(n) \subseteq Mine(c) /\ \A k \in Owned(n) : k.block # l.block
        /\ \A k \in Mine(c) \cup Releasing(run[c]) : k # l => k \in Owned(n) \cup Releasing(n)
    BY <1>4, <2>1
  <2>. QED  BY <1>3, <2>1, <2>2, <2>3, <2>4, ReleaseKeeps
<1>6. CASE ~ok
  <2>. DEFINE n == Settle(m)
              w == r.writes
  <2>1. run' = [run EXCEPT ![c] = n]
    BY <1>2, <1>6
  <2>. HIDE DEF r
  <2>2. r.writes \in Seq(Seq(Leases)) /\ r.next \in Nat /\ r.spent \in BOOLEAN
    BY <1>1, RunFields
  <2>3. /\ w # <<>> /\ Filled(w) /\ Scattered(w) /\ r.next \in DOMAIN s
        /\ Apart(Within(r.staged), Within(w)) /\ r.todo = <<>>
    BY <1>1 DEF Shape, Frame
  <2>4. /\ s \in Seq(Leases) /\ Distinct(s)
        /\ Within(w) = ToSet(s) \cup Within(Tail(w)) /\ Apart(ToSet(s), Within(Tail(w)))
    BY <2>2, <2>3, WithinTail
  <2>. HIDE DEF s
  <2>5. r.next + 1 \in 1 .. Len(s) + 1
    BY <2>3, <2>4, LenProperties
  <2>6. /\ SubSeq(s, r.next + 1, Len(s)) \in Seq(Leases) /\ Distinct(SubSeq(s, r.next + 1, Len(s)))
        /\ ToSet(SubSeq(s, r.next + 1, Len(s))) = From(s, r.next + 1)
        /\ From(s, r.next + 1) \subseteq ToSet(s)
    BY <2>4, <2>5, RestIs
  <2>7. /\ From(s, r.next) = {l} \cup From(s, r.next + 1) /\ l \in ToSet(s)
    BY <2>3, <2>4, FromIs DEF ToSet
  <2>8. /\ m.pc = "failing" /\ m.view = r.view /\ m.staged = r.staged /\ m.writes = w
        /\ m.todo = SubSeq(s, r.next + 1, Len(s)) /\ m.spent = r.spent
    BY <1>1 DEF Run
  <2>9. m \in Run
    BY <1>1, <2>6 DEF Run, Places
  <2>. HIDE DEF m, l
  <2>10. Frame(m)
    <3>1. Apart(Within(m.staged), ToSet(m.todo))
      BY <2>3, <2>4, <2>6, <2>8, Smaller
    <3>. QED  BY <1>1, <2>6, <2>8, <3>1 DEF Shape, Frame
  <2>11. /\ n \in Run /\ Shape(n) /\ n.pc \notin {"waiting", "copying"} /\ Owned(n) = Owned(m)
         /\ Releasing(m) \subseteq Releasing(n)
    BY <2>8, <2>9, <2>10, SettleIs
  <2>. HIDE DEF n
  <2>12. /\ Owned(m) = Within(r.staged)
         /\ Releasing(m) = From(s, r.next + 1) \cup Within(Tail(w))
    BY <2>6, <2>8, <2>9, OwnedIs, ReleasingIs
  <2>13. /\ r.spent => Owned(r) = Within(r.staged)
         /\ ~r.spent => Owned(r) = Within(r.staged) \cup From(s, r.next) \cup Within(Tail(w))
         /\ Releasing(r) = {}
    BY <1>1, <2>2, <2>3, OwnedIs, ReleasingIs, EmptyIs DEF s
  <2>14. /\ Within(r.staged) \subseteq Owned(r)
         /\ Owned(r) \subseteq Within(r.staged) \cup {l} \cup Releasing(m)
    BY <2>2, <2>7, <2>12, <2>13
  <2>15. \A k \in Within(r.staged) : k.block # l.block
    BY <2>3, <2>4, <2>7 DEF Apart
  <2>16. /\ Owned(n) \subseteq Mine(c) /\ \A k \in Owned(n) : k.block # l.block
         /\ \A k \in Mine(c) \cup Releasing(run[c]) : k # l => k \in Owned(n) \cup Releasing(n)
    BY <1>4, <2>11, <2>12, <2>13, <2>14, <2>15 DEF r
  <2>. QED  BY <1>1, <1>2, <1>3, <2>1, <2>11, <2>16, ReleaseKeeps
<1>. QED  BY <1>5, <1>6

\* BeginWriteback opens the window, or the context starts to release.
LEMMA OpenKeeps ==
  ASSUME RangeInv, NEW c \in Contexts, run[c].pc = "publishing",
         Valid(c, Writing(c)), ~odd[Writing(c).block],
         odd' = [odd EXCEPT ![Writing(c).block] = TRUE], stolen' = Used(c, Writing(c).block),
         run' = [run EXCEPT ![c] = [run[c] EXCEPT !.pc = "copying"]],
         UNCHANGED <<owner, epoch, held, requests, granted, acquires, holder>>
  PROVE  RangeInv'
<1>. DEFINE r == run[c]
            n == [r EXCEPT !.pc = "copying"]
            b == Writing(c).block
<1>1. /\ TypeOK /\ ShapeOK /\ HolderOK /\ WaitersOK /\ KeptOK /\ HeldOK /\ WindowOK
      /\ r \in Run /\ Shape(r) /\ r.pc = "publishing"
  BY DEF RangeInv, TypeOK, ShapeOK
<1>2. b \in Blocks
  BY <1>1, WritingType
<1>3. run' = [run EXCEPT ![c] = n]
  BY SMTT(60)
<1>4. Writing(c) = Head(r.writes)[r.next]
  BY DEF Writing
<1>. HIDE DEF r
<1>5. /\ n.pc = "copying" /\ n.view = r.view /\ n.staged = r.staged /\ n.writes = r.writes
      /\ n.next = r.next /\ n.todo = r.todo /\ n.spent = r.spent /\ n.final = r.final
  BY <1>1 DEF Run
<1>6. n \in Run
  BY <1>1 DEF Run, Places
<1>. HIDE DEF n
<1>7. Shape(n)
  BY <1>1, <1>5 DEF Shape, Frame
<1>8. Owned(n) = Owned(r) /\ Releasing(n) = Releasing(r)
  <2>1. r.spent \in BOOLEAN
    BY <1>1, RunFields
  <2>. QED  BY <1>1, <1>5, <1>6, <2>1, OwnedIs, ReleasingIs, ZenonT(60)
<1>9. run' \in [Contexts -> Run] /\ run'[c] = n /\ \A d \in Contexts \ {c} : run'[d] = run[d]
  BY <1>1, <1>3, <1>6, OthersStay
<1>10. Writing(c)' = Writing(c) /\ \A d \in Contexts \ {c} : Writing(d)' = Writing(d)
  BY <1>4, <1>5, <1>9 DEF Writing
<1>11. /\ odd' \in [Blocks -> BOOLEAN] /\ odd'[b] = TRUE /\ \A x \in Blocks \ {b} : odd'[x] = odd[x]
       /\ stolen \subseteq stolen' /\ stolen' \subseteq Blocks
       /\ b \notin stolen' => holder[b] \in {c, None}
  BY <1>1, <1>2 DEF TypeOK, Used
<1>12. Valid(c, Writing(c)) /\ held[b]
  BY DEF Valid
<1>. HIDE DEF b
<1>13. TypeOK'
  BY <1>1, <1>9, <1>11 DEF TypeOK
<1>14. ShapeOK'
  BY <1>1, <1>3, <1>6, <1>7, ShapeStays
<1>15. HolderOK'
  BY <1>1 DEF HolderOK
<1>16. WaitersOK'
  <2>1. ASSUME NEW x \in Blocks, NEW q \in requests[x], q.live PROVE WaiterOf(q, x)'
    <3>1. q.context \in Contexts \ {c} /\ WaiterOf(q, x)
      BY <1>1, <2>1, NoLiveRequest DEF WaitersOK, r
    <3>. QED  BY <1>9, <3>1 DEF WaiterOf
  <2>2. ASSUME NEW d \in Contexts, run'[d].pc = "waiting", granted[d] = 0
        PROVE  \E q \in requests[run'[d].want] : q.context = d /\ q.live
    <3>1. d # c
      BY <1>5, <1>9, <2>2
    <3>. QED  BY <1>1, <1>9, <2>2, <3>1 DEF WaitersOK
  <2>. QED  BY <1>1, <2>1, <2>2 DEF WaitersOK
<1>17. \A d \in Contexts : Mine(d)' = Mine(d) /\ Releasing(run[d])' = Releasing(run[d])
  <2>1. Mine(c)' = Owned(n) /\ Mine(c) = Owned(r) /\ Releasing(run[c])' = Releasing(n)
    BY <1>1, <1>5, <1>9 DEF Mine, Claimed, r
  <2>2. ASSUME NEW d \in Contexts \ {c}
        PROVE  Mine(d)' = Mine(d) /\ Releasing(run[d])' = Releasing(run[d])
    BY <1>9 DEF Mine, Claimed
  <2>. QED  BY <1>8, <2>1, <2>2 DEF r
<1>18. KeptOK'
  BY <1>1, <1>11, <1>17 DEF KeptOK, Current
<1>19. HeldOK'
  BY <1>1, <1>17 DEF HeldOK
<1>20. WindowOK'
  <2>1. ASSUME NEW x \in Blocks, odd'[x] PROVE held[x]
    BY <1>1, <1>11, <1>12, <2>1 DEF WindowOK
  <2>2. ASSUME NEW d \in Contexts, run'[d].pc = "copying", Current(d, Writing(d))'
        PROVE  odd'[Writing(d)'.block]
    <3>1. CASE d = c
      BY <1>10, <1>11, <3>1 DEF b
    <3>2. CASE d # c
      <4>1. /\ run[d].pc = "copying" /\ Writing(d)' = Writing(d) /\ Current(d, Writing(d))
        BY <1>9, <1>10, <2>2, <3>2 DEF Current
      <4>2. odd[Writing(d).block] /\ Writing(d).block \in Blocks
        BY <1>1, <4>1, WritingType DEF WindowOK
      <4>. QED  BY <1>11, <4>1, <4>2
    <3>. QED  BY <3>1, <3>2
  <2>3. ASSUME NEW x \in Blocks \ stolen', odd'[x]
        PROVE  \E d \in Contexts :
                 Copying(d, x)' /\ holder[x] \in {d, None} /\ Valid(d, Writing(d))'
    <3>1. CASE x = b
      <4>1. Copying(c, x)'
        BY <1>4, <1>5, <1>9, <3>1 DEF Copying, At, b
      <4>2. Valid(c, Writing(c))'
        BY <1>10, <1>12 DEF Valid
      <4>. QED  BY <1>11, <2>3, <3>1, <4>1, <4>2, SMTT(60)
    <3>2. CASE x # b
      <4>0. odd[x] /\ x \in Blocks \ stolen
        BY <1>11, <2>3, <3>2
      <4>1. PICK d \in Contexts :
              Copying(d, x) /\ holder[x] \in {d, None} /\ Valid(d, Writing(d))
        BY <1>1, <4>0 DEF WindowOK
      <4>2. d # c
        BY <1>1, <4>1 DEF Copying, At, r
      <4>3. run'[d] = run[d] /\ Writing(d)' = Writing(d)
        BY <1>9, <1>10, <4>2
      <4>4. Copying(d, x)' /\ Valid(d, Writing(d))'
        BY <4>1, <4>3 DEF Copying, At, Valid
      <4>. QED  BY <4>1, <4>4
    <3>. QED  BY <3>1, <3>2
  <2>. QED  BY <2>1, <2>2, <2>3 DEF WindowOK
<1>. QED  BY <1>13, <1>14, <1>15, <1>16, <1>18, <1>19, <1>20 DEF RangeInv

LEMMA BeginWritebackKeeps ==
  ASSUME RangeInv, NEW c \in Contexts, BeginWriteback(c)
  PROVE  RangeInv'
<1>. DEFINE r == run[c]
            s == Head(r.writes)
            rest == SubSeq(s, r.next, Len(s))
            n == [r EXCEPT !.pc = "failing", !.todo = rest]
            w == r.writes
<1>1. TypeOK /\ ShapeOK /\ r \in Run /\ Shape(r) /\ r.pc = "publishing"
  BY SMTT(60) DEF RangeInv, TypeOK, ShapeOK, BeginWriteback, At
<1>2. /\ UNCHANGED <<owner, epoch, held, requests, granted, acquires, holder>>
      /\ \/ /\ Valid(c, Writing(c)) /\ ~odd[Writing(c).block]
            /\ odd' = [odd EXCEPT ![Writing(c).block] = TRUE]
            /\ stolen' = Used(c, Writing(c).block)
            /\ run' = [run EXCEPT ![c] = [run[c] EXCEPT !.pc = "copying"]]
         \/ run' = [run EXCEPT ![c] = n] /\ UNCHANGED <<odd, stolen>>
  BY DEF BeginWriteback, Writing
<1>3. CASE run' = [run EXCEPT ![c] = n] /\ UNCHANGED <<odd, stolen>>
  <2>1. acquires' \in [Contexts -> Nat] /\ run[c].pc = "publishing" /\ granted' = granted
        /\ UNCHANGED <<token, holder, stolen>>
    BY <1>1, <1>2, <1>3 DEF TypeOK, token
  <2>. HIDE DEF r
  <2>2. w \in Seq(Seq(Leases)) /\ r.next \in Nat /\ r.spent \in BOOLEAN
    BY <1>1, RunFields
  <2>3. /\ w # <<>> /\ Filled(w) /\ Scattered(w) /\ r.next \in DOMAIN s
        /\ Apart(Within(r.staged), Within(w)) /\ r.todo = <<>>
    BY <1>1 DEF Shape, Frame
  <2>4. s \in Seq(Leases) /\ Distinct(s) /\ Within(w) = ToSet(s) \cup Within(Tail(w))
    BY <2>2, <2>3, WithinTail
  <2>. HIDE DEF s
  <2>5. r.next \in 1 .. Len(s) + 1 /\ r.next # Len(s) + 1
    BY <2>3, <2>4, LenProperties
  <2>6. /\ rest \in Seq(Leases) /\ Distinct(rest) /\ rest # <<>>
        /\ ToSet(rest) = From(s, r.next) /\ From(s, r.next) \subseteq ToSet(s)
    BY <2>4, <2>5, RestIs
  <2>. HIDE DEF rest
  <2>7. /\ n.pc = "failing" /\ n.view = r.view /\ n.staged = r.staged /\ n.writes = w
        /\ n.todo = rest /\ n.spent = r.spent
    BY <1>1 DEF Run
  <2>8. n \in Run
    BY <1>1, <2>6 DEF Run, Places
  <2>. HIDE DEF n
  <2>9. Shape(n)
    <3>1. Apart(Within(n.staged), ToSet(n.todo))
      BY <2>3, <2>4, <2>6, <2>7, Smaller
    <3>. QED  BY <1>1, <2>6, <2>7, <3>1 DEF Shape, Frame
  <2>10. Owned(n) = Within(r.staged) /\ Releasing(n) = From(s, r.next) \cup Within(Tail(w))
    BY <2>6, <2>7, <2>8, OwnedIs, ReleasingIs
  <2>11. /\ r.spent => Owned(r) = Within(r.staged)
         /\ ~r.spent => Owned(r) = Within(r.staged) \cup From(s, r.next) \cup Within(Tail(w))
         /\ Releasing(r) = {}
    BY <1>1, <2>2, <2>3, OwnedIs, ReleasingIs, EmptyIs DEF s
  <2>12. Mine(c) = Owned(r)
    BY <1>1 DEF Mine, Claimed, r
  <2>13. /\ Owned(n) \subseteq Mine(c)
         /\ Mine(c) \cup Releasing(run[c]) \subseteq Owned(n) \cup Releasing(n)
    BY <2>2, <2>10, <2>11, <2>12 DEF r
  <2>. QED  BY <1>3, <2>1, <2>7, <2>8, <2>9, <2>13, MoveKeeps
<1>4. run[c].pc = "publishing"
  BY <1>1
<1>. QED  BY <1>2, <1>3, <1>4, OpenKeeps, SMTT(60)

LEMMA RangeInit == Init => RangeInv
<1>. SUFFICES ASSUME Init PROVE RangeInv
  OBVIOUS
<1>1. /\ [Idle EXCEPT !.staged = <<>>] = Idle
      /\ Idle.staged = <<>> /\ Idle.pc = "idle"
  BY DEF Idle
<1>2. Idle \in Run /\ Shape(Idle) /\ Owned(Idle) = {}
  BY <1>1, IdleIs, EmptyIs
<1>3. TypeOK
  BY <1>2, ContextsAssumption DEF Init, TypeOK
<1>4. ShapeOK
  BY <1>2 DEF Init, ShapeOK
<1>5. ASSUME NEW c \in Contexts PROVE Mine(c) = {} /\ run[c].pc = "idle"
  BY <1>1, <1>2 DEF Init, Mine, Claimed
<1>6. KeptOK
  BY <1>5 DEF KeptOK
<1>7. HolderOK /\ HeldOK
  BY ContextsAssumption DEF Init, HolderOK, HeldOK
<1>8. WaitersOK
  BY <1>5 DEF Init, WaitersOK
<1>9. WindowOK
  BY <1>5 DEF Init, WindowOK
<1>. QED  BY <1>3, <1>4, <1>6, <1>7, <1>8, <1>9 DEF RangeInv

LEMMA RangeNext == RangeInv /\ [Next]_vars => RangeInv'
<1>. SUFFICES ASSUME RangeInv, [Next]_vars PROVE RangeInv'
  OBVIOUS
<1>1. ASSUME NEW c \in Contexts, Progress(c) PROVE RangeInv'
  BY <1>1, ClaimKeeps, CleanupKeeps, AbortKeeps, CommitKeeps, SynchronizeReleaseKeeps,
     BeginWritebackKeeps, PublishKeeps DEF Progress
<1>2. ASSUME UNCHANGED vars PROVE RangeInv'
  <2>1. /\ UNCHANGED <<owner, epoch, held, odd, requests, granted, run, acquires, holder, stolen>>
    BY <1>2 DEF vars, token
  <2>2. TypeOK' /\ ShapeOK' /\ HolderOK'
    BY <2>1 DEF RangeInv, TypeOK, ShapeOK, HolderOK
  <2>3. WaitersOK'
    BY <2>1 DEF RangeInv, WaitersOK, WaiterOf
  <2>4. KeptOK' /\ HeldOK'
    BY <2>1, SMTT(60) DEF RangeInv, KeptOK, HeldOK, Mine, Claimed, Current
  <2>5. WindowOK'
    BY <2>1 DEF RangeInv, WindowOK, Current, Writing, Copying, At, Valid
  <2>. QED  BY <2>2, <2>3, <2>4, <2>5 DEF RangeInv
<1>. QED  BY <1>1, <1>2, AcquireKeeps, GiveUpKeeps, AbortKeeps, StageKeeps, DeliverKeeps DEF Next

LEMMA RangeInvariant == Spec => []RangeInv
BY RangeInit, RangeNext, PTL DEF Spec

\* A context keeps what it has collected or staged, in AcquireWriteRange, in a
\* WriteView and in staged_writes_, until it releases it: whatever the others
\* do, its leases are valid, and only the holder of a block has its window
\* open.  For any number of hosts, contexts and blocks, and any timeouts.
THEOREM LeasesAreKept == Spec => []LeasesKept
<1>1. ASSUME RangeInv PROVE LeasesKept
  <2>1. /\ TypeOK /\ ShapeOK /\ HolderOK /\ KeptOK /\ WindowOK
    BY <1>1 DEF RangeInv
  <2>2. ASSUME NEW c \in Contexts, NEW l \in Owned(run[c]), l.block \notin stolen
        PROVE  holder[l.block] = c /\ Valid(c, l)
    <3>1. l.block \in Blocks /\ c # None
      BY <2>1, OwnedType, ContextsAssumption
    <3>2. Current(c, l)
      BY <2>1, <2>2 DEF KeptOK, Mine
    <3>. QED  BY <2>1, <3>1, <3>2 DEF Current, HolderOK, Valid
  <2>3. ASSUME NEW b \in Blocks \ stolen, odd[b]
        PROVE  \E c \in Contexts : Copying(c, b) /\ holder[b] \in {c, None}
    BY <2>1, <2>3 DEF WindowOK
  <2>. QED  BY <2>1, <2>2, <2>3 DEF LeasesKept
<1>. QED  BY <1>1, RangeInvariant, PTL

\* Every error path of AcquireWriteRange, ReleaseWriteBuffer, AbortWriteBuffer
\* and SynchronizeRelease accounts for every token: who holds one still has it,
\* is about to claim it or is about to release it.
THEOREM NothingLeaks == Spec => []NoLeak
<1>1. ASSUME RangeInv PROVE NoLeak
  <2>1. ASSUME NEW c \in Contexts, NEW b \in Blocks, holder[b] = c
        PROVE  \/ \E l \in Owned(run[c]) \cup Releasing(run[c]) : l.block = b
               \/ At(c, {"waiting"}) /\ run[c].want = b /\ granted[c] # 0
    <3>1. PICK l \in Mine(c) \cup Releasing(run[c]) : l.block = b
      BY <1>1, <2>1 DEF RangeInv, HeldOK
    <3>2. CASE l \in Claimed(c)
      BY <3>1, <3>2, LeaseFields DEF Claimed, At
    <3>. QED  BY <3>1, <3>2 DEF Mine
  <2>. QED  BY <2>1 DEF NoLeak
<1>. QED  BY <1>1, RangeInvariant, PTL
=============================================================================
