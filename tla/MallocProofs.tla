---------------------------- MODULE MallocProofs ----------------------------
(***************************************************************************)
(* Theorems about Malloc for any sizes, alignments and numbers of threads. *)
(***************************************************************************)
EXTENDS Malloc, FiniteSetTheorems, SequenceTheorems, WellFoundedInduction, TLAPS

-----------------------------------------------------------------------------
(* The parts of the invariant.  K stands for the chunks of a heap state,   *)
(* Z for the sizes of its heaps, F for its footers.                        *)

Chunk == [size : Nat, heap : Nat, cused : BOOLEAN, pused : BOOLEAN]

IsHeap(h) ==
    h \in [heap : {h.heap}, chunk : {h.chunk}, foot : {h.foot}, bins : {h.bins},
           binmap : {h.binmap}, mapsz : {h.mapsz}, freesz : {h.freesz},
           retained : {h.retained}, retainedsz : {h.retainedsz}, released : {h.released},
           relIdx : {h.relIdx}, lo : {h.lo}, hi : {h.hi}, wrote : {h.wrote}]

Sizes(h) == [b \in DOMAIN h.heap |-> h.heap[b].size]

AreChunks(K) == DOMAIN K \subseteq Nat /\ K \in [DOMAIN K -> Chunk]

\* Every chunk is in its heap, between its neighbours
Lies(Z, K, c) ==
    LET b == K[c].heap
        e == c + K[c].size
    IN  /\ K[c].size >= Overhead
        /\ b \in DOMAIN Z /\ b + Header <= c /\ e <= b + Z[b]
        /\ e = b + Z[b] \/ (e \in DOMAIN K /\ K[e].heap = b)
        /\ c = b + Header \/ \E d \in DOMAIN K : K[d].heap = b /\ d + K[d].size = c
InOrder(K) == \A c, d \in DOMAIN K : c < d => c + K[c].size <= d
Grid(Z, K) ==
    /\ AreChunks(K) /\ InOrder(K)
    /\ \A c \in DOMAIN K : Lies(Z, K, c)
    /\ \A b \in DOMAIN Z : b + Header \in DOMAIN K /\ K[b + Header].heap = b

\* The heaps lie apart
Apart(Z) ==
    /\ DOMAIN Z \subseteq Nat /\ \A b \in DOMAIN Z : Z[b] \in Nat
    /\ \A b, d \in DOMAIN Z : b < d => b + Z[b] <= d

AtLeast(K, X) == \A c \in DOMAIN K \ X : K[c].size >= MinSize
\* d is the chunk behind c
Behind(K, c, d) == c \in DOMAIN K /\ d \in DOMAIN K /\ d = c + K[c].size
Flags(Z, K, X) ==
    /\ \A b \in DOMAIN Z : K[b + Header].pused
    /\ \A c \in DOMAIN K \ X, d \in DOMAIN K : Behind(K, c, d) => K[d].pused = K[c].cused
NotBoth(K, X) ==
    \A c \in DOMAIN K \ X, d \in DOMAIN K \ X : Behind(K, c, d) => K[c].cused \/ K[d].cused
IsFree(K, c) == c \in DOMAIN K /\ ~ K[c].cused
FootAt(F, a) == IF a \in DOMAIN F THEN F[a] ELSE 0
Feet(K, F, X) ==
    \A c \in DOMAIN K \ X : ~ K[c].cused => FootAt(F, c + K[c].size - 1) = K[c].size

\* The units of the free chunks of heap b
FreeUnits(K, b) ==
    {u \in Nat : \E c \in DOMAIN K :
        K[c].heap = b /\ ~ K[c].cused /\ c <= u /\ u < c + K[c].size}
Count(h) ==
    \A b \in DOMAIN h.heap :
        /\ h.heap[b] \in [size : Nat, freesz : Int]
        /\ h.heap[b].freesz = Cardinality(FreeUnits(h.chunk, b))

\* The chunks in the bins are those of S
PayUnits(K, S) == {u \in Nat : \E c \in S : c + Overhead <= u /\ u < c + K[c].size}
Binning(h, S) ==
    /\ \A c \in S : c \in DOMAIN h.chunk /\ ~ h.chunk[c].cused /\ h.chunk[c].size >= MinSize
    /\ \A b : Bins(h, b) = {c \in S : BinOf(h, c) = b}
    /\ h.binmap = {BinOf(h, c) : c \in S}
    /\ IsFiniteSet(PayUnits(h.chunk, S)) /\ h.freesz = Cardinality(PayUnits(h.chunk, S))
FreeChunks(K) == {c \in DOMAIN K : ~ K[c].cused}
\* The chunks in use, with their sizes
Used(K) == [c \in {d \in DOMAIN K : K[d].cused} |-> K[c].size]

\* A function without x; the addresses from a on
Dropped(f, x) == [y \in DOMAIN f \ {x} |-> f[y]]
Area(a, n)    == {u \in Nat : a <= u /\ u < a + n}

\* The heaps of the kernel
HeapsFine(h) ==
    /\ h.lo \in Nat /\ h.hi \in Nat
    /\ \A b \in DOMAIN h.heap :
          /\ b \in Nat /\ b % Page = 0 /\ h.heap[b] \in [size : Nat, freesz : Int]
          /\ h.heap[b].size % Page = 0 /\ h.heap[b].size >= Header
          /\ h.lo # 0 /\ h.lo <= b /\ b < h.hi /\ b + h.heap[b].size <= h.hi
    /\ \A b, d \in DOMAIN h.heap : b < d => b + h.heap[b].size <= d
    /\ h.mapsz = Cardinality(Mapped(h))
    /\ \A i \in DOMAIN h.released :
          /\ h.released[i] \in [base : Nat, size : Nat]
          /\ \A b \in DOMAIN h.heap : \/ h.released[i].base + h.released[i].size <= b
                                      \/ b + h.heap[b].size <= h.released[i].base

\* Heaps kept though entirely free; those of X are not yet, or no longer, on the list
Kept(h, X) ==
    /\ h.retained \in Seq(Nat)
    /\ \A i, j \in DOMAIN h.retained : h.retained[i] = h.retained[j] => i = j
    /\ {h.retained[i] : i \in DOMAIN h.retained}
         = {b \in DOMAIN h.heap : h.heap[b].freesz = Whole(h, b)} \ X
    /\ h.retainedsz = Cardinality(UNION {Extent(b, h.heap[b].size) :
                                            b \in {h.retained[i] : i \in DOMAIN h.retained}})
    /\ Len(h.retained) <= RetainMax /\ h.retainedsz <= RetainUnits

\* What of P the allocator may not write to: no header, and nothing of a free chunk
Clear(K, P) ==
    \A c \in DOMAIN K : /\ c \notin P /\ c + 1 \notin P
                        /\ ~ K[c].cused => \A u \in P : ~ (c <= u /\ u < c + K[c].size)

\* Everything at the end of a section
Sound(h) ==
    /\ IsHeap(h) /\ HeapsFine(h) /\ Grid(Sizes(h), h.chunk) /\ AtLeast(h.chunk, {})
    /\ Flags(Sizes(h), h.chunk, {}) /\ NotBoth(h.chunk, {}) /\ Feet(h.chunk, h.foot, {})
    /\ Count(h) /\ Binning(h, FreeChunks(h.chunk)) /\ Kept(h, {})

\* What the callers hold when the chunks U are in use: a block is a chunk without
\* the words in front of it
Blocks(U) == [p \in {c + Overhead : c \in DOMAIN U} |-> U[p - Overhead] - Overhead]

\* The threads between sections, when the callers hold the blocks L
Job == {NoTask} \cup [op : {"move"}, ptr : Nat, size : Nat, old : Nat]
       \cup [op : {"copy"}, ptr : Nat, to : Nat, old : Nat]
       \cup [op : {"carve", "shrink"}, ptr : Nat, size : Nat, al : Nat \ {0}]
Suits(job, L) ==
    /\ Holds(job) \subseteq DOMAIN L
    /\ job.op = "move" => job.old = L[job.ptr] /\ job.size > L[job.ptr]
    /\ job.op = "copy" => /\ job.ptr # job.to /\ job.old = L[job.ptr]
                          /\ job.old <= L[job.to]
    /\ job.op = "carve" => /\ job.size >= MinSize
                           /\ L[job.ptr] >= job.size + job.al + MinSize
    /\ job.op = "shrink" => job.size >= MinSize /\ L[job.ptr] + Overhead >= job.size
Tasks ==
    /\ task \in [Thread -> Job]
    /\ \A t \in Thread : Suits(task[t], live)
    /\ \A t, u \in Thread : t # u => Holds(task[t]) \cap Holds(task[u]) = {}

\* The heap between sections
Rest ==
    /\ Sound(m) /\ m.wrote = {} /\ \A b \in DOMAIN m.bins : m.bins[b] # {}
    /\ spoilt = {} /\ live = Blocks(Used(m.chunk))
HeapInv == Rest /\ Tasks

(* Numbers and finite sets                                                 *)

LEMMA MinOf == ASSUME NEW a \in Int, NEW b \in Int PROVE Min({a, b}) = IF a <= b THEN a ELSE b
BY DEF Min

LEMMA MaxOf == ASSUME NEW a \in Int, NEW b \in Int PROVE Max({a, b}) = IF a >= b THEN a ELSE b
BY DEF Max

LEMMA LeastOne ==
    ASSUME NEW S \in SUBSET Nat, S # {}
    PROVE  \E i \in S : \A j \in S : i <= j
  <1> DEFINE R == OpToRel(<, Nat)
  <1>1. IsWellFoundedOn(R, Nat)
    BY NatLessThanWellFounded, Zenon
  <1>2. \A x, y \in Nat : x < y => <<x, y>> \in R
    BY DEF OpToRel
  <1> HIDE DEF R
  <1>3. PICK x \in S : \A y \in S : ~ (<<y, x>> \in R)
    BY <1>1, WFMin
  <1>4. ASSUME NEW j \in S PROVE x <= j
    <2>1. x \in Nat /\ j \in Nat /\ ~ (<<j, x>> \in R)
      BY <1>3
    <2>2. ~ (j < x)
      BY <1>2, <2>1
    <2> QED BY <2>1, <2>2
  <1> QED BY <1>4

\* A condition that holds at 1 and passes from n to n + 1 holds from 1 on
LEMMA FromOne ==
    ASSUME NEW S, 1 \in S, \A n \in Nat \ {0} : n \in S => n + 1 \in S
    PROVE  \A n \in Nat \ {0} : n \in S
  <1> DEFINE bad == {n \in Nat \ {0} : n \notin S}
  <1> SUFFICES ASSUME bad # {} PROVE FALSE
    OBVIOUS
  <1>1. PICK k \in bad : \A j \in bad : k <= j
    BY LeastOne
  <1>2. k \in Nat /\ k # 0 /\ k # 1 /\ k \notin S
    BY <1>1
  <1>3. k - 1 \in Nat \ {0} /\ ~ (k <= k - 1)
    BY <1>2
  <1>4. k - 1 \in S
    BY <1>1, <1>3
  <1>5. (k - 1) + 1 \in S
    BY <1>3, <1>4
  <1>6. (k - 1) + 1 = k
    BY <1>2
  <1> QED BY <1>2, <1>5, <1>6

LEMMA CountAdd ==
    ASSUME NEW S, IsFiniteSet(S), NEW a \in Int, NEW n \in Nat,
           \A u \in S : ~ (u \in a .. a + n - 1)
    PROVE  /\ IsFiniteSet(S \cup (a .. a + n - 1))
           /\ Cardinality(S \cup (a .. a + n - 1)) = Cardinality(S) + n
  <1>1. a + n - 1 \in Int
    OBVIOUS
  <1>2. IsFiniteSet(a .. a + n - 1) /\ Cardinality(a .. a + n - 1) = n
    BY <1>1, FS_Interval
  <1>3. S \cap (a .. a + n - 1) = {}
    OBVIOUS
  <1>4. Cardinality({}) = 0
    BY FS_EmptySet
  <1>5. Cardinality(S) \in Nat
    BY FS_CardinalityType
  <1> DEFINE I == a .. a + n - 1
  <1>6. IsFiniteSet(I) /\ Cardinality(I) = n /\ S \cap I = {}
    BY <1>2, <1>3
  <1> HIDE DEF I
  <1>7. /\ IsFiniteSet(S \cup I)
        /\ Cardinality(S \cup I) = Cardinality(S) + Cardinality(I) - Cardinality(S \cap I)
    BY <1>6, FS_Union
  <1>8. IsFiniteSet(S \cup I) /\ Cardinality(S \cup I) = Cardinality(S) + n
    <2>1. S \cap I = {}
      BY <1>6
    <2>2. Cardinality(S \cap I) = 0
      BY <1>4, <2>1, Zenon
    <2> QED BY <1>5, <1>6, <1>7, <2>2
  <1> QED BY <1>8 DEF I

LEMMA CountSub ==
    ASSUME NEW S, IsFiniteSet(S), NEW a \in Int, NEW n \in Nat, a .. a + n - 1 \subseteq S
    PROVE  /\ IsFiniteSet(S \ (a .. a + n - 1))
           /\ Cardinality(S \ (a .. a + n - 1)) = Cardinality(S) - n
  <1>1. a + n - 1 \in Int
    OBVIOUS
  <1>2. Cardinality(a .. a + n - 1) = n
    BY <1>1, FS_Interval
  <1>3. S \cap (a .. a + n - 1) = a .. a + n - 1
    OBVIOUS
  <1> DEFINE I == a .. a + n - 1
  <1>4. Cardinality(I) = n /\ S \cap I = I
    BY <1>2, <1>3
  <1> HIDE DEF I
  <1>5. /\ IsFiniteSet(S \ I)
        /\ Cardinality(S \ I) = Cardinality(S) - Cardinality(S \cap I)
    BY FS_Difference
  <1>6. IsFiniteSet(S \ I) /\ Cardinality(S \ I) = Cardinality(S) - n
    BY <1>4, <1>5
  <1> QED BY <1>6 DEF I

LEMMA CeilIs ==
    ASSUME NEW n \in Nat
    PROVE  Ceil(n) \in Nat /\ Ceil(n) >= n /\ Ceil(n) % Page = 0
  <1> DEFINE w == n + Page - 1
             q == w \div Page
  <1>1. Page \in Nat /\ Page > 0 /\ w \in Nat
    BY HeapAssumption
  <1>2. q \in Nat /\ w % Page \in Nat /\ w % Page < Page /\ w = Page * q + (w % Page)
    BY <1>1
  <1>3. Page * q \in Nat /\ q * Page = Page * q
    BY <1>1, <1>2
  <1>4. q * Page \in Nat /\ q * Page >= n
    BY <1>1, <1>2, <1>3
  <1>5. (q * Page) % Page = 0
    BY <1>1, <1>2
  <1> QED BY <1>4, <1>5 DEF Ceil

LEMMA LIdxIs == ASSUME NEW s \in Nat PROVE LIdx(s) \in 0..31 /\ Largest(LIdx(s)) \in Int
  <1> DEFINE x == s \div BinBase
             S == {k \in 1 .. 15 : 2 ^ k <= x}
  <1>1. IsFiniteSet(1..15) /\ Cardinality(1..15) = 15
    <2>1. 1 \in Int /\ 15 \in Int
      OBVIOUS
    <2>2. IsFiniteSet(1..15) /\ Cardinality(1..15) = IF 1 > 15 THEN 0 ELSE 15 - 1 + 1
      BY <2>1, FS_Interval
    <2> QED BY <2>2
  <1>2. IsFiniteSet(S) /\ Cardinality(S) <= 15
    BY <1>1, FS_Subset
  <1>3. Log2(x) \in 0..15
    BY <1>2, FS_CardinalityType DEF Log2
  <1>4. LIdx(s) \in 0..31
    BY <1>3 DEF LIdx
  <1>5. \A i \in 0..30 : Lookup[i + 1] \in Nat
    BY DEF Lookup
  <1>6. BinBase \in Nat
    BY HeapAssumption
  <1>7. ASSUME NEW i \in 0..30 PROVE (Lookup[i + 1] * BinBase) \div 2 - 1 \in Int
    BY <1>5, <1>6
  <1> QED BY <1>4, <1>7 DEF Largest

(* What the operations do to the chunks                                    *)

Hdr(s, b, u, p) == [size |-> s, heap |-> b, cused |-> u, pused |-> p]

\* Chunk c is cut at k units; what is behind is free
Divide(K, c, k) ==
    [d \in DOMAIN K \cup {c + k} |->
        IF d = c THEN Hdr(k, K[c].heap, K[c].cused, K[c].pused)
        ELSE IF d = c + k THEN Hdr(K[c].size - k, K[c].heap, FALSE, K[c].cused)
        ELSE K[d]]
\* Chunk c swallows the chunk d behind it
Unite(K, c, d) ==
    [e \in DOMAIN K \ {d} |->
        IF e = c THEN Hdr(K[c].size + K[d].size, K[c].heap, K[c].cused, K[c].pused) ELSE K[e]]
\* Chunk c is used or not, and the chunk behind it knows
Mark(K, c, u) ==
    [d \in DOMAIN K |->
        IF d = c THEN Hdr(K[c].size, K[c].heap, u, K[c].pused)
        ELSE IF d = c + K[c].size THEN Hdr(K[d].size, K[d].heap, K[d].cused, u)
        ELSE K[d]]

LEMMA ChunkIs ==
    ASSUME NEW K, AreChunks(K), NEW c \in DOMAIN K
    PROVE  /\ c \in Nat /\ K[c] \in Chunk
           /\ K[c].size \in Nat /\ K[c].heap \in Nat
           /\ K[c].cused \in BOOLEAN /\ K[c].pused \in BOOLEAN
           /\ K[c] = Hdr(K[c].size, K[c].heap, K[c].cused, K[c].pused)
  <1>1. c \in Nat /\ K[c] \in Chunk
    BY DEF AreChunks
  <1> QED BY <1>1 DEF Chunk, Hdr

LEMMA HdrIs ==
    ASSUME NEW s \in Nat, NEW b \in Nat, NEW u \in BOOLEAN, NEW p \in BOOLEAN
    PROVE  /\ Hdr(s, b, u, p) \in Chunk
           /\ Hdr(s, b, u, p).size = s /\ Hdr(s, b, u, p).heap = b
           /\ Hdr(s, b, u, p).cused = u /\ Hdr(s, b, u, p).pused = p
BY DEF Hdr, Chunk

\* The chunk c cut k units on, at n
Divided(K, c, k, n, D) ==
    /\ AreChunks(D) /\ DOMAIN D = DOMAIN K \cup {n} /\ n \notin DOMAIN K
    /\ D[c].size = k /\ D[c].heap = K[c].heap
    /\ D[c].cused = K[c].cused /\ D[c].pused = K[c].pused
    /\ D[n].size = K[c].size - k /\ D[n].heap = K[c].heap
    /\ ~ D[n].cused /\ D[n].pused = K[c].cused
    /\ \A e \in DOMAIN K : e # c => D[e] = K[e]

LEMMA DivideIs ==
    ASSUME NEW K, AreChunks(K), InOrder(K), NEW c \in DOMAIN K, NEW k \in Nat,
           Overhead <= k, k + Overhead <= K[c].size,
           NEW D, D = Divide(K, c, k), NEW n, n = c + k
    PROVE  Divided(K, c, k, n, D)
  <1>1. c \in Nat /\ K[c] \in Chunk /\ K[c].size \in Nat /\ K[c].heap \in Nat
        /\ K[c].cused \in BOOLEAN /\ K[c].pused \in BOOLEAN
    BY ChunkIs
  <1>2. c + k \in Nat /\ c < c + k /\ K[c].size - k \in Nat /\ c + k < c + K[c].size
    BY <1>1 DEF Overhead
  <1>3. c + k \notin DOMAIN K
    BY <1>1, <1>2 DEF InOrder
  <1>4. DOMAIN D = DOMAIN K \cup {c + k}
    BY DEF Divide
  <1>5. D[c] = Hdr(k, K[c].heap, K[c].cused, K[c].pused)
    BY DEF Divide
  <1>6. D[c + k] = Hdr(K[c].size - k, K[c].heap, FALSE, K[c].cused)
    <2> DEFINE x == c + k
    <2>1. x # c
      BY <1>1, <1>2
    <2> HIDE DEF x
    <2>2. [d \in DOMAIN K \cup {x} |->
             IF d = c THEN Hdr(k, K[c].heap, K[c].cused, K[c].pused)
             ELSE IF d = x THEN Hdr(K[c].size - k, K[c].heap, FALSE, K[c].cused)
             ELSE K[d]][x] = Hdr(K[c].size - k, K[c].heap, FALSE, K[c].cused)
      BY <2>1
    <2> QED BY <2>2 DEF x, Divide
  <1>7. \A e \in DOMAIN K : e # c => D[e] = K[e]
    BY <1>3 DEF Divide
  <1>8. D[c] \in Chunk /\ D[c + k] \in Chunk
    <2>1. D[c] \in Chunk
      BY <1>1, <1>5, HdrIs
    <2>2. FALSE \in BOOLEAN /\ K[c].size - k \in Nat
      BY <1>2
    <2>3. Hdr(K[c].size - k, K[c].heap, FALSE, K[c].cused) \in Chunk
      BY <1>1, <2>2, HdrIs, Zenon
    <2> QED BY <1>6, <2>1, <2>3
  <1>9. \A e \in DOMAIN K : e \in Nat /\ K[e] \in Chunk
    BY ChunkIs
  <1>10. AreChunks(D)
    <2>1. DOMAIN D \subseteq Nat
      BY <1>2, <1>4, <1>9
    <2>2. \A e \in DOMAIN D : D[e] \in Chunk
      BY <1>4, <1>7, <1>8, <1>9
    <2>3. D \in [DOMAIN D -> Chunk]
      BY <2>2 DEF Divide
    <2> QED BY <2>1, <2>3 DEF AreChunks
  <1>11. /\ D[c].size = k /\ D[c].heap = K[c].heap
         /\ D[c].cused = K[c].cused /\ D[c].pused = K[c].pused
    BY <1>1, <1>5, HdrIs
  <1>12. /\ D[c + k].size = K[c].size - k /\ D[c + k].heap = K[c].heap
         /\ ~ D[c + k].cused /\ D[c + k].pused = K[c].cused
    <2> DEFINE H == Hdr(K[c].size - k, K[c].heap, FALSE, K[c].cused)
    <2>2. /\ H.size = K[c].size - k /\ H.heap = K[c].heap
          /\ ~ H.cused /\ H.pused = K[c].cused
      BY DEF Hdr
    <2> HIDE DEF H
    <2>3. D[c + k] = H
      BY <1>6 DEF H
    <2> QED BY <2>2, <2>3
  <1>13. /\ AreChunks(D) /\ DOMAIN D = DOMAIN K \cup {c + k} /\ c + k \notin DOMAIN K
         /\ \A e \in DOMAIN K : e # c => D[e] = K[e]
    BY <1>3, <1>4, <1>7, <1>10
  <1> QED BY <1>11, <1>12, <1>13 DEF Divided

LEMMA DivideGrid ==
    ASSUME NEW Z, NEW K, Grid(Z, K), \A b \in DOMAIN Z : b \in Nat /\ Z[b] \in Nat,
           NEW c \in DOMAIN K, NEW k \in Nat,
           Overhead <= k, k + Overhead <= K[c].size
    PROVE  Grid(Z, Divide(K, c, k))
  <1> DEFINE D == Divide(K, c, k)
             n == c + k
  <1>1. AreChunks(K) /\ InOrder(K)
    BY DEF Grid
  <1>2. /\ AreChunks(D) /\ DOMAIN D = DOMAIN K \cup {n} /\ n \notin DOMAIN K
        /\ D[c].size = k /\ D[c].heap = K[c].heap
        /\ D[n].size = K[c].size - k /\ D[n].heap = K[c].heap
        /\ \A e \in DOMAIN K : e # c => D[e] = K[e]
    <2>1. Divided(K, c, k, n, D)
      BY <1>1, DivideIs
    <2> QED BY <2>1 DEF Divided
  <1>3. \A e \in DOMAIN K : e \in Nat /\ K[e].size \in Nat /\ K[e].heap \in Nat
    BY <1>1, ChunkIs
  <1>4. n \in Nat /\ n = c + k /\ c < n /\ n + (K[c].size - k) = c + K[c].size /\ n < c + K[c].size
    BY <1>3 DEF Overhead
  <1> HIDE DEF D, n
  <1>5. \A e \in DOMAIN K : K[e].size >= Overhead
    BY DEF Grid, Lies
  <1>6. InOrder(D)
    <2> SUFFICES ASSUME NEW d \in DOMAIN D, NEW e \in DOMAIN D, d < e PROVE d + D[d].size <= e
      BY DEF InOrder
    <2>1. CASE d = n
      <3>1. e \in DOMAIN K /\ e # c /\ c < e
        BY <1>2, <1>3, <1>4, <2>1
      <3>2. c + K[c].size <= e
        BY <1>1, <3>1 DEF InOrder
      <3> QED BY <1>2, <1>3, <1>4, <2>1, <3>2
    <2>2. CASE d = c /\ e # n
      <3>1. e \in DOMAIN K
        BY <1>2, <2>2
      <3>2. c + K[c].size <= e
        BY <1>1, <2>2, <3>1 DEF InOrder
      <3> QED BY <1>2, <1>3, <1>4, <2>2, <3>1, <3>2
    <2>3. CASE d = c /\ e = n
      BY <1>2, <1>3, <1>4, <2>3
    <2>4. CASE d # c /\ d # n /\ e # n
      <3>1. d \in DOMAIN K /\ e \in DOMAIN K
        BY <1>2, <2>4
      <3> QED BY <1>1, <1>2, <2>4, <3>1 DEF InOrder
    <2>5. CASE d # c /\ d # n /\ e = n
      <3>1. d \in DOMAIN K /\ D[d] = K[d] /\ d \in Nat /\ K[d].size \in Nat
        BY <1>2, <1>3, <2>5
      <3>2. d < c
        <4>1. ~ (c < d)
          <5>1. ASSUME c < d PROVE FALSE
            <6>1. c + K[c].size <= d
              BY <1>1, <3>1, <5>1 DEF InOrder
            <6> QED BY <1>3, <1>4, <2>5, <3>1, <6>1
          <5> QED BY <5>1
        <4> QED BY <1>3, <2>5, <3>1, <4>1
      <3>3. d + K[d].size <= c
        BY <1>1, <3>1, <3>2 DEF InOrder
      <3> QED BY <1>3, <1>4, <2>5, <3>1, <3>3
    <2> QED BY <2>1, <2>2, <2>3, <2>4, <2>5
  <1>7. ASSUME NEW e \in DOMAIN D PROVE Lies(Z, D, e)
    <2>0. Lies(Z, K, c)
      BY DEF Grid
    <2>1. CASE e = n
      <3>1. e + D[e].size = c + K[c].size /\ D[e].heap = K[c].heap
        BY <1>2, <1>4, <2>1
      <3>2. D[e].size >= Overhead
        BY <1>2, <1>3, <2>1 DEF Overhead
      <3>3. K[c].heap + Header <= e
        BY <1>3, <1>4, <2>0, <2>1 DEF Lies, Header
      <3>4. c + K[c].size \in DOMAIN K => c + K[c].size \in DOMAIN D /\ D[c + K[c].size] = K[c + K[c].size]
        BY <1>2, <1>3, <1>4
      <3>5. c \in DOMAIN D /\ D[c].heap = K[c].heap /\ c + D[c].size = e
        BY <1>2, <1>4, <2>1
      <3> QED BY <2>0, <3>1, <3>2, <3>3, <3>4, <3>5 DEF Lies
    <2>2. CASE e = c
      <3>1. e + D[e].size = n /\ D[e].heap = K[c].heap /\ n \in DOMAIN D /\ D[n].heap = K[c].heap
        BY <1>2, <1>4, <2>2
      <3>2. D[e].size >= Overhead
        BY <1>2, <2>2
      <3>3. n <= K[c].heap + Z[K[c].heap]
        BY <1>3, <1>4, <2>0 DEF Lies
      <3>4. c = K[c].heap + Header \/ \E d \in DOMAIN D : D[d].heap = K[c].heap /\ d + D[d].size = c
        <4>1. CASE c = K[c].heap + Header
          BY <4>1
        <4>2. CASE c # K[c].heap + Header
          <5>1. PICK d \in DOMAIN K : K[d].heap = K[c].heap /\ d + K[d].size = c
            BY <2>0, <4>2 DEF Lies
          <5>2. d # c
            BY <1>3, <1>5, <5>1 DEF Overhead
          <5> QED BY <1>2, <5>1, <5>2
        <4> QED BY <4>1, <4>2
      <3> QED BY <2>0, <2>2, <3>1, <3>2, <3>3, <3>4 DEF Lies
    <2>3. CASE e # c /\ e # n
      <3>1. e \in DOMAIN K /\ D[e] = K[e]
        BY <1>2, <2>3
      <3>2. Lies(Z, K, e)
        BY <3>1 DEF Grid
      <3> DEFINE f == e + K[e].size
      <3>3. f \in DOMAIN K => f \in DOMAIN D /\ D[f].heap = K[f].heap
        BY <1>2
      <3>4. e = K[e].heap + Header \/ \E d \in DOMAIN D : D[d].heap = K[e].heap /\ d + D[d].size = e
        <4>1. CASE e = K[e].heap + Header
          BY <4>1
        <4>2. CASE e # K[e].heap + Header
          <5>1. PICK d \in DOMAIN K : K[d].heap = K[e].heap /\ d + K[d].size = e
            BY <3>2, <4>2 DEF Lies
          <5>2. CASE d # c
            BY <1>2, <5>1, <5>2
          <5>3. CASE d = c
            <6>1. n \in DOMAIN D /\ D[n].heap = K[e].heap /\ n + D[n].size = e
              BY <1>2, <1>4, <5>1, <5>3
            <6> QED BY <6>1
          <5> QED BY <5>2, <5>3
        <4> QED BY <4>1, <4>2
      <3> QED BY <3>1, <3>2, <3>3, <3>4 DEF Lies
    <2> QED BY <2>1, <2>2, <2>3
  <1>8. ASSUME NEW b \in DOMAIN Z PROVE b + Header \in DOMAIN D /\ D[b + Header].heap = b
    BY <1>2 DEF Grid
  <1>9. Grid(Z, D)
    BY <1>2, <1>6, <1>7, <1>8 DEF Grid
  <1> QED BY <1>9 DEF D

LEMMA DivideFlags ==
    ASSUME NEW Z, NEW K, Grid(Z, K), NEW c \in DOMAIN K, NEW k \in Nat,
           Overhead <= k, k + Overhead <= K[c].size,
           NEW D, D = Divide(K, c, k), NEW n, n = c + k
    PROVE  /\ Flags(Z, K, {}) => Flags(Z, D, {n})
           /\ Flags(Z, K, {}) /\ ~ K[c].cused => Flags(Z, D, {})
           /\ NotBoth(K, {}) /\ ~ K[c].cused => NotBoth(D, {c})
           /\ NotBoth(K, {}) => NotBoth(D, {c, n})
           /\ NotBoth(K, {}) /\ K[c].cused => NotBoth(D, {n})
  <1>1. AreChunks(K) /\ InOrder(K)
    BY DEF Grid
  <1>2. /\ AreChunks(D) /\ DOMAIN D = DOMAIN K \cup {n} /\ n \notin DOMAIN K
        /\ D[c].size = k /\ D[c].cused = K[c].cused /\ D[c].pused = K[c].pused
        /\ D[n].size = K[c].size - k /\ ~ D[n].cused /\ D[n].pused = K[c].cused
        /\ \A e \in DOMAIN K : e # c => D[e] = K[e]
    <2>1. Divided(K, c, k, n, D)
      BY <1>1, DivideIs
    <2> QED BY <2>1 DEF Divided
  <1>3. \A e \in DOMAIN K : e \in Nat /\ K[e].size \in Nat
    BY <1>1, ChunkIs
  <1>4. n \in Nat /\ c < n /\ n + (K[c].size - k) = c + K[c].size /\ n < c + K[c].size
    BY <1>3 DEF Overhead
  <1>5. \A e \in DOMAIN K : K[e].size >= Overhead
    BY DEF Grid, Lies
  \* Who is behind whom
  <1>6. ASSUME NEW d, NEW e, Behind(D, d, e)
        PROVE  \/ d = c /\ e = n
               \/ d = n /\ Behind(K, c, e) /\ e # c
               \/ d # c /\ d # n /\ e # n /\ Behind(K, d, e)
    <2>1. d \in DOMAIN D /\ e \in DOMAIN D /\ e = d + D[d].size
      BY <1>6 DEF Behind
    <2>2. CASE d = c
      BY <1>2, <2>1, <2>2
    <2>3. CASE d = n
      BY <1>2, <1>3, <1>4, <2>1, <2>3 DEF Behind
    <2>4. CASE d # c /\ d # n
      <3>1. d \in DOMAIN K /\ D[d] = K[d] /\ e = d + K[d].size /\ d \in Nat /\ K[d].size \in Nat
        BY <1>2, <1>3, <2>1, <2>4
      <3>2. e # n
        <4>1. CASE c < d
          <5>1. c + K[c].size <= d
            BY <1>1, <3>1, <4>1 DEF InOrder
          <5> QED BY <1>3, <1>4, <3>1, <5>1
        <4>2. CASE d < c
          <5>1. d + K[d].size <= c
            BY <1>1, <3>1, <4>2 DEF InOrder
          <5> QED BY <1>3, <1>4, <3>1, <5>1
        <4> QED BY <1>3, <2>4, <3>1, <4>1, <4>2
      <3> QED BY <1>2, <2>1, <2>4, <3>1, <3>2 DEF Behind
    <2> QED BY <2>2, <2>3, <2>4
  <1>7. ASSUME Flags(Z, K, {}), NEW b \in DOMAIN Z PROVE D[b + Header].pused
    <2>1. b + Header \in DOMAIN K /\ K[b + Header].pused
      BY <1>7 DEF Flags, Grid
    <2> QED BY <1>2, <2>1
  <1>8. ASSUME Flags(Z, K, {}), NEW d, NEW e, Behind(D, d, e), d # n \/ ~ K[c].cused
        PROVE  D[e].pused = D[d].cused
    <2>1. CASE d = c /\ e = n
      BY <1>2, <2>1
    <2>2. CASE d = n /\ Behind(K, c, e) /\ e # c
      <3>1. K[e].pused = K[c].cused /\ e \in DOMAIN K
        BY <1>8, <2>2 DEF Flags, Behind
      <3>2. D[e] = K[e] /\ ~ K[c].cused /\ ~ D[n].cused
        BY <1>2, <1>8, <2>2, <3>1
      <3>3. K[e].pused \in BOOLEAN /\ D[n].cused \in BOOLEAN /\ K[c].cused \in BOOLEAN
        BY <1>1, <1>2, <3>1, ChunkIs
      <3>4. D[e].pused = K[c].cused
        BY <3>1, <3>2
      <3>5. K[c].cused = D[n].cused
        BY <3>2, <3>3
      <3> QED BY <2>2, <3>4, <3>5
    <2>3. CASE d # c /\ d # n /\ e # n /\ Behind(K, d, e)
      <3>1. K[e].pused = K[d].cused /\ e \in DOMAIN K /\ d \in DOMAIN K
        BY <1>8, <2>3 DEF Flags, Behind
      <3> QED BY <1>2, <2>3, <3>1
    <2> QED BY <1>6, <1>8, <2>1, <2>2, <2>3
  <1>9. ASSUME NotBoth(K, {}), NEW d, NEW e, Behind(D, d, e), ~ (d = c /\ e = n), d # n \/ ~ K[c].cused
        PROVE  D[d].cused \/ D[e].cused
    <2>2. CASE d = n /\ Behind(K, c, e) /\ e # c
      <3>1. (K[c].cused \/ K[e].cused) /\ e \in DOMAIN K
        BY <1>9, <2>2 DEF NotBoth, Behind
      <3> QED BY <1>2, <1>9, <2>2, <3>1
    <2>3. CASE d # c /\ d # n /\ e # n /\ Behind(K, d, e)
      <3>1. (K[d].cused \/ K[e].cused) /\ e \in DOMAIN K /\ d \in DOMAIN K
        BY <1>9, <2>3 DEF NotBoth, Behind
      <3> QED BY <1>2, <2>3, <3>1
    <2> QED BY <1>6, <1>9, <2>2, <2>3
  <1>10. Flags(Z, K, {}) => Flags(Z, D, {n})
    BY <1>7, <1>8 DEF Flags
  <1>11. Flags(Z, K, {}) /\ ~ K[c].cused => Flags(Z, D, {})
    BY <1>7, <1>8 DEF Flags
  <1>12. NotBoth(K, {}) /\ ~ K[c].cused => NotBoth(D, {c})
    BY <1>9 DEF NotBoth
  <1>13. NotBoth(K, {}) => NotBoth(D, {c, n})
    BY <1>9 DEF NotBoth
  <1>14. NotBoth(K, {}) /\ K[c].cused => NotBoth(D, {n})
    BY <1>9 DEF NotBoth
  <1> QED BY <1>10, <1>11, <1>12, <1>13, <1>14

LEMMA DivideUnits ==
    ASSUME NEW K, AreChunks(K), InOrder(K), NEW c \in DOMAIN K, NEW k \in Nat,
           Overhead <= k, k + Overhead <= K[c].size,
           NEW D, D = Divide(K, c, k), NEW n, n = c + k
    PROVE  /\ ~ K[c].cused => \A b : FreeUnits(D, b) = FreeUnits(K, b)
           /\ K[c].cused => \A b : FreeUnits(D, b) = FreeUnits(K, b) \cup
                                IF b = K[c].heap THEN Area(n, D[n].size) ELSE {}
           /\ FreeChunks(D) = FreeChunks(K) \cup {n}
           /\ \A P \in SUBSET Nat :
                  /\ Clear(K, P)
                  /\ K[c].cused => \A u \in P : ~ (n <= u /\ u < c + K[c].size)
                  => Clear(D, P)
           /\ \A F, X : Feet(K, F, X) => Feet(D, F, X \cup {c, n})
           /\ \A X : AtLeast(K, X) /\ (MinSize <= k \/ c \in X) /\ k + MinSize <= K[c].size
                  => AtLeast(D, X)
           /\ ~ K[c].cused => Used(D) = Used(K)
           /\ K[c].cused => Used(D) = Updated(Used(K), c, k)
  <1>2. /\ AreChunks(D) /\ DOMAIN D = DOMAIN K \cup {n} /\ n \notin DOMAIN K
        /\ D[c].size = k /\ D[c].heap = K[c].heap /\ D[c].cused = K[c].cused
        /\ D[n].size = K[c].size - k /\ ~ D[n].cused /\ D[n].heap = K[c].heap
        /\ \A e \in DOMAIN K : e # c => D[e] = K[e]
    <2>1. Divided(K, c, k, n, D)
      BY DivideIs
    <2> QED BY <2>1 DEF Divided
  <1>3. \A e \in DOMAIN K : e \in Nat /\ K[e].size \in Nat
    BY ChunkIs
  <1>4. n \in Nat /\ n = c + k /\ c < n /\ n + (K[c].size - k) = c + K[c].size /\ n + 1 < c + K[c].size
    BY <1>3 DEF Overhead
  <1>5. ASSUME ~ K[c].cused, NEW b PROVE FreeUnits(D, b) = FreeUnits(K, b)
    <2>1. ASSUME NEW u \in FreeUnits(D, b) PROVE u \in FreeUnits(K, b)
      <3>1. PICK e \in DOMAIN D : D[e].heap = b /\ ~ D[e].cused /\ e <= u /\ u < e + D[e].size
        BY DEF FreeUnits
      <3>2. u \in Nat
        BY DEF FreeUnits
      <3>3. CASE e = n \/ e = c
        <4>1. K[c].heap = b /\ c <= u /\ u < c + K[c].size
          BY <1>2, <1>3, <1>4, <3>1, <3>2, <3>3
        <4> QED BY <1>5, <3>2, <4>1 DEF FreeUnits
      <3>4. CASE e # n /\ e # c
        BY <1>2, <3>1, <3>2, <3>4 DEF FreeUnits
      <3> QED BY <3>3, <3>4
    <2>2. ASSUME NEW u \in FreeUnits(K, b) PROVE u \in FreeUnits(D, b)
      <3>1. PICK e \in DOMAIN K : K[e].heap = b /\ ~ K[e].cused /\ e <= u /\ u < e + K[e].size
        BY DEF FreeUnits
      <3>2. u \in Nat
        BY DEF FreeUnits
      <3>3. CASE e = c
        <4>1. CASE u < n
          <5>1. c \in DOMAIN D /\ D[c].heap = b /\ ~ D[c].cused /\ c <= u /\ u < c + D[c].size
            BY <1>2, <1>4, <3>1, <3>3, <4>1
          <5> QED BY <3>2, <5>1 DEF FreeUnits
        <4>2. CASE ~ (u < n)
          <5>1. n \in DOMAIN D /\ D[n].heap = b /\ ~ D[n].cused /\ n <= u /\ u < n + D[n].size
            BY <1>2, <1>4, <3>1, <3>2, <3>3, <4>2
          <5> QED BY <3>2, <5>1 DEF FreeUnits
        <4> QED BY <4>1, <4>2
      <3>4. CASE e # c
        <4>1. e \in DOMAIN D /\ D[e] = K[e]
          BY <1>2, <3>4
        <4> QED BY <3>1, <3>2, <4>1 DEF FreeUnits
      <3> QED BY <3>3, <3>4
    <2> QED BY <2>1, <2>2
  <1>6. ASSUME K[c].cused, NEW b
        PROVE  FreeUnits(D, b) = FreeUnits(K, b) \cup
                    IF b = K[c].heap THEN Area(n, D[n].size) ELSE {}
    <2> DEFINE I == IF b = K[c].heap THEN Area(n, D[n].size) ELSE {}
    <2>1. ASSUME NEW u \in FreeUnits(D, b) PROVE u \in FreeUnits(K, b) \cup I
      <3>1. PICK e \in DOMAIN D : D[e].heap = b /\ ~ D[e].cused /\ e <= u /\ u < e + D[e].size
        BY DEF FreeUnits
      <3>2. u \in Nat
        BY DEF FreeUnits
      <3>3. CASE e = n
        BY <1>2, <1>3, <1>4, <3>1, <3>2, <3>3 DEF Area
      <3>4. CASE e # n
        <4>1. e # c /\ e \in DOMAIN K /\ D[e] = K[e]
          BY <1>2, <1>6, <3>1, <3>4
        <4> QED BY <3>1, <3>2, <4>1 DEF FreeUnits
      <3> QED BY <3>3, <3>4
    <2>2. ASSUME NEW u \in FreeUnits(K, b) PROVE u \in FreeUnits(D, b)
      <3>1. PICK e \in DOMAIN K : K[e].heap = b /\ ~ K[e].cused /\ e <= u /\ u < e + K[e].size
        BY DEF FreeUnits
      <3>2. u \in Nat
        BY DEF FreeUnits
      <3>3. e # c /\ e \in DOMAIN D /\ D[e] = K[e]
        BY <1>2, <1>6, <3>1
      <3> QED BY <3>1, <3>2, <3>3 DEF FreeUnits
    <2>3. ASSUME NEW u \in I PROVE u \in FreeUnits(D, b)
      <3>1. b = K[c].heap /\ u \in Area(n, D[n].size)
        BY <2>3
      <3>2. u \in Nat /\ n <= u /\ u < n + D[n].size
        BY <1>2, <1>3, <1>4, <3>1 DEF Area
      <3> QED BY <1>2, <3>1, <3>2 DEF FreeUnits
    <2> QED BY <2>1, <2>2, <2>3
  <1>7. FreeChunks(D) = FreeChunks(K) \cup {n}
    BY <1>2 DEF FreeChunks
  <1>8. ASSUME NEW P \in SUBSET Nat, Clear(K, P),
               K[c].cused => \A u \in P : ~ (n <= u /\ u < c + K[c].size)
        PROVE  Clear(D, P)
    <2>1. \A u \in P : ~ (n <= u /\ u < c + K[c].size)
      <3>1. ASSUME ~ K[c].cused, NEW u \in P, n <= u, u < c + K[c].size PROVE FALSE
        <4>1. ~ (c <= u /\ u < c + K[c].size)
          BY <1>8, <3>1 DEF Clear
        <4>2. u \in Nat
          BY <1>8, <3>1
        <4> QED BY <1>3, <1>4, <3>1, <4>1, <4>2
      <3> QED BY <1>8, <3>1
    <2>2. \A e \in DOMAIN K : e \notin P /\ e + 1 \notin P
      BY <1>8 DEF Clear
    <2> SUFFICES ASSUME NEW e \in DOMAIN D
                 PROVE  /\ e \notin P /\ e + 1 \notin P
                        /\ ~ D[e].cused => \A u \in P : ~ (e <= u /\ u < e + D[e].size)
      BY DEF Clear
    <2>3. CASE e = n
      <3>1. n \notin P /\ n + 1 \notin P
        BY <1>3, <1>4, <2>1
      <3>2. \A u \in P : ~ (n <= u /\ u < n + D[n].size)
        BY <1>2, <1>4, <2>1
      <3> QED BY <2>3, <3>1, <3>2
    <2>4. CASE e = c
      <3>1. ASSUME ~ D[c].cused, NEW u \in P, c <= u, u < c + k PROVE FALSE
        <4>1. ~ (c <= u /\ u < c + K[c].size)
          BY <1>2, <1>8, <3>1 DEF Clear
        <4>2. u \in Nat /\ K[c].size \in Nat
          BY <1>3, <1>8, <3>1
        <4> QED BY <1>4, <3>1, <4>1, <4>2 DEF Overhead
      <3>2. ~ D[c].cused => \A u \in P : ~ (c <= u /\ u < c + D[c].size)
        BY <1>2, <3>1
      <3> QED BY <2>2, <2>4, <3>2
    <2>5. CASE e # n /\ e # c
      <3>1. e \in DOMAIN K /\ D[e] = K[e]
        BY <1>2, <2>5
      <3> QED BY <1>8, <3>1 DEF Clear
    <2> QED BY <2>3, <2>4, <2>5
  <1>9. ASSUME NEW F, NEW X, Feet(K, F, X) PROVE Feet(D, F, X \cup {c, n})
    BY <1>2, <1>9 DEF Feet
  <1>10. ASSUME NEW X, AtLeast(K, X), MinSize <= k \/ c \in X, k + MinSize <= K[c].size
         PROVE  AtLeast(D, X)
    <2>1. D[n].size >= MinSize
      BY <1>2, <1>3, <1>10 DEF MinSize
    <2>2. c \notin X => D[c].size >= MinSize
      BY <1>2, <1>10
    <2>3. \A e \in DOMAIN K \ X : e # c => D[e].size >= MinSize
      BY <1>2, <1>10 DEF AtLeast
    <2> QED BY <1>2, <2>1, <2>2, <2>3 DEF AtLeast
  <1>11. {d \in DOMAIN D : D[d].cused} = {d \in DOMAIN K : K[d].cused}
    BY <1>2
  <1>12. ~ K[c].cused => Used(D) = Used(K)
    BY <1>2, <1>11 DEF Used
  <1>13. ASSUME K[c].cused PROVE Used(D) = Updated(Used(K), c, k)
    BY <1>2, <1>11, <1>13 DEF Used, Updated
  <1> QED BY <1>5, <1>6, <1>7, <1>8, <1>9, <1>10, <1>12, <1>13

LEMMA UniteIs ==
    ASSUME NEW K, AreChunks(K), InOrder(K), NEW c \in DOMAIN K, NEW d \in DOMAIN K,
           d = c + K[c].size, c < d, NEW U, U = Unite(K, c, d)
    PROVE  /\ AreChunks(U) /\ DOMAIN U = DOMAIN K \ {d} /\ c \in DOMAIN U
           /\ U[c].size = K[c].size + K[d].size /\ U[c].heap = K[c].heap
           /\ U[c].cused = K[c].cused /\ U[c].pused = K[c].pused
           /\ \A e \in DOMAIN K : e # c /\ e # d => U[e] = K[e]
  <1>1. /\ K[c].size \in Nat /\ K[c].heap \in Nat
        /\ K[c].cused \in BOOLEAN /\ K[c].pused \in BOOLEAN
        /\ K[d].size \in Nat /\ c \in Nat
    BY ChunkIs
  <1>2. DOMAIN U = DOMAIN K \ {d} /\ c \in DOMAIN U
    <2>1. c # d
      BY <1>1
    <2> QED BY <2>1 DEF Unite
  <1>3. U[c] = Hdr(K[c].size + K[d].size, K[c].heap, K[c].cused, K[c].pused)
    BY <1>2 DEF Unite
  <1>4. \A e \in DOMAIN K : e # c /\ e # d => U[e] = K[e]
    BY DEF Unite
  <1>5. K[c].size + K[d].size \in Nat
    BY <1>1
  <1>6. /\ U[c] \in Chunk
        /\ U[c].size = K[c].size + K[d].size /\ U[c].heap = K[c].heap
        /\ U[c].cused = K[c].cused /\ U[c].pused = K[c].pused
    <2> DEFINE s == K[c].size + K[d].size
    <2>1. s \in Nat
      BY <1>5
    <2> HIDE DEF s
    <2>2. /\ Hdr(s, K[c].heap, K[c].cused, K[c].pused) \in Chunk
          /\ Hdr(s, K[c].heap, K[c].cused, K[c].pused).size = s
          /\ Hdr(s, K[c].heap, K[c].cused, K[c].pused).heap = K[c].heap
          /\ Hdr(s, K[c].heap, K[c].cused, K[c].pused).cused = K[c].cused
          /\ Hdr(s, K[c].heap, K[c].cused, K[c].pused).pused = K[c].pused
      BY <1>1, <2>1, HdrIs
    <2>3. U[c] = Hdr(s, K[c].heap, K[c].cused, K[c].pused)
      BY <1>3 DEF s
    <2>4. U[c].size = s
      BY <2>2, <2>3
    <2> QED BY <2>2, <2>3, <2>4 DEF s
  <1>7. \A e \in DOMAIN K : e \in Nat /\ K[e] \in Chunk
    BY ChunkIs
  <1>8. AreChunks(U)
    <2>1. DOMAIN U \subseteq Nat
      BY <1>2, <1>7
    <2>2. \A e \in DOMAIN U : U[e] \in Chunk
      BY <1>2, <1>4, <1>6, <1>7
    <2>3. U \in [DOMAIN U -> Chunk]
      BY <2>2 DEF Unite
    <2> QED BY <2>1, <2>3 DEF AreChunks
  <1> QED BY <1>2, <1>4, <1>6, <1>8

LEMMA UniteGrid ==
    ASSUME NEW Z, NEW K, Grid(Z, K), NEW c \in DOMAIN K, NEW d \in DOMAIN K,
           d = c + K[c].size, K[d].heap = K[c].heap, NEW U, U = Unite(K, c, d)
    PROVE  Grid(Z, U)
  <1>1. AreChunks(K) /\ InOrder(K)
    BY DEF Grid
  <1>2. \A e \in DOMAIN K : e \in Nat /\ K[e].size \in Nat /\ K[e].heap \in Nat /\ K[e].size >= 2
    BY <1>1, ChunkIs DEF Grid, Lies, Overhead
  <1>3. c < d /\ c # d
    BY <1>2
  <1>4. /\ AreChunks(U) /\ DOMAIN U = DOMAIN K \ {d} /\ c \in DOMAIN U
        /\ U[c].size = K[c].size + K[d].size /\ U[c].heap = K[c].heap
        /\ \A e \in DOMAIN K : e # c /\ e # d => U[e] = K[e]
    BY <1>1, <1>3, UniteIs
  <1>5. c + U[c].size = d + K[d].size
    BY <1>2, <1>4
  <1>6. InOrder(U)
    <2> SUFFICES ASSUME NEW x \in DOMAIN U, NEW y \in DOMAIN U, x < y PROVE x + U[x].size <= y
      BY DEF InOrder
    <2>1. x \in DOMAIN K /\ y \in DOMAIN K /\ x # d /\ y # d
      BY <1>4
    <2>2. CASE x = c
      <3>1. d <= y
        BY <1>1, <2>1, <2>2 DEF InOrder
      <3>2. d < y
        BY <1>2, <2>1, <3>1
      <3>3. d + K[d].size <= y
        BY <1>1, <2>1, <3>2 DEF InOrder
      <3> QED BY <1>5, <2>2, <3>3
    <2>3. CASE x # c
      BY <1>1, <1>4, <2>1, <2>3 DEF InOrder
    <2> QED BY <2>2, <2>3
  <1>7. ASSUME NEW e \in DOMAIN U PROVE Lies(Z, U, e)
    <2>0. Lies(Z, K, c) /\ Lies(Z, K, d)
      BY DEF Grid
    <2>1. CASE e = c
      <3> DEFINE f == d + K[d].size
      <3>1. f # c /\ f # d
        BY <1>2, <1>3
      <3>2. f \in DOMAIN K => f \in DOMAIN U /\ U[f] = K[f]
        BY <1>4, <3>1
      <3>3. f = K[c].heap + Z[K[c].heap] \/ (f \in DOMAIN U /\ U[f].heap = K[c].heap)
        BY <2>0, <3>2 DEF Lies
      <3>4. c = K[c].heap + Header \/ \E x \in DOMAIN U : U[x].heap = K[c].heap /\ x + U[x].size = c
        <4>1. CASE c = K[c].heap + Header
          BY <4>1
        <4>2. CASE c # K[c].heap + Header
          <5>1. PICK x \in DOMAIN K : K[x].heap = K[c].heap /\ x + K[x].size = c
            BY <2>0, <4>2 DEF Lies
          <5>2. x # c /\ x # d
            BY <1>2, <1>3, <5>1
          <5> QED BY <1>4, <5>1, <5>2
        <4> QED BY <4>1, <4>2
      <3>5. U[c].size >= Overhead
        BY <1>2, <1>4 DEF Overhead
      <3>6. K[c].heap \in DOMAIN Z /\ K[c].heap + Header <= c /\ f <= K[c].heap + Z[K[c].heap]
        BY <2>0 DEF Lies
      <3> HIDE DEF f
      <3>7. c + U[c].size = f
        BY <1>5 DEF f
      <3> QED BY <1>4, <2>1, <3>3, <3>4, <3>5, <3>6, <3>7 DEF Lies
    <2>2. CASE e # c
      <3>1. e \in DOMAIN K /\ e # d /\ U[e] = K[e]
        BY <1>4, <2>2
      <3>2. Lies(Z, K, e)
        BY <3>1 DEF Grid
      <3> DEFINE f == e + K[e].size
      <3>3. f # d
        <4>1. ASSUME e < c PROVE f # d
          <5>1. f <= c
            BY <1>1, <3>1, <4>1 DEF InOrder
          <5> QED BY <1>2, <1>3, <3>1, <5>1
        <4>2. ASSUME c < e PROVE f # d
          <5>1. d <= e
            BY <1>1, <3>1, <4>2 DEF InOrder
          <5> QED BY <1>2, <1>3, <3>1, <5>1
        <4> QED BY <1>2, <2>2, <3>1, <4>1, <4>2
      <3>4. f \in DOMAIN K => f \in DOMAIN U /\ U[f].heap = K[f].heap
        BY <1>4, <3>3
      <3>5. e = K[e].heap + Header \/ \E x \in DOMAIN U : U[x].heap = K[e].heap /\ x + U[x].size = e
        <4>1. CASE e = K[e].heap + Header
          BY <4>1
        <4>2. CASE e # K[e].heap + Header
          <5>1. PICK x \in DOMAIN K : K[x].heap = K[e].heap /\ x + K[x].size = e
            BY <3>2, <4>2 DEF Lies
          <5>2. x # c
            BY <3>1, <5>1
          <5>3. CASE x = d
            <6>1. c \in DOMAIN U /\ U[c].heap = K[e].heap /\ c + U[c].size = e
              BY <1>4, <1>5, <5>1, <5>3
            <6> QED BY <6>1
          <5>4. CASE x # d
            BY <1>4, <5>1, <5>2, <5>4
          <5> QED BY <5>3, <5>4
        <4> QED BY <4>1, <4>2
      <3> QED BY <3>1, <3>2, <3>4, <3>5 DEF Lies
    <2> QED BY <2>1, <2>2
  <1>8. ASSUME NEW b \in DOMAIN Z PROVE b + Header \in DOMAIN U /\ U[b + Header].heap = b
    <2>1. b + Header \in DOMAIN K /\ K[b + Header].heap = b
      BY DEF Grid
    <2>2. b + Header # d
      <3>1. Lies(Z, K, c)
        BY DEF Grid
      <3>2. b + Header = d => b + Header <= c
        BY <2>1, <3>1 DEF Lies
      <3> QED BY <1>2, <1>3, <3>2
    <2> QED BY <1>4, <2>1, <2>2
  <1> QED BY <1>4, <1>6, <1>7, <1>8 DEF Grid

PredUsed(K, c) == \A x : Behind(K, x, c) => K[x].cused
SuccUsed(K, c) == \A y : Behind(K, c, y) => K[y].cused

LEMMA UniteFlags ==
    ASSUME NEW Z, NEW K, Grid(Z, K), NEW c \in DOMAIN K, NEW d \in DOMAIN K,
           d = c + K[c].size, K[d].heap = K[c].heap, NEW U, U = Unite(K, c, d)
    PROVE  /\ \A X : /\ Flags(Z, K, X) /\ d \notin X /\ K[c].cused = K[d].cused
                     => Flags(Z, U, X \ {c})
           /\ NotBoth(K, {c, d}) => NotBoth(U, {c})
           /\ NotBoth(K, {}) /\ K[c].cused => NotBoth(U, {})
           /\ PredUsed(K, c) => PredUsed(U, c)
           /\ SuccUsed(K, d) => SuccUsed(U, c)
  <1>1. AreChunks(K) /\ InOrder(K)
    BY DEF Grid
  <1>2. \A e \in DOMAIN K : e \in Nat /\ K[e].size \in Nat /\ K[e].size >= 2
    BY <1>1, ChunkIs DEF Grid, Lies, Overhead
  <1>3. c < d /\ c # d
    BY <1>2
  <1>4. /\ AreChunks(U) /\ DOMAIN U = DOMAIN K \ {d} /\ c \in DOMAIN U
        /\ U[c].size = K[c].size + K[d].size
        /\ U[c].cused = K[c].cused /\ U[c].pused = K[c].pused
        /\ \A e \in DOMAIN K : e # c /\ e # d => U[e] = K[e]
    BY <1>1, <1>3, UniteIs
  <1>5. ASSUME NEW x, NEW y, Behind(U, x, y)
        PROVE  \/ x = c /\ Behind(K, d, y) /\ y # c /\ y # d
               \/ x # c /\ x # d /\ y # d /\ Behind(K, x, y)
    <2>1. x \in DOMAIN K /\ x # d /\ y \in DOMAIN K /\ y # d /\ y = x + U[x].size
      BY <1>4, <1>5 DEF Behind
    <2>2. CASE x = c
      <3>1. y = d + K[d].size
        BY <1>2, <1>4, <2>1, <2>2
      <3> QED BY <1>2, <1>3, <2>1, <2>2, <3>1 DEF Behind
    <2>3. CASE x # c
      BY <1>4, <2>1, <2>3 DEF Behind
    <2> QED BY <2>2, <2>3
  <1>6. ASSUME NEW X, Flags(Z, K, X), d \notin X, K[c].cused = K[d].cused
        PROVE  Flags(Z, U, X \ {c})
    <2>1. ASSUME NEW b \in DOMAIN Z PROVE U[b + Header].pused
      <3>1. b + Header \in DOMAIN K /\ K[b + Header].pused
        BY <1>6 DEF Flags, Grid
      <3>2. b + Header # d
        BY UniteGrid, <1>4 DEF Grid
      <3> QED BY <1>4, <3>1, <3>2
    <2>2. ASSUME NEW x \in DOMAIN U \ (X \ {c}), NEW y \in DOMAIN U, Behind(U, x, y)
          PROVE  U[y].pused = U[x].cused
      <3>1. CASE x = c /\ Behind(K, d, y) /\ y # c /\ y # d
        <4>1. y \in DOMAIN K /\ K[y].pused = K[d].cused
          BY <1>6, <3>1 DEF Flags, Behind
        <4> QED BY <1>4, <1>6, <3>1, <4>1
      <3>2. CASE x # c /\ x # d /\ y # d /\ Behind(K, x, y)
        <4>1. x \in DOMAIN K \ X /\ y \in DOMAIN K
          BY <1>4, <2>2, <3>2
        <4>2. K[y].pused = K[x].cused
          BY <1>6, <3>2, <4>1 DEF Flags
        <4>3. U[y].pused = K[y].pused /\ U[x] = K[x]
          BY <1>4, <3>2, <4>1
        <4> QED BY <4>2, <4>3
      <3> QED BY <1>5, <2>2, <3>1, <3>2
    <2> QED BY <2>1, <2>2 DEF Flags
  <1>7. ASSUME NotBoth(K, {c, d}) PROVE NotBoth(U, {c})
    <2> SUFFICES ASSUME NEW x \in DOMAIN U \ {c}, NEW y \in DOMAIN U \ {c}, Behind(U, x, y)
                 PROVE  U[x].cused \/ U[y].cused
      BY DEF NotBoth
    <2>1. x \in DOMAIN K /\ y \in DOMAIN K /\ x # d /\ y # d /\ Behind(K, x, y)
      BY <1>4, <1>5
    <2> QED BY <1>4, <1>7, <2>1 DEF NotBoth
  <1>8. ASSUME NotBoth(K, {}), K[c].cused PROVE NotBoth(U, {})
    <2> SUFFICES ASSUME NEW x \in DOMAIN U, NEW y \in DOMAIN U, Behind(U, x, y)
                 PROVE  U[x].cused \/ U[y].cused
      BY DEF NotBoth
    <2>1. CASE x = c \/ y = c
      BY <1>4, <1>8, <2>1
    <2>2. CASE x # c /\ y # c
      <3>1. x \in DOMAIN K /\ y \in DOMAIN K /\ x # d /\ y # d /\ Behind(K, x, y)
        BY <1>4, <1>5, <2>2
      <3> QED BY <1>4, <1>8, <2>2, <3>1 DEF NotBoth
    <2> QED BY <2>1, <2>2
  <1>9. ASSUME PredUsed(K, c) PROVE PredUsed(U, c)
    <2> SUFFICES ASSUME NEW x, Behind(U, x, c) PROVE U[x].cused
      BY DEF PredUsed
    <2>1. x # c /\ x # d /\ Behind(K, x, c)
      BY <1>5
    <2>2. x \in DOMAIN K /\ K[x].cused
      BY <1>9, <2>1 DEF PredUsed, Behind
    <2> QED BY <1>4, <2>1, <2>2
  <1>10. ASSUME SuccUsed(K, d) PROVE SuccUsed(U, c)
    <2> SUFFICES ASSUME NEW y, Behind(U, c, y) PROVE U[y].cused
      BY DEF SuccUsed
    <2>1. Behind(K, d, y) /\ y # c /\ y # d
      BY <1>5
    <2>2. y \in DOMAIN K /\ K[y].cused
      BY <1>10, <2>1 DEF SuccUsed, Behind
    <2> QED BY <1>4, <2>1, <2>2
  <1> QED BY <1>6, <1>7, <1>8, <1>9, <1>10

LEMMA UniteUnits ==
    ASSUME NEW K, AreChunks(K), InOrder(K), NEW c \in DOMAIN K, NEW d \in DOMAIN K,
           d = c + K[c].size, c < d, K[d].heap = K[c].heap, K[c].cused = K[d].cused,
           NEW U, U = Unite(K, c, d)
    PROVE  /\ \A b : FreeUnits(U, b) = FreeUnits(K, b)
           /\ FreeChunks(U) = FreeChunks(K) \ {d}
           /\ \A P \in SUBSET Nat : Clear(K, P) => Clear(U, P)
           /\ \A F, X : Feet(K, F, X) => Feet(U, F, X \cup {c})
           /\ \A X : AtLeast(K, X) => AtLeast(U, X \ {d})
           /\ ~ K[c].cused => Used(U) = Used(K)
           /\ K[c].cused => Used(U) = Updated(Dropped(Used(K), d), c, U[c].size)
  <1>1. \A e \in DOMAIN K : e \in Nat /\ K[e].size \in Nat
    BY ChunkIs
  <1>2. /\ AreChunks(U) /\ DOMAIN U = DOMAIN K \ {d} /\ c \in DOMAIN U
        /\ U[c].size = K[c].size + K[d].size /\ U[c].heap = K[c].heap /\ U[c].cused = K[c].cused
        /\ \A e \in DOMAIN K : e # c /\ e # d => U[e] = K[e]
    BY UniteIs
  <1>3. c + U[c].size = d + K[d].size
    BY <1>1, <1>2
  <1>4. c # d
    BY <1>1
  <1>5. ASSUME NEW b PROVE FreeUnits(U, b) = FreeUnits(K, b)
    <2>1. ASSUME NEW u \in FreeUnits(U, b) PROVE u \in FreeUnits(K, b)
      <3>1. PICK e \in DOMAIN U : U[e].heap = b /\ ~ U[e].cused /\ e <= u /\ u < e + U[e].size
        BY DEF FreeUnits
      <3>2. u \in Nat
        BY DEF FreeUnits
      <3>3. CASE e = c
        <4>1. CASE u < d
          <5>1. K[c].heap = b /\ ~ K[c].cused /\ c <= u /\ u < c + K[c].size
            BY <1>2, <3>1, <3>3, <4>1
          <5> QED BY <3>2, <5>1 DEF FreeUnits
        <4>2. CASE ~ (u < d)
          <5>1. K[d].heap = b /\ ~ K[d].cused /\ d <= u /\ u < d + K[d].size
            BY <1>1, <1>2, <1>3, <3>1, <3>2, <3>3, <4>2
          <5> QED BY <3>2, <5>1 DEF FreeUnits
        <4> QED BY <4>1, <4>2
      <3>4. CASE e # c
        BY <1>2, <3>1, <3>2, <3>4 DEF FreeUnits
      <3> QED BY <3>3, <3>4
    <2>2. ASSUME NEW u \in FreeUnits(K, b) PROVE u \in FreeUnits(U, b)
      <3>1. PICK e \in DOMAIN K : K[e].heap = b /\ ~ K[e].cused /\ e <= u /\ u < e + K[e].size
        BY DEF FreeUnits
      <3>2. u \in Nat
        BY DEF FreeUnits
      <3>3. CASE e = c \/ e = d
        <4>1. c \in DOMAIN U /\ U[c].heap = b /\ ~ U[c].cused
          BY <1>2, <3>1, <3>3
        <4>2. c <= u /\ u < c + U[c].size
          BY <1>1, <1>2, <1>3, <3>1, <3>2, <3>3
        <4> QED BY <3>2, <4>1, <4>2 DEF FreeUnits
      <3>4. CASE e # c /\ e # d
        <4>1. e \in DOMAIN U /\ U[e] = K[e]
          BY <1>2, <3>4
        <4> QED BY <3>1, <3>2, <4>1 DEF FreeUnits
      <3> QED BY <3>3, <3>4
    <2> QED BY <2>1, <2>2
  <1>6. FreeChunks(U) = FreeChunks(K) \ {d}
    BY <1>2 DEF FreeChunks
  <1>7. ASSUME NEW P \in SUBSET Nat, Clear(K, P) PROVE Clear(U, P)
    <2> SUFFICES ASSUME NEW e \in DOMAIN U
                 PROVE  /\ e \notin P /\ e + 1 \notin P
                        /\ ~ U[e].cused => \A u \in P : ~ (e <= u /\ u < e + U[e].size)
      BY DEF Clear
    <2>1. e \in DOMAIN K /\ e \notin P /\ e + 1 \notin P
      BY <1>2, <1>7 DEF Clear
    <2>2. CASE e = c
      <3>1. ASSUME ~ U[c].cused, NEW u \in P, c <= u, u < c + U[c].size PROVE FALSE
        <4>1. ~ (c <= u /\ u < c + K[c].size) /\ ~ (d <= u /\ u < d + K[d].size)
          BY <1>2, <1>7, <3>1 DEF Clear
        <4>2. u \in Nat /\ d \in Nat /\ d = c + K[c].size
          BY <1>1, <1>7, <3>1
        <4> QED BY <1>3, <3>1, <4>1, <4>2
      <3> QED BY <2>1, <2>2, <3>1
    <2>3. CASE e # c
      BY <1>2, <1>7, <2>1, <2>3 DEF Clear
    <2> QED BY <2>2, <2>3
  <1>8. ASSUME NEW F, NEW X, Feet(K, F, X) PROVE Feet(U, F, X \cup {c})
    BY <1>2, <1>8 DEF Feet
  <1>9. ASSUME NEW X, AtLeast(K, X) PROVE AtLeast(U, X \ {d})
    <2>1. c \notin X => U[c].size >= MinSize
      BY <1>1, <1>2, <1>9 DEF AtLeast, MinSize
    <2> QED BY <1>2, <1>9, <2>1 DEF AtLeast
  <1>10. ~ K[c].cused => Used(U) = Used(K)
    <2>1. ~ K[c].cused => {e \in DOMAIN U : U[e].cused} = {e \in DOMAIN K : K[e].cused}
      BY <1>2
    <2> QED BY <1>2, <2>1 DEF Used
  <1>11. ASSUME K[c].cused
         PROVE  Used(U) = Updated(Dropped(Used(K), d), c, U[c].size)
    <2>1. {e \in DOMAIN U : U[e].cused} = ({e \in DOMAIN K : K[e].cused} \ {d}) \cup {c}
      BY <1>2, <1>11
    <2> HIDE DEF Unite
    <2> QED BY <1>2, <2>1 DEF Used, Updated, Dropped
  <1> QED BY <1>5, <1>6, <1>7, <1>8, <1>9, <1>10, <1>11

LEMMA MarkIs ==
    ASSUME NEW K, AreChunks(K), NEW c \in DOMAIN K, K[c].size > 0, NEW u \in BOOLEAN,
           NEW M, M = Mark(K, c, u)
    PROVE  /\ AreChunks(M) /\ DOMAIN M = DOMAIN K
           /\ M[c].cused = u /\ M[c].pused = K[c].pused
           /\ \A d \in DOMAIN K : /\ M[d].size = K[d].size /\ M[d].heap = K[d].heap
                                  /\ d # c => M[d].cused = K[d].cused
                                  /\ d = c + K[c].size => M[d].pused = u
                                  /\ d # c + K[c].size => M[d].pused = K[d].pused
                                  /\ d # c /\ d # c + K[c].size => M[d] = K[d]
  <1>1. \A d \in DOMAIN K : /\ d \in Nat /\ K[d] \in Chunk /\ K[d].size \in Nat /\ K[d].heap \in Nat
                            /\ K[d].cused \in BOOLEAN /\ K[d].pused \in BOOLEAN
    BY ChunkIs
  <1>2. c # c + K[c].size
    BY <1>1
  <1>3. DOMAIN M = DOMAIN K
    BY DEF Mark
  <1>4. /\ M[c] \in Chunk
        /\ M[c].size = K[c].size /\ M[c].heap = K[c].heap
        /\ M[c].cused = u /\ M[c].pused = K[c].pused
    <2>1. M[c] = Hdr(K[c].size, K[c].heap, u, K[c].pused)
      BY DEF Mark
    <2> QED BY <1>1, <2>1, HdrIs
  <1>5. ASSUME NEW d \in DOMAIN K, d = c + K[c].size
        PROVE  /\ M[d] \in Chunk
               /\ M[d].size = K[d].size /\ M[d].heap = K[d].heap
               /\ M[d].cused = K[d].cused /\ M[d].pused = u
    <2>1. M[d] = Hdr(K[d].size, K[d].heap, K[d].cused, u)
      BY <1>2, <1>5 DEF Mark
    <2> DEFINE H == Hdr(K[d].size, K[d].heap, K[d].cused, u)
    <2>2. K[d].size \in Nat /\ K[d].heap \in Nat /\ K[d].cused \in BOOLEAN
      BY <1>1
    <2>3. H \in Chunk
      BY <2>2 DEF Hdr, Chunk
    <2>4. H.size = K[d].size /\ H.heap = K[d].heap /\ H.cused = K[d].cused /\ H.pused = u
      BY DEF Hdr
    <2> HIDE DEF H
    <2>5. M[d] = H
      BY <2>1 DEF H
    <2> QED BY <2>3, <2>4, <2>5
  <1>6. \A d \in DOMAIN K : d # c /\ d # c + K[c].size => M[d] = K[d]
    BY DEF Mark
  <1>7. AreChunks(M)
    <2>1. DOMAIN M \subseteq Nat
      BY <1>1, <1>3
    <2>2. \A d \in DOMAIN M : M[d] \in Chunk
      BY <1>1, <1>3, <1>4, <1>5, <1>6
    <2>3. M \in [DOMAIN M -> Chunk]
      BY <2>2 DEF Mark
    <2> QED BY <2>1, <2>3 DEF AreChunks
  <1>8. ASSUME NEW d \in DOMAIN K
        PROVE  /\ M[d].size = K[d].size /\ M[d].heap = K[d].heap
               /\ d # c => M[d].cused = K[d].cused
               /\ d = c + K[c].size => M[d].pused = u
               /\ d # c + K[c].size => M[d].pused = K[d].pused
               /\ d # c /\ d # c + K[c].size => M[d] = K[d]
    <2>1. CASE d = c
      BY <1>2, <1>4, <2>1
    <2>2. CASE d = c + K[c].size
      BY <1>2, <1>5, <2>2
    <2>3. CASE d # c /\ d # c + K[c].size
      BY <1>6, <2>3
    <2> QED BY <2>1, <2>2, <2>3
  <1> QED BY <1>3, <1>4, <1>7, <1>8

\* The chunk behind a chunk is in the same heap, and is not its first
LEMMA BehindHeap ==
    ASSUME NEW Z, NEW K, Grid(Z, K), Apart(Z), NEW c, NEW d, Behind(K, c, d)
    PROVE  K[d].heap = K[c].heap /\ d # K[d].heap + Header /\ d < K[c].heap + Z[K[c].heap]
           /\ \A b \in DOMAIN Z : d # b + Header
  <1>1. c \in DOMAIN K /\ d \in DOMAIN K /\ d = c + K[c].size
    BY DEF Behind
  <1>2. AreChunks(K)
    BY DEF Grid
  <1>3. c \in Nat /\ d \in Nat /\ K[c].size \in Nat /\ K[d].size \in Nat /\ K[c].heap \in Nat /\ K[d].heap \in Nat
    BY <1>1, <1>2, ChunkIs
  <1>4. Lies(Z, K, c) /\ Lies(Z, K, d)
    BY <1>1 DEF Grid
  <1> DEFINE b == K[c].heap
             e == K[d].heap
  <1>5. /\ b \in DOMAIN Z /\ e \in DOMAIN Z /\ Z[b] \in Nat /\ Z[e] \in Nat /\ b \in Nat /\ e \in Nat
        /\ b + 2 <= c /\ d <= b + Z[b] /\ e + 2 <= d /\ d + K[d].size <= e + Z[e]
        /\ K[c].size >= 2 /\ K[d].size >= 2
    BY <1>1, <1>3, <1>4 DEF Lies, Apart, Header, Overhead
  <1> HIDE DEF b, e
  <1>6. e = b
    <2>1. ~ (e < b)
      <3>1. ASSUME e < b PROVE FALSE
        <4>1. e + Z[e] <= b
          BY <1>5, <3>1 DEF Apart
        <4> QED BY <1>1, <1>3, <1>5, <4>1
      <3> QED BY <3>1
    <2>2. ~ (b < e)
      <3>1. ASSUME b < e PROVE FALSE
        <4>1. b + Z[b] <= e
          BY <1>5, <3>1 DEF Apart
        <4> QED BY <1>1, <1>3, <1>5, <4>1
      <3> QED BY <3>1
    <2> QED BY <1>5, <2>1, <2>2
  <1>7. d # e + Header /\ d < b + Z[b]
    BY <1>1, <1>3, <1>5, <1>6 DEF Header
  <1>8. ASSUME NEW x \in DOMAIN Z, d = x + Header PROVE FALSE
    <2>1. K[d].heap = x
      BY <1>8 DEF Grid
    <2> QED BY <1>7, <1>8, <2>1 DEF e
  <1> QED BY <1>6, <1>7, <1>8 DEF b, e

LEMMA MarkGrid ==
    ASSUME NEW Z, NEW K, Grid(Z, K), NEW c \in DOMAIN K, NEW u \in BOOLEAN,
           NEW M, M = Mark(K, c, u)
    PROVE  Grid(Z, M)
  <1>1. AreChunks(K) /\ InOrder(K)
    BY DEF Grid
  <1>2. K[c].size > 0
    BY <1>1, ChunkIs DEF Grid, Lies, Overhead
  <1>3. /\ AreChunks(M) /\ DOMAIN M = DOMAIN K
        /\ \A d \in DOMAIN K : M[d].size = K[d].size /\ M[d].heap = K[d].heap
    BY <1>1, <1>2, MarkIs
  <1>4. InOrder(M)
    BY <1>1, <1>3 DEF InOrder
  <1>5. ASSUME NEW e \in DOMAIN M PROVE Lies(Z, M, e)
    <2>1. e \in DOMAIN K /\ Lies(Z, K, e)
      BY <1>3 DEF Grid
    <2> DEFINE f == e + K[e].size
    <2>2. f \in DOMAIN K => f \in DOMAIN M /\ M[f].heap = K[f].heap
      BY <1>3
    <2>3. e = K[e].heap + Header \/ \E d \in DOMAIN M : M[d].heap = K[e].heap /\ d + M[d].size = e
      BY <1>3, <2>1 DEF Lies
    <2>4. M[e].size = K[e].size /\ M[e].heap = K[e].heap
      BY <1>3, <2>1
    <2> QED BY <2>1, <2>2, <2>3, <2>4 DEF Lies
  <1> QED BY <1>3, <1>4, <1>5 DEF Grid

LEMMA MarkFlags ==
    ASSUME NEW Z, NEW K, Grid(Z, K), Apart(Z), NEW c \in DOMAIN K, NEW u \in BOOLEAN,
           NEW M, M = Mark(K, c, u)
    PROVE  /\ \A X : Flags(Z, K, X) => Flags(Z, M, X \ {c})
           /\ \A X : u /\ NotBoth(K, X) => NotBoth(M, X \ {c})
           /\ \A X : NotBoth(K, X) => NotBoth(M, X \cup {c})
  <1>1. AreChunks(K) /\ InOrder(K)
    BY DEF Grid
  <1>2. K[c].size > 0
    BY <1>1, ChunkIs DEF Grid, Lies, Overhead
  <1>3. /\ AreChunks(M) /\ DOMAIN M = DOMAIN K /\ M[c].cused = u
        /\ \A d \in DOMAIN K : /\ M[d].size = K[d].size
                               /\ d # c => M[d].cused = K[d].cused
                               /\ d = c + K[c].size => M[d].pused = u
                               /\ d # c + K[c].size => M[d].pused = K[d].pused
    BY <1>1, <1>2, MarkIs
  <1>4. \A d, e : Behind(M, d, e) => Behind(K, d, e)
    BY <1>3 DEF Behind
  <1>5. \A d, e : Behind(K, d, e) => d \in DOMAIN K /\ e \in DOMAIN K
    BY DEF Behind
  <1>6. ASSUME NEW X, Flags(Z, K, X) PROVE Flags(Z, M, X \ {c})
    <2>1. ASSUME NEW b \in DOMAIN Z PROVE M[b + Header].pused
      <3>1. b + Header \in DOMAIN K /\ K[b + Header].pused
        BY <1>6 DEF Flags, Grid
      <3>2. b + Header # c + K[c].size
        <4>1. b + Header = c + K[c].size => Behind(K, c, b + Header)
          BY <3>1 DEF Behind
        <4> QED BY <4>1, BehindHeap
      <3> QED BY <1>3, <3>1, <3>2
    <2>2. ASSUME NEW d \in DOMAIN M \ (X \ {c}), NEW e \in DOMAIN M, Behind(M, d, e)
          PROVE  M[e].pused = M[d].cused
      <3>1. Behind(K, d, e) /\ d \in DOMAIN K /\ e \in DOMAIN K
        BY <1>4, <1>5, <2>2
      <3>2. CASE d = c
        BY <1>3, <3>1, <3>2 DEF Behind
      <3>3. CASE d # c
        <4>1. e # c + K[c].size
          <5>1. ASSUME e = c + K[c].size PROVE FALSE
            <6>1. e = d + K[d].size
              BY <3>1 DEF Behind
            <6>2. /\ d \in Nat /\ c \in Nat /\ e \in Nat /\ K[d].size \in Nat /\ K[c].size \in Nat
                  /\ K[d].size >= 2
              BY <1>1, <3>1, ChunkIs DEF Grid, Lies, Overhead
            <6>3. CASE d < c
              <7>1. e <= c
                BY <1>1, <3>1, <6>1, <6>3 DEF InOrder
              <7> QED BY <1>2, <5>1, <6>2, <7>1
            <6>4. CASE c < d
              <7>1. e <= d
                BY <1>1, <3>1, <5>1, <6>4 DEF InOrder
              <7> QED BY <6>1, <6>2, <7>1
            <6> QED BY <3>3, <6>2, <6>3, <6>4
          <5> QED BY <5>1
        <4>2. d \in DOMAIN K \ X
          BY <2>2, <3>1, <3>3
        <4>3. K[e].pused = K[d].cused
          BY <1>6, <3>1, <4>2 DEF Flags
        <4>4. M[e].pused = K[e].pused /\ M[d].cused = K[d].cused
          BY <1>3, <3>1, <3>3, <4>1
        <4> QED BY <4>3, <4>4
      <3> QED BY <3>2, <3>3
    <2> QED BY <2>1, <2>2 DEF Flags
  <1>7. ASSUME NEW X, u, NotBoth(K, X) PROVE NotBoth(M, X \ {c})
    <2> SUFFICES ASSUME NEW d \in DOMAIN M \ (X \ {c}), NEW e \in DOMAIN M \ (X \ {c}), Behind(M, d, e)
                 PROVE  M[d].cused \/ M[e].cused
      BY DEF NotBoth
    <2>1. CASE d = c \/ e = c
      BY <1>3, <1>7, <2>1
    <2>2. CASE d # c /\ e # c
      <3>1. d \in DOMAIN K \ X /\ e \in DOMAIN K \ X /\ Behind(K, d, e)
        BY <1>3, <1>4, <2>2
      <3>2. K[d].cused \/ K[e].cused
        BY <1>7, <3>1 DEF NotBoth
      <3> QED BY <1>3, <2>2, <3>1, <3>2
    <2> QED BY <2>1, <2>2
  <1>8. ASSUME NEW X, NotBoth(K, X) PROVE NotBoth(M, X \cup {c})
    <2> SUFFICES ASSUME NEW d \in DOMAIN M \ (X \cup {c}), NEW e \in DOMAIN M \ (X \cup {c}), Behind(M, d, e)
                 PROVE  M[d].cused \/ M[e].cused
      BY DEF NotBoth
    <2>1. d \in DOMAIN K \ X /\ e \in DOMAIN K \ X /\ Behind(K, d, e) /\ d # c /\ e # c
      BY <1>3, <1>4
    <2>2. K[d].cused \/ K[e].cused
      BY <1>8, <2>1 DEF NotBoth
    <2> QED BY <1>3, <2>1, <2>2
  <1> QED BY <1>6, <1>7, <1>8

\* The units of c, if it is in heap b
Cell(K, c, b) == IF b = K[c].heap THEN Area(c, K[c].size) ELSE {}

LEMMA TakeUnits ==
    ASSUME NEW K, AreChunks(K), InOrder(K), NEW c \in DOMAIN K, K[c].size > 0, NEW u \in BOOLEAN,
           NEW M, M = Mark(K, c, u)
    PROVE  u => \A b : FreeUnits(M, b) = FreeUnits(K, b) \ Cell(K, c, b)
  <1>1. \A e \in DOMAIN K : e \in Nat /\ K[e].size \in Nat /\ K[e].cused \in BOOLEAN
    BY ChunkIs
  <1>2. /\ DOMAIN M = DOMAIN K /\ M[c].cused = u
        /\ \A d \in DOMAIN K : /\ M[d].size = K[d].size /\ M[d].heap = K[d].heap
                               /\ d # c => M[d].cused = K[d].cused
    BY MarkIs
  <1>3. \A e \in DOMAIN K : e # c => e + K[e].size <= c \/ c + K[c].size <= e
    BY <1>1 DEF InOrder
  <1> SUFFICES ASSUME u, NEW b PROVE FreeUnits(M, b) = FreeUnits(K, b) \ Cell(K, c, b)
    OBVIOUS
  <1> DEFINE I == Cell(K, c, b)
  <1>4. ASSUME NEW x \in FreeUnits(M, b) PROVE x \in FreeUnits(K, b) /\ x \notin I
    <2>1. PICK e \in DOMAIN M : M[e].heap = b /\ ~ M[e].cused /\ e <= x /\ x < e + M[e].size
      BY DEF FreeUnits
    <2>2. x \in Nat
      BY DEF FreeUnits
    <2>3. e # c /\ e \in DOMAIN K
      BY <1>2, <2>1
    <2>4. K[e].heap = b /\ ~ K[e].cused /\ e <= x /\ x < e + K[e].size
      BY <1>2, <2>1, <2>3
    <2>5. x \in FreeUnits(K, b)
      BY <2>2, <2>3, <2>4 DEF FreeUnits
    <2>6. ~ (c <= x /\ x < c + K[c].size)
      BY <1>1, <1>3, <2>2, <2>3, <2>4
    <2> QED BY <1>1, <2>2, <2>5, <2>6 DEF Area, Cell
  <1>5. ASSUME NEW x \in FreeUnits(K, b), x \notin I PROVE x \in FreeUnits(M, b)
    <2>1. PICK e \in DOMAIN K : K[e].heap = b /\ ~ K[e].cused /\ e <= x /\ x < e + K[e].size
      BY DEF FreeUnits
    <2>2. x \in Nat
      BY DEF FreeUnits
    <2>3. e # c
      BY <1>1, <1>5, <2>1, <2>2 DEF Area, Cell
    <2>4. e \in DOMAIN M /\ M[e].heap = b /\ ~ M[e].cused /\ e <= x /\ x < e + M[e].size
      BY <1>2, <2>1, <2>3
    <2> QED BY <2>2, <2>4 DEF FreeUnits
  <1> QED BY <1>4, <1>5

LEMMA MarkUnits ==
    ASSUME NEW K, AreChunks(K), InOrder(K), NEW c \in DOMAIN K, K[c].size > 0, NEW u \in BOOLEAN,
           K[c].cused # u, NEW M, M = Mark(K, c, u)
    PROVE  /\ u => \A b : FreeUnits(M, b) =
                 FreeUnits(K, b) \ Cell(K, c, b)
           /\ ~ u => \A b : FreeUnits(M, b) =
                 FreeUnits(K, b) \cup Cell(K, c, b)
           /\ FreeChunks(M) = IF u THEN FreeChunks(K) \ {c} ELSE FreeChunks(K) \cup {c}
           /\ \A P \in SUBSET Nat : /\ Clear(K, P)
                                    /\ u \/ \A x \in P : ~ (c <= x /\ x < c + K[c].size)
                                    => Clear(M, P)
           /\ \A F, X : Feet(K, F, X) => Feet(M, F, IF u THEN X \ {c} ELSE X \cup {c})
           /\ \A X : AtLeast(K, X) => AtLeast(M, X)
           /\ u => Used(M) = Updated(Used(K), c, K[c].size)
           /\ ~ u => Used(M) = Dropped(Used(K), c)
  <1>1. \A e \in DOMAIN K : e \in Nat /\ K[e].size \in Nat /\ K[e].cused \in BOOLEAN
    BY ChunkIs
  <1>2. /\ DOMAIN M = DOMAIN K /\ M[c].cused = u
        /\ \A d \in DOMAIN K : /\ M[d].size = K[d].size /\ M[d].heap = K[d].heap
                               /\ d # c => M[d].cused = K[d].cused
    BY MarkIs
  <1>3. \A e \in DOMAIN K : e # c => e + K[e].size <= c \/ c + K[c].size <= e
    BY <1>1 DEF InOrder
  <1>4. ASSUME u, NEW b PROVE FreeUnits(M, b) = FreeUnits(K, b) \ Cell(K, c, b)
    BY <1>4, TakeUnits
  <1>5. ASSUME ~ u, NEW b
        PROVE  FreeUnits(M, b) = FreeUnits(K, b) \cup Cell(K, c, b)
    <2> DEFINE I == Cell(K, c, b)
    <2>1. ASSUME NEW x \in FreeUnits(M, b) PROVE x \in FreeUnits(K, b) \cup I
      <3>1. PICK e \in DOMAIN M : M[e].heap = b /\ ~ M[e].cused /\ e <= x /\ x < e + M[e].size
        BY DEF FreeUnits
      <3>2. x \in Nat
        BY DEF FreeUnits
      <3>3. CASE e = c
        <4>1. b = K[c].heap /\ c <= x /\ x < c + K[c].size
          BY <1>2, <3>1, <3>3
        <4> QED BY <1>1, <3>2, <4>1 DEF Area, Cell
      <3>4. CASE e # c
        <4>1. e \in DOMAIN K /\ K[e].heap = b /\ ~ K[e].cused /\ e <= x /\ x < e + K[e].size
          BY <1>2, <3>1, <3>4
        <4> QED BY <3>2, <4>1 DEF FreeUnits
      <3> QED BY <3>3, <3>4
    <2>2. ASSUME NEW x \in FreeUnits(K, b) PROVE x \in FreeUnits(M, b)
      <3>1. PICK e \in DOMAIN K : K[e].heap = b /\ ~ K[e].cused /\ e <= x /\ x < e + K[e].size
        BY DEF FreeUnits
      <3>2. x \in Nat
        BY DEF FreeUnits
      <3>3. e # c
        BY <1>1, <1>5, <3>1
      <3>4. e \in DOMAIN M /\ M[e].heap = b /\ ~ M[e].cused /\ e <= x /\ x < e + M[e].size
        BY <1>2, <3>1, <3>3
      <3> QED BY <3>2, <3>4 DEF FreeUnits
    <2>3. ASSUME NEW x \in I PROVE x \in FreeUnits(M, b)
      <3>1. b = K[c].heap /\ x \in Area(c, K[c].size)
        BY <2>3 DEF Cell
      <3>2. x \in Nat /\ c <= x /\ x < c + M[c].size /\ M[c].heap = b /\ ~ M[c].cused
        BY <1>1, <1>2, <1>5, <3>1 DEF Area, Cell
      <3> QED BY <1>2, <3>2 DEF FreeUnits
    <2> QED BY <2>1, <2>2, <2>3
  <1>6. FreeChunks(M) = IF u THEN FreeChunks(K) \ {c} ELSE FreeChunks(K) \cup {c}
    BY <1>2 DEF FreeChunks
  <1>7. ASSUME NEW P \in SUBSET Nat, Clear(K, P), u \/ \A x \in P : ~ (c <= x /\ x < c + K[c].size)
        PROVE  Clear(M, P)
    <2> SUFFICES ASSUME NEW e \in DOMAIN M
                 PROVE  /\ e \notin P /\ e + 1 \notin P
                        /\ ~ M[e].cused => \A x \in P : ~ (e <= x /\ x < e + M[e].size)
      BY DEF Clear
    <2>1. e \in DOMAIN K /\ M[e].size = K[e].size
      BY <1>2
    <2>2. CASE e = c
      BY <1>2, <1>7, <2>1, <2>2 DEF Clear
    <2>3. CASE e # c
      BY <1>2, <1>7, <2>1, <2>3 DEF Clear
    <2> QED BY <2>2, <2>3
  <1>8. ASSUME NEW F, NEW X, Feet(K, F, X) PROVE Feet(M, F, IF u THEN X \ {c} ELSE X \cup {c})
    <2> SUFFICES ASSUME NEW e \in DOMAIN M, ~ M[e].cused, e \notin IF u THEN X \ {c} ELSE X \cup {c}
                 PROVE  FootAt(F, e + M[e].size - 1) = M[e].size
      BY DEF Feet
    <2>1. e # c
      BY <1>2
    <2>2. e \in DOMAIN K \ X /\ ~ K[e].cused /\ M[e].size = K[e].size
      BY <1>2, <2>1
    <2> QED BY <1>8, <2>2 DEF Feet
  <1>9. ASSUME NEW X, AtLeast(K, X) PROVE AtLeast(M, X)
    BY <1>2, <1>9 DEF AtLeast
  <1>10. ASSUME u PROVE Used(M) = Updated(Used(K), c, K[c].size)
    <2>1. {d \in DOMAIN M : M[d].cused} = {d \in DOMAIN K : K[d].cused} \cup {c}
      BY <1>2, <1>10
    <2> QED BY <1>2, <2>1 DEF Used, Updated
  <1>11. ASSUME ~ u PROVE Used(M) = Dropped(Used(K), c)
    <2>1. {d \in DOMAIN M : M[d].cused} = {d \in DOMAIN K : K[d].cused} \ {c}
      BY <1>2, <1>11
    <2> QED BY <1>2, <2>1 DEF Used, Dropped
  <1> QED BY <1>4, <1>5, <1>6, <1>7, <1>8, <1>9, <1>10, <1>11

LEMMA MarkSame ==
    ASSUME NEW K, AreChunks(K), NEW c \in DOMAIN K, K[c].size > 0, NEW u \in BOOLEAN,
           K[c].cused = u, NEW M, M = Mark(K, c, u)
    PROVE  /\ \A b : FreeUnits(M, b) = FreeUnits(K, b)
           /\ FreeChunks(M) = FreeChunks(K)
           /\ \A P : Clear(K, P) => Clear(M, P)
           /\ \A F, X : Feet(K, F, X) => Feet(M, F, X)
           /\ \A X : AtLeast(K, X) => AtLeast(M, X)
           /\ \A X : NotBoth(K, X) => NotBoth(M, X)
           /\ Used(M) = Used(K)
  <1>1. /\ DOMAIN M = DOMAIN K
        /\ \A d \in DOMAIN K : M[d].size = K[d].size /\ M[d].heap = K[d].heap /\ M[d].cused = K[d].cused
    BY MarkIs
  <1>2. \A b : FreeUnits(M, b) = FreeUnits(K, b)
    BY <1>1 DEF FreeUnits
  <1>3. FreeChunks(M) = FreeChunks(K)
    BY <1>1 DEF FreeChunks
  <1>4. \A P : Clear(K, P) => Clear(M, P)
    BY <1>1 DEF Clear
  <1>5. \A F, X : Feet(K, F, X) => Feet(M, F, X)
    BY <1>1 DEF Feet
  <1>6. \A X : AtLeast(K, X) => AtLeast(M, X)
    BY <1>1 DEF AtLeast
  <1>7. \A X : NotBoth(K, X) => NotBoth(M, X)
    BY <1>1 DEF NotBoth, Behind
  <1>8. Used(M) = Used(K)
    <2>1. {d \in DOMAIN M : M[d].cused} = {d \in DOMAIN K : K[d].cused}
      BY <1>1
    <2> QED BY <1>1, <2>1 DEF Used
  <1> QED BY <1>2, <1>3, <1>4, <1>5, <1>6, <1>7, <1>8

\* A chunk's footer is no other chunk's
LEMMA FootSet ==
    ASSUME NEW K, AreChunks(K), InOrder(K), \A e \in DOMAIN K : K[e].size > 0,
           NEW c \in DOMAIN K, NEW F, NEW X, Feet(K, F, X)
    PROVE  Feet(K, Updated(F, c + K[c].size - 1, K[c].size), X \ {c})
  <1> DEFINE a == c + K[c].size - 1
             G == Updated(F, a, K[c].size)
  <1>1. \A e \in DOMAIN K : e \in Nat /\ K[e].size \in Nat
    BY ChunkIs
  <1>2. FootAt(G, a) = K[c].size
    BY DEF FootAt, Updated
  <1>3. \A x : x # a => FootAt(G, x) = FootAt(F, x)
    BY DEF FootAt, Updated
  <1> HIDE DEF G
  <1>4. ASSUME NEW e \in DOMAIN K, e # c PROVE e + K[e].size - 1 # a
    BY <1>1, <1>4 DEF InOrder
  <1>5. ASSUME NEW e \in DOMAIN K \ (X \ {c}), ~ K[e].cused PROVE FootAt(G, e + K[e].size - 1) = K[e].size
    BY <1>2, <1>3, <1>4, <1>5 DEF Feet
  <1>6. Feet(K, G, X \ {c})
    BY <1>5 DEF Feet
  <1> QED BY <1>6 DEF G

LEMMA FreeIn ==
    ASSUME NEW Z, NEW K, Grid(Z, K), Apart(Z), NEW b \in DOMAIN Z
    PROVE  /\ FreeUnits(K, b) \subseteq b + Header .. b + Z[b] - 1
           /\ IsFiniteSet(FreeUnits(K, b))
           /\ Cardinality(FreeUnits(K, b)) \in Nat
           /\ Cardinality(b + Header .. b + Z[b] - 1) = Z[b] - Header
           /\ IsFiniteSet(b + Header .. b + Z[b] - 1)
           /\ Cardinality(FreeUnits(K, b)) <= Z[b] - Header
  <1>1. AreChunks(K)
    BY DEF Grid
  <1>2. b \in Nat /\ Z[b] \in Nat
    BY DEF Apart
  <1>3. b + Header \in DOMAIN K /\ K[b + Header].heap = b
    BY DEF Grid
  <1>4. Z[b] >= Header
    <2>1. Lies(Z, K, b + Header)
      BY <1>3 DEF Grid
    <2>2. b + Header + K[b + Header].size <= b + Z[b] /\ K[b + Header].size >= 2
      BY <1>3, <2>1 DEF Lies, Overhead
    <2>3. K[b + Header].size \in Nat
      BY <1>1, <1>3, ChunkIs
    <2> QED BY <1>2, <2>2, <2>3 DEF Header
  <1>5. FreeUnits(K, b) \subseteq b + Header .. b + Z[b] - 1
    <2> SUFFICES ASSUME NEW u \in FreeUnits(K, b) PROVE u \in b + Header .. b + Z[b] - 1
      OBVIOUS
    <2>1. PICK e \in DOMAIN K : K[e].heap = b /\ e <= u /\ u < e + K[e].size
      BY DEF FreeUnits
    <2>2. u \in Nat
      BY DEF FreeUnits
    <2>3. b + Header <= e /\ e + K[e].size <= b + Z[b]
      BY <2>1 DEF Grid, Lies
    <2>4. e \in Nat /\ K[e].size \in Nat
      BY <1>1, ChunkIs
    <2> QED BY <1>2, <2>1, <2>2, <2>3, <2>4 DEF Header
  <1> DEFINE I == b + Header .. b + Z[b] - 1
  <1>6. IsFiniteSet(I) /\ Cardinality(I) = Z[b] - Header
    <2>1. b + Header \in Int /\ b + Z[b] - 1 \in Int
      BY <1>2 DEF Header
    <2>2. IsFiniteSet(I) /\ Cardinality(I) = IF b + Header > b + Z[b] - 1 THEN 0
                                             ELSE (b + Z[b] - 1) - (b + Header) + 1
      BY <2>1, FS_Interval
    <2> QED BY <1>2, <1>4, <2>2 DEF Header
  <1> HIDE DEF I
  <1>7. FreeUnits(K, b) \subseteq I
    BY <1>5 DEF I
  <1>8. /\ IsFiniteSet(FreeUnits(K, b)) /\ Cardinality(FreeUnits(K, b)) <= Cardinality(I)
    BY <1>6, <1>7, FS_Subset
  <1>9. Cardinality(FreeUnits(K, b)) \in Nat
    BY <1>8, FS_CardinalityType
  <1> QED BY <1>5, <1>6, <1>8, <1>9 DEF I

\* A heap all of whose units are free is one chunk
\* Heap b is a single free chunk
Sole(Z, K, b) ==
    /\ ~ K[b + Header].cused /\ K[b + Header].size = Z[b] - Header
    /\ \A e \in DOMAIN K : K[e].heap = b => e = b + Header

LEMMA AllFree ==
    ASSUME NEW Z, NEW K, Grid(Z, K), Apart(Z), NotBoth(K, {}), NEW b \in DOMAIN Z,
           Cardinality(FreeUnits(K, b)) = Z[b] - Header
    PROVE  Sole(Z, K, b)
  <1>1. AreChunks(K) /\ InOrder(K)
    BY DEF Grid
  <1>2. FreeUnits(K, b) = b + Header .. b + Z[b] - 1
    <2> DEFINE I == b + Header .. b + Z[b] - 1
    <2>1. FreeUnits(K, b) \subseteq I /\ IsFiniteSet(I) /\ Cardinality(I) = Cardinality(FreeUnits(K, b))
      BY FreeIn
    <2> HIDE DEF I
    <2>2. FreeUnits(K, b) = I
      BY <2>1, FS_Subset
    <2> QED BY <2>2 DEF I
  <1>3. \A e \in DOMAIN K : e \in Nat /\ K[e].size \in Nat /\ K[e].size >= 2 /\ Lies(Z, K, e)
    BY <1>1, ChunkIs DEF Grid, Lies, Overhead
  <1>4. b \in Nat /\ Z[b] \in Nat
    BY DEF Apart
  <1>5. ASSUME NEW e \in DOMAIN K, K[e].heap = b PROVE ~ K[e].cused
    <2>1. e \in b + Header .. b + Z[b] - 1
      BY <1>3, <1>4, <1>5 DEF Lies, Header
    <2>2. PICK d \in DOMAIN K : ~ K[d].cused /\ d <= e /\ e < d + K[d].size
      BY <1>2, <2>1 DEF FreeUnits
    <2>3. d = e
      BY <1>1, <1>3, <2>2 DEF InOrder
    <2> QED BY <2>2, <2>3
  <1> DEFINE c == b + Header
  <1>6. c \in DOMAIN K /\ K[c].heap = b /\ ~ K[c].cused
    BY <1>5 DEF Grid
  <1>7. c + K[c].size = b + Z[b]
    <2> SUFFICES ASSUME c + K[c].size # b + Z[b] PROVE FALSE
      OBVIOUS
    <2>1. c + K[c].size \in DOMAIN K /\ K[c + K[c].size].heap = b
      BY <1>3, <1>6 DEF Lies
    <2>2. Behind(K, c, c + K[c].size)
      BY <1>6, <2>1 DEF Behind
    <2> QED BY <1>5, <1>6, <2>1, <2>2 DEF NotBoth
  <1>8. ASSUME NEW e \in DOMAIN K, K[e].heap = b PROVE e = c
    <2>1. c <= e /\ e + K[e].size <= b + Z[b]
      BY <1>3, <1>8 DEF Lies
    <2>2. c < e => b + Z[b] <= e
      BY <1>1, <1>6, <1>7 DEF InOrder
    <2> QED BY <1>3, <1>4, <1>6, <2>1, <2>2
  <1>9. K[c].size = Z[b] - Header
    BY <1>3, <1>4, <1>6, <1>7 DEF Header
  <1> QED BY <1>6, <1>8, <1>9 DEF Sole

\* The chunks without those of heap b
Without(K, b) == [c \in {e \in DOMAIN K : K[e].heap # b} |-> K[c]]

\* Heap b is gone
WithoutDone(Z, K, b, Y, D) ==
    /\ Grid(Y, D) /\ Apart(Y)
    /\ Flags(Z, K, {}) => Flags(Y, D, {})
    /\ NotBoth(K, {}) => NotBoth(D, {})
    /\ \A F : Feet(K, F, {}) => Feet(D, F, {})
    /\ \A x : x # b => FreeUnits(D, x) = FreeUnits(K, x)
    /\ FreeChunks(D) = FreeChunks(K) \ {b + Header}
    /\ DOMAIN D = DOMAIN K \ {b + Header} /\ \A e \in DOMAIN D : D[e] = K[e]
    /\ \A P : Clear(K, P) => Clear(D, P)
    /\ AtLeast(K, {}) => AtLeast(D, {})
    /\ Used(D) = Used(K)

LEMMA WithoutGrid ==
    ASSUME NEW Z, NEW K, Grid(Z, K), Apart(Z), NEW b \in DOMAIN Z, NEW D, D = Without(K, b),
           NEW Y, Y = Dropped(Z, b), Sole(Z, K, b)
    PROVE  WithoutDone(Z, K, b, Y, D)
  <1> DEFINE r == b + Header
  <1>0. Y = [x \in DOMAIN Z \ {b} |-> Z[x]]
    BY DEF Dropped
  <1>1. AreChunks(K) /\ InOrder(K)
    BY DEF Grid
  <1>2. r \in DOMAIN K /\ K[r].heap = b
    BY DEF Grid
  <1>3. DOMAIN D = DOMAIN K \ {r} /\ \A e \in DOMAIN D : D[e] = K[e]
    BY <1>2 DEF Without, Sole
  <1>4. \A e \in DOMAIN D : e \in DOMAIN K /\ e # r /\ K[e].heap # b
    BY <1>3 DEF Sole
  <1>5. \A e \in DOMAIN K : K[e].heap # b => e \in DOMAIN D
    BY <1>2, <1>3
  <1> HIDE DEF r
  <1>6. AreChunks(D)
    <2>1. \A e \in DOMAIN D : e \in Nat /\ D[e] \in Chunk
      BY <1>1, <1>3, ChunkIs
    <2>2. D \in [DOMAIN D -> Chunk]
      BY <2>1 DEF Without
    <2> QED BY <2>1, <2>2 DEF AreChunks
  <1>7. InOrder(D)
    BY <1>1, <1>3 DEF InOrder
  <1>8. ASSUME NEW e \in DOMAIN D PROVE Lies(Y, D, e)
    <2>1. e \in DOMAIN K /\ K[e].heap # b /\ D[e] = K[e] /\ Lies(Z, K, e)
      BY <1>3, <1>4 DEF Grid
    <2> DEFINE f == e + K[e].size
    <2>2. K[e].heap \in DOMAIN Y /\ Y[K[e].heap] = Z[K[e].heap]
      BY <1>0, <2>1 DEF Lies
    <2>3. f \in DOMAIN K /\ K[f].heap = K[e].heap => f \in DOMAIN D /\ D[f].heap = K[e].heap
      BY <1>3, <1>5, <2>1
    <2>4. e = K[e].heap + Header \/ \E d \in DOMAIN D : D[d].heap = K[e].heap /\ d + D[d].size = e
      BY <1>3, <1>5, <2>1 DEF Lies
    <2> QED BY <2>1, <2>2, <2>3, <2>4 DEF Lies
  <1>9. ASSUME NEW x \in DOMAIN Y PROVE x + Header \in DOMAIN D /\ D[x + Header].heap = x
    <2>1. x \in DOMAIN Z /\ x # b
      BY <1>0
    <2>2. x + Header \in DOMAIN K /\ K[x + Header].heap = x
      BY <2>1 DEF Grid
    <2> QED BY <1>3, <1>5, <2>1, <2>2
  <1>10. Grid(Y, D)
    BY <1>6, <1>7, <1>8, <1>9 DEF Grid
  <1>11. Apart(Y)
    BY <1>0 DEF Apart
  <1>12. \A c, d : Behind(D, c, d) => Behind(K, c, d) /\ c \in DOMAIN D /\ d \in DOMAIN D
    BY <1>3, <1>4 DEF Behind
  <1>13. Flags(Z, K, {}) => Flags(Y, D, {})
    <2>1. ASSUME Flags(Z, K, {}), NEW x \in DOMAIN Y PROVE D[x + Header].pused
      BY <1>0, <1>3, <1>9, <2>1 DEF Flags
    <2>2. ASSUME Flags(Z, K, {}), NEW c \in DOMAIN D, NEW d \in DOMAIN D, Behind(D, c, d)
          PROVE  D[d].pused = D[c].cused
      <3>1. c \in DOMAIN K /\ d \in DOMAIN K /\ Behind(K, c, d)
        BY <1>4, <1>12, <2>2
      <3>2. K[d].pused = K[c].cused
        BY <2>2, <3>1 DEF Flags
      <3>3. D[d] = K[d] /\ D[c] = K[c]
        BY <1>3, <2>2
      <3> QED BY <3>2, <3>3
    <2> QED BY <2>1, <2>2 DEF Flags
  <1>14. NotBoth(K, {}) => NotBoth(D, {})
    BY <1>3, <1>4, <1>12 DEF NotBoth
  <1>15. \A F : Feet(K, F, {}) => Feet(D, F, {})
    BY <1>3, <1>4 DEF Feet
  <1>16. ASSUME NEW x, x # b PROVE FreeUnits(D, x) = FreeUnits(K, x)
    <2>1. ASSUME NEW u, NEW c \in DOMAIN D, D[c].heap = x /\ ~ D[c].cused /\ c <= u /\ u < c + D[c].size
          PROVE  c \in DOMAIN K /\ K[c].heap = x /\ ~ K[c].cused /\ c <= u /\ u < c + K[c].size
      BY <1>3, <1>4, <2>1
    <2>2. ASSUME NEW u, NEW c \in DOMAIN K, K[c].heap = x /\ ~ K[c].cused /\ c <= u /\ u < c + K[c].size
          PROVE  c \in DOMAIN D /\ D[c].heap = x /\ ~ D[c].cused /\ c <= u /\ u < c + D[c].size
      BY <1>3, <1>5, <1>16, <2>2
    <2>3. \A u : (\E c \in DOMAIN D : D[c].heap = x /\ ~ D[c].cused /\ c <= u /\ u < c + D[c].size)
                  <=> (\E c \in DOMAIN K : K[c].heap = x /\ ~ K[c].cused /\ c <= u /\ u < c + K[c].size)
      BY <2>1, <2>2
    <2> QED BY <2>3, Zenon DEF FreeUnits
  <1>17. FreeChunks(D) = FreeChunks(K) \ {r}
    BY <1>3 DEF FreeChunks
  <1>18. \A P : Clear(K, P) => Clear(D, P)
    BY <1>3, <1>4 DEF Clear
  <1>19. AtLeast(K, {}) => AtLeast(D, {})
    BY <1>3, <1>4 DEF AtLeast
  <1>20. Used(D) = Used(K)
    <2>1. {d \in DOMAIN D : D[d].cused} = {d \in DOMAIN K : K[d].cused}
      BY <1>3, <1>4 DEF r, Sole
    <2> QED BY <1>3, <2>1 DEF Used
  <1> QED BY <1>3, <1>10, <1>11, <1>13, <1>14, <1>15, <1>16, <1>17, <1>18, <1>19, <1>20 DEF r, WithoutDone

\* The chunk of a new heap
Fresh(s, b) == Hdr(s, b, FALSE, TRUE)
\* What is left of a free chunk
Left(s, b) == Hdr(s, b, FALSE, FALSE)

\* An entirely free chunk is all there is in a new heap
WithHeapDone(Z, K, b, len, s, Y, r, D) ==
    /\ Grid(Y, D)
    /\ Flags(Z, K, {}) => Flags(Y, D, {})
    /\ NotBoth(K, {}) => NotBoth(D, {})
    /\ \A F : Feet(K, F, {}) => Feet(D, F, {r})
    /\ \A x : x # b => FreeUnits(D, x) = FreeUnits(K, x)
    /\ FreeUnits(D, b) = r .. r + s - 1
    /\ FreeChunks(D) = FreeChunks(K) \cup {r}
    /\ r \notin DOMAIN K /\ DOMAIN D = DOMAIN K \cup {r} /\ \A e \in DOMAIN K : D[e] = K[e]
    /\ D[r].size = s /\ D[r].heap = b /\ ~ D[r].cused /\ D[r].pused
    /\ \A P \in SUBSET Nat : Clear(K, P) /\ (\A u \in P : ~ (b <= u /\ u < b + len)) => Clear(D, P)
    /\ AtLeast(K, {}) => AtLeast(D, {})
    /\ Used(D) = Used(K)

LEMMA WithHeap ==
    ASSUME NEW Z, NEW K, Grid(Z, K), Apart(Z), NEW b \in Nat, b \notin DOMAIN Z, NEW len \in Nat,
           NEW s \in Nat, s >= MinSize, len = s + 2, NEW Y, Y = Updated(Z, b, len), Apart(Y),
           NEW r \in Nat, r = b + 2, NEW D, D = Updated(K, r, Fresh(s, b))
    PROVE  WithHeapDone(Z, K, b, len, s, Y, r, D)
  <1>1. AreChunks(K) /\ InOrder(K)
    BY DEF Grid
  <1>2. len = s + 2 /\ s >= 5 /\ r \in Nat /\ r = b + 2 /\ r + s = b + len
    BY DEF MinSize
  <1>3. \A e \in DOMAIN K : /\ e \in Nat /\ K[e].size \in Nat /\ K[e].size >= 2 /\ Lies(Z, K, e)
                            /\ K[e].heap \in DOMAIN Z /\ K[e].heap # b /\ K[e].heap \in Nat
    BY <1>1, ChunkIs DEF Grid, Lies, Overhead
  <1>4. ASSUME NEW e \in DOMAIN K PROVE e + K[e].size <= b \/ b + len <= e
    <2> DEFINE x == K[e].heap
    <2>1. x \in DOMAIN Z /\ x # b /\ x \in Nat /\ Z[x] \in Nat /\ e + K[e].size <= x + Z[x] /\ x + 2 <= e
      BY <1>3 DEF Lies, Apart, Header
    <2> HIDE DEF x
    <2>2. x \in DOMAIN Y /\ Y[x] = Z[x] /\ b \in DOMAIN Y /\ Y[b] = len
      BY <2>1 DEF Updated
    <2>3. x < b => x + Z[x] <= b
      BY <2>2 DEF Apart
    <2>4. b < x => b + len <= x
      BY <2>2 DEF Apart
    <2> QED BY <1>3, <2>1, <2>3, <2>4
  <1>5. r \notin DOMAIN K
    <2>1. ASSUME r \in DOMAIN K PROVE FALSE
      <3>1. r + K[r].size <= b \/ b + len <= r
        BY <1>4, <2>1
      <3> QED BY <1>2, <1>3, <2>1, <3>1 DEF MinSize
    <2> QED BY <2>1
  <1>6. DOMAIN D = DOMAIN K \cup {r} /\ \A e \in DOMAIN K : D[e] = K[e]
    BY <1>5 DEF Updated
  <1> DEFINE H == Fresh(s, b)
  <1>7. D[r] = H
    BY DEF Updated
  <1>8. H \in Chunk /\ H.size = s /\ H.heap = b /\ ~ H.cused /\ H.pused
    <2>2. H.size = s /\ H.heap = b /\ ~ H.cused /\ H.pused
      BY DEF Hdr, Fresh
    <2>3. FALSE \in BOOLEAN /\ TRUE \in BOOLEAN
      OBVIOUS
    <2>4. H \in Chunk
      BY <2>3, HdrIs DEF Fresh
    <2> QED BY <2>2, <2>4
  <1>9. D[r] \in Chunk /\ D[r].size = s /\ D[r].heap = b /\ ~ D[r].cused /\ D[r].pused
    BY <1>7, <1>8
  <1> HIDE DEF H
  <1>10. AreChunks(D)
    <2>1. \A e \in DOMAIN D : e \in Nat /\ D[e] \in Chunk
      BY <1>1, <1>2, <1>6, <1>9, ChunkIs
    <2>2. D \in [DOMAIN D -> Chunk]
      BY <2>1 DEF Updated
    <2> QED BY <2>1, <2>2 DEF AreChunks
  <1>11. r + D[r].size = b + len
    BY <1>2, <1>9
  <1>12. InOrder(D)
    <2> SUFFICES ASSUME NEW c \in DOMAIN D, NEW d \in DOMAIN D, c < d PROVE c + D[c].size <= d
      BY DEF InOrder
    <2>1. CASE c = r /\ d \in DOMAIN K
      <3>1. d + K[d].size <= b \/ b + len <= d
        BY <1>4, <2>1
      <3> QED BY <1>2, <1>3, <1>9, <2>1, <3>1
    <2>2. CASE d = r /\ c \in DOMAIN K
      <3>1. c + K[c].size <= b \/ b + len <= c
        BY <1>4, <2>2
      <3> QED BY <1>2, <1>3, <1>6, <2>2, <3>1 DEF MinSize
    <2>3. CASE c \in DOMAIN K /\ d \in DOMAIN K
      BY <1>1, <1>6, <2>3 DEF InOrder
    <2>4. ~ (c = r /\ d = r)
      BY <1>2
    <2> QED BY <1>6, <2>1, <2>2, <2>3, <2>4
  <1>13. ASSUME NEW e \in DOMAIN D PROVE Lies(Y, D, e)
    <2>1. CASE e = r
      <3>1. b \in DOMAIN Y /\ Y[b] = len
        BY DEF Updated
      <3>2. D[e].size >= Overhead
        BY <1>2, <1>9, <2>1 DEF MinSize, Overhead
      <3>3. e + D[e].size = b + len /\ D[e].heap = b /\ e = b + Header
        BY <1>9, <1>11, <2>1 DEF Header
      <3>4. b + Header <= e /\ e + D[e].size <= b + Y[b]
        BY <1>2, <3>1, <3>3 DEF Header
      <3> QED BY <3>1, <3>2, <3>3, <3>4 DEF Lies
    <2>2. CASE e # r
      <3>1. e \in DOMAIN K /\ D[e] = K[e] /\ Lies(Z, K, e)
        BY <1>3, <1>6, <2>2
      <3>2. K[e].heap \in DOMAIN Y /\ Y[K[e].heap] = Z[K[e].heap]
        BY <1>3, <3>1 DEF Updated
      <3> DEFINE f == e + K[e].size
      <3>3. f \in DOMAIN K => f \in DOMAIN D /\ D[f] = K[f]
        BY <1>6
      <3>4. e = K[e].heap + Header \/ \E d \in DOMAIN D : D[d].heap = K[e].heap /\ d + D[d].size = e
        BY <1>6, <3>1 DEF Lies
      <3> QED BY <3>1, <3>2, <3>3, <3>4 DEF Lies
    <2> QED BY <2>1, <2>2
  <1>14. ASSUME NEW x \in DOMAIN Y PROVE x + Header \in DOMAIN D /\ D[x + Header].heap = x
    <2>1. CASE x = b
      BY <1>6, <1>9, <2>1 DEF Header
    <2>2. CASE x # b
      <3>1. x \in DOMAIN Z
        BY <2>2 DEF Updated
      <3>2. x + Header \in DOMAIN K /\ K[x + Header].heap = x
        BY <3>1 DEF Grid
      <3> QED BY <1>6, <3>2
    <2> QED BY <2>1, <2>2
  <1>15. Grid(Y, D)
    BY <1>10, <1>12, <1>13, <1>14 DEF Grid
  <1>16. ASSUME NEW c, NEW d, Behind(D, c, d) PROVE c # r /\ d # r /\ Behind(K, c, d)
    <2>1. D[c].heap = D[d].heap /\ c \in DOMAIN D /\ d \in DOMAIN D
      <3>1. D[c].heap = D[d].heap
        BY <1>15, <1>16, BehindHeap
      <3> QED BY <1>16, <3>1 DEF Behind
    <2>2. d # b + Header
      <3>1. b \in DOMAIN Y
        BY DEF Updated
      <3> QED BY <1>15, <1>16, <3>1, BehindHeap
    <2>5. d # r
      BY <2>2 DEF Header
    <2>3. d \in DOMAIN K /\ D[d] = K[d] /\ K[d].heap # b
      BY <1>3, <1>6, <2>1, <2>5
    <2>4. c # r
      BY <1>9, <2>1, <2>3
    <2> QED BY <1>6, <1>16, <2>1, <2>5, <2>4 DEF Behind
  <1>17. ASSUME Flags(Z, K, {}) PROVE Flags(Y, D, {})
    <2>1. ASSUME NEW x \in DOMAIN Y PROVE D[x + Header].pused
      <3>1. CASE x = b
        BY <1>9, <3>1 DEF Header
      <3>2. CASE x # b
        <4>1. x \in DOMAIN Z
          BY <3>2 DEF Updated
        <4>2. x + Header \in DOMAIN K /\ K[x + Header].pused
          BY <1>17, <4>1 DEF Grid, Flags
        <4> QED BY <1>6, <4>2
      <3> QED BY <3>1, <3>2
    <2>2. ASSUME NEW c \in DOMAIN D, NEW d \in DOMAIN D, Behind(D, c, d)
          PROVE  D[d].pused = D[c].cused
      <3>1. c \in DOMAIN K /\ d \in DOMAIN K /\ Behind(K, c, d)
        BY <1>6, <1>16, <2>2
      <3>2. K[d].pused = K[c].cused
        BY <1>17, <3>1 DEF Flags
      <3>3. D[d] = K[d] /\ D[c] = K[c]
        BY <1>6, <3>1
      <3> QED BY <3>2, <3>3
    <2> QED BY <2>1, <2>2 DEF Flags
  <1>18. NotBoth(K, {}) => NotBoth(D, {})
    BY <1>6, <1>16 DEF NotBoth
  <1>19. \A F : Feet(K, F, {}) => Feet(D, F, {r})
    BY <1>6 DEF Feet
  <1>20. ASSUME NEW x, x # b PROVE FreeUnits(D, x) = FreeUnits(K, x)
    <2>1. ASSUME NEW u, NEW c \in DOMAIN D, D[c].heap = x /\ ~ D[c].cused /\ c <= u /\ u < c + D[c].size
          PROVE  c \in DOMAIN K /\ K[c].heap = x /\ ~ K[c].cused /\ c <= u /\ u < c + K[c].size
      BY <1>6, <1>9, <1>20, <2>1
    <2>2. ASSUME NEW u, NEW c \in DOMAIN K, K[c].heap = x /\ ~ K[c].cused /\ c <= u /\ u < c + K[c].size
          PROVE  c \in DOMAIN D /\ D[c].heap = x /\ ~ D[c].cused /\ c <= u /\ u < c + D[c].size
      BY <1>6, <2>2
    <2>3. \A u : (\E c \in DOMAIN D : D[c].heap = x /\ ~ D[c].cused /\ c <= u /\ u < c + D[c].size)
                  <=> (\E c \in DOMAIN K : K[c].heap = x /\ ~ K[c].cused /\ c <= u /\ u < c + K[c].size)
      BY <2>1, <2>2
    <2> QED BY <2>3, Zenon DEF FreeUnits
  <1>21. FreeUnits(D, b) = r .. r + s - 1
    <2>1. ASSUME NEW u \in FreeUnits(D, b) PROVE u \in r .. r + s - 1
      <3>1. PICK e \in DOMAIN D : D[e].heap = b /\ e <= u /\ u < e + D[e].size
        BY DEF FreeUnits
      <3>2. u \in Nat
        BY DEF FreeUnits
      <3>3. e = r
        BY <1>3, <1>6, <3>1
      <3>4. r <= u /\ u < r + s
        BY <1>9, <3>1, <3>3
      <3> QED BY <1>2, <3>2, <3>4
    <2>2. ASSUME NEW u \in r .. r + s - 1 PROVE u \in FreeUnits(D, b)
      <3>1. u \in Nat /\ r <= u /\ u < r + D[r].size
        BY <1>2, <1>9
      <3> QED BY <1>6, <1>9, <3>1 DEF FreeUnits
    <2> QED BY <2>1, <2>2
  <1>22. FreeChunks(D) = FreeChunks(K) \cup {r}
    BY <1>5, <1>6, <1>9 DEF FreeChunks
  <1>23. ASSUME NEW P \in SUBSET Nat, Clear(K, P), \A u \in P : ~ (b <= u /\ u < b + len)
         PROVE  Clear(D, P)
    <2> SUFFICES ASSUME NEW e \in DOMAIN D
                 PROVE  /\ e \notin P /\ e + 1 \notin P
                        /\ ~ D[e].cused => \A u \in P : ~ (e <= u /\ u < e + D[e].size)
      BY DEF Clear
    <2>1. CASE e = r
      <3>1. r \notin P /\ r + 1 \notin P
        BY <1>2, <1>23
      <3>2. \A u \in P : ~ (r <= u /\ u < r + D[r].size)
        BY <1>2, <1>9, <1>23
      <3> QED BY <2>1, <3>1, <3>2
    <2>2. CASE e # r
      BY <1>6, <1>23, <2>2 DEF Clear
    <2> QED BY <2>1, <2>2
  <1>24. AtLeast(K, {}) => AtLeast(D, {})
    BY <1>2, <1>6, <1>9 DEF AtLeast
  <1>25. Used(D) = Used(K)
    <2>1. {d \in DOMAIN D : D[d].cused} = {d \in DOMAIN K : K[d].cused}
      BY <1>5, <1>6, <1>9
    <2> QED BY <1>6, <2>1 DEF Used
  <1> QED BY <1>5, <1>6, <1>9, <1>15, <1>17, <1>18, <1>19, <1>20, <1>21, <1>22, <1>23, <1>24, <1>25 DEF WithHeapDone

(* What the operations do to the fields of a heap state                    *)

\* What a section leaves alone, except where it makes or releases a heap
Frame(h, g) ==
    /\ IsHeap(g) /\ g.mapsz = h.mapsz /\ g.retained = h.retained /\ g.retainedsz = h.retainedsz
    /\ g.released = h.released /\ g.relIdx = h.relIdx /\ g.lo = h.lo /\ g.hi = h.hi
SameBins(h, g) == g.bins = h.bins /\ g.binmap = h.binmap /\ g.freesz = h.freesz

LEMMA SetFooterIs ==
    ASSUME NEW h, IsHeap(h), NEW c, NEW g, g = SetFooter(h, c)
    PROVE  /\ Frame(h, g) /\ SameBins(h, g) /\ g.heap = h.heap /\ g.chunk = h.chunk
           /\ g.foot = Updated(h.foot, c + h.chunk[c].size - 1, h.chunk[c].size)
           /\ g.wrote = h.wrote \cup {c + h.chunk[c].size - 1}
BY DEF SetFooter, Size, IsHeap, Frame, SameBins

LEMMA SetHeaderIs ==
    ASSUME NEW h, IsHeap(h), NEW c, NEW x, NEW g, g = SetHeader(h, c, x)
    PROVE  /\ Frame(h, g) /\ SameBins(h, g) /\ g.heap = h.heap /\ g.foot = h.foot
           /\ g.chunk = Updated(h.chunk, c, x)
           /\ g.wrote = h.wrote \cup {c, c + 1}
BY DEF SetHeader, IsHeap, Frame, SameBins

WithUsed(K, c, u)     == [K EXCEPT ![c].cused = u]
WithPrevUsed(K, c, u) == [K EXCEPT ![c].pused = u]

LEMMA SetUsedIs ==
    ASSUME NEW h, IsHeap(h), NEW c, NEW u \in BOOLEAN, NEW g, g = SetUsed(h, c, u)
    PROVE  /\ Frame(h, g) /\ SameBins(h, g) /\ g.heap = h.heap /\ g.foot = h.foot
           /\ g.chunk = WithUsed(h.chunk, c, u)
           /\ g.wrote = h.wrote \cup {c}
BY DEF SetUsed, IsHeap, Frame, SameBins, WithUsed

LEMMA TellNextIs ==
    ASSUME NEW h, IsHeap(h), NEW c, NEW u \in BOOLEAN, NEW g, g = TellNext(h, c, u),
           NEW n, n = NextOf(h, c), n # NoChunk
    PROVE  /\ Frame(h, g) /\ SameBins(h, g) /\ g.heap = h.heap /\ g.foot = h.foot
           /\ g.chunk = WithPrevUsed(h.chunk, n, u)
           /\ g.wrote = h.wrote \cup {n}
BY DEF TellNext, SetPrevUsed, IsHeap, Frame, SameBins, WithPrevUsed

\* The headers of C are forgotten
Forgot(h, g, C) ==
    /\ Frame(h, g) /\ SameBins(h, g) /\ g.heap = h.heap /\ g.foot = h.foot
    /\ g.chunk = [c \in DOMAIN h.chunk \ C |-> h.chunk[c]]
    /\ g.wrote = h.wrote

LEMMA ForgetIs ==
    ASSUME NEW h, IsHeap(h), NEW C, NEW g, g = Forget(h, C)
    PROVE  Forgot(h, g, C)
BY DEF Forget, IsHeap, Frame, SameBins, Forgot

Leave(h, c, b, s) == ChunkInit(h, c, b, s, FALSE)

LEMMA InitLeft ==
    ASSUME NEW h, IsHeap(h), NEW c, NEW b, NEW s, NEW g, g = Leave(h, c, b, s)
    PROVE  /\ Frame(h, g) /\ SameBins(h, g) /\ g.heap = h.heap
           /\ g.chunk = Updated(h.chunk, c, Left(s, b))
           /\ g.foot = Updated(h.foot, c + s - 1, s)
           /\ g.wrote = h.wrote \cup {c, c + 1, c + 2, c + 3, c + s - 1}
  <1> DEFINE H == Left(s, b)
             h1 == SetHeader(h, c, H)
             h2 == [h1 EXCEPT !.wrote = @ \cup {c + 2, c + 3}]
  <1>1. H.size = s
    BY DEF Hdr, Left
  <1>2. g = SetFooter(h2, c)
    BY DEF Leave, ChunkInit, Hdr, Left
  <1> HIDE DEF H
  <1>3. /\ Frame(h, h1) /\ SameBins(h, h1) /\ h1.heap = h.heap /\ h1.foot = h.foot
        /\ h1.chunk = Updated(h.chunk, c, H)
        /\ h1.wrote = h.wrote \cup {c, c + 1}
    BY SetHeaderIs
  <1> HIDE DEF h1
  <1>4. /\ Frame(h, h2) /\ SameBins(h, h2) /\ h2.heap = h.heap /\ h2.foot = h.foot
        /\ h2.chunk = Updated(h.chunk, c, H)
        /\ h2.wrote = h.wrote \cup {c, c + 1} \cup {c + 2, c + 3}
    BY <1>3 DEF Frame, SameBins, IsHeap
  <1> HIDE DEF h2
  <1>5. IsHeap(h2)
    BY <1>4 DEF Frame
  <1>6. h2.chunk[c].size = s
    BY <1>1, <1>4 DEF Updated
  <1>7. /\ Frame(h2, g) /\ SameBins(h2, g) /\ g.heap = h2.heap /\ g.chunk = h2.chunk
        /\ g.foot = Updated(h2.foot, c + s - 1, s)
        /\ g.wrote = h2.wrote \cup {c + s - 1}
    BY <1>2, <1>5, <1>6, SetFooterIs
  <1>8. Frame(h, g) /\ SameBins(h, g)
    BY <1>4, <1>7 DEF Frame, SameBins
  <1>9. g.wrote = h.wrote \cup {c, c + 1, c + 2, c + 3, c + s - 1}
    BY <1>4, <1>7
  <1> QED BY <1>4, <1>7, <1>8, <1>9 DEF H, Forgot

Begin(h, c, b, s) == ChunkInit(h, c, b, s, TRUE)

LEMMA InitFresh ==
    ASSUME NEW h, IsHeap(h), NEW c, NEW b, NEW s, NEW g, g = Begin(h, c, b, s)
    PROVE  /\ Frame(h, g) /\ SameBins(h, g) /\ g.heap = h.heap
           /\ g.chunk = Updated(h.chunk, c, Fresh(s, b))
           /\ g.foot = Updated(h.foot, c + s - 1, s)
           /\ g.wrote = h.wrote \cup {c, c + 1, c + 2, c + 3, c + s - 1}
  <1> DEFINE H == Fresh(s, b)
             h1 == SetHeader(h, c, H)
             h2 == [h1 EXCEPT !.wrote = @ \cup {c + 2, c + 3}]
  <1>1. H.size = s
    BY DEF Hdr, Fresh
  <1>2. g = SetFooter(h2, c)
    BY DEF Begin, ChunkInit, Hdr, Fresh
  <1> HIDE DEF H
  <1>3. /\ Frame(h, h1) /\ SameBins(h, h1) /\ h1.heap = h.heap /\ h1.foot = h.foot
        /\ h1.chunk = Updated(h.chunk, c, H)
        /\ h1.wrote = h.wrote \cup {c, c + 1}
    BY SetHeaderIs
  <1> HIDE DEF h1
  <1>4. /\ Frame(h, h2) /\ SameBins(h, h2) /\ h2.heap = h.heap /\ h2.foot = h.foot
        /\ h2.chunk = Updated(h.chunk, c, H)
        /\ h2.wrote = h.wrote \cup {c, c + 1} \cup {c + 2, c + 3}
    BY <1>3 DEF Frame, SameBins, IsHeap
  <1> HIDE DEF h2
  <1>5. IsHeap(h2)
    BY <1>4 DEF Frame
  <1>6. h2.chunk[c].size = s
    BY <1>1, <1>4 DEF Updated
  <1>7. /\ Frame(h2, g) /\ SameBins(h2, g) /\ g.heap = h2.heap /\ g.chunk = h2.chunk
        /\ g.foot = Updated(h2.foot, c + s - 1, s)
        /\ g.wrote = h2.wrote \cup {c + s - 1}
    BY <1>2, <1>5, <1>6, SetFooterIs
  <1>8. Frame(h, g) /\ SameBins(h, g)
    BY <1>4, <1>7 DEF Frame, SameBins
  <1>9. g.wrote = h.wrote \cup {c, c + 1, c + 2, c + 3, c + s - 1}
    BY <1>4, <1>7
  <1> QED BY <1>4, <1>7, <1>8, <1>9 DEF H

LEMMA PutChunkIs ==
    ASSUME NEW h, IsHeap(h), NEW c, NEW g, g = PutChunk(h, c)
    PROVE  /\ Frame(h, g) /\ g.heap = h.heap /\ g.foot = h.foot /\ g.chunk = h.chunk
           /\ g.wrote = h.wrote \cup BinLinks(Bins(h, BinOf(h, c)) \cup {c}) \cup Node(h, c)
BY DEF PutChunk, Size, IsHeap, Frame

LEMMA PutChunkBins ==
    ASSUME NEW h, IsHeap(h), NEW c, NEW g, g = PutChunk(h, c)
    PROVE  /\ g.bins = Updated(h.bins, BinOf(h, c), Bins(h, BinOf(h, c)) \cup {c})
           /\ g.binmap = h.binmap \cup {BinOf(h, c)}
BY DEF PutChunk, IsHeap

LEMMA PutChunkTotal ==
    ASSUME NEW h, IsHeap(h), NEW c, NEW g, g = PutChunk(h, c)
    PROVE  g.freesz = h.freesz + h.chunk[c].size - Overhead
BY DEF PutChunk, Size, IsHeap

LEMMA TakeChunkIs ==
    ASSUME NEW h, IsHeap(h), NEW c, NEW g, g = TakeChunk(h, c)
    PROVE  /\ Frame(h, g) /\ g.heap = h.heap /\ g.foot = h.foot /\ g.chunk = h.chunk
           /\ g.wrote = h.wrote \cup BinLinks(Bins(h, BinOf(h, c))) \cup Node(h, c)
BY DEF TakeChunk, Size, IsHeap, Frame

(* What holds all through a section.  P is the memory of the callers that  *)
(* the section must not write to.                                          *)

Core(h, P) ==
    /\ IsHeap(h) /\ HeapsFine(h) /\ Grid(Sizes(h), h.chunk)
    /\ Clear(h.chunk, P) /\ h.wrote \cap P = {}

LEMMA SizesApart ==
    ASSUME NEW h, HeapsFine(h)
    PROVE  /\ Apart(Sizes(h)) /\ DOMAIN Sizes(h) = DOMAIN h.heap
           /\ \A b \in DOMAIN h.heap : /\ Sizes(h)[b] = h.heap[b].size /\ b \in Nat
                                       /\ h.heap[b].size \in Nat /\ h.heap[b].freesz \in Int
  <1>1. \A b \in DOMAIN h.heap : b \in Nat /\ h.heap[b].size \in Nat /\ h.heap[b].freesz \in Int
    BY DEF HeapsFine
  <1>2. DOMAIN Sizes(h) = DOMAIN h.heap /\ \A b \in DOMAIN h.heap : Sizes(h)[b] = h.heap[b].size
    BY DEF Sizes
  <1>3. \A b, d \in DOMAIN h.heap : b < d => b + h.heap[b].size <= d
    BY DEF HeapsFine
  <1> QED BY <1>1, <1>2, <1>3 DEF Apart

LEMMA CoreIs ==
    ASSUME NEW h, NEW P, Core(h, P)
    PROVE  /\ IsHeap(h) /\ AreChunks(h.chunk) /\ InOrder(h.chunk) /\ Apart(Sizes(h))
           /\ Grid(Sizes(h), h.chunk)
           /\ DOMAIN Sizes(h) = DOMAIN h.heap
           /\ \A b \in DOMAIN h.heap : /\ Sizes(h)[b] = h.heap[b].size /\ b \in Nat
                                       /\ h.heap[b].size \in Nat /\ h.heap[b].freesz \in Int
           /\ \A c \in DOMAIN h.chunk :
                 /\ c \in Nat /\ h.chunk[c].size \in Nat /\ h.chunk[c].heap \in Nat
                 /\ h.chunk[c].cused \in BOOLEAN /\ h.chunk[c].pused \in BOOLEAN
                 /\ h.chunk[c].size >= 2 /\ h.chunk[c].heap \in DOMAIN h.heap
                 /\ h.chunk[c].heap + 2 <= c
                 /\ c + h.chunk[c].size <= h.chunk[c].heap + h.heap[h.chunk[c].heap].size
  <1>1. IsHeap(h) /\ AreChunks(h.chunk) /\ InOrder(h.chunk) /\ Grid(Sizes(h), h.chunk) /\ HeapsFine(h)
    BY DEF Core, Grid
  <1>2. /\ Apart(Sizes(h)) /\ DOMAIN Sizes(h) = DOMAIN h.heap
        /\ \A b \in DOMAIN h.heap : /\ Sizes(h)[b] = h.heap[b].size /\ b \in Nat
                                    /\ h.heap[b].size \in Nat /\ h.heap[b].freesz \in Int
    BY <1>1, SizesApart
  <1>3. ASSUME NEW c \in DOMAIN h.chunk
        PROVE  /\ c \in Nat /\ h.chunk[c].size \in Nat /\ h.chunk[c].heap \in Nat
               /\ h.chunk[c].cused \in BOOLEAN /\ h.chunk[c].pused \in BOOLEAN
               /\ h.chunk[c].size >= 2 /\ h.chunk[c].heap \in DOMAIN h.heap
               /\ h.chunk[c].heap + 2 <= c
               /\ c + h.chunk[c].size <= h.chunk[c].heap + h.heap[h.chunk[c].heap].size
    <2>1. Lies(Sizes(h), h.chunk, c)
      BY <1>1 DEF Grid
    <2>2. /\ h.chunk[c].size >= 2 /\ h.chunk[c].heap \in DOMAIN h.heap
          /\ h.chunk[c].heap + 2 <= c
          /\ c + h.chunk[c].size <= h.chunk[c].heap + h.heap[h.chunk[c].heap].size
      BY <1>2, <2>1 DEF Lies, Overhead, Header
    <2> QED BY <1>1, <2>2, ChunkIs
  <1> QED BY <1>1, <1>2, <1>3

\* Nothing of the heaps themselves changed
LEMMA FrameFine ==
    ASSUME NEW h, HeapsFine(h), NEW g, Frame(h, g), g.heap = h.heap
    PROVE  HeapsFine(g) /\ Sizes(g) = Sizes(h)
BY DEF Frame, HeapsFine, Sizes, Mapped

LEMMA FrameTrans ==
    ASSUME NEW h, NEW g, NEW f, Frame(h, g), Frame(g, f)
    PROVE  Frame(h, f)
BY DEF Frame

LEMMA FrameSelf ==
    ASSUME NEW h, IsHeap(h)
    PROVE  Frame(h, h)
BY DEF Frame

LEMMA LinksClear ==
    ASSUME NEW h, NEW P \in SUBSET Nat, Core(h, P), NEW T,
           \A c \in T : c \in DOMAIN h.chunk /\ ~ h.chunk[c].cused /\ h.chunk[c].size >= MinSize
    PROVE  /\ BinLinks(T) \cap P = {}
           /\ \A c \in T : Node(h, c) \cap P = {}
  <1>1. ASSUME NEW c \in T PROVE c + 2 \notin P /\ c + 3 \notin P /\ c + 4 \notin P
    <2>1. \A u \in P : ~ (c <= u /\ u < c + h.chunk[c].size)
      BY DEF Core, Clear
    <2>2. c \in Nat /\ h.chunk[c].size \in Nat /\ h.chunk[c].size >= 5
      BY CoreIs DEF MinSize
    <2> QED BY <2>1, <2>2
  <1>2. BinLinks(T) \cap P = {}
    BY <1>1 DEF BinLinks
  <1>3. \A c \in T : Node(h, c) \cap P = {}
    BY <1>1 DEF Node
  <1> QED BY <1>2, <1>3

LEMMA PutKeeps ==
    ASSUME NEW h, NEW P \in SUBSET Nat, Core(h, P), NEW S, Binning(h, S),
           NEW c \in DOMAIN h.chunk, ~ h.chunk[c].cused, h.chunk[c].size >= MinSize, c \notin S,
           NEW g, g = PutChunk(h, c)
    PROVE  /\ Frame(h, g) /\ g.heap = h.heap /\ g.foot = h.foot /\ g.chunk = h.chunk
           /\ Core(g, P) /\ Binning(g, S \cup {c})
  <1> DEFINE b == BinOf(h, c)
             K == h.chunk
  <1>1. IsHeap(h)
    BY DEF Core
  <1>2. /\ Frame(h, g) /\ g.heap = h.heap /\ g.foot = h.foot /\ g.chunk = h.chunk
        /\ g.freesz = h.freesz + h.chunk[c].size - Overhead
        /\ g.bins = Updated(h.bins, b, Bins(h, b) \cup {c})
        /\ g.binmap = h.binmap \cup {b}
        /\ g.wrote = h.wrote \cup BinLinks(Bins(h, b) \cup {c}) \cup Node(h, c)
    <2>1. /\ Frame(h, g) /\ g.heap = h.heap /\ g.foot = h.foot /\ g.chunk = h.chunk
          /\ g.wrote = h.wrote \cup BinLinks(Bins(h, b) \cup {c}) \cup Node(h, c)
      BY <1>1, PutChunkIs
    <2>2. g.bins = Updated(h.bins, b, Bins(h, b) \cup {c}) /\ g.binmap = h.binmap \cup {b}
      BY <1>1, PutChunkBins
    <2>3. g.freesz = h.freesz + h.chunk[c].size - Overhead
      BY <1>1, PutChunkTotal
    <2> QED BY <2>1, <2>2, <2>3
  <1>3. HeapsFine(g) /\ Sizes(g) = Sizes(h)
    BY <1>2, FrameFine DEF Core
  <1>4. /\ \A e \in S : e \in DOMAIN h.chunk /\ ~ h.chunk[e].cused /\ h.chunk[e].size >= MinSize
        /\ \A x : Bins(h, x) = {e \in S : BinOf(h, e) = x}
        /\ h.binmap = {BinOf(h, e) : e \in S}
        /\ IsFiniteSet(PayUnits(h.chunk, S)) /\ h.freesz = Cardinality(PayUnits(h.chunk, S))
    BY DEF Binning
  <1>5. g.wrote \cap P = {}
    <2> DEFINE T == Bins(h, b) \cup {c}
    <2>1. \A e \in T : e \in DOMAIN h.chunk /\ ~ h.chunk[e].cused /\ h.chunk[e].size >= MinSize
      BY <1>4
    <2>2. c \in T
      OBVIOUS
    <2> HIDE DEF T
    <2>3. BinLinks(T) \cap P = {} /\ Node(h, c) \cap P = {}
      BY <2>1, <2>2, LinksClear
    <2>4. h.wrote \cap P = {}
      BY DEF Core
    <2> QED BY <1>2, <2>3, <2>4 DEF T
  <1>6. Core(g, P)
    BY <1>2, <1>3, <1>5 DEF Core, Frame
  <1>7. \A e : BinOf(g, e) = BinOf(h, e)
    BY <1>2 DEF BinOf
  <1>8. ASSUME NEW x PROVE Bins(g, x) = {e \in S \cup {c} : BinOf(g, e) = x}
    <2>1. CASE x = b
      <3>1. Bins(g, x) = Bins(h, b) \cup {c}
        BY <1>2, <2>1 DEF Bins, Updated
      <3> QED BY <1>4, <1>7, <2>1, <3>1
    <2>2. CASE x # b
      <3>1. Bins(g, x) = Bins(h, x)
        BY <1>2, <2>2 DEF Bins, Updated
      <3> QED BY <1>4, <1>7, <2>2, <3>1
    <2> QED BY <2>1, <2>2
  <1>9. g.binmap = {BinOf(g, e) : e \in S \cup {c}}
    BY <1>2, <1>4, <1>7
  <1>10. \A e \in DOMAIN K : e \in Nat /\ K[e].size \in Nat
    BY CoreIs
  <1>11. K[c].size - 2 \in Nat /\ c + 2 \in Int /\ c \in Nat
    BY <1>10 DEF MinSize
  <1>12. PayUnits(K, S \cup {c}) = PayUnits(K, S) \cup (c + 2 .. (c + 2) + (K[c].size - 2) - 1)
    <2>1. ASSUME NEW u \in Nat
          PROVE  c + 2 <= u /\ u < c + K[c].size <=> u \in c + 2 .. (c + 2) + (K[c].size - 2) - 1
      BY <1>10, <1>11
    <2>2. \A u \in c + 2 .. (c + 2) + (K[c].size - 2) - 1 : u \in Nat
      BY <1>11
    <2> QED BY <2>1, <2>2 DEF PayUnits, Overhead
  <1>13. \A u \in PayUnits(K, S) : ~ (u \in c + 2 .. (c + 2) + (K[c].size - 2) - 1)
    <2> SUFFICES ASSUME NEW u \in PayUnits(K, S), u \in c + 2 .. (c + 2) + (K[c].size - 2) - 1
                 PROVE  FALSE
      OBVIOUS
    <2>1. PICK e \in S : e + 2 <= u /\ u < e + K[e].size
      BY DEF PayUnits, Overhead
    <2>2. u \in Nat /\ c + 2 <= u /\ u < c + K[c].size
      BY <1>10, <1>11
    <2>3. e \in DOMAIN K /\ e # c /\ e \in Nat /\ K[e].size \in Nat
      BY <1>4, <1>10
    <2>4. e + K[e].size <= c \/ c + K[c].size <= e
      <3>1. InOrder(K)
        BY CoreIs
      <3> QED BY <1>11, <2>3, <3>1 DEF InOrder
    <2> QED BY <1>10, <1>11, <2>1, <2>2, <2>3, <2>4
  <1>14. /\ IsFiniteSet(PayUnits(K, S \cup {c}))
         /\ Cardinality(PayUnits(K, S \cup {c})) = Cardinality(PayUnits(K, S)) + (K[c].size - 2)
    <2> DEFINE a == c + 2
               n == K[c].size - 2
               Q == PayUnits(K, S)
    <2>1. /\ IsFiniteSet(Q) /\ a \in Int /\ n \in Nat /\ \A u \in Q : ~ (u \in a .. a + n - 1)
          /\ PayUnits(K, S \cup {c}) = Q \cup (a .. a + n - 1)
      BY <1>4, <1>11, <1>12, <1>13
    <2> HIDE DEF a, n, Q
    <2>2. IsFiniteSet(Q \cup (a .. a + n - 1)) /\ Cardinality(Q \cup (a .. a + n - 1)) = Cardinality(Q) + n
      BY <2>1, CountAdd
    <2> QED BY <2>1, <2>2 DEF n, Q
  <1>15. g.freesz = Cardinality(PayUnits(K, S \cup {c}))
    <2>1. Cardinality(PayUnits(K, S)) \in Nat
      BY <1>4, FS_CardinalityType
    <2> QED BY <1>2, <1>4, <1>10, <1>14, <2>1 DEF Overhead
  <1>16. Binning(g, S \cup {c})
    BY <1>2, <1>4, <1>8, <1>9, <1>14, <1>15 DEF Binning
  <1> QED BY <1>2, <1>6, <1>16

PutOf(h, g, c) ==
    /\ Frame(h, g) /\ g.heap = h.heap /\ g.foot = h.foot /\ g.chunk = h.chunk
    /\ g.wrote = h.wrote \cup BinLinks(Bins(h, BinOf(h, c)) \cup {c}) \cup Node(h, c)
    /\ g.bins = Updated(h.bins, BinOf(h, c), Bins(h, BinOf(h, c)) \cup {c})
    /\ g.binmap = h.binmap \cup {BinOf(h, c)}
    /\ g.freesz = h.freesz + h.chunk[c].size - Overhead

LEMMA PutIs ==
    ASSUME NEW h, IsHeap(h), NEW c, NEW g, g = PutChunk(h, c)
    PROVE  PutOf(h, g, c)
  <1> DEFINE q == PutChunk(h, c)
  <1>1. q = PutChunk(h, c) /\ g = q
    OBVIOUS
  <1> HIDE DEF q
  <1>2. /\ Frame(h, q) /\ q.heap = h.heap /\ q.foot = h.foot /\ q.chunk = h.chunk
        /\ q.wrote = h.wrote \cup BinLinks(Bins(h, BinOf(h, c)) \cup {c}) \cup Node(h, c)
    BY <1>1 DEF PutChunk, Size, IsHeap, Frame
  <1>3. /\ q.bins = Updated(h.bins, BinOf(h, c), Bins(h, BinOf(h, c)) \cup {c})
        /\ q.binmap = h.binmap \cup {BinOf(h, c)}
    BY <1>1, PutChunkBins
  <1>4. q.freesz = h.freesz + h.chunk[c].size - Overhead
    BY <1>1, PutChunkTotal
  <1> QED BY <1>1, <1>2, <1>3, <1>4 DEF PutOf

PutKept(h, g, P, S, c) ==
    /\ Frame(h, g) /\ g.heap = h.heap /\ g.foot = h.foot /\ g.chunk = h.chunk
    /\ Core(g, P) /\ Binning(g, S \cup {c})

LEMMA PutIn ==
    ASSUME NEW h, NEW P \in SUBSET Nat, Core(h, P), NEW S, Binning(h, S),
           NEW c, IsFree(h.chunk, c), h.chunk[c].size >= MinSize, c \notin S,
           NEW g, g = PutChunk(h, c)
    PROVE  PutKept(h, g, P, S, c)
  <1> DEFINE q == PutChunk(h, c)
  <1>1. q = PutChunk(h, c) /\ g = q
    OBVIOUS
  <1> HIDE DEF q
  <1>2. c \in DOMAIN h.chunk /\ ~ h.chunk[c].cused
    BY DEF IsFree
  <1>3. /\ Frame(h, q) /\ q.heap = h.heap /\ q.foot = h.foot /\ q.chunk = h.chunk
        /\ Core(q, P) /\ Binning(q, S \cup {c})
    BY <1>1, <1>2, PutKeeps
  <1> QED BY <1>1, <1>3 DEF PutKept

LEMMA TakeKeeps ==
    ASSUME NEW h, NEW P \in SUBSET Nat, Core(h, P), NEW S, Binning(h, S), NEW c \in S,
           NEW g, g = TakeChunk(h, c)
    PROVE  /\ Frame(h, g) /\ g.heap = h.heap /\ g.foot = h.foot /\ g.chunk = h.chunk
           /\ Core(g, P) /\ Binning(g, S \ {c})
  <1> DEFINE b == BinOf(h, c)
             K == h.chunk
  <1>1. IsHeap(h)
    BY DEF Core
  <1>2. /\ Frame(h, g) /\ g.heap = h.heap /\ g.foot = h.foot /\ g.chunk = h.chunk
        /\ g.freesz = h.freesz - (h.chunk[c].size - Overhead)
        /\ g.bins = Updated(h.bins, b, Bins(h, b) \ {c})
        /\ g.binmap = IF Bins(h, b) \ {c} = {} THEN h.binmap \ {b} ELSE h.binmap
        /\ g.wrote = h.wrote \cup BinLinks(Bins(h, b)) \cup Node(h, c)
    <2>1. /\ Frame(h, g) /\ g.heap = h.heap /\ g.foot = h.foot /\ g.chunk = h.chunk
          /\ g.wrote = h.wrote \cup BinLinks(Bins(h, b)) \cup Node(h, c)
      BY <1>1, TakeChunkIs
    <2>2. /\ g.freesz = h.freesz - (h.chunk[c].size - Overhead)
          /\ g.bins = Updated(h.bins, b, Bins(h, b) \ {c})
          /\ g.binmap = IF Bins(h, b) \ {c} = {} THEN h.binmap \ {b} ELSE h.binmap
      BY <1>1 DEF TakeChunk, Size, IsHeap, Frame
    <2> QED BY <2>1, <2>2
  <1>3. HeapsFine(g) /\ Sizes(g) = Sizes(h)
    BY <1>2, FrameFine DEF Core
  <1>4. /\ \A e \in S : e \in DOMAIN h.chunk /\ ~ h.chunk[e].cused /\ h.chunk[e].size >= MinSize
        /\ \A x : Bins(h, x) = {e \in S : BinOf(h, e) = x}
        /\ h.binmap = {BinOf(h, e) : e \in S}
        /\ IsFiniteSet(PayUnits(h.chunk, S)) /\ h.freesz = Cardinality(PayUnits(h.chunk, S))
    BY DEF Binning
  <1>5. g.wrote \cap P = {}
    <2> DEFINE T == Bins(h, b)
    <2>1. \A e \in T : e \in DOMAIN h.chunk /\ ~ h.chunk[e].cused /\ h.chunk[e].size >= MinSize
      BY <1>4
    <2>2. c \in T
      BY <1>4
    <2> HIDE DEF T
    <2>3. BinLinks(T) \cap P = {} /\ Node(h, c) \cap P = {}
      BY <2>1, <2>2, LinksClear
    <2>4. h.wrote \cap P = {}
      BY DEF Core
    <2> QED BY <1>2, <2>3, <2>4 DEF T
  <1>6. Core(g, P)
    BY <1>2, <1>3, <1>5 DEF Core, Frame
  <1>7. \A e : BinOf(g, e) = BinOf(h, e)
    BY <1>2 DEF BinOf
  <1>8. ASSUME NEW x PROVE Bins(g, x) = {e \in S \ {c} : BinOf(g, e) = x}
    <2>1. CASE x = b
      <3>1. Bins(g, x) = Bins(h, b) \ {c}
        BY <1>2, <2>1 DEF Bins, Updated
      <3> QED BY <1>4, <1>7, <2>1, <3>1
    <2>2. CASE x # b
      <3>1. Bins(g, x) = Bins(h, x)
        BY <1>2, <2>2 DEF Bins, Updated
      <3> QED BY <1>4, <1>7, <2>2, <3>1
    <2> QED BY <2>1, <2>2
  <1>9. g.binmap = {BinOf(g, e) : e \in S \ {c}}
    <2>1. CASE Bins(h, b) \ {c} = {}
      BY <1>2, <1>4, <1>7, <2>1
    <2>2. CASE Bins(h, b) \ {c} # {}
      BY <1>2, <1>4, <1>7, <2>2
    <2> QED BY <2>1, <2>2
  <1>10. \A e \in DOMAIN K : e \in Nat /\ K[e].size \in Nat
    BY CoreIs
  <1>11. K[c].size - 2 \in Nat /\ c + 2 \in Int /\ c \in Nat /\ c \in DOMAIN K
    BY <1>4, <1>10 DEF MinSize
  <1> DEFINE I == c + 2 .. (c + 2) + (K[c].size - 2) - 1
  <1>12. \A u \in Nat : c + 2 <= u /\ u < c + K[c].size <=> u \in I
    BY <1>10, <1>11
  <1>13. I \subseteq PayUnits(K, S)
    <2>1. \A u \in I : u \in Nat
      BY <1>11
    <2> QED BY <1>12, <2>1 DEF PayUnits, Overhead
  <1>14. ASSUME NEW e \in S \ {c}, NEW u \in Nat, e + 2 <= u, u < e + K[e].size PROVE u \notin I
    <2>1. ~ (c + 2 <= u /\ u < c + K[c].size)
      <3>1. e \in DOMAIN K /\ e # c /\ e \in Nat /\ K[e].size \in Nat
        BY <1>4, <1>10
      <3>2. e + K[e].size <= c \/ c + K[c].size <= e
        <4>1. InOrder(K)
          BY CoreIs
        <4> QED BY <1>11, <3>1, <4>1 DEF InOrder
      <3> QED BY <1>10, <1>11, <1>14, <3>1, <3>2
    <2> QED BY <1>12, <2>1
  <1>15. PayUnits(K, S \ {c}) = PayUnits(K, S) \ I
    <2> HIDE DEF I
    <2>1. ASSUME NEW u \in PayUnits(K, S \ {c}) PROVE u \in PayUnits(K, S) /\ u \notin I
      BY <1>14 DEF PayUnits, Overhead
    <2>2. ASSUME NEW u \in PayUnits(K, S), u \notin I PROVE u \in PayUnits(K, S \ {c})
      <3>1. PICK e \in S : e + Overhead <= u /\ u < e + K[e].size
        BY DEF PayUnits
      <3>2. u \in Nat
        BY DEF PayUnits
      <3>3. e # c
        BY <1>12, <2>2, <3>1, <3>2 DEF Overhead
      <3> QED BY <3>1, <3>2, <3>3 DEF PayUnits
    <2> QED BY <2>1, <2>2
  <1>16. /\ IsFiniteSet(PayUnits(K, S \ {c}))
         /\ Cardinality(PayUnits(K, S \ {c})) = Cardinality(PayUnits(K, S)) - (K[c].size - 2)
    <2> DEFINE a == c + 2
               n == K[c].size - 2
               Q == PayUnits(K, S)
    <2>1. /\ IsFiniteSet(Q) /\ a \in Int /\ n \in Nat /\ a .. a + n - 1 \subseteq Q
          /\ PayUnits(K, S \ {c}) = Q \ (a .. a + n - 1)
      BY <1>4, <1>11, <1>13, <1>15
    <2> HIDE DEF a, n, Q
    <2>2. IsFiniteSet(Q \ (a .. a + n - 1)) /\ Cardinality(Q \ (a .. a + n - 1)) = Cardinality(Q) - n
      BY <2>1, CountSub
    <2> QED BY <2>1, <2>2 DEF n, Q
  <1>17. g.freesz = Cardinality(PayUnits(K, S \ {c}))
    BY <1>2, <1>4, <1>16 DEF Overhead
  <1>18. Binning(g, S \ {c})
    BY <1>2, <1>4, <1>8, <1>9, <1>16, <1>17 DEF Binning
  <1> QED BY <1>2, <1>6, <1>18

LEMMA BinFrame ==
    ASSUME NEW h, NEW g, NEW S, Binning(h, S), SameBins(h, g),
           \A c \in S : c \in DOMAIN g.chunk /\ ~ g.chunk[c].cused /\ g.chunk[c].size = h.chunk[c].size
    PROVE  Binning(g, S)
  <1>1. /\ \A e \in S : e \in DOMAIN h.chunk /\ ~ h.chunk[e].cused /\ h.chunk[e].size >= MinSize
        /\ \A x : Bins(h, x) = {e \in S : BinOf(h, e) = x}
        /\ h.binmap = {BinOf(h, e) : e \in S}
        /\ IsFiniteSet(PayUnits(h.chunk, S)) /\ h.freesz = Cardinality(PayUnits(h.chunk, S))
    BY DEF Binning
  <1>2. \A e \in S : BinOf(g, e) = BinOf(h, e)
    BY DEF BinOf
  <1>3. \A x : Bins(g, x) = Bins(h, x)
    BY DEF Bins, SameBins
  <1>4. PayUnits(g.chunk, S) = PayUnits(h.chunk, S)
    BY DEF PayUnits
  <1>5. \A x : Bins(g, x) = {e \in S : BinOf(g, e) = x}
    BY <1>1, <1>2, <1>3
  <1>6. g.binmap = {BinOf(g, e) : e \in S}
    BY <1>1, <1>2 DEF SameBins
  <1>7. \A e \in S : e \in DOMAIN g.chunk /\ ~ g.chunk[e].cused /\ g.chunk[e].size >= MinSize
    BY <1>1
  <1> QED BY <1>1, <1>4, <1>5, <1>6, <1>7 DEF Binning, SameBins

LEMMA CoreStep ==
    ASSUME NEW h, NEW P, Core(h, P), NEW g, Frame(h, g), g.heap = h.heap,
           Grid(Sizes(h), g.chunk), Clear(g.chunk, P), g.wrote \cap P = {}
    PROVE  Core(g, P) /\ Sizes(g) = Sizes(h)
  <1>1. HeapsFine(g) /\ Sizes(g) = Sizes(h)
    BY FrameFine DEF Core
  <1> QED BY <1>1 DEF Core, Frame

\* Nothing in a free chunk is a caller's
LEMMA FreeIsClear ==
    ASSUME NEW h, NEW P \in SUBSET Nat, Core(h, P), NEW c \in DOMAIN h.chunk, ~ h.chunk[c].cused,
           NEW a, c <= a, a < c + h.chunk[c].size
    PROVE  a \notin P
BY DEF Core, Clear

LEMMA HeaderIsClear ==
    ASSUME NEW h, NEW P, Core(h, P), NEW c \in DOMAIN h.chunk
    PROVE  c \notin P /\ c + 1 \notin P
BY DEF Core, Clear

\* A free chunk was cut and what is behind put in a bin
SplitDone(h, g, P, S, c, k, n) ==
    /\ Frame(h, g) /\ g.heap = h.heap /\ g.chunk = Divide(h.chunk, c, k)
    /\ g.foot = Updated(h.foot, c + h.chunk[c].size - 1, h.chunk[c].size - k)
    /\ Core(g, P) /\ Binning(g, (S \ {c}) \cup {n})

LEMMA SplitKeeps ==
    ASSUME NEW h, NEW P \in SUBSET Nat, Core(h, P), NEW S, Binning(h, S), NEW c \in S,
           h.chunk[c].pused, NEW k \in Nat, Overhead <= k, k + MinSize <= h.chunk[c].size,
           NEW g, g = Split(h, c, k), NEW n, n = c + k
    PROVE  SplitDone(h, g, P, S, c, k, n)
  <1> DEFINE K == h.chunk
             b == K[c].heap
             s == K[c].size - k
             h0 == TakeChunk(h, c)
             h1 == Leave(h0, n, b, s)
             hdr == [size |-> k, heap |-> b, cused |-> FALSE, pused |-> TRUE]
             h2 == SetHeader(h1, c, hdr)
             D == Divide(K, c, k)
  <1>1. /\ IsHeap(h) /\ AreChunks(K) /\ InOrder(K) /\ Grid(Sizes(h), K)
        /\ \A e \in DOMAIN K : e \in Nat /\ K[e].size \in Nat /\ K[e].cused \in BOOLEAN /\ K[e].pused \in BOOLEAN
    BY CoreIs
  <1>2. c \in DOMAIN K /\ ~ K[c].cused
    BY DEF Binning
  <1>3. /\ Frame(h, h0) /\ h0.heap = h.heap /\ h0.foot = h.foot /\ h0.chunk = K
        /\ Core(h0, P) /\ Binning(h0, S \ {c})
    BY TakeKeeps
  <1>4. g = PutChunk(h2, n)
    BY DEF Split, HeapOf, Size, Leave
  <1>5. s \in Nat /\ s >= 5 /\ k >= 2 /\ n = c + k /\ n + s = c + K[c].size /\ n \in Nat /\ c \in Nat
    BY <1>1, <1>2 DEF MinSize, Overhead
  <1> HIDE DEF h0
  <1>6. IsHeap(h0)
    BY <1>3 DEF Core
  <1>7. /\ Frame(h0, h1) /\ SameBins(h0, h1) /\ h1.heap = h0.heap
        /\ h1.chunk = Updated(K, n, Left(s, b))
        /\ h1.foot = Updated(h.foot, n + s - 1, s)
        /\ h1.wrote = h0.wrote \cup {n, n + 1, n + 2, n + 3, n + s - 1}
    <2>1. h1 = Leave(h0, n, b, s)
      OBVIOUS
    <2> HIDE DEF h1, b, s
    <2> QED BY <1>3, <1>6, <2>1, InitLeft
  <1> HIDE DEF h1
  <1>8. IsHeap(h1)
    BY <1>7 DEF Frame
  <1>9. /\ Frame(h1, h2) /\ SameBins(h1, h2) /\ h2.heap = h1.heap /\ h2.foot = h1.foot
        /\ h2.chunk = Updated(h1.chunk, c, hdr)
        /\ h2.wrote = h1.wrote \cup {c, c + 1}
    BY <1>8, SetHeaderIs
  <1> HIDE DEF h2
  <1>10. h2.chunk = D
    <2> DEFINE X == Hdr(k, b, K[c].cused, K[c].pused)
               Y == Hdr(s, b, FALSE, K[c].cused)
    <2>1. K[c].cused = FALSE /\ K[c].pused = TRUE
      BY <1>1, <1>2
    <2>2. X = hdr
      BY <2>1 DEF Hdr
    <2>3. Y = Left(s, b)
      BY <2>1 DEF Left
    <2>4. D = [d \in DOMAIN K \cup {n} |-> IF d = c THEN X ELSE IF d = n THEN Y ELSE K[d]]
      BY Zenon DEF Divide
    <2>5. h2.chunk = Updated(Updated(K, n, Y), c, X)
      BY <1>7, <1>9, <2>2, <2>3
    <2> HIDE DEF X, Y
    <2>6. Updated(Updated(K, n, Y), c, X)
             = [d \in DOMAIN K \cup {n} |-> IF d = c THEN X ELSE IF d = n THEN Y ELSE K[d]]
      BY <1>2 DEF Updated
    <2> QED BY <2>4, <2>5, <2>6
  <1>11. n \in DOMAIN D /\ D[n].size = s /\ ~ D[n].cused /\ n \notin DOMAIN K
         /\ \A e \in DOMAIN K : e # c => D[e] = K[e] /\ e \in DOMAIN D
    <2>1. k + Overhead <= K[c].size
      BY <1>1, <1>2 DEF MinSize, Overhead
    <2>2. DOMAIN D = DOMAIN K \cup {n} /\ n \notin DOMAIN K
          /\ D[n].size = s /\ ~ D[n].cused
          /\ \A e \in DOMAIN K : e # c => D[e] = K[e]
      <3>1. Divided(K, c, k, n, D)
        BY <1>1, <1>2, <2>1, DivideIs
      <3> QED BY <3>1 DEF Divided
    <2> QED BY <2>2
  <1>12. Grid(Sizes(h), D) /\ Clear(D, P)
    <2>1. k + Overhead <= K[c].size
      BY <1>1, <1>2 DEF MinSize, Overhead
    <2>2. Grid(Sizes(h), D)
      <3>1. \A x \in DOMAIN Sizes(h) : x \in Nat /\ Sizes(h)[x] \in Nat
        BY CoreIs
      <3> QED BY <1>1, <1>2, <2>1, <3>1, DivideGrid
    <2>3. Clear(D, P)
      BY <1>1, <1>2, <2>1, DivideUnits DEF Core
    <2> QED BY <2>2, <2>3
  <1>13. h2.wrote \cap P = {}
    <2>1. n \notin P /\ n + 1 \notin P /\ n + 2 \notin P /\ n + 3 \notin P /\ n + s - 1 \notin P
      <3>1. \A a \in Nat : c <= a /\ a < c + K[c].size => a \notin P
        BY <1>2, FreeIsClear
      <3> QED BY <1>5, <3>1
    <2>2. c \notin P /\ c + 1 \notin P
      BY <1>2, HeaderIsClear
    <2>3. h0.wrote \cap P = {}
      BY <1>3 DEF Core
    <2> QED BY <1>7, <1>9, <2>1, <2>2, <2>3
  <1>14. Frame(h, h2) /\ h2.heap = h.heap
    BY <1>3, <1>7, <1>9, FrameTrans
  <1> HIDE DEF D, K, hdr
  <1>15. Core(h2, P)
    BY <1>10, <1>12, <1>13, <1>14, CoreStep
  <1>16. Binning(h2, S \ {c})
    <2>1. SameBins(h0, h2)
      BY <1>7, <1>9 DEF SameBins
    <2>2. \A e \in S \ {c} : e \in DOMAIN h2.chunk /\ ~ h2.chunk[e].cused /\ h2.chunk[e].size = h0.chunk[e].size
      BY <1>3, <1>10, <1>11 DEF Binning
    <2> QED BY <1>3, <2>1, <2>2, BinFrame
  <1>17. n \in DOMAIN h2.chunk /\ ~ h2.chunk[n].cused /\ h2.chunk[n].size >= MinSize /\ n \notin S \ {c}
    <2>1. \A e \in S : e \in DOMAIN K
      BY DEF Binning, K
    <2> QED BY <1>5, <1>10, <1>11, <2>1 DEF MinSize
  <1>18. /\ Frame(h2, g) /\ g.heap = h2.heap /\ g.foot = h2.foot /\ g.chunk = h2.chunk
         /\ Core(g, P) /\ Binning(g, (S \ {c}) \cup {n})
    BY <1>4, <1>15, <1>16, <1>17, PutKeeps
  <1>19. Frame(h, g)
    BY <1>14, <1>18, FrameTrans
  <1>20. g.foot = Updated(h.foot, c + K[c].size - 1, s)
    <2>1. n + s - 1 = c + K[c].size - 1
      BY <1>1, <1>2, <1>5 DEF K
    <2> QED BY <1>7, <1>9, <1>18, <2>1
  <1> QED BY <1>10, <1>14, <1>18, <1>19, <1>20 DEF D, K, SplitDone

LEMMA MergeIs ==
    ASSUME NEW h, IsHeap(h), AreChunks(h.chunk), NEW c \in DOMAIN h.chunk, NEW d \in DOMAIN h.chunk,
           c # d, NEW g, g = Merge(h, c, d)
    PROVE  /\ Frame(h, g) /\ SameBins(h, g) /\ g.heap = h.heap /\ g.foot = h.foot
           /\ g.chunk = Unite(h.chunk, c, d)
           /\ g.wrote = h.wrote \cup {c, c + 1}
  <1> DEFINE K == h.chunk
             by == K[d].size
             hdr == [K[c] EXCEPT !.size = @ + by]
             h1 == SetHeader(h, c, hdr)
             X == Hdr(K[c].size + K[d].size, K[c].heap, K[c].cused, K[c].pused)
  <1>1. g = Forget(h1, {d})
    BY DEF Merge, Lengthen, Size
  <1>2. hdr = X
    BY ChunkIs DEF Chunk, Hdr
  <1> HIDE DEF hdr
  <1>3. /\ Frame(h, h1) /\ SameBins(h, h1) /\ h1.heap = h.heap /\ h1.foot = h.foot
        /\ h1.chunk = Updated(h.chunk, c, hdr)
        /\ h1.wrote = h.wrote \cup {c, c + 1}
    BY SetHeaderIs
  <1> HIDE DEF h1
  <1>4. IsHeap(h1)
    BY <1>3 DEF Frame
  <1>5. /\ Frame(h1, g) /\ SameBins(h1, g) /\ g.heap = h1.heap /\ g.foot = h1.foot
        /\ g.chunk = [e \in DOMAIN h1.chunk \ {d} |-> h1.chunk[e]]
        /\ g.wrote = h1.wrote
    BY <1>1, <1>4, ForgetIs DEF Forgot
  <1>6. g.chunk = Unite(K, c, d)
    <2>1. Unite(K, c, d) = [e \in DOMAIN K \ {d} |-> IF e = c THEN X ELSE K[e]]
      BY Zenon DEF Unite
    <2> HIDE DEF X
    <2>2. g.chunk = [e \in DOMAIN K \ {d} |-> IF e = c THEN X ELSE K[e]]
      BY <1>2, <1>3, <1>5 DEF Updated
    <2> QED BY <2>1, <2>2
  <1>7. Frame(h, g)
    BY <1>3, <1>5, FrameTrans
  <1> QED BY <1>3, <1>5, <1>6, <1>7 DEF SameBins

LEMMA AbsorbKeeps ==
    ASSUME NEW h, NEW P \in SUBSET Nat, Core(h, P), NEW S, Binning(h, S), NEW c \in S, NEW d \in S,
           d = c + h.chunk[c].size, h.chunk[d].heap = h.chunk[c].heap, NEW g, g = Absorb(h, c, d)
    PROVE  /\ Frame(h, g) /\ g.heap = h.heap /\ g.foot = h.foot
           /\ g.chunk = Unite(h.chunk, c, d)
           /\ Core(g, P) /\ Binning(g, S \ {d})
  <1> DEFINE K == h.chunk
             h1 == TakeChunk(h, c)
             h2 == TakeChunk(h1, d)
             h3 == Merge(h2, c, d)
             U == Unite(K, c, d)
  <1>1. /\ IsHeap(h) /\ AreChunks(K) /\ InOrder(K) /\ Grid(Sizes(h), K)
        /\ \A e \in DOMAIN K : e \in Nat /\ K[e].size \in Nat /\ K[e].cused \in BOOLEAN /\ K[e].size >= 2
    BY CoreIs
  <1>2. /\ c \in DOMAIN K /\ ~ K[c].cused /\ d \in DOMAIN K /\ ~ K[d].cused
        /\ K[c].size >= MinSize
    BY DEF Binning
  <1>3. c < d /\ c # d
    BY <1>1, <1>2
  <1>4. /\ Frame(h, h1) /\ h1.heap = h.heap /\ h1.foot = h.foot /\ h1.chunk = K
        /\ Core(h1, P) /\ Binning(h1, S \ {c})
    BY TakeKeeps
  <1>5. g = PutChunk(h3, c)
    BY DEF Absorb, Size
  <1> HIDE DEF h1
  <1>6. d \in S \ {c}
    BY <1>3
  <1>7. /\ Frame(h1, h2) /\ h2.heap = h1.heap /\ h2.foot = h1.foot /\ h2.chunk = h1.chunk
        /\ Core(h2, P) /\ Binning(h2, (S \ {c}) \ {d})
    <2>1. h2 = TakeChunk(h1, d)
      OBVIOUS
    <2>2. Core(h1, P) /\ Binning(h1, S \ {c}) /\ P \in SUBSET Nat
      BY <1>4
    <2> HIDE DEF h2
    <2> QED BY <1>6, <2>1, <2>2, TakeKeeps
  <1> HIDE DEF h2
  <1>8. IsHeap(h2) /\ h2.chunk = K
    BY <1>4, <1>7 DEF Core
  <1>9. /\ Frame(h2, h3) /\ SameBins(h2, h3) /\ h3.heap = h2.heap /\ h3.foot = h2.foot
        /\ h3.chunk = U
        /\ h3.wrote = h2.wrote \cup {c, c + 1}
    <2>1. h3 = Merge(h2, c, d) /\ c # d /\ IsHeap(h2)
      BY <1>3, <1>8
    <2>2. AreChunks(h2.chunk) /\ c \in DOMAIN h2.chunk /\ d \in DOMAIN h2.chunk
      BY <1>1, <1>2, <1>8
    <2>3. U = Unite(h2.chunk, c, d)
      BY <1>8
    <2> HIDE DEF h3, U
    <2>4. /\ Frame(h2, h3) /\ SameBins(h2, h3) /\ h3.heap = h2.heap /\ h3.foot = h2.foot
          /\ h3.chunk = Unite(h2.chunk, c, d)
          /\ h3.wrote = h2.wrote \cup {c, c + 1}
      BY <2>1, <2>2, MergeIs
    <2> QED BY <2>3, <2>4
  <1> HIDE DEF h3
  <1>10. /\ DOMAIN U = DOMAIN K \ {d} /\ c \in DOMAIN U
         /\ U[c].size = K[c].size + K[d].size /\ U[c].cused = K[c].cused
         /\ \A e \in DOMAIN K : e # c /\ e # d => U[e] = K[e]
    BY <1>1, <1>2, <1>3, UniteIs
  <1>11. Grid(Sizes(h), U)
    BY <1>1, <1>2, UniteGrid
  <1>12. Clear(U, P)
    <2>1. K[c].cused = K[d].cused
      BY <1>1, <1>2
    <2>2. Clear(K, P)
      BY DEF Core
    <2>3. U = Unite(K, c, d) /\ d = c + K[c].size /\ K[d].heap = K[c].heap
      OBVIOUS
    <2> HIDE DEF U, K
    <2> QED BY <1>1, <1>2, <1>3, <2>1, <2>2, <2>3, UniteUnits
  <1> HIDE DEF U
  <1>13. Frame(h, h3) /\ h3.heap = h.heap /\ h3.foot = h.foot
    BY <1>4, <1>7, <1>9, FrameTrans
  <1>14. h3.wrote \cap P = {}
    <2>1. c \notin P /\ c + 1 \notin P
      BY <1>2, HeaderIsClear
    <2>2. h2.wrote \cap P = {}
      BY <1>7 DEF Core
    <2> QED BY <1>9, <2>1, <2>2
  <1>15. Core(h3, P)
    BY <1>9, <1>11, <1>12, <1>13, <1>14, CoreStep
  <1>16. Binning(h3, (S \ {c}) \ {d})
    <2>1. \A e \in (S \ {c}) \ {d} : /\ e \in DOMAIN h3.chunk /\ ~ h3.chunk[e].cused
                                     /\ h3.chunk[e].size = h2.chunk[e].size
      BY <1>8, <1>9, <1>10 DEF Binning
    <2> QED BY <1>7, <1>9, <2>1, BinFrame
  <1>17. c \in DOMAIN h3.chunk /\ ~ h3.chunk[c].cused /\ h3.chunk[c].size >= MinSize
         /\ c \notin (S \ {c}) \ {d}
    BY <1>1, <1>2, <1>9, <1>10 DEF MinSize
  <1>18. /\ Frame(h3, g) /\ g.heap = h3.heap /\ g.foot = h3.foot /\ g.chunk = h3.chunk
         /\ Core(g, P) /\ Binning(g, ((S \ {c}) \ {d}) \cup {c})
    BY <1>5, <1>15, <1>16, <1>17, PutKeeps
  <1>19. ((S \ {c}) \ {d}) \cup {c} = S \ {d}
    BY <1>3
  <1>20. Frame(h, g)
    BY <1>13, <1>18, FrameTrans
  <1> QED BY <1>9, <1>13, <1>18, <1>19, <1>20 DEF U

(* The neighbours of a chunk                                               *)

LEMMA ChunksFinite ==
    ASSUME NEW h, NEW P, Core(h, P)
    PROVE  /\ IsFiniteSet(DOMAIN h.chunk) /\ Cardinality(DOMAIN h.chunk) \in Nat
           /\ \A c \in DOMAIN h.chunk : Cardinality(DOMAIN h.chunk) # 0
           /\ IsFiniteSet(DOMAIN h.heap)
  <1>1. h.lo \in Nat /\ h.hi \in Nat
    BY DEF Core, HeapsFine
  <1>2. \A b \in DOMAIN h.heap : b \in Nat /\ b < h.hi /\ b + h.heap[b].size <= h.hi /\ h.heap[b].size \in Nat
    BY DEF Core, HeapsFine
  <1>3. DOMAIN h.heap \subseteq 0 .. h.hi
    BY <1>1, <1>2
  <1>4. ASSUME NEW c \in DOMAIN h.chunk PROVE c \in 0 .. h.hi
    <2> DEFINE b == h.chunk[c].heap
    <2>1. c \in Nat /\ b \in DOMAIN h.heap /\ h.chunk[c].size \in Nat
          /\ c + h.chunk[c].size <= b + h.heap[b].size
      BY CoreIs
    <2> QED BY <1>1, <1>2, <2>1
  <1>5. IsFiniteSet(0 .. h.hi)
    BY <1>1, FS_Interval
  <1>6. IsFiniteSet(DOMAIN h.heap) /\ IsFiniteSet(DOMAIN h.chunk)
    BY <1>3, <1>4, <1>5, FS_Subset
  <1> QED BY <1>6, FS_CardinalityType, FS_EmptySet

LEMMA HeapIsValid ==
    ASSUME NEW h, HeapsFine(h), NEW b \in DOMAIN h.heap
    PROVE  HeapSizeValid(h, b)
BY DEF HeapsFine, HeapSizeValid

LEMMA ValidIs ==
    ASSUME NEW h, NEW P, Core(h, P), NEW c \in DOMAIN h.chunk, h.chunk[c].size >= MinSize
    PROVE  ChunkValid(h, c, h.chunk[c].heap)
  <1> DEFINE b == h.chunk[c].heap
  <1>1. /\ b \in DOMAIN h.heap /\ b + 2 <= c /\ c \in Nat /\ b \in Nat /\ h.heap[b].size \in Nat
        /\ h.chunk[c].size \in Nat /\ c + h.chunk[c].size <= b + h.heap[b].size
        /\ h.chunk[c].size >= 2
    BY CoreIs
  <1>2. HeapsFine(h)
    BY DEF Core
  <1>3. HeapSizeValid(h, b)
    BY <1>1, <1>2, HeapIsValid
  <1>4. ASSUME NEW i \in DOMAIN h.released
        PROVE  ~ (h.released[i].base <= c /\ c < h.released[i].base + h.released[i].size)
    <2>1. /\ h.released[i].base \in Nat /\ h.released[i].size \in Nat
          /\ \/ h.released[i].base + h.released[i].size <= b
             \/ b + h.heap[b].size <= h.released[i].base
      BY <1>1, <1>2 DEF HeapsFine
    <2> QED BY <1>1, <2>1
  <1>5. ~ Released(h, c)
    BY <1>4 DEF Released
  <1>6. b + Header <= c /\ c < b + h.heap[b].size
    BY <1>1 DEF Header
  <1> QED BY <1>1, <1>3, <1>5, <1>6 DEF ChunkValid, Size

LEMMA NextIs ==
    ASSUME NEW h, HeapsFine(h), NEW K, Grid(Sizes(h), K), NEW c \in DOMAIN K,
           h.chunk[c].size = K[c].size, h.chunk[c].heap = K[c].heap,
           NEW n, n = c + K[c].size, n \in DOMAIN K => K[n].size >= MinSize
    PROVE  /\ n \in DOMAIN K => NextOf(h, c) = n /\ ~ IsLastIn(h, c, K[c].heap) /\ n # NoChunk
           /\ n \notin DOMAIN K => NextOf(h, c) = NoChunk /\ IsLastIn(h, c, K[c].heap)
  <1> DEFINE b == K[c].heap
             Z == Sizes(h)
  <1>1. /\ Apart(Z) /\ DOMAIN Z = DOMAIN h.heap
        /\ \A x \in DOMAIN h.heap : Z[x] = h.heap[x].size /\ x \in Nat /\ h.heap[x].size \in Nat
    BY SizesApart
  <1>2. AreChunks(K) /\ Lies(Z, K, c)
    BY DEF Grid
  <1>3. /\ c \in Nat /\ K[c].size \in Nat /\ b \in DOMAIN h.heap /\ K[c].size >= 2
        /\ (n = b + h.heap[b].size \/ n \in DOMAIN K)
    BY <1>1, <1>2, ChunkIs DEF Lies, Overhead
  <1>4. HeapSizeValid(h, b)
    BY <1>3, HeapIsValid
  <1>5. CASE n \in DOMAIN K
    <2>1. Behind(K, c, n)
      BY <1>5 DEF Behind
    <2>2. K[n].heap = b
      BY <1>1, <2>1, BehindHeap
    <2>3. Lies(Z, K, n) /\ K[n].size \in Nat /\ K[n].size >= 5 /\ n \in Nat
      BY <1>2, <1>5, ChunkIs DEF Grid, MinSize
    <2>4. n + K[n].size <= b + h.heap[b].size
      BY <1>1, <1>3, <2>2, <2>3 DEF Lies
    <2>5. ~ (n + 5 > b + h.heap[b].size)
      BY <1>1, <1>3, <2>3, <2>4
    <2>6. ~ IsLastIn(h, c, b)
      BY <1>4, <2>5 DEF IsLastIn, MinSize, Size
    <2> QED BY <1>3, <1>5, <2>6 DEF NextOf, HeapOf, Size, NoChunk
  <1>6. CASE n \notin DOMAIN K
    <2>1. n + 5 > b + h.heap[b].size
      BY <1>1, <1>3, <1>6
    <2>2. IsLastIn(h, c, b)
      BY <2>1 DEF IsLastIn, MinSize, Size
    <2> QED BY <1>6, <2>2 DEF NextOf, HeapOf, Size, NoChunk
  <1> QED BY <1>5, <1>6

\* The free chunk before c is found
PrevFound(h, c) ==
    /\ CanJoinPrev(h, c, h.chunk[c].heap)
    /\ Behind(h.chunk, PrevOf(h, c), c) /\ ~ h.chunk[PrevOf(h, c)].cused
    /\ h.chunk[PrevOf(h, c)].heap = h.chunk[c].heap

LEMMA PrevIs ==
    ASSUME NEW h, NEW P, Core(h, P), NEW X, Flags(Sizes(h), h.chunk, X), NEW Y,
           Feet(h.chunk, h.foot, Y), AtLeast(h.chunk, {}),
           NEW c \in DOMAIN h.chunk, ~ h.chunk[c].pused, X \cup Y \subseteq {c}
    PROVE  PrevFound(h, c)
  <1> DEFINE K == h.chunk
             Z == Sizes(h)
             b == K[c].heap
  <1>1. /\ DOMAIN Z = DOMAIN h.heap
        /\ \A e \in DOMAIN K : e \in Nat /\ K[e].size \in Nat /\ K[e].heap \in DOMAIN h.heap
                               /\ K[e].size >= 2 /\ K[e].heap + 2 <= e /\ K[e].heap \in Nat
    BY CoreIs
  <1>2. Lies(Z, K, c) /\ \A x \in DOMAIN Z : K[x + Header].pused
    BY DEF Core, Grid, Flags
  <1>3. c # b + Header
    BY <1>1, <1>2
  <1>4. PICK d \in DOMAIN K : K[d].heap = b /\ d + K[d].size = c
    BY <1>2, <1>3 DEF Lies
  <1>5. d # c /\ d \notin X /\ d \notin Y /\ d # 0 /\ d \in Nat
    BY <1>1, <1>4
  <1>6. Behind(K, d, c)
    BY <1>4 DEF Behind
  <1>7. ~ K[d].cused
    BY <1>5, <1>6 DEF Flags
  <1>8. FootAt(h.foot, c - 1) = K[d].size
    <2>1. FootAt(h.foot, d + K[d].size - 1) = K[d].size
      BY <1>5, <1>7 DEF Feet
    <2>2. d + K[d].size - 1 = c - 1
      BY <1>1, <1>4
    <2> QED BY <2>1, <2>2, Zenon
  <1>9. PrevOf(h, c) = d
    <2>1. Footer(h, c - 1) = K[d].size
      BY <1>8 DEF FootAt, Footer
    <2>2. K[d].size # 0 /\ c - K[d].size = d
      BY <1>1, <1>4
    <2> QED BY <2>1, <2>2 DEF PrevOf
  <1>10. ChunkValid(h, d, b)
    <2>1. K[d].size >= MinSize
      BY DEF AtLeast
    <2> QED BY <1>4, <2>1, ValidIs
  <1>11. ~ IsFirst(h, c)
    BY <1>3 DEF IsFirst, HeapOf
  <1> QED BY <1>4, <1>5, <1>6, <1>7, <1>9, <1>10, <1>11 DEF CanJoinPrev, NoChunk, PrevFound

WithFreesz(H, b, v) == [H EXCEPT ![b].freesz = v]

\* The heaps of g are those of h but for the count of b, now v
Refined(h, g, b, v) ==
    /\ HeapsFine(g) /\ Sizes(g) = Sizes(h) /\ DOMAIN g.heap = DOMAIN h.heap
    /\ g.heap[b].freesz = v
    /\ \A x \in DOMAIN h.heap : /\ g.heap[x].size = h.heap[x].size
                                /\ x # b => g.heap[x] = h.heap[x]

LEMMA FreeszFine ==
    ASSUME NEW h, HeapsFine(h), NEW g, Frame(h, g), NEW b \in DOMAIN h.heap, NEW v \in Int,
           g.heap = WithFreesz(h.heap, b, v)
    PROVE  Refined(h, g, b, v)
  <1>1. \A x \in DOMAIN h.heap : h.heap[x] \in [size : Nat, freesz : Int]
    BY DEF HeapsFine
  <1>2. /\ DOMAIN g.heap = DOMAIN h.heap /\ g.heap[b].freesz = v
        /\ \A x \in DOMAIN h.heap : /\ g.heap[x].size = h.heap[x].size
                                    /\ g.heap[x] \in [size : Nat, freesz : Int]
                                    /\ x # b => g.heap[x] = h.heap[x]
    BY <1>1 DEF WithFreesz
  <1>3. Sizes(g) = Sizes(h)
    BY <1>2 DEF Sizes
  <1>4. Mapped(g) = Mapped(h)
    BY <1>2 DEF Mapped
  <1>5. HeapsFine(g)
    BY <1>2, <1>4 DEF HeapsFine, Frame
  <1> QED BY <1>2, <1>3, <1>5 DEF Refined

\* The chunk behind c was told whether c is used
Told(h, g, K, c, u) ==
    /\ Frame(h, g) /\ SameBins(h, g) /\ g.heap = h.heap /\ g.foot = h.foot
    /\ g.chunk = Mark(K, c, u)
    /\ g.wrote \subseteq h.wrote \cup DOMAIN K

LEMMA TellIs ==
    ASSUME NEW h, IsHeap(h), HeapsFine(h), NEW K, Grid(Sizes(h), K), NEW c \in DOMAIN K,
           NEW u \in BOOLEAN, h.chunk = WithUsed(K, c, u),
           NEW n, n = c + K[c].size, n \in DOMAIN K => K[n].size >= MinSize,
           NEW g, g = TellNext(h, c, u)
    PROVE  Told(h, g, K, c, u)
  <1>1. AreChunks(K) /\ Lies(Sizes(h), K, c)
    BY DEF Grid
  <1>2. /\ c \in Nat /\ K[c].size \in Nat /\ K[c].size >= 2 /\ n # c
        /\ K[c] = Hdr(K[c].size, K[c].heap, K[c].cused, K[c].pused)
    BY <1>1, ChunkIs DEF Lies, Overhead
  <1>3. h.chunk[c].size = K[c].size /\ h.chunk[c].heap = K[c].heap
    BY <1>1, ChunkIs DEF Chunk, WithUsed
  <1>4. [K[c] EXCEPT !.cused = u] = Hdr(K[c].size, K[c].heap, u, K[c].pused)
    BY <1>1, ChunkIs DEF Chunk, Hdr
  <1> DEFINE H == Hdr(K[c].size, K[c].heap, u, K[c].pused)
  <1>5. h.chunk = [d \in DOMAIN K |-> IF d = c THEN H ELSE K[d]]
    BY <1>4 DEF WithUsed
  <1>6. CASE n \in DOMAIN K
    <2> DEFINE N == Hdr(K[n].size, K[n].heap, K[n].cused, u)
    <2>1. NextOf(h, c) = n /\ n # NoChunk
      BY <1>3, <1>6, NextIs
    <2>3. /\ Frame(h, g) /\ SameBins(h, g) /\ g.heap = h.heap /\ g.foot = h.foot
          /\ g.chunk = WithPrevUsed(h.chunk, n, u)
          /\ g.wrote = h.wrote \cup {n}
      BY <2>1, TellNextIs
    <2>4. [K[n] EXCEPT !.pused = u] = N
      BY <1>1, <1>6, ChunkIs DEF Chunk, Hdr
    <2>5. Mark(K, c, u) = [d \in DOMAIN K |-> IF d = c THEN H ELSE IF d = n THEN N ELSE K[d]]
      BY DEF Mark
    <2> HIDE DEF H, N
    <2>6. g.chunk = [d \in DOMAIN K |-> IF d = c THEN H ELSE IF d = n THEN N ELSE K[d]]
      BY <1>2, <1>5, <1>6, <2>3, <2>4 DEF WithPrevUsed
    <2>7. g.chunk = Mark(K, c, u) /\ g.wrote \subseteq h.wrote \cup DOMAIN K
      BY <1>6, <2>3, <2>5, <2>6
    <2> QED BY <2>3, <2>7 DEF Told
  <1>7. CASE n \notin DOMAIN K
    <2>1. NextOf(h, c) = NoChunk
      BY <1>3, <1>7, NextIs
    <2>2. g = h
      BY <2>1 DEF TellNext, SetPrevUsed
    <2>3. Mark(K, c, u) = [d \in DOMAIN K |-> IF d = c THEN H ELSE K[d]]
      BY <1>7 DEF Mark
    <2>4. Frame(h, g) /\ SameBins(h, g)
      BY <2>2, FrameSelf DEF SameBins
    <2>5. g.chunk = Mark(K, c, u) /\ g.heap = h.heap /\ g.foot = h.foot /\ g.wrote = h.wrote
      BY <1>5, <2>2, <2>3
    <2> QED BY <2>4, <2>5 DEF Told
  <1> QED BY <1>6, <1>7

(* The same, for each step of a section                                    *)

IsUsed(K, c) == c \in DOMAIN K /\ K[c].cused
Take(K, c) == Mark(K, c, TRUE)
Give(K, c) == Mark(K, c, FALSE)
\* c can be cut k units on, at n
CutAt(K, c, k, n) == k \in Nat /\ n = c + k /\ Overhead <= k /\ k + MinSize <= K[c].size

LEMMA ChunkIn ==
    ASSUME NEW Z, NEW K, Grid(Z, K), NEW c \in DOMAIN K
    PROVE  /\ AreChunks(K) /\ InOrder(K) /\ c \in Nat /\ K[c].size \in Nat /\ K[c].size >= 2
           /\ K[c].cused \in BOOLEAN /\ K[c].pused \in BOOLEAN
           /\ K[c].heap \in DOMAIN Z /\ K[c].heap \in Nat
  <1>1. AreChunks(K) /\ InOrder(K) /\ Lies(Z, K, c)
    BY DEF Grid
  <1> QED BY <1>1, ChunkIs DEF Lies, Overhead

LEMMA BehindIs ==
    ASSUME NEW Z, NEW K, Grid(Z, K), Apart(Z), NEW c, NEW d, Behind(K, c, d)
    PROVE  /\ c \in DOMAIN K /\ d \in DOMAIN K /\ d = c + K[c].size /\ c < d /\ c # d
           /\ K[d].heap = K[c].heap
  <1>1. c \in DOMAIN K /\ d \in DOMAIN K /\ d = c + K[c].size
    BY DEF Behind
  <1>2. K[d].heap = K[c].heap
    BY BehindHeap
  <1>3. c \in Nat /\ K[c].size \in Nat /\ K[c].size >= 2
    BY <1>1, ChunkIn
  <1> QED BY <1>1, <1>2, <1>3

\* What the united free chunks c and d leave true
FreeUnited(Z, K, c, d, U) ==
    /\ \A X : Flags(Z, K, X) /\ d \notin X => Flags(Z, U, X)
    /\ NotBoth(K, {c}) \/ NotBoth(K, {d}) => NotBoth(U, {c})
    /\ PredUsed(K, c) => PredUsed(U, c)
    /\ SuccUsed(K, d) => SuccUsed(U, c)
    /\ \A b : FreeUnits(U, b) = FreeUnits(K, b)
    /\ FreeChunks(U) = FreeChunks(K) \ {d}
    /\ \A F : Feet(K, F, {c}) \/ Feet(K, F, {d}) => Feet(U, F, {c})
    /\ AtLeast(K, {}) => AtLeast(U, {})
    /\ Used(U) = Used(K)
    /\ U[c].heap = K[c].heap /\ IsFree(U, c)

LEMMA UniteFree ==
    ASSUME NEW Z, NEW K, Grid(Z, K), Apart(Z), NEW c, NEW d, Behind(K, c, d),
           IsFree(K, c), IsFree(K, d), NEW U, U = Unite(K, c, d)
    PROVE  FreeUnited(Z, K, c, d, U)
  <1>1. /\ c \in DOMAIN K /\ d \in DOMAIN K /\ d = c + K[c].size /\ c < d /\ c # d
        /\ K[d].heap = K[c].heap
    BY BehindIs
  <1>2. AreChunks(K) /\ InOrder(K) /\ ~ K[c].cused /\ K[c].cused = K[d].cused
    BY <1>1, ChunkIn DEF IsFree
  <1>3. /\ DOMAIN U = DOMAIN K \ {d} /\ c \in DOMAIN U /\ U[c].heap = K[c].heap
        /\ U[c].cused = K[c].cused
    BY <1>1, <1>2, UniteIs
  <1>4. ASSUME NEW X, Flags(Z, K, X), d \notin X PROVE Flags(Z, U, X)
    <2>1. Flags(Z, U, X \ {c})
      BY <1>1, <1>2, <1>4, UniteFlags
    <2> QED BY <2>1 DEF Flags
  <1>5. ASSUME NotBoth(K, {c}) \/ NotBoth(K, {d}) PROVE NotBoth(U, {c})
    <2>1. NotBoth(K, {c, d})
      BY <1>5 DEF NotBoth
    <2> QED BY <1>1, <2>1, UniteFlags
  <1>6. PredUsed(K, c) => PredUsed(U, c)
    BY <1>1, UniteFlags
  <1>7. ASSUME SuccUsed(K, d), NEW y, Behind(U, c, y) PROVE U[y].cused
    <2>1. /\ DOMAIN U = DOMAIN K \ {d} /\ U[c].size = K[c].size + K[d].size
          /\ \A e \in DOMAIN K : e # c /\ e # d => U[e] = K[e]
      BY <1>1, <1>2, UniteIs
    <2>2. c \in Nat /\ K[c].size \in Nat /\ K[d].size \in Nat /\ K[c].size >= 2 /\ K[d].size >= 2
      BY <1>1, ChunkIn
    <2>3. y \in DOMAIN K /\ y = d + K[d].size /\ y # c /\ y # d
      BY <1>1, <1>7, <2>1, <2>2 DEF Behind
    <2>4. K[y].cused
      BY <1>1, <1>7, <2>3 DEF SuccUsed, Behind
    <2> QED BY <2>1, <2>3, <2>4
  <1>8. \A b : FreeUnits(U, b) = FreeUnits(K, b)
    BY <1>1, <1>2, UniteUnits
  <1>9. FreeChunks(U) = FreeChunks(K) \ {d}
    BY <1>1, <1>2, UniteUnits
  <1>10. ASSUME NEW F, Feet(K, F, {c}) \/ Feet(K, F, {d}) PROVE Feet(U, F, {c})
    <2>1. Feet(K, F, {c, d})
      BY <1>10 DEF Feet
    <2>2. Feet(U, F, {c, d} \cup {c})
      BY <1>1, <1>2, <2>1, UniteUnits
    <2> QED BY <1>3, <2>2 DEF Feet
  <1>11. ASSUME AtLeast(K, {}) PROVE AtLeast(U, {})
    <2>1. AtLeast(U, {} \ {d})
      BY <1>1, <1>2, <1>11, UniteUnits
    <2> QED BY <2>1 DEF AtLeast
  <1>12. Used(U) = Used(K)
    BY <1>1, <1>2, UniteUnits
  <1>13. IsFree(U, c)
    BY <1>2, <1>3 DEF IsFree
  <1>14. SuccUsed(K, d) => SuccUsed(U, c)
    BY <1>7 DEF SuccUsed
  <1> QED BY <1>3, <1>4, <1>5, <1>6, <1>8, <1>9, <1>10, <1>11, <1>12, <1>13, <1>14 DEF FreeUnited

UsedUnited(Z, K, c, d, U) ==
    /\ Flags(Z, K, {}) => Flags(Z, U, {})
    /\ NotBoth(K, {}) => NotBoth(U, {})
    /\ \A b : FreeUnits(U, b) = FreeUnits(K, b)
    /\ FreeChunks(U) = FreeChunks(K)
    /\ \A F : Feet(K, F, {}) => Feet(U, F, {})
    /\ AtLeast(K, {d}) => AtLeast(U, {})
    /\ \A P \in SUBSET Nat : Clear(K, P) => Clear(U, P)
    /\ Used(U) = Updated(Dropped(Used(K), d), c, U[c].size)
    /\ U[c].size = K[c].size + K[d].size /\ c \in DOMAIN U /\ U[c].heap = K[c].heap

LEMMA UniteUsed ==
    ASSUME NEW Z, NEW K, Grid(Z, K), Apart(Z), NEW c, NEW d, Behind(K, c, d),
           IsUsed(K, c), IsUsed(K, d), NEW U, U = Unite(K, c, d)
    PROVE  UsedUnited(Z, K, c, d, U)
  <1>1. /\ c \in DOMAIN K /\ d \in DOMAIN K /\ d = c + K[c].size /\ c < d /\ c # d
        /\ K[d].heap = K[c].heap
    BY BehindIs
  <1>2. AreChunks(K) /\ InOrder(K) /\ K[c].cused = K[d].cused
    BY <1>1, ChunkIn DEF IsUsed
  <1>12. K[c].cused
    BY DEF IsUsed
  <1>3. /\ DOMAIN U = DOMAIN K \ {d} /\ c \in DOMAIN U /\ U[c].heap = K[c].heap
        /\ U[c].cused = K[c].cused /\ U[c].size = K[c].size + K[d].size
        /\ \A e \in DOMAIN K : e # c /\ e # d => U[e] = K[e]
    BY <1>1, <1>2, UniteIs
  <1>4. ASSUME Flags(Z, K, {}) PROVE Flags(Z, U, {})
    <2>1. d \notin {}
      OBVIOUS
    <2>2. Flags(Z, U, {} \ {c})
      BY <1>1, <1>2, <1>4, <2>1, UniteFlags
    <2> QED BY <2>2 DEF Flags
  <1>5. NotBoth(K, {}) => NotBoth(U, {})
    BY <1>1, <1>12, UniteFlags
  <1>6. \A b : FreeUnits(U, b) = FreeUnits(K, b)
    BY <1>1, <1>2, UniteUnits
  <1>7. FreeChunks(U) = FreeChunks(K)
    <2>1. FreeChunks(U) = FreeChunks(K) \ {d}
      BY <1>1, <1>2, UniteUnits
    <2> QED BY <2>1 DEF FreeChunks, IsUsed
  <1>8. ASSUME NEW F, Feet(K, F, {}) PROVE Feet(U, F, {})
    <2>1. Feet(U, F, {} \cup {c})
      BY <1>1, <1>2, <1>8, UniteUnits
    <2> QED BY <1>3, <2>1 DEF Feet, IsUsed
  <1>9. ASSUME AtLeast(K, {d}) PROVE AtLeast(U, {})
    <2>1. AtLeast(U, {d} \ {d})
      BY <1>1, <1>2, <1>9, UniteUnits
    <2> QED BY <2>1 DEF AtLeast
  <1>10. \A P \in SUBSET Nat : Clear(K, P) => Clear(U, P)
    BY <1>1, <1>2, UniteUnits
  <1>11. Used(U) = Updated(Dropped(Used(K), d), c, U[c].size)
    <2>1. \A e \in DOMAIN K : e # c /\ e # d => U[e] = K[e]
      BY <1>3
    <2>2. {e \in DOMAIN U : U[e].cused} = ({e \in DOMAIN K : K[e].cused} \ {d}) \cup {c}
      BY <1>1, <1>3, <1>12, <2>1
    <2> QED BY <1>1, <1>3, <2>1, <2>2 DEF Used, Updated, Dropped
  <1> QED BY <1>3, <1>4, <1>5, <1>6, <1>7, <1>8, <1>9, <1>10, <1>11 DEF UsedUnited

\* What is true when the chunk c was taken, or given
Taken(Z, K, c, M) ==
    /\ Grid(Z, M) /\ DOMAIN M = DOMAIN K /\ M[c].cused /\ M[c].pused = K[c].pused
    /\ \A e \in DOMAIN K : M[e].size = K[e].size /\ M[e].heap = K[e].heap
    /\ \A e \in DOMAIN K : e # c => M[e].cused = K[e].cused
    /\ \A X : Flags(Z, K, X) => Flags(Z, M, X \ {c})
    /\ \A X : NotBoth(K, X) => NotBoth(M, X \ {c})
    /\ \A b : b # K[c].heap => FreeUnits(M, b) = FreeUnits(K, b)
    /\ FreeUnits(M, K[c].heap) = FreeUnits(K, K[c].heap) \ Area(c, K[c].size)
    /\ FreeChunks(M) = FreeChunks(K) \ {c}
    /\ \A F, X : Feet(K, F, X) => Feet(M, F, X \ {c})
    /\ \A X : AtLeast(K, X) => AtLeast(M, X)
    /\ \A P \in SUBSET Nat : Clear(K, P) => Clear(M, P)
    /\ Used(M) = Updated(Used(K), c, K[c].size)

LEMMA TakeIs ==
    ASSUME NEW Z, NEW K, Grid(Z, K), Apart(Z), NEW c, IsFree(K, c), NEW M, M = Take(K, c)
    PROVE  Taken(Z, K, c, M)
  <1>1. PICK u \in BOOLEAN : u /\ M = Mark(K, c, u)
    BY DEF Take
  <1>2. c \in DOMAIN K /\ ~ K[c].cused
    BY DEF IsFree
  <1>3. AreChunks(K) /\ InOrder(K) /\ K[c].size > 0 /\ K[c].cused # u
    <2>1. AreChunks(K) /\ InOrder(K) /\ K[c].size > 0
      BY <1>2, ChunkIn
    <2>2. K[c].cused # u
      BY <1>1, <1>2, Zenon
    <2> QED BY <2>1, <2>2
  <1>4. Grid(Z, M)
    BY <1>1, <1>2, MarkGrid
  <1>5. /\ DOMAIN M = DOMAIN K /\ M[c].cused /\ M[c].pused = K[c].pused
        /\ \A e \in DOMAIN K : M[e].size = K[e].size /\ M[e].heap = K[e].heap
        /\ \A e \in DOMAIN K : e # c => M[e].cused = K[e].cused
    <2>1. /\ DOMAIN M = DOMAIN K /\ M[c].cused = u /\ M[c].pused = K[c].pused
          /\ \A e \in DOMAIN K : M[e].size = K[e].size /\ M[e].heap = K[e].heap
          /\ \A e \in DOMAIN K : e # c => M[e].cused = K[e].cused
      <3>1. AreChunks(K) /\ K[c].size > 0
        BY <1>3
      <3>2. u \in BOOLEAN /\ M = Mark(K, c, u) /\ c \in DOMAIN K
        BY <1>1, <1>2
      <3> QED BY <3>1, <3>2, MarkIs
    <2>2. M[c].cused
      BY <1>1, <2>1, Zenon
    <2> QED BY <2>1, <2>2
  <1>6. \A X : Flags(Z, K, X) => Flags(Z, M, X \ {c})
    BY <1>1, <1>2, MarkFlags
  <1>7. \A X : NotBoth(K, X) => NotBoth(M, X \ {c})
    BY <1>1, <1>2, MarkFlags
  <1>8. /\ \A b : b # K[c].heap => FreeUnits(M, b) = FreeUnits(K, b)
        /\ FreeUnits(M, K[c].heap) = FreeUnits(K, K[c].heap) \ Area(c, K[c].size)
    <2>2. \A b : FreeUnits(M, b) = FreeUnits(K, b) \ Cell(K, c, b)
      BY <1>1, <1>2, <1>3, TakeUnits
    <2> HIDE DEF FreeUnits
    <2>3. FreeUnits(M, K[c].heap) = FreeUnits(K, K[c].heap) \ Area(c, K[c].size)
      BY <2>2 DEF Cell
    <2>4. \A b : b # K[c].heap => FreeUnits(M, b) = FreeUnits(K, b)
      BY <2>2 DEF Cell
    <2> QED BY <2>3, <2>4
  <1>9. FreeChunks(M) = FreeChunks(K) \ {c}
    BY <1>2, <1>5 DEF FreeChunks
  <1>10. ASSUME NEW F, NEW X, Feet(K, F, X) PROVE Feet(M, F, X \ {c})
    <2>1. Feet(M, F, IF u THEN X \ {c} ELSE X \cup {c})
      BY <1>1, <1>2, <1>3, <1>10, MarkUnits
    <2> QED BY <1>1, <2>1
  <1>11. \A X : AtLeast(K, X) => AtLeast(M, X)
    BY <1>1, <1>2, <1>3, MarkUnits
  <1>12. \A P \in SUBSET Nat : Clear(K, P) => Clear(M, P)
    BY <1>1, <1>2, <1>3, MarkUnits
  <1>13. Used(M) = Updated(Used(K), c, K[c].size)
    BY <1>1, <1>2, <1>3, MarkUnits
  <1> QED BY <1>4, <1>5, <1>6, <1>7, <1>8, <1>9, <1>10, <1>11, <1>12, <1>13 DEF Taken

Given(Z, K, c, M) ==
    /\ Grid(Z, M) /\ DOMAIN M = DOMAIN K /\ ~ M[c].cused /\ M[c].pused = K[c].pused
    /\ \A e \in DOMAIN K : M[e].size = K[e].size /\ M[e].heap = K[e].heap
    /\ \A e \in DOMAIN K : e # c => M[e].cused = K[e].cused
    /\ \A X : Flags(Z, K, X) => Flags(Z, M, X \ {c})
    /\ \A X : NotBoth(K, X) => NotBoth(M, X \cup {c})
    /\ \A b : b # K[c].heap => FreeUnits(M, b) = FreeUnits(K, b)
    /\ FreeUnits(M, K[c].heap) = FreeUnits(K, K[c].heap) \cup Area(c, K[c].size)
    /\ FreeChunks(M) = FreeChunks(K) \cup {c}
    /\ \A F, X : Feet(K, F, X) => Feet(M, F, X \cup {c})
    /\ \A X : AtLeast(K, X) => AtLeast(M, X)
    /\ \A P \in SUBSET Nat : Clear(K, P) /\ P \cap Area(c, K[c].size) = {} => Clear(M, P)
    /\ Used(M) = Dropped(Used(K), c)

LEMMA GiveIs ==
    ASSUME NEW Z, NEW K, Grid(Z, K), Apart(Z), NEW c, IsUsed(K, c),
           NEW M, M = Give(K, c)
    PROVE  Given(Z, K, c, M)
  <1>1. PICK u \in BOOLEAN : ~ u /\ M = Mark(K, c, u)
    BY DEF Give
  <1>2. c \in DOMAIN K /\ K[c].cused
    BY DEF IsUsed
  <1>3. AreChunks(K) /\ InOrder(K) /\ K[c].size > 0 /\ K[c].cused # u
    <2>1. AreChunks(K) /\ InOrder(K) /\ K[c].size > 0
      BY <1>2, ChunkIn
    <2>2. K[c].cused # u
      BY <1>1, <1>2, Zenon
    <2> QED BY <2>1, <2>2
  <1>4. Grid(Z, M)
    BY <1>1, <1>2, MarkGrid
  <1>5. /\ DOMAIN M = DOMAIN K /\ ~ M[c].cused /\ M[c].pused = K[c].pused
        /\ \A e \in DOMAIN K : M[e].size = K[e].size /\ M[e].heap = K[e].heap
        /\ \A e \in DOMAIN K : e # c => M[e].cused = K[e].cused
    <2>1. /\ DOMAIN M = DOMAIN K /\ M[c].cused = u /\ M[c].pused = K[c].pused
          /\ \A e \in DOMAIN K : M[e].size = K[e].size /\ M[e].heap = K[e].heap
          /\ \A e \in DOMAIN K : e # c => M[e].cused = K[e].cused
      <3>1. AreChunks(K) /\ K[c].size > 0
        BY <1>3
      <3>2. u \in BOOLEAN /\ M = Mark(K, c, u) /\ c \in DOMAIN K
        BY <1>1, <1>2
      <3> QED BY <3>1, <3>2, MarkIs
    <2>2. ~ M[c].cused
      BY <1>1, <2>1, Zenon
    <2> QED BY <2>1, <2>2
  <1>6. \A X : Flags(Z, K, X) => Flags(Z, M, X \ {c})
    BY <1>1, <1>2, MarkFlags
  <1>7. \A X : NotBoth(K, X) => NotBoth(M, X \cup {c})
    BY <1>1, <1>2, MarkFlags
  <1>8. /\ \A b : b # K[c].heap => FreeUnits(M, b) = FreeUnits(K, b)
        /\ FreeUnits(M, K[c].heap) = FreeUnits(K, K[c].heap) \cup Area(c, K[c].size)
    <2>1. ~ u => \A b : FreeUnits(M, b) = FreeUnits(K, b) \cup Cell(K, c, b)
      <3>1. M = Mark(K, c, u)
        BY <1>1
      <3> QED BY <1>2, <1>3, <3>1, MarkUnits
    <2>2. \A b : FreeUnits(M, b) = FreeUnits(K, b) \cup Cell(K, c, b)
      BY <1>1, <2>1
    <2> HIDE DEF FreeUnits
    <2>3. FreeUnits(M, K[c].heap) = FreeUnits(K, K[c].heap) \cup Area(c, K[c].size)
      BY <2>2 DEF Cell
    <2>4. \A b : b # K[c].heap => FreeUnits(M, b) = FreeUnits(K, b)
      BY <2>2 DEF Cell
    <2> QED BY <2>3, <2>4
  <1>9. FreeChunks(M) = FreeChunks(K) \cup {c}
    BY <1>2, <1>5 DEF FreeChunks
  <1>10. ASSUME NEW F, NEW X, Feet(K, F, X) PROVE Feet(M, F, X \cup {c})
    <2>1. Feet(M, F, IF u THEN X \ {c} ELSE X \cup {c})
      BY <1>1, <1>2, <1>3, <1>10, MarkUnits
    <2> QED BY <1>1, <2>1
  <1>11. \A X : AtLeast(K, X) => AtLeast(M, X)
    BY <1>1, <1>2, <1>3, MarkUnits
  <1>12. ASSUME NEW P \in SUBSET Nat, Clear(K, P), P \cap Area(c, K[c].size) = {} PROVE Clear(M, P)
    <2>1. \A x \in P : ~ (c <= x /\ x < c + K[c].size)
      BY <1>12 DEF Area
    <2> QED BY <1>1, <1>2, <1>3, <1>12, <2>1, MarkUnits
  <1>13. Used(M) = Dropped(Used(K), c)
    BY <1>1, <1>2, <1>3, MarkUnits
  <1> QED BY <1>4, <1>5, <1>6, <1>7, <1>8, <1>9, <1>10, <1>11, <1>12, <1>13 DEF Given

GivenAgain(Z, K, c, M) ==
    /\ Grid(Z, M) /\ DOMAIN M = DOMAIN K
    /\ \A e \in DOMAIN K : M[e].size = K[e].size /\ M[e].heap = K[e].heap
    /\ \A e \in DOMAIN K : M[e].cused = K[e].cused
    /\ \A X : Flags(Z, K, X) => Flags(Z, M, X \ {c})
    /\ \A X : NotBoth(K, X) => NotBoth(M, X)
    /\ \A b : FreeUnits(M, b) = FreeUnits(K, b)
    /\ FreeChunks(M) = FreeChunks(K)
    /\ \A F, X : Feet(K, F, X) => Feet(M, F, X)
    /\ \A X : AtLeast(K, X) => AtLeast(M, X)
    /\ \A P : Clear(K, P) => Clear(M, P)
    /\ Used(M) = Used(K)

LEMMA GiveAgain ==
    ASSUME NEW Z, NEW K, Grid(Z, K), Apart(Z), NEW c, IsFree(K, c), NEW M, M = Give(K, c)
    PROVE  GivenAgain(Z, K, c, M)
  <1>1. PICK u \in BOOLEAN : ~ u /\ M = Mark(K, c, u)
    BY DEF Give
  <1>2. c \in DOMAIN K /\ ~ K[c].cused
    BY DEF IsFree
  <1>3. AreChunks(K) /\ InOrder(K) /\ K[c].size > 0 /\ K[c].cused = u
    BY <1>1, <1>2, ChunkIn
  <1>4. Grid(Z, M)
    BY <1>1, <1>2, MarkGrid
  <1>5. /\ DOMAIN M = DOMAIN K /\ M[c].cused = u
        /\ \A e \in DOMAIN K : M[e].size = K[e].size /\ M[e].heap = K[e].heap
        /\ \A e \in DOMAIN K : e # c => M[e].cused = K[e].cused
    BY <1>1, <1>2, <1>3, MarkIs
  <1>6. \A X : Flags(Z, K, X) => Flags(Z, M, X \ {c})
    BY <1>1, <1>2, MarkFlags
  <1>7. \A X : NotBoth(K, X) => NotBoth(M, X)
    BY <1>1, <1>2, <1>3, MarkSame
  <1>8. \A b : FreeUnits(M, b) = FreeUnits(K, b)
    BY <1>1, <1>2, <1>3, MarkSame
  <1>9. FreeChunks(M) = FreeChunks(K)
    BY <1>1, <1>2, <1>3, MarkSame
  <1>10. \A F, X : Feet(K, F, X) => Feet(M, F, X)
    BY <1>1, <1>2, <1>3, MarkSame
  <1>11. \A X : AtLeast(K, X) => AtLeast(M, X)
    BY <1>1, <1>2, <1>3, MarkSame
  <1>12. \A P : Clear(K, P) => Clear(M, P)
    BY <1>1, <1>2, <1>3, MarkSame
  <1>13. Used(M) = Used(K)
    BY <1>1, <1>2, <1>3, MarkSame
  <1>14. \A e \in DOMAIN K : M[e].cused = K[e].cused
    BY <1>3, <1>5
  <1> QED BY <1>4, <1>5, <1>6, <1>7, <1>8, <1>9, <1>10, <1>11, <1>12, <1>13, <1>14 DEF GivenAgain

(* Coalescing                                                              *)

\* Chunk s may have free neighbours, and its footer is not set yet
JoinInv(h, P, s, X) ==
    /\ Core(h, P) /\ AtLeast(h.chunk, {}) /\ Flags(Sizes(h), h.chunk, X)
    /\ NotBoth(h.chunk, {s}) /\ Feet(h.chunk, h.foot, {s})
    /\ Binning(h, FreeChunks(h.chunk)) /\ IsFree(h.chunk, s)
\* What coalescing leaves alone
Alike(h, g) ==
    /\ Frame(h, g) /\ g.heap = h.heap
    /\ \A b : FreeUnits(g.chunk, b) = FreeUnits(h.chunk, b)
    /\ Used(g.chunk) = Used(h.chunk)

LEMMA AlikeTrans ==
    ASSUME NEW h, NEW g, NEW f, Alike(h, g), Alike(g, f) PROVE Alike(h, f)
BY FrameTrans DEF Alike

LEMMA AlikeSelf == ASSUME NEW h, IsHeap(h) PROVE Alike(h, h)
BY FrameSelf DEF Alike

LEMMA AbsorbJoins ==
    ASSUME NEW h, NEW P \in SUBSET Nat, NEW s, NEW X, JoinInv(h, P, s, X), NEW c, NEW d,
           Behind(h.chunk, c, d), IsFree(h.chunk, c), IsFree(h.chunk, d), s \in {c, d}, d \notin X,
           NEW g, g = Absorb(h, c, d)
    PROVE  /\ JoinInv(g, P, c, X) /\ Alike(h, g) /\ g.chunk[c].heap = h.chunk[c].heap
           /\ PredUsed(h.chunk, c) => PredUsed(g.chunk, c)
           /\ SuccUsed(h.chunk, d) => SuccUsed(g.chunk, c)
  <1> DEFINE K == h.chunk
             Z == Sizes(h)
             S == FreeChunks(K)
             U == Unite(K, c, d)
  <1>1. /\ Core(h, P) /\ AtLeast(K, {}) /\ Flags(Z, K, X) /\ NotBoth(K, {s})
        /\ Feet(K, h.foot, {s}) /\ Binning(h, S)
    BY DEF JoinInv
  <1>2. /\ IsHeap(h) /\ AreChunks(K) /\ InOrder(K) /\ Grid(Z, K) /\ Apart(Z)
        /\ \A e \in DOMAIN K : e \in Nat /\ K[e].size \in Nat /\ K[e].cused \in BOOLEAN /\ K[e].size >= 2
    BY <1>1, CoreIs
  <1>3. c \in DOMAIN K /\ d \in DOMAIN K /\ d = c + K[c].size /\ K[d].heap = K[c].heap
    BY <1>2, BehindHeap DEF Behind
  <1>4. c \in S /\ d \in S /\ c < d /\ c # d /\ K[c].cused = K[d].cused
    BY <1>2, <1>3 DEF FreeChunks, IsFree
  <1>5. /\ Frame(h, g) /\ g.heap = h.heap /\ g.foot = h.foot /\ g.chunk = U
        /\ Core(g, P) /\ Binning(g, S \ {d})
    BY <1>1, <1>3, <1>4, AbsorbKeeps
  <1>6. Sizes(g) = Z
    BY <1>5 DEF Sizes
  <1>7. U = Unite(K, c, d)
    OBVIOUS
  <1> HIDE DEF U, S
  <1>9. IsFree(K, c) /\ IsFree(K, d) /\ Behind(K, c, d)
    OBVIOUS
  <1> HIDE DEF K, Z
  <1>10. FreeUnited(Z, K, c, d, U)
    BY <1>2, <1>7, <1>9, UniteFree
  <1>11. NotBoth(U, {c})
    BY <1>1, <1>10 DEF FreeUnited
  <1>12. Flags(Z, U, X)
    BY <1>1, <1>10 DEF FreeUnited
  <1>13. Feet(U, h.foot, {c})
    BY <1>1, <1>10 DEF FreeUnited
  <1>14. AtLeast(U, {})
    BY <1>1, <1>10 DEF FreeUnited
  <1>15. Binning(g, FreeChunks(U)) /\ IsFree(U, c)
    BY <1>5, <1>10 DEF S, FreeUnited
  <1> USE DEF K, Z
  <1>16. JoinInv(g, P, c, X)
    BY <1>5, <1>6, <1>11, <1>12, <1>13, <1>14, <1>15 DEF JoinInv
  <1>17. Alike(h, g)
    BY <1>5, <1>10 DEF Alike, FreeUnited
  <1>18. /\ g.chunk[c].heap = h.chunk[c].heap
         /\ PredUsed(h.chunk, c) => PredUsed(g.chunk, c)
         /\ SuccUsed(h.chunk, d) => SuccUsed(g.chunk, c)
    BY <1>5, <1>10 DEF FreeUnited
  <1> QED BY <1>16, <1>17, <1>18

LEMMA JoinPrevKeeps ==
    ASSUME NEW h, NEW P \in SUBSET Nat, NEW c, NEW X, JoinInv(h, P, c, X), X \subseteq {c},
           X = {} \/ h.chunk[c].pused, NEW b, b = h.chunk[c].heap, NEW r, r = JoinPrev(h, c, b)
    PROVE  /\ JoinInv(r[1], P, r[2], X) /\ Alike(h, r[1]) /\ PredUsed(r[1].chunk, r[2])
           /\ r[1].chunk[r[2]].heap = b
           /\ h.chunk[c].pused => r[1] = h /\ r[2] = c
  <1> DEFINE K == h.chunk
             Z == Sizes(h)
             T == CHOOSE g : g = [n \in Nat |-> IF n = 0 THEN <<h, c>> ELSE TurnPrev(g[n - 1], b)]
             N == Cardinality(DOMAIN K)
             p == PrevOf(h, c)
             r1 == IF K[c].pused THEN <<h, c>> ELSE <<Absorb(h, p, c), p>>
  <1>1. /\ Core(h, P) /\ AtLeast(K, {}) /\ Flags(Z, K, X) /\ NotBoth(K, {c})
        /\ Feet(K, h.foot, {c}) /\ Binning(h, FreeChunks(K)) /\ c \in DOMAIN K /\ ~ K[c].cused
    BY DEF JoinInv, IsFree
  <1>2. /\ IsHeap(h) /\ AreChunks(K) /\ InOrder(K) /\ Grid(Z, K) /\ Apart(Z)
        /\ \A e \in DOMAIN K : e \in Nat /\ K[e].size \in Nat /\ K[e].cused \in BOOLEAN /\ K[e].size >= 2
    BY <1>1, CoreIs
  <1>3. TurnPrev(<<h, c>>, b) = r1
    <2>1. CASE K[c].pused
      BY <2>1 DEF TurnPrev, CanJoinPrev
    <2>2. CASE ~ K[c].pused
      <3>1. X \cup {c} \subseteq {c}
        OBVIOUS
      <3>2. CanJoinPrev(h, c, b)
        BY <1>1, <2>2, <3>1, PrevIs DEF PrevFound
      <3> QED BY <2>2, <3>2 DEF TurnPrev
    <2> QED BY <2>1, <2>2
  <1>4. /\ JoinInv(r1[1], P, r1[2], X) /\ Alike(h, r1[1]) /\ PredUsed(r1[1].chunk, r1[2])
        /\ r1[1].chunk[r1[2]].heap = b /\ r1 = <<r1[1], r1[2]>>
        /\ h.chunk[c].pused => r1[1] = h /\ r1[2] = c
    <2>1. CASE K[c].pused
      <3>1. r1 = <<h, c>>
        BY <2>1
      <3>2. PredUsed(K, c)
        <4>1. ASSUME NEW x, Behind(K, x, c) PROVE K[x].cused
          <5>1. x \in DOMAIN K /\ x # c
            BY <1>1, <1>2, <4>1 DEF Behind
          <5>2. K[c].pused = K[x].cused
            BY <1>1, <4>1, <5>1 DEF Flags
          <5> QED BY <2>1, <5>2
        <4> QED BY <4>1 DEF PredUsed
      <3>3. Alike(h, h)
        BY <1>2, AlikeSelf
      <3> QED BY <3>1, <3>2, <3>3
    <2>2. CASE ~ K[c].pused
      <3> DEFINE g == Absorb(h, p, c)
      <3>1. r1 = <<g, p>>
        BY <2>2
      <3>2. Behind(K, p, c) /\ ~ K[p].cused /\ K[p].heap = b
        <4>1. X \cup {c} \subseteq {c}
          OBVIOUS
        <4>2. PrevFound(h, c)
          BY <1>1, <2>2, <4>1, PrevIs
        <4> QED BY <4>2 DEF PrevFound
      <3>3. PredUsed(K, p)
        <4>1. ASSUME NEW x, Behind(K, x, p) PROVE K[x].cused
          <5>1. x \in DOMAIN K /\ p \in DOMAIN K /\ p = x + K[x].size /\ c = p + K[p].size
            BY <3>2, <4>1 DEF Behind
          <5>2. x # c /\ p # c
            BY <1>1, <1>2, <5>1
          <5> QED BY <1>1, <3>2, <4>1, <5>1, <5>2 DEF NotBoth
        <4> QED BY <4>1 DEF PredUsed
      <3>4. c \notin X
        BY <2>2
      <3>5. g = Absorb(h, p, c) /\ c \in {p, c}
        OBVIOUS
      <3> HIDE DEF g, p, r1
      <3>6. /\ JoinInv(g, P, p, X) /\ Alike(h, g) /\ g.chunk[p].heap = h.chunk[p].heap
            /\ PredUsed(h.chunk, p) => PredUsed(g.chunk, p)
            /\ SuccUsed(h.chunk, c) => SuccUsed(g.chunk, p)
        <4>1. Behind(h.chunk, p, c) /\ IsFree(h.chunk, c) /\ IsFree(h.chunk, p)
          BY <1>1, <3>2 DEF IsFree, Behind
        <4> HIDE DEF K
        <4> QED BY <3>4, <3>5, <4>1, AbsorbJoins
      <3> QED BY <2>2, <3>1, <3>2, <3>3, <3>6
    <2> QED BY <2>1, <2>2
  <1>5. TurnPrev(r1, b) = r1
    <2> DEFINE g == r1[1]
               s == r1[2]
    <2>1. g.chunk[s].pused
      <3> SUFFICES ASSUME ~ g.chunk[s].pused PROVE FALSE
        OBVIOUS
      <3>1. JoinInv(g, P, s, X) /\ PredUsed(g.chunk, s)
        BY <1>4
      <3>2. CASE K[c].pused
        BY <1>4, <3>2
      <3>3. CASE ~ K[c].pused
        <4>1. X = {}
          BY <3>3
        <4> HIDE DEF g, s
        <4>2. /\ Core(g, P) /\ AtLeast(g.chunk, {}) /\ Flags(Sizes(g), g.chunk, X)
              /\ Feet(g.chunk, g.foot, {s}) /\ s \in DOMAIN g.chunk
          BY <3>1 DEF JoinInv, IsFree
        <4>3. X \cup {s} \subseteq {s}
          BY <4>1
        <4>4. Behind(g.chunk, PrevOf(g, s), s) /\ ~ g.chunk[PrevOf(g, s)].cused
          <5>1. PrevFound(g, s)
            BY <4>2, <4>3, PrevIs
          <5> QED BY <5>1 DEF PrevFound
        <4> QED BY <3>1, <4>4 DEF PredUsed
      <3> QED BY <3>2, <3>3
    <2> QED BY <2>1 DEF TurnPrev, CanJoinPrev
  <1>6. r = T[N]
    BY Zenon DEF JoinPrev
  <1> HIDE DEF r1
  <1> DEFINE W == [n \in Nat |-> IF n = 0 THEN <<h, c>> ELSE r1]
  <1>7. W = [n \in Nat |-> IF n = 0 THEN <<h, c>> ELSE TurnPrev(W[n - 1], b)]
    <2>1. ASSUME NEW n \in Nat, n # 0 PROVE TurnPrev(W[n - 1], b) = r1
      <3>1. CASE n = 1
        BY <1>3, <3>1
      <3>2. CASE n # 1
        <4>1. n - 1 \in Nat /\ n - 1 # 0
          BY <2>1, <3>2
        <4> QED BY <1>5, <4>1
      <3> QED BY <3>1, <3>2
    <2> QED BY <2>1
  <1>8. T = [n \in Nat |-> IF n = 0 THEN <<h, c>> ELSE TurnPrev(T[n - 1], b)]
    <2> HIDE DEF W
    <2> QED BY <1>7
  <1> HIDE DEF T, W
  <1> DEFINE G == {n \in Nat : T[n] = r1}
  <1>9. 1 \in G
    <2>1. T[0] = <<h, c>>
      BY <1>8
    <2>2. T[1] = TurnPrev(T[0], b)
      BY <1>8
    <2> QED BY <1>3, <2>1, <2>2
  <1>10. ASSUME NEW n \in Nat \ {0}, n \in G PROVE n + 1 \in G
    <2>1. n + 1 \in Nat /\ n + 1 # 0 /\ (n + 1) - 1 = n
      OBVIOUS
    <2>2. T[n + 1] = TurnPrev(T[n], b)
      BY <1>8, <2>1
    <2> QED BY <1>5, <1>10, <2>1, <2>2
  <1> HIDE DEF G
  <1>11. N \in Nat \ {0}
    BY <1>1, ChunksFinite
  <1> HIDE DEF N
  <1>12. N \in G
    BY <1>9, <1>10, <1>11, FromOne
  <1>13. r = r1
    BY <1>6, <1>12 DEF G
  <1> QED BY <1>4, <1>13

LEMMA TurnNextIs ==
    ASSUME NEW h, NEW P \in SUBSET Nat, NEW c, NEW X, JoinInv(h, P, c, X),
           NEW b, b = h.chunk[c].heap
    PROVE  /\ SuccUsed(h.chunk, c) => TurnNext(h, c, b) = h
           /\ ~ SuccUsed(h.chunk, c) => /\ TurnNext(h, c, b) = Absorb(h, c, NextOf(h, c))
                                        /\ Behind(h.chunk, c, NextOf(h, c))
                                        /\ IsFree(h.chunk, NextOf(h, c))
  <1> DEFINE K == h.chunk
             n == c + K[c].size
  <1>1. Core(h, P) /\ AtLeast(K, {}) /\ c \in DOMAIN K
    BY DEF JoinInv, IsFree
  <1>2. HeapsFine(h) /\ Grid(Sizes(h), K)
    BY <1>1 DEF Core
  <1>3. n \in DOMAIN K => K[n].size >= MinSize
    BY <1>1 DEF AtLeast
  <1>4. /\ n \in DOMAIN K => NextOf(h, c) = n /\ ~ IsLastIn(h, c, b) /\ n # NoChunk
        /\ n \notin DOMAIN K => NextOf(h, c) = NoChunk /\ IsLastIn(h, c, b)
    BY <1>1, <1>2, <1>3, NextIs
  <1>5. CASE n \in DOMAIN K
    <2>1. K[n].heap = b
      BY <1>1, <1>2, <1>5, BehindHeap, CoreIs DEF Behind
    <2>2. ChunkValid(h, n, b)
      BY <1>1, <1>3, <1>5, <2>1, ValidIs
    <2>3. Behind(K, c, n)
      BY <1>1, <1>5 DEF Behind
    <2>4. \A y : Behind(K, c, y) <=> y = n
      BY <1>1, <1>5 DEF Behind
    <2>5. CASE K[n].cused
      <3>1. SuccUsed(K, c)
        BY <2>4, <2>5 DEF SuccUsed
      <3>2. TurnNext(h, c, b) = h
        BY <1>4, <1>5, <2>5 DEF TurnNext, CanJoinNext
      <3> QED BY <3>1, <3>2
    <2>6. CASE ~ K[n].cused
      <3>1. ~ SuccUsed(K, c)
        BY <2>3, <2>6 DEF SuccUsed
      <3>2. CanJoinNext(h, c, b)
        BY <1>4, <1>5, <2>2, <2>6 DEF CanJoinNext
      <3>3. TurnNext(h, c, b) = Absorb(h, c, NextOf(h, c))
        BY <3>2 DEF TurnNext
      <3>4. Behind(K, c, NextOf(h, c)) /\ IsFree(K, NextOf(h, c))
        BY <1>4, <1>5, <2>3, <2>6 DEF IsFree
      <3> QED BY <3>1, <3>3, <3>4
    <2> QED BY <2>5, <2>6
  <1>6. CASE n \notin DOMAIN K
    <2>1. SuccUsed(K, c)
      BY <1>6 DEF SuccUsed, Behind
    <2>2. TurnNext(h, c, b) = h
      BY <1>4, <1>6 DEF TurnNext, CanJoinNext
    <2> QED BY <2>1, <2>2
  <1> QED BY <1>5, <1>6

LEMMA JoinNextKeeps ==
    ASSUME NEW h, NEW P \in SUBSET Nat, NEW c, NEW X, JoinInv(h, P, c, X), c \in X \/ X = {},
           X \subseteq {c}, PredUsed(h.chunk, c), NEW b, b = h.chunk[c].heap, NEW g, g = JoinNext(h, c, b)
    PROVE  /\ JoinInv(g, P, c, X) /\ Alike(h, g) /\ PredUsed(g.chunk, c) /\ SuccUsed(g.chunk, c)
  <1> DEFINE K == h.chunk
             T == CHOOSE f : f = [n \in Nat |-> IF n = 0 THEN h ELSE TurnNext(f[n - 1], c, b)]
             N == Cardinality(DOMAIN K)
             d == NextOf(h, c)
             g1 == IF SuccUsed(K, c) THEN h ELSE Absorb(h, c, d)
  <1>1. Core(h, P) /\ c \in DOMAIN K /\ NotBoth(K, {c}) /\ IsFree(K, c)
    BY DEF JoinInv, IsFree
  <1>2. TurnNext(h, c, b) = g1
    BY TurnNextIs
  <1>3. /\ JoinInv(g1, P, c, X) /\ Alike(h, g1) /\ PredUsed(g1.chunk, c) /\ SuccUsed(g1.chunk, c)
        /\ g1.chunk[c].heap = b
    <2>1. CASE SuccUsed(K, c)
      <3>1. g1 = h
        BY <2>1
      <3>2. IsHeap(h)
        BY <1>1 DEF Core
      <3> QED BY <2>1, <3>1, <3>2, AlikeSelf
    <2>2. CASE ~ SuccUsed(K, c)
      <3>1. g1 = Absorb(h, c, d)
        BY <2>2
      <3>2. Behind(K, c, d) /\ IsFree(K, d)
        BY <2>2, TurnNextIs
      <3>3. d # c
        BY <1>1, <3>2, BehindIs, CoreIs
      <3>4. SuccUsed(K, d)
        <4>1. ASSUME NEW y, Behind(K, d, y) PROVE K[y].cused
          <5>1. d \in DOMAIN K /\ y \in DOMAIN K /\ y # c
            <6>1. Grid(Sizes(h), K) /\ Apart(Sizes(h))
              BY <1>1, CoreIs
            <6>2. c < d /\ d < y /\ c \in Nat /\ d \in Nat /\ y \in Nat
              BY <3>2, <4>1, <6>1, BehindIs, ChunkIn
            <6> QED BY <4>1, <6>2 DEF Behind
          <5> QED BY <1>1, <3>2, <3>3, <4>1, <5>1 DEF NotBoth, IsFree
        <4> QED BY <4>1 DEF SuccUsed
      <3>5. d \notin X /\ c \in {c, d}
        BY <3>3
      <3> HIDE DEF d, g1
      <3>6. /\ JoinInv(g1, P, c, X) /\ Alike(h, g1) /\ g1.chunk[c].heap = h.chunk[c].heap
            /\ PredUsed(h.chunk, c) => PredUsed(g1.chunk, c)
            /\ SuccUsed(h.chunk, d) => SuccUsed(g1.chunk, c)
        BY <1>1, <3>1, <3>2, <3>5, AbsorbJoins
      <3> QED BY <3>4, <3>6
    <2> QED BY <2>1, <2>2
  <1>4. TurnNext(g1, c, b) = g1
    BY <1>3, TurnNextIs
  <1>5. g = T[N]
    BY Zenon DEF JoinNext
  <1> HIDE DEF g1
  <1> DEFINE W[n \in Nat] == IF n = 0 THEN h ELSE g1
  <1>6. W = [n \in Nat |-> IF n = 0 THEN h ELSE TurnNext(W[n - 1], c, b)]
    <2>1. ASSUME NEW n \in Nat PROVE W[n] = IF n = 0 THEN h ELSE TurnNext(W[n - 1], c, b)
      <3>1. CASE n = 0
        BY <3>1
      <3>2. CASE n = 1
        BY <1>2, <3>2
      <3>3. CASE n \notin {0, 1}
        BY <1>4, <3>3
      <3> QED BY <3>1, <3>2, <3>3
    <2> QED BY <2>1
  <1>7. T = [n \in Nat |-> IF n = 0 THEN h ELSE TurnNext(T[n - 1], c, b)]
    <2> HIDE DEF W
    <2> QED BY <1>6
  <1>8. \A n \in Nat : T[n] = IF n = 0 THEN h ELSE TurnNext(T[n - 1], c, b)
    <2> HIDE DEF T
    <2> QED BY <1>7
  <1> HIDE DEF T, W
  <1> DEFINE G == {n \in Nat : T[n] = g1}
  <1>9. 1 \in G
    <2>1. T[0] = h
      BY <1>8
    <2>2. T[1] = TurnNext(T[0], c, b)
      BY <1>8
    <2> QED BY <1>2, <2>1, <2>2
  <1>10. ASSUME NEW n \in Nat \ {0}, n \in G PROVE n + 1 \in G
    <2>1. n + 1 \in Nat /\ n + 1 # 0 /\ (n + 1) - 1 = n
      OBVIOUS
    <2>2. T[n + 1] = TurnNext(T[n], c, b)
      BY <1>8, <2>1
    <2> QED BY <1>4, <1>10, <2>1, <2>2
  <1> HIDE DEF G
  <1>11. N \in Nat \ {0}
    BY <1>1, ChunksFinite
  <1> HIDE DEF N
  <1>12. N \in G
    BY <1>9, <1>10, <1>11, FromOne
  <1>13. g = g1
    BY <1>5, <1>12 DEF G
  <1> QED BY <1>3, <1>13

\* Everything about the grid and the bins; X as in Flags
Settled(h, P, X) ==
    /\ Core(h, P) /\ AtLeast(h.chunk, {}) /\ Flags(Sizes(h), h.chunk, X)
    /\ NotBoth(h.chunk, {}) /\ Feet(h.chunk, h.foot, {}) /\ Binning(h, FreeChunks(h.chunk))

LEMMA JoinKeeps ==
    ASSUME NEW h, NEW P \in SUBSET Nat, NEW c, NEW X, JoinInv(h, P, c, X), X \subseteq {c},
           X = {} \/ h.chunk[c].pused, NEW g, g = Join(h, c)
    PROVE  /\ Settled(g, P, X) /\ Alike(h, g)
           /\ X = {c} => IsFree(g.chunk, c)
  <1> DEFINE b == h.chunk[c].heap
             r == JoinPrev(h, c, b)
             s == r[2]
             f == JoinNext(r[1], s, b)
  <1>1. g = SetFooter(f, s)
    BY Zenon DEF Join, Joined, HeapOf
  <1>2. /\ JoinInv(r[1], P, s, X) /\ Alike(h, r[1]) /\ PredUsed(r[1].chunk, s)
        /\ r[1].chunk[s].heap = b
        /\ h.chunk[c].pused => r[1] = h /\ s = c
    BY JoinPrevKeeps
  <1>3. X = {c} => s = c
    BY <1>2
  <1>4. X \subseteq {s} /\ (s \in X \/ X = {})
    BY <1>3
  <1>5. f = JoinNext(r[1], s, b)
    OBVIOUS
  <1> HIDE DEF b, s, f, r
  <1>6. JoinInv(f, P, s, X) /\ Alike(r[1], f) /\ PredUsed(f.chunk, s) /\ SuccUsed(f.chunk, s)
    BY <1>2, <1>4, <1>5, JoinNextKeeps
  <1>7. /\ Core(f, P) /\ AtLeast(f.chunk, {}) /\ Flags(Sizes(f), f.chunk, X)
        /\ NotBoth(f.chunk, {s}) /\ Feet(f.chunk, f.foot, {s}) /\ IsFree(f.chunk, s)
        /\ Binning(f, FreeChunks(f.chunk))
    BY <1>6 DEF JoinInv
  <1>8. s \in DOMAIN f.chunk /\ ~ f.chunk[s].cused
    BY <1>7 DEF IsFree
  <1>9. /\ IsHeap(f) /\ AreChunks(f.chunk) /\ InOrder(f.chunk) /\ Grid(Sizes(f), f.chunk)
        /\ s \in Nat /\ f.chunk[s].size \in Nat /\ f.chunk[s].size >= 2
        /\ \A e \in DOMAIN f.chunk : f.chunk[e].size > 0
    BY <1>7, <1>8, CoreIs
  <1>10. /\ Frame(f, g) /\ SameBins(f, g) /\ g.heap = f.heap /\ g.chunk = f.chunk
         /\ g.foot = Updated(f.foot, s + f.chunk[s].size - 1, f.chunk[s].size)
         /\ g.wrote = f.wrote \cup {s + f.chunk[s].size - 1}
    BY <1>1, <1>9, SetFooterIs
  <1>11. Core(g, P) /\ Sizes(g) = Sizes(f)
    <2>1. s + f.chunk[s].size - 1 \notin P
      BY <1>7, <1>8, <1>9, FreeIsClear
    <2>2. g.wrote \cap P = {} /\ Clear(g.chunk, P)
      BY <1>7, <1>10, <2>1 DEF Core
    <2>3. Grid(Sizes(f), g.chunk)
      BY <1>9, <1>10
    <2> QED BY <1>7, <1>10, <2>2, <2>3, CoreStep
  <1>12. Feet(g.chunk, g.foot, {})
    <2>1. Feet(f.chunk, g.foot, {s} \ {s})
      BY <1>7, <1>8, <1>9, <1>10, FootSet
    <2> QED BY <1>10, <2>1 DEF Feet
  <1>13. NotBoth(g.chunk, {})
    BY <1>6, <1>7, <1>10 DEF NotBoth, PredUsed, SuccUsed
  <1>14. Binning(g, FreeChunks(g.chunk))
    <2>1. \A e \in FreeChunks(f.chunk) : e \in DOMAIN g.chunk /\ ~ g.chunk[e].cused
                                         /\ g.chunk[e].size = f.chunk[e].size
      BY <1>10 DEF FreeChunks
    <2>2. Binning(g, FreeChunks(f.chunk))
      BY <1>7, <1>10, <2>1, BinFrame
    <2> QED BY <1>10, <2>2
  <1>15. Settled(g, P, X)
    BY <1>7, <1>10, <1>11, <1>12, <1>13, <1>14 DEF Settled
  <1>16. Alike(h, g)
    <2>1. Alike(h, f)
      BY <1>2, <1>6, AlikeTrans
    <2>2. Alike(f, g)
      BY <1>10 DEF Alike
    <2> QED BY <2>1, <2>2, AlikeTrans
  <1>17. X = {c} => IsFree(g.chunk, c)
    BY <1>3, <1>7, <1>10
  <1> QED BY <1>15, <1>16, <1>17

(* Cutting a chunk                                                         *)

\* What is true when the free chunk c was cut k units on, at n
FreeDivided(Z, K, c, k, n, D) ==
    /\ Grid(Z, D)
    /\ Flags(Z, K, {}) => Flags(Z, D, {})
    /\ NotBoth(K, {}) => NotBoth(D, {c})
    /\ \A b : FreeUnits(D, b) = FreeUnits(K, b)
    /\ FreeChunks(D) = FreeChunks(K) \cup {n}
    /\ \A F : Feet(K, F, {}) => Feet(D, Updated(F, c + K[c].size - 1, K[c].size - k), {c})
    /\ AtLeast(K, {}) => AtLeast(D, {c})
    /\ AtLeast(K, {}) /\ k >= MinSize => AtLeast(D, {})
    /\ Used(D) = Used(K)
    /\ D[c].size = k /\ D[c].heap = K[c].heap /\ D[c].pused = K[c].pused
    /\ IsFree(D, c) /\ IsFree(D, n) /\ n \notin DOMAIN K /\ c # n

LEMMA DivideFree ==
    ASSUME NEW Z, NEW K, Grid(Z, K), Apart(Z), NEW c, IsFree(K, c), NEW k, NEW n,
           CutAt(K, c, k, n), NEW D, D = Divide(K, c, k)
    PROVE  FreeDivided(Z, K, c, k, n, D)
  <1>1. c \in DOMAIN K /\ ~ K[c].cused
    BY DEF IsFree
  <1>2. /\ k \in Nat /\ n = c + k /\ Overhead <= k /\ k + MinSize <= K[c].size
        /\ k + Overhead <= K[c].size
    <2>1. K[c].size \in Nat
      BY <1>1, ChunkIn
    <2> QED BY <2>1 DEF CutAt, Overhead, MinSize
  <1>3. AreChunks(K) /\ InOrder(K) /\ c \in Nat /\ K[c].size \in Nat
    BY <1>1, ChunkIn
  <1>4. Grid(Z, D)
    BY <1>1, <1>2, DivideGrid DEF Apart
  <1>5. /\ DOMAIN D = DOMAIN K \cup {n} /\ n \notin DOMAIN K
        /\ D[c].size = k /\ D[c].heap = K[c].heap
        /\ D[c].cused = K[c].cused /\ D[c].pused = K[c].pused
        /\ D[n].size = K[c].size - k /\ D[n].heap = K[c].heap
        /\ ~ D[n].cused
        /\ \A e \in DOMAIN K : e # c => D[e] = K[e]
    <2>1. Divided(K, c, k, n, D)
      BY <1>1, <1>2, <1>3, DivideIs
    <2> QED BY <2>1 DEF Divided
  <1>6. /\ Flags(Z, K, {}) => Flags(Z, D, {})
        /\ NotBoth(K, {}) => NotBoth(D, {c})
    BY <1>1, <1>2, DivideFlags
  <1>7. \A b : FreeUnits(D, b) = FreeUnits(K, b)
    BY <1>1, <1>2, <1>3, DivideUnits
  <1>8. FreeChunks(D) = FreeChunks(K) \cup {n}
    BY <1>1, <1>2, <1>3, DivideUnits
  <1>9. ASSUME NEW F, Feet(K, F, {})
        PROVE  Feet(D, Updated(F, c + K[c].size - 1, K[c].size - k), {c})
    <2>1. Feet(D, F, {} \cup {c, n})
      BY <1>1, <1>2, <1>3, <1>9, DivideUnits
    <2>2. AreChunks(D) /\ InOrder(D) /\ n \in DOMAIN D /\ \A e \in DOMAIN D : D[e].size > 0
      BY <1>4, <1>5, ChunkIn DEF Grid
    <2>3. Feet(D, Updated(F, n + D[n].size - 1, D[n].size), ({} \cup {c, n}) \ {n})
      BY <2>1, <2>2, FootSet
    <2>4. n + D[n].size - 1 = c + K[c].size - 1
      BY <1>2, <1>3, <1>5
    <2>5. c # n
      BY <1>1, <1>5
    <2>6. ({} \cup {c, n}) \ {n} = {c}
      BY <2>5
    <2> QED BY <1>5, <2>3, <2>4, <2>6
  <1>10. AtLeast(K, {}) => AtLeast(D, {c})
    <2>1. ASSUME AtLeast(K, {}), NEW e \in DOMAIN D \ {c} PROVE D[e].size >= MinSize
      <3>1. CASE e = n
        BY <1>2, <1>3, <1>5, <3>1 DEF MinSize
      <3>2. CASE e # n
        BY <1>5, <2>1, <3>2 DEF AtLeast
      <3> QED BY <3>1, <3>2
    <2> QED BY <2>1 DEF AtLeast
  <1>11. AtLeast(K, {}) /\ k >= MinSize => AtLeast(D, {})
    BY <1>5, <1>10 DEF AtLeast
  <1>12. Used(D) = Used(K)
    BY <1>1, <1>2, <1>3, DivideUnits
  <1>13. IsFree(D, c) /\ IsFree(D, n) /\ c # n
    BY <1>1, <1>5 DEF IsFree
  <1> QED BY <1>4, <1>5, <1>6, <1>7, <1>8, <1>9, <1>10, <1>11, <1>12, <1>13 DEF FreeDivided

\* What is true when the tail of the used chunk c became a free chunk
UsedDivided(Z, K, c, k, n, D) ==
    /\ Grid(Z, D)
    /\ Flags(Z, K, {}) => Flags(Z, D, {n})
    /\ NotBoth(K, {}) => NotBoth(D, {n})
    /\ \A b : b # K[c].heap => FreeUnits(D, b) = FreeUnits(K, b)
    /\ FreeUnits(D, K[c].heap) = FreeUnits(K, K[c].heap) \cup Area(n, K[c].size - k)
    /\ FreeChunks(D) = FreeChunks(K) \cup {n}
    /\ \A F : Feet(K, F, {}) => Feet(D, F, {n})
    /\ AtLeast(K, {}) /\ k >= MinSize => AtLeast(D, {})
    /\ \A P \in SUBSET Nat : Clear(K, P) /\ P \cap Area(n, K[c].size - k) = {} => Clear(D, P)
    /\ Used(D) = Updated(Used(K), c, k)
    /\ D[c].size = k /\ D[c].heap = K[c].heap /\ D[n].heap = K[c].heap /\ D[n].pused
    /\ D[n].size = K[c].size - k /\ n \notin DOMAIN K /\ c # n
    /\ IsUsed(D, c) /\ IsFree(D, n) /\ \A e \in DOMAIN K : e # c => D[e] = K[e]

LEMMA DivideUsed ==
    ASSUME NEW Z, NEW K, Grid(Z, K), Apart(Z), NEW c, IsUsed(K, c), NEW k, NEW n,
           CutAt(K, c, k, n), NEW D, D = Divide(K, c, k)
    PROVE  UsedDivided(Z, K, c, k, n, D)
  <1>1. c \in DOMAIN K /\ K[c].cused
    BY DEF IsUsed
  <1>2. /\ k \in Nat /\ n = c + k /\ Overhead <= k /\ k + MinSize <= K[c].size
        /\ k + Overhead <= K[c].size
    <2>1. K[c].size \in Nat
      BY <1>1, ChunkIn
    <2> QED BY <2>1 DEF CutAt, Overhead, MinSize
  <1>3. AreChunks(K) /\ InOrder(K) /\ c \in Nat /\ K[c].size \in Nat
    BY <1>1, ChunkIn
  <1>4. Grid(Z, D)
    BY <1>1, <1>2, DivideGrid DEF Apart
  <1>5. /\ DOMAIN D = DOMAIN K \cup {n} /\ n \notin DOMAIN K
        /\ D[c].size = k /\ D[c].heap = K[c].heap
        /\ D[c].cused = K[c].cused
        /\ D[n].size = K[c].size - k /\ D[n].heap = K[c].heap
        /\ ~ D[n].cused /\ D[n].pused = K[c].cused
        /\ \A e \in DOMAIN K : e # c => D[e] = K[e]
    <2>1. Divided(K, c, k, n, D)
      BY <1>1, <1>2, <1>3, DivideIs
    <2> QED BY <2>1 DEF Divided
  <1>6. /\ Flags(Z, K, {}) => Flags(Z, D, {n})
        /\ NotBoth(K, {}) => NotBoth(D, {n})
    BY <1>1, <1>2, DivideFlags
  <1>7. \A b : FreeUnits(D, b) = FreeUnits(K, b) \cup IF b = K[c].heap THEN Area(n, D[n].size) ELSE {}
    BY <1>1, <1>2, <1>3, DivideUnits
  <1>8. FreeUnits(D, K[c].heap) = FreeUnits(K, K[c].heap) \cup Area(n, K[c].size - k)
    BY <1>5, <1>7
  <1>9. ASSUME NEW b, b # K[c].heap PROVE FreeUnits(D, b) = FreeUnits(K, b)
    BY <1>7, <1>9
  <1>10. FreeChunks(D) = FreeChunks(K) \cup {n}
    BY <1>1, <1>2, <1>3, DivideUnits
  <1>11. ASSUME NEW F, Feet(K, F, {}) PROVE Feet(D, F, {n})
    <2>1. Feet(D, F, {} \cup {c, n})
      BY <1>1, <1>2, <1>3, <1>11, DivideUnits
    <2> QED BY <1>1, <1>5, <2>1 DEF Feet
  <1>12. AtLeast(K, {}) /\ k >= MinSize => AtLeast(D, {})
    <2>1. ASSUME AtLeast(K, {}), k >= MinSize, NEW e \in DOMAIN D PROVE D[e].size >= MinSize
      <3>1. CASE e = n
        BY <1>2, <1>3, <1>5, <3>1 DEF MinSize
      <3>2. CASE e # n
        BY <1>5, <2>1, <3>2 DEF AtLeast
      <3> QED BY <3>1, <3>2
    <2> QED BY <2>1 DEF AtLeast
  <1>13. ASSUME NEW P \in SUBSET Nat, Clear(K, P), P \cap Area(n, K[c].size - k) = {} PROVE Clear(D, P)
    <2>1. \A u \in P : ~ (n <= u /\ u < c + K[c].size)
      BY <1>2, <1>3, <1>13 DEF Area
    <2> QED BY <1>1, <1>2, <1>3, <1>13, <2>1, DivideUnits
  <1>14. Used(D) = Updated(Used(K), c, k)
    BY <1>1, <1>2, <1>3, DivideUnits
  <1>15. IsUsed(D, c) /\ IsFree(D, n) /\ c # n /\ D[n].pused
    BY <1>1, <1>5 DEF IsFree, IsUsed
  <1> QED BY <1>4, <1>5, <1>6, <1>8, <1>9, <1>10, <1>11, <1>12, <1>13, <1>14, <1>15 DEF UsedDivided

(* The count of a heap's free units, and the heaps that are kept           *)

LEMMA AreaIs ==
    ASSUME NEW a \in Nat, NEW n \in Nat
    PROVE  Area(a, n) = a .. a + n - 1
BY DEF Area

\* Units of heap b that were free are not, or the reverse
Lost(K, M, b, a, n) ==
    /\ Area(a, n) \subseteq FreeUnits(K, b) /\ FreeUnits(M, b) = FreeUnits(K, b) \ Area(a, n)
    /\ \A x : x # b => FreeUnits(M, x) = FreeUnits(K, x)
Gained(K, M, b, a, n) ==
    /\ Area(a, n) \cap FreeUnits(K, b) = {} /\ FreeUnits(M, b) = FreeUnits(K, b) \cup Area(a, n)
    /\ \A x : x # b => FreeUnits(M, x) = FreeUnits(K, x)

LEMMA CountLess ==
    ASSUME NEW h, HeapsFine(h), Grid(Sizes(h), h.chunk), Count(h), NEW b \in DOMAIN h.heap,
           NEW a \in Nat, NEW n \in Nat, NEW g, Lost(h.chunk, g.chunk, b, a, n),
           NEW v \in Int, v = h.heap[b].freesz - n, g.heap = WithFreesz(h.heap, b, v)
    PROVE  Count(g)
  <1>9. /\ Area(a, n) \subseteq FreeUnits(h.chunk, b)
        /\ FreeUnits(g.chunk, b) = FreeUnits(h.chunk, b) \ Area(a, n)
        /\ \A x : x # b => FreeUnits(g.chunk, x) = FreeUnits(h.chunk, x)
    BY DEF Lost
  <1>1. /\ Apart(Sizes(h)) /\ DOMAIN Sizes(h) = DOMAIN h.heap
    BY SizesApart
  <1>2. IsFiniteSet(FreeUnits(h.chunk, b)) /\ Cardinality(FreeUnits(h.chunk, b)) \in Nat
    BY <1>1, FreeIn
  <1>3. Area(a, n) = a .. a + n - 1
    BY AreaIs
  <1>4. Cardinality(FreeUnits(h.chunk, b) \ (a .. a + n - 1)) = Cardinality(FreeUnits(h.chunk, b)) - n
    <2> DEFINE S == FreeUnits(h.chunk, b)
    <2>1. IsFiniteSet(S) /\ a \in Int /\ a .. a + n - 1 \subseteq S
      BY <1>2, <1>3, <1>9
    <2> HIDE DEF S
    <2>2. Cardinality(S \ (a .. a + n - 1)) = Cardinality(S) - n
      BY <2>1, CountSub
    <2> QED BY <2>2 DEF S
  <1>5. Cardinality(FreeUnits(g.chunk, b)) = Cardinality(FreeUnits(h.chunk, b)) - n
    BY <1>3, <1>4, <1>9
  <1> HIDE DEF FreeUnits
  <1>6. \A x \in DOMAIN h.heap : /\ h.heap[x] \in [size : Nat, freesz : Int]
                                 /\ h.heap[x].freesz = Cardinality(FreeUnits(h.chunk, x))
    BY DEF Count
  <1>8. ASSUME NEW x \in DOMAIN g.heap
        PROVE  /\ g.heap[x] \in [size : Nat, freesz : Int]
               /\ g.heap[x].freesz = Cardinality(FreeUnits(g.chunk, x))
    <2>1. CASE x = b
      <3>1. h.heap[b] \in [size : Nat, freesz : Int]
        BY <1>6
      <3>2. g.heap[b] \in [size : Nat, freesz : Int] /\ g.heap[b].freesz = v
        BY <3>1 DEF WithFreesz
      <3> QED BY <1>5, <1>6, <2>1, <3>2
    <2>2. CASE x # b
      BY <1>6, <1>9, <2>2 DEF WithFreesz
    <2> QED BY <2>1, <2>2
  <1> QED BY <1>8 DEF Count

LEMMA CountMore ==
    ASSUME NEW h, HeapsFine(h), Grid(Sizes(h), h.chunk), Count(h), NEW b \in DOMAIN h.heap,
           NEW a \in Nat, NEW n \in Nat, NEW g, Gained(h.chunk, g.chunk, b, a, n),
           NEW v \in Int, v = h.heap[b].freesz + n, g.heap = WithFreesz(h.heap, b, v)
    PROVE  Count(g)
  <1>9. /\ Area(a, n) \cap FreeUnits(h.chunk, b) = {}
        /\ FreeUnits(g.chunk, b) = FreeUnits(h.chunk, b) \cup Area(a, n)
        /\ \A x : x # b => FreeUnits(g.chunk, x) = FreeUnits(h.chunk, x)
    BY DEF Gained
  <1>1. /\ Apart(Sizes(h)) /\ DOMAIN Sizes(h) = DOMAIN h.heap
    BY SizesApart
  <1>2. IsFiniteSet(FreeUnits(h.chunk, b)) /\ Cardinality(FreeUnits(h.chunk, b)) \in Nat
    BY <1>1, FreeIn
  <1>3. Area(a, n) = a .. a + n - 1
    BY AreaIs
  <1>4. Cardinality(FreeUnits(h.chunk, b) \cup (a .. a + n - 1)) = Cardinality(FreeUnits(h.chunk, b)) + n
    <2> DEFINE S == FreeUnits(h.chunk, b)
    <2>1. IsFiniteSet(S) /\ a \in Int /\ \A u \in S : ~ (u \in a .. a + n - 1)
      BY <1>2, <1>3, <1>9
    <2> HIDE DEF S
    <2>2. Cardinality(S \cup (a .. a + n - 1)) = Cardinality(S) + n
      BY <2>1, CountAdd
    <2> QED BY <2>2 DEF S
  <1>5. Cardinality(FreeUnits(g.chunk, b)) = Cardinality(FreeUnits(h.chunk, b)) + n
    BY <1>3, <1>4, <1>9
  <1> HIDE DEF FreeUnits
  <1>6. \A x \in DOMAIN h.heap : /\ h.heap[x] \in [size : Nat, freesz : Int]
                                 /\ h.heap[x].freesz = Cardinality(FreeUnits(h.chunk, x))
    BY DEF Count
  <1>8. ASSUME NEW x \in DOMAIN g.heap
        PROVE  /\ g.heap[x] \in [size : Nat, freesz : Int]
               /\ g.heap[x].freesz = Cardinality(FreeUnits(g.chunk, x))
    <2>1. CASE x = b
      <3>1. h.heap[b] \in [size : Nat, freesz : Int]
        BY <1>6
      <3>2. g.heap[b] \in [size : Nat, freesz : Int] /\ g.heap[b].freesz = v
        BY <3>1 DEF WithFreesz
      <3> QED BY <1>5, <1>6, <2>1, <3>2
    <2>2. CASE x # b
      BY <1>6, <1>9, <2>2 DEF WithFreesz
    <2> QED BY <2>1, <2>2
  <1> QED BY <1>8 DEF Count

\* The units of c are those of a free chunk, or of none
LEMMA AreaFree ==
    ASSUME NEW Z, NEW K, Grid(Z, K), NEW c
    PROVE  /\ IsFree(K, c) => Area(c, K[c].size) \subseteq FreeUnits(K, K[c].heap)
           /\ IsUsed(K, c) => \A b : Area(c, K[c].size) \cap FreeUnits(K, b) = {}
  <1>1. ASSUME IsFree(K, c), NEW u \in Area(c, K[c].size) PROVE u \in FreeUnits(K, K[c].heap)
    BY <1>1 DEF IsFree, Area, FreeUnits
  <1>2. ASSUME IsUsed(K, c), NEW b, NEW u \in Area(c, K[c].size), u \in FreeUnits(K, b) PROVE FALSE
    <2>1. PICK e \in DOMAIN K : ~ K[e].cused /\ e <= u /\ u < e + K[e].size
      BY <1>2 DEF FreeUnits
    <2>2. u \in Nat /\ c <= u /\ u < c + K[c].size /\ c \in DOMAIN K /\ e # c
      BY <1>2, <2>1 DEF Area, IsUsed
    <2>3. InOrder(K) /\ c \in Nat /\ e \in Nat /\ K[c].size \in Nat /\ K[e].size \in Nat
      BY <2>2, ChunkIn
    <2> QED BY <2>1, <2>2, <2>3 DEF InOrder
  <1> QED BY <1>1, <1>2

\* Heap b is not entirely free (any more)
LEMMA KeptCharged ==
    ASSUME NEW h, HeapsFine(h), NEW b \in DOMAIN h.heap, Kept(h, {b}), NEW v \in Int, v # Whole(h, b),
           NEW g, Frame(h, g), g.heap = WithFreesz(h.heap, b, v)
    PROVE  Kept(g, {})
  <1>1. \A x \in DOMAIN h.heap : h.heap[x] \in [size : Nat, freesz : Int]
    BY DEF HeapsFine
  <1>2. /\ DOMAIN g.heap = DOMAIN h.heap /\ g.heap[b].freesz = v
        /\ \A x \in DOMAIN h.heap : g.heap[x].size = h.heap[x].size /\ (x # b => g.heap[x] = h.heap[x])
    BY <1>1 DEF WithFreesz
  <1>3. g.retained = h.retained /\ g.retainedsz = h.retainedsz
    BY DEF Frame
  <1>4. {x \in DOMAIN g.heap : g.heap[x].freesz = Whole(g, x)} \ {}
          = {x \in DOMAIN h.heap : h.heap[x].freesz = Whole(h, x)} \ {b}
    BY <1>2 DEF Whole
  <1> DEFINE R == {h.retained[i] : i \in DOMAIN h.retained}
  <1>5. R = {x \in DOMAIN h.heap : h.heap[x].freesz = Whole(h, x)} \ {b}
    BY DEF Kept
  <1>6. \A x \in R : x \in DOMAIN h.heap
    BY <1>5
  <1>7. UNION {Extent(x, g.heap[x].size) : x \in R} = UNION {Extent(x, h.heap[x].size) : x \in R}
    <2> HIDE DEF R
    <2>1. \A x \in R : Extent(x, g.heap[x].size) = Extent(x, h.heap[x].size)
      BY <1>2, <1>6
    <2> QED BY <2>1
  <1>8. {g.retained[i] : i \in DOMAIN g.retained} = R
    BY <1>3
  <1>9. /\ h.retained \in Seq(Nat)
        /\ \A i, j \in DOMAIN h.retained : h.retained[i] = h.retained[j] => i = j
        /\ h.retainedsz = Cardinality(UNION {Extent(x, h.heap[x].size) : x \in R})
        /\ Len(h.retained) <= RetainMax /\ h.retainedsz <= RetainUnits
    BY DEF Kept
  <1> HIDE DEF R
  <1>10. {g.retained[i] : i \in DOMAIN g.retained}
           = {x \in DOMAIN g.heap : g.heap[x].freesz = Whole(g, x)} \ {}
    BY <1>4, <1>5, <1>8
  <1>11. g.retainedsz = Cardinality(UNION {Extent(x, g.heap[x].size) :
                                            x \in {g.retained[i] : i \in DOMAIN g.retained}})
    <2>1. UNION {Extent(x, g.heap[x].size) : x \in {g.retained[i] : i \in DOMAIN g.retained}}
            = UNION {Extent(x, h.heap[x].size) : x \in R}
      BY <1>7, <1>8
    <2> QED BY <1>3, <1>9, <2>1
  <1>12. /\ g.retained \in Seq(Nat)
         /\ \A i, j \in DOMAIN g.retained : g.retained[i] = g.retained[j] => i = j
         /\ Len(g.retained) <= RetainMax /\ g.retainedsz <= RetainUnits
    BY <1>3, <1>9
  <1> QED BY <1>10, <1>11, <1>12 DEF Kept

Sizing(h, R) == UNION {Extent(b, h.heap[b].size) : b \in R}

LEMMA ExtentsFinite ==
    ASSUME NEW h, HeapsFine(h), NEW R \in SUBSET DOMAIN h.heap
    PROVE  IsFiniteSet(Sizing(h, R)) /\ Cardinality(Sizing(h, R)) \in Nat
  <1>1. h.hi \in Nat
    BY DEF HeapsFine
  <1>2. ASSUME NEW u \in Sizing(h, R) PROVE u \in 0 .. h.hi
    <2>1. PICK b \in R : u \in Extent(b, h.heap[b].size)
      BY DEF Sizing
    <2>2. b \in Nat /\ h.heap[b].size \in Nat /\ b + h.heap[b].size <= h.hi
      BY DEF HeapsFine
    <2> QED BY <1>1, <2>1, <2>2 DEF Extent
  <1>3. IsFiniteSet(0 .. h.hi)
    BY <1>1, FS_Interval
  <1>4. IsFiniteSet(Sizing(h, R))
    BY <1>2, <1>3, FS_Subset
  <1> QED BY <1>4, FS_CardinalityType

\* The heap b is one of R, and its memory is its own
LEMMA ExtentsLess ==
    ASSUME NEW h, HeapsFine(h), NEW R \in SUBSET DOMAIN h.heap, NEW b \in R
    PROVE  Cardinality(Sizing(h, R \ {b})) = Cardinality(Sizing(h, R)) - h.heap[b].size
  <1>1. \A x \in R : x \in Nat /\ h.heap[x].size \in Nat
    BY DEF HeapsFine
  <1>2. \A x, y \in R : x < y => x + h.heap[x].size <= y
    BY DEF HeapsFine
  <1> DEFINE S == Sizing(h, R)
             I == Extent(b, h.heap[b].size)
  <1>3. ASSUME NEW u \in Sizing(h, R \ {b}) PROVE u \in S /\ u \notin I
    <2>1. PICK x \in R \ {b} : u \in Extent(x, h.heap[x].size)
      BY DEF Sizing
    <2>2. u \in S
      BY <2>1 DEF Sizing
    <2>3. x + h.heap[x].size <= b \/ b + h.heap[b].size <= x
      BY <1>1, <1>2
    <2> QED BY <1>1, <2>1, <2>2, <2>3 DEF Extent
  <1>4. ASSUME NEW u \in S, u \notin I PROVE u \in Sizing(h, R \ {b})
    BY <1>4 DEF Sizing
  <1>5. ASSUME NEW u \in I PROVE u \in S
    BY <1>5 DEF Sizing
  <1> HIDE DEF S
  <1>6. Sizing(h, R \ {b}) = S \ I /\ I \subseteq S
    BY <1>3, <1>4, <1>5
  <1>7. I = b .. b + h.heap[b].size - 1
    BY DEF Extent
  <1> HIDE DEF I
  <1>8. IsFiniteSet(S)
    BY ExtentsFinite DEF S
  <1>9. Cardinality(S \ I) = Cardinality(S) - h.heap[b].size
    <2>1. b \in Int /\ h.heap[b].size \in Nat
      BY <1>1
    <2> DEFINE n == h.heap[b].size
    <2>2. n \in Nat /\ b .. b + n - 1 \subseteq S
      BY <1>6, <1>7, <2>1
    <2> HIDE DEF n
    <2>3. Cardinality(S \ (b .. b + n - 1)) = Cardinality(S) - n
      BY <1>8, <2>1, <2>2, CountSub
    <2> QED BY <1>7, <2>3 DEF n
  <1> QED BY <1>6, <1>9 DEF S

TakenOut(s, i, t) ==
    /\ t \in Seq(Nat) /\ Len(t) = Len(s) - 1 /\ Len(s) \in Nat
    /\ \A j \in DOMAIN t : t[j] = IF j < i THEN s[j] ELSE s[j + 1]
    /\ DOMAIN s = 1 .. Len(s) /\ DOMAIN t = 1 .. Len(t)

LEMMA Removed ==
    ASSUME NEW s \in Seq(Nat), NEW i \in DOMAIN s, NEW t, t = RemoveAt(s, i)
    PROVE  TakenOut(s, i, t)
  <1>1. DOMAIN s = 1 .. Len(s) /\ Len(s) \in Nat /\ i \in 1 .. Len(s)
    OBVIOUS
  <1>2. t = SubSeq(s, 1, i - 1) \o SubSeq(s, i + 1, Len(s))
    BY DEF RemoveAt
  <1> DEFINE n == Len(s)
             x == SubSeq(s, 1, i - 1)
             y == SubSeq(s, i + 1, n)
  <1>3. x \in Seq(Nat) /\ Len(x) = i - 1 /\ \A j \in 1 .. i - 1 : x[j] = s[j]
    <2>1. 1 \in Int /\ i - 1 \in Int /\ \A j \in 1 .. i - 1 : s[j] \in Nat
      BY <1>1
    <2>2. /\ x \in Seq(Nat) /\ Len(x) = IF 1 <= i - 1 THEN i - 1 - 1 + 1 ELSE 0
          /\ \A j \in 1 .. i - 1 - 1 + 1 : x[j] = s[1 + j - 1]
      BY <2>1, SubSeqProperties
    <2> HIDE DEF x
    <2>3. i \in 1 .. n /\ n \in Nat
      BY <1>1
    <2>4. i - 1 - 1 + 1 = i - 1 /\ \A j \in 1 .. i - 1 : 1 + j - 1 = j
      BY <2>3
    <2>5. Len(x) = i - 1
      BY <2>2, <2>3
    <2> QED BY <2>2, <2>4, <2>5
  <1>4. y \in Seq(Nat) /\ Len(y) = n - i /\ \A j \in 1 .. n - i : y[j] = s[i + j]
    <2>1. i + 1 \in Int /\ n \in Int /\ \A j \in i + 1 .. n : s[j] \in Nat
      BY <1>1
    <2>2. /\ y \in Seq(Nat) /\ Len(y) = IF i + 1 <= n THEN n - (i + 1) + 1 ELSE 0
          /\ \A j \in 1 .. n - (i + 1) + 1 : y[j] = s[i + 1 + j - 1]
      BY <2>1, SubSeqProperties
    <2> HIDE DEF y
    <2>3. i \in 1 .. n /\ n \in Nat
      BY <1>1
    <2>4. n - (i + 1) + 1 = n - i /\ \A j \in 1 .. n - i : i + 1 + j - 1 = i + j
      BY <2>3
    <2>5. Len(y) = n - i
      BY <2>2, <2>3
    <2> QED BY <2>2, <2>4, <2>5
  <1>5. t = x \o y
    BY <1>2
  <1>6. n \in Nat /\ i \in 1 .. n
    BY <1>1
  <1> HIDE DEF x, y, n
  <1>7. /\ t \in Seq(Nat) /\ Len(t) = n - 1
        /\ \A j \in 1 .. n - 1 : t[j] = IF j <= i - 1 THEN x[j] ELSE y[j - (i - 1)]
    <2>1. /\ t \in Seq(Nat) /\ Len(t) = Len(x) + Len(y)
          /\ \A j \in 1 .. Len(x) + Len(y) : t[j] = IF j <= Len(x) THEN x[j] ELSE y[j - Len(x)]
      <3>1. x \in Seq(Nat) /\ y \in Seq(Nat)
        BY <1>3, <1>4
      <3> QED BY <1>5, <3>1
    <2>2. Len(x) = i - 1 /\ Len(x) + Len(y) = n - 1
      BY <1>3, <1>4, <1>6
    <2> QED BY <2>1, <2>2
  <1>8. ASSUME NEW j \in 1 .. n - 1 PROVE t[j] = IF j < i THEN s[j] ELSE s[j + 1]
    <2>1. CASE j < i
      <3>1. j <= i - 1 /\ j \in 1 .. i - 1
        BY <1>6, <2>1
      <3>2. t[j] = x[j] /\ x[j] = s[j]
        BY <1>3, <1>7, <3>1
      <3> QED BY <2>1, <3>2
    <2>2. CASE ~ (j < i)
      <3>1. ~ (j <= i - 1) /\ j - (i - 1) \in 1 .. n - i /\ i + (j - (i - 1)) = j + 1
        BY <1>6, <2>2
      <3>2. t[j] = y[j - (i - 1)]
        BY <1>7, <3>1
      <3>3. y[j - (i - 1)] = s[i + (j - (i - 1))]
        BY <1>4, <3>1
      <3> QED BY <2>2, <3>1, <3>2, <3>3
    <2> QED BY <2>1, <2>2
  <1>9. t \in Seq(Nat) /\ DOMAIN t = 1 .. n - 1
    BY <1>7
  <1> QED BY <1>1, <1>7, <1>8, <1>9 DEF n, TakenOut

Listing(s) == {s[j] : j \in DOMAIN s}

LEMMA RemovedOnce ==
    ASSUME NEW s \in Seq(Nat), \A j, k \in DOMAIN s : s[j] = s[k] => j = k, NEW i \in DOMAIN s,
           NEW t, t = RemoveAt(s, i)
    PROVE  /\ \A j, k \in DOMAIN t : t[j] = t[k] => j = k
           /\ Listing(t) = Listing(s) \ {s[i]}
  <1>3. /\ Len(t) = Len(s) - 1 /\ Len(s) \in Nat /\ i \in 1 .. Len(s)
        /\ \A j \in DOMAIN t : t[j] = IF j < i THEN s[j] ELSE s[j + 1]
        /\ DOMAIN s = 1 .. Len(s) /\ DOMAIN t = 1 .. Len(t)
    <2>1. TakenOut(s, i, t)
      BY Removed
    <2> QED BY <2>1 DEF TakenOut
  <1> DEFINE n == Len(s)
  <1>4. /\ DOMAIN t = 1 .. n - 1 /\ n \in Nat /\ i \in 1 .. n /\ DOMAIN s = 1 .. n
        /\ \A j \in 1 .. n - 1 : t[j] = IF j < i THEN s[j] ELSE s[j + 1]
    BY <1>3
  <1> HIDE DEF n
  <1>5. ASSUME NEW j \in 1 .. n - 1, NEW k \in 1 .. n - 1, t[j] = t[k] PROVE j = k
    <2>1. CASE j < i /\ k < i
      <3>1. s[j] = s[k] /\ j \in 1 .. n /\ k \in 1 .. n
        BY <1>4, <1>5, <2>1
      <3> QED BY <1>4, <3>1
    <2>2. CASE j < i /\ ~ (k < i)
      <3>1. s[j] = s[k + 1] /\ j \in 1 .. n /\ k + 1 \in 1 .. n
        BY <1>4, <1>5, <2>2
      <3>2. j = k + 1
        BY <1>4, <3>1
      <3> QED BY <1>4, <2>2, <3>2
    <2>3. CASE ~ (j < i) /\ k < i
      <3>1. s[j + 1] = s[k] /\ j + 1 \in 1 .. n /\ k \in 1 .. n
        BY <1>4, <1>5, <2>3
      <3>2. j + 1 = k
        BY <1>4, <3>1
      <3> QED BY <1>4, <2>3, <3>2
    <2>4. CASE ~ (j < i) /\ ~ (k < i)
      <3>1. s[j + 1] = s[k + 1] /\ j + 1 \in 1 .. n /\ k + 1 \in 1 .. n
        BY <1>4, <1>5, <2>4
      <3>2. j + 1 = k + 1
        BY <1>4, <3>1
      <3> QED BY <3>2
    <2> QED BY <2>1, <2>2, <2>3, <2>4
  <1>6. ASSUME NEW j \in 1 .. n - 1 PROVE \E k \in 1 .. n : k # i /\ t[j] = s[k]
    <2>1. CASE j < i
      <3>1. j \in 1 .. n /\ j # i /\ t[j] = s[j]
        BY <1>4, <2>1
      <3> QED BY <3>1
    <2>2. CASE ~ (j < i)
      <3>1. j + 1 \in 1 .. n /\ j + 1 # i /\ t[j] = s[j + 1]
        BY <1>4, <2>2
      <3> QED BY <3>1
    <2> QED BY <2>1, <2>2
  <1>7. ASSUME NEW k \in 1 .. n, k # i PROVE \E j \in 1 .. n - 1 : t[j] = s[k]
    <2>1. CASE k < i
      <3>1. k \in 1 .. n - 1 /\ t[k] = s[k]
        BY <1>4, <2>1
      <3> QED BY <3>1
    <2>2. CASE ~ (k < i)
      <3>1. k - 1 \in 1 .. n - 1 /\ ~ (k - 1 < i) /\ (k - 1) + 1 = k
        BY <1>4, <1>7, <2>2
      <3>2. t[k - 1] = s[(k - 1) + 1]
        BY <1>4, <3>1
      <3> QED BY <3>1, <3>2
    <2> QED BY <2>1, <2>2
  <1>8. \A k \in 1 .. n : s[k] = s[i] => k = i
    BY <1>4
  <1>9. Listing(t) = Listing(s) \ {s[i]}
    <2>1. ASSUME NEW x \in Listing(t) PROVE x \in Listing(s) \ {s[i]}
      <3>1. PICK j \in 1 .. n - 1 : x = t[j]
        BY <1>4 DEF Listing
      <3>2. PICK k \in 1 .. n : k # i /\ t[j] = s[k]
        BY <1>6
      <3> QED BY <1>4, <1>8, <3>1, <3>2 DEF Listing
    <2>2. ASSUME NEW x \in Listing(s), x # s[i] PROVE x \in Listing(t)
      <3>1. PICK k \in 1 .. n : x = s[k]
        BY <1>4 DEF Listing
      <3>2. k # i
        BY <2>2, <3>1
      <3>3. \E j \in 1 .. n - 1 : t[j] = s[k]
        BY <1>7, <3>2
      <3> QED BY <1>4, <3>1, <3>3 DEF Listing
    <2> QED BY <2>1, <2>2
  <1> QED BY <1>4, <1>5, <1>9

\* All but the list of the heaps that are kept
Unlisted(h, g) ==
    /\ IsHeap(g) /\ g.heap = h.heap /\ g.chunk = h.chunk /\ g.foot = h.foot /\ SameBins(h, g)
    /\ g.mapsz = h.mapsz /\ g.released = h.released /\ g.relIdx = h.relIdx /\ g.lo = h.lo
    /\ g.hi = h.hi /\ g.wrote = h.wrote

\* The entry i of the list, heap b, was dropped
Unretained(h, g, X, i, b) ==
    /\ Unlisted(h, g) /\ Kept(g, X \cup {b})
    /\ b \in DOMAIN h.heap /\ h.heap[b].freesz = Whole(h, b)
    /\ Len(h.retained) \in Nat /\ Len(g.retained) = Len(h.retained) - 1
    /\ g.retained = RemoveAt(h.retained, i)

LEMMA UnretainAtKeeps ==
    ASSUME NEW h, IsHeap(h), HeapsFine(h), NEW X, Kept(h, X), NEW i \in DOMAIN h.retained,
           NEW b, b = h.retained[i], NEW g, g = UnretainAt(h, i)
    PROVE  Unretained(h, g, X, i, b)
  <1> DEFINE s == h.retained
             t == g.retained
             R == Listing(s)
             A == {x \in DOMAIN h.heap : h.heap[x].freesz = Whole(h, x)}
  <1>1. /\ Unlisted(h, g) /\ g.retained = RemoveAt(h.retained, i)
        /\ g.retainedsz = h.retainedsz - h.heap[b].size
    BY DEF UnretainAt, IsHeap, Unlisted, SameBins
  <1>2. /\ s \in Seq(Nat) /\ \A j, k \in DOMAIN s : s[j] = s[k] => j = k
        /\ R = A \ X
        /\ h.retainedsz = Cardinality(Sizing(h, R))
        /\ Len(s) <= RetainMax /\ h.retainedsz <= RetainUnits
    BY DEF Kept, Sizing, Listing
  <1>3. t \in Seq(Nat) /\ Len(t) = Len(s) - 1 /\ Len(s) \in Nat
    <2> HIDE DEF s, t
    <2>1. s \in Seq(Nat) /\ i \in DOMAIN s /\ t = RemoveAt(s, i)
      BY <1>1, <1>2 DEF s, t
    <2>2. TakenOut(s, i, t)
      BY <2>1, Removed
    <2> QED BY <2>2 DEF TakenOut
  <1>4. b \in R
    BY DEF Listing
  <1>5. \A j, k \in DOMAIN t : t[j] = t[k] => j = k
    BY <1>1, <1>2, RemovedOnce
  <1>6. Listing(t) = R \ {b}
    BY <1>1, <1>2, RemovedOnce
  <1> HIDE DEF R
  <1>7. R \subseteq DOMAIN h.heap
    BY <1>2
  <1>8. g.retainedsz = Cardinality(Sizing(h, R \ {b}))
    <2>1. Cardinality(Sizing(h, R \ {b})) = Cardinality(Sizing(h, R)) - h.heap[b].size
      BY <1>4, <1>7, ExtentsLess
    <2> QED BY <1>1, <1>2, <2>1
  <1>9. g.retainedsz <= RetainUnits
    <2>1. h.heap[b].size \in Nat /\ Cardinality(Sizing(h, R)) \in Nat
      BY <1>4, <1>7, ExtentsFinite DEF HeapsFine
    <2> QED BY <1>1, <1>2, <2>1, HeapAssumption
  <1>10. Len(t) <= RetainMax
    BY <1>2, <1>3, HeapAssumption
  <1>11. g.heap = h.heap /\ {x \in DOMAIN g.heap : g.heap[x].freesz = Whole(g, x)} = A
    BY <1>1 DEF Unlisted, Whole
  <1>12. Listing(t) = {x \in DOMAIN g.heap : g.heap[x].freesz = Whole(g, x)} \ (X \cup {b})
    <2>1. R \ {b} = A \ (X \cup {b})
      BY <1>2
    <2> QED BY <1>6, <1>11, <2>1
  <1>13. g.retainedsz = Cardinality(Sizing(g, Listing(t)))
    <2>1. Sizing(g, R \ {b}) = Sizing(h, R \ {b})
      BY <1>11 DEF Sizing
    <2> QED BY <1>6, <1>8, <2>1
  <1>14. Kept(g, X \cup {b})
    BY <1>3, <1>5, <1>9, <1>10, <1>12, <1>13 DEF Kept, Listing, Sizing
  <1>15. b \in DOMAIN h.heap /\ h.heap[b].freesz = Whole(h, b)
    BY <1>2, <1>4
  <1> QED BY <1>1, <1>3, <1>14, <1>15 DEF Unretained

LEMMA UnlistedCore ==
    ASSUME NEW h, NEW g, Unlisted(h, g)
    PROVE  /\ \A P : Core(h, P) => Core(g, P)
           /\ HeapsFine(h) => HeapsFine(g)
           /\ \A P, X : Settled(h, P, X) => Settled(g, P, X)
           /\ Count(h) => Count(g)
           /\ \A S : Binning(h, S) => Binning(g, S)
           /\ Sizes(g) = Sizes(h)
  <1>1. Sizes(g) = Sizes(h)
    BY DEF Unlisted, Sizes
  <1>2. HeapsFine(h) => HeapsFine(g)
    BY DEF Unlisted, HeapsFine, Mapped
  <1>3. \A P : Core(h, P) => Core(g, P)
    BY <1>1, <1>2 DEF Unlisted, Core
  <1>4. \A S : Binning(h, S) => Binning(g, S)
    BY DEF Unlisted, SameBins, Binning, Bins, BinOf
  <1>5. Count(h) => Count(g)
    BY DEF Unlisted, Count
  <1>6. \A P, X : Settled(h, P, X) => Settled(g, P, X)
    BY <1>1, <1>3, <1>4 DEF Unlisted, Settled
  <1> QED BY <1>1, <1>2, <1>3, <1>4, <1>5, <1>6

LEMMA MaxIn ==
    ASSUME NEW S, NEW n \in Nat, S \subseteq 1 .. n, S # {}
    PROVE  Max(S) \in S
  <1> DEFINE D == {k \in Nat : \E x \in S : n - x = k}
  <1>1. PICK x \in S : TRUE
    OBVIOUS
  <1>2. n - x \in D
    BY <1>1
  <1>3. D \subseteq Nat /\ D # {}
    BY <1>2
  <1> HIDE DEF D
  <1>4. PICK i \in D : \A j \in D : i <= j
    BY <1>3, LeastOne
  <1>5. PICK y \in S : n - y = i
    BY <1>4 DEF D
  <1>6. \A z \in S : z <= y
    <2> TAKE z \in S
    <2>1. n - z \in D
      BY DEF D
    <2> QED BY <1>4, <1>5, <2>1
  <1> QED BY <1>6 DEF Max

\* A heap that is used again is not on the list
LEMMA ReuseKeeps ==
    ASSUME NEW h, IsHeap(h), HeapsFine(h), NEW b \in DOMAIN h.heap, Kept(h, {}) \/ Kept(h, {b}),
           NEW g, g = Reuse(h, b)
    PROVE  Unlisted(h, g) /\ Kept(g, {b})
  <1>1. Unlisted(h, h)
    BY DEF Unlisted, SameBins
  <1> DEFINE I == {i \in DOMAIN h.retained : h.retained[i] = b}
  <1>2. \A X : Kept(h, X) => /\ h.retained \in Seq(Nat)
                             /\ {h.retained[i] : i \in DOMAIN h.retained}
                                  = {x \in DOMAIN h.heap : h.heap[x].freesz = Whole(h, x)} \ X
    BY DEF Kept
  <1>3. CASE I = {}
    <2>1. g = h
      BY <1>3 DEF Reuse, Unretain
    <2>2. Kept(h, {}) => Kept(h, {b})
      <3> SUFFICES ASSUME Kept(h, {}) PROVE Kept(h, {b})
        OBVIOUS
      <3>1. b \notin {h.retained[i] : i \in DOMAIN h.retained}
        BY <1>3
      <3>2. {x \in DOMAIN h.heap : h.heap[x].freesz = Whole(h, x)} \ {}
              = {x \in DOMAIN h.heap : h.heap[x].freesz = Whole(h, x)} \ {b}
        BY <1>2, <3>1
      <3> QED BY <3>2 DEF Kept
    <2> QED BY <1>1, <2>1, <2>2
  <1>4. CASE I # {}
    <2>1. PICK X : Kept(h, X) /\ X \cup {b} = {b}
      OBVIOUS
    <2>2. h.heap[b].freesz = Whole(h, b)
      BY <1>2, <1>4, <2>1
    <2>3. Max(I) \in I
      <3>1. Len(h.retained) \in Nat /\ I \subseteq 1 .. Len(h.retained)
        BY <1>2, <2>1
      <3> HIDE DEF I
      <3> QED BY <1>4, <3>1, MaxIn
    <2>4. g = UnretainAt(h, Max(I))
      BY <1>4, <2>2 DEF Reuse, Unretain
    <2> DEFINE i == Max(I)
    <2>5. i \in DOMAIN h.retained /\ h.retained[i] = b /\ g = UnretainAt(h, i)
      BY <2>3, <2>4
    <2> HIDE DEF i, I
    <2>6. Unretained(h, g, X, i, b)
      BY <2>1, <2>5, UnretainAtKeeps
    <2> QED BY <2>1, <2>6 DEF Unretained
  <1> QED BY <1>3, <1>4

(* A free chunk is taken                                                   *)

LEMMA FreePused ==
    ASSUME NEW Z, NEW K, Grid(Z, K), Apart(Z), Flags(Z, K, {}), NEW c, IsFree(K, c), NotBoth(K, {})
    PROVE  K[c].pused
  <1>1. c \in DOMAIN K /\ ~ K[c].cused
    BY DEF IsFree
  <1>2. Lies(Z, K, c)
    BY <1>1 DEF Grid
  <1>3. CASE c = K[c].heap + Header
    BY <1>2, <1>3 DEF Lies, Flags
  <1>4. CASE \E d \in DOMAIN K : d + K[d].size = c
    <2>1. PICK d \in DOMAIN K : d + K[d].size = c
      BY <1>4
    <2>2. Behind(K, d, c)
      BY <1>1, <2>1 DEF Behind
    <2>3. K[d].cused
      BY <1>1, <2>2 DEF NotBoth
    <2> QED BY <1>1, <2>2, <2>3 DEF Flags
  <1> QED BY <1>2, <1>3, <1>4 DEF Lies

\* What is to be true of a chunk that is about to be taken, and of one that was cut for it
CutReady(h, P, c, size) ==
    /\ Core(h, P) /\ AtLeast(h.chunk, {}) /\ Flags(Sizes(h), h.chunk, {})
    /\ NotBoth(h.chunk, {c}) /\ Feet(h.chunk, h.foot, {}) /\ Binning(h, FreeChunks(h.chunk))
    /\ IsFree(h.chunk, c) /\ h.chunk[c].pused
    /\ size \in Nat /\ 1 <= size /\ size <= h.chunk[c].size
    /\ CanSplit(h, c, size) => NotBoth(h.chunk, {})
CutDone(h, g, P, c, size) ==
    /\ Core(g, P) /\ Frame(h, g) /\ g.heap = h.heap
    /\ Flags(Sizes(g), g.chunk, {}) /\ NotBoth(g.chunk, {c}) /\ Feet(g.chunk, g.foot, {c})
    /\ AtLeast(g.chunk, {c}) /\ (size >= MinSize => AtLeast(g.chunk, {}))
    /\ Binning(g, FreeChunks(g.chunk) \ {c}) /\ IsFree(g.chunk, c)
    /\ \A b : FreeUnits(g.chunk, b) = FreeUnits(h.chunk, b)
    /\ Used(g.chunk) = Used(h.chunk)
    /\ g.chunk[c].heap = h.chunk[c].heap /\ size <= g.chunk[c].size

LEMMA CutIs ==
    ASSUME NEW h, NEW P \in SUBSET Nat, NEW c, NEW size, CutReady(h, P, c, size),
           NEW g, g = Cut(h, c, size)
    PROVE  CutDone(h, g, P, c, size)
  <1> DEFINE K == h.chunk
             Z == Sizes(h)
             S == FreeChunks(K)
  <1>1. /\ Core(h, P) /\ AtLeast(K, {}) /\ Flags(Z, K, {}) /\ NotBoth(K, {c})
        /\ Feet(K, h.foot, {}) /\ Binning(h, S) /\ IsFree(K, c) /\ K[c].pused
        /\ size \in Nat /\ 1 <= size /\ size <= K[c].size
        /\ CanSplit(h, c, size) => NotBoth(K, {})
    BY DEF CutReady
  <1>2. IsHeap(h) /\ Grid(Z, K) /\ Apart(Z)
    BY <1>1, CoreIs
  <1>3. c \in S /\ c \in DOMAIN K /\ ~ K[c].cused
    BY <1>1 DEF IsFree, FreeChunks
  <1>4. CASE CanSplit(h, c, size)
    <2> DEFINE n == c + size
               D == Divide(K, c, size)
    <2>1. CutAt(K, c, size, n)
      BY <1>1, <1>4 DEF CanSplit, CutAt, Size
    <2>2. Overhead <= size /\ size + MinSize <= K[c].size
      BY <2>1 DEF CutAt
    <2>3. g = Split(h, c, size)
      BY <1>4 DEF Cut
    <2>4. n = c + size /\ D = Divide(K, c, size)
      OBVIOUS
    <2> HIDE DEF n, D, S
    <2>5. /\ Frame(h, g) /\ g.heap = h.heap /\ g.chunk = Divide(K, c, size)
          /\ g.foot = Updated(h.foot, c + K[c].size - 1, K[c].size - size)
          /\ Core(g, P) /\ Binning(g, (S \ {c}) \cup {n})
      <3>1. SplitDone(h, g, P, S, c, size, n)
        BY <1>1, <1>3, <2>2, <2>3, <2>4, SplitKeeps
      <3> QED BY <3>1 DEF SplitDone
    <2>6. FreeDivided(Z, K, c, size, n, D)
      <3> HIDE DEF Z, K
      <3> QED BY <1>1, <1>2, <2>1, <2>4, DivideFree
    <2>7. g.chunk = D /\ Sizes(g) = Z
      BY <2>4, <2>5 DEF Sizes
    <2> HIDE DEF Z, K
    <2>8. Flags(Z, D, {}) /\ NotBoth(D, {c}) /\ AtLeast(D, {c}) /\ (size >= MinSize => AtLeast(D, {}))
      BY <1>1, <1>4, <2>6 DEF FreeDivided
    <2>9. Feet(D, g.foot, {c})
      BY <1>1, <2>5, <2>6 DEF FreeDivided
    <2>10. /\ \A b : FreeUnits(D, b) = FreeUnits(K, b)
           /\ Used(D) = Used(K) /\ IsFree(D, c) /\ D[c].heap = K[c].heap /\ D[c].size = size
      BY <2>6 DEF FreeDivided
    <2>11. FreeChunks(D) \ {c} = (S \ {c}) \cup {n}
      BY <2>6 DEF FreeDivided, S
    <2>12. size <= D[c].size
      BY <1>1, <2>10
    <2>13. /\ \A b : FreeUnits(g.chunk, b) = FreeUnits(K, b)
           /\ Used(g.chunk) = Used(K) /\ IsFree(g.chunk, c) /\ g.chunk[c].heap = K[c].heap
           /\ size <= g.chunk[c].size
      BY <2>7, <2>10, <2>12
    <2>14. Binning(g, FreeChunks(g.chunk) \ {c})
      BY <2>5, <2>7, <2>11
    <2> QED BY <2>5, <2>7, <2>8, <2>9, <2>13, <2>14 DEF CutDone, K
  <1>5. CASE ~ CanSplit(h, c, size)
    <2>1. g = TakeChunk(h, c)
      BY <1>5 DEF Cut
    <2>2. /\ Frame(h, g) /\ g.heap = h.heap /\ g.foot = h.foot /\ g.chunk = K
          /\ Core(g, P) /\ Binning(g, S \ {c})
      BY <1>1, <1>3, <2>1, TakeKeeps
    <2>3. Sizes(g) = Z
      BY <2>2 DEF Sizes
    <2>4. Feet(K, h.foot, {c}) /\ AtLeast(K, {c})
      BY <1>1 DEF Feet, AtLeast
    <2> QED BY <1>1, <2>2, <2>3, <2>4 DEF CutDone
  <1> QED BY <1>4, <1>5

\* The size of the chunk is no longer counted as free
FreeszSet(h, b, v) == [h EXCEPT !.heap[b].freesz = v]
Counted(h, g, b, v) ==
    /\ Frame(h, g) /\ SameBins(h, g) /\ g.chunk = h.chunk /\ g.foot = h.foot
    /\ g.wrote = h.wrote /\ g.heap = WithFreesz(h.heap, b, v)

LEMMA FreeszIs ==
    ASSUME NEW h, IsHeap(h), NEW b, NEW v, NEW g, g = FreeszSet(h, b, v)
    PROVE  Counted(h, g, b, v)
BY DEF FreeszSet, IsHeap, Frame, SameBins, Counted, WithFreesz

\* A chunk was taken for `size' units
AllocDone(h, g, P, c, size) ==
    /\ Core(g, P) /\ Flags(Sizes(g), g.chunk, {}) /\ NotBoth(g.chunk, {}) /\ Feet(g.chunk, g.foot, {})
    /\ AtLeast(g.chunk, {c}) /\ (size >= MinSize => AtLeast(g.chunk, {}))
    /\ Binning(g, FreeChunks(g.chunk)) /\ Count(g) /\ Kept(g, {})
    /\ IsUsed(g.chunk, c) /\ size <= g.chunk[c].size
    /\ Used(g.chunk) = Updated(Used(h.chunk), c, g.chunk[c].size)

LEMMA ChargeIs ==
    ASSUME NEW h0, NEW h, NEW P \in SUBSET Nat, NEW c, NEW size, CutDone(h0, h, P, c, size),
           Count(h), NEW b, b = h.chunk[c].heap, Kept(h, {b}),
           NEW g, g = TellNext(Charge(h, c), c, TRUE)
    PROVE  AllocDone(h0, g, P, c, size)
  <1> DEFINE K == h.chunk
             Z == Sizes(h)
             s == K[c].size
             v == h.heap[b].freesz - s
             h1 == FreeszSet(h, b, v)
  <1>1. /\ Core(h, P) /\ Flags(Z, K, {}) /\ NotBoth(K, {c}) /\ Feet(K, h.foot, {c})
        /\ AtLeast(K, {c}) /\ (size >= MinSize => AtLeast(K, {}))
        /\ Binning(h, FreeChunks(K) \ {c}) /\ IsFree(K, c) /\ size <= K[c].size
        /\ Used(K) = Used(h0.chunk)
    BY DEF CutDone
  <1>2. IsHeap(h) /\ HeapsFine(h) /\ Grid(Z, K) /\ Apart(Z) /\ c \in DOMAIN K
    BY <1>1, CoreIs DEF Core, IsFree
  <1>3. /\ c \in Nat /\ s \in Nat /\ s >= 2 /\ b \in DOMAIN h.heap
        /\ h.heap[b].freesz \in Int /\ h.heap[b].size \in Nat /\ DOMAIN Z = DOMAIN h.heap
    BY <1>1, <1>2, CoreIs
  <1>4. PICK u \in BOOLEAN : u /\ g = TellNext(SetUsed(h1, c, u), c, u)
    BY DEF Charge, FreeszSet, HeapOf, Size
  <1> DEFINE h2 == SetUsed(h1, c, u)
             M == Take(K, c)
  <1>30. Counted(h, h1, b, v)
    BY <1>2, FreeszIs
  <1>5. /\ Frame(h, h1) /\ SameBins(h, h1) /\ h1.chunk = K /\ h1.foot = h.foot
        /\ h1.wrote = h.wrote /\ h1.heap = WithFreesz(h.heap, b, v)
    BY <1>30 DEF Counted
  <1>6. g = TellNext(h2, c, u) /\ h2 = SetUsed(h1, c, u)
    BY <1>4
  <1>7. M = Take(K, c) /\ M = Mark(K, c, u)
    BY <1>4 DEF Take
  <1>8. v = h.heap[b].freesz - s /\ v \in Int
    BY <1>3
  <1> HIDE DEF h1, h2, M, v
  <1>9. HeapsFine(h1) /\ Sizes(h1) = Z
    <2>1. Refined(h, h1, b, v)
      BY <1>2, <1>3, <1>5, <1>8, FreeszFine
    <2> QED BY <2>1 DEF Refined
  <1>10. IsHeap(h1)
    BY <1>5 DEF Frame
  <1>11. /\ Frame(h1, h2) /\ SameBins(h1, h2) /\ h2.heap = h1.heap /\ h2.foot = h1.foot
         /\ h2.chunk = WithUsed(h1.chunk, c, u)
         /\ h2.wrote = h1.wrote \cup {c}
    BY <1>6, <1>10, SetUsedIs
  <1>12. IsHeap(h2) /\ HeapsFine(h2) /\ Sizes(h2) = Z
    BY <1>9, <1>11, FrameFine DEF Frame
  <1>13. /\ Frame(h2, g) /\ SameBins(h2, g) /\ g.heap = h2.heap /\ g.foot = h2.foot
         /\ g.chunk = Mark(K, c, u)
         /\ g.wrote \subseteq h2.wrote \cup DOMAIN K
    <2> DEFINE n == c + K[c].size
    <2>1. n \in DOMAIN K => K[n].size >= MinSize
      BY <1>1, <1>3 DEF AtLeast
    <2>2. h2.chunk = WithUsed(K, c, u)
      BY <1>5, <1>11
    <2>3. n = c + K[c].size
      OBVIOUS
    <2> HIDE DEF n, K, Z
    <2>4. IsHeap(h2) /\ HeapsFine(h2) /\ Grid(Sizes(h2), K) /\ c \in DOMAIN K
      BY <1>2, <1>12
    <2>5. Told(h2, g, K, c, u)
      BY <1>6, <2>1, <2>2, <2>3, <2>4, TellIs
    <2> QED BY <2>5 DEF Told
  <1>14. Frame(h, g) /\ SameBins(h, g) /\ g.chunk = M
    BY <1>5, <1>7, <1>11, <1>13, FrameTrans DEF SameBins
  <1>15. g.heap = WithFreesz(h.heap, b, v) /\ g.foot = h.foot
    BY <1>5, <1>11, <1>13
  <1>16. HeapsFine(g) /\ Sizes(g) = Z
    <2>1. Refined(h, g, b, v)
      BY <1>2, <1>3, <1>8, <1>14, <1>15, FreeszFine
    <2> QED BY <2>1 DEF Refined
  <1>17. Taken(Z, K, c, M)
    <2> HIDE DEF K, Z
    <2> QED BY <1>1, <1>2, <1>7, TakeIs
  <1> HIDE DEF K, Z
  <1>18. /\ Grid(Z, M) /\ DOMAIN M = DOMAIN K /\ M[c].cused /\ M[c].size = s
         /\ \A e \in DOMAIN K : M[e].size = K[e].size
         /\ \A b1 : b1 # K[c].heap => FreeUnits(M, b1) = FreeUnits(K, b1)
         /\ FreeUnits(M, K[c].heap) = FreeUnits(K, K[c].heap) \ Area(c, K[c].size)
         /\ FreeChunks(M) = FreeChunks(K) \ {c}
         /\ Used(M) = Updated(Used(K), c, K[c].size)
    BY <1>2, <1>17 DEF Taken
  <1>19. Flags(Z, M, {}) /\ NotBoth(M, {}) /\ Feet(M, h.foot, {})
    <2>1. {} \ {c} = {} /\ {c} \ {c} = {}
      OBVIOUS
    <2>2. Flags(Z, M, {} \ {c}) /\ NotBoth(M, {c} \ {c}) /\ Feet(M, h.foot, {c} \ {c})
      BY <1>1, <1>17 DEF Taken
    <2> QED BY <2>1, <2>2
  <1>20. AtLeast(M, {c}) /\ (size >= MinSize => AtLeast(M, {}))
    BY <1>1, <1>17 DEF Taken
  <1>21. Core(g, P)
    <2>1. Clear(K, P) /\ h.wrote \cap P = {}
      BY <1>1 DEF Core, K
    <2>2. Clear(M, P)
      BY <1>17, <2>1 DEF Taken
    <2>3. g.wrote \subseteq h.wrote \cup DOMAIN K
      BY <1>2, <1>5, <1>11, <1>13
    <2>4. g.wrote \cap P = {}
      BY <2>1, <2>3 DEF Clear
    <2>5. IsHeap(g)
      BY <1>14 DEF Frame
    <2> QED BY <1>14, <1>16, <1>18, <2>2, <2>4, <2>5 DEF Core
  <1>22. Count(g)
    <2>1. Area(c, s) \subseteq FreeUnits(K, b)
      BY <1>1, <1>2, AreaFree DEF K
    <2>2. Lost(h.chunk, g.chunk, b, c, s)
      BY <1>14, <1>18, <2>1 DEF K, Lost
    <2>3. HeapsFine(h) /\ Grid(Sizes(h), h.chunk)
      BY <1>2 DEF K, Z
    <2> HIDE DEF s
    <2> QED BY <1>3, <1>8, <1>15, <2>2, <2>3, CountLess
  <1>23. Kept(g, {})
    <2>1. v # Whole(h, b)
      <3>1. h.heap[b].freesz = Cardinality(FreeUnits(K, b))
        BY <1>3 DEF Count, K
      <3>2. Cardinality(FreeUnits(K, b)) <= Z[b] - Header
        BY <1>2, <1>3, FreeIn
      <3>3. Z[b] = h.heap[b].size
        BY <1>3 DEF Z, Sizes
      <3> QED BY <1>3, <1>8, <3>1, <3>2, <3>3 DEF Whole, Header
    <2> QED BY <1>2, <1>3, <1>8, <1>14, <1>15, <2>1, KeptCharged
  <1>24. Binning(g, FreeChunks(M))
    <2>1. \A e \in FreeChunks(M) : e \in DOMAIN g.chunk /\ ~ g.chunk[e].cused
                                   /\ g.chunk[e].size = h.chunk[e].size
      BY <1>14, <1>18 DEF FreeChunks, K
    <2>2. Binning(h, FreeChunks(M))
      BY <1>1, <1>18
    <2>3. SameBins(h, g)
      BY <1>14
    <2> QED BY <2>1, <2>2, <2>3, BinFrame, Zenon
  <1>25. IsUsed(M, c) /\ size <= M[c].size
    BY <1>1, <1>2, <1>18 DEF IsUsed, s
  <1>26. Used(M) = Updated(Used(h0.chunk), c, M[c].size)
    BY <1>1, <1>18 DEF s
  <1> QED BY <1>14, <1>15, <1>16, <1>19, <1>20, <1>21, <1>22, <1>23, <1>24, <1>25, <1>26 DEF AllocDone

LEMMA AllocFromKeeps ==
    ASSUME NEW h, NEW P \in SUBSET Nat, NEW c, NEW size, CutReady(h, P, c, size), Count(h),
           NEW b, b = h.chunk[c].heap, Kept(h, {}) \/ Kept(h, {b}), NEW g, g = AllocFrom(h, c, size)
    PROVE  AllocDone(h, g, P, c, size)
  <1> DEFINE r == Reuse(h, b)
             k == Cut(r, c, size)
  <1>1. g = TellNext(Charge(k, c), c, TRUE)
    BY DEF AllocFrom, HeapOf
  <1>2. r = Reuse(h, b) /\ k = Cut(r, c, size)
    OBVIOUS
  <1> HIDE DEF r, k
  <1>3. Core(h, P) /\ IsFree(h.chunk, c)
    BY DEF CutReady
  <1>4. IsHeap(h) /\ HeapsFine(h) /\ b \in DOMAIN h.heap
    BY <1>3, CoreIs DEF Core, IsFree
  <1>5. Unlisted(h, r) /\ Kept(r, {b})
    BY <1>2, <1>4, ReuseKeeps
  <1>6. /\ Core(r, P) /\ Count(r) /\ Sizes(r) = Sizes(h) /\ r.chunk = h.chunk /\ r.foot = h.foot
        /\ r.heap = h.heap /\ \A S : Binning(h, S) => Binning(r, S)
    <2>1. Count(r)
      BY <1>5, UnlistedCore
    <2>2. Core(r, P) /\ Sizes(r) = Sizes(h) /\ \A S : Binning(h, S) => Binning(r, S)
      BY <1>3, <1>5, UnlistedCore
    <2> QED BY <1>5, <2>1, <2>2 DEF Unlisted
  <1>7. CutReady(r, P, c, size)
    BY <1>6 DEF CutReady, CanSplit, Size
  <1>8. CutDone(r, k, P, c, size)
    BY <1>2, <1>7, CutIs
  <1>9. /\ Frame(r, k) /\ k.heap = r.heap /\ \A x : FreeUnits(k.chunk, x) = FreeUnits(r.chunk, x)
        /\ k.chunk[c].heap = b
    BY <1>6, <1>8 DEF CutDone
  <1>10. Count(k)
    BY <1>6, <1>9 DEF Count
  <1>11. Kept(k, {b})
    BY <1>5, <1>9 DEF Frame, Kept, Whole
  <1>12. b = k.chunk[c].heap
    BY <1>9
  <1>13. AllocDone(r, g, P, c, size)
    BY <1>1, <1>8, <1>10, <1>11, <1>12, ChargeIs
  <1> QED BY <1>6, <1>13 DEF AllocDone

(* A heap is obtained                                                      *)

Good(h, P) == Settled(h, P, {}) /\ Count(h)
\* The kernel maps `len' units at b
HoleAt(h, b, len) ==
    /\ b \in Nat /\ b # 0 /\ b % Page = 0 /\ len \in Nat /\ len % Page = 0 /\ len >= MinSize + 2
    /\ \A x \in DOMAIN h.heap : b + len <= x \/ x + h.heap[x].size <= b

LEMMA HoleIs ==
    ASSUME NEW h, HeapsFine(h), NEW len \in Nat, len % Page = 0, len >= MinSize + 2,
           NEW b \in Holes(h, len)
    PROVE  HoleAt(h, b, len) /\ \A u \in Mapped(h) : ~ (b <= u /\ u < b + len)
  <1>1. PICK p \in 1 .. Pages : b = p * Page
    BY DEF Holes
  <1>2. Extent(b, len) \cap Mapped(h) = {}
    BY DEF Holes
  <1>3. Page \in Nat /\ Page # 0 /\ p \in Nat /\ p # 0
    BY HeapAssumption
  <1>4. b \in Nat /\ b # 0
    BY <1>1, <1>3
  <1>5. b % Page = 0
    BY <1>1, <1>3
  <1>6. ASSUME NEW x \in DOMAIN h.heap PROVE b + len <= x \/ x + h.heap[x].size <= b
    <2>1. x \in Nat /\ h.heap[x].size \in Nat /\ h.heap[x].size >= 2
      BY DEF HeapsFine, Header
    <2>2. x \in Extent(x, h.heap[x].size)
      BY <2>1 DEF Extent
    <2>3. x \in Mapped(h) /\ Extent(x, h.heap[x].size) \subseteq Mapped(h)
      BY <2>2 DEF Mapped
    <2>4. x \notin Extent(b, len)
      BY <1>2, <2>3
    <2>5. b \in Extent(b, len)
      BY <1>4 DEF Extent, MinSize
    <2>6. b \notin Extent(x, h.heap[x].size)
      BY <1>2, <2>3, <2>5
    <2> QED BY <1>4, <2>1, <2>4, <2>6 DEF Extent
  <1>7. ASSUME NEW u \in Mapped(h), b <= u /\ u < b + len PROVE FALSE
    <2>1. PICK x \in DOMAIN h.heap : u \in Extent(x, h.heap[x].size)
      BY DEF Mapped
    <2>2. x \in Nat /\ h.heap[x].size \in Nat
      BY DEF HeapsFine
    <2>3. u \in Int
      BY <2>1, <2>2 DEF Extent
    <2>4. u \in Extent(b, len)
      BY <1>4, <1>7, <2>3 DEF Extent
    <2> QED BY <1>2, <2>4
  <1> QED BY <1>4, <1>5, <1>6, <1>7 DEF HoleAt

\* The kernel's part of heap_alloc()
WithNew(h, b, len) ==
    [DropRecords(h, b, len) EXCEPT
        !.lo    = IF @ = 0 \/ b < @ THEN b ELSE @,
        !.hi    = Max({@, b + len}),
        !.heap  = Updated(@, b, [size |-> len, freesz |-> len - Header]),
        !.mapsz = @ + len]
NewDone(h, g, b, len) ==
    /\ IsHeap(g) /\ HeapsFine(g) /\ Sizes(g) = Updated(Sizes(h), b, len) /\ Apart(Sizes(g))
    /\ g.chunk = h.chunk /\ g.foot = h.foot /\ SameBins(h, g) /\ g.wrote = h.wrote
    /\ g.retained = h.retained /\ g.retainedsz = h.retainedsz
    /\ DOMAIN g.heap = DOMAIN h.heap \cup {b} /\ b \notin DOMAIN h.heap
    /\ g.heap[b] = [size |-> len, freesz |-> len - Header]
    /\ \A x \in DOMAIN h.heap : g.heap[x] = h.heap[x]

LEMMA NewIs ==
    ASSUME NEW h, IsHeap(h), HeapsFine(h), NEW b, NEW len, HoleAt(h, b, len),
           NEW g, g = WithNew(h, b, len)
    PROVE  NewDone(h, g, b, len)
  <1>1. /\ b \in Nat /\ b # 0 /\ b % Page = 0 /\ len \in Nat /\ len % Page = 0 /\ len >= 7
        /\ \A x \in DOMAIN h.heap : b + len <= x \/ x + h.heap[x].size <= b
    BY DEF HoleAt, MinSize
  <1>2. \A x \in DOMAIN h.heap : /\ x \in Nat /\ h.heap[x].size \in Nat /\ h.heap[x].size >= 2
                                 /\ h.heap[x] \in [size : Nat, freesz : Int]
    BY DEF HeapsFine, Header
  <1>3. b \notin DOMAIN h.heap
    BY <1>1, <1>2
  <1> DEFINE N == [size |-> len, freesz |-> len - Header]
             R == [i \in DOMAIN h.released |->
                      IF b < h.released[i].base + h.released[i].size /\ h.released[i].base < b + len
                      THEN [base |-> 0, size |-> 0] ELSE h.released[i]]
  <1>4. /\ IsHeap(g) /\ g.chunk = h.chunk /\ g.foot = h.foot /\ SameBins(h, g) /\ g.wrote = h.wrote
        /\ g.retained = h.retained /\ g.retainedsz = h.retainedsz
        /\ g.heap = Updated(h.heap, b, N) /\ g.mapsz = h.mapsz + len
        /\ g.lo = (IF h.lo = 0 \/ b < h.lo THEN b ELSE h.lo)
    BY DEF WithNew, DropRecords, IsHeap, SameBins
  <1>5. g.hi = Max({h.hi, b + len})
    BY DEF WithNew, DropRecords, IsHeap
  <1>6. g.released = R
    BY DEF WithNew, DropRecords, IsHeap
  <1>7. N \in [size : Nat, freesz : Int] /\ N.size = len
    BY <1>1 DEF Header
  <1> HIDE DEF N
  <1>8. /\ DOMAIN g.heap = DOMAIN h.heap \cup {b} /\ g.heap[b] = N
        /\ \A x \in DOMAIN h.heap : g.heap[x] = h.heap[x]
    BY <1>3, <1>4 DEF Updated
  <1>9. Sizes(g) = Updated(Sizes(h), b, len)
    BY <1>3, <1>7, <1>8 DEF Sizes, Updated
  <1>10. h.lo \in Nat /\ h.hi \in Nat
    BY DEF HeapsFine
  <1>11. g.hi \in Nat /\ g.hi >= h.hi /\ g.hi >= b + len
    <2>1. b + len \in Int /\ h.hi \in Int
      BY <1>1, <1>10
    <2>2. g.hi = IF h.hi >= b + len THEN h.hi ELSE b + len
      BY <1>5, <2>1, MaxOf
    <2> QED BY <1>1, <1>10, <2>2
  <1>12. g.lo \in Nat /\ g.lo # 0 /\ g.lo <= b /\ (h.lo # 0 => g.lo <= h.lo)
    BY <1>1, <1>4, <1>10
  <1>13. g.mapsz = Cardinality(Mapped(g))
    <2>1. Mapped(g) = Mapped(h) \cup Extent(b, len)
      BY <1>7, <1>8 DEF Mapped
    <2>2. IsFiniteSet(Mapped(h))
      <3>1. Mapped(h) = Sizing(h, DOMAIN h.heap)
        BY DEF Mapped, Sizing
      <3> QED BY <3>1, ExtentsFinite
    <2>3. \A u \in Mapped(h) : ~ (u \in b .. b + len - 1)
      BY <1>1, <1>2 DEF Mapped, Extent
    <2>4. Cardinality(Mapped(h) \cup (b .. b + len - 1)) = Cardinality(Mapped(h)) + len
      <3>1. b \in Int /\ len \in Nat
        BY <1>1
      <3> QED BY <2>2, <2>3, <3>1, CountAdd
    <2>5. h.mapsz = Cardinality(Mapped(h))
      BY DEF HeapsFine
    <2> QED BY <1>4, <2>1, <2>4, <2>5 DEF Extent
  <1>14. ASSUME NEW x \in DOMAIN g.heap
         PROVE  /\ x \in Nat /\ x % Page = 0 /\ g.heap[x] \in [size : Nat, freesz : Int]
                /\ g.heap[x].size % Page = 0 /\ g.heap[x].size >= Header
                /\ g.lo # 0 /\ g.lo <= x /\ x < g.hi /\ x + g.heap[x].size <= g.hi
    <2>1. CASE x = b
      BY <1>1, <1>7, <1>8, <1>11, <1>12, <2>1 DEF Header
    <2>2. CASE x # b
      <3>1. x \in DOMAIN h.heap /\ g.heap[x] = h.heap[x]
        BY <1>8, <2>2
      <3>2. /\ x \in Nat /\ x % Page = 0 /\ h.heap[x] \in [size : Nat, freesz : Int]
            /\ h.heap[x].size % Page = 0 /\ h.heap[x].size >= Header
            /\ h.lo # 0 /\ h.lo <= x /\ x < h.hi /\ x + h.heap[x].size <= h.hi
        BY <3>1 DEF HeapsFine
      <3>3. g.lo <= x /\ x < g.hi /\ x + h.heap[x].size <= g.hi
        BY <1>2, <1>10, <1>11, <1>12, <3>1, <3>2
      <3> QED BY <1>12, <3>1, <3>2, <3>3
    <2> QED BY <2>1, <2>2
  <1>15. \A x, y \in DOMAIN g.heap : x < y => x + g.heap[x].size <= y
    <2>1. \A x, y \in DOMAIN h.heap : x < y => x + h.heap[x].size <= y
      BY DEF HeapsFine
    <2> QED BY <1>1, <1>2, <1>7, <1>8, <2>1
  <1>16. ASSUME NEW i \in DOMAIN g.released
         PROVE  /\ g.released[i] \in [base : Nat, size : Nat]
                /\ \A x \in DOMAIN g.heap : \/ g.released[i].base + g.released[i].size <= x
                                            \/ x + g.heap[x].size <= g.released[i].base
    <2>1. i \in DOMAIN h.released
      BY <1>6
    <2>2. /\ h.released[i] \in [base : Nat, size : Nat]
          /\ \A x \in DOMAIN h.heap : \/ h.released[i].base + h.released[i].size <= x
                                      \/ x + h.heap[x].size <= h.released[i].base
      BY <2>1 DEF HeapsFine
    <2>3. CASE b < h.released[i].base + h.released[i].size /\ h.released[i].base < b + len
      <3>1. g.released[i] = [base |-> 0, size |-> 0]
        BY <1>6, <2>1, <2>3
      <3>2. \A x \in DOMAIN g.heap : x \in Nat
        BY <1>14
      <3> QED BY <3>1, <3>2
    <2>4. CASE ~ (b < h.released[i].base + h.released[i].size /\ h.released[i].base < b + len)
      <3>1. g.released[i] = h.released[i]
        BY <1>6, <2>1, <2>4
      <3> QED BY <1>1, <1>7, <1>8, <2>2, <2>4, <3>1
    <2> QED BY <2>3, <2>4
  <1>17. HeapsFine(g)
    BY <1>11, <1>12, <1>13, <1>14, <1>15, <1>16 DEF HeapsFine
  <1>18. Apart(Sizes(g))
    BY <1>17, SizesApart
  <1> QED BY <1>3, <1>4, <1>8, <1>9, <1>17, <1>18 DEF NewDone, N

\* The heaps that are entirely free
FreeHeaps(h) == {x \in DOMAIN h.heap : h.heap[x].freesz = Whole(h, x)}

LEMMA KeptSame ==
    ASSUME NEW h, NEW X, Kept(h, X), NEW g, g.retained = h.retained, g.retainedsz = h.retainedsz,
           NEW Y, FreeHeaps(g) \ Y = FreeHeaps(h) \ X,
           Sizing(g, Listing(h.retained)) = Sizing(h, Listing(h.retained))
    PROVE  Kept(g, Y)
  <1>1. Listing(h.retained) = FreeHeaps(h) \ X /\ h.retainedsz = Cardinality(Sizing(h, Listing(h.retained)))
    BY DEF Kept, Listing, FreeHeaps, Sizing
  <1>2. /\ h.retained \in Seq(Nat)
        /\ \A i, j \in DOMAIN h.retained : h.retained[i] = h.retained[j] => i = j
        /\ Len(h.retained) <= RetainMax /\ h.retainedsz <= RetainUnits
    BY DEF Kept
  <1>3. Listing(g.retained) = FreeHeaps(g) \ Y /\ g.retainedsz = Cardinality(Sizing(g, Listing(g.retained)))
    BY <1>1
  <1>4. /\ {g.retained[i] : i \in DOMAIN g.retained}
              = {x \in DOMAIN g.heap : g.heap[x].freesz = Whole(g, x)} \ Y
        /\ g.retainedsz = Cardinality(UNION {Extent(x, g.heap[x].size) :
                                               x \in {g.retained[i] : i \in DOMAIN g.retained}})
    BY <1>3, Zenon DEF Listing, FreeHeaps, Sizing
  <1>5. /\ g.retained \in Seq(Nat)
        /\ \A i, j \in DOMAIN g.retained : g.retained[i] = g.retained[j] => i = j
        /\ Len(g.retained) <= RetainMax /\ g.retainedsz <= RetainUnits
    BY <1>2
  <1> QED BY <1>4, <1>5, Zenon DEF Kept

\* A heap was obtained; nothing is allocated in it
HeapGot(h, g, P, b, len) ==
    /\ Good(g, P) /\ Kept(g, {b}) /\ IsFree(g.chunk, b + 2) /\ g.chunk[b + 2].pused
    /\ g.chunk[b + 2].size = len - 2 /\ g.chunk[b + 2].heap = b
    /\ Used(g.chunk) = Used(h.chunk) /\ b + 2 \notin DOMAIN h.chunk

LEMMA HeapAllocKeeps ==
    ASSUME NEW h, NEW P \in SUBSET Nat, Good(h, P), Kept(h, {}), NEW b, NEW len, HoleAt(h, b, len),
           \A u \in P : ~ (b <= u /\ u < b + len), NEW g, g = HeapAlloc(h, b, len)
    PROVE  HeapGot(h, g, P, b, len)
  <1> DEFINE K == h.chunk
             S == FreeChunks(K)
             Z == Sizes(h)
             h1 == WithNew(h, b, len)
             r == b + 2
             s == len - 2
             h2 == Begin(h1, r, b, s)
             D == Updated(K, r, Fresh(s, b))
             Y == Updated(Z, b, len)
  <1>1. /\ Core(h, P) /\ AtLeast(K, {}) /\ Flags(Z, K, {})
        /\ NotBoth(K, {}) /\ Feet(K, h.foot, {}) /\ Binning(h, S) /\ Count(h)
    BY DEF Good, Settled
  <1>2. IsHeap(h) /\ HeapsFine(h) /\ Grid(Z, K) /\ Apart(Z) /\ Clear(K, P) /\ h.wrote \cap P = {}
    BY <1>1, CoreIs DEF Core
  <1>3. g = PutChunk(h2, r)
    BY DEF HeapAlloc, Begin, WithNew, Header
  <1>4. /\ h1 = WithNew(h, b, len) /\ h2 = Begin(h1, r, b, s) /\ D = Updated(K, r, Fresh(s, b))
        /\ Y = Updated(Z, b, len) /\ r = b + 2 /\ s = len - 2
    OBVIOUS
  <1>5. b \in Nat /\ len \in Nat /\ r \in Nat /\ s \in Nat /\ s >= 5 /\ len = s + 2
    BY DEF HoleAt, MinSize
  <1> HIDE DEF h1, h2, r, s, D, Y
  <1>6. NewDone(h, h1, b, len)
    BY <1>2, <1>4, NewIs
  <1>7. /\ IsHeap(h1) /\ HeapsFine(h1) /\ Sizes(h1) = Y /\ Apart(Y)
        /\ h1.chunk = K /\ h1.foot = h.foot /\ SameBins(h, h1) /\ h1.wrote = h.wrote
        /\ h1.retained = h.retained /\ h1.retainedsz = h.retainedsz
        /\ DOMAIN h1.heap = DOMAIN h.heap \cup {b} /\ b \notin DOMAIN h.heap
        /\ h1.heap[b] = [size |-> len, freesz |-> len - Header]
        /\ \A x \in DOMAIN h.heap : h1.heap[x] = h.heap[x]
    BY <1>4, <1>6 DEF NewDone
  <1>8. /\ Frame(h1, h2) /\ SameBins(h1, h2) /\ h2.heap = h1.heap
        /\ h2.chunk = D /\ h2.foot = Updated(h.foot, r + s - 1, s)
        /\ h2.wrote = h.wrote \cup {r, r + 1, r + 2, r + 3, r + s - 1}
    BY <1>4, <1>7, InitFresh
  <1>9. b \notin DOMAIN Z /\ s >= MinSize
    BY <1>5, <1>7 DEF Sizes, MinSize
  <1>10. /\ Grid(Y, D) /\ Flags(Y, D, {}) /\ NotBoth(D, {}) /\ Feet(D, h.foot, {r})
         /\ \A x : x # b => FreeUnits(D, x) = FreeUnits(K, x)
         /\ FreeUnits(D, b) = r .. r + s - 1
         /\ FreeChunks(D) = S \cup {r}
         /\ r \notin DOMAIN K /\ DOMAIN D = DOMAIN K \cup {r} /\ \A e \in DOMAIN K : D[e] = K[e]
         /\ D[r].size = s /\ D[r].heap = b /\ ~ D[r].cused /\ D[r].pused
         /\ Clear(D, P) /\ AtLeast(D, {}) /\ Used(D) = Used(K)
    <2> HIDE DEF K, Z, S
    <2>1. WithHeapDone(Z, K, b, len, s, Y, r, D)
      BY <1>2, <1>4, <1>5, <1>7, <1>9, WithHeap
    <2>2. \A F : Feet(K, F, {}) => Feet(D, F, {r})
      BY <2>1 DEF WithHeapDone
    <2>3. Clear(D, P)
      BY <1>2, <2>1 DEF WithHeapDone
    <2>4. Feet(D, h.foot, {r}) /\ FreeChunks(D) = S \cup {r}
      BY <1>1, <2>1, <2>2 DEF WithHeapDone, S
    <2> QED BY <1>1, <2>1, <2>3, <2>4 DEF WithHeapDone
  <1> HIDE DEF K, Z, S
  <1>11. HeapsFine(h2) /\ Sizes(h2) = Y /\ IsHeap(h2)
    BY <1>7, <1>8, FrameFine DEF Frame
  <1>12. Core(h2, P)
    <2>1. ASSUME NEW u \in {r, r + 1, r + 2, r + 3, r + s - 1} PROVE u \notin P
      <3>1. b <= u /\ u < b + len
        BY <1>4, <1>5
      <3> QED BY <3>1
    <2>2. h2.wrote \cap P = {}
      BY <1>2, <1>8, <2>1
    <2> QED BY <1>8, <1>10, <1>11, <2>2 DEF Core
  <1>13. Feet(D, h2.foot, {})
    <2>1. AreChunks(D) /\ InOrder(D) /\ r \in DOMAIN D
      BY <1>10 DEF Grid
    <2>2. \A e \in DOMAIN D : D[e].size > 0
      BY <1>10, ChunkIn
    <2>3. Feet(D, Updated(h.foot, r + D[r].size - 1, D[r].size), {r} \ {r})
      BY <1>10, <2>1, <2>2, FootSet
    <2>4. {r} \ {r} = {}
      OBVIOUS
    <2> QED BY <1>8, <1>10, <2>3, <2>4
  <1>14. Binning(h2, S)
    <2>1. SameBins(h, h2)
      BY <1>7, <1>8 DEF SameBins
    <2>2. \A c \in S : c \in DOMAIN h2.chunk /\ ~ h2.chunk[c].cused /\ h2.chunk[c].size = h.chunk[c].size
      BY <1>8, <1>10 DEF S, FreeChunks, K
    <2> QED BY <1>1, <2>1, <2>2, BinFrame
  <1>15. /\ Frame(h2, g) /\ g.heap = h2.heap /\ g.foot = h2.foot /\ g.chunk = D
         /\ Core(g, P) /\ Binning(g, S \cup {r})
    <2>1. r \in DOMAIN h2.chunk /\ ~ h2.chunk[r].cused /\ h2.chunk[r].size >= MinSize /\ r \notin S
      BY <1>8, <1>9, <1>10 DEF S, FreeChunks
    <2> QED BY <1>3, <1>8, <1>12, <1>14, <2>1, PutKeeps
  <1>16. Sizes(g) = Y
    BY <1>11, <1>15 DEF Sizes
  <1>17. Settled(g, P, {})
    BY <1>10, <1>13, <1>15, <1>16 DEF Settled
  <1>18. g.heap = h1.heap
    BY <1>8, <1>15
  <1>19. Count(g)
    <2> SUFFICES ASSUME NEW x \in DOMAIN g.heap
                 PROVE  /\ g.heap[x] \in [size : Nat, freesz : Int]
                        /\ g.heap[x].freesz = Cardinality(FreeUnits(g.chunk, x))
      BY DEF Count
    <2>1. CASE x = b
      <3>1. r \in Int /\ r + s - 1 \in Int /\ ~ (r > r + s - 1) /\ (r + s - 1) - r + 1 = s
        BY <1>5
      <3>2. Cardinality(r .. r + s - 1) = s
        BY <3>1, FS_Interval
      <3> QED BY <1>5, <1>7, <1>10, <1>15, <1>18, <2>1, <3>2 DEF Header
    <2>2. CASE x # b
      <3>1. x \in DOMAIN h.heap /\ g.heap[x] = h.heap[x] /\ FreeUnits(g.chunk, x) = FreeUnits(K, x)
        BY <1>7, <1>10, <1>15, <1>18, <2>2
      <3> QED BY <1>1, <3>1 DEF Count, K
    <2> QED BY <2>1, <2>2
  <1>20. Kept(g, {b})
    <2>1. g.retained = h.retained /\ g.retainedsz = h.retainedsz
      BY <1>7, <1>8, <1>15 DEF Frame
    <2>2. {x \in DOMAIN g.heap : g.heap[x].freesz = Whole(g, x)} \ {b}
            = {x \in DOMAIN h.heap : h.heap[x].freesz = Whole(h, x)} \ {}
      BY <1>7, <1>18 DEF Whole
    <2>3. Listing(h.retained) = {x \in DOMAIN h.heap : h.heap[x].freesz = Whole(h, x)} \ {}
      BY DEF Kept, Listing
    <2>4. Sizing(g, Listing(h.retained)) = Sizing(h, Listing(h.retained))
      BY <1>7, <1>18, <2>3 DEF Sizing
    <2>5. FreeHeaps(g) \ {b} = FreeHeaps(h) \ {}
      BY <2>2 DEF FreeHeaps
    <2> QED BY <2>1, <2>4, <2>5, KeptSame
  <1>21. IsFree(g.chunk, r) /\ g.chunk[r].pused /\ g.chunk[r].size = s /\ g.chunk[r].heap = b
         /\ Used(g.chunk) = Used(K) /\ r \notin DOMAIN K
    BY <1>10, <1>15 DEF IsFree
  <1> QED BY <1>4, <1>17, <1>19, <1>20, <1>21 DEF HeapGot, Good, K

\* The first chunk of a new heap was cut to `size' units, or needed no cut
FirstCut(h, g, P, c, size) ==
    /\ CutReady(g, P, c, size) /\ Count(g) /\ Frame(h, g) /\ g.heap = h.heap
    /\ Used(g.chunk) = Used(h.chunk) /\ g.chunk[c].heap = h.chunk[c].heap

LEMMA CutFirstKeeps ==
    ASSUME NEW h, NEW P \in SUBSET Nat, Good(h, P), NEW c, IsFree(h.chunk, c),
           NEW size \in Nat, MinSize <= size, size <= h.chunk[c].size, NEW g, g = CutFirst(h, c, size)
    PROVE  FirstCut(h, g, P, c, size)
  <1> DEFINE K == h.chunk
             Z == Sizes(h)
             S == FreeChunks(K)
  <1>1. /\ Core(h, P) /\ AtLeast(K, {}) /\ Flags(Z, K, {}) /\ NotBoth(K, {})
        /\ Feet(K, h.foot, {}) /\ Binning(h, S) /\ Count(h)
    BY DEF Good, Settled
  <1>2. IsHeap(h) /\ Grid(Z, K) /\ Apart(Z)
    BY <1>1, CoreIs
  <1>3. c \in S /\ c \in DOMAIN K /\ ~ K[c].cused /\ K[c].pused
    <2>1. K[c].pused
      <3> HIDE DEF K, Z
      <3>1. IsFree(K, c)
        BY DEF K
      <3> QED BY <1>1, <1>2, <3>1, FreePused
    <2> QED BY <2>1 DEF IsFree, FreeChunks
  <1>4. CASE ~ CanSplit(h, c, size)
    <2>1. g = h
      BY <1>4 DEF CutFirst
    <2>2. NotBoth(K, {c})
      BY <1>1 DEF NotBoth
    <2>3. CutReady(h, P, c, size)
      BY <1>1, <1>3, <1>4, <2>2 DEF CutReady, MinSize
    <2> QED BY <1>1, <1>2, <2>1, <2>3, FrameSelf DEF FirstCut
  <1>5. CASE CanSplit(h, c, size)
    <2> DEFINE n == c + size
               D == Divide(K, c, size)
               f == Split(h, c, size)
               f2 == SetFooter(f, c)
    <2>1. CutAt(K, c, size, n)
      BY <1>5 DEF CanSplit, CutAt, Size
    <2>2. Overhead <= size /\ size + MinSize <= K[c].size
      BY <2>1 DEF CutAt
    <2>3. g = PutChunk(f2, c)
      BY <1>5 DEF CutFirst
    <2>4. n = c + size /\ D = Divide(K, c, size) /\ f = Split(h, c, size) /\ f2 = SetFooter(f, c)
      OBVIOUS
    <2> HIDE DEF n, D, S, f, f2
    <2>5. /\ Frame(h, f) /\ f.heap = h.heap /\ f.chunk = Divide(K, c, size)
          /\ f.foot = Updated(h.foot, c + K[c].size - 1, K[c].size - size)
          /\ Core(f, P) /\ Binning(f, (S \ {c}) \cup {n})
      <3>1. SplitDone(h, f, P, S, c, size, n)
        BY <1>1, <1>3, <2>2, <2>4, SplitKeeps
      <3> QED BY <3>1 DEF SplitDone
    <2>6. FreeDivided(Z, K, c, size, n, D)
      <3>1. IsFree(K, c)
        OBVIOUS
      <3> HIDE DEF Z, K
      <3> QED BY <1>2, <2>1, <2>4, <3>1, DivideFree
    <2>7. f.chunk = D /\ Sizes(f) = Z
      BY <2>4, <2>5 DEF Sizes
    <2> HIDE DEF Z, K
    <2>8. /\ Grid(Z, D) /\ Flags(Z, D, {}) /\ NotBoth(D, {c}) /\ AtLeast(D, {})
          /\ \A b : FreeUnits(D, b) = FreeUnits(K, b)
          /\ FreeChunks(D) = S \cup {n}
          /\ Used(D) = Used(K) /\ IsFree(D, c) /\ D[c].heap = K[c].heap /\ D[c].size = size
          /\ D[c].pused /\ c # n
      BY <1>1, <1>3, <2>6 DEF FreeDivided, S, K
    <2>9. Feet(D, f.foot, {c})
      BY <1>1, <2>5, <2>6 DEF FreeDivided
    <2>10. IsHeap(f) /\ c \in DOMAIN f.chunk /\ ~ f.chunk[c].cused /\ f.chunk[c].size = size
      BY <2>5, <2>7, <2>8 DEF Frame, IsFree
    <2>11. /\ Frame(f, f2) /\ SameBins(f, f2) /\ f2.heap = f.heap /\ f2.chunk = f.chunk
           /\ f2.foot = Updated(f.foot, c + f.chunk[c].size - 1, f.chunk[c].size)
           /\ f2.wrote = f.wrote \cup {c + f.chunk[c].size - 1}
      BY <2>4, <2>10, SetFooterIs
    <2>12. Feet(D, f2.foot, {})
      <3>1. AreChunks(D) /\ InOrder(D) /\ c \in DOMAIN D
        BY <2>7, <2>8, <2>10 DEF Grid
      <3>2. \A e \in DOMAIN D : D[e].size > 0
        BY <2>8, ChunkIn
      <3>3. Feet(D, Updated(f.foot, c + D[c].size - 1, D[c].size), {c} \ {c})
        BY <2>9, <3>1, <3>2, FootSet
      <3>4. {c} \ {c} = {}
        OBVIOUS
      <3> QED BY <2>7, <2>11, <3>3, <3>4
    <2>13. Core(f2, P)
      <3>1. c \in Nat /\ c <= c + size - 1 /\ c + size - 1 < c + f.chunk[c].size
        BY <2>5, <2>10, CoreIs DEF MinSize
      <3>2. c + size - 1 \notin P
        BY <2>5, <2>10, <3>1, FreeIsClear
      <3>3. Grid(Sizes(f), f2.chunk) /\ Clear(f2.chunk, P) /\ f.wrote \cap P = {}
        BY <2>5, <2>11 DEF Core
      <3>4. f2.wrote \cap P = {}
        BY <2>10, <2>11, <3>2, <3>3
      <3> QED BY <2>5, <2>11, <3>3, <3>4, CoreStep
    <2>14. Binning(f2, (S \ {c}) \cup {n})
      <3> DEFINE T == (S \ {c}) \cup {n}
      <3>1. \A e \in T : e \in DOMAIN f.chunk /\ ~ f.chunk[e].cused
        BY <2>7, <2>8 DEF FreeChunks
      <3>2. Binning(f, T)
        BY <2>5
      <3> HIDE DEF T
      <3>3. \A e \in T : e \in DOMAIN f2.chunk /\ ~ f2.chunk[e].cused /\ f2.chunk[e].size = f.chunk[e].size
        BY <2>11, <3>1
      <3>4. Binning(f2, T)
        BY <2>11, <3>2, <3>3, BinFrame
      <3> QED BY <3>4 DEF T
    <2>15. /\ Frame(f2, g) /\ g.heap = f2.heap /\ g.foot = f2.foot /\ g.chunk = f2.chunk
           /\ Core(g, P) /\ Binning(g, FreeChunks(D))
      <3> DEFINE T == (S \ {c}) \cup {n}
      <3>1. T \cup {c} = FreeChunks(D) /\ c \notin T /\ Binning(f2, T)
        BY <1>3, <2>8, <2>14
      <3> HIDE DEF T
      <3>2. c \in DOMAIN f2.chunk /\ ~ f2.chunk[c].cused /\ f2.chunk[c].size >= MinSize
        BY <2>10, <2>11
      <3>3. /\ Frame(f2, g) /\ g.heap = f2.heap /\ g.foot = f2.foot /\ g.chunk = f2.chunk
            /\ Core(g, P) /\ Binning(g, T \cup {c})
        BY <2>3, <2>13, <3>1, <3>2, PutKeeps
      <3> QED BY <3>1, <3>3
    <2>16. g.chunk = D /\ g.heap = h.heap /\ Sizes(g) = Z /\ Frame(h, g)
      BY <2>5, <2>7, <2>11, <2>15, FrameTrans DEF Sizes, Z
    <2>17. ~ CanSplit(g, c, size)
      BY <2>8, <2>16 DEF CanSplit, Size, MinSize
    <2>18. CutReady(g, P, c, size)
      BY <2>8, <2>12, <2>15, <2>16, <2>17 DEF CutReady, MinSize
    <2>19. Count(g)
      BY <1>1, <2>8, <2>16 DEF Count, K
    <2> QED BY <2>8, <2>16, <2>18, <2>19 DEF FirstCut, K
  <1> QED BY <1>4, <1>5

\* A block of at least `size' units was allocated
Allotted(h, r, P, size) ==
    /\ Good(r[1], P) /\ Kept(r[1], {}) /\ r[2] \notin DOMAIN Used(h.chunk)
    /\ Used(r[1].chunk) = Updated(Used(h.chunk), r[2], r[1].chunk[r[2]].size)
    /\ IsUsed(r[1].chunk, r[2]) /\ size <= r[1].chunk[r[2]].size

LEMMA DoneAllotted ==
    ASSUME NEW h, NEW g, NEW f, NEW P \in SUBSET Nat, NEW c, NEW size \in Nat, MinSize <= size,
           AllocDone(f, g, P, c, size), Used(f.chunk) = Used(h.chunk), c \notin DOMAIN Used(h.chunk),
           NEW r, r = <<g, c>>
    PROVE  Allotted(h, r, P, size)
  <1>1. r[1] = g /\ r[2] = c
    OBVIOUS
  <1>2. /\ Core(g, P) /\ Flags(Sizes(g), g.chunk, {}) /\ NotBoth(g.chunk, {}) /\ Feet(g.chunk, g.foot, {})
        /\ AtLeast(g.chunk, {})
        /\ Binning(g, FreeChunks(g.chunk)) /\ Count(g) /\ Kept(g, {})
        /\ IsUsed(g.chunk, c) /\ size <= g.chunk[c].size
        /\ Used(g.chunk) = Updated(Used(f.chunk), c, g.chunk[c].size)
    BY DEF AllocDone
  <1>3. Good(g, P)
    BY <1>2 DEF Good, Settled
  <1> QED BY <1>1, <1>2, <1>3 DEF Allotted

LEMMA TakenFrom ==
    ASSUME NEW h, NEW P \in SUBSET Nat, Good(h, P), Kept(h, {}), NEW c, IsFree(h.chunk, c),
           NEW size \in Nat, MinSize <= size, size <= h.chunk[c].size,
           NEW r, r = <<AllocFrom(h, c, size), c>>
    PROVE  Allotted(h, r, P, size)
  <1> DEFINE g == AllocFrom(h, c, size)
             b == h.chunk[c].heap
  <1>1. g = AllocFrom(h, c, size) /\ r = <<g, c>> /\ b = h.chunk[c].heap
    OBVIOUS
  <1> HIDE DEF g, b
  <1>2. CutReady(h, P, c, size) /\ Count(h)
    <2>1. /\ Core(h, P) /\ AtLeast(h.chunk, {}) /\ Flags(Sizes(h), h.chunk, {})
          /\ NotBoth(h.chunk, {}) /\ Feet(h.chunk, h.foot, {}) /\ Binning(h, FreeChunks(h.chunk))
          /\ Count(h)
      BY DEF Good, Settled
    <2>2. NotBoth(h.chunk, {c})
      BY <2>1 DEF NotBoth
    <2>3. h.chunk[c].pused
      <3>1. Grid(Sizes(h), h.chunk) /\ Apart(Sizes(h))
        BY <2>1, CoreIs
      <3> QED BY <2>1, <3>1, FreePused
    <2> QED BY <2>1, <2>2, <2>3 DEF CutReady, MinSize
  <1>3. AllocDone(h, g, P, c, size)
    BY <1>1, <1>2, AllocFromKeeps
  <1>4. c \notin DOMAIN Used(h.chunk)
    BY DEF Used, IsFree
  <1> QED BY <1>1, <1>3, <1>4, DoneAllotted

\* The first block of a new heap, which was cut before or not
LEMMA TakenFromNew ==
    ASSUME NEW h, NEW P \in SUBSET Nat, NEW b, NEW len, HoleAt(h, b, len), NEW g, HeapGot(h, g, P, b, len),
           NEW c, c = b + 2, NEW size \in Nat, MinSize <= size, size + 2 <= len, NEW f,
           f = g \/ f = CutFirst(g, c, size), NEW r, r = <<AllocFrom(f, c, size), c>>
    PROVE  Allotted(h, r, P, size)
  <1>1. /\ Good(g, P) /\ Kept(g, {b}) /\ IsFree(g.chunk, c) /\ g.chunk[c].pused
        /\ g.chunk[c].size = len - 2 /\ g.chunk[c].heap = b
        /\ Used(g.chunk) = Used(h.chunk) /\ c \notin DOMAIN h.chunk
    BY DEF HeapGot
  <1>2. size <= g.chunk[c].size
    BY <1>1 DEF HoleAt
  <1>3. FirstCut(g, f, P, c, size) \/ (f = g /\ CutReady(g, P, c, size) /\ Count(g))
    <2>1. CASE f = g
      <3>1. /\ Core(g, P) /\ AtLeast(g.chunk, {}) /\ Flags(Sizes(g), g.chunk, {})
            /\ NotBoth(g.chunk, {}) /\ Feet(g.chunk, g.foot, {}) /\ Binning(g, FreeChunks(g.chunk))
            /\ Count(g)
        BY <1>1 DEF Good, Settled
      <3>2. NotBoth(g.chunk, {c})
        BY <3>1 DEF NotBoth
      <3> QED BY <1>1, <1>2, <2>1, <3>1, <3>2 DEF CutReady, MinSize
    <2>2. CASE f = CutFirst(g, c, size)
      BY <1>1, <1>2, <2>2, CutFirstKeeps
    <2> QED BY <2>1, <2>2
  <1>4. /\ CutReady(f, P, c, size) /\ Count(f) /\ Used(f.chunk) = Used(h.chunk)
        /\ f.heap = g.heap /\ f.retained = g.retained /\ f.retainedsz = g.retainedsz
        /\ f.chunk[c].heap = b
    <2>1. CASE FirstCut(g, f, P, c, size)
      BY <1>1, <2>1 DEF FirstCut, Frame
    <2>2. CASE f = g /\ CutReady(g, P, c, size) /\ Count(g)
      BY <1>1, <2>2
    <2> QED BY <1>3, <2>1, <2>2
  <1>5. Kept(f, {b})
    <2>1. FreeHeaps(f) \ {b} = FreeHeaps(g) \ {b}
      BY <1>4 DEF FreeHeaps, Whole
    <2>2. Sizing(f, Listing(g.retained)) = Sizing(g, Listing(g.retained))
      BY <1>4 DEF Sizing
    <2> QED BY <1>1, <1>4, <2>1, <2>2, KeptSame
  <1> DEFINE k == AllocFrom(f, c, size)
  <1>6. k = AllocFrom(f, c, size) /\ r = <<k, c>>
    OBVIOUS
  <1> HIDE DEF k
  <1>7. AllocDone(f, k, P, c, size)
    <2>1. b = f.chunk[c].heap
      BY <1>4
    <2> QED BY <1>4, <1>5, <1>6, <2>1, AllocFromKeeps
  <1>8. c \notin DOMAIN Used(h.chunk)
    BY <1>1 DEF Used
  <1> QED BY <1>4, <1>6, <1>7, <1>8, DoneAllotted

LEMMA NewHeapLength ==
    ASSUME NEW want \in Nat, NEW size \in Nat, size <= want, MinSize <= size, NEW len, len = Ceil(Header + want)
    PROVE  len \in Nat /\ len % Page = 0 /\ len >= MinSize + 2 /\ size + 2 <= len
  <1>1. Header + want \in Nat /\ size + 2 <= Header + want
    BY DEF Header
  <1> DEFINE w == Header + want
  <1>2. w \in Nat /\ size + 2 <= w /\ len = Ceil(w)
    BY <1>1
  <1> HIDE DEF w
  <1>3. Ceil(w) \in Nat /\ Ceil(w) >= w /\ Ceil(w) % Page = 0
    BY <1>2, CeilIs
  <1> QED BY <1>2, <1>3 DEF MinSize

LEMMA NewHeapIs ==
    ASSUME NEW h, NEW P \in SUBSET Nat, Good(h, P), Kept(h, {}), P \subseteq Mapped(h),
           NEW size \in Nat, MinSize <= size, NEW len \in Nat, len % Page = 0, len >= MinSize + 2,
           NEW b \in Holes(h, len), NEW g, g = HeapAlloc(h, b, len)
    PROVE  HoleAt(h, b, len) /\ HeapGot(h, g, P, b, len)
  <1>1. HeapsFine(h)
    BY DEF Good, Settled, Core
  <1>2. HoleAt(h, b, len) /\ \A u \in Mapped(h) : ~ (b <= u /\ u < b + len)
    BY <1>1, HoleIs
  <1>3. \A u \in P : ~ (b <= u /\ u < b + len)
    BY <1>2
  <1> QED BY <1>2, <1>3, HeapAllocKeeps

LEMMA InBin ==
    ASSUME NEW h, NEW P, Good(h, P), NEW b, NEW c \in Bins(h, b)
    PROVE  IsFree(h.chunk, c) /\ BinOf(h, c) = b /\ h.chunk[c].size \in Nat
  <1>1. Binning(h, FreeChunks(h.chunk)) /\ Core(h, P)
    BY DEF Good, Settled
  <1>2. c \in FreeChunks(h.chunk) /\ BinOf(h, c) = b
    BY <1>1 DEF Binning
  <1>3. IsFree(h.chunk, c)
    BY <1>2 DEF FreeChunks, IsFree
  <1> QED BY <1>1, <1>2, <1>3, CoreIs DEF IsFree

LEMMA NewHeapAllots ==
    ASSUME NEW h, NEW P \in SUBSET Nat, Good(h, P), Kept(h, {}), P \subseteq Mapped(h),
           NEW size \in Nat, MinSize <= size, NEW want \in Nat, size <= want,
           NEW r \in FromNewHeap(h, want, size)
    PROVE  Allotted(h, r, P, size)
  <1> DEFINE len == Ceil(Header + want)
  <1>1. PICK b \in Holes(h, len) : r = <<AllocFrom(HeapAlloc(h, b, len), b + Header, size), b + Header>>
    BY DEF FromNewHeap
  <1> DEFINE g == HeapAlloc(h, b, len)
             c == b + 2
  <1>2. /\ r = <<AllocFrom(g, c, size), c>> /\ g = HeapAlloc(h, b, len) /\ c = b + 2
        /\ len = Ceil(Header + want) /\ b \in Holes(h, len)
    BY <1>1 DEF Header
  <1> HIDE DEF len, g, c
  <1>3. len \in Nat /\ len % Page = 0 /\ len >= MinSize + 2 /\ size + 2 <= len
    BY <1>2, NewHeapLength
  <1>4. HoleAt(h, b, len) /\ HeapGot(h, g, P, b, len)
    BY <1>2, <1>3, NewHeapIs
  <1> QED BY <1>2, <1>3, <1>4, TakenFromNew

LEMMA AllocLargeIs ==
    ASSUME NEW h, NEW P \in SUBSET Nat, Good(h, P), Kept(h, {}), P \subseteq Mapped(h),
           NEW size \in Nat, MinSize <= size, NEW r \in AllocLarge(h, size)
    PROVE  Allotted(h, r, P, size)
  <1>1. CASE LargeBins(h, size) # {}
    <2> DEFINE b == First(LargeBins(h, size))
    <2>1. PICK c \in Fits(h, b, size) : r = <<AllocFrom(h, c, size), c>>
      BY <1>1 DEF AllocLarge
    <2> HIDE DEF b
    <2>2. c \in Bins(h, b) /\ h.chunk[c].size >= size
      BY DEF Fits, Size
    <2>3. IsFree(h.chunk, c) /\ h.chunk[c].size \in Nat
      BY <2>2, InBin
    <2>4. size <= h.chunk[c].size
      BY <2>2, <2>3
    <2> QED BY <2>1, <2>3, <2>4, TakenFrom
  <1>2. CASE ~ (LargeBins(h, size) # {})
    <2> DEFINE want == Max({Largest(LIdx(size)), size})
    <2>1. r \in FromNewHeap(h, want, size)
      BY <1>2 DEF AllocLarge
    <2>2. want \in Nat /\ size <= want
      <3> DEFINE l == Largest(LIdx(size))
      <3>1. l \in Int
        BY LIdxIs
      <3> HIDE DEF l
      <3>2. Max({l, size}) = IF l >= size THEN l ELSE size
        BY <3>1, MaxOf
      <3> QED BY <3>1, <3>2 DEF l
    <2> HIDE DEF want
    <2> QED BY <2>1, <2>2, NewHeapAllots
  <1> QED BY <1>1, <1>2

LEMMA FirstSmall ==
    ASSUME NEW h, NEW P, Good(h, P), NEW size \in Nat, SmallBins(h, size) # {}
    PROVE  First(SmallBins(h, size)) \in SmallBins(h, size)
  <1> DEFINE B == SmallBins(h, size)
             N == {b[2] : b \in B}
  <1>1. Binning(h, FreeChunks(h.chunk)) /\ Core(h, P)
    BY DEF Good, Settled
  <1>2. ASSUME NEW b \in B PROVE b[2] \in Nat
    <2>1. b \in h.binmap /\ b[1] = "small"
      BY DEF SmallBins
    <2>2. PICK c \in FreeChunks(h.chunk) : b = BinOf(h, c)
      BY <1>1, <2>1 DEF Binning
    <2>3. b = <<"small", h.chunk[c].size>>
      <3>1. CASE h.chunk[c].size <= SmallMax
        BY <2>2, <3>1 DEF BinOf, Bin
      <3>2. CASE ~ (h.chunk[c].size <= SmallMax)
        <4>1. b = <<"large", LIdx(h.chunk[c].size)>>
          BY <2>2, <3>2 DEF BinOf, Bin
        <4> QED BY <2>1, <4>1
      <3> QED BY <3>1, <3>2
    <2>4. h.chunk[c].size \in Nat
      BY <1>1, CoreIs DEF FreeChunks
    <2> QED BY <2>3, <2>4
  <1> HIDE DEF B
  <1>3. N \in SUBSET Nat /\ N # {}
    BY <1>2 DEF B
  <1> HIDE DEF N
  <1>4. PICK i \in N : \A j \in N : i <= j
    BY <1>3, LeastOne
  <1>5. PICK b \in B : b[2] = i
    BY <1>4 DEF N
  <1>6. \A d \in B : b[2] <= d[2]
    BY <1>4, <1>5 DEF N
  <1>7. First(B) \in B
    BY <1>6 DEF First
  <1> QED BY <1>7 DEF B

LEMMA AllocSmallIs ==
    ASSUME NEW h, NEW P \in SUBSET Nat, Good(h, P), Kept(h, {}), P \subseteq Mapped(h),
           NEW size \in Nat, MinSize <= size, NEW r \in AllocSmall(h, size), size <= SmallMax
    PROVE  Allotted(h, r, P, size)
  <1>1. CASE SmallBins(h, size) # {}
    <2> DEFINE b == First(SmallBins(h, size))
    <2>1. PICK c \in Bins(h, b) : r = <<AllocFrom(h, c, size), c>>
      BY <1>1 DEF AllocSmall
    <2>2. b \in SmallBins(h, size)
      BY <1>1, FirstSmall
    <2> HIDE DEF b
    <2>3. IsFree(h.chunk, c) /\ BinOf(h, c) = b /\ h.chunk[c].size \in Nat
      BY InBin
    <2>4. size <= h.chunk[c].size
      <3>1. b[1] = "small" /\ b[2] >= size
        BY <2>2 DEF SmallBins
      <3>2. CASE h.chunk[c].size <= SmallMax
        <4>1. b = <<"small", h.chunk[c].size>>
          BY <2>3, <3>2 DEF BinOf, Bin
        <4> QED BY <2>3, <3>1, <4>1
      <3>3. CASE ~ (h.chunk[c].size <= SmallMax)
        <4>1. b = <<"large", LIdx(h.chunk[c].size)>>
          BY <2>3, <3>3 DEF BinOf, Bin
        <4> QED BY <3>1, <4>1
      <3> QED BY <3>2, <3>3
    <2> QED BY <2>1, <2>3, <2>4, TakenFrom
  <1>2. CASE ~ (SmallBins(h, size) # {}) /\ \E b \in h.binmap : b[1] = "large"
    <2>1. r \in AllocLarge(h, size)
      BY <1>2 DEF AllocSmall
    <2> QED BY <2>1, AllocLargeIs
  <1>3. CASE ~ (SmallBins(h, size) # {}) /\ ~ (\E b \in h.binmap : b[1] = "large")
    <2> DEFINE len == Ceil(Header + size)
    <2>1. PICK b \in Holes(h, len) :
              r = <<AllocFrom(CutFirst(HeapAlloc(h, b, len), b + Header, size), b + Header, size), b + Header>>
      BY <1>3 DEF AllocSmall
    <2> DEFINE g == HeapAlloc(h, b, len)
               c == b + 2
               f == CutFirst(g, c, size)
    <2>2. /\ r = <<AllocFrom(f, c, size), c>> /\ f = CutFirst(g, c, size) /\ g = HeapAlloc(h, b, len)
          /\ c = b + 2 /\ len = Ceil(Header + size) /\ b \in Holes(h, len)
      BY <2>1 DEF Header
    <2> HIDE DEF len, g, c, f
    <2>3. len \in Nat /\ len % Page = 0 /\ len >= MinSize + 2 /\ size + 2 <= len
      <3>1. size <= size
        OBVIOUS
      <3> QED BY <2>2, <3>1, NewHeapLength
    <2>4. HoleAt(h, b, len) /\ HeapGot(h, g, P, b, len)
      BY <2>2, <2>3, NewHeapIs
    <2> QED BY <2>2, <2>3, <2>4, TakenFromNew
  <1> QED BY <1>1, <1>2, <1>3

LEMMA AllocIs ==
    ASSUME NEW h, NEW P \in SUBSET Nat, Good(h, P), Kept(h, {}), P \subseteq Mapped(h),
           NEW size \in Nat, MinSize <= size, NEW r \in Alloc(h, size)
    PROVE  Allotted(h, r, P, size)
  <1>1. CASE size <= SmallMax
    <2>1. r \in AllocSmall(h, size)
      BY <1>1 DEF Alloc
    <2> QED BY <1>1, <2>1, AllocSmallIs
  <1>2. CASE ~ (size <= SmallMax)
    <2>1. r \in AllocLarge(h, size)
      BY <1>2 DEF Alloc
    <2> QED BY <2>1, AllocLargeIs
  <1> QED BY <1>1, <1>2

(* A heap is given back                                                    *)

Recorded(h, g, b) ==
    /\ IsHeap(g) /\ HeapsFine(g) /\ Sizes(g) = Dropped(Sizes(h), b)
    /\ g.chunk = h.chunk /\ g.foot = h.foot /\ SameBins(h, g) /\ g.wrote = h.wrote
    /\ g.retained = h.retained /\ g.retainedsz = h.retainedsz
    /\ DOMAIN g.heap = DOMAIN h.heap \ {b} /\ \A x \in DOMAIN g.heap : g.heap[x] = h.heap[x]

LEMMA RecordIs ==
    ASSUME NEW h, IsHeap(h), HeapsFine(h), NEW b \in DOMAIN h.heap, NEW g, g = Record(h, b)
    PROVE  Recorded(h, g, b)
  <1> DEFINE N == [base |-> b, size |-> h.heap[b].size]
             k == (h.relIdx % Ring) + 1
  <1>1. /\ IsHeap(g) /\ g.chunk = h.chunk /\ g.foot = h.foot /\ SameBins(h, g) /\ g.wrote = h.wrote
        /\ g.retained = h.retained /\ g.retainedsz = h.retainedsz /\ g.lo = h.lo /\ g.hi = h.hi
        /\ g.mapsz = h.mapsz - h.heap[b].size
    BY DEF Record, IsHeap, SameBins
  <1>2. g.heap = [x \in DOMAIN h.heap \ {b} |-> h.heap[x]]
    BY DEF Record, IsHeap
  <1>3. g.released = [h.released EXCEPT ![k] = N]
    BY DEF Record, IsHeap
  <1>4. /\ DOMAIN g.heap = DOMAIN h.heap \ {b} /\ \A x \in DOMAIN g.heap : g.heap[x] = h.heap[x]
    BY <1>2
  <1>5. Sizes(g) = Dropped(Sizes(h), b)
    BY <1>4 DEF Sizes, Dropped
  <1>6. /\ \A x \in DOMAIN h.heap : x \in Nat /\ h.heap[x].size \in Nat
        /\ \A x, y \in DOMAIN h.heap : x < y => x + h.heap[x].size <= y
        /\ h.mapsz = Cardinality(Mapped(h))
    BY DEF HeapsFine
  <1>7. g.mapsz = Cardinality(Mapped(g))
    <2>1. Mapped(h) = Sizing(h, DOMAIN h.heap)
      BY DEF Mapped, Sizing
    <2>2. Mapped(g) = Sizing(h, DOMAIN h.heap \ {b})
      BY <1>4 DEF Mapped, Sizing
    <2>3. Cardinality(Sizing(h, DOMAIN h.heap \ {b})) = Cardinality(Sizing(h, DOMAIN h.heap)) - h.heap[b].size
      BY ExtentsLess
    <2> QED BY <1>1, <1>6, <2>1, <2>2, <2>3
  <1> HIDE DEF k
  <1>8. ASSUME NEW i \in DOMAIN g.released
        PROVE  /\ g.released[i] \in [base : Nat, size : Nat]
               /\ \A x \in DOMAIN g.heap : \/ g.released[i].base + g.released[i].size <= x
                                           \/ x + g.heap[x].size <= g.released[i].base
    <2>1. i \in DOMAIN h.released
      BY <1>3
    <2>2. CASE g.released[i] = N
      <3>1. N \in [base : Nat, size : Nat] /\ N.base = b /\ N.size = h.heap[b].size
        BY <1>6
      <3> HIDE DEF N
      <3>2. \A x \in DOMAIN g.heap : \/ b + h.heap[b].size <= x
                                     \/ x + g.heap[x].size <= b
        BY <1>4, <1>6
      <3> QED BY <2>2, <3>1, <3>2
    <2>3. CASE g.released[i] # N
      <3>1. g.released[i] = h.released[i]
        BY <1>3, <2>1, <2>3
      <3>2. /\ h.released[i] \in [base : Nat, size : Nat]
            /\ \A x \in DOMAIN h.heap : \/ h.released[i].base + h.released[i].size <= x
                                        \/ x + h.heap[x].size <= h.released[i].base
        BY <2>1 DEF HeapsFine
      <3> QED BY <1>4, <3>1, <3>2
    <2> QED BY <2>2, <2>3
  <1>9. HeapsFine(g)
    <2>1. /\ h.lo \in Nat /\ h.hi \in Nat
          /\ \A x \in DOMAIN h.heap :
                /\ x \in Nat /\ x % Page = 0 /\ h.heap[x] \in [size : Nat, freesz : Int]
                /\ h.heap[x].size % Page = 0 /\ h.heap[x].size >= Header
                /\ h.lo # 0 /\ h.lo <= x /\ x < h.hi /\ x + h.heap[x].size <= h.hi
      BY DEF HeapsFine
    <2>2. /\ g.lo \in Nat /\ g.hi \in Nat
          /\ \A x \in DOMAIN g.heap :
                /\ x \in Nat /\ x % Page = 0 /\ g.heap[x] \in [size : Nat, freesz : Int]
                /\ g.heap[x].size % Page = 0 /\ g.heap[x].size >= Header
                /\ g.lo # 0 /\ g.lo <= x /\ x < g.hi /\ x + g.heap[x].size <= g.hi
      BY <1>1, <1>4, <2>1
    <2>3. \A x, y \in DOMAIN g.heap : x < y => x + g.heap[x].size <= y
      BY <1>4, <1>6
    <2> QED BY <1>7, <1>8, <2>2, <2>3 DEF HeapsFine
  <1> QED BY <1>1, <1>4, <1>5, <1>9 DEF Recorded

\* Heap b is no longer
HeapGone(h, g, P, b) ==
    /\ Good(g, P) /\ Used(g.chunk) = Used(h.chunk)
    /\ g.retained = h.retained /\ g.retainedsz = h.retainedsz
    /\ DOMAIN g.heap = DOMAIN h.heap \ {b} /\ \A x \in DOMAIN g.heap : g.heap[x] = h.heap[x]

LEMMA HeapReleaseIs ==
    ASSUME NEW h, NEW P \in SUBSET Nat, Good(h, P), NEW b \in DOMAIN h.heap, h.heap[b].freesz = Whole(h, b),
           NEW g, g = HeapRelease(h, b)
    PROVE  HeapGone(h, g, P, b)
  <1> DEFINE K == h.chunk
             S == FreeChunks(K)
             Z == Sizes(h)
             r == b + Header
             f == TakeChunk(h, r)
             C == {c \in DOMAIN K : K[c].heap = b}
             k == Forget(f, C)
             D == Without(K, b)
             Y == Dropped(Z, b)
  <1>1. /\ Core(h, P) /\ AtLeast(K, {}) /\ Flags(Z, K, {})
        /\ NotBoth(K, {}) /\ Feet(K, h.foot, {}) /\ Binning(h, S) /\ Count(h)
    BY DEF Good, Settled
  <1>2. IsHeap(h) /\ HeapsFine(h) /\ Grid(Z, K) /\ Apart(Z) /\ DOMAIN Z = DOMAIN h.heap
        /\ Z[b] = h.heap[b].size
    BY <1>1, CoreIs DEF Core
  <1>3. g = Record(k, b)
    BY DEF HeapRelease, HeapOf
  <1>4. f = TakeChunk(h, r) /\ k = Forget(f, C) /\ D = Without(K, b) /\ Y = Dropped(Z, b)
    OBVIOUS
  <1>5. [c \in DOMAIN K \ C |-> K[c]] = D
    BY DEF Without
  <1>6. Sole(Z, K, b)
    <2>1. Cardinality(FreeUnits(K, b)) = Z[b] - Header
      BY <1>1, <1>2 DEF Count, Whole
    <2> HIDE DEF K, Z
    <2> QED BY <1>1, <1>2, <2>1, AllFree
  <1>7. r \in S
    BY <1>2, <1>6 DEF Sole, Grid, FreeChunks
  <1> HIDE DEF f, k, C, D, Y, Z, S
  <1>8. /\ Frame(h, f) /\ f.heap = h.heap /\ f.foot = h.foot /\ f.chunk = h.chunk
        /\ Core(f, P) /\ Binning(f, S \ {r})
    <2> HIDE DEF r
    <2> QED BY <1>1, <1>4, <1>7, TakeKeeps
  <1>9. /\ Frame(f, k) /\ SameBins(f, k) /\ k.heap = f.heap /\ k.foot = f.foot
        /\ k.chunk = D /\ k.wrote = f.wrote
    <2>1. IsHeap(f)
      BY <1>8 DEF Frame
    <2>2. Forgot(f, k, C)
      BY <1>4, <2>1, ForgetIs
    <2>3. k.chunk = [c \in DOMAIN f.chunk \ C |-> f.chunk[c]]
      BY <2>2 DEF Forgot
    <2>4. /\ Frame(f, k) /\ SameBins(f, k) /\ k.heap = f.heap /\ k.foot = f.foot /\ k.wrote = f.wrote
      BY <2>2 DEF Forgot
    <2> QED BY <1>5, <1>8, <2>3, <2>4
  <1>10. IsHeap(k) /\ HeapsFine(k) /\ Sizes(k) = Z /\ b \in DOMAIN k.heap
    <2>1. HeapsFine(f) /\ Sizes(f) = Z
      BY <1>2, <1>8, FrameFine DEF Z
    <2> QED BY <1>8, <1>9, <2>1, FrameFine DEF Frame
  <1>11. Recorded(k, g, b)
    BY <1>3, <1>10, RecordIs
  <1>12. /\ IsHeap(g) /\ HeapsFine(g) /\ Sizes(g) = Y
         /\ g.chunk = D /\ g.foot = h.foot /\ SameBins(f, g) /\ g.wrote = f.wrote
         /\ g.retained = h.retained /\ g.retainedsz = h.retainedsz
         /\ DOMAIN g.heap = DOMAIN h.heap \ {b} /\ \A x \in DOMAIN g.heap : g.heap[x] = h.heap[x]
    BY <1>4, <1>8, <1>9, <1>10, <1>11 DEF Recorded, Frame, SameBins
  <1> HIDE DEF K
  <1>13. WithoutDone(Z, K, b, Y, D)
    BY <1>2, <1>4, <1>6, WithoutGrid
  <1>14. /\ Grid(Y, D) /\ Flags(Y, D, {}) /\ NotBoth(D, {}) /\ Feet(D, h.foot, {})
         /\ \A x : x # b => FreeUnits(D, x) = FreeUnits(K, x)
         /\ FreeChunks(D) = S \ {r}
         /\ DOMAIN D = DOMAIN K \ {r} /\ \A e \in DOMAIN D : D[e] = K[e]
         /\ AtLeast(D, {}) /\ Used(D) = Used(K)
    BY <1>1, <1>13 DEF WithoutDone, S
  <1>15. Core(g, P)
    <2>1. Clear(K, P) /\ f.wrote \cap P = {}
      BY <1>1, <1>8 DEF Core, K
    <2>2. Clear(D, P)
      BY <1>13, <2>1 DEF WithoutDone
    <2> QED BY <1>12, <1>14, <2>1, <2>2 DEF Core
  <1>16. Binning(g, FreeChunks(D))
    <2> DEFINE T == S \ {r}
    <2>1. Binning(f, T) /\ FreeChunks(D) = T /\ T \subseteq FreeChunks(D)
      BY <1>8, <1>14
    <2> HIDE DEF T
    <2>2. \A c \in T : c \in DOMAIN g.chunk /\ ~ g.chunk[c].cused /\ g.chunk[c].size = f.chunk[c].size
      BY <1>8, <1>12, <1>14, <2>1 DEF FreeChunks, K
    <2>3. Binning(g, T)
      BY <1>12, <2>1, <2>2, BinFrame
    <2> QED BY <2>1, <2>3
  <1>17. Count(g)
    BY <1>1, <1>12, <1>14 DEF Count, K
  <1>18. Good(g, P)
    BY <1>12, <1>14, <1>15, <1>16, <1>17 DEF Good, Settled
  <1> QED BY <1>12, <1>14, <1>18 DEF HeapGone, K

\* The heap kept longest was given back
OldestGone(h, g, P, X) ==
    /\ Good(g, P) /\ Kept(g, X) /\ Used(g.chunk) = Used(h.chunk)
    /\ Len(g.retained) = Len(h.retained) - 1
    /\ \A x \in X : x \in DOMAIN h.heap => x \in DOMAIN g.heap /\ g.heap[x] = h.heap[x]

LEMMA DropOldestIs ==
    ASSUME NEW h, NEW P \in SUBSET Nat, Good(h, P), NEW X, Kept(h, X), Len(h.retained) # 0,
           NEW g, g = DropOldest(h)
    PROVE  OldestGone(h, g, P, X)
  <1> DEFINE b == h.retained[1]
             u == UnretainAt(h, 1)
  <1>1. g = HeapRelease(u, b) /\ b = h.retained[1] /\ u = UnretainAt(h, 1)
    BY DEF DropOldest
  <1> HIDE DEF b, u
  <1>2. IsHeap(h) /\ HeapsFine(h)
    BY DEF Good, Settled, Core
  <1>3. 1 \in DOMAIN h.retained
    <2>1. h.retained \in Seq(Nat)
      BY DEF Kept
    <2> QED BY <2>1
  <1>4. Unretained(h, u, X, 1, b)
    BY <1>1, <1>2, <1>3, UnretainAtKeeps
  <1>5. /\ Unlisted(h, u) /\ Kept(u, X \cup {b}) /\ b \in DOMAIN h.heap /\ h.heap[b].freesz = Whole(h, b)
        /\ Len(u.retained) = Len(h.retained) - 1
    BY <1>4 DEF Unretained
  <1>6. Good(u, P)
    BY <1>5, UnlistedCore DEF Good
  <1>7. u.heap = h.heap /\ u.chunk = h.chunk /\ b \in DOMAIN u.heap /\ u.heap[b].freesz = Whole(u, b)
    BY <1>5 DEF Unlisted, Whole
  <1>8. HeapGone(u, g, P, b)
    BY <1>1, <1>6, <1>7, HeapReleaseIs
  <1>9. /\ Good(g, P) /\ Used(g.chunk) = Used(u.chunk)
        /\ g.retained = u.retained /\ g.retainedsz = u.retainedsz
        /\ DOMAIN g.heap = DOMAIN u.heap \ {b} /\ \A x \in DOMAIN g.heap : g.heap[x] = u.heap[x]
    BY <1>8 DEF HeapGone
  <1>10. b \notin X
    <2>1. b \in {h.retained[i] : i \in DOMAIN h.retained}
      BY <1>1, <1>3
    <2> QED BY <2>1 DEF Kept
  <1>11. Kept(g, X)
    <2>1. FreeHeaps(g) = FreeHeaps(u) \ {b}
      BY <1>9 DEF FreeHeaps, Whole
    <2>2. FreeHeaps(g) \ X = FreeHeaps(u) \ (X \cup {b})
      BY <2>1
    <2>3. Listing(u.retained) = FreeHeaps(u) \ (X \cup {b})
      BY <1>5 DEF Kept, Listing, FreeHeaps
    <2>4. \A x \in Listing(u.retained) : g.heap[x] = u.heap[x]
      BY <1>9, <2>3 DEF FreeHeaps
    <2>5. Sizing(g, Listing(u.retained)) = Sizing(u, Listing(u.retained))
      BY <2>4 DEF Sizing
    <2> HIDE DEF Kept
    <2> QED BY <1>5, <1>9, <2>2, <2>5, KeptSame
  <1> QED BY <1>5, <1>7, <1>9, <1>10, <1>11 DEF OldestGone

-----------------------------------------------------------------------------
(* The oldest heaps are given back, as many as it takes                    *)

\* T[n] is h without the n heaps kept longest
Drops(h, N, T) ==
    /\ T[0] = h
    /\ \A n \in 0 .. N : n # 0 => T[n] = DropOldest(T[n - 1])

LEMMA DroppingIs ==
    ASSUME NEW h, NEW N, N = Len(h.retained), N \in Nat, NEW T, T = Dropping(h)
    PROVE  Drops(h, N, T)
  <1> DEFINE E == {k \in Nat : \E f : f = [n \in 0 .. k |-> IF n = 0 THEN h ELSE DropOldest(f[n - 1])]}
  <1>1. T = CHOOSE f : f = [n \in 0 .. N |-> IF n = 0 THEN h ELSE DropOldest(f[n - 1])]
    BY Zenon DEF Dropping
  <1>2. 0 \in E
    <2> DEFINE W == [n \in 0 .. 0 |-> h]
    <2>1. W = [n \in 0 .. 0 |-> IF n = 0 THEN h ELSE DropOldest(W[n - 1])]
      OBVIOUS
    <2> QED BY <2>1
  <1>3. ASSUME NEW k \in Nat, k \in E PROVE k + 1 \in E
    <2>1. PICK f : f = [n \in 0 .. k |-> IF n = 0 THEN h ELSE DropOldest(f[n - 1])]
      BY <1>3
    <2> DEFINE W == [n \in 0 .. k + 1 |-> IF n = k + 1 THEN DropOldest(f[k]) ELSE f[n]]
    <2>2. ASSUME NEW n \in 0 .. k + 1 PROVE W[n] = IF n = 0 THEN h ELSE DropOldest(W[n - 1])
      <3>1. CASE n = k + 1
        <4>1. n # 0 /\ n - 1 = k /\ k \in 0 .. k + 1 /\ k # k + 1
          BY <3>1
        <4>2. W[n - 1] = f[k]
          BY <4>1
        <4> QED BY <3>1, <4>1, <4>2
      <3>2. CASE n # k + 1 /\ n # 0
        <4>1. n - 1 \in 0 .. k + 1 /\ n - 1 # k + 1 /\ n \in 0 .. k
          BY <3>2
        <4>2. W[n - 1] = f[n - 1] /\ W[n] = f[n]
          BY <3>2, <4>1
        <4>3. f[n] = DropOldest(f[n - 1])
          BY <2>1, <3>2, <4>1
        <4> QED BY <3>2, <4>2, <4>3
      <3>3. CASE n = 0
        <4>1. 0 \in 0 .. k /\ 0 \in 0 .. k + 1 /\ 0 # k + 1
          OBVIOUS
        <4>2. f[0] = h
          BY <2>1, <4>1
        <4> QED BY <3>3, <4>1, <4>2
      <3> QED BY <3>1, <3>2, <3>3
    <2>3. W = [n \in 0 .. k + 1 |-> IF n = 0 THEN h ELSE DropOldest(W[n - 1])]
      <3>1. W = [n \in 0 .. k + 1 |-> W[n]]
        OBVIOUS
      <3> HIDE DEF W
      <3> QED BY <2>2, <3>1
    <2>4. k + 1 \in Nat
      OBVIOUS
    <2> QED BY <2>3, <2>4
  <1> HIDE DEF E
  <1>4. N \in E
    <2>1. 1 \in E
      <3>1. 0 + 1 \in E
        BY <1>2, <1>3
      <3> QED BY <3>1
    <2>2. \A n \in Nat \ {0} : n \in E
      BY <1>3, <2>1, FromOne
    <2> QED BY <1>2, <2>2
  <1>5. \E f : f = [n \in 0 .. N |-> IF n = 0 THEN h ELSE DropOldest(f[n - 1])]
    BY <1>4, Zenon DEF E
  <1>6. T = [n \in 0 .. N |-> IF n = 0 THEN h ELSE DropOldest(T[n - 1])]
    BY <1>1, <1>5
  <1>7. 0 \in 0 .. N
    OBVIOUS
  <1> QED BY <1>6, <1>7 DEF Drops

\* The n heaps kept longest were given back
DroppedBy(h, g, P, X, n) ==
    /\ Good(g, P) /\ Kept(g, X) /\ Used(g.chunk) = Used(h.chunk)
    /\ Len(g.retained) = Len(h.retained) - n
    /\ \A x \in X : x \in DOMAIN h.heap => x \in DOMAIN g.heap /\ g.heap[x] = h.heap[x]

LEMMA DroppedIs ==
    ASSUME NEW h, NEW P \in SUBSET Nat, Good(h, P), NEW X, Kept(h, X), NEW n \in 0 .. Len(h.retained),
           NEW g, g = Dropping(h)[n]
    PROVE  DroppedBy(h, g, P, X, n)
  <1> DEFINE T == Dropping(h)
             N == Len(h.retained)
             E == {k \in Nat : k <= N => DroppedBy(h, T[k], P, X, k)}
  <1>1. T = Dropping(h) /\ N = Len(h.retained) /\ N \in Nat /\ n \in 0 .. N /\ g = T[n]
    <2>1. h.retained \in Seq(Nat)
      BY DEF Kept
    <2> QED BY <2>1
  <1> HIDE DEF T, N
  <1>2. T[0] = h /\ \A k \in 0 .. N : k # 0 => T[k] = DropOldest(T[k - 1])
    <2>1. Drops(h, N, T)
      BY <1>1, DroppingIs
    <2> QED BY <2>1 DEF Drops
  <1>3. DroppedBy(h, h, P, X, 0)
    BY <1>1 DEF DroppedBy
  <1>4. ASSUME NEW k \in Nat, k <= N => DroppedBy(h, T[k], P, X, k), k + 1 <= N
        PROVE  DroppedBy(h, T[k + 1], P, X, k + 1)
    <2>1. k <= N /\ k + 1 \in 0 .. N /\ k + 1 # 0 /\ (k + 1) - 1 = k
      BY <1>1, <1>4
    <2> DEFINE f == T[k]
               u == T[k + 1]
    <2>2. u = DropOldest(f)
      BY <1>2, <2>1
    <2>3. DroppedBy(h, f, P, X, k)
      BY <1>4, <2>1
    <2> HIDE DEF f, u
    <2>4. /\ Good(f, P) /\ Kept(f, X) /\ Used(f.chunk) = Used(h.chunk)
          /\ Len(f.retained) = N - k
          /\ \A x \in X : x \in DOMAIN h.heap => x \in DOMAIN f.heap /\ f.heap[x] = h.heap[x]
      BY <1>1, <2>3 DEF DroppedBy
    <2>5. Len(f.retained) # 0
      BY <1>1, <1>4, <2>4
    <2>6. OldestGone(f, u, P, X)
      BY <2>2, <2>4, <2>5, DropOldestIs
    <2>7. Len(u.retained) = N - (k + 1)
      BY <1>1, <2>4, <2>6 DEF OldestGone
    <2>8. DroppedBy(h, u, P, X, k + 1)
      BY <1>1, <2>4, <2>6, <2>7 DEF DroppedBy, OldestGone
    <2> QED BY <2>8 DEF u
  <1>5. 1 \in E
    <2>1. 1 <= N => DroppedBy(h, T[0 + 1], P, X, 0 + 1)
      <3>1. 0 \in Nat /\ (0 <= N => DroppedBy(h, T[0], P, X, 0)) /\ (1 <= N => 0 + 1 <= N)
        BY <1>2, <1>3
      <3> QED BY <1>4, <3>1
    <2> QED BY <2>1
  <1>6. ASSUME NEW k \in Nat \ {0}, k \in E PROVE k + 1 \in E
    <2>1. k \in Nat /\ k + 1 \in Nat /\ (k <= N => DroppedBy(h, T[k], P, X, k))
      BY <1>6
    <2>2. k + 1 <= N => DroppedBy(h, T[k + 1], P, X, k + 1)
      BY <1>4, <2>1
    <2> QED BY <2>1, <2>2
  <1> HIDE DEF E
  <1>7. \A k \in Nat \ {0} : k \in E
    BY <1>5, <1>6, FromOne
  <1>8. CASE n = 0
    BY <1>1, <1>2, <1>3, <1>8
  <1>9. CASE n # 0
    <2>1. n \in Nat \ {0} /\ n <= N
      BY <1>1, <1>9
    <2>2. n \in E
      BY <1>7, <2>1
    <2> QED BY <1>1, <2>1, <2>2 DEF E
  <1> QED BY <1>8, <1>9

LEMMA NothingKept ==
    ASSUME NEW h, NEW X, Kept(h, X), Len(h.retained) = 0
    PROVE  h.retained = <<>> /\ h.retainedsz = 0
  <1>1. h.retained \in Seq(Nat)
    BY DEF Kept
  <1>2. h.retained = <<>>
    BY <1>1, EmptySeq
  <1>3. DOMAIN h.retained = {}
    BY <1>2
  <1>4. Sizing(h, Listing(h.retained)) = {}
    BY <1>3 DEF Sizing, Listing
  <1>5. h.retainedsz = Cardinality(Sizing(h, Listing(h.retained)))
    BY DEF Kept, Sizing, Listing
  <1> QED BY <1>2, <1>4, <1>5, FS_EmptySet

LEMMA MinIn ==
    ASSUME NEW S \in SUBSET Nat, S # {}
    PROVE  Min(S) \in S
  <1>1. PICK x \in S : \A y \in S : x <= y
    BY LeastOne
  <1> QED BY <1>1 DEF Min

LEMMA MakeRoomIs ==
    ASSUME NEW h, NEW P \in SUBSET Nat, Good(h, P), NEW X, Kept(h, X), NEW size \in Nat, size <= RetainUnits,
           NEW g, g = MakeRoom(h, size)
    PROVE  RoomFor(g, size) /\ \E n \in Nat : DroppedBy(h, g, P, X, n)
  <1> DEFINE S == {n \in 0 .. Len(h.retained) : RoomFor(Dropping(h)[n], size)}
             N == Len(h.retained)
             e == Dropping(h)[N]
  <1>1. N \in Nat
    <2>1. h.retained \in Seq(Nat)
      BY DEF Kept
    <2> QED BY <2>1
  <1>2. DroppedBy(h, e, P, X, N)
    <2>1. N \in 0 .. Len(h.retained) /\ e = Dropping(h)[N]
      BY <1>1
    <2> HIDE DEF e, N
    <2> QED BY <2>1, DroppedIs
  <1>3. RoomFor(e, size)
    <2> HIDE DEF e
    <2>1. Kept(e, X) /\ Len(e.retained) = 0
      BY <1>1, <1>2 DEF DroppedBy
    <2>2. e.retainedsz = 0
      BY <2>1, NothingKept
    <2> QED BY <2>1, <2>2, HeapAssumption DEF RoomFor
  <1>4. N \in S
    BY <1>1, <1>3
  <1>5. g = Dropping(h)[Min(S)]
    BY DEF MakeRoom
  <1>6. Min(S) \in S
    <2>1. S \in SUBSET Nat /\ S # {}
      BY <1>1, <1>4
    <2> HIDE DEF S
    <2> QED BY <2>1, MinIn
  <1> DEFINE n == Min(S)
  <1>7. n \in 0 .. Len(h.retained) /\ RoomFor(Dropping(h)[n], size) /\ g = Dropping(h)[n]
    BY <1>5, <1>6
  <1> HIDE DEF n, S
  <1>8. DroppedBy(h, g, P, X, n)
    BY <1>7, DroppedIs
  <1> QED BY <1>7, <1>8

LEMMA TrimIs ==
    ASSUME NEW h, NEW P \in SUBSET Nat, Good(h, P), NEW X, Kept(h, X), NEW pad, NEW g, g = Trim(h, pad)
    PROVE  \E n \in Nat : DroppedBy(h, g, P, X, n)
  <1> DEFINE S == {n \in 0 .. Len(h.retained) : Trimmed(Dropping(h)[n], pad)}
             N == Len(h.retained)
             e == Dropping(h)[N]
  <1>1. N \in Nat
    <2>1. h.retained \in Seq(Nat)
      BY DEF Kept
    <2> QED BY <2>1
  <1>2. DroppedBy(h, e, P, X, N)
    <2>1. N \in 0 .. Len(h.retained) /\ e = Dropping(h)[N]
      BY <1>1
    <2> HIDE DEF e, N
    <2> QED BY <2>1, DroppedIs
  <1>3. Trimmed(e, pad)
    <2> HIDE DEF e
    <2>1. Kept(e, X) /\ Len(e.retained) = 0
      BY <1>1, <1>2 DEF DroppedBy
    <2>2. e.retained = <<>>
      BY <2>1, NothingKept
    <2> QED BY <2>2 DEF Trimmed
  <1>4. N \in S
    BY <1>1, <1>3
  <1>5. g = Dropping(h)[Min(S)]
    BY DEF Trim
  <1>6. Min(S) \in S
    <2>1. S \in SUBSET Nat /\ S # {}
      BY <1>1, <1>4
    <2> HIDE DEF S
    <2> QED BY <2>1, MinIn
  <1> DEFINE n == Min(S)
  <1>7. n \in 0 .. Len(h.retained) /\ g = Dropping(h)[n]
    BY <1>5, <1>6
  <1> HIDE DEF n, S
  <1>8. DroppedBy(h, g, P, X, n)
    BY <1>7, DroppedIs
  <1> QED BY <1>7, <1>8

\* Nothing of the chunks in use has changed, and the heaps on the list are the right ones
Kempt(h, g, P) == Good(g, P) /\ Kept(g, {}) /\ Used(g.chunk) = Used(h.chunk)

LEMMA AppendedIs ==
    ASSUME NEW s \in Seq(Nat), \A i, j \in DOMAIN s : s[i] = s[j] => i = j,
           NEW b \in Nat, b \notin Listing(s), NEW t, t = Append(s, b)
    PROVE  /\ t \in Seq(Nat) /\ \A i, j \in DOMAIN t : t[i] = t[j] => i = j
           /\ Listing(t) = Listing(s) \cup {b} /\ Len(t) = Len(s) + 1 /\ Len(s) \in Nat
  <1> DEFINE n == Len(s)
  <1>1. /\ t \in Seq(Nat) /\ Len(t) = n + 1 /\ n \in Nat
        /\ DOMAIN s = 1 .. n /\ DOMAIN t = 1 .. n + 1
        /\ \A i \in 1 .. n : t[i] = s[i]
        /\ t[n + 1] = b
    OBVIOUS
  <1> HIDE DEF n
  <1>2. \A i \in 1 .. n : s[i] # b
    BY <1>1 DEF Listing
  <1>3. \A i, j \in 1 .. n + 1 : t[i] = t[j] => i = j
    <2>1. \A i \in 1 .. n + 1 : i \in 1 .. n \/ i = n + 1
      BY <1>1
    <2> QED BY <1>1, <1>2, <2>1
  <1>4. Listing(t) = Listing(s) \cup {b}
    <2>1. \A i \in 1 .. n + 1 : i \in 1 .. n \/ i = n + 1
      BY <1>1
    <2>2. \A i \in 1 .. n : i \in 1 .. n + 1
      BY <1>1
    <2>3. n + 1 \in 1 .. n + 1
      BY <1>1
    <2> QED BY <1>1, <2>1, <2>2, <2>3 DEF Listing
  <1> QED BY <1>1, <1>3, <1>4 DEF n

LEMMA HeapRetainIs ==
    ASSUME NEW h, NEW P \in SUBSET Nat, Good(h, P), NEW b \in DOMAIN h.heap, Kept(h, {b}),
           h.heap[b].freesz = Whole(h, b), NEW g, g = HeapRetain(h, b)
    PROVE  Kempt(h, g, P)
  <1> DEFINE z == h.heap[b].size
             k == MakeRoom(h, z)
  <1>1. HeapsFine(h) /\ b \in Nat /\ z \in Nat
    BY DEF Good, Settled, Core, HeapsFine
  <1>2. CASE z > RetainUnits
    <2>1. g = HeapRelease(h, b)
      BY <1>2 DEF HeapRetain
    <2>2. HeapGone(h, g, P, b)
      BY <2>1, HeapReleaseIs
    <2>3. /\ Good(g, P) /\ Used(g.chunk) = Used(h.chunk)
          /\ g.retained = h.retained /\ g.retainedsz = h.retainedsz
          /\ DOMAIN g.heap = DOMAIN h.heap \ {b} /\ \A x \in DOMAIN g.heap : g.heap[x] = h.heap[x]
      BY <2>2 DEF HeapGone
    <2>4. FreeHeaps(g) \ {} = FreeHeaps(h) \ {b}
      BY <2>3 DEF FreeHeaps, Whole
    <2>5. Listing(h.retained) = FreeHeaps(h) \ {b}
      BY DEF Kept, Listing, FreeHeaps
    <2>6. Sizing(g, Listing(h.retained)) = Sizing(h, Listing(h.retained))
      <3>1. \A x \in Listing(h.retained) : g.heap[x] = h.heap[x]
        BY <2>3, <2>5 DEF FreeHeaps
      <3> QED BY <3>1 DEF Sizing
    <2>7. Kept(g, {})
      BY <2>3, <2>4, <2>6, KeptSame
    <2> QED BY <2>3, <2>7 DEF Kempt
  <1>3. CASE ~ (z > RetainUnits)
    <2>1. g = [k EXCEPT !.retained = Append(@, b), !.retainedsz = @ + z]
      BY <1>3 DEF HeapRetain
    <2>2. z <= RetainUnits
      BY <1>1, <1>3, HeapAssumption
    <2>3. k = MakeRoom(h, z) /\ z = h.heap[b].size
      OBVIOUS
    <2> HIDE DEF k, z
    <2>4. RoomFor(k, z) /\ \E n \in Nat : DroppedBy(h, k, P, {b}, n)
      BY <1>1, <2>2, <2>3, MakeRoomIs
    <2>5. /\ Good(k, P) /\ Kept(k, {b}) /\ Used(k.chunk) = Used(h.chunk)
          /\ b \in DOMAIN k.heap /\ k.heap[b] = h.heap[b]
      BY <2>4 DEF DroppedBy
    <2>6. HeapsFine(k) /\ IsHeap(k)
      BY <2>5 DEF Good, Settled, Core
    <2>7. /\ Unlisted(k, g) /\ g.retained = Append(k.retained, b) /\ g.retainedsz = k.retainedsz + z
      BY <2>1, <2>6 DEF IsHeap, Unlisted, SameBins
    <2>8. Good(g, P)
      BY <2>5, <2>7, UnlistedCore DEF Good
    <2> DEFINE R == Listing(k.retained)
               t == g.retained
    <2>9. /\ k.retained \in Seq(Nat)
          /\ \A i, j \in DOMAIN k.retained : k.retained[i] = k.retained[j] => i = j
          /\ R = FreeHeaps(k) \ {b} /\ k.retainedsz = Cardinality(Sizing(k, R))
      BY <2>5 DEF Kept, Listing, FreeHeaps, Sizing
    <2>10. b \in FreeHeaps(k) /\ b \notin R
      BY <2>5, <2>9 DEF FreeHeaps, Whole
    <2> HIDE DEF R
    <2>11. /\ t \in Seq(Nat) /\ \A i, j \in DOMAIN t : t[i] = t[j] => i = j
           /\ Listing(t) = R \cup {b} /\ Len(t) = Len(k.retained) + 1 /\ Len(k.retained) \in Nat
      <3>1. t = Append(k.retained, b) /\ b \notin Listing(k.retained)
        BY <2>7, <2>10 DEF R
      <3> HIDE DEF t
      <3> QED BY <1>1, <2>9, <3>1, AppendedIs DEF R
    <2>12. g.retainedsz = Cardinality(Sizing(k, R \cup {b}))
      <3> DEFINE A == R \cup {b}
      <3>1. A \in SUBSET DOMAIN k.heap /\ b \in A /\ A \ {b} = R
        BY <2>5, <2>9, <2>10 DEF FreeHeaps
      <3> HIDE DEF A
      <3>2. Cardinality(Sizing(k, A \ {b})) = Cardinality(Sizing(k, A)) - k.heap[b].size
        BY <2>6, <3>1, ExtentsLess
      <3>3. Cardinality(Sizing(k, A)) \in Nat
        BY <2>6, <3>1, ExtentsFinite
      <3>4. Cardinality(Sizing(k, R)) = Cardinality(Sizing(k, A)) - z
        BY <2>3, <2>5, <3>1, <3>2
      <3> DEFINE w == Cardinality(Sizing(k, A))
                 v == Cardinality(Sizing(k, R))
      <3>5. v = w - z /\ w \in Nat /\ k.retainedsz = v /\ g.retainedsz = k.retainedsz + z
        BY <2>7, <2>9, <3>3, <3>4
      <3> HIDE DEF v, w
      <3>6. g.retainedsz = w
        BY <1>1, <2>3, <3>5
      <3> QED BY <3>6 DEF A, w
    <2>13. Listing(t) = FreeHeaps(g) \ {}
      <3>1. FreeHeaps(g) = FreeHeaps(k)
        BY <2>7 DEF Unlisted, FreeHeaps, Whole
      <3> QED BY <2>9, <2>10, <2>11, <3>1
    <2>14. g.retainedsz = Cardinality(Sizing(g, Listing(t)))
      <3>1. Sizing(g, Listing(t)) = Sizing(k, R \cup {b})
        BY <2>7, <2>11 DEF Unlisted, Sizing
      <3> QED BY <2>12, <3>1
    <2>15. Len(t) <= RetainMax /\ g.retainedsz <= RetainUnits
      BY <2>4, <2>7, <2>11, HeapAssumption DEF RoomFor
    <2>16. Kept(g, {})
      <3>1. /\ {t[i] : i \in DOMAIN t} = {x \in DOMAIN g.heap : g.heap[x].freesz = Whole(g, x)} \ {}
            /\ g.retainedsz = Cardinality(UNION {Extent(x, g.heap[x].size) : x \in {t[i] : i \in DOMAIN t}})
        BY <2>13, <2>14, Zenon DEF Listing, FreeHeaps, Sizing
      <3> QED BY <2>11, <2>15, <3>1, Zenon DEF Kept
    <2>17. Used(g.chunk) = Used(h.chunk)
      BY <2>5, <2>7 DEF Unlisted
    <2> QED BY <2>8, <2>16, <2>17 DEF Kempt
  <1> QED BY <1>2, <1>3

LEMMA KeepIfFreeIs ==
    ASSUME NEW h, NEW P \in SUBSET Nat, Good(h, P), NEW b \in DOMAIN h.heap, Kept(h, {b}),
           NEW g, g = KeepIfFree(h, b)
    PROVE  Kempt(h, g, P)
  <1>1. CASE h.heap[b].freesz = Whole(h, b)
    <2> DEFINE K == h.chunk
               Z == Sizes(h)
    <2>1. Core(h, P) /\ NotBoth(K, {}) /\ Count(h)
      BY DEF Good, Settled
    <2>2. Grid(Z, K) /\ Apart(Z) /\ b \in DOMAIN Z /\ Z[b] = h.heap[b].size
      BY <2>1, CoreIs
    <2>3. Cardinality(FreeUnits(K, b)) = Z[b] - Header
      BY <1>1, <2>1, <2>2 DEF Count, Whole
    <2> HIDE DEF K, Z
    <2>4. Sole(Z, K, b)
      BY <2>1, <2>2, <2>3, AllFree
    <2>5. Size(h, b + Header) = Whole(h, b)
      BY <2>2, <2>4 DEF Sole, Size, Whole, K
    <2>6. g = HeapRetain(h, b)
      BY <1>1, <2>5 DEF KeepIfFree
    <2> QED BY <1>1, <2>6, HeapRetainIs
  <1>2. CASE h.heap[b].freesz # Whole(h, b)
    <2>1. g = h
      BY <1>2 DEF KeepIfFree
    <2>2. FreeHeaps(h) \ {} = FreeHeaps(h) \ {b}
      BY <1>2 DEF FreeHeaps
    <2>3. Sizing(h, Listing(h.retained)) = Sizing(h, Listing(h.retained))
      OBVIOUS
    <2>4. Kept(h, {})
      BY <2>2, <2>3, KeptSame
    <2> QED BY <2>1, <2>4 DEF Kempt
  <1> QED BY <1>1, <1>2

-----------------------------------------------------------------------------
(* A chunk is freed                                                        *)

\* Only the total of heap b differs
Beside(h, g, b) ==
    /\ g.retained = h.retained /\ g.retainedsz = h.retainedsz /\ DOMAIN g.heap = DOMAIN h.heap
    /\ \A x \in DOMAIN h.heap : /\ g.heap[x].size = h.heap[x].size
                                /\ x # b => g.heap[x] = h.heap[x]

LEMMA KeptBeside ==
    ASSUME NEW h, Kept(h, {}), NEW b, b \notin FreeHeaps(h), NEW g, Beside(h, g, b)
    PROVE  Kept(g, {b})
  <1>1. FreeHeaps(g) \ {b} = FreeHeaps(h) \ {}
    BY DEF Beside, FreeHeaps, Whole
  <1>2. Sizing(g, Listing(h.retained)) = Sizing(h, Listing(h.retained))
    <2>1. Listing(h.retained) \subseteq DOMAIN h.heap
      BY DEF Kept, Listing
    <2>2. \A x \in Listing(h.retained) : g.heap[x].size = h.heap[x].size
      BY <2>1 DEF Beside
    <2> QED BY <2>2 DEF Sizing
  <1>3. g.retained = h.retained /\ g.retainedsz = h.retainedsz
    BY DEF Beside
  <1> QED BY <1>1, <1>2, <1>3, KeptSame

LEMMA KeptStill ==
    ASSUME NEW g, NEW b, Kept(g, {b}), b \notin FreeHeaps(g)
    PROVE  Kept(g, {})
  <1>1. FreeHeaps(g) \ {} = FreeHeaps(g) \ {b}
    OBVIOUS
  <1>2. Sizing(g, Listing(g.retained)) = Sizing(g, Listing(g.retained))
    OBVIOUS
  <1> QED BY <1>1, <1>2, KeptSame

LEMMA NotAllFree ==
    ASSUME NEW h, NEW P, Good(h, P), NEW c, IsUsed(h.chunk, c)
    PROVE  h.chunk[c].heap \in DOMAIN h.heap /\ h.chunk[c].heap \notin FreeHeaps(h)
  <1> DEFINE K == h.chunk
             Z == Sizes(h)
             b == K[c].heap
  <1>1. Core(h, P) /\ NotBoth(K, {}) /\ Count(h) /\ c \in DOMAIN K
    BY DEF Good, Settled, IsUsed
  <1>2. Grid(Z, K) /\ Apart(Z) /\ b \in DOMAIN Z /\ DOMAIN Z = DOMAIN h.heap /\ Z[b] = h.heap[b].size
    BY <1>1, CoreIs
  <1>3. ASSUME b \in FreeHeaps(h) PROVE FALSE
    <2>1. Cardinality(FreeUnits(K, b)) = Z[b] - Header
      BY <1>1, <1>2, <1>3 DEF Count, FreeHeaps, Whole
    <2> HIDE DEF Z
    <2>2. Sole(Z, K, b)
      BY <1>1, <1>2, <2>1, AllFree
    <2>3. c = b + Header
      BY <1>1, <2>2 DEF Sole
    <2> QED BY <2>2, <2>3 DEF Sole, IsUsed
  <1> QED BY <1>2, <1>3

\* c became free, and is in no bin yet
Freed(h, g, P, c) ==
    /\ Core(g, P) /\ AtLeast(g.chunk, {}) /\ Flags(Sizes(g), g.chunk, {})
    /\ NotBoth(g.chunk, {c}) /\ Feet(g.chunk, g.foot, {})
    /\ Binning(g, FreeChunks(g.chunk) \ {c}) /\ Count(g) /\ IsFree(g.chunk, c)
    /\ Used(g.chunk) = Dropped(Used(h.chunk), c) /\ Beside(h, g, h.chunk[c].heap)
    /\ g.chunk[c].heap = h.chunk[c].heap /\ g.chunk[c].size = h.chunk[c].size

LEMMA FreedIs ==
    ASSUME NEW h, NEW P \in SUBSET Nat, Good(h, P), NEW c, IsUsed(h.chunk, c),
           P \cap Area(c, h.chunk[c].size) = {}, NEW g, g = FreedChunk(h, c)
    PROVE  Freed(h, g, P, c)
  <1> DEFINE K == h.chunk
             Z == Sizes(h)
             s == K[c].size
             b == K[c].heap
             v == h.heap[b].freesz + s
             F == Updated(h.foot, c + s - 1, s)
  <1>1. /\ Core(h, P) /\ Flags(Z, K, {}) /\ NotBoth(K, {}) /\ Feet(K, h.foot, {})
        /\ AtLeast(K, {}) /\ Binning(h, FreeChunks(K)) /\ Count(h)
    BY DEF Good, Settled
  <1>2. IsHeap(h) /\ HeapsFine(h) /\ Grid(Z, K) /\ Apart(Z) /\ c \in DOMAIN K /\ AreChunks(K) /\ InOrder(K)
    BY <1>1, CoreIs DEF Core, IsUsed
  <1>3. /\ c \in Nat /\ s \in Nat /\ s >= 2 /\ b \in DOMAIN h.heap
        /\ h.heap[b].freesz \in Int /\ h.heap[b].size \in Nat /\ DOMAIN Z = DOMAIN h.heap
        /\ \A e \in DOMAIN K : K[e].size > 0
    BY <1>1, <1>2, CoreIs
  <1>4. PICK u \in BOOLEAN :
            ~ u /\ g = Credit(TellNext(SetFooter(SetUsed(h, c, u), c), c, u), c, s)
    BY DEF FreedChunk, Size
  <1> DEFINE h1 == SetUsed(h, c, u)
             h2 == SetFooter(h1, c)
             h3 == TellNext(h2, c, u)
             M == Give(K, c)
  <1>5. h1 = SetUsed(h, c, u) /\ h2 = SetFooter(h1, c) /\ h3 = TellNext(h2, c, u)
    OBVIOUS
  <1>6. g = Credit(h3, c, s)
    BY <1>4
  <1>7. M = Give(K, c) /\ M = Mark(K, c, u)
    BY <1>4 DEF Give
  <1>8. v = h.heap[b].freesz + s /\ v \in Int
    BY <1>3
  <1> HIDE DEF h1, h2, h3, M, v
  <1>9. Given(Z, K, c, M)
    <2> HIDE DEF K, Z
    <2>1. IsUsed(K, c)
      BY DEF K
    <2> QED BY <1>2, <1>7, <2>1, GiveIs
  <1>10. /\ Frame(h, h1) /\ SameBins(h, h1) /\ h1.heap = h.heap /\ h1.foot = h.foot
         /\ h1.chunk = WithUsed(K, c, u) /\ h1.wrote = h.wrote \cup {c}
    BY <1>2, <1>5, SetUsedIs
  <1>11. IsHeap(h1) /\ h1.chunk[c].size = s
    BY <1>2, <1>3, <1>10, ChunkIs DEF Frame, WithUsed, Hdr
  <1>12. /\ Frame(h1, h2) /\ SameBins(h1, h2) /\ h2.heap = h1.heap /\ h2.chunk = h1.chunk
         /\ h2.foot = F /\ h2.wrote = h1.wrote \cup {c + s - 1}
    <2>1. /\ Frame(h1, h2) /\ SameBins(h1, h2) /\ h2.heap = h1.heap /\ h2.chunk = h1.chunk
          /\ h2.foot = Updated(h1.foot, c + h1.chunk[c].size - 1, h1.chunk[c].size)
          /\ h2.wrote = h1.wrote \cup {c + h1.chunk[c].size - 1}
      BY <1>5, <1>11, SetFooterIs
    <2> QED BY <1>10, <1>11, <2>1
  <1>13. Frame(h, h2) /\ h2.heap = h.heap
    BY <1>10, <1>12, FrameTrans
  <1>14. IsHeap(h2) /\ HeapsFine(h2) /\ Sizes(h2) = Z
    BY <1>2, <1>13, FrameFine DEF Frame
  <1>15. /\ Frame(h2, h3) /\ SameBins(h2, h3) /\ h3.heap = h2.heap /\ h3.foot = h2.foot
         /\ h3.chunk = Mark(K, c, u)
         /\ h3.wrote \subseteq h2.wrote \cup DOMAIN K
    <2> DEFINE n == c + K[c].size
    <2>1. n \in DOMAIN K => K[n].size >= MinSize
      BY <1>1, <1>3 DEF AtLeast
    <2>2. h2.chunk = WithUsed(K, c, u)
      BY <1>10, <1>12
    <2>3. n = c + K[c].size
      OBVIOUS
    <2> HIDE DEF n, K, Z
    <2>4. IsHeap(h2) /\ HeapsFine(h2) /\ Grid(Sizes(h2), K) /\ c \in DOMAIN K
      BY <1>2, <1>14
    <2>5. Told(h2, h3, K, c, u)
      BY <1>5, <2>1, <2>2, <2>3, <2>4, TellIs
    <2> QED BY <2>5 DEF Told
  <1>16. IsHeap(h3) /\ h3.chunk = M /\ h3.heap = h.heap
    BY <1>7, <1>13, <1>15 DEF Frame
  <1>17. M[c].heap = b /\ M[c].size = s
    BY <1>2, <1>9 DEF Given
  <1>18. g = FreeszSet(h3, b, v)
    BY <1>6, <1>8, <1>16, <1>17 DEF Credit, HeapOf, FreeszSet
  <1>19. Counted(h3, g, b, v)
    BY <1>16, <1>18, FreeszIs
  <1>20. /\ Frame(h3, g) /\ SameBins(h3, g) /\ g.chunk = M /\ g.foot = F /\ g.wrote = h3.wrote
         /\ g.heap = WithFreesz(h.heap, b, v)
    BY <1>12, <1>15, <1>16, <1>19 DEF Counted
  <1>21. Frame(h, g) /\ SameBins(h, g) /\ IsHeap(g)
    <2>1. Frame(h, h3)
      BY <1>13, <1>15, FrameTrans
    <2>2. Frame(h, g)
      BY <1>20, <2>1, FrameTrans
    <2> QED BY <1>10, <1>12, <1>15, <1>20, <2>2 DEF SameBins, Frame
  <1>22. Refined(h, g, b, v)
    BY <1>2, <1>3, <1>8, <1>20, <1>21, FreeszFine
  <1>23. HeapsFine(g) /\ Sizes(g) = Z
    BY <1>22 DEF Refined
  <1>24. Beside(h, g, b)
    BY <1>21, <1>22 DEF Beside, Refined, Frame
  <1>25. /\ Grid(Z, M) /\ DOMAIN M = DOMAIN K /\ ~ M[c].cused
         /\ \A e \in DOMAIN K : M[e].size = K[e].size
         /\ \A e \in DOMAIN K : e # c => M[e].cused = K[e].cused
         /\ FreeChunks(M) = FreeChunks(K) \cup {c} /\ Used(M) = Dropped(Used(K), c)
         /\ AtLeast(M, {})
    BY <1>1, <1>9 DEF Given
  <1> HIDE DEF K, Z
  <1>26. Flags(Z, M, {}) /\ NotBoth(M, {c})
    <2>1. {} \ {c} = {} /\ {} \cup {c} = {c}
      OBVIOUS
    <2>2. Flags(Z, M, {} \ {c}) /\ NotBoth(M, {} \cup {c})
      BY <1>1, <1>9 DEF Given
    <2> QED BY <2>1, <2>2
  <1>27. Feet(M, F, {})
    <2>1. {c} \ {c} = {} /\ {} \cup {c} = {c}
      OBVIOUS
    <2>2. Feet(M, h.foot, {} \cup {c})
      BY <1>1, <1>9 DEF Given
    <2>3. Feet(M, h.foot, {c})
      BY <2>1, <2>2
    <2>4. AreChunks(M) /\ InOrder(M) /\ (\A e \in DOMAIN M : M[e].size > 0) /\ c \in DOMAIN M
      BY <1>2, <1>3, <1>25 DEF Grid
    <2>5. Feet(M, Updated(h.foot, c + M[c].size - 1, M[c].size), {c} \ {c})
      BY <2>3, <2>4, FootSet
    <2> QED BY <1>17, <2>1, <2>5
  <1>28. Core(g, P)
    <2>1. Clear(K, P) /\ h.wrote \cap P = {}
      BY <1>1 DEF Core, K
    <2>2. P \cap Area(c, K[c].size) = {}
      BY DEF K
    <2>3. Clear(M, P)
      BY <1>9, <2>1, <2>2 DEF Given
    <2>4. g.wrote \subseteq h.wrote \cup DOMAIN K \cup {c + s - 1}
      BY <1>2, <1>10, <1>12, <1>15, <1>20
    <2>5. c + s - 1 \notin P
      <3>1. c + s - 1 \in Area(c, K[c].size)
        BY <1>3 DEF Area
      <3> QED BY <2>2, <3>1
    <2>6. g.wrote \cap P = {}
      BY <2>1, <2>4, <2>5 DEF Clear
    <2>7. Grid(Sizes(g), g.chunk) /\ Clear(g.chunk, P)
      BY <1>20, <1>23, <1>25, <2>3
    <2> QED BY <1>21, <1>23, <2>6, <2>7 DEF Core
  <1>29. Count(g)
    <2>1. \A x : Area(c, s) \cap FreeUnits(K, x) = {}
      BY <1>2, AreaFree DEF K
    <2>2. Gained(h.chunk, g.chunk, b, c, s)
      BY <1>9, <1>20, <2>1 DEF K, Gained, Given
    <2>3. HeapsFine(h) /\ Grid(Sizes(h), h.chunk)
      BY <1>2 DEF K, Z
    <2> HIDE DEF s, b
    <2> QED BY <1>1, <1>3, <1>8, <1>20, <2>2, <2>3, CountMore
  <1>30. Binning(g, FreeChunks(M) \ {c})
    <2>1. c \notin FreeChunks(K)
      BY DEF IsUsed, K, FreeChunks
    <2>2. FreeChunks(M) \ {c} = FreeChunks(K)
      BY <1>25, <2>1
    <2>3. \A e \in FreeChunks(K) : e \in DOMAIN g.chunk /\ ~ g.chunk[e].cused
                                   /\ g.chunk[e].size = h.chunk[e].size
      BY <1>20, <1>25, <2>1 DEF FreeChunks, K
    <2>4. Binning(g, FreeChunks(K))
      BY <1>1, <1>21, <2>3, BinFrame
    <2> QED BY <2>2, <2>4
  <1>31. IsFree(M, c)
    BY <1>2, <1>25 DEF IsFree
  <1> QED BY <1>17, <1>20, <1>23, <1>24, <1>25, <1>26, <1>27, <1>28, <1>29, <1>30, <1>31 DEF Freed, K

JoinDone(h, g, P, c, X, Y) ==
    /\ Settled(g, P, X) /\ Count(g) /\ Kept(g, Y) /\ g.heap = h.heap
    /\ Used(g.chunk) = Used(h.chunk)
    /\ X = {c} => IsFree(g.chunk, c)

LEMMA JoinIs ==
    ASSUME NEW h, NEW P \in SUBSET Nat, NEW c, NEW X, JoinInv(h, P, c, X), X \subseteq {c},
           X = {} \/ h.chunk[c].pused, Count(h), NEW Y, Kept(h, Y), NEW g, g = Join(h, c)
    PROVE  JoinDone(h, g, P, c, X, Y)
  <1>1. /\ Settled(g, P, X) /\ Alike(h, g)
        /\ X = {c} => IsFree(g.chunk, c)
    BY JoinKeeps
  <1>2. Count(g) /\ Kept(g, Y) /\ g.heap = h.heap /\ Used(g.chunk) = Used(h.chunk)
    <2>1. /\ g.heap = h.heap /\ g.retained = h.retained /\ g.retainedsz = h.retainedsz
          /\ Used(g.chunk) = Used(h.chunk)
          /\ \A b : FreeUnits(g.chunk, b) = FreeUnits(h.chunk, b)
      BY <1>1 DEF Alike, Frame
    <2>2. Count(g)
      BY <2>1 DEF Count
    <2>3. Kept(g, Y)
      BY <2>1 DEF Kept, Whole
    <2> QED BY <2>1, <2>2, <2>3
  <1> QED BY <1>1, <1>2 DEF JoinDone

\* A chunk no longer in use, the free ones around it joined to it
FreeDone(h, g, P, c) == Good(g, P) /\ Kept(g, {}) /\ Used(g.chunk) = Dropped(Used(h.chunk), c)

\* c is the only chunk that is free and in no bin, and may have a free neighbour
Loose(h, P, c) ==
    /\ Core(h, P) /\ AtLeast(h.chunk, {}) /\ Flags(Sizes(h), h.chunk, {})
    /\ NotBoth(h.chunk, {c}) /\ Feet(h.chunk, h.foot, {})
    /\ Binning(h, FreeChunks(h.chunk) \ {c}) /\ Count(h) /\ IsFree(h.chunk, c)
Bound(h, g, P, Y) ==
    Good(g, P) /\ Kept(g, Y) /\ g.heap = h.heap /\ Used(g.chunk) = Used(h.chunk)

LEMMA PutJoined ==
    ASSUME NEW h, NEW P \in SUBSET Nat, NEW c, Loose(h, P, c), NEW Y, Kept(h, Y),
           NEW g, g = Join(PutChunk(h, c), c)
    PROVE  Bound(h, g, P, Y)
  <1> DEFINE p == PutChunk(h, c)
             S == FreeChunks(h.chunk) \ {c}
  <1>0. /\ Core(h, P) /\ AtLeast(h.chunk, {}) /\ Flags(Sizes(h), h.chunk, {})
        /\ NotBoth(h.chunk, {c}) /\ Feet(h.chunk, h.foot, {})
        /\ Binning(h, S) /\ Count(h) /\ IsFree(h.chunk, c)
    BY DEF Loose
  <1>1. p = PutChunk(h, c) /\ g = Join(p, c)
    OBVIOUS
  <1>2. c \notin S /\ S \cup {c} = FreeChunks(h.chunk)
    BY <1>0 DEF FreeChunks, IsFree
  <1>3. h.chunk[c].size >= MinSize
    BY <1>0 DEF IsFree, AtLeast
  <1> HIDE DEF p, S
  <1>5. /\ Frame(h, p) /\ p.heap = h.heap /\ p.foot = h.foot /\ p.chunk = h.chunk
        /\ Core(p, P) /\ Binning(p, S \cup {c})
    <2>1. PutKept(h, p, P, S, c)
      BY <1>0, <1>1, <1>2, <1>3, PutIn
    <2> QED BY <2>1 DEF PutKept
  <1>6. Sizes(p) = Sizes(h)
    BY <1>5 DEF Sizes
  <1>7. Feet(p.chunk, p.foot, {c})
    BY <1>0, <1>5 DEF Feet
  <1>8. JoinInv(p, P, c, {})
    BY <1>0, <1>2, <1>5, <1>6, <1>7 DEF JoinInv
  <1>9. Count(p) /\ Kept(p, Y)
    BY <1>0, <1>5 DEF Count, Kept, Whole, Frame
  <1>10. JoinDone(p, g, P, c, {}, Y)
    BY <1>1, <1>8, <1>9, JoinIs
  <1> QED BY <1>5, <1>10 DEF JoinDone, Good, Bound

LEMMA FreeChunkIs ==
    ASSUME NEW h, NEW P \in SUBSET Nat, Good(h, P), Kept(h, {}), NEW c, IsUsed(h.chunk, c),
           P \cap Area(c, h.chunk[c].size) = {}, NEW g, g = FreeChunk(h, c)
    PROVE  FreeDone(h, g, P, c)
  <1> DEFINE b == h.chunk[c].heap
             f == FreedChunk(h, c)
             j == Join(PutChunk(f, c), c)
  <1>1. f = FreedChunk(h, c) /\ j = Join(PutChunk(f, c), c) /\ g = KeepIfFree(j, b)
    BY DEF FreeChunk, HeapOf
  <1>2. b \in DOMAIN h.heap /\ b \notin FreeHeaps(h)
    BY NotAllFree
  <1> HIDE DEF f, j
  <1>3. Freed(h, f, P, c)
    BY <1>1, FreedIs
  <1>4. Kept(f, {b})
    BY <1>2, <1>3, KeptBeside DEF Freed
  <1>5. /\ Core(f, P) /\ AtLeast(f.chunk, {}) /\ Flags(Sizes(f), f.chunk, {})
        /\ NotBoth(f.chunk, {c}) /\ Feet(f.chunk, f.foot, {})
        /\ Binning(f, FreeChunks(f.chunk) \ {c}) /\ Count(f) /\ IsFree(f.chunk, c)
        /\ Used(f.chunk) = Dropped(Used(h.chunk), c) /\ b \in DOMAIN f.heap
    BY <1>2, <1>3 DEF Freed, Beside
  <1>6. /\ Good(j, P) /\ Kept(j, {b}) /\ j.heap = f.heap /\ Used(j.chunk) = Used(f.chunk)
    <2> DEFINE Y == {b}
    <2>1. Loose(f, P, c) /\ Kept(f, Y)
      BY <1>4, <1>5 DEF Loose
    <2> HIDE DEF Y
    <2>2. Bound(f, j, P, Y)
      BY <1>1, <2>1, PutJoined
    <2> QED BY <2>2 DEF Bound, Y
  <1>7. b \in DOMAIN j.heap
    BY <1>5, <1>6
  <1>8. Kempt(j, g, P)
    BY <1>1, <1>6, <1>7, KeepIfFreeIs
  <1> QED BY <1>5, <1>6, <1>8 DEF Kempt, FreeDone

LEMMA FreeBlockIs ==
    ASSUME NEW h, NEW P \in SUBSET Nat, Good(h, P), Kept(h, {}), NEW c, IsUsed(h.chunk, c),
           P \cap Area(c, h.chunk[c].size) = {}, NEW g, g = FreeBlock(h, c)
    PROVE  FreeDone(h, g, P, c)
  <1>1. Core(h, P) /\ c \in DOMAIN h.chunk /\ h.chunk[c].size >= MinSize
    BY DEF Good, Settled, AtLeast, IsUsed
  <1>2. ChunkValid(h, c, HeapOf(h, c))
    BY <1>1, ValidIs DEF HeapOf
  <1>3. g = FreeChunk(h, c)
    BY <1>2 DEF FreeBlock
  <1> QED BY <1>3, FreeChunkIs

LEMMA SameHeap ==
    ASSUME NEW h, NEW g, NEW P, NEW Q, Core(h, P), Core(g, Q), Sizes(g) = Sizes(h),
           NEW c, c \in DOMAIN h.chunk, c \in DOMAIN g.chunk
    PROVE  g.chunk[c].heap = h.chunk[c].heap
  <1> DEFINE Z == Sizes(h)
             b == h.chunk[c].heap
             d == g.chunk[c].heap
  <1>1. /\ Apart(Z) /\ b \in DOMAIN Z /\ b + 2 <= c /\ c + h.chunk[c].size <= b + Z[b]
        /\ h.chunk[c].size \in Nat /\ h.chunk[c].size >= 2 /\ c \in Nat /\ b \in Nat /\ Z[b] \in Nat
    BY CoreIs
  <1>2. /\ d \in DOMAIN Z /\ d + 2 <= c /\ c + g.chunk[c].size <= d + Z[d]
        /\ g.chunk[c].size \in Nat /\ g.chunk[c].size >= 2 /\ d \in Nat /\ Z[d] \in Nat
    BY CoreIs
  <1> HIDE DEF Z, b, d
  <1>3. b = d
    BY <1>1, <1>2 DEF Apart
  <1> QED BY <1>3 DEF b, d

-----------------------------------------------------------------------------
(* A chunk in use is made shorter                                          *)

\* n is cut from the end of c: free and in its bin, but not joined yet
Tailed(h, g, P, c, k, n) ==
    /\ JoinInv(g, P, n, {n}) /\ g.chunk[n].pused /\ Count(g) /\ Beside(h, g, h.chunk[c].heap)
    /\ Used(g.chunk) = Updated(Used(h.chunk), c, k)

\* The header of c, and n, written
Parted(h, g, P, c, k, n) ==
    /\ Core(g, P) /\ Frame(h, g) /\ SameBins(h, g) /\ g.heap = h.heap
    /\ g.chunk = Divide(h.chunk, c, k)
    /\ g.foot = Updated(h.foot, n + (h.chunk[c].size - k) - 1, h.chunk[c].size - k)
    /\ UsedDivided(Sizes(h), h.chunk, c, k, n, g.chunk)
    /\ Binning(g, FreeChunks(h.chunk)) /\ Sizes(g) = Sizes(h)

LEMMA PartedIs ==
    ASSUME NEW h, NEW P \in SUBSET Nat, Good(h, P), NEW c, IsUsed(h.chunk, c), NEW k, NEW n,
           CutAt(h.chunk, c, k, n), NEW s, s = h.chunk[c].size - k, P \cap Area(n, s) = {},
           NEW b, b = h.chunk[c].heap,
           NEW f, f = Begin(h, n, b, s), NEW x, x = [h.chunk[c] EXCEPT !.size = k],
           NEW g, g = SetHeader(f, c, x)
    PROVE  Parted(h, g, P, c, k, n)
  <1> DEFINE K == h.chunk
             D == Divide(K, c, k)
  <1>1. Core(h, P) /\ Binning(h, FreeChunks(K)) /\ c \in DOMAIN K
    BY DEF Good, Settled, IsUsed
  <1>2. /\ IsHeap(h) /\ AreChunks(K) /\ InOrder(K) /\ Grid(Sizes(h), K) /\ Apart(Sizes(h))
        /\ c \in Nat /\ K[c].size \in Nat /\ K[c].cused \in BOOLEAN /\ K[c].pused \in BOOLEAN
    BY <1>1, CoreIs
  <1>3. s \in Nat /\ s >= 5 /\ k \in Nat /\ k >= 2 /\ n = c + k /\ n + s = c + K[c].size /\ n \in Nat
    BY <1>2 DEF MinSize, Overhead, CutAt
  <1>4. /\ Frame(h, f) /\ SameBins(h, f) /\ f.heap = h.heap
        /\ f.chunk = Updated(K, n, Fresh(s, b))
        /\ f.foot = Updated(h.foot, n + s - 1, s)
        /\ f.wrote = h.wrote \cup {n, n + 1, n + 2, n + 3, n + s - 1}
    BY <1>2, InitFresh
  <1>5. IsHeap(f)
    BY <1>4 DEF Frame
  <1>6. /\ Frame(f, g) /\ SameBins(f, g) /\ g.heap = f.heap /\ g.foot = f.foot
        /\ g.chunk = Updated(f.chunk, c, x)
        /\ g.wrote = f.wrote \cup {c, c + 1}
    BY <1>5, SetHeaderIs
  <1>7. g.chunk = D
    <2> DEFINE X == Hdr(k, b, K[c].cused, K[c].pused)
               Y == Hdr(s, b, FALSE, K[c].cused)
    <2>1. K[c].cused = TRUE
      BY <1>2 DEF IsUsed
    <2>2. X = x
      BY <1>1, <1>2, ChunkIs DEF Hdr, Chunk
    <2>3. Y = Fresh(s, b)
      BY <2>1 DEF Fresh
    <2>4. D = [d \in DOMAIN K \cup {n} |-> IF d = c THEN X ELSE IF d = n THEN Y ELSE K[d]]
      BY <1>3, Zenon DEF Divide
    <2>5. g.chunk = Updated(Updated(K, n, Y), c, X)
      BY <1>4, <1>6, <2>2, <2>3
    <2> HIDE DEF X, Y
    <2>6. Updated(Updated(K, n, Y), c, X)
             = [d \in DOMAIN K \cup {n} |-> IF d = c THEN X ELSE IF d = n THEN Y ELSE K[d]]
      BY <1>1 DEF Updated
    <2> QED BY <2>4, <2>5, <2>6
  <1>8. D = Divide(K, c, k)
    OBVIOUS
  <1> HIDE DEF D
  <1>9. UsedDivided(Sizes(h), K, c, k, n, D)
    <2>1. IsUsed(K, c) /\ CutAt(K, c, k, n)
      OBVIOUS
    <2> HIDE DEF K
    <2> QED BY <1>2, <1>8, <2>1, DivideUsed
  <1> HIDE DEF K
  <1>10. Grid(Sizes(h), D) /\ Clear(D, P)
    <2>1. Clear(K, P) /\ P \cap Area(n, K[c].size - k) = {}
      BY <1>1 DEF Core, K
    <2> QED BY <1>9, <2>1 DEF UsedDivided
  <1>11. g.wrote \cap P = {}
    <2>1. {n, n + 1, n + 2, n + 3, n + s - 1} \subseteq Area(n, s)
      BY <1>3 DEF Area
    <2>2. c \notin P /\ c + 1 \notin P /\ h.wrote \cap P = {}
      BY <1>1, HeaderIsClear DEF Core, K
    <2> QED BY <1>4, <1>6, <2>1, <2>2
  <1>12. Frame(h, g) /\ SameBins(h, g) /\ g.heap = h.heap
    BY <1>4, <1>6, FrameTrans DEF SameBins
  <1>13. Core(g, P) /\ Sizes(g) = Sizes(h)
    BY <1>1, <1>7, <1>10, <1>11, <1>12, CoreStep
  <1>14. Binning(g, FreeChunks(K))
    <2>1. \A e \in FreeChunks(K) : e \in DOMAIN g.chunk /\ ~ g.chunk[e].cused
                                   /\ g.chunk[e].size = h.chunk[e].size
      <3>1. \A e \in FreeChunks(K) : e \in DOMAIN K /\ ~ K[e].cused /\ e # c
        BY DEF FreeChunks, IsUsed, K
      <3>2. FreeChunks(D) = FreeChunks(K) \cup {n} /\ \A e \in DOMAIN K : e # c => D[e] = K[e]
        BY <1>9 DEF UsedDivided
      <3> QED BY <1>7, <3>1, <3>2 DEF FreeChunks, K
    <2> QED BY <1>1, <1>12, <2>1, BinFrame
  <1> QED BY <1>4, <1>6, <1>7, <1>8, <1>9, <1>12, <1>13, <1>14 DEF Parted, K

\* The order of the writes makes no difference to what n and its bin are in the end
LEMMA PutBefore ==
    ASSUME NEW f, IsHeap(f), NEW b, NEW v, NEW c, NEW n \in DOMAIN f.chunk,
           c # n, NEW x,
           NEW g, g = SetHeader(f, c, x), NEW w, w = PutChunk(g, n),
           NEW e, e = SetHeader(FreeszSet(PutChunk(f, n), b, v), c, x)
    PROVE  Counted(w, e, b, v)
  <1> DEFINE p == PutChunk(f, n)
             q == FreeszSet(p, b, v)
  <1>1. p = PutChunk(f, n) /\ q = FreeszSet(p, b, v) /\ e = SetHeader(q, c, x)
    OBVIOUS
  <1> HIDE DEF p, q
  <1>2. IsHeap(f)
    OBVIOUS
  <1>3. /\ Frame(f, p) /\ p.heap = f.heap /\ p.foot = f.foot /\ p.chunk = f.chunk
        /\ p.wrote = f.wrote \cup BinLinks(Bins(f, BinOf(f, n)) \cup {n}) \cup Node(f, n)
    BY <1>1, <1>2, PutChunkIs
  <1>4. /\ p.bins = Updated(f.bins, BinOf(f, n), Bins(f, BinOf(f, n)) \cup {n})
        /\ p.binmap = f.binmap \cup {BinOf(f, n)}
    BY <1>1, <1>2, PutChunkBins
  <1>5. p.freesz = f.freesz + f.chunk[n].size - Overhead
    BY <1>1, <1>2, PutChunkTotal
  <1>6. Counted(p, q, b, v)
    BY <1>1, <1>3, FreeszIs DEF Frame
  <1>7. IsHeap(q)
    BY <1>6 DEF Counted, Frame
  <1>8. /\ Frame(q, e) /\ SameBins(q, e) /\ e.heap = q.heap /\ e.foot = q.foot
        /\ e.chunk = Updated(q.chunk, c, x) /\ e.wrote = q.wrote \cup {c, c + 1}
    BY <1>1, <1>7, SetHeaderIs
  <1>9. /\ Frame(f, g) /\ SameBins(f, g) /\ g.heap = f.heap /\ g.foot = f.foot
        /\ g.chunk = Updated(f.chunk, c, x) /\ g.wrote = f.wrote \cup {c, c + 1}
    BY <1>2, SetHeaderIs
  <1>10. IsHeap(g)
    BY <1>9 DEF Frame
  <1>11. /\ Frame(g, w) /\ w.heap = g.heap /\ w.foot = g.foot /\ w.chunk = g.chunk
         /\ w.wrote = g.wrote \cup BinLinks(Bins(g, BinOf(g, n)) \cup {n}) \cup Node(g, n)
    <2>1. PutOf(g, w, n)
      BY <1>10, PutIs
    <2> QED BY <2>1 DEF PutOf
  <1>12. /\ w.bins = Updated(g.bins, BinOf(g, n), Bins(g, BinOf(g, n)) \cup {n})
         /\ w.binmap = g.binmap \cup {BinOf(g, n)}
    BY <1>10, PutChunkBins
  <1>13. w.freesz = g.freesz + g.chunk[n].size - Overhead
    BY <1>10, PutChunkTotal
  <1>14. g.chunk[n] = f.chunk[n]
    BY <1>9 DEF Updated
  <1>15. BinOf(g, n) = BinOf(f, n) /\ Node(g, n) = Node(f, n) /\ \A z : Bins(g, z) = Bins(f, z)
    BY <1>9, <1>14 DEF BinOf, Node, Size, Bins, SameBins
  <1>16. Frame(w, e) /\ e.chunk = w.chunk /\ e.foot = w.foot
    BY <1>3, <1>6, <1>8, <1>9, <1>11 DEF Counted, Frame
  <1>17. SameBins(w, e)
    BY <1>4, <1>5, <1>6, <1>8, <1>9, <1>12, <1>13, <1>14, <1>15 DEF Counted, SameBins
  <1>18. e.wrote = w.wrote
    BY <1>3, <1>6, <1>8, <1>9, <1>11, <1>15 DEF Counted
  <1>19. e.heap = WithFreesz(w.heap, b, v)
    BY <1>3, <1>6, <1>8, <1>9, <1>11 DEF Counted
  <1> QED BY <1>16, <1>17, <1>18, <1>19 DEF Counted

LEMMA TailedIs ==
    ASSUME NEW h, NEW P \in SUBSET Nat, Good(h, P), NEW c, IsUsed(h.chunk, c), NEW k, NEW n,
           CutAt(h.chunk, c, k, n), MinSize <= k, NEW s, s = h.chunk[c].size - k, P \cap Area(n, s) = {},
           NEW g, g = SetHeader(CutTail(h, c, n), c, [h.chunk[c] EXCEPT !.size = k])
    PROVE  Tailed(h, g, P, c, k, n)
  <1> DEFINE K == h.chunk
             Z == Sizes(h)
             b == K[c].heap
             v == h.heap[b].freesz + s
             x == [K[c] EXCEPT !.size = k]
             f == Begin(h, n, b, s)
             d == SetHeader(f, c, x)
             w == PutChunk(d, n)
  <1>1. /\ Core(h, P) /\ Flags(Z, K, {}) /\ NotBoth(K, {}) /\ Feet(K, h.foot, {})
        /\ AtLeast(K, {}) /\ Binning(h, FreeChunks(K)) /\ Count(h)
    BY DEF Good, Settled
  <1>2. IsHeap(h) /\ HeapsFine(h) /\ Grid(Z, K) /\ Apart(Z) /\ c \in DOMAIN K
    BY <1>1, CoreIs DEF Core, IsUsed
  <1>3. /\ c \in Nat /\ K[c].size \in Nat /\ b \in DOMAIN h.heap
        /\ h.heap[b].freesz \in Int /\ h.heap[b].size \in Nat /\ DOMAIN Z = DOMAIN h.heap
    BY <1>1, <1>2, CoreIs
  <1>4. /\ s \in Nat /\ s >= 5 /\ k \in Nat /\ n = c + k /\ n + s = c + K[c].size /\ n \in Nat
        /\ c # n /\ c + K[c].size - n = s
    BY <1>3 DEF MinSize, Overhead, CutAt
  <1>5. v = h.heap[b].freesz + s /\ v \in Int
    BY <1>3, <1>4
  <1>6. f = Begin(h, n, b, s) /\ d = SetHeader(f, c, x) /\ w = PutChunk(d, n) /\ x = [K[c] EXCEPT !.size = k]
    OBVIOUS
  <1>7. CutTail(h, c, n) = Credit(PutChunk(f, n), c, s)
    BY <1>4 DEF CutTail, HeapOf, Size, Begin
  <1> HIDE DEF f, d, w, v, x
  <1>8. Parted(h, d, P, c, k, n)
    BY <1>6, PartedIs
  <1>9. /\ Frame(h, f) /\ f.heap = h.heap /\ f.chunk = Updated(K, n, Fresh(s, b))
    BY <1>2, <1>6, InitFresh
  <1>10. IsHeap(f) /\ n \in DOMAIN f.chunk /\ f.chunk[c] = K[c]
    BY <1>2, <1>4, <1>9 DEF Frame, Updated
  <1>11. CutTail(h, c, n) = FreeszSet(PutChunk(f, n), b, v)
    <2>1. PutChunk(f, n).chunk = f.chunk /\ PutChunk(f, n).heap = f.heap
      BY <1>10, PutChunkIs
    <2> QED BY <1>5, <1>7, <1>9, <1>10, <2>1 DEF Credit, HeapOf, FreeszSet
  <1>12. Counted(w, g, b, v)
    <2>1. g = SetHeader(FreeszSet(PutChunk(f, n), b, v), c, x)
      BY <1>6, <1>11
    <2> QED BY <1>4, <1>6, <1>10, <2>1, PutBefore
  <1>13. /\ Core(d, P) /\ Frame(h, d) /\ d.heap = h.heap /\ d.chunk = Divide(K, c, k)
         /\ d.foot = Updated(h.foot, n + s - 1, s)
         /\ UsedDivided(Z, K, c, k, n, d.chunk)
         /\ Binning(d, FreeChunks(K)) /\ Sizes(d) = Z
    BY <1>8 DEF Parted
  <1> DEFINE D == d.chunk
  <1> HIDE DEF K, Z
  <1>14. /\ IsFree(D, n) /\ D[n].size = s /\ FreeChunks(D) = FreeChunks(K) \cup {n} /\ n \notin DOMAIN K
         /\ AtLeast(D, {}) /\ NotBoth(D, {n}) /\ Flags(Z, D, {n}) /\ Feet(D, h.foot, {n})
         /\ Used(D) = Updated(Used(K), c, k) /\ D[n].pused /\ D[n].heap = K[c].heap
         /\ \A z : z # K[c].heap => FreeUnits(D, z) = FreeUnits(K, z)
         /\ FreeUnits(D, K[c].heap) = FreeUnits(K, K[c].heap) \cup Area(n, s)
    BY <1>1, <1>4, <1>13 DEF UsedDivided, K
  <1>15. Feet(D, d.foot, {n})
    <2>1. AreChunks(D) /\ InOrder(D) /\ (\A e \in DOMAIN D : D[e].size > 0) /\ n \in DOMAIN D
      <3>1. /\ AreChunks(D) /\ InOrder(D)
            /\ \A e \in DOMAIN D : D[e].size \in Nat /\ D[e].size >= 2
        BY <1>13, CoreIs
      <3> QED BY <1>14, <3>1 DEF IsFree
    <2>2. Feet(D, Updated(h.foot, n + D[n].size - 1, D[n].size), {n} \ {n})
      BY <1>14, <2>1, FootSet
    <2>3. Feet(D, d.foot, {n} \ {n})
      BY <1>13, <1>14, <2>2
    <2> QED BY <2>3 DEF Feet
  <1>16. /\ Frame(d, w) /\ w.heap = d.heap /\ w.foot = d.foot /\ w.chunk = D
         /\ Core(w, P) /\ Binning(w, FreeChunks(K) \cup {n})
    <2> DEFINE S == FreeChunks(K)
    <2>1. IsFree(d.chunk, n) /\ d.chunk[n].size >= MinSize /\ n \notin S
      BY <1>4, <1>14 DEF FreeChunks, MinSize
    <2>2. Binning(d, S) /\ Core(d, P) /\ w = PutChunk(d, n)
      BY <1>6, <1>13
    <2> HIDE DEF S
    <2>3. PutKept(d, w, P, S, n)
      BY <2>1, <2>2, PutIn
    <2> QED BY <2>3 DEF S, PutKept
  <1>17. /\ Frame(w, g) /\ SameBins(w, g) /\ g.chunk = D /\ g.foot = d.foot /\ g.wrote = w.wrote
         /\ g.heap = WithFreesz(h.heap, b, v)
    BY <1>12, <1>13, <1>16 DEF Counted
  <1>18. Frame(h, g)
    <2>1. Frame(h, w)
      BY <1>13, <1>16, FrameTrans
    <2> QED BY <1>17, <2>1, FrameTrans
  <1>19. Refined(h, g, b, v)
    BY <1>2, <1>3, <1>5, <1>17, <1>18, FreeszFine
  <1>20. HeapsFine(g) /\ Sizes(g) = Z /\ Beside(h, g, b)
    BY <1>18, <1>19 DEF Refined, Beside, Frame, Z
  <1>21. Core(g, P)
    <2>1. Grid(Z, D) /\ Clear(D, P) /\ w.wrote \cap P = {}
      BY <1>13, <1>16 DEF Core
    <2> QED BY <1>17, <1>18, <1>20, <2>1 DEF Core, Frame
  <1>22. Binning(g, FreeChunks(D))
    <2>1. \A e \in FreeChunks(D) : e \in DOMAIN g.chunk /\ ~ g.chunk[e].cused /\ g.chunk[e].size = w.chunk[e].size
      BY <1>16, <1>17 DEF FreeChunks
    <2>2. Binning(w, FreeChunks(D))
      BY <1>14, <1>16
    <2> QED BY <1>17, <2>1, <2>2, BinFrame
  <1>23. Count(g)
    <2>1. Area(n, s) \cap FreeUnits(K, b) = {}
      <3>1. Area(c, K[c].size) \cap FreeUnits(K, b) = {}
        BY <1>2, AreaFree DEF K
      <3>2. Area(n, s) \subseteq Area(c, K[c].size)
        BY <1>3, <1>4 DEF Area, K
      <3> QED BY <3>1, <3>2
    <2>2. Gained(h.chunk, g.chunk, b, n, s)
      BY <1>14, <1>17, <2>1 DEF K, Gained
    <2>3. HeapsFine(h) /\ Grid(Sizes(h), h.chunk)
      BY <1>2 DEF K, Z
    <2> HIDE DEF b
    <2> QED BY <1>1, <1>3, <1>4, <1>5, <1>17, <2>2, <2>3, CountMore
  <1>24. JoinInv(g, P, n, {n})
    BY <1>14, <1>15, <1>17, <1>20, <1>21, <1>22 DEF JoinInv
  <1> QED BY <1>14, <1>17, <1>20, <1>23, <1>24 DEF Tailed, K

\* c was given another size, and holds `size' units at least
Resized(h, g, P, c, size) ==
    /\ Good(g, P) /\ Kept(g, {}) /\ IsUsed(g.chunk, c) /\ size <= g.chunk[c].size
    /\ Used(g.chunk) = Updated(Used(h.chunk), c, g.chunk[c].size)

LEMMA WithUsedSame ==
    ASSUME NEW K, AreChunks(K), NEW c, NEW u \in BOOLEAN, ~ u, IsFree(K, c)
    PROVE  K = WithUsed(K, c, u)
  <1>1. c \in DOMAIN K /\ K[c] \in Chunk /\ K[c].cused = u
    BY ChunkIs DEF IsFree
  <1>2. K[c] = [K[c] EXCEPT !.cused = u]
    BY <1>1 DEF Chunk
  <1>3. K \in [DOMAIN K -> Chunk]
    BY DEF AreChunks
  <1> QED BY <1>1, <1>2, <1>3 DEF WithUsed

\* The chunk behind a free one hears that it is not in use
Disown(h, c) == TellNext(h, c, FALSE)
GivenUp(h, g, P, Y) ==
    Good(g, P) /\ Kept(g, Y) /\ Used(g.chunk) = Used(h.chunk) /\ g.heap = h.heap
LEMMA GiveAgainIs ==
    ASSUME NEW h, NEW P \in SUBSET Nat, NEW c, Settled(h, P, {c}), IsFree(h.chunk, c), Count(h),
           NEW Y, Kept(h, Y), NEW g, g = Disown(h, c)
    PROVE  GivenUp(h, g, P, Y)
  <1> DEFINE K == h.chunk
             Z == Sizes(h)
             M == Give(K, c)
             n == c + K[c].size
  <1>1. /\ Core(h, P) /\ AtLeast(K, {}) /\ Flags(Z, K, {c}) /\ NotBoth(K, {}) /\ Feet(K, h.foot, {})
        /\ Binning(h, FreeChunks(K)) /\ c \in DOMAIN K
    BY DEF Settled, IsFree
  <1>2. IsHeap(h) /\ HeapsFine(h) /\ AreChunks(K) /\ Grid(Z, K) /\ Apart(Z)
    BY <1>1, CoreIs DEF Core
  <1>3. PICK u \in BOOLEAN : ~ u /\ g = TellNext(h, c, u)
    BY DEF Disown
  <1>4. M = Mark(K, c, u) /\ M = Give(K, c)
    BY <1>3 DEF Give
  <1>5. /\ n = c + K[c].size /\ (n \in DOMAIN K => K[n].size >= MinSize)
    BY <1>1 DEF AtLeast
  <1>6. IsFree(K, c)
    OBVIOUS
  <1> HIDE DEF M, n
  <1>7. K = WithUsed(K, c, u)
    <2> HIDE DEF K
    <2> QED BY <1>2, <1>3, <1>6, WithUsedSame
  <1>8. Told(h, g, K, c, u)
    <2>1. h.chunk = WithUsed(K, c, u)
      BY <1>7
    <2>2. Grid(Sizes(h), K) /\ c \in DOMAIN K /\ g = TellNext(h, c, u)
      BY <1>1, <1>2, <1>3
    <2> HIDE DEF K, Z
    <2> QED BY <1>2, <1>5, <2>1, <2>2, TellIs
  <1> HIDE DEF K, Z
  <1>9. GivenAgain(Z, K, c, M)
    BY <1>2, <1>4, <1>6, GiveAgain
  <1>10. /\ Frame(h, g) /\ SameBins(h, g) /\ g.heap = h.heap /\ g.foot = h.foot
         /\ g.chunk = M /\ g.wrote \subseteq h.wrote \cup DOMAIN K
    BY <1>4, <1>8 DEF Told
  <1>11. HeapsFine(g) /\ Sizes(g) = Z
    BY <1>2, <1>10, FrameFine DEF Z
  <1>12. /\ Grid(Z, M) /\ NotBoth(M, {}) /\ Feet(M, h.foot, {}) /\ AtLeast(M, {})
         /\ FreeChunks(M) = FreeChunks(K) /\ Used(M) = Used(K)
         /\ \A b : FreeUnits(M, b) = FreeUnits(K, b)
         /\ \A e \in DOMAIN K : M[e].size = K[e].size
         /\ DOMAIN M = DOMAIN K
    BY <1>1, <1>9 DEF GivenAgain
  <1>13. Flags(Z, M, {})
    <2>1. {c} \ {c} = {}
      OBVIOUS
    <2>2. Flags(Z, M, {c} \ {c})
      BY <1>1, <1>9 DEF GivenAgain
    <2> QED BY <2>1, <2>2
  <1>14. Core(g, P)
    <2>1. Clear(K, P) /\ h.wrote \cap P = {}
      BY <1>1 DEF Core, K
    <2>2. Clear(M, P)
      BY <1>9, <2>1 DEF GivenAgain
    <2>3. g.wrote \cap P = {}
      BY <1>10, <2>1 DEF Clear
    <2> QED BY <1>10, <1>11, <1>12, <2>2, <2>3 DEF Core, Frame
  <1>15. Binning(g, FreeChunks(M))
    <2>1. \A e \in FreeChunks(M) : e \in DOMAIN g.chunk /\ ~ g.chunk[e].cused
                                   /\ g.chunk[e].size = h.chunk[e].size
      BY <1>10, <1>12 DEF FreeChunks, K
    <2>2. Binning(h, FreeChunks(M))
      BY <1>1, <1>12
    <2> QED BY <1>10, <2>1, <2>2, BinFrame
  <1>16. Settled(g, P, {})
    BY <1>10, <1>11, <1>12, <1>13, <1>14, <1>15 DEF Settled
  <1>17. Count(g) /\ Kept(g, Y)
    <2>1. /\ g.heap = h.heap /\ g.retained = h.retained /\ g.retainedsz = h.retainedsz
          /\ \A x : FreeUnits(g.chunk, x) = FreeUnits(h.chunk, x)
      BY <1>10, <1>12 DEF Frame, K
    <2>2. Count(g)
      BY <2>1 DEF Count
    <2>3. Kept(g, Y)
      BY <2>1 DEF Kept, Whole
    <2> QED BY <2>2, <2>3
  <1> QED BY <1>10, <1>12, <1>16, <1>17 DEF Good, K, GivenUp

LEMMA ShrinkIs ==
    ASSUME NEW h, NEW P \in SUBSET Nat, Good(h, P), Kept(h, {}), NEW c, IsUsed(h.chunk, c),
           NEW size \in Nat, MinSize <= size, NEW n, n = c + size, CanSplit(h, c, size),
           P \cap Area(n, h.chunk[c].size - size) = {}, NEW g, g = Shrink(h, c, size)
    PROVE  Resized(h, g, P, c, size) /\ g.chunk[c].size = size
  <1> DEFINE b == h.chunk[c].heap
             f == SetHeader(CutTail(h, c, n), c, [h.chunk[c] EXCEPT !.size = size])
             j == Join(f, n)
  <1>1. /\ f = SetHeader(CutTail(h, c, n), c, [h.chunk[c] EXCEPT !.size = size])
        /\ j = Join(f, n) /\ g = Disown(j, n)
    BY DEF Shrink, Disown
  <1>2. CutAt(h.chunk, c, size, n)
    BY DEF CutAt, CanSplit, Size, MinSize, Overhead
  <1>3. b \in DOMAIN h.heap /\ b \notin FreeHeaps(h)
    BY NotAllFree
  <1> HIDE DEF f, j
  <1>4. Tailed(h, f, P, c, size, n)
    BY <1>1, <1>2, TailedIs
  <1>5. /\ JoinInv(f, P, n, {n}) /\ f.chunk[n].pused /\ Count(f)
        /\ Used(f.chunk) = Updated(Used(h.chunk), c, size) /\ Beside(h, f, b)
    BY <1>4 DEF Tailed
  <1>6. Kept(f, {b})
    BY <1>3, <1>5, KeptBeside
  <1>7. JoinDone(f, j, P, n, {n}, {b})
    <2> DEFINE X == {n}
               Y == {b}
    <2>1. JoinInv(f, P, n, X) /\ X \subseteq {n} /\ (X = {} \/ f.chunk[n].pused) /\ Count(f) /\ Kept(f, Y)
      BY <1>5, <1>6
    <2> HIDE DEF X, Y
    <2>2. JoinDone(f, j, P, n, X, Y)
      BY <1>1, <2>1, JoinIs
    <2> QED BY <2>2 DEF X, Y
  <1>8. /\ Settled(j, P, {n}) /\ Count(j) /\ Kept(j, {b}) /\ j.heap = f.heap
        /\ Used(j.chunk) = Used(f.chunk) /\ IsFree(j.chunk, n)
    BY <1>7 DEF JoinDone
  <1>9. Good(g, P) /\ Kept(g, {b}) /\ Used(g.chunk) = Used(j.chunk) /\ g.heap = j.heap
    <2> DEFINE Y == {b}
    <2>1. Settled(j, P, {n}) /\ Count(j) /\ Kept(j, Y) /\ IsFree(j.chunk, n) /\ g = Disown(j, n)
      BY <1>1, <1>8
    <2> HIDE DEF Y
    <2>2. GivenUp(j, g, P, Y)
      BY <2>1, GiveAgainIs
    <2> QED BY <2>2 DEF GivenUp, Y
  <1>10. Used(g.chunk) = Updated(Used(h.chunk), c, size)
    BY <1>5, <1>8, <1>9
  <1>11. IsUsed(g.chunk, c) /\ g.chunk[c].size = size
    BY <1>10 DEF Used, Updated, IsUsed
  <1>12. g.chunk[c].heap = b
    <2>1. Core(h, P) /\ Core(g, P) /\ c \in DOMAIN h.chunk /\ c \in DOMAIN g.chunk
      BY <1>9, <1>11 DEF Good, Settled, IsUsed
    <2>2. Sizes(g) = Sizes(h)
      BY <1>5, <1>8, <1>9 DEF Beside, Sizes
    <2> QED BY <2>1, <2>2, SameHeap
  <1>13. b \notin FreeHeaps(g)
    BY <1>9, <1>11, <1>12, NotAllFree
  <1>14. Kept(g, {})
    BY <1>9, <1>13, KeptStill
  <1>15. size <= g.chunk[c].size
    BY <1>11
  <1> QED BY <1>9, <1>10, <1>11, <1>14, <1>15 DEF Resized

-----------------------------------------------------------------------------
(* A chunk in use grows into the free one behind it                        *)

Merged(h, g, P, c, d) ==
    /\ Good(g, P) /\ Kept(g, {}) /\ IsUsed(g.chunk, c)
    /\ g.chunk[c].size = h.chunk[c].size + h.chunk[d].size
    /\ Used(g.chunk) = Updated(Dropped(Used(h.chunk), d), c, g.chunk[c].size)

LEMMA MergeUsed ==
    ASSUME NEW h, NEW P \in SUBSET Nat, Core(h, P), NEW c, NEW d, Behind(h.chunk, c, d),
           IsUsed(h.chunk, c), IsUsed(h.chunk, d), AtLeast(h.chunk, {d}),
           Flags(Sizes(h), h.chunk, {}), NotBoth(h.chunk, {}), Feet(h.chunk, h.foot, {}),
           Binning(h, FreeChunks(h.chunk)), Count(h), Kept(h, {}), NEW g, g = Merge(h, c, d)
    PROVE  Merged(h, g, P, c, d)
  <1> DEFINE K == h.chunk
             Z == Sizes(h)
             U == Unite(K, c, d)
  <1>1. IsHeap(h) /\ AreChunks(K) /\ InOrder(K) /\ Grid(Z, K) /\ Apart(Z)
    BY CoreIs
  <1>2. /\ c \in DOMAIN K /\ d \in DOMAIN K /\ d = c + K[c].size /\ c < d /\ c # d
        /\ K[d].heap = K[c].heap
    <2> HIDE DEF K, Z
    <2>1. Behind(K, c, d)
      BY DEF K
    <2> QED BY <1>1, <2>1, BehindIs
  <1>3. U = Unite(K, c, d)
    OBVIOUS
  <1> HIDE DEF U
  <1>4. /\ Frame(h, g) /\ SameBins(h, g) /\ g.heap = h.heap /\ g.foot = h.foot
        /\ g.chunk = U /\ g.wrote = h.wrote \cup {c, c + 1}
    <2> DEFINE e == Merge(h, c, d)
    <2>1. e = Merge(h, c, d) /\ g = e
      OBVIOUS
    <2> HIDE DEF e
    <2>2. /\ Frame(h, e) /\ SameBins(h, e) /\ e.heap = h.heap /\ e.foot = h.foot
          /\ e.chunk = Unite(h.chunk, c, d) /\ e.wrote = h.wrote \cup {c, c + 1}
      BY <1>1, <1>2, <2>1, MergeIs
    <2> QED BY <1>3, <2>1, <2>2
  <1> HIDE DEF K, Z
  <1>5. IsUsed(K, c) /\ IsUsed(K, d) /\ Behind(K, c, d) /\ AtLeast(K, {d}) /\ Flags(Z, K, {})
        /\ NotBoth(K, {}) /\ Feet(K, h.foot, {}) /\ Clear(K, P) /\ h.wrote \cap P = {}
        /\ Binning(h, FreeChunks(K))
    BY DEF K, Z, Core
  <1>6. UsedUnited(Z, K, c, d, U)
    BY <1>1, <1>3, <1>5, UniteUsed
  <1>7. Grid(Z, U)
    BY <1>1, <1>2, <1>3, UniteGrid
  <1>8. /\ Flags(Z, U, {}) /\ NotBoth(U, {}) /\ Feet(U, h.foot, {}) /\ AtLeast(U, {}) /\ Clear(U, P)
        /\ FreeChunks(U) = FreeChunks(K) /\ \A b : FreeUnits(U, b) = FreeUnits(K, b)
        /\ Used(U) = Updated(Dropped(Used(K), d), c, U[c].size)
        /\ U[c].size = K[c].size + K[d].size
    BY <1>5, <1>6 DEF UsedUnited
  <1>9. Core(g, P) /\ Sizes(g) = Z
    <2>1. g.wrote \cap P = {}
      BY <1>2, <1>4, <1>5 DEF Clear
    <2>2. Grid(Sizes(h), g.chunk) /\ Clear(g.chunk, P)
      BY <1>4, <1>7, <1>8 DEF Z
    <2> QED BY <1>4, <2>1, <2>2, CoreStep DEF Z
  <1>10. Binning(g, FreeChunks(U))
    <2>1. \A e \in FreeChunks(K) : e \in DOMAIN g.chunk /\ ~ g.chunk[e].cused
                                   /\ g.chunk[e].size = h.chunk[e].size
      <3>1. \A e \in FreeChunks(K) : e \in DOMAIN K /\ e # c /\ e # d
        BY <1>5 DEF FreeChunks, IsUsed
      <3>2. \A e \in DOMAIN K : e # c /\ e # d => U[e] = K[e]
        BY <1>3 DEF Unite
      <3>3. \A e \in FreeChunks(K) : e \in DOMAIN U /\ ~ U[e].cused
        BY <1>8 DEF FreeChunks
      <3> QED BY <1>4, <3>1, <3>2, <3>3 DEF K
    <2>2. Binning(g, FreeChunks(K))
      BY <1>4, <1>5, <2>1, BinFrame
    <2> QED BY <1>8, <2>2
  <1>11. Count(g) /\ Kept(g, {})
    <2>1. /\ g.heap = h.heap /\ g.retained = h.retained /\ g.retainedsz = h.retainedsz
          /\ \A b : FreeUnits(g.chunk, b) = FreeUnits(h.chunk, b)
      BY <1>4, <1>8 DEF Frame, K
    <2>2. Count(g)
      BY <2>1 DEF Count
    <2>3. Kept(g, {})
      BY <2>1 DEF Kept, Whole
    <2> QED BY <2>2, <2>3
  <1>12. IsUsed(U, c)
    BY <1>8 DEF Used, Updated, IsUsed
  <1> QED BY <1>4, <1>8, <1>9, <1>10, <1>11, <1>12 DEF Merged, Good, Settled, K

LEMMA NextFound ==
    ASSUME NEW h, NEW P, Core(h, P), AtLeast(h.chunk, {}), NEW c, IsUsed(h.chunk, c),
           NEW n, n = NextOf(h, c), n # NoChunk
    PROVE  Behind(h.chunk, c, n)
  <1> DEFINE K == h.chunk
             d == c + K[c].size
  <1>1. HeapsFine(h) /\ Grid(Sizes(h), K) /\ c \in DOMAIN K
    BY DEF Core, IsUsed
  <1>2. d = c + K[c].size /\ (d \in DOMAIN K => K[d].size >= MinSize)
    BY DEF AtLeast
  <1> HIDE DEF d
  <1>3. /\ d \in DOMAIN K => NextOf(h, c) = d
        /\ d \notin DOMAIN K => NextOf(h, c) = NoChunk
    BY <1>1, <1>2, NextIs
  <1> QED BY <1>1, <1>2, <1>3 DEF Behind

LEMMA GrowIs ==
    ASSUME NEW h, NEW P \in SUBSET Nat, Good(h, P), Kept(h, {}), NEW c, IsUsed(h.chunk, c),
           NEW size \in Nat, size > h.chunk[c].size, CanGrow(h, c, size),
           NEW g, g = Grow(h, c, size)
    PROVE  Resized(h, g, P, c, size)
  <1> DEFINE K == h.chunk
             Z == Sizes(h)
             n == NextOf(h, c)
             k == size - K[c].size
             f == AllocFrom(h, n, k)
  <1>1. /\ Core(h, P) /\ AtLeast(K, {}) /\ Flags(Z, K, {}) /\ NotBoth(K, {}) /\ Feet(K, h.foot, {})
        /\ Binning(h, FreeChunks(K)) /\ Count(h)
    BY DEF Good, Settled
  <1>2. Grid(Z, K) /\ Apart(Z)
    BY <1>1, CoreIs
  <1>3. n = NextOf(h, c) /\ n # NoChunk /\ ~ K[n].cused /\ K[n].size >= k
    BY DEF CanGrow, Size
  <1>4. f = AllocFrom(h, n, k) /\ g = Merge(f, c, n) /\ k = size - K[c].size
    BY DEF Grow, Size
  <1> HIDE DEF n, k, f, Z
  <1>5. Behind(K, c, n)
    BY <1>1, <1>3, NextFound
  <1>6. IsFree(K, n) /\ K[n].size \in Nat /\ K[c].size \in Nat /\ c # n /\ c \in DOMAIN K
    <2>1. c \in DOMAIN K /\ n \in DOMAIN K
      BY <1>5 DEF Behind
    <2>2. K[n].size \in Nat /\ K[c].size \in Nat
      BY <1>1, <2>1, CoreIs
    <2>3. c # n
      BY <1>3 DEF IsUsed
    <2> QED BY <1>3, <2>1, <2>2, <2>3 DEF IsFree
  <1>7. k \in Nat /\ 1 <= k /\ k <= K[n].size
    BY <1>3, <1>4, <1>6
  <1>8. CutReady(h, P, n, k)
    <2>1. NotBoth(K, {n})
      BY <1>1 DEF NotBoth
    <2>2. K[n].pused
      <3> HIDE DEF K
      <3> QED BY <1>1, <1>2, <1>6, FreePused
    <2> QED BY <1>1, <1>6, <1>7, <2>1, <2>2 DEF CutReady, Z
  <1>9. AllocDone(h, f, P, n, k)
    <2> DEFINE b == K[n].heap
    <2>1. b = h.chunk[n].heap
      OBVIOUS
    <2> HIDE DEF b
    <2> QED BY <1>1, <1>4, <1>8, <2>1, AllocFromKeeps
  <1> DEFINE M == f.chunk
  <1>10. /\ Core(f, P) /\ Flags(Sizes(f), M, {}) /\ NotBoth(M, {}) /\ Feet(M, f.foot, {})
         /\ AtLeast(M, {n}) /\ Binning(f, FreeChunks(M)) /\ Count(f) /\ Kept(f, {})
         /\ IsUsed(M, n) /\ k <= M[n].size /\ Used(M) = Updated(Used(K), n, M[n].size)
    BY <1>9 DEF AllocDone
  <1>11. IsUsed(M, c) /\ M[c].size = K[c].size
    <2>1. c \in DOMAIN Used(K) /\ Used(K)[c] = K[c].size
      BY DEF Used, IsUsed
    <2>2. c \in DOMAIN Used(M) /\ Used(M)[c] = K[c].size
      BY <1>6, <1>10, <2>1 DEF Updated
    <2> QED BY <2>2 DEF Used, IsUsed
  <1>12. Behind(M, c, n)
    BY <1>5, <1>10, <1>11 DEF Behind, IsUsed
  <1> HIDE DEF K
  <1>13. Merged(f, g, P, c, n)
    BY <1>4, <1>10, <1>11, <1>12, MergeUsed
  <1>14. /\ Good(g, P) /\ Kept(g, {}) /\ IsUsed(g.chunk, c) /\ g.chunk[c].size = M[c].size + M[n].size
         /\ Used(g.chunk) = Updated(Dropped(Used(M), n), c, g.chunk[c].size)
    BY <1>13 DEF Merged
  <1>15. M[n].size \in Nat
    BY <1>10, CoreIs DEF IsUsed
  <1>16. size <= g.chunk[c].size
    BY <1>4, <1>6, <1>10, <1>11, <1>14, <1>15
  <1>17. Used(g.chunk) = Updated(Used(K), c, g.chunk[c].size)
    <2> DEFINE s == M[n].size
               t == g.chunk[c].size
               V == Used(K)
    <2>1. n \notin DOMAIN V
      BY <1>6 DEF Used, IsFree
    <2>2. Used(g.chunk) = Updated(Dropped(Updated(V, n, s), n), c, t)
      BY <1>10, <1>14
    <2> HIDE DEF s, t, V
    <2>3. Updated(Dropped(Updated(V, n, s), n), c, t) = Updated(V, c, t)
      BY <2>1 DEF Updated, Dropped
    <2> QED BY <2>2, <2>3 DEF t, V
  <1> QED BY <1>14, <1>16, <1>17 DEF Resized, K

LEMMA ResizeIs ==
    ASSUME NEW h, NEW P \in SUBSET Nat, Good(h, P), Kept(h, {}), NEW c, IsUsed(h.chunk, c),
           NEW size \in Nat, MinSize <= size, ~ MustMove(h, c, size),
           size < h.chunk[c].size => P \cap Area(c + size, h.chunk[c].size - size) = {},
           NEW g, g = ResizeInPlace(h, c, size)
    PROVE  Resized(h, g, P, c, size) /\ (size < h.chunk[c].size => g = h \/ g.chunk[c].size = size)
  <1>1. h.chunk[c].size \in Nat
    BY CoreIs DEF Good, Settled, IsUsed
  <1>2. CASE size < h.chunk[c].size /\ CanSplit(h, c, size)
    <2> DEFINE n == c + size
    <2>1. g = Shrink(h, c, size)
      BY <1>2 DEF ResizeInPlace, Size
    <2>2. P \cap Area(n, h.chunk[c].size - size) = {} /\ n = c + size
      BY <1>2
    <2> HIDE DEF n
    <2> QED BY <1>2, <2>1, <2>2, ShrinkIs
  <1>3. CASE size > h.chunk[c].size
    <2>1. g = Grow(h, c, size) /\ CanGrow(h, c, size)
      BY <1>1, <1>3 DEF ResizeInPlace, Size, MustMove
    <2>2. Resized(h, g, P, c, size)
      BY <1>3, <2>1, GrowIs
    <2> QED BY <1>1, <1>3, <2>2
  <1>4. CASE size = h.chunk[c].size \/ (size < h.chunk[c].size /\ ~ CanSplit(h, c, size))
    <2>1. g = h
      BY <1>1, <1>4 DEF ResizeInPlace, Size
    <2>2. Used(h.chunk) = Updated(Used(h.chunk), c, h.chunk[c].size)
      BY DEF Used, Updated, IsUsed
    <2> QED BY <1>1, <1>4, <2>1, <2>2 DEF Resized
  <1> QED BY <1>1, <1>2, <1>3, <1>4

-----------------------------------------------------------------------------
(* The payload of a chunk slides up: a is in use instead of c, whose first *)
(* k units become free                                                     *)

Moved(K, c, k) == Hdr(K[c].size - k, K[c].heap, TRUE, FALSE)
Lead(K, c, k)  == Hdr(k, K[c].heap, FALSE, K[c].pused)
CarvedAt(K, c, k, a) == Updated(Updated(K, a, Moved(K, c, k)), c, Lead(K, c, k))

LEMMA CarvedIs ==
    ASSUME NEW Z, NEW K, Grid(Z, K), Apart(Z), Flags(Z, K, {}), NEW c, IsUsed(K, c), NEW k, NEW a,
           CutAt(K, c, k, a), NEW D, D = Divide(K, c, k), NEW T, T = Take(D, a)
    PROVE  Give(T, c) = CarvedAt(K, c, k, a)
  <1> DEFINE s == K[c].size - k
             b == K[c].heap
             e == a + s
  <1>1. AreChunks(K) /\ c \in DOMAIN K /\ K[c].cused = TRUE /\ c \in Nat /\ K[c].size \in Nat
    BY ChunkIn DEF IsUsed
  <1>2. /\ k \in Nat /\ a = c + k /\ k >= 2 /\ s >= 5 /\ s \in Nat /\ e = c + K[c].size
        /\ c # a /\ a # e /\ c # e /\ a \notin DOMAIN K
    <2>1. /\ k \in Nat /\ a = c + k /\ k >= 2 /\ s >= 5 /\ s \in Nat /\ e = c + K[c].size
          /\ c # a /\ a # e /\ c # e
      BY <1>1 DEF CutAt, MinSize, Overhead
    <2>2. UsedDivided(Z, K, c, k, a, D)
      BY DivideUsed
    <2> QED BY <2>1, <2>2 DEF UsedDivided
  <1>3. e \in DOMAIN K => K[e].pused = TRUE
    BY <1>1, <1>2, ChunkIs DEF Flags, Behind
  <1> HIDE DEF s, e
  <1>4. D = [d \in DOMAIN K \cup {a} |-> IF d = c THEN Hdr(k, b, TRUE, K[c].pused)
                                         ELSE IF d = a THEN Hdr(s, b, FALSE, TRUE) ELSE K[d]]
    <2>1. D = [d \in DOMAIN K \cup {a} |-> IF d = c THEN Hdr(k, b, K[c].cused, K[c].pused)
                                           ELSE IF d = a THEN Hdr(s, b, FALSE, K[c].cused) ELSE K[d]]
      BY <1>2, Zenon DEF Divide, s
    <2> QED BY <1>1, <2>1, Zenon
  <1>5. D[a] = Hdr(s, b, FALSE, TRUE) /\ D[c] = Hdr(k, b, TRUE, K[c].pused) /\ DOMAIN D = DOMAIN K \cup {a}
        /\ \A d \in DOMAIN K : d # c => D[d] = K[d]
    BY <1>1, <1>2, <1>4
  <1>6. \A d \in DOMAIN T : T[d] = IF d = a THEN Hdr(s, b, TRUE, TRUE) ELSE D[d]
    <2>1. D[a].size = s /\ D[a].heap = b /\ D[a].pused = TRUE
      BY <1>5 DEF Hdr
    <2>2. \A d \in DOMAIN D : T[d] = IF d = a THEN Hdr(D[a].size, D[a].heap, TRUE, D[a].pused)
                    ELSE IF d = e THEN Hdr(D[d].size, D[d].heap, D[d].cused, TRUE)
                    ELSE D[d]
      BY <2>1 DEF Take, Mark, e
    <2>3. e \in DOMAIN D => D[e] = K[e] /\ e \in DOMAIN K
      BY <1>2, <1>5
    <2>4. e \in DOMAIN K => K[e] = Hdr(K[e].size, K[e].heap, K[e].cused, TRUE)
      BY <1>1, <1>3, ChunkIs
    <2>5. DOMAIN T = DOMAIN D
      BY DEF Take, Mark
    <2>6. e \in DOMAIN D => D[e] = Hdr(D[e].size, D[e].heap, D[e].cused, TRUE)
      <3> HAVE e \in DOMAIN D
      <3>1. D[e] = K[e] /\ K[e] = Hdr(K[e].size, K[e].heap, K[e].cused, TRUE)
        BY <2>3, <2>4
      <3> QED BY <3>1, Zenon
    <2>7. ASSUME NEW d \in DOMAIN T, d = a PROVE T[d] = Hdr(s, b, TRUE, TRUE)
      BY <2>1, <2>2, <2>5, <2>7
    <2>8. ASSUME NEW d \in DOMAIN T, d # a PROVE T[d] = D[d]
      BY <2>2, <2>5, <2>6, <2>8
    <2> QED BY <2>7, <2>8
  <1>7. DOMAIN T = DOMAIN K \cup {a} /\ T[c] = Hdr(k, b, TRUE, K[c].pused) /\ T[a] = Hdr(s, b, TRUE, TRUE)
    <2>1. DOMAIN T = DOMAIN D
      BY DEF Take, Mark
    <2> QED BY <1>1, <1>2, <1>5, <1>6, <2>1
  <1>8. T[c].size = k /\ T[c].heap = b /\ T[c].pused = K[c].pused
        /\ T[a].size = s /\ T[a].heap = b /\ T[a].cused = TRUE
    BY <1>7 DEF Hdr
  <1> DEFINE G == Give(T, c)
             M == CarvedAt(K, c, k, a)
             X == Moved(K, c, k)
             Y == Lead(K, c, k)
  <1>9. X = Hdr(s, b, TRUE, FALSE) /\ Y = Hdr(k, b, FALSE, K[c].pused)
    BY DEF Moved, Lead, s
  <1>10. G = [d \in DOMAIN T |->
        IF d = c THEN Hdr(T[c].size, T[c].heap, FALSE, T[c].pused)
        ELSE IF d = c + T[c].size THEN Hdr(T[d].size, T[d].heap, T[d].cused, FALSE)
        ELSE T[d]]
    BY Zenon DEF Give, Mark
  <1>11. M = [d \in DOMAIN K \cup {a} |-> IF d = c THEN Y ELSE IF d = a THEN X ELSE K[d]]
    <2> HIDE DEF X, Y
    <2> SUFFICES Updated(Updated(K, a, X), c, Y)
                   = [d \in DOMAIN K \cup {a} |-> IF d = c THEN Y ELSE IF d = a THEN X ELSE K[d]]
      BY Zenon DEF CarvedAt, X, Y
    <2> QED BY <1>1 DEF Updated
  <1> HIDE DEF G, M, X, Y
  <1>12. DOMAIN G = DOMAIN M /\ \A d \in DOMAIN M : G[d] = M[d]
    <2>1. DOMAIN G = DOMAIN K \cup {a} /\ DOMAIN M = DOMAIN K \cup {a}
      BY <1>7, <1>10, <1>11
    <2>2. G[c] = Y /\ M[c] = Y
      BY <1>1, <1>7, <1>8, <1>9, <1>10, <1>11
    <2>3. G[a] = X /\ M[a] = X
      BY <1>2, <1>7, <1>8, <1>9, <1>10, <1>11
    <2>4. ASSUME NEW d \in DOMAIN K, d # c PROVE G[d] = M[d]
      <3>1. d # a /\ d # c + T[c].size
        BY <1>2, <1>8, <2>4
      <3>2. G[d] = T[d] /\ M[d] = K[d]
        BY <1>7, <1>10, <1>11, <2>4, <3>1
      <3>3. T[d] = K[d]
        BY <1>5, <1>6, <1>7, <2>4, <3>1
      <3> QED BY <3>2, <3>3
    <2> QED BY <2>1, <2>2, <2>3, <2>4
  <1>13. G = M
    <2>1. G = [d \in DOMAIN G |-> G[d]] /\ M = [d \in DOMAIN M |-> M[d]]
      BY <1>10, <1>11
    <2> QED BY <1>12, <2>1
  <1> QED BY <1>13 DEF G, M

CarveDone(Z, K, M, c, k, a) ==
    /\ Grid(Z, M) /\ AtLeast(M, {}) /\ Flags(Z, M, {}) /\ NotBoth(M, {c})
    /\ \A F : Feet(K, F, {}) => Feet(M, F, {c})
    /\ FreeChunks(M) = FreeChunks(K) \cup {c} /\ c \notin FreeChunks(K)
    /\ \A P \in SUBSET Nat : Clear(K, P) /\ P \cap Area(c, K[c].size) = {} => Clear(M, P)
    /\ FreeUnits(M, K[c].heap) = FreeUnits(K, K[c].heap) \cup Area(c, k)
    /\ \A b : b # K[c].heap => FreeUnits(M, b) = FreeUnits(K, b)
    /\ \A e \in FreeChunks(K) : M[e].size = K[e].size
    /\ Used(M) = Updated(Dropped(Used(K), c), a, K[c].size - k)
    /\ IsFree(M, c) /\ M[c].size = k /\ M[c].heap = K[c].heap
    /\ a \in DOMAIN M /\ M[a].heap = K[c].heap

LEMMA CarvedFine ==
    ASSUME NEW Z, NEW K, Grid(Z, K), Apart(Z), Flags(Z, K, {}), NotBoth(K, {}), AtLeast(K, {}),
           NEW c, IsUsed(K, c), NEW k, NEW a, CutAt(K, c, k, a), MinSize <= k,
           NEW M, M = CarvedAt(K, c, k, a)
    PROVE  CarveDone(Z, K, M, c, k, a)
  <1> DEFINE D == Divide(K, c, k)
             T == Take(D, a)
             s == K[c].size - k
             b == K[c].heap
  <1>1. AreChunks(K) /\ InOrder(K) /\ c \in DOMAIN K /\ K[c].cused /\ c \in Nat /\ K[c].size \in Nat /\ b \in Nat
    BY ChunkIn DEF IsUsed
  <1>2. k \in Nat /\ a = c + k /\ k >= 2 /\ s >= 5 /\ s \in Nat /\ a + s = c + K[c].size /\ a \in Nat /\ c # a
    BY <1>1 DEF CutAt, MinSize, Overhead
  <1>3. D = Divide(K, c, k) /\ T = Take(D, a)
    OBVIOUS
  <1> HIDE DEF D, T, s, b
  <1>4. M = Give(T, c)
    BY <1>3, CarvedIs
  <1>5. UsedDivided(Z, K, c, k, a, D)
    BY <1>3, DivideUsed
  <1>6. /\ Grid(Z, D) /\ IsFree(D, a) /\ IsUsed(D, c) /\ a \notin DOMAIN K
        /\ D[a].size = s /\ D[a].heap = b /\ D[c].size = k /\ D[c].heap = b
        /\ Flags(Z, D, {a}) /\ NotBoth(D, {a}) /\ AtLeast(D, {})
        /\ FreeChunks(D) = FreeChunks(K) \cup {a} /\ Used(D) = Updated(Used(K), c, k)
        /\ FreeUnits(D, b) = FreeUnits(K, b) \cup Area(a, s)
        /\ \A x : x # b => FreeUnits(D, x) = FreeUnits(K, x)
        /\ \A e \in DOMAIN K : e # c => D[e] = K[e]
    BY <1>5 DEF UsedDivided, s, b
  <1>7. Taken(Z, D, a, T)
    BY <1>3, <1>6, TakeIs
  <1>8. /\ Grid(Z, T) /\ AtLeast(T, {}) /\ T[c].size = k /\ T[c].heap = b /\ T[a].heap = b
        /\ T[a].size = s
        /\ DOMAIN T = DOMAIN D /\ \A e \in DOMAIN D : T[e].size = D[e].size
        /\ FreeChunks(T) = FreeChunks(D) \ {a} /\ Used(T) = Updated(Used(D), a, s)
        /\ FreeUnits(T, b) = FreeUnits(D, b) \ Area(a, s)
        /\ \A x : x # b => FreeUnits(T, x) = FreeUnits(D, x)
    BY <1>6, <1>7 DEF Taken, IsFree, IsUsed
  <1>9. IsUsed(T, c)
    BY <1>2, <1>6, <1>7 DEF Taken, IsUsed
  <1>10. Flags(Z, T, {}) /\ NotBoth(T, {})
    <2>1. {a} \ {a} = {}
      OBVIOUS
    <2>2. Flags(Z, T, {a} \ {a}) /\ NotBoth(T, {a} \ {a})
      BY <1>6, <1>7 DEF Taken
    <2> QED BY <2>1, <2>2
  <1>11. Given(Z, T, c, M)
    BY <1>4, <1>8, <1>9, GiveIs
  <1>12. /\ Grid(Z, M) /\ AtLeast(M, {}) /\ DOMAIN M = DOMAIN T /\ ~ M[c].cused
         /\ \A e \in DOMAIN T : M[e].size = T[e].size /\ M[e].heap = T[e].heap
         /\ FreeChunks(M) = FreeChunks(T) \cup {c} /\ Used(M) = Dropped(Used(T), c)
         /\ FreeUnits(M, b) = FreeUnits(T, b) \cup Area(c, k)
         /\ \A x : x # b => FreeUnits(M, x) = FreeUnits(T, x)
    BY <1>8, <1>11 DEF Given
  <1>13. Flags(Z, M, {}) /\ NotBoth(M, {c})
    <2>1. {} \ {c} = {} /\ {} \cup {c} = {c}
      OBVIOUS
    <2>2. Flags(Z, M, {} \ {c}) /\ NotBoth(M, {} \cup {c})
      BY <1>10, <1>11 DEF Given
    <2> QED BY <2>1, <2>2
  <1>14. ASSUME NEW F, Feet(K, F, {}) PROVE Feet(M, F, {c})
    <2>1. Feet(D, F, {a})
      BY <1>5, <1>14 DEF UsedDivided
    <2>2. Feet(T, F, {a} \ {a})
      BY <1>7, <2>1 DEF Taken
    <2>3. {a} \ {a} = {} /\ {} \cup {c} = {c}
      OBVIOUS
    <2>4. Feet(M, F, ({a} \ {a}) \cup {c})
      BY <1>11, <2>2 DEF Given
    <2> QED BY <2>3, <2>4
  <1>15. ASSUME NEW P \in SUBSET Nat, Clear(K, P), P \cap Area(c, K[c].size) = {} PROVE Clear(M, P)
    <2>1. P \cap Area(a, K[c].size - k) = {} /\ P \cap Area(c, T[c].size) = {}
      <3>1. Area(a, s) \subseteq Area(c, K[c].size) /\ Area(c, k) \subseteq Area(c, K[c].size)
        BY <1>1, <1>2 DEF Area
      <3> QED BY <1>8, <1>15, <3>1 DEF s
    <2>2. Clear(D, P)
      BY <1>5, <1>15, <2>1 DEF UsedDivided
    <2>3. Clear(T, P)
      BY <1>7, <2>2 DEF Taken
    <2> QED BY <1>11, <2>1, <2>3 DEF Given
  <1>16. a \notin FreeChunks(K) /\ c \notin FreeChunks(K)
    BY <1>1, <1>6 DEF FreeChunks
  <1>17. FreeChunks(M) = FreeChunks(K) \cup {c}
    BY <1>6, <1>8, <1>12, <1>16
  <1>18. FreeUnits(M, b) = FreeUnits(K, b) \cup Area(c, k)
    <2>1. Area(a, s) \cap FreeUnits(K, b) = {}
      <3>1. Area(c, K[c].size) \cap FreeUnits(K, b) = {}
        BY AreaFree
      <3>2. Area(a, s) \subseteq Area(c, K[c].size)
        BY <1>1, <1>2 DEF Area
      <3> QED BY <3>1, <3>2
    <2> QED BY <1>6, <1>8, <1>12, <2>1
  <1>19. \A x : x # b => FreeUnits(M, x) = FreeUnits(K, x)
    BY <1>6, <1>8, <1>12
  <1>20. \A e \in FreeChunks(K) : M[e].size = K[e].size
    <2>1. \A e \in FreeChunks(K) : e # c /\ e \in DOMAIN K /\ e \in DOMAIN D
      <3>1. FreeChunks(K) \subseteq FreeChunks(D)
        BY <1>6
      <3> QED BY <1>16, <3>1 DEF FreeChunks
    <2> QED BY <1>6, <1>8, <1>12, <2>1
  <1>21. Used(M) = Updated(Dropped(Used(K), c), a, s)
    <2> DEFINE V == Used(K)
    <2>1. Used(M) = Dropped(Updated(Updated(V, c, k), a, s), c)
      BY <1>6, <1>8, <1>12
    <2> HIDE DEF V
    <2>2. Dropped(Updated(Updated(V, c, k), a, s), c) = Updated(Dropped(V, c), a, s)
      BY <1>2 DEF Updated, Dropped
    <2> QED BY <2>1, <2>2 DEF V
  <1>22. IsFree(M, c) /\ M[c].size = k /\ M[c].heap = b /\ a \in DOMAIN M /\ M[a].heap = b
    BY <1>6, <1>8, <1>9, <1>12 DEF IsFree, IsUsed
  <1> QED BY <1>12, <1>13, <1>14, <1>15, <1>16, <1>17, <1>18, <1>19, <1>20, <1>21, <1>22 DEF CarveDone, s, b

LeadCut(h, c, k, a) ==
    SetFooter(SetHeader(SetHeader(h, a, Moved(h.chunk, c, k)), c, Lead(h.chunk, c, k)), c)

\* c, k units long, became free, is in no bin yet, and is counted
LeadFree(h, g, P, c, k, a) ==
    /\ Core(g, P) /\ CarveDone(Sizes(h), h.chunk, g.chunk, c, k, a) /\ Sizes(g) = Sizes(h)
    /\ Feet(g.chunk, g.foot, {}) /\ Binning(g, FreeChunks(g.chunk) \ {c})
    /\ Count(g) /\ Beside(h, g, h.chunk[c].heap)

BinAlike(h, g, S) ==
    /\ Binning(h, S) /\ SameBins(h, g)
    /\ \A x \in S : x \in DOMAIN g.chunk /\ ~ g.chunk[x].cused /\ g.chunk[x].size = h.chunk[x].size

LEMMA BinStays == ASSUME NEW h, NEW g, NEW S, BinAlike(h, g, S) PROVE Binning(g, S)
  <1>1. /\ Binning(h, S) /\ SameBins(h, g)
        /\ \A x \in S : x \in DOMAIN g.chunk /\ ~ g.chunk[x].cused /\ g.chunk[x].size = h.chunk[x].size
    BY DEF BinAlike
  <1> QED BY <1>1, BinFrame

LEMMA LeadFreed ==
    ASSUME NEW h, NEW P \in SUBSET Nat, Good(h, P), NEW c, IsUsed(h.chunk, c), NEW k, NEW a,
           CutAt(h.chunk, c, k, a), MinSize <= k, P \cap Area(c, h.chunk[c].size) = {},
           NEW b, b = h.chunk[c].heap, NEW v, v = h.heap[b].freesz + k,
           NEW e, e = LeadCut(h, c, k, a), NEW g, g = FreeszSet(e, b, v)
    PROVE  LeadFree(h, g, P, c, k, a)
  <1> DEFINE K == h.chunk
             Z == Sizes(h)
             A == Moved(K, c, k)
             C == Lead(K, c, k)
             h1 == SetHeader(h, a, A)
             h2 == SetHeader(h1, c, C)
             h3 == SetFooter(h2, c)
             M == CarvedAt(K, c, k, a)
             F == Updated(h.foot, c + k - 1, k)
  <1>1. /\ Core(h, P) /\ Flags(Z, K, {}) /\ NotBoth(K, {}) /\ Feet(K, h.foot, {})
        /\ AtLeast(K, {}) /\ Binning(h, FreeChunks(K)) /\ Count(h) /\ c \in DOMAIN K
    BY DEF Good, Settled, IsUsed
  <1>2. IsHeap(h) /\ HeapsFine(h) /\ Grid(Z, K) /\ Apart(Z)
    BY <1>1, CoreIs DEF Core
  <1>3. /\ c \in Nat /\ K[c].size \in Nat /\ b \in DOMAIN h.heap
        /\ h.heap[b].freesz \in Int /\ h.heap[b].size \in Nat /\ DOMAIN Z = DOMAIN h.heap
    BY <1>1, CoreIs
  <1>4. /\ k \in Nat /\ k >= 5 /\ a = c + k /\ a + 5 <= c + K[c].size /\ c # a /\ v \in Int
    BY <1>3 DEF CutAt, MinSize, Overhead
  <1>5. h1 = SetHeader(h, a, A) /\ h2 = SetHeader(h1, c, C) /\ h3 = SetFooter(h2, c)
        /\ g = FreeszSet(h3, b, v) /\ M = CarvedAt(K, c, k, a)
    BY DEF LeadCut
  <1> HIDE DEF h1, h2, h3, M
  <1>6. C.size = k
    BY DEF Lead, Hdr
  <1> HIDE DEF A, C
  <1>7. /\ Frame(h, h1) /\ SameBins(h, h1) /\ h1.heap = h.heap /\ h1.foot = h.foot
        /\ h1.chunk = Updated(K, a, A) /\ h1.wrote = h.wrote \cup {a, a + 1}
    BY <1>2, <1>5, SetHeaderIs
  <1>8. IsHeap(h1)
    BY <1>7 DEF Frame
  <1>9. /\ Frame(h1, h2) /\ SameBins(h1, h2) /\ h2.heap = h1.heap /\ h2.foot = h1.foot
        /\ h2.chunk = Updated(h1.chunk, c, C) /\ h2.wrote = h1.wrote \cup {c, c + 1}
    BY <1>5, <1>8, SetHeaderIs
  <1>10. IsHeap(h2) /\ h2.chunk = M /\ h2.chunk[c].size = k
    <2>1. h2.chunk = M
      BY <1>5, <1>7, <1>9 DEF CarvedAt, A, C
    <2>2. h2.chunk[c] = C
      BY <1>9 DEF Updated
    <2> QED BY <1>6, <1>9, <2>1, <2>2 DEF Frame
  <1>11. /\ Frame(h2, h3) /\ SameBins(h2, h3) /\ h3.heap = h2.heap /\ h3.chunk = M
         /\ h3.foot = F /\ h3.wrote = h2.wrote \cup {c + k - 1}
    <2>1. /\ Frame(h2, h3) /\ SameBins(h2, h3) /\ h3.heap = h2.heap /\ h3.chunk = h2.chunk
          /\ h3.foot = Updated(h2.foot, c + h2.chunk[c].size - 1, h2.chunk[c].size)
          /\ h3.wrote = h2.wrote \cup {c + h2.chunk[c].size - 1}
      BY <1>5, <1>10, SetFooterIs
    <2> QED BY <1>7, <1>9, <1>10, <2>1
  <1>12. IsHeap(h3)
    BY <1>11 DEF Frame
  <1>13. Counted(h3, g, b, v)
    BY <1>5, <1>12, FreeszIs
  <1>14. /\ Frame(h3, g) /\ SameBins(h3, g) /\ g.chunk = M /\ g.foot = F /\ g.wrote = h3.wrote
         /\ g.heap = WithFreesz(h.heap, b, v)
    BY <1>7, <1>9, <1>11, <1>13 DEF Counted
  <1>15. Frame(h, g) /\ SameBins(h, g)
    <2>1. Frame(h, h2)
      BY <1>7, <1>9, FrameTrans
    <2>2. Frame(h, h3)
      BY <1>11, <2>1, FrameTrans
    <2> QED BY <1>7, <1>9, <1>11, <1>14, <2>2, FrameTrans DEF SameBins
  <1>16. Refined(h, g, b, v)
    BY <1>2, <1>3, <1>4, <1>14, <1>15, FreeszFine
  <1>17. HeapsFine(g) /\ Sizes(g) = Z /\ Beside(h, g, b)
    BY <1>15, <1>16 DEF Refined, Beside, Frame, Z
  <1> HIDE DEF K, Z
  <1>18. CarveDone(Z, K, M, c, k, a)
    <2>1. IsUsed(K, c) /\ CutAt(K, c, k, a)
      BY DEF K
    <2> QED BY <1>1, <1>2, <1>5, <2>1, CarvedFine
  <1>19. /\ Grid(Z, M) /\ FreeChunks(M) = FreeChunks(K) \cup {c} /\ c \notin FreeChunks(K)
         /\ FreeUnits(M, K[c].heap) = FreeUnits(K, K[c].heap) \cup Area(c, k)
         /\ \A z : z # K[c].heap => FreeUnits(M, z) = FreeUnits(K, z)
         /\ \A y \in FreeChunks(K) : M[y].size = K[y].size
         /\ IsFree(M, c) /\ M[c].size = k /\ Feet(M, h.foot, {c})
    BY <1>1, <1>18 DEF CarveDone
  <1>20. Feet(M, F, {})
    <2>1. AreChunks(M) /\ InOrder(M) /\ (\A y \in DOMAIN M : M[y].size > 0) /\ c \in DOMAIN M
      <3>1. \A y \in DOMAIN M : M[y].size \in Nat /\ M[y].size >= 2
        BY <1>19, ChunkIn
      <3> QED BY <1>19, <3>1 DEF Grid, IsFree
    <2>2. Feet(M, Updated(h.foot, c + M[c].size - 1, M[c].size), {c} \ {c})
      BY <1>19, <2>1, FootSet
    <2>3. {c} \ {c} = {}
      OBVIOUS
    <2> QED BY <1>19, <2>2, <2>3
  <1>21. Core(g, P)
    <2>1. Clear(K, P) /\ h.wrote \cap P = {}
      BY <1>1 DEF Core, K
    <2>2. P \cap Area(c, K[c].size) = {}
      BY DEF K
    <2>3. Clear(M, P)
      BY <1>18, <2>1, <2>2 DEF CarveDone
    <2>4. {a, a + 1, c, c + 1, c + k - 1} \subseteq Area(c, K[c].size)
      BY <1>3, <1>4 DEF Area, K
    <2>5. g.wrote = h.wrote \cup {a, a + 1} \cup {c, c + 1} \cup {c + k - 1}
      BY <1>7, <1>9, <1>11, <1>14
    <2>6. g.wrote \cap P = {}
      <3>1. g.wrote \subseteq h.wrote \cup Area(c, K[c].size)
        BY <2>4, <2>5
      <3> QED BY <2>1, <2>2, <3>1
    <2>7. Grid(Sizes(g), g.chunk) /\ Clear(g.chunk, P)
      BY <1>14, <1>17, <1>19, <2>3
    <2> QED BY <1>15, <1>17, <2>6, <2>7 DEF Core, Frame
  <1>22. Binning(g, FreeChunks(M) \ {c})
    <2>1. FreeChunks(M) \ {c} = FreeChunks(K)
      BY <1>19
    <2>2. \A y \in FreeChunks(K) : y \in DOMAIN g.chunk /\ ~ g.chunk[y].cused
                                   /\ g.chunk[y].size = h.chunk[y].size
      <3>1. \A y \in FreeChunks(K) : y \in FreeChunks(M)
        BY <1>19
      <3> QED BY <1>14, <1>19, <3>1 DEF FreeChunks, K
    <2>3. Binning(h, FreeChunks(K)) /\ SameBins(h, g)
      BY <1>1, <1>15
    <2> DEFINE S == FreeChunks(K)
    <2> HIDE DEF S, F
    <2>4. \A x \in S : x \in DOMAIN g.chunk /\ ~ g.chunk[x].cused /\ g.chunk[x].size = h.chunk[x].size
      BY <2>2 DEF S
    <2>5. Binning(h, S)
      BY <2>3 DEF S
    <2>6. BinAlike(h, g, S)
      BY <2>3, <2>4, <2>5 DEF BinAlike
    <2>7. Binning(g, S)
      BY <2>6, BinStays
    <2> QED BY <2>1, <2>7 DEF S
  <1>23. Count(g)
    <2>1. Area(c, k) \cap FreeUnits(K, b) = {}
      <3>1. Area(c, K[c].size) \cap FreeUnits(K, b) = {}
        BY <1>2, AreaFree DEF K
      <3>2. Area(c, k) \subseteq Area(c, K[c].size)
        BY <1>3, <1>4 DEF Area, K
      <3> QED BY <3>1, <3>2
    <2>2. Gained(h.chunk, g.chunk, b, c, k)
      BY <1>14, <1>19, <2>1 DEF K, Gained
    <2>3. HeapsFine(h) /\ Grid(Sizes(h), h.chunk) /\ Count(h)
      BY <1>1, <1>2 DEF K, Z
    <2>4. /\ b \in DOMAIN h.heap /\ c \in Nat /\ k \in Nat /\ v \in Int /\ v = h.heap[b].freesz + k
          /\ g.heap = WithFreesz(h.heap, b, v)
      BY <1>3, <1>4, <1>14
    <2> QED BY <2>2, <2>3, <2>4, CountMore
  <1> QED BY <1>14, <1>17, <1>18, <1>20, <1>21, <1>22, <1>23 DEF LeadFree, K, Z

Carved(h, g, P, c, k, a) ==
    /\ Good(g, P) /\ Kept(g, {}) /\ IsUsed(g.chunk, a) /\ g.chunk[a].size = h.chunk[c].size - k
    /\ Used(g.chunk) = Updated(Dropped(Used(h.chunk), c), a, h.chunk[c].size - k)

LEMMA CarveIs ==
    ASSUME NEW h, NEW P \in SUBSET Nat, Good(h, P), Kept(h, {}), NEW c, IsUsed(h.chunk, c), NEW al,
           NEW a, a = AlignedAt(c, al), NEW k, k = a - c, CutAt(h.chunk, c, k, a), MinSize <= k,
           P \cap Area(c, h.chunk[c].size) = {}, NEW g, g = Carve(h, c, al)
    PROVE  Carved(h, g, P, c, k, a)
  <1> DEFINE b == h.chunk[c].heap
             v == h.heap[b].freesz + k
             A == Moved(h.chunk, c, k)
             C == Lead(h.chunk, c, k)
             h3 == LeadCut(h, c, k, a)
             f == FreeszSet(h3, b, v)
  <1>1. Core(h, P) /\ c \in DOMAIN h.chunk /\ AreChunks(h.chunk)
    <2>1. Core(h, P) /\ c \in DOMAIN h.chunk
      BY DEF Good, Settled, IsUsed
    <2> QED BY <2>1, CoreIs
  <1>2. b \in DOMAIN h.heap /\ b \notin FreeHeaps(h)
    BY NotAllFree
  <1>3. g = Join(PutChunk(f, c), c)
    <2>1. A = [size |-> Size(h, c) - k, heap |-> HeapOf(h, c), cused |-> TRUE, pused |-> FALSE]
      BY DEF Moved, Hdr, Size, HeapOf
    <2>2. C = [h.chunk[c] EXCEPT !.size = k, !.cused = FALSE]
      <3> DEFINE x == [h.chunk[c] EXCEPT !.size = k]
      <3>1. x = Hdr(k, b, h.chunk[c].cused, h.chunk[c].pused)
        BY <1>1, ChunkIs DEF Hdr, Chunk
      <3>2. [h.chunk[c] EXCEPT !.size = k, !.cused = FALSE] = [x EXCEPT !.cused = FALSE]
        OBVIOUS
      <3> HIDE DEF x
      <3>3. PICK u \in BOOLEAN : ~ u
        OBVIOUS
      <3>4. PICK p \in BOOLEAN : p = h.chunk[c].pused
        BY <1>1, ChunkIs
      <3>5. PICK t \in BOOLEAN : t = h.chunk[c].cused
        BY <1>1, ChunkIs
      <3>6. x = Hdr(k, b, t, p)
        BY <3>1, <3>4, <3>5
      <3>7. [x EXCEPT !.cused = u] = Hdr(k, b, u, p)
        BY <3>6 DEF Hdr
      <3>8. u = FALSE
        BY <3>3
      <3>9. C = Hdr(k, b, FALSE, h.chunk[c].pused)
        BY DEF Lead
      <3> QED BY <3>2, <3>4, <3>7, <3>8, <3>9
    <2>3. h3.heap = h.heap
      BY DEF SetFooter, SetHeader, LeadCut
    <2> DEFINE X == [size |-> Size(h, c) - k, heap |-> HeapOf(h, c), cused |-> TRUE, pused |-> FALSE]
               Y == [h.chunk[c] EXCEPT !.size = k, !.cused = FALSE]
               e == SetFooter(SetHeader(SetHeader(h, a, X), c, Y), c)
    <2>4. g = Join(PutChunk([e EXCEPT !.heap[HeapOf(h, c)].freesz = @ + k], c), c)
      BY DEF Carve
    <2>5. X = A /\ Y = C
      BY <2>1, <2>2
    <2> HIDE DEF X, Y, A, C
    <2>6. e = h3
      BY <2>5 DEF LeadCut, A, C
    <2> HIDE DEF e, h3
    <2>7. [h3 EXCEPT !.heap[HeapOf(h, c)].freesz = @ + k] = f
      BY <2>3 DEF FreeszSet, HeapOf
    <2> QED BY <2>4, <2>6, <2>7
  <1>4. v = h.heap[b].freesz + k /\ b = h.chunk[c].heap /\ h3 = LeadCut(h, c, k, a) /\ f = FreeszSet(h3, b, v)
    OBVIOUS
  <1> HIDE DEF f, v, h3
  <1>5. LeadFree(h, f, P, c, k, a)
    BY <1>4, LeadFreed
  <1> DEFINE M == f.chunk
             V == Updated(Dropped(Used(h.chunk), c), a, h.chunk[c].size - k)
  <1>6. /\ Core(f, P) /\ AtLeast(M, {}) /\ Flags(Sizes(f), M, {}) /\ NotBoth(M, {c})
        /\ Feet(M, f.foot, {}) /\ Binning(f, FreeChunks(M) \ {c}) /\ Count(f) /\ IsFree(M, c)
        /\ Beside(h, f, b) /\ Used(M) = V /\ Sizes(f) = Sizes(h) /\ a \in DOMAIN M /\ M[a].heap = b
    BY <1>5 DEF LeadFree, CarveDone
  <1>7. Kept(f, {b})
    BY <1>2, <1>6, KeptBeside
  <1> HIDE DEF b
  <1>8. Good(g, P) /\ Kept(g, {b}) /\ g.heap = f.heap /\ Used(g.chunk) = V
    <2> DEFINE Y == {b}
    <2>1. Loose(f, P, c) /\ Kept(f, Y)
      BY <1>6, <1>7 DEF Loose
    <2> HIDE DEF Y, V
    <2>2. Bound(f, g, P, Y)
      BY <1>3, <2>1, PutJoined
    <2> QED BY <1>6, <2>2 DEF Bound, Y
  <1>9. IsUsed(g.chunk, a) /\ g.chunk[a].size = h.chunk[c].size - k
    BY <1>8 DEF Used, Updated, IsUsed
  <1>10. g.chunk[a].heap = b
    <2>1. Core(f, P) /\ Core(g, P) /\ a \in DOMAIN f.chunk /\ a \in DOMAIN g.chunk
      BY <1>6, <1>8, <1>9 DEF Good, Settled, IsUsed
    <2>2. Sizes(g) = Sizes(f)
      BY <1>8 DEF Sizes
    <2>3. g.chunk[a].heap = f.chunk[a].heap
      BY <2>1, <2>2, SameHeap
    <2> QED BY <1>6, <2>3
  <1>11. b \notin FreeHeaps(g)
    BY <1>8, <1>9, <1>10, NotAllFree
  <1>12. Kept(g, {})
    BY <1>8, <1>11, KeptStill
  <1> QED BY <1>8, <1>9, <1>12 DEF Carved

-----------------------------------------------------------------------------
(* Between sections: the blocks the callers hold, and what of them is to   *)
(* be left alone while the chunks in use change from U to V                *)

Sized(U) == DOMAIN U \subseteq Nat /\ \A c \in DOMAIN U : U[c] \in Nat /\ U[c] >= MinSize
Safe(U, V) ==
    {u \in Nat : \E c \in DOMAIN U \cap DOMAIN V :
                    c + Overhead <= u /\ u < c + U[c] /\ u < c + V[c]}

LEMMA BlocksAre ==
    ASSUME NEW U, Sized(U), NEW B, B = Blocks(U)
    PROVE  /\ DOMAIN B \subseteq Nat
           /\ \A p \in DOMAIN B : /\ p - Overhead \in DOMAIN U /\ B[p] = U[p - Overhead] - Overhead
                                  /\ B[p] \in Nat /\ p - Overhead \in Nat
           /\ \A c \in DOMAIN U : c + Overhead \in DOMAIN B /\ B[c + Overhead] = U[c] - Overhead
  <1>1. DOMAIN B = {c + 2 : c \in DOMAIN U} /\ \A p \in DOMAIN B : B[p] = U[p - 2] - 2
    BY DEF Blocks, Overhead
  <1>2. DOMAIN U \subseteq Nat /\ \A c \in DOMAIN U : U[c] \in Nat /\ U[c] >= 5
    BY DEF Sized, MinSize
  <1>3. \A p \in DOMAIN B : p \in Nat /\ p - 2 \in DOMAIN U
    BY <1>1, <1>2
  <1>4. \A p \in DOMAIN B : B[p] \in Nat /\ p - 2 \in Nat
    BY <1>1, <1>2, <1>3
  <1>5. \A c \in DOMAIN U : c + 2 \in DOMAIN B /\ (c + 2) - 2 = c
    BY <1>1, <1>2
  <1> QED BY <1>1, <1>3, <1>4, <1>5 DEF Overhead

LEMMA BlocksUpdated ==
    ASSUME NEW U, Sized(U), NEW c \in Nat, NEW v \in Nat, v >= MinSize,
           NEW V, V = Updated(U, c, v), NEW p, p = c + Overhead, NEW n, n = v - Overhead
    PROVE  Sized(V) /\ Blocks(V) = Updated(Blocks(U), p, n)
  <1>1. DOMAIN V = DOMAIN U \cup {c} /\ V[c] = v /\ \A x \in DOMAIN U : x # c => V[x] = U[x]
    BY DEF Updated
  <1>2. Sized(V)
    BY <1>1 DEF Sized
  <1> DEFINE A == Blocks(U)
             B == Blocks(V)
             C == Updated(A, p, n)
  <1>3. /\ DOMAIN B = {x + 2 : x \in DOMAIN V} /\ \A q \in DOMAIN B : B[q] = V[q - 2] - 2
        /\ B = [q \in DOMAIN B |-> B[q]]
    BY Zenon DEF Blocks, Overhead
  <1>4. /\ DOMAIN A = {x + 2 : x \in DOMAIN U} /\ \A q \in DOMAIN A : A[q] = U[q - 2] - 2
    BY DEF Blocks, Overhead
  <1> HIDE DEF A, B
  <1>5. DOMAIN C = DOMAIN A \cup {p} /\ \A q \in DOMAIN C : C[q] = IF q = p THEN n ELSE A[q]
    BY DEF Updated
  <1>6. C = [q \in DOMAIN C |-> C[q]]
    BY Zenon DEF Updated
  <1> HIDE DEF C
  <1>7. DOMAIN U \subseteq Nat /\ p = c + 2 /\ n = v - 2
    BY DEF Sized, Overhead
  <1>8. DOMAIN B = DOMAIN C
    BY <1>1, <1>3, <1>4, <1>5, <1>7
  <1>9. ASSUME NEW q \in DOMAIN B
        PROVE  B[q] = C[q]
    <2>1. PICK x \in DOMAIN V : q = x + 2
      BY <1>3
    <2>2. x \in Nat /\ q - 2 = x
      BY <1>1, <1>7, <2>1
    <2>3. B[q] = V[x] - 2
      BY <1>3, <2>2
    <2>4. CASE x = c
      BY <1>1, <1>5, <1>7, <1>8, <2>1, <2>3, <2>4
    <2>5. CASE x # c
      <3>1. q # p /\ x \in DOMAIN U /\ q \in DOMAIN A
        BY <1>1, <1>4, <1>7, <2>1, <2>2, <2>5
      <3>2. C[q] = A[q]
        BY <1>5, <1>8, <3>1
      <3>3. A[q] = U[x] - 2
        BY <1>4, <2>2, <3>1
      <3> QED BY <1>1, <2>3, <2>5, <3>1, <3>2, <3>3
    <2> QED BY <2>4, <2>5
  <1>10. B = C
    BY Zenon, <1>3, <1>6, <1>8, <1>9
  <1> QED BY <1>2, <1>10 DEF A, B, C

LEMMA BlocksDropped ==
    ASSUME NEW U, Sized(U), NEW c \in Nat, NEW V, V = Dropped(U, c), NEW p, p = c + Overhead
    PROVE  Sized(V) /\ Blocks(V) = Dropped(Blocks(U), p)
  <1>1. DOMAIN V = DOMAIN U \ {c} /\ \A x \in DOMAIN V : V[x] = U[x]
    BY DEF Dropped
  <1>2. Sized(V)
    BY <1>1 DEF Sized
  <1> DEFINE A == Blocks(U)
             B == Blocks(V)
             C == Dropped(A, p)
  <1>3. /\ DOMAIN B = {x + 2 : x \in DOMAIN V} /\ \A q \in DOMAIN B : B[q] = V[q - 2] - 2
        /\ B = [q \in DOMAIN B |-> B[q]]
    BY Zenon DEF Blocks, Overhead
  <1>4. /\ DOMAIN A = {x + 2 : x \in DOMAIN U} /\ \A q \in DOMAIN A : A[q] = U[q - 2] - 2
    BY DEF Blocks, Overhead
  <1> HIDE DEF A, B
  <1>5. DOMAIN C = DOMAIN A \ {p} /\ (\A q \in DOMAIN C : C[q] = A[q])
    BY DEF Dropped
  <1>6. C = [q \in DOMAIN C |-> C[q]]
    BY Zenon DEF Dropped
  <1> HIDE DEF C
  <1>7. DOMAIN U \subseteq Nat /\ p = c + 2
    BY DEF Sized, Overhead
  <1>8. DOMAIN B = DOMAIN C
    BY <1>1, <1>3, <1>4, <1>5, <1>7
  <1>9. ASSUME NEW q \in DOMAIN B
        PROVE  B[q] = C[q]
    <2>1. PICK x \in DOMAIN V : q = x + 2
      BY <1>3
    <2>2. x \in Nat /\ q - 2 = x
      BY <1>1, <1>7, <2>1
    <2>3. q \in DOMAIN A /\ q \in DOMAIN C
      BY <1>5, <1>8
    <2>4. B[q] = V[x] - 2 /\ A[q] = U[x] - 2
      BY <1>3, <1>4, <2>2, <2>3
    <2> QED BY <1>1, <1>5, <2>3, <2>4
  <1>10. B = C
    BY Zenon, <1>3, <1>6, <1>8, <1>9
  <1> QED BY <1>2, <1>10 DEF A, B, C

LEMMA UsedSized ==
    ASSUME NEW h, NEW P, Good(h, P)
    PROVE  Sized(Used(h.chunk))
  <1>1. Core(h, P) /\ AtLeast(h.chunk, {})
    BY DEF Good, Settled
  <1>2. \A c \in DOMAIN h.chunk : c \in Nat /\ h.chunk[c].size \in Nat /\ h.chunk[c].size >= MinSize
    BY <1>1, CoreIs DEF AtLeast
  <1> QED BY <1>2 DEF Sized, Used

Ready(h, P) == Good(h, P) /\ Kept(h, {}) /\ P \subseteq Mapped(h)

LEMMA SectionBegins ==
    ASSUME NEW h, Sound(h), h.wrote = {}, NEW P \in SUBSET Nat,
           P \subseteq Safe(Used(h.chunk), Used(h.chunk))
    PROVE  Ready(h, P)
  <1> DEFINE K == h.chunk
  <1>1. Core(h, {})
    BY DEF Core, Sound, Clear
  <1>2. \A u \in P : \E c \in DOMAIN K : K[c].cused /\ c + 2 <= u /\ u < c + K[c].size
    BY DEF Safe, Used, Overhead
  <1>3. /\ InOrder(K)
        /\ \A c \in DOMAIN K :
              /\ c \in Nat /\ K[c].size \in Nat /\ K[c].size >= 2 /\ K[c].heap \in DOMAIN h.heap
              /\ K[c].heap + 2 <= c /\ c + K[c].size <= K[c].heap + h.heap[K[c].heap].size
    BY <1>1, CoreIs
  <1>4. Clear(K, P)
    <2>1. ASSUME NEW c \in DOMAIN K, NEW u \in P
          PROVE  c # u /\ c + 1 # u /\ (~ K[c].cused => ~ (c <= u /\ u < c + K[c].size))
      <3>1. PICK d \in DOMAIN K : K[d].cused /\ d + 2 <= u /\ u < d + K[d].size
        BY <1>2
      <3>2. u \in Nat /\ c \in Nat /\ d \in Nat /\ K[c].size \in Nat /\ K[c].size >= 2
            /\ K[d].size \in Nat /\ K[d].size >= 2
        BY <1>3
      <3>3. (c < d => c + K[c].size <= d) /\ (d < c => d + K[d].size <= c)
        BY <1>3 DEF InOrder
      <3>4. CASE c = d
        BY <3>1, <3>2, <3>4
      <3>5. CASE c # d
        BY <3>1, <3>2, <3>3, <3>5
      <3> QED BY <3>4, <3>5
    <2> QED BY <2>1 DEF Clear
  <1>5. P \subseteq Mapped(h)
    <2>1. ASSUME NEW u \in P
          PROVE  \E b \in DOMAIN h.heap : u \in Extent(b, h.heap[b].size)
      <3>1. PICK d \in DOMAIN K : d + 2 <= u /\ u < d + K[d].size
        BY <1>2
      <3>2. /\ u \in Int /\ d \in Nat /\ K[d].size \in Nat /\ K[d].heap \in DOMAIN h.heap
            /\ K[d].heap + 2 <= d /\ d + K[d].size <= K[d].heap + h.heap[K[d].heap].size
        BY <1>3
      <3>3. K[d].heap \in Nat /\ h.heap[K[d].heap].size \in Nat
        BY <1>1, <3>2, CoreIs
      <3>4. u \in Extent(K[d].heap, h.heap[K[d].heap].size)
        BY <3>1, <3>2, <3>3 DEF Extent
      <3> QED BY <3>2, <3>4
    <2> QED BY <2>1 DEF Mapped
  <1>6. Core(h, P)
    BY <1>4 DEF Core, Sound
  <1>7. Good(h, P)
    BY <1>6 DEF Good, Settled, Sound
  <1>8. Kept(h, {})
    BY DEF Sound
  <1> QED BY <1>5, <1>7, <1>8 DEF Ready

LEMMA SafeApart ==
    ASSUME NEW h, Sound(h), NEW U, U = Used(h.chunk), NEW c \in DOMAIN U, NEW V
    PROVE  /\ Safe(U, V) \subseteq Nat /\ Safe(U, V) \subseteq Safe(U, U)
           /\ c \notin DOMAIN V => Safe(U, V) \cap Area(c, h.chunk[c].size) = {}
           /\ \A s \in Nat : V = Updated(U, c, s)
                  => Safe(U, V) \cap Area(c + s, h.chunk[c].size - s) = {}
  <1> DEFINE K == h.chunk
  <1>1. AreChunks(K) /\ InOrder(K)
    BY DEF Sound, Grid
  <1>2. \A x \in DOMAIN K : x \in Nat /\ K[x].size \in Nat
    BY <1>1, ChunkIs
  <1>3. DOMAIN U \subseteq DOMAIN K /\ \A x \in DOMAIN U : U[x] = K[x].size
    BY DEF Used
  <1>4. ASSUME NEW u \in Safe(U, V), NEW x \in DOMAIN U, x # c, x + 2 <= u, u < x + U[x]
        PROVE  ~ (c <= u /\ u < c + K[c].size)
    <2>1. u \in Nat
      BY DEF Safe
    <2>2. x \in Nat /\ c \in Nat /\ K[c].size \in Nat /\ K[x].size \in Nat /\ U[x] = K[x].size
      BY <1>2, <1>3
    <2>3. (c < x => c + K[c].size <= x) /\ (x < c => x + K[x].size <= c)
      BY <1>1, <1>3 DEF InOrder
    <2> QED BY <1>4, <2>1, <2>2, <2>3
  <1>5. c \notin DOMAIN V => Safe(U, V) \cap Area(c, K[c].size) = {}
    <2>1. ASSUME c \notin DOMAIN V, NEW u \in Safe(U, V), u \in Area(c, K[c].size)
          PROVE  FALSE
      <3>1. PICK x \in DOMAIN U \cap DOMAIN V : x + 2 <= u /\ u < x + U[x]
        BY DEF Safe, Overhead
      <3>2. x # c
        BY <2>1
      <3>3. ~ (c <= u /\ u < c + K[c].size)
        BY <1>4, <3>1, <3>2
      <3> QED BY <2>1, <3>3 DEF Area
    <2> QED BY <2>1
  <1>6. ASSUME NEW s \in Nat, V = Updated(U, c, s)
        PROVE  Safe(U, V) \cap Area(c + s, K[c].size - s) = {}
    <2>1. ASSUME NEW u \in Safe(U, V), u \in Area(c + s, K[c].size - s)
          PROVE  FALSE
      <3>1. PICK x \in DOMAIN U \cap DOMAIN V : x + 2 <= u /\ u < x + U[x] /\ u < x + V[x]
        BY DEF Safe, Overhead
      <3>2. u \in Nat /\ c + s <= u /\ u < (c + s) + (K[c].size - s)
        BY <2>1 DEF Area
      <3>3. c \in Nat /\ K[c].size \in Nat
        BY <1>2, <1>3
      <3>4. c <= u /\ u < c + K[c].size
        BY <3>2, <3>3
      <3>5. CASE x = c
        <4>1. V[c] = s
          BY <1>6 DEF Updated
        <4> QED BY <3>1, <3>2, <3>3, <3>5, <4>1
      <3>6. CASE x # c
        BY <1>4, <3>1, <3>4, <3>6
      <3> QED BY <3>5, <3>6
    <2> QED BY <2>1
  <1>7. Safe(U, V) \subseteq Nat /\ Safe(U, V) \subseteq Safe(U, U)
    BY DEF Safe
  <1> QED BY <1>5, <1>6, <1>7

-----------------------------------------------------------------------------
(* A section ends                                                          *)

\* What Commit makes of the heap
Closed(h) ==
    [h EXCEPT !.wrote = {}, !.bins = [b \in {x \in DOMAIN @ : @[x] # {}} |-> @[b]],
              !.foot = [a \in DOMAIN @ \cap FreeEnds(h) |-> @[a]]]

Cleaned(h, g) ==
    /\ Frame(h, g) /\ g.heap = h.heap /\ g.chunk = h.chunk /\ g.wrote = {}
    /\ g.binmap = h.binmap /\ g.freesz = h.freesz
    /\ g.bins = [b \in {x \in DOMAIN h.bins : h.bins[x] # {}} |-> h.bins[b]]
    /\ g.foot = [a \in DOMAIN h.foot \cap FreeEnds(h) |-> h.foot[a]]

LEMMA ClosedIs ==
    ASSUME NEW h, IsHeap(h), NEW g, g = Closed(h)
    PROVE  Cleaned(h, g)
BY DEF Closed, Cleaned, Frame, IsHeap

LEMMA CleanBins ==
    ASSUME NEW h, NEW g, Cleaned(h, g), NEW S, Binning(h, S)
    PROVE  Binning(g, S) /\ \A b \in DOMAIN g.bins : g.bins[b] # {}
  <1>1. /\ g.chunk = h.chunk /\ g.binmap = h.binmap /\ g.freesz = h.freesz
        /\ g.bins = [b \in {x \in DOMAIN h.bins : h.bins[x] # {}} |-> h.bins[b]]
    BY DEF Cleaned
  <1>2. \A b : Bins(g, b) = Bins(h, b)
    BY <1>1 DEF Bins
  <1>3. \A c : BinOf(g, c) = BinOf(h, c)
    BY <1>1 DEF BinOf
  <1>4. Binning(g, S)
    BY <1>1, <1>2, <1>3 DEF Binning
  <1> QED BY <1>1, <1>4

LEMMA CleanFeet ==
    ASSUME NEW h, NEW g, Cleaned(h, g), Feet(h.chunk, h.foot, {})
    PROVE  Feet(g.chunk, g.foot, {})
  <1>1. g.chunk = h.chunk /\ g.foot = [a \in DOMAIN h.foot \cap FreeEnds(h) |-> h.foot[a]]
    BY DEF Cleaned
  <1>2. \A c \in DOMAIN h.chunk : ~ h.chunk[c].cused => c + h.chunk[c].size - 1 \in FreeEnds(h)
    BY DEF FreeEnds, Size
  <1>3. \A a \in FreeEnds(h) : FootAt(g.foot, a) = FootAt(h.foot, a)
    BY <1>1 DEF FootAt
  <1> QED BY <1>1, <1>2, <1>3 DEF Feet

\* The heap's part of what holds between sections
Shut(h, g) ==
    /\ Sound(g) /\ g.wrote = {} /\ Used(g.chunk) = Used(h.chunk)
    /\ \A b \in DOMAIN g.bins : g.bins[b] # {}

LEMMA Closing ==
    ASSUME NEW h, NEW P, Good(h, P), Kept(h, {}), NEW g, g = Closed(h)
    PROVE  Shut(h, g)
  <1>1. /\ Core(h, P) /\ AtLeast(h.chunk, {}) /\ Flags(Sizes(h), h.chunk, {})
        /\ NotBoth(h.chunk, {}) /\ Feet(h.chunk, h.foot, {}) /\ Binning(h, FreeChunks(h.chunk))
        /\ Count(h)
    BY DEF Good, Settled
  <1>2. IsHeap(h) /\ HeapsFine(h) /\ Grid(Sizes(h), h.chunk)
    BY <1>1 DEF Core
  <1>3. Cleaned(h, g)
    BY <1>2, ClosedIs
  <1>4. Frame(h, g) /\ g.heap = h.heap /\ g.chunk = h.chunk /\ g.wrote = {}
    BY <1>3 DEF Cleaned
  <1>5. HeapsFine(g) /\ Sizes(g) = Sizes(h)
    BY <1>2, <1>4, FrameFine
  <1>6. Binning(g, FreeChunks(h.chunk)) /\ \A b \in DOMAIN g.bins : g.bins[b] # {}
    <2> DEFINE S == FreeChunks(h.chunk)
    <2>1. Binning(h, S)
      BY <1>1
    <2> HIDE DEF S
    <2>2. Binning(g, S) /\ \A b \in DOMAIN g.bins : g.bins[b] # {}
      BY <1>3, <2>1, CleanBins
    <2> QED BY <2>2 DEF S
  <1>7. Feet(g.chunk, g.foot, {})
    BY <1>1, <1>3, CleanFeet
  <1>8. Count(g)
    BY <1>1, <1>4 DEF Count
  <1>9. Kept(g, {})
    BY <1>4 DEF Kept, Frame, Whole
  <1>10. IsHeap(g)
    BY <1>4 DEF Frame
  <1>11. /\ Grid(Sizes(g), g.chunk) /\ AtLeast(g.chunk, {}) /\ Flags(Sizes(g), g.chunk, {})
         /\ NotBoth(g.chunk, {}) /\ Binning(g, FreeChunks(g.chunk)) /\ Used(g.chunk) = Used(h.chunk)
    BY <1>1, <1>2, <1>4, <1>5, <1>6
  <1> QED BY <1>4, <1>5, <1>6, <1>7, <1>8, <1>9, <1>10, <1>11 DEF Shut, Sound

\* A section whose writes stay off what the callers keep
Section(h, P, V) ==
    Good(h, P) /\ Kept(h, {}) /\ V = Used(h.chunk) /\ Safe(Used(m.chunk), V) \cap h.wrote = {}

LEMMA SectionEnds ==
    ASSUME Rest, NEW h, NEW P, NEW V, Section(h, P, V), NEW L, L = Blocks(V), Commit(h, L)
    PROVE  Rest'
  <1> DEFINE U == Used(m.chunk)
  <1>1. m' = Closed(h) /\ live' = L
    BY Zenon DEF Commit, Closed
  <1>2. Good(h, P) /\ Kept(h, {}) /\ V = Used(h.chunk) /\ Safe(U, V) \cap h.wrote = {}
    BY DEF Section
  <1>3. Shut(h, m')
    BY <1>1, <1>2, Closing
  <1>4. Sound(m') /\ m'.wrote = {} /\ (\A b \in DOMAIN m'.bins : m'.bins[b] # {})
        /\ live' = Blocks(Used(m'.chunk))
    BY <1>1, <1>2, <1>3 DEF Shut
  <1>5. Sized(U) /\ Sized(V)
    <2>1. Good(m, {})
      <3>1. {} \subseteq Safe(Used(m.chunk), Used(m.chunk))
        OBVIOUS
      <3>2. Sound(m) /\ m.wrote = {} /\ {} \in SUBSET Nat
        BY DEF Rest
      <3>3. Ready(m, {})
        BY <3>1, <3>2, SectionBegins
      <3> QED BY <3>3 DEF Ready
    <2>2. Sized(U)
      BY <2>1, UsedSized
    <2>3. Sized(V)
      BY <1>2, UsedSized
    <2> QED BY <2>2, <2>3
  <1> HIDE DEF U
  <1>6. live = Blocks(U)
    BY DEF Rest, U
  <1>7. ASSUME NEW p \in DOMAIN live \cap DOMAIN L
        PROVE  BlockAt(p, Min({live[p], L[p]})) \cap h.wrote = {}
    <2> DEFINE c == p - Overhead
    <2>1. c \in DOMAIN U /\ live[p] = U[c] - Overhead /\ live[p] \in Nat /\ p \in Nat
      BY <1>5, <1>6, BlocksAre
    <2>2. c \in DOMAIN V /\ L[p] = V[c] - Overhead /\ L[p] \in Nat
      BY <1>5, BlocksAre
    <2>3. U[c] \in Nat /\ V[c] \in Nat
      BY <1>5, <2>1, <2>2 DEF Sized
    <2> DEFINE n == Min({live[p], L[p]})
    <2>4. n \in Nat /\ n <= live[p] /\ n <= L[p]
      <3>1. n = IF live[p] <= L[p] THEN live[p] ELSE L[p]
        BY <2>1, <2>2, MinOf
      <3> QED BY <2>1, <2>2, <3>1
    <2> HIDE DEF n
    <2>5. ASSUME NEW u \in BlockAt(p, n)
          PROVE  u \in Safe(U, V)
      <3>1. u \in Nat /\ p <= u /\ u < p + n
        BY <2>1, <2>4 DEF BlockAt
      <3>2. c + 2 = p /\ live[p] = U[c] - 2 /\ L[p] = V[c] - 2
        BY <2>1, <2>2 DEF Overhead
      <3>3. c \in Int
        BY <2>1 DEF Overhead
      <3> HIDE DEF c
      <3>4. c + 2 <= u /\ u < c + U[c] /\ u < c + V[c]
        BY <2>1, <2>2, <2>3, <2>4, <3>1, <3>2, <3>3
      <3> QED BY <2>1, <2>2, <3>1, <3>4 DEF Safe, Overhead
    <2>6. BlockAt(p, n) \cap h.wrote = {}
      BY <1>2, <2>5 DEF U
    <2> QED BY <2>6 DEF n
  <1>8. spoilt' = {}
    <2>1. spoilt' = spoilt \cup {p \in DOMAIN live \cap DOMAIN L :
                                   BlockAt(p, Min({live[p], L[p]})) \cap h.wrote # {}}
      BY Zenon DEF Commit
    <2>2. spoilt = {}
      BY DEF Rest
    <2> DEFINE Q(p) == BlockAt(p, Min({live[p], L[p]})) \cap h.wrote = {}
    <2>3. \A p \in DOMAIN live \cap DOMAIN L : Q(p)
      BY <1>7
    <2>4. spoilt' = spoilt \cup {p \in DOMAIN live \cap DOMAIN L : ~ Q(p)}
      BY <2>1
    <2> HIDE DEF Q
    <2> QED BY <2>2, <2>3, <2>4
  <1> QED BY <1>4, <1>8 DEF Rest

-----------------------------------------------------------------------------
(* The sections the callers run                                            *)

\* c is the chunk of the block at p
Owned(c, p) ==
    /\ IsUsed(m.chunk, c) /\ c \in DOMAIN Used(m.chunk) /\ c \in Nat /\ p = c + Overhead /\ p \in Nat
    /\ m.chunk[c].size \in Nat /\ m.chunk[c].size >= MinSize
    /\ Used(m.chunk)[c] = m.chunk[c].size
    /\ live[p] = m.chunk[c].size - Overhead /\ live[p] \in Nat

LEMMA RestIs ==
    ASSUME Rest
    PROVE  /\ Sound(m) /\ m.wrote = {} /\ live = Blocks(Used(m.chunk)) /\ Sized(Used(m.chunk))
           /\ \A P \in SUBSET Nat : P \subseteq Safe(Used(m.chunk), Used(m.chunk)) => Ready(m, P)
  <1>1. Sound(m) /\ m.wrote = {} /\ live = Blocks(Used(m.chunk))
    BY DEF Rest
  <1>2. \A P \in SUBSET Nat : P \subseteq Safe(Used(m.chunk), Used(m.chunk)) => Ready(m, P)
    BY <1>1, SectionBegins
  <1>3. Ready(m, {})
    BY <1>2
  <1>4. Good(m, {})
    BY <1>3 DEF Ready
  <1> QED BY <1>1, <1>2, <1>4, UsedSized

LEMMA OwnedIs ==
    ASSUME Rest, NEW p \in DOMAIN live, NEW c, c = p - Overhead
    PROVE  Owned(c, p)
  <1> DEFINE U == Used(m.chunk)
  <1>1. live = Blocks(U) /\ Sized(U)
    BY RestIs
  <1>2. c \in DOMAIN U => m.chunk[c].cused /\ c \in DOMAIN m.chunk /\ U[c] = m.chunk[c].size
    BY DEF Used
  <1> HIDE DEF U
  <1>3. /\ p \in Nat /\ c \in Nat /\ c \in DOMAIN U /\ live[p] \in Nat /\ live[p] = U[c] - Overhead
    BY <1>1, BlocksAre
  <1>4. U[c] \in Nat /\ U[c] >= MinSize
    BY <1>1, <1>3 DEF Sized
  <1>5. p = c + Overhead
    BY <1>3 DEF Overhead
  <1> QED BY <1>2, <1>3, <1>4, <1>5 DEF Owned, IsUsed, U

\* The callers get a block at p, of a chunk of at least `size' units
Granted(p, size) ==
    /\ p \in Nat /\ p \notin DOMAIN live /\ live' = Updated(live, p, live'[p])
    /\ live'[p] \in Nat /\ live'[p] + Overhead >= size

LEMMA AllocSection ==
    ASSUME Rest, NEW size \in Nat, MinSize <= size, NEW r \in Alloc(m, size),
           NEW p, p = r[2] + Overhead, Commit(r[1], LiveWith(r[1], p))
    PROVE  Rest' /\ Granted(p, size)
  <1> DEFINE U == Used(m.chunk)
             P == Safe(U, U)
             h == r[1]
             c == r[2]
             V == Used(h.chunk)
             s == h.chunk[c].size
             n == s - Overhead
             L == LiveWith(h, p)
  <1>1. P \in SUBSET Nat /\ P \subseteq Safe(U, U)
    BY DEF Safe
  <1>2. Ready(m, P)
    BY <1>1, RestIs
  <1>3. Good(m, P) /\ Kept(m, {}) /\ P \subseteq Mapped(m)
    BY <1>2 DEF Ready
  <1> HIDE DEF P
  <1>4. Allotted(m, r, P, size)
    BY <1>1, <1>3, AllocIs
  <1>5. Good(h, P) /\ Kept(h, {}) /\ c \notin DOMAIN U /\ V = Updated(U, c, s) /\ size <= s
        /\ c \in DOMAIN V /\ V[c] = s
    BY <1>4 DEF Allotted, Updated
  <1>6. Sized(U) /\ Sized(V) /\ live = Blocks(U)
    BY <1>5, UsedSized, RestIs
  <1>7. c \in Nat /\ s \in Nat /\ s >= MinSize
    BY <1>5, <1>6 DEF Sized
  <1>8. r[1] = h /\ n = s - Overhead /\ p = c + Overhead
    OBVIOUS
  <1>9. L = Updated(live, p, n)
    <2>1. p - Overhead = c
      BY <1>7, <1>8 DEF Overhead
    <2> QED BY <2>1 DEF LiveWith, Usable, Size
  <1>10. Safe(U, V) \cap h.wrote = {}
    <2>1. Safe(U, V) \subseteq P
      BY DEF Safe, P
    <2>2. h.wrote \cap P = {}
      BY <1>5 DEF Good, Settled, Core
    <2> QED BY <2>1, <2>2
  <1>11. Commit(h, L)
    OBVIOUS
  <1> HIDE DEF h, c, s, n, L
  <1>12. L = Blocks(V)
    <2>1. V = Updated(U, c, s)
      BY <1>5
    <2> HIDE DEF U, V
    <2>2. Blocks(V) = Updated(Blocks(U), p, n)
      BY <1>6, <1>7, <1>8, <2>1, BlocksUpdated
    <2> QED BY <1>6, <1>9, <2>2
  <1>13. Section(h, P, V)
    BY <1>5, <1>10 DEF Section
  <1>14. Rest'
    BY <1>11, <1>12, <1>13, SectionEnds
  <1>15. live' = L
    BY <1>11 DEF Commit
  <1>16. p \notin DOMAIN live
    <2> HIDE DEF U
    <2>1. p \in DOMAIN live => p - Overhead \in DOMAIN U
      BY <1>6, BlocksAre
    <2>2. p - Overhead = c
      BY <1>7, <1>8 DEF Overhead
    <2> QED BY <1>5, <2>1, <2>2
  <1>17. live'[p] = n
    BY <1>9, <1>15 DEF Updated
  <1>18. p \in Nat /\ n \in Nat /\ n + Overhead >= size
    BY <1>5, <1>7, <1>8 DEF Overhead, MinSize
  <1> QED BY <1>9, <1>14, <1>15, <1>16, <1>17, <1>18 DEF Granted

LEMMA FreeSection ==
    ASSUME Rest, NEW p \in DOMAIN live, NEW c, c = p - Overhead, NEW h, h = FreeBlock(m, c),
           Commit(h, LiveWithout(p))
    PROVE  Rest' /\ live' = Dropped(live, p)
  <1> DEFINE U == Used(m.chunk)
             V == Dropped(U, c)
             P == Safe(U, V)
             L == LiveWithout(p)
  <1>1. Owned(c, p)
    BY OwnedIs
  <1>2. IsUsed(m.chunk, c) /\ c \in DOMAIN U /\ c \in Nat /\ p = c + Overhead
    BY <1>1 DEF Owned
  <1>3. /\ P \in SUBSET Nat /\ P \subseteq Safe(U, U) /\ P \cap Area(c, m.chunk[c].size) = {}
    <2>1. Sound(m) /\ c \notin DOMAIN V
      BY RestIs DEF Dropped
    <2> HIDE DEF V
    <2>2. U = Used(m.chunk)
      OBVIOUS
    <2> HIDE DEF U
    <2> QED BY <1>2, <2>1, <2>2, SafeApart
  <1>4. Ready(m, P)
    BY <1>3, RestIs
  <1>5. Good(m, P) /\ Kept(m, {})
    BY <1>4 DEF Ready
  <1> HIDE DEF P
  <1>6. FreeDone(m, h, P, c)
    BY <1>2, <1>3, <1>5, FreeBlockIs
  <1>7. Good(h, P) /\ Kept(h, {}) /\ V = Used(h.chunk)
    BY <1>6 DEF FreeDone
  <1>8. Safe(U, V) \cap h.wrote = {}
    BY <1>7 DEF Good, Settled, Core, P
  <1>9. Section(h, P, V)
    BY <1>7, <1>8 DEF Section
  <1>10. Sized(U) /\ live = Blocks(U)
    BY RestIs
  <1>11. L = Dropped(live, p)
    BY Zenon DEF LiveWithout, Dropped
  <1>12. V = Dropped(U, c)
    OBVIOUS
  <1> HIDE DEF U, V
  <1>13. Blocks(V) = Dropped(Blocks(U), p)
    BY <1>2, <1>10, <1>12, BlocksDropped
  <1>14. L = Blocks(V)
    BY <1>10, <1>11, <1>13
  <1>15. Rest'
    BY <1>9, <1>14, SectionEnds
  <1>16. live' = L
    BY DEF Commit
  <1> QED BY <1>11, <1>15, <1>16

Stays(h, c, size) == ~ MustMove(h, c, size)

\* The block at p is resized
Refitted(p) == live' = Updated(live, p, live'[p]) /\ live'[p] \in Nat

LEMMA ResizeSection ==
    ASSUME Rest, NEW p \in DOMAIN live, NEW c, c = p - Overhead, NEW size \in Nat, MinSize <= size,
           Stays(m, c, size), NEW h, h = ResizeInPlace(m, c, size), Commit(h, LiveWith(h, p))
    PROVE  Rest' /\ Refitted(p)
  <1> DEFINE U == Used(m.chunk)
             old == m.chunk[c].size
             v == IF size < old THEN size ELSE old
             P == Safe(U, Updated(U, c, v))
             V == Used(h.chunk)
             s == h.chunk[c].size
             n == s - Overhead
             L == LiveWith(h, p)
  <1>1. Owned(c, p)
    BY OwnedIs
  <1>2. /\ IsUsed(m.chunk, c) /\ c \in DOMAIN U /\ c \in Nat /\ p = c + Overhead
        /\ old \in Nat /\ U[c] = old /\ old >= MinSize
    BY <1>1 DEF Owned
  <1>3. v \in Nat /\ (size < old => v = size)
    BY <1>2
  <1>4. P \in SUBSET Nat /\ P \subseteq Safe(U, U) /\ P \cap Area(c + v, old - v) = {}
    <2> DEFINE W == Updated(U, c, v)
    <2>1. Sound(m) /\ W = Updated(U, c, v) /\ U = Used(m.chunk)
      BY RestIs
    <2> HIDE DEF W, U, v
    <2>2. /\ Safe(U, W) \subseteq Nat /\ Safe(U, W) \subseteq Safe(U, U)
          /\ Safe(U, W) \cap Area(c + v, m.chunk[c].size - v) = {}
      BY <1>2, <1>3, <2>1, SafeApart
    <2> QED BY <2>2 DEF W
  <1>5. Ready(m, P)
    BY <1>4, RestIs
  <1>6. Good(m, P) /\ Kept(m, {})
    BY <1>5 DEF Ready
  <1>7. size < m.chunk[c].size => P \cap Area(c + size, m.chunk[c].size - size) = {}
    BY <1>3, <1>4
  <1> HIDE DEF P
  <1>8. Resized(m, h, P, c, size) /\ (size < m.chunk[c].size => h = m \/ h.chunk[c].size = size)
    <2>1. ~ MustMove(m, c, size)
      BY DEF Stays
    <2> QED BY <1>2, <1>4, <1>6, <1>7, <2>1, ResizeIs
  <1>9. /\ Good(h, P) /\ Kept(h, {}) /\ V = Updated(U, c, s) /\ size <= s
    BY <1>8 DEF Resized
  <1>10. Sized(U) /\ Sized(V) /\ live = Blocks(U)
    BY <1>9, UsedSized, RestIs
  <1>11. s \in Nat /\ s >= MinSize
    <2>1. c \in DOMAIN V /\ V[c] = s
      BY <1>9 DEF Updated
    <2> QED BY <1>10, <2>1 DEF Sized
  <1>12. Safe(U, V) \cap h.wrote = {}
    <2>1. CASE h = m
      BY <2>1, RestIs
    <2>2. CASE size < old => s = size
      <3>1. h.wrote \cap P = {}
        BY <1>9 DEF Good, Settled, Core
      <3>2. ASSUME NEW u \in Safe(U, V)
            PROVE  u \in P
        <4>1. PICK x \in DOMAIN U \cap DOMAIN V :
                 u \in Nat /\ x + Overhead <= u /\ u < x + U[x] /\ u < x + V[x]
          BY DEF Safe
        <4>2. CASE x = c
          <5>1. V[c] = s /\ Updated(U, c, v)[c] = v /\ c \in DOMAIN Updated(U, c, v)
            BY <1>9 DEF Updated
          <5>2. v = s \/ v = old
            BY <1>2, <2>2
          <5>3. u < c + v
            BY <1>2, <4>1, <4>2, <5>1, <5>2
          <5> QED BY <4>1, <4>2, <5>1, <5>3 DEF P, Safe
        <4>3. CASE x # c
          <5>1. x \in DOMAIN Updated(U, c, v) /\ Updated(U, c, v)[x] = U[x]
            BY <4>1, <4>3 DEF Updated
          <5> QED BY <4>1, <5>1 DEF P, Safe
        <4> QED BY <4>2, <4>3
      <3> QED BY <3>1, <3>2
    <2> QED BY <1>8, <2>1, <2>2
  <1>13. Section(h, P, V)
    BY <1>9, <1>12 DEF Section
  <1>14. L = Updated(live, p, n)
    <2>1. p - Overhead = c
      OBVIOUS
    <2> QED BY <2>1 DEF LiveWith, Usable, Size
  <1>15. Commit(h, L) /\ n = s - Overhead /\ V = Updated(U, c, s)
    BY <1>9
  <1> HIDE DEF s, n, L, U, V
  <1>16. Blocks(V) = Updated(Blocks(U), p, n)
    <2>1. c \in Nat /\ p = c + Overhead
      BY <1>2
    <2> QED BY <1>10, <1>11, <1>15, <2>1, BlocksUpdated
  <1>17. L = Blocks(V)
    BY <1>10, <1>14, <1>16
  <1>18. Rest'
    BY <1>13, <1>15, <1>17, SectionEnds
  <1>19. live' = L
    BY <1>15 DEF Commit
  <1>20. live'[p] = n
    BY <1>14, <1>19 DEF Updated
  <1>21. n \in Nat
    BY <1>11, <1>15 DEF Overhead, MinSize
  <1> QED BY <1>14, <1>18, <1>19, <1>20, <1>21 DEF Refitted

\* The block at p gives way to one at q, of at least `size' units
Slid(p, q, size) ==
    /\ q \in Nat /\ q \notin DOMAIN live /\ live' = Updated(Dropped(live, p), q, live'[q])
    /\ live'[q] \in Nat /\ live'[q] + Overhead >= size

LEMMA AlignedIs ==
    ASSUME NEW c \in Nat, NEW al \in Nat \ {0}, NEW a, a = AlignedAt(c, al)
    PROVE  a \in Nat /\ c + MinSize <= a /\ a <= c + al + 4
  <1> DEFINE want == c + Overhead + MinSize + al - 1
             r == want % al
  <1>1. want \in Nat /\ want = c + al + 6
    BY DEF Overhead, MinSize
  <1>2. r \in 0 .. al - 1
    BY <1>1
  <1>3. a = (want - r) - 2
    BY DEF AlignedAt, Overhead
  <1> HIDE DEF want, r
  <1> QED BY <1>1, <1>2, <1>3 DEF MinSize

LEMMA CarveSection ==
    ASSUME Rest, NEW p \in DOMAIN live, NEW c, c = p - Overhead, NEW al \in Nat \ {0},
           NEW size \in Nat, live[p] >= size + al + MinSize, size >= MinSize,
           NEW h, h = Carve(m, c, al), NEW q, q = AlignedAt(c, al) + Overhead,
           Commit(h, Updated(LiveWithout(p), q, Usable(h, q)))
    PROVE  Rest' /\ Slid(p, q, size)
  <1> DEFINE U == Used(m.chunk)
             old == m.chunk[c].size
             a == AlignedAt(c, al)
             k == a - c
             W == Dropped(U, c)
             P == Safe(U, W)
             s == old - k
             V == Used(h.chunk)
             n == s - Overhead
             L == Updated(LiveWithout(p), q, Usable(h, q))
  <1>1. Owned(c, p)
    BY OwnedIs
  <1>2. /\ IsUsed(m.chunk, c) /\ c \in DOMAIN U /\ c \in Nat /\ p = c + Overhead
        /\ old \in Nat /\ U[c] = old /\ live[p] = old - Overhead
    BY <1>1 DEF Owned
  <1>3. a \in Nat /\ c + MinSize <= a /\ a <= c + al + 4
    BY <1>2, AlignedIs
  <1>4. k \in Nat /\ MinSize <= k /\ k <= al + 4 /\ a = c + k
    BY <1>2, <1>3 DEF MinSize
  <1>5. s \in Nat /\ s >= size + 3
    <2>1. old - 2 >= size + al + 5
      BY <1>2 DEF Overhead, MinSize
    <2> HIDE DEF a, k, old
    <2> QED BY <1>2, <1>4, <2>1
  <1>6. CutAt(m.chunk, c, k, a)
    <2>1. k + 5 <= old
      <3> HIDE DEF a, k, old
      <3> QED BY <1>2, <1>4, <1>5 DEF MinSize
    <2> QED BY <1>4, <2>1 DEF CutAt, MinSize, Overhead
  <1>7. P \in SUBSET Nat /\ P \subseteq Safe(U, U) /\ P \cap Area(c, old) = {}
    <2>1. Sound(m) /\ c \notin DOMAIN W /\ U = Used(m.chunk)
      BY RestIs DEF Dropped
    <2> HIDE DEF W, U
    <2> QED BY <1>2, <2>1, SafeApart
  <1>8. Ready(m, P)
    BY <1>7, RestIs
  <1>9. Good(m, P) /\ Kept(m, {})
    BY <1>8 DEF Ready
  <1>10. Carved(m, h, P, c, k, a)
    <2>1. a = AlignedAt(c, al) /\ k = a - c
      OBVIOUS
    <2> HIDE DEF P, a, k
    <2> QED BY <1>2, <1>4, <1>6, <1>7, <1>9, <2>1, CarveIs
  <1>11. /\ Good(h, P) /\ Kept(h, {}) /\ h.chunk[a].size = s /\ V = Updated(W, a, s)
    BY <1>10 DEF Carved
  <1>12. a \notin DOMAIN U
    <2>1. AreChunks(m.chunk) /\ InOrder(m.chunk)
      BY RestIs DEF Sound, Grid
    <2>2. a \in DOMAIN U => a \in DOMAIN m.chunk
      BY DEF Used
    <2>3. c \in DOMAIN m.chunk
      BY <1>2 DEF IsUsed
    <2>4. c < a /\ a < c + old
      <3> HIDE DEF a, old
      <3>1. k < old
        BY <1>2, <1>4, <1>5
      <3>2. k \in Nat /\ k > 0 /\ a = c + k
        BY <1>4 DEF MinSize
      <3> HIDE DEF k
      <3>3. a \in Int /\ c \in Int /\ k \in Int /\ old \in Int
        BY <1>2, <1>3, <3>2
      <3>4. c < a /\ a < c + old
        BY <3>1, <3>2, <3>3
      <3> QED BY <3>4
    <2> HIDE DEF a, U
    <2>5. a \notin DOMAIN m.chunk
      BY <1>2, <1>3, <2>1, <2>3, <2>4 DEF InOrder
    <2> QED BY <2>2, <2>5
  <1>13. Safe(U, V) \cap h.wrote = {}
    <2>1. h.wrote \cap P = {}
      BY <1>11 DEF Good, Settled, Core
    <2>2. Safe(U, V) \subseteq P
      <3> HIDE DEF a, s
      <3>1. \A x \in DOMAIN U \cap DOMAIN V : x \in DOMAIN W /\ V[x] = W[x]
        BY <1>11, <1>12 DEF Updated
      <3> HIDE DEF U, V, W
      <3> QED BY <3>1 DEF Safe
    <2> QED BY <2>1, <2>2
  <1>14. Section(h, P, V)
    BY <1>11, <1>13 DEF Section
  <1>15. Sized(U) /\ live = Blocks(U)
    BY RestIs
  <1>16. L = Updated(Dropped(live, p), q, n)
    <2>1. q - Overhead = a
      BY <1>3 DEF Overhead
    <2>2. Usable(h, q) = n
      BY <1>11, <2>1 DEF Usable, Size
    <2> QED BY <2>2 DEF LiveWithout, Dropped
  <1>17. /\ Commit(h, L) /\ n = s - Overhead /\ V = Updated(W, a, s) /\ W = Dropped(U, c)
         /\ q = a + Overhead
    BY <1>11
  <1> HIDE DEF U, W, V, L, n, s, a, k, P, old
  <1>18. Sized(W) /\ Blocks(W) = Dropped(Blocks(U), p)
    BY <1>2, <1>15, <1>17, BlocksDropped
  <1>19. Blocks(V) = Updated(Blocks(W), q, n)
    <2>1. s >= MinSize
      BY <1>5 DEF MinSize
    <2> QED BY <1>3, <1>5, <1>17, <1>18, <2>1, BlocksUpdated
  <1>20. L = Blocks(V)
    BY <1>15, <1>16, <1>18, <1>19
  <1>21. Rest'
    BY <1>14, <1>17, <1>20, SectionEnds
  <1>22. live' = L
    BY <1>17 DEF Commit
  <1>23. live'[q] = n
    BY <1>16, <1>22 DEF Updated
  <1>24. q \in Nat /\ n \in Nat /\ n + Overhead >= size
    BY <1>3, <1>5, <1>17 DEF Overhead, MinSize
  <1>25. q \notin DOMAIN live
    <2>1. q \in DOMAIN live => q - Overhead \in DOMAIN U
      BY <1>15, BlocksAre
    <2>2. q - Overhead = a
      BY <1>3, <1>17 DEF Overhead
    <2> QED BY <1>12, <2>1, <2>2
  <1> QED BY <1>16, <1>21, <1>22, <1>23, <1>24, <1>25 DEF Slid

LEMMA TrimSection ==
    ASSUME Rest, NEW pad, Commit(Trim(m, pad), live)
    PROVE  Rest' /\ live' = live
  <1> DEFINE U == Used(m.chunk)
             P == Safe(U, U)
             h == Trim(m, pad)
             V == Used(h.chunk)
  <1>1. P \in SUBSET Nat /\ P \subseteq Safe(U, U)
    BY DEF Safe
  <1>2. Ready(m, P)
    BY <1>1, RestIs
  <1>3. Good(m, P) /\ Kept(m, {})
    BY <1>2 DEF Ready
  <1>4. PICK n \in Nat : DroppedBy(m, h, P, {}, n)
    <2> DEFINE X == {}
    <2>1. Kept(m, X)
      BY <1>3
    <2> HIDE DEF X, P, h
    <2>2. h = Trim(m, pad)
      BY DEF h
    <2>3. \E n \in Nat : DroppedBy(m, h, P, X, n)
      BY <1>1, <1>3, <2>1, <2>2, TrimIs
    <2> QED BY <2>3 DEF X
  <1>5. Good(h, P) /\ Kept(h, {}) /\ V = U
    BY <1>4 DEF DroppedBy
  <1>6. Safe(U, V) \cap h.wrote = {}
    <2>1. h.wrote \cap P = {}
      BY <1>5 DEF Good, Settled, Core
    <2> QED BY <1>5, <2>1
  <1>7. Section(h, P, V)
    BY <1>5, <1>6 DEF Section
  <1>8. live = Blocks(V)
    BY <1>5, RestIs
  <1>9. Rest'
    BY <1>7, <1>8, SectionEnds
  <1>10. live' = live
    BY DEF Commit
  <1> QED BY <1>9, <1>10

-----------------------------------------------------------------------------
(* What the threads are doing stays true of the blocks they hold           *)

LEMMA ChunkForIs ==
    ASSUME NEW n \in Nat
    PROVE  ChunkFor(n) \in Nat /\ ChunkFor(n) >= MinSize /\ ChunkFor(n) >= n + 2
  <1>1. ChunkFor(n) = IF n + 2 >= 5 THEN n + 2 ELSE 5
    <2>1. n + 2 \in Int /\ 5 \in Int
      OBVIOUS
    <2>2. Max({n + 2, 5}) = IF n + 2 >= 5 THEN n + 2 ELSE 5
      BY <2>1, MaxOf
    <2> QED BY <2>2 DEF ChunkFor, Overhead, MinSize
  <1> QED BY <1>1 DEF MinSize

LEMMA HoldsIs ==
    ASSUME NEW job \in Job
    PROVE  /\ job.op = "none" => job = NoTask /\ Holds(job) = {}
           /\ job.op = "copy" => Holds(job) = {job.ptr, job.to}
           /\ job.op \in {"move", "carve", "shrink"} => Holds(job) = {job.ptr}
           /\ job.op \in {"none", "move", "copy", "carve", "shrink"}
BY DEF Job, Holds, NoTask

LEMMA SuitsStill ==
    ASSUME NEW job \in Job, NEW L, NEW M, Suits(job, L),
           \A p \in Holds(job) : p \in DOMAIN M /\ M[p] = L[p]
    PROVE  Suits(job, M)
  <1>1. Holds(job) \subseteq DOMAIN M
    OBVIOUS
  <1>2. job.op \in {"none", "move", "copy", "carve", "shrink"}
    BY HoldsIs
  <1>3. CASE job.op = "none"
    BY <1>1, <1>3 DEF Suits
  <1>4. CASE job.op = "copy"
    <2>1. M[job.ptr] = L[job.ptr] /\ M[job.to] = L[job.to]
      BY <1>4, HoldsIs
    <2> QED BY <1>1, <1>4, <2>1 DEF Suits
  <1>5. CASE job.op \in {"move", "carve", "shrink"}
    <2>1. M[job.ptr] = L[job.ptr]
      BY <1>5, HoldsIs
    <2> QED BY <1>1, <1>5, <2>1 DEF Suits
  <1> QED BY <1>2, <1>3, <1>4, <1>5

\* What the threads other than t hold is left alone
OthersKeep(t, job) ==
    \A u \in Thread \ {t} : \A p \in Holds(task[u]) :
        p \in DOMAIN live' /\ live'[p] = live[p] /\ p \notin Holds(job)

LEMMA TasksStep ==
    ASSUME Tasks, NEW t \in Thread, NEW job \in Job, Suits(job, live'), OthersKeep(t, job),
           task' = [task EXCEPT ![t] = job]
    PROVE  Tasks'
  <1>1. task \in [Thread -> Job]
    BY DEF Tasks
  <1>2. task' \in [Thread -> Job] /\ task'[t] = job /\ \A u \in Thread \ {t} : task'[u] = task[u]
    BY <1>1
  <1>3. ASSUME NEW u \in Thread
        PROVE  Suits(task'[u], live')
    <2>1. CASE u = t
      BY <1>2, <2>1
    <2>2. CASE u # t
      <3> DEFINE j == task[u]
                 L == live
                 M == live'
      <3>1. task'[u] = j /\ j \in Job /\ Suits(j, L)
        BY <1>1, <1>2, <2>2 DEF Tasks
      <3>2. \A p \in Holds(j) : p \in DOMAIN M /\ M[p] = L[p]
        BY <2>2 DEF OthersKeep
      <3> HIDE DEF j, L, M
      <3>3. Suits(j, M)
        BY <3>1, <3>2, SuitsStill
      <3> QED BY <3>1, <3>3 DEF M
    <2> QED BY <2>1, <2>2
  <1>4. ASSUME NEW u \in Thread, NEW v \in Thread, u # v
        PROVE  Holds(task'[u]) \cap Holds(task'[v]) = {}
    <2>1. CASE u # t /\ v # t
      BY <1>2, <1>4, <2>1 DEF Tasks
    <2>2. CASE u = t
      BY <1>2, <1>4, <2>2 DEF OthersKeep
    <2>3. CASE v = t
      BY <1>2, <1>4, <2>3 DEF OthersKeep
    <2> QED BY <2>1, <2>2, <2>3
  <1> QED BY <1>2, <1>3, <1>4 DEF Tasks

LEMMA TasksSame ==
    ASSUME Tasks, UNCHANGED task, NEW t \in Thread, task[t] = NoTask, OthersKeep(t, NoTask)
    PROVE  Tasks'
  <1>1. NoTask \in Job /\ Suits(NoTask, live')
    BY DEF Job, Suits, Holds, NoTask
  <1>2. task' = [task EXCEPT ![t] = NoTask]
    BY DEF Tasks
  <1> QED BY <1>1, <1>2, TasksStep

\* Blocks the other threads are at work on are held, and are not those of t
LEMMA HeldBeside ==
    ASSUME Tasks, NEW t \in Thread, NEW u \in Thread \ {t}, NEW q \in Holds(task[u])
    PROVE  q \in DOMAIN live /\ q \notin Holds(task[t]) /\ q \in HeapBusy
  <1>1. q \in DOMAIN live
    BY DEF Tasks, Suits
  <1>2. q \notin Holds(task[t])
    BY DEF Tasks
  <1> QED BY <1>1, <1>2 DEF HeapBusy

LEMMA GrantedBeside ==
    ASSUME Tasks, NEW t \in Thread, NEW p, NEW size, Granted(p, size), NEW job,
           Holds(job) \subseteq Holds(task[t]) \cup {p}
    PROVE  OthersKeep(t, job)
  <1>1. p \notin DOMAIN live /\ live' = Updated(live, p, live'[p])
    BY DEF Granted
  <1>2. \A q \in DOMAIN live : q # p /\ q \in DOMAIN live' /\ live'[q] = live[q]
    BY <1>1 DEF Updated
  <1> QED BY <1>2, HeldBeside DEF OthersKeep

\* p is not what another thread than t is at work on
Mine(t, p) == \A u \in Thread \ {t} : p \notin Holds(task[u])

LEMMA DroppedBeside ==
    ASSUME Tasks, NEW t \in Thread, NEW p, Mine(t, p), live' = Dropped(live, p), NEW job, Holds(job) = {}
    PROVE  OthersKeep(t, job)
  <1>1. \A q \in DOMAIN live : q # p => q \in DOMAIN live' /\ live'[q] = live[q]
    BY DEF Dropped
  <1> QED BY <1>1, HeldBeside DEF OthersKeep, Mine

LEMMA RefittedBeside ==
    ASSUME Tasks, NEW t \in Thread, NEW p, Mine(t, p), Refitted(p), NEW job, Holds(job) = {}
    PROVE  OthersKeep(t, job)
  <1>1. \A q \in DOMAIN live : q # p => q \in DOMAIN live' /\ live'[q] = live[q]
    BY DEF Refitted, Updated
  <1> QED BY <1>1, HeldBeside DEF OthersKeep, Mine

LEMMA SlidBeside ==
    ASSUME Tasks, NEW t \in Thread, NEW p, Mine(t, p), NEW q, NEW size, Slid(p, q, size), NEW job,
           Holds(job) = {q}
    PROVE  OthersKeep(t, job)
  <1>1. q \notin DOMAIN live /\ live' = Updated(Dropped(live, p), q, live'[q])
    BY DEF Slid
  <1>2. \A x \in DOMAIN live : x # p => x # q /\ x \in DOMAIN live' /\ live'[x] = live[x]
    BY <1>1 DEF Updated, Dropped
  <1> QED BY <1>2, HeldBeside DEF OthersKeep, Mine

LEMMA MineIs ==
    ASSUME Tasks, NEW t \in Thread, NEW p
    PROVE  (p \notin HeapBusy => Mine(t, p)) /\ (p \in Holds(task[t]) => Mine(t, p))
BY HeldBeside DEF Mine

-----------------------------------------------------------------------------
(* The actions                                                             *)

LEMMA IdleHolds == Holds(NoTask) = {} /\ NoTask \in Job /\ \A L : Suits(NoTask, L)
BY DEF Holds, NoTask, Job, Suits

LEMMA MallocKeeps ==
    ASSUME HeapInv, NEW t \in Thread, CallMalloc(t)
    PROVE  HeapInv'
  <1>1. PICK n \in Payloads : \E r \in Alloc(m, ChunkFor(n)) : Commit(r[1], LiveWith(r[1], r[2] + Overhead))
    BY DEF CallMalloc
  <1> DEFINE size == ChunkFor(n)
  <1>2. PICK r \in Alloc(m, size) : Commit(r[1], LiveWith(r[1], r[2] + Overhead))
    BY <1>1
  <1>3. size \in Nat /\ MinSize <= size
    <2>1. n \in Nat
      BY HeapAssumption
    <2> QED BY <2>1, ChunkForIs DEF MinSize
  <1>4. Rest /\ Tasks /\ task[t] = NoTask /\ UNCHANGED task
    BY DEF HeapInv, CallMalloc
  <1> DEFINE p == r[2] + Overhead
  <1> HIDE DEF size
  <1>5. Rest' /\ Granted(p, size)
    <2>1. p = r[2] + Overhead /\ Commit(r[1], LiveWith(r[1], p))
      BY <1>2
    <2> HIDE DEF p
    <2> QED BY <1>2, <1>3, <1>4, <2>1, AllocSection
  <1> HIDE DEF p
  <1>6. OthersKeep(t, NoTask)
    BY <1>4, <1>5, IdleHolds, GrantedBeside
  <1>7. Tasks'
    BY <1>4, <1>6, TasksSame
  <1> QED BY <1>5, <1>7 DEF HeapInv

LEMMA FreeKeeps ==
    ASSUME HeapInv, NEW t \in Thread, CallFree(t)
    PROVE  HeapInv'
  <1>1. PICK p \in DOMAIN live \ HeapBusy : Commit(FreeBlock(m, p - Overhead), LiveWithout(p))
    BY DEF CallFree
  <1>2. Rest /\ Tasks /\ task[t] = NoTask /\ UNCHANGED task
    BY DEF HeapInv, CallFree
  <1>3. Rest' /\ live' = Dropped(live, p)
    <2> DEFINE c == p - Overhead
               h == FreeBlock(m, c)
    <2>1. p \in DOMAIN live /\ c = p - Overhead /\ h = FreeBlock(m, c) /\ Commit(h, LiveWithout(p))
      BY <1>1
    <2> HIDE DEF c, h
    <2> QED BY <1>2, <2>1, FreeSection
  <1>4. Mine(t, p)
    BY <1>1, <1>2, MineIs
  <1>5. OthersKeep(t, NoTask)
    BY <1>2, <1>3, <1>4, IdleHolds, DroppedBeside
  <1>6. Tasks'
    BY <1>2, <1>5, TasksSame
  <1> QED BY <1>3, <1>6 DEF HeapInv

LEMMA ReallocKeeps ==
    ASSUME HeapInv, NEW t \in Thread, CallRealloc(t)
    PROVE  HeapInv'
  <1>1. PICK p \in DOMAIN live \ HeapBusy, n \in Payloads :
           /\ ~ MustMove(m, p - Overhead, ChunkFor(n))
           /\ Commit(ResizeInPlace(m, p - Overhead, ChunkFor(n)),
                     LiveWith(ResizeInPlace(m, p - Overhead, ChunkFor(n)), p))
    BY DEF CallRealloc
  <1>2. Rest /\ Tasks /\ task[t] = NoTask /\ UNCHANGED task
    BY DEF HeapInv, CallRealloc
  <1> DEFINE size == ChunkFor(n)
  <1>3. size \in Nat /\ MinSize <= size
    <2>1. n \in Nat
      BY HeapAssumption
    <2> QED BY <2>1, ChunkForIs DEF MinSize
  <1>4. Rest' /\ Refitted(p)
    <2> DEFINE c == p - Overhead
               h == ResizeInPlace(m, c, size)
    <2>1. /\ p \in DOMAIN live /\ c = p - Overhead /\ h = ResizeInPlace(m, c, size)
          /\ Commit(h, LiveWith(h, p)) /\ Stays(m, c, size)
      BY <1>1 DEF Stays
    <2> HIDE DEF c, h, size
    <2> QED BY <1>2, <1>3, <2>1, ResizeSection
  <1>5. Mine(t, p)
    BY <1>1, <1>2, MineIs
  <1>6. OthersKeep(t, NoTask)
    BY <1>2, <1>4, <1>5, IdleHolds, RefittedBeside
  <1>7. Tasks'
    BY <1>2, <1>6, TasksSame
  <1> QED BY <1>4, <1>7 DEF HeapInv

LEMMA RestSame ==
    ASSUME Rest, UNCHANGED <<m, live, spoilt>>
    PROVE  Rest'
BY DEF Rest

\* Whatever the other threads hold, if it stays as it is and t takes up nothing of it
LEMMA StillBeside ==
    ASSUME Tasks, NEW t \in Thread, UNCHANGED live, NEW job, \A p \in Holds(job) : Mine(t, p)
    PROVE  OthersKeep(t, job)
  <1>1. \A u \in Thread \ {t} : \A p \in Holds(task[u]) : p \in DOMAIN live
    BY HeldBeside
  <1> QED BY <1>1 DEF OthersKeep, Mine

LEMMA ReallocMoveKeeps ==
    ASSUME HeapInv, NEW t \in Thread, CallReallocMove(t)
    PROVE  HeapInv'
  <1>1. PICK p \in DOMAIN live \ HeapBusy, n \in Payloads :
           /\ MustMove(m, p - Overhead, ChunkFor(n))
           /\ BeginTask(t, [op |-> "move", ptr |-> p, size |-> ChunkFor(n), old |-> Usable(m, p)])
    BY DEF CallReallocMove
  <1>2. Rest /\ Tasks /\ UNCHANGED <<m, live, spoilt>>
    BY DEF HeapInv, CallReallocMove
  <1> DEFINE size == ChunkFor(n)
             c == p - Overhead
             job == [op |-> "move", ptr |-> p, size |-> size, old |-> Usable(m, p)]
  <1>3. size \in Nat
    <2>1. n \in Nat
      BY HeapAssumption
    <2> QED BY <2>1, ChunkForIs
  <1>4. Owned(c, p)
    <2>1. p \in DOMAIN live /\ c = p - Overhead
      OBVIOUS
    <2> HIDE DEF c
    <2> QED BY <1>2, <2>1, OwnedIs
  <1>5. /\ p \in Nat /\ live[p] \in Nat /\ live[p] = m.chunk[c].size - 2 /\ m.chunk[c].size \in Nat
        /\ Usable(m, p) = live[p]
    BY <1>4 DEF Owned, Usable, Size, Overhead
  <1>6. size > m.chunk[c].size
    BY <1>1 DEF MustMove, Size
  <1> HIDE DEF size, c
  <1>7. job \in Job /\ Holds(job) = {p}
    BY <1>3, <1>5 DEF Job, Holds
  <1>8. Suits(job, live')
    <2>1. size > live[p]
      BY <1>3, <1>5, <1>6
    <2> QED BY <1>1, <1>2, <1>5, <1>7, <2>1 DEF Suits
  <1>9. task' = [task EXCEPT ![t] = job]
    BY <1>1 DEF BeginTask, size
  <1> HIDE DEF job
  <1>10. OthersKeep(t, job)
    <2>1. Mine(t, p)
      BY <1>1, <1>2, MineIs
    <2> QED BY <1>2, <1>7, <2>1, StillBeside
  <1>11. Tasks'
    BY <1>2, <1>7, <1>8, <1>9, <1>10, TasksStep
  <1>12. Rest'
    BY <1>2, RestSame
  <1> QED BY <1>11, <1>12 DEF HeapInv

\* What a thread that is moving, copying or cutting holds
LEMMA AtWork ==
    ASSUME Tasks, NEW t \in Thread
    PROVE  /\ task[t] \in Job /\ Suits(task[t], live)
           /\ task[t].op = "move" =>
                 /\ task[t].ptr \in DOMAIN live /\ task[t].ptr \in Nat /\ task[t].old \in Nat
                 /\ task[t].size \in Nat /\ Holds(task[t]) = {task[t].ptr}
                 /\ task[t].old = live[task[t].ptr] /\ task[t].size > live[task[t].ptr]
           /\ task[t].op = "copy" =>
                 /\ task[t].ptr \in DOMAIN live /\ task[t].to \in DOMAIN live
                 /\ Holds(task[t]) = {task[t].ptr, task[t].to}
                 /\ task[t].ptr # task[t].to /\ task[t].old <= live[task[t].to]
                 /\ task[t].old \in Nat /\ task[t].to \in Nat
           /\ task[t].op \in {"carve", "shrink"} =>
                 /\ task[t].ptr \in DOMAIN live /\ Holds(task[t]) = {task[t].ptr}
                 /\ task[t].size \in Nat /\ task[t].al \in Nat \ {0} /\ task[t].size >= MinSize
           /\ task[t].op = "carve" => live[task[t].ptr] >= task[t].size + task[t].al + MinSize
           /\ task[t].op = "shrink" => live[task[t].ptr] + Overhead >= task[t].size
  <1> DEFINE j == task[t]
  <1>1. j \in Job /\ Suits(j, live)
    BY DEF Tasks
  <1> HIDE DEF j
  <1>2. j.op = "move" => j.ptr \in Nat /\ j.old \in Nat /\ j.size \in Nat
    BY <1>1 DEF Job, NoTask
  <1>3. j.op = "copy" => j.old \in Nat /\ j.to \in Nat
    BY <1>1 DEF Job, NoTask
  <1>4. j.op \in {"carve", "shrink"} => j.size \in Nat /\ j.al \in Nat \ {0}
    BY <1>1 DEF Job, NoTask
  <1>5. Holds(j) \subseteq DOMAIN live
    BY <1>1 DEF Suits
  <1>6. j.op = "move" => Holds(j) = {j.ptr} /\ j.old = live[j.ptr] /\ j.size > live[j.ptr]
    BY <1>1, HoldsIs DEF Suits
  <1>7. j.op = "copy" => Holds(j) = {j.ptr, j.to} /\ j.ptr # j.to /\ j.old <= live[j.to]
    BY <1>1, HoldsIs DEF Suits
  <1>8. j.op \in {"carve", "shrink"} => Holds(j) = {j.ptr} /\ j.size >= MinSize
    BY <1>1, HoldsIs DEF Suits
  <1>9. /\ j.op = "carve" => live[j.ptr] >= j.size + j.al + MinSize
        /\ j.op = "shrink" => live[j.ptr] + Overhead >= j.size
    BY <1>1 DEF Suits
  <1> QED BY <1>1, <1>2, <1>3, <1>4, <1>5, <1>6, <1>7, <1>8, <1>9 DEF j

LEMMA MoveAllocKeeps ==
    ASSUME HeapInv, NEW t \in Thread, MoveAlloc(t)
    PROVE  HeapInv'
  <1> DEFINE size == ChunkFor(task[t].size)
             q == task[t].ptr
             old == task[t].old
  <1>1. task[t].op = "move" /\ Rest /\ Tasks
    BY DEF MoveAlloc, HeapInv
  <1>2. PICK r \in Alloc(m, size) :
           /\ Commit(r[1], LiveWith(r[1], r[2] + Overhead))
           /\ BeginTask(t, [op |-> "copy", ptr |-> q, to |-> r[2] + Overhead, old |-> old])
    BY DEF MoveAlloc
  <1>3. /\ q \in DOMAIN live /\ q \in Nat /\ old \in Nat /\ task[t].size \in Nat
        /\ Holds(task[t]) = {q} /\ old = live[q] /\ task[t].size > old
    BY <1>1, AtWork
  <1>4. size \in Nat /\ MinSize <= size /\ size >= old + 2
    <2>1. size \in Nat /\ size >= MinSize /\ size >= task[t].size + 2
      BY <1>3, ChunkForIs
    <2> QED BY <1>3, <2>1 DEF MinSize
  <1> DEFINE p == r[2] + Overhead
             job == [op |-> "copy", ptr |-> q, to |-> p, old |-> old]
  <1> HIDE DEF size
  <1>5. Rest' /\ Granted(p, size)
    <2>1. p = r[2] + Overhead /\ Commit(r[1], LiveWith(r[1], p))
      BY <1>2
    <2> HIDE DEF p
    <2> QED BY <1>1, <1>2, <1>4, <2>1, AllocSection
  <1>6. task' = [task EXCEPT ![t] = job]
    BY <1>2 DEF BeginTask
  <1> HIDE DEF p
  <1>7. /\ p \in Nat /\ p \notin DOMAIN live /\ live' = Updated(live, p, live'[p])
        /\ live'[p] \in Nat /\ live'[p] + 2 >= size
    BY <1>5 DEF Granted, Overhead
  <1>8. q # p /\ q \in DOMAIN live' /\ live'[q] = old /\ p \in DOMAIN live'
    BY <1>3, <1>7 DEF Updated
  <1> HIDE DEF q, old
  <1>9. job \in Job /\ Holds(job) = {q, p}
    BY <1>3, <1>7 DEF Job, Holds
  <1>10. old <= live'[p]
    BY <1>3, <1>4, <1>7
  <1>11. Suits(job, live')
    BY <1>8, <1>9, <1>10 DEF Suits
  <1>12. OthersKeep(t, job)
    <2>1. Holds(job) \subseteq Holds(task[t]) \cup {p}
      BY <1>3, <1>9
    <2> HIDE DEF job
    <2> QED BY <1>1, <1>5, <2>1, GrantedBeside
  <1> HIDE DEF job
  <1>13. Tasks'
    BY <1>1, <1>6, <1>9, <1>11, <1>12, TasksStep
  <1> QED BY <1>5, <1>13 DEF HeapInv

LEMMA MoveFailsKeeps ==
    ASSUME HeapInv, NEW t \in Thread, MoveFails(t)
    PROVE  HeapInv'
  <1>1. Rest /\ Tasks /\ UNCHANGED <<m, live, spoilt>> /\ task' = [task EXCEPT ![t] = NoTask]
    BY DEF HeapInv, MoveFails, Settle
  <1>2. OthersKeep(t, NoTask)
    BY <1>1, IdleHolds, StillBeside
  <1>3. Tasks'
    BY <1>1, <1>2, IdleHolds, TasksStep
  <1>4. Rest'
    BY <1>1, RestSame
  <1> QED BY <1>3, <1>4 DEF HeapInv

LEMMA MoveCopyKeeps ==
    ASSUME HeapInv, NEW t \in Thread, MoveCopy(t)
    PROVE  HeapInv'
  <1> DEFINE j == task[t]
             p == j.ptr
             c == p - Overhead
             w == BlockAt(j.to, j.old) \ BlockAt(j.to, live[j.to])
             g == [m EXCEPT !.wrote = w]
             h == FreeBlock(m, c)
  <1>1. Rest /\ Tasks /\ j.op = "copy" /\ task' = [task EXCEPT ![t] = NoTask]
    BY DEF HeapInv, MoveCopy, Settle
  <1>2. Commit(FreeBlock(g, c), LiveWithout(p))
    BY DEF MoveCopy
  <1>3. /\ p \in DOMAIN live /\ j.to \in DOMAIN live /\ Holds(j) = {p, j.to}
        /\ j.old <= live[j.to] /\ j.old \in Nat /\ j.to \in Nat
    BY <1>1, AtWork
  <1>4. w = {}
    <2>1. live[j.to] \in Nat
      <3> DEFINE x == j.to
                 y == x - Overhead
      <3>1. x \in DOMAIN live /\ y = x - Overhead
        BY <1>3
      <3> HIDE DEF x, y
      <3>2. Owned(y, x)
        BY <1>1, <3>1, OwnedIs
      <3> QED BY <3>2 DEF Owned, x
    <2>2. \A u \in BlockAt(j.to, j.old) : u \in BlockAt(j.to, live[j.to])
      <3> DEFINE x == j.to
                 y == j.old
                 z == live[x]
      <3>1. x \in Nat /\ y \in Nat /\ z \in Nat /\ y <= z
        BY <1>3, <2>1
      <3> HIDE DEF x, y, z
      <3>2. \A u \in BlockAt(x, y) : u \in BlockAt(x, z)
        BY <3>1 DEF BlockAt
      <3> QED BY <3>2 DEF x, y, z
    <2> QED BY <2>2
  <1>5. g = m
    <2>1. IsHeap(m) /\ m.wrote = {}
      BY <1>1 DEF Rest, Sound
    <2> HIDE DEF w
    <2> QED BY <1>4, <2>1 DEF IsHeap
  <1>6. Rest' /\ live' = Dropped(live, p)
    <2>1. p \in DOMAIN live /\ c = p - Overhead /\ h = FreeBlock(m, c) /\ Commit(h, LiveWithout(p))
      BY <1>2, <1>3, <1>5
    <2> HIDE DEF c, h, p, g
    <2> QED BY <1>1, <2>1, FreeSection
  <1>7. Mine(t, p)
    BY <1>1, <1>3, MineIs
  <1>8. OthersKeep(t, NoTask)
    BY <1>1, <1>6, <1>7, IdleHolds, DroppedBeside
  <1>9. Tasks'
    BY <1>1, <1>8, IdleHolds, TasksStep
  <1> QED BY <1>6, <1>9 DEF HeapInv

LEMMA AlignedKeeps ==
    ASSUME HeapInv, NEW t \in Thread, CallAligned(t)
    PROVE  HeapInv'
  <1>1. PICK n \in Payloads, al \in Alignments :
          \E r \in Alloc(m, ChunkFor(ChunkFor(n) + al + MinSize)) :
            LET p == r[2] + Overhead
            IN  /\ Commit(r[1], LiveWith(r[1], p))
                /\ BeginTask(t, [op |-> IF p % al = 0 THEN "shrink" ELSE "carve",
                                 ptr |-> p, size |-> ChunkFor(n), al |-> al])
    BY DEF CallAligned
  <1> DEFINE s == ChunkFor(n)
             size == ChunkFor(s + al + MinSize)
  <1>2. PICK r \in Alloc(m, size) :
            /\ Commit(r[1], LiveWith(r[1], r[2] + Overhead))
            /\ BeginTask(t, [op |-> IF (r[2] + Overhead) % al = 0 THEN "shrink" ELSE "carve",
                             ptr |-> r[2] + Overhead, size |-> s, al |-> al])
    BY <1>1
  <1>3. Rest /\ Tasks /\ task[t] = NoTask
    BY DEF HeapInv, CallAligned
  <1>4. s \in Nat /\ s >= MinSize /\ al \in Nat \ {0}
    <2>1. n \in Nat /\ al \in Nat \ {0}
      BY HeapAssumption
    <2> QED BY <2>1, ChunkForIs
  <1>5. size \in Nat /\ MinSize <= size /\ size >= s + al + 7
    <2> HIDE DEF s
    <2>1. s + al + 5 \in Nat
      BY <1>4
    <2>2. /\ ChunkFor(s + al + 5) \in Nat /\ ChunkFor(s + al + 5) >= MinSize
          /\ ChunkFor(s + al + 5) >= s + al + 5 + 2
      BY <2>1, ChunkForIs
    <2> QED BY <1>4, <2>2 DEF MinSize
  <1> DEFINE p == r[2] + Overhead
             what == IF p % al = 0 THEN "shrink" ELSE "carve"
             job == [op |-> what, ptr |-> p, size |-> s, al |-> al]
  <1>6. task' = [task EXCEPT ![t] = job]
    BY <1>2 DEF BeginTask
  <1> HIDE DEF size
  <1>7. Rest' /\ Granted(p, size)
    <2>1. p = r[2] + Overhead /\ Commit(r[1], LiveWith(r[1], p))
      BY <1>2
    <2> HIDE DEF p
    <2> QED BY <1>2, <1>3, <1>5, <2>1, AllocSection
  <1>8. what \in {"carve", "shrink"}
    OBVIOUS
  <1> HIDE DEF p, s, what
  <1>9. /\ p \in Nat /\ p \notin DOMAIN live /\ live' = Updated(live, p, live'[p])
        /\ live'[p] \in Nat /\ live'[p] + 2 >= size
    BY <1>7 DEF Granted, Overhead
  <1>10. p \in DOMAIN live'
    BY <1>9 DEF Updated
  <1>11. job \in Job /\ Holds(job) = {p}
    BY <1>4, <1>8, <1>9 DEF Job, Holds
  <1>12. live'[p] >= s + al + 5 /\ live'[p] + 2 >= s
    BY <1>4, <1>5, <1>9
  <1>13. Suits(job, live')
    BY <1>4, <1>8, <1>10, <1>11, <1>12 DEF Suits, MinSize, Overhead
  <1>14. OthersKeep(t, job)
    <2>1. Holds(job) \subseteq Holds(task[t]) \cup {p}
      BY <1>11
    <2> HIDE DEF job
    <2> QED BY <1>3, <1>7, <2>1, GrantedBeside
  <1> HIDE DEF job
  <1>15. Tasks'
    BY <1>3, <1>6, <1>11, <1>13, <1>14, TasksStep
  <1> QED BY <1>7, <1>15 DEF HeapInv

LEMMA CarveKeeps ==
    ASSUME HeapInv, NEW t \in Thread, CarveAligned(t)
    PROVE  HeapInv'
  <1> DEFINE j == task[t]
             p == j.ptr
             al == j.al
             s == j.size
             c == p - Overhead
             h == Carve(m, c, al)
             q == AlignedAt(c, al) + Overhead
             job == [op |-> "shrink", ptr |-> q, size |-> s, al |-> al]
  <1>1. Rest /\ Tasks /\ j.op = "carve"
    BY DEF HeapInv, CarveAligned
  <1>2. Commit(h, Updated(LiveWithout(p), q, Usable(h, q))) /\ task' = [task EXCEPT ![t] = job]
    BY DEF CarveAligned, BeginTask
  <1>3. /\ p \in DOMAIN live /\ Holds(j) = {p} /\ s \in Nat /\ al \in Nat \ {0} /\ s >= MinSize
        /\ live[p] >= s + al + MinSize
    BY <1>1, AtWork
  <1>4. Rest' /\ Slid(p, q, s)
    <2>1. c = p - Overhead /\ h = Carve(m, c, al) /\ q = AlignedAt(c, al) + Overhead
      OBVIOUS
    <2> HIDE DEF c, h, q, p, s, al
    <2> QED BY <1>1, <1>2, <1>3, <2>1, CarveSection
  <1>5. Mine(t, p)
    BY <1>1, <1>3, MineIs
  <1> HIDE DEF q, p, s, al, c, h
  <1>6. /\ q \in Nat /\ live' = Updated(Dropped(live, p), q, live'[q])
        /\ live'[q] \in Nat /\ live'[q] + Overhead >= s
    BY <1>4 DEF Slid
  <1>7. q \in DOMAIN live'
    BY <1>6 DEF Updated
  <1>8. job \in Job /\ Holds(job) = {q}
    BY <1>3, <1>6 DEF Job, Holds
  <1>9. Suits(job, live')
    BY <1>3, <1>6, <1>7, <1>8 DEF Suits
  <1> HIDE DEF job
  <1>10. OthersKeep(t, job)
    BY <1>1, <1>4, <1>5, <1>8, SlidBeside
  <1>11. Tasks'
    BY <1>1, <1>2, <1>8, <1>9, <1>10, TasksStep
  <1> QED BY <1>4, <1>11 DEF HeapInv

LEMMA ShrinkKeeps ==
    ASSUME HeapInv, NEW t \in Thread, ShrinkAligned(t)
    PROVE  HeapInv'
  <1> DEFINE j == task[t]
             p == j.ptr
             s == j.size
             c == p - Overhead
             h == ResizeInPlace(m, c, s)
  <1>1. Rest /\ Tasks /\ j.op = "shrink" /\ task' = [task EXCEPT ![t] = NoTask]
    BY DEF HeapInv, ShrinkAligned, Settle
  <1>2. Commit(h, LiveWith(h, p))
    BY DEF ShrinkAligned
  <1>3. p \in DOMAIN live /\ Holds(j) = {p} /\ s \in Nat /\ s >= MinSize /\ live[p] + Overhead >= s
    BY <1>1, AtWork
  <1>4. Stays(m, c, s)
    <2>1. Owned(c, p)
      <3>1. c = p - Overhead
        OBVIOUS
      <3> HIDE DEF c, p
      <3> QED BY <1>1, <1>3, <3>1, OwnedIs
    <2>2. m.chunk[c].size \in Nat /\ live[p] = m.chunk[c].size - 2
      BY <2>1 DEF Owned, Overhead
    <2> HIDE DEF c, p, s
    <2>3. ~ (s > m.chunk[c].size)
      BY <1>3, <2>2 DEF Overhead
    <2> QED BY <2>3 DEF Stays, MustMove, Size
  <1>5. Rest' /\ Refitted(p)
    <2>1. c = p - Overhead /\ h = ResizeInPlace(m, c, s) /\ MinSize <= s
      BY <1>3 DEF MinSize
    <2> HIDE DEF c, h, p, s
    <2> QED BY <1>1, <1>2, <1>3, <1>4, <2>1, ResizeSection
  <1>6. Mine(t, p)
    BY <1>1, <1>3, MineIs
  <1>7. OthersKeep(t, NoTask)
    BY <1>1, <1>5, <1>6, IdleHolds, RefittedBeside
  <1>8. Tasks'
    BY <1>1, <1>7, IdleHolds, TasksStep
  <1> QED BY <1>5, <1>8 DEF HeapInv

LEMMA TrimKeeps ==
    ASSUME HeapInv, NEW t \in Thread, CallTrim(t)
    PROVE  HeapInv'
  <1>1. Rest /\ Tasks /\ task[t] = NoTask /\ UNCHANGED task
    BY DEF HeapInv, CallTrim
  <1>2. PICK pad \in {0, Page} : Commit(Trim(m, pad), live)
    BY DEF CallTrim
  <1>3. Rest' /\ live' = live
    BY <1>1, <1>2, TrimSection
  <1>4. OthersKeep(t, NoTask)
    BY <1>1, <1>3, IdleHolds, StillBeside
  <1>5. Tasks'
    BY <1>1, <1>4, TasksSame
  <1> QED BY <1>3, <1>5 DEF HeapInv

LEMMA StepKeeps == HeapInv /\ [HeapNext]_heapVars => HeapInv'
  <1> SUFFICES ASSUME HeapInv, [HeapNext]_heapVars PROVE HeapInv'
    OBVIOUS
  <1>1. CASE UNCHANGED heapVars
    <2>1. UNCHANGED <<m, live, spoilt, task>>
      BY <1>1 DEF heapVars
    <2> QED BY <2>1 DEF HeapInv, Rest, Tasks
  <1>2. ASSUME NEW t \in Thread,
               \/ CallMalloc(t) \/ CallFree(t) \/ CallRealloc(t) \/ CallReallocMove(t)
               \/ MoveAlloc(t) \/ MoveFails(t) \/ MoveCopy(t)
               \/ CallAligned(t) \/ CarveAligned(t) \/ ShrinkAligned(t) \/ CallTrim(t)
        PROVE  HeapInv'
    BY <1>2, MallocKeeps, FreeKeeps, ReallocKeeps, ReallocMoveKeeps, MoveAllocKeeps, MoveFailsKeeps,
       MoveCopyKeeps, AlignedKeeps, CarveKeeps, ShrinkKeeps, TrimKeeps
  <1> QED BY <1>1, <1>2 DEF HeapNext

-----------------------------------------------------------------------------
(* The beginning                                                           *)

Nothing == <<>>

LEMMA NothingIs ==
    /\ DOMAIN Nothing = {} /\ Nothing \in Seq(Nat) /\ Len(Nothing) = 0
    /\ \A S : Nothing \in [{} -> S]
    /\ Nothing = Blocks(Used(Nothing)) /\ Used(Nothing) = Nothing
  <1>1. DOMAIN Nothing = {} /\ Nothing \in Seq(Nat) /\ Len(Nothing) = 0
    BY DEF Nothing
  <1>2. \A S : Nothing \in [{} -> S]
    BY DEF Nothing
  <1>3. Used(Nothing) = Nothing
    <2>1. Used(Nothing) \in [{} -> {}]
      BY <1>1 DEF Used
    <2> QED BY <1>2, <2>1
  <1>4. Blocks(Nothing) = Nothing
    <2>1. Blocks(Nothing) \in [{} -> {}]
      BY <1>1 DEF Blocks
    <2> QED BY <1>2, <2>1
  <1> QED BY <1>1, <1>2, <1>3, <1>4

LEMMA InitKeeps == HeapInit => HeapInv
  <1> SUFFICES ASSUME HeapInit PROVE HeapInv
    OBVIOUS
  <1>1. /\ m.heap = Nothing /\ m.chunk = Nothing /\ m.foot = Nothing /\ m.bins = Nothing
        /\ m.binmap = {} /\ m.mapsz = 0 /\ m.freesz = 0 /\ m.retained = Nothing /\ m.retainedsz = 0
        /\ m.released = [i \in 1 .. Ring |-> [base |-> 0, size |-> 0]] /\ m.lo = 0 /\ m.hi = 0
        /\ m.wrote = {} /\ IsHeap(m)
    BY DEF HeapInit, IsHeap, Nothing
  <1>2. live = Nothing /\ spoilt = {} /\ task = [t \in Thread |-> NoTask]
    BY DEF HeapInit, Nothing
  <1>3. DOMAIN m.heap = {} /\ DOMAIN m.chunk = {} /\ DOMAIN m.bins = {} /\ DOMAIN m.retained = {}
    BY <1>1, NothingIs
  <1>4. Cardinality({}) = 0 /\ IsFiniteSet({})
    BY FS_EmptySet
  <1>5. HeapsFine(m)
    <2>1. Mapped(m) = {}
      BY <1>3 DEF Mapped
    <2>2. \A i \in DOMAIN m.released : m.released[i] \in [base : Nat, size : Nat]
      BY <1>1
    <2> QED BY <1>1, <1>3, <1>4, <2>1, <2>2 DEF HeapsFine
  <1>6. Grid(Sizes(m), m.chunk)
    <2>1. AreChunks(m.chunk)
      BY <1>1, <1>3, NothingIs DEF AreChunks
    <2>2. DOMAIN Sizes(m) = {}
      BY <1>3 DEF Sizes
    <2> QED BY <1>3, <2>1, <2>2 DEF Grid, InOrder
  <1>7. AtLeast(m.chunk, {}) /\ NotBoth(m.chunk, {}) /\ Feet(m.chunk, m.foot, {}) /\ Count(m)
    BY <1>3 DEF AtLeast, NotBoth, Feet, Count
  <1>8. Flags(Sizes(m), m.chunk, {})
    BY <1>3 DEF Flags, Sizes
  <1>9. Binning(m, FreeChunks(m.chunk))
    <2>1. FreeChunks(m.chunk) = {}
      BY <1>3 DEF FreeChunks
    <2>2. \A b : Bins(m, b) = {}
      BY <1>3 DEF Bins
    <2>3. PayUnits(m.chunk, {}) = {}
      BY DEF PayUnits
    <2> QED BY <1>1, <1>4, <2>1, <2>2, <2>3 DEF Binning
  <1>10. Kept(m, {})
    <2>1. {m.retained[i] : i \in DOMAIN m.retained} = {}
      BY <1>3
    <2>2. UNION {Extent(b, m.heap[b].size) : b \in {m.retained[i] : i \in DOMAIN m.retained}} = {}
      BY <1>3
    <2>3. {b \in DOMAIN m.heap : m.heap[b].freesz = Whole(m, b)} \ {} = {}
      BY <1>3
    <2>4. m.retained \in Seq(Nat) /\ Len(m.retained) = 0
      BY <1>1, NothingIs
    <2>5. RetainMax \in Nat /\ RetainUnits \in Nat
      BY HeapAssumption
    <2>6. Len(m.retained) <= RetainMax /\ m.retainedsz <= RetainUnits
      BY <1>1, <2>4, <2>5
    <2> QED BY <1>1, <1>3, <1>4, <2>1, <2>2, <2>3, <2>4, <2>6 DEF Kept
  <1>11. Sound(m)
    BY <1>1, <1>5, <1>6, <1>7, <1>8, <1>9, <1>10 DEF Sound
  <1>12. Rest
    BY <1>1, <1>2, <1>3, <1>11, NothingIs DEF Rest
  <1>13. Tasks
    BY <1>2, IdleHolds DEF Tasks
  <1> QED BY <1>12, <1>13 DEF HeapInv

\* The inductive invariant holds: between any two sections the chunks of every heap
\* tile it, flags, footers, bins and totals agree, nothing of a block in use has been
\* written, and what every thread is doing suits the blocks it holds.
THEOREM HeapInvariant == HeapSpec => []HeapInv
BY InitKeeps, StepKeeps, PTL DEF HeapSpec

-----------------------------------------------------------------------------
(* The invariant says what the heap's users rely on                        *)

LEMMA GridFollows ==
    ASSUME Sound(m)
    PROVE  GridExact
  <1> DEFINE K == m.chunk
             Z == Sizes(m)
  <1>1. Core(m, {})
    BY DEF Sound, Core, Clear
  <1>2. Grid(Z, K) /\ AtLeast(K, {}) /\ Flags(Z, K, {}) /\ NotBoth(K, {}) /\ Feet(K, m.foot, {})
    BY DEF Sound
  <1>3. DOMAIN Z = DOMAIN m.heap /\ \A b \in DOMAIN m.heap : Z[b] = m.heap[b].size
    BY DEF Sizes
  <1>4. \A c \in DOMAIN K : /\ c \in Nat /\ K[c].size \in Nat
                            /\ K[c].cused \in BOOLEAN /\ K[c].pused \in BOOLEAN
    BY <1>1, CoreIs
  <1>5. ASSUME NEW b \in DOMAIN m.heap, NEW C, C = {c \in DOMAIN K : K[c].heap = b},
               NEW end, end = b + m.heap[b].size
        PROVE  /\ b + Header \in C /\ K[b + Header].pused
               /\ \A c \in C : /\ K[c].size >= MinSize
                               /\ c + K[c].size = end \/ c + K[c].size \in C
                               /\ ~ K[c].cused => Footer(m, c + K[c].size - 1) = K[c].size
               /\ \A c, d \in C : c < d => c + K[c].size <= d
               /\ \A c, d \in C : d = c + K[c].size => /\ K[d].pused = K[c].cused
                                                       /\ K[c].cused \/ K[d].cused
    <2>1. b + Header \in C /\ K[b + Header].pused
      BY <1>2, <1>3, <1>5 DEF Grid, Flags
    <2>2. ASSUME NEW c \in C
          PROVE  /\ K[c].size >= MinSize
                 /\ c + K[c].size = end \/ c + K[c].size \in C
                 /\ ~ K[c].cused => Footer(m, c + K[c].size - 1) = K[c].size
      <3>1. c \in DOMAIN K /\ K[c].heap = b
        BY <1>5
      <3>2. K[c].size >= MinSize
        BY <1>2, <3>1 DEF AtLeast
      <3>3. Lies(Z, K, c)
        BY <1>2, <3>1 DEF Grid
      <3>4. c + K[c].size = end \/ c + K[c].size \in C
        BY <1>3, <1>5, <3>1, <3>3 DEF Lies
      <3>5. ~ K[c].cused => Footer(m, c + K[c].size - 1) = K[c].size
        BY <1>2, <3>1 DEF Feet, FootAt, Footer
      <3> QED BY <3>2, <3>4, <3>5
    <2>3. \A c, d \in C : c < d => c + K[c].size <= d
      BY <1>2, <1>5 DEF Grid, InOrder
    <2>4. ASSUME NEW c \in C, NEW d \in C, d = c + K[c].size
          PROVE  K[d].pused = K[c].cused /\ (K[c].cused \/ K[d].cused)
      <3>1. Behind(K, c, d) /\ c \in DOMAIN K \ {} /\ d \in DOMAIN K \ {}
        BY <1>5, <2>4 DEF Behind
      <3>2. K[d].pused = K[c].cused
        BY <1>2, <3>1 DEF Flags
      <3>3. K[c].cused \/ K[d].cused
        BY <1>2, <3>1 DEF NotBoth
      <3> QED BY <3>2, <3>3
    <2> QED BY <2>1, <2>2, <2>3, <2>4
  <1>6. ASSUME NEW b \in DOMAIN m.heap
        PROVE  LET C   == ChunksOf(b)
                   end == b + m.heap[b].size
               IN  /\ b + Header \in C /\ m.chunk[b + Header].pused
                   /\ \A c \in C : /\ Size(m, c) >= MinSize
                                   /\ c + Size(m, c) = end \/ c + Size(m, c) \in C
                                   /\ ~ m.chunk[c].cused => Footer(m, c + Size(m, c) - 1) = Size(m, c)
                   /\ \A c, d \in C : c < d => c + Size(m, c) <= d
                   /\ \A c, d \in C : d = c + Size(m, c) =>
                          /\ m.chunk[d].pused = m.chunk[c].cused
                          /\ m.chunk[c].cused \/ m.chunk[d].cused
    <2> DEFINE C == ChunksOf(b)
               end == b + m.heap[b].size
    <2>1. C = {c \in DOMAIN K : K[c].heap = b} /\ end = b + m.heap[b].size
      BY DEF ChunksOf, HeapOf
    <2> HIDE DEF C, end
    <2>2. /\ b + Header \in C /\ K[b + Header].pused
          /\ \A c \in C : /\ K[c].size >= MinSize
                          /\ c + K[c].size = end \/ c + K[c].size \in C
                          /\ ~ K[c].cused => Footer(m, c + K[c].size - 1) = K[c].size
          /\ \A c, d \in C : c < d => c + K[c].size <= d
          /\ \A c, d \in C : d = c + K[c].size => /\ K[d].pused = K[c].cused
                                                  /\ K[c].cused \/ K[d].cused
      BY <1>5, <2>1
    <2> QED BY <2>2 DEF C, end, Size
  <1> QED BY <1>6 DEF GridExact

LEMMA UnitsAre ==
    ASSUME Sound(m), NEW S \in SUBSET DOMAIN m.chunk
    PROVE  /\ Payload(S) = PayUnits(m.chunk, S)
           /\ \A b : S = {c \in DOMAIN m.chunk : m.chunk[c].heap = b /\ ~ m.chunk[c].cused}
                  => Units(S) = FreeUnits(m.chunk, b)
  <1> DEFINE K == m.chunk
  <1>1. Core(m, {})
    BY DEF Sound, Core, Clear
  <1>2. \A c \in S : c \in Nat /\ K[c].size \in Nat
    BY <1>1, CoreIs
  <1>3. \A c \in S : /\ c + Overhead .. c + K[c].size - 1 =
                            {u \in Nat : c + Overhead <= u /\ u < c + K[c].size}
                     /\ c .. c + K[c].size - 1 = {u \in Nat : c <= u /\ u < c + K[c].size}
    BY <1>2 DEF Overhead
  <1>4. Payload(S) = PayUnits(K, S)
    BY <1>3 DEF Payload, PayUnits, Size
  <1>5. \A b : S = {c \in DOMAIN K : K[c].heap = b /\ ~ K[c].cused} => Units(S) = FreeUnits(K, b)
    BY <1>3 DEF Units, FreeUnits, Size
  <1> QED BY <1>4, <1>5

LEMMA AccountsFollow ==
    ASSUME Rest
    PROVE  AccountsExact
  <1> DEFINE K == m.chunk
             S == FreeOf(DOMAIN m.chunk)
  <1>1. /\ Sound(m) /\ HeapsFine(m) /\ Binning(m, FreeChunks(K)) /\ Count(m) /\ Kept(m, {})
        /\ \A b \in DOMAIN m.bins : m.bins[b] # {}
    BY DEF Rest, Sound
  <1>2. S = FreeChunks(K)
    BY DEF FreeOf, FreeChunks
  <1>3. /\ \A b : Bins(m, b) = {c \in S : BinOf(m, c) = b}
        /\ m.binmap = {BinOf(m, c) : c \in S}
        /\ m.freesz = Cardinality(PayUnits(K, S))
    BY <1>1, <1>2 DEF Binning
  <1>4. S \in SUBSET DOMAIN m.chunk
    BY DEF FreeOf
  <1> HIDE DEF S
  <1>5. \A c \in S : c \in Bins(m, BinOf(m, c))
    BY <1>3
  <1>6. \A b \in DOMAIN m.bins : m.bins[b] = Bins(m, b)
    BY DEF Bins
  <1>7. \A b \in DOMAIN m.bins : \A c \in m.bins[b] : c \in S /\ BinOf(m, c) = b
    BY <1>3, <1>6
  <1>8. m.binmap = DOMAIN m.bins
    <2>1. ASSUME NEW b \in m.binmap PROVE b \in DOMAIN m.bins
      <3>1. PICK c \in S : b = BinOf(m, c)
        BY <1>3
      <3>2. Bins(m, b) # {}
        BY <1>5, <3>1
      <3> QED BY <3>2 DEF Bins
    <2>2. ASSUME NEW b \in DOMAIN m.bins PROVE b \in m.binmap
      <3>1. PICK c : c \in m.bins[b]
        BY <1>1
      <3> QED BY <1>3, <1>7, <3>1
    <2> QED BY <2>1, <2>2
  <1>9. m.freesz = Cardinality(Payload(S))
    BY <1>1, <1>3, <1>4, UnitsAre
  <1>10. m.mapsz = Cardinality(Mapped(m))
    BY <1>1 DEF HeapsFine
  <1>11. ASSUME NEW b \in DOMAIN m.heap
         PROVE  m.heap[b].freesz = Cardinality(Units(FreeOf(ChunksOf(b))))
    <2> DEFINE T == FreeOf(ChunksOf(b))
    <2>1. T = {c \in DOMAIN K : K[c].heap = b /\ ~ K[c].cused} /\ T \in SUBSET DOMAIN m.chunk
      BY DEF FreeOf, ChunksOf, HeapOf
    <2> HIDE DEF T
    <2>2. Units(T) = FreeUnits(K, b)
      BY <1>1, <2>1, UnitsAre
    <2>3. m.heap[b].freesz = Cardinality(FreeUnits(K, b))
      BY <1>1 DEF Count
    <2> QED BY <2>2, <2>3 DEF T
  <1>12. /\ IsInjective(m.retained)
         /\ ToSet(m.retained) = {b \in DOMAIN m.heap : m.heap[b].freesz = Whole(m, b)}
         /\ m.retainedsz = Cardinality(UNION {Extent(b, m.heap[b].size) : b \in ToSet(m.retained)})
         /\ Len(m.retained) <= RetainMax /\ m.retainedsz <= RetainUnits
    <2> DEFINE A == {b \in DOMAIN m.heap : m.heap[b].freesz = Whole(m, b)}
    <2>1. /\ \A i, j \in DOMAIN m.retained : m.retained[i] = m.retained[j] => i = j
          /\ {m.retained[i] : i \in DOMAIN m.retained} = A \ {}
          /\ m.retainedsz = Cardinality(UNION {Extent(b, m.heap[b].size) :
                                                 b \in {m.retained[i] : i \in DOMAIN m.retained}})
          /\ Len(m.retained) <= RetainMax /\ m.retainedsz <= RetainUnits
      BY <1>1 DEF Kept
    <2>2. A \ {} = A
      OBVIOUS
    <2> HIDE DEF A
    <2>3. IsInjective(m.retained) /\ ToSet(m.retained) = A
      BY <2>1, <2>2 DEF IsInjective, ToSet
    <2> QED BY <2>1, <2>3 DEF A, ToSet
  <1> QED BY <1>5, <1>7, <1>8, <1>9, <1>10, <1>11, <1>12 DEF AccountsExact, S

LEMMA BlocksFollow ==
    ASSUME Rest
    PROVE  BlocksIntact
  <1> DEFINE K == m.chunk
             U == Used(m.chunk)
  <1>1. Sound(m) /\ live = Blocks(U) /\ Sized(U) /\ spoilt = {}
    BY RestIs DEF Rest
  <1>2. Core(m, {})
    BY <1>1 DEF Sound, Core, Clear
  <1>3. DOMAIN U = {c \in DOMAIN K : K[c].cused}
    BY DEF Used
  <1>4. ASSUME NEW p \in DOMAIN live
        PROVE  LET c == p - Overhead
               IN  /\ c \in DOMAIN m.chunk /\ m.chunk[c].cused
                   /\ live[p] = Usable(m, p)
                   /\ ChunkValid(m, c, HeapOf(m, c))
    <2> DEFINE c == p - Overhead
    <2>1. c = p - Overhead
      OBVIOUS
    <2> HIDE DEF c
    <2>2. Owned(c, p)
      BY <2>1, OwnedIs
    <2>3. /\ c \in DOMAIN K /\ K[c].cused /\ live[p] = K[c].size - Overhead /\ K[c].size >= MinSize
      BY <2>2 DEF Owned, IsUsed
    <2>4. ChunkValid(m, c, m.chunk[c].heap)
      BY <1>2, <2>3, ValidIs
    <2>5. live[p] = Usable(m, p)
      BY <2>1, <2>3 DEF Usable, Size
    <2> QED BY <2>3, <2>4, <2>5 DEF c, HeapOf
  <1>5. {c \in DOMAIN m.chunk : m.chunk[c].cused} = {p - Overhead : p \in DOMAIN live}
    <2> DEFINE D == {c \in DOMAIN m.chunk : m.chunk[c].cused}
    <2>1. DOMAIN U = D
      BY <1>3
    <2> HIDE DEF U, D
    <2>2. \A p \in DOMAIN live : p - Overhead \in DOMAIN U
      BY <1>1, BlocksAre
    <2>3. \A c \in DOMAIN U : c + Overhead \in DOMAIN live
      BY <1>1, BlocksAre
    <2>4. DOMAIN U \subseteq Nat
      BY <1>1 DEF Sized
    <2>5. \A c \in DOMAIN U : c + Overhead \in DOMAIN live /\ (c + Overhead) - Overhead = c
      BY <2>3, <2>4 DEF Overhead
    <2>6. \A c \in DOMAIN U : c \in {p - Overhead : p \in DOMAIN live}
      BY <2>5
    <2>7. DOMAIN U = {p - Overhead : p \in DOMAIN live}
      BY <2>2, <2>6
    <2> QED BY <2>1, <2>7 DEF D
  <1>6. ASSUME NEW p \in DOMAIN live, NEW q \in DOMAIN live, p # q
        PROVE  BlockAt(p, live[p]) \cap BlockAt(q, live[q]) = {}
    <2> DEFINE c == p - Overhead
               d == q - Overhead
    <2>1. c = p - Overhead /\ d = q - Overhead
      OBVIOUS
    <2> HIDE DEF c, d
    <2>2. Owned(c, p) /\ Owned(d, q)
      BY <2>1, OwnedIs
    <2>3. /\ c \in DOMAIN K /\ c \in Nat /\ p = c + 2 /\ live[p] = K[c].size - 2 /\ K[c].size \in Nat
          /\ d \in DOMAIN K /\ d \in Nat /\ q = d + 2 /\ live[q] = K[d].size - 2 /\ K[d].size \in Nat
          /\ live[p] \in Nat /\ live[q] \in Nat
      BY <2>2 DEF Owned, IsUsed, Overhead
    <2>4. InOrder(K)
      BY <1>2, CoreIs
    <2>5. c + K[c].size <= d \/ d + K[d].size <= c
      BY <1>6, <2>3, <2>4 DEF InOrder
    <2>6. ASSUME NEW u \in BlockAt(p, live[p]), u \in BlockAt(q, live[q])
          PROVE  FALSE
      <3>1. u \in Int /\ p <= u /\ u <= p + live[p] - 1 /\ q <= u /\ u <= q + live[q] - 1
        BY <2>3, <2>6 DEF BlockAt
      <3> QED BY <2>3, <2>5, <3>1
    <2> QED BY <2>6
  <1> QED BY <1>1, <1>4, <1>5, <1>6 DEF BlocksIntact

\* After any calls of malloc(), calloc(), free(), realloc(), aligned allocation and
\* malloc_trim() by any threads, interleaved at the heap lock: the chunks tile their
\* heaps with the right flags and footers, the bins and totals account for every free
\* unit, the heaps kept mapped are those entirely free and within both limits, and no
\* block a caller holds overlaps another, was written to, or would be refused by free().
THEOREM HeapCorrect == HeapSpec => []HeapSound
  <1>1. HeapInv => HeapSound
    <2> SUFFICES ASSUME HeapInv PROVE HeapSound
      OBVIOUS
    <2>1. Rest /\ Sound(m)
      BY DEF HeapInv, Rest
    <2> QED BY <2>1, GridFollows, AccountsFollow, BlocksFollow DEF HeapSound
  <1> QED BY <1>1, HeapInvariant, PTL

=============================================================================
