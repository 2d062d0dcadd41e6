------------------------------- MODULE Malloc -------------------------------
(***************************************************************************)
(* The heap, stdlib/malloc_dl.c: heaps obtained from mmap(), cut into      *)
(* chunks that carry their size, the flags "I am used" and "the chunk      *)
(* before me is used" and, while free, their size again in the last word   *)
(* (the footer); free chunks are kept in bins by size.  One unit is 8      *)
(* bytes.  A section under the heap lock is one action; realloc() of a     *)
(* block that must move, and aligned allocation, are several sections, and *)
(* other threads come in between.                                          *)
(*                                                                         *)
(* `m' is malloc_common together with the headers and footers in the       *)
(* heaps.  `wrote' collects the units the allocator writes during one      *)
(* section, so that a write into a caller's block is seen (`spoilt').      *)
(***************************************************************************)
EXTENDS Integers, Sequences, FiniteSets, SequencesExt, FiniteSetsExt

CONSTANTS Thread,
          Page,         \* _PAGE_SIZE in units
          Pages,        \* pages the kernel has for mmap()
          BinBase,      \* first size beyond the small bins' range (256 bytes)
          RetainMax,    \* MALLOC_RETAIN_MAX
          RetainUnits,  \* MALLOC_RETAIN_BYTES
          Ring,         \* entries of released[]
          Payloads,     \* sizes the callers ask for
          Alignments,   \* alignments the callers ask for, powers of 2
          MaxLive       \* bound: blocks held at a time

ASSUME HeapAssumption ==
    /\ Page \in Nat \ {0} /\ Pages \in Nat /\ BinBase \in Nat \ {0}
    /\ RetainMax \in Nat \ {0} /\ RetainUnits \in Nat /\ Ring \in Nat \ {0}
    /\ Payloads \subseteq Nat /\ Alignments \subseteq Nat \ {0}

VARIABLES m, live, spoilt, task
heapVars == <<m, live, spoilt, task>>

NoChunk     == 0        \* no chunk
Overhead == 2      \* CHUNK_OVERHEAD: the words `size' and `heap'
MinSize  == 5      \* CHUNK_MIN_SIZE
Header   == 2      \* sizeof(heap_t)

\* The function that is v at x and f elsewhere
Updated(f, x, v) == [y \in DOMAIN f \cup {x} |-> IF y = x THEN v ELSE f[y]]

Ceil(n) == ((n + Page - 1) \div Page) * Page
ChunkFor(payload) == Max({payload + Overhead, MinSize})

(***************************************************************************)
(* Bins.  Small bins hold one size each; large bins two to a power of two. *)
(***************************************************************************)
SmallMax == BinBase - Overhead
Log2(x)  == Cardinality({k \in 1 .. 15 : 2 ^ k <= x})
LIdx(s)  == LET x == s \div BinBase
                k == Log2(x)
            IN  IF x = 0 THEN 0
                ELSE IF x > 65535 THEN 31
                ELSE (2 * k) + (IF 2 * s >= 3 * (2 ^ k) * BinBase THEN 1 ELSE 0)
\* Twice the end of the sizes of a large bin, in units of BinBase; the last bin has none.
Lookup == <<3, 4, 6, 8, 12, 16, 24, 32, 48, 64, 96, 128, 192, 256, 384, 512, 768, 1024, 1536, 2048,
            3072, 4096, 6144, 8192, 12288, 16384, 24576, 32768, 49152, 65536, 98304, 0>>
Largest(idx) == IF idx = 31 THEN 0 ELSE (Lookup[idx + 1] * BinBase) \div 2 - 1
Bin(s)   == IF s <= SmallMax THEN <<"small", s>> ELSE <<"large", LIdx(s)>>
BinOf(h, c) == Bin(h.chunk[c].size)
Bins(h, b)  == IF b \in DOMAIN h.bins THEN h.bins[b] ELSE {}

(***************************************************************************)
(* Chunks and their neighbours.                                            *)
(***************************************************************************)
Size(h, c)    == h.chunk[c].size
HeapOf(h, c)  == h.chunk[c].heap
Whole(h, b)   == h.heap[b].size - Header
IsFirst(h, c) == c = HeapOf(h, c) + Header

Released(h, c) == \E i \in DOMAIN h.released :
                     LET r == h.released[i] IN r.base <= c /\ c < r.base + r.size

HeapSizeValid(h, b) ==
    /\ b \in DOMAIN h.heap /\ b % Page = 0
    /\ h.lo <= b /\ b < h.hi
    /\ h.heap[b].size >= Header /\ h.heap[b].size % Page = 0
    /\ b + h.heap[b].size <= h.hi

ChunkValid(h, c, b) ==
    /\ ~ Released(h, c)
    /\ HeapSizeValid(h, b)
    /\ b + Header <= c /\ c < b + h.heap[b].size
    /\ c \in DOMAIN h.chunk
    /\ Size(h, c) >= MinSize /\ c + Size(h, c) <= b + h.heap[b].size

IsLastIn(h, c, b) == \/ ~ HeapSizeValid(h, b)
                     \/ c + Size(h, c) + MinSize > b + h.heap[b].size
NextOf(h, c) == IF IsLastIn(h, c, HeapOf(h, c)) THEN NoChunk ELSE c + Size(h, c)
\* A word no footer was written to reads as 0.
Footer(h, a) == IF a \in DOMAIN h.foot THEN h.foot[a] ELSE 0
PrevOf(h, c) == IF h.chunk[c].pused \/ Footer(h, c - 1) = 0 THEN NoChunk
                ELSE c - Footer(h, c - 1)

(***************************************************************************)
(* Headers, footers and bins: the units they write are noted.  The links   *)
(* of a free chunk are its units 2 and 3, a tree node (scaled) is unit 4.  *)
(***************************************************************************)
SetFooter(h, c) ==
    LET a == c + Size(h, c) - 1
    IN  [h EXCEPT !.foot = Updated(@, a, Size(h, c)), !.wrote = @ \cup {a}]
SetHeader(h, c, hdr) ==
    [h EXCEPT !.chunk = Updated(@, c, hdr), !.wrote = @ \cup {c, c + 1}]
ChunkInit(h, c, b, size, pused) ==
    SetFooter([SetHeader(h, c, [size |-> size, heap |-> b, cused |-> FALSE, pused |-> pused])
               EXCEPT !.wrote = @ \cup {c + 2, c + 3}], c)
SetUsed(h, c, u)     == [h EXCEPT !.chunk[c].cused = u, !.wrote = @ \cup {c}]
SetPrevUsed(h, c, u) == IF c = NoChunk THEN h
                        ELSE [h EXCEPT !.chunk[c].pused = u, !.wrote = @ \cup {c}]

BinLinks(S)   == UNION {{c + 2, c + 3} : c \in S}
Node(h, c) == IF Size(h, c) <= SmallMax THEN {} ELSE {c + 4}

PutChunk(h, c) ==
    LET b == BinOf(h, c)
    IN  [h EXCEPT !.freesz = @ + Size(h, c) - Overhead,
                  !.bins   = Updated(@, b, Bins(h, b) \cup {c}),
                  !.binmap = @ \cup {b},
                  !.wrote  = @ \cup BinLinks(Bins(h, b) \cup {c}) \cup Node(h, c)]
TakeChunk(h, c) ==
    LET b    == BinOf(h, c)
        rest == Bins(h, b) \ {c}
    IN  [h EXCEPT !.freesz = @ - (Size(h, c) - Overhead),
                  !.bins   = Updated(@, b, rest),
                  !.binmap = IF rest = {} THEN @ \ {b} ELSE @,
                  !.wrote  = @ \cup BinLinks(Bins(h, b)) \cup Node(h, c)]
Forget(h, C) == [h EXCEPT !.chunk = [c \in DOMAIN @ \ C |-> @[c]]]

CanSplit(h, c, size) == size >= Overhead /\ Size(h, c) >= size + MinSize
Split(h, c, size) ==
    LET h1 == ChunkInit(TakeChunk(h, c), c + size, HeapOf(h, c), Size(h, c) - size, FALSE)
        h2 == SetHeader(h1, c, [size |-> size, heap |-> HeapOf(h, c),
                                cused |-> FALSE, pused |-> TRUE])
    IN  PutChunk(h2, c + size)

(***************************************************************************)
(* Coalescing: first with the chunks before, then with those behind.       *)
(***************************************************************************)
Lengthen(h, c, by)  == SetHeader(h, c, [h.chunk[c] EXCEPT !.size = @ + by])
\* c swallows the chunk d behind it
Merge(h, c, d)  == Forget(Lengthen(h, c, Size(h, d)), {d})
Absorb(h, c, d) == PutChunk(Merge(TakeChunk(TakeChunk(h, c), d), c, d), c)

CanJoinPrev(h, c, b) ==
    /\ ~ IsFirst(h, c) /\ ~ h.chunk[c].pused
    /\ PrevOf(h, c) # NoChunk /\ ChunkValid(h, PrevOf(h, c), b)
CanJoinNext(h, c, b) ==
    /\ ~ IsLastIn(h, c, b) /\ NextOf(h, c) # NoChunk
    /\ ChunkValid(h, NextOf(h, c), b) /\ ~ h.chunk[NextOf(h, c)].cused

\* One turn of either loop; the chunks that are left bound their number.
TurnPrev(r, b) ==
    LET s == PrevOf(r[1], r[2])
    IN  IF CanJoinPrev(r[1], r[2], b) THEN <<Absorb(r[1], s, r[2]), s>> ELSE r
TurnNext(h, c, b) == IF CanJoinNext(h, c, b) THEN Absorb(h, c, NextOf(h, c)) ELSE h

JoinPrev(h, c, b) ==
    LET turn[n \in Nat] == IF n = 0 THEN <<h, c>> ELSE TurnPrev(turn[n - 1], b)
    IN  turn[Cardinality(DOMAIN h.chunk)]
JoinNext(h, c, b) ==
    LET turn[n \in Nat] == IF n = 0 THEN h ELSE TurnNext(turn[n - 1], c, b)
    IN  turn[Cardinality(DOMAIN h.chunk)]

Joined(r, b) == SetFooter(JoinNext(r[1], r[2], b), r[2])
Join(h, c)   == Joined(JoinPrev(h, c, HeapOf(h, c)), HeapOf(h, c))

(***************************************************************************)
(* Heaps: obtained, released, and kept for a while when entirely free.     *)
(***************************************************************************)
Extent(b, size) == b .. b + size - 1
Mapped(h)  == UNION {Extent(b, h.heap[b].size) : b \in DOMAIN h.heap}
Holes(h, size) ==     \* where the kernel may put a mapping
    {b \in {p * Page : p \in 1 .. Pages} :
        b + size <= (Pages + 1) * Page /\ Extent(b, size) \cap Mapped(h) = {}}

Record(h, b) ==
    [h EXCEPT !.released[(h.relIdx % Ring) + 1] = [base |-> b, size |-> h.heap[b].size],
              !.relIdx = (@ + 1) % Ring,
              !.mapsz  = @ - h.heap[b].size,
              !.heap   = [x \in DOMAIN @ \ {b} |-> @[x]]]
HeapRelease(h, b) ==
    Record(Forget(TakeChunk(h, b + Header), {c \in DOMAIN h.chunk : HeapOf(h, c) = b}), b)

UnretainAt(h, i) ==
    [h EXCEPT !.retainedsz = @ - h.heap[h.retained[i]].size, !.retained = RemoveAt(@, i)]
Unretain(h, b) ==
    IF \E i \in DOMAIN h.retained : h.retained[i] = b
    THEN UnretainAt(h, Max({i \in DOMAIN h.retained : h.retained[i] = b})) ELSE h

\* The heaps kept longest go first, as many as it takes.
DropOldest(h) == HeapRelease(UnretainAt(h, 1), h.retained[1])
Dropping(h) ==
    LET drop[n \in 0 .. Len(h.retained)] == IF n = 0 THEN h ELSE DropOldest(drop[n - 1])
    IN  drop
RoomFor(h, size) == Len(h.retained) < RetainMax /\ h.retainedsz + size <= RetainUnits
MakeRoom(h, size) ==
    Dropping(h)[Min({n \in 0 .. Len(h.retained) : RoomFor(Dropping(h)[n], size)})]
HeapRetain(h, b) ==
    IF h.heap[b].size > RetainUnits THEN HeapRelease(h, b)
    ELSE [MakeRoom(h, h.heap[b].size)
            EXCEPT !.retained = Append(@, b), !.retainedsz = @ + h.heap[b].size]

Trimmed(h, pad) == h.retained = <<>> \/ h.retainedsz <= pad
Trim(h, pad) ==
    Dropping(h)[Min({n \in 0 .. Len(h.retained) : Trimmed(Dropping(h)[n], pad)})]

\* A released[] record that the new mapping overlaps is dropped.
DropRecords(h, b, size) ==
    [h EXCEPT !.released =
        [i \in DOMAIN @ |-> IF b < @[i].base + @[i].size /\ @[i].base < b + size
                            THEN [base |-> 0, size |-> 0] ELSE @[i]]]
HeapAlloc(h, b, size) ==
    LET h1 == [DropRecords(h, b, size) EXCEPT
                 !.lo    = IF @ = 0 \/ b < @ THEN b ELSE @,
                 !.hi    = Max({@, b + size}),
                 !.heap  = Updated(@, b, [size |-> size, freesz |-> size - Header]),
                 !.mapsz = @ + size]
    IN  PutChunk(ChunkInit(h1, b + Header, b, size - Header, TRUE), b + Header)

(***************************************************************************)
(* Allocation.  Each operator yields the set of outcomes <<state, chunk>>; *)
(* empty when the kernel has no memory.  Which of the fitting chunks of a  *)
(* bin is found depends on the order of insertions: any.                   *)
(***************************************************************************)
Cut(h, c, size) == IF CanSplit(h, c, size) THEN Split(h, c, size) ELSE TakeChunk(h, c)
Charge(h, c)    == SetUsed([h EXCEPT !.heap[HeapOf(h, c)].freesz = @ - Size(h, c)], c, TRUE)
TellNext(h, c, used) == SetPrevUsed(h, NextOf(h, c), used)

\* A heap that is no longer entirely free is not one of those kept any more
Reuse(h, b) == IF h.heap[b].freesz = Whole(h, b) THEN Unretain(h, b) ELSE h

\* Mutant: a heap that was kept entirely free stays on the list of those
AllocFrom_StaysRetained(h, c, size) == TellNext(Charge(Cut(h, c, size), c), c, TRUE)

AllocFrom(h, c, size) ==
    TellNext(Charge(Cut(Reuse(h, HeapOf(h, c)), c, size), c), c, TRUE)

Fits(h, b, size)   == {c \in Bins(h, b) : Size(h, c) >= size}
LargeBins(h, size) == {b \in h.binmap : b[1] = "large" /\ b[2] >= LIdx(size) /\ Fits(h, b, size) # {}}
SmallBins(h, size) == {b \in h.binmap : b[1] = "small" /\ b[2] >= size}
First(B)           == CHOOSE b \in B : \A d \in B : b[2] <= d[2]

FromNewHeap(h, want, size) ==
    LET len == Ceil(Header + want)
    IN  {<<AllocFrom(HeapAlloc(h, b, len), b + Header, size), b + Header>> : b \in Holes(h, len)}
AllocLarge(h, size) ==
    IF LargeBins(h, size) # {}
    THEN {<<AllocFrom(h, c, size), c>> : c \in Fits(h, First(LargeBins(h, size)), size)}
    ELSE FromNewHeap(h, Max({Largest(LIdx(size)), size}), size)

\* The first chunk of a heap made for a small block is cut before it is taken.
CutFirst(h, c, size) ==
    IF CanSplit(h, c, size) THEN PutChunk(SetFooter(Split(h, c, size), c), c) ELSE h
AllocSmall(h, size) ==
    IF SmallBins(h, size) # {}
    THEN {<<AllocFrom(h, c, size), c>> : c \in Bins(h, First(SmallBins(h, size)))}
    ELSE IF \E b \in h.binmap : b[1] = "large" THEN AllocLarge(h, size)
    ELSE LET len == Ceil(Header + size)
         IN  {<<AllocFrom(CutFirst(HeapAlloc(h, b, len), b + Header, size), b + Header, size),
                b + Header>> : b \in Holes(h, len)}
Alloc(h, size) == IF size <= SmallMax THEN AllocSmall(h, size) ELSE AllocLarge(h, size)

(***************************************************************************)
(* free(), and the parts of realloc() and of aligned allocation that are   *)
(* sections of their own.                                                  *)
(***************************************************************************)
Credit(h, c, units) == [h EXCEPT !.heap[HeapOf(h, c)].freesz = @ + units]
KeepIfFree(h, b) ==
    IF h.heap[b].freesz = Whole(h, b) /\ Size(h, b + Header) = Whole(h, b)
    THEN HeapRetain(h, b) ELSE h
FreedChunk(h, c)     == Credit(TellNext(SetFooter(SetUsed(h, c, FALSE), c), c, FALSE), c, Size(h, c))
FreeChunk(h, c) == KeepIfFree(Join(PutChunk(FreedChunk(h, c), c), c), HeapOf(h, c))
FreeBlock(h, c) == IF ChunkValid(h, c, HeapOf(h, c)) THEN FreeChunk(h, c) ELSE h

\* The chunk at s, which ends c, becomes a free one of its own
CutTail(h, c, s) ==
    Credit(PutChunk(ChunkInit(h, s, HeapOf(h, c), c + Size(h, c) - s, TRUE), s), c, c + Size(h, c) - s)
Shrink(h, c, size) ==
    TellNext(Join(SetHeader(CutTail(h, c, c + size), c, [h.chunk[c] EXCEPT !.size = size]),
                  c + size), c + size, FALSE)

CanGrow(h, c, size) ==
    LET n == NextOf(h, c)
    IN  n # NoChunk /\ ~ h.chunk[n].cused /\ Size(h, n) >= size - Size(h, c)
Grow(h, c, size) ==
    Merge(AllocFrom(h, NextOf(h, c), size - Size(h, c)), c, NextOf(h, c))

ResizeInPlace(h, c, size) ==
    IF size < Size(h, c) THEN IF CanSplit(h, c, size) THEN Shrink(h, c, size) ELSE h
    ELSE IF size > Size(h, c) THEN Grow(h, c, size) ELSE h
MustMove(h, c, size) == size > Size(h, c) /\ ~ CanGrow(h, c, size)

\* The payload of c slides up to an aligned address; what is before it is freed.
AlignedAt(c, al) ==
    LET want == c + Overhead + MinSize + al - 1 IN (want - (want % al)) - Overhead
Carve(h, c, al) ==
    LET a    == AlignedAt(c, al)
        lead == a - c
        h1 == SetHeader(h, a, [size |-> Size(h, c) - lead, heap |-> HeapOf(h, c),
                               cused |-> TRUE, pused |-> FALSE])
        h2 == SetFooter(SetHeader(h1, c, [h.chunk[c] EXCEPT !.size = lead, !.cused = FALSE]), c)
    IN  Join(PutChunk([h2 EXCEPT !.heap[HeapOf(h, c)].freesz = @ + lead], c), c)

(***************************************************************************)
(* The callers.  live[p] is the size a caller may use at p; `task' what a  *)
(* thread is doing between two sections.                                   *)
(***************************************************************************)
NoTask == [op |-> "none"]
Holds(job) == IF job.op = "none" THEN {}
              ELSE IF job.op = "copy" THEN {job.ptr, job.to} ELSE {job.ptr}
HeapBusy == UNION {Holds(task[t]) : t \in Thread}
Usable(h, p)  == Size(h, p - Overhead) - Overhead

HeapInit ==
    /\ m = [heap |-> <<>>, chunk |-> <<>>, foot |-> <<>>, bins |-> <<>>, binmap |-> {},
            mapsz |-> 0, freesz |-> 0, retained |-> <<>>, retainedsz |-> 0,
            released |-> [i \in 1 .. Ring |-> [base |-> 0, size |-> 0]], relIdx |-> 0,
            lo |-> 0, hi |-> 0, wrote |-> {}]
    /\ live = <<>>
    /\ spoilt = {}
    /\ task = [t \in Thread |-> NoTask]

FreeEnds(h) == {c + Size(h, c) - 1 : c \in {d \in DOMAIN h.chunk : ~ h.chunk[d].cused}}
BlockAt(p, size) == p .. p + size - 1
\* A section ends: the callers hold L.  Words of used blocks are theirs, so
\* footers are remembered for free chunks only.
Commit(h, L) ==
    /\ m' = [h EXCEPT !.wrote = {}, !.bins = [b \in {x \in DOMAIN @ : @[x] # {}} |-> @[b]],
                      !.foot = [a \in DOMAIN @ \cap FreeEnds(h) |-> @[a]]]
    /\ live' = L
    /\ spoilt' = spoilt \cup {p \in DOMAIN live \cap DOMAIN L :
                    BlockAt(p, Min({live[p], L[p]})) \cap h.wrote # {}}
LiveWith(h, p)    == Updated(live, p, Usable(h, p))
LiveWithout(p)    == [q \in DOMAIN live \ {p} |-> live[q]]
Settle(t)     == task' = [task EXCEPT ![t] = NoTask]
BeginTask(t, job) == task' = [task EXCEPT ![t] = job]

\* malloc(), calloc(): a block or, when there is no memory, nothing.
CallMalloc(t) ==
    /\ task[t] = NoTask /\ Cardinality(DOMAIN live) < MaxLive
    /\ \E n \in Payloads : \E r \in Alloc(m, ChunkFor(n)) :
          Commit(r[1], LiveWith(r[1], r[2] + Overhead))
    /\ UNCHANGED task

CallFree(t) ==
    /\ task[t] = NoTask
    /\ \E p \in DOMAIN live \ HeapBusy : Commit(FreeBlock(m, p - Overhead), LiveWithout(p))
    /\ UNCHANGED task

\* realloc() of a block that can stay, and the first section of one that moves.
CallRealloc(t) ==
    /\ task[t] = NoTask
    /\ \E p \in DOMAIN live \ HeapBusy, n \in Payloads :
          /\ ~ MustMove(m, p - Overhead, ChunkFor(n)) /\ ChunkValid(m, p - Overhead, HeapOf(m, p - Overhead))
          /\ LET h == ResizeInPlace(m, p - Overhead, ChunkFor(n)) IN Commit(h, LiveWith(h, p))
    /\ UNCHANGED task
CallReallocMove(t) ==
    /\ task[t] = NoTask /\ Cardinality(DOMAIN live) < MaxLive
    /\ \E p \in DOMAIN live \ HeapBusy, n \in Payloads :
          /\ MustMove(m, p - Overhead, ChunkFor(n))
          /\ BeginTask(t, [op |-> "move", ptr |-> p, size |-> ChunkFor(n), old |-> Usable(m, p)])
    /\ UNCHANGED <<m, live, spoilt>>

\* malloc() is asked for the size of a chunk, to which it adds the words of its own
MoveAlloc(t) ==
    /\ task[t].op = "move"
    /\ \E r \in Alloc(m, ChunkFor(task[t].size)) :
          /\ Commit(r[1], LiveWith(r[1], r[2] + Overhead))
          /\ BeginTask(t, [op |-> "copy", ptr |-> task[t].ptr, to |-> r[2] + Overhead, old |-> task[t].old])
MoveFails(t) ==
    /\ task[t].op = "move" /\ Alloc(m, ChunkFor(task[t].size)) = {}
    /\ Settle(t)
    /\ UNCHANGED <<m, live, spoilt>>
\* memcpy() of the old block's usable size, then free() of it.
MoveCopy(t) ==
    /\ task[t].op = "copy"
    /\ LET h == [m EXCEPT !.wrote = BlockAt(task[t].to, task[t].old) \ BlockAt(task[t].to, live[task[t].to])]
       IN  Commit(FreeBlock(h, task[t].ptr - Overhead), LiveWithout(task[t].ptr))
    /\ Settle(t)

\* Aligned allocation: a larger block, cut at the front, then at the end.
CallAligned(t) ==
    /\ task[t] = NoTask /\ Cardinality(DOMAIN live) < MaxLive
    /\ \E n \in Payloads, al \in Alignments :
         \E r \in Alloc(m, ChunkFor(ChunkFor(n) + al + MinSize)) :
            LET p == r[2] + Overhead
            IN  /\ Commit(r[1], LiveWith(r[1], p))
                /\ BeginTask(t, [op |-> IF p % al = 0 THEN "shrink" ELSE "carve",
                             ptr |-> p, size |-> ChunkFor(n), al |-> al])
CarveAligned(t) ==
    /\ task[t].op = "carve"
    /\ LET c == task[t].ptr - Overhead
           h == Carve(m, c, task[t].al)
           p == AlignedAt(c, task[t].al) + Overhead
       IN  /\ Commit(h, Updated(LiveWithout(task[t].ptr), p, Usable(h, p)))
           /\ BeginTask(t, [op |-> "shrink", ptr |-> p, size |-> task[t].size, al |-> task[t].al])
ShrinkAligned(t) ==
    /\ task[t].op = "shrink"
    /\ LET h == ResizeInPlace(m, task[t].ptr - Overhead, task[t].size)
       IN  Commit(h, LiveWith(h, task[t].ptr))
    /\ Settle(t)

CallTrim(t) ==
    /\ task[t] = NoTask /\ m.retained # <<>>
    /\ \E pad \in {0, Page} : Commit(Trim(m, pad), live)
    /\ UNCHANGED task

HeapNext == \E t \in Thread :
    \/ CallMalloc(t) \/ CallFree(t) \/ CallRealloc(t) \/ CallReallocMove(t)
    \/ MoveAlloc(t) \/ MoveFails(t) \/ MoveCopy(t)
    \/ CallAligned(t) \/ CarveAligned(t) \/ ShrinkAligned(t) \/ CallTrim(t)

(***************************************************************************)
(* Properties.                                                             *)
(***************************************************************************)
ChunksOf(b) == {c \in DOMAIN m.chunk : HeapOf(m, c) = b}
FreeOf(C)   == {c \in C : ~ m.chunk[c].cused}
Units(C)    == UNION {c .. c + Size(m, c) - 1 : c \in C}
Payload(C)  == UNION {c + Overhead .. c + Size(m, c) - 1 : c \in C}

\* The chunks of every heap tile it; the flags and the footers a neighbour is
\* found by are right; and no two neighbours are free: what free(), realloc()
\* and aligned allocation rely on to find the chunk before and the chunk behind.
GridExact ==
    \A b \in DOMAIN m.heap :
        LET C   == ChunksOf(b)
            end == b + m.heap[b].size
        IN  /\ b + Header \in C /\ m.chunk[b + Header].pused
            /\ \A c \in C : /\ Size(m, c) >= MinSize
                            /\ c + Size(m, c) = end \/ c + Size(m, c) \in C
                            /\ ~ m.chunk[c].cused => Footer(m, c + Size(m, c) - 1) = Size(m, c)
            /\ \A c, d \in C : c < d => c + Size(m, c) <= d
            /\ \A c, d \in C : d = c + Size(m, c) =>
                   /\ m.chunk[d].pused = m.chunk[c].cused
                   /\ m.chunk[c].cused \/ m.chunk[d].cused

\* The bins hold exactly the free chunks, each where a search for its size
\* looks; the totals agree; and the heaps kept mapped are exactly those that
\* are entirely free, within both limits.
AccountsExact ==
    /\ \A c \in FreeOf(DOMAIN m.chunk) : c \in Bins(m, BinOf(m, c))
    /\ \A b \in DOMAIN m.bins : \A c \in m.bins[b] :
           c \in FreeOf(DOMAIN m.chunk) /\ BinOf(m, c) = b
    /\ m.binmap = DOMAIN m.bins
    /\ m.freesz = Cardinality(Payload(FreeOf(DOMAIN m.chunk)))
    /\ m.mapsz  = Cardinality(Mapped(m))
    /\ \A b \in DOMAIN m.heap :
           m.heap[b].freesz = Cardinality(Units(FreeOf(ChunksOf(b))))
    /\ IsInjective(m.retained)
    /\ ToSet(m.retained) = {b \in DOMAIN m.heap : m.heap[b].freesz = Whole(m, b)}
    /\ m.retainedsz = Cardinality(UNION {Extent(b, m.heap[b].size) : b \in ToSet(m.retained)})
    /\ Len(m.retained) <= RetainMax /\ m.retainedsz <= RetainUnits

\* A block a caller holds is memory of its own that nothing of the allocator
\* is written to, whatever the other threads allocate, resize or free; and the
\* checks that make free() leak a block instead never refuse one.
BlocksIntact ==
    /\ spoilt = {}
    /\ \A p \in DOMAIN live :
           LET c == p - Overhead
           IN  /\ c \in DOMAIN m.chunk /\ m.chunk[c].cused
               /\ live[p] = Usable(m, p)
               /\ ChunkValid(m, c, HeapOf(m, c))
    /\ {c \in DOMAIN m.chunk : m.chunk[c].cused} = {p - Overhead : p \in DOMAIN live}
    /\ \A p, q \in DOMAIN live : p # q => BlockAt(p, live[p]) \cap BlockAt(q, live[q]) = {}

\* The heap's chunks, flags, footers, bins and totals agree, and no block in use
\* is written to.
HeapSound == GridExact /\ AccountsExact /\ BlocksIntact

HeapSpec == HeapInit /\ [][HeapNext]_heapVars
=============================================================================
