-------------------------- MODULE LibcMallocProofs --------------------------
(***************************************************************************)
(* TLAPS proofs about LibcMalloc: the layout of the heap, the free list,   *)
(* coalescing and free's assertions, for every size of the parameters, as  *)
(* long as no request is so large that its size wraps around.              *)
(***************************************************************************)
EXTENDS LibcMalloc, TLAPS

-----------------------------------------------------------------------------
(* Arithmetic and sequences *)

\* Rounding up does not lose anything as long as the sum does not wrap.
LEMMA AlignUpBounds ==
  ASSUME NEW x \in Nat, NEW a \in Nat \ {0}, x + a <= Word, Word \in Nat
  PROVE  /\ AlignUp(x, a) \in Nat
         /\ AlignUp(x, a) >= x
         /\ AlignUp(x, a) <= x + a - 1
<1> DEFINE y == x + a - 1
<1>1. Wrap(y) = y /\ y \in Nat
  BY DEF Wrap
<1>2. y % a \in 0..(a - 1) /\ y % a <= y
  BY <1>1
<1> QED
  BY <1>1, <1>2 DEF AlignUp

\* What malloc computes for a request that does not wrap: room for the header
\* and the data, and heap_grow's sum does not wrap either.
LEMMA NeedBounds ==
  ASSUME NEW size \in Nat, size + Align + 2 * Hdr + Meta + ChunkSize <= Word
  PROVE  /\ Need(size) \in Nat
         /\ Need(size) >= MinBlock
         /\ Need(size) >= size + Hdr
         /\ Need(size) >= AlignUp(size, Align) + Hdr
         /\ size >= 1 => Need(size) + Hdr + Meta + ChunkSize <= Word
<1> DEFINE s == AlignUp(size, Align)
<1>1. s \in Nat /\ s >= size /\ s <= size + Align - 1
  BY MallocAssumption, AlignUpBounds
<1> HIDE DEF s
<1>2. Wrap(s + Hdr) = s + Hdr
  BY <1>1, MallocAssumption DEF Wrap
<1> QED
  BY <1>1, <1>2, MallocAssumption DEF Need, MinBlock, s

\* heap_grow maps enough for the block that is wanted.
LEMMA GrowBounds ==
  ASSUME NEW need \in Nat, need + Hdr + Meta + ChunkSize <= Word
  PROVE  /\ AlignUp(Wrap(need + Hdr + Meta), ChunkSize) \in Nat
         /\ AlignUp(Wrap(need + Hdr + Meta), ChunkSize) >= need + Hdr + Meta
<1>1. Wrap(need + Hdr + Meta) = need + Hdr + Meta /\ need + Hdr + Meta \in Nat
  BY MallocAssumption DEF Wrap
<1> QED
  BY <1>1, AlignUpBounds, MallocAssumption

\* A function on 1..n is a sequence of length n.
LEMMA FunctionIsSeq ==
  ASSUME NEW S, NEW n \in Nat, NEW w, w = [j \in 1..n |-> w[j]],
         \A j \in 1..n : w[j] \in S
  PROVE  w \in Seq(S) /\ Len(w) = n /\ DOMAIN w = 1..n
<1>1. w \in [1..n -> S]
  OBVIOUS
<1>2. w \in Seq(S) /\ DOMAIN w = 1..n
  BY <1>1
<1> QED
  BY <1>2

\* fl_remove: the list loses its i-th element and nothing else.
LEMMA WithoutFacts ==
  ASSUME NEW S, NEW s \in Seq(S), NEW i \in DOMAIN s,
         \A j, k \in DOMAIN s : s[j] = s[k] => j = k
  PROVE  /\ Without(s, i) \in Seq(S)
         /\ Len(Without(s, i)) = Len(s) - 1
         /\ DOMAIN Without(s, i) = 1..(Len(s) - 1)
         /\ \A j, k \in DOMAIN Without(s, i) : Without(s, i)[j] = Without(s, i)[k] => j = k
         /\ \A j \in DOMAIN Without(s, i) :
              \E k \in DOMAIN s : k # i /\ Without(s, i)[j] = s[k]
         /\ \A k \in DOMAIN s \ {i} : \E j \in DOMAIN Without(s, i) : Without(s, i)[j] = s[k]
<1> DEFINE n == Len(s)
           w == Without(s, i)
<1>1. n \in Nat /\ DOMAIN s = 1..n /\ i \in 1..n /\ n - 1 \in Nat
  OBVIOUS
<1>2. \A j \in 1..(n - 1) : w[j] = IF j < i THEN s[j] ELSE s[j + 1]
  BY DEF Without
<1>3. \A j \in 1..(n - 1) : w[j] \in S
  BY <1>1, <1>2
<1>4. w = [j \in 1..(n - 1) |-> w[j]]
  BY DEF Without
<1>5. w \in Seq(S) /\ Len(w) = n - 1 /\ DOMAIN w = 1..(n - 1)
  BY <1>1, <1>3, <1>4, FunctionIsSeq
<1>6. \A j, k \in 1..(n - 1) : w[j] = w[k] => j = k
  <2> SUFFICES ASSUME NEW j \in 1..(n - 1), NEW k \in 1..(n - 1), w[j] = w[k]
               PROVE  j = k
    OBVIOUS
  <2> DEFINE up(m) == IF m < i THEN m ELSE m + 1
  <2>1. up(j) \in 1..n /\ up(k) \in 1..n /\ w[j] = s[up(j)] /\ w[k] = s[up(k)]
    BY <1>1, <1>2
  <2>2. up(j) = up(k)
    BY <2>1, <1>1
  <2> QED
    BY <2>2
<1>7. \A j \in 1..(n - 1) : \E k \in DOMAIN s : k # i /\ w[j] = s[k]
  <2> TAKE j \in 1..(n - 1)
  <2> DEFINE k == IF j < i THEN j ELSE j + 1
  <2>1. k \in DOMAIN s /\ k # i /\ w[j] = s[k]
    BY <1>1, <1>2
  <2> QED
    BY <2>1
<1>8. \A k \in DOMAIN s \ {i} : \E j \in 1..(n - 1) : w[j] = s[k]
  <2> TAKE k \in DOMAIN s \ {i}
  <2> DEFINE j == IF k < i THEN k ELSE k - 1
  <2>1. j \in 1..(n - 1) /\ w[j] = s[k]
    BY <1>1, <1>2
  <2> QED
    BY <2>1
<1> QED
  BY <1>5, <1>6, <1>7, <1>8

\* fl_insert: the list gains one element at its head.
LEMMA ConsFacts ==
  ASSUME NEW S, NEW s \in Seq(S), NEW e \in S
  PROVE  /\ <<e>> \o s \in Seq(S)
         /\ DOMAIN (<<e>> \o s) = 1..(Len(s) + 1)
         /\ (<<e>> \o s)[1] = e
         /\ \A k \in 1..Len(s) : (<<e>> \o s)[k + 1] = s[k]
         /\ \A j \in 2..(Len(s) + 1) : (<<e>> \o s)[j] = s[j - 1]
OBVIOUS

-----------------------------------------------------------------------------
(* The layout of the heap *)

\* Every header the scan of free looks at is a block's or a chunk's trailer,
\* and the trailer never passes for a free block.
LEMMA Neighbour ==
  ASSUME TypeOK, Tiling, ChunksApart, NEW b \in blocks
  PROVE  /\ b \in Addr /\ mem[b].size \in Nat
         /\ NextBlock(b) \in Addr /\ NextBlock(b) > b
         /\ NextBlock(b) \notin blocks => ~Mergeable(NextBlock(b))
<1>1. b \in Addr /\ mem[b] \in Header /\ mem[b].size \in Nat
  BY MallocAssumption DEF TypeOK, Header
<1>2. PICK c \in chunks : /\ NextBlock(b) <= EndOf(c)
                          /\ NextBlock(b) = EndOf(c) \/ NextBlock(b) \in blocks
  BY DEF Tiling
<1>3. c.addr + c.size <= Limit /\ c.addr \in Nat /\ c.size \in Nat /\ mem[EndOf(c)].canary = 0
  BY DEF ChunksApart, TypeOK
<1>4. mem[b].size >= MinBlock /\ MinBlock \in Nat \ {0}
  BY MallocAssumption DEF Tiling, MinBlock
<1>5. NextBlock(b) \in Nat /\ NextBlock(b) > b
  BY <1>1, <1>4 DEF NextBlock, Addr
<1>6. NextBlock(b) \in Addr
  BY <1>2, <1>3, <1>5, MallocAssumption DEF EndOf, Addr
<1> QED
  BY <1>1, <1>2, <1>3, <1>5, <1>6 DEF Mergeable

\* Memory inside one block is part of no other header and of no trailer.
LEMMA InsideBlock ==
  ASSUME TypeOK, Tiling, ChunksApart, NEW b \in blocks
  PROVE  /\ \A d \in blocks : d # b => d < b \/ NextBlock(b) <= d
         /\ \A c \in chunks : EndOf(c) < b \/ NextBlock(b) <= EndOf(c)
<1>1. ASSUME NEW d \in blocks, d # b PROVE d < b \/ NextBlock(b) <= d
  <2>1. d \in Int /\ b \in Int
    BY <1>1, Neighbour DEF Addr
  <2> QED
    BY <1>1, <2>1 DEF Tiling
<1>2. ASSUME NEW c \in chunks PROVE EndOf(c) < b \/ NextBlock(b) <= EndOf(c)
  <2>1. PICK e \in chunks : e.addr <= b /\ NextBlock(b) <= EndOf(e)
    BY DEF Tiling
  <2>2. /\ c.addr \in Nat /\ c.size \in Nat /\ e.addr \in Nat /\ e.size \in Nat
        /\ b \in Int /\ NextBlock(b) \in Int
    BY Neighbour DEF TypeOK, Addr
  <2>3. c.size >= MinBlock + Meta
    BY DEF ChunksApart
  <2>4. c = e \/ c.addr + c.size <= e.addr \/ e.addr + e.size <= c.addr
    BY DEF ChunksApart
  <2> QED
    BY <2>1, <2>2, <2>3, <2>4, MallocAssumption DEF EndOf, MinBlock
<1> QED
  BY <1>1, <1>2

\* The layout depends on the headers of the blocks and on the trailers only.
LEMMA LayoutFrame ==
  ASSUME TypeOK, Tiling, ChunksApart, FreeListExact,
         UNCHANGED <<chunks, list, blocks>>,
         \A d \in blocks : mem'[d] = mem[d],
         \A c \in chunks : mem'[EndOf(c)] = mem[EndOf(c)]
  PROVE  /\ Tiling' /\ ChunksApart' /\ FreeListExact'
         /\ \A b \in blocks : NextBlock(b)' = NextBlock(b)
         /\ \A b \in blocks : Mergeable(NextBlock(b))' = Mergeable(NextBlock(b))
<1>1. \A b \in blocks : NextBlock(b)' = NextBlock(b)
  BY DEF NextBlock
<1>2. \A c \in chunks : EndOf(c)' = EndOf(c)
  BY DEF EndOf
<1>3. Tiling'
  BY <1>1, <1>2 DEF Tiling
<1>4. ChunksApart'
  BY <1>2 DEF ChunksApart
<1>5. FreeListExact'
  BY DEF FreeListExact
<1>6. ASSUME NEW b \in blocks
      PROVE  Mergeable(NextBlock(b))' = Mergeable(NextBlock(b))
  <2>1. NextBlock(b) \in blocks \/ \E c \in chunks : NextBlock(b) = EndOf(c)
    BY DEF Tiling
  <2>2. mem'[NextBlock(b)] = mem[NextBlock(b)]
    BY <2>1
  <2> QED
    BY <1>1, <2>2 DEF Mergeable
<1> QED
  BY <1>1, <1>3, <1>4, <1>5, <1>6

\* What the properties say of one free list element.
LEMMA ListedIsFree ==
  ASSUME TypeOK, Tiling, ChunksApart, FreeListExact, NEW i \in DOMAIN list
  PROVE  /\ list[i] \in blocks /\ list[i] \in Addr
         /\ mem[list[i]].used = 0 /\ mem[list[i]].canary = 1
BY Neighbour DEF FreeListExact, Tiling

-----------------------------------------------------------------------------
(* Steps that leave the layout alone *)

\* A request leaves room for every sum the allocator makes of it.
LEMMA RequestFacts ==
  ASSUME NoWrap, NEW size \in Requests
  PROVE  /\ size \in Nat /\ size >= 1
         /\ size + Align + 2 * Hdr + Meta + ChunkSize <= Word
<1>1. PICK nmemb \in 1..2, s \in Sizes : size = nmemb * s
  BY DEF Requests
<1>2. s \in Nat /\ s >= 1
  BY MallocAssumption
<1>3. nmemb = 1 \/ nmemb = 2
  BY <1>1
<1>4. size = s \/ size = s + s
  BY <1>1, <1>2, <1>3
<1> QED
  BY <1>2, <1>4 DEF NoWrap

\* What malloc is asked for is a request.
LEMMA SizesAreRequests == Sizes \subseteq Requests
<1> SUFFICES ASSUME NEW s \in Sizes PROVE s \in Requests
  OBVIOUS
<1>1. s \in Nat /\ 1 \in 1..2
  BY MallocAssumption
<1>2. s = 1 * s
  BY <1>1
<1> QED
  BY <1>1, <1>2 DEF Requests

\* A search begins: malloc, calloc and realloc all start from the list's head.
LEMMA StartSearchStep ==
  ASSUME HeapInv, NoWrap, pc = "idle", UNCHANGED live,
         NEW kind \in {"malloc", "calloc", "realloc"}, NEW size \in Requests,
         NEW old \in Nat, kind = "realloc" => /\ old \in DOMAIN live
                                         /\ mem[Block(old)].size <= Need(size),
         StartSearch(kind, size, old)
  PROVE  HeapInv'
<1> USE DEF HeapInv
<1>0. UNCHANGED <<mem, chunks, list, ptr, blocks, live>> /\ pc' = "search" /\ cur' = 1
  BY DEF StartSearch
<1>1. /\ Need(size) \in Nat /\ Need(size) >= MinBlock /\ Need(size) >= size + Hdr
      /\ Need(size) + Hdr + Meta + ChunkSize <= Word /\ size \in Nat
  BY NeedBounds, RequestFacts
<1>2. req' = [kind |-> kind, size |-> size, need |-> Need(size), old |-> old]
  BY DEF StartSearch
<1>3. TypeOK'
  <2>1. req' \in [kind : {"none", "malloc", "calloc", "realloc"},
                  size : Nat, need : Nat, old : Nat]
    BY <1>1, <1>2
  <2> QED
    BY <1>0, <2>1 DEF TypeOK
<1>4. Tiling' /\ ChunksApart' /\ FreeListExact'
  BY <1>0, LayoutFrame
<1>5. LiveExact'
  BY <1>0 DEF LiveExact, NextBlock, Block
<1>6. CallInv'
  BY <1>0, <1>1, <1>2 DEF CallInv, Block
<1>7. ScanInv' /\ NoAbort'
  BY <1>0 DEF ScanInv, NoAbort
<1>8. NoAdjacentFree'
  BY <1>0 DEF NoAdjacentFree, NextBlock
<1> QED
  BY <1>3, <1>4, <1>5, <1>6, <1>7, <1>8

\* The calls that begin a search keep the invariant.
LEMMA CallStep ==
  ASSUME HeapInv, NoWrap, CallMalloc \/ CallCalloc \/ CallReallocMove
  PROVE  HeapInv'
<1>1. CASE CallMalloc
  BY <1>1, StartSearchStep, SizesAreRequests DEF CallMalloc
<1>2. CASE CallCalloc
  BY <1>2, StartSearchStep DEF CallCalloc
<1>3. CASE CallReallocMove
  <2>1. PICK p \in DOMAIN live, size \in Sizes :
           ~FitsInPlace(p, size) /\ StartSearch("realloc", size, p)
    BY <1>3 DEF CallReallocMove
  <2>2. p \in Nat /\ Block(p) \in blocks
    BY DEF HeapInv, TypeOK, Addr, LiveExact
  <2>3. mem[Block(p)].size \in Nat
    BY <2>2, Neighbour DEF HeapInv
  <2>4. /\ Need(size) \in Nat /\ Need(size) >= AlignUp(size, Align) + Hdr
        /\ AlignUp(size, Align) \in Nat
    <3>1. size \in Nat /\ size + Align + 2 * Hdr + Meta + ChunkSize <= Word
      BY RequestFacts, SizesAreRequests
    <3> QED
      BY <3>1, NeedBounds, AlignUpBounds, MallocAssumption
  <2>5. mem[Block(p)].size <= Need(size)
    BY <2>1, <2>3, <2>4, MallocAssumption DEF FitsInPlace
  <2> QED
    BY <1>3, <2>1, <2>2, <2>5, StartSearchStep, SizesAreRequests DEF CallReallocMove
<1> QED
  BY <1>1, <1>2, <1>3

\* realloc in place: the block is big enough for the new size.
LEMMA ReallocInPlaceStep ==
  ASSUME HeapInv, NoWrap, CallReallocInPlace
  PROVE  HeapInv'
<1> USE DEF HeapInv
<1>0. UNCHANGED <<mem, chunks, list, pc, cur, req, ptr, blocks>> /\ pc = "idle"
  BY DEF CallReallocInPlace
<1>1. PICK p \in DOMAIN live, size \in Sizes :
         /\ FitsInPlace(p, size)
         /\ live' = [live EXCEPT ![p] = size]
  BY DEF CallReallocInPlace
<1>2. size \in Nat /\ DOMAIN live' = DOMAIN live
      /\ \A q \in DOMAIN live : live'[q] = IF q = p THEN size ELSE live[q]
  BY <1>1, MallocAssumption
<1>3. size <= mem[Block(p)].size - Hdr
  <2>1. AlignUp(size, Align) \in Nat /\ AlignUp(size, Align) >= size
    <3>1. size + Align <= Word
      BY <1>1, RequestFacts, SizesAreRequests, MallocAssumption
    <3> QED
      BY <1>2, <3>1, AlignUpBounds, MallocAssumption
  <2>2. mem[Block(p)].size \in Nat
    BY <1>1, Neighbour DEF LiveExact
  <2> QED
    BY <1>1, <1>2, <2>1, <2>2, MallocAssumption DEF FitsInPlace
<1>4. TypeOK'
  BY <1>0, <1>2 DEF TypeOK
<1>5. Tiling' /\ ChunksApart' /\ FreeListExact'
  BY <1>0, LayoutFrame
<1>6. LiveExact'
  <2>0. p \in Int /\ Block(p) \in blocks
    BY <1>1 DEF LiveExact, TypeOK, Addr
  <2>1. p \in Int /\ mem[Block(p)].size \in Nat /\ Hdr \in Nat
    BY <2>0, Neighbour, MallocAssumption
  <2>2. p + size <= NextBlock(Block(p))
    BY <1>2, <1>3, <2>1 DEF NextBlock, Block
  <2>3. \A q \in DOMAIN live : q + live'[q] <= NextBlock(Block(q))
    BY <1>2, <2>2 DEF LiveExact
  <2> QED
    BY <1>0, <1>2, <2>3 DEF LiveExact, NextBlock, Block
<1>7. CallInv'
  BY <1>0, <1>2 DEF CallInv, Block
<1>8. ScanInv' /\ NoAbort'
  BY <1>0 DEF ScanInv, NoAbort
<1>9. NoAdjacentFree'
  BY <1>0 DEF NoAdjacentFree, NextBlock
<1> QED
  BY <1>4, <1>5, <1>6, <1>7, <1>8, <1>9

\* malloc's block is big enough for the request, and nobody holds it yet.
LEMMA HandOver ==
  ASSUME HeapInv, pc = "taken", live' = Handed, pc' # "taken",
         UNCHANGED blocks, \A b \in blocks : mem'[b] = mem[b]
  PROVE  /\ LiveExact'
         /\ DOMAIN live \subseteq DOMAIN live'
         /\ DOMAIN live' \subseteq Addr
         /\ \A p \in DOMAIN live' : live'[p] \in Nat
<1> USE DEF HeapInv
<1>0. /\ DOMAIN live' = DOMAIN live \union {ptr}
      /\ \A q \in DOMAIN live' : live'[q] = IF q = ptr THEN req.size ELSE live[q]
  BY DEF Handed
<1>1. /\ Block(ptr) \in blocks /\ mem[Block(ptr)].used = 1
      /\ mem[Block(ptr)].size >= req.need /\ req.need >= req.size + Hdr
  BY DEF CallInv
<1>2. req.size \in Nat /\ req.need \in Nat /\ ptr \in Nat /\ Hdr \in Nat /\ Hdr # 0
  BY MallocAssumption DEF TypeOK
<1>3. Block(ptr) \in Addr /\ mem[Block(ptr)].size \in Nat
      /\ NextBlock(Block(ptr)) \in Addr
  BY <1>1, Neighbour
<1>4. ptr + req.size <= NextBlock(Block(ptr)) /\ ptr \in Addr
  BY <1>1, <1>2, <1>3, MallocAssumption DEF NextBlock, Block, Addr
<1>5. \A b \in blocks : NextBlock(b)' = NextBlock(b)
  BY DEF NextBlock
<1>6. \A p \in DOMAIN live' : /\ Block(p) \in blocks /\ mem'[Block(p)].used = 1
                             /\ p + live'[p] <= NextBlock(Block(p))
  BY <1>0, <1>1, <1>4 DEF LiveExact
<1>7. \A b \in blocks : mem'[b].used = 1 => b + Hdr \in DOMAIN live'
  BY <1>0 DEF LiveExact
<1>8. LiveExact'
  BY <1>5, <1>6, <1>7 DEF LiveExact, Block
<1> QED
  BY <1>0, <1>2, <1>4, <1>8 DEF TypeOK

\* Going through the list, giving up, handing the block out.
LEMMA QuietStep ==
  ASSUME HeapInv, Skip \/ OutOfMemory \/ ReturnMalloc \/ CoalesceNext \/ CoalesceDone
  PROVE  HeapInv'
<1> USE DEF HeapInv
<1>0. UNCHANGED <<mem, chunks, list, blocks>>
  BY DEF Skip, OutOfMemory, ReturnMalloc, CoalesceNext, CoalesceDone
<1>1. Tiling' /\ ChunksApart' /\ FreeListExact'
  BY <1>0, LayoutFrame
<1>2. CASE Skip
  <2>1. TypeOK'
    BY <1>2 DEF TypeOK, Skip
  <2> QED
    BY <1>1, <1>2, <2>1 DEF Skip, LiveExact, CallInv, ScanInv, NoAdjacentFree, NoAbort,
                            NextBlock, Block, Mergeable
<1>3. CASE OutOfMemory
  <2>1. TypeOK'
    BY <1>3 DEF TypeOK, OutOfMemory, NoReq
  <2> QED
    BY <1>1, <1>3, <2>1 DEF OutOfMemory, NoReq, LiveExact, CallInv, ScanInv, NoAdjacentFree,
                            NoAbort, NextBlock, Block, Mergeable
<1>4. CASE ReturnMalloc
  <2>1. LiveExact' /\ DOMAIN live' \subseteq Addr /\ \A p \in DOMAIN live' : live'[p] \in Nat
    BY <1>0, <1>4, HandOver DEF ReturnMalloc
  <2>2. TypeOK'
    BY <1>4, <2>1 DEF ReturnMalloc, TypeOK, NoReq
  <2> QED
    BY <1>1, <1>4, <2>1, <2>2 DEF ReturnMalloc, NoReq, CallInv, ScanInv, NoAdjacentFree,
                                  NoAbort, NextBlock
<1>5. CASE CoalesceNext
  <2>1. TypeOK'
    BY <1>5 DEF CoalesceNext, Advance, TypeOK
  <2>2. ScanInv'
    <3>1. \A i \in DOMAIN list : Mergeable(NextBlock(list[i]))' = Mergeable(NextBlock(list[i]))
      BY <1>0 DEF Mergeable, NextBlock
    <3>2. ASSUME NEW i \in DOMAIN list, i < cur + 1
          PROVE  ~Mergeable(NextBlock(list[i]))
      <4>1. i < cur \/ i = cur
        BY <3>2, <1>5 DEF TypeOK
      <4> QED
        BY <4>1, <1>5 DEF CoalesceNext, ScanInv
    <3> QED
      BY <1>5, <3>1, <3>2 DEF CoalesceNext, Advance, ScanInv, Mergeable, NextBlock
  <2> QED
    BY <1>1, <1>5, <2>1, <2>2 DEF CoalesceNext, LiveExact, CallInv, NoAdjacentFree, NoAbort,
                                  NextBlock, Block
<1>6. CASE CoalesceDone
  <2>1. TypeOK'
    BY <1>6 DEF CoalesceDone, TypeOK
  <2>2. NoAdjacentFree'
    <3>1. ASSUME NEW b \in blocks, mem[b].used = 0, NextBlock(b) \in blocks
          PROVE  mem[NextBlock(b)].used = 1
      <4>1. PICK i \in DOMAIN list : list[i] = b
        BY <3>1 DEF FreeListExact
      <4>2. i < cur
        BY <1>6, <4>1 DEF CoalesceDone, TypeOK
      <4>3. ~Mergeable(NextBlock(b))
        BY <1>6, <4>1, <4>2 DEF CoalesceDone, ScanInv
      <4>4. mem[NextBlock(b)].canary = 1 /\ mem[NextBlock(b)].used \in {0, 1}
        BY <3>1 DEF Tiling, TypeOK, Header
      <4> QED
        BY <4>3, <4>4 DEF Mergeable
    <3> QED
      BY <1>0, <3>1 DEF NoAdjacentFree, NextBlock
  <2> QED
    BY <1>1, <1>6, <2>1, <2>2 DEF CoalesceDone, LiveExact, CallInv, ScanInv, NoAbort,
                                  NextBlock, Block
<1> QED
  BY <1>2, <1>3, <1>4, <1>5, <1>6

-----------------------------------------------------------------------------
(* Steps that write inside one used block *)

\* A write inside one used block leaves the headers, the free list and the other
\* blocks as they are.
LEMMA DataWrite ==
  ASSUME HeapInv, NEW b \in blocks,
         UNCHANGED <<chunks, list, blocks>>,
         \A a \in Addr : a <= b \/ NextBlock(b) <= a => mem'[a] = mem[a]
  PROVE  /\ Tiling' /\ ChunksApart' /\ FreeListExact'
         /\ \A d \in blocks : mem'[d] = mem[d]
         /\ pc # "coalesce" => NoAdjacentFree'
<1> USE DEF HeapInv
<1>1. \A d \in blocks : mem'[d] = mem[d]
  <2> TAKE d \in blocks
  <2>1. d \in Addr /\ b \in Addr /\ (d <= b \/ NextBlock(b) <= d)
    BY Neighbour, InsideBlock DEF Addr
  <2> QED
    BY <2>1
<1>2. \A c \in chunks : mem'[EndOf(c)] = mem[EndOf(c)]
  <2> TAKE c \in chunks
  <2>1. /\ c.addr \in Nat /\ c.size \in Nat /\ c.addr + c.size <= Limit
        /\ c.size >= MinBlock + Meta
    BY DEF TypeOK, ChunksApart
  <2>2. EndOf(c) \in Addr
    BY <2>1, MallocAssumption DEF EndOf, Addr, MinBlock
  <2>3. b \in Addr /\ (EndOf(c) < b \/ NextBlock(b) <= EndOf(c))
    BY Neighbour, InsideBlock
  <2> QED
    BY <2>2, <2>3 DEF Addr
<1>3. Tiling' /\ ChunksApart' /\ FreeListExact'
  BY <1>1, <1>2, LayoutFrame
<1>4. pc # "coalesce" => NoAdjacentFree'
  BY <1>1 DEF NoAdjacentFree, NextBlock
<1> QED
  BY <1>1, <1>3, <1>4

\* A client's own memory lies inside its block.
LEMMA LiveInside ==
  ASSUME HeapInv, NEW p \in DOMAIN live
  PROVE  /\ Block(p) \in blocks /\ Block(p) \in Addr /\ mem[Block(p)].used = 1
         /\ p \in Addr /\ live[p] \in Nat /\ p > Block(p)
         /\ NextBlock(Block(p)) \in Addr
         /\ p + live[p] <= NextBlock(Block(p))
<1> USE DEF HeapInv
<1>1. Block(p) \in blocks /\ p \in Addr /\ live[p] \in Nat
  BY DEF LiveExact, TypeOK
<1>2. mem[Block(p)].used = 1 /\ p + live[p] <= NextBlock(Block(p))
  BY DEF LiveExact
<1>3. Block(p) \in Addr /\ NextBlock(Block(p)) \in Addr
  BY <1>1, Neighbour
<1>4. p > Block(p)
  BY <1>1, MallocAssumption DEF Block, Addr
<1> QED
  BY <1>1, <1>2, <1>3, <1>4

\* Filling a range writes it and nothing else.
LEMMA FillTyped ==
  ASSUME mem \in [Addr -> Header], NEW from, NEW to, NEW w \in Header
  PROVE  /\ Fill(mem, from, to, w) \in [Addr -> Header]
         /\ \A a \in Addr : Fill(mem, from, to, w)[a] =
                              IF from <= a /\ a < to THEN w ELSE mem[a]
BY DEF Fill

\* What the program stores in a header is one.
LEMMA HeaderConstants ==
  /\ Zero \in Header /\ Poison \in Header /\ Lookalike \in Header
  /\ \A sz \in 0..(Word - 1) : FreeHeader(sz) \in Header /\ UsedHeader(sz) \in Header
<1>1. MinBlock \in 0..(Word - 1) /\ 0 \in 0..(Word - 1)
  BY MallocAssumption DEF MinBlock
<1> QED
  BY <1>1 DEF Zero, Poison, Lookalike, Header, FreeHeader, UsedHeader

\* A client that writes into its block keeps the invariant.
LEMMA ClientWritesStep ==
  ASSUME HeapInv, ClientWrites
  PROVE  HeapInv'
<1> USE DEF HeapInv
<1>0. UNCHANGED <<chunks, list, pc, cur, req, ptr, live, blocks>> /\ pc = "idle"
  BY DEF ClientWrites
<1>1. PICK p \in DOMAIN live : WritesTo(p)
  BY DEF ClientWrites
<1> DEFINE b == Block(p)
<1>2. /\ b \in blocks /\ b \in Addr /\ p \in Addr /\ p > b /\ live[p] \in Nat
      /\ NextBlock(b) \in Addr /\ p + live[p] <= NextBlock(b)
  BY LiveInside
<1>3. mem' \in [Addr -> Header]
  BY <1>1, FillTyped, HeaderConstants DEF WritesTo, TypeOK
<1>4. \A a \in Addr : a <= b \/ NextBlock(b) <= a => mem'[a] = mem[a]
  <2>1. \A a \in Addr : mem'[a] = IF p <= a /\ a < p + live[p] THEN Lookalike ELSE mem[a]
    BY <1>1, FillTyped, HeaderConstants DEF WritesTo, TypeOK
  <2> HIDE DEF b
  <2> QED
    BY <1>2, <2>1 DEF Addr
<1>5. /\ Tiling' /\ ChunksApart' /\ FreeListExact' /\ NoAdjacentFree'
      /\ \A d \in blocks : mem'[d] = mem[d]
  BY <1>0, <1>2, <1>4, DataWrite
<1>6. TypeOK'
  BY <1>0, <1>3 DEF TypeOK
<1>7. LiveExact'
  BY <1>0, <1>5 DEF LiveExact, NextBlock
<1>8. CallInv' /\ ScanInv' /\ NoAbort'
  BY <1>0 DEF CallInv, ScanInv, NoAbort
<1> QED
  BY <1>5, <1>6, <1>7, <1>8

\* calloc clears its block and hands it out, and the invariant stays.
LEMMA ReturnCallocStep ==
  ASSUME HeapInv, ReturnCalloc
  PROVE  HeapInv'
<1> USE DEF HeapInv
<1>0. /\ UNCHANGED <<chunks, list, blocks>> /\ pc = "taken" /\ pc' = "idle" /\ req' = NoReq
      /\ live' = Handed /\ cur' = 1 /\ ptr' = 0
      /\ mem' = Fill(mem, ptr, ptr + req.size, Zero)
  BY DEF ReturnCalloc
<1> DEFINE b == Block(ptr)
<1>1. /\ b \in blocks /\ ptr \in Nat /\ req.size \in Nat /\ req.need \in Nat /\ b \in Addr
      /\ mem[b].size >= req.need /\ req.need >= req.size + Hdr /\ mem[b].size \in Nat
  BY <1>0, Neighbour DEF CallInv, TypeOK
<1>2. b < ptr /\ ptr + req.size <= NextBlock(b)
  BY <1>1, MallocAssumption DEF NextBlock, Block, Addr
<1>3. mem' \in [Addr -> Header]
  BY <1>0, FillTyped, HeaderConstants DEF TypeOK
<1>4. \A a \in Addr : a <= b \/ NextBlock(b) <= a => mem'[a] = mem[a]
  <2>1. \A a \in Addr : mem'[a] = IF ptr <= a /\ a < ptr + req.size THEN Zero ELSE mem[a]
    BY <1>0, FillTyped, HeaderConstants DEF TypeOK
  <2>2. NextBlock(b) \in Int
    BY <1>1, Neighbour DEF Addr
  <2> HIDE DEF b
  <2> QED
    BY <1>1, <1>2, <2>1, <2>2 DEF Addr
<1>5. /\ Tiling' /\ ChunksApart' /\ FreeListExact' /\ NoAdjacentFree'
      /\ \A d \in blocks : mem'[d] = mem[d]
  BY <1>0, <1>1, <1>4, DataWrite
<1>6. LiveExact' /\ DOMAIN live' \subseteq Addr /\ \A p \in DOMAIN live' : live'[p] \in Nat
  BY <1>0, <1>5, HandOver
<1>7. TypeOK'
  BY <1>0, <1>3, <1>6 DEF TypeOK, NoReq
<1>8. CallInv' /\ ScanInv' /\ NoAbort'
  BY <1>0 DEF CallInv, ScanInv, NoAbort, NoReq
<1> QED
  BY <1>5, <1>6, <1>7, <1>8

\* realloc's memcpy: what is copied fits in the new block.
LEMMA CopyOldStep ==
  ASSUME HeapInv, CopyOld
  PROVE  HeapInv'
<1> USE DEF HeapInv
<1>0. /\ UNCHANGED <<chunks, list, blocks, cur, req, ptr>> /\ pc = "taken"
      /\ pc' = "copied" /\ req.kind = "realloc" /\ live' = Handed
      /\ mem' = [a \in Addr |-> IF ptr <= a /\ a < ptr + OldSize
                                THEN mem[req.old + (a - ptr)] ELSE mem[a]]
  BY DEF CopyOld
<1> DEFINE b == Block(ptr)
           o == Block(req.old)
<1>1. /\ b \in blocks /\ ptr \in Nat /\ req.need \in Nat /\ b \in Addr
      /\ mem[b].size >= req.need /\ mem[b].size \in Nat
      /\ mem[o].size <= req.need
  BY <1>0, Neighbour DEF CallInv, TypeOK
<1>2. /\ o \in blocks /\ o \in Addr /\ req.old \in Addr /\ NextBlock(o) \in Addr
      /\ mem[o].size \in Nat
  BY <1>0, LiveInside, Neighbour DEF CallInv
<1>3. OldSize = mem[o].size - Hdr /\ OldSize <= req.need - Hdr /\ OldSize \in Int
  BY <1>1, <1>2, MallocAssumption DEF OldSize
<1>4. b < ptr /\ ptr + OldSize <= NextBlock(b) /\ NextBlock(b) \in Addr
  BY <1>1, <1>3, Neighbour, MallocAssumption DEF NextBlock, Block, Addr
<1>5. mem' \in [Addr -> Header]
  <2>1. ASSUME NEW a \in Addr, ptr <= a, a < ptr + OldSize
        PROVE  req.old + (a - ptr) \in Addr
    <3>1. req.old + OldSize = NextBlock(o)
      BY <1>2, <1>3, MallocAssumption DEF NextBlock, Block, Addr
    <3> QED
      BY <1>1, <1>2, <1>3, <2>1, <3>1, MallocAssumption DEF Addr
  <2>2. \A a \in Addr : mem'[a] \in Header
    BY <1>0, <2>1 DEF TypeOK
  <2> QED
    BY <1>0, <2>2
<1>6. \A a \in Addr : a <= b \/ NextBlock(b) <= a => mem'[a] = mem[a]
  <2> HIDE DEF b
  <2> QED
    BY <1>0, <1>1, <1>3, <1>4 DEF Addr
<1>7. /\ Tiling' /\ ChunksApart' /\ FreeListExact' /\ NoAdjacentFree'
      /\ \A d \in blocks : mem'[d] = mem[d]
  BY <1>0, <1>1, <1>6, DataWrite
<1>8. /\ LiveExact'
      /\ DOMAIN live \subseteq DOMAIN live'
      /\ DOMAIN live' \subseteq Addr
      /\ \A p \in DOMAIN live' : live'[p] \in Nat
  BY <1>0, <1>7, HandOver
<1>9. TypeOK'
  BY <1>0, <1>5, <1>8 DEF TypeOK
<1>10. ScanInv' /\ NoAbort'
  BY <1>0 DEF ScanInv, NoAbort
<1>11. CallInv'
  <2>0. req.old \in DOMAIN live
    BY <1>0 DEF CallInv
  <2>1. req.old \in DOMAIN live'
    BY <1>8, <2>0
  <2> QED
    BY <1>0, <2>1 DEF CallInv, Block
<1> QED
  BY <1>7, <1>8, <1>9, <1>10, <1>11

-----------------------------------------------------------------------------
(* Steps that change the layout: taking, splitting, merging, growing, freeing *)

\* Merging a free block with the free block behind it.
LEMMA MergeStep ==
  ASSUME HeapInv, Merge
  PROVE  HeapInv'
<1> USE DEF HeapInv
<1> SUFFICES ASSUME NEW c, c = list[cur], NEW nx, nx = NextBlock(c)
             PROVE  HeapInv'
  OBVIOUS
<1>0. /\ UNCHANGED <<chunks, pc, req, ptr, live>> /\ pc = "coalesce" /\ cur \in DOMAIN list
      /\ Mergeable(nx) /\ cur' = 1 /\ blocks' = blocks \ {nx}
      /\ mem' = [mem EXCEPT ![c] = FreeHeader(mem[c].size + mem[nx].size)]
  BY DEF Merge, Restart
<1>1. PICK j \in DOMAIN list : list[j] = nx /\ list' = Without(list, j)
  BY DEF Merge, Unlist
<1>2. /\ c \in blocks /\ c \in Addr /\ mem[c].used = 0
      /\ nx \in blocks /\ nx \in Addr /\ mem[nx].used = 0 /\ c < nx
      /\ mem[c].size \in Nat /\ mem[nx].size \in Nat
      /\ NextBlock(nx) \in Addr /\ nx < NextBlock(nx)
  BY <1>0, <1>1, ListedIsFree, Neighbour
<1>3. mem[c].size + mem[nx].size \in 0..(Word - 1) /\ c + (mem[c].size + mem[nx].size) = NextBlock(nx)
  BY <1>2, MallocAssumption DEF NextBlock, Addr
<1>4. /\ mem' \in [Addr -> Header]
      /\ mem'[c].size = mem[c].size + mem[nx].size /\ mem'[c].used = 0 /\ mem'[c].canary = 1
      /\ \A a \in Addr : a # c => mem'[a] = mem[a]
  BY <1>0, <1>2, <1>3, HeaderConstants DEF TypeOK, FreeHeader
<1>5. /\ NextBlock(c)' = NextBlock(nx)
      /\ \A b \in blocks : b # c => NextBlock(b)' = NextBlock(b)
  BY <1>2, <1>3, <1>4 DEF NextBlock, TypeOK
<1>6. Tiling'
  <2>1. \A b \in blocks' : mem'[b].size >= MinBlock /\ mem'[b].canary = 1
    BY <1>0, <1>2, <1>4, MallocAssumption DEF Tiling, TypeOK, MinBlock
  <2>2. ASSUME NEW b \in blocks'
        PROVE  \E e \in chunks : /\ e.addr <= b
                                 /\ NextBlock(b)' <= EndOf(e)
                                 /\ NextBlock(b)' = EndOf(e) \/ NextBlock(b)' \in blocks'
    <3>1. CASE b = c
      <4>1. PICK e \in chunks : e.addr <= nx /\ NextBlock(nx) <= EndOf(e)
                                /\ (NextBlock(nx) = EndOf(e) \/ NextBlock(nx) \in blocks)
        BY <1>2 DEF Tiling
      <4>2. PICK d \in chunks : d.addr <= c /\ NextBlock(c) <= EndOf(d)
        BY <1>2 DEF Tiling
      <4>3. d = e
        <5>1. /\ d.addr \in Nat /\ d.size \in Nat /\ e.addr \in Nat /\ e.size \in Nat
          BY DEF TypeOK
        <5>2. d = e \/ d.addr + d.size <= e.addr \/ e.addr + e.size <= d.addr
          BY DEF ChunksApart
        <5>3. nx <= EndOf(d) /\ nx < EndOf(e)
          BY <1>2, <4>1, <4>2, <5>1, MallocAssumption DEF Addr, EndOf
        <5> QED
          BY <1>2, <4>1, <4>2, <5>1, <5>2, <5>3, MallocAssumption DEF EndOf, Addr
      <4>4. NextBlock(nx) # nx
        BY <1>2 DEF Addr
      <4>5. NextBlock(nx) = EndOf(e) \/ NextBlock(nx) \in blocks'
        BY <1>0, <4>1, <4>4
      <4> QED
        BY <1>5, <3>1, <4>1, <4>2, <4>3, <4>5
    <3>2. CASE b # c
      <4>1. b \in blocks /\ b # nx /\ b \in Addr /\ NextBlock(b) \in Addr /\ b < NextBlock(b)
        BY <1>0, Neighbour
      <4>2. NextBlock(b) # nx
        <5>1. CASE b < c
          BY <1>2, <4>1, <5>1 DEF Tiling, Addr
        <5>2. CASE c < b
          BY <1>2, <4>1, <5>2 DEF Tiling, Addr
        <5> QED
          BY <1>2, <3>2, <4>1, <5>1, <5>2 DEF Addr
      <4> QED
        BY <1>0, <1>5, <3>2, <4>1, <4>2 DEF Tiling
    <3> QED
      BY <3>1, <3>2
  <2>3. ASSUME NEW b \in blocks', NEW d \in blocks', b < d
        PROVE  NextBlock(b)' <= d
    <3>1. b \in blocks /\ d \in blocks /\ d # nx /\ b # nx /\ NextBlock(b) <= d
      BY <1>0, <2>3 DEF Tiling
    <3>2. CASE b = c
      <4>1. nx < d
        BY <1>2, <3>1, <3>2 DEF Addr, TypeOK
      <4> QED
        BY <1>2, <1>5, <3>1, <3>2, <4>1 DEF Tiling
    <3>3. CASE b # c
      BY <1>5, <3>1, <3>3
    <3> QED
      BY <3>2, <3>3
  <2>4. \A e \in chunks : e.addr \in blocks'
    <3> SUFFICES ASSUME NEW e \in chunks, e.addr = nx PROVE FALSE
      BY <1>0 DEF Tiling
    <3>1. PICK d \in chunks : d.addr <= c /\ NextBlock(c) <= EndOf(d)
      BY <1>2 DEF Tiling
    <3>2. /\ d.addr \in Nat /\ d.size \in Nat /\ e.size \in Nat /\ e.addr \in Nat
          /\ e.size >= MinBlock + Meta
      BY DEF TypeOK, ChunksApart
    <3>3. d = e \/ d.addr + d.size <= e.addr \/ e.addr + e.size <= d.addr
      BY DEF ChunksApart
    <3> QED
      BY <1>2, <3>1, <3>2, <3>3, MallocAssumption DEF EndOf, MinBlock, Addr
  <2>5. \A e \in chunks : EndOf(e)' = EndOf(e)
    BY DEF EndOf
  <2> QED
    BY <1>0, <2>1, <2>2, <2>3, <2>4, <2>5 DEF Tiling
<1>7. ChunksApart'
  <2>1. ASSUME NEW e \in chunks PROVE mem'[EndOf(e)] = mem[EndOf(e)]
    <3>1. /\ e.addr \in Nat /\ e.size \in Nat /\ e.addr + e.size <= Limit
          /\ e.size >= MinBlock + Meta
      BY DEF TypeOK, ChunksApart
    <3>2. EndOf(e) \in Addr
      BY <3>1, MallocAssumption DEF EndOf, Addr, MinBlock
    <3>3. EndOf(e) # c
      BY <1>2, InsideBlock DEF Addr
    <3> QED
      BY <1>4, <3>2, <3>3
  <2> QED
    BY <1>0, <2>1 DEF ChunksApart, EndOf
<1>8. /\ list' \in Seq(Addr) /\ DOMAIN list' = 1..(Len(list) - 1)
      /\ \A i, k \in DOMAIN list' : list'[i] = list'[k] => i = k
      /\ \A i \in DOMAIN list' : \E k \in DOMAIN list : k # j /\ list'[i] = list[k]
      /\ \A k \in DOMAIN list \ {j} : \E i \in DOMAIN list' : list'[i] = list[k]
  BY <1>1, WithoutFacts DEF TypeOK, FreeListExact
<1>9. FreeListExact'
  <2>1. ASSUME NEW i \in DOMAIN list' PROVE list'[i] \in blocks' /\ mem'[list'[i]].used = 0
    <3>1. PICK k \in DOMAIN list : k # j /\ list'[i] = list[k]
      BY <1>8
    <3>2. list[k] # nx /\ list[k] \in blocks /\ list[k] \in Addr /\ mem[list[k]].used = 0
      BY <1>1, <3>1, ListedIsFree DEF FreeListExact
    <3> QED
      BY <1>0, <1>4, <3>1, <3>2
  <2>2. ASSUME NEW b \in blocks', mem'[b].used = 0 PROVE \E i \in DOMAIN list' : list'[i] = b
    <3>1. b \in blocks /\ b # nx /\ mem[b].used = 0
      BY <1>0, <1>2, <1>4, <2>2 DEF TypeOK
    <3>2. PICK k \in DOMAIN list : list[k] = b
      BY <3>1 DEF FreeListExact
    <3> QED
      BY <1>1, <1>8, <3>1, <3>2
  <2> QED
    BY <1>8, <2>1, <2>2 DEF FreeListExact
<1>10. TypeOK'
  BY <1>0, <1>4, <1>8 DEF TypeOK
<1>11. LiveExact'
  <2>1. ASSUME NEW p \in DOMAIN live
        PROVE  /\ Block(p) \in blocks' /\ mem'[Block(p)].used = 1
               /\ p + live[p] <= NextBlock(Block(p))'
    <3>1. Block(p) # c /\ Block(p) # nx
      BY <1>2, LiveInside
    <3> QED
      BY <1>0, <1>4, <1>5, <3>1, LiveInside
  <2>2. ASSUME NEW b \in blocks', mem'[b].used = 1 PROVE b + Hdr \in DOMAIN live
    BY <1>0, <1>4, <2>2 DEF LiveExact, TypeOK
  <2> QED
    BY <1>0, <2>1, <2>2 DEF LiveExact, Block
<1>12. CallInv' /\ NoAbort' /\ NoAdjacentFree'
  BY <1>0 DEF CallInv, NoAbort, NoAdjacentFree, Block
<1>13. ScanInv'
  BY <1>0, <1>8 DEF ScanInv, TypeOK
<1> QED
  BY <1>6, <1>7, <1>9, <1>10, <1>11, <1>12, <1>13

\* t is a list of addresses without repetition that holds e and what s holds.
HoldsExactly(t, e, s) ==
  /\ t \in Seq(Addr)
  /\ \A i, j \in DOMAIN t : t[i] = t[j] => i = j
  /\ \A i \in DOMAIN t : t[i] = e \/ \E k \in DOMAIN s : t[i] = s[k]
  /\ \E i \in DOMAIN t : t[i] = e
  /\ \A k \in DOMAIN s : \E i \in DOMAIN t : t[i] = s[k]

\* A duplicate-free list stays so when something new is put at its head.
LEMMA ConsExact ==
  ASSUME NEW s \in Seq(Addr), NEW e \in Addr, \A i \in DOMAIN s : s[i] # e,
         \A i, j \in DOMAIN s : s[i] = s[j] => i = j
  PROVE  HoldsExactly(<<e>> \o s, e, s)
<1> DEFINE w == <<e>> \o s
           n == Len(s)
<1>1. /\ w \in Seq(Addr) /\ DOMAIN w = 1..(n + 1) /\ w[1] = e
      /\ \A k \in 1..n : w[k + 1] = s[k]
      /\ \A j \in 2..(n + 1) : w[j] = s[j - 1]
  BY ConsFacts
<1>2. n \in Nat /\ DOMAIN s = 1..n
  OBVIOUS
<1> HIDE DEF w, n
<1>3. \A i \in DOMAIN w : w[i] = e \/ \E k \in DOMAIN s : w[i] = s[k]
  <2> TAKE i \in DOMAIN w
  <2>1. i = 1 \/ (i \in 2..(n + 1) /\ i - 1 \in 1..n)
    BY <1>1, <1>2
  <2> QED
    BY <1>1, <1>2, <2>1
<1>4. \A k \in DOMAIN s : \E i \in DOMAIN w : w[i] = s[k]
  <2> TAKE k \in DOMAIN s
  <2>1. k + 1 \in DOMAIN w /\ w[k + 1] = s[k]
    BY <1>1, <1>2
  <2> QED
    BY <2>1
<1>5. \A i, j \in DOMAIN w : w[i] = w[j] => i = j
  <2> SUFFICES ASSUME NEW i \in DOMAIN w, NEW j \in DOMAIN w, w[i] = w[j] PROVE i = j
    OBVIOUS
  <2>0. \A k \in DOMAIN w : k # 1 => w[k] # e
    <3> SUFFICES ASSUME NEW k \in DOMAIN w, k # 1 PROVE w[k] # e
      OBVIOUS
    <3>1. k \in 2..(n + 1) /\ k - 1 \in DOMAIN s
      BY <1>1, <1>2
    <3> QED
      BY <1>1, <3>1
  <2>1. CASE i = 1 \/ j = 1
    BY <1>1, <2>0, <2>1
  <2>3. CASE i # 1 /\ j # 1
    <3>1. i - 1 \in DOMAIN s /\ j - 1 \in DOMAIN s /\ s[i - 1] = s[j - 1]
      BY <1>1, <1>2, <2>3
    <3>2. i - 1 = j - 1
      BY <3>1
    <3> QED
      BY <1>1, <1>2, <3>2
  <2> QED
    BY <2>1, <2>3
<1>6. \E i \in DOMAIN w : w[i] = e
  BY <1>1, <1>2
<1>7. HoldsExactly(w, e, s)
  BY <1>1, <1>3, <1>4, <1>5, <1>6 DEF HoldsExactly
<1> QED
  BY <1>7 DEF w

\* What every form of Take shares.
LEMMA TakeFacts ==
  ASSUME HeapInv, Take, NEW b, b = list[cur]
  PROVE  /\ pc = "search" /\ pc' = "taken" /\ UNCHANGED <<chunks, cur, req, live>>
         /\ cur \in DOMAIN list
         /\ b \in blocks /\ b \in Addr /\ mem[b].used = 0 /\ mem[b].size \in 0..(Word - 1)
         /\ mem[b].size >= req.need /\ req.need \in Nat /\ req.need >= MinBlock
         /\ NextBlock(b) \in Addr /\ b < NextBlock(b)
         /\ ptr' = b + Hdr /\ Block(ptr') = b /\ ptr' \in Nat /\ ptr' \notin DOMAIN live
         /\ \A i, k \in DOMAIN Without(list, cur) :
              Without(list, cur)[i] = Without(list, cur)[k] => i = k
         /\ Without(list, cur) \in Seq(Addr)
         /\ \A i \in DOMAIN Without(list, cur) :
              /\ Without(list, cur)[i] \in blocks /\ Without(list, cur)[i] # b
              /\ mem[Without(list, cur)[i]].used = 0
         /\ \A d \in blocks : mem[d].used = 0 /\ d # b =>
              \E i \in DOMAIN Without(list, cur) : Without(list, cur)[i] = d
<1> USE DEF HeapInv
<1>1. /\ pc = "search" /\ pc' = "taken" /\ UNCHANGED <<chunks, cur, req, live>>
      /\ cur \in DOMAIN list /\ mem[b].size >= req.need /\ ptr' = b + Hdr
  BY DEF Take
<1>2. b \in blocks /\ b \in Addr /\ mem[b].used = 0 /\ mem[b] \in Header
  BY <1>1, ListedIsFree DEF TypeOK
<1>3. NextBlock(b) \in Addr /\ b < NextBlock(b) /\ mem[b].size \in 0..(Word - 1)
  BY <1>2, Neighbour DEF Header
<1>4. req.need \in Nat /\ req.need >= MinBlock
  BY <1>1 DEF CallInv, TypeOK
<1>5. Block(ptr') = b /\ ptr' \in Nat
  BY <1>1, <1>2, MallocAssumption DEF Block, Addr
<1>6. ptr' \notin DOMAIN live
  BY <1>2, <1>5, LiveInside
<1>7. /\ Without(list, cur) \in Seq(Addr)
      /\ \A j, k \in DOMAIN Without(list, cur) :
              Without(list, cur)[j] = Without(list, cur)[k] => j = k
      /\ \A j \in DOMAIN Without(list, cur) :
              \E k \in DOMAIN list : k # cur /\ Without(list, cur)[j] = list[k]
      /\ \A k \in DOMAIN list \ {cur} :
              \E j \in DOMAIN Without(list, cur) : Without(list, cur)[j] = list[k]
  BY <1>1, WithoutFacts DEF TypeOK, FreeListExact
<1>8. \A i \in DOMAIN Without(list, cur) :
              /\ Without(list, cur)[i] \in blocks /\ Without(list, cur)[i] # b
              /\ mem[Without(list, cur)[i]].used = 0
  BY <1>1, <1>7 DEF FreeListExact
<1>9. \A d \in blocks : mem[d].used = 0 /\ d # b =>
              \E i \in DOMAIN Without(list, cur) : Without(list, cur)[i] = d
  <2> SUFFICES ASSUME NEW d \in blocks, mem[d].used = 0, d # b
               PROVE  \E i \in DOMAIN Without(list, cur) : Without(list, cur)[i] = d
    OBVIOUS
  <2>1. PICK k \in DOMAIN list : list[k] = d
    BY DEF FreeListExact
  <2> QED
    BY <1>7, <2>1
<1> QED
  BY <1>1, <1>2, <1>3, <1>4, <1>5, <1>6, <1>7, <1>8, <1>9

\* malloc takes a whole block.
LEMMA TakeWholeStep ==
  ASSUME HeapInv, Take, ~Splits(mem[list[cur]].size)
  PROVE  HeapInv'
<1> USE DEF HeapInv
<1> SUFFICES ASSUME NEW b, b = list[cur] PROVE HeapInv'
  OBVIOUS
<1>0. /\ list' = Without(list, cur) /\ mem' = [mem EXCEPT ![b] = UsedHeader(mem[b].size)]
      /\ blocks' = blocks
  BY DEF Take
<1>1. /\ pc = "search" /\ pc' = "taken" /\ UNCHANGED <<chunks, cur, req, live>>
      /\ b \in blocks /\ b \in Addr /\ mem[b].used = 0 /\ mem[b].size \in 0..(Word - 1)
      /\ mem[b].size >= req.need
      /\ ptr' = b + Hdr /\ Block(ptr') = b /\ ptr' \in Nat /\ ptr' \notin DOMAIN live
  BY TakeFacts
<1>2. /\ mem' \in [Addr -> Header]
      /\ mem'[b].size = mem[b].size /\ mem'[b].used = 1 /\ mem'[b].canary = 1
      /\ \A a \in Addr : a # b => mem'[a] = mem[a]
  BY <1>0, <1>1, HeaderConstants DEF TypeOK, UsedHeader
<1>3. \A d \in blocks : /\ NextBlock(d)' = NextBlock(d)
                        /\ mem'[d].size = mem[d].size
                        /\ mem[d].canary = 1 => mem'[d].canary = 1
  BY <1>1, <1>2 DEF NextBlock, TypeOK
<1>4. \A e \in chunks : EndOf(e)' = EndOf(e) /\ mem'[EndOf(e)] = mem[EndOf(e)]
  <2> TAKE e \in chunks
  <2>1. /\ e.addr \in Nat /\ e.size \in Nat /\ e.addr + e.size <= Limit
        /\ e.size >= MinBlock + Meta
    BY DEF TypeOK, ChunksApart
  <2>2. EndOf(e) \in Addr
    BY <2>1, MallocAssumption DEF EndOf, Addr, MinBlock
  <2>3. EndOf(e) # b
    BY <1>1, InsideBlock, Neighbour DEF Addr
  <2> QED
    BY <1>2, <2>2, <2>3 DEF EndOf
<1>5. Tiling'
  BY <1>0, <1>1, <1>3, <1>4 DEF Tiling
<1>6. ChunksApart'
  BY <1>1, <1>4 DEF ChunksApart
<1>7. FreeListExact'
  <2>1. \A i \in DOMAIN list' : list'[i] \in blocks /\ mem'[list'[i]].used = 0
    BY <1>0, <1>2, TakeFacts DEF TypeOK
  <2>2. \A d \in blocks : mem'[d].used = 0 => \E i \in DOMAIN list' : list'[i] = d
    BY <1>0, <1>2, TakeFacts DEF TypeOK
  <2> QED
    BY <1>0, <2>1, <2>2, TakeFacts DEF FreeListExact
<1>8. TypeOK'
  BY <1>0, <1>1, <1>2, TakeFacts DEF TypeOK
<1>9. LiveExact'
  <2>1. \A p \in DOMAIN live : Block(p) # b
    BY <1>1, LiveInside
  <2>2. \A p \in DOMAIN live : /\ Block(p) \in blocks /\ mem'[Block(p)].used = 1
                               /\ p + live[p] <= NextBlock(Block(p))'
    BY <1>2, <1>3, <2>1, LiveInside
  <2>3. \A d \in blocks : mem'[d].used = 1 => d = b \/ d + Hdr \in DOMAIN live
    BY <1>1, <1>2 DEF LiveExact, TypeOK
  <2> QED
    BY <1>0, <1>1, <2>2, <2>3 DEF LiveExact, Block
<1>10. CallInv'
  <2>1. req.kind = "realloc" => mem'[Block(req.old)] = mem[Block(req.old)]
    <3> SUFFICES ASSUME req.kind = "realloc" PROVE mem'[Block(req.old)] = mem[Block(req.old)]
      OBVIOUS
    <3>1. Block(req.old) # b /\ Block(req.old) \in Addr
      BY <1>1, LiveInside DEF CallInv
    <3> QED
      BY <1>2, <3>1
  <2> QED
    BY <1>0, <1>1, <1>2, <2>1 DEF CallInv, Block
<1>11. ScanInv' /\ NoAbort'
  BY <1>1 DEF ScanInv, NoAbort
<1>12. NoAdjacentFree'
  <2>1. ASSUME NEW d \in blocks, mem'[d].used = 0, NextBlock(d) \in blocks
        PROVE  mem'[NextBlock(d)].used = 1
    <3>1. mem[d].used = 0
      BY <1>2, <2>1 DEF TypeOK
    <3>2. mem[NextBlock(d)].used = 1
      BY <1>1, <2>1, <3>1 DEF NoAdjacentFree
    <3> QED
      BY <1>2, <2>1, <3>2 DEF TypeOK
  <2> QED
    BY <1>0, <1>3, <2>1 DEF NoAdjacentFree
<1> QED
  BY <1>5, <1>6, <1>7, <1>8, <1>9, <1>10, <1>11, <1>12

\* malloc splits a block: its head is handed out, its tail listed as free.
LEMMA TakeSplitStep ==
  ASSUME HeapInv, Take, Splits(mem[list[cur]].size)
  PROVE  HeapInv'
<1> USE DEF HeapInv
<1> SUFFICES ASSUME NEW b, b = list[cur], NEW rest, rest = b + req.need PROVE HeapInv'
  OBVIOUS
<1>0. /\ list' = <<rest>> \o Without(list, cur)
      /\ mem' = [mem EXCEPT ![rest] = FreeHeader(mem[b].size - req.need),
                            ![b] = UsedHeader(req.need)]
      /\ blocks' = blocks \union {rest}
      /\ mem[b].size >= req.need + MinBlock
  BY DEF Take, Splits
<1>1. /\ pc = "search" /\ pc' = "taken" /\ UNCHANGED <<chunks, cur, req, live>>
      /\ b \in blocks /\ b \in Addr /\ mem[b].used = 0 /\ mem[b].size \in 0..(Word - 1)
      /\ req.need \in Nat /\ req.need >= MinBlock
      /\ NextBlock(b) \in Addr /\ b < NextBlock(b)
      /\ ptr' = b + Hdr /\ Block(ptr') = b /\ ptr' \in Nat /\ ptr' \notin DOMAIN live
  BY TakeFacts
<1>2. /\ MinBlock \in Nat \ {0} /\ b < rest /\ rest < NextBlock(b) /\ rest \in Addr
      /\ rest + MinBlock <= NextBlock(b)
      /\ rest + (mem[b].size - req.need) = NextBlock(b)
      /\ mem[b].size - req.need \in 0..(Word - 1) /\ req.need \in 0..(Word - 1)
      /\ mem[b].size - req.need >= MinBlock
  <2>1. MinBlock \in Nat \ {0} /\ Word \in Nat /\ Limit \in Nat
    BY MallocAssumption DEF MinBlock
  <2>2. mem[b].size \in Int /\ NextBlock(b) = b + mem[b].size /\ b \in Int
        /\ mem[b].size >= req.need + MinBlock
    BY <1>0, <1>1 DEF NextBlock, Addr
  <2>3. b < rest /\ rest < NextBlock(b) /\ rest + MinBlock <= NextBlock(b)
        /\ rest + (mem[b].size - req.need) = NextBlock(b)
        /\ mem[b].size - req.need >= MinBlock
    BY <1>1, <2>1, <2>2
  <2>4. mem[b].size - req.need \in 0..(Word - 1) /\ req.need \in 0..(Word - 1)
    BY <1>1, <2>1, <2>2
  <2>5. rest \in Addr
    BY <1>1, <2>1, <2>2, <2>3 DEF Addr
  <2> QED
    BY <2>1, <2>3, <2>4, <2>5
<1>b. blocks' = blocks \union {rest}
  BY <1>0
<1>3. rest \notin blocks
  BY <1>1, <1>2, InsideBlock DEF Addr
<1>4. /\ mem' \in [Addr -> Header]
      /\ mem'[b].size = req.need /\ mem'[b].used = 1 /\ mem'[b].canary = 1
      /\ mem'[rest].size = mem[b].size - req.need /\ mem'[rest].used = 0
      /\ mem'[rest].canary = 1
      /\ \A a \in Addr : a # b /\ a # rest => mem'[a] = mem[a]
  <2>1. b # rest
    BY <1>1, <1>2 DEF Addr
  <2>2. FreeHeader(mem[b].size - req.need) \in Header /\ UsedHeader(req.need) \in Header
    BY <1>2, HeaderConstants
  <2> QED
    BY <1>0, <1>1, <1>2, <2>1, <2>2 DEF TypeOK, FreeHeader, UsedHeader
<1>5. /\ NextBlock(b)' = rest /\ NextBlock(rest)' = NextBlock(b)
      /\ \A d \in blocks : d # b => /\ d # rest /\ mem'[d] = mem[d]
                                    /\ NextBlock(d)' = NextBlock(d)
  BY <1>2, <1>3, <1>4 DEF NextBlock, TypeOK
<1>6. \A e \in chunks : EndOf(e)' = EndOf(e) /\ mem'[EndOf(e)] = mem[EndOf(e)]
  <2> TAKE e \in chunks
  <2>1. /\ e.addr \in Nat /\ e.size \in Nat /\ e.addr + e.size <= Limit
        /\ e.size >= MinBlock + Meta
    BY DEF TypeOK, ChunksApart
  <2>2. EndOf(e) \in Addr
    BY <2>1, MallocAssumption DEF EndOf, Addr, MinBlock
  <2>3. EndOf(e) # b /\ EndOf(e) # rest
    BY <1>1, <1>2, <2>2, InsideBlock DEF Addr
  <2> QED
    BY <1>4, <2>2, <2>3 DEF EndOf
<1>7. Tiling'
  <2>1. \A d \in blocks' : mem'[d].size >= MinBlock /\ mem'[d].canary = 1
    <3>1. \A d \in blocks : d # b => mem'[d].size >= MinBlock /\ mem'[d].canary = 1
      BY <1>5 DEF Tiling
    <3>2. mem'[b].size >= MinBlock /\ mem'[rest].size >= MinBlock
      BY <1>1, <1>2, <1>4
    <3> QED
      BY <1>b, <1>4, <3>1, <3>2
  <2>2. PICK c \in chunks : /\ c.addr <= b /\ NextBlock(b) <= EndOf(c)
                            /\ NextBlock(b) = EndOf(c) \/ NextBlock(b) \in blocks
    BY <1>1 DEF Tiling
  <2>3. c.addr \in Nat /\ c.size \in Nat /\ EndOf(c) \in Int
    BY MallocAssumption DEF TypeOK, EndOf
  <2>4. c.addr <= b /\ NextBlock(b)' <= EndOf(c) /\ NextBlock(b)' \in blocks'
    BY <1>b, <1>1, <1>2, <1>5, <2>2, <2>3 DEF Addr
  <2>5. /\ c.addr <= rest /\ NextBlock(rest)' <= EndOf(c)
        /\ NextBlock(rest)' = EndOf(c) \/ NextBlock(rest)' \in blocks'
    BY <1>b, <1>1, <1>2, <1>5, <2>2, <2>3 DEF Addr
  <2>6. \A d \in blocks : d # b => \E e \in chunks :
          /\ e.addr <= d /\ NextBlock(d)' <= EndOf(e)
          /\ NextBlock(d)' = EndOf(e) \/ NextBlock(d)' \in blocks'
    BY <1>b, <1>5 DEF Tiling
  <2>7. ASSUME NEW d \in blocks', NEW e \in blocks', d < e PROVE NextBlock(d)' <= e
    <3>1. d \in Addr /\ e \in Addr
      BY <1>0, <1>2, Neighbour
    <3>0. \A x \in blocks : x # b => x < b \/ NextBlock(b) <= x
      BY <1>1, InsideBlock
    <3>2. CASE d = b
      BY <1>b, <1>1, <1>2, <1>5, <2>7, <3>0, <3>1, <3>2 DEF Addr
    <3>3. CASE d = rest
      BY <1>b, <1>1, <1>2, <1>5, <2>7, <3>0, <3>1, <3>3 DEF Addr
    <3>4. CASE d # b /\ d # rest /\ e = rest
      <4>1. d \in blocks /\ d < b
        BY <1>b, <1>1, <1>2, <2>7, <3>0, <3>1, <3>4 DEF Addr
      <4>2. NextBlock(d) <= b /\ NextBlock(d) \in Addr
        BY <1>1, <4>1, Neighbour DEF Tiling
      <4> QED
        BY <1>1, <1>2, <1>5, <3>4, <4>1, <4>2 DEF Addr
    <3>5. CASE d # b /\ d # rest /\ e # rest
      BY <1>0, <1>5, <2>7, <3>5 DEF Tiling
    <3> QED
      BY <3>2, <3>3, <3>4, <3>5
  <2>8. \A e \in chunks : e.addr \in blocks'
    BY <1>0 DEF Tiling
  <2>9. \A d \in blocks' : \E e \in chunks :
          /\ e.addr <= d /\ NextBlock(d)' <= EndOf(e)
          /\ NextBlock(d)' = EndOf(e) \/ NextBlock(d)' \in blocks'
    BY <1>0, <2>4, <2>5, <2>6
  <2> QED
    BY <1>1, <1>6, <2>1, <2>7, <2>8, <2>9 DEF Tiling
<1>8. ChunksApart'
  BY <1>1, <1>6 DEF ChunksApart
<1>9. /\ list' \in Seq(Addr)
      /\ \A i, j \in DOMAIN list' : list'[i] = list'[j] => i = j
      /\ \A i \in DOMAIN list' : list'[i] = rest \/
           \E k \in DOMAIN Without(list, cur) : list'[i] = Without(list, cur)[k]
      /\ \E i \in DOMAIN list' : list'[i] = rest
      /\ \A k \in DOMAIN Without(list, cur) :
           \E i \in DOMAIN list' : list'[i] = Without(list, cur)[k]
  <2>1. \A i \in DOMAIN Without(list, cur) : Without(list, cur)[i] # rest
    BY <1>3, TakeFacts
  <2>2. Without(list, cur) \in Seq(Addr)
        /\ \A i, k \in DOMAIN Without(list, cur) :
             Without(list, cur)[i] = Without(list, cur)[k] => i = k
    BY TakeFacts
  <2>3. HoldsExactly(<<rest>> \o Without(list, cur), rest, Without(list, cur))
    BY <1>2, <2>1, <2>2, ConsExact
  <2>4. HoldsExactly(list', rest, Without(list, cur))
    BY <1>0, <2>3
  <2> QED
    BY <2>4 DEF HoldsExactly
<1>10. FreeListExact'
  <2>1. \A i \in DOMAIN list' : list'[i] \in blocks' /\ mem'[list'[i]].used = 0
    BY <1>0, <1>4, <1>5, <1>9, TakeFacts
  <2>2. ASSUME NEW d \in blocks', mem'[d].used = 0 PROVE \E i \in DOMAIN list' : list'[i] = d
    <3>1. CASE d = rest
      BY <1>9, <3>1
    <3>2. CASE d # rest
      <4>1. d \in blocks /\ d # b /\ mem[d].used = 0
        BY <1>0, <1>4, <1>5, <2>2, <3>2
      <4>2. PICK k \in DOMAIN Without(list, cur) : Without(list, cur)[k] = d
        BY <4>1, TakeFacts
      <4> QED
        BY <1>9, <4>2
    <3> QED
      BY <3>1, <3>2
  <2> QED
    BY <1>9, <2>1, <2>2 DEF FreeListExact
<1>11. TypeOK'
  BY <1>0, <1>1, <1>2, <1>4, <1>9 DEF TypeOK
<1>12. LiveExact'
  <2>1. \A p \in DOMAIN live : Block(p) # b
    BY <1>1, LiveInside
  <2>2. \A p \in DOMAIN live : /\ Block(p) \in blocks' /\ mem'[Block(p)].used = 1
                               /\ p + live[p] <= NextBlock(Block(p))'
    BY <1>0, <1>5, <2>1, LiveInside
  <2>3. \A d \in blocks' : mem'[d].used = 1 => d = b \/ d + Hdr \in DOMAIN live
    <3> SUFFICES ASSUME NEW d \in blocks', mem'[d].used = 1, d # b
                 PROVE  d + Hdr \in DOMAIN live
      OBVIOUS
    <3>1. d # rest /\ d \in blocks
      BY <1>b, <1>4
    <3>2. mem[d].used = 1
      BY <1>5, <3>1
    <3> QED
      BY <1>1, <3>1, <3>2 DEF LiveExact
  <2> QED
    BY <1>1, <2>2, <2>3 DEF LiveExact, Block
<1>13. CallInv'
  <2>1. req.kind = "realloc" => mem'[Block(req.old)] = mem[Block(req.old)]
    <3> SUFFICES ASSUME req.kind = "realloc" PROVE mem'[Block(req.old)] = mem[Block(req.old)]
      OBVIOUS
    <3>1. Block(req.old) # b /\ Block(req.old) \in blocks
      BY <1>1, LiveInside DEF CallInv
    <3> QED
      BY <1>5, <3>1
  <2> QED
    <3>1. Block(ptr') \in blocks' /\ mem'[Block(ptr')].used = 1
          /\ mem'[Block(ptr')].size = req.need
      BY <1>1, <1>4, <1>b
    <3> QED
      BY <1>1, <2>1, <3>1 DEF CallInv, Block, TypeOK
<1>14. ScanInv' /\ NoAbort'
  BY <1>1 DEF ScanInv, NoAbort
<1>15. NoAdjacentFree'
  <2>1. ASSUME NEW d \in blocks', mem'[d].used = 0, NextBlock(d)' \in blocks'
        PROVE  mem'[NextBlock(d)'].used = 1
    <3>1. CASE d = rest
      <4>1. NextBlock(b) \in blocks /\ NextBlock(b) # b
        BY <1>0, <1>1, <1>2, <1>5, <2>1, <3>1 DEF Addr
      <4>2. mem[NextBlock(b)].used = 1
        BY <1>1, <4>1 DEF NoAdjacentFree
      <4> QED
        BY <1>5, <3>1, <4>1, <4>2
    <3>2. CASE d # rest
      <4>1. d \in blocks /\ d # b /\ mem[d].used = 0 /\ NextBlock(d)' = NextBlock(d)
            /\ NextBlock(d) \in Addr /\ d \in Addr
        BY <1>0, <1>4, <1>5, <2>1, <3>2, Neighbour
      <4>2. NextBlock(d) # rest
        <5>1. CASE d < b
          BY <1>1, <1>2, <4>1, <5>1 DEF Tiling, Addr
        <5>2. CASE ~(d < b)
          BY <1>1, <1>2, <4>1, <5>2, InsideBlock, Neighbour DEF Addr
        <5> QED
          BY <5>1, <5>2
      <4>3. NextBlock(d) \in blocks
        BY <1>0, <2>1, <4>1, <4>2
      <4>4. mem[NextBlock(d)].used = 1
        BY <1>1, <4>1, <4>3 DEF NoAdjacentFree
      <4> QED
        BY <1>1, <1>5, <4>1, <4>3, <4>4
    <3> QED
      BY <3>1, <3>2
  <2> QED
    BY <2>1 DEF NoAdjacentFree
<1> QED
  BY <1>7, <1>8, <1>10, <1>11, <1>12, <1>13, <1>14, <1>15

\* free's part of a call: the block is marked free, poisoned and listed.
LEMMA ReleaseStep ==
  ASSUME HeapInv, pc \in {"idle", "copied"}, NEW p \in DOMAIN live, Release(p)
  PROVE  HeapInv'
<1> USE DEF HeapInv
<1> SUFFICES ASSUME NEW b, b = Block(p) PROVE HeapInv'
  OBVIOUS
<1>1. /\ b \in blocks /\ b \in Addr /\ mem[b].used = 1 /\ mem[b].canary = 1
      /\ mem[b].size \in 0..(Word - 1) /\ NextBlock(b) \in Addr /\ b < NextBlock(b)
  <2>1. b \in blocks /\ b \in Addr /\ mem[b].used = 1
    BY LiveInside
  <2>2. mem[b].canary = 1
    BY <2>1 DEF Tiling
  <2> QED
    BY <2>1, <2>2, Neighbour DEF TypeOK, Header
<1>2. /\ mem' = [PoisonData(mem, b) EXCEPT ![b] = FreeHeader(mem[b].size)]
      /\ list' = <<b>> \o list
      /\ live' = [q \in DOMAIN live \ {p} |-> live[q]]
      /\ pc' = "coalesce" /\ cur' = 1 /\ req' = NoReq /\ ptr' = 0
      /\ UNCHANGED <<chunks, blocks>>
  BY <1>1 DEF Release
<1>3. /\ PoisonData(mem, b) \in [Addr -> Header]
      /\ \A a \in Addr : a <= b \/ NextBlock(b) <= a => PoisonData(mem, b)[a] = mem[a]
  <2>1. \A a \in Addr : PoisonData(mem, b)[a] =
            IF b + Hdr <= a /\ a < NextBlock(b) THEN Poison ELSE mem[a]
    BY FillTyped, HeaderConstants DEF PoisonData, NextBlock, TypeOK
  <2>2. PoisonData(mem, b) \in [Addr -> Header]
    BY FillTyped, HeaderConstants DEF PoisonData, TypeOK
  <2> QED
    BY <1>1, <2>1, <2>2, MallocAssumption DEF Addr
<1>4. /\ mem' \in [Addr -> Header]
      /\ mem'[b].size = mem[b].size /\ mem'[b].used = 0 /\ mem'[b].canary = 1
      /\ \A a \in Addr : a < b \/ NextBlock(b) <= a => mem'[a] = mem[a]
  <2>1. FreeHeader(mem[b].size) \in Header
    BY <1>1, HeaderConstants
  <2>2. mem' \in [Addr -> Header] /\ mem'[b] = FreeHeader(mem[b].size)
    BY <1>1, <1>2, <1>3, <2>1
  <2>3. \A a \in Addr : a # b => mem'[a] = PoisonData(mem, b)[a]
    BY <1>2, <1>3
  <2>4. \A a \in Addr : a < b \/ NextBlock(b) <= a => a # b /\ mem'[a] = mem[a]
    BY <1>1, <1>3, <2>3 DEF Addr
  <2> QED
    BY <2>2, <2>4 DEF FreeHeader
<1>5. \A d \in blocks : d # b => mem'[d] = mem[d]
  BY <1>1, <1>4, InsideBlock, Neighbour
<1>6. /\ \A d \in blocks : mem'[d].size = mem[d].size /\ NextBlock(d)' = NextBlock(d)
      /\ \A d \in blocks : mem'[d].canary = 1
  BY <1>4, <1>5 DEF NextBlock, Tiling
<1>7. \A e \in chunks : EndOf(e)' = EndOf(e) /\ mem'[EndOf(e)] = mem[EndOf(e)]
  <2> TAKE e \in chunks
  <2>1. /\ e.addr \in Nat /\ e.size \in Nat /\ e.addr + e.size <= Limit
        /\ e.size >= MinBlock + Meta
    BY DEF TypeOK, ChunksApart
  <2>2. EndOf(e) \in Addr
    BY <2>1, MallocAssumption DEF EndOf, Addr, MinBlock
  <2> QED
    BY <1>1, <1>4, <2>2, InsideBlock DEF EndOf
<1>8. Tiling'
  BY <1>2, <1>6, <1>7 DEF Tiling
<1>9. ChunksApart'
  BY <1>2, <1>7 DEF ChunksApart
<1>10. HoldsExactly(list', b, list)
  <2>1. list \in Seq(Addr) /\ \A i, j \in DOMAIN list : list[i] = list[j] => i = j
    BY DEF TypeOK, FreeListExact
  <2>2. \A i \in DOMAIN list : list[i] # b
    BY <1>1 DEF FreeListExact
  <2>3. HoldsExactly(<<b>> \o list, b, list)
    BY <1>1, <2>1, <2>2, ConsExact
  <2> QED
    BY <1>2, <2>3
<1>11. FreeListExact'
  <2>1. \A i \in DOMAIN list' : list'[i] \in blocks /\ mem'[list'[i]].used = 0
    BY <1>1, <1>4, <1>5, <1>10 DEF HoldsExactly, FreeListExact
  <2>2. \A d \in blocks : mem'[d].used = 0 => \E i \in DOMAIN list' : list'[i] = d
    BY <1>5, <1>10 DEF HoldsExactly, FreeListExact
  <2> QED
    BY <1>2, <1>10, <2>1, <2>2 DEF FreeListExact, HoldsExactly
<1>12. TypeOK'
  <2>1. list' \in Seq(Addr)
    BY <1>10 DEF HoldsExactly
  <2> QED
    BY <1>2, <1>4, <2>1 DEF TypeOK, NoReq
<1>13. LiveExact'
  <2>1. ASSUME NEW q \in DOMAIN live'
        PROVE  /\ Block(q) \in blocks /\ mem'[Block(q)].used = 1
               /\ q + live'[q] <= NextBlock(Block(q))'
    <3>1. q \in DOMAIN live /\ q # p /\ live'[q] = live[q]
      BY <1>2
    <3>2. Block(q) \in blocks /\ mem[Block(q)].used = 1 /\ q + live[q] <= NextBlock(Block(q))
          /\ q \in Addr /\ p \in Addr
      BY <3>1, LiveInside
    <3>3. Block(q) # b
      BY <3>1, <3>2, MallocAssumption DEF Block, Addr
    <3> QED
      BY <1>5, <1>6, <3>1, <3>2, <3>3
  <2>2. ASSUME NEW d \in blocks, mem'[d].used = 1 PROVE d + Hdr \in DOMAIN live'
    <3>1. d # b /\ mem[d].used = 1
      BY <1>4, <1>5, <2>2
    <3>2. d + Hdr \in DOMAIN live
      BY <3>1 DEF LiveExact
    <3>3. d + Hdr # p
      BY <3>1, <1>1, Neighbour, MallocAssumption DEF Block, Addr
    <3> QED
      BY <1>2, <3>2, <3>3
  <2> QED
    BY <1>2, <2>1, <2>2 DEF LiveExact, Block
<1>14. CallInv' /\ ScanInv' /\ NoAdjacentFree' /\ NoAbort'
  BY <1>2, <1>12 DEF CallInv, ScanInv, NoAdjacentFree, NoAbort, NoReq, TypeOK
<1> QED
  BY <1>8, <1>9, <1>11, <1>12, <1>13, <1>14

\* heap_grow: a new chunk, away from all that is there, with one free block.
LEMMA GrowStep ==
  ASSUME HeapInv, Grow
  PROVE  HeapInv'
<1> USE DEF HeapInv
<1>s. SUFFICES ASSUME NEW sz, sz = AlignUp(Wrap(req.need + Hdr + Meta), ChunkSize),
                      NEW base \in Bases,
                      base + sz <= Limit,
                      \A c \in chunks : base + sz <= c.addr \/ c.addr + c.size <= base,
                      chunks' = chunks \union {[addr |-> base, size |-> sz]},
                      mem' = [Fill(mem, base, base + sz, Zero) EXCEPT
                                ![base + sz - Meta] = Trailer(base),
                                ![base] = FreeHeader(Usable(sz))],
                      list' = <<base>> \o list,
                      blocks' = blocks \union {base}
               PROVE  HeapInv'
  BY DEF Grow
<1>a. sz = AlignUp(Wrap(req.need + Hdr + Meta), ChunkSize) /\ base + sz <= Limit /\ base \in Bases
  BY <1>s
<1>b. blocks' = blocks \union {base}
  BY <1>s
<1>c. list' = <<base>> \o list
  BY <1>s
<1>d. \A c \in chunks : base + sz <= c.addr \/ c.addr + c.size <= base
  BY <1>s
<1>0. pc = "search" /\ cur' = 1 /\ UNCHANGED <<pc, req, ptr, live>>
  BY DEF Grow
<1>1. /\ req.need \in Nat /\ req.need >= MinBlock /\ MinBlock \in Nat \ {0}
      /\ req.need + Hdr + Meta + ChunkSize <= Word
  BY <1>0, MallocAssumption DEF CallInv, TypeOK, MinBlock
<1>2. sz \in Nat /\ sz >= MinBlock + Meta /\ base \in Nat
  <2>1. sz \in Nat /\ sz >= req.need + Hdr + Meta
    BY <1>1, <1>a, GrowBounds
  <2> QED
    BY <1>1, <1>a, <2>1, MallocAssumption
<1>x. SUFFICES ASSUME NEW x, x = base + sz - Meta PROVE HeapInv'
  OBVIOUS
<1>3. /\ base \in Addr /\ x \in Addr /\ base < x /\ x - base >= MinBlock
      /\ base \in 0..(Word - 1) /\ Usable(sz) \in 0..(Word - 1) /\ Usable(sz) = x - base
      /\ x < base + sz
  BY <1>1, <1>2, <1>a, <1>x, MallocAssumption DEF Addr, Usable
<1>4. /\ mem' \in [Addr -> Header]
      /\ mem'[base].size = x - base /\ mem'[base].used = 0 /\ mem'[base].canary = 1
      /\ mem'[x].canary = 0
      /\ \A a \in Addr : a < base \/ base + sz <= a => mem'[a] = mem[a]
  <2> DEFINE f == Fill(mem, base, base + sz, Zero)
  <2>1. f \in [Addr -> Header] /\ \A a \in Addr : a < base \/ base + sz <= a => f[a] = mem[a]
    BY <1>2, FillTyped, HeaderConstants DEF TypeOK, Addr
  <2>2. Trailer(base) \in Header /\ Trailer(base).canary = 0
    BY <1>3 DEF Trailer, Header
  <2>3. FreeHeader(Usable(sz)) \in Header
    BY <1>3, HeaderConstants
  <2>4. mem' = [f EXCEPT ![x] = Trailer(base), ![base] = FreeHeader(Usable(sz))]
    BY <1>s, <1>x
  <2> HIDE DEF f
  <2>5. mem' \in [Addr -> Header]
    BY <2>1, <2>2, <2>3, <2>4
  <2>6. mem'[base] = FreeHeader(Usable(sz)) /\ mem'[x] = Trailer(base)
    BY <1>3, <2>1, <2>4 DEF Addr
  <2>7. \A a \in Addr : a < base \/ base + sz <= a => mem'[a] = mem[a]
    <3> SUFFICES ASSUME NEW a \in Addr, a < base \/ base + sz <= a PROVE mem'[a] = mem[a]
      OBVIOUS
    <3>1. a # base /\ a # x
      BY <1>2, <1>3 DEF Addr
    <3> QED
      BY <2>1, <2>4, <3>1
  <2> QED
    BY <1>3, <2>2, <2>5, <2>6, <2>7 DEF FreeHeader
<1>5. \A e \in chunks : /\ e.addr \in Nat /\ e.size \in Nat /\ e.addr + e.size <= Limit
                        /\ e.size >= MinBlock + Meta
                        /\ EndOf(e) \in Addr /\ EndOf(e) < e.addr + e.size
                        /\ e.addr < EndOf(e)
  <2> TAKE e \in chunks
  <2>1. /\ e.addr \in Nat /\ e.size \in Nat /\ e.addr + e.size <= Limit
        /\ e.size >= MinBlock + Meta
    BY DEF TypeOK, ChunksApart
  <2> QED
    BY <1>1, <2>1, MallocAssumption DEF EndOf, Addr
<1>6. \A e \in chunks : EndOf(e)' = EndOf(e) /\ mem'[EndOf(e)] = mem[EndOf(e)]
  <2> TAKE e \in chunks
  <2>1. EndOf(e) < base \/ base + sz <= EndOf(e)
    BY <1>2, <1>5, <1>d DEF Addr
  <2> QED
    BY <1>4, <1>5, <2>1 DEF EndOf
<1>7. \A d \in blocks : /\ d \in Addr /\ NextBlock(d) \in Addr /\ d < NextBlock(d)
                        /\ NextBlock(d) < base \/ base + sz <= d
  <2> TAKE d \in blocks
  <2>1. d \in Addr /\ NextBlock(d) \in Addr /\ d < NextBlock(d)
    BY Neighbour
  <2>2. PICK e \in chunks : e.addr <= d /\ NextBlock(d) <= EndOf(e)
    BY DEF Tiling
  <2>3. base + sz <= e.addr \/ e.addr + e.size <= base
    BY <1>d
  <2> QED
    BY <1>2, <1>5, <2>1, <2>2, <2>3 DEF Addr
<1>8. \A d \in blocks : mem'[d] = mem[d] /\ NextBlock(d)' = NextBlock(d) /\ d # base /\ d # x
  BY <1>2, <1>3, <1>4, <1>7 DEF NextBlock, Addr
<1>9. NextBlock(base)' = x
  BY <1>3, <1>4 DEF NextBlock, Addr
<1>n. SUFFICES ASSUME NEW new, new = [addr |-> base, size |-> sz] PROVE HeapInv'
  OBVIOUS
<1>10. new.addr = base /\ new.size = sz /\ EndOf(new) = x /\ EndOf(new)' = x
       /\ chunks' = chunks \union {new} /\ new \in [addr : Nat, size : Nat]
  BY <1>2, <1>n, <1>s, <1>x DEF EndOf
<1>11. Tiling'
  <2>1. \A d \in blocks' : mem'[d].size >= MinBlock /\ mem'[d].canary = 1
    BY <1>3, <1>4, <1>8, <1>b, MallocAssumption DEF Tiling
  <2>2. ASSUME NEW d \in blocks'
        PROVE  \E e \in chunks' : /\ e.addr <= d /\ NextBlock(d)' <= EndOf(e)'
                                  /\ NextBlock(d)' = EndOf(e)' \/ NextBlock(d)' \in blocks'
    <3>1. CASE d = base
      BY <1>2, <1>3, <1>9, <1>10, <3>1 DEF Addr
    <3>2. CASE d # base
      <4>1. d \in blocks /\ NextBlock(d)' = NextBlock(d)
        BY <1>8, <1>b, <3>2
      <4>2. PICK e \in chunks : /\ e.addr <= d /\ NextBlock(d) <= EndOf(e)
                                /\ NextBlock(d) = EndOf(e) \/ NextBlock(d) \in blocks
        BY <4>1 DEF Tiling
      <4>3. e \in chunks' /\ EndOf(e)' = EndOf(e)
        BY <1>6, <1>10
      <4> QED
        BY <1>b, <4>1, <4>2, <4>3
    <3> QED
      BY <3>1, <3>2
  <2>3. ASSUME NEW d \in blocks', NEW e \in blocks', d < e PROVE NextBlock(d)' <= e
    <3>1. CASE d # base /\ e # base
      BY <1>8, <1>b, <2>3, <3>1 DEF Tiling
    <3>2. CASE d = base
      <4>1. e \in blocks /\ base + sz <= e
        BY <1>3, <1>7, <1>b, <2>3, <3>2 DEF Addr
      <4> QED
        BY <1>2, <1>3, <1>7, <1>9, <3>2, <4>1 DEF Addr
    <3>3. CASE d # base /\ e = base
      <4>1. d \in blocks /\ NextBlock(d)' = NextBlock(d)
        BY <1>8, <1>b, <3>3
      <4> QED
        BY <1>2, <1>3, <1>7, <2>3, <3>3, <4>1 DEF Addr
    <3> QED
      BY <3>1, <3>2, <3>3
  <2>4. \A e \in chunks' : e.addr \in blocks'
    BY <1>10, <1>b DEF Tiling
  <2> QED
    BY <2>1, <2>2, <2>3, <2>4 DEF Tiling
<1>12. ChunksApart'
  <2>1. \A e \in chunks' : /\ e.addr + e.size <= Limit /\ e.size >= MinBlock + Meta
                           /\ mem'[EndOf(e)'].canary = 0
    <3> SUFFICES ASSUME NEW e \in chunks'
                 PROVE  /\ e.addr + e.size <= Limit /\ e.size >= MinBlock + Meta
                        /\ mem'[EndOf(e)'].canary = 0
      OBVIOUS
    <3>1. CASE e \in chunks
      BY <1>5, <1>6, <3>1 DEF ChunksApart
    <3>2. CASE e = new
      BY <1>2, <1>4, <1>10, <1>a, <3>2
    <3> QED
      BY <1>10, <3>1, <3>2
  <2>2. \A e, d \in chunks' : e = d \/ e.addr + e.size <= d.addr \/ d.addr + d.size <= e.addr
    BY <1>10, <1>d, <1>n DEF ChunksApart
  <2> QED
    BY <2>1, <2>2 DEF ChunksApart
<1>13. HoldsExactly(list', base, list)
  <2>1. list \in Seq(Addr) /\ \A i, j \in DOMAIN list : list[i] = list[j] => i = j
    BY DEF TypeOK, FreeListExact
  <2>2. \A i \in DOMAIN list : list[i] # base
    BY <1>8 DEF FreeListExact
  <2>3. HoldsExactly(<<base>> \o list, base, list)
    BY <1>3, <2>1, <2>2, ConsExact
  <2> QED
    BY <1>c, <2>3
<1>14. FreeListExact'
  <2>1. \A i \in DOMAIN list' : list'[i] \in blocks' /\ mem'[list'[i]].used = 0
    BY <1>4, <1>8, <1>13, <1>b DEF HoldsExactly, FreeListExact
  <2>2. \A d \in blocks' : mem'[d].used = 0 => \E i \in DOMAIN list' : list'[i] = d
    BY <1>8, <1>13, <1>b DEF HoldsExactly, FreeListExact
  <2> QED
    BY <1>13, <2>1, <2>2 DEF FreeListExact, HoldsExactly
<1>15. TypeOK'
  <2>1. list' \in Seq(Addr)
    BY <1>13 DEF HoldsExactly
  <2> QED
    BY <1>0, <1>3, <1>4, <1>10, <1>b, <2>1 DEF TypeOK
<1>16. LiveExact'
  <2>1. \A p \in DOMAIN live : /\ Block(p) \in blocks' /\ mem'[Block(p)].used = 1
                               /\ p + live[p] <= NextBlock(Block(p))'
    BY <1>8, <1>b, LiveInside
  <2>2. \A d \in blocks' : mem'[d].used = 1 => d + Hdr \in DOMAIN live
    BY <1>0, <1>4, <1>8, <1>b DEF LiveExact
  <2> QED
    BY <1>0, <2>1, <2>2 DEF LiveExact, Block
<1>17. CallInv'
  <2>1. req.kind = "realloc" => mem'[Block(req.old)] = mem[Block(req.old)]
    BY <1>8, LiveInside DEF CallInv
  <2> QED
    BY <1>0, <2>1 DEF CallInv, Block
<1>18. ScanInv' /\ NoAbort'
  BY <1>0 DEF ScanInv, NoAbort
<1>19. NoAdjacentFree'
  <2>1. ASSUME NEW d \in blocks', mem'[d].used = 0, NextBlock(d)' \in blocks'
        PROVE  mem'[NextBlock(d)'].used = 1
    <3>1. d # base
      BY <1>3, <1>8, <1>9, <1>b, <2>1 DEF Addr
    <3>2. d \in blocks /\ mem[d].used = 0 /\ NextBlock(d)' = NextBlock(d)
      BY <1>8, <1>b, <2>1, <3>1
    <3>3. NextBlock(d) # base
      BY <1>2, <1>3, <1>7, <3>2 DEF Addr
    <3>4. NextBlock(d) \in blocks
      BY <1>b, <2>1, <3>2, <3>3
    <3>5. mem[NextBlock(d)].used = 1
      BY <1>0, <3>2, <3>4 DEF NoAdjacentFree
    <3> QED
      BY <1>8, <3>2, <3>4, <3>5
  <2> QED
    BY <2>1 DEF NoAdjacentFree
<1> QED
  BY <1>11, <1>12, <1>14, <1>15, <1>16, <1>17, <1>18, <1>19

-----------------------------------------------------------------------------
(* The invariant *)

\* The heap before the first call.
LEMMA InitHeapInv == Init => HeapInv
<1> SUFFICES ASSUME Init PROVE HeapInv
  OBVIOUS
<1>1. TypeOK
  <2>1. Zero \in Header
    BY HeaderConstants
  <2> QED
    BY <2>1 DEF Init, TypeOK, NoReq
<1> QED
  BY <1>1 DEF Init, NoReq, HeapInv, Tiling, ChunksApart, FreeListExact, LiveExact, CallInv,
              ScanInv, NoAdjacentFree, NoAbort

\* Every step keeps the invariant of the heap.
LEMMA NextHeapInv == HeapInv /\ NoWrap /\ [Next]_vars => HeapInv'
<1> SUFFICES ASSUME HeapInv, NoWrap, [Next]_vars PROVE HeapInv'
  OBVIOUS
<1>1. CASE CallMalloc \/ CallCalloc \/ CallReallocMove
  BY <1>1, CallStep
<1>2. CASE CallReallocInPlace
  BY <1>2, ReallocInPlaceStep
<1>3. CASE CallFree
  BY <1>3, ReleaseStep DEF CallFree
<1>4. CASE FreeOld
  <2>1. pc = "copied" /\ Release(req.old)
    BY <1>4 DEF FreeOld
  <2>2. req.old \in DOMAIN live
    BY <2>1 DEF HeapInv, CallInv
  <2> QED
    BY <2>1, <2>2, ReleaseStep
<1>5. CASE ClientWrites
  BY <1>5, ClientWritesStep
<1>6. CASE Skip \/ OutOfMemory \/ ReturnMalloc \/ CoalesceNext \/ CoalesceDone
  BY <1>6, QuietStep
<1>7. CASE Take
  BY <1>7, TakeWholeStep, TakeSplitStep
<1>8. CASE Grow
  BY <1>8, GrowStep
<1>9. CASE ReturnCalloc
  BY <1>9, ReturnCallocStep
<1>10. CASE Merge
  BY <1>10, MergeStep
<1>11. CASE CopyOld
  BY <1>11, CopyOldStep
<1>12. CASE UNCHANGED vars
  BY <1>12 DEF vars, HeapInv, TypeOK, Tiling, ChunksApart, FreeListExact, LiveExact, CallInv,
               ScanInv, NoAdjacentFree, NoAbort, NextBlock, Block, EndOf, Mergeable
<1> QED
  BY <1>1, <1>2, <1>3, <1>4, <1>5, <1>6, <1>7, <1>8, <1>9, <1>10, <1>11, <1>12
     DEF Next, Call, Step

\* The heap keeps its structure whatever clients ask for and free, in any
\* order, as long as no request wraps around size_t (malloc, calloc, realloc,
\* free and heap_grow of src/malloc.c).
THEOREM HeapInvariant == ASSUME NoWrap PROVE Spec => []HeapInv
<1>1. Init => HeapInv
  BY InitHeapInv
<1>2. HeapInv /\ [Next]_vars => HeapInv'
  BY NextHeapInv
<1> QED
  BY <1>1, <1>2, PTL DEF Spec

\* Every variable keeps its type: no header ever holds a size beyond size_t and
\* every listed block and live pointer is an address of the heap.
THEOREM Typing == ASSUME NoWrap PROVE Spec => []TypeOK
<1>1. HeapInv => TypeOK
  BY DEF HeapInv
<1> QED
  BY <1>1, HeapInvariant, PTL

\* The blocks tile the chunks: splitting, merging and growing never make two
\* blocks overlap or leave a gap, and no header is ever overwritten.
THEOREM BlocksTile == ASSUME NoWrap PROVE Spec => []Tiling
<1>1. HeapInv => Tiling
  BY DEF HeapInv
<1> QED
  BY <1>1, HeapInvariant, PTL

\* The free list is exactly the set of free blocks, without repetition.
THEOREM FreeListIsExact == ASSUME NoWrap PROVE Spec => []FreeListExact
<1>1. HeapInv => FreeListExact
  BY DEF HeapInv
<1> QED
  BY <1>1, HeapInvariant, PTL

\* Between calls no two neighbouring blocks are both free: the scan of free
\* that starts over after each merge has missed no pair.
THEOREM Coalesced == ASSUME NoWrap PROVE Spec => []NoAdjacentFree
<1>1. HeapInv => NoAdjacentFree
  BY DEF HeapInv
<1> QED
  BY <1>1, HeapInvariant, PTL

\* Used blocks and what clients hold are the same, so nothing leaks, and each
\* block has room for what its client asked for.
THEOREM UsedIsLive == ASSUME NoWrap PROVE Spec => []LiveExact
<1>1. HeapInv => LiveExact
  BY DEF HeapInv
<1> QED
  BY <1>1, HeapInvariant, PTL

\* The assertions of free never fail for a client that frees what it got.
THEOREM AssertionsHold == ASSUME NoWrap PROVE Spec => []NoAbort
<1>1. HeapInv => NoAbort
  BY DEF HeapInv
<1> QED
  BY <1>1, HeapInvariant, PTL

\* Two allocations never share memory.
THEOREM AllocationsDisjoint == ASSUME NoWrap PROVE Spec => []LiveDisjoint
<1>1. HeapInv => LiveDisjoint
  <2> SUFFICES ASSUME HeapInv, NEW p \in DOMAIN live, NEW q \in DOMAIN live, p < q
               PROVE  p + live[p] <= q
    BY DEF LiveDisjoint
  <2>1. /\ Block(p) \in blocks /\ p \in Addr /\ NextBlock(Block(p)) \in Addr
        /\ live[p] \in Nat /\ p + live[p] <= NextBlock(Block(p))
    BY LiveInside
  <2>2. Block(q) \in blocks /\ q \in Addr /\ q > Block(q) /\ Block(q) \in Addr
    BY LiveInside
  <2>3. Block(p) < Block(q)
    BY <2>1, <2>2, MallocAssumption DEF Block, Addr
  <2>4. NextBlock(Block(p)) <= Block(q)
    BY <2>1, <2>2, <2>3 DEF HeapInv, Tiling
  <2> QED
    BY <2>1, <2>2, <2>4 DEF Addr
<1> QED
  BY <1>1, HeapInvariant, PTL

\* Once everything is freed each chunk is a single free block again: the heap
\* does not fragment for good.
THEOREM FragmentationHeals == ASSUME NoWrap PROVE Spec => []AllFreeIsWhole
<1>1. HeapInv => AllFreeIsWhole
  <2> SUFFICES ASSUME HeapInv, pc = "idle", DOMAIN live = {}
               PROVE  blocks = {c.addr : c \in chunks}
    BY DEF AllFreeIsWhole
  <2>1. \A b \in blocks : mem[b].used = 0
    <3> TAKE b \in blocks
    <3>1. mem[b].used # 1
      BY DEF HeapInv, LiveExact
    <3>2. mem[b] \in Header
      BY Neighbour DEF HeapInv, TypeOK
    <3> QED
      BY <3>1, <3>2 DEF Header
  <2>2. \A b \in blocks : NextBlock(b) \notin blocks
    BY <2>1 DEF HeapInv, NoAdjacentFree
  <2>3. ASSUME NEW b \in blocks PROVE b \in {c.addr : c \in chunks}
    <3>1. PICK c \in chunks : c.addr <= b /\ NextBlock(b) <= EndOf(c)
      BY DEF HeapInv, Tiling
    <3>2. c.addr \in blocks /\ c.addr \in Nat /\ c.size \in Nat /\ EndOf(c) \in Int
      BY MallocAssumption DEF HeapInv, Tiling, TypeOK, EndOf
    <3>3. NextBlock(c.addr) = EndOf(c)
      <4>1. PICK d \in chunks : /\ d.addr <= c.addr /\ NextBlock(c.addr) <= EndOf(d)
                                /\ NextBlock(c.addr) = EndOf(d)
        BY <2>2, <3>2 DEF HeapInv, Tiling
      <4>2. /\ d.addr \in Nat /\ d.size \in Nat /\ c.size >= MinBlock + Meta
            /\ NextBlock(c.addr) > c.addr
            /\ c = d \/ c.addr + c.size <= d.addr \/ d.addr + d.size <= c.addr
        BY <3>2, Neighbour DEF HeapInv, TypeOK, ChunksApart
      <4> QED
        BY <3>2, <4>1, <4>2, MallocAssumption DEF EndOf, MinBlock
    <3>4. b = c.addr
      <4>1. b \in Addr /\ NextBlock(b) \in Addr /\ b < NextBlock(b)
        BY Neighbour DEF HeapInv
      <4>2. c.addr < b => NextBlock(c.addr) <= b
        BY <3>2 DEF HeapInv, Tiling
      <4> QED
        BY <3>1, <3>2, <3>3, <4>1, <4>2 DEF Addr
    <3> QED
      BY <3>4
  <2>4. \A c \in chunks : c.addr \in blocks
    BY DEF HeapInv, Tiling
  <2> QED
    BY <2>3, <2>4
<1> QED
  BY <1>1, HeapInvariant, PTL

-----------------------------------------------------------------------------
(* What clients store *)

\* The data of an allocation lies in no other block and in no free chunk.
LEMMA DataApart ==
  ASSUME HeapInv, NEW p \in DOMAIN live, NEW a \in p..(p + live[p] - 1)
  PROVE  /\ a \in Addr
         /\ \A b \in blocks : b # Block(p) => a < b \/ NextBlock(b) <= a
         /\ \E c \in chunks : c.addr <= a /\ a < c.addr + c.size
<1> SUFFICES ASSUME NEW o, o = Block(p)
             PROVE  /\ a \in Addr
                    /\ \A b \in blocks : b # o => a < b \/ NextBlock(b) <= a
                    /\ \E c \in chunks : c.addr <= a /\ a < c.addr + c.size
  OBVIOUS
<1>1. /\ o \in blocks /\ o \in Addr /\ p \in Addr /\ p > o /\ live[p] \in Nat
      /\ NextBlock(o) \in Addr /\ p + live[p] <= NextBlock(o)
  BY LiveInside
<1>2. o < a /\ a < NextBlock(o) /\ a \in Addr
  <2>1. p \in Int /\ live[p] \in Int /\ o \in Int /\ NextBlock(o) \in 0..(Limit - 1)
    BY <1>1 DEF Addr
  <2>2. a \in Int /\ p <= a /\ a < p + live[p]
    BY <2>1
  <2>3. o < a /\ a < NextBlock(o)
    BY <1>1, <2>1, <2>2
  <2> QED
    BY <1>1, <2>1, <2>2, <2>3, MallocAssumption DEF Addr
<1>3. ASSUME NEW b \in blocks, b # o PROVE a < b \/ NextBlock(b) <= a
  <2>1. b \in Addr /\ NextBlock(b) \in Addr
    BY Neighbour DEF HeapInv
  <2>2. CASE b < o
    <3>1. NextBlock(b) <= o
      BY <1>1, <2>2 DEF HeapInv, Tiling
    <3> QED
      BY <1>1, <1>2, <2>1, <3>1 DEF Addr
  <2>3. CASE o < b
    <3>1. NextBlock(o) <= b
      BY <1>1, <2>3 DEF HeapInv, Tiling
    <3> QED
      BY <1>1, <1>2, <2>1, <3>1 DEF Addr
  <2> QED
    BY <1>1, <1>3, <2>1, <2>2, <2>3 DEF Addr
<1>4. \E c \in chunks : c.addr <= a /\ a < c.addr + c.size
  <2>1. PICK c \in chunks : c.addr <= o /\ NextBlock(o) <= EndOf(c)
    BY <1>1 DEF HeapInv, Tiling
  <2>2. c.addr \in Nat /\ c.size \in Nat
    BY DEF HeapInv, TypeOK
  <2> QED
    BY <1>1, <1>2, <2>1, <2>2, MallocAssumption DEF EndOf, Addr
<1> QED
  BY <1>2, <1>3, <1>4

\* What one step does to the data of an allocation that it does not free.
LEMMA DataStep ==
  ASSUME HeapInv, Next, NEW p \in DOMAIN live \intersect DOMAIN live'
  PROVE  WritesTo(p) \/ \A a \in p..(p + live[p] - 1) : mem'[a] = mem[a]
<1> SUFFICES ASSUME ~WritesTo(p), NEW a \in p..(p + live[p] - 1) PROVE mem'[a] = mem[a]
  OBVIOUS
<1>1. /\ a \in Addr
      /\ \A b \in blocks : b # Block(p) => a < b \/ NextBlock(b) <= a
      /\ \E c \in chunks : c.addr <= a /\ a < c.addr + c.size
  BY DataApart
<1>2. /\ Block(p) \in blocks /\ mem[Block(p)].used = 1 /\ p \in Addr
  BY LiveInside
<1>3. \A i \in DOMAIN list : /\ list[i] \in blocks /\ list[i] # Block(p)
                             /\ list[i] \in Addr
                             /\ a < list[i] \/ NextBlock(list[i]) <= a
  <2> TAKE i \in DOMAIN list
  <2>1. list[i] \in blocks /\ list[i] \in Addr /\ mem[list[i]].used = 0
    BY ListedIsFree DEF HeapInv
  <2> QED
    BY <1>1, <1>2, <2>1
<1>4. mem \in [Addr -> Header]
  BY DEF HeapInv, TypeOK
<1>5. CASE UNCHANGED mem
  BY <1>5
<1>6. CASE Take
  <2>1. cur \in DOMAIN list /\ req.need \in Nat /\ req.need >= MinBlock
        /\ mem[list[cur]].size >= req.need
    BY <1>6 DEF Take, HeapInv, TypeOK, CallInv
  <2>2. /\ list[cur] \in Addr /\ NextBlock(list[cur]) \in Addr
        /\ a < list[cur] \/ NextBlock(list[cur]) <= a
        /\ list[cur] < NextBlock(list[cur]) /\ mem[list[cur]].size \in Nat
    BY <1>3, <2>1, Neighbour DEF HeapInv
  <2>3. a # list[cur]
    BY <1>1, <2>2 DEF Addr
  <2>4. CASE Splits(mem[list[cur]].size)
    <3>1. a # list[cur] + req.need
      BY <1>1, <2>1, <2>2, <2>4, MallocAssumption DEF Splits, NextBlock, Addr, MinBlock
    <3>2. mem' = [mem EXCEPT ![list[cur] + req.need] =
                                 FreeHeader(mem[list[cur]].size - req.need),
                             ![list[cur]] = UsedHeader(req.need)]
      BY <1>6, <2>4 DEF Take
    <3> QED
      BY <1>1, <1>4, <2>3, <3>1, <3>2
  <2>5. CASE ~Splits(mem[list[cur]].size)
    <3>1. mem' = [mem EXCEPT ![list[cur]] = UsedHeader(mem[list[cur]].size)]
      BY <1>6, <2>5 DEF Take
    <3> QED
      BY <1>1, <1>4, <2>3, <3>1
  <2> QED
    BY <2>4, <2>5
<1>7. CASE Merge
  <2>1. cur \in DOMAIN list /\
        mem' = [mem EXCEPT ![list[cur]] =
                  FreeHeader(mem[list[cur]].size + mem[NextBlock(list[cur])].size)]
    BY <1>7 DEF Merge
  <2>2. a # list[cur]
    BY <1>1, <1>3, <2>1, Neighbour DEF HeapInv, Addr
  <2> QED
    BY <1>1, <1>4, <2>1, <2>2
<1>8. CASE Grow
  <2>1. PICK base \in Bases :
          LET sz == AlignUp(Wrap(req.need + Hdr + Meta), ChunkSize) IN
            /\ base + sz <= Limit
            /\ \A c \in chunks : base + sz <= c.addr \/ c.addr + c.size <= base
            /\ mem' = [Fill(mem, base, base + sz, Zero) EXCEPT
                         ![base + sz - Meta] = Trailer(base),
                         ![base] = FreeHeader(Usable(sz))]
    BY <1>8 DEF Grow
  <2>2. SUFFICES ASSUME NEW sz, sz = AlignUp(Wrap(req.need + Hdr + Meta), ChunkSize)
                 PROVE  mem'[a] = mem[a]
    OBVIOUS
  <2>3. /\ base + sz <= Limit
        /\ \A c \in chunks : base + sz <= c.addr \/ c.addr + c.size <= base
        /\ mem' = [Fill(mem, base, base + sz, Zero) EXCEPT
                     ![base + sz - Meta] = Trailer(base),
                     ![base] = FreeHeader(Usable(sz))]
    BY <2>1, <2>2
  <2>4. req.need \in Nat /\ req.need + Hdr + Meta + ChunkSize <= Word
    BY <1>8 DEF Grow, HeapInv, TypeOK, CallInv
  <2>5. sz \in Nat /\ sz >= req.need + Hdr + Meta
    BY <2>2, <2>4, GrowBounds
  <2>6. base \in Nat /\ sz > Meta
    BY <2>4, <2>5, MallocAssumption
  <2>7. a < base \/ base + sz <= a
    BY <1>1, <2>3, <2>5, <2>6 DEF HeapInv, TypeOK, Addr
  <2>8. a # base /\ a # base + sz - Meta
    BY <1>1, <2>5, <2>6, <2>7, MallocAssumption DEF Addr
  <2>9. /\ Fill(mem, base, base + sz, Zero) \in [Addr -> Header]
        /\ Fill(mem, base, base + sz, Zero)[a] = mem[a]
    BY <1>1, <1>4, <2>5, <2>6, <2>7, FillTyped, HeaderConstants DEF Addr
  <2> QED
    BY <1>1, <2>3, <2>8, <2>9
<1>9. CASE ReturnCalloc \/ CopyOld
  <2>1. pc = "taken" /\ Block(ptr) \in blocks /\ ptr \notin DOMAIN live /\ ptr \in Nat
        /\ mem[Block(ptr)].size >= req.need /\ req.need >= req.size + Hdr
        /\ req.need \in Nat /\ req.size \in Nat
    BY <1>9 DEF ReturnCalloc, CopyOld, HeapInv, CallInv, TypeOK
  <2>2. Block(ptr) # Block(p)
    BY <1>2, <2>1, MallocAssumption DEF Block, Addr
  <2>3. /\ a < Block(ptr) \/ NextBlock(Block(ptr)) <= a
        /\ Block(ptr) \in Addr /\ NextBlock(Block(ptr)) \in Addr
        /\ Block(ptr) < ptr /\ mem[Block(ptr)].size \in Nat
        /\ NextBlock(Block(ptr)) = ptr + (mem[Block(ptr)].size - Hdr)
    <3>1. Block(ptr) \in Addr /\ NextBlock(Block(ptr)) \in Addr /\ mem[Block(ptr)].size \in Nat
      BY <2>1, Neighbour DEF HeapInv
    <3>2. a < Block(ptr) \/ NextBlock(Block(ptr)) <= a
      BY <1>1, <2>1, <2>2
    <3> QED
      BY <2>1, <3>1, <3>2, MallocAssumption DEF Block, NextBlock, Addr
  <2>4. CASE ReturnCalloc
    <3>1. mem' = Fill(mem, ptr, ptr + req.size, Zero)
      BY <2>4 DEF ReturnCalloc
    <3>2. ~(ptr <= a /\ a < ptr + req.size)
      BY <1>1, <2>1, <2>3, MallocAssumption DEF Addr
    <3> QED
      BY <1>1, <1>4, <3>1, <3>2, FillTyped, HeaderConstants
  <2>5. CASE CopyOld
    <3>1. mem' = [x \in Addr |-> IF ptr <= x /\ x < ptr + OldSize
                                 THEN mem[req.old + (x - ptr)] ELSE mem[x]]
          /\ req.kind = "realloc"
      BY <2>5 DEF CopyOld
    <3>2. mem[Block(req.old)].size <= req.need /\ mem[Block(req.old)].size \in Nat
      <4>1. req.old \in DOMAIN live
        BY <3>1 DEF HeapInv, CallInv
      <4>2. Block(req.old) \in blocks
        BY <4>1, LiveInside
      <4> QED
        BY <2>1, <3>1, <4>2, Neighbour DEF HeapInv, CallInv
    <3>3. OldSize \in Int /\ OldSize <= req.need - Hdr
      BY <2>1, <3>2, MallocAssumption DEF OldSize
    <3>4. ~(ptr <= a /\ a < ptr + OldSize)
      BY <1>1, <2>1, <2>3, <3>3, MallocAssumption DEF Addr
    <3> QED
      BY <1>1, <3>1, <3>4
  <2> QED
    BY <1>9, <2>4, <2>5
<1>10. ASSUME NEW q \in DOMAIN live, Release(q) PROVE mem'[a] = mem[a]
  <2>1. q # p
    BY <1>10 DEF Release
  <2>2. SUFFICES ASSUME NEW b, b = Block(q) PROVE mem'[a] = mem[a]
    OBVIOUS
  <2>3. mem' = [PoisonData(mem, b) EXCEPT ![b] = FreeHeader(mem[b].size)]
    BY <1>10, <2>2 DEF Release
  <2>4. b \in blocks /\ b \in Addr /\ NextBlock(b) \in Addr /\ q \in Addr /\ b < NextBlock(b)
    BY <2>2, LiveInside, Neighbour DEF HeapInv
  <2>5. b # Block(p)
    BY <1>2, <2>1, <2>2, <2>4, MallocAssumption DEF Block, Addr
  <2>6. a < b \/ NextBlock(b) <= a
    BY <1>1, <2>4, <2>5
  <2>7. PoisonData(mem, b) \in [Addr -> Header] /\ PoisonData(mem, b)[a] = mem[a]
    BY <1>1, <1>4, <2>4, <2>6, FillTyped, HeaderConstants, MallocAssumption
       DEF PoisonData, NextBlock, Addr
  <2> QED
    BY <1>1, <2>3, <2>4, <2>6, <2>7 DEF Addr
<1>11. CASE CallFree
  BY <1>10, <1>11 DEF CallFree
<1>12. CASE FreeOld
  BY <1>10, <1>12 DEF FreeOld, HeapInv, CallInv
<1>13. CASE ClientWrites
  <2>1. PICK q \in DOMAIN live : WritesTo(q)
    BY <1>13 DEF ClientWrites
  <2>2. q # p
    BY <2>1
  <2>3. /\ Block(q) \in blocks /\ Block(q) \in Addr /\ NextBlock(Block(q)) \in Addr
        /\ q \in Addr /\ q > Block(q) /\ q + live[q] <= NextBlock(Block(q)) /\ live[q] \in Nat
    BY LiveInside
  <2>4. Block(q) # Block(p)
    BY <1>2, <2>2, <2>3, MallocAssumption DEF Block, Addr
  <2>5. ~(q <= a /\ a < q + live[q])
    BY <1>1, <2>3, <2>4 DEF Addr
  <2> QED
    BY <1>1, <1>4, <2>1, <2>5, FillTyped, HeaderConstants DEF WritesTo
<1> QED
  BY <1>5, <1>6, <1>7, <1>8, <1>9, <1>11, <1>12, <1>13
     DEF Next, Call, Step, CallMalloc, CallCalloc, CallReallocMove, StartSearch,
         CallReallocInPlace, Skip, OutOfMemory, ReturnMalloc, CoalesceNext, CoalesceDone

\* realloc has copied everything the client stored in the old block.
LEMMA CopyStep ==
  ASSUME HeapInv, Next, pc = "taken", pc' = "copied", NEW k \in 0..(live[req.old] - 1)
  PROVE  mem'[ptr + k] = mem[req.old + k]
<1>1. CopyOld
  BY DEF Next, Call, Step, CallMalloc, CallCalloc, CallFree, CallReallocInPlace, CallReallocMove,
         ClientWrites, Skip, Take, Grow, OutOfMemory, ReturnMalloc, ReturnCalloc, Merge,
         CoalesceNext, CoalesceDone, FreeOld
<1>2. req.old \in DOMAIN live /\ mem[Block(req.old)].size <= req.need
      /\ Block(ptr) \in blocks /\ mem[Block(ptr)].size >= req.need /\ ptr \in Nat /\ req.need \in Nat
  BY <1>1 DEF CopyOld, HeapInv, CallInv, TypeOK
<1>3. /\ Block(req.old) \in blocks /\ req.old \in Addr /\ live[req.old] \in Nat
      /\ req.old + live[req.old] <= NextBlock(Block(req.old))
      /\ mem[Block(req.old)].size \in Nat
  BY <1>2, LiveInside, Neighbour DEF HeapInv
<1>4. live[req.old] <= OldSize /\ OldSize \in Int /\ OldSize <= req.need - Hdr
  BY <1>2, <1>3, MallocAssumption DEF NextBlock, Block, OldSize, Addr
<1>5. ptr + OldSize <= NextBlock(Block(ptr)) /\ NextBlock(Block(ptr)) \in Addr
  <2>1. mem[Block(ptr)].size \in Nat /\ NextBlock(Block(ptr)) \in Addr
    BY <1>2, Neighbour DEF HeapInv
  <2> QED
    BY <1>2, <1>4, <2>1, MallocAssumption DEF NextBlock, Block, Addr
<1>6. ptr + k \in Addr /\ ptr <= ptr + k /\ ptr + k < ptr + OldSize
  <2>1. k \in Nat /\ k < live[req.old]
    BY <1>3
  <2> QED
    BY <1>2, <1>3, <1>4, <1>5, <2>1, MallocAssumption DEF Addr
<1>7. mem' = [a \in Addr |-> IF ptr <= a /\ a < ptr + OldSize
                             THEN mem[req.old + (a - ptr)] ELSE mem[a]]
  BY <1>1 DEF CopyOld
<1>8. mem'[ptr + k] = mem[req.old + ((ptr + k) - ptr)]
  BY <1>6, <1>7
<1> QED
  BY <1>2, <1>8

\* No step of the allocator changes what a client stored in memory it still
\* holds, and realloc moves it to the new block unchanged.
THEOREM DataIsKept == ASSUME NoWrap PROVE Spec => DataKept
<1> DEFINE Kept ==
      /\ \A p \in DOMAIN live \intersect DOMAIN live' :
           WritesTo(p) \/ \A a \in p..(p + live[p] - 1) : mem'[a] = mem[a]
      /\ pc = "taken" /\ pc' = "copied" =>
           \A k \in 0..(live[req.old] - 1) : mem'[ptr + k] = mem[req.old + k]
<1>1. HeapInv /\ [Next]_vars => [Kept]_vars
  <2> SUFFICES ASSUME HeapInv, Next PROVE Kept
    OBVIOUS
  <2>1. \A p \in DOMAIN live \intersect DOMAIN live' :
           WritesTo(p) \/ \A a \in p..(p + live[p] - 1) : mem'[a] = mem[a]
    BY DataStep
  <2>2. pc = "taken" /\ pc' = "copied" =>
           \A k \in 0..(live[req.old] - 1) : mem'[ptr + k] = mem[req.old + k]
    BY CopyStep
  <2> QED
    BY <2>1, <2>2
<1>2. Spec => [][Kept]_vars
  BY <1>1, HeapInvariant, PTL DEF Spec
<1> QED
  BY <1>2 DEF DataKept
=============================================================================
