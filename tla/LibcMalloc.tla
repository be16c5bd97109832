----------------------------- MODULE LibcMalloc -----------------------------
(***************************************************************************)
(* The heap of libtool (src/malloc.c): first-fit search of a free list,    *)
(* splitting, growing by mmap, and free with its restarting coalescing     *)
(* scan.  Sizes and addresses count words of 8 bytes.                      *)
(*                                                                         *)
(* mem[a] is what the program sees when it reads a block header at a, so   *)
(* headers left behind by a merge, the chunk trailer and data a client     *)
(* wrote can all be mistaken for blocks.  Nothing but the words in mem     *)
(* tells the coalescing scan what it looks at.                             *)
(***************************************************************************)
EXTENDS Integers, Sequences, FiniteSets

CONSTANTS Hdr,        \* sizeof(block_t)
          Align,      \* HEAP_ALIGN
          Meta,       \* sizeof(chunk_t)
          ChunkSize,  \* CHUNK_SIZE, the granularity of mmap
          Word,       \* size_t holds 0..Word-1
          Limit,      \* the address space is 0..Limit-1
          Bases,      \* where mmap may place a chunk
          Sizes,      \* sizes clients ask for
          MaxLive     \* bound of the model: allocations held at once

MinBlock == Hdr + Align

ASSUME MallocAssumption ==
  /\ Hdr \in Nat \ {0} /\ Align \in Nat \ {0} /\ Meta \in Nat \ {0}
  /\ ChunkSize \in Nat \ {0} /\ Word \in Nat /\ Limit \in 0..Word
  /\ MinBlock < Word
  /\ Bases \subseteq Nat
  /\ Sizes \subseteq 1..(Word - 1)

VARIABLES
  mem,     \* the words, read as headers
  chunks,  \* __chunks: what mmap returned, [addr, size]
  list,    \* __free_list, head first
  pc,      \* where the current call is
  cur,     \* index in list of the loop variable (b in malloc, cur in free)
  req,     \* the call: [kind, size, need, old]
  ptr,     \* block malloc has taken
  live,    \* what clients hold: pointer -> size asked for
  blocks   \* observation: where the real block headers are

vars == <<mem, chunks, list, pc, cur, req, ptr, live, blocks>>

Addr == 0..(Limit - 1)
Header == [size : 0..(Word - 1), used : {0, 1}, canary : {0, 1}]
FreeHeader(sz) == [size |-> sz, used |-> 0, canary |-> 1]
UsedHeader(sz) == [size |-> sz, used |-> 1, canary |-> 1]
Zero == [size |-> 0, used |-> 0, canary |-> 0]
\* A chunk_t read as a header: its first field is where the chunk starts.
Trailer(base) == [size |-> base, used |-> 0, canary |-> 0]
\* 0xCD..CD is odd: BLOCK_USED of poisoned memory is set.
Poison == [size |-> 0, used |-> 1, canary |-> 0]
\* Data of a client that happens to look like the header of a free block.
Lookalike == FreeHeader(MinBlock)

\* Sums wrap at the width of size_t (both operands are below Word).
Wrap(x) == IF x < Word THEN x ELSE x - Word
AlignUp(x, a) == LET y == Wrap(x + a - 1) IN y - (y % a)

Fill(m, from, to, w) == [a \in Addr |-> IF from <= a /\ a < to THEN w ELSE m[a]]
\* The list without its i-th element: fl_remove.
Without(s, i) == [j \in 1..(Len(s) - 1) |-> IF j < i THEN s[j] ELSE s[j + 1]]

Block(p) == p - Hdr                    \* DATA_BLOCK
EndOf(c) == c.addr + c.size - Meta     \* where heap_grow puts the trailer
NextBlock(b) == b + mem[b].size        \* NEXT_BLOCK

NoReq == [kind |-> "none", size |-> 0, need |-> 0, old |-> 0]

Init ==
  /\ mem = [a \in Addr |-> Zero]
  /\ chunks = {}
  /\ list = <<>>
  /\ pc = "idle"
  /\ cur = 1
  /\ req = NoReq
  /\ ptr = 0
  /\ live = [p \in {} |-> 0]
  /\ blocks = {}

-----------------------------------------------------------------------------
(* malloc, calloc and the part of realloc that allocates *)

\* Mutant: the minimum is taken for a maximum.
NeedAtMost(size) ==
  LET n == Wrap(AlignUp(size, Align) + Hdr) IN IF n > MinBlock THEN MinBlock ELSE n

Need(size) ==
  LET n == Wrap(AlignUp(size, Align) + Hdr) IN IF n < MinBlock THEN MinBlock ELSE n

\* The products calloc is asked for (an array of one or two elements).
Requests == {nmemb * size : nmemb \in 1..2, size \in Sizes}

StartSearch(kind, size, old) ==
  /\ req' = [kind |-> kind, size |-> size, need |-> Need(size), old |-> old]
  /\ pc' = "search"
  /\ cur' = 1
  /\ UNCHANGED <<mem, chunks, list, ptr, blocks>>

CallMalloc ==
  /\ pc = "idle"
  /\ Cardinality(DOMAIN live) < MaxLive
  /\ \E size \in Sizes : StartSearch("malloc", size, 0)
  /\ UNCHANGED live

\* calloc(nmemb, size) refuses a product that does not fit in size_t.
CallCalloc ==
  /\ pc = "idle"
  /\ Cardinality(DOMAIN live) < MaxLive
  /\ \E total \in Requests :
       /\ total < Word
       /\ StartSearch("calloc", total, 0)
  /\ UNCHANGED live

\* A block too small for the request is passed over.
Skip ==
  /\ pc = "search"
  /\ cur \in DOMAIN list
  /\ mem[list[cur]].size < req.need
  /\ cur' = cur + 1
  /\ UNCHANGED <<mem, chunks, list, pc, req, ptr, live, blocks>>

Splits(bsz) == bsz >= req.need + MinBlock

\* First fit: the block is taken off the list and its tail given back.
Take ==
  /\ pc = "search"
  /\ cur \in DOMAIN list
  /\ LET b == list[cur]
         bsz == mem[b].size
         rest == b + req.need
     IN /\ bsz >= req.need
        /\ IF Splits(bsz)
             THEN /\ list' = <<rest>> \o Without(list, cur)
                  /\ mem' = [mem EXCEPT ![rest] = FreeHeader(bsz - req.need),
                                        ![b] = UsedHeader(req.need)]
                  /\ blocks' = blocks \union {rest}
             ELSE /\ list' = Without(list, cur)
                  /\ mem' = [mem EXCEPT ![b] = UsedHeader(bsz)]
                  /\ blocks' = blocks
        /\ ptr' = b + Hdr
  /\ pc' = "taken"
  /\ UNCHANGED <<chunks, cur, req, live>>

\* Mutant: the trailer is not taken off the first block.
WholeChunk(sz) == sz

Usable(sz) == sz - Meta

\* heap_grow: mmap a region, put the trailer at its end and one free block in
\* the rest; malloc then starts over.
Grow ==
  /\ pc = "search"
  /\ cur \notin DOMAIN list
  /\ LET sz == AlignUp(Wrap(req.need + Hdr + Meta), ChunkSize) IN
       \E base \in Bases :
         /\ sz > 0
         /\ base + sz <= Limit
         /\ \A c \in chunks : base + sz <= c.addr \/ c.addr + c.size <= base
         /\ chunks' = chunks \union {[addr |-> base, size |-> sz]}
         /\ mem' = [Fill(mem, base, base + sz, Zero) EXCEPT
                      ![base + sz - Meta] = Trailer(base),
                      ![base] = FreeHeader(Usable(sz))]
         /\ list' = <<base>> \o list
         /\ blocks' = blocks \union {base}
  /\ cur' = 1
  /\ UNCHANGED <<pc, req, ptr, live>>

\* mmap fails: errno = ENOMEM, NULL is returned.
OutOfMemory ==
  /\ pc = "search"
  /\ cur \notin DOMAIN list
  /\ pc' = "idle"
  /\ req' = NoReq
  /\ cur' = 1
  /\ UNCHANGED <<mem, chunks, list, ptr, live, blocks>>

Handed == [p \in DOMAIN live \union {ptr} |-> IF p = ptr THEN req.size ELSE live[p]]

ReturnMalloc ==
  /\ pc = "taken"
  /\ req.kind = "malloc"
  /\ live' = Handed
  /\ pc' = "idle"
  /\ req' = NoReq
  /\ cur' = 1
  /\ ptr' = 0
  /\ UNCHANGED <<mem, chunks, list, blocks>>

ReturnCalloc ==
  /\ pc = "taken"
  /\ req.kind = "calloc"
  /\ mem' = Fill(mem, ptr, ptr + req.size, Zero)
  /\ live' = Handed
  /\ pc' = "idle"
  /\ req' = NoReq
  /\ cur' = 1
  /\ ptr' = 0
  /\ UNCHANGED <<chunks, list, blocks>>

-----------------------------------------------------------------------------
(* free *)

PoisonData(m, b) == Fill(m, b + Hdr, b + m[b].size, Poison)

\* The two asserts, then the block is marked free, poisoned and listed.
Release(p) ==
  LET b == Block(p)
      ok == mem[b].canary = 1 /\ mem[b].used = 1
  IN /\ mem' = [PoisonData(mem, b) EXCEPT ![b] = FreeHeader(mem[b].size)]
     /\ list' = <<b>> \o list
     /\ live' = [q \in DOMAIN live \ {p} |-> live[q]]
     /\ pc' = IF ok THEN "coalesce" ELSE "abort"
     /\ cur' = 1
     /\ req' = NoReq
     /\ ptr' = 0
     /\ UNCHANGED <<chunks, blocks>>

CallFree ==
  /\ pc = "idle"
  /\ \E p \in DOMAIN live : Release(p)

Mergeable(a) == mem[a].used = 0 /\ mem[a].canary = 1

Unlist(j) == list' = Without(list, j)

Restart == cur' = 1

\* The neighbour after list[cur] is free: merge, and scan from the head again.
Merge ==
  /\ pc = "coalesce"
  /\ cur \in DOMAIN list
  /\ LET c == list[cur]
         nx == NextBlock(c)
     IN /\ Mergeable(nx)
        /\ \E j \in DOMAIN list : list[j] = nx /\ Unlist(j)
        /\ mem' = [mem EXCEPT ![c] = FreeHeader(mem[c].size + mem[nx].size)]
        /\ blocks' = blocks \ {nx}
  /\ Restart
  /\ UNCHANGED <<chunks, pc, req, ptr, live>>

\* Mutant: only the block just freed is compared with its neighbour.
OnlyFirst == cur' = Len(list) + 1
\* Mutant: the scan starts over after every block.
RescanAlways == cur' = 1

Advance == cur' = cur + 1

CoalesceNext ==
  /\ pc = "coalesce"
  /\ cur \in DOMAIN list
  /\ ~Mergeable(NextBlock(list[cur]))
  /\ Advance
  /\ UNCHANGED <<mem, chunks, list, pc, req, ptr, live, blocks>>

CoalesceDone ==
  /\ pc = "coalesce"
  /\ cur \notin DOMAIN list
  /\ pc' = "idle"
  /\ cur' = 1
  /\ UNCHANGED <<mem, chunks, list, req, ptr, live, blocks>>

-----------------------------------------------------------------------------
(* realloc.  realloc(NULL, n) is malloc(n) and realloc(p, 0) is free(p). *)

FitsInPlace(p, size) == AlignUp(size, Align) <= mem[Block(p)].size - Hdr

CallReallocInPlace ==
  /\ pc = "idle"
  /\ \E p \in DOMAIN live, size \in Sizes :
       /\ FitsInPlace(p, size)
       /\ live' = [live EXCEPT ![p] = size]
  /\ UNCHANGED <<mem, chunks, list, pc, cur, req, ptr, blocks>>

CallReallocMove ==
  /\ pc = "idle"
  /\ \E p \in DOMAIN live, size \in Sizes :
       /\ ~FitsInPlace(p, size)
       /\ StartSearch("realloc", size, p)
  /\ UNCHANGED live

\* Mutant: nothing is copied.
CopyNothing == 0

OldSize == mem[Block(req.old)].size - Hdr

\* memcpy(np, ptr, oldsz)
CopyOld ==
  /\ pc = "taken"
  /\ req.kind = "realloc"
  /\ mem' = [a \in Addr |-> IF ptr <= a /\ a < ptr + OldSize
                            THEN mem[req.old + (a - ptr)] ELSE mem[a]]
  /\ live' = Handed
  /\ pc' = "copied"
  /\ UNCHANGED <<chunks, list, cur, req, ptr, blocks>>

FreeOld == pc = "copied" /\ Release(req.old)

-----------------------------------------------------------------------------
(* A client writes all of the memory it asked for. *)

WritesTo(p) == mem' = Fill(mem, p, p + live[p], Lookalike)

ClientWrites ==
  /\ pc = "idle"
  /\ \E p \in DOMAIN live : WritesTo(p)
  /\ UNCHANGED <<chunks, list, pc, cur, req, ptr, live, blocks>>

Call == CallMalloc \/ CallCalloc \/ CallFree \/ CallReallocInPlace
          \/ CallReallocMove \/ ClientWrites
Step == Skip \/ Take \/ Grow \/ OutOfMemory \/ ReturnMalloc \/ ReturnCalloc
          \/ Merge \/ CoalesceNext \/ CoalesceDone \/ CopyOld \/ FreeOld
Next == Call \/ Step

Spec == Init /\ [][Next]_vars
\* A call that has started goes on: the allocator is sequential code.
FairSpec == Spec /\ WF_vars(Step)

-----------------------------------------------------------------------------
(* Properties *)

TypeOK ==
  /\ mem \in [Addr -> Header]
  /\ chunks \subseteq [addr : Nat, size : Nat]
  /\ list \in Seq(Addr)
  /\ pc \in {"idle", "search", "taken", "copied", "coalesce", "abort"}
  /\ cur \in Nat \ {0}
  /\ req \in [kind : {"none", "malloc", "calloc", "realloc"},
              size : Nat, need : Nat, old : Nat]
  /\ ptr \in Nat
  /\ blocks \subseteq Addr
  /\ DOMAIN live \subseteq Addr
  /\ \A p \in DOMAIN live : live[p] \in Nat

\* The blocks tile every chunk up to its trailer: each header is intact, ends
\* where the next one starts, and none overlaps another.
Tiling ==
  /\ \A b \in blocks : mem[b].size >= MinBlock /\ mem[b].canary = 1
  /\ \A b \in blocks : \E c \in chunks :
       /\ c.addr <= b
       /\ NextBlock(b) <= EndOf(c)
       /\ NextBlock(b) = EndOf(c) \/ NextBlock(b) \in blocks
  /\ \A b, d \in blocks : b < d => NextBlock(b) <= d
  /\ \A c \in chunks : c.addr \in blocks

\* The free list holds each free block once, and nothing else.
FreeListExact ==
  /\ \A i, j \in DOMAIN list : list[i] = list[j] => i = j
  /\ \A i \in DOMAIN list : list[i] \in blocks /\ mem[list[i]].used = 0
  /\ \A b \in blocks : mem[b].used = 0 => \E i \in DOMAIN list : list[i] = b

\* Two neighbours are never both free once a call is over: free's scan, which
\* starts over after each merge, has found every pair.
NoAdjacentFree ==
  pc # "coalesce" =>
    \A b \in blocks : mem[b].used = 0 /\ NextBlock(b) \in blocks
                        => mem[NextBlock(b)].used = 1

\* The used blocks are those clients hold (no leak, also when realloc or mmap
\* fails), each with room for what was asked.
LiveExact ==
  /\ \A p \in DOMAIN live :
       /\ Block(p) \in blocks
       /\ mem[Block(p)].used = 1
       /\ p + live[p] <= NextBlock(Block(p))
  /\ \A b \in blocks : mem[b].used = 1 =>
       b + Hdr \in DOMAIN live \/ (pc = "taken" /\ b + Hdr = ptr)

\* Clients that free what they got never trip free's assertions.
NoAbort == pc # "abort"

\* What clients see: their allocations never overlap.
LiveDisjoint ==
  \A p, q \in DOMAIN live : p < q => p + live[p] <= q

\* When everything has been freed every chunk is one free block again.
AllFreeIsWhole ==
  pc = "idle" /\ DOMAIN live = {} =>
    blocks = {c.addr : c \in chunks}

\* The allocator never writes to memory a client holds; realloc keeps what the
\* client stored in the old block.
DataKept ==
  [][/\ \A p \in DOMAIN live \intersect DOMAIN live' :
          WritesTo(p) \/ \A a \in p..(p + live[p] - 1) : mem'[a] = mem[a]
     /\ pc = "taken" /\ pc' = "copied" =>
          \A k \in 0..(live[req.old] - 1) : mem'[ptr + k] = mem[req.old + k]]_vars

\* Every call returns: the search and the restarting scan of free terminate.
CallsReturn == (pc # "idle") ~> (pc = "idle")

(* What makes the properties above inductive: where the chunks and their      *)
(* trailers are, what the call in progress relies on, and that the scan of    *)
(* free has left no mergeable pair behind it.                                 *)
ChunksApart ==
  /\ \A c \in chunks : /\ c.addr + c.size <= Limit
                       /\ c.size >= MinBlock + Meta
                       /\ mem[EndOf(c)].canary = 0
  /\ \A c, d \in chunks : c = d \/ c.addr + c.size <= d.addr \/ d.addr + d.size <= c.addr

CallInv ==
  /\ pc \in {"search", "taken"} => /\ req.need >= MinBlock
                                  /\ req.need >= req.size + Hdr
                                  /\ req.need + Hdr + Meta + ChunkSize <= Word
  /\ pc = "copied" => req.kind = "realloc"
  /\ req.kind = "realloc" =>
       /\ req.old \in DOMAIN live
       /\ pc \in {"search", "taken"} => mem[Block(req.old)].size <= req.need
  /\ pc = "taken" => /\ Block(ptr) \in blocks
                     /\ mem[Block(ptr)].used = 1
                     /\ mem[Block(ptr)].size >= req.need
                     /\ ptr \notin DOMAIN live

ScanInv ==
  pc = "coalesce" =>
    \A i \in DOMAIN list : i < cur => ~Mergeable(NextBlock(list[i]))

HeapInv ==
  /\ TypeOK /\ Tiling /\ ChunksApart /\ FreeListExact /\ LiveExact
  /\ CallInv /\ ScanInv /\ NoAdjacentFree /\ NoAbort

\* No request is so large that its size wraps around.
NoWrap ==
  \A size \in Requests : size + Align + 2 * Hdr + Meta + ChunkSize <= Word
=============================================================================
