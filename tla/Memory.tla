------------------------------- MODULE Memory -------------------------------
(***************************************************************************)
(* QUARK's memory: the buddy allocator of                                  *)
(* include/memory/allocators/Buddy.hpp behind Memory::init, alloc and free *)
(* (src/memory/Memory.cpp) and operator new (include/memory/Heap.hpp).     *)
(*                                                                         *)
(* Memory::spin_, taken with interrupts disabled, makes alloc and free     *)
(* atomic.  Addresses count from RamStart, which every machine aligns to   *)
(* the largest block.  A free list is the set of its blocks: which one is  *)
(* its head is left open.                                                  *)
(***************************************************************************)
EXTENDS Integers, FiniteSets

CONSTANTS
  Minimum,    \* Buddy's MINIMUM: log2 of the smallest block
  Order,      \* Buddy's MAXIMUM: log2 of the largest
  PageSize,
  RamEnd,
  Reserved,   \* chunks of kernel, boot and payload, as [start, size]
  Header,     \* sizeof(Heap::Header)
  Sizes,      \* sizes the program allocates
  MaxChunks   \* bound: chunks the program holds at a time

Maximum == Order - Minimum
Levels  == 0..Maximum
Ram     == 0..(RamEnd - 1)

ASSUME MemoryAssumption ==
  /\ Minimum \in Nat /\ Order \in Nat /\ Minimum <= Order
  /\ PageSize \in {2^k : k \in Minimum..Order}
  /\ RamEnd \in Nat /\ RamEnd > 0 /\ RamEnd % PageSize = 0
  /\ Reserved \subseteq [start : Nat, size : Nat]
  /\ Header \in Nat /\ Sizes \subseteq Nat \ {0} /\ MaxChunks \in Nat

VARIABLES
  free,     \* [Levels] Buddy::free_, the addresses of the free blocks
  page,     \* Memory::init's loop variable; negative when init is over
  used,     \* the chunks [start, size] the program holds
  failed    \* the size whose assert(chunk, "Out of Memory.") failed, or 0

vars == <<free, page, used, failed>>

\* Chunk::overlaps.
overlaps(c, d) == c.start < d.start + d.size /\ d.start < c.start + c.size

\* Buddy::log2ceil, bucket and buddy (address ^ size).
log2ceil(size) == CHOOSE l \in 0..size : 2^l >= size /\ \A m \in 0..(l - 1) : 2^m < size
bucket(size) == IF log2ceil(size) < Minimum THEN 0 ELSE log2ceil(size) - Minimum
BlockSize(n) == 2^(n + Minimum)
buddy(address, n) ==
  IF (address \div BlockSize(n)) % 2 = 0
  THEN address + BlockSize(n)
  ELSE address - BlockSize(n)

\* The address of the block of level n around an address.
Align(address, n) == address - (address % BlockSize(n))

Smallest(S) == CHOOSE x \in S : \A y \in S : x <= y

\* Mutant: the freed block is merged with at most one buddy.
MergeLevelOnce(address, n) ==
  IF n < Maximum /\ buddy(address, n) \in free[n] THEN n + 1 ELSE n

\* Buddy::insert merges up to the first level whose buddy is not free.
MergeLevel(address, n) ==
  Smallest({m \in n..Maximum :
              m = Maximum \/ buddy(Align(address, m), m) \notin free[m]})

\* Mutant: the merged block keeps the address of the freed one.
BuddyInsertKeepsAddress(address, size) ==
  LET n == bucket(size)
      m == MergeLevel(address, n)
  IN free' = [k \in Levels |->
                IF k \in n..(m - 1) THEN free[k] \ {buddy(Align(address, k), k)}
                ELSE IF k = m THEN free[k] \cup {address}
                ELSE free[k]]

\* Buddy::insert.
BuddyInsert(address, size) ==
  LET n == bucket(size)
      m == MergeLevel(address, n)
  IN free' = [k \in Levels |->
                IF k \in n..(m - 1) THEN free[k] \ {buddy(Align(address, k), k)}
                ELSE IF k = m THEN free[k] \cup {Align(address, m)}
                ELSE free[k]]

\* Mutant: larger blocks are not looked at.
FoundExact(size) == {i \in Levels : i = bucket(size) /\ free[i] # {}}

\* The levels where Buddy::remove finds a block.
Found(size) == {i \in Levels : i >= bucket(size) /\ free[i] # {}}

\* Buddy::remove: the head of the first non-empty level, split down.
BuddyRemove(size, node) ==
  LET n == bucket(size)
      i == Smallest(Found(size))
  IN /\ node \in free[i]
     /\ free' = [k \in Levels |->
                   IF k = i THEN free[k] \ {node}
                   ELSE IF k \in n..(i - 1) THEN free[k] \cup {buddy(node, k)}
                   ELSE free[k]]

-----------------------------------------------------------------------------
Init ==
  /\ free = [n \in Levels |-> {}]
  /\ page = RamEnd - PageSize
  /\ used = {}
  /\ failed = 0

\* One turn of Memory::init's loop, from the last page down.
InitPage ==
  /\ page >= 0
  /\ \/ /\ \E r \in Reserved : overlaps([start |-> page, size |-> PageSize], r)
        /\ UNCHANGED free
     \/ /\ \A r \in Reserved : ~overlaps([start |-> page, size |-> PageSize], r)
        /\ BuddyInsert(page, PageSize)
  /\ page' = page - PageSize
  /\ UNCHANGED <<used, failed>>

\* Memory::alloc after init.
Alloc(size) ==
  /\ page < 0 /\ failed = 0 /\ Cardinality(used) < MaxChunks
  /\ \/ /\ Found(size) # {}
        /\ \E node \in Ram :
             /\ BuddyRemove(size, node)
             /\ used' = used \cup {[start |-> node, size |-> size]}
        /\ UNCHANGED failed
     \/ /\ Found(size) = {}
        /\ failed' = size
        /\ UNCHANGED <<free, used>>
  /\ UNCHANGED page

\* operator new: a header in front of the object records the size.
New(size) == Alloc(size + Header)

\* Memory::free, and operator delete with the size its header recorded.
Free(chunk) ==
  /\ page < 0 /\ failed = 0 /\ chunk \in used
  /\ BuddyInsert(chunk.start, chunk.size)
  /\ used' = used \ {chunk}
  /\ UNCHANGED <<page, failed>>

\* A failed assert is final: the core loops, with spin_ held.
Halted == failed # 0 /\ UNCHANGED vars

Next ==
  \/ InitPage
  \/ \E size \in Sizes : Alloc(size) \/ New(size)
  \/ \E chunk \in used : Free(chunk)
  \/ Halted

Spec == Init /\ [][Next]_vars

-----------------------------------------------------------------------------
Units(address, n) == address..(address + BlockSize(n) - 1)

\* The units of a page that Memory::init gives to the allocator.
Usable == {u \in Ram :
             LET p == u - (u % PageSize)
             IN p > page /\ \A r \in Reserved :
                              ~overlaps([start |-> p, size |-> PageSize], r)}

FreeBlocks == {b \in Ram \X Levels : b[1] \in free[b[2]]}
UsedBlocks == {<<c.start, bucket(c.size)>> : c \in used}

\* Free and allocated blocks never overlap, and none is lost: together they
\* are exactly the pages that Memory::init found free, whatever was split
\* and merged since.  Each is aligned to its size, as Buddy::insert asserts.
BlocksPartitionMemory ==
  /\ \A b \in FreeBlocks \cup UsedBlocks : b[1] % BlockSize(b[2]) = 0
  /\ Cardinality(UsedBlocks) = Cardinality(used)
  /\ FreeBlocks \cap UsedBlocks = {}
  /\ \A b, d \in FreeBlocks \cup UsedBlocks :
       b # d => Units(b[1], b[2]) \cap Units(d[1], d[2]) = {}
  /\ UNION {Units(b[1], b[2]) : b \in FreeBlocks \cup UsedBlocks} = Usable

\* Two free buddies are always merged.
BuddiesMerged ==
  \A n \in 0..(Maximum - 1) : \A a \in free[n] : buddy(a, n) \notin free[n]

\* An allocation fails only when no aligned block of its size is free of
\* allocated chunks: past splits and merges never cost memory.
FailsOnlyWhenFull ==
  failed # 0 =>
    \A n \in Levels : n >= bucket(failed) =>
      \A a \in {x \in Ram : x % BlockSize(n) = 0} :
        ~(/\ Units(a, n) \subseteq Usable
          /\ \A c \in used : Units(a, n) \cap Units(c.start, bucket(c.size)) = {})
=============================================================================
