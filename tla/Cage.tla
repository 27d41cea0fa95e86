-------------------------------- MODULE Cage --------------------------------
(***************************************************************************)
(* The memory cage of WASMSafeSpace: Sandbox hands out byte ranges of one  *)
(* reservation, first from an address-sorted, coalescing free list, then   *)
(* by bumping an offset.  CageAllocator puts container bytes in it and     *)
(* falls back to operator new when no sandbox is current; cppgc takes its  *)
(* pages from it (CppHeap).  Addresses are absolute: the reservation       *)
(* starts at Base, which the host does not align.                          *)
(***************************************************************************)
EXTENDS Integers, Sequences, FiniteSets, SequencesExt

CONSTANTS Base, CageSize, Containers, BufferSizes

ASSUME CageAssumption == Base \in Nat /\ CageSize \in Nat \ {0} /\ BufferSizes \subseteq Nat \ {0}

NullAddress == -1

AlignUp(v, alignment) == ((v + alignment - 1) \div alignment) * alignment

\* Sandbox::Initialize: bump_offset_ = 0, free_list_.clear().
Initialized == [bump |-> 0, freeBlocks |-> <<>>]

InCage(at) == at \in Base .. Base + CageSize - 1

ByOffset(a, b) == a.at < b.at

\* Mutant: the gap in front of the aligned address is not counted.
FitsUnaligned(b, size, alignment) == size <= b.size

Fits(b, size, alignment) == AlignUp(b.at, alignment) - b.at + size <= b.size

\* First fit; what is left on either side of the carved span goes back.
AllocateFromFreeList(c, size, alignment) ==
  LET i == CHOOSE i \in DOMAIN c.freeBlocks :
             /\ Fits(c.freeBlocks[i], size, alignment)
             /\ \A j \in 1 .. i - 1 : ~Fits(c.freeBlocks[j], size, alignment)
      b == c.freeBlocks[i]
      at == AlignUp(b.at, alignment)
      head == [at |-> b.at, size |-> at - b.at]
      tail == [at |-> at + size, size |-> b.at + b.size - at - size]
      left == SelectSeq(<<head, tail>>, LAMBDA r : r.size > 0)
  IN  [at |-> at,
       cage |-> [c EXCEPT !.freeBlocks = SortSeq(RemoveAt(@, i) \o left, ByOffset)]]

\* Bump allocation aligns the absolute address; the gap it skips is not kept.
TryAllocate(c, size, alignment) ==
  IF \E i \in DOMAIN c.freeBlocks : Fits(c.freeBlocks[i], size, alignment)
  THEN AllocateFromFreeList(c, size, alignment)
  ELSE LET at == AlignUp(Base + c.bump, alignment)
       IN  IF at + size > Base + CageSize
           THEN [at |-> NullAddress, cage |-> c]
           ELSE [at |-> at, cage |-> [c EXCEPT !.bump = at + size - Base]]

\* Insert address-sorted, then coalesce with the next and the previous block.
Coalesce(blocks, i) ==
  IF i \in 1 .. Len(blocks) - 1 /\ blocks[i].at + blocks[i].size = blocks[i + 1].at
  THEN RemoveAt([blocks EXCEPT ![i].size = @ + blocks[i + 1].size], i + 1)
  ELSE blocks

Free(c, at, size) ==
  LET n == Cardinality({i \in DOMAIN c.freeBlocks : c.freeBlocks[i].at < at})
      inserted == InsertAt(c.freeBlocks, n + 1, [at |-> at, size |-> size])
  IN  [c EXCEPT !.freeBlocks = Coalesce(Coalesce(inserted, n + 1), n)]

(***************************************************************************)
(* Client of the cage: containers (CageVector, CageBytes) that hold one    *)
(* buffer each.  A buffer allocated while no sandbox is current is the     *)
(* process heap's and is not followed.                                     *)
(***************************************************************************)
VARIABLES cage, buffers

cageVars == <<cage, buffers>>

NoBuffer == [at |-> NullAddress, size |-> 0]

\* CageAllocator::allocate; exhaustion is fatal (Sandbox::Allocate CHECKs),
\* so a full cage has no successor here.
AllocateBuffer(v, size) ==
  LET r == TryAllocate(cage, size, 1)
  IN  /\ buffers[v] = NoBuffer
      /\ r.at # NullAddress
      /\ cage' = r.cage
      /\ buffers' = [buffers EXCEPT ![v] = [at |-> r.at, size |-> size]]

\* CageAllocator::deallocate: whose it is, is asked again at free time.
DeallocateBuffer(v) ==
  /\ buffers[v] # NoBuffer
  /\ cage' = IF InCage(buffers[v].at)
             THEN Free(cage, buffers[v].at, buffers[v].size) ELSE cage
  /\ buffers' = [buffers EXCEPT ![v] = NoBuffer]

CageInit == cage = Initialized /\ buffers = [v \in Containers |-> NoBuffer]

Span(b) == b.at .. b.at + b.size - 1
=============================================================================
