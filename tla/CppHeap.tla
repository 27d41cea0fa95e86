------------------------------- MODULE CppHeap -------------------------------
(***************************************************************************)
(* The cppgc heap of WASMv8bindings: bump allocation in a linear buffer    *)
(* (LAB) refilled from a bucketed free list or a new page, large objects   *)
(* in blocks of their own, Persistent and WeakPersistent handles in node   *)
(* regions, Member and WeakMember fields, and the atomic mark-sweep that   *)
(* runs on request or when no page can be had.                             *)
(*                                                                         *)
(* Sizes are in allocation granules: a header is one granule, a free-list  *)
(* entry two.  mem maps an address to the header written there; bytes that *)
(* hold no header anybody may read are left out of its domain.             *)
(***************************************************************************)
EXTENDS Cage

CONSTANTS PageSize,       \* kPageSize
          OsPages,        \* addresses operator new may return for a page
          Objects,        \* identities of the objects a run may allocate
          Sizes,          \* type -> allocation size of its objects
          StrongHandles, WeakHandles,
          SlabSize,       \* nodes of a PersistentNodeSlots (256 in the code)
          InitialLimit    \* GCInfoTable::kInitialWantedLimit

Types == DOMAIN Sizes
Handles == StrongHandles \cup WeakHandles
PayloadSize == PageSize - 1
LargeObjectSizeThreshold == PageSize \div 2
EntrySize == 2

CONSTANTS None

ASSUME HeapAssumption ==
  /\ PageSize \in Nat /\ PageSize >= 4
  /\ \A t \in Types : Sizes[t] >= EntrySize
  /\ None \notin Objects \cup Handles

VARIABLES client,      \* which client of the heap this run follows
          heap,        \* the fields of internal::Heap
          infos,       \* the GCInfoTable: [limit, entries, index of each type]
          objs,        \* typeOf, Member and WeakMember fields, finalizers run
          val, node,   \* value_ and node_ of each handle
          phase        \* "live", "oom" (aborted) or "gone"

heapVars == <<client, heap, infos, objs, val, node, phase>>
allVars == <<cageVars, heapVars>>

\* Sandbox::current() != nullptr
sandboxed == client = "caged"

-----------------------------------------------------------------------------
(* FreeList *)

BucketIndexForSize(size) == CHOOSE n \in 0 .. PageSize : 2 ^ n <= size /\ size < 2 ^ (n + 1)

Buckets == 0 .. BucketIndexForSize(PageSize)
NoEntries == [i \in Buckets |-> <<>>]

FreeHeader(size) == [index |-> 0, size |-> size, mark |-> FALSE, obj |-> None]

\* The headers that a block written over [at, at + size) leaves readable.
Outside(mem, at, size) ==
  [a \in DOMAIN mem \ (at .. at + size - 1) |-> mem[a]]

\* FreeList::Add: less than an Entry becomes a Filler, walkable but lost.
Add(h, block) ==
  LET i == BucketIndexForSize(block.size)
      g == [h EXCEPT !.mem = Outside(h.mem, block.at, block.size)
                               @@ (block.at :> FreeHeader(block.size))]
  IN  IF block.size < EntrySize THEN g
      ELSE [g EXCEPT !.list[i] = <<block.at>> \o @,
                     !.biggest = IF i > @ THEN i ELSE @]

\* FreeList::Allocate: the head of the biggest non-empty bucket; in the last
\* bucket that could do, only the head is looked at.
Suits(h, i, size) ==
  /\ h.list[i] # <<>>
  /\ size > 2 ^ i => h.mem[Head(h.list[i])].size >= size

FreeListAllocate(h, size) ==
  LET stops == {i \in 1 .. h.biggest : size > 2 ^ i \/ h.list[i] # <<>>}
      i == IF stops = {} THEN 0 ELSE CHOOSE n \in stops : \A m \in stops : m <= n
  IN  IF i > 0 /\ Suits(h, i, size)
      THEN [heap |-> [h EXCEPT !.list[i] = Tail(@), !.biggest = i],
            block |-> [at |-> Head(h.list[i]), size |-> h.mem[Head(h.list[i])].size]]
      ELSE [heap |-> [h EXCEPT !.biggest = i], block |-> NoBuffer]

FreeListClear(h) == [h EXCEPT !.list = NoEntries, !.biggest = 0]

-----------------------------------------------------------------------------
(* The linear allocation buffer *)

\* Mutant: what is left of the old buffer is forgotten.
ReplaceLABForgets(h, block) == [h EXCEPT !.lab = block, !.mem = Outside(@, block.at, block.size)]

\* ReplaceLinearAllocationBuffer: what is left of the old one is a free entry.
ReplaceLAB(h, block) ==
  LET g == IF h.lab.size > 0 THEN Add(h, h.lab) ELSE h
  IN  [g EXCEPT !.lab = block, !.mem = Outside(@, block.at, block.size)]

NoLAB == NoBuffer

\* NormalPage::Create: an aligned page of the cage, or operator new.
CreatePage(h, c) ==
  IF sandboxed THEN TryAllocate(c, PageSize, PageSize)
  ELSE [at |-> IF OsPages \subseteq ToSet(h.pages) THEN NullAddress
               ELSE CHOOSE p \in OsPages \ ToSet(h.pages) : TRUE,
        cage |-> c]

\* RefillLinearAllocationBuffer
Refill(h, c, size) ==
  LET found == FreeListAllocate(h, size)
      page == CreatePage(h, c)
  IN  IF found.block # NoBuffer
      THEN [ok |-> TRUE, heap |-> ReplaceLAB(found.heap, found.block), cage |-> c]
      ELSE [ok |-> page.at # NullAddress, cage |-> page.cage,
            heap |-> IF page.at = NullAddress THEN found.heap
                     ELSE ReplaceLAB([found.heap EXCEPT !.pages = Append(@, page.at)],
                                     [at |-> page.at, size |-> PayloadSize])]

-----------------------------------------------------------------------------
(* PersistentRegion *)

NoRegion == [owner |-> <<>>, list |-> <<>>]

\* The slab's nodes are linked one after the other, the last one first.
RefillFreeList(r) ==
  LET n == Len(r.owner)
  IN  [owner |-> r.owner \o [i \in 1 .. SlabSize |-> None],
       list |-> Reverse([i \in 1 .. SlabSize |-> n + i]) \o r.list]

AllocateNode(r, h) ==
  LET g == IF r.list # <<>> THEN r ELSE RefillFreeList(r)
  IN  [node |-> Head(g.list),
       region |-> [owner |-> [g.owner EXCEPT ![Head(g.list)] = h],
                   list |-> Tail(g.list)]]

FreeNode(r, n) == [owner |-> [r.owner EXCEPT ![n] = None], list |-> <<n>> \o r.list]

UsedNodes(r) == {n \in DOMAIN r.owner : r.owner[n] # None}

\* Iterate rebuilds the free list from the unused nodes, the last one first.
Iterated(r) ==
  [r EXCEPT !.list = Reverse(SetToSortSeq(DOMAIN r.owner \ UsedNodes(r), <))]

Kind(h) == IF h \in StrongHandles THEN "strong" ELSE "weak"
-----------------------------------------------------------------------------
(* Marking *)

MarkedObjects(h) ==
  {h.mem[a].obj : a \in {b \in DOMAIN h.mem : h.mem[b].mark}}
    \cup {h.large[i].obj : i \in {j \in DOMAIN h.large : h.large[j].mark}}

\* MarkingVisitor::Visit and RunToFixpoint: TryMarkAtomic lets an object be
\* traced once, and not at all when its mark bit is already set.
Traced(h, o, roots) ==
  LET t[n \in 0 .. Cardinality(Objects)] ==
        IF n = 0 THEN roots \ MarkedObjects(h)
        ELSE t[n - 1] \cup ({o.next[x] : x \in t[n - 1]} \ (MarkedObjects(h) \cup {None}))
  IN  t[Cardinality(Objects)]

\* Node::Trace calls Get() on the handle that owns the node.
Roots(r) == {val[r.owner[n]] : n \in UsedNodes(r)} \ {None}

\* Heap::Mark: strong roots to a fixpoint, then every weak edge that was met is
\* judged by the mark bit of its target.
Mark(s) ==
  LET traced == Traced(s.heap, s.objs, Roots(s.heap.strong))
      marked == MarkedObjects(s.heap) \cup traced
      weakly == {s.heap.weak.owner[n] : n \in UsedNodes(s.heap.weak)}
  IN  [s EXCEPT
        !.heap.mem = [a \in DOMAIN @ |-> [@[a] EXCEPT !.mark = @ \/ s.heap.mem[a].obj \in traced]],
        !.heap.large = [i \in DOMAIN @ |-> [@[i] EXCEPT !.mark = @ \/ s.heap.large[i].obj \in traced]],
        !.heap.strong = Iterated(@),
        !.heap.weak = Iterated(@),
        !.objs.weak = [x \in Objects |-> IF x \in traced /\ @[x] \notin marked THEN None ELSE @[x]],
        !.val = [h \in Handles |-> IF h \in weakly /\ @[h] \notin marked THEN None ELSE @[h]]]

-----------------------------------------------------------------------------
(* Sweeping *)

\* The chain of headers of a page, from PayloadStart to PayloadEnd.
Walk(mem, page) ==
  LET w[a \in page .. page + PageSize] ==
        IF a >= page + PayloadSize \/ a \notin DOMAIN mem THEN <<>>
        ELSE <<a>> \o w[a + mem[a].size]
  IN  w[page]

\* HeapObjectHeader::Finalize: the finalizer the table holds at the index.
\* The fields go with the object.
Finalize(o, headers) ==
  LET gone == {f.obj : f \in headers}
      fields(m) == [x \in Objects |-> IF x \in gone THEN None ELSE m[x]]
  IN  [type |-> o.type, next |-> fields(o.next), weak |-> fields(o.weak),
       ran |-> [x \in Objects |-> o.ran[x] \o SetToSeq({infos.entries[f.index] : f \in {g \in headers : g.obj = x}})]]

IsFree(header) == header.index = 0

\* SweepNormalPage stages the maximal runs of dead and free blocks.
Staged(mem, page) ==
  LET chain == Walk(mem, page)
      dead == {i \in DOMAIN chain : ~mem[chain[i]].mark}
      starts == {i \in dead : i = 1 \/ i - 1 \notin dead}
      stop(i) == IF \E j \in DOMAIN chain : j > i /\ j \notin dead
                 THEN chain[CHOOSE j \in DOMAIN chain :
                        j > i /\ j \notin dead /\ \A k \in i .. j - 1 : k \in dead]
                 ELSE page + PayloadSize
  IN  [runs |-> SetToSortSeq({[at |-> chain[i], size |-> stop(i) - chain[i]] : i \in starts}, ByOffset),
       live |-> {chain[i] : i \in DOMAIN chain \ dead},
       dying |-> {mem[chain[i]] : i \in {j \in dead : ~IsFree(mem[chain[j]])}}]

\* NormalPage::Destroy gives the bytes back unless they are the cage's; a page
\* that survives gets its runs added to the list, the others do not.
SweepPage(s, page) ==
  LET st == Staged(s.heap.mem, page)
      swept == [s EXCEPT !.objs = Finalize(@, st.dying)]
      unmarked == [a \in DOMAIN s.heap.mem |->
                     [s.heap.mem[a] EXCEPT !.mark = @ /\ a \notin st.live]]
  IN  IF st.live = {}
      THEN [swept EXCEPT !.heap.mem = Outside(@, page, PageSize)]
      ELSE [swept EXCEPT !.heap = FoldLeft(Add, [@ EXCEPT !.mem = unmarked,
                                                          !.pages = Append(@, page)], st.runs)]

\* Mutant: large objects keep their mark bit.
SweepLargeMarked(s) ==
  LET kept == SelectSeq(s.heap.large, LAMBDA f : f.mark)
  IN  [s EXCEPT !.objs = Finalize(@, ToSet(s.heap.large) \ ToSet(kept)), !.heap.large = kept]

SweepLarge(s) ==
  LET kept == SelectSeq(s.heap.large, LAMBDA f : f.mark)
  IN  [s EXCEPT !.objs = Finalize(@, ToSet(s.heap.large) \ ToSet(kept)),
                !.heap.large = [i \in DOMAIN kept |-> [kept[i] EXCEPT !.mark = FALSE]]]

\* Heap::Sweep flushes the LAB and rebuilds the free list from nothing.
Sweep(s) ==
  LET flushed == FreeListClear(ReplaceLAB(s.heap, NoLAB))
      start == [s EXCEPT !.heap = [flushed EXCEPT !.pages = <<>>]]
  IN  SweepLarge(FoldLeft(SweepPage, start, flushed.pages))

\* RunGcJob: PostJob runs a user-blocking job at once and completes it, so
\* that the Join that follows does not run the phase a second time.
CollectGarbage(s) == Sweep(Mark(s))

-----------------------------------------------------------------------------
(* Allocation *)

\* GCInfoTrait::Index and RegisterNewGCInfo: an index from 1 on, the table
\* doubled when it is full.
Resize(g) == [g EXCEPT !.limit = 2 * @]

RegisterNewGCInfo(g, t) ==
  IF g.index[t] # 0 THEN g
  ELSE LET r == IF Len(g.entries) + 1 = g.limit THEN Resize(g) ELSE g
       IN  [r EXCEPT !.entries = Append(@, t), !.index[t] = Len(g.entries) + 1]

State == [heap |-> heap, objs |-> objs, val |-> val]

\* AllocateNormal: refill when the LAB is too small, collect and refill once
\* more when that fails, and give up.  A sandboxed page that the cage cannot
\* supply aborts in Sandbox::Allocate, before any collection.
AfterRefill(s, r) == [ok |-> r.ok, s |-> [s EXCEPT !.heap = r.heap], cage |-> r.cage]
Refilled(s, size) == AfterRefill(s, Refill(s.heap, cage, size))
OrCollected(first, size) ==
  IF first.ok \/ sandboxed THEN first ELSE Refilled(CollectGarbage(first.s), size)
Prepared(size) ==
  IF heap.lab.size >= size THEN [ok |-> TRUE, s |-> State, cage |-> cage]
  ELSE OrCollected(Refilled(State, size), size)

Bump(h, header) ==
  [h EXCEPT !.mem = @ @@ (h.lab.at :> header),
            !.lab = [at |-> @.at + header.size, size |-> @.size - header.size]]

\* The result becomes the value of a Persistent: BasicPersistent::Assign.
Assigned(s, h, o) ==
  LET freed == IF node[h] = 0 THEN s.heap[Kind(h)] ELSE FreeNode(s.heap[Kind(h)], node[h])
      got == AllocateNode(freed, h)
  IN  [s |-> [s EXCEPT !.val[h] = o,
                       !.heap = [@ EXCEPT ![Kind(h)] = IF o = None THEN freed ELSE got.region]],
       node |-> [node EXCEPT ![h] = IF o = None THEN 0 ELSE got.node]]

Becomes(r) ==
  /\ heap' = r.s.heap /\ objs' = r.s.objs /\ val' = r.s.val /\ node' = r.node

\* Heap::Allocate: a large object has a block of its own.
Bumped(p, header) == IF p.ok THEN [p EXCEPT !.s.heap = Bump(@, header)] ELSE p
Allocate(header) ==
  IF header.size >= LargeObjectSizeThreshold
  THEN [ok |-> TRUE, s |-> [State EXCEPT !.heap.large = Append(@, header)], cage |-> cage]
  ELSE Bumped(Prepared(header.size), header)

\* Persistent<T> h = MakeGarbageCollected<T>(...)
MakeIn(p, h, o, t) ==
  IF p.ok THEN Becomes(Assigned([p.s EXCEPT !.objs.type[o] = t], h, o)) /\ cage' = p.cage /\ UNCHANGED phase
  ELSE phase' = "oom" /\ UNCHANGED <<heap, objs, val, node, cage>>
Make(h, o, t) ==
  LET g == RegisterNewGCInfo(infos, t)
  IN  /\ phase = "live" /\ objs.type[o] = None
      /\ infos' = g
      /\ MakeIn(Allocate([index |-> g.index[t], size |-> Sizes[t], mark |-> FALSE, obj |-> o]), h, o, t)
      /\ UNCHANGED <<client, buffers>>

-----------------------------------------------------------------------------
(* Handles, members and collections *)

\* Copy construction and assignment; nullptr and Clear free the node.
AssignHandle(h, o) ==
  /\ phase = "live" /\ (o = None => node[h] # 0)
  /\ Becomes(Assigned(State, h, o))
  /\ UNCHANGED <<client, infos, phase, cageVars>>

\* Mutant: the node still names the old owner.
MoveHandleOwnerless(h, g) ==
  /\ phase = "live" /\ Kind(h) = Kind(g) /\ node[h] = 0 /\ node[g] # 0
  /\ val' = [val EXCEPT ![h] = val[g], ![g] = None]
  /\ node' = [node EXCEPT ![h] = node[g], ![g] = 0]
  /\ UNCHANGED <<client, heap, infos, objs, phase, cageVars>>

\* Move construction: the node now names the new owner.
MoveHandle(h, g) ==
  /\ phase = "live" /\ Kind(h) = Kind(g) /\ node[h] = 0 /\ node[g] # 0
  /\ val' = [val EXCEPT ![h] = val[g], ![g] = None]
  /\ node' = [node EXCEPT ![h] = node[g], ![g] = 0]
  /\ heap' = [heap EXCEPT ![Kind(h)].owner[node[g]] = h]
  /\ UNCHANGED <<client, infos, objs, phase, cageVars>>

\* BasicMember::operator= through a handle: the write barrier does nothing.
SetMember(h, field, o) ==
  /\ phase = "live" /\ val[h] # None
  /\ objs' = [objs EXCEPT ![field][val[h]] = o]
  /\ UNCHANGED <<client, heap, infos, val, node, phase, cageVars>>

ForceGarbageCollectionSlow ==
  /\ phase = "live"
  /\ Becomes([s |-> CollectGarbage(State), node |-> node])
  /\ UNCHANGED <<client, infos, phase, cageVars>>

\* ~Heap finalizes whatever is left.  Its regions die with it, so the client
\* destroys its handles first.
DestroyHeap ==
  LET flushed == ReplaceLAB(heap, NoLAB)
      left == UNION {{flushed.mem[a] : a \in ToSet(Walk(flushed.mem, p))} : p \in ToSet(heap.pages)}
  IN  /\ phase = "live" /\ \A h \in Handles : node[h] = 0
      /\ objs' = Finalize(objs, {f \in left : ~IsFree(f)} \cup ToSet(heap.large))
      /\ heap' = [FreeListClear(heap) EXCEPT !.mem = <<>>, !.pages = <<>>, !.large = <<>>, !.lab = NoLAB]
      /\ phase' = "gone"
      /\ UNCHANGED <<client, infos, val, node, cageVars>>

Buffer ==
  /\ sandboxed /\ phase = "live"
  /\ \E v \in Containers : DeallocateBuffer(v) \/ \E n \in BufferSizes : AllocateBuffer(v, n)
  /\ UNCHANGED heapVars

\* An object the client can still name.
Held == {val[h] : h \in Handles} \ {None}
NextObject == CHOOSE o \in Objects : objs.type[o] = None

Clients == {"shapes", "graph", "handles", "caged"}
HeapInit ==
  /\ CageInit
  /\ client \in Clients
  /\ heap = [pages |-> <<>>, mem |-> <<>>, list |-> NoEntries, biggest |-> 0, lab |-> NoLAB,
             large |-> <<>>, strong |-> NoRegion, weak |-> NoRegion]
  /\ infos = [limit |-> InitialLimit, entries |-> <<>>, index |-> [t \in Types |-> 0]]
  /\ objs = [type |-> [o \in Objects |-> None], next |-> [o \in Objects |-> None],
             weak |-> [o \in Objects |-> None], ran |-> [o \in Objects |-> <<>>]]
  /\ val = [h \in Handles |-> None] /\ node = [h \in Handles |-> 0]
  /\ phase = "live"

\* What each client of the heap does: it churns through types, builds a graph,
\* copies and moves handles, or shares the cage with containers.
Made == {o \in Objects : objs.type[o] # None}

MakeStep ==
  \E h \in StrongHandles, t \in Types :
    /\ Made # Objects
    /\ client = "caged" => h = CHOOSE g \in StrongHandles : TRUE
    /\ t \in CASE client = "shapes" -> {"leaf", "node"}
               [] client = "handles" -> {"leaf", "blob"}
               [] client = "graph" -> {"leaf"}
               [] client = "caged" -> {"node"}
    /\ client \in {"handles", "graph"} => Cardinality(Made) < Cardinality(StrongHandles) + 1
    /\ client = "caged" => Cardinality(Made) < 2  \* pages never leave the cage
    /\ Make(h, NextObject, t)

HandleStep ==
  \/ \E h \in Handles : AssignHandle(h, None)
  \/ /\ client \in {"graph", "handles"}
     /\ \E h \in IF client = "graph" THEN StrongHandles ELSE Handles, o \in Held :
          val[h] # o /\ AssignHandle(h, o)
  \/ client = "handles" /\ \E h, g \in Handles : MoveHandle(h, g)

MemberStep ==
  /\ client = "graph"
  /\ \E h, g \in StrongHandles, field \in {"next", "weak"} :
       val[g] # None /\ SetMember(h, field, val[g])

HeapNext ==
  \/ MakeStep
  \/ HandleStep
  \/ MemberStep
  \/ ForceGarbageCollectionSlow
  \/ DestroyHeap
  \/ Buffer

HeapSpec == HeapInit /\ [][HeapNext]_allVars

-----------------------------------------------------------------------------
(* Properties *)

Alive == ({heap.mem[a].obj : a \in DOMAIN heap.mem} \ {None})
           \cup {heap.large[i].obj : i \in DOMAIN heap.large}
Reachable == Traced([heap EXCEPT !.mem = <<>>, !.large = <<>>], objs, {val[h] : h \in StrongHandles} \ {None})

\* Blocks of every page, its objects, free entries, fillers and the LAB, tile the
\* payload without gap or overlap, so that a page can be walked header by header
\* (the comments on ReplaceLinearAllocationBuffer and SweepNormalPage).
PagesAreWalkable ==
  \A p \in ToSet(heap.pages) :
    LET blocks == {[at |-> a, size |-> heap.mem[a].size] : a \in {b \in DOMAIN heap.mem : b \in p .. p + PageSize - 1}}
                    \cup (IF heap.lab.size > 0 /\ heap.lab.at \in p .. p + PageSize - 1 THEN {heap.lab} ELSE {})
    IN  /\ UNION {Span(b) : b \in blocks} = p .. p + PayloadSize - 1
        /\ \A b, c \in blocks : b # c => Span(b) \cap Span(c) = {}

\* The free list names exactly the free blocks of live pages that can hold an
\* entry, each once, in the bucket of its size and none above the biggest index:
\* no entry points into a destroyed page and none is lost.
FreeListIsExact ==
  LET listed == UNION {ToSet(heap.list[i]) : i \in Buckets}
  IN  /\ listed = {a \in DOMAIN heap.mem : IsFree(heap.mem[a]) /\ heap.mem[a].size >= EntrySize}
      /\ \A i \in Buckets : \A k \in DOMAIN heap.list[i] :
           /\ BucketIndexForSize(heap.mem[heap.list[i][k]].size) = i /\ i <= heap.biggest
           /\ \A j \in Buckets : \A l \in DOMAIN heap.list[j] :
                heap.list[j][l] = heap.list[i][k] => <<i, k>> = <<j, l>>

\* No handle and no field of a reachable object names an object that was
\* finalized: strong paths keep their targets, weak ones are cleared.
NoDanglingReference ==
  phase = "live" =>
    /\ Held \subseteq Alive
    /\ \A o \in Reachable : {o, objs.next[o], objs.weak[o]} \ {None} \subseteq Alive

\* An object is in the heap or has had the finalizer of its own type run, once.
FinalizedOnce ==
  \A o \in Objects : objs.type[o] # None =>
    objs.ran[o] = IF o \in Alive THEN <<>> ELSE <<objs.type[o]>>

\* The nodes of a region are those its handles hold, each owned by the handle
\* that holds it, and the free list holds the others, each once.
RegionsAreExact ==
  \A k \in {"strong", "weak"} :
    LET r == heap[k] IN
    /\ \A n \in DOMAIN r.owner : r.owner[n] # None => node[r.owner[n]] = n /\ Kind(r.owner[n]) = k
    /\ \A h \in Handles : node[h] # 0 /\ Kind(h) = k => r.owner[node[h]] = h
    /\ ToSet(r.list) = DOMAIN r.owner \ UsedNodes(r) /\ IsInjective(r.list)

\* The two halves of the page bookkeeping, which the sweeper and the allocator
\* each rely on (SweepNormalPage walks, FreeList::Allocate pops).
PagesAreExact == PagesAreWalkable /\ FreeListIsExact

\* What a client of Persistent, WeakPersistent, Member and WeakMember relies on:
\* objects live as long as they are reachable, die once, and handles that are
\* assigned, copied, moved and cleared in any order keep their nodes apart.
LifetimesAreExact == NoDanglingReference /\ FinalizedOnce /\ RegionsAreExact

\* A collection finalizes everything that no strong handle reaches and nothing
\* else, whether asked for or started by an allocation that found no page.
CollectsExactlyGarbage ==
  [][/\ heap'.lab = NoLAB /\ node' = node /\ ForceGarbageCollectionSlow => Alive' = Reachable
     /\ phase' = "live" /\ ~(Alive \subseteq Alive') => Alive \cap Alive' = Reachable]_allVars

\* Pages and container buffers of one cage never overlap, and neither overlaps a
\* free block; the free list is sorted and coalesced.
CageIsPartitioned ==
  LET f == cage.freeBlocks
      pages == IF sandboxed THEN {[at |-> p, size |-> PageSize] : p \in ToSet(heap.pages)} ELSE {}
      used == pages \cup {buffers[v] : v \in {u \in Containers : buffers[u] # NoBuffer}}
  IN  /\ \A i \in 1 .. Len(f) - 1 : f[i].at + f[i].size < f[i + 1].at
      /\ \A i \in DOMAIN f, b \in used : Span(f[i]) \cap Span(b) = {}
      /\ \A b, c \in used : b # c => Span(b) \cap Span(c) = {}
      /\ \A b \in used \cup ToSet(f) : Span(b) \subseteq Base .. Base + cage.bump - 1
=============================================================================
