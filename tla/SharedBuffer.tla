---------------------------- MODULE SharedBuffer ----------------------------
(***************************************************************************)
(* Shared buffers and platform handles of HolePunch (core.cc,              *)
(* SharedBufferObj, PlatformObj, WhpCreateSharedBuffer to                  *)
(* WhpUnwrapPlatformSharedMemoryRegion): who owns an OS primitive (a file  *)
(* descriptor, a HANDLE or a Mach port), and how long mapped memory lives. *)
(*                                                                         *)
(* A buffer object is shared by the handles duplicated from one another    *)
(* and by the entries of Core::maps; its destructor runs when the last of  *)
(* them lets go, and closes the primitives it owns.  Every call is one     *)
(* locked section.  Contents and access modes are left out, and addresses  *)
(* are numbers: Size bytes for every buffer, one after the other.          *)
(***************************************************************************)
EXTENDS WhpCore

CONSTANTS
  Primitives,   \* OS primitives
  Size,         \* num_bytes of every buffer
  ZeroLength,   \* whether clients map zero bytes
  NullArray,    \* whether clients unwrap a region and pass no array for its primitives
  UnwrapTwice,  \* whether clients unwrap two duplicates of one region
  MaxHandles,   \* bound on the handle table
  MaxBuffers,   \* bound on the buffer objects ever created
  MaxMaps       \* bound on the mappings a client has at a time

ASSUME SharedBufferAssumption ==
  /\ Size \in Nat \ {0}
  /\ {ZeroLength, NullArray, UnwrapTwice} \subseteq BOOLEAN
  /\ {MaxHandles, MaxBuffers, MaxMaps} \subseteq Nat

VARIABLES
  table,   \* Core::Get()
  buffer,  \* the SharedBufferObjs ever made: plat_values, plat_owns
  maps,    \* Core::maps, from addresses to buffer and refs
  holder,  \* who has each primitive: "client", "core" or, once closed, "nobody"
  views    \* how often the client has mapped each <<buffer, offset>>

bufferVars == <<table, buffer, maps, holder, views>>

Address(b, offset) == (b - 1) * Size + offset
Offsets == 0..Size
Buffers == 1..MaxBuffers

BufferInit ==
  /\ table = InitCore
  /\ buffer = <<>>
  /\ maps = [a \in {} |-> 0]
  /\ holder = [v \in Primitives |-> "client"]
  /\ views = [x \in Buffers \X Offsets |-> 0]

Room == table.free_list # <<>> \/ Len(table.slots) < MaxHandles

BufferOf(h) == table.slots[h].obj.buffer

-----------------------------------------------------------------------------
(* The lifetime of a buffer object.                                        *)

\* The buffers that a handle of core c or an entry of mp refers to.
Referenced(c, mp) ==
  {c.slots[h].obj.buffer : h \in {x \in DOMAIN c.slots : IsA(c, x, "SharedBuffer")}}
  \cup {mp[a].buf : a \in DOMAIN mp}

\* CloseNativePlatform of the primitives in vs.
Closed(vs) ==
  [v \in Primitives |->
     IF v \notin vs THEN holder[v]
     ELSE IF holder[v] = "core" THEN "nobody" ELSE "closed by mistake"]

\* What ~SharedBufferObj closes when handles and mappings become c and mp.
DiesWith(c, mp) ==
  UNION {buffer[b].plat_values :
           b \in {x \in Referenced(table, maps) \ Referenced(c, mp) : buffer[x].plat_owns}}

-----------------------------------------------------------------------------
NewBuffer(values, owns) ==
  /\ Len(buffer) < MaxBuffers /\ Room
  /\ buffer' = Append(buffer, [plat_values |-> values, plat_owns |-> owns])
  /\ table' = Alloc(table, "SharedBuffer",
                   [id |-> <<Len(buffer) + 1>>, buffer |-> Len(buffer) + 1])

WhpCreateSharedBuffer ==
  /\ NewBuffer({}, FALSE)
  /\ UNCHANGED <<maps, holder, views>>

\* Takes one or two primitives from the client.
WhpWrapPlatformSharedMemoryRegion(values) ==
  /\ \A v \in values : holder[v] = "client"
  /\ NewBuffer(values, TRUE)
  /\ holder' = [v \in Primitives |-> IF v \in values THEN "core" ELSE holder[v]]
  /\ UNCHANGED <<maps, views>>

WhpDuplicateBufferHandle(h) ==
  /\ IsA(table, h, "SharedBuffer") /\ Room
  /\ table' = Alloc(table, "SharedBuffer", table.slots[h].obj)
  /\ UNCHANGED <<buffer, maps, holder, views>>

\* region = maps[a]; region.buf = b; region.refs++.
Mapped(a, b) ==
  [x \in DOMAIN maps \cup {a} |->
     IF x = a THEN [buf |-> b, refs |-> IF a \in DOMAIN maps THEN maps[a].refs + 1 ELSE 1]
              ELSE maps[x]]

\* An OS region is mapped first if it is not yet (EnsureMapped), and stays
\* mapped until ~SharedBufferObj; if that fails, so does the call.
WhpMapBuffer(h, offset, num_bytes) ==
  LET b == BufferOf(h)
  IN  /\ IsA(table, h, "SharedBuffer") /\ offset + num_bytes <= Size
      /\ views[<<b, offset>>] < MaxMaps
      /\ maps' = Mapped(Address(b, offset), b)
      /\ views' = [views EXCEPT ![<<b, offset>>] = @ + 1]
      /\ UNCHANGED <<table, buffer, holder>>

\* Mutant of Unmapped: the first unmap forgets the address.
UnmappedAtOnce(a) == [x \in DOMAIN maps \ {a} |-> maps[x]]

Unmapped(a) ==
  IF maps[a].refs > 1 THEN [maps EXCEPT ![a].refs = @ - 1]
                      ELSE [x \in DOMAIN maps \ {a} |-> maps[x]]

\* The client unmaps a view that it has.
WhpUnmapBuffer(b, offset) ==
  LET a == Address(b, offset)
  IN  /\ views[<<b, offset>>] > 0 /\ a \in DOMAIN maps
      /\ maps' = Unmapped(a)
      /\ views' = [views EXCEPT ![<<b, offset>>] = @ - 1]
      /\ holder' = Closed(DiesWith(table, maps'))
      /\ UNCHANGED <<table, buffer>>

\* Mutant of Disowned: the object still owns the primitives.
DisownedNot(b) == buffer

Disowned(b) == [buffer EXCEPT ![b].plat_owns = FALSE]

\* Hands the primitives to the caller; duplicates of h stay.
WhpUnwrapPlatformSharedMemoryRegion(h, caller) ==
  LET b == BufferOf(h)
  IN  /\ IsA(table, h, "SharedBuffer") /\ buffer[b].plat_values # {}
      /\ UnwrapTwice \/ buffer[b].plat_owns
      /\ table' = Free(table, h)
      /\ buffer' = Disowned(b)
      /\ holder' = [v \in Primitives |->
                      IF v \in buffer[b].plat_values THEN caller ELSE holder[v]]
      /\ UNCHANGED <<maps, views>>

\* The thunk: a region has one primitive or two, and there is room for two.
MojoWrapPlatformSharedMemoryRegion(values) ==
  Cardinality(values) \in 1..2 /\ WhpWrapPlatformSharedMemoryRegion(values)

\* num_platform_handles says how many the client has room for; if that is too
\* few nothing happens.  That it passed no array is found out when the region
\* is unwrapped already, and its primitives are then in nobody's hands.
MojoUnwrapPlatformSharedMemoryRegion(h, num_platform_handles, array) ==
  /\ IsA(table, h, "SharedBuffer")
  /\ Cardinality(buffer[BufferOf(h)].plat_values) <= num_platform_handles
  /\ WhpUnwrapPlatformSharedMemoryRegion(h, IF array THEN "client" ELSE "lost")

-----------------------------------------------------------------------------
WhpWrapPlatformHandle(v) ==
  /\ holder[v] = "client" /\ Room
  /\ table' = Alloc(table, "Platform", [id |-> <<v>>, value |-> v])
  /\ holder' = [holder EXCEPT ![v] = "core"]
  /\ UNCHANGED <<buffer, maps, views>>

WhpUnwrapPlatformHandle(h) ==
  /\ IsA(table, h, "Platform")
  /\ table' = Free(table, h)
  /\ holder' = [holder EXCEPT ![table.slots[h].obj.value] = "client"]
  /\ UNCHANGED <<buffer, maps, views>>

\* What WhpClose closes itself.
ClosesNow(h) == IF IsA(table, h, "Platform") THEN {table.slots[h].obj.value} ELSE {}

Close(h) ==
  /\ Lookup(table, h)
  /\ table' = WhpClose(table, h)
  /\ holder' = Closed(ClosesNow(h) \cup DiesWith(table', maps))
  /\ UNCHANGED <<buffer, maps, views>>

BufferNext ==
  \/ WhpCreateSharedBuffer
  \/ \E values \in SUBSET Primitives : MojoWrapPlatformSharedMemoryRegion(values)
  \/ \E h \in DOMAIN table.slots : WhpDuplicateBufferHandle(h)
  \/ \E h \in DOMAIN table.slots, offset, num_bytes \in Offsets :
       (num_bytes > 0 \/ ZeroLength) /\ WhpMapBuffer(h, offset, num_bytes)
  \/ \E b \in Buffers, offset \in Offsets : WhpUnmapBuffer(b, offset)
  \/ \E h \in DOMAIN table.slots, n \in 0..2, array \in {TRUE, ~NullArray} :
       MojoUnwrapPlatformSharedMemoryRegion(h, n, array)
  \/ \E v \in Primitives : WhpWrapPlatformHandle(v)
  \/ \E h \in DOMAIN table.slots : WhpUnwrapPlatformHandle(h)
  \/ \E h \in DOMAIN table.slots : Close(h)

BufferSpec == BufferInit /\ [][BufferNext]_bufferVars

-----------------------------------------------------------------------------
(* Properties.                                                             *)

PlatformHandles(v) ==
  {h \in DOMAIN table.slots : IsA(table, h, "Platform") /\ table.slots[h].obj.value = v}
OwningBuffers(v) ==
  {b \in Referenced(table, maps) : buffer[b].plat_owns /\ v \in buffer[b].plat_values}

\* Wrapping takes ownership of an OS primitive, unwrapping gives it back
\* unclosed and closing the last handle and mapping closes it (system.h): the
\* primitive the core has is owned by exactly one live object, so it is closed
\* in the end and only once, and one that was given back is never closed, not
\* even by duplicates and mappings that outlive the unwrapped handle.
PrimitivesAccounted ==
  \A v \in Primitives :
    /\ holder[v] \notin {"closed by mistake", "lost"}
    /\ Cardinality(PlatformHandles(v)) + Cardinality(OwningBuffers(v))
         = IF holder[v] = "core" THEN 1 ELSE 0

\* Memory that a client has mapped stays until it has unmapped it as often as
\* it mapped it, whatever becomes of the handles: Core::maps has an entry for
\* the address that keeps the buffer and counts the client's mappings.
MappingsAlive ==
  \A b \in Buffers, offset \in Offsets : views[<<b, offset>>] > 0 =>
    LET a == Address(b, offset)
    IN  a \in DOMAIN maps /\ maps[a].buf = b /\ maps[a].refs = views[<<b, offset>>]

\* What backs a buffer is closed once and not while a client can still touch
\* it, in whatever order handles, duplicates and mappings go (WhpClose,
\* WhpUnmapBuffer, the wrap and unwrap calls).
BuffersAreExact == PrimitivesAccounted /\ MappingsAlive

=============================================================================
