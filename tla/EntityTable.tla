---------------------------- MODULE EntityTable ----------------------------
(***************************************************************************)
(* ExternalEntityTable (WASMSafeSpace, external-entity-table.h) with the   *)
(* interface of CppHeapPointerTable (WASMv8bindings): entries of a tag and *)
(* a pointer, named by handles, and a free list threaded through the freed *)
(* entries.  A handle is an index plus one, as in IndexToHandle, so that 0 *)
(* is kNullHandle and also stands for kNullIndex as the end of the list.   *)
(***************************************************************************)
EXTENDS Integers, Sequences

kNullHandle  == 0
FreeEntryTag == 32767   \* 0x7fff

EmptyTable == [entries |-> <<>>, free_list_head |-> kNullHandle]

Entry(tag, payload) == [tag |-> tag, payload |-> payload]

\* MakeFreelistEntry: a freed entry holds the next free one.
FreelistEntry(next) == Entry(FreeEntryTag, next)

ContainsFreelistLink(t, h) == t.entries[h].tag = FreeEntryTag

\* The handle that AllocateEntry returns.
NextEntry(t) ==
  IF t.free_list_head # kNullHandle THEN t.free_list_head ELSE Len(t.entries) + 1

AllocateEntry(t, entry) ==
  IF t.free_list_head # kNullHandle
  THEN [t EXCEPT !.free_list_head = t.entries[t.free_list_head].payload,
                 !.entries[t.free_list_head] = entry]
  ELSE [t EXCEPT !.entries = Append(@, entry)]

FreeEntry(t, h) ==
  IF h = kNullHandle THEN t
  ELSE [t EXCEPT !.entries[h] = FreelistEntry(t.free_list_head),
                 !.free_list_head = h]

\* Get returns the pointer, or Null for a handle that is null or out of
\* range, a freed entry and a tag outside the caller's range.
Get(t, h, tags, Null) ==
  IF h \in DOMAIN t.entries /\ t.entries[h].tag \in tags
  THEN t.entries[h].payload ELSE Null

=============================================================================
