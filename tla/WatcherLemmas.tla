--------------------------- MODULE WatcherLemmas ---------------------------
(***************************************************************************)
(* Lemmas about the member functions of SimpleWatcher in WatcherCore, for  *)
(* the proofs about the modules that are built on them.                    *)
(***************************************************************************)
EXTENDS WatcherCore, WhpLemmas

(* The table that turns a trigger context into a watcher.                  *)

\* The entry at handle i is on the free list.
FreeAt(t, i) == i \in DOMAIN t.entries /\ t.entries[i].tag = FreeEntryTag

UsedAt(t, i) == i \in DOMAIN t.entries /\ t.entries[i].tag # FreeEntryTag

\* The free list leads from free entry to free entry, and to each from at
\* most one place.
ListSound(t) ==
  /\ t.free_list_head # kNullHandle => FreeAt(t, t.free_list_head)
  /\ \A i : FreeAt(t, i) =>
       LET next == t.entries[i].payload
       IN  next # kNullHandle => FreeAt(t, next) /\ next # t.free_list_head
  /\ \A i, j : /\ FreeAt(t, i) /\ FreeAt(t, j)
               /\ t.entries[i].payload = t.entries[j].payload
               /\ t.entries[i].payload # kNullHandle
               => i = j

TableSound(t) ==
  /\ DOMAIN t = {"entries", "free_list_head"}
  /\ \E S : t.entries \in Seq(S)
  /\ \A i \in DOMAIN t.entries : DOMAIN t.entries[i] = {"tag", "payload"}
  /\ ListSound(t)

\* u is t with entry e at handle n, which was free or is new.
EntryMade(t, u, n, e) ==
  /\ TableSound(u) /\ n \in Nat \ {0} /\ ~UsedAt(t, n)
  /\ u.entries[n] = e /\ UsedAt(u, n)
  /\ \A i : i # n => /\ UsedAt(u, i) <=> UsedAt(t, i)
                     /\ UsedAt(u, i) => u.entries[i] = t.entries[i]

\* u is t without the entry at handle n.
EntryFreed(t, u, n) ==
  /\ TableSound(u) /\ ~UsedAt(u, n)
  /\ \A i : i # n => /\ UsedAt(u, i) <=> UsedAt(t, i)
                     /\ UsedAt(u, i) => u.entries[i] = t.entries[i]

(* One element of a sequence is replaced.                                  *)
LEMMA ReplaceTyped ==
  ASSUME NEW S, NEW s \in Seq(S), NEW n, NEW e
  PROVE  [s EXCEPT ![n] = e] \in Seq(S \cup {e})
<1>1. Len(s) \in Nat /\ s \in [1..Len(s) -> S]
  OBVIOUS
<1>2. [s EXCEPT ![n] = e] \in [1..Len(s) -> S \cup {e}]
  BY <1>1
<1> QED BY <1>1, <1>2, IsASeq

(* kNullHandle is no entry.                                                *)
LEMMA NoEntryZero ==
  ASSUME NEW t, TableSound(t)
  PROVE  ~UsedAt(t, 0)
<1>1. PICK S : t.entries \in Seq(S)
  BY DEF TableSound
<1> QED BY <1>1 DEF UsedAt

(* ExternalEntityTable::AllocateEntry.                                     *)
LEMMA AllocateEntryEffect ==
  ASSUME NEW t, TableSound(t), NEW e, DOMAIN e = {"tag", "payload"}, e.tag # FreeEntryTag
  PROVE  EntryMade(t, AllocateEntry(t, e), NextEntry(t), e)
<1> DEFINE u == AllocateEntry(t, e)
           n == NextEntry(t)
<1>1. PICK S : t.entries \in Seq(S)
  BY DEF TableSound
<1>2. /\ Len(t.entries) \in Nat /\ DOMAIN t.entries = 1..Len(t.entries)
  BY <1>1
<1>3. CASE t.free_list_head # kNullHandle
  <2>1. n = t.free_list_head /\ FreeAt(t, n)
    BY <1>3 DEF NextEntry, TableSound, ListSound
  <2>2. /\ u.free_list_head = t.entries[n].payload
        /\ u.entries = [t.entries EXCEPT ![n] = e]
        /\ DOMAIN u = {"entries", "free_list_head"}
    BY <1>3, <2>1 DEF AllocateEntry, TableSound
  <2> HIDE DEF u, n
  <2>3. /\ DOMAIN u.entries = DOMAIN t.entries /\ u.entries[n] = e
        /\ \A i \in DOMAIN t.entries : i # n => u.entries[i] = t.entries[i]
        /\ n \in DOMAIN t.entries
    BY <2>1, <2>2 DEF FreeAt
  <2>4. u.entries \in Seq(S \cup {e})
    <3>1. [t.entries EXCEPT ![n] = e] \in Seq(S \cup {e})
      BY <1>1, ReplaceTyped, Zenon
    <3> QED BY <2>2, <3>1, Zenon
  <2>5. /\ \A i : FreeAt(u, i) <=> FreeAt(t, i) /\ i # n
        /\ \A i : FreeAt(u, i) => u.entries[i] = t.entries[i]
    BY <2>3 DEF FreeAt
  <2>6. ListSound(u)
    BY <2>1, <2>2, <2>5 DEF TableSound, ListSound
  <2>7. \A i \in DOMAIN u.entries : DOMAIN u.entries[i] = {"tag", "payload"}
    BY <2>3 DEF TableSound
  <2>8. TableSound(u)
    BY <2>2, <2>4, <2>6, <2>7 DEF TableSound
  <2>9. n \in Nat \ {0}
    BY <1>2, <2>3
  <2> QED BY <2>1, <2>3, <2>8, <2>9 DEF EntryMade, UsedAt, FreeAt, u, n
<1>4. CASE t.free_list_head = kNullHandle
  <2>1. n = Len(t.entries) + 1
    BY <1>4 DEF NextEntry
  <2>2. /\ u.free_list_head = kNullHandle
        /\ u.entries = Append(t.entries, e)
        /\ DOMAIN u = {"entries", "free_list_head"}
    BY <1>4 DEF AllocateEntry, TableSound
  <2> HIDE DEF u, n
  <2>3. /\ DOMAIN u.entries = DOMAIN t.entries \cup {n} /\ u.entries[n] = e
        /\ \A i \in DOMAIN t.entries : i # n /\ u.entries[i] = t.entries[i]
        /\ n \notin DOMAIN t.entries
    BY <1>1, <1>2, <2>1, <2>2
  <2>4. u.entries \in Seq(S \cup {e})
    BY <1>1, <2>2
  <2>5. /\ \A i : FreeAt(u, i) <=> FreeAt(t, i)
        /\ \A i : FreeAt(u, i) => u.entries[i] = t.entries[i]
    BY <2>3 DEF FreeAt
  <2>6. ListSound(u)
    BY <1>4, <2>2, <2>5 DEF TableSound, ListSound
  <2>7. \A i \in DOMAIN u.entries : DOMAIN u.entries[i] = {"tag", "payload"}
    BY <2>3 DEF TableSound
  <2>8. TableSound(u)
    BY <2>2, <2>4, <2>6, <2>7 DEF TableSound
  <2>9. n \in Nat \ {0}
    BY <1>2, <2>1
  <2> QED BY <2>3, <2>8, <2>9 DEF EntryMade, UsedAt, u, n
<1> QED BY <1>3, <1>4

(* ExternalEntityTable::FreeEntry.                                         *)
LEMMA FreeEntryEffect ==
  ASSUME NEW t, TableSound(t), NEW n, UsedAt(t, n)
  PROVE  EntryFreed(t, FreeEntry(t, n), n)
<1> DEFINE u == FreeEntry(t, n)
           f == FreelistEntry(t.free_list_head)
<1>1. PICK S : t.entries \in Seq(S)
  BY DEF TableSound
<1>2. Len(t.entries) \in Nat /\ DOMAIN t.entries = 1..Len(t.entries) /\ n \in DOMAIN t.entries
  BY <1>1 DEF UsedAt
<1>3. n # kNullHandle
  BY <1>2 DEF kNullHandle
<1>4. /\ u.free_list_head = n /\ u.entries = [t.entries EXCEPT ![n] = f]
      /\ DOMAIN u = {"entries", "free_list_head"}
  BY <1>3 DEF FreeEntry, TableSound
<1>5. f.tag = FreeEntryTag /\ f.payload = t.free_list_head /\ DOMAIN f = {"tag", "payload"}
  BY DEF FreelistEntry, Entry
<1> HIDE DEF u, f
<1>6. /\ DOMAIN u.entries = DOMAIN t.entries /\ u.entries[n] = f
      /\ \A i \in DOMAIN t.entries : i # n => u.entries[i] = t.entries[i]
  BY <1>2, <1>4
<1>7. u.entries \in Seq(S \cup {f})
  <2>1. [t.entries EXCEPT ![n] = f] \in Seq(S \cup {f})
    BY <1>1, ReplaceTyped, Zenon
  <2> QED BY <1>4, <2>1, Zenon
<1>8. /\ \A i : FreeAt(u, i) <=> FreeAt(t, i) \/ i = n
      /\ \A i : FreeAt(t, i) => i # n /\ u.entries[i] = t.entries[i]
  BY <1>2, <1>5, <1>6 DEF FreeAt, UsedAt
<1>9. ListSound(u)
  <2>1. u.entries[n].payload = t.free_list_head
    BY <1>5, <1>6
  <2> QED BY <1>4, <1>8, <2>1 DEF TableSound, ListSound
<1>10. \A i \in DOMAIN u.entries : DOMAIN u.entries[i] = {"tag", "payload"}
  BY <1>5, <1>6 DEF TableSound
<1>11. TableSound(u)
  BY <1>4, <1>7, <1>9, <1>10 DEF TableSound
<1> QED BY <1>2, <1>5, <1>6, <1>11 DEF EntryFreed, UsedAt, u

-----------------------------------------------------------------------------
(* The watchers W, the traps and events of core c and the entries of t.    *)

\* Watcher w, whose fields are x, has a trap and an entry of its own.
Owned(c, t, x, w) ==
  /\ IsA(c, x.trap, "Trap")
  /\ \A i \in DOMAIN c.slots[x.trap].obj.triggers :
       c.slots[x.trap].obj.triggers[i].context = x.watcher_handle
  /\ UsedAt(t, x.watcher_handle) /\ t.entries[x.watcher_handle] = Entry(WatcherTag, w)

\* Each watcher has both or neither, no trap and no entry is left over, and
\* each queued event is for a trap that a watcher has.
Linked(c, t, W) ==
  /\ \A w \in DOMAIN W : /\ W[w].trap = 0 => W[w].watcher_handle = 0
                         /\ W[w].trap # 0 => Owned(c, t, W[w], w)
  /\ \A v, w \in DOMAIN W : W[v].trap # 0 /\ W[v].trap = W[w].trap => v = w
  /\ \A h : IsA(c, h, "Trap") => \E w \in DOMAIN W : W[w].trap = h
  /\ \A i : UsedAt(t, i) => \E w \in DOMAIN W : W[w].watcher_handle = i
  /\ \A i \in DOMAIN c.pending_events :
       \E w \in DOMAIN W : W[w].trap # 0 /\ EventOf(c, W[w].trap, c.pending_events[i])

\* V is W but for the fields of w.
OthersSame(W, V, w) ==
  /\ DOMAIN V = DOMAIN W
  /\ \A v \in DOMAIN W : v # w => V[v].trap = W[v].trap /\ V[v].watcher_handle = W[v].watcher_handle

(* No two watchers share an entry.                                         *)
LEMMA EntriesDiffer ==
  ASSUME NEW c, NEW t, NEW W, Linked(c, t, W), NEW v \in DOMAIN W, NEW w \in DOMAIN W,
         W[v].trap # 0, W[w].trap # 0, W[v].watcher_handle = W[w].watcher_handle
  PROVE  v = w
<1>1. Entry(WatcherTag, v) = Entry(WatcherTag, w)
  BY DEF Linked, Owned
<1>2. Entry(WatcherTag, v).payload = v /\ Entry(WatcherTag, w).payload = w
  BY DEF Entry
<1> QED BY <1>1, <1>2

(* A handle of a typed core is not zero.                                   *)
LEMMA HandlePositive ==
  ASSUME NEW c, Typed(c), NEW h, NEW k, IsA(c, h, k)
  PROVE  h \in Nat \ {0}
<1>1. PICK S : c.slots \in Seq(S)
  BY DEF Typed, Table, Shape
<1> QED BY <1>1 DEF IsA, Lookup

(* Core operations that leave the traps alone.                             *)
LEMMA LinkedCore ==
  ASSUME NEW c, NEW d, NEW t, NEW W, Typed(c), Linked(c, t, W), SameTraps(c, d), NewEvents(c, d)
  PROVE  Linked(d, t, W)
<1>0. ASSUME NEW x, NEW w, Owned(c, t, x, w) PROVE Owned(d, t, x, w)
  <2>1. IsA(d, x.trap, "Trap") /\ d.slots[x.trap].obj.triggers = c.slots[x.trap].obj.triggers
    BY <1>0 DEF SameTraps, Owned
  <2> QED BY <1>0, <2>1 DEF Owned
<1>1. \A w \in DOMAIN W : /\ W[w].trap = 0 => W[w].watcher_handle = 0
                          /\ W[w].trap # 0 => Owned(d, t, W[w], w)
  BY <1>0 DEF Linked
<1>2. \A h : IsA(d, h, "Trap") => \E w \in DOMAIN W : W[w].trap = h
  BY DEF Linked, SameTraps
<1>3. ASSUME NEW h, IsA(c, h, "Trap"), NEW e, EventOf(c, h, e)
      PROVE  EventOf(d, h, e) /\ \E w \in DOMAIN W : W[w].trap # 0 /\ W[w].trap = h
  <2>1. EventOf(d, h, e)
    BY <1>3 DEF EventOf, SameTraps
  <2>2. h # 0
    BY <1>3, HandlePositive
  <2> QED BY <1>3, <2>1, <2>2 DEF Linked
<1>4. ASSUME NEW i \in DOMAIN d.pending_events
      PROVE  \E w \in DOMAIN W : W[w].trap # 0 /\ EventOf(d, W[w].trap, d.pending_events[i])
  <2>1. PICK h : IsA(c, h, "Trap") /\ EventOf(c, h, d.pending_events[i])
    BY <1>4 DEF NewEvents, Linked, Owned
  <2> QED BY <1>3, <2>1
<1> QED BY <1>1, <1>2, <1>4 DEF Linked

(* A watcher's trap is closed and its entry freed (Cancel).                *)
LEMMA LinkedClosed ==
  ASSUME NEW c, NEW d, NEW t, NEW u, NEW W, NEW V, NEW w \in DOMAIN W,
         Typed(c), Linked(c, t, W), W[w].trap # 0,
         TrapClosed(c, d, W[w].trap), EntryFreed(t, u, W[w].watcher_handle),
         OthersSame(W, V, w), V[w].trap = 0, V[w].watcher_handle = 0
  PROVE  Linked(d, u, V)
<1> DEFINE x == W[w]
<1>1. Owned(c, t, x, w)
  BY DEF Linked
<1>2. ASSUME NEW v \in DOMAIN W, v # w
      PROVE  /\ V[v].trap = W[v].trap /\ V[v].watcher_handle = W[v].watcher_handle
             /\ W[v].trap # 0 => /\ W[v].trap # x.trap /\ W[v].watcher_handle # x.watcher_handle
                                 /\ Owned(c, t, W[v], v)
  BY <1>2, EntriesDiffer DEF Linked, OthersSame
<1>3. ASSUME NEW v \in DOMAIN W, v # w, W[v].trap # 0
      PROVE  Owned(d, u, V[v], v)
  <2>1. /\ IsA(d, W[v].trap, "Trap")
        /\ d.slots[W[v].trap].obj.triggers = c.slots[W[v].trap].obj.triggers
    BY <1>2, <1>3 DEF Owned, TrapClosed
  <2>2. UsedAt(u, W[v].watcher_handle)
        /\ u.entries[W[v].watcher_handle] = t.entries[W[v].watcher_handle]
    BY <1>2, <1>3 DEF Owned, EntryFreed
  <2>3. \A i \in DOMAIN c.slots[W[v].trap].obj.triggers :
          c.slots[W[v].trap].obj.triggers[i].context = W[v].watcher_handle
    BY <1>2, <1>3 DEF Owned
  <2>4. t.entries[W[v].watcher_handle] = Entry(WatcherTag, v)
    BY <1>2, <1>3 DEF Owned
  <2>5. V[v].trap = W[v].trap /\ V[v].watcher_handle = W[v].watcher_handle
    BY <1>2, <1>3
  <2> QED BY <2>1, <2>2, <2>3, <2>4, <2>5 DEF Owned
<1>4. \A v \in DOMAIN V : /\ V[v].trap = 0 => V[v].watcher_handle = 0
                          /\ V[v].trap # 0 => Owned(d, u, V[v], v)
  BY <1>2, <1>3 DEF Linked, OthersSame
<1>5. \A y, z \in DOMAIN V : V[y].trap # 0 /\ V[y].trap = V[z].trap => y = z
  BY <1>2 DEF Linked, OthersSame
<1>6. ASSUME NEW h, IsA(d, h, "Trap") PROVE \E v \in DOMAIN V : V[v].trap = h
  <2>1. IsA(c, h, "Trap") /\ h # x.trap
    BY <1>6 DEF TrapClosed
  <2>2. PICK v \in DOMAIN W : W[v].trap = h
    BY <2>1 DEF Linked
  <2> QED BY <1>2, <2>1, <2>2 DEF OthersSame
<1>7. ASSUME NEW i, UsedAt(u, i) PROVE \E v \in DOMAIN V : V[v].watcher_handle = i
  <2>1. UsedAt(t, i) /\ i # x.watcher_handle
    BY <1>7 DEF EntryFreed
  <2>2. PICK v \in DOMAIN W : W[v].watcher_handle = i
    BY <2>1 DEF Linked
  <2> QED BY <1>2, <2>1, <2>2 DEF OthersSame
<1>8. ASSUME NEW v \in DOMAIN W, v # w, W[v].trap # 0, NEW e, EventOf(c, W[v].trap, e)
      PROVE  \E y \in DOMAIN V : V[y].trap # 0 /\ EventOf(d, V[y].trap, e)
  <2>1. /\ d.slots[W[v].trap].obj.id = c.slots[W[v].trap].obj.id
        /\ d.slots[W[v].trap].obj.triggers = c.slots[W[v].trap].obj.triggers
    BY <1>2, <1>8 DEF Owned, TrapClosed
  <2>2. EventOf(d, V[v].trap, e)
    BY <1>2, <1>8, <2>1 DEF EventOf
  <2> QED BY <1>2, <1>8, <2>2 DEF OthersSame
<1>9. ASSUME NEW i \in DOMAIN d.pending_events
      PROVE  \E y \in DOMAIN V : V[y].trap # 0 /\ EventOf(d, V[y].trap, d.pending_events[i])
  <2> DEFINE e == d.pending_events[i]
             contexts == {c.slots[x.trap].obj.triggers[k].context :
                            k \in DOMAIN c.slots[x.trap].obj.triggers}
  <2>1. CASE \E j \in DOMAIN c.pending_events : c.pending_events[j].context \notin contexts
                                               /\ e = c.pending_events[j]
    <3>1. e.context \notin contexts
      BY <2>1
    <3>2. PICK v \in DOMAIN W : W[v].trap # 0 /\ EventOf(c, W[v].trap, e)
      BY <2>1 DEF Linked
    <3>3. v # w
      BY <3>1, <3>2 DEF EventOf
    <3> HIDE DEF e
    <3> QED BY <1>8, <3>2, <3>3 DEF e
  <2>2. CASE \E k : IsA(c, k, "Trap") /\ k # x.trap /\ EventOf(c, k, e)
    <3>1. PICK k : IsA(c, k, "Trap") /\ k # x.trap /\ EventOf(c, k, e)
      BY <2>2
    <3>2. PICK v \in DOMAIN W : W[v].trap = k
      BY <3>1 DEF Linked
    <3>3. k # 0
      BY <3>1, HandlePositive
    <3> HIDE DEF e
    <3> QED BY <1>8, <3>1, <3>2, <3>3 DEF e
  <2> QED BY <2>1, <2>2 DEF TrapClosed
<1> QED BY <1>4, <1>5, <1>6, <1>7, <1>9 DEF Linked

(* A watcher gets a new trap and a new entry (Watch).                      *)
LEMMA LinkedMade ==
  ASSUME NEW c, NEW d, NEW t, NEW u, NEW W, NEW V, NEW w \in DOMAIN W, NEW n, NEW k,
         Typed(c), TableSound(t), Linked(c, t, W), W[w].trap = 0,
         TrapMade(c, d, n), EntryMade(t, u, k, Entry(WatcherTag, w)),
         OthersSame(W, V, w), V[w].trap = n, V[w].watcher_handle = k
  PROVE  Linked(d, u, V)
<1>1. /\ n # 0 /\ ~IsA(c, n, "Trap") /\ IsA(d, n, "Trap") /\ d.slots[n].obj.triggers = <<>>
      /\ \A h : IsA(d, h, "Trap") <=> IsA(c, h, "Trap") \/ h = n
      /\ \A h : IsA(c, h, "Trap") => d.slots[h].obj = c.slots[h].obj
      /\ d.pending_events = c.pending_events
  BY DEF TrapMade, IsA
<1>2. /\ ~UsedAt(t, k) /\ UsedAt(u, k) /\ u.entries[k] = Entry(WatcherTag, w)
      /\ \A i : i # k => /\ UsedAt(u, i) <=> UsedAt(t, i)
                         /\ UsedAt(u, i) => u.entries[i] = t.entries[i]
  BY DEF EntryMade
<1>3. ASSUME NEW v \in DOMAIN W, v # w
      PROVE  /\ V[v].trap = W[v].trap /\ V[v].watcher_handle = W[v].watcher_handle
             /\ W[v].trap # 0 => W[v].trap # n /\ W[v].watcher_handle # k /\ Owned(c, t, W[v], v)
  BY <1>1, <1>2, <1>3 DEF Linked, OthersSame, Owned
<1>4. Owned(d, u, V[w], w)
  BY <1>1, <1>2 DEF Owned
<1>5. ASSUME NEW v \in DOMAIN W, v # w, W[v].trap # 0
      PROVE  Owned(d, u, V[v], v)
  <2>1. /\ IsA(d, W[v].trap, "Trap")
        /\ d.slots[W[v].trap].obj = c.slots[W[v].trap].obj
    BY <1>1, <1>3, <1>5 DEF Owned
  <2>2. UsedAt(u, W[v].watcher_handle)
        /\ u.entries[W[v].watcher_handle] = t.entries[W[v].watcher_handle]
    BY <1>2, <1>3, <1>5 DEF Owned
  <2>3. \A i \in DOMAIN c.slots[W[v].trap].obj.triggers :
          c.slots[W[v].trap].obj.triggers[i].context = W[v].watcher_handle
    BY <1>3, <1>5 DEF Owned
  <2>4. t.entries[W[v].watcher_handle] = Entry(WatcherTag, v)
    BY <1>3, <1>5 DEF Owned
  <2>5. V[v].trap = W[v].trap /\ V[v].watcher_handle = W[v].watcher_handle
    BY <1>3, <1>5
  <2> QED BY <2>1, <2>2, <2>3, <2>4, <2>5 DEF Owned
<1>6. \A v \in DOMAIN V : /\ V[v].trap = 0 => V[v].watcher_handle = 0
                          /\ V[v].trap # 0 => Owned(d, u, V[v], v)
  BY <1>1, <1>3, <1>4, <1>5 DEF Linked, OthersSame
<1>7. \A y, z \in DOMAIN V : V[y].trap # 0 /\ V[y].trap = V[z].trap => y = z
  BY <1>1, <1>3 DEF Linked, OthersSame
<1>8. \A h : IsA(d, h, "Trap") => \E v \in DOMAIN V : V[v].trap = h
  <2> SUFFICES ASSUME NEW h, IsA(d, h, "Trap") PROVE \E v \in DOMAIN V : V[v].trap = h
    OBVIOUS
  <2>1. CASE h = n
    BY <2>1 DEF OthersSame
  <2>2. CASE h # n
    <3>1. IsA(c, h, "Trap") /\ h # 0
      BY <1>1, <2>2, HandlePositive
    <3>2. PICK v \in DOMAIN W : W[v].trap = h
      BY <3>1 DEF Linked
    <3> QED BY <1>3, <3>1, <3>2 DEF OthersSame
  <2> QED BY <2>1, <2>2
<1>9. \A i : UsedAt(u, i) => \E v \in DOMAIN V : V[v].watcher_handle = i
  <2> SUFFICES ASSUME NEW i, UsedAt(u, i) PROVE \E v \in DOMAIN V : V[v].watcher_handle = i
    OBVIOUS
  <2>1. CASE i = k
    BY <2>1 DEF OthersSame
  <2>2. CASE i # k
    <3>1. UsedAt(t, i)
      BY <1>2, <2>2
    <3>2. PICK v \in DOMAIN W : W[v].watcher_handle = i
      BY <3>1 DEF Linked
    <3>3. CASE v # w
      BY <1>3, <3>2, <3>3 DEF OthersSame
    <3>4. CASE v = w
      <4>1. i = 0 /\ ~UsedAt(t, 0)
        BY <3>2, <3>4, NoEntryZero DEF Linked, EntryMade
      <4> QED BY <3>1, <4>1
    <3> QED BY <3>3, <3>4
  <2> QED BY <2>1, <2>2
<1>10. \A i \in DOMAIN d.pending_events :
         \E y \in DOMAIN V : V[y].trap # 0 /\ EventOf(d, V[y].trap, d.pending_events[i])
  <2> SUFFICES ASSUME NEW i \in DOMAIN c.pending_events
               PROVE  \E y \in DOMAIN V : V[y].trap # 0 /\ EventOf(d, V[y].trap, c.pending_events[i])
    BY <1>1
  <2>1. PICK v \in DOMAIN W : W[v].trap # 0 /\ EventOf(c, W[v].trap, c.pending_events[i])
    BY DEF Linked
  <2>2. v # w /\ d.slots[W[v].trap].obj = c.slots[W[v].trap].obj
    BY <1>1, <1>3, <2>1 DEF Owned
  <2> QED BY <1>3, <2>1, <2>2 DEF EventOf, OthersSame
<1> QED BY <1>6, <1>7, <1>8, <1>9, <1>10 DEF Linked

(* Another object for the trap of a watcher (WhpAddTrigger, WhpArmTrap).   *)
LEMMA LinkedTrap ==
  ASSUME NEW c, NEW d, NEW t, NEW W, NEW w \in DOMAIN W, NEW o,
         Linked(c, t, W), W[w].trap # 0,
         TrapChanged(c, d, W[w].trap, o), d.pending_events = c.pending_events,
         o.id = c.slots[W[w].trap].obj.id,
         \A i \in DOMAIN o.triggers : o.triggers[i].context = W[w].watcher_handle,
         \A i \in DOMAIN c.slots[W[w].trap].obj.triggers :
           \E j \in DOMAIN o.triggers :
             o.triggers[j].context = c.slots[W[w].trap].obj.triggers[i].context
  PROVE  Linked(d, t, W)
<1> DEFINE th == W[w].trap
<1>1. /\ \A h : IsA(d, h, "Trap") <=> IsA(c, h, "Trap")
      /\ d.slots[th].obj = o
      /\ \A h : IsA(c, h, "Trap") /\ h # th => d.slots[h].obj = c.slots[h].obj
  BY DEF TrapChanged
<1>2. ASSUME NEW v \in DOMAIN W, W[v].trap # 0
      PROVE  Owned(d, t, W[v], v)
  <2>1. IsA(c, W[v].trap, "Trap") /\ UsedAt(t, W[v].watcher_handle)
        /\ t.entries[W[v].watcher_handle] = Entry(WatcherTag, v)
        /\ \A i \in DOMAIN c.slots[W[v].trap].obj.triggers :
             c.slots[W[v].trap].obj.triggers[i].context = W[v].watcher_handle
    BY <1>2 DEF Linked, Owned
  <2>2. CASE v = w
    BY <1>1, <2>1, <2>2 DEF Owned
  <2>3. CASE v # w
    <3>1. W[v].trap # th
      BY <1>2, <2>3 DEF Linked
    <3>2. d.slots[W[v].trap].obj = c.slots[W[v].trap].obj
      BY <1>1, <2>1, <3>1
    <3> QED BY <1>1, <2>1, <3>2 DEF Owned
  <2> QED BY <2>2, <2>3
<1>3. ASSUME NEW v \in DOMAIN W, W[v].trap # 0, NEW e, EventOf(c, W[v].trap, e)
      PROVE  EventOf(d, W[v].trap, e)
  <2>1. CASE v = w
    BY <1>1, <1>3, <2>1 DEF EventOf
  <2>2. CASE v # w
    <3>1. W[v].trap # th /\ IsA(c, W[v].trap, "Trap")
      BY <1>3, <2>2 DEF Linked, Owned
    <3> QED BY <1>1, <1>3, <3>1 DEF EventOf
  <2> QED BY <2>1, <2>2
<1> QED BY <1>1, <1>2, <1>3 DEF Linked

(* Other fields of the watchers (callback, handle, alive).                 *)
LEMMA LinkedFields ==
  ASSUME NEW c, NEW t, NEW W, Linked(c, t, W), NEW V, DOMAIN V = DOMAIN W,
         \A w \in DOMAIN W : V[w].trap = W[w].trap /\ V[w].watcher_handle = W[w].watcher_handle
  PROVE  Linked(c, t, V)
<1>1. \A w \in DOMAIN W : Owned(c, t, W[w], w) => Owned(c, t, V[w], w)
  BY DEF Owned
<1> QED BY <1>1 DEF Linked

-----------------------------------------------------------------------------
(* The records that the member functions go from and to.                   *)

WatcherFields == {"alive", "trap", "handle", "callback", "watcher_handle"}

\* Each task is for a watcher that had a trap when it was posted, but for the
\* tasks in F, which others than watchers post.
Posted(tasks, W, F) ==
  /\ \E S : tasks \in Seq(S)
  /\ \A i \in DOMAIN tasks :
       \/ tasks[i] \in F
       \/ tasks[i].watcher \in DOMAIN W /\ tasks[i].trap_at_post # 0

Sound(s, F) ==
  /\ {"core", "table", "watcher", "tasks"} \subseteq DOMAIN s
  /\ \A w \in DOMAIN s.watcher : DOMAIN s.watcher[w] = WatcherFields
  /\ Typed(s.core) /\ TableSound(s.table) /\ Linked(s.core, s.table, s.watcher)
  /\ Posted(s.tasks, s.watcher, F)

\* r is s with watcher w's fields set to y, which has a new trap and entry.
MadeFor(s, r, w, y) ==
  /\ DOMAIN r = DOMAIN s /\ r.tasks = s.tasks
  /\ r.core = WhpCreateTrap(s.core)
  /\ r.table = AllocateEntry(s.table, Entry(WatcherTag, w))
  /\ r.watcher = [s.watcher EXCEPT ![w] = y]
  /\ DOMAIN y = WatcherFields
  /\ y.trap = NextHandle(s.core) /\ y.watcher_handle = NextEntry(s.table)

\* r is s with watcher w's trap and entry gone and its fields set to y.
ClosedFor(s, r, w, y) ==
  /\ DOMAIN r = DOMAIN s /\ r.tasks = s.tasks
  /\ r.core = WhpClose(s.core, s.watcher[w].trap)
  /\ r.table = FreeEntry(s.table, s.watcher[w].watcher_handle)
  /\ r.watcher = [s.watcher EXCEPT ![w] = y]
  /\ DOMAIN y = WatcherFields
  /\ y.trap = 0 /\ y.watcher_handle = 0

\* r is s with a trigger for handle h added to watcher w's trap.
TriggeredFor(s, r, w, h, signals) ==
  /\ DOMAIN r = DOMAIN s /\ r.tasks = s.tasks
  /\ r.core = WhpAddTrigger(s.core, s.watcher[w].trap, h, signals, "SATISFIED",
                            s.watcher[w].watcher_handle)
  /\ r.table = s.table /\ r.watcher = s.watcher

(* A new trap and a new entry for watcher w (Watch).                       *)
LEMMA MadeSound ==
  ASSUME NEW F, NEW s, Sound(s, F), NEW w \in DOMAIN s.watcher, s.watcher[w].trap = 0,
         NEW y, NEW r, MadeFor(s, r, w, y)
  PROVE  Sound(r, F)
<1>0. /\ DOMAIN r = DOMAIN s /\ r.tasks = s.tasks
      /\ r.core = WhpCreateTrap(s.core)
      /\ r.table = AllocateEntry(s.table, Entry(WatcherTag, w))
      /\ DOMAIN y = WatcherFields
      /\ y.trap = NextHandle(s.core) /\ y.watcher_handle = NextEntry(s.table)
  BY DEF MadeFor
<1>1. /\ DOMAIN r.watcher = DOMAIN s.watcher /\ r.watcher[w] = y
      /\ \A v \in DOMAIN s.watcher : v # w => r.watcher[v] = s.watcher[v]
  BY DEF MadeFor
<1>2. Typed(s.core) /\ TableSound(s.table) /\ Linked(s.core, s.table, s.watcher)
  BY DEF Sound
<1>3. TrapMade(s.core, r.core, NextHandle(s.core))
  BY <1>0, <1>2, CreateTrapEffect
<1>4. EntryMade(s.table, r.table, NextEntry(s.table), Entry(WatcherTag, w))
  <2>1. DOMAIN Entry(WatcherTag, w) = {"tag", "payload"} /\ Entry(WatcherTag, w).tag # FreeEntryTag
    BY DEF Entry, WatcherTag, FreeEntryTag
  <2> QED BY <1>0, <1>2, <2>1, AllocateEntryEffect
<1>5. OthersSame(s.watcher, r.watcher, w)
  BY <1>1 DEF OthersSame
<1>6. Linked(r.core, r.table, r.watcher)
  BY <1>0, <1>1, <1>2, <1>3, <1>4, <1>5, LinkedMade
<1>7. \A v \in DOMAIN r.watcher : DOMAIN r.watcher[v] = WatcherFields
  BY <1>0, <1>1 DEF Sound
<1>8. Posted(r.tasks, r.watcher, F)
  BY <1>0, <1>1 DEF Posted, Sound
<1>9. {"core", "table", "watcher", "tasks"} \subseteq DOMAIN r
  BY <1>0 DEF Sound
<1>10. Typed(r.core) /\ TableSound(r.table)
  BY <1>3, <1>4 DEF TrapMade, EntryMade
<1> QED BY <1>6, <1>7, <1>8, <1>9, <1>10 DEF Sound

(* The trap and the entry of watcher w are given up (Cancel, Watch).       *)
LEMMA ClosedSound ==
  ASSUME NEW F, NEW s, Sound(s, F), NEW w \in DOMAIN s.watcher, s.watcher[w].trap # 0,
         NEW y, NEW r, ClosedFor(s, r, w, y)
  PROVE  Sound(r, F)
<1> DEFINE x == s.watcher[w]
<1>0. /\ DOMAIN r = DOMAIN s /\ r.tasks = s.tasks
      /\ r.core = WhpClose(s.core, x.trap)
      /\ r.table = FreeEntry(s.table, x.watcher_handle)
      /\ DOMAIN y = WatcherFields /\ y.trap = 0 /\ y.watcher_handle = 0
  BY DEF ClosedFor
<1>1. /\ DOMAIN r.watcher = DOMAIN s.watcher /\ r.watcher[w] = y
      /\ \A v \in DOMAIN s.watcher : v # w => r.watcher[v] = s.watcher[v]
  BY DEF ClosedFor
<1>2. Typed(s.core) /\ TableSound(s.table) /\ Linked(s.core, s.table, s.watcher)
  BY DEF Sound
<1>3. IsA(s.core, x.trap, "Trap") /\ UsedAt(s.table, x.watcher_handle)
  BY <1>2 DEF Linked, Owned
<1>4. TrapClosed(s.core, r.core, x.trap)
  BY <1>0, <1>2, <1>3, CloseTrapEffect
<1>5. EntryFreed(s.table, r.table, x.watcher_handle)
  BY <1>0, <1>2, <1>3, FreeEntryEffect
<1>6. OthersSame(s.watcher, r.watcher, w)
  BY <1>1 DEF OthersSame
<1>7. Linked(r.core, r.table, r.watcher)
  BY <1>0, <1>1, <1>2, <1>4, <1>5, <1>6, LinkedClosed
<1>8. \A v \in DOMAIN r.watcher : DOMAIN r.watcher[v] = WatcherFields
  BY <1>0, <1>1 DEF Sound
<1>9. Posted(r.tasks, r.watcher, F)
  BY <1>0, <1>1 DEF Posted, Sound
<1>10. {"core", "table", "watcher", "tasks"} \subseteq DOMAIN r
  BY <1>0 DEF Sound
<1>11. Typed(r.core) /\ TableSound(r.table)
  BY <1>4, <1>5 DEF TrapClosed, EntryFreed
<1> QED BY <1>7, <1>8, <1>9, <1>10, <1>11 DEF Sound

(* SimpleWatcher::Cancel.                                                  *)
LEMMA CancelSound ==
  ASSUME NEW F, NEW s, Sound(s, F), NEW w \in DOMAIN s.watcher
  PROVE  LET r == Cancel(s, w)
         IN  /\ Sound(r, F) /\ r.tasks = s.tasks
             /\ DOMAIN r.watcher = DOMAIN s.watcher
             /\ r.watcher[w].trap = 0 /\ r.watcher[w].watcher_handle = 0
             /\ \A v \in DOMAIN s.watcher : v # w => r.watcher[v] = s.watcher[v]
             /\ r.watcher[w].alive = s.watcher[w].alive
             /\ s.watcher[w].trap = 0 => r.core = s.core
             /\ s.watcher[w].trap # 0 => \E y : ClosedFor(s, r, w, y)
<1> DEFINE x == s.watcher[w]
           f == [Fresh EXCEPT !.alive = x.alive]
           V == [s.watcher EXCEPT ![w] = f]
           r == Cancel(s, w)
<1>1. /\ f.trap = 0 /\ f.watcher_handle = 0 /\ f.alive = x.alive
      /\ DOMAIN f = WatcherFields
  BY DEF Fresh, MOJO_HANDLE_INVALID, kNullHandle, WatcherFields
<1>2. /\ r.watcher = V /\ r.tasks = s.tasks /\ DOMAIN r = DOMAIN s
      /\ r.core = IF x.trap = 0 THEN s.core ELSE WhpClose(s.core, x.trap)
      /\ r.table = IF x.trap = 0 THEN s.table ELSE FreeEntry(s.table, x.watcher_handle)
  BY DEF Cancel, Sound, MOJO_HANDLE_INVALID
<1> HIDE DEF f, r, x
<1>3. /\ DOMAIN V = DOMAIN s.watcher /\ V[w] = f
      /\ \A v \in DOMAIN s.watcher : v # w => V[v] = s.watcher[v]
  BY DEF Sound
<1> HIDE DEF V
<1>4. \A v \in DOMAIN V : DOMAIN V[v] = WatcherFields
  BY <1>1, <1>3 DEF Sound
<1>5. ASSUME x.trap = 0 PROVE Sound(r, F)
  <2>1. Linked(s.core, s.table, s.watcher) /\ Posted(s.tasks, s.watcher, F)
    BY DEF Sound
  <2>2. x.watcher_handle = 0
    BY <1>5, <2>1 DEF Linked, x
  <2>3. \A v \in DOMAIN s.watcher :
          V[v].trap = s.watcher[v].trap /\ V[v].watcher_handle = s.watcher[v].watcher_handle
    BY <1>1, <1>3, <1>5, <2>2 DEF x
  <2>4. Linked(r.core, r.table, V)
    BY <1>2, <1>3, <1>5, <2>1, <2>3, LinkedFields
  <2>5. Posted(r.tasks, V, F)
    BY <1>2, <1>3, <2>1 DEF Posted
  <2> QED BY <1>2, <1>4, <1>5, <2>4, <2>5 DEF Sound
<1>6. ASSUME x.trap # 0 PROVE Sound(r, F) /\ ClosedFor(s, r, w, f)
  <2>1. ClosedFor(s, r, w, f)
    BY <1>1, <1>2, <1>6 DEF ClosedFor, V, x
  <2> QED BY <1>6, <2>1, ClosedSound DEF x
<1> QED BY <1>1, <1>2, <1>3, <1>5, <1>6 DEF r, x

(* A task is posted for a watcher that has a trap.                         *)
LEMMA PostedMore ==
  ASSUME NEW F, NEW tasks, NEW W, Posted(tasks, W, F),
         NEW x, x.watcher \in DOMAIN W, x.trap_at_post # 0
  PROVE  Posted(Append(tasks, x), W, F)
<1>1. PICK S : tasks \in Seq(S)
  BY DEF Posted
<1>2. Append(tasks, x) \in Seq(S \cup {x})
  BY <1>1
<1>3. \A i \in DOMAIN Append(tasks, x) :
        \/ Append(tasks, x)[i] = x
        \/ i \in DOMAIN tasks /\ Append(tasks, x)[i] = tasks[i]
  BY <1>1
<1> QED BY <1>2, <1>3 DEF Posted

(* The trap of a watcher is armed.                                         *)
LEMMA ArmLinked ==
  ASSUME NEW c, NEW t, NEW W, Typed(c), Linked(c, t, W), NEW w \in DOMAIN W, W[w].trap # 0
  PROVE  LET d == WhpArmTrap(c, W[w].trap)
         IN  Typed(d) /\ Linked(d, t, W)
<1> DEFINE th == W[w].trap
           o  == [c.slots[th].obj EXCEPT !.armed = TRUE]
           d  == WhpArmTrap(c, th)
<1>1. IsA(c, th, "Trap")
  BY DEF Linked, Owned
<1>2. TrapChanged(c, d, th, o) /\ d.pending_events = c.pending_events
  BY <1>1, ArmTrapEffect
<1>3. TrapObject(c.slots[th].obj)
  BY <1>1 DEF Typed, SlotTyped, IsA, Lookup
<1>4. o.id = c.slots[th].obj.id /\ o.triggers = c.slots[th].obj.triggers
  BY <1>3 DEF TrapObject, TrapFields
<1> HIDE DEF o, d
<1>5. \A i \in DOMAIN o.triggers : o.triggers[i].context = W[w].watcher_handle
  BY <1>4 DEF Linked, Owned
<1>6. \A i \in DOMAIN c.slots[th].obj.triggers :
        \E j \in DOMAIN o.triggers :
          o.triggers[j].context = c.slots[th].obj.triggers[i].context
  BY <1>4
<1>7. Linked(d, t, W)
  BY <1>2, <1>4, <1>5, <1>6, LinkedTrap
<1> QED BY <1>2, <1>7 DEF TrapChanged, d

(* SimpleWatcher::Arm.                                                     *)
LEMMA ArmSound ==
  ASSUME NEW F, NEW s, Sound(s, F), NEW w \in DOMAIN s.watcher
  PROVE  LET r == Arm(s, w)
         IN  Sound(r, F) /\ r.watcher = s.watcher /\ r.table = s.table
<1> DEFINE trap == s.watcher[w].trap
           task == [watcher |-> w, trap_at_post |-> trap, callback |-> s.watcher[w].callback]
           r == Arm(s, w)
<1>1. \/ r = s
      \/ trap # 0 /\ r = [s EXCEPT !.core = WhpArmTrap(s.core, trap)]
      \/ trap # 0 /\ r = [s EXCEPT !.tasks = Append(s.tasks, task)]
  BY DEF Arm, Notify, MOJO_HANDLE_INVALID
<1>2. Typed(s.core) /\ Linked(s.core, s.table, s.watcher) /\ Posted(s.tasks, s.watcher, F)
  BY DEF Sound
<1>3. CASE trap # 0 /\ r = [s EXCEPT !.core = WhpArmTrap(s.core, trap)]
  <2>1. Typed(WhpArmTrap(s.core, trap)) /\ Linked(WhpArmTrap(s.core, trap), s.table, s.watcher)
    BY <1>2, <1>3, ArmLinked
  <2>2. /\ DOMAIN r = DOMAIN s /\ r.core = WhpArmTrap(s.core, trap)
        /\ r.table = s.table /\ r.watcher = s.watcher /\ r.tasks = s.tasks
    BY <1>3 DEF Sound
  <2> HIDE DEF r
  <2> QED BY <2>1, <2>2 DEF Sound, r
<1>4. CASE trap # 0 /\ r = [s EXCEPT !.tasks = Append(s.tasks, task)]
  <2>1. Posted(Append(s.tasks, task), s.watcher, F)
    <3>1. task.watcher \in DOMAIN s.watcher /\ task.trap_at_post # 0
      BY <1>4
    <3> HIDE DEF task
    <3> QED BY <1>2, <3>1, PostedMore
  <2>2. /\ DOMAIN r = DOMAIN s /\ r.tasks = Append(s.tasks, task)
        /\ r.table = s.table /\ r.watcher = s.watcher /\ r.core = s.core
    BY <1>4 DEF Sound
  <2> HIDE DEF r, task
  <2> QED BY <2>1, <2>2 DEF Sound, r
<1> QED BY <1>1, <1>3, <1>4

(* The trap of a watcher gets a trigger with the watcher's context.        *)
LEMMA TriggerLinked ==
  ASSUME NEW c, NEW t, NEW W, Typed(c), Linked(c, t, W), NEW w \in DOMAIN W, W[w].trap # 0,
         NEW h, NEW signals, NEW condition
  PROVE  LET d == WhpAddTrigger(c, W[w].trap, h, signals, condition, W[w].watcher_handle)
         IN  Typed(d) /\ Linked(d, t, W)
<1> DEFINE th  == W[w].trap
           context == W[w].watcher_handle
           d   == WhpAddTrigger(c, th, h, signals, condition, context)
           new == [watched |-> h, signals |-> signals, condition |-> condition,
                   context |-> context, obj |-> c.slots[h].obj.id,
                   late |-> c.slots[th].obj.armed]
           old == c.slots[th].obj
           o   == [old EXCEPT !.triggers = Append(@, new)]
<1>1. IsA(c, th, "Trap") /\ \A i \in DOMAIN old.triggers : old.triggers[i].context = context
  BY DEF Linked, Owned
<1>2. TrapChanged(c, d, th, o) /\ d.pending_events = c.pending_events
  BY <1>1, AddTriggerEffect
<1>3. TrapObject(old)
  BY <1>1 DEF Typed, SlotTyped, IsA, Lookup
<1>4. new.context = context
  OBVIOUS
<1> HIDE DEF new
<1>5. o.id = old.id /\ o.triggers = Append(old.triggers, new)
  BY <1>3 DEF TrapObject, TrapFields
<1>6. \E S : old.triggers \in Seq(S)
  BY <1>3 DEF TrapObject
<1> HIDE DEF o, d
<1>7. /\ \A i \in DOMAIN o.triggers : o.triggers[i].context = context
      /\ \A i \in DOMAIN old.triggers :
           \E j \in DOMAIN o.triggers : o.triggers[j].context = old.triggers[i].context
  <2> HIDE DEF old, context
  <2>1. PICK S : old.triggers \in Seq(S)
    BY <1>6
  <2>2. /\ \A i \in DOMAIN o.triggers :
             \/ o.triggers[i] = new
             \/ i \in DOMAIN old.triggers /\ o.triggers[i] = old.triggers[i]
        /\ \A i \in DOMAIN old.triggers : i \in DOMAIN o.triggers /\ o.triggers[i] = old.triggers[i]
    BY <1>5, <2>1
  <2> QED BY <1>1, <1>4, <2>2
<1>8. Linked(d, t, W)
  <2>1. o.id = c.slots[W[w].trap].obj.id
    BY <1>5
  <2>2. TrapChanged(c, d, W[w].trap, o)
    BY <1>2
  <2>3. /\ \A i \in DOMAIN o.triggers : o.triggers[i].context = W[w].watcher_handle
        /\ \A i \in DOMAIN c.slots[W[w].trap].obj.triggers :
             \E j \in DOMAIN o.triggers :
               o.triggers[j].context = c.slots[W[w].trap].obj.triggers[i].context
    BY <1>7
  <2>4. d.pending_events = c.pending_events
    BY <1>2
  <2> HIDE DEF old, th, context
  <2> QED BY <2>1, <2>2, <2>3, <2>4, LinkedTrap, Zenon
<1> QED BY <1>2, <1>8 DEF TrapChanged, d

(* The trap of watcher w gets its trigger (Watch).                         *)
LEMMA TriggeredSound ==
  ASSUME NEW F, NEW s, Sound(s, F), NEW w \in DOMAIN s.watcher, s.watcher[w].trap # 0,
         NEW h, NEW signals, NEW r, TriggeredFor(s, r, w, h, signals)
  PROVE  Sound(r, F)
<1>1. Typed(s.core) /\ Linked(s.core, s.table, s.watcher)
  BY DEF Sound
<1>2. Typed(r.core) /\ Linked(r.core, s.table, s.watcher)
  BY <1>1, TriggerLinked DEF TriggeredFor
<1> QED BY <1>2 DEF Sound, TriggeredFor

(* The stages of SimpleWatcher::Watch: what was watched is cancelled, a    *)
(* trap and an entry are made, and either both are given up or the trap    *)
(* gets its trigger and is armed by an automatic watcher.                  *)
LEMMA WatchStages ==
  ASSUME NEW F, NEW s, Sound(s, F), NEW w \in DOMAIN s.watcher, NEW h, NEW signals, NEW callback
  PROVE  LET r == Watch(s, w, h, signals, callback)
         IN  \E s1, s2, y :
               /\ s1 = Cancel(s, w) /\ MadeFor(s1, s2, w, y) /\ y.alive = s1.watcher[w].alive
               /\ \/ ~Lookup(s2.core, h) /\ \E z : ClosedFor(s2, r, w, z)
                  \/ \E s3 : /\ TriggeredFor(s2, s3, w, h, signals)
                             /\ r = IF Policy[w] = "kAutomatic" THEN Arm(s3, w) ELSE s3
<1> DEFINE s1 == Cancel(s, w)
           trap  == NextHandle(s1.core)
           entry == NextEntry(s1.table)
           y == [s1.watcher[w] EXCEPT !.callback = callback, !.handle = h,
                                      !.trap = trap, !.watcher_handle = entry]
           s2 == [s1 EXCEPT !.core = WhpCreateTrap(@),
                            !.table = AllocateEntry(@, Entry(WatcherTag, w)),
                            !.watcher[w] = y]
           s3 == [s2 EXCEPT !.core = WhpAddTrigger(@, trap, h, signals, "SATISFIED", entry)]
           z  == [Fresh EXCEPT !.callback = callback]
           undone == [s2 EXCEPT !.table = FreeEntry(@, entry),
                                !.core = WhpClose(@, trap), !.watcher[w] = z]
           r == Watch(s, w, h, signals, callback)
<1>1. r = IF ~Lookup(s2.core, h) THEN undone
          ELSE IF Policy[w] = "kAutomatic" THEN Arm(s3, w) ELSE s3
  BY DEF Watch
<1> HIDE DEF r
<1>2. Sound(s1, F) /\ w \in DOMAIN s1.watcher
  BY CancelSound
<1> HIDE DEF s1
<1>3. /\ DOMAIN y = WatcherFields /\ y.trap = trap /\ y.watcher_handle = entry
      /\ y.alive = s1.watcher[w].alive
  BY <1>2 DEF Sound, WatcherFields
<1> HIDE DEF y
<1>4. MadeFor(s1, s2, w, y) /\ s2.watcher[w] = y
  BY <1>2, <1>3 DEF MadeFor, Sound
<1>5. {"core", "table", "watcher", "tasks"} \subseteq DOMAIN s2
  BY <1>2 DEF Sound
<1> HIDE DEF s2, trap, entry
<1>6. TriggeredFor(s2, s3, w, h, signals)
  BY <1>3, <1>4, <1>5 DEF TriggeredFor
<1>7. ClosedFor(s2, undone, w, z)
  <2>1. DOMAIN z = WatcherFields /\ z.trap = 0 /\ z.watcher_handle = 0
    BY DEF Fresh, WatcherFields, MOJO_HANDLE_INVALID, kNullHandle
  <2> HIDE DEF z
  <2> QED BY <1>3, <1>4, <1>5, <2>1 DEF ClosedFor
<1> HIDE DEF s3, undone, z
<1>8. \/ ~Lookup(s2.core, h) /\ \E z1 : ClosedFor(s2, r, w, z1)
      \/ \E t3 : /\ TriggeredFor(s2, t3, w, h, signals)
                 /\ r = IF Policy[w] = "kAutomatic" THEN Arm(t3, w) ELSE t3
  BY <1>1, <1>6, <1>7
<1> QED BY <1>3, <1>4, <1>8 DEF s1, r

(* SimpleWatcher::Watch.                                                   *)
LEMMA WatchSound ==
  ASSUME NEW F, NEW s, Sound(s, F), NEW w \in DOMAIN s.watcher, NEW h, NEW signals, NEW callback
  PROVE  LET r == Watch(s, w, h, signals, callback)
         IN  Sound(r, F) /\ DOMAIN r.watcher = DOMAIN s.watcher
<1> DEFINE r == Watch(s, w, h, signals, callback)
<1>1. PICK s1, s2, y :
        /\ s1 = Cancel(s, w) /\ MadeFor(s1, s2, w, y)
        /\ \/ \E z : ClosedFor(s2, r, w, z)
           \/ \E s3 : /\ TriggeredFor(s2, s3, w, h, signals)
                      /\ r = IF Policy[w] = "kAutomatic" THEN Arm(s3, w) ELSE s3
  BY WatchStages
<1> HIDE DEF r
<1>2. /\ Sound(s1, F) /\ w \in DOMAIN s1.watcher /\ s1.watcher[w].trap = 0
      /\ DOMAIN s1.watcher = DOMAIN s.watcher
  BY <1>1, CancelSound
<1>3. Sound(s2, F)
  BY <1>1, <1>2, MadeSound
<1>4. s2.watcher[w].trap # 0 /\ DOMAIN s2.watcher = DOMAIN s.watcher
  <2>1. Typed(s1.core)
    BY <1>2 DEF Sound
  <2>2. TrapMade(s1.core, s2.core, NextHandle(s1.core))
    BY <1>1, <2>1, CreateTrapEffect DEF MadeFor
  <2>3. NextHandle(s1.core) # 0
    BY <2>2 DEF TrapMade
  <2> QED BY <1>1, <1>2, <2>3 DEF MadeFor
<1>5. ASSUME NEW z, ClosedFor(s2, r, w, z)
      PROVE  Sound(r, F) /\ DOMAIN r.watcher = DOMAIN s.watcher
  <2>1. Sound(r, F)
    BY <1>3, <1>4, <1>5, ClosedSound
  <2> QED BY <1>4, <1>5, <2>1 DEF ClosedFor
<1>6. ASSUME NEW s3, TriggeredFor(s2, s3, w, h, signals)
      PROVE  /\ Sound(s3, F) /\ DOMAIN s3.watcher = DOMAIN s.watcher
             /\ Sound(Arm(s3, w), F) /\ DOMAIN Arm(s3, w).watcher = DOMAIN s.watcher
  <2>1. Sound(s3, F)
    BY <1>3, <1>4, <1>6, TriggeredSound
  <2>2. DOMAIN s3.watcher = DOMAIN s.watcher
    BY <1>4, <1>6 DEF TriggeredFor
  <2> QED BY <2>1, <2>2, ArmSound
<1> QED BY <1>1, <1>5, <1>6 DEF r

\* U has a task for each event of s that resolves to a watcher.
TasksFor(s, U) ==
  /\ \E S : U \in Seq(S)
  /\ \A i \in DOMAIN U : \E j \in DOMAIN s.core.pending_events :
       /\ Resolve(s, s.core.pending_events[j]) # NoWatcher
       /\ U[i].watcher = Resolve(s, s.core.pending_events[j])
       /\ U[i].trap_at_post = s.watcher[U[i].watcher].trap
  /\ \A j \in DOMAIN s.core.pending_events :
       Resolve(s, s.core.pending_events[j]) # NoWatcher =>
         \E i \in DOMAIN U :
           /\ U[i].watcher = Resolve(s, s.core.pending_events[j])
           /\ U[i].trap_at_post = s.watcher[U[i].watcher].trap

(* WhpPumpEvents posts a task for each event that resolves to a watcher.   *)
LEMMA PumpedStages ==
  ASSUME NEW F, NEW s, Sound(s, F)
  PROVE  LET r == Pumped(s)
         IN  /\ DOMAIN r = DOMAIN s /\ r.table = s.table /\ r.watcher = s.watcher
             /\ r.core = [s.core EXCEPT !.pending_events = <<>>]
             /\ \E U : r.tasks = s.tasks \o U /\ TasksFor(s, U)
<1> DEFINE b == [s EXCEPT !.core.pending_events = <<>>]
           events == s.core.pending_events
           K == {i \in DOMAIN events : Resolve(b, events[i]) # NoWatcher}
           live == KeepAt(events, K)
           task(w) == [watcher |-> w, trap_at_post |-> b.watcher[w].trap,
                       callback |-> b.watcher[w].callback]
           U == [i \in 1..Len(live) |-> task(Resolve(b, live[i]))]
           r == Pumped(s)
<1>1. r = [b EXCEPT !.tasks = @ \o U]
  BY DEF Pumped, OnTrapEvents
<1>2. /\ DOMAIN b = DOMAIN s /\ b.table = s.table /\ b.watcher = s.watcher /\ b.tasks = s.tasks
      /\ b.core = [s.core EXCEPT !.pending_events = <<>>]
  BY DEF Sound
<1> HIDE DEF b, r
<1>3. /\ DOMAIN r = DOMAIN s /\ r.table = s.table /\ r.watcher = s.watcher
      /\ r.core = [s.core EXCEPT !.pending_events = <<>>] /\ r.tasks = s.tasks \o U
  BY <1>1, <1>2 DEF Sound
<1>4. \A e : Resolve(b, e) = Resolve(s, e)
  BY <1>2 DEF Resolve
<1>5. PICK S : events \in Seq(S)
  BY DEF Sound, Typed
<1>6. live \in Seq(S) /\ Kept(live, events, K)
  BY <1>5, KeepAtElements
<1> HIDE DEF live
<1>7. DOMAIN live = 1..Len(live) /\ Len(live) \in Nat
  BY <1>6
<1>8. /\ DOMAIN U = DOMAIN live
      /\ \A i \in DOMAIN live : /\ U[i].watcher = Resolve(s, live[i])
                                /\ U[i].trap_at_post = s.watcher[Resolve(s, live[i])].trap
  BY <1>2, <1>4, <1>7
<1>9. U \in Seq({U[i] : i \in DOMAIN U})
  <2>1. U \in [1..Len(live) -> {U[i] : i \in DOMAIN U}]
    OBVIOUS
  <2> HIDE DEF U
  <2> QED BY <1>7, <2>1, IsASeq
<1> HIDE DEF U
<1>10. ASSUME NEW i \in DOMAIN U
       PROVE  \E j \in DOMAIN events :
                /\ Resolve(s, events[j]) # NoWatcher /\ U[i].watcher = Resolve(s, events[j])
                /\ U[i].trap_at_post = s.watcher[U[i].watcher].trap
  <2>1. PICK j \in DOMAIN events : j \in K /\ live[i] = events[j]
    BY <1>6, <1>8 DEF Kept
  <2> QED BY <1>4, <1>8, <2>1
<1>11. ASSUME NEW j \in DOMAIN events, Resolve(s, events[j]) # NoWatcher
       PROVE  \E i \in DOMAIN U : /\ U[i].watcher = Resolve(s, events[j])
                                  /\ U[i].trap_at_post = s.watcher[U[i].watcher].trap
  <2>1. PICK i \in DOMAIN live : live[i] = events[j]
    BY <1>4, <1>6, <1>11 DEF Kept
  <2> QED BY <1>8, <2>1
<1>12. TasksFor(s, U)
  BY <1>9, <1>10, <1>11 DEF TasksFor
<1> QED BY <1>3, <1>12 DEF r

(* A context that resolves resolves to a watcher that has it.              *)
LEMMA ResolveExact ==
  ASSUME NEW c, NEW t, NEW W, TableSound(t), Linked(c, t, W), NEW i,
         Get(t, i, {WatcherTag}, NoWatcher) # NoWatcher
  PROVE  LET w == Get(t, i, {WatcherTag}, NoWatcher)
         IN  w \in DOMAIN W /\ W[w].trap # 0 /\ W[w].watcher_handle = i
<1>1. UsedAt(t, i) /\ Get(t, i, {WatcherTag}, NoWatcher) = t.entries[i].payload
  BY DEF Get, UsedAt, WatcherTag, FreeEntryTag
<1>2. PICK w \in DOMAIN W : W[w].watcher_handle = i
  BY <1>1 DEF Linked
<1>3. W[w].trap # 0
  BY <1>1, <1>2, NoEntryZero DEF Linked
<1>4. t.entries[i] = Entry(WatcherTag, w)
  BY <1>2, <1>3 DEF Linked, Owned
<1>5. t.entries[i].payload = w
  BY <1>4 DEF Entry
<1> QED BY <1>1, <1>2, <1>3, <1>5

(* The events are taken from the queue.                                    *)
LEMMA TakenLinked ==
  ASSUME NEW c, NEW t, NEW W, Typed(c), Linked(c, t, W)
  PROVE  LET d == [c EXCEPT !.pending_events = <<>>]
         IN  /\ Typed(d) /\ Linked(d, t, W) /\ d.slots = c.slots /\ d.pipes = c.pipes
             /\ d.pending_events = <<>>
<1> DEFINE d == [c EXCEPT !.pending_events = <<>>]
<1>1. /\ DOMAIN d = CoreFields /\ d.slots = c.slots /\ d.free_list = c.free_list
      /\ d.traps = c.traps /\ d.pipes = c.pipes /\ d.pending_events = <<>>
      /\ d.messages = c.messages /\ d.writes = c.writes /\ d.ntraps = c.ntraps
  BY DEF Typed, Table, Shape, CoreFields
<1> HIDE DEF d
<1>2. Typed(d)
  <2>1. /\ <<>> \in Seq({}) /\ Len(c.pipes) >= Len(c.pipes) /\ c.pipes \in Seq(PipeStates)
        /\ c.messages \in Nat /\ c.writes \in Nat /\ c.ntraps \in Nat
    BY DEF Typed
  <2> QED BY <1>1, <2>1, TypedFields
<1>3. SameTraps(c, d) /\ NewEvents(c, d)
  BY <1>1 DEF SameTraps, NewEvents, IsA, Lookup
<1> QED BY <1>1, <1>2, <1>3, LinkedCore DEF d

(* WhpPumpEvents.                                                          *)
LEMMA PumpedSound ==
  ASSUME NEW F, NEW s, Sound(s, F)
  PROVE  LET r == Pumped(s)
         IN  Sound(r, F) /\ r.watcher = s.watcher /\ r.table = s.table
<1> DEFINE r == Pumped(s)
           W == s.watcher
<1>1. PICK U : r.tasks = s.tasks \o U /\ TasksFor(s, U)
  BY PumpedStages
<1>2. /\ DOMAIN r = DOMAIN s /\ r.table = s.table /\ r.watcher = W
      /\ r.core = [s.core EXCEPT !.pending_events = <<>>]
  BY PumpedStages
<1> HIDE DEF r
<1>3. /\ Typed(s.core) /\ TableSound(s.table) /\ Linked(s.core, s.table, W)
      /\ Posted(s.tasks, W, F)
  BY DEF Sound
<1>4. ASSUME NEW i \in DOMAIN U
      PROVE  U[i].watcher \in DOMAIN W /\ U[i].trap_at_post # 0
  <2>1. PICK j \in DOMAIN s.core.pending_events :
          /\ Resolve(s, s.core.pending_events[j]) # NoWatcher
          /\ U[i].watcher = Resolve(s, s.core.pending_events[j])
          /\ U[i].trap_at_post = W[U[i].watcher].trap
    BY <1>1 DEF TasksFor
  <2>2. U[i].watcher \in DOMAIN W /\ W[U[i].watcher].trap # 0
    BY <1>3, <2>1, ResolveExact DEF Resolve
  <2> QED BY <2>1, <2>2
<1>5. Posted(r.tasks, W, F)
  <2>1. PICK S, R : s.tasks \in Seq(S) /\ U \in Seq(R)
    BY <1>1, <1>3 DEF Posted, TasksFor
  <2>2. s.tasks \o U \in Seq(S \cup R)
    BY <2>1
  <2>3. \A i \in DOMAIN (s.tasks \o U) :
          \/ i \in DOMAIN s.tasks /\ (s.tasks \o U)[i] = s.tasks[i]
          \/ \E j \in DOMAIN U : (s.tasks \o U)[i] = U[j]
    BY <2>1
  <2> QED BY <1>1, <1>3, <1>4, <2>2, <2>3 DEF Posted
<1>6. Typed(r.core) /\ Linked(r.core, r.table, W)
  BY <1>2, <1>3, TakenLinked
<1> QED BY <1>2, <1>3, <1>5, <1>6 DEF Sound, r

(* An operation of another client of the core, which leaves the traps.     *)
LEMMA CoreSound ==
  ASSUME NEW F, NEW s, Sound(s, F), NEW d, Typed(d), SameTraps(s.core, d), NewEvents(s.core, d),
         NEW r, DOMAIN r = DOMAIN s, r.core = d,
         r.table = s.table, r.watcher = s.watcher, r.tasks = s.tasks
  PROVE  Sound(r, F)
<1>1. Linked(d, s.table, s.watcher)
  BY LinkedCore DEF Sound
<1> QED BY <1>1 DEF Sound

(* The first task is taken from the queue.                                 *)
LEMMA TailSound ==
  ASSUME NEW F, NEW s, Sound(s, F), s.tasks # <<>>
  PROVE  LET r == [s EXCEPT !.tasks = Tail(@)]
             t == Head(s.tasks)
         IN  /\ Sound(r, F) /\ r.core = s.core /\ r.watcher = s.watcher /\ r.table = s.table
             /\ r.tasks = Tail(s.tasks)
             /\ t \in F \/ (t.watcher \in DOMAIN s.watcher /\ t.trap_at_post # 0)
<1> DEFINE r == [s EXCEPT !.tasks = Tail(@)]
<1>1. PICK S : s.tasks \in Seq(S)
  BY DEF Sound, Posted
<1>2. /\ Tail(s.tasks) \in Seq(S)
      /\ \A i \in DOMAIN Tail(s.tasks) : i + 1 \in DOMAIN s.tasks /\ Tail(s.tasks)[i] = s.tasks[i + 1]
      /\ 1 \in DOMAIN s.tasks /\ Head(s.tasks) = s.tasks[1]
  BY <1>1
<1>3. Posted(Tail(s.tasks), s.watcher, F)
  BY <1>2 DEF Sound, Posted
<1>4. /\ DOMAIN r = DOMAIN s /\ r.core = s.core /\ r.watcher = s.watcher /\ r.table = s.table
      /\ r.tasks = Tail(s.tasks)
  BY DEF Sound
<1> HIDE DEF r
<1>5. Sound(r, F)
  BY <1>3, <1>4 DEF Sound
<1> QED BY <1>2, <1>4, <1>5 DEF Sound, Posted, r

-----------------------------------------------------------------------------
(* What a client that is built on watchers needs of them.                  *)

(* Another task than a watcher's is posted.                                *)
LEMMA ForeignPosted ==
  ASSUME NEW F, NEW tasks, NEW W, Posted(tasks, W, F), NEW x \in F
  PROVE  Posted(Append(tasks, x), W, F)
<1>1. PICK S : tasks \in Seq(S)
  BY DEF Posted
<1>2. Append(tasks, x) \in Seq(S \cup {x})
  BY <1>1
<1>3. \A i \in DOMAIN Append(tasks, x) :
        \/ Append(tasks, x)[i] = x
        \/ i \in DOMAIN tasks /\ Append(tasks, x)[i] = tasks[i]
  BY <1>1
<1> QED BY <1>2, <1>3 DEF Posted

(* The destructor of a SimpleWatcher starts.                               *)
LEMMA DyingSound ==
  ASSUME NEW F, NEW s, Sound(s, F), NEW w \in DOMAIN s.watcher
  PROVE  LET r == [s EXCEPT !.watcher[w].alive = FALSE]
         IN  /\ Sound(r, F) /\ DOMAIN r = DOMAIN s /\ r.core = s.core
             /\ DOMAIN r.watcher = DOMAIN s.watcher
             /\ \A v \in DOMAIN s.watcher : r.watcher[v].trap = s.watcher[v].trap
<1> DEFINE r == [s EXCEPT !.watcher[w].alive = FALSE]
<1>1. /\ DOMAIN r = DOMAIN s /\ r.core = s.core /\ r.table = s.table
      /\ r.tasks = s.tasks /\ DOMAIN r.watcher = DOMAIN s.watcher
      /\ \A v \in DOMAIN s.watcher : /\ DOMAIN r.watcher[v] = WatcherFields
                                     /\ r.watcher[v].trap = s.watcher[v].trap
                                     /\ r.watcher[v].watcher_handle = s.watcher[v].watcher_handle
  BY DEF Sound, WatcherFields
<1> HIDE DEF r
<1>2. Linked(r.core, r.table, r.watcher)
  BY <1>1, LinkedFields DEF Sound
<1>3. Posted(r.tasks, r.watcher, F)
  BY <1>1 DEF Sound, Posted
<1>4. Sound(r, F)
  BY <1>1, <1>2, <1>3 DEF Sound
<1> QED BY <1>1, <1>4 DEF r

(* Cancel and Arm leave the ends of pipes where they are.                  *)
LEMMA CancelEnds ==
  ASSUME NEW F, NEW s, Sound(s, F), NEW w \in DOMAIN s.watcher
  PROVE  SameEnds(s.core, Cancel(s, w).core, {})
<1> DEFINE r == Cancel(s, w)
<1>1. /\ s.watcher[w].trap = 0 => r.core = s.core
      /\ s.watcher[w].trap # 0 => \E y : ClosedFor(s, r, w, y)
  BY CancelSound
<1> HIDE DEF r
<1>2. CASE s.watcher[w].trap = 0
  BY <1>1, <1>2 DEF SameEnds, r
<1>3. CASE s.watcher[w].trap # 0
  <2>1. r.core = WhpClose(s.core, s.watcher[w].trap)
    BY <1>1, <1>3 DEF ClosedFor
  <2>2. Typed(s.core) /\ IsA(s.core, s.watcher[w].trap, "Trap")
    BY <1>3 DEF Sound, Linked, Owned
  <2>3. TrapClosed(s.core, r.core, s.watcher[w].trap)
    BY <2>1, <2>2, CloseTrapEffect
  <2> QED BY <2>3 DEF TrapClosed, r
<1> QED BY <1>2, <1>3

LEMMA ArmEnds ==
  ASSUME NEW F, NEW s, Sound(s, F), NEW w \in DOMAIN s.watcher
  PROVE  SameEnds(s.core, Arm(s, w).core, {})
<1> DEFINE r == Arm(s, w)
           trap == s.watcher[w].trap
<1>1. r.core = s.core \/ (trap # 0 /\ r.core = WhpArmTrap(s.core, trap))
  BY DEF Arm, Notify, Sound, MOJO_HANDLE_INVALID
<1>2. trap # 0 => Typed(s.core) /\ IsA(s.core, trap, "Trap")
  BY DEF Sound, Linked, Owned
<1> HIDE DEF r, trap
<1>3. CASE r.core = s.core
  BY <1>3 DEF SameEnds, r
<1>4. CASE trap # 0 /\ r.core = WhpArmTrap(s.core, trap)
  <2>1. TrapChanged(s.core, WhpArmTrap(s.core, trap), trap, [s.core.slots[trap].obj EXCEPT !.armed = TRUE])
    BY <1>2, <1>4, ArmTrapEffect
  <2>2. SameEnds(s.core, WhpArmTrap(s.core, trap), {})
    BY <2>1 DEF TrapChanged
  <2> QED BY <1>4, <2>2 DEF r
<1> QED BY <1>1, <1>3, <1>4

(* Watch on the end of a pipe does not fail: the watcher gets a trap, and  *)
(* the others keep theirs.                                                 *)
LEMMA WatchOpens ==
  ASSUME NEW F, NEW s, Sound(s, F), NEW w \in DOMAIN s.watcher,
         NEW h, IsA(s.core, h, "MessagePipe"), NEW signals, NEW callback
  PROVE  LET r == Watch(s, w, h, signals, callback)
         IN  /\ SameEnds(s.core, r.core, {}) /\ r.watcher[w].trap # 0
             /\ \A v \in DOMAIN s.watcher : v # w => r.watcher[v].trap = s.watcher[v].trap
<1> DEFINE r == Watch(s, w, h, signals, callback)
<1>1. PICK s1, s2, y :
        /\ s1 = Cancel(s, w) /\ MadeFor(s1, s2, w, y)
        /\ \/ ~Lookup(s2.core, h) /\ \E z : ClosedFor(s2, r, w, z)
           \/ \E s3 : /\ TriggeredFor(s2, s3, w, h, signals)
                      /\ r = IF Policy[w] = "kAutomatic" THEN Arm(s3, w) ELSE s3
  BY WatchStages
<1> HIDE DEF r
<1>2. /\ Sound(s1, F) /\ w \in DOMAIN s1.watcher /\ s1.watcher[w].trap = 0
      /\ DOMAIN s1.watcher = DOMAIN s.watcher
      /\ \A v \in DOMAIN s.watcher : v # w => s1.watcher[v] = s.watcher[v]
  BY <1>1, CancelSound
<1>3. SameEnds(s.core, s1.core, {})
  BY <1>1, CancelEnds
<1>4. TrapMade(s1.core, s2.core, NextHandle(s1.core))
  BY <1>1, <1>2, CreateTrapEffect DEF MadeFor, Sound
<1>5. /\ DOMAIN s2.watcher = DOMAIN s.watcher /\ s2.watcher[w].trap # 0
      /\ \A v \in DOMAIN s.watcher : v # w => s2.watcher[v].trap = s.watcher[v].trap
  BY <1>1, <1>2, <1>4 DEF MadeFor, TrapMade
<1>6. SameEnds(s.core, s2.core, {})
  BY <1>3, <1>4 DEF SameEnds, TrapMade
<1>7. Lookup(s2.core, h)
  BY <1>6 DEF SameEnds, IsA
<1>8. Sound(s2, F)
  BY <1>1, <1>2, MadeSound
<1>9. PICK s3 : /\ TriggeredFor(s2, s3, w, h, signals)
                /\ r = IF Policy[w] = "kAutomatic" THEN Arm(s3, w) ELSE s3
  BY <1>1, <1>7
<1>10. Sound(s3, F) /\ s3.watcher = s2.watcher
  BY <1>5, <1>8, <1>9, TriggeredSound DEF TriggeredFor
<1>11. SameEnds(s2.core, s3.core, {})
  <2>1. Typed(s2.core) /\ IsA(s2.core, s2.watcher[w].trap, "Trap")
    BY <1>5, <1>8 DEF Sound, Linked, Owned
  <2> DEFINE d == WhpAddTrigger(s2.core, s2.watcher[w].trap, h, signals, "SATISFIED",
                                s2.watcher[w].watcher_handle)
  <2>2. \E o : TrapChanged(s2.core, d, s2.watcher[w].trap, o)
    BY <2>1, AddTriggerEffect
  <2>3. s3.core = d
    BY <1>9 DEF TriggeredFor
  <2> HIDE DEF d
  <2> QED BY <2>2, <2>3 DEF TrapChanged
<1>12. SameEnds(s3.core, r.core, {}) /\ r.watcher = s3.watcher
  <2>1. SameEnds(s3.core, s3.core, {})
    BY DEF SameEnds
  <2>2. SameEnds(s3.core, Arm(s3, w).core, {}) /\ Arm(s3, w).watcher = s3.watcher
    BY <1>5, <1>10, ArmEnds, ArmSound
  <2> QED BY <1>9, <2>1, <2>2
<1>13. SameEnds(s.core, r.core, {})
  BY <1>6, <1>11, <1>12 DEF SameEnds
<1> QED BY <1>5, <1>10, <1>12, <1>13 DEF r

-----------------------------------------------------------------------------
(* The chain from the trap of a watcher to its callback.                   *)

\* The trap of w is armed, or an event of it or a task of w is queued.
Up(s, w) ==
  LET h == s.watcher[w].trap
  IN  \/ s.core.slots[h].obj.armed
      \/ \E i \in DOMAIN s.core.pending_events : EventOf(s.core, h, s.core.pending_events[i])
      \/ \E i \in DOMAIN s.tasks : s.tasks[i].watcher = w /\ s.tasks[i].trap_at_post = h

\* The trap of w has a trigger.
Triggered(s, w) == 1 \in DOMAIN s.core.slots[s.watcher[w].trap].obj.triggers

\* w keeps its trap and the trigger of it, and its chain does not break.
Stays(s, r, w) ==
  /\ r.watcher[w].trap = s.watcher[w].trap
  /\ s.watcher[w].trap # 0 => /\ Up(s, w) => Up(r, w)
                              /\ Triggered(s, w) => Triggered(r, w)

(* Signals depend on the ends and the pipes only.                          *)
LEMMA MatchingSame ==
  ASSUME NEW c, NEW d, SameEnds(c, d, {}), d.pipes = c.pipes
  PROVE  \A o : Matching(d, o) = Matching(c, o)
<1>1. \A e : PipeSignals(d, e) = PipeSignals(c, e)
  BY DEF PipeSignals
<1>2. ASSUME NEW h PROVE QueryLocked(d, h) = QueryLocked(c, h)
  BY <1>1 DEF QueryLocked, SameEnds
<1>3. \A t : TriggerMatches(d, t) = TriggerMatches(c, t)
  BY <1>2 DEF TriggerMatches
<1> QED BY <1>3 DEF Matching

(* A trap of another watcher, its events and its tasks are left alone.     *)
LEMMA StaysSame ==
  ASSUME NEW s, NEW r, NEW w,
         r.watcher[w].trap = s.watcher[w].trap,
         s.watcher[w].trap # 0 =>
           /\ r.core.slots[s.watcher[w].trap].obj = s.core.slots[s.watcher[w].trap].obj
           /\ \A i \in DOMAIN s.core.pending_events :
                EventOf(s.core, s.watcher[w].trap, s.core.pending_events[i]) =>
                  \E j \in DOMAIN r.core.pending_events :
                    r.core.pending_events[j] = s.core.pending_events[i],
         \A i \in DOMAIN s.tasks : \E j \in DOMAIN r.tasks : r.tasks[j] = s.tasks[i]
  PROVE  Stays(s, r, w)
<1> SUFFICES ASSUME s.watcher[w].trap # 0
             PROVE  /\ Up(s, w) => Up(r, w)
                    /\ Triggered(s, w) => Triggered(r, w)
  BY DEF Stays
<1> DEFINE h == s.watcher[w].trap
<1>1. r.watcher[w].trap = h /\ r.core.slots[h].obj = s.core.slots[h].obj
  OBVIOUS
<1>2. \A e : EventOf(s.core, h, e) <=> EventOf(r.core, h, e)
  BY <1>1 DEF EventOf
<1>3. \A i \in DOMAIN s.core.pending_events : EventOf(s.core, h, s.core.pending_events[i]) =>
        \E j \in DOMAIN r.core.pending_events : EventOf(r.core, h, r.core.pending_events[j])
  BY <1>2
<1> HIDE DEF h
<1> QED BY <1>1, <1>3 DEF Up, Triggered, h

LEMMA StaysTransitive ==
  ASSUME NEW r, NEW s, NEW t, NEW w, Stays(r, s, w), Stays(s, t, w)
  PROVE  Stays(r, t, w)
BY DEF Stays

(* An operation of another client of the core that collects trap events.   *)
LEMMA CollectingStays ==
  ASSUME NEW F, NEW s, Sound(s, F), NEW d, NEW Gone, Collecting(s.core, d, Gone),
         NEW r, r.core = d, r.watcher = s.watcher, r.tasks = s.tasks,
         NEW w \in DOMAIN s.watcher
  PROVE  Stays(s, r, w)
<1> SUFFICES ASSUME s.watcher[w].trap # 0
             PROVE  /\ Up(s, w) => Up(r, w)
                    /\ Triggered(s, w) => Triggered(r, w)
  BY DEF Stays
<1> DEFINE h == s.watcher[w].trap
           c == s.core
<1>1. IsA(c, h, "Trap")
  BY DEF Sound, Linked, Owned
<1>2. d.slots[h].obj.id = c.slots[h].obj.id /\ d.slots[h].obj.triggers = c.slots[h].obj.triggers
  BY <1>1 DEF Collecting, SameTraps
<1>3. \A e : EventOf(c, h, e) <=> EventOf(d, h, e)
  BY <1>2 DEF EventOf
<1> HIDE DEF h, c
<1>4. c.slots[h].obj.armed =>
        \/ d.slots[h].obj.armed
        \/ \E i \in DOMAIN d.pending_events : EventOf(d, h, d.pending_events[i])
  BY <1>1, <1>3 DEF Collecting, Woken, c
<1>5. (\E i \in DOMAIN c.pending_events : EventOf(c, h, c.pending_events[i])) =>
        \E i \in DOMAIN d.pending_events : EventOf(d, h, d.pending_events[i])
  BY <1>3 DEF Collecting, Woken, c
<1> QED BY <1>2, <1>4, <1>5 DEF Up, Triggered, h, c

(* An operation that queues no event and leaves pipes and traps alone.     *)
LEMMA CalmStays ==
  ASSUME NEW F, NEW s, Sound(s, F), Settled(s.core), NEW d, Calm(s.core, d), d.pipes = s.core.pipes,
         NEW r, r.core = d, r.watcher = s.watcher, r.tasks = s.tasks
  PROVE  Settled(d) /\ \A w \in DOMAIN s.watcher : Stays(s, r, w)
<1>1. Settled(d)
  <2>1. \A o : Matching(d, o) = Matching(s.core, o)
    BY MatchingSame DEF Calm
  <2> QED BY <2>1 DEF Settled, Calm, SameTrapObjects
<1>2. ASSUME NEW w \in DOMAIN s.watcher PROVE Stays(s, r, w)
  <2>1. s.watcher[w].trap # 0 => IsA(s.core, s.watcher[w].trap, "Trap")
    BY DEF Sound, Linked, Owned
  <2>2. /\ s.watcher[w].trap # 0 =>
             d.slots[s.watcher[w].trap].obj = s.core.slots[s.watcher[w].trap].obj
        /\ d.pending_events = s.core.pending_events
    BY <2>1 DEF Calm, SameTrapObjects
  <2> QED BY <2>2, StaysSame
<1> QED BY <1>1, <1>2

(* Cancel, and the failure path of Watch.                                  *)
LEMMA ClosedStays ==
  ASSUME NEW F, NEW s, Sound(s, F), NEW w \in DOMAIN s.watcher, s.watcher[w].trap # 0,
         NEW y, NEW r, ClosedFor(s, r, w, y)
  PROVE  /\ Settled(r.core) /\ r.watcher[w].trap = 0
         /\ \A v \in DOMAIN s.watcher : v # w => Stays(s, r, v)
<1> DEFINE c == s.core
           d == r.core
           g == s.watcher[w].trap
           contexts == {c.slots[g].obj.triggers[i].context : i \in DOMAIN c.slots[g].obj.triggers}
<1>1. Typed(c) /\ Linked(c, s.table, s.watcher)
  BY DEF Sound
<1>2. /\ IsA(c, g, "Trap")
      /\ \A i \in DOMAIN c.slots[g].obj.triggers :
           c.slots[g].obj.triggers[i].context = s.watcher[w].watcher_handle
  BY <1>1 DEF Linked, Owned
<1>3. TrapClosed(c, d, g)
  <2>1. d = WhpClose(c, g)
    BY DEF ClosedFor
  <2> HIDE DEF d, c, g
  <2> QED BY <1>1, <1>2, <2>1, CloseTrapEffect DEF c
<1>4. ASSUME NEW v \in DOMAIN s.watcher, v # w PROVE Stays(s, r, v)
  <2> DEFINE h == s.watcher[v].trap
  <2>1. r.watcher[v].trap = h /\ r.tasks = s.tasks
    BY <1>4 DEF ClosedFor
  <2> SUFFICES ASSUME h # 0
               PROVE  /\ Up(s, v) => Up(r, v)
                      /\ Triggered(s, v) => Triggered(r, v)
    BY <2>1 DEF Stays
  <2>2. /\ IsA(c, h, "Trap") /\ h # g
        /\ s.watcher[v].watcher_handle # s.watcher[w].watcher_handle
        /\ \A i \in DOMAIN c.slots[h].obj.triggers :
             c.slots[h].obj.triggers[i].context = s.watcher[v].watcher_handle
    <3>1. Owned(c, s.table, s.watcher[v], v)
      BY <1>1 DEF Linked
    <3>2. h # g
      BY <1>1, <1>4 DEF Linked
    <3>3. s.watcher[v].watcher_handle # s.watcher[w].watcher_handle
      BY <1>1, <1>4, EntriesDiffer
    <3> QED BY <3>1, <3>2, <3>3 DEF Owned
  <2>3. d.slots[h].obj.id = c.slots[h].obj.id /\ d.slots[h].obj.triggers = c.slots[h].obj.triggers
    BY <1>3, <2>2 DEF TrapClosed
  <2>4. \A e : EventOf(c, h, e) <=> EventOf(d, h, e)
    BY <2>3 DEF EventOf
  <2>5. \A e : EventOf(c, h, e) => e.context \notin contexts
    BY <1>2, <2>2 DEF EventOf
  <2>6. \A j \in DOMAIN c.pending_events : c.pending_events[j].context \notin contexts =>
          \E i \in DOMAIN d.pending_events : d.pending_events[i] = c.pending_events[j]
    BY <1>3 DEF TrapClosed
  <2>7. c.slots[h].obj.armed /\ ~d.slots[h].obj.armed =>
          \E i \in DOMAIN d.pending_events : EventOf(c, h, d.pending_events[i])
    BY <1>3, <2>2 DEF TrapClosed
  <2> HIDE DEF h, c, d, contexts
  <2>8. (\E i \in DOMAIN c.pending_events : EventOf(c, h, c.pending_events[i])) =>
          \E i \in DOMAIN d.pending_events : EventOf(d, h, d.pending_events[i])
    BY <2>4, <2>5, <2>6
  <2>9. c.slots[h].obj.armed =>
          \/ d.slots[h].obj.armed
          \/ \E i \in DOMAIN d.pending_events : EventOf(d, h, d.pending_events[i])
    BY <2>4, <2>7
  <2> QED BY <2>1, <2>3, <2>8, <2>9 DEF Up, Triggered, h, c, d
<1>5. r.watcher[w].trap = 0
  BY DEF ClosedFor
<1> QED BY <1>3, <1>4, <1>5 DEF TrapClosed

(* SimpleWatcher::Arm arms the trap or posts a task.                       *)
LEMMA ArmStays ==
  ASSUME NEW F, NEW s, Sound(s, F), Settled(s.core), NEW w \in DOMAIN s.watcher
  PROVE  LET r == Arm(s, w)
         IN  /\ Settled(r.core)
             /\ s.watcher[w].trap # 0 => Up(r, w)
             /\ \A v \in DOMAIN s.watcher : Stays(s, r, v)
<1> DEFINE c == s.core
           th == s.watcher[w].trap
           task == [watcher |-> w, trap_at_post |-> th, callback |-> s.watcher[w].callback]
           r == Arm(s, w)
<1>1. \/ r = s /\ th = 0
      \/ th # 0 /\ CanArm(c, th) /\ r = [s EXCEPT !.core = WhpArmTrap(c, th)]
      \/ th # 0 /\ r = [s EXCEPT !.tasks = Append(s.tasks, task)]
  BY DEF Arm, Notify, MOJO_HANDLE_INVALID
<1>2. /\ Typed(c) /\ Linked(c, s.table, s.watcher) /\ Posted(s.tasks, s.watcher, F)
      /\ {"core", "table", "watcher", "tasks"} \subseteq DOMAIN s
  BY DEF Sound
<1>3. task.watcher = w /\ task.trap_at_post = th
  OBVIOUS
<1> HIDE DEF r, task
<1>4. CASE r = s /\ th = 0
  BY <1>4, StaysSame DEF r
<1>5. CASE th # 0 /\ CanArm(c, th) /\ r = [s EXCEPT !.core = WhpArmTrap(c, th)]
  <2> DEFINE old == c.slots[th].obj
             o == [old EXCEPT !.armed = TRUE]
             d == WhpArmTrap(c, th)
  <2>1. IsA(c, th, "Trap")
    BY <1>2, <1>5 DEF Linked, Owned
  <2>2. TrapChanged(c, d, th, o) /\ d.pending_events = c.pending_events
    BY <1>2, <2>1, ArmTrapEffect
  <2>3. TrapObject(old)
    BY <1>2, <2>1 DEF Typed, SlotTyped, IsA, Lookup
  <2>4. o.id = old.id /\ o.triggers = old.triggers /\ o.armed
    BY <2>3 DEF TrapObject, TrapFields
  <2>5. r.core = d /\ r.watcher = s.watcher /\ r.tasks = s.tasks
    BY <1>2, <1>5
  <2> HIDE DEF o, d
  <2>6. \A x : Matching(d, x) = Matching(c, x)
    BY <2>2, MatchingSame DEF TrapChanged
  <2>7. Matching(c, o) = {}
    BY <1>5, <2>4 DEF CanArm, Matching
  <2>8. Settled(d)
    BY <2>2, <2>6, <2>7 DEF Settled, TrapChanged
  <2>9. d.slots[th].obj = o /\ \A h : IsA(c, h, "Trap") /\ h # th => d.slots[h].obj = c.slots[h].obj
    BY <2>2 DEF TrapChanged
  <2>10. ASSUME NEW v \in DOMAIN s.watcher, s.watcher[v].trap = th
         PROVE  Stays(s, r, v) /\ Up(r, v)
    BY <2>4, <2>5, <2>9, <2>10 DEF Stays, Up, Triggered
  <2>11. ASSUME NEW v \in DOMAIN s.watcher, s.watcher[v].trap # th
         PROVE  Stays(s, r, v)
    <3>1. s.watcher[v].trap # 0 => IsA(c, s.watcher[v].trap, "Trap")
      BY <1>2 DEF Linked, Owned
    <3>2. s.watcher[v].trap # 0 =>
            r.core.slots[s.watcher[v].trap].obj = s.core.slots[s.watcher[v].trap].obj
      BY <2>5, <2>9, <2>11, <3>1
    <3>3. r.core.pending_events = s.core.pending_events
      BY <2>2, <2>5
    <3> HIDE DEF c, th
    <3> QED BY <2>5, <3>2, <3>3, StaysSame
  <2> QED BY <2>5, <2>8, <2>10, <2>11 DEF r
<1>6. CASE th # 0 /\ r = [s EXCEPT !.tasks = Append(s.tasks, task)]
  <2>1. /\ r.core = s.core /\ r.watcher = s.watcher /\ r.tasks = Append(s.tasks, task)
    BY <1>2, <1>6
  <2>2. PICK S : s.tasks \in Seq(S)
    BY <1>2 DEF Posted
  <2>3. /\ \A i \in DOMAIN s.tasks : i \in DOMAIN r.tasks /\ r.tasks[i] = s.tasks[i]
        /\ Len(s.tasks) + 1 \in DOMAIN r.tasks /\ r.tasks[Len(s.tasks) + 1] = task
    BY <2>1, <2>2
  <2>4. Up(r, w)
    BY <1>3, <2>1, <2>3 DEF Up
  <2>5. \A v \in DOMAIN s.watcher : Stays(s, r, v)
    BY <2>1, <2>3, StaysSame
  <2> QED BY <2>1, <2>4, <2>5 DEF r
<1> QED BY <1>1, <1>4, <1>5, <1>6

(* The new trap of watcher w is not armed.                                 *)
LEMMA MadeStays ==
  ASSUME NEW F, NEW s, Sound(s, F), Settled(s.core), NEW w \in DOMAIN s.watcher,
         s.watcher[w].trap = 0,
         NEW y, NEW r, MadeFor(s, r, w, y)
  PROVE  /\ Settled(r.core) /\ ~r.core.slots[r.watcher[w].trap].obj.armed
         /\ r.watcher[w] = y /\ y.trap # 0
         /\ \A v \in DOMAIN s.watcher : v # w => Stays(s, r, v) /\ r.watcher[v] = s.watcher[v]
<1> DEFINE c == s.core
           d == r.core
           n == NextHandle(c)
<1>1. Typed(c) /\ Linked(c, s.table, s.watcher)
  BY DEF Sound
<1>2. d = WhpCreateTrap(c) /\ y.trap = n /\ r.tasks = s.tasks /\ r.watcher[w] = y
      /\ \A v \in DOMAIN s.watcher : v # w => r.watcher[v] = s.watcher[v]
  BY DEF MadeFor
<1> HIDE DEF d, n
<1>3. TrapMade(c, d, n)
  BY <1>1, <1>2, CreateTrapEffect DEF n
<1>4. \A x : Matching(d, x) = Matching(c, x)
  BY <1>3, MatchingSame DEF TrapMade
<1>5. Settled(d)
  BY <1>3, <1>4 DEF Settled, TrapMade
<1>6. ASSUME NEW v \in DOMAIN s.watcher, v # w PROVE Stays(s, r, v)
  <2>1. s.watcher[v].trap # 0 => IsA(c, s.watcher[v].trap, "Trap")
    BY <1>1 DEF Linked, Owned
  <2>2. s.watcher[v].trap # 0 =>
          r.core.slots[s.watcher[v].trap].obj = s.core.slots[s.watcher[v].trap].obj
    BY <1>3, <2>1 DEF TrapMade, d
  <2>3. r.core.pending_events = s.core.pending_events
    BY <1>3 DEF TrapMade, d
  <2> QED BY <1>2, <1>6, <2>2, <2>3, StaysSame
<1>7. n # 0 /\ ~d.slots[n].obj.armed
  BY <1>3 DEF TrapMade
<1> QED BY <1>2, <1>5, <1>6, <1>7 DEF d

(* A trap that gets a trigger has one.                                     *)
LEMMA AddTriggerAdds ==
  ASSUME NEW c, Typed(c), NEW th, IsA(c, th, "Trap"), NEW h, NEW signals, NEW condition, NEW context
  PROVE  LET d == WhpAddTrigger(c, th, h, signals, condition, context)
         IN  \E o : /\ TrapChanged(c, d, th, o) /\ d.pending_events = c.pending_events
                    /\ o.armed = c.slots[th].obj.armed /\ 1 \in DOMAIN o.triggers
<1> DEFINE d == WhpAddTrigger(c, th, h, signals, condition, context)
           new == [watched |-> h, signals |-> signals, condition |-> condition,
                   context |-> context, obj |-> c.slots[h].obj.id,
                   late |-> c.slots[th].obj.armed]
           old == c.slots[th].obj
           o   == [old EXCEPT !.triggers = Append(@, new)]
<1>1. TrapChanged(c, d, th, o) /\ d.pending_events = c.pending_events
  BY AddTriggerEffect
<1>2. TrapObject(old)
  BY DEF Typed, SlotTyped, IsA, Lookup
<1> HIDE DEF d, new, old
<1>3. o.armed = old.armed /\ o.triggers = Append(old.triggers, new)
  BY <1>2 DEF TrapObject, TrapFields
<1>4. PICK S : old.triggers \in Seq(S)
  BY <1>2 DEF TrapObject
<1> HIDE DEF o
<1>5. 1 \in DOMAIN o.triggers
  BY <1>3, <1>4
<1> QED BY <1>1, <1>3, <1>5 DEF d, old

(* The trap gets its trigger before it is armed.                           *)
LEMMA TriggeredStays ==
  ASSUME NEW F, NEW s, Sound(s, F), Settled(s.core), NEW w \in DOMAIN s.watcher,
         s.watcher[w].trap # 0,
         ~s.core.slots[s.watcher[w].trap].obj.armed,
         NEW h, NEW signals, NEW r, TriggeredFor(s, r, w, h, signals)
  PROVE  /\ Settled(r.core) /\ r.watcher = s.watcher /\ Triggered(r, w)
         /\ \A v \in DOMAIN s.watcher : v # w => Stays(s, r, v)
<1> DEFINE c == s.core
           d == r.core
           th == s.watcher[w].trap
<1>1. Typed(c) /\ Linked(c, s.table, s.watcher)
  BY DEF Sound
<1>2. /\ d = WhpAddTrigger(c, th, h, signals, "SATISFIED", s.watcher[w].watcher_handle)
      /\ r.tasks = s.tasks /\ r.watcher = s.watcher
  BY DEF TriggeredFor
<1>3. IsA(c, th, "Trap")
  BY <1>1 DEF Linked, Owned
<1> HIDE DEF d
<1>4. PICK o : /\ TrapChanged(c, d, th, o) /\ d.pending_events = c.pending_events
               /\ o.armed = c.slots[th].obj.armed /\ 1 \in DOMAIN o.triggers
  <2> HIDE DEF c, th
  <2> QED BY <1>1, <1>2, <1>3, AddTriggerAdds
<1>5. \A x : Matching(d, x) = Matching(c, x)
  BY <1>4, MatchingSame DEF TrapChanged
<1>6. Settled(d)
  BY <1>4, <1>5 DEF Settled, TrapChanged
<1>7. d.slots[th].obj = o /\ \A k : IsA(c, k, "Trap") /\ k # th => d.slots[k].obj = c.slots[k].obj
  BY <1>4 DEF TrapChanged
<1>8. ASSUME NEW v \in DOMAIN s.watcher, v # w PROVE Stays(s, r, v)
  <2>1. s.watcher[v].trap # 0 => IsA(c, s.watcher[v].trap, "Trap") /\ s.watcher[v].trap # th
    BY <1>1, <1>8 DEF Linked, Owned
  <2>2. s.watcher[v].trap # 0 =>
          r.core.slots[s.watcher[v].trap].obj = s.core.slots[s.watcher[v].trap].obj
    BY <1>7, <2>1 DEF d
  <2>3. r.core.pending_events = s.core.pending_events
    BY <1>4 DEF d
  <2> HIDE DEF th, c
  <2> QED BY <1>2, <2>2, <2>3, StaysSame
<1>9. Triggered(r, w)
  BY <1>2, <1>4, <1>7 DEF Triggered, d
<1> QED BY <1>2, <1>6, <1>8, <1>9 DEF d

(* SimpleWatcher::Cancel.                                                  *)
LEMMA CancelStays ==
  ASSUME NEW F, NEW s, Sound(s, F), Settled(s.core), NEW w \in DOMAIN s.watcher
  PROVE  LET r == Cancel(s, w)
         IN  Settled(r.core) /\ \A v \in DOMAIN s.watcher : v # w => Stays(s, r, v)
<1> DEFINE r == Cancel(s, w)
<1>1. /\ r.tasks = s.tasks
      /\ \A v \in DOMAIN s.watcher : v # w => r.watcher[v] = s.watcher[v]
      /\ s.watcher[w].trap = 0 => r.core = s.core
      /\ s.watcher[w].trap # 0 => \E y : ClosedFor(s, r, w, y)
  BY CancelSound
<1> HIDE DEF r
<1>2. CASE s.watcher[w].trap = 0
  <2>1. ASSUME NEW v \in DOMAIN s.watcher, v # w PROVE Stays(s, r, v)
    BY <1>1, <1>2, <2>1, StaysSame
  <2> QED BY <1>1, <1>2, <2>1 DEF r
<1>3. CASE s.watcher[w].trap # 0
  <2>1. PICK y : ClosedFor(s, r, w, y)
    BY <1>1, <1>3
  <2> QED BY <1>3, <2>1, ClosedStays DEF r
<1> QED BY <1>2, <1>3

\* The chain of a watcher that watches holds together in s.
Chained(s, w) ==
  s.watcher[w].trap # 0 => /\ s.watcher[w].alive /\ Triggered(s, w)
                           /\ Policy[w] = "kAutomatic" => Up(s, w)

(* SimpleWatcher::Watch.                                                   *)
LEMMA WatchStays ==
  ASSUME NEW F, NEW s, Sound(s, F), Settled(s.core), NEW w \in DOMAIN s.watcher, s.watcher[w].alive,
         NEW h, NEW signals, NEW callback
  PROVE  LET r == Watch(s, w, h, signals, callback)
         IN  /\ Settled(r.core) /\ Chained(r, w)
             /\ \A v \in DOMAIN s.watcher : v # w => Stays(s, r, v) /\ r.watcher[v] = s.watcher[v]
<1> DEFINE r == Watch(s, w, h, signals, callback)
<1>1. PICK s1, s2, y :
        /\ s1 = Cancel(s, w) /\ MadeFor(s1, s2, w, y) /\ y.alive = s1.watcher[w].alive
        /\ \/ \E z : ClosedFor(s2, r, w, z)
           \/ \E s3 : /\ TriggeredFor(s2, s3, w, h, signals)
                      /\ r = IF Policy[w] = "kAutomatic" THEN Arm(s3, w) ELSE s3
  BY WatchStages
<1> HIDE DEF r
<1>2. /\ Sound(s1, F) /\ w \in DOMAIN s1.watcher /\ s1.watcher[w].trap = 0
      /\ DOMAIN s1.watcher = DOMAIN s.watcher /\ s1.watcher[w].alive
      /\ \A v \in DOMAIN s.watcher : v # w => s1.watcher[v] = s.watcher[v]
  BY <1>1, CancelSound
<1>3. Settled(s1.core) /\ \A v \in DOMAIN s.watcher : v # w => Stays(s, s1, v)
  BY <1>1, CancelStays
<1>4. /\ Sound(s2, F) /\ DOMAIN s2.watcher = DOMAIN s.watcher
      /\ Settled(s2.core) /\ ~s2.core.slots[s2.watcher[w].trap].obj.armed
      /\ s2.watcher[w].trap # 0 /\ s2.watcher[w].alive
      /\ \A v \in DOMAIN s.watcher : v # w => Stays(s1, s2, v) /\ s2.watcher[v] = s1.watcher[v]
  <2>1. Sound(s2, F)
    BY <1>1, <1>2, MadeSound
  <2>2. DOMAIN s2.watcher = DOMAIN s1.watcher
    BY <1>1 DEF MadeFor
  <2>3. /\ Settled(s2.core) /\ ~s2.core.slots[s2.watcher[w].trap].obj.armed
        /\ s2.watcher[w] = y /\ y.trap # 0
        /\ \A v \in DOMAIN s1.watcher : v # w => Stays(s1, s2, v) /\ s2.watcher[v] = s1.watcher[v]
    BY <1>1, <1>2, <1>3, MadeStays
  <2> QED BY <1>1, <1>2, <2>1, <2>2, <2>3
<1>5. \A v \in DOMAIN s.watcher : v # w => Stays(s, s2, v) /\ s2.watcher[v] = s.watcher[v]
  BY <1>2, <1>3, <1>4, StaysTransitive
<1>6. ASSUME NEW z, ClosedFor(s2, r, w, z)
      PROVE  /\ Settled(r.core) /\ r.watcher[w].trap = 0
             /\ \A v \in DOMAIN s.watcher : v # w => Stays(s, r, v) /\ r.watcher[v] = s.watcher[v]
  <2>1. /\ Settled(r.core) /\ r.watcher[w].trap = 0
        /\ \A v \in DOMAIN s.watcher : v # w => Stays(s2, r, v)
    BY <1>4, <1>6, ClosedStays
  <2>2. \A v \in DOMAIN s.watcher : v # w => r.watcher[v] = s2.watcher[v]
    BY <1>4, <1>6 DEF ClosedFor
  <2> QED BY <1>5, <2>1, <2>2, StaysTransitive
<1>7. ASSUME NEW s3, TriggeredFor(s2, s3, w, h, signals),
             r = IF Policy[w] = "kAutomatic" THEN Arm(s3, w) ELSE s3
      PROVE  /\ Settled(r.core) /\ Chained(r, w)
             /\ \A v \in DOMAIN s.watcher : v # w => Stays(s, r, v) /\ r.watcher[v] = s.watcher[v]
  <2>1. /\ Settled(s3.core) /\ s3.watcher = s2.watcher /\ Triggered(s3, w)
        /\ \A v \in DOMAIN s.watcher : v # w => Stays(s2, s3, v)
    BY <1>4, <1>7, TriggeredStays
  <2>2. Sound(s3, F)
    BY <1>4, <1>7, TriggeredSound
  <2>3. \A v \in DOMAIN s.watcher : v # w => Stays(s, s3, v) /\ s3.watcher[v] = s.watcher[v]
    BY <1>5, <2>1, StaysTransitive
  <2>4. CASE Policy[w] # "kAutomatic"
    <3>1. r = s3
      BY <1>7, <2>4
    <3> QED BY <1>4, <2>1, <2>3, <2>4, <3>1 DEF Chained
  <2>5. CASE Policy[w] = "kAutomatic"
    <3>1. r = Arm(s3, w)
      BY <1>7, <2>5
    <3>2. w \in DOMAIN s3.watcher /\ DOMAIN s3.watcher = DOMAIN s.watcher
      BY <1>4, <2>1
    <3>3. /\ Settled(r.core)
          /\ s3.watcher[w].trap # 0 => Up(r, w)
          /\ \A v \in DOMAIN s.watcher : Stays(s3, r, v)
      BY <2>1, <2>2, <3>1, <3>2, ArmStays
    <3>4. r.watcher = s3.watcher
      BY <2>2, <3>1, <3>2, ArmSound
    <3>5. \A v \in DOMAIN s.watcher : v # w => Stays(s, r, v) /\ r.watcher[v] = s.watcher[v]
      BY <2>3, <3>3, <3>4, StaysTransitive
    <3>6. Triggered(r, w) /\ Up(r, w) /\ r.watcher[w].alive /\ Settled(r.core)
      BY <1>4, <2>1, <3>2, <3>3, <3>4 DEF Stays
    <3> QED BY <3>5, <3>6 DEF Chained
  <2> QED BY <2>4, <2>5
<1> QED BY <1>1, <1>6, <1>7 DEF Chained, r

(* WhpPumpEvents posts a task for each event of the trap of a watcher.     *)
LEMMA PumpedStays ==
  ASSUME NEW F, NEW s, Sound(s, F), Settled(s.core), NoWatcher \notin DOMAIN s.watcher
  PROVE  LET r == Pumped(s)
         IN  Settled(r.core) /\ \A w \in DOMAIN s.watcher : Stays(s, r, w)
<1> DEFINE r == Pumped(s)
           W == s.watcher
<1>1. PICK U : r.tasks = s.tasks \o U /\ TasksFor(s, U)
  BY PumpedStages
<1>2. r.watcher = W /\ r.core = [s.core EXCEPT !.pending_events = <<>>]
  BY PumpedStages
<1> HIDE DEF r
<1>3. Typed(s.core) /\ Linked(s.core, s.table, W)
  BY DEF Sound
<1>4. r.core.slots = s.core.slots /\ r.core.pipes = s.core.pipes
  BY <1>2, <1>3, TakenLinked
<1>5. Settled(r.core)
  <2>1. SameEnds(s.core, r.core, {})
    BY <1>4 DEF SameEnds, IsA, Lookup
  <2>2. \A x : Matching(r.core, x) = Matching(s.core, x)
    BY <1>4, <2>1, MatchingSame
  <2> QED BY <1>4, <2>2 DEF Settled, IsA, Lookup
<1>6. /\ \A i \in DOMAIN s.tasks : \E j \in DOMAIN r.tasks : r.tasks[j] = s.tasks[i]
      /\ \A i \in DOMAIN U : \E j \in DOMAIN r.tasks : r.tasks[j] = U[i]
  <2>1. PICK S, R : s.tasks \in Seq(S) /\ U \in Seq(R)
    BY <1>1 DEF Sound, Posted, TasksFor
  <2>2. /\ \A i \in DOMAIN s.tasks : i \in DOMAIN (s.tasks \o U) /\ (s.tasks \o U)[i] = s.tasks[i]
        /\ \A i \in DOMAIN U : /\ Len(s.tasks) + i \in DOMAIN (s.tasks \o U)
                               /\ (s.tasks \o U)[Len(s.tasks) + i] = U[i]
    BY <2>1
  <2> QED BY <1>1, <2>2
<1>7. ASSUME NEW w \in DOMAIN W, W[w].trap # 0 PROVE Up(s, w) => Up(r, w)
  <2> DEFINE h == W[w].trap
  <2>1. ASSUME NEW i \in DOMAIN s.core.pending_events, EventOf(s.core, h, s.core.pending_events[i])
        PROVE  \E j \in DOMAIN r.tasks : r.tasks[j].watcher = w /\ r.tasks[j].trap_at_post = h
    <3> DEFINE e == s.core.pending_events[i]
    <3>1. Owned(s.core, s.table, W[w], w)
      BY <1>3, <1>7 DEF Linked
    <3>2. e.context = W[w].watcher_handle
      BY <2>1, <3>1 DEF EventOf, Owned
    <3>3. /\ s.table.entries[e.context].tag = WatcherTag
          /\ s.table.entries[e.context].payload = w
          /\ UsedAt(s.table, e.context)
      <4> HIDE DEF e
      <4>1. UsedAt(s.table, e.context) /\ s.table.entries[e.context] = Entry(WatcherTag, w)
        BY <3>1, <3>2 DEF Owned
      <4> QED BY <4>1 DEF Entry
    <3> HIDE DEF e
    <3>4. Resolve(s, e) = w
      BY <3>3 DEF Resolve, Get, UsedAt
    <3>5. w # NoWatcher
      OBVIOUS
    <3>6. PICK k \in DOMAIN U : U[k].watcher = w /\ U[k].trap_at_post = W[U[k].watcher].trap
      BY <1>1, <3>4, <3>5 DEF TasksFor, e
    <3>7. U[k].trap_at_post = h
      BY <3>6
    <3> HIDE DEF h, W
    <3> QED BY <1>6, <3>6, <3>7
  <2>2. (\E i \in DOMAIN s.tasks : s.tasks[i].watcher = w /\ s.tasks[i].trap_at_post = h) =>
          \E j \in DOMAIN r.tasks : r.tasks[j].watcher = w /\ r.tasks[j].trap_at_post = h
    <3> HIDE DEF h, W
    <3> QED BY <1>6
  <2>3. r.core.slots[h].obj.armed = s.core.slots[h].obj.armed
    BY <1>4
  <2> QED BY <1>2, <2>1, <2>2, <2>3 DEF Up
<1>8. ASSUME NEW w \in DOMAIN W, Triggered(s, w) PROVE Triggered(r, w)
  BY <1>2, <1>4, <1>8 DEF Triggered
<1> QED BY <1>2, <1>5, <1>7, <1>8 DEF Stays, r

(* The first task is taken: the chain of its watcher may pass through it.  *)
LEMMA TailStays ==
  ASSUME NEW F, NEW s, Sound(s, F), s.tasks # <<>>, NEW w \in DOMAIN s.watcher
  PROVE  LET r == [s EXCEPT !.tasks = Tail(@)]
             t == Head(s.tasks)
         IN  \/ t.watcher = w /\ t.trap_at_post = s.watcher[w].trap
             \/ Stays(s, r, w)
<1> DEFINE r == [s EXCEPT !.tasks = Tail(@)]
           t == Head(s.tasks)
           h == s.watcher[w].trap
<1>1. r.core = s.core /\ r.watcher = s.watcher /\ r.tasks = Tail(s.tasks)
  BY TailSound
<1> HIDE DEF r
<1>2. PICK S : s.tasks \in Seq(S)
  BY DEF Sound, Posted
<1>3. ASSUME NEW i \in DOMAIN s.tasks, i # 1
      PROVE  i - 1 \in DOMAIN r.tasks /\ r.tasks[i - 1] = s.tasks[i]
  BY <1>1, <1>2, <1>3
<1>4. t = s.tasks[1]
  BY <1>2
<1>5. ASSUME ~(t.watcher = w /\ t.trap_at_post = h)
      PROVE  (\E i \in DOMAIN s.tasks : s.tasks[i].watcher = w /\ s.tasks[i].trap_at_post = h) =>
               \E j \in DOMAIN r.tasks : r.tasks[j].watcher = w /\ r.tasks[j].trap_at_post = h
  BY <1>3, <1>4, <1>5
<1>6. ASSUME ~(t.watcher = w /\ t.trap_at_post = h) PROVE Stays(s, r, w)
  BY <1>1, <1>5, <1>6 DEF Stays, Up, Triggered
<1> QED BY <1>6 DEF r

=============================================================================
