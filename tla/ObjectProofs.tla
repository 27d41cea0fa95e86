---------------------------- MODULE ObjectProofs ----------------------------
(***************************************************************************)
(* Proofs about the objects besides pipes and traps in HolePunch's handle  *)
(* table: SharedBuffer's, and the messages of MessageContext.              *)
(***************************************************************************)
EXTENDS SharedBuffer, MessageContext, WhpLemmas, FiniteSetTheorems

\* A core with no trap, and with kinds of objects that WhpClose only frees.
Lean(c) == Table(c) /\ c.traps = <<>> /\ \E S : c.pending_events \in Seq(S)
LeanKinds == {"SharedBuffer", "Platform"}

\* d is c with an object of that kind at n.
Filled(c, d, n, kind, obj) ==
  /\ Lean(d) /\ ~Lookup(c, n) /\ IsA(d, n, kind) /\ d.slots[n].obj = obj
  /\ \A h, k : h # n => (IsA(d, h, k) <=> IsA(c, h, k))
  /\ \A h, k : IsA(c, h, k) => d.slots[h] = c.slots[h]
  /\ DOMAIN d.slots = DOMAIN c.slots \cup {n} /\ d.slots[n].kind = kind

\* d is c without the object at n.
Emptied(c, d, n) ==
  /\ Lean(d) /\ ~Lookup(d, n)
  /\ \A h, k : h # n => (IsA(d, h, k) <=> IsA(c, h, k))
  /\ \A h, k : IsA(d, h, k) => d.slots[h] = c.slots[h]
  /\ DOMAIN d.slots = DOMAIN c.slots /\ d.slots[n].kind = "Free"

(* Core::Alloc.                                                            *)
LEMMA AllocFills ==
  ASSUME NEW c, Lean(c), NEW kind \in LeanKinds, NEW obj
  PROVE  \E n : Filled(c, Alloc(c, kind, obj), n, kind, obj)
<1> DEFINE d == Alloc(c, kind, obj)
           n == NextHandle(c)
<1>1. kind # "Free"
  BY DEF LeanKinds
<1>2. Table(d) /\ Allocated(c, d, n, kind, obj)
  BY <1>1, AllocKeeps, AllocEffect DEF Lean
<1> HIDE DEF d, n
<1>3. Lean(d)
  BY <1>2 DEF Lean, Allocated, SameRest
<1>4. IsA(d, n, kind) /\ d.slots[n].obj = obj /\ d.slots[n].kind = kind
  BY <1>1, <1>2 DEF Allocated, IsA, Lookup
<1>5. \A h : IsA(c, h, c.slots[h].kind) => h # n
  BY <1>2 DEF Allocated, IsA
<1>6. \A h, k : IsA(c, h, k) => d.slots[h] = c.slots[h]
  BY <1>2, <1>5 DEF Allocated, IsA, Lookup
<1>7. \A h, k : h # n => (IsA(d, h, k) <=> IsA(c, h, k))
  BY <1>2 DEF Allocated, IsA, Lookup
<1>8. ~Lookup(c, n) /\ DOMAIN d.slots = DOMAIN c.slots \cup {n}
  BY <1>2 DEF Allocated
<1> QED BY <1>3, <1>4, <1>6, <1>7, <1>8 DEF Filled, d

(* Core::Free.                                                             *)
LEMMA FreeEmpties ==
  ASSUME NEW c, Lean(c), NEW n, Lookup(c, n)
  PROVE  Emptied(c, Free(c, n), n)
<1> DEFINE d == Free(c, n)
<1>1. n \in DOMAIN c.slots /\ c.slots[n].kind # "Free"
  BY DEF Lookup
<1>2. Table(d) /\ Freed(c, d, n)
  BY <1>1, FreeKeeps, FreeEffect DEF Lean
<1> HIDE DEF d
<1>3. d.slots[n].kind = "Free"
  BY <1>2 DEF Freed, FreeSlot
<1>4. Lean(d)
  BY <1>2 DEF Lean, Freed, SameRest
<1>5. ~Lookup(d, n)
  BY <1>3 DEF Lookup
<1>6. \A h, k : h # n => (IsA(d, h, k) <=> IsA(c, h, k))
  BY <1>2 DEF Freed, IsA, Lookup
<1>7. \A h, k : IsA(d, h, k) => d.slots[h] = c.slots[h]
  BY <1>2, <1>5 DEF Freed, IsA, Lookup
<1> QED BY <1>2, <1>3, <1>4, <1>5, <1>6, <1>7 DEF Emptied, Freed, d

(* WhpClose of a buffer or a platform handle.                              *)
LEMMA CloseEmpties ==
  ASSUME NEW c, Lean(c), NEW n, Lookup(c, n), c.slots[n].kind \in LeanKinds,
         \A h \in DOMAIN c.slots : c.slots[h].kind # "Trap"
  PROVE  Emptied(c, WhpClose(c, n), n)
<1> DEFINE b == Free(c, n)
           d == CollectTrapEvents(b)
<1>1. WhpClose(c, n) = d
  BY DEF WhpClose, LeanKinds
<1>2. Emptied(c, b, n)
  BY FreeEmpties
<1> HIDE DEF b
<1>3. \A h \in DOMAIN b.slots : b.slots[h].kind # "Trap"
  <2> SUFFICES ASSUME NEW h \in DOMAIN b.slots, b.slots[h].kind = "Trap" PROVE FALSE
    OBVIOUS
  <2>1. IsA(b, h, "Trap")
    BY DEF IsA, Lookup
  <2> QED BY <1>2, <2>1 DEF Emptied, IsA, Lookup
<1>4. TrapList(b) /\ TrapObjects(b)
  <2>1. b.traps = <<>> /\ <<>> \in Seq({}) /\ DOMAIN <<>> = {}
    BY <1>2 DEF Emptied, Lean
  <2> QED BY <1>3, <2>1 DEF TrapList, TrapObjects, IsInjective
<1>5. Collected(b, d) /\ Table(d)
  BY <1>2, <1>4, CollectEffect, CollectKeeps DEF Emptied, Lean
<1> HIDE DEF d
<1>6. \A h \in DOMAIN b.slots : d.slots[h] = b.slots[h]
  BY <1>3, <1>5 DEF Collected
<1>7. DOMAIN d.slots = DOMAIN b.slots /\ d.traps = b.traps /\ \E S : d.pending_events \in Seq(S)
  BY <1>5 DEF Collected
<1>8. \A h, k : (IsA(d, h, k) <=> IsA(b, h, k)) /\ (Lookup(d, h) <=> Lookup(b, h))
  BY <1>6, <1>7 DEF IsA, Lookup
<1>9. \A h, k : IsA(d, h, k) => d.slots[h] = c.slots[h]
  BY <1>2, <1>6, <1>8 DEF Emptied, IsA, Lookup
<1>10. d.slots[n].kind = "Free"
  BY <1>2, <1>6 DEF Emptied, Lookup
<1> QED BY <1>1, <1>2, <1>5, <1>7, <1>8, <1>9, <1>10 DEF Emptied, Lean

-----------------------------------------------------------------------------
(* SharedBuffer's invariant.                                               *)

\* What the handles of a table of buffers and platform handles name; n is the
\* number of buffers.
NamesObjects(c, n) ==
  \A h \in DOMAIN c.slots :
    /\ c.slots[h].kind \in {"Free", "SharedBuffer", "Platform"}
    /\ c.slots[h].kind = "SharedBuffer" => c.slots[h].obj.buffer \in 1..n
    /\ c.slots[h].kind = "Platform" => c.slots[h].obj.value \in Primitives

BufferObjects == [plat_values : SUBSET Primitives, plat_owns : BOOLEAN]

\* The entries of maps are the views that the client has, by their addresses.
Viewed(mp, W, n) ==
  /\ W \in [Buffers \X Offsets -> Nat]
  /\ \A b \in Buffers, o \in Offsets : W[<<b, o>>] # 0 =>
       o < Size /\ Address(b, o) \in DOMAIN mp /\ mp[Address(b, o)].buf = b
  /\ \A a \in DOMAIN mp : \E b \in Buffers, o \in Offsets :
       /\ b <= n /\ o < Size /\ a = Address(b, o) /\ W[<<b, o>>] # 0
       /\ mp[a] = [buf |-> b, refs |-> W[<<b, o>>]]

\* Who owns primitive v: a handle of c, or a buffer of B that is in R.
HandleOwns(c, h, v) == IsA(c, h, "Platform") /\ c.slots[h].obj.value = v
BufferOwns(B, R, b, v) == b \in R /\ B[b].plat_owns /\ v \in B[b].plat_values

\* A primitive has one owner if the core has it, and none if not.
OwnedOnce(c, B, R, H) ==
  /\ DOMAIN H = Primitives
  /\ \A v \in Primitives :
       /\ H[v] \in {"client", "core", "nobody"}
       /\ \A h, k : HandleOwns(c, h, v) /\ HandleOwns(c, k, v) => h = k
       /\ \A a, b : BufferOwns(B, R, a, v) /\ BufferOwns(B, R, b, v) => a = b
       /\ \A h, b : ~(HandleOwns(c, h, v) /\ BufferOwns(B, R, b, v))
       /\ H[v] = "core" <=> (\E h : HandleOwns(c, h, v)) \/ \E b : BufferOwns(B, R, b, v)

BufferState(c, B, mp, H, W) ==
  /\ Lean(c) /\ B \in Seq(BufferObjects) /\ Len(B) <= MaxBuffers
  /\ NamesObjects(c, Len(B)) /\ Viewed(mp, W, Len(B))
  /\ OwnedOnce(c, B, Referenced(c, mp), H)

BInv == BufferState(table, buffer, maps, holder, views)

(* The addresses of different views differ.                                *)
LEMMA AddressesDiffer ==
  ASSUME NEW a \in Buffers, NEW b \in Buffers, NEW o \in Offsets, NEW p \in Offsets,
         o < Size, p < Size, Address(a, o) = Address(b, p)
  PROVE  a = b /\ o = p
<1>1. Size \in Nat /\ MaxBuffers \in Nat /\ a \in Nat /\ b \in Nat /\ o \in Nat /\ p \in Nat
  BY SharedBufferAssumption DEF Buffers, Offsets
<1>2. ASSUME NEW x \in Nat, NEW y \in Nat, x < y PROVE x * Size + Size <= y * Size
  <2>1. PICK k \in Nat : y = x + 1 + k
    <3>1. y - x - 1 \in Nat /\ y = x + 1 + (y - x - 1)
      BY <1>2
    <3> QED BY <3>1
  <2>2. k * Size \in Nat /\ x * Size \in Nat
    BY <1>1
  <2>3. y * Size = x * Size + Size + k * Size
    BY <1>1, <2>1
  <2> QED BY <1>1, <2>2, <2>3
<1> DEFINE x == a - 1
           y == b - 1
<1>3. x \in Nat /\ y \in Nat
  BY <1>1 DEF Buffers
<1>4. x * Size + o = y * Size + p
  BY DEF Address
<1>5. a = x + 1 /\ b = y + 1
  BY <1>1
<1>6. x * Size \in Nat /\ y * Size \in Nat
  BY <1>1, <1>3
<1> HIDE DEF x, y
<1>7. ~(x < y) /\ ~(y < x)
  BY <1>1, <1>2, <1>3, <1>4, <1>6
<1>8. x = y
  BY <1>3, <1>7
<1> QED BY <1>1, <1>4, <1>5, <1>6, <1>8

(* What keeps a buffer alive.                                              *)
LEMMA ReferencedIs ==
  ASSUME NEW c, NEW mp, NEW b
  PROVE  b \in Referenced(c, mp) <=>
           \/ \E h : IsA(c, h, "SharedBuffer") /\ c.slots[h].obj.buffer = b
           \/ \E a \in DOMAIN mp : mp[a].buf = b
BY DEF Referenced, IsA, Lookup

\* Handle n comes to own the primitives in V, and buffer m those in U.
HandleComes(c, d, n, V) ==
  \A h, v : HandleOwns(d, h, v) <=> HandleOwns(c, h, v) \/ (h = n /\ v \in V)
BufferComes(B, R, C, Q, m, U) ==
  \A b, v : BufferOwns(C, Q, b, v) <=> BufferOwns(B, R, b, v) \/ (b = m /\ v \in U)
CoreGets(H, K, S) ==
  /\ DOMAIN K = Primitives
  /\ \A v \in Primitives : IF v \in S THEN H[v] # "core" /\ K[v] = "core" ELSE K[v] = H[v]

(* An owner comes for primitives that had none.                            *)
LEMMA OwnerComes ==
  ASSUME NEW c, NEW d, NEW B, NEW C, NEW R, NEW Q, NEW H, NEW K, OwnedOnce(c, B, R, H),
         NEW V, NEW U, V \cap U = {}, NEW n, NEW m,
         HandleComes(c, d, n, V), BufferComes(B, R, C, Q, m, U), CoreGets(H, K, V \cup U)
  PROVE  OwnedOnce(d, C, Q, K)
<1> USE DEF HandleComes, BufferComes, CoreGets
<1> SUFFICES ASSUME NEW v \in Primitives
             PROVE  /\ K[v] \in {"client", "core", "nobody"}
                    /\ \A h, k : HandleOwns(d, h, v) /\ HandleOwns(d, k, v) => h = k
                    /\ \A a, b : BufferOwns(C, Q, a, v) /\ BufferOwns(C, Q, b, v) => a = b
                    /\ \A h, b : ~(HandleOwns(d, h, v) /\ BufferOwns(C, Q, b, v))
                    /\ K[v] = "core" <=> \/ \E h : HandleOwns(d, h, v)
                                         \/ \E b : BufferOwns(C, Q, b, v)
  BY DEF OwnedOnce
<1>1. CASE v \in V \cup U
  <2>1. (\A h : ~HandleOwns(c, h, v)) /\ (\A b : ~BufferOwns(B, R, b, v)) /\ K[v] = "core"
    BY <1>1 DEF OwnedOnce
  <2> QED BY <1>1, <2>1
<1>2. CASE v \notin V \cup U
  BY <1>2 DEF OwnedOnce
<1> QED BY <1>1, <1>2

\* Owners go; a primitive that has lost its owner is not the core's.
OwnersLost(c, d, B, R, C, Q, H, K) ==
  /\ \A h, v : HandleOwns(d, h, v) => HandleOwns(c, h, v)
  /\ \A b, v : BufferOwns(C, Q, b, v) => BufferOwns(B, R, b, v)
  /\ DOMAIN K = Primitives
  /\ \A v \in Primitives :
       IF \/ \E h : HandleOwns(c, h, v) /\ ~HandleOwns(d, h, v)
          \/ \E b : BufferOwns(B, R, b, v) /\ ~BufferOwns(C, Q, b, v)
       THEN K[v] \in {"client", "nobody"} ELSE K[v] = H[v]

LEMMA OwnersGo ==
  ASSUME NEW c, NEW d, NEW B, NEW C, NEW R, NEW Q, NEW H, NEW K, OwnedOnce(c, B, R, H),
         OwnersLost(c, d, B, R, C, Q, H, K)
  PROVE  OwnedOnce(d, C, Q, K)
<1> USE DEF OwnersLost
<1> SUFFICES ASSUME NEW v \in Primitives
             PROVE  /\ K[v] \in {"client", "core", "nobody"}
                    /\ \A h, k : HandleOwns(d, h, v) /\ HandleOwns(d, k, v) => h = k
                    /\ \A a, b : BufferOwns(C, Q, a, v) /\ BufferOwns(C, Q, b, v) => a = b
                    /\ \A h, b : ~(HandleOwns(d, h, v) /\ BufferOwns(C, Q, b, v))
                    /\ K[v] = "core" <=> \/ \E h : HandleOwns(d, h, v)
                                         \/ \E b : BufferOwns(C, Q, b, v)
  BY DEF OwnedOnce
<1>1. /\ H[v] \in {"client", "core", "nobody"}
      /\ \A h, k : HandleOwns(c, h, v) /\ HandleOwns(c, k, v) => h = k
      /\ \A a, b : BufferOwns(B, R, a, v) /\ BufferOwns(B, R, b, v) => a = b
      /\ \A h, b : ~(HandleOwns(c, h, v) /\ BufferOwns(B, R, b, v))
      /\ H[v] = "core" <=> (\E h : HandleOwns(c, h, v)) \/ \E b : BufferOwns(B, R, b, v)
  BY DEF OwnedOnce
<1>2. CASE \E h : HandleOwns(c, h, v) /\ ~HandleOwns(d, h, v)
  <2>1. (\A h : ~HandleOwns(d, h, v)) /\ (\A b : ~BufferOwns(C, Q, b, v))
    BY <1>1, <1>2
  <2>2. K[v] \in {"client", "nobody"}
    BY <1>2
  <2> QED BY <2>1, <2>2
<1>3. CASE \E b : BufferOwns(B, R, b, v) /\ ~BufferOwns(C, Q, b, v)
  <2>1. (\A h : ~HandleOwns(d, h, v)) /\ (\A b : ~BufferOwns(C, Q, b, v))
    BY <1>1, <1>3
  <2>2. K[v] \in {"client", "nobody"}
    BY <1>3
  <2> QED BY <2>1, <2>2
<1>4. CASE /\ \A h : HandleOwns(c, h, v) => HandleOwns(d, h, v)
           /\ \A b : BufferOwns(B, R, b, v) => BufferOwns(C, Q, b, v)
  <2>1. /\ \A h : HandleOwns(c, h, v) <=> HandleOwns(d, h, v)
        /\ \A b : BufferOwns(B, R, b, v) <=> BufferOwns(C, Q, b, v)
        /\ K[v] = H[v]
    BY <1>4
  <2> QED BY <1>1, <2>1
<1> QED BY <1>2, <1>3, <1>4

\* d names the objects of c, and buffers b and primitives v besides.
Adds(c, d, b, v) ==
  /\ \A mp, x : x \in Referenced(d, mp) <=> x \in Referenced(c, mp) \/ x \in b
  /\ \E n : \A h, x : HandleOwns(d, h, x) <=> HandleOwns(c, h, x) \/ (h = n /\ x \in v)

(* A handle for a buffer.                                                  *)
LEMMA BufferNamed ==
  ASSUME NEW c, Lean(c), NEW obj, NEW n \in Nat, NEW m \in Nat, n <= m, NamesObjects(c, n),
         obj.buffer \in 1..m
  PROVE  LET d == Alloc(c, "SharedBuffer", obj)
         IN  Lean(d) /\ NamesObjects(d, m) /\ Adds(c, d, {obj.buffer}, {})
<1> DEFINE d == Alloc(c, "SharedBuffer", obj)
<1>1. PICK k : Filled(c, d, k, "SharedBuffer", obj)
  BY AllocFills DEF LeanKinds
<1> HIDE DEF d
<1>3. \A h \in DOMAIN d.slots : h # k => d.slots[h].kind = "Free" \/ d.slots[h] = c.slots[h]
  <2> SUFFICES ASSUME NEW h \in DOMAIN d.slots, h # k, d.slots[h].kind # "Free"
               PROVE  d.slots[h] = c.slots[h]
    OBVIOUS
  <2>1. IsA(d, h, d.slots[h].kind)
    BY DEF IsA, Lookup
  <2> QED BY <1>1, <2>1 DEF Filled
<1>4. NamesObjects(d, m)
  BY <1>1, <1>3 DEF NamesObjects, Filled
<1>5. \A mp, x : x \in Referenced(d, mp) <=> x \in Referenced(c, mp) \/ x = obj.buffer
  <2>1. \A x : (\E h : IsA(d, h, "SharedBuffer") /\ d.slots[h].obj.buffer = x)
               <=> \/ \E h : IsA(c, h, "SharedBuffer") /\ c.slots[h].obj.buffer = x
                   \/ x = obj.buffer
    BY <1>1 DEF Filled, IsA
  <2> QED BY <2>1, ReferencedIs
<1>6. \A h, x : HandleOwns(d, h, x) <=> HandleOwns(c, h, x)
  <2>1. ~IsA(d, k, "Platform") /\ ~IsA(c, k, "Platform")
    BY <1>1 DEF Filled, IsA
  <2> QED BY <1>1, <2>1 DEF Filled, HandleOwns
<1> QED BY <1>1, <1>4, <1>5, <1>6 DEF Adds, Filled, d

(* A handle for a primitive.                                               *)
LEMMA PrimitiveNamed ==
  ASSUME NEW c, Lean(c), NEW obj, NEW n \in Nat, NamesObjects(c, n), obj.value \in Primitives
  PROVE  LET d == Alloc(c, "Platform", obj)
         IN  Lean(d) /\ NamesObjects(d, n) /\ Adds(c, d, {}, {obj.value})
<1> DEFINE d == Alloc(c, "Platform", obj)
<1>1. PICK k : Filled(c, d, k, "Platform", obj)
  BY AllocFills DEF LeanKinds
<1> HIDE DEF d
<1>3. \A h \in DOMAIN d.slots : h # k => d.slots[h].kind = "Free" \/ d.slots[h] = c.slots[h]
  <2> SUFFICES ASSUME NEW h \in DOMAIN d.slots, h # k, d.slots[h].kind # "Free"
               PROVE  d.slots[h] = c.slots[h]
    OBVIOUS
  <2>1. IsA(d, h, d.slots[h].kind)
    BY DEF IsA, Lookup
  <2> QED BY <1>1, <2>1 DEF Filled
<1>4. NamesObjects(d, n)
  BY <1>1, <1>3 DEF NamesObjects, Filled
<1>5. \A mp, x : x \in Referenced(d, mp) <=> x \in Referenced(c, mp)
  <2>1. \A h : IsA(d, h, "SharedBuffer") <=> IsA(c, h, "SharedBuffer")
    BY <1>1 DEF Filled, IsA
  <2>2. \A x : (\E h : IsA(d, h, "SharedBuffer") /\ d.slots[h].obj.buffer = x)
               <=> \E h : IsA(c, h, "SharedBuffer") /\ c.slots[h].obj.buffer = x
    BY <1>1, <2>1 DEF Filled
  <2> QED BY <2>2, ReferencedIs
<1>6. \A h, x : HandleOwns(d, h, x) <=> HandleOwns(c, h, x) \/ (h = k /\ x = obj.value)
  BY <1>1 DEF Filled, HandleOwns, IsA
<1> QED BY <1>1, <1>4, <1>5, <1>6 DEF Adds, Filled, d

(* A handle goes.                                                          *)
LEMMA HandleGone ==
  ASSUME NEW c, NEW d, NEW k, Emptied(c, d, k), NEW n \in Nat, NamesObjects(c, n)
  PROVE  /\ Lean(d) /\ NamesObjects(d, n)
         /\ \A mp : Referenced(d, mp) \subseteq Referenced(c, mp)
         /\ \A mp, x : x \in Referenced(c, mp) \ Referenced(d, mp) =>
              IsA(c, k, "SharedBuffer") /\ x = c.slots[k].obj.buffer
         /\ \A h, x : HandleOwns(d, h, x) <=> h # k /\ HandleOwns(c, h, x)
<1>1. \A h \in DOMAIN d.slots : d.slots[h].kind = "Free" \/ d.slots[h] = c.slots[h]
  <2> SUFFICES ASSUME NEW h \in DOMAIN d.slots, d.slots[h].kind # "Free"
               PROVE  d.slots[h] = c.slots[h]
    OBVIOUS
  <2>1. IsA(d, h, d.slots[h].kind)
    BY DEF IsA, Lookup
  <2> QED BY <2>1 DEF Emptied
<1>2. NamesObjects(d, n)
  BY <1>1 DEF NamesObjects, Emptied
<1>3. \A h, j : IsA(d, h, j) <=> h # k /\ IsA(c, h, j)
  BY DEF Emptied, IsA
<1>4. \A h, x : HandleOwns(d, h, x) <=> h # k /\ HandleOwns(c, h, x)
  <2> SUFFICES ASSUME NEW h, NEW x PROVE HandleOwns(d, h, x) <=> h # k /\ HandleOwns(c, h, x)
    OBVIOUS
  <2>1. IsA(d, h, "Platform") => d.slots[h] = c.slots[h]
    BY DEF Emptied
  <2> QED BY <1>3, <2>1 DEF HandleOwns
<1>5. \A x : (\E h : IsA(d, h, "SharedBuffer") /\ d.slots[h].obj.buffer = x) <=>
             \E h : h # k /\ IsA(c, h, "SharedBuffer") /\ c.slots[h].obj.buffer = x
  <2>1. \A h : IsA(d, h, "SharedBuffer") => d.slots[h] = c.slots[h]
    BY DEF Emptied
  <2> QED BY <1>3, <2>1
<1>6. \A mp : Referenced(d, mp) \subseteq Referenced(c, mp)
  BY <1>5, ReferencedIs
<1>7. \A mp, x : x \in Referenced(c, mp) \ Referenced(d, mp) =>
        IsA(c, k, "SharedBuffer") /\ x = c.slots[k].obj.buffer
  BY <1>5, ReferencedIs
<1> QED BY <1>2, <1>4, <1>6, <1>7 DEF Emptied

(* More buffers.                                                           *)
LEMMA ViewedMore ==
  ASSUME NEW mp, NEW W, NEW n \in Nat, NEW m \in Nat, n <= m, Viewed(mp, W, n)
  PROVE  Viewed(mp, W, m)
<1>1. \A b \in Buffers : b <= n => b <= m
  BY SharedBufferAssumption DEF Buffers
<1>2. \A a \in DOMAIN mp : \E b \in Buffers, o \in Offsets :
        /\ b <= m /\ o < Size /\ a = Address(b, o) /\ W[<<b, o>>] # 0
        /\ mp[a] = [buf |-> b, refs |-> W[<<b, o>>]]
  BY <1>1 DEF Viewed
<1> QED BY <1>2 DEF Viewed

(* The buffers that are referenced exist.                                  *)
LEMMA ReferencedExist ==
  ASSUME NEW c, NEW n, NamesObjects(c, n), NEW mp, NEW W, Viewed(mp, W, n), n \in Nat
  PROVE  Referenced(c, mp) \subseteq 1..n
<1>1. \A h : IsA(c, h, "SharedBuffer") => c.slots[h].obj.buffer \in 1..n
  BY DEF NamesObjects, IsA, Lookup
<1>2. ASSUME NEW a \in DOMAIN mp PROVE mp[a].buf \in 1..n
  <2>1. PICK b \in Buffers, o \in Offsets : b <= n /\ mp[a] = [buf |-> b, refs |-> W[<<b, o>>]]
    BY DEF Viewed
  <2> QED BY <2>1 DEF Buffers
<1> QED BY <1>1, <1>2, ReferencedIs

-----------------------------------------------------------------------------
(* SharedBuffer's actions.                                                 *)

LEMMA BInvInit ==
  ASSUME BufferInit
  PROVE  BInv
<1>1. Lean(table)
  <2>1. Table(InitCore)
    BY DEF InitCore, Table, Shape, CoreFields, FreeListExactIn, IsInjective
  <2>2. InitCore.traps = <<>> /\ InitCore.pending_events \in Seq({})
    BY DEF InitCore
  <2> QED BY <2>1, <2>2 DEF Lean, BufferInit
<1>2. /\ \A h : ~Lookup(table, h)
      /\ DOMAIN table.slots = {}
  BY DEF BufferInit, InitCore, Lookup
<1>3. buffer = <<>> /\ buffer \in Seq(BufferObjects) /\ Len(buffer) = 0 /\ MaxBuffers \in Nat
  BY SharedBufferAssumption DEF BufferInit
<1>4. NamesObjects(table, 0)
  BY <1>2 DEF NamesObjects
<1>5. DOMAIN maps = {} /\ views \in [Buffers \X Offsets -> Nat]
      /\ \A b \in Buffers, o \in Offsets : views[<<b, o>>] = 0
  BY DEF BufferInit
<1>6. Viewed(maps, views, 0)
  BY <1>5 DEF Viewed
<1>7. \A b : b \notin Referenced(table, maps)
  BY <1>2, <1>5, ReferencedIs DEF IsA
<1>8. OwnedOnce(table, buffer, Referenced(table, maps), holder)
  BY <1>2, <1>7 DEF OwnedOnce, HandleOwns, BufferOwns, IsA, BufferInit
<1> QED BY <1>1, <1>3, <1>4, <1>6, <1>8 DEF BInv, BufferState

(* A buffer object is made, with the client's primitives if it owns any.   *)
LEMMA NewBufferStep ==
  ASSUME BInv, NEW V \in SUBSET Primitives, NEW owns \in BOOLEAN, NewBuffer(V, owns),
         V # {} => owns, CoreGets(holder, holder', V), UNCHANGED <<maps, views>>
  PROVE  BInv'
<1> DEFINE n == Len(buffer)
           x == [plat_values |-> V, plat_owns |-> owns]
           R == Referenced(table, maps)
<1>1. /\ Lean(table) /\ buffer \in Seq(BufferObjects) /\ n \in Nat /\ n <= MaxBuffers
      /\ NamesObjects(table, n) /\ Viewed(maps, views, n)
      /\ OwnedOnce(table, buffer, R, holder)
  BY DEF BInv, BufferState
<1>2. /\ buffer' = Append(buffer, x) /\ n < MaxBuffers
      /\ table' = Alloc(table, "SharedBuffer", [id |-> <<n + 1>>, buffer |-> n + 1])
  BY DEF NewBuffer
<1>3. /\ buffer' \in Seq(BufferObjects) /\ Len(buffer') = n + 1 /\ buffer'[n + 1] = x
      /\ \A b \in 1..n : buffer'[b] = buffer[b]
  BY <1>1, <1>2 DEF BufferObjects
<1>4. Lean(table') /\ NamesObjects(table', n + 1) /\ Adds(table, table', {n + 1}, {})
  <2> DEFINE obj == [id |-> <<n + 1>>, buffer |-> n + 1]
             m == n + 1
  <2>1. obj.buffer = m /\ m \in Nat /\ n <= m /\ obj.buffer \in 1..m
    BY <1>1
  <2>2. table' = Alloc(table, "SharedBuffer", obj)
    BY <1>2
  <2> HIDE DEF obj, m, n
  <2>3. Lean(table') /\ NamesObjects(table', m) /\ Adds(table, table', {obj.buffer}, {})
    BY <1>1, <2>1, <2>2, BufferNamed
  <2> QED BY <2>1, <2>3 DEF m
<1>5. MaxBuffers \in Nat
  BY SharedBufferAssumption
<1>6. Viewed(maps', views', n + 1)
  BY <1>1, ViewedMore
<1>7. R \subseteq 1..n
  BY <1>1, ReferencedExist
<1>8. \A b, v : BufferOwns(buffer', Referenced(table', maps'), b, v) <=>
                  BufferOwns(buffer, R, b, v) \/ (b = n + 1 /\ v \in V)
  <2>1. \A b : b \in Referenced(table', maps') <=> b \in R \/ b = n + 1
    BY <1>4 DEF Adds
  <2>2. n + 1 \notin R
    BY <1>1, <1>7
  <2>3. x.plat_values = V /\ x.plat_owns = owns
    OBVIOUS
  <2> HIDE DEF R, x
  <2> QED BY <1>3, <1>7, <2>1, <2>2, <2>3 DEF BufferOwns
<1>9. \A h, v : HandleOwns(table', h, v) <=> HandleOwns(table, h, v)
  BY <1>4 DEF Adds
<1>10. OwnedOnce(table', buffer', Referenced(table', maps'), holder')
  <2>1. CoreGets(holder, holder', {} \cup V)
    <3>1. {} \cup V = V
      OBVIOUS
    <3> QED BY <3>1
  <2>2. HandleComes(table, table', 0, {})
    BY <1>9 DEF HandleComes
  <2>3. BufferComes(buffer, R, buffer', Referenced(table', maps'), n + 1, V)
    BY <1>8 DEF BufferComes
  <2> HIDE DEF R, n, x
  <2> QED BY <1>1, <2>1, <2>2, <2>3, OwnerComes
<1> QED BY <1>2, <1>3, <1>4, <1>5, <1>6, <1>10 DEF BInv, BufferState

\* What BInv says, by its parts.
LEMMA BInvIs ==
  ASSUME BInv
  PROVE  /\ Lean(table) /\ buffer \in Seq(BufferObjects) /\ Len(buffer) \in Nat
         /\ DOMAIN buffer = 1..Len(buffer) /\ Len(buffer) <= MaxBuffers
         /\ NamesObjects(table, Len(buffer)) /\ Viewed(maps, views, Len(buffer))
         /\ OwnedOnce(table, buffer, Referenced(table, maps), holder)
         /\ Referenced(table, maps) \subseteq 1..Len(buffer)
         /\ \A h \in DOMAIN table.slots : table.slots[h].kind # "Trap"
<1>1. /\ Lean(table) /\ buffer \in Seq(BufferObjects) /\ Len(buffer) <= MaxBuffers
      /\ NamesObjects(table, Len(buffer)) /\ Viewed(maps, views, Len(buffer))
      /\ OwnedOnce(table, buffer, Referenced(table, maps), holder)
  BY DEF BInv, BufferState
<1>2. Len(buffer) \in Nat /\ DOMAIN buffer = 1..Len(buffer)
  BY <1>1
<1>3. Referenced(table, maps) \subseteq 1..Len(buffer)
  BY <1>1, <1>2, ReferencedExist
<1> QED BY <1>1, <1>2, <1>3 DEF NamesObjects

LEMMA DuplicateStep ==
  ASSUME BInv, NEW h, WhpDuplicateBufferHandle(h)
  PROVE  BInv'
<1> DEFINE n == Len(buffer)
           obj == table.slots[h].obj
           R == Referenced(table, maps)
           Q == Referenced(table', maps')
<1>1. /\ Lean(table) /\ buffer \in Seq(BufferObjects) /\ n \in Nat /\ n <= MaxBuffers
      /\ NamesObjects(table, n) /\ Viewed(maps, views, n)
      /\ OwnedOnce(table, buffer, R, holder)
  BY BInvIs
<1>2. /\ IsA(table, h, "SharedBuffer") /\ table' = Alloc(table, "SharedBuffer", obj)
      /\ UNCHANGED <<buffer, maps, holder, views>>
  BY DEF WhpDuplicateBufferHandle
<1>3. obj.buffer \in 1..n
  BY <1>1, <1>2 DEF NamesObjects, IsA, Lookup
<1>4. Lean(table') /\ NamesObjects(table', n) /\ Adds(table, table', {obj.buffer}, {})
  <2>1. n <= n
    BY <1>1
  <2> HIDE DEF n, obj
  <2> QED BY <1>1, <1>2, <1>3, <2>1, BufferNamed
<1>5. obj.buffer \in R
  BY <1>2, ReferencedIs
<1>6. Q = R
  <2>1. \A x : x \in Q <=> x \in Referenced(table, maps') \/ x \in {obj.buffer}
    BY <1>4 DEF Adds
  <2>2. Referenced(table, maps') = R
    BY <1>2
  <2> HIDE DEF obj, R, Q
  <2> QED BY <1>5, <2>1, <2>2
<1> HIDE DEF obj, R, Q
<1>7. OwnedOnce(table', buffer', Q, holder')
  <2>1. HandleComes(table, table', 0, {})
    BY <1>4 DEF Adds, HandleComes
  <2>2. BufferComes(buffer, R, buffer', Q, 0, {})
    BY <1>2, <1>6 DEF BufferComes
  <2>3. CoreGets(holder, holder', {} \cup {})
    BY <1>1, <1>2 DEF CoreGets, OwnedOnce
  <2> QED BY <1>1, <2>1, <2>2, <2>3, OwnerComes
<1> QED BY <1>1, <1>2, <1>4, <1>7 DEF BInv, BufferState, Q

(* WhpMapBuffer's entry of maps and the client's view.                     *)
LEMMA MappedViewed ==
  ASSUME NEW n \in Nat, Viewed(maps, views, n), n <= MaxBuffers,
         NEW b \in 1..n, NEW o \in Offsets, o < Size
  PROVE  LET mp == Mapped(Address(b, o), b)
         IN  /\ Viewed(mp, [views EXCEPT ![<<b, o>>] = @ + 1], n)
             /\ \A x : (\E a \in DOMAIN mp : mp[a].buf = x)
                         <=> x = b \/ \E a \in DOMAIN maps : maps[a].buf = x
<1> DEFINE a == Address(b, o)
           mp == Mapped(a, b)
           W == [views EXCEPT ![<<b, o>>] = @ + 1]
<1>1. b \in Buffers /\ MaxBuffers \in Nat
  BY SharedBufferAssumption DEF Buffers
<1>2. views \in [Buffers \X Offsets -> Nat]
  BY DEF Viewed
<1>3. /\ W \in [Buffers \X Offsets -> Nat] /\ W[<<b, o>>] = views[<<b, o>>] + 1
      /\ \A x \in Buffers, p \in Offsets : x # b \/ p # o => W[<<x, p>>] = views[<<x, p>>]
  BY <1>1, <1>2
<1>4. a \in DOMAIN maps => maps[a] = [buf |-> b, refs |-> views[<<b, o>>]]
  <2> SUFFICES ASSUME a \in DOMAIN maps PROVE maps[a] = [buf |-> b, refs |-> views[<<b, o>>]]
    OBVIOUS
  <2>1. PICK x \in Buffers, p \in Offsets :
          p < Size /\ a = Address(x, p) /\ maps[a] = [buf |-> x, refs |-> views[<<x, p>>]]
    BY DEF Viewed
  <2>2. x = b /\ p = o
    BY <1>1, <2>1, AddressesDiffer
  <2> QED BY <2>1, <2>2
<1>5. a \notin DOMAIN maps => views[<<b, o>>] = 0
  BY <1>1 DEF Viewed
<1>6. /\ DOMAIN mp = DOMAIN maps \cup {a} /\ mp[a] = [buf |-> b, refs |-> W[<<b, o>>]]
      /\ \A x \in DOMAIN maps : x # a => mp[x] = maps[x]
  <2>1. DOMAIN mp = DOMAIN maps \cup {a} /\ \A x \in DOMAIN maps : x # a => mp[x] = maps[x]
    BY DEF Mapped
  <2>2. mp[a] = [buf |-> b, refs |-> IF a \in DOMAIN maps THEN maps[a].refs + 1 ELSE 1]
    BY DEF Mapped
  <2>3. views[<<b, o>>] \in Nat
    BY <1>1, <1>2
  <2>4. (IF a \in DOMAIN maps THEN maps[a].refs + 1 ELSE 1) = W[<<b, o>>]
    BY <1>3, <1>4, <1>5, <2>3
  <2> QED BY <2>1, <2>2, <2>4
<1> HIDE DEF a, mp, W
<1>7. ASSUME NEW x \in Buffers, NEW p \in Offsets, W[<<x, p>>] # 0
      PROVE  p < Size /\ Address(x, p) \in DOMAIN mp /\ mp[Address(x, p)].buf = x
  <2>1. CASE x = b /\ p = o
    BY <1>6, <2>1 DEF a
  <2>2. CASE x # b \/ p # o
    <3>1. p < Size /\ Address(x, p) \in DOMAIN maps /\ maps[Address(x, p)].buf = x
      BY <1>3, <1>7, <2>2 DEF Viewed
    <3>2. Address(x, p) # a
      BY <1>1, <2>2, <3>1, AddressesDiffer DEF a
    <3> QED BY <1>6, <3>1, <3>2
  <2> QED BY <2>1, <2>2
<1>8. ASSUME NEW y \in DOMAIN mp
      PROVE  \E x \in Buffers, p \in Offsets :
               /\ x <= n /\ p < Size /\ y = Address(x, p) /\ W[<<x, p>>] # 0
               /\ mp[y] = [buf |-> x, refs |-> W[<<x, p>>]]
  <2>1. CASE y = a
    <3>1. W[<<b, o>>] # 0
      BY <1>1, <1>2, <1>3
    <3> QED BY <1>1, <1>6, <2>1, <3>1 DEF a
  <2>2. CASE y # a
    <3>1. y \in DOMAIN maps /\ mp[y] = maps[y]
      BY <1>6, <2>2
    <3>2. PICK x \in Buffers, p \in Offsets :
            /\ x <= n /\ p < Size /\ y = Address(x, p) /\ views[<<x, p>>] # 0
            /\ maps[y] = [buf |-> x, refs |-> views[<<x, p>>]]
      BY <3>1 DEF Viewed
    <3>3. x # b \/ p # o
      BY <2>2, <3>2 DEF a
    <3> QED BY <1>3, <3>1, <3>2, <3>3
  <2> QED BY <2>1, <2>2
<1>9. Viewed(mp, W, n)
  BY <1>3, <1>7, <1>8 DEF Viewed
<1>10. \A x : (\E y \in DOMAIN mp : mp[y].buf = x)
                <=> x = b \/ \E y \in DOMAIN maps : maps[y].buf = x
  BY <1>4, <1>6
<1> QED BY <1>9, <1>10 DEF mp, W, a

(* A view is unmapped: its entry of maps counts down, and goes at last.    *)
LEMMA UnmappedViewed ==
  ASSUME NEW n \in Nat, Viewed(maps, views, n), n <= MaxBuffers,
         NEW b \in Buffers, NEW o \in Offsets, views[<<b, o>>] > 0
  PROVE  LET mp == Unmapped(Address(b, o))
         IN  /\ Viewed(mp, [views EXCEPT ![<<b, o>>] = @ - 1], n)
             /\ \A x : (\E a \in DOMAIN mp : mp[a].buf = x)
                         => \E a \in DOMAIN maps : maps[a].buf = x
<1> DEFINE a == Address(b, o)
           mp == Unmapped(a)
           W == [views EXCEPT ![<<b, o>>] = @ - 1]
           i == views[<<b, o>>]
<1>1. views \in [Buffers \X Offsets -> Nat] /\ i \in Nat /\ i # 0 /\ i - 1 \in Nat
  BY DEF Viewed
<1>2. /\ W \in [Buffers \X Offsets -> Nat] /\ W[<<b, o>>] = i - 1
      /\ \A x \in Buffers, p \in Offsets : x # b \/ p # o => W[<<x, p>>] = views[<<x, p>>]
  BY <1>1
<1>3. o < Size /\ a \in DOMAIN maps
  BY <1>1 DEF Viewed
<1>4. maps[a] = [buf |-> b, refs |-> i]
  <2>1. PICK x \in Buffers, p \in Offsets :
          p < Size /\ a = Address(x, p) /\ maps[a] = [buf |-> x, refs |-> views[<<x, p>>]]
    BY <1>3 DEF Viewed
  <2>2. x = b /\ p = o
    BY <1>3, <2>1, AddressesDiffer
  <2> QED BY <2>1, <2>2
<1>5. /\ \A x \in DOMAIN mp : x # a => x \in DOMAIN maps /\ mp[x] = maps[x]
      /\ \A x \in DOMAIN maps : x # a => x \in DOMAIN mp
      /\ a \in DOMAIN mp <=> i > 1
      /\ a \in DOMAIN mp => mp[a] = [buf |-> b, refs |-> i - 1]
  <2>1. CASE i > 1
    <3>1. maps[a].refs > 1
      BY <1>4, <2>1
    <3>2. mp = [maps EXCEPT ![a].refs = @ - 1]
      BY <3>1 DEF Unmapped
    <3> HIDE DEF mp, a, i
    <3>3. mp[a] = [maps[a] EXCEPT !.refs = @ - 1]
      BY <1>3, <3>2
    <3>4. mp[a] = [buf |-> b, refs |-> i - 1]
      BY <1>4, <3>3
    <3> QED BY <1>3, <2>1, <3>2, <3>4
  <2>2. CASE ~(i > 1)
    <3>1. mp = [x \in DOMAIN maps \ {a} |-> maps[x]]
      BY <1>3, <1>4, <2>2 DEF Unmapped
    <3> HIDE DEF mp, a
    <3> QED BY <2>2, <3>1
  <2> QED BY <2>1, <2>2
<1> HIDE DEF a, mp, W, i
<1>6. ASSUME NEW x \in Buffers, NEW p \in Offsets, W[<<x, p>>] # 0
      PROVE  p < Size /\ Address(x, p) \in DOMAIN mp /\ mp[Address(x, p)].buf = x
  <2>1. CASE x = b /\ p = o
    <3>1. i > 1
      BY <1>1, <1>2, <1>6, <2>1
    <3> QED BY <1>3, <1>5, <2>1, <3>1 DEF a
  <2>2. CASE x # b \/ p # o
    <3>1. p < Size /\ Address(x, p) \in DOMAIN maps /\ maps[Address(x, p)].buf = x
      BY <1>2, <1>6, <2>2 DEF Viewed
    <3>2. Address(x, p) # a
      BY <1>3, <2>2, <3>1, AddressesDiffer DEF a
    <3> QED BY <1>5, <3>1, <3>2
  <2> QED BY <2>1, <2>2
<1>7. ASSUME NEW y \in DOMAIN mp
      PROVE  \E x \in Buffers, p \in Offsets :
               /\ x <= n /\ p < Size /\ y = Address(x, p) /\ W[<<x, p>>] # 0
               /\ mp[y] = [buf |-> x, refs |-> W[<<x, p>>]]
  <2>0. y \in DOMAIN maps
    BY <1>3, <1>5
  <2>1. PICK x \in Buffers, p \in Offsets :
          /\ x <= n /\ p < Size /\ y = Address(x, p) /\ views[<<x, p>>] # 0
          /\ maps[y] = [buf |-> x, refs |-> views[<<x, p>>]]
    BY <2>0 DEF Viewed
  <2>2. CASE y = a
    <3>1. x = b /\ p = o
      BY <1>3, <2>1, <2>2, AddressesDiffer DEF a
    <3>2. i - 1 # 0
      BY <1>1, <1>5, <2>2
    <3> QED BY <1>2, <1>5, <2>1, <2>2, <3>1, <3>2
  <2>3. CASE y # a
    <3>1. x # b \/ p # o
      BY <2>1, <2>3 DEF a
    <3> QED BY <1>2, <1>5, <2>1, <2>3, <3>1
  <2> QED BY <2>2, <2>3
<1>8. Viewed(mp, W, n)
  BY <1>2, <1>6, <1>7 DEF Viewed
<1>9. \A x : (\E y \in DOMAIN mp : mp[y].buf = x) => \E y \in DOMAIN maps : maps[y].buf = x
  BY <1>3, <1>4, <1>5
<1> QED BY <1>8, <1>9 DEF mp, W, a

LEMMA MapStep ==
  ASSUME BInv, NEW h, NEW o \in Offsets, NEW k \in Offsets, k > 0, WhpMapBuffer(h, o, k)
  PROVE  BInv'
<1> DEFINE n == Len(buffer)
           b == BufferOf(h)
           R == Referenced(table, maps)
           mp == Mapped(Address(b, o), b)
<1>1. /\ Lean(table) /\ buffer \in Seq(BufferObjects) /\ n \in Nat /\ n <= MaxBuffers
      /\ NamesObjects(table, n) /\ Viewed(maps, views, n)
      /\ OwnedOnce(table, buffer, R, holder)
  BY BInvIs
<1>2. /\ IsA(table, h, "SharedBuffer") /\ o + k <= Size /\ maps' = mp
      /\ views' = [views EXCEPT ![<<b, o>>] = @ + 1]
      /\ table' = table /\ buffer' = buffer /\ holder' = holder
  BY DEF WhpMapBuffer
<1>3. b \in 1..n
  BY <1>1, <1>2 DEF NamesObjects, IsA, Lookup, BufferOf
<1>4. o < Size
  BY <1>2, SharedBufferAssumption DEF Offsets
<1>5. /\ Viewed(maps', views', n)
      /\ \A x : (\E a \in DOMAIN mp : mp[a].buf = x) <=> x = b \/ \E a \in DOMAIN maps : maps[a].buf = x
  BY <1>1, <1>2, <1>3, <1>4, MappedViewed
<1>6. Referenced(table, mp) = R
  <2>1. b \in R
    BY <1>2, ReferencedIs DEF BufferOf
  <2>2. \A x : x \in Referenced(table, mp) <=> x \in R \/ x = b
    BY <1>5, ReferencedIs
  <2> HIDE DEF b, R, mp
  <2> QED BY <2>1, <2>2
<1>7. Referenced(table', maps') = R
  BY <1>2, <1>6
<1> HIDE DEF R, mp, b
<1>8. OwnedOnce(table', buffer', Referenced(table', maps'), holder')
  BY <1>1, <1>2, <1>7
<1> QED BY <1>1, <1>2, <1>5, <1>8 DEF BInv, BufferState

\* What Closed does, when the core has all that is closed.
LEMMA ClosedIs ==
  ASSUME NEW V, \A v \in Primitives : v \in V => holder[v] = "core", DOMAIN holder = Primitives
  PROVE  /\ DOMAIN Closed(V) = Primitives
         /\ \A v \in Primitives : Closed(V)[v] = IF v \in V THEN "nobody" ELSE holder[v]
BY DEF Closed

(* Handles and entries of maps go, and ~SharedBufferObj and ~PlatformObj   *)
(* close what they own.                                                    *)
LEMMA LettingGo ==
  ASSUME BInv, NEW d, NEW mp, Lean(d), NamesObjects(d, Len(buffer)),
         Referenced(d, mp) \subseteq Referenced(table, maps),
         \A h, v : HandleOwns(d, h, v) => HandleOwns(table, h, v),
         NEW V, \A v : v \in V <=> \E h : HandleOwns(table, h, v) /\ ~HandleOwns(d, h, v)
  PROVE  OwnedOnce(d, buffer, Referenced(d, mp), Closed(V \cup DiesWith(d, mp)))
<1> DEFINE R == Referenced(table, maps)
           Q == Referenced(d, mp)
           D == V \cup DiesWith(d, mp)
<1>1. OwnedOnce(table, buffer, R, holder) /\ DOMAIN holder = Primitives
  BY BInvIs DEF OwnedOnce
<1>2. \A v : v \in D <=> \/ \E h : HandleOwns(table, h, v) /\ ~HandleOwns(d, h, v)
                         \/ \E b : BufferOwns(buffer, R, b, v) /\ ~BufferOwns(buffer, Q, b, v)
  <2>1. \A v : v \in DiesWith(d, mp) <=> \E b : b \in R /\ b \notin Q /\ buffer[b].plat_owns
                                                /\ v \in buffer[b].plat_values
    BY DEF DiesWith
  <2> HIDE DEF R, Q
  <2> QED BY <2>1 DEF BufferOwns
<1>3. \A v \in Primitives : v \in D => holder[v] = "core"
  <2> HIDE DEF D, R, Q
  <2> QED BY <1>1, <1>2 DEF OwnedOnce
<1>4. /\ DOMAIN Closed(D) = Primitives
      /\ \A v \in Primitives : Closed(D)[v] = IF v \in D THEN "nobody" ELSE holder[v]
  <2> HIDE DEF D, R, Q
  <2> QED BY <1>1, <1>3, ClosedIs
<1> DEFINE K == Closed(D)
<1> HIDE DEF K, D
<1>5. OwnersLost(table, d, buffer, R, buffer, Q, holder, K)
  <2>1. \A b, v : BufferOwns(buffer, Q, b, v) => BufferOwns(buffer, R, b, v)
    BY DEF BufferOwns
  <2> HIDE DEF R, Q
  <2> QED BY <1>2, <1>4, <2>1 DEF OwnersLost, K
<1> HIDE DEF R, Q
<1>6. OwnedOnce(d, buffer, Q, K)
  BY <1>1, <1>5, OwnersGo
<1> QED BY <1>6 DEF K, D, Q

LEMMA UnmapStep ==
  ASSUME BInv, NEW b \in Buffers, NEW o \in Offsets, WhpUnmapBuffer(b, o)
  PROVE  BInv'
<1> DEFINE n == Len(buffer)
           mp == Unmapped(Address(b, o))
           D == DiesWith(table, mp)
<1>1. /\ Lean(table) /\ buffer \in Seq(BufferObjects) /\ n \in Nat /\ n <= MaxBuffers
      /\ NamesObjects(table, n) /\ Viewed(maps, views, n)
  BY BInvIs
<1>2. /\ views[<<b, o>>] > 0 /\ maps' = mp
      /\ views' = [views EXCEPT ![<<b, o>>] = @ - 1]
      /\ holder' = Closed(DiesWith(table, maps')) /\ table' = table /\ buffer' = buffer
  BY DEF WhpUnmapBuffer
<1>3. /\ Viewed(maps', views', n)
      /\ \A x : (\E a \in DOMAIN mp : mp[a].buf = x) => \E a \in DOMAIN maps : maps[a].buf = x
  BY <1>1, <1>2, UnmappedViewed
<1>4. Referenced(table, mp) \subseteq Referenced(table, maps)
  BY <1>3, ReferencedIs
<1> HIDE DEF mp, D
<1>5. OwnedOnce(table, buffer, Referenced(table, mp), Closed({} \cup D))
  <2> DEFINE V == {}
  <2>1. \A v : v \in V <=> \E h : HandleOwns(table, h, v) /\ ~HandleOwns(table, h, v)
    OBVIOUS
  <2> HIDE DEF V
  <2>2. OwnedOnce(table, buffer, Referenced(table, mp), Closed(V \cup DiesWith(table, mp)))
    BY <1>1, <1>4, <2>1, LettingGo
  <2> QED BY <2>2 DEF V, D
<1>6. {} \cup D = D
  OBVIOUS
<1>7. holder' = Closed(D)
  BY <1>2 DEF D
<1> QED BY <1>1, <1>2, <1>3, <1>5, <1>6, <1>7 DEF BInv, BufferState

LEMMA CloseStep ==
  ASSUME BInv, NEW h, Close(h)
  PROVE  BInv'
<1> DEFINE n == Len(buffer)
           d == WhpClose(table, h)
           V == ClosesNow(h)
           D == DiesWith(d, maps)
<1>1. /\ Lean(table) /\ buffer \in Seq(BufferObjects) /\ n \in Nat /\ n <= MaxBuffers
      /\ NamesObjects(table, n) /\ Viewed(maps, views, n)
      /\ \A k \in DOMAIN table.slots : table.slots[k].kind # "Trap"
  BY BInvIs
<1>2. /\ Lookup(table, h) /\ table' = d /\ maps' = maps /\ views' = views /\ buffer' = buffer
      /\ holder' = Closed(V \cup DiesWith(table', maps))
  BY DEF Close
<1>3. table.slots[h].kind \in LeanKinds
  BY <1>1, <1>2 DEF NamesObjects, Lookup, LeanKinds
<1>4. Emptied(table, d, h)
  BY <1>1, <1>2, <1>3, CloseEmpties
<1> HIDE DEF d
<1>5. /\ Lean(d) /\ NamesObjects(d, n) /\ Referenced(d, maps) \subseteq Referenced(table, maps)
      /\ \A k, v : HandleOwns(d, k, v) <=> k # h /\ HandleOwns(table, k, v)
  BY <1>1, <1>4, HandleGone
<1>6. \A v : v \in V <=> \E k : HandleOwns(table, k, v) /\ ~HandleOwns(d, k, v)
  <2>1. \A v : v \in V <=> HandleOwns(table, h, v)
    BY DEF ClosesNow, HandleOwns
  <2> HIDE DEF V
  <2> QED BY <1>5, <2>1
<1> HIDE DEF V
<1>7. OwnedOnce(d, buffer, Referenced(d, maps), Closed(V \cup D))
  BY <1>5, <1>6, LettingGo
<1>8. holder' = Closed(V \cup D)
  BY <1>2
<1> QED BY <1>1, <1>2, <1>5, <1>7, <1>8 DEF BInv, BufferState

LEMMA WrapHandleStep ==
  ASSUME BInv, NEW v \in Primitives, WhpWrapPlatformHandle(v)
  PROVE  BInv'
<1> DEFINE n == Len(buffer)
           obj == [id |-> <<v>>, value |-> v]
           R == Referenced(table, maps)
           Q == Referenced(table', maps')
<1>1. /\ Lean(table) /\ buffer \in Seq(BufferObjects) /\ n \in Nat /\ n <= MaxBuffers
      /\ NamesObjects(table, n) /\ Viewed(maps, views, n)
      /\ OwnedOnce(table, buffer, R, holder) /\ DOMAIN holder = Primitives
  BY BInvIs DEF OwnedOnce
<1>2. /\ holder[v] = "client" /\ table' = Alloc(table, "Platform", obj)
      /\ holder' = [holder EXCEPT ![v] = "core"]
      /\ maps' = maps /\ views' = views /\ buffer' = buffer
  BY DEF WhpWrapPlatformHandle
<1>3. Lean(table') /\ NamesObjects(table', n) /\ Adds(table, table', {}, {v})
  <2>1. obj.value = v
    OBVIOUS
  <2> HIDE DEF obj
  <2> QED BY <1>1, <1>2, <2>1, PrimitiveNamed
<1>4. Q = R
  <2>1. \A x : x \in Q <=> x \in Referenced(table, maps') \/ x \in {}
    BY <1>3 DEF Adds
  <2>2. Referenced(table, maps') = R
    BY <1>2
  <2> HIDE DEF R, Q
  <2> QED BY <2>1, <2>2
<1> HIDE DEF R, Q, obj
<1>5. PICK k : HandleComes(table, table', k, {v})
  BY <1>3 DEF Adds, HandleComes
<1>6. BufferComes(buffer, R, buffer', Q, 0, {})
  BY <1>2, <1>4 DEF BufferComes
<1>7. CoreGets(holder, holder', {v} \cup {})
  BY <1>1, <1>2 DEF CoreGets
<1>8. OwnedOnce(table', buffer', Q, holder')
  BY <1>1, <1>5, <1>6, <1>7, OwnerComes
<1> QED BY <1>1, <1>2, <1>3, <1>8 DEF BInv, BufferState, Q

LEMMA UnwrapHandleStep ==
  ASSUME BInv, NEW h, WhpUnwrapPlatformHandle(h)
  PROVE  BInv'
<1> DEFINE n == Len(buffer)
           d == Free(table, h)
           u == table.slots[h].obj.value
           R == Referenced(table, maps)
           Q == Referenced(d, maps)
<1>1. /\ Lean(table) /\ buffer \in Seq(BufferObjects) /\ n \in Nat /\ n <= MaxBuffers
      /\ NamesObjects(table, n) /\ Viewed(maps, views, n)
      /\ OwnedOnce(table, buffer, R, holder) /\ DOMAIN holder = Primitives
  BY BInvIs DEF OwnedOnce
<1>2. /\ IsA(table, h, "Platform") /\ table' = d /\ holder' = [holder EXCEPT ![u] = "client"]
      /\ maps' = maps /\ views' = views /\ buffer' = buffer
  BY DEF WhpUnwrapPlatformHandle
<1>3. Emptied(table, d, h)
  BY <1>1, <1>2, FreeEmpties DEF IsA
<1> HIDE DEF d
<1>4. /\ Lean(d) /\ NamesObjects(d, n) /\ Q \subseteq R
      /\ \A x : x \in R \ Q => IsA(table, h, "SharedBuffer")
      /\ \A k, v : HandleOwns(d, k, v) <=> k # h /\ HandleOwns(table, k, v)
  BY <1>1, <1>3, HandleGone
<1>5. Q = R
  BY <1>2, <1>4 DEF IsA
<1> HIDE DEF R, Q, u
<1>6. OwnersLost(table, d, buffer, R, buffer, Q, holder, holder')
  <2>1. \A v \in Primitives : (\E k : HandleOwns(table, k, v) /\ ~HandleOwns(d, k, v)) <=> v = u
    BY <1>2, <1>4 DEF HandleOwns, u
  <2>2. /\ DOMAIN holder' = Primitives
        /\ \A v \in Primitives : holder'[v] = IF v = u THEN "client" ELSE holder[v]
    BY <1>1, <1>2
  <2> QED BY <1>4, <1>5, <2>1, <2>2 DEF OwnersLost
<1>7. OwnedOnce(d, buffer, Q, holder')
  BY <1>1, <1>6, OwnersGo
<1> QED BY <1>1, <1>2, <1>4, <1>7 DEF BInv, BufferState, Q

(* The primitives of a buffer are given back.                              *)
LEMMA UnwrapStep ==
  ASSUME BInv, ~UnwrapTwice, NEW h, WhpUnwrapPlatformSharedMemoryRegion(h, "client")
  PROVE  BInv'
<1> DEFINE n == Len(buffer)
           b == BufferOf(h)
           d == Free(table, h)
           V == buffer[b].plat_values
           B == Disowned(b)
           R == Referenced(table, maps)
           Q == Referenced(d, maps)
<1>1. /\ Lean(table) /\ buffer \in Seq(BufferObjects) /\ n \in Nat /\ n <= MaxBuffers
      /\ DOMAIN buffer = 1..n
      /\ NamesObjects(table, n) /\ Viewed(maps, views, n)
      /\ OwnedOnce(table, buffer, R, holder)
  BY BInvIs
<1>2. /\ IsA(table, h, "SharedBuffer") /\ buffer[b].plat_owns /\ table' = d /\ buffer' = B
      /\ holder' = [v \in Primitives |-> IF v \in V THEN "client" ELSE holder[v]]
      /\ maps' = maps /\ views' = views
  BY DEF WhpUnwrapPlatformSharedMemoryRegion
<1>3. b \in 1..n /\ b \in R
  BY <1>1, <1>2, ReferencedIs DEF NamesObjects, IsA, Lookup, BufferOf
<1>4. Emptied(table, d, h)
  BY <1>1, <1>2, FreeEmpties DEF IsA
<1> HIDE DEF d
<1>5. /\ Lean(d) /\ NamesObjects(d, n) /\ Q \subseteq R
      /\ \A x : x \in R \ Q => x = b
      /\ \A k, v : HandleOwns(d, k, v) <=> k # h /\ HandleOwns(table, k, v)
  BY <1>1, <1>4, HandleGone DEF BufferOf
<1>6. \A k, v : HandleOwns(d, k, v) <=> HandleOwns(table, k, v)
  BY <1>2, <1>5 DEF HandleOwns, IsA
<1>7. /\ B \in Seq(BufferObjects) /\ Len(B) = n /\ ~B[b].plat_owns
      /\ \A x \in 1..n : x # b => B[x] = buffer[x]
  <2>1. B = [buffer EXCEPT ![b] = [buffer[b] EXCEPT !.plat_owns = FALSE]]
    BY DEF Disowned
  <2>2. buffer[b] \in BufferObjects
    BY <1>1, <1>3
  <2>3. /\ [buffer[b] EXCEPT !.plat_owns = FALSE] \in BufferObjects
        /\ ~[buffer[b] EXCEPT !.plat_owns = FALSE].plat_owns
    BY <2>2 DEF BufferObjects
  <2> HIDE DEF B
  <2> QED BY <1>1, <1>3, <2>1, <2>3
<1>8. R \subseteq 1..n
  BY BInvIs
<1> HIDE DEF R, Q, b, B
<1>9. \A x, v : BufferOwns(B, Q, x, v) <=> x # b /\ BufferOwns(buffer, R, x, v)
  BY <1>5, <1>7, <1>8 DEF BufferOwns
<1>10. OwnersLost(table, d, buffer, R, B, Q, holder, holder')
  <2>1. \A v : (\E x : BufferOwns(buffer, R, x, v) /\ ~BufferOwns(B, Q, x, v)) <=> v \in V
    BY <1>2, <1>3, <1>9 DEF BufferOwns
  <2>2. /\ DOMAIN holder' = Primitives
        /\ \A v \in Primitives : holder'[v] = IF v \in V THEN "client" ELSE holder[v]
    BY <1>2
  <2> QED BY <1>6, <1>9, <2>1, <2>2 DEF OwnersLost
<1>11. OwnedOnce(d, B, Q, holder')
  BY <1>1, <1>10, OwnersGo
<1> QED BY <1>1, <1>2, <1>5, <1>7, <1>11 DEF BInv, BufferState, Q

(* The entries of BufferNext.                                              *)
LEMMA BufferStep ==
  ASSUME BInv, BufferNext, ~ZeroLength, ~NullArray, ~UnwrapTwice
  PROVE  BInv'
<1>1. DOMAIN holder = Primitives
  BY BInvIs DEF OwnedOnce
<1>2. ASSUME WhpCreateSharedBuffer PROVE BInv'
  <2> DEFINE V == {}
  <2>1. NewBuffer(V, FALSE) /\ UNCHANGED <<maps, views>> /\ holder' = holder
    BY <1>2 DEF WhpCreateSharedBuffer
  <2>2. FALSE \in BOOLEAN /\ V \in SUBSET Primitives /\ ~(V # {})
    OBVIOUS
  <2>3. CoreGets(holder, holder', V)
    BY <1>1, <2>1 DEF CoreGets
  <2> HIDE DEF V
  <2> QED BY <2>1, <2>2, <2>3, NewBufferStep
<1>3. ASSUME NEW values \in SUBSET Primitives, MojoWrapPlatformSharedMemoryRegion(values)
      PROVE  BInv'
  <2>1. /\ NewBuffer(values, TRUE) /\ UNCHANGED <<maps, views>>
        /\ \A v \in values : holder[v] = "client"
        /\ holder' = [v \in Primitives |-> IF v \in values THEN "core" ELSE holder[v]]
    BY <1>3 DEF MojoWrapPlatformSharedMemoryRegion, WhpWrapPlatformSharedMemoryRegion
  <2>2. CoreGets(holder, holder', values)
    BY <2>1 DEF CoreGets
  <2>3. TRUE \in BOOLEAN
    OBVIOUS
  <2> QED BY <2>1, <2>2, <2>3, NewBufferStep
<1>4. ASSUME NEW h, NEW offset \in Offsets, NEW num_bytes \in Offsets,
             num_bytes > 0 \/ ZeroLength, WhpMapBuffer(h, offset, num_bytes)
      PROVE  BInv'
  BY <1>4, MapStep
<1>5. ASSUME NEW h, NEW n, NEW array \in {TRUE, ~NullArray},
             MojoUnwrapPlatformSharedMemoryRegion(h, n, array)
      PROVE  BInv'
  <2>1. array
    BY <1>5
  <2>2. WhpUnwrapPlatformSharedMemoryRegion(h, "client")
    BY <1>5, <2>1 DEF MojoUnwrapPlatformSharedMemoryRegion
  <2> QED BY <2>2, UnwrapStep
<1> QED BY <1>2, <1>3, <1>4, <1>5, DuplicateStep, UnmapStep, WrapHandleStep,
           UnwrapHandleStep, CloseStep DEF BufferNext

LEMMA BInvAlways ==
  ASSUME ~ZeroLength, ~NullArray, ~UnwrapTwice
  PROVE  BufferSpec => []BInv
<1>1. BufferInit => BInv
  BY BInvInit
<1>2. BInv /\ [BufferNext]_bufferVars => BInv'
  <2> SUFFICES ASSUME BInv, [BufferNext]_bufferVars PROVE BInv'
    OBVIOUS
  <2>1. CASE BufferNext
    BY <2>1, BufferStep
  <2>2. CASE UNCHANGED bufferVars
    BY <2>2 DEF bufferVars, BInv, BufferState
  <2> QED BY <2>1, <2>2
<1> QED BY <1>1, <1>2, PTL DEF BufferSpec

(* A set of at most one element, by its cardinality.                       *)
LEMMA AtMostOne ==
  ASSUME NEW S, \A x, y \in S : x = y
  PROVE  Cardinality(S) = IF S = {} THEN 0 ELSE 1
<1>1. CASE S = {}
  BY <1>1, FS_EmptySet
<1>2. CASE S # {}
  <2>1. PICK x : x \in S
    BY <1>2
  <2>2. S = {x}
    BY <2>1
  <2> QED BY <2>2, FS_Singleton
<1> QED BY <1>1, <1>2

LEMMA Accounted ==
  ASSUME BInv
  PROVE  PrimitivesAccounted
<1> DEFINE R == Referenced(table, maps)
<1>1. OwnedOnce(table, buffer, R, holder)
  BY BInvIs
<1> HIDE DEF R
<1> SUFFICES ASSUME NEW v \in Primitives
             PROVE  /\ holder[v] \notin {"closed by mistake", "lost"}
                    /\ Cardinality(PlatformHandles(v)) + Cardinality(OwningBuffers(v))
                         = IF holder[v] = "core" THEN 1 ELSE 0
  BY DEF PrimitivesAccounted
<1> DEFINE P == PlatformHandles(v)
           O == OwningBuffers(v)
<1>2. \A h : h \in P <=> HandleOwns(table, h, v)
  BY DEF PlatformHandles, HandleOwns, IsA, Lookup
<1>3. \A b : b \in O <=> BufferOwns(buffer, R, b, v)
  BY DEF OwningBuffers, BufferOwns, R
<1> HIDE DEF P, O
<1>4. /\ \A x, y \in P : x = y
      /\ \A x, y \in O : x = y
      /\ P = {} \/ O = {}
      /\ holder[v] = "core" <=> P # {} \/ O # {}
      /\ holder[v] \in {"client", "core", "nobody"}
  BY <1>1, <1>2, <1>3 DEF OwnedOnce
<1>5. /\ Cardinality(P) = IF P = {} THEN 0 ELSE 1
      /\ Cardinality(O) = IF O = {} THEN 0 ELSE 1
  BY <1>4, AtMostOne
<1>6. Cardinality(P) + Cardinality(O) = IF holder[v] = "core" THEN 1 ELSE 0
  BY <1>4, <1>5
<1> QED BY <1>4, <1>6 DEF P, O

LEMMA Alive ==
  ASSUME BInv
  PROVE  MappingsAlive
<1>1. Viewed(maps, views, Len(buffer))
  BY BInvIs
<1> SUFFICES ASSUME NEW b \in Buffers, NEW offset \in Offsets, views[<<b, offset>>] > 0
             PROVE  LET a == Address(b, offset)
                    IN  /\ a \in DOMAIN maps /\ maps[a].buf = b
                        /\ maps[a].refs = views[<<b, offset>>]
  BY DEF MappingsAlive
<1> DEFINE a == Address(b, offset)
<1>2. views[<<b, offset>>] # 0
  <2>1. views[<<b, offset>>] \in Nat
    BY <1>1 DEF Viewed
  <2> QED BY <2>1
<1>3. offset < Size /\ a \in DOMAIN maps
  BY <1>1, <1>2 DEF Viewed
<1>4. PICK x \in Buffers, p \in Offsets :
        p < Size /\ a = Address(x, p) /\ maps[a] = [buf |-> x, refs |-> views[<<x, p>>]]
  <2> HIDE DEF a
  <2> QED BY <1>1, <1>3 DEF Viewed
<1>5. x = b /\ p = offset
  BY <1>3, <1>4, AddressesDiffer
<1> HIDE DEF a
<1>6. a \in DOMAIN maps /\ maps[a].buf = b /\ maps[a].refs = views[<<b, offset>>]
  BY <1>3, <1>4, <1>5
<1> QED BY <1>6 DEF a

\* The primitive the core has is owned by exactly one live object and one that
\* was given back by none, so that none is closed twice, too early or never;
\* and what a client has mapped stays until it has unmapped it as often as it
\* mapped it (WhpWrap..., WhpUnwrap..., WhpMapBuffer, WhpUnmapBuffer, WhpClose).
\* The clients map at least a byte, pass an array for the primitives of a region
\* and unwrap a region once.
THEOREM BuffersTheorem ==
  ASSUME ~ZeroLength, ~NullArray, ~UnwrapTwice
  PROVE  BufferSpec => []BuffersAreExact
<1>1. BInv => BuffersAreExact
  BY Accounted, Alive DEF BuffersAreExact
<1> QED BY <1>1, BInvAlways, PTL

-----------------------------------------------------------------------------
(* Message contexts: the states of MessageContext that its steps keep.     *)

\* Where a message object of a core is: at a handle or in a queue of its pipe.
IsMsg(c, h) == IsA(c, h, "Message")
IdAt(c, h) == c.slots[h].obj.id
QueueOf(c, e) == c.pipes[1].queues[e]
HeldIn(c) == {n \in 1..c.messages :
  \/ \E h \in DOMAIN c.slots : IsMsg(c, h) /\ IdAt(c, h) = <<n>>
  \/ \E e \in 0..1 : \E i \in DOMAIN QueueOf(c, e) : QueueOf(c, e)[i].id = <<n>>}

\* Every message object that was made and is still there is in one place.
Placed(c) ==
  /\ \A h : IsMsg(c, h) => \E n \in 1..c.messages : IdAt(c, h) = <<n>>
  /\ \A e \in 0..1 : \A i \in DOMAIN QueueOf(c, e) :
       \E n \in 1..c.messages : QueueOf(c, e)[i].id = <<n>>
  /\ \A h, g : IsMsg(c, h) /\ IsMsg(c, g) /\ h # g => IdAt(c, h) # IdAt(c, g)
  /\ \A h : \A e \in 0..1 : \A i \in DOMAIN QueueOf(c, e) :
       IsMsg(c, h) => IdAt(c, h) # QueueOf(c, e)[i].id
  /\ \A e, f \in 0..1 : \A i \in DOMAIN QueueOf(c, e), j \in DOMAIN QueueOf(c, f) :
       e # f \/ i # j => QueueOf(c, e)[i].id # QueueOf(c, f)[j].id
Piped(c) == Typed(c) /\ Len(c.pipes) = 1 /\ c.messages <= MaxMessages /\ Placed(c)

\* The states of a call.
Plain == [at : {"idle"}]
Serials == [at : {"serializer", "commit"}, message : Nat, ctx : Nat, run : BOOLEAN,
            pipe : {0, Sender}]
Destroys == [at : {"destructor"}, message : Nat, ctx : Nat, pipe : {0, Sender}]
Writes == [at : {"write"}, message : Nat, pipe : {Sender}]
Calls == Plain \cup Serials \cup Destroys \cup Writes
Bonds == [context : Nat, serializer : BOOLEAN, destructor : BOOLEAN]
Passes == [message : 1..MaxMessages, serializer : BOOLEAN, destructor : BOOLEAN,
           serialized : Nat, destroyed : Nat]

CtxTypes ==
  /\ shared \in BOOLEAN /\ Piped(core)
  /\ msg \in [1..MaxMessages -> Bonds]
  /\ call \in [Threads -> Calls]
  /\ context \in Seq(Passes)
  /\ mine \in [Threads -> SUBSET Nat]
  /\ \A t \in Threads : \A m \in mine[t] : IsMsg(core, m)

Destroyer(t, k) == call[t].at = "destructor" /\ call[t].ctx = k
Serializer(t, k) == call[t].at = "serializer" /\ call[t].run /\ call[t].ctx = k

\* What a message keeps of a context is what was passed with it.
Bound ==
  /\ \A n \in 1..MaxMessages :
       /\ msg[n].context = 0 => ~msg[n].serializer /\ ~msg[n].destructor
       /\ msg[n].context # 0 =>
            /\ msg[n].context \in DOMAIN context /\ context[msg[n].context].message = n
            /\ n <= core.messages
  /\ \A t \in Threads : call[t].at = "destructor" => call[t].ctx \in DOMAIN context
  /\ \A t \in Threads : call[t].at = "serializer" /\ call[t].run => call[t].ctx \in DOMAIN context

\* A destructor has run, or a thread will run it, or a message has it.
OnceDestroyed ==
  \A k \in DOMAIN context :
    /\ context[k].destroyed \in {0, 1}
    /\ context[k].destroyed = 1 => \A t \in Threads : ~Destroyer(t, k)
    /\ \A t, u \in Threads : Destroyer(t, k) /\ Destroyer(u, k) => t = u
    /\ \A n \in 1..MaxMessages : msg[n].context = k /\ (msg[n].destructor \/ n \in HeldIn(core)) =>
         context[k].destroyed = 0 /\ \A t \in Threads : ~Destroyer(t, k)

\* The same for a serializer.
OnceSerialized ==
  \A k \in DOMAIN context :
    /\ context[k].serialized \in {0, 1}
    /\ context[k].serialized = 1 => \A t \in Threads : ~Serializer(t, k)
    /\ \A t, u \in Threads : Serializer(t, k) /\ Serializer(u, k) => t = u
    /\ \A n \in 1..MaxMessages : msg[n].context = k /\ msg[n].serializer =>
         context[k].serialized = 0 /\ \A t \in Threads : ~Serializer(t, k)

Both(k) == context[k].serializer /\ context[k].destructor
InSerialize(t) == call[t].at \in {"serializer", "commit"}
InWrite(t) == call[t].at = "write" \/ (call[t].at = "destructor" /\ call[t].pipe # 0)

\* With threads that keep to their own messages: the message of a call is
\* still the thread's, its context is the one the call took the serializer of,
\* and is gone before the message is written.
AloneThread(t) ==
  /\ InSerialize(t) \/ InWrite(t) => call[t].message \in mine[t]
  /\ InSerialize(t) =>
       /\ ~msg[MsgOf(call[t].message)].serializer
       /\ call[t].at = "serializer" /\ call[t].run =>
            msg[MsgOf(call[t].message)].context = call[t].ctx
  /\ InWrite(t) =>
       LET b == msg[MsgOf(call[t].message)] IN ~(b.destructor /\ context[b.context].serializer)
AloneMsg(n) ==
  msg[n].destructor /\ ~msg[n].serializer /\ context[msg[n].context].serializer =>
    \E t \in Threads : InSerialize(t) /\ MsgOf(call[t].message) = n
AloneContext(k) ==
  Both(k) =>
    \/ context[k].destroyed = 1
    \/ \E t \in Threads : Destroyer(t, k)
    \/ LET n == context[k].message
       IN  msg[n].context = k /\ msg[n].destructor /\ n \in HeldIn(core)
Apart == \A t, u \in Threads : t # u => mine[t] \cap mine[u] = {}
Alone ==
  /\ Apart
  /\ \A t \in Threads : AloneThread(t)
  /\ \A n \in 1..MaxMessages : AloneMsg(n)
  /\ \A k \in DOMAIN context : AloneContext(k)

CtxInv == CtxTypes /\ Bound /\ OnceDestroyed /\ OnceSerialized /\ (~shared => Alone)


-----------------------------------------------------------------------------
(* What the operations of the core do to the places of message objects.    *)

\* The handles outside S hold the same messages.
SameMsgs(c, d, S) ==
  \A h : h \notin S => /\ IsMsg(d, h) <=> IsMsg(c, h)
                       /\ IsMsg(c, h) => IdAt(d, h) = IdAt(c, h)
SameQueues(c, d) == \A e \in 0..1 : QueueOf(d, e) = QueueOf(c, e)

MsgStay(c, d) == SameMsgs(c, d, {}) /\ SameQueues(c, d) /\ d.messages = c.messages
MsgMade(c, d, n) ==
  /\ ~IsMsg(c, n) /\ IsMsg(d, n) /\ IdAt(d, n) = <<c.messages + 1>>
  /\ SameMsgs(c, d, {n}) /\ SameQueues(c, d) /\ d.messages = c.messages + 1
MsgGone(c, d, m) ==
  /\ IsMsg(c, m) /\ ~IsMsg(d, m)
  /\ SameMsgs(c, d, {m}) /\ SameQueues(c, d) /\ d.messages = c.messages
MsgQueued(c, d, m) ==
  /\ IsMsg(c, m) /\ ~IsMsg(d, m) /\ SameMsgs(c, d, {m}) /\ d.messages = c.messages
  /\ \E e \in 0..1, x \in Msgs :
       /\ x.id = IdAt(c, m) /\ QueueOf(d, e) = Append(QueueOf(c, e), x)
       /\ QueueOf(d, 1 - e) = QueueOf(c, 1 - e)
MsgRead(c, d, n) ==
  /\ ~IsMsg(c, n) /\ IsMsg(d, n) /\ SameMsgs(c, d, {n}) /\ d.messages = c.messages
  /\ \E e \in 0..1 :
       /\ QueueOf(c, e) # <<>> /\ IdAt(d, n) = Head(QueueOf(c, e)).id
       /\ QueueOf(d, e) = Tail(QueueOf(c, e))
       /\ QueueOf(d, 1 - e) = QueueOf(c, 1 - e)

(* The queues of the pipe are sequences of messages.                       *)
LEMMA QueuesTyped ==
  ASSUME NEW c, Typed(c), Len(c.pipes) = 1
  PROVE  /\ c.messages \in Nat
         /\ \A e \in 0..1 : QueueOf(c, e) \in Seq(Msgs)
         /\ \A h : IsMsg(c, h) => h \in Nat /\ h \in DOMAIN c.slots /\ c.slots[h].obj \in Msgs
<1>1. c.pipes[1] \in PipeStates
  BY DEF Typed
<1>2. \A e \in 0..1 : QueueOf(c, e) \in Seq(Msgs)
  BY <1>1 DEF PipeStates, QueueOf
<1>3. ASSUME NEW h, IsMsg(c, h)
      PROVE  h \in Nat /\ h \in DOMAIN c.slots /\ c.slots[h].obj \in Msgs
  <2>1. h \in DOMAIN c.slots /\ c.slots[h].kind = "Message"
    BY <1>3 DEF IsMsg, IsA, Lookup
  <2>2. h \in Nat
    BY <2>1 DEF Typed, Table, Shape
  <2> QED BY <2>1, <2>2 DEF Typed, SlotTyped
<1> QED BY <1>2, <1>3 DEF Typed

(* An id names one message.                                                *)
LEMMA IdNames ==
  ASSUME NEW n, NEW k, <<n>> = <<k>>
  PROVE  n = k
OBVIOUS

(* Who holds a message object.                                             *)
LEMMA HeldIs ==
  ASSUME NEW c, NEW n
  PROVE  n \in HeldIn(c) <=>
           /\ n \in 1..c.messages
           /\ \/ \E h : IsMsg(c, h) /\ IdAt(c, h) = <<n>>
              \/ \E e \in 0..1 : \E i \in DOMAIN QueueOf(c, e) : QueueOf(c, e)[i].id = <<n>>
BY DEF HeldIn, IsMsg, IsA, Lookup

(* Nothing moves.                                                          *)
LEMMA StayPlaced ==
  ASSUME NEW c, NEW d, Placed(c), MsgStay(c, d)
  PROVE  Placed(d) /\ HeldIn(d) = HeldIn(c)
<1>1. Placed(d)
  BY DEF Placed, MsgStay, SameMsgs, SameQueues
<1>2. \A n : n \in HeldIn(d) <=> n \in HeldIn(c)
  <2> SUFFICES ASSUME NEW n PROVE n \in HeldIn(d) <=> n \in HeldIn(c)
    OBVIOUS
  <2>1. (\E h : IsMsg(d, h) /\ IdAt(d, h) = <<n>>) <=> \E h : IsMsg(c, h) /\ IdAt(c, h) = <<n>>
    BY DEF MsgStay, SameMsgs
  <2>2. (\E e \in 0..1 : \E i \in DOMAIN QueueOf(d, e) : QueueOf(d, e)[i].id = <<n>>)
          <=> \E e \in 0..1 : \E i \in DOMAIN QueueOf(c, e) : QueueOf(c, e)[i].id = <<n>>
    BY DEF MsgStay, SameQueues
  <2>3. d.messages = c.messages
    BY DEF MsgStay
  <2> QED BY <2>1, <2>2, <2>3, HeldIs
<1> QED BY <1>1, <1>2 DEF HeldIn

(* A new message has a new id.                                             *)
LEMMA MadePlaced ==
  ASSUME NEW c, NEW d, Placed(c), c.messages \in Nat, NEW n, MsgMade(c, d, n)
  PROVE  Placed(d) /\ HeldIn(d) = HeldIn(c) \cup {c.messages + 1}
<1> DEFINE k == c.messages
<1>0. /\ d.messages = k + 1 /\ k + 1 \in 1..(k + 1) /\ k + 1 \notin 1..k
      /\ \A x \in 1..k : x \in 1..(k + 1) /\ x # k + 1
      /\ \A x \in 1..(k + 1) : x \in 1..k \/ x = k + 1
  BY DEF MsgMade
<1>1. \A h : IsMsg(c, h) => h # n /\ IsMsg(d, h) /\ IdAt(d, h) = IdAt(c, h)
  BY DEF MsgMade, SameMsgs
<1>2. \A h : IsMsg(d, h) => h = n \/ IsMsg(c, h)
  BY DEF MsgMade, SameMsgs
<1>3. IsMsg(d, n) /\ IdAt(d, n) = <<k + 1>> /\ SameQueues(c, d)
  BY DEF MsgMade
<1>4. \A h : IsMsg(c, h) => IdAt(c, h) # <<k + 1>>
  BY <1>0, IdNames DEF Placed
<1>5. \A e \in 0..1 : \A i \in DOMAIN QueueOf(c, e) : QueueOf(c, e)[i].id # <<k + 1>>
  BY <1>0, IdNames DEF Placed
<1> HIDE DEF k
<1>6. Placed(d)
  <2>1. \A h : IsMsg(d, h) => \E x \in 1..d.messages : IdAt(d, h) = <<x>>
    BY <1>0, <1>1, <1>2, <1>3 DEF Placed, k
  <2>2. \A e \in 0..1 : \A i \in DOMAIN QueueOf(d, e) :
          \E x \in 1..d.messages : QueueOf(d, e)[i].id = <<x>>
    BY <1>0, <1>3 DEF Placed, SameQueues, k
  <2>3. \A h, g : IsMsg(d, h) /\ IsMsg(d, g) /\ h # g => IdAt(d, h) # IdAt(d, g)
    BY <1>1, <1>2, <1>3, <1>4 DEF Placed
  <2>4. \A h : \A e \in 0..1 : \A i \in DOMAIN QueueOf(d, e) :
          IsMsg(d, h) => IdAt(d, h) # QueueOf(d, e)[i].id
    BY <1>1, <1>2, <1>3, <1>5 DEF Placed, SameQueues
  <2> QED BY <2>1, <2>2, <2>3, <2>4, <1>3 DEF Placed, SameQueues
<1>7. \A x : x \in HeldIn(d) <=> x \in HeldIn(c) \/ x = k + 1
  <2> SUFFICES ASSUME NEW x
               PROVE  x \in HeldIn(d) <=> x \in HeldIn(c) \/ x = k + 1
    OBVIOUS
  <2>1. ASSUME x \in HeldIn(d), x # k + 1 PROVE x \in HeldIn(c)
    <3>1. x \in 1..k
      BY <2>1, <1>0, HeldIs
    <3>2. CASE \E h : IsMsg(d, h) /\ IdAt(d, h) = <<x>>
      BY <3>1, <3>2, <2>1, <1>1, <1>2, <1>3, HeldIs, IdNames DEF k
    <3>3. CASE \E e \in 0..1 : \E i \in DOMAIN QueueOf(d, e) : QueueOf(d, e)[i].id = <<x>>
      BY <3>1, <3>3, <1>3, HeldIs DEF SameQueues, k
    <3> QED BY <2>1, <3>2, <3>3, HeldIs
  <2>2. ASSUME x \in HeldIn(c) PROVE x \in HeldIn(d)
    <3>1. x \in 1..d.messages
      BY <2>2, <1>0, HeldIs DEF k
    <3>2. CASE \E h : IsMsg(c, h) /\ IdAt(c, h) = <<x>>
      BY <3>1, <3>2, <1>1, HeldIs
    <3>3. CASE \E e \in 0..1 : \E i \in DOMAIN QueueOf(c, e) : QueueOf(c, e)[i].id = <<x>>
      BY <3>1, <3>3, <1>3, HeldIs DEF SameQueues
    <3> QED BY <2>2, <3>2, <3>3, HeldIs
  <2>3. k + 1 \in HeldIn(d)
    BY <1>0, <1>3, HeldIs
  <2> QED BY <2>1, <2>2, <2>3
<1> QED BY <1>6, <1>7 DEF k

(* A message that goes takes its object along.                             *)
LEMMA GonePlaced ==
  ASSUME NEW c, NEW d, Placed(c), NEW m, MsgGone(c, d, m), NEW n, IdAt(c, m) = <<n>>
  PROVE  Placed(d) /\ HeldIn(d) = HeldIn(c) \ {n}
<1>1. \A h : IsMsg(d, h) => h # m /\ IsMsg(c, h) /\ IdAt(d, h) = IdAt(c, h)
  BY DEF MsgGone, SameMsgs
<1>2. \A h : IsMsg(c, h) /\ h # m => IsMsg(d, h) /\ IdAt(d, h) = IdAt(c, h)
  BY DEF MsgGone, SameMsgs
<1>3. IsMsg(c, m) /\ SameQueues(c, d) /\ d.messages = c.messages
  BY DEF MsgGone
<1>4. Placed(d)
  <2>1. \A h, g : IsMsg(d, h) /\ IsMsg(d, g) /\ h # g => IdAt(d, h) # IdAt(d, g)
    BY <1>1 DEF Placed
  <2>2. \A h : IsMsg(d, h) => \E x \in 1..d.messages : IdAt(d, h) = <<x>>
    BY <1>1, <1>3 DEF Placed
  <2>3. \A h : \A e \in 0..1 : \A i \in DOMAIN QueueOf(d, e) :
          IsMsg(d, h) => IdAt(d, h) # QueueOf(d, e)[i].id
    BY <1>1, <1>3 DEF Placed, SameQueues
  <2> QED BY <2>1, <2>2, <2>3, <1>3 DEF Placed, SameQueues
<1>5. \A x : x \in HeldIn(d) <=> x \in HeldIn(c) /\ x # n
  <2> SUFFICES ASSUME NEW x PROVE x \in HeldIn(d) <=> x \in HeldIn(c) /\ x # n
    OBVIOUS
  <2>1. ASSUME x \in HeldIn(d) PROVE x \in HeldIn(c) /\ x # n
    <3>1. CASE \E h : IsMsg(d, h) /\ IdAt(d, h) = <<x>>
      <4>1. PICK h : IsMsg(d, h) /\ IdAt(d, h) = <<x>>
        BY <3>1
      <4>2. IsMsg(c, h) /\ IdAt(c, h) = <<x>> /\ h # m
        BY <4>1, <1>1
      <4>3. x # n
        BY <4>2, <1>3 DEF Placed
      <4> QED BY <4>2, <4>3, <2>1, <1>3, HeldIs
    <3>2. CASE \E e \in 0..1 : \E i \in DOMAIN QueueOf(d, e) : QueueOf(d, e)[i].id = <<x>>
      <4>1. PICK e \in 0..1 : \E i \in DOMAIN QueueOf(c, e) : QueueOf(c, e)[i].id = <<x>>
        BY <3>2, <1>3 DEF SameQueues
      <4>2. x # n
        BY <4>1, <1>3 DEF Placed
      <4> QED BY <4>1, <4>2, <2>1, <1>3, HeldIs
    <3> QED BY <2>1, <3>1, <3>2, HeldIs
  <2>2. ASSUME x \in HeldIn(c), x # n PROVE x \in HeldIn(d)
    <3>1. CASE \E h : IsMsg(c, h) /\ IdAt(c, h) = <<x>>
      BY <3>1, <2>2, <1>2, <1>3, HeldIs, IdNames
    <3>2. CASE \E e \in 0..1 : \E i \in DOMAIN QueueOf(c, e) : QueueOf(c, e)[i].id = <<x>>
      BY <3>2, <2>2, <1>3, HeldIs DEF SameQueues
    <3> QED BY <2>2, <3>1, <3>2, HeldIs
  <2> QED BY <2>1, <2>2
<1> QED BY <1>4, <1>5
(* A message goes from a handle to the back of a queue.                    *)
LEMMA QueuedPlaced ==
  ASSUME NEW c, NEW d, Placed(c), \A e \in 0..1 : QueueOf(c, e) \in Seq(Msgs),
         NEW m, MsgQueued(c, d, m)
  PROVE  Placed(d) /\ HeldIn(d) = HeldIn(c)
<1>1. \A h : IsMsg(d, h) => h # m /\ IsMsg(c, h) /\ IdAt(d, h) = IdAt(c, h)
  BY DEF MsgQueued, SameMsgs
<1>2. \A h : IsMsg(c, h) /\ h # m => IsMsg(d, h) /\ IdAt(d, h) = IdAt(c, h)
  BY DEF MsgQueued, SameMsgs
<1>3. IsMsg(c, m) /\ d.messages = c.messages
  BY DEF MsgQueued
<1>4. PICK e \in 0..1 : \E x \in Msgs :
        /\ x.id = IdAt(c, m) /\ QueueOf(d, e) = Append(QueueOf(c, e), x)
        /\ QueueOf(d, 1 - e) = QueueOf(c, 1 - e)
  BY DEF MsgQueued
<1>5. PICK x \in Msgs :
        /\ x.id = IdAt(c, m) /\ QueueOf(d, e) = Append(QueueOf(c, e), x)
        /\ QueueOf(d, 1 - e) = QueueOf(c, 1 - e)
  BY <1>4
<1> DEFINE L == Len(QueueOf(c, e))
<1>6. /\ L \in Nat /\ DOMAIN QueueOf(c, e) = 1..L /\ DOMAIN QueueOf(d, e) = 1..(L + 1)
      /\ \A i \in 1..L : QueueOf(d, e)[i] = QueueOf(c, e)[i]
      /\ QueueOf(d, e)[L + 1] = x
  BY <1>5
<1>7. \A f \in 0..1 : f = e \/ f = 1 - e
  OBVIOUS
<1> HIDE DEF L
<1>8. L + 1 \notin 1..L /\ L + 1 \in 1..(L + 1) /\ \A i \in 1..(L + 1) : i \in 1..L \/ i = L + 1
  BY <1>6
<1>9. \A i \in 1..L : i \in 1..(L + 1)
  BY <1>6
\* Where an element of a queue was before.
<1>10. \A f \in 0..1 : \A i \in DOMAIN QueueOf(d, f) :
         \/ i \in DOMAIN QueueOf(c, f) /\ QueueOf(d, f)[i] = QueueOf(c, f)[i]
         \/ f = e /\ i = L + 1 /\ QueueOf(d, f)[i].id = IdAt(c, m)
  BY <1>5, <1>6, <1>7, <1>8
<1>11. Placed(d)
  <2>1. \A h, g : IsMsg(d, h) /\ IsMsg(d, g) /\ h # g => IdAt(d, h) # IdAt(d, g)
    BY <1>1 DEF Placed
  <2>2. \A h : IsMsg(d, h) => \E n \in 1..d.messages : IdAt(d, h) = <<n>>
    BY <1>1, <1>3 DEF Placed
  <2>3. \A f \in 0..1 : \A i \in DOMAIN QueueOf(d, f) :
          \E n \in 1..d.messages : QueueOf(d, f)[i].id = <<n>>
    <3> SUFFICES ASSUME NEW f \in 0..1, NEW i \in DOMAIN QueueOf(d, f)
                 PROVE  \E n \in 1..c.messages : QueueOf(d, f)[i].id = <<n>>
      BY <1>3
    <3>1. CASE i \in DOMAIN QueueOf(c, f) /\ QueueOf(d, f)[i] = QueueOf(c, f)[i]
      BY <3>1 DEF Placed
    <3>2. CASE QueueOf(d, f)[i].id = IdAt(c, m)
      BY <3>2, <1>3 DEF Placed
    <3> QED BY <3>1, <3>2, <1>10
  <2>4. \A h : \A f \in 0..1 : \A i \in DOMAIN QueueOf(d, f) :
          IsMsg(d, h) => IdAt(d, h) # QueueOf(d, f)[i].id
    BY <1>1, <1>3, <1>10 DEF Placed
  <2>5. \A f, g \in 0..1 : \A i \in DOMAIN QueueOf(d, f), j \in DOMAIN QueueOf(d, g) :
          f # g \/ i # j => QueueOf(d, f)[i].id # QueueOf(d, g)[j].id
    <3> SUFFICES ASSUME NEW f \in 0..1, NEW g \in 0..1, NEW i \in DOMAIN QueueOf(d, f),
                        NEW j \in DOMAIN QueueOf(d, g), f # g \/ i # j
                 PROVE  QueueOf(d, f)[i].id # QueueOf(d, g)[j].id
      OBVIOUS
    <3>1. CASE i \in DOMAIN QueueOf(c, f) /\ QueueOf(d, f)[i] = QueueOf(c, f)[i]
      <4>1. CASE j \in DOMAIN QueueOf(c, g) /\ QueueOf(d, g)[j] = QueueOf(c, g)[j]
        BY <3>1, <4>1 DEF Placed
      <4>2. CASE QueueOf(d, g)[j].id = IdAt(c, m)
        BY <3>1, <4>2, <1>3 DEF Placed
      <4> QED BY <4>1, <4>2, <1>10
    <3>2. CASE f = e /\ i = L + 1 /\ QueueOf(d, f)[i].id = IdAt(c, m)
      <4>1. j \in DOMAIN QueueOf(c, g) /\ QueueOf(d, g)[j] = QueueOf(c, g)[j]
        BY <3>2, <1>10
      <4> QED BY <3>2, <4>1, <1>3 DEF Placed
    <3> QED BY <3>1, <3>2, <1>10
  <2> QED BY <2>1, <2>2, <2>3, <2>4, <2>5 DEF Placed
<1>12. \A n : n \in HeldIn(d) <=> n \in HeldIn(c)
  <2> SUFFICES ASSUME NEW n PROVE n \in HeldIn(d) <=> n \in HeldIn(c)
    OBVIOUS
  <2>1. ASSUME n \in HeldIn(d) PROVE n \in HeldIn(c)
    <3>1. CASE \E h : IsMsg(d, h) /\ IdAt(d, h) = <<n>>
      BY <3>1, <2>1, <1>1, <1>3, HeldIs
    <3>2. CASE \E f \in 0..1 : \E i \in DOMAIN QueueOf(d, f) : QueueOf(d, f)[i].id = <<n>>
      <4>1. \/ \E f \in 0..1 : \E i \in DOMAIN QueueOf(c, f) : QueueOf(c, f)[i].id = <<n>>
            \/ IdAt(c, m) = <<n>>
        BY <3>2, <1>10
      <4> QED BY <4>1, <2>1, <1>3, HeldIs
    <3> QED BY <2>1, <3>1, <3>2, HeldIs
  <2>2. ASSUME n \in HeldIn(c) PROVE n \in HeldIn(d)
    <3>0. n \in 1..d.messages
      BY <2>2, <1>3, HeldIs
    <3>1. CASE \E h : IsMsg(c, h) /\ IdAt(c, h) = <<n>> /\ h # m
      BY <3>0, <3>1, <1>2, HeldIs
    <3>2. CASE IdAt(c, m) = <<n>>
      <4>1. L + 1 \in DOMAIN QueueOf(d, e) /\ QueueOf(d, e)[L + 1].id = <<n>>
        BY <3>2, <1>5, <1>6, <1>8
      <4> QED BY <3>0, <4>1, HeldIs
    <3>3. CASE \E f \in 0..1 : \E i \in DOMAIN QueueOf(c, f) : QueueOf(c, f)[i].id = <<n>>
      <4>1. PICK f \in 0..1 : \E i \in DOMAIN QueueOf(c, f) : QueueOf(c, f)[i].id = <<n>>
        BY <3>3
      <4>2. \E i \in DOMAIN QueueOf(d, f) : QueueOf(d, f)[i].id = <<n>>
        <5>1. CASE f = e
          BY <5>1, <4>1, <1>6, <1>9
        <5>2. CASE f = 1 - e
          BY <5>2, <4>1, <1>5
        <5> QED BY <5>1, <5>2, <1>7
      <4> QED BY <3>0, <4>2, HeldIs
    <3>4. \/ \E h : IsMsg(c, h) /\ IdAt(c, h) = <<n>>
          \/ \E f \in 0..1 : \E i \in DOMAIN QueueOf(c, f) : QueueOf(c, f)[i].id = <<n>>
      BY <2>2, HeldIs
    <3> QED BY <3>1, <3>2, <3>3, <3>4
  <2> QED BY <2>1, <2>2
<1> QED BY <1>11, <1>12

(* A message goes from the front of a queue to a new handle.               *)
LEMMA ReadPlaced ==
  ASSUME NEW c, NEW d, Placed(c), \A e \in 0..1 : QueueOf(c, e) \in Seq(Msgs),
         NEW m, MsgRead(c, d, m)
  PROVE  Placed(d) /\ HeldIn(d) = HeldIn(c)
<1>1. \A h : IsMsg(c, h) => h # m /\ IsMsg(d, h) /\ IdAt(d, h) = IdAt(c, h)
  BY DEF MsgRead, SameMsgs
<1>2. \A h : IsMsg(d, h) /\ h # m => IsMsg(c, h) /\ IdAt(d, h) = IdAt(c, h)
  BY DEF MsgRead, SameMsgs
<1>3. IsMsg(d, m) /\ d.messages = c.messages
  BY DEF MsgRead
<1>4. PICK e \in 0..1 :
        /\ QueueOf(c, e) # <<>> /\ IdAt(d, m) = Head(QueueOf(c, e)).id
        /\ QueueOf(d, e) = Tail(QueueOf(c, e))
        /\ QueueOf(d, 1 - e) = QueueOf(c, 1 - e)
  BY DEF MsgRead
<1> DEFINE L == Len(QueueOf(c, e))
           x == QueueOf(c, e)[1]
<1>6. /\ L \in Nat /\ L # 0 /\ DOMAIN QueueOf(c, e) = 1..L /\ DOMAIN QueueOf(d, e) = 1..(L - 1)
      /\ \A i \in 1..(L - 1) : QueueOf(d, e)[i] = QueueOf(c, e)[i + 1]
      /\ IdAt(d, m) = x.id
  BY <1>4
<1>7. \A f \in 0..1 : f = e \/ f = 1 - e
  OBVIOUS
<1> HIDE DEF L, x
<1>8. /\ 1 \in 1..L /\ \A i \in 1..(L - 1) : i + 1 \in 1..L /\ i + 1 # 1
      /\ \A i \in 1..L : i = 1 \/ (i - 1 \in 1..(L - 1) /\ i = (i - 1) + 1)
  BY <1>6
<1> DEFINE Was(f, i) == IF f = e THEN i + 1 ELSE i
\* Where an element of a queue was before.
<1>10. \A f \in 0..1 : \A i \in DOMAIN QueueOf(d, f) :
         /\ Was(f, i) \in DOMAIN QueueOf(c, f) /\ QueueOf(d, f)[i] = QueueOf(c, f)[Was(f, i)]
         /\ f # e \/ Was(f, i) # 1
  BY <1>4, <1>6, <1>7, <1>8
<1>11. \A f \in 0..1 : \A i, j \in DOMAIN QueueOf(d, f) : i # j => Was(f, i) # Was(f, j)
  <2> SUFFICES ASSUME NEW f \in 0..1, NEW i \in DOMAIN QueueOf(d, f), NEW j \in DOMAIN QueueOf(d, f),
                      i # j
               PROVE  Was(f, i) # Was(f, j)
    OBVIOUS
  <2>1. CASE f = e
    <3>1. i \in 1..(L - 1) /\ j \in 1..(L - 1)
      BY <2>1, <1>6
    <3> QED BY <3>1, <2>1, <1>6
  <2>2. CASE f # e
    BY <2>2
  <2> QED BY <2>1, <2>2
<1>12. \A f \in 0..1 : \A i \in DOMAIN QueueOf(c, f) :
         \/ f = e /\ i = 1
         \/ \E j \in DOMAIN QueueOf(d, f) : QueueOf(d, f)[j] = QueueOf(c, f)[i]
  <2> SUFFICES ASSUME NEW f \in 0..1, NEW i \in DOMAIN QueueOf(c, f), ~(f = e /\ i = 1)
               PROVE  \E j \in DOMAIN QueueOf(d, f) : QueueOf(d, f)[j] = QueueOf(c, f)[i]
    OBVIOUS
  <2>1. CASE f = e
    <3>1. i - 1 \in 1..(L - 1) /\ i = (i - 1) + 1
      BY <2>1, <1>6, <1>8
    <3> QED BY <3>1, <2>1, <1>6
  <2>2. CASE f = 1 - e
    BY <2>2, <1>4
  <2> QED BY <2>1, <2>2, <1>7
<1> HIDE DEF Was
<1>13. e \in 0..1 /\ 1 \in DOMAIN QueueOf(c, e) /\ IdAt(d, m) = QueueOf(c, e)[1].id
  BY <1>6, <1>8 DEF x
<1>14. Placed(d)
  <2>1. \A h, g : IsMsg(d, h) /\ IsMsg(d, g) /\ h # g => IdAt(d, h) # IdAt(d, g)
    <3>1. \A h : IsMsg(d, h) /\ h # m => IdAt(d, h) # IdAt(d, m)
      BY <1>2, <1>13 DEF Placed
    <3> QED BY <3>1, <1>2 DEF Placed
  <2>2. \A h : IsMsg(d, h) => \E n \in 1..d.messages : IdAt(d, h) = <<n>>
    <3> SUFFICES ASSUME NEW h, IsMsg(d, h) PROVE \E n \in 1..c.messages : IdAt(d, h) = <<n>>
      BY <1>3
    <3>1. CASE h = m
      BY <3>1, <1>13 DEF Placed
    <3>2. CASE h # m
      BY <3>2, <1>2 DEF Placed
    <3> QED BY <3>1, <3>2
  <2>3. \A f \in 0..1 : \A i \in DOMAIN QueueOf(d, f) :
          \E n \in 1..d.messages : QueueOf(d, f)[i].id = <<n>>
    BY <1>3, <1>10 DEF Placed
  <2>4. \A h : \A f \in 0..1 : \A i \in DOMAIN QueueOf(d, f) :
          IsMsg(d, h) => IdAt(d, h) # QueueOf(d, f)[i].id
    <3> SUFFICES ASSUME NEW h, NEW f \in 0..1, NEW i \in DOMAIN QueueOf(d, f), IsMsg(d, h)
                 PROVE  IdAt(d, h) # QueueOf(d, f)[i].id
      OBVIOUS
    <3>1. CASE h = m
      BY <3>1, <1>10, <1>13 DEF Placed
    <3>2. CASE h # m
      BY <3>2, <1>10, <1>2 DEF Placed
    <3> QED BY <3>1, <3>2
  <2>5. \A f, g \in 0..1 : \A i \in DOMAIN QueueOf(d, f), j \in DOMAIN QueueOf(d, g) :
          f # g \/ i # j => QueueOf(d, f)[i].id # QueueOf(d, g)[j].id
    <3> SUFFICES ASSUME NEW f \in 0..1, NEW g \in 0..1, NEW i \in DOMAIN QueueOf(d, f),
                        NEW j \in DOMAIN QueueOf(d, g), f # g \/ i # j
                 PROVE  QueueOf(d, f)[i].id # QueueOf(d, g)[j].id
      OBVIOUS
    <3>1. f # g \/ Was(f, i) # Was(g, j)
      BY <1>11
    <3> QED BY <3>1, <1>10 DEF Placed
  <2> QED BY <2>1, <2>2, <2>3, <2>4, <2>5 DEF Placed
<1>15. \A n : n \in HeldIn(d) <=> n \in HeldIn(c)
  <2> SUFFICES ASSUME NEW n PROVE n \in HeldIn(d) <=> n \in HeldIn(c)
    OBVIOUS
  <2>1. ASSUME n \in HeldIn(d) PROVE n \in HeldIn(c)
    <3>0. n \in 1..c.messages
      BY <2>1, <1>3, HeldIs
    <3>1. CASE \E h : IsMsg(d, h) /\ IdAt(d, h) = <<n>> /\ h # m
      BY <3>0, <3>1, <1>2, HeldIs
    <3>2. CASE IdAt(d, m) = <<n>>
      BY <3>0, <3>2, <1>13, HeldIs
    <3>3. CASE \E f \in 0..1 : \E i \in DOMAIN QueueOf(d, f) : QueueOf(d, f)[i].id = <<n>>
      BY <3>0, <3>3, <1>10, HeldIs
    <3>4. \/ \E h : IsMsg(d, h) /\ IdAt(d, h) = <<n>>
          \/ \E f \in 0..1 : \E i \in DOMAIN QueueOf(d, f) : QueueOf(d, f)[i].id = <<n>>
      BY <2>1, HeldIs
    <3> QED BY <3>1, <3>2, <3>3, <3>4
  <2>2. ASSUME n \in HeldIn(c) PROVE n \in HeldIn(d)
    <3>0. n \in 1..d.messages
      BY <2>2, <1>3, HeldIs
    <3>1. CASE \E h : IsMsg(c, h) /\ IdAt(c, h) = <<n>>
      BY <3>0, <3>1, <1>1, HeldIs
    <3>2. CASE \E f \in 0..1 : \E i \in DOMAIN QueueOf(c, f) : QueueOf(c, f)[i].id = <<n>>
      <4>1. \/ IdAt(d, m) = <<n>>
            \/ \E f \in 0..1 : \E i \in DOMAIN QueueOf(d, f) : QueueOf(d, f)[i].id = <<n>>
        BY <3>2, <1>12, <1>13
      <4> QED BY <3>0, <4>1, <1>3, HeldIs
    <3> QED BY <2>2, <3>1, <3>2, HeldIs
  <2> QED BY <2>1, <2>2
<1> QED BY <1>14, <1>15
-----------------------------------------------------------------------------
(* The operations of the core.                                             *)

(* The handle that is freed loses its object, and no other does.           *)
LEMMA FreedCollected ==
  ASSUME NEW b, Typed(b), NEW h, Lookup(b, h), b.slots[h].kind # "Trap",
         NEW d, d = CollectTrapEvents(Free(b, h))
  PROVE  /\ Typed(d) /\ d.pipes = b.pipes /\ d.messages = b.messages
         /\ ~IsMsg(d, h) /\ SameMsgs(b, d, {h})
<1> DEFINE f == Free(b, h)
<1>1. Typed(f) /\ Freed(b, f, h)
  BY TypedFree
<1> HIDE DEF f
<1>2. Typed(d) /\ Collected(f, d)
  BY <1>1, TypedCollect DEF f
<1>3. d.pipes = b.pipes /\ d.messages = b.messages /\ DOMAIN d.slots = DOMAIN b.slots
  BY <1>1, <1>2 DEF Collected, Freed, SameRest
<1>4. \A k \in DOMAIN b.slots : k # h =>
        /\ d.slots[k].kind = b.slots[k].kind
        /\ b.slots[k].kind # "Trap" => d.slots[k] = b.slots[k]
  BY <1>1, <1>2 DEF Collected, Freed
<1>5. ~IsMsg(d, h)
  <2>1. h \in DOMAIN b.slots /\ f.slots[h].kind = "Free"
    BY <1>1 DEF Lookup, Freed, FreeSlot
  <2>2. d.slots[h].kind = "Free"
    BY <1>1, <1>2, <2>1 DEF Collected, Freed
  <2> QED BY <2>2 DEF IsMsg, IsA, Lookup
<1>6. SameMsgs(b, d, {h})
  BY <1>3, <1>4 DEF SameMsgs, IsMsg, IdAt, IsA, Lookup
<1> QED BY <1>2, <1>3, <1>5, <1>6

(* WhpClose of a message, and a write that is refused.                     *)
LEMMA FreeIsGone ==
  ASSUME NEW c, Typed(c), NEW m, IsMsg(c, m), NEW d, d = CollectTrapEvents(Free(c, m))
  PROVE  Typed(d) /\ d.pipes = c.pipes /\ MsgGone(c, d, m)
<1>1. Lookup(c, m) /\ c.slots[m].kind # "Trap"
  BY DEF IsMsg, IsA, Lookup
<1>2. /\ Typed(d) /\ d.pipes = c.pipes /\ d.messages = c.messages
      /\ ~IsMsg(d, m) /\ SameMsgs(c, d, {m})
  BY <1>1, FreedCollected
<1> QED BY <1>2 DEF MsgGone, SameQueues, QueueOf

(* WhpClose of a message.                                                  *)
LEMMA CloseIsGone ==
  ASSUME NEW c, Typed(c), NEW m, IsMsg(c, m)
  PROVE  LET d == WhpClose(c, m) IN Typed(d) /\ d.pipes = c.pipes /\ MsgGone(c, d, m)
<1>1. WhpClose(c, m) = CollectTrapEvents(Free(c, m))
  BY DEF WhpClose, IsMsg, IsA
<1> QED BY <1>1, FreeIsGone

(* WhpClose of an end of the pipe: its queues stay.                        *)
LEMMA ClosePipeStays ==
  ASSUME NEW c, Typed(c), Len(c.pipes) = 1, NEW h, IsA(c, h, "MessagePipe")
  PROVE  LET d == WhpClose(c, h) IN Typed(d) /\ Len(d.pipes) = 1 /\ MsgStay(c, d)
<1> DEFINE o == c.slots[h].obj
           e == o.end
           t == [c.pipes[1] EXCEPT !.closed[e] = TRUE]
           P == [c.pipes EXCEPT ![1] = t]
           b == [c EXCEPT !.pipes[1].closed[e] = TRUE]
           d == CollectTrapEvents(Free(b, h))
<1>2. o \in EndObjects(Len(c.pipes)) /\ c.pipes \in Seq(PipeStates)
  BY DEF Typed, IsA, Lookup, SlotTyped
<1>3. o.state = 1 /\ 1 \in DOMAIN c.pipes /\ e \in 0..1
  BY <1>2 DEF EndObjects
<1>1. WhpClose(c, h) = d
  BY <1>3 DEF WhpClose, IsA
<1>4. /\ DOMAIN b = CoreFields /\ b.slots = c.slots /\ b.free_list = c.free_list
      /\ b.traps = c.traps /\ b.pipes = P /\ b.pending_events = c.pending_events
      /\ b.messages = c.messages /\ b.writes = c.writes /\ b.ntraps = c.ntraps
  BY DEF Typed, Table, Shape, CoreFields
<1> HIDE DEF b, e
<1>5. c.pipes[1] \in PipeStates
  BY <1>2, <1>3
<1>6. t \in PipeStates /\ t.queues = c.pipes[1].queues
  BY <1>3, <1>5 DEF PipeStates
<1> HIDE DEF t
<1>8. P \in Seq(PipeStates) /\ Len(P) = Len(c.pipes) /\ P[1].queues = c.pipes[1].queues
  BY <1>2, <1>3, <1>6
<1> HIDE DEF P
<1>10. Typed(b)
  <2>1. /\ \E S : b.pending_events \in Seq(S)
        /\ b.messages \in Nat /\ b.writes \in Nat /\ b.ntraps \in Nat
    BY <1>4 DEF Typed
  <2>2. Len(P) >= Len(c.pipes)
    BY <1>2, <1>8
  <2> QED BY <1>4, <1>8, <2>1, <2>2, TypedFields
<1>11. Lookup(b, h) /\ b.slots[h].kind # "Trap"
  BY <1>4 DEF IsA, Lookup
<1>12. /\ Typed(d) /\ d.pipes = b.pipes /\ d.messages = b.messages
       /\ ~IsMsg(d, h) /\ SameMsgs(b, d, {h})
  BY <1>10, <1>11, FreedCollected
<1> HIDE DEF d
<1>13. ~IsMsg(c, h)
  BY DEF IsMsg, IsA
<1>14. SameMsgs(c, b, {})
  BY <1>4 DEF SameMsgs, IsMsg, IdAt, IsA, Lookup
<1>15. SameMsgs(c, d, {})
  BY <1>12, <1>13, <1>14 DEF SameMsgs
<1> QED BY <1>1, <1>4, <1>8, <1>12, <1>15 DEF MsgStay, SameQueues, QueueOf

(* An operation that changes a message object but not its identity.        *)
LEMMA ChangedStays ==
  ASSUME NEW c, NEW d, NEW m, IsMsg(c, m), MessageChanged(c, d, m), d.messages = c.messages,
         d.slots[m].obj.id = c.slots[m].obj.id
  PROVE  Typed(d) /\ d.pipes = c.pipes /\ MsgStay(c, d)
<1>1. Typed(d) /\ d.pipes = c.pipes
  BY DEF MessageChanged, Calm
<1>2. SameMsgs(c, d, {})
  BY DEF MessageChanged, SameMsgs, IsMsg, IdAt, IsA, Lookup
<1> QED BY <1>1, <1>2 DEF MsgStay, SameQueues, QueueOf

(* WhpAppendMessageData and WhpSerializeMessage.                           *)
LEMMA CommitStays ==
  ASSUME NEW c, Typed(c), NEW m, IsMsg(c, m),
         NEW d, d = WhpAppendMessageData(c, m, 0, TRUE) \/ d = WhpSerializeMessage(c, m)
  PROVE  Typed(d) /\ d.pipes = c.pipes /\ MsgStay(c, d)
<1>0. IsA(c, m, "Message") /\ 0 \in Nat /\ TRUE \in BOOLEAN
  BY DEF IsMsg
<1>1. MessageChanged(c, d, m)
  <2>1. CASE d = WhpAppendMessageData(c, m, 0, TRUE)
    BY <1>0, <2>1, AppendMessageDataEffect
  <2>2. CASE d = WhpSerializeMessage(c, m)
    BY <1>0, <2>2, SerializeEffect
  <2> QED BY <2>1, <2>2
<1>2. DOMAIN c = CoreFields /\ m \in DOMAIN c.slots /\ DOMAIN c.slots[m] = {"kind", "obj"}
      /\ c.slots[m].obj \in Msgs
  BY DEF Typed, Table, Shape, IsMsg, IsA, Lookup, SlotTyped
<1>3. d.messages = c.messages /\ d.slots[m].obj.id = c.slots[m].obj.id
  <2>1. CASE d = WhpAppendMessageData(c, m, 0, TRUE)
    BY <1>2, <2>1 DEF WhpAppendMessageData, CoreFields, Msgs
  <2>2. CASE d = WhpSerializeMessage(c, m)
    BY <1>2, <2>2 DEF WhpSerializeMessage, CoreFields, Msgs
  <2> QED BY <2>1, <2>2
<1> QED BY <1>1, <1>3, ChangedStays

(* WhpCreateMessage.                                                       *)
LEMMA CreateMakes ==
  ASSUME NEW c, Typed(c)
  PROVE  LET d == WhpCreateMessage(c)
         IN  Typed(d) /\ d.pipes = c.pipes /\ MsgMade(c, d, NextHandle(c))
<1> DEFINE c1 == [c EXCEPT !.messages = @ + 1]
           o  == [id |-> <<c.messages + 1>>, size |-> 0, committed |-> FALSE, seq |-> 0,
                  writer |-> <<>>]
           d  == Alloc(c1, "Message", o)
           n  == NextHandle(c)
<1>1. WhpCreateMessage(c) = d
  BY DEF WhpCreateMessage
<1>2. Typed(d) /\ d.pipes = c.pipes /\ MessageMade(c, d, n)
  BY <1>1, CreateMessageEffect
<1>3. /\ DOMAIN c1 = CoreFields /\ c1.slots = c.slots /\ c1.free_list = c.free_list
      /\ c1.messages = c.messages + 1
  BY DEF Typed, Table, Shape, CoreFields
<1>4. o.id = <<c.messages + 1>>
  OBVIOUS
<1> HIDE DEF c1, o
<1>5. Table(c1)
  BY <1>3, OtherFieldsKeep DEF Typed
<1>6. Allocated(c1, d, NextHandle(c1), "Message", o) /\ NextHandle(c1) = n
  BY <1>3, <1>5, AllocEffect DEF NextHandle
<1> HIDE DEF d, n
<1>7. d.messages = c.messages + 1 /\ IdAt(d, n) = <<c.messages + 1>>
  BY <1>3, <1>4, <1>6 DEF Allocated, SameRest, IdAt
<1>8. ~IsMsg(c, n) /\ IsMsg(d, n) /\ SameMsgs(c, d, {n})
  BY <1>2 DEF MessageMade, SameMsgs, IsMsg, IdAt, IsA, Lookup
<1> QED BY <1>1, <1>2, <1>7, <1>8 DEF MsgMade, SameQueues, QueueOf, n
(* The write that is accepted.                                             *)
LEMMA AcceptIsQueued ==
  ASSUME NEW c, Typed(c), Len(c.pipes) = 1, NEW h, IsA(c, h, "MessagePipe"),
         NEW m, IsMsg(c, m), ~WriteRefused(c, h), ~OverQuota(c, h, m)
  PROVE  LET d == WriteSerialized(c, h, m)
         IN  Typed(d) /\ Len(d.pipes) = 1 /\ MsgQueued(c, d, m)
<1> DEFINE s   == c.slots[h].obj.state
           e   == PeerOf(c, h)
           q   == c.pipes[s].queues[e]
           o   == c.slots[m].obj
           id  == c.slots[h].obj.id
           x   == [o EXCEPT !.seq = c.writes + 1, !.writer = id]
           P   == [c.pipes EXCEPT ![s].queues[e] = Append(q, x)]
           b   == [c EXCEPT !.writes = @ + 1, !.pipes[s].queues[e] = Append(@, x)]
           d   == CollectTrapEvents(Free(b, m))
<1>1. WriteSerialized(c, h, m) = d
  BY DEF WriteSerialized, Enqueue
<1>2. /\ o \in Msgs /\ c.slots[h].obj \in EndObjects(Len(c.pipes))
      /\ c.pipes \in Seq(PipeStates) /\ c.writes \in Nat
  BY DEF Typed, IsA, IsMsg, Lookup, SlotTyped
<1>3. s \in DOMAIN c.pipes /\ e \in 0..1
  BY <1>2 DEF EndObjects, PeerOf
<1>31. s = 1
  BY <1>2 DEF EndObjects
<1>4. c.pipes[s] \in PipeStates /\ q \in Seq(Msgs)
  <2> HIDE DEF s, e
  <2>1. c.pipes[s] \in PipeStates
    BY <1>2, <1>3
  <2> QED BY <1>3, <2>1 DEF PipeStates
<1>5. id \in Ids
  BY <1>2 DEF EndObjects, Ids
<1>6. /\ DOMAIN b = CoreFields /\ b.pipes = P
      /\ b.slots = c.slots /\ b.free_list = c.free_list /\ b.traps = c.traps
      /\ b.pending_events = c.pending_events
      /\ b.messages = c.messages /\ b.writes = c.writes + 1 /\ b.ntraps = c.ntraps
  BY DEF Typed, Table, Shape, CoreFields
<1> HIDE DEF b, id, o
<1>7. x \in Msgs /\ x.id = o.id
  <2> DEFINE k == c.writes + 1
  <2>1. k \in Nat
    BY <1>2
  <2> HIDE DEF k
  <2>2. LET y == [o EXCEPT !.seq = k, !.writer = id]
        IN  y \in Msgs /\ y.id = o.id
    BY <1>2, <1>5, <2>1 DEF Msgs
  <2> QED BY <2>2 DEF k
<1> HIDE DEF x
<1>8. Append(q, x) \in Seq(Msgs)
  BY <1>4, <1>7
<1> HIDE DEF s, e
<1>9. P \in Seq(PipeStates) /\ Len(P) = Len(c.pipes) /\ QueueSet(c.pipes, P, s, e, Append(q, x))
  <2> HIDE DEF q
  <2> QED BY <1>2, <1>3, <1>8, QueueSetTyped
<1> HIDE DEF P, q
<1>12. Typed(b)
  <2>1. /\ \E S : b.pending_events \in Seq(S)
        /\ b.messages \in Nat /\ b.writes \in Nat /\ b.ntraps \in Nat
    BY <1>6 DEF Typed
  <2>2. Len(P) >= Len(c.pipes)
    BY <1>2, <1>9
  <2> QED BY <1>6, <1>9, <2>1, <2>2, TypedFields
<1>13. Lookup(b, m) /\ b.slots[m].kind # "Trap"
  BY <1>6 DEF IsA, IsMsg, Lookup
<1>14. /\ Typed(d) /\ d.pipes = P /\ d.messages = c.messages
       /\ ~IsMsg(d, m) /\ SameMsgs(b, d, {m})
  BY <1>6, <1>12, <1>13, FreedCollected
<1> HIDE DEF d
<1>15. SameMsgs(c, d, {m})
  <2>1. \A k : /\ IsMsg(b, k) <=> IsMsg(c, k)
               /\ IdAt(b, k) = IdAt(c, k)
    BY <1>6 DEF IsMsg, IdAt, IsA, Lookup
  <2> QED BY <1>14, <2>1 DEF SameMsgs
<1>16. /\ QueueOf(d, e) = Append(QueueOf(c, e), x)
       /\ QueueOf(d, 1 - e) = QueueOf(c, 1 - e)
  BY <1>3, <1>31, <1>9, <1>14 DEF QueueSet, QueueOf, q
<1>17. x.id = IdAt(c, m)
  BY <1>7 DEF IdAt, o
<1>18. MsgQueued(c, d, m)
  BY <1>3, <1>7, <1>14, <1>15, <1>16, <1>17 DEF MsgQueued
<1>19. Len(d.pipes) = 1
  BY <1>9, <1>14
<1> QED BY <1>1, <1>14, <1>18, <1>19

(* The second section of WhpWriteMessage: the message stays, goes or is    *)
(* queued.                                                                 *)
LEMMA WriteEffect ==
  ASSUME NEW c, Typed(c), Len(c.pipes) = 1, NEW h, NEW m, IsMsg(c, m)
  PROVE  LET d == WriteSerialized(c, h, m)
         IN  /\ Typed(d) /\ Len(d.pipes) = 1
             /\ d = c \/ MsgGone(c, d, m) \/ MsgQueued(c, d, m)
<1>1. CASE ~IsA(c, h, "MessagePipe")
  BY <1>1 DEF WriteSerialized
<1>2. CASE IsA(c, h, "MessagePipe") /\ WriteRefused(c, h)
  <2>1. WriteSerialized(c, h, m) = CollectTrapEvents(Free(c, m))
    BY <1>2 DEF WriteSerialized
  <2> QED BY <2>1, FreeIsGone
<1>3. CASE IsA(c, h, "MessagePipe") /\ ~WriteRefused(c, h) /\ OverQuota(c, h, m)
  BY <1>3 DEF WriteSerialized
<1>4. CASE IsA(c, h, "MessagePipe") /\ ~WriteRefused(c, h) /\ ~OverQuota(c, h, m)
  BY <1>4, AcceptIsQueued
<1> QED BY <1>1, <1>2, <1>3, <1>4

(* WhpReadMessage.                                                         *)
LEMMA ReadIsRead ==
  ASSUME NEW c, Typed(c), Len(c.pipes) = 1, NEW h, IsA(c, h, "MessagePipe"), Inbound(c, h) # <<>>
  PROVE  LET d == WhpReadMessage(c, h)
         IN  Typed(d) /\ Len(d.pipes) = 1 /\ MsgRead(c, d, NextHandle(c))
<1> DEFINE end == c.slots[h].obj
           e   == end.end
           q   == c.pipes[1].queues[e]
           P   == [c.pipes EXCEPT ![1].queues[e] = Tail(q)]
           c1  == [c EXCEPT !.pipes[1].queues[e] = Tail(@)]
           d   == WhpReadMessage(c, h)
           n   == NextHandle(c)
<1>1. /\ Typed(d) /\ MessageMade(c, d, n) /\ d.messages = c.messages
      /\ d.pipes = [c.pipes EXCEPT ![end.state].queues[end.end] = Tail(@)]
  BY ReadMessageEffect
<1>2. end \in EndObjects(Len(c.pipes)) /\ c.pipes \in Seq(PipeStates)
  BY DEF Typed, IsA, Lookup, SlotTyped
<1>3. end.state = 1 /\ e \in 0..1 /\ 1 \in DOMAIN c.pipes
  BY <1>2 DEF EndObjects
<1>4. d.pipes = P
  BY <1>1, <1>3
<1>5. d = Alloc(c1, "Message", Head(q)) /\ q # <<>>
  BY <1>3 DEF WhpReadMessage, Inbound, Outbound
<1>6. /\ DOMAIN c1 = CoreFields /\ c1.slots = c.slots /\ c1.free_list = c.free_list
  BY DEF Typed, Table, Shape, CoreFields
<1> HIDE DEF c1, d, n, e, end
<1>7. Table(c1)
  BY <1>6, OtherFieldsKeep DEF Typed
<1>8. Allocated(c1, d, NextHandle(c1), "Message", Head(q)) /\ NextHandle(c1) = n
  BY <1>5, <1>6, <1>7, AllocEffect DEF NextHandle, n
<1>9. IdAt(d, n) = Head(q).id
  BY <1>8 DEF Allocated, IdAt
<1>10. c.pipes[1] \in PipeStates /\ q \in Seq(Msgs)
  <2>1. c.pipes[1] \in PipeStates
    BY <1>2, <1>3
  <2> QED BY <1>3, <2>1 DEF PipeStates
<1> HIDE DEF q
<1>11. Tail(q) \in Seq(Msgs)
  BY <1>5, <1>10
<1>12. P \in Seq(PipeStates) /\ Len(P) = Len(c.pipes) /\ QueueSet(c.pipes, P, 1, e, Tail(q))
  BY <1>2, <1>3, <1>11, QueueSetTyped
<1> HIDE DEF P
<1>13. /\ QueueOf(c, e) = q /\ QueueOf(d, e) = Tail(q)
       /\ QueueOf(d, 1 - e) = QueueOf(c, 1 - e)
  BY <1>3, <1>4, <1>12 DEF QueueSet, QueueOf, q
<1>14. ~IsMsg(c, n) /\ IsMsg(d, n) /\ SameMsgs(c, d, {n})
  BY <1>1 DEF MessageMade, SameMsgs, IsMsg, IdAt, IsA, Lookup
<1>15. MsgRead(c, d, n)
  BY <1>1, <1>3, <1>5, <1>9, <1>13, <1>14 DEF MsgRead
<1> QED BY <1>1, <1>4, <1>12, <1>15 DEF d, n

(* The core that ContextInit makes: a pipe, with empty queues.             *)
LEMMA InitPiped ==
  ASSUME ContextInit
  PROVE  Piped(core) /\ core.messages = 0 /\ \A h : ~IsMsg(core, h)
<1> DEFINE i == InitCore
           b == WhpCreateMessagePipe(i)
<1>1. Typed(i) /\ i.pipes = <<>> /\ i.messages = 0 /\ DOMAIN i.slots = {}
  <2>1. Table(i)
    BY DEF InitCore, Table, Shape, CoreFields, FreeListExactIn, IsInjective
  <2>2. /\ DOMAIN i.slots = {} /\ DOMAIN i.traps = {} /\ i.pipes = <<>> /\ i.messages = 0
        /\ i.pending_events \in Seq({}) /\ i.traps \in Seq({}) /\ i.pipes \in Seq(PipeStates)
        /\ i.writes = 0 /\ i.ntraps = 0
    BY DEF InitCore
  <2> HIDE DEF i
  <2>3. TrapList(i)
    BY <2>2 DEF TrapList, IsInjective
  <2> QED BY <2>1, <2>2, <2>3 DEF Typed
<1> HIDE DEF i
<1>2. Typed(b) /\ \E n0, n1 : PipeMade(i, b, n0, n1)
  BY <1>1, CreateMessagePipeEffect
<1>3. PICK n0, n1 : PipeMade(i, b, n0, n1)
  BY <1>2
<1> HIDE DEF b
<1>4. /\ b.pipes = <<NewPipeState>> /\ b.messages = 0
      /\ \A h \in DOMAIN b.slots : b.slots[h].kind = "MessagePipe"
  BY <1>1, <1>3 DEF PipeMade, SameCounters
<1>5. core = WhpSetQuotaCount(b, Receiver, Quota) /\ Quota \in Nat
  BY MessageContextAssumption DEF ContextInit, b, i
<1>6. WhpCreateMessagePipe(InitCore).slots[2].kind = "MessagePipe"
      /\ 2 \in DOMAIN WhpCreateMessagePipe(InitCore).slots
  BY DEF WhpCreateMessagePipe, InitCore, Alloc
<1>7. IsA(b, Receiver, "MessagePipe")
  BY <1>6 DEF b, i, IsA, Lookup, Receiver
<1>8. Calm(b, core) /\ SamePipes(b, core)
  BY <1>2, <1>5, <1>7, SetQuotaEffect
<1>9. DOMAIN b = CoreFields
  BY <1>2 DEF Typed, Table, Shape
<1>10. core.slots = b.slots /\ core.messages = 0
  BY <1>4, <1>5, <1>9 DEF WhpSetQuotaCount, CoreFields
<1>11. \A h : ~IsMsg(core, h)
  BY <1>4, <1>10 DEF IsMsg, IsA, Lookup
<1>12. Typed(core) /\ Len(core.pipes) = 1
  <2>1. Typed(core) /\ DOMAIN core.pipes = {1}
    BY <1>4, <1>8 DEF Calm, SamePipes
  <2>2. core.pipes \in Seq(PipeStates)
    BY <2>1 DEF Typed
  <2>3. Len(core.pipes) \in Nat /\ DOMAIN core.pipes = 1..Len(core.pipes)
    BY <2>2
  <2>4. PICK k \in Nat : k = Len(core.pipes) /\ 1..k = {1}
    BY <2>1, <2>3
  <2>5. 1 \in 1..k /\ (2 \in 1..k => 2 = 1)
    BY <2>4
  <2>6. k = 1
    BY <2>5
  <2> QED BY <2>1, <2>4, <2>6
<1>13. \A e \in 0..1 : QueueOf(core, e) = <<>>
  BY <1>4, <1>8 DEF SamePipes, QueueOf, NewPipeState
<1>14. 0 <= MaxMessages
  BY MessageContextAssumption
<1>15. Placed(core)
  BY <1>11, <1>13 DEF Placed
<1> QED BY <1>10, <1>11, <1>12, <1>14, <1>15 DEF Piped
-----------------------------------------------------------------------------
(* What a step leaves alone.                                               *)

(* The message object at a handle.                                         *)
LEMMA MsgNames ==
  ASSUME Piped(core), NEW m, IsMsg(core, m)
  PROVE  /\ MsgOf(m) \in 1..core.messages /\ MsgOf(m) \in 1..MaxMessages
         /\ IdAt(core, m) = <<MsgOf(m)>> /\ MsgOf(m) \in HeldIn(core)
<1>1. PICK n \in 1..core.messages : IdAt(core, m) = <<n>>
  BY DEF Piped, Placed
<1>2. MsgOf(m) = n
  BY <1>1 DEF MsgOf, IdAt
<1>3. core.messages \in Nat /\ core.messages <= MaxMessages /\ MaxMessages \in Nat
  BY MessageContextAssumption DEF Piped, Typed
<1>4. n \in 1..MaxMessages
  BY <1>3
<1>5. n \in HeldIn(core)
  BY <1>1, HeldIs
<1> QED BY <1>1, <1>2, <1>4, <1>5

(* Handles that stay keep their message object.                            *)
LEMMA SameNames ==
  ASSUME NEW S, SameMsgs(core, core', S)
  PROVE  \A h : h \notin S /\ IsMsg(core, h) => IsMsg(core', h) /\ MsgOf(h)' = MsgOf(h)
BY DEF SameMsgs, IdAt, MsgOf

(* Messages of different threads are different.                            *)
LEMMA ApartNames ==
  ASSUME CtxTypes, Apart, NEW t \in Threads, NEW u \in Threads, t # u,
         NEW h \in mine[t], NEW g \in mine[u]
  PROVE  h # g /\ MsgOf(h) # MsgOf(g)
<1>1. h # g /\ IsMsg(core, h) /\ IsMsg(core, g) /\ Piped(core)
  BY DEF Apart, CtxTypes
<1>2. IdAt(core, h) # IdAt(core, g)
  BY <1>1 DEF Piped, Placed
<1>3. IdAt(core, h) = <<MsgOf(h)>> /\ IdAt(core, g) = <<MsgOf(g)>>
  BY <1>1, MsgNames
<1> QED BY <1>1, <1>2, <1>3

\* A step of thread t that touches no message object but n.
Others(t, n) ==
  /\ \A u \in Threads : u # t => call'[u] = call[u] /\ mine'[u] = mine[u]
  /\ \A u \in Threads : \A h \in mine[u] : u # t => MsgOf(h)' = MsgOf(h) /\ MsgOf(h) # n
  /\ \A x \in 1..MaxMessages : x # n =>
       msg'[x] = msg[x] /\ (x \in HeldIn(core) => x \in HeldIn(core'))
  /\ \A k \in DOMAIN context :
       /\ k \in DOMAIN context' /\ context'[k].message = context[k].message
       /\ context'[k].serializer = context[k].serializer
       /\ context'[k].destructor = context[k].destructor
       /\ context[k].destroyed = 1 => context'[k].destroyed = 1

(* The calls of the other threads.                                         *)
LEMMA FrameThread ==
  ASSUME CtxTypes, Bound, Alone, NEW t \in Threads, NEW n, Others(t, n),
         NEW u \in Threads, u # t
  PROVE  AloneThread(u)'
<1>0. PICK h : h = call[u].message
  OBVIOUS
<1>1. call'[u] = call[u] /\ mine'[u] = mine[u] /\ AloneThread(u)
  BY DEF Others, Alone
<1>2. (InSerialize(u)' <=> InSerialize(u)) /\ (InWrite(u)' <=> InWrite(u))
  BY <1>1 DEF InSerialize, InWrite
<1>3. CASE ~InSerialize(u) /\ ~InWrite(u)
  BY <1>2, <1>3 DEF AloneThread
<1>4. CASE InSerialize(u) \/ InWrite(u)
  <2>1. h \in mine[u] /\ h \in mine'[u]
    BY <1>0, <1>1, <1>4 DEF AloneThread
  <2>0. PICK x : x = MsgOf(h)
    OBVIOUS
  <2>2. MsgOf(h)' = x /\ x # n
    BY <2>0, <2>1 DEF Others
  <2>3. x \in 1..MaxMessages
    BY <2>0, <2>1, MsgNames DEF CtxTypes
  <2>4. msg'[x] = msg[x]
    BY <2>2, <2>3 DEF Others
  <2>5. msg[x].destructor => context'[msg[x].context].serializer = context[msg[x].context].serializer
    <3>1. msg[x].destructor => msg[x].context \in DOMAIN context
      BY <2>3 DEF Bound
    <3> QED BY <3>1 DEF Others
  <2>6. call'[u].message = h /\ MsgOf(call[u].message)' = x /\ MsgOf(call[u].message) = x
    BY <1>0, <1>1, <2>0, <2>2 DEF MsgOf
  <2>8. InSerialize(u) =>
          /\ ~msg[x].serializer
          /\ call[u].at = "serializer" /\ call[u].run => msg[x].context = call[u].ctx
    BY <1>1, <2>6 DEF AloneThread
  <2>9. InWrite(u) => ~(msg[x].destructor /\ context[msg[x].context].serializer)
    BY <1>1, <2>6 DEF AloneThread
  <2>10. InSerialize(u)' =>
       /\ ~msg'[x].serializer
       /\ call'[u].at = "serializer" /\ call'[u].run => msg'[x].context = call'[u].ctx
    BY <1>1, <1>2, <2>4, <2>8
  <2>11. InWrite(u)' => ~(msg'[x].destructor /\ context'[msg'[x].context].serializer)
    BY <1>2, <2>4, <2>5, <2>9
  <2>12. call'[u].message \in mine'[u]
    BY <2>1, <2>6
  <2> HIDE <2>4
  <2> QED BY <2>6, <2>10, <2>11, <2>12 DEF AloneThread
<1> QED BY <1>3, <1>4

(* The other messages.                                                     *)
LEMMA FrameMsg ==
  ASSUME CtxTypes, Bound, Alone, NEW t \in Threads, NEW n, Others(t, n),
         InSerialize(t) => \/ n = MsgOf(call[t].message)
                           \/ InSerialize(t)' /\ MsgOf(call[t].message)' = MsgOf(call[t].message),
         NEW x \in 1..MaxMessages, x # n
  PROVE  AloneMsg(x)'
<1>1. msg'[x] = msg[x] /\ AloneMsg(x)
  BY DEF Others, Alone
<1>2. SUFFICES ASSUME msg[x].destructor, ~msg[x].serializer, context'[msg[x].context].serializer
               PROVE  \E u \in Threads : InSerialize(u)' /\ MsgOf(call[u].message)' = x
  BY <1>1 DEF AloneMsg
<1>3. context[msg[x].context].serializer
  <2>1. msg[x].context \in DOMAIN context
    BY <1>2 DEF Bound
  <2> QED BY <1>2, <2>1 DEF Others
<1>4. PICK u \in Threads : InSerialize(u) /\ MsgOf(call[u].message) = x
  BY <1>1, <1>2, <1>3 DEF AloneMsg
<1>5. CASE u = t
  BY <1>4, <1>5 DEF MsgOf
<1>6. CASE u # t
  <2>1. call'[u] = call[u] /\ call[u].message \in mine[u]
    BY <1>4, <1>6 DEF Others, Alone, AloneThread
  <2>2. InSerialize(u)' /\ MsgOf(call[u].message)' = x
    BY <1>4, <1>6, <2>1 DEF Others, InSerialize, MsgOf
  <2> QED BY <2>2
<1> QED BY <1>5, <1>6

(* The contexts but the one of message n.                                  *)
LEMMA FrameContext ==
  ASSUME CtxTypes, Bound, Alone, NEW t \in Threads, NEW n, Others(t, n),
         \A k \in DOMAIN context : Destroyer(t, k) => Destroyer(t, k)' \/ context'[k].destroyed = 1,
         NEW k \in DOMAIN context,
         context[k].message # n \/ msg[n].context # k \/ ~msg[n].destructor
  PROVE  AloneContext(k)'
<1>1. /\ AloneContext(k) /\ context'[k].message = context[k].message
      /\ context'[k].serializer = context[k].serializer
      /\ context'[k].destructor = context[k].destructor
      /\ context[k].destroyed = 1 => context'[k].destroyed = 1
  BY DEF Alone, Others
<1>2. SUFFICES ASSUME Both(k)
               PROVE  \/ context'[k].destroyed = 1
                      \/ \E u \in Threads : Destroyer(u, k)'
                      \/ LET x == context[k].message
                         IN  msg'[x].context = k /\ msg'[x].destructor /\ x \in HeldIn(core')
  BY <1>1 DEF AloneContext, Both
<1>3. CASE context[k].destroyed = 1
  BY <1>1, <1>3
<1>4. CASE \E u \in Threads : Destroyer(u, k)
  <2>1. PICK u \in Threads : Destroyer(u, k)
    BY <1>4
  <2>2. CASE u = t
    BY <2>1, <2>2
  <2>3. CASE u # t
    BY <2>1, <2>3 DEF Others, Destroyer
  <2> QED BY <2>2, <2>3
<1>5. CASE LET x == context[k].message
           IN  msg[x].context = k /\ msg[x].destructor /\ x \in HeldIn(core)
  <2> DEFINE x == context[k].message
  <2>1. msg[x].context = k /\ msg[x].destructor /\ x \in HeldIn(core) /\ x # n
    BY <1>5
  <2>2. x \in 1..MaxMessages
    <3>1. context[k] \in Passes
      BY DEF CtxTypes
    <3> QED BY <3>1 DEF Passes
  <2> HIDE DEF x
  <2>3. msg'[x] = msg[x] /\ x \in HeldIn(core')
    BY <2>1, <2>2 DEF Others
  <2> QED BY <2>1, <2>3 DEF x
<1> QED BY <1>1, <1>2, <1>3, <1>4, <1>5 DEF AloneContext
-----------------------------------------------------------------------------
(* Who has a callback.                                                     *)

(* Contexts are numbered from 1.                                           *)
LEMMA ContextNumbers ==
  ASSUME CtxTypes
  PROVE  /\ Len(context) \in Nat /\ DOMAIN context = 1..Len(context)
         /\ 0 \notin DOMAIN context /\ Len(context) + 1 \notin DOMAIN context
         /\ \A k \in DOMAIN context : k \in Nat /\ context[k] \in Passes
<1>1. context \in Seq(Passes)
  BY DEF CtxTypes
<1> QED BY <1>1

\* The runs of destructors, and who has one, as before, but for contexts that
\* are new, of messages outside S.
SameDestroys(S) ==
  /\ \A k \in DOMAIN context : k \in DOMAIN context' /\ context'[k].destroyed = context[k].destroyed
  /\ \A k \in DOMAIN context' : k \notin DOMAIN context => context'[k].destroyed = 0
  /\ \A n \in 1..MaxMessages : n \notin S =>
       /\ msg'[n].context = msg[n].context /\ (msg'[n].destructor => msg[n].destructor)
       /\ n \in HeldIn(core') => n \in HeldIn(core) \/ msg[n].context = 0

(* Nobody takes a destructor.                                              *)
LEMMA DestroysKept ==
  ASSUME CtxTypes, OnceDestroyed, SameDestroys({}), DOMAIN context' = DOMAIN context,
         \A u \in Threads : \A k \in DOMAIN context : Destroyer(u, k)' <=> Destroyer(u, k)
  PROVE  OnceDestroyed'
<1> SUFFICES ASSUME NEW k \in DOMAIN context
             PROVE  /\ context'[k].destroyed \in {0, 1}
                    /\ context'[k].destroyed = 1 => \A u \in Threads : ~Destroyer(u, k)'
                    /\ \A u, v \in Threads : Destroyer(u, k)' /\ Destroyer(v, k)' => u = v
                    /\ \A n \in 1..MaxMessages :
                         msg'[n].context = k /\ (msg'[n].destructor \/ n \in HeldIn(core')) =>
                           context'[k].destroyed = 0 /\ \A u \in Threads : ~Destroyer(u, k)'
  BY DEF OnceDestroyed
<1>1. /\ context[k].destroyed \in {0, 1}
      /\ context[k].destroyed = 1 => \A u \in Threads : ~Destroyer(u, k)
      /\ \A u, v \in Threads : Destroyer(u, k) /\ Destroyer(v, k) => u = v
      /\ \A n \in 1..MaxMessages : msg[n].context = k /\ (msg[n].destructor \/ n \in HeldIn(core)) =>
           context[k].destroyed = 0 /\ \A u \in Threads : ~Destroyer(u, k)
  BY DEF OnceDestroyed
<1>2. k # 0 /\ context'[k].destroyed = context[k].destroyed
  BY ContextNumbers DEF SameDestroys
<1>3. \A n \in 1..MaxMessages :
        msg'[n].context = k /\ (msg'[n].destructor \/ n \in HeldIn(core')) =>
          msg[n].context = k /\ (msg[n].destructor \/ n \in HeldIn(core))
  BY <1>2 DEF SameDestroys
<1> QED BY <1>1, <1>2, <1>3

(* Message n loses its context, or goes; thread t takes the destructor if  *)
(* there is one.                                                           *)
LEMMA DestroyTaken ==
  ASSUME CtxTypes, Bound, OnceDestroyed, NEW n \in 1..MaxMessages, n \in HeldIn(core),
         SameDestroys({n}), NEW t \in Threads,
         \/ msg'[n].context \notin DOMAIN context
         \/ ~msg'[n].destructor /\ n \notin HeldIn(core'),
         \A u \in Threads : u # t => call'[u] = call[u],
         \A k : Destroyer(t, k)' <=> msg[n].destructor /\ k = msg[n].context,
         \A k : ~Destroyer(t, k)
  PROVE  OnceDestroyed'
<1>0. \A u \in Threads : \A k : Destroyer(u, k)' <=>
        Destroyer(u, k) \/ (u = t /\ msg[n].destructor /\ k = msg[n].context)
  BY DEF Destroyer
<1>1. \A u \in Threads : \A k : Destroyer(u, k) => k \in DOMAIN context
  BY DEF Bound, Destroyer
<1>2. msg[n].destructor => msg[n].context \in DOMAIN context
  BY DEF Bound
<1>3. ASSUME NEW k, k \in DOMAIN context'
      PROVE  /\ context'[k].destroyed \in {0, 1}
             /\ context'[k].destroyed = 1 => \A u \in Threads : ~Destroyer(u, k)'
             /\ \A u, v \in Threads : Destroyer(u, k)' /\ Destroyer(v, k)' => u = v
             /\ \A x \in 1..MaxMessages :
                  msg'[x].context = k /\ (msg'[x].destructor \/ x \in HeldIn(core')) =>
                    context'[k].destroyed = 0 /\ \A u \in Threads : ~Destroyer(u, k)'
  <2>1. CASE k \notin DOMAIN context
    <3>1. context'[k].destroyed = 0 /\ \A u \in Threads : ~Destroyer(u, k)'
      BY <1>0, <1>1, <1>2, <1>3, <2>1 DEF SameDestroys
    <3> QED BY <3>1
  <2>2. CASE k \in DOMAIN context
    <3>1. /\ context[k].destroyed \in {0, 1}
          /\ context[k].destroyed = 1 => \A u \in Threads : ~Destroyer(u, k)
          /\ \A u, v \in Threads : Destroyer(u, k) /\ Destroyer(v, k) => u = v
          /\ \A x \in 1..MaxMessages : msg[x].context = k /\ (msg[x].destructor \/ x \in HeldIn(core)) =>
               context[k].destroyed = 0 /\ \A u \in Threads : ~Destroyer(u, k)
      BY <2>2 DEF OnceDestroyed
    <3>2. k # 0 /\ context'[k].destroyed = context[k].destroyed
      BY <2>2, ContextNumbers DEF SameDestroys
    <3>3. \A x \in 1..MaxMessages :
            msg'[x].context = k /\ (msg'[x].destructor \/ x \in HeldIn(core')) =>
              x # n /\ msg[x].context = k /\ (msg[x].destructor \/ x \in HeldIn(core))
      BY <2>2, <3>2 DEF SameDestroys
    <3>4. CASE msg[n].destructor /\ k = msg[n].context
      <4>1. context[k].destroyed = 0 /\ \A u \in Threads : ~Destroyer(u, k)
        BY <3>1, <3>4
      <4>2. \A u \in Threads : Destroyer(u, k)' => u = t
        BY <1>0, <4>1
      <4>3. \A x \in 1..MaxMessages : x # n => msg[x].context # k
        <5>1. context[k].message = n
          BY <3>2, <3>4 DEF Bound
        <5> QED BY <3>2, <5>1 DEF Bound
      <4> QED BY <3>2, <3>3, <4>1, <4>2, <4>3
    <3>5. CASE ~(msg[n].destructor /\ k = msg[n].context)
      <4>1. \A u \in Threads : Destroyer(u, k)' <=> Destroyer(u, k)
        BY <1>0, <3>5
      <4> QED BY <3>1, <3>2, <3>3, <4>1
    <3> QED BY <3>4, <3>5
  <2> QED BY <2>1, <2>2
<1> QED BY <1>3 DEF OnceDestroyed

(* Thread t runs the destructor of context k.                              *)
LEMMA DestroyRun ==
  ASSUME CtxTypes, OnceDestroyed, NEW t \in Threads, NEW k \in DOMAIN context, Destroyer(t, k),
         context' = [context EXCEPT ![k].destroyed = @ + 1],
         \A u \in Threads : u # t => call'[u] = call[u], \A j : ~Destroyer(t, j)',
         UNCHANGED msg, HeldIn(core') = HeldIn(core)
  PROVE  OnceDestroyed'
<1>1. /\ context[k].destroyed \in {0, 1}
      /\ context[k].destroyed = 1 => \A u \in Threads : ~Destroyer(u, k)
      /\ \A u, v \in Threads : Destroyer(u, k) /\ Destroyer(v, k) => u = v
      /\ \A n \in 1..MaxMessages : msg[n].context = k /\ (msg[n].destructor \/ n \in HeldIn(core)) =>
           context[k].destroyed = 0 /\ \A u \in Threads : ~Destroyer(u, k)
  BY DEF OnceDestroyed
<1>2. context[k].destroyed = 0 /\ context[k] \in Passes
  BY <1>1, ContextNumbers
<1>3. DOMAIN context' = DOMAIN context /\ context'[k].destroyed = 1
      /\ \A j \in DOMAIN context : j # k => context'[j] = context[j]
  BY <1>2 DEF Passes
<1>4. \A u \in Threads : \A j : Destroyer(u, j)' => Destroyer(u, j) /\ u # t
  BY DEF Destroyer
<1>5. \A n \in 1..MaxMessages : ~(msg[n].context = k /\ (msg[n].destructor \/ n \in HeldIn(core)))
  BY <1>1
<1>6. ASSUME NEW j \in DOMAIN context
      PROVE  /\ context'[j].destroyed \in {0, 1}
             /\ context'[j].destroyed = 1 => \A u \in Threads : ~Destroyer(u, j)'
             /\ \A u, v \in Threads : Destroyer(u, j)' /\ Destroyer(v, j)' => u = v
             /\ \A x \in 1..MaxMessages :
                  msg'[x].context = j /\ (msg'[x].destructor \/ x \in HeldIn(core')) =>
                    context'[j].destroyed = 0 /\ \A u \in Threads : ~Destroyer(u, j)'
  <2>1. CASE j = k
    BY <1>1, <1>3, <1>4, <1>5, <2>1
  <2>2. CASE j # k
    <3>1. /\ context[j].destroyed \in {0, 1}
          /\ context[j].destroyed = 1 => \A u \in Threads : ~Destroyer(u, j)
          /\ \A u, v \in Threads : Destroyer(u, j) /\ Destroyer(v, j) => u = v
          /\ \A n \in 1..MaxMessages : msg[n].context = j /\ (msg[n].destructor \/ n \in HeldIn(core)) =>
               context[j].destroyed = 0 /\ \A u \in Threads : ~Destroyer(u, j)
      BY DEF OnceDestroyed
    <3>2. context'[j] = context[j]
      BY <1>3, <2>2
    <3> QED BY <1>4, <3>1, <3>2
  <2> QED BY <2>1, <2>2
<1> QED BY <1>3, <1>6 DEF OnceDestroyed
\* What a step does to the parts of context k that OnceSerialized speaks of.
SerializedAt(k) ==
  /\ context[k].serialized \in {0, 1}
  /\ context[k].serialized = 1 => \A t \in Threads : ~Serializer(t, k)
  /\ \A t, u \in Threads : Serializer(t, k) /\ Serializer(u, k) => t = u
  /\ \A n \in 1..MaxMessages : msg[n].context = k /\ msg[n].serializer =>
       context[k].serialized = 0 /\ \A t \in Threads : ~Serializer(t, k)

(* By context.                                                             *)
LEMMA OnceSerializedIs ==
  /\ OnceSerialized <=> \A k \in DOMAIN context : SerializedAt(k)
  /\ OnceSerialized' <=> \A k \in DOMAIN context' : SerializedAt(k)'
BY DEF OnceSerialized, SerializedAt

(* Nobody takes a serializer.                                              *)
LEMMA SerializesKept ==
  ASSUME CtxTypes, Bound, OnceSerialized,
         \A k \in DOMAIN context : context'[k].serialized = context[k].serialized,
         \A k \in DOMAIN context' : k \notin DOMAIN context => context'[k].serialized = 0,
         \A n \in 1..MaxMessages : msg'[n].serializer =>
           \/ msg'[n].context = msg[n].context /\ msg[n].serializer
           \/ msg'[n].context \notin DOMAIN context,
         \A u \in Threads : \A k : Serializer(u, k)' => Serializer(u, k)
  PROVE  OnceSerialized'
<1>1. \A u \in Threads : \A k : Serializer(u, k) => k \in DOMAIN context
  BY DEF Bound, Serializer
<1>2. ASSUME NEW k, k \in DOMAIN context'
      PROVE  SerializedAt(k)'
  <2>1. CASE k \notin DOMAIN context
    <3>1. context'[k].serialized = 0 /\ \A u \in Threads : ~Serializer(u, k)'
      BY <1>1, <1>2, <2>1
    <3> QED BY <3>1 DEF SerializedAt
  <2>2. CASE k \in DOMAIN context
    <3>1. SerializedAt(k) /\ context'[k].serialized = context[k].serialized
      BY <2>2, OnceSerializedIs
    <3>2. \A n \in 1..MaxMessages : msg'[n].context = k /\ msg'[n].serializer =>
            msg[n].context = k /\ msg[n].serializer
      BY <2>2
    <3> QED BY <3>1, <3>2 DEF SerializedAt
  <2> QED BY <2>1, <2>2
<1> QED BY <1>2, OnceSerializedIs

(* Thread t takes the serializer of message n, if there is one.            *)
LEMMA SerializerTaken ==
  ASSUME CtxTypes, Bound, OnceSerialized, NEW n \in 1..MaxMessages, NEW t \in Threads,
         UNCHANGED context,
         \A x \in 1..MaxMessages : x # n => msg'[x] = msg[x],
         ~msg'[n].serializer,
         \A u \in Threads : u # t => call'[u] = call[u],
         \A k : Serializer(t, k)' <=> msg[n].serializer /\ k = msg[n].context,
         \A k : ~Serializer(t, k)
  PROVE  OnceSerialized'
<1>1. \A u \in Threads : \A k : Serializer(u, k)' <=>
        Serializer(u, k) \/ (u = t /\ msg[n].serializer /\ k = msg[n].context)
  BY DEF Serializer
<1>2. ASSUME NEW k \in DOMAIN context
      PROVE  SerializedAt(k)'
  <2>1. SerializedAt(k) /\ k # 0 /\ context' = context
    BY OnceSerializedIs, ContextNumbers
  <2>2. \A x \in 1..MaxMessages : msg'[x].serializer => x # n /\ msg'[x] = msg[x]
    OBVIOUS
  <2>3. CASE msg[n].serializer /\ k = msg[n].context
    <3>1. context[k].serialized = 0 /\ \A u \in Threads : ~Serializer(u, k)
      BY <2>1, <2>3 DEF SerializedAt
    <3>2. \A u \in Threads : Serializer(u, k)' => u = t
      BY <1>1, <3>1
    <3>3. context[k].message = n
      BY <2>1, <2>3 DEF Bound
    <3>4. \A x \in 1..MaxMessages : x # n => msg[x].context # k
      BY <2>1, <3>3 DEF Bound
    <3> QED BY <2>1, <2>2, <3>1, <3>2, <3>4 DEF SerializedAt
  <2>4. CASE ~(msg[n].serializer /\ k = msg[n].context)
    <3>1. \A u \in Threads : Serializer(u, k)' <=> Serializer(u, k)
      BY <1>1, <2>4
    <3> QED BY <2>1, <2>2, <3>1 DEF SerializedAt
  <2> QED BY <2>3, <2>4
<1> QED BY <1>2, OnceSerializedIs

(* Thread t runs the serializer of context k.                              *)
LEMMA SerializerRun ==
  ASSUME CtxTypes, OnceSerialized, NEW t \in Threads, NEW k \in DOMAIN context, Serializer(t, k),
         context' = [context EXCEPT ![k].serialized = @ + 1],
         \A u \in Threads : u # t => call'[u] = call[u], \A j : ~Serializer(t, j)',
         UNCHANGED msg
  PROVE  OnceSerialized'
<1>1. SerializedAt(k)
  BY OnceSerializedIs
<1>2. context[k].serialized = 0 /\ context[k] \in Passes
  BY <1>1, ContextNumbers DEF SerializedAt
<1>3. DOMAIN context' = DOMAIN context /\ context'[k].serialized = 1
      /\ \A j \in DOMAIN context : j # k => context'[j] = context[j]
  BY <1>2 DEF Passes
<1>4. \A u \in Threads : \A j : Serializer(u, j)' => Serializer(u, j) /\ u # t
  BY DEF Serializer
<1>5. \A n \in 1..MaxMessages : ~(msg[n].context = k /\ msg[n].serializer)
  BY <1>1 DEF SerializedAt
<1>6. ASSUME NEW j \in DOMAIN context
      PROVE  SerializedAt(j)'
  <2>1. CASE j = k
    BY <1>1, <1>3, <1>4, <1>5, <2>1 DEF SerializedAt
  <2>2. CASE j # k
    <3>1. SerializedAt(j) /\ context'[j] = context[j]
      BY <1>3, <2>2, OnceSerializedIs
    <3> QED BY <1>4, <3>1 DEF SerializedAt
  <2> QED BY <2>1, <2>2
<1> QED BY <1>3, <1>6, OnceSerializedIs
-----------------------------------------------------------------------------
(* The actions.                                                            *)

(* Nothing moves.                                                          *)
LEMMA StayPiped ==
  ASSUME NEW c, NEW d, Piped(c), Typed(d), Len(d.pipes) = 1, MsgStay(c, d)
  PROVE  Piped(d) /\ HeldIn(d) = HeldIn(c) /\ d.messages = c.messages /\ SameMsgs(c, d, {})
BY StayPlaced DEF Piped, MsgStay

(* Every handle that a thread has is one of a message.                     *)
LEMMA MineNames ==
  ASSUME CtxTypes, NEW u \in Threads, NEW h \in mine[u]
  PROVE  /\ IsMsg(core, h) /\ MsgOf(h) \in 1..MaxMessages /\ MsgOf(h) # 0 /\ h \in Nat
         /\ MsgOf(h) \in HeldIn(core) /\ MsgOf(h) <= core.messages
         /\ IdAt(core, h) = <<MsgOf(h)>>
<1>1. IsMsg(core, h) /\ Piped(core)
  BY DEF CtxTypes
<1>2. h \in Nat
  BY <1>1, QueuesTyped DEF Piped
<1>3. /\ MsgOf(h) \in 1..core.messages /\ MsgOf(h) \in 1..MaxMessages
      /\ MsgOf(h) \in HeldIn(core) /\ IdAt(core, h) = <<MsgOf(h)>>
  BY <1>1, MsgNames
<1>4. core.messages \in Nat
  BY <1>1 DEF Piped, Typed
<1> QED BY <1>1, <1>2, <1>3, <1>4

(* An operation of the core that makes or moves messages, by a thread that *)
(* is in no call: it learns the handles in S.                              *)
LEMMA CoreStep ==
  ASSUME CtxInv, NEW t \in Threads, Idle(t), NEW S \in SUBSET Nat,
         SameMsgs(core, core', S), \A h \in S : ~IsMsg(core, h) /\ IsMsg(core', h),
         mine' = [x \in Threads |-> IF shared \/ x = t THEN mine[x] \cup S ELSE mine[x]],
         UNCHANGED <<shared, msg, call, context>>,
         Piped(core'), core.messages <= core'.messages,
         HeldIn(core) \subseteq HeldIn(core'),
         HeldIn(core') \subseteq HeldIn(core) \cup {core.messages + 1}
  PROVE  CtxInv'
<1>1. CtxTypes /\ Bound /\ OnceDestroyed /\ OnceSerialized
  BY DEF CtxInv
<1>2. \A u \in Threads : \A h \in mine[u] : h \notin S /\ IsMsg(core', h) /\ MsgOf(h)' = MsgOf(h)
  BY <1>1, SameNames DEF CtxTypes
<1>3. CtxTypes'
  <2>1. mine' \in [Threads -> SUBSET Nat]
    BY <1>1 DEF CtxTypes
  <2>2. \A u \in Threads : \A h \in mine'[u] : IsMsg(core', h)
    BY <1>2
  <2>3. /\ shared' \in BOOLEAN /\ msg' \in [1..MaxMessages -> Bonds]
        /\ call' \in [Threads -> Calls] /\ context' \in Seq(Passes)
    BY <1>1 DEF CtxTypes
  <2> QED BY <2>1, <2>2, <2>3 DEF CtxTypes, IsMsg
<1>4. core.messages \in Nat /\ core'.messages \in Nat
  BY <1>1 DEF CtxTypes, Piped, Typed
<1>5. Bound'
  <2>1. \A n \in 1..MaxMessages : n <= core.messages => n <= core'.messages
    BY <1>4
  <2> QED BY <1>1, <2>1 DEF Bound
<1>6. OnceDestroyed'
  <2>1. \A n \in 1..MaxMessages : n = core.messages + 1 => msg[n].context = 0
    <3>1. ~(core.messages + 1 <= core.messages)
      BY <1>4
    <3> QED BY <1>1, <3>1 DEF Bound
  <2>2. SameDestroys({})
    BY <2>1 DEF SameDestroys
  <2>3. \A u \in Threads : \A k \in DOMAIN context : Destroyer(u, k)' <=> Destroyer(u, k)
    BY DEF Destroyer
  <2> QED BY <1>1, <2>2, <2>3, DestroysKept
<1>7. OnceSerialized'
  BY <1>1 DEF OnceSerialized, Serializer
<1>8. ASSUME ~shared' PROVE Alone'
  <2>1. Alone /\ ~shared
    BY <1>8 DEF CtxInv
  <2>2. \A u \in Threads : u # t => call'[u] = call[u] /\ mine'[u] = mine[u]
    BY <2>1
  <2>3. \A u \in Threads : \A h \in mine[u] : u # t => MsgOf(h)' = MsgOf(h) /\ MsgOf(h) # 0
    BY <1>1, <1>2, MineNames
  <2>4. Others(t, 0)
    BY <2>2, <2>3 DEF Others
  <2>5. Apart'
    <3>1. \A u \in Threads : mine'[u] = IF u = t THEN mine[u] \cup S ELSE mine[u]
      BY <2>1
    <3>2. \A u \in Threads : mine[u] \cap S = {}
      BY <1>2
    <3> QED BY <2>1, <3>1, <3>2 DEF Alone, Apart
  <2>6. ~InSerialize(t) /\ ~InWrite(t) /\ ~InSerialize(t)' /\ ~InWrite(t)'
        /\ \A k : ~Destroyer(t, k)
    BY DEF Idle, InSerialize, InWrite, Destroyer
  <2>7. \A u \in Threads : AloneThread(u)'
    <3>1. AloneThread(t)'
      BY <2>6 DEF AloneThread
    <3>2. \A u \in Threads : u # t => AloneThread(u)'
      BY <1>1, <2>1, <2>4, FrameThread
    <3> QED BY <3>1, <3>2
  <2>8. \A x \in 1..MaxMessages : AloneMsg(x)'
    <3>1. \A x \in 1..MaxMessages : x # 0
      OBVIOUS
    <3> QED BY <1>1, <2>1, <2>4, <2>6, <3>1, FrameMsg
  <2>9. \A k \in DOMAIN context : AloneContext(k)'
    <3>1. \A k \in DOMAIN context : context[k].message # 0
      <4>1. \A k \in DOMAIN context : context[k].message \in 1..MaxMessages
        BY <1>1, ContextNumbers DEF Passes
      <4> QED BY <4>1
    <3> QED BY <1>1, <2>1, <2>4, <2>6, <3>1, FrameContext
  <2>10. DOMAIN context' = DOMAIN context
    OBVIOUS
  <2> QED BY <2>5, <2>7, <2>8, <2>9, <2>10 DEF Alone
<1> QED BY <1>3, <1>5, <1>6, <1>7, <1>8 DEF CtxInv
(* WhpCreateMessage.                                                       *)
LEMMA CreateStep ==
  ASSUME CtxInv, UNCHANGED shared, NEW t \in Threads, CreateMessage(t)
  PROVE  CtxInv'
<1>1. Piped(core) /\ core.messages \in Nat /\ core.messages < MaxMessages /\ MaxMessages \in Nat
  BY MessageContextAssumption DEF CtxInv, CtxTypes, Piped, Typed, CreateMessage
<1>2. PICK n : n = NextHandle(core)
  OBVIOUS
<1>3. Typed(core') /\ core'.pipes = core.pipes /\ MsgMade(core, core', n)
  BY <1>1, <1>2, CreateMakes DEF Piped, CreateMessage
<1>4. Placed(core') /\ HeldIn(core') = HeldIn(core) \cup {core.messages + 1}
  BY <1>1, <1>3, MadePlaced DEF Piped
<1>5. /\ core'.messages = core.messages + 1 /\ core'.messages <= MaxMessages
      /\ core.messages <= core'.messages
  BY <1>1, <1>3 DEF MsgMade
<1>6. Piped(core')
  BY <1>1, <1>3, <1>4, <1>5 DEF Piped
<1>7. ~IsMsg(core, n) /\ IsMsg(core', n) /\ SameMsgs(core, core', {n})
  BY <1>3 DEF MsgMade
<1>8. n \in Nat
  BY <1>6, <1>7, QueuesTyped DEF Piped
<1>9. mine' = [x \in Threads |-> IF shared \/ x = t THEN mine[x] \cup {n} ELSE mine[x]]
  BY <1>2 DEF CreateMessage, Learn
<1>10. Idle(t) /\ UNCHANGED <<shared, msg, call, context>>
  BY DEF CreateMessage
<1>11. {n} \in SUBSET Nat /\ \A h \in {n} : ~IsMsg(core, h) /\ IsMsg(core', h)
  BY <1>7, <1>8
<1>12. /\ core.messages <= core'.messages /\ HeldIn(core) \subseteq HeldIn(core')
       /\ HeldIn(core') \subseteq HeldIn(core) \cup {core.messages + 1}
  BY <1>4, <1>5
<1> QED BY <1>6, <1>7, <1>9, <1>10, <1>11, <1>12, CoreStep

(* WhpReadMessage.                                                         *)
LEMMA ReadStep ==
  ASSUME CtxInv, UNCHANGED shared, NEW t \in Threads, NEW pipe, ReadMessage(t, pipe)
  PROVE  CtxInv'
<1>1. Piped(core) /\ core.messages \in Nat
  BY DEF CtxInv, CtxTypes, Piped, Typed
<1>2. PICK n : n = NextHandle(core)
  OBVIOUS
<1>3. Typed(core') /\ Len(core'.pipes) = 1 /\ MsgRead(core, core', n)
  BY <1>1, <1>2, ReadIsRead DEF Piped, ReadMessage
<1>4. Placed(core') /\ HeldIn(core') = HeldIn(core)
  BY <1>1, <1>3, QueuesTyped, ReadPlaced DEF Piped
<1>5. core'.messages = core.messages
  BY <1>3 DEF MsgRead
<1>6. Piped(core')
  BY <1>1, <1>3, <1>4, <1>5 DEF Piped
<1>7. ~IsMsg(core, n) /\ IsMsg(core', n) /\ SameMsgs(core, core', {n})
  BY <1>3 DEF MsgRead
<1>8. n \in Nat
  BY <1>6, <1>7, QueuesTyped DEF Piped
<1>9. mine' = [x \in Threads |-> IF shared \/ x = t THEN mine[x] \cup {n} ELSE mine[x]]
  BY <1>2 DEF ReadMessage, Learn
<1>10. Idle(t) /\ UNCHANGED <<shared, msg, call, context>>
  BY DEF ReadMessage
<1>11. {n} \in SUBSET Nat /\ \A h \in {n} : ~IsMsg(core, h) /\ IsMsg(core', h)
  BY <1>7, <1>8
<1>12. /\ core.messages <= core'.messages /\ HeldIn(core) \subseteq HeldIn(core')
       /\ HeldIn(core') \subseteq HeldIn(core) \cup {core.messages + 1}
  BY <1>1, <1>4, <1>5
<1> QED BY <1>6, <1>7, <1>9, <1>10, <1>11, <1>12, CoreStep

(* Nothing moves, and no thread learns a handle.                           *)
LEMMA StayStep ==
  ASSUME CtxInv, NEW t \in Threads, Idle(t), Typed(core'), Len(core'.pipes) = 1,
         MsgStay(core, core'), UNCHANGED <<shared, msg, call, mine, context>>
  PROVE  CtxInv'
<1>1. Piped(core) /\ core.messages \in Nat /\ mine \in [Threads -> SUBSET Nat]
  BY DEF CtxInv, CtxTypes, Piped, Typed
<1>2. /\ Piped(core') /\ HeldIn(core') = HeldIn(core) /\ core'.messages = core.messages
      /\ SameMsgs(core, core', {})
  BY <1>1, StayPiped
<1>3. mine' = [x \in Threads |-> IF shared \/ x = t THEN mine[x] \cup {} ELSE mine[x]]
  BY <1>1
<1>4. /\ core.messages <= core'.messages /\ HeldIn(core) \subseteq HeldIn(core')
      /\ HeldIn(core') \subseteq HeldIn(core) \cup {core.messages + 1}
  BY <1>1, <1>2
<1>5. {} \in SUBSET Nat /\ \A h \in {} : ~IsMsg(core, h) /\ IsMsg(core', h)
  OBVIOUS
<1> QED BY <1>2, <1>3, <1>4, <1>5, CoreStep

(* WhpAppendMessageData that commits the size.                             *)
LEMMA CommitSizeStep ==
  ASSUME CtxInv, UNCHANGED shared, NEW t \in Threads, NEW m \in mine[t], CommitSize(t, m)
  PROVE  CtxInv'
<1>1. Piped(core) /\ IsMsg(core, m)
  BY DEF CtxInv, CtxTypes
<1>2. Typed(core') /\ core'.pipes = core.pipes /\ MsgStay(core, core')
  BY <1>1, CommitStays DEF Piped, CommitSize
<1> QED BY <1>1, <1>2, StayStep DEF Piped, CommitSize

(* WhpClose of an end of the pipe.                                         *)
LEMMA ClosePipeStep ==
  ASSUME CtxInv, UNCHANGED shared, NEW t \in Threads, NEW pipe, ClosePipe(t, pipe)
  PROVE  CtxInv'
<1>1. Piped(core)
  BY DEF CtxInv, CtxTypes
<1>2. Typed(core') /\ Len(core'.pipes) = 1 /\ MsgStay(core, core')
  BY <1>1, ClosePipeStays DEF Piped, ClosePipe
<1> QED BY <1>1, <1>2, StayStep DEF ClosePipe
(* The kinds of calls.                                                     *)
LEMMA CallIs ==
  ASSUME CtxTypes, NEW t \in Threads
  PROVE  /\ call[t].at \in {"idle", "serializer", "commit", "destructor", "write"}
         /\ call[t].at \in {"serializer", "commit"} => call[t] \in Serials
         /\ call[t].at = "destructor" => call[t] \in Destroys
         /\ call[t].at = "write" => call[t] \in Writes
<1>1. call[t] \in Calls
  BY DEF CtxTypes
<1>2. CASE call[t] \in Plain
  BY <1>2 DEF Plain
<1>3. CASE call[t] \in Serials
  BY <1>3 DEF Serials
<1>4. CASE call[t] \in Destroys
  BY <1>4 DEF Destroys
<1>5. CASE call[t] \in Writes
  BY <1>5 DEF Writes
<1> QED BY <1>1, <1>2, <1>3, <1>4, <1>5 DEF Calls

\* The contexts stay, but for the runs of their callbacks.
SameContexts ==
  \A k \in DOMAIN context :
    /\ k \in DOMAIN context' /\ context'[k].message = context[k].message
    /\ context'[k].serializer = context[k].serializer
    /\ context'[k].destructor = context[k].destructor
    /\ context[k].destroyed = 1 => context'[k].destroyed = 1

(* A step of thread t on its message n.                                    *)
LEMMA OthersIs ==
  ASSUME CtxTypes, Apart, NEW t \in Threads, NEW n, n = 0 \/ \E m \in mine[t] : n = MsgOf(m),
         NEW S, SameMsgs(core, core', S), \A u \in Threads : u # t => mine[u] \cap S = {},
         \A u \in Threads : u # t => call'[u] = call[u] /\ mine'[u] = mine[u],
         \A x \in 1..MaxMessages : x # n => msg'[x] = msg[x],
         \A x : x # n /\ x \in HeldIn(core) => x \in HeldIn(core'),
         SameContexts
  PROVE  Others(t, n)
<1>1. ASSUME NEW u \in Threads, NEW h \in mine[u], u # t PROVE MsgOf(h)' = MsgOf(h) /\ MsgOf(h) # n
  <2>1. IsMsg(core, h) /\ h \notin S
    BY <1>1 DEF CtxTypes
  <2>2. MsgOf(h)' = MsgOf(h)
    BY <2>1, SameNames
  <2>3. MsgOf(h) # 0
    BY MineNames
  <2>4. \A m \in mine[t] : MsgOf(h) # MsgOf(m)
    BY <1>1, ApartNames
  <2> QED BY <2>2, <2>3, <2>4
<1> QED BY <1>1 DEF Others, SameContexts

(* What there is to show for a step of thread t on its message n.          *)
LEMMA AloneStep ==
  ASSUME CtxTypes, Bound, Alone, NEW t \in Threads, NEW n, Others(t, n), Apart', AloneThread(t)',
         n \in 1..MaxMessages => AloneMsg(n)',
         InSerialize(t) => \/ n = MsgOf(call[t].message)
                           \/ InSerialize(t)' /\ MsgOf(call[t].message)' = MsgOf(call[t].message),
         \A k \in DOMAIN context : Destroyer(t, k) => Destroyer(t, k)' \/ context'[k].destroyed = 1,
         \A k \in DOMAIN context' :
           k \notin DOMAIN context \/ (context[k].message = n /\ msg[n].context = k /\ msg[n].destructor) =>
             AloneContext(k)'
  PROVE  Alone'
<1>1. \A u \in Threads : AloneThread(u)'
  BY FrameThread
<1>2. \A x \in 1..MaxMessages : AloneMsg(x)'
  BY FrameMsg
<1>3. ASSUME NEW k, k \in DOMAIN context' PROVE AloneContext(k)'
  <2>1. CASE k \notin DOMAIN context \/ (context[k].message = n /\ msg[n].context = k /\ msg[n].destructor)
    BY <1>3, <2>1
  <2>2. CASE k \in DOMAIN context /\ ~(context[k].message = n /\ msg[n].context = k /\ msg[n].destructor)
    BY <2>2, FrameContext
  <2> QED BY <2>1, <2>2
<1> QED BY <1>1, <1>2, <1>3 DEF Alone

(* The core may commit a message, or not.                                  *)
LEMMA MayCommit ==
  ASSUME CtxTypes, NEW m,
         \/ core' = core
         \/ /\ IsMsg(core, m)
            /\ core' = WhpAppendMessageData(core, m, 0, TRUE) \/ core' = WhpSerializeMessage(core, m)
  PROVE  /\ Piped(core') /\ HeldIn(core') = HeldIn(core) /\ core'.messages = core.messages
         /\ SameMsgs(core, core', {})
<1>1. Piped(core) /\ Typed(core) /\ Len(core.pipes) = 1
  BY DEF CtxTypes, Piped
<1>2. CASE core' = core
  BY <1>1, <1>2 DEF SameMsgs
<1>3. CASE /\ IsMsg(core, m)
           /\ core' = WhpAppendMessageData(core, m, 0, TRUE) \/ core' = WhpSerializeMessage(core, m)
  <2>1. Typed(core') /\ core'.pipes = core.pipes /\ MsgStay(core, core')
    BY <1>1, <1>3, CommitStays
  <2> QED BY <1>1, <2>1, StayPiped
<1> QED BY <1>2, <1>3

(* The serializer, between the sections of WhpSerializeMessage.            *)
LEMMA RunSerializerStep ==
  ASSUME CtxInv, UNCHANGED shared, NEW t \in Threads, RunSerializer(t)
  PROVE  CtxInv'
<1>1. CtxTypes /\ Bound /\ OnceDestroyed /\ OnceSerialized
  BY DEF CtxInv
<1>2. PICK x : x = call[t]
  OBVIOUS
<1>3. /\ x.at = "serializer" /\ x \in Serials
      /\ context' = IF x.run THEN [context EXCEPT ![x.ctx].serialized = @ + 1] ELSE context
      /\ core' = core \/ (IsMsg(core, x.message) /\ core' = WhpAppendMessageData(core, x.message, 0, TRUE))
      /\ UNCHANGED <<msg, mine>>
  BY <1>1, <1>2, CallIs DEF RunSerializer, IsMsg
<1>4. /\ Piped(core') /\ HeldIn(core') = HeldIn(core) /\ core'.messages = core.messages
      /\ SameMsgs(core, core', {})
  BY <1>1, <1>3, MayCommit
<1>5. call' = [call EXCEPT ![t] = [x EXCEPT !.at = "commit"]] /\ call \in [Threads -> Calls]
  BY <1>1, <1>2 DEF RunSerializer, CtxTypes
<1>6. /\ [x EXCEPT !.at = "commit"] \in Serials /\ [x EXCEPT !.at = "commit"].at = "commit"
      /\ [x EXCEPT !.at = "commit"].message = x.message
  BY <1>3 DEF Serials
<1>7. /\ call' \in [Threads -> Calls] /\ \A u \in Threads : u # t => call'[u] = call[u]
      /\ call'[t].at = "commit" /\ call'[t].message = x.message
  BY <1>5, <1>6 DEF Calls
<1>8. x.run => x.ctx \in DOMAIN context
  BY <1>1, <1>2, <1>3 DEF Bound
<1>9. \A k \in DOMAIN context : context[k] \in Passes
  BY <1>1, ContextNumbers
<1>10. /\ context' \in Seq(Passes) /\ DOMAIN context' = DOMAIN context
       /\ \A k \in DOMAIN context :
            /\ context'[k].message = context[k].message
            /\ context'[k].serializer = context[k].serializer
            /\ context'[k].destructor = context[k].destructor
            /\ context'[k].destroyed = context[k].destroyed
  <2>1. CASE ~x.run
    BY <1>1, <1>3, <2>1 DEF CtxTypes
  <2>2. CASE x.run
    <3>1. PICK k \in DOMAIN context : k = x.ctx
      BY <1>8, <2>2
    <3> DEFINE y == [context[k] EXCEPT !.serialized = @ + 1]
    <3>2. context[k] \in Passes
      BY <1>9
    <3>3. y \in Passes /\ y.message = context[k].message /\ y.serializer = context[k].serializer
          /\ y.destructor = context[k].destructor /\ y.destroyed = context[k].destroyed
      BY <3>2 DEF Passes
    <3>4. context' = [context EXCEPT ![k] = y] /\ context \in Seq(Passes)
      BY <1>1, <1>3, <2>2, <3>1 DEF CtxTypes
    <3> HIDE DEF y
    <3> QED BY <3>3, <3>4
  <2> QED BY <2>1, <2>2, <1>3 DEF Serials
<1>11. CtxTypes'
  <2>1. \A u \in Threads : \A h \in mine'[u] : IsMsg(core', h)
    BY <1>1, <1>3, <1>4, SameNames DEF CtxTypes
  <2> QED BY <1>1, <1>3, <1>4, <1>7, <1>10, <2>1 DEF CtxTypes, IsMsg
<1>12. Bound'
  <2>1. \A u \in Threads : call'[u].at = "destructor" => call[u].at = "destructor" /\ call'[u].ctx = call[u].ctx
    BY <1>7
  <2>2. \A u \in Threads : call'[u].at = "serializer" => call'[u] = call[u]
    BY <1>7
  <2> QED BY <1>1, <1>3, <1>4, <1>10, <2>1, <2>2 DEF Bound
<1>13. \A u \in Threads : \A k : Destroyer(u, k)' <=> Destroyer(u, k)
  BY <1>2, <1>3, <1>7 DEF Destroyer
<1>14. OnceDestroyed'
  <2>1. SameDestroys({})
    BY <1>3, <1>4, <1>10 DEF SameDestroys
  <2> QED BY <1>1, <1>10, <1>13, <2>1, DestroysKept
<1>15. OnceSerialized'
  <2>1. CASE ~x.run
    <3>1. \A u \in Threads : \A k : Serializer(u, k)' => Serializer(u, k)
      BY <1>7 DEF Serializer
    <3> QED BY <1>1, <1>3, <2>1, <3>1, SerializesKept
  <2>2. CASE x.run
    <3>1. PICK k \in DOMAIN context : k = x.ctx
      BY <1>8, <2>2
    <3>2. Serializer(t, k) /\ \A j : ~Serializer(t, j)'
      BY <1>2, <1>3, <1>7, <2>2, <3>1 DEF Serializer
    <3>3. context' = [context EXCEPT ![k].serialized = @ + 1]
      BY <1>3, <2>2, <3>1
    <3> QED BY <1>1, <1>3, <1>7, <3>2, <3>3, SerializerRun
  <2> QED BY <2>1, <2>2, <1>3 DEF Serials
<1>16. ASSUME ~shared' PROVE Alone'
  <2>1. Alone /\ ~shared
    BY <1>16 DEF CtxInv
  <2>2. Others(t, 0)
    <3>1. SameContexts
      BY <1>10 DEF SameContexts
    <3>2. Apart
      BY <2>1 DEF Alone
    <3>3. \A u \in Threads : u # t => call'[u] = call[u] /\ mine'[u] = mine[u]
      BY <1>3, <1>7
    <3>4. \A y \in 1..MaxMessages : y # 0 => msg'[y] = msg[y]
      BY <1>3
    <3>5. \A u \in Threads : u # t => mine[u] \cap {} = {}
      OBVIOUS
    <3>6. \A y : y # 0 /\ y \in HeldIn(core) => y \in HeldIn(core')
      BY <1>4
    <3> QED BY <1>1, <1>4, <3>1, <3>2, <3>3, <3>4, <3>5, <3>6, OthersIs
  <2>3. Apart'
    BY <1>3, <2>1 DEF Alone, Apart
  <2>4. PICK m : m = x.message
    OBVIOUS
  <2>5. m \in mine[t] /\ InSerialize(t) /\ ~msg[MsgOf(m)].serializer /\ call[t].message = m
    BY <1>2, <1>3, <2>1, <2>4 DEF Alone, AloneThread, InSerialize
  <2>6. MsgOf(m)' = MsgOf(m)
    BY <1>1, <1>4, <2>5, SameNames, MineNames
  <2>7. InSerialize(t)' /\ ~InWrite(t)' /\ call'[t].message = m /\ MsgOf(call[t].message)' = MsgOf(m)
    BY <1>7, <2>4, <2>6 DEF InSerialize, InWrite, MsgOf
  <2>8. AloneThread(t)'
    BY <1>3, <1>7, <2>5, <2>6, <2>7 DEF AloneThread
  <2>9. 0 \notin 1..MaxMessages /\ \A k \in DOMAIN context : context[k].message # 0
    <3>1. \A k \in DOMAIN context : context[k].message \in 1..MaxMessages
      BY <1>9 DEF Passes
    <3> QED BY <3>1
  <2>10. \A k \in DOMAIN context : Destroyer(t, k) => Destroyer(t, k)'
    BY <1>13
  <2>11. InSerialize(t)' /\ MsgOf(call[t].message)' = MsgOf(call[t].message)
    BY <2>5, <2>7
  <2> QED BY <1>1, <1>10, <2>1, <2>2, <2>3, <2>8, <2>9, <2>10, <2>11, AloneStep
<1> QED BY <1>11, <1>12, <1>14, <1>15, <1>16 DEF CtxInv
(* What comes after a message is serialized.                               *)
LEMMA ThenIs ==
  ASSUME NEW m \in Nat, NEW pipe \in {0, Sender}
  PROVE  /\ Then(m, pipe) \in Calls
         /\ Then(m, pipe).at = IF pipe = 0 THEN "idle" ELSE "write"
         /\ pipe # 0 => Then(m, pipe).message = m
BY DEF Then, NoCall, Writing, Calls, Plain, Writes, Sender

(* The destructor that a call took.                                        *)
LEMMA RunDestructorStep ==
  ASSUME CtxInv, UNCHANGED shared, NEW t \in Threads, RunDestructor(t)
  PROVE  CtxInv'
<1>1. CtxTypes /\ Bound /\ OnceDestroyed /\ OnceSerialized
  BY DEF CtxInv
<1>2. PICK x : x = call[t]
  OBVIOUS
<1>3. /\ x.at = "destructor" /\ x \in Destroys
      /\ context' = [context EXCEPT ![x.ctx].destroyed = @ + 1]
      /\ UNCHANGED <<core, msg, mine>>
  BY <1>1, <1>2, CallIs DEF RunDestructor
<1>4. PICK m \in Nat : m = x.message
  BY <1>3 DEF Destroys
<1>5. PICK pipe \in {0, Sender} : pipe = x.pipe
  BY <1>3 DEF Destroys
<1>6. call' = [call EXCEPT ![t] = Then(m, pipe)] /\ call \in [Threads -> Calls]
  BY <1>1, <1>2, <1>4, <1>5 DEF RunDestructor, CtxTypes
<1>7. /\ call' \in [Threads -> Calls] /\ \A u \in Threads : u # t => call'[u] = call[u]
      /\ call'[t].at = (IF pipe = 0 THEN "idle" ELSE "write") /\ (pipe # 0 => call'[t].message = m)
  BY <1>6, ThenIs
<1>8. PICK k \in DOMAIN context : k = x.ctx
  BY <1>1, <1>2, <1>3 DEF Bound
<1>9. /\ context' \in Seq(Passes) /\ DOMAIN context' = DOMAIN context
      /\ context'[k].destroyed = context[k].destroyed + 1
      /\ \A j \in DOMAIN context :
           /\ context'[j].message = context[j].message
           /\ context'[j].serializer = context[j].serializer
           /\ context'[j].destructor = context[j].destructor
           /\ context'[j].serialized = context[j].serialized
           /\ j # k => context'[j] = context[j]
  <2> DEFINE y == [context[k] EXCEPT !.destroyed = @ + 1]
  <2>1. context[k] \in Passes
    BY <1>1, ContextNumbers
  <2>2. y \in Passes /\ y.message = context[k].message /\ y.serializer = context[k].serializer
        /\ y.destructor = context[k].destructor /\ y.serialized = context[k].serialized
        /\ y.destroyed = context[k].destroyed + 1
    BY <2>1 DEF Passes
  <2>3. context' = [context EXCEPT ![k] = y] /\ context \in Seq(Passes)
    BY <1>1, <1>3, <1>8 DEF CtxTypes
  <2> HIDE DEF y
  <2> QED BY <2>2, <2>3
<1>10. Destroyer(t, k) /\ \A j : ~Destroyer(t, j)'
  BY <1>2, <1>3, <1>7, <1>8 DEF Destroyer
<1>11. CtxTypes'
  BY <1>1, <1>3, <1>7, <1>9 DEF CtxTypes, IsMsg
<1>12. Bound'
  <2>1. \A u \in Threads : call'[u].at \in {"destructor", "serializer"} => call'[u] = call[u]
    BY <1>7
  <2> QED BY <1>1, <1>3, <1>9, <2>1 DEF Bound
<1>13. context' = [context EXCEPT ![k].destroyed = @ + 1]
  BY <1>3, <1>8
<1>14. OnceDestroyed'
  BY <1>1, <1>3, <1>7, <1>10, <1>13, DestroyRun
<1>15. OnceSerialized'
  <2>1. \A u \in Threads : \A j : Serializer(u, j)' => Serializer(u, j)
    BY <1>7 DEF Serializer
  <2> QED BY <1>1, <1>3, <1>9, <2>1, SerializesKept
<1>16. context[k].destroyed = 0
  BY <1>1, <1>10 DEF OnceDestroyed
<1>17. ASSUME ~shared' PROVE Alone'
  <2>1. Alone /\ ~shared
    BY <1>17 DEF CtxInv
  <2>2. Others(t, 0)
    <3>1. SameContexts
      BY <1>9, <1>16 DEF SameContexts
    <3>2. Apart /\ SameMsgs(core, core', {})
      BY <1>3, <2>1 DEF Alone, SameMsgs
    <3>3. \A u \in Threads : u # t => call'[u] = call[u] /\ mine'[u] = mine[u]
      BY <1>3, <1>7
    <3>4. \A y \in 1..MaxMessages : y # 0 => msg'[y] = msg[y]
      BY <1>3
    <3>5. \A u \in Threads : u # t => mine[u] \cap {} = {}
      OBVIOUS
    <3>6. \A y : y # 0 /\ y \in HeldIn(core) => y \in HeldIn(core')
      BY <1>3
    <3> QED BY <1>1, <3>1, <3>2, <3>3, <3>4, <3>5, <3>6, OthersIs
  <2>3. Apart'
    BY <1>3, <2>1 DEF Alone, Apart
  <2>4. AloneThread(t)'
    <3>1. CASE pipe = 0
      <4>1. ~InSerialize(t)' /\ ~InWrite(t)'
        BY <1>7, <3>1 DEF InSerialize, InWrite
      <4> QED BY <4>1 DEF AloneThread
    <3>2. CASE pipe # 0
      <4>1. InWrite(t) /\ ~InSerialize(t)' /\ call'[t].message = m /\ call[t].message = m
        BY <1>2, <1>3, <1>4, <1>5, <1>7, <3>2 DEF InSerialize, InWrite
      <4>2. m \in mine[t] /\ LET b == msg[MsgOf(m)] IN ~(b.destructor /\ context[b.context].serializer)
        BY <2>1, <4>1 DEF Alone, AloneThread
      <4>3. PICK n \in 1..MaxMessages : n = MsgOf(m)
        BY <1>1, <4>2, MineNames
      <4>4. ~(msg[n].destructor /\ context'[msg[n].context].serializer)
        <5>1. msg[n].destructor => msg[n].context \in DOMAIN context
          BY <1>1 DEF Bound
        <5> QED BY <1>9, <4>2, <4>3, <5>1
      <4>5. MsgOf(call[t].message)' = n
        BY <1>3, <4>1, <4>3 DEF MsgOf
      <4> QED BY <1>3, <4>1, <4>2, <4>4, <4>5 DEF AloneThread
    <3> QED BY <3>1, <3>2
  <2>5. 0 \notin 1..MaxMessages /\ \A j \in DOMAIN context : context[j].message # 0
    <3>1. \A j \in DOMAIN context : context[j].message \in 1..MaxMessages
      BY <1>1, ContextNumbers DEF Passes
    <3> QED BY <3>1
  <2>6. \A j \in DOMAIN context : Destroyer(t, j) => context'[j].destroyed = 1
    <3>1. \A j : Destroyer(t, j) => j = k
      BY <1>2, <1>8 DEF Destroyer
    <3> QED BY <1>9, <1>16, <3>1
  <2>7. ~InSerialize(t)
    BY <1>2, <1>3 DEF InSerialize
  <2> QED BY <1>1, <1>9, <2>1, <2>2, <2>3, <2>4, <2>5, <2>6, <2>7, AloneStep
<1> QED BY <1>11, <1>12, <1>14, <1>15, <1>17 DEF CtxInv

(* The first section of WhpSerializeMessage.                               *)
LEMMA SerializeMessageStep ==
  ASSUME CtxInv, UNCHANGED shared, NEW t \in Threads, NEW m \in mine[t], NEW pipe \in {0, Sender},
         SerializeMessage(t, m, pipe)
  PROVE  CtxInv'
<1>1. CtxTypes /\ Bound /\ OnceDestroyed /\ OnceSerialized
  BY DEF CtxInv
<1>2. PICK n \in 1..MaxMessages : n = MsgOf(m)
  BY <1>1, MineNames
<1>3. m \in Nat /\ Idle(t) /\ UNCHANGED <<core, mine, context>>
  BY <1>1, MineNames DEF SerializeMessage
<1>4. call \in [Threads -> Calls] /\ msg \in [1..MaxMessages -> Bonds] /\ msg[n] \in Bonds
  BY <1>1 DEF CtxTypes
<1>5. \A k : ~Destroyer(t, k) /\ ~Serializer(t, k)
  BY <1>3 DEF Idle, Destroyer, Serializer
<1>6. ~InSerialize(t) /\ ~InWrite(t)
  BY <1>3 DEF Idle, InSerialize, InWrite
\* In both cases a step on message n at most.
<1>7. ASSUME ~shared, Alone, \A y \in 1..MaxMessages : y # n => msg'[y] = msg[y],
             \A u \in Threads : u # t => call'[u] = call[u]
      PROVE  Others(t, n)
  <2>1. SameContexts /\ Apart /\ SameMsgs(core, core', {})
    BY <1>3, <1>7 DEF SameContexts, Alone, SameMsgs
  <2>2. \A u \in Threads : u # t => call'[u] = call[u] /\ mine'[u] = mine[u]
    BY <1>3, <1>7
  <2>3. \A u \in Threads : u # t => mine[u] \cap {} = {}
    OBVIOUS
  <2>4. \A y : y # n /\ y \in HeldIn(core) => y \in HeldIn(core')
    BY <1>3
  <2> QED BY <1>1, <1>2, <1>7, <2>1, <2>2, <2>3, <2>4, OthersIs
<1>8. CASE SerializedAlready(m)
  <2>1. call' = [call EXCEPT ![t] = Then(m, pipe)] /\ UNCHANGED msg
    BY <1>8 DEF SerializeMessage
  <2>2. /\ call' \in [Threads -> Calls] /\ \A u \in Threads : u # t => call'[u] = call[u]
        /\ call'[t].at = (IF pipe = 0 THEN "idle" ELSE "write") /\ (pipe # 0 => call'[t].message = m)
    BY <1>3, <1>4, <2>1, ThenIs
  <2>3. \A u \in Threads : \A k : (Serializer(u, k)' => Serializer(u, k))
                               /\ (Destroyer(u, k)' <=> Destroyer(u, k))
    BY <1>5, <2>2 DEF Serializer, Destroyer
  <2>4. CtxTypes'
    BY <1>1, <1>3, <2>1, <2>2 DEF CtxTypes, IsMsg
  <2>5. Bound'
    <3>1. \A u \in Threads : call'[u].at \in {"destructor", "serializer"} => call'[u] = call[u]
      BY <2>2
    <3> QED BY <1>1, <1>3, <2>1, <3>1 DEF Bound
  <2>6. OnceDestroyed'
    <3>1. SameDestroys({})
      BY <1>3, <2>1 DEF SameDestroys
    <3> QED BY <1>1, <1>3, <2>3, <3>1, DestroysKept
  <2>7. OnceSerialized'
    BY <1>1, <1>3, <2>1, <2>3, SerializesKept
  <2>8. ASSUME ~shared' PROVE Alone'
    <3>1. Alone /\ ~shared
      BY <2>8 DEF CtxInv
    <3>2. Others(t, n)
      BY <1>7, <2>1, <2>2, <3>1
    <3>3. Apart'
      BY <1>3, <3>1 DEF Alone, Apart
    <3>4. ~msg[n].serializer
      BY <1>2, <1>8 DEF SerializedAlready
    <3>5. ~(msg[n].destructor /\ context[msg[n].context].serializer)
      <4> SUFFICES ASSUME msg[n].destructor, context[msg[n].context].serializer PROVE FALSE
        OBVIOUS
      <4>1. PICK u \in Threads : InSerialize(u) /\ MsgOf(call[u].message) = n
        BY <3>1, <3>4 DEF Alone, AloneMsg
      <4>2. u # t /\ call[u].message \in mine[u] /\ Apart
        BY <1>6, <3>1, <4>1 DEF Alone, AloneThread
      <4> QED BY <1>1, <1>2, <4>1, <4>2, ApartNames
    <3>6. AloneThread(t)'
      <4>1. CASE pipe = 0
        <5>1. ~InSerialize(t)' /\ ~InWrite(t)'
          BY <2>2, <4>1 DEF InSerialize, InWrite
        <5> QED BY <5>1 DEF AloneThread
      <4>2. CASE pipe # 0
        <5>1. ~InSerialize(t)' /\ call'[t].message = m /\ MsgOf(call[t].message)' = n
          BY <1>2, <1>3, <2>2, <4>2 DEF InSerialize, MsgOf
        <5> QED BY <1>3, <2>1, <3>5, <5>1 DEF AloneThread
      <4> QED BY <4>1, <4>2
    <3>7. AloneMsg(n)'
      BY <1>3, <2>1, <3>5 DEF AloneMsg
    <3>8. \A k \in DOMAIN context : context[k].message = n /\ msg[n].context = k /\ msg[n].destructor =>
            AloneContext(k)'
      BY <1>3, <2>1, <3>5 DEF AloneContext, Both
    <3>9. DOMAIN context' = DOMAIN context
      BY <1>3
    <3> QED BY <1>1, <1>5, <1>6, <3>1, <3>2, <3>3, <3>6, <3>7, <3>8, <3>9, AloneStep
  <2> QED BY <2>4, <2>5, <2>6, <2>7, <2>8 DEF CtxInv
<1>9. CASE ~SerializedAlready(m)
  <2> DEFINE x == Serializing("serializer", m, msg[n].context, msg[n].serializer, pipe)
             b == [msg[n] EXCEPT !.serializer = FALSE]
  <2>1. call' = [call EXCEPT ![t] = x] /\ msg' = [msg EXCEPT ![n] = b]
    BY <1>2, <1>9 DEF SerializeMessage, TakeSerializer
  <2>2. /\ x \in Calls /\ x.at = "serializer" /\ x.message = m /\ x.ctx = msg[n].context
        /\ x.run = msg[n].serializer
    BY <1>3, <1>4 DEF Calls, Serials, Serializing, Bonds
  <2>3. /\ b \in Bonds /\ b.context = msg[n].context /\ b.destructor = msg[n].destructor
        /\ ~b.serializer
    BY <1>4 DEF Bonds
  <2> HIDE DEF x, b
  <2>4. /\ call' \in [Threads -> Calls] /\ \A u \in Threads : u # t => call'[u] = call[u]
        /\ call'[t] = x
    BY <1>4, <2>1, <2>2
  <2>5. /\ msg' \in [1..MaxMessages -> Bonds] /\ \A y \in 1..MaxMessages : y # n => msg'[y] = msg[y]
        /\ msg'[n] = b
    BY <1>4, <2>1, <2>3
  <2>6. \A u \in Threads : \A k : Destroyer(u, k)' <=> Destroyer(u, k)
    BY <1>5, <2>2, <2>4 DEF Destroyer
  <2>7. CtxTypes'
    BY <1>1, <1>3, <2>4, <2>5 DEF CtxTypes, IsMsg
  <2>8. Bound'
    <3>1. \A u \in Threads : call'[u].at = "destructor" => call'[u] = call[u]
      BY <2>2, <2>4
    <3>2. \A u \in Threads : call'[u].at = "serializer" /\ call'[u].run => call'[u].ctx \in DOMAIN context
      <4>1. msg[n].serializer => msg[n].context \in DOMAIN context
        BY <1>1 DEF Bound
      <4> QED BY <1>1, <2>2, <2>4, <4>1 DEF Bound
    <3>3. \A y \in 1..MaxMessages : /\ msg'[y].context = msg[y].context
                                    /\ msg'[y].destructor = msg[y].destructor
                                    /\ msg'[y].serializer => msg[y].serializer
      BY <2>3, <2>5
    <3> QED BY <1>1, <1>3, <3>1, <3>2, <3>3 DEF Bound
  <2>9. OnceDestroyed'
    <3>1. SameDestroys({})
      BY <1>3, <2>3, <2>5 DEF SameDestroys
    <3> QED BY <1>1, <1>3, <2>6, <3>1, DestroysKept
  <2>10. OnceSerialized'
    <3>1. \A k : Serializer(t, k)' <=> msg[n].serializer /\ k = msg[n].context
      BY <2>2, <2>4 DEF Serializer
    <3> QED BY <1>1, <1>3, <1>5, <2>3, <2>4, <2>5, <3>1, SerializerTaken
  <2>11. ASSUME ~shared' PROVE Alone'
    <3>1. Alone /\ ~shared
      BY <2>11 DEF CtxInv
    <3>2. Others(t, n)
      BY <1>7, <2>4, <2>5, <3>1
    <3>3. Apart'
      BY <1>3, <3>1 DEF Alone, Apart
    <3>4. InSerialize(t)' /\ ~InWrite(t)' /\ call'[t].message = m /\ MsgOf(call[t].message)' = n
      BY <1>2, <1>3, <2>2, <2>4 DEF InSerialize, InWrite, MsgOf
    <3>5. AloneThread(t)'
      BY <1>3, <2>2, <2>3, <2>4, <2>5, <3>4 DEF AloneThread
    <3>6. AloneMsg(n)'
      BY <3>4 DEF AloneMsg
    <3>7. \A k \in DOMAIN context : context[k].message = n /\ msg[n].context = k /\ msg[n].destructor =>
            AloneContext(k)'
      <4>1. n \in HeldIn(core')
        BY <1>1, <1>2, <1>3, MineNames
      <4> QED BY <1>3, <2>3, <2>5, <4>1 DEF AloneContext
    <3>8. DOMAIN context' = DOMAIN context
      BY <1>3
    <3> QED BY <1>1, <1>5, <1>6, <3>1, <3>2, <3>3, <3>5, <3>6, <3>7, <3>8, AloneStep
  <2> QED BY <2>7, <2>8, <2>9, <2>10, <2>11 DEF CtxInv
<1> QED BY <1>8, <1>9
(* Thread t takes the destructor of message n, if it has one, and goes on. *)
LEMMA DestructorCall ==
  ASSUME CtxTypes, NEW t \in Threads, NEW n \in 1..MaxMessages, NEW m \in Nat, NEW pipe \in {0, Sender},
         call' = [call EXCEPT ![t] = DestroyOr(n, m, pipe, Then(m, pipe))]
  PROVE  /\ call' \in [Threads -> Calls] /\ \A u \in Threads : u # t => call'[u] = call[u]
         /\ \A k : Destroyer(t, k)' <=> msg[n].destructor /\ k = msg[n].context
         /\ call'[t].at = "destructor" => msg[n].destructor /\ call'[t].ctx = msg[n].context
         /\ call'[t].at \in {"idle", "destructor", "write"}
         /\ \A k : ~Serializer(t, k)'
         /\ ~InSerialize(t)' /\ (InWrite(t)' => pipe # 0) /\ (pipe # 0 => call'[t].message = m)
<1> DEFINE x == DestroyOr(n, m, pipe, Then(m, pipe))
<1>1. call \in [Threads -> Calls] /\ msg[n] \in Bonds
  BY DEF CtxTypes
<1>2. /\ x \in Calls /\ x.at \in {"idle", "destructor", "write"}
      /\ x.at = "destructor" <=> msg[n].destructor
      /\ x.at = "destructor" => x.ctx = msg[n].context /\ x.pipe = pipe
      /\ x.at = "write" => pipe # 0
      /\ pipe # 0 => x.message = m
  <2>1. CASE msg[n].destructor
    <3>1. x = Destroying(msg[n].context, m, pipe)
      BY <2>1 DEF DestroyOr
    <3>2. /\ x \in Destroys /\ x.at = "destructor" /\ x.ctx = msg[n].context /\ x.pipe = pipe
          /\ x.message = m
      BY <1>1, <3>1 DEF Destroying, Destroys, Bonds
    <3> QED BY <2>1, <3>2 DEF Calls
  <2>2. CASE ~msg[n].destructor
    <3>1. x = Then(m, pipe)
      BY <2>2 DEF DestroyOr
    <3> QED BY <2>2, <3>1, ThenIs
  <2> QED BY <2>1, <2>2
<1> HIDE DEF x
<1>3. call' \in [Threads -> Calls] /\ (\A u \in Threads : u # t => call'[u] = call[u]) /\ call'[t] = x
  BY <1>1, <1>2 DEF x
<1>4. \A k : Destroyer(t, k)' <=> msg[n].destructor /\ k = msg[n].context
  BY <1>2, <1>3 DEF Destroyer
<1>5. (\A k : ~Serializer(t, k)') /\ ~InSerialize(t)' /\ (InWrite(t)' => pipe # 0)
  BY <1>2, <1>3 DEF Serializer, InSerialize, InWrite
<1> QED BY <1>2, <1>3, <1>4, <1>5

(* A call that has no message.                                             *)
LEMMA ThenNothing == \A m : Then(m, 0) = NoCall
BY DEF Then

(* WhpSetMessageContext.                                                   *)
LEMMA SetMessageContextStep ==
  ASSUME CtxInv, UNCHANGED shared, NEW t \in Threads, NEW m \in mine[t],
         NEW serializer \in BOOLEAN, NEW destructor \in BOOLEAN,
         SetMessageContext(t, m, serializer, destructor)
  PROVE  CtxInv'
<1>1. CtxTypes /\ Bound /\ OnceDestroyed /\ OnceSerialized
  BY DEF CtxInv
<1>2. PICK n \in 1..MaxMessages : n = MsgOf(m)
  BY <1>1, MineNames
<1>3. m \in Nat /\ n \in HeldIn(core) /\ n <= core.messages
  BY <1>1, <1>2, MineNames
<1>4. Idle(t) /\ UNCHANGED <<core, mine>>
  BY DEF SetMessageContext
<1>5. PICK k \in Nat : k = Len(context) + 1
  BY <1>1, ContextNumbers
<1> DEFINE b == [context |-> k, serializer |-> serializer, destructor |-> destructor]
           p == Passed(n, serializer, destructor)
<1>6. /\ msg' = [msg EXCEPT ![n] = b] /\ context' = Append(context, p)
      /\ call' = [call EXCEPT ![t] = DestroyOr(n, m, 0, Then(m, 0))]
  BY <1>2, <1>5, ThenNothing DEF SetMessageContext, Install
<1>7. b \in Bonds /\ b.context = k /\ b.serializer = serializer /\ b.destructor = destructor
  BY DEF Bonds
<1>8. /\ p \in Passes /\ p.message = n /\ p.serialized = 0 /\ p.destroyed = 0
      /\ p.serializer = serializer /\ p.destructor = destructor
  BY DEF Passed, Passes
<1> HIDE DEF b, p
<1>9. /\ msg' \in [1..MaxMessages -> Bonds] /\ msg'[n] = b
      /\ \A y \in 1..MaxMessages : y # n => msg'[y] = msg[y]
  BY <1>1, <1>6, <1>7 DEF CtxTypes
<1>10. /\ context' \in Seq(Passes) /\ k \notin DOMAIN context /\ k # 0 /\ context'[k] = p
       /\ \A j : j \in DOMAIN context' <=> j \in DOMAIN context \/ j = k
       /\ \A j \in DOMAIN context : context'[j] = context[j]
  <2>1. context \in Seq(Passes)
    BY <1>1 DEF CtxTypes
  <2> QED BY <1>5, <1>6, <1>8, <2>1
<1>11. /\ call' \in [Threads -> Calls] /\ \A u \in Threads : u # t => call'[u] = call[u]
       /\ \A j : Destroyer(t, j)' <=> msg[n].destructor /\ j = msg[n].context
       /\ call'[t].at = "destructor" => msg[n].destructor /\ call'[t].ctx = msg[n].context
       /\ call'[t].at \in {"idle", "destructor", "write"}
       /\ \A j : ~Serializer(t, j)'
       /\ ~InSerialize(t)' /\ ~InWrite(t)'
  BY <1>1, <1>3, <1>6, DestructorCall
<1>12. (\A j : ~Destroyer(t, j)) /\ ~InSerialize(t)
  BY <1>4 DEF Idle, Destroyer, InSerialize
<1>13. CtxTypes'
  BY <1>1, <1>4, <1>9, <1>10, <1>11 DEF CtxTypes, IsMsg
<1>14. Bound'
  <2>1. \A y \in 1..MaxMessages :
          /\ msg'[y].context = 0 => ~msg'[y].serializer /\ ~msg'[y].destructor
          /\ msg'[y].context # 0 =>
               /\ msg'[y].context \in DOMAIN context' /\ context'[msg'[y].context].message = y
               /\ y <= core'.messages
    <3> SUFFICES ASSUME NEW y \in 1..MaxMessages
                 PROVE  /\ msg'[y].context = 0 => ~msg'[y].serializer /\ ~msg'[y].destructor
                        /\ msg'[y].context # 0 =>
                             /\ msg'[y].context \in DOMAIN context' /\ context'[msg'[y].context].message = y
                             /\ y <= core'.messages
      OBVIOUS
    <3>1. CASE y = n
      BY <1>3, <1>4, <1>7, <1>8, <1>9, <1>10, <3>1
    <3>2. CASE y # n
      BY <1>1, <1>4, <1>9, <1>10, <3>2 DEF Bound
    <3> QED BY <3>1, <3>2
  <2>2. \A u \in Threads : call'[u].at = "destructor" => call'[u].ctx \in DOMAIN context'
    <3>1. msg[n].destructor => msg[n].context \in DOMAIN context
      BY <1>1 DEF Bound
    <3> QED BY <1>1, <1>10, <1>11, <3>1 DEF Bound
  <2>3. \A u \in Threads : call'[u].at = "serializer" /\ call'[u].run => call'[u].ctx \in DOMAIN context'
    <3>1. \A u \in Threads : call'[u].at = "serializer" => call'[u] = call[u]
      BY <1>11
    <3> QED BY <1>1, <1>10, <3>1 DEF Bound
  <2> QED BY <2>1, <2>2, <2>3 DEF Bound
<1>15. OnceDestroyed'
  <2>1. SameDestroys({n})
    BY <1>4, <1>8, <1>9, <1>10 DEF SameDestroys
  <2>2. msg'[n].context \notin DOMAIN context
    BY <1>7, <1>9, <1>10
  <2> QED BY <1>1, <1>3, <1>11, <1>12, <2>1, <2>2, DestroyTaken
<1>16. OnceSerialized'
  <2>1. \A u \in Threads : \A j : Serializer(u, j)' => Serializer(u, j)
    BY <1>11 DEF Serializer
  <2>2. \A y \in 1..MaxMessages : msg'[y].serializer =>
          \/ msg'[y].context = msg[y].context /\ msg[y].serializer
          \/ msg'[y].context \notin DOMAIN context
    BY <1>7, <1>9, <1>10
  <2>3. /\ \A j \in DOMAIN context : context'[j].serialized = context[j].serialized
        /\ \A j \in DOMAIN context' : j \notin DOMAIN context => context'[j].serialized = 0
    BY <1>8, <1>10
  <2> QED BY <1>1, <2>1, <2>2, <2>3, SerializesKept
<1>17. ASSUME ~shared' PROVE Alone'
  <2>1. Alone /\ ~shared
    BY <1>17 DEF CtxInv
  <2>2. Others(t, n)
    <3>1. SameContexts /\ Apart /\ SameMsgs(core, core', {})
      BY <1>4, <1>10, <2>1 DEF SameContexts, Alone, SameMsgs
    <3>2. \A u \in Threads : u # t => call'[u] = call[u] /\ mine'[u] = mine[u]
      BY <1>4, <1>11
    <3>3. \A u \in Threads : u # t => mine[u] \cap {} = {}
      OBVIOUS
    <3>4. \A y : y # n /\ y \in HeldIn(core) => y \in HeldIn(core')
      BY <1>4
    <3> QED BY <1>1, <1>2, <1>9, <3>1, <3>2, <3>3, <3>4, OthersIs
  <2>3. Apart'
    BY <1>4, <2>1 DEF Alone, Apart
  <2>4. AloneThread(t)'
    BY <1>11 DEF AloneThread
  <2>5. AloneMsg(n)'
    BY <1>7, <1>8, <1>9, <1>10 DEF AloneMsg
  <2>6. AloneContext(k)'
    BY <1>3, <1>4, <1>7, <1>8, <1>9, <1>10 DEF AloneContext, Both
  <2>7. \A j \in DOMAIN context : context[j].message = n /\ msg[n].context = j /\ msg[n].destructor =>
          AloneContext(j)'
    BY <1>11 DEF AloneContext
  <2>8. \A j \in DOMAIN context' :
          j \notin DOMAIN context \/ (context[j].message = n /\ msg[n].context = j /\ msg[n].destructor) =>
            AloneContext(j)'
    BY <1>10, <2>6, <2>7
  <2> QED BY <1>1, <1>12, <2>1, <2>2, <2>3, <2>4, <2>5, <2>8, AloneStep
<1> QED BY <1>13, <1>14, <1>15, <1>16, <1>17 DEF CtxInv

(* WhpDestroyMessage.                                                      *)
LEMMA DestroyMessageStep ==
  ASSUME CtxInv, UNCHANGED shared, NEW t \in Threads, NEW m \in mine[t], DestroyMessage(t, m)
  PROVE  CtxInv'
<1>1. CtxTypes /\ Bound /\ OnceDestroyed /\ OnceSerialized
  BY DEF CtxInv
<1>2. PICK n \in 1..MaxMessages : n = MsgOf(m)
  BY <1>1, MineNames
<1>3. m \in Nat /\ n \in HeldIn(core) /\ IsMsg(core, m) /\ IdAt(core, m) = <<n>>
  BY <1>1, <1>2, MineNames
<1>4. Idle(t) /\ UNCHANGED context /\ mine' = [x \in Threads |-> mine[x] \ {m}]
  BY DEF DestroyMessage
<1>5. Piped(core)
  BY <1>1 DEF CtxTypes
<1>6. Typed(core') /\ core'.pipes = core.pipes /\ MsgGone(core, core', m)
  BY <1>3, <1>5, CloseIsGone DEF DestroyMessage, Piped
<1>7. /\ Placed(core') /\ HeldIn(core') = HeldIn(core) \ {n}
      /\ core'.messages = core.messages /\ SameMsgs(core, core', {m})
  BY <1>3, <1>5, <1>6, GonePlaced DEF Piped, MsgGone
<1>8. Piped(core')
  BY <1>5, <1>6, <1>7 DEF Piped
<1> DEFINE b == [msg[n] EXCEPT !.destructor = FALSE, !.serializer = FALSE]
<1>9. msg \in [1..MaxMessages -> Bonds] /\ msg[n] \in Bonds
  BY <1>1 DEF CtxTypes
<1>10. /\ msg' = [msg EXCEPT ![n] = b]
       /\ call' = [call EXCEPT ![t] = DestroyOr(n, m, 0, Then(m, 0))]
  BY <1>2, <1>9, ThenNothing DEF DestroyMessage
<1>11. b \in Bonds /\ b.context = msg[n].context /\ ~b.serializer /\ ~b.destructor
  BY <1>9 DEF Bonds
<1> HIDE DEF b
<1>12. /\ msg' \in [1..MaxMessages -> Bonds] /\ msg'[n] = b
       /\ \A y \in 1..MaxMessages : y # n => msg'[y] = msg[y]
  BY <1>9, <1>10, <1>11
<1>13. /\ call' \in [Threads -> Calls] /\ \A u \in Threads : u # t => call'[u] = call[u]
       /\ \A j : Destroyer(t, j)' <=> msg[n].destructor /\ j = msg[n].context
       /\ call'[t].at = "destructor" => msg[n].destructor /\ call'[t].ctx = msg[n].context
       /\ call'[t].at \in {"idle", "destructor", "write"}
       /\ \A j : ~Serializer(t, j)'
       /\ ~InSerialize(t)' /\ ~InWrite(t)'
  BY <1>1, <1>3, <1>10, DestructorCall
<1>14. (\A j : ~Destroyer(t, j)) /\ ~InSerialize(t)
  BY <1>4 DEF Idle, Destroyer, InSerialize
<1>15. mine \in [Threads -> SUBSET Nat]
  BY <1>1 DEF CtxTypes
<1>16. CtxTypes'
  <2>1. \A u \in Threads : \A h \in mine'[u] : IsMsg(core', h)
    BY <1>1, <1>4, <1>7, SameNames DEF CtxTypes
  <2>2. mine' \in [Threads -> SUBSET Nat]
    BY <1>4, <1>15
  <2> QED BY <1>1, <1>4, <1>8, <1>12, <1>13, <2>1, <2>2 DEF CtxTypes, IsMsg
<1>17. Bound'
  <2>1. \A y \in 1..MaxMessages : /\ msg'[y].context = msg[y].context
                                  /\ msg'[y].destructor => msg[y].destructor
                                  /\ msg'[y].serializer => msg[y].serializer
    BY <1>11, <1>12
  <2>2. \A u \in Threads : call'[u].at = "destructor" => call'[u].ctx \in DOMAIN context
    <3>1. msg[n].destructor => msg[n].context \in DOMAIN context
      BY <1>1 DEF Bound
    <3> QED BY <1>1, <1>13, <3>1 DEF Bound
  <2>3. \A u \in Threads : call'[u].at = "serializer" => call'[u] = call[u]
    BY <1>13
  <2> QED BY <1>1, <1>4, <1>7, <2>1, <2>2, <2>3 DEF Bound
<1>18. OnceDestroyed'
  <2>1. SameDestroys({n})
    BY <1>4, <1>7, <1>12 DEF SameDestroys
  <2>2. ~msg'[n].destructor /\ n \notin HeldIn(core')
    BY <1>7, <1>11, <1>12
  <2> QED BY <1>1, <1>3, <1>13, <1>14, <2>1, <2>2, DestroyTaken
<1>19. OnceSerialized'
  <2>1. \A u \in Threads : \A j : Serializer(u, j)' => Serializer(u, j)
    BY <1>13 DEF Serializer
  <2>2. \A y \in 1..MaxMessages : msg'[y].serializer => msg'[y].context = msg[y].context /\ msg[y].serializer
    BY <1>11, <1>12
  <2> QED BY <1>1, <1>4, <2>1, <2>2, SerializesKept
<1>20. ASSUME ~shared' PROVE Alone'
  <2>1. Alone /\ ~shared
    BY <1>20 DEF CtxInv
  <2>2. Apart /\ \A u \in Threads : u # t => mine[u] \cap {m} = {}
    BY <2>1 DEF Alone, Apart
  <2>3. Others(t, n)
    <3>1. SameContexts
      BY <1>4 DEF SameContexts
    <3>2. \A u \in Threads : u # t => call'[u] = call[u] /\ mine'[u] = mine[u]
      BY <1>4, <1>13, <2>2
    <3>3. \A y : y # n /\ y \in HeldIn(core) => y \in HeldIn(core')
      BY <1>7
    <3> QED BY <1>1, <1>2, <1>7, <1>12, <2>2, <3>1, <3>2, <3>3, OthersIs
  <2>4. Apart'
    BY <1>4, <2>2 DEF Apart
  <2>5. AloneThread(t)'
    BY <1>13 DEF AloneThread
  <2>6. AloneMsg(n)'
    BY <1>11, <1>12 DEF AloneMsg
  <2>7. \A j \in DOMAIN context' :
          j \notin DOMAIN context \/ (context[j].message = n /\ msg[n].context = j /\ msg[n].destructor) =>
            AloneContext(j)'
    BY <1>4, <1>13 DEF AloneContext
  <2> QED BY <1>1, <1>14, <2>1, <2>3, <2>4, <2>5, <2>6, <2>7, AloneStep
<1> QED BY <1>16, <1>17, <1>18, <1>19, <1>20 DEF CtxInv
(* The second section finds that the message is gone.                      *)
LEMMA CommitNothing ==
  ASSUME CtxInv, UNCHANGED shared, NEW t \in Threads, CommitSerialized(t), ~IsMsg(core, call[t].message)
  PROVE  CtxInv'
<1>1. CtxTypes /\ Bound /\ OnceDestroyed /\ OnceSerialized
  BY DEF CtxInv
<1>2. /\ call[t].at = "commit" /\ call' = [call EXCEPT ![t] = NoCall]
      /\ UNCHANGED <<core, msg, mine, context>>
  BY DEF CommitSerialized, IsMsg
<1>3. NoCall \in Calls /\ NoCall.at = "idle"
  BY DEF NoCall, Calls, Plain
<1>4. /\ call' \in [Threads -> Calls] /\ \A u \in Threads : u # t => call'[u] = call[u]
      /\ call'[t].at = "idle"
  BY <1>1, <1>2, <1>3 DEF CtxTypes
<1>5. CtxTypes'
  BY <1>1, <1>2, <1>4 DEF CtxTypes, IsMsg
<1>6. \A u \in Threads : call'[u].at \in {"destructor", "serializer"} => call'[u] = call[u]
  BY <1>4
<1>7. Bound'
  BY <1>1, <1>2, <1>6 DEF Bound
<1>8. OnceDestroyed'
  <2>1. SameDestroys({})
    BY <1>2 DEF SameDestroys
  <2>2. \A u \in Threads : \A k : Destroyer(u, k)' <=> Destroyer(u, k)
    BY <1>2, <1>4 DEF Destroyer
  <2> QED BY <1>1, <1>2, <2>1, <2>2, DestroysKept
<1>9. OnceSerialized'
  <2>1. \A u \in Threads : \A k : Serializer(u, k)' => Serializer(u, k)
    BY <1>4 DEF Serializer
  <2> QED BY <1>1, <1>2, <2>1, SerializesKept
<1>10. shared
  <2> SUFFICES ASSUME ~shared PROVE FALSE
    OBVIOUS
  <2>1. call[t].message \in mine[t]
    BY <1>2 DEF CtxInv, Alone, AloneThread, InSerialize
  <2> QED BY <1>1, <2>1 DEF CtxTypes
<1> QED BY <1>5, <1>7, <1>8, <1>9, <1>10 DEF CtxInv

(* The second section of WhpSerializeMessage.                              *)
LEMMA CommitSerializedStep ==
  ASSUME CtxInv, UNCHANGED shared, NEW t \in Threads, CommitSerialized(t)
  PROVE  CtxInv'
<1>1. CtxTypes /\ Bound /\ OnceDestroyed /\ OnceSerialized
  BY DEF CtxInv
<1>2. PICK x : x = call[t]
  OBVIOUS
<1>3. x.at = "commit" /\ x \in Serials /\ UNCHANGED <<mine, context>>
  BY <1>1, <1>2, CallIs DEF CommitSerialized
<1>4. PICK m \in Nat : m = x.message
  BY <1>3 DEF Serials
<1>5. PICK pipe \in {0, Sender} : pipe = x.pipe
  BY <1>3 DEF Serials
<1> SUFFICES ASSUME IsMsg(core, m) PROVE CtxInv'
  BY <1>2, <1>4, CommitNothing
<1>6. PICK n \in 1..MaxMessages : n = MsgOf(m) /\ n \in HeldIn(core)
  BY <1>1, MsgNames DEF CtxTypes
<1>7. /\ core' = WhpSerializeMessage(core, m) /\ msg' = [msg EXCEPT ![n] = NoContext]
      /\ call' = [call EXCEPT ![t] = DestroyOr(n, m, pipe, Then(m, pipe))]
  BY <1>2, <1>4, <1>5, <1>6 DEF CommitSerialized, IsMsg, TakeDestructor
<1>8. /\ Piped(core') /\ HeldIn(core') = HeldIn(core) /\ core'.messages = core.messages
      /\ SameMsgs(core, core', {})
  BY <1>1, <1>7, MayCommit
<1>9. /\ NoContext \in Bonds /\ NoContext.context = 0 /\ ~NoContext.serializer /\ ~NoContext.destructor
  BY DEF NoContext, Bonds
<1>10. /\ msg' \in [1..MaxMessages -> Bonds] /\ msg'[n] = NoContext
       /\ \A y \in 1..MaxMessages : y # n => msg'[y] = msg[y]
  BY <1>1, <1>7, <1>9 DEF CtxTypes
<1>11. /\ call' \in [Threads -> Calls] /\ \A u \in Threads : u # t => call'[u] = call[u]
       /\ \A j : Destroyer(t, j)' <=> msg[n].destructor /\ j = msg[n].context
       /\ call'[t].at = "destructor" => msg[n].destructor /\ call'[t].ctx = msg[n].context
       /\ call'[t].at \in {"idle", "destructor", "write"}
       /\ \A j : ~Serializer(t, j)'
       /\ ~InSerialize(t)' /\ (InWrite(t)' => pipe # 0) /\ (pipe # 0 => call'[t].message = m)
  BY <1>1, <1>7, DestructorCall
<1>12. \A j : ~Destroyer(t, j)
  BY <1>2, <1>3 DEF Destroyer
<1>13. CtxTypes'
  <2>1. \A u \in Threads : \A h \in mine'[u] : IsMsg(core', h)
    BY <1>1, <1>3, <1>8, SameNames DEF CtxTypes
  <2> QED BY <1>1, <1>3, <1>8, <1>10, <1>11, <2>1 DEF CtxTypes, IsMsg
<1>14. Bound'
  <2>1. \A y \in 1..MaxMessages : msg'[y] = msg[y] \/ msg'[y] = NoContext
    BY <1>10
  <2>2. \A u \in Threads : call'[u].at = "destructor" => call'[u].ctx \in DOMAIN context
    <3>1. msg[n].destructor => msg[n].context \in DOMAIN context
      BY <1>1 DEF Bound
    <3> QED BY <1>1, <1>11, <3>1 DEF Bound
  <2>3. \A u \in Threads : call'[u].at = "serializer" => call'[u] = call[u]
    BY <1>11
  <2> QED BY <1>1, <1>3, <1>8, <1>9, <2>1, <2>2, <2>3 DEF Bound
<1>15. OnceDestroyed'
  <2>1. SameDestroys({n})
    BY <1>3, <1>8, <1>10 DEF SameDestroys
  <2>2. msg'[n].context \notin DOMAIN context
    BY <1>1, <1>9, <1>10, ContextNumbers
  <2> QED BY <1>1, <1>6, <1>11, <1>12, <2>1, <2>2, DestroyTaken
<1>16. OnceSerialized'
  <2>1. \A u \in Threads : \A j : Serializer(u, j)' => Serializer(u, j)
    BY <1>11 DEF Serializer
  <2>2. \A y \in 1..MaxMessages : msg'[y].serializer => msg'[y].context = msg[y].context /\ msg[y].serializer
    BY <1>9, <1>10
  <2> QED BY <1>1, <1>3, <2>1, <2>2, SerializesKept
<1>17. ASSUME ~shared' PROVE Alone'
  <2>1. Alone /\ ~shared
    BY <1>17 DEF CtxInv
  <2>2. m \in mine[t] /\ call[t].message = m
    BY <1>2, <1>3, <1>4, <2>1 DEF Alone, AloneThread, InSerialize
  <2>3. Others(t, n)
    <3>1. SameContexts /\ Apart
      BY <1>3, <2>1 DEF SameContexts, Alone
    <3>2. \A u \in Threads : u # t => call'[u] = call[u] /\ mine'[u] = mine[u]
      BY <1>3, <1>11
    <3>3. \A u \in Threads : u # t => mine[u] \cap {} = {}
      OBVIOUS
    <3>4. \A y : y # n /\ y \in HeldIn(core) => y \in HeldIn(core')
      BY <1>8
    <3> QED BY <1>1, <1>6, <1>8, <1>10, <2>2, <3>1, <3>2, <3>3, <3>4, OthersIs
  <2>4. Apart'
    BY <1>3, <2>1 DEF Alone, Apart
  <2>5. AloneThread(t)'
    <3>1. CASE ~InWrite(t)'
      BY <1>11, <3>1 DEF AloneThread
    <3>2. CASE InWrite(t)'
      <4>1. call'[t].message = m /\ MsgOf(m)' = n
        BY <1>6, <1>8, <1>11, <3>2, SameNames
      <4>2. MsgOf(call[t].message)' = n
        BY <4>1 DEF MsgOf
      <4> QED BY <1>3, <1>9, <1>10, <1>11, <2>2, <4>1, <4>2 DEF AloneThread
    <3> QED BY <3>1, <3>2
  <2>6. AloneMsg(n)'
    BY <1>9, <1>10 DEF AloneMsg
  <2>7. \A j \in DOMAIN context' :
          j \notin DOMAIN context \/ (context[j].message = n /\ msg[n].context = j /\ msg[n].destructor) =>
            AloneContext(j)'
    BY <1>3, <1>11 DEF AloneContext
  <2>8. n = MsgOf(call[t].message)
    BY <1>6, <2>2
  <2> QED BY <1>1, <1>12, <2>1, <2>3, <2>4, <2>5, <2>6, <2>7, <2>8, AloneStep
<1> QED BY <1>13, <1>14, <1>15, <1>16, <1>17 DEF CtxInv

(* What a write does to the places of the messages: it keeps message m of  *)
(* object n in the core, or lets go of it.                                 *)
LEMMA WritePlaced ==
  ASSUME CtxTypes, NEW m, NEW pipe,
         core' = IF IsMsg(core, m) THEN WriteSerialized(core, pipe, m) ELSE core
  PROVE  /\ Piped(core') /\ SameMsgs(core, core', {m}) /\ core'.messages = core.messages
         /\ HeldIn(core') \subseteq HeldIn(core)
         /\ \A y \in HeldIn(core) : y \in HeldIn(core') \/ (IsMsg(core, m) /\ y = MsgOf(m))
<1>1. Piped(core) /\ Typed(core) /\ Len(core.pipes) = 1 /\ Placed(core) /\ core.messages <= MaxMessages
  BY DEF CtxTypes, Piped
<1>2. CASE core' = core
  BY <1>1, <1>2 DEF SameMsgs
<1>3. CASE IsMsg(core, m) /\ core' # core
  <2>1. /\ Typed(core') /\ Len(core'.pipes) = 1
        /\ MsgGone(core, core', m) \/ MsgQueued(core, core', m)
    BY <1>1, <1>3, WriteEffect
  <2>2. CASE MsgGone(core, core', m)
    <3>1. PICK n : n = MsgOf(m)
      OBVIOUS
    <3>2. IdAt(core, m) = <<n>>
      BY <1>1, <1>3, <3>1, MsgNames
    <3>3. Placed(core') /\ HeldIn(core') = HeldIn(core) \ {n}
      BY <1>1, <2>2, <3>2, GonePlaced
    <3>4. core'.messages = core.messages /\ SameMsgs(core, core', {m})
      BY <2>2 DEF MsgGone
    <3> QED BY <1>1, <1>3, <2>1, <3>1, <3>3, <3>4 DEF Piped
  <2>3. CASE MsgQueued(core, core', m)
    <3>1. Placed(core') /\ HeldIn(core') = HeldIn(core)
      BY <1>1, <2>3, QueuesTyped, QueuedPlaced
    <3>2. core'.messages = core.messages /\ SameMsgs(core, core', {m})
      BY <2>3 DEF MsgQueued
    <3> QED BY <1>1, <2>1, <3>1, <3>2 DEF Piped
  <2> QED BY <2>1, <2>2, <2>3
<1> QED BY <1>2, <1>3

(* The second section of WhpWriteMessage.                                  *)
LEMMA WriteMessageStep ==
  ASSUME CtxInv, UNCHANGED shared, NEW t \in Threads, WriteMessage(t)
  PROVE  CtxInv'
<1>1. CtxTypes /\ Bound /\ OnceDestroyed /\ OnceSerialized
  BY DEF CtxInv
<1>2. PICK x : x = call[t]
  OBVIOUS
<1>3. PICK m : m = x.message
  OBVIOUS
<1>4. /\ x.at = "write" /\ call' = [call EXCEPT ![t] = NoCall] /\ UNCHANGED <<msg, context>>
      /\ core' = IF IsMsg(core, m) THEN WriteSerialized(core, x.pipe, m) ELSE core
      /\ mine' = [u \in Threads |-> {h \in mine[u] : IsMsg(core', h)}]
  BY <1>2, <1>3 DEF WriteMessage, IsMsg
<1>5. /\ Piped(core') /\ SameMsgs(core, core', {m}) /\ core'.messages = core.messages
      /\ HeldIn(core') \subseteq HeldIn(core)
      /\ \A y \in HeldIn(core) : y \in HeldIn(core') \/ (IsMsg(core, m) /\ y = MsgOf(m))
  BY <1>1, <1>4, WritePlaced
<1>6. NoCall \in Calls /\ NoCall.at = "idle"
  BY DEF NoCall, Calls, Plain
<1>7. /\ call' \in [Threads -> Calls] /\ \A u \in Threads : u # t => call'[u] = call[u]
      /\ call'[t].at = "idle" /\ mine \in [Threads -> SUBSET Nat]
  BY <1>1, <1>4, <1>6 DEF CtxTypes
<1>8. CtxTypes'
  <2>1. mine' \in [Threads -> SUBSET Nat]
    BY <1>4, <1>7
  <2>2. \A u \in Threads : \A h \in mine'[u] : IsMsg(core', h)
    BY <1>4
  <2> QED BY <1>1, <1>4, <1>5, <1>7, <2>1, <2>2 DEF CtxTypes, IsMsg
<1>9. \A u \in Threads : call'[u].at \in {"destructor", "serializer"} => call'[u] = call[u]
  BY <1>7
<1>10. Bound'
  BY <1>1, <1>4, <1>5, <1>9 DEF Bound
<1>11. (\A u \in Threads : \A k : Destroyer(u, k)' <=> Destroyer(u, k)) /\ ~InSerialize(t)
  BY <1>2, <1>4, <1>7 DEF Destroyer, InSerialize
<1>12. OnceDestroyed'
  <2>1. SameDestroys({})
    BY <1>4, <1>5 DEF SameDestroys
  <2> QED BY <1>1, <1>4, <1>11, <2>1, DestroysKept
<1>13. OnceSerialized'
  <2>1. \A u \in Threads : \A k : Serializer(u, k)' => Serializer(u, k)
    BY <1>7 DEF Serializer
  <2> QED BY <1>1, <1>4, <2>1, SerializesKept
<1>14. ASSUME ~shared' PROVE Alone'
  <2>1. Alone /\ Apart /\ ~shared
    BY <1>14 DEF CtxInv, Alone
  <2>2. /\ m \in mine[t] /\ LET b == msg[MsgOf(m)] IN ~(b.destructor /\ context[b.context].serializer)
    BY <1>2, <1>3, <1>4, <2>1 DEF Alone, AloneThread, InWrite
  <2>3. PICK n \in 1..MaxMessages : n = MsgOf(m)
    BY <1>1, <2>2, MineNames
  <2>4. ~(msg[n].destructor /\ context[msg[n].context].serializer)
    BY <2>2, <2>3
  <2>5. \A u \in Threads : u # t => mine[u] \cap {m} = {}
    BY <2>1, <2>2 DEF Apart
  <2>6. \A u \in Threads : u # t => call'[u] = call[u] /\ mine'[u] = mine[u]
    <3>1. \A u \in Threads : u # t => \A h \in mine[u] : IsMsg(core', h)
      BY <1>1, <1>5, <2>5, SameNames DEF CtxTypes
    <3> QED BY <1>4, <1>7, <3>1
  <2>7. Others(t, n)
    <3>1. SameContexts
      BY <1>4 DEF SameContexts
    <3>2. \A y : y # n /\ y \in HeldIn(core) => y \in HeldIn(core')
      BY <1>5, <2>3
    <3>3. \A y \in 1..MaxMessages : y # n => msg'[y] = msg[y]
      BY <1>4
    <3> QED BY <1>1, <1>5, <2>1, <2>2, <2>3, <2>5, <2>6, <3>1, <3>2, <3>3, OthersIs
  <2>8. Apart'
    BY <1>4, <2>1 DEF Apart
  <2>9. AloneThread(t)'
    BY <1>7 DEF AloneThread, InSerialize, InWrite
  <2>10. AloneMsg(n)'
    BY <1>4, <2>4 DEF AloneMsg
  <2>11. \A j \in DOMAIN context' :
           j \notin DOMAIN context \/ (context[j].message = n /\ msg[n].context = j /\ msg[n].destructor) =>
             AloneContext(j)'
    BY <1>4, <2>4 DEF AloneContext, Both
  <2> QED BY <1>1, <1>11, <2>1, <2>7, <2>8, <2>9, <2>10, <2>11, AloneStep
<1> QED BY <1>8, <1>10, <1>12, <1>13, <1>14 DEF CtxInv

-----------------------------------------------------------------------------
(* The invariant, and what it says of callbacks.                           *)

(* ContextInit establishes it.                                             *)
LEMMA CtxInit ==
  ASSUME ContextInit
  PROVE  CtxInv
<1>1. Piped(core) /\ core.messages = 0 /\ \A h : ~IsMsg(core, h)
  BY InitPiped
<1>2. shared \in BOOLEAN /\ context = <<>> /\ DOMAIN context = {}
  BY DEF ContextInit
<1>3. \A n \in 1..MaxMessages : msg[n] = NoContext
  BY DEF ContextInit
<1>4. \A t \in Threads : call[t] = NoCall /\ mine[t] = {}
  BY DEF ContextInit
<1>5. \A t \in Threads : call[t].at = "idle"
  BY <1>4 DEF NoCall
<1>6. \A n \in 1..MaxMessages : msg[n].context = 0 /\ ~msg[n].serializer /\ ~msg[n].destructor
  BY <1>3 DEF NoContext
<1>7. CtxTypes
  <2>1. NoContext \in Bonds /\ msg \in [1..MaxMessages -> Bonds]
    BY DEF ContextInit, NoContext, Bonds
  <2>2. NoCall \in Calls /\ call \in [Threads -> Calls]
    BY DEF ContextInit, NoCall, Calls, Plain
  <2>3. mine \in [Threads -> SUBSET Nat]
    BY DEF ContextInit
  <2>4. context \in Seq(Passes)
    BY <1>2
  <2>5. \A t \in Threads : \A m \in mine[t] : IsMsg(core, m)
    BY <1>4
  <2> QED BY <1>1, <1>2, <2>1, <2>2, <2>3, <2>4, <2>5 DEF CtxTypes
<1>8. Bound
  BY <1>5, <1>6 DEF Bound
<1>9. OnceDestroyed /\ OnceSerialized
  BY <1>2 DEF OnceDestroyed, OnceSerialized
<1>10. Alone
  <2>1. Apart
    BY <1>4 DEF Apart
  <2>2. \A t \in Threads : AloneThread(t)
    BY <1>5 DEF AloneThread, InSerialize, InWrite
  <2>3. \A n \in 1..MaxMessages : AloneMsg(n)
    BY <1>6 DEF AloneMsg
  <2>4. \A k \in DOMAIN context : AloneContext(k)
    BY <1>2
  <2> QED BY <2>1, <2>2, <2>3, <2>4 DEF Alone
<1> QED BY <1>7, <1>8, <1>9, <1>10 DEF CtxInv

(* Every step keeps it.                                                    *)
LEMMA CtxStep ==
  ASSUME CtxInv, [ContextNext]_contextVars
  PROVE  CtxInv'
<1>1. CASE UNCHANGED contextVars
  <2>1. /\ shared' = shared /\ core' = core /\ msg' = msg
        /\ call' = call /\ mine' = mine /\ context' = context
    BY <1>1 DEF contextVars
  <2>2. /\ CtxTypes <=> CtxTypes'
        /\ Bound <=> Bound'
    BY <2>1 DEF CtxTypes, Bound
  <2>3. \A t, k : /\ Destroyer(t, k)' <=> Destroyer(t, k)
                  /\ Serializer(t, k)' <=> Serializer(t, k)
    BY <2>1 DEF Destroyer, Serializer
  <2>4. OnceDestroyed <=> OnceDestroyed'
    BY <2>1, <2>3 DEF OnceDestroyed
  <2>5. OnceSerialized <=> OnceSerialized'
    BY <2>1, <2>3 DEF OnceSerialized
  <2>6. \A t : /\ InSerialize(t)' <=> InSerialize(t)
               /\ InWrite(t)' <=> InWrite(t)
               /\ MsgOf(call[t].message)' = MsgOf(call[t].message)
    BY <2>1 DEF InSerialize, InWrite, MsgOf
  <2>7. \A t : AloneThread(t) <=> AloneThread(t)'
    BY <2>1, <2>6 DEF AloneThread
  <2>8. \A n : AloneMsg(n) <=> AloneMsg(n)'
    BY <2>1, <2>6 DEF AloneMsg
  <2>9. \A k : AloneContext(k) <=> AloneContext(k)'
    BY <2>1, <2>3 DEF AloneContext, Both
  <2>10. Alone <=> Alone'
    BY <2>1, <2>7, <2>8, <2>9 DEF Alone, Apart
  <2> QED BY <2>1, <2>2, <2>4, <2>5, <2>10 DEF CtxInv
<1>2. CASE ContextNext
  <2>1. UNCHANGED shared
    BY <1>2 DEF ContextNext
  <2>2. PICK t \in Threads :
          \/ CreateMessage(t)
          \/ \E m \in mine[t] : CommitSize(t, m)
          \/ \E m \in mine[t], f \in Callbacks : SetMessageContext(t, m, f[1], f[2])
          \/ \E m \in mine[t] : DestroyMessage(t, m)
          \/ \E m \in mine[t], pipe \in {0, Sender} : SerializeMessage(t, m, pipe)
          \/ RunSerializer(t)
          \/ CommitSerialized(t)
          \/ RunDestructor(t)
          \/ WriteMessage(t)
          \/ ReadMessage(t, Receiver)
          \/ \E pipe \in PipeEnds : ClosePipe(t, pipe)
    BY <1>2 DEF ContextNext
  <2>3. CASE CreateMessage(t)
    BY <2>1, <2>3, CreateStep
  <2>4. CASE \E m \in mine[t] : CommitSize(t, m)
    BY <2>1, <2>4, CommitSizeStep
  <2>5. ASSUME NEW m \in mine[t], NEW f \in Callbacks, SetMessageContext(t, m, f[1], f[2])
        PROVE  CtxInv'
    <3>1. f[1] \in BOOLEAN /\ f[2] \in BOOLEAN
      BY MessageContextAssumption
    <3> QED BY <2>1, <2>5, <3>1, SetMessageContextStep
  <2>6. CASE \E m \in mine[t] : DestroyMessage(t, m)
    BY <2>1, <2>6, DestroyMessageStep
  <2>7. CASE \E m \in mine[t], pipe \in {0, Sender} : SerializeMessage(t, m, pipe)
    BY <2>1, <2>7, SerializeMessageStep
  <2>8. CASE RunSerializer(t)
    BY <2>1, <2>8, RunSerializerStep
  <2>9. CASE CommitSerialized(t)
    BY <2>1, <2>9, CommitSerializedStep
  <2>10. CASE RunDestructor(t)
    BY <2>1, <2>10, RunDestructorStep
  <2>11. CASE WriteMessage(t)
    BY <2>1, <2>11, WriteMessageStep
  <2>12. CASE ReadMessage(t, Receiver)
    BY <2>1, <2>12, ReadStep
  <2>13. CASE \E pipe \in PipeEnds : ClosePipe(t, pipe)
    BY <2>1, <2>13, ClosePipeStep
  <2> QED BY <2>2, <2>3, <2>4, <2>5, <2>6, <2>7, <2>8, <2>9, <2>10, <2>11, <2>12, <2>13
<1> QED BY <1>1, <1>2

(* The messages that are held.                                             *)
LEMMA HeldMessages ==
  ASSUME Piped(core)
  PROVE  Held = HeldIn(core)
<1>1. ASSUME NEW n, n \in Held
      PROVE  n \in HeldIn(core)
  <2>1. CASE n \in HeldByHandle
    <3>1. PICK h : IsMsg(core, h) /\ n = MsgOf(h)
      BY <2>1 DEF HeldByHandle, IsMsg
    <3> QED BY <3>1, MsgNames
  <2>2. CASE n \in HeldByQueue
    <3>1. PICK e \in 0..1 : n \in {QueueOf(core, e)[i].id[1] : i \in DOMAIN QueueOf(core, e)}
      BY <2>2 DEF HeldByQueue, QueueOf
    <3>2. PICK i \in DOMAIN QueueOf(core, e) : n = QueueOf(core, e)[i].id[1]
      BY <3>1
    <3>3. PICK k \in 1..core.messages : QueueOf(core, e)[i].id = <<k>>
      BY DEF Piped, Placed
    <3>4. n = k
      BY <3>2, <3>3
    <3> QED BY <3>3, <3>4, HeldIs
  <2> QED BY <1>1, <2>1, <2>2 DEF Held
<1>2. ASSUME NEW n, n \in HeldIn(core)
      PROVE  n \in Held
  <2>1. \/ \E h : IsMsg(core, h) /\ IdAt(core, h) = <<n>>
        \/ \E e \in 0..1 : \E i \in DOMAIN QueueOf(core, e) : QueueOf(core, e)[i].id = <<n>>
    BY <1>2, HeldIs
  <2>2. ASSUME NEW h, IsMsg(core, h), IdAt(core, h) = <<n>>
        PROVE  n \in Held
    <3>1. n = MsgOf(h) /\ h \in DOMAIN core.slots
      BY <2>2 DEF IdAt, MsgOf, IsMsg, IsA, Lookup
    <3> QED BY <2>2, <3>1 DEF Held, HeldByHandle, IsMsg
  <2>3. ASSUME NEW e \in 0..1, NEW i \in DOMAIN QueueOf(core, e), QueueOf(core, e)[i].id = <<n>>
        PROVE  n \in Held
    <3>1. n = QueueOf(core, e)[i].id[1]
      BY <2>3
    <3>2. n \in {QueueOf(core, e)[j].id[1] : j \in DOMAIN QueueOf(core, e)}
      BY <3>1
    <3>3. n \in HeldByQueue
      BY <3>2 DEF HeldByQueue, QueueOf
    <3> QED BY <3>3 DEF Held
  <2> QED BY <2>1, <2>2, <2>3
<1> QED BY <1>1, <1>2

(* A callback has run, is taken or is borne: at most one of the three.     *)
LEMMA OneOfThree ==
  ASSUME NEW d \in {0, 1}, NEW S, NEW T,
         \A x, y \in S : x = y, \A x, y \in T : x = y,
         d = 1 => S = {}, T # {} => d = 0 /\ S = {}
  PROVE  d + Cardinality(S) + Cardinality(T) <= 1
<1>1. Cardinality(S) = IF S = {} THEN 0 ELSE 1
  BY AtMostOne
<1>2. Cardinality(T) = IF T = {} THEN 0 ELSE 1
  BY AtMostOne
<1> QED BY <1>1, <1>2

(* The messages with one context are one.                                  *)
LEMMA OneMessage ==
  ASSUME CtxTypes, Bound, NEW k \in DOMAIN context,
         NEW n \in 1..MaxMessages, msg[n].context = k
  PROVE  n = context[k].message
<1>1. k # 0
  BY ContextNumbers
<1> QED BY <1>1 DEF Bound

(* Each callback runs at most once.                                        *)
LEMMA CtxOnce ==
  ASSUME CtxInv
  PROVE  CallbacksOnce
<1>1. CtxTypes /\ Bound /\ OnceDestroyed /\ OnceSerialized
  BY DEF CtxInv
<1>2. Held = HeldIn(core) /\ \A n \in Held : n \in 1..MaxMessages
  <2>1. Piped(core)
    BY <1>1 DEF CtxTypes
  <2>2. core.messages \in Nat /\ core.messages <= MaxMessages /\ MaxMessages \in Nat
    BY <2>1, MessageContextAssumption DEF Piped, Typed
  <2>3. \A n \in HeldIn(core) : n \in 1..core.messages
    BY HeldIs
  <2> QED BY <2>1, <2>2, <2>3, HeldMessages
<1>3. ASSUME NEW k \in DOMAIN context
      PROVE  context[k].destroyed + Cardinality(Takers(k)) + Cardinality(Bearers(k)) <= 1
  <2>1. /\ context[k].destroyed \in {0, 1}
        /\ context[k].destroyed = 1 => \A t \in Threads : ~Destroyer(t, k)
        /\ \A t, u \in Threads : Destroyer(t, k) /\ Destroyer(u, k) => t = u
        /\ \A n \in 1..MaxMessages : msg[n].context = k /\ (msg[n].destructor \/ n \in HeldIn(core)) =>
             context[k].destroyed = 0 /\ \A t \in Threads : ~Destroyer(t, k)
    BY <1>1 DEF OnceDestroyed
  <2>2. \A t : t \in Takers(k) <=> t \in Threads /\ Destroyer(t, k)
    BY DEF Takers, Destroyer
  <2>3. \A n \in Bearers(k) : n \in 1..MaxMessages /\ msg[n].context = k /\ msg[n].destructor
    BY <1>2 DEF Bearers
  <2>4. \A n, x \in Bearers(k) : n = x
    BY <1>1, <2>3, OneMessage
  <2>5. \A t, u \in Takers(k) : t = u
    BY <2>1, <2>2
  <2>6. context[k].destroyed = 1 => Takers(k) = {}
    BY <2>1, <2>2
  <2>7. Bearers(k) # {} => context[k].destroyed = 0 /\ Takers(k) = {}
    BY <2>1, <2>2, <2>3
  <2> QED BY <2>1, <2>4, <2>5, <2>6, <2>7, OneOfThree
<1>4. ASSUME NEW k \in DOMAIN context
      PROVE  context[k].serialized
               + Cardinality({t \in Threads : /\ call[t].at = "serializer"
                                              /\ call[t].run /\ call[t].ctx = k})
               + Cardinality({n \in Held : msg[n].context = k /\ msg[n].serializer}) <= 1
  <2> DEFINE S == {t \in Threads : /\ call[t].at = "serializer"
                                   /\ call[t].run /\ call[t].ctx = k}
             B == {n \in Held : msg[n].context = k /\ msg[n].serializer}
  <2>1. /\ context[k].serialized \in {0, 1}
        /\ context[k].serialized = 1 => \A t \in Threads : ~Serializer(t, k)
        /\ \A t, u \in Threads : Serializer(t, k) /\ Serializer(u, k) => t = u
        /\ \A n \in 1..MaxMessages : msg[n].context = k /\ msg[n].serializer =>
             context[k].serialized = 0 /\ \A t \in Threads : ~Serializer(t, k)
    BY <1>1 DEF OnceSerialized
  <2>2. \A t : t \in S <=> t \in Threads /\ Serializer(t, k)
    BY DEF Serializer
  <2>3. \A n \in B : n \in 1..MaxMessages /\ msg[n].context = k /\ msg[n].serializer
    BY <1>2
  <2> HIDE DEF S, B
  <2>4. \A n, x \in B : n = x
    BY <1>1, <2>3, OneMessage
  <2>5. \A t, u \in S : t = u
    BY <2>1, <2>2
  <2>6. context[k].serialized = 1 => S = {}
    BY <2>1, <2>2
  <2>7. B # {} => context[k].serialized = 0 /\ S = {}
    BY <2>1, <2>2, <2>3
  <2>8. context[k].serialized + Cardinality(S) + Cardinality(B) <= 1
    BY <2>1, <2>4, <2>5, <2>6, <2>7, OneOfThree
  <2> QED BY <2>8 DEF S, B
<1>5. ASSUME NEW t \in Threads, ~shared, call[t].at = "serializer", call[t].run
      PROVE  context[call[t].ctx].destroyed = 0
  <2>1. AloneThread(t) /\ InSerialize(t)
    BY <1>5 DEF CtxInv, Alone, InSerialize
  <2>2. PICK m : m = call[t].message
    OBVIOUS
  <2>3. m \in mine[t]
    BY <2>1, <2>2 DEF AloneThread
  <2>4. PICK n : n = MsgOf(m)
    OBVIOUS
  <2>5. msg[n].context = call[t].ctx
    BY <1>5, <2>1, <2>2, <2>4 DEF AloneThread
  <2>6. n \in 1..MaxMessages /\ n \in HeldIn(core)
    BY <1>1, <2>3, <2>4, MineNames
  <2>7. call[t].ctx \in DOMAIN context
    BY <1>1, <1>5 DEF Bound
  <2> QED BY <1>1, <2>5, <2>6, <2>7 DEF OnceDestroyed
<1> QED BY <1>3, <1>4, <1>5 DEF CallbacksOnce

(* A context with both callbacks is not forgotten.                         *)
LEMMA CtxNoLeak ==
  ASSUME CtxInv
  PROVE  NoContextLeak
<1> SUFFICES ASSUME NEW k \in DOMAIN context, ~shared, context[k].serializer,
                    context[k].destructor, context[k].message \notin Held
             PROVE  context[k].destroyed = 1 \/ Takers(k) # {}
  BY DEF NoContextLeak
<1>1. AloneContext(k) /\ Both(k)
  BY DEF CtxInv, Alone, Both
<1>2. Held = HeldIn(core)
  BY HeldMessages DEF CtxInv, CtxTypes
<1>3. context[k].destroyed = 1 \/ \E t \in Threads : Destroyer(t, k)
  BY <1>1, <1>2 DEF AloneContext
<1> QED BY <1>3 DEF Takers, Destroyer

(* The callbacks that WhpSetMessageContext takes on run once: for every    *)
(* number of threads, messages and contexts, every quota of the pipe and   *)
(* every choice of callbacks, however the calls of the threads interleave, *)
(* none runs twice; and when every thread keeps to its own messages, none  *)
(* of a context with both is forgotten, and no serializer gets a context   *)
(* whose destructor has run.                                               *)
THEOREM ContextsTheorem == ContextSpec => []ContextsAreExact
<1>1. ContextInit => CtxInv
  BY CtxInit
<1>2. CtxInv /\ [ContextNext]_contextVars => CtxInv'
  BY CtxStep
<1>3. CtxInv => ContextsAreExact
  BY CtxOnce, CtxNoLeak DEF ContextsAreExact
<1> QED BY <1>1, <1>2, <1>3, PTL DEF ContextSpec

=============================================================================
