----------------------------- MODULE WhpLemmas -----------------------------
(***************************************************************************)
(* Lemmas about the operators of WhpCore that the proofs about its users   *)
(* share: first about Alloc, Free, CollectTrapEvents and the helpers on    *)
(* sequences, then one per operation, on what it does to the ends of the   *)
(* pipes, to the traps and to their events.  Induction is stated with sets *)
(* of numbers, so that it can be used without an operator as parameter.    *)
(***************************************************************************)
EXTENDS WhpCore, SequenceTheorems, WellFoundedInduction, TLAPS

(* A nonempty set of natural numbers has a least element.                  *)
LEMMA LeastNat ==
  ASSUME NEW T \in SUBSET Nat, T # {}
  PROVE  \E x \in T : \A y \in T : x <= y
<1>1. IsWellFoundedOn(OpToRel(<, Nat), Nat)
  BY NatLessThanWellFounded
<1>2. PICK x \in T : \A y \in T : ~ (<<y, x>> \in OpToRel(<, Nat))
  BY <1>1, WFMin, Zenon
<1>3. \A y \in T : ~ (<<y, x>> \in {ss \in Nat \X Nat : ss[1] < ss[2]})
  BY <1>2 DEF OpToRel
<1>4. ASSUME NEW y \in T PROVE x <= y
  <2>1. y \in Nat /\ x \in Nat
    OBVIOUS
  <2>2. ~ (y < x)
    BY <1>3, <2>1
  <2> QED BY <2>1, <2>2
<1> QED BY <1>4

(* Induction over the natural numbers, for a set.                          *)
LEMMA SetInduction ==
  ASSUME NEW T, 0 \in T, \A n \in Nat : n \in T => n + 1 \in T
  PROVE  Nat \subseteq T
<1> SUFFICES ASSUME Nat \ T # {} PROVE FALSE
  OBVIOUS
<1>1. PICK x \in Nat \ T : \A y \in Nat \ T : x <= y
  BY LeastNat
<1>2. x # 0 /\ x - 1 \in Nat
  BY <1>1
<1>3. x - 1 \in T
  BY <1>1, <1>2
<1>4. (x - 1) + 1 \in T
  BY <1>2, <1>3
<1> QED BY <1>1, <1>4

\* A first value, and for each i what takes the value at i - 1 to that at i.
Steps(n, V, a, F) == n \in Nat /\ a \in V /\ F \in [1..n -> [V -> V]]
Follows(f, n, V, a, F) ==
  f \in [0..n -> V] /\ f[0] = a /\ \A i \in 1..n : f[i] = F[i][f[i-1]]

(* A function on 0..n is defined by its first value and by what takes one  *)
(* value to the next.                                                      *)
LEMMA Recursion ==
  ASSUME NEW n, NEW V, NEW a, NEW F, Steps(n, V, a, F)
  PROVE  \E f : Follows(f, n, V, a, F)
<1> USE DEF Steps
<1> DEFINE Good(f, m) == f[0] = a /\ \A i \in 1..m : f[i] = F[i][f[i-1]]
           T == {m \in Nat : m <= n => \E f \in [0..m -> V] : Good(f, m)}
<1>1. 0 \in T
  <2> DEFINE f == [i \in 0..0 |-> a]
  <2>1. f \in [0..0 -> V] /\ Good(f, 0)
    OBVIOUS
  <2> HIDE DEF f, Good
  <2> QED BY <2>1
<1>2. ASSUME NEW m \in Nat, m \in T PROVE m + 1 \in T
  <2> SUFFICES ASSUME m + 1 <= n
               PROVE  \E f \in [0..(m+1) -> V] : Good(f, m+1)
    OBVIOUS
  <2>1. PICK f \in [0..m -> V] : Good(f, m)
    BY <1>2
  <2> DEFINE x == F[m+1][f[m]]
             g == [i \in 0..(m+1) |-> IF i = m + 1 THEN x ELSE f[i]]
  <2>2. x \in V
    OBVIOUS
  <2> HIDE DEF x
  <2>3. /\ g \in [0..(m+1) -> V] /\ g[m+1] = x
        /\ \A i \in 0..m : g[i] = f[i]
    BY <2>2
  <2> HIDE DEF g
  <2>4. ASSUME NEW i \in 1..(m+1) PROVE g[i] = F[i][g[i-1]]
    <3>1. CASE i = m + 1
      BY <2>3, <3>1 DEF x
    <3>2. CASE i \in 1..m
      <4>1. g[i] = f[i] /\ g[i-1] = f[i-1]
        BY <2>3, <3>2
      <4> QED BY <2>1, <3>2, <4>1
    <3> QED BY <3>1, <3>2
  <2>5. Good(g, m+1)
    BY <2>1, <2>3, <2>4
  <2> HIDE DEF Good
  <2> QED BY <2>3, <2>5
<1> HIDE DEF T
<1>3. n \in T
  BY <1>1, <1>2, SetInduction
<1> QED BY <1>3 DEF T, Follows

GoAlike(f, g, n) ==
  n \in Nat /\ f[0] = g[0] /\ \A i \in 1..n : f[i-1] = g[i-1] => f[i] = g[i]
Agree(f, g, n) == \A i \in 0..n : f[i] = g[i]

(* Two such functions that start alike and go on alike are alike.          *)
LEMMA Unique ==
  ASSUME NEW n, NEW f, NEW g, GoAlike(f, g, n)
  PROVE  Agree(f, g, n)
<1> USE DEF GoAlike, Agree
<1> DEFINE T == {m \in Nat : m <= n => f[m] = g[m]}
<1>1. 0 \in T
  OBVIOUS
<1>2. ASSUME NEW m \in Nat, m \in T PROVE m + 1 \in T
  <2>1. CASE m + 1 <= n
    <3>1. (m + 1) \in 1..n /\ (m + 1) - 1 = m /\ f[m] = g[m]
      BY <1>2, <2>1
    <3> QED BY <3>1
  <2> QED BY <2>1
<1> HIDE DEF T
<1>3. Nat \subseteq T
  BY <1>1, <1>2, SetInduction
<1> QED BY <1>3 DEF T

(* The equation that defines KeepAt.                                       *)
LEMMA KeepAtDef ==
  ASSUME NEW S, NEW s \in Seq(S), NEW K
  PROVE  \E f \in [0..Len(s) -> Seq(S)] :
           /\ KeepAt(s, K) = f[Len(s)] /\ f[0] = <<>>
           /\ \A i \in 1..Len(s) :
                f[i] = IF i \in K THEN Append(f[i-1], s[i]) ELSE f[i-1]
<1> DEFINE n == Len(s)
           F == [i \in 1..n |-> [v \in Seq(S) |-> IF i \in K THEN Append(v, s[i]) ELSE v]]
<1>1. n \in Nat /\ <<>> \in Seq(S)
  OBVIOUS
<1>2. F \in [1..n -> [Seq(S) -> Seq(S)]]
  OBVIOUS
<1>3. \A i \in 1..n, v \in Seq(S) : F[i][v] = IF i \in K THEN Append(v, s[i]) ELSE v
  OBVIOUS
<1> HIDE DEF F
<1>4. PICK f \in [0..n -> Seq(S)] : f[0] = <<>> /\ \A i \in 1..n : f[i] = F[i][f[i-1]]
  <2> HIDE DEF n
  <2> DEFINE V == Seq(S)
             a == <<>>
  <2>1. Steps(n, V, a, F)
    BY <1>1, <1>2 DEF Steps
  <2> HIDE DEF V, a
  <2>2. \E f : Follows(f, n, V, a, F)
    BY <2>1, Recursion
  <2> QED BY <2>2 DEF V, a, Follows
<1>5. \A i \in 1..n : f[i] = IF i \in K THEN Append(f[i-1], s[i]) ELSE f[i-1]
  <2> SUFFICES ASSUME NEW i \in 1..n
               PROVE  f[i] = IF i \in K THEN Append(f[i-1], s[i]) ELSE f[i-1]
    OBVIOUS
  <2>1. i - 1 \in 0..n /\ f[i-1] \in Seq(S)
    BY <1>1
  <2> QED BY <1>3, <1>4, <2>1
<1> DEFINE Step(g, i) == IF i = 0 THEN <<>>
                         ELSE IF i \in K THEN Append(g[i-1], s[i]) ELSE g[i-1]
           kept == CHOOSE g : g = [i \in 0..n |-> Step(g, i)]
<1>6. f = [i \in 0..n |-> Step(f, i)]
  <2>1. ASSUME NEW i \in 0..n PROVE f[i] = Step(f, i)
    <3>1. CASE i = 0
      BY <1>4, <3>1
    <3>2. CASE i \in 1..n
      <4>1. i # 0
        BY <3>2
      <4>2. f[i] = IF i \in K THEN Append(f[i-1], s[i]) ELSE f[i-1]
        BY <1>5, <3>2, Zenon
      <4> QED BY <4>1, <4>2
    <3> QED BY <1>1, <3>1, <3>2
  <2> HIDE DEF Step
  <2> QED BY <2>1
<1>7. kept = [i \in 0..n |-> Step(kept, i)]
  <2> HIDE DEF Step, n
  <2> QED BY <1>6
<1>8. KeepAt(s, K) = kept[n]
  BY DEF KeepAt
<1> HIDE DEF kept
<1>9. \A i \in 0..n : kept[i] = Step(kept, i)
  BY <1>7
<1>10. \A i \in 1..n : kept[i] = IF i \in K THEN Append(kept[i-1], s[i]) ELSE kept[i-1]
  BY <1>1, <1>9
<1>11. GoAlike(kept, f, n)
  BY <1>1, <1>4, <1>5, <1>9, <1>10 DEF GoAlike
<1>12. \A i \in 0..n : kept[i] = f[i]
  BY <1>11, Unique DEF Agree
<1>13. KeepAt(s, K) = f[n]
  BY <1>1, <1>8, <1>12
<1> QED BY <1>4, <1>5, <1>13

\* r holds the elements of s at those of the first m positions that are in K,
\* in order: pos says where each comes from.
PickedBy(r, s, K, m, pos) ==
  /\ pos \in [1..Len(r) -> 1..m]
  /\ \A j \in 1..Len(r) : pos[j] \in K /\ r[j] = s[pos[j]]
  /\ \A i, j \in 1..Len(r) : i < j => pos[i] < pos[j]
  /\ \A k \in 1..m : k \in K => \E j \in 1..Len(r) : pos[j] = k

(* One more position, in K ...                                             *)
LEMMA PickedMore ==
  ASSUME NEW S, NEW r \in Seq(S), NEW s, NEW K, NEW m \in Nat, NEW pos,
         PickedBy(r, s, K, m, pos), m + 1 \in K, s[m+1] \in S
  PROVE  \E p : PickedBy(Append(r, s[m+1]), s, K, m + 1, p)
<1> DEFINE k == Len(r)
           x == s[m+1]
           a == Append(r, x)
           p == [j \in 1..(k+1) |-> IF j = k + 1 THEN m + 1 ELSE pos[j]]
<1>1. k \in Nat /\ DOMAIN r = 1..k
  OBVIOUS
<1>2. Len(a) = k + 1 /\ a[k+1] = x /\ \A j \in 1..k : a[j] = r[j]
  OBVIOUS
<1>3. pos \in [1..k -> 1..m]
  BY DEF PickedBy
<1> HIDE DEF a, k
<1>4. /\ p \in [1..(k+1) -> 1..(m+1)] /\ p[k+1] = m + 1
      /\ \A j \in 1..k : p[j] = pos[j] /\ p[j] \in 1..m
  BY <1>1, <1>3
<1> HIDE DEF p
<1>5. \A j \in 1..(k+1) : p[j] \in K /\ a[j] = s[p[j]]
  <2> SUFFICES ASSUME NEW j \in 1..(k+1) PROVE p[j] \in K /\ a[j] = s[p[j]]
    OBVIOUS
  <2>1. CASE j = k + 1
    BY <1>2, <1>4, <2>1
  <2>2. CASE j \in 1..k
    BY <1>2, <1>4, <2>2 DEF PickedBy, k
  <2> QED BY <1>1, <2>1, <2>2
<1>6. \A i, j \in 1..(k+1) : i < j => p[i] < p[j]
  <2> SUFFICES ASSUME NEW i \in 1..(k+1), NEW j \in 1..(k+1), i < j PROVE p[i] < p[j]
    OBVIOUS
  <2>1. CASE j = k + 1
    <3>1. i \in 1..k
      BY <1>1, <2>1
    <3> QED BY <1>4, <2>1, <3>1
  <2>2. CASE j \in 1..k
    <3>1. i \in 1..k
      BY <1>1, <2>2
    <3> QED BY <1>4, <2>2, <3>1 DEF PickedBy, k
  <2> QED BY <1>1, <2>1, <2>2
<1>7. \A y \in 1..(m+1) : y \in K => \E j \in 1..(k+1) : p[j] = y
  <2> SUFFICES ASSUME NEW y \in 1..(m+1), y \in K PROVE \E j \in 1..(k+1) : p[j] = y
    OBVIOUS
  <2>1. CASE y = m + 1
    BY <1>1, <1>4, <2>1
  <2>2. CASE y \in 1..m
    <3>1. PICK j \in 1..k : pos[j] = y
      BY <2>2 DEF PickedBy, k
    <3> QED BY <1>1, <1>4, <3>1
  <2> QED BY <2>1, <2>2
<1>8. PickedBy(a, s, K, m + 1, p)
  BY <1>2, <1>4, <1>5, <1>6, <1>7 DEF PickedBy
<1> QED BY <1>8 DEF a

(* ... or not in K.                                                        *)
LEMMA PickedSame ==
  ASSUME NEW S, NEW r \in Seq(S), NEW s, NEW K, NEW m \in Nat, NEW pos,
         PickedBy(r, s, K, m, pos), m + 1 \notin K
  PROVE  PickedBy(r, s, K, m + 1, pos)
<1>1. Len(r) \in Nat /\ pos \in [1..Len(r) -> 1..(m+1)]
  BY DEF PickedBy
<1> QED BY <1>1 DEF PickedBy

(* KeepAt returns the elements of s at the positions in K, in order.       *)
LEMMA KeepAtPositions ==
  ASSUME NEW S, NEW s \in Seq(S), NEW K
  PROVE  /\ KeepAt(s, K) \in Seq(S)
         /\ \E pos : PickedBy(KeepAt(s, K), s, K, Len(s), pos)
<1> DEFINE n == Len(s)
<1>0. n \in Nat /\ \A i \in 1..n : s[i] \in S
  OBVIOUS
<1>1. PICK f \in [0..n -> Seq(S)] :
        /\ KeepAt(s, K) = f[n] /\ f[0] = <<>>
        /\ \A i \in 1..n : f[i] = IF i \in K THEN Append(f[i-1], s[i]) ELSE f[i-1]
  BY KeepAtDef
<1> DEFINE T == {m \in Nat : m <= n => \E pos : PickedBy(f[m], s, K, m, pos)}
<1> HIDE DEF n
<1>2. 0 \in T
  <2> DEFINE pos == [i \in 1..0 |-> 0]
  <2>1. PickedBy(f[0], s, K, 0, pos)
    BY <1>1 DEF PickedBy
  <2> QED BY <2>1
<1>3. ASSUME NEW m \in Nat, m \in T PROVE m + 1 \in T
  <2> SUFFICES ASSUME m + 1 <= n
               PROVE  \E pos : PickedBy(f[m+1], s, K, m + 1, pos)
    OBVIOUS
  <2>1. PICK pos : PickedBy(f[m], s, K, m, pos)
    BY <1>0, <1>3
  <2>2. /\ f[m] \in Seq(S) /\ s[m+1] \in S
        /\ f[m+1] = IF m + 1 \in K THEN Append(f[m], s[m+1]) ELSE f[m]
    <3>1. m \in 0..n /\ m + 1 \in 1..n /\ (m + 1) - 1 = m
      BY <1>0
    <3> QED BY <1>0, <1>1, <3>1
  <2>3. CASE m + 1 \in K
    <3>1. f[m+1] = Append(f[m], s[m+1])
      BY <2>2, <2>3
    <3> DEFINE r == f[m]
    <3>2. r \in Seq(S) /\ PickedBy(r, s, K, m, pos) /\ s[m+1] \in S
      BY <2>1, <2>2
    <3> HIDE DEF r
    <3>3. \E p : PickedBy(Append(r, s[m+1]), s, K, m + 1, p)
      BY <2>3, <3>2, PickedMore
    <3> QED BY <3>1, <3>3 DEF r
  <2>4. CASE m + 1 \notin K
    <3>1. f[m+1] = f[m]
      BY <2>2, <2>4
    <3> QED BY <2>1, <2>2, <2>4, <3>1, PickedSame, Zenon
  <2> QED BY <2>3, <2>4
<1>4. n \in T
  <2> HIDE DEF T
  <2> QED BY <1>0, <1>2, <1>3, SetInduction
<1>5. PICK pos : PickedBy(f[n], s, K, n, pos)
  BY <1>0, <1>4
<1>6. f[n] \in Seq(S)
  BY <1>0
<1> QED BY <1>1, <1>5, <1>6 DEF n

-----------------------------------------------------------------------------
(* The equation that defines QueueBytes.                                   *)
LEMMA QueueBytesDef ==
  ASSUME NEW S, \A x \in S : x.size \in Nat, NEW q \in Seq(S)
  PROVE  \E f \in [0..Len(q) -> Nat] :
           /\ QueueBytes(q) = f[Len(q)] /\ f[0] = 0
           /\ \A i \in 1..Len(q) : f[i] = f[i-1] + q[i].size
<1> DEFINE n == Len(q)
           F == [i \in 1..n |-> [v \in Nat |-> v + q[i].size]]
<1>1. n \in Nat /\ \A i \in 1..n : q[i].size \in Nat
  OBVIOUS
<1>2. Steps(n, Nat, 0, F)
  BY <1>1 DEF Steps
<1>3. PICK f : Follows(f, n, Nat, 0, F)
  BY <1>2, Recursion
<1>4. f \in [0..n -> Nat] /\ f[0] = 0 /\ \A i \in 1..n : f[i] = f[i-1] + q[i].size
  <2>1. f \in [0..n -> Nat] /\ f[0] = 0 /\ \A i \in 1..n : f[i] = F[i][f[i-1]]
    BY <1>3 DEF Follows
  <2>2. \A i \in 1..n : i - 1 \in 0..n /\ f[i-1] \in Nat
    BY <1>1, <2>1
  <2> QED BY <1>1, <2>1, <2>2
<1> DEFINE Step(g, i) == IF i = 0 THEN 0 ELSE g[i-1] + q[i].size
           sum == CHOOSE g : g = [i \in 0..n |-> Step(g, i)]
<1>5. f = [i \in 0..n |-> Step(f, i)]
  <2>1. ASSUME NEW i \in 0..n PROVE f[i] = Step(f, i)
    <3>1. CASE i = 0
      BY <1>4, <3>1
    <3>2. CASE i \in 1..n
      <4>1. i # 0
        BY <3>2
      <4>2. f[i] = f[i-1] + q[i].size
        BY <1>4, <3>2, Zenon
      <4> QED BY <4>1, <4>2
    <3> QED BY <1>1, <3>1, <3>2
  <2> HIDE DEF Step
  <2> QED BY <1>4, <2>1
<1>6. sum = [i \in 0..n |-> Step(sum, i)]
  <2> HIDE DEF Step, n
  <2> QED BY <1>5
<1>7. QueueBytes(q) = sum[n]
  BY DEF QueueBytes
<1> HIDE DEF sum
<1>8. GoAlike(sum, f, n)
  <2>1. \A i \in 0..n : sum[i] = Step(sum, i)
    BY <1>6
  <2> QED BY <1>1, <1>4, <2>1 DEF GoAlike
<1>9. \A i \in 0..n : sum[i] = f[i]
  BY <1>8, Unique DEF Agree
<1>10. QueueBytes(q) = f[n]
  BY <1>1, <1>7, <1>9
<1> QED BY <1>4, <1>10

(* Appending a message adds its size to the bytes of a queue.              *)
LEMMA QueueBytesAppend ==
  ASSUME NEW S, \A x \in S : x.size \in Nat, NEW q \in Seq(S), NEW m \in S
  PROVE  /\ QueueBytes(q) \in Nat
         /\ QueueBytes(Append(q, m)) = QueueBytes(q) + m.size
<1> DEFINE n == Len(q)
           a == Append(q, m)
<1>1. /\ n \in Nat /\ a \in Seq(S) /\ Len(a) = n + 1
      /\ a[n+1] = m /\ \A i \in 1..n : a[i] = q[i]
  OBVIOUS
<1>2. PICK f \in [0..n -> Nat] :
        /\ QueueBytes(q) = f[n] /\ f[0] = 0
        /\ \A i \in 1..n : f[i] = f[i-1] + q[i].size
  BY QueueBytesDef
<1>3. PICK g \in [0..(n+1) -> Nat] :
        /\ QueueBytes(a) = g[n+1] /\ g[0] = 0
        /\ \A i \in 1..(n+1) : g[i] = g[i-1] + a[i].size
  <2> HIDE DEF a, n
  <2>1. \E g \in [0..Len(a) -> Nat] :
          /\ QueueBytes(a) = g[Len(a)] /\ g[0] = 0
          /\ \A i \in 1..Len(a) : g[i] = g[i-1] + a[i].size
    BY <1>1, QueueBytesDef
  <2> QED BY <1>1, <2>1
<1> HIDE DEF a, n
<1>4. ASSUME NEW i \in 1..n, f[i-1] = g[i-1] PROVE f[i] = g[i]
  <2>1. i \in 1..(n+1)
    BY <1>1
  <2>2. f[i] = f[i-1] + q[i].size
    BY <1>2, Zenon
  <2>3. g[i] = g[i-1] + a[i].size
    BY <1>3, <2>1, Zenon
  <2> QED BY <1>1, <1>4, <2>2, <2>3
<1>5. \A i \in 0..n : f[i] = g[i]
  <2>1. f[0] = g[0]
    BY <1>2, <1>3
  <2>2. GoAlike(f, g, n)
    BY <1>1, <1>4, <2>1 DEF GoAlike
  <2>3. Agree(f, g, n)
    BY <2>2, Unique
  <2> QED BY <2>3 DEF Agree
<1>6. g[n+1] = g[n] + m.size
  <2>1. n + 1 \in 1..(n+1) /\ (n + 1) - 1 = n
    BY <1>1
  <2> QED BY <1>1, <1>3, <2>1
<1>7. f[n] = g[n] /\ f[n] \in Nat
  BY <1>1, <1>5
<1> QED BY <1>2, <1>3, <1>6, <1>7 DEF a, n

-----------------------------------------------------------------------------
(* The handle table.                                                       *)

CoreFields == {"slots", "free_list", "traps", "pipes", "pending_events",
               "messages", "writes", "ntraps"}

\* What the operators of WhpCore need to know of a core's shape: its fields,
\* that slots and free_list are sequences, and that a slot is a record.
Shape(c) ==
  /\ DOMAIN c = CoreFields
  /\ \E S : c.slots \in Seq(S)
  /\ c.free_list \in Seq(Nat)
  /\ \A h \in DOMAIN c.slots : DOMAIN c.slots[h] = {"kind", "obj"}

Table(c) == Shape(c) /\ FreeListExactIn(c)

\* d has the handle table of c, up to the contents of the objects.
SameTable(c, d) ==
  /\ DOMAIN d = CoreFields
  /\ d.free_list = c.free_list
  /\ \E S : d.slots \in Seq(S)
  /\ DOMAIN d.slots = DOMAIN c.slots
  /\ \A h \in DOMAIN c.slots : /\ DOMAIN d.slots[h] = {"kind", "obj"}
                               /\ d.slots[h].kind = c.slots[h].kind

(* A change of the objects alone keeps the table.                          *)
LEMMA SameTableKeeps ==
  ASSUME NEW c, NEW d, Table(c), SameTable(c, d)
  PROVE  Table(d)
BY DEF Table, Shape, SameTable, FreeListExactIn, IsInjective

(* Core::Alloc keeps the table: the slot it fills leaves the free list, or *)
(* is new.                                                                 *)
LEMMA AllocKeeps ==
  ASSUME NEW c, Table(c), NEW kind, kind # "Free", NEW obj
  PROVE  Table(Alloc(c, kind, obj))
<1> DEFINE new == [kind |-> kind, obj |-> obj]
           d   == Alloc(c, kind, obj)
<1>1. CASE c.free_list # <<>>
  <2> DEFINE n == Len(c.free_list)
             h == c.free_list[n]
  <2>1. n \in Nat \ {0} /\ DOMAIN c.free_list = 1..n /\ h \in DOMAIN c.slots
    BY <1>1 DEF Table, Shape, FreeListExactIn
  <2>2. d = [c EXCEPT !.free_list = SubSeq(@, 1, n - 1), !.slots[h] = new]
    BY <1>1 DEF Alloc, NextHandle
  <2>3. /\ DOMAIN d = CoreFields
        /\ d.free_list = SubSeq(c.free_list, 1, n - 1)
        /\ d.slots = [c.slots EXCEPT ![h] = new]
    BY <2>2 DEF Table, Shape, CoreFields
  <2>4. /\ d.free_list \in Seq(Nat) /\ DOMAIN d.free_list = 1..(n - 1)
        /\ \A i \in 1..(n - 1) : d.free_list[i] = c.free_list[i]
    BY <2>1, <2>3 DEF Table, Shape
  <2>5. PICK S : c.slots \in Seq(S)
    BY DEF Table, Shape
  <2>6. d.slots \in Seq(S \cup {new}) /\ DOMAIN d.slots = DOMAIN c.slots
    BY <2>1, <2>3, <2>5
  <2>7. Shape(d)
    BY <2>3, <2>4, <2>6 DEF Table, Shape
  <2>8. FreeListExactIn(d)
    <3>1. IsInjective(d.free_list)
      BY <2>1, <2>4, SMTT(30) DEF Table, FreeListExactIn, IsInjective
    <3>2. \A i \in 1..(n - 1) : c.free_list[i] # h
      BY <2>1 DEF Table, FreeListExactIn, IsInjective
    <3>3. ASSUME NEW i \in DOMAIN d.free_list
          PROVE  d.free_list[i] \in DOMAIN d.slots /\ d.slots[d.free_list[i]].kind = "Free"
      <4>1. i \in 1..(n - 1) /\ i \in DOMAIN c.free_list
        BY <2>1, <2>4
      <4>2. /\ d.free_list[i] = c.free_list[i] /\ c.free_list[i] # h
            /\ c.free_list[i] \in DOMAIN c.slots
            /\ c.slots[c.free_list[i]].kind = "Free"
        BY <2>4, <3>2, <4>1 DEF Table, FreeListExactIn
      <4> QED BY <2>3, <2>6, <4>2
    <3>4. d.slots[h].kind # "Free"
      BY <2>1, <2>3
    <3>5. ASSUME NEW k \in DOMAIN d.slots, d.slots[k].kind = "Free"
          PROVE  \E i \in DOMAIN d.free_list : d.free_list[i] = k
      <4>1. k # h /\ k \in DOMAIN c.slots /\ c.slots[k].kind = "Free"
        BY <2>3, <2>6, <3>4, <3>5
      <4>2. PICK i \in 1..n : c.free_list[i] = k
        BY <2>1, <4>1 DEF Table, FreeListExactIn
      <4>3. i \in 1..(n - 1)
        BY <2>1, <4>1, <4>2
      <4> QED BY <2>4, <4>2, <4>3
    <3> QED BY <3>1, <3>3, <3>5 DEF FreeListExactIn
  <2> QED BY <2>7, <2>8 DEF Table
<1>2. CASE c.free_list = <<>>
  <2>1. d = [c EXCEPT !.slots = Append(@, new)]
    BY <1>2 DEF Alloc
  <2>2. /\ DOMAIN d = CoreFields
        /\ d.free_list = c.free_list
        /\ d.slots = Append(c.slots, new)
    BY <2>1 DEF Table, Shape, CoreFields
  <2>3. PICK S : c.slots \in Seq(S)
    BY DEF Table, Shape
  <2>4. /\ d.slots \in Seq(S \cup {new})
        /\ DOMAIN d.slots = 1..(Len(c.slots) + 1)
        /\ DOMAIN c.slots = 1..Len(c.slots) /\ Len(c.slots) \in Nat
        /\ \A h \in DOMAIN c.slots : d.slots[h] = c.slots[h]
        /\ d.slots[Len(c.slots) + 1] = new
    BY <2>2, <2>3
  <2>5. Shape(d)
    BY <2>2, <2>4 DEF Table, Shape
  <2>6. FreeListExactIn(d)
    BY <1>2, <2>2, <2>4 DEF Table, FreeListExactIn, IsInjective
  <2> QED BY <2>5, <2>6 DEF Table
<1> QED BY <1>1, <1>2

(* Core::Free keeps the table when the handle is in use, which is how every *)
(* caller uses it (after Lookup).                                           *)
LEMMA FreeKeeps ==
  ASSUME NEW c, Table(c), NEW h, Lookup(c, h)
  PROVE  /\ Table(Free(c, h))
         /\ \A k \in DOMAIN c.slots : k # h => Free(c, h).slots[k] = c.slots[k]
         /\ DOMAIN Free(c, h).slots = DOMAIN c.slots
<1> DEFINE d == Free(c, h)
<1>1. /\ DOMAIN d = CoreFields
      /\ d.free_list = Append(c.free_list, h)
      /\ d.slots = [c.slots EXCEPT ![h] = FreeSlot]
  BY DEF Free, Table, Shape, CoreFields
<1>2. PICK S : c.slots \in Seq(S)
  BY DEF Table, Shape
<1>3. h \in DOMAIN c.slots /\ h \in Nat /\ c.slots[h].kind # "Free"
  BY <1>2 DEF Lookup
<1>4. /\ d.slots \in Seq(S \cup {FreeSlot}) /\ DOMAIN d.slots = DOMAIN c.slots
      /\ \A k \in DOMAIN c.slots :
           d.slots[k] = IF k = h THEN FreeSlot ELSE c.slots[k]
  BY <1>1, <1>2, <1>3
<1>5. /\ d.free_list \in Seq(Nat)
      /\ DOMAIN d.free_list = 1..(Len(c.free_list) + 1)
      /\ DOMAIN c.free_list = 1..Len(c.free_list) /\ Len(c.free_list) \in Nat
      /\ \A i \in DOMAIN c.free_list : d.free_list[i] = c.free_list[i]
      /\ d.free_list[Len(c.free_list) + 1] = h
  BY <1>1, <1>3 DEF Table, Shape
<1>6. FreeSlot.kind = "Free" /\ DOMAIN FreeSlot = {"kind", "obj"}
  BY DEF FreeSlot
<1>7. Shape(d)
  BY <1>1, <1>4, <1>5, <1>6 DEF Table, Shape
<1>8. FreeListExactIn(d)
  <2> DEFINE n == Len(c.free_list)
  <2>0. n \in Nat
    BY <1>5
  <2>1. \A i \in 1..n : c.free_list[i] # h
    BY <1>3, <1>5 DEF Table, FreeListExactIn
  <2>2. IsInjective(c.free_list)
    BY DEF Table, FreeListExactIn
  <2>3. IsInjective(d.free_list)
    <3> SUFFICES ASSUME NEW i \in 1..(n + 1), NEW j \in 1..(n + 1),
                        d.free_list[i] = d.free_list[j], i # j
                 PROVE  FALSE
      BY <1>5 DEF IsInjective
    <3>1. CASE i \in 1..n /\ j \in 1..n
      BY <1>5, <2>2, <3>1 DEF IsInjective
    <3>2. CASE i = n + 1 /\ j \in 1..n
      BY <1>5, <2>1, <3>2
    <3>3. CASE j = n + 1 /\ i \in 1..n
      BY <1>5, <2>1, <3>3
    <3> HIDE DEF n
    <3> QED BY <2>0, <3>1, <3>2, <3>3
  <2>4. \A i \in DOMAIN d.free_list :
          d.free_list[i] \in DOMAIN d.slots /\ d.slots[d.free_list[i]].kind = "Free"
    <3> SUFFICES ASSUME NEW i \in 1..(n + 1)
                 PROVE  /\ d.free_list[i] \in DOMAIN d.slots
                        /\ d.slots[d.free_list[i]].kind = "Free"
      BY <1>5
    <3>1. CASE i = n + 1
      BY <1>3, <1>4, <1>5, <1>6, <3>1
    <3>2. CASE i \in 1..n
      <4>1. /\ d.free_list[i] = c.free_list[i] /\ c.free_list[i] # h
            /\ c.free_list[i] \in DOMAIN c.slots
            /\ c.slots[c.free_list[i]].kind = "Free"
        BY <1>5, <2>1, <3>2 DEF Table, FreeListExactIn
      <4> QED BY <1>4, <4>1
    <3> QED BY <1>5, <3>1, <3>2
  <2>5. ASSUME NEW k \in DOMAIN d.slots, d.slots[k].kind = "Free"
        PROVE  \E i \in DOMAIN d.free_list : d.free_list[i] = k
    <3>1. CASE k = h
      BY <1>5, <3>1
    <3>2. CASE k # h
      <4>1. k \in DOMAIN c.slots /\ c.slots[k].kind = "Free"
        BY <1>4, <2>5, <3>2
      <4>2. PICK i \in DOMAIN c.free_list : c.free_list[i] = k
        BY <4>1 DEF Table, FreeListExactIn
      <4> QED BY <1>5, <4>2
    <3> QED BY <3>1, <3>2
  <2> QED BY <2>3, <2>4, <2>5 DEF FreeListExactIn
<1> QED BY <1>4, <1>7, <1>8, SMTT(30) DEF Table

(* What an update of slots and pending_events makes of a core.             *)
LEMMA SlotsAndEvents ==
  ASSUME NEW c, DOMAIN c = CoreFields, NEW slots, NEW events
  PROVE  LET d == [c EXCEPT !.slots = slots, !.pending_events = @ \o events]
         IN  d.slots = slots /\ DOMAIN d = CoreFields /\ d.free_list = c.free_list
BY DEF CoreFields

(* CollectTrapEvents disarms traps and queues events; handles stay.        *)
LEMMA CollectKeeps ==
  ASSUME NEW c, Table(c)
  PROVE  Table(CollectTrapEvents(c))
<1> DEFINE d   == CollectTrapEvents(c)
           F   == Firing(c)
           new == [h \in DOMAIN c.slots |->
                     IF \E i \in DOMAIN F : F[i] = h
                     THEN [c.slots[h] EXCEPT !.obj.armed = FALSE]
                     ELSE c.slots[h]]
           events == [i \in 1..Len(F) |-> TrapEvent(c, F[i])]
<1>0. d = [c EXCEPT !.slots = new, !.pending_events = @ \o events]
  BY Zenon DEF CollectTrapEvents
<1> HIDE DEF F, new, events, d
<1>1. d.slots = new
  BY <1>0, SlotsAndEvents DEF Table, Shape
<1>2. DOMAIN d = CoreFields /\ d.free_list = c.free_list
  BY <1>0, SlotsAndEvents DEF Table, Shape
<1>3. \A h \in DOMAIN c.slots : /\ DOMAIN d.slots[h] = {"kind", "obj"}
                                /\ d.slots[h].kind = c.slots[h].kind
  BY <1>1 DEF Table, Shape, new
<1>4. \E S : d.slots \in Seq(S)
  <2>1. PICK S : c.slots \in Seq(S)
    BY DEF Table, Shape
  <2>2. Len(c.slots) \in Nat /\ DOMAIN d.slots = 1..Len(c.slots)
    BY <1>1, <2>1 DEF new
  <2> DEFINE T == {d.slots[h] : h \in 1..Len(c.slots)}
  <2>3. d.slots = [h \in 1..Len(c.slots) |-> d.slots[h]]
    BY <1>1, <2>2 DEF new
  <2>4. \A h \in 1..Len(c.slots) : d.slots[h] \in T
    OBVIOUS
  <2>5. [h \in 1..Len(c.slots) |-> d.slots[h]] \in Seq(T)
    BY <2>2, <2>4, IsASeq, SMTT(30)
  <2> QED BY <2>3, <2>5
<1> QED BY <1>1, <1>2, <1>3, <1>4, SameTableKeeps DEF SameTable, new, d

(* Changes of the other fields keep the table.                             *)
LEMMA OtherFieldsKeep ==
  ASSUME NEW c, NEW d, Table(c), DOMAIN d = CoreFields,
         d.slots = c.slots, d.free_list = c.free_list
  PROVE  Table(d)
BY SameTableKeeps DEF SameTable, Table, Shape

(* A change of one object keeps the table.                                 *)
LEMMA ObjectKeeps ==
  ASSUME NEW c, NEW d, Table(c), DOMAIN d = CoreFields,
         NEW h \in DOMAIN c.slots, NEW o,
         d.slots = [c.slots EXCEPT ![h] = [c.slots[h] EXCEPT !.obj = o]],
         d.free_list = c.free_list
  PROVE  /\ Table(d)
         /\ SameTable(c, d)
<1>1. PICK S : c.slots \in Seq(S)
  BY DEF Table, Shape
<1> DEFINE new == [c.slots[h] EXCEPT !.obj = o]
<1>2. new.kind = c.slots[h].kind /\ DOMAIN new = {"kind", "obj"}
  BY DEF Table, Shape
<1> HIDE DEF new
<1>3. d.slots = [c.slots EXCEPT ![h] = new]
  BY DEF new
<1>4. /\ d.slots \in Seq(S \cup {new}) /\ DOMAIN d.slots = DOMAIN c.slots
      /\ \A k \in DOMAIN c.slots : d.slots[k] = IF k = h THEN new ELSE c.slots[k]
  BY <1>1, <1>3
<1>5. SameTable(c, d)
  BY <1>2, <1>4 DEF SameTable, Table, Shape
<1> QED BY <1>5, SameTableKeeps

-----------------------------------------------------------------------------
(* What Alloc, Free and CollectTrapEvents do to the rest of a core.        *)

\* The fields that the handle table is not made of.
SameRest(c, d) ==
  /\ d.traps = c.traps /\ d.pipes = c.pipes /\ d.pending_events = c.pending_events
  /\ d.messages = c.messages /\ d.writes = c.writes /\ d.ntraps = c.ntraps

\* d is c with a new object at handle n, which was free or is new.
Allocated(c, d, n, kind, obj) ==
  /\ SameRest(c, d) /\ n \in Nat \ {0} /\ ~Lookup(c, n)
  /\ DOMAIN d.slots = DOMAIN c.slots \cup {n}
  /\ d.slots[n] = [kind |-> kind, obj |-> obj]
  /\ \A h \in DOMAIN c.slots : h # n => d.slots[h] = c.slots[h]

\* d is c without the object at handle n.
Freed(c, d, n) ==
  /\ SameRest(c, d)
  /\ DOMAIN d.slots = DOMAIN c.slots
  /\ d.slots[n] = FreeSlot
  /\ \A h \in DOMAIN c.slots : h # n => d.slots[h] = c.slots[h]

(* Alloc fills a slot that no handle in use names (Core::Alloc).           *)
LEMMA AllocEffect ==
  ASSUME NEW c, Table(c), NEW kind, NEW obj
  PROVE  Allocated(c, Alloc(c, kind, obj), NextHandle(c), kind, obj)
<1> DEFINE new == [kind |-> kind, obj |-> obj]
           d   == Alloc(c, kind, obj)
<1>0. PICK S : c.slots \in Seq(S)
  BY DEF Table, Shape
<1>1. CASE c.free_list # <<>>
  <2> DEFINE n == Len(c.free_list)
             h == c.free_list[n]
  <2>1. /\ n \in Nat \ {0} /\ DOMAIN c.free_list = 1..n /\ h \in DOMAIN c.slots
        /\ c.slots[h].kind = "Free"
    BY <1>1 DEF Table, Shape, FreeListExactIn
  <2>2. d = [c EXCEPT !.free_list = SubSeq(@, 1, n - 1), !.slots[h] = new] /\ NextHandle(c) = h
    BY <1>1 DEF Alloc, NextHandle
  <2> HIDE DEF h, d
  <2>3. SameRest(c, d) /\ d.slots = [c.slots EXCEPT ![h] = new]
    BY <2>2 DEF Table, Shape, CoreFields, SameRest
  <2>4. h \in Nat \ {0} /\ ~Lookup(c, h)
    BY <1>0, <2>1 DEF Lookup
  <2>5. /\ DOMAIN d.slots = DOMAIN c.slots \cup {h} /\ d.slots[h] = new
        /\ \A k \in DOMAIN c.slots : k # h => d.slots[k] = c.slots[k]
    BY <2>1, <2>3
  <2> QED BY <2>2, <2>3, <2>4, <2>5 DEF Allocated, d
<1>2. CASE c.free_list = <<>>
  <2> DEFINE h == Len(c.slots) + 1
  <2>1. d = [c EXCEPT !.slots = Append(@, new)] /\ NextHandle(c) = h
    BY <1>2 DEF Alloc, NextHandle
  <2> HIDE DEF d
  <2>2. SameRest(c, d) /\ d.slots = Append(c.slots, new)
    BY <2>1 DEF Table, Shape, CoreFields, SameRest
  <2>3. h \in Nat \ {0} /\ h \notin DOMAIN c.slots /\ ~Lookup(c, h)
    BY <1>0 DEF Lookup
  <2>4. /\ DOMAIN d.slots = DOMAIN c.slots \cup {h} /\ d.slots[h] = new
        /\ \A k \in DOMAIN c.slots : k # h => d.slots[k] = c.slots[k]
    BY <1>0, <2>2
  <2> QED BY <2>1, <2>2, <2>3, <2>4 DEF Allocated, d
<1> QED BY <1>1, <1>2

(* Free empties one slot (Core::Free).                                     *)
LEMMA FreeEffect ==
  ASSUME NEW c, Table(c), NEW h, h \in DOMAIN c.slots
  PROVE  Freed(c, Free(c, h), h)
<1> DEFINE d == Free(c, h)
<1>1. SameRest(c, d) /\ d.slots = [c.slots EXCEPT ![h] = FreeSlot]
  BY DEF Free, Table, Shape, CoreFields, SameRest
<1> HIDE DEF d
<1> QED BY <1>1 DEF Freed, d

\* Core::traps names every live trap once (CollectTrapEvents walks it).
TrapList(c) ==
  /\ \E S : c.traps \in Seq(S)
  /\ IsInjective(c.traps)
  /\ \A i \in DOMAIN c.traps : c.traps[i] \in DOMAIN c.slots /\ c.slots[c.traps[i]].kind = "Trap"
  /\ \A h \in DOMAIN c.slots : c.slots[h].kind = "Trap" => \E i \in DOMAIN c.traps : c.traps[i] = h

\* A trap object, and the objects of all the traps.
TrapFields == {"id", "triggers", "armed"}
TrapObject(o) ==
  /\ DOMAIN o = TrapFields /\ o.id \in {0} \X Nat /\ o.armed \in BOOLEAN
  /\ \E S : o.triggers \in Seq(S)
TrapObjects(c) ==
  \A h \in DOMAIN c.slots : c.slots[h].kind = "Trap" => TrapObject(c.slots[h].obj)

\* e is an event for one of the triggers of the trap at handle h.
EventOf(c, h, e) ==
  /\ e.trap = c.slots[h].obj.id
  /\ \E i \in DOMAIN c.slots[h].obj.triggers :
       e.context = c.slots[h].obj.triggers[i].context

\* No event of c is lost in d, and a trap that is armed no more has one.
Woken(c, d) ==
  /\ \A j \in DOMAIN c.pending_events :
       \E i \in DOMAIN d.pending_events : d.pending_events[i] = c.pending_events[j]
  /\ \A h : IsA(c, h, "Trap") /\ c.slots[h].obj.armed /\ ~d.slots[h].obj.armed =>
       \E i \in DOMAIN d.pending_events : EventOf(c, h, d.pending_events[i])

\* d is c after CollectTrapEvents: the traps that fire are disarmed, and the
\* events of their triggers queued.
Collected(c, d) ==
  /\ DOMAIN d.slots = DOMAIN c.slots
  /\ d.traps = c.traps /\ d.pipes = c.pipes
  /\ d.messages = c.messages /\ d.writes = c.writes /\ d.ntraps = c.ntraps
  /\ \A h \in DOMAIN c.slots :
       /\ c.slots[h].kind # "Trap" => d.slots[h] = c.slots[h]
       /\ c.slots[h].kind = "Trap" =>
            /\ d.slots[h].kind = "Trap"
            /\ DOMAIN d.slots[h].obj = TrapFields
            /\ d.slots[h].obj.id = c.slots[h].obj.id
            /\ d.slots[h].obj.triggers = c.slots[h].obj.triggers
            /\ d.slots[h].obj.armed \in BOOLEAN
            /\ d.slots[h].obj.armed => Matching(c, c.slots[h].obj) = {}
            /\ d.slots[h].obj.armed => c.slots[h].obj.armed
  /\ \E S : d.pending_events \in Seq(S)
  /\ \A i \in DOMAIN d.pending_events :
       \/ \E j \in DOMAIN c.pending_events : d.pending_events[i] = c.pending_events[j]
       \/ \E h \in DOMAIN c.slots : c.slots[h].kind = "Trap" /\ EventOf(c, h, d.pending_events[i])
  /\ Woken(c, d)

(* The first of the triggers that match is one of them.                    *)
LEMMA FirstMatches ==
  ASSUME NEW c, NEW o, TrapObject(o), Matching(c, o) # {}
  PROVE  First(Matching(c, o)) \in DOMAIN o.triggers
<1> DEFINE M == Matching(c, o)
<1>1. M \subseteq DOMAIN o.triggers
  BY DEF Matching
<1>2. DOMAIN o.triggers \subseteq Nat
  BY DEF TrapObject
<1> HIDE DEF M
<1>3. \E i \in M : \A j \in M : i <= j
  BY <1>1, <1>2, LeastNat DEF M
<1>4. First(M) \in M
  BY <1>3 DEF First
<1> QED BY <1>1, <1>4 DEF M

(* The event of a trap that fires is for one of its triggers.              *)
LEMMA EventOfFiring ==
  ASSUME NEW c, NEW h, TrapObject(c.slots[h].obj), Fires(c, h)
  PROVE  EventOf(c, h, TrapEvent(c, h))
<1> DEFINE o == c.slots[h].obj
           k == First(Matching(c, o))
<1>1. k \in DOMAIN o.triggers
  BY FirstMatches DEF Fires
<1>2. TrapEvent(c, h).trap = o.id /\ TrapEvent(c, h).context = o.triggers[k].context
  BY DEF TrapEvent
<1> QED BY <1>1, <1>2 DEF EventOf

(* Firing names the traps that fire.                                       *)
LEMMA FiringExact ==
  ASSUME NEW c, TrapList(c)
  PROVE  /\ \E S : Firing(c) \in Seq(S)
         /\ \A i \in DOMAIN Firing(c) :
              /\ Firing(c)[i] \in DOMAIN c.slots /\ c.slots[Firing(c)[i]].kind = "Trap"
              /\ Fires(c, Firing(c)[i])
         /\ \A h \in DOMAIN c.slots : c.slots[h].kind = "Trap" /\ Fires(c, h) =>
              \E i \in DOMAIN Firing(c) : Firing(c)[i] = h
<1> DEFINE K == {i \in DOMAIN c.traps : Fires(c, c.traps[i])}
           F == KeepAt(c.traps, K)
<1>1. PICK S : c.traps \in Seq(S)
  BY DEF TrapList
<1>2. F \in Seq(S) /\ \E pos : PickedBy(F, c.traps, K, Len(c.traps), pos)
  <2> HIDE DEF K
  <2> QED BY <1>1, KeepAtPositions
<1>3. PICK pos : PickedBy(F, c.traps, K, Len(c.traps), pos)
  BY <1>2
<1>4. Firing(c) = F
  BY DEF Firing
<1>5. DOMAIN F = 1..Len(F) /\ DOMAIN c.traps = 1..Len(c.traps)
  BY <1>1, <1>2
<1> HIDE DEF F
<1>6. ASSUME NEW i \in DOMAIN F
      PROVE  /\ F[i] \in DOMAIN c.slots /\ c.slots[F[i]].kind = "Trap" /\ Fires(c, F[i])
  <2>1. pos[i] \in K /\ F[i] = c.traps[pos[i]]
    BY <1>3, <1>5 DEF PickedBy
  <2> QED BY <2>1 DEF TrapList
<1>7. ASSUME NEW h \in DOMAIN c.slots, c.slots[h].kind = "Trap", Fires(c, h)
      PROVE  \E i \in DOMAIN F : F[i] = h
  <2>1. PICK k \in DOMAIN c.traps : c.traps[k] = h
    BY <1>7 DEF TrapList
  <2>2. k \in K
    BY <1>7, <2>1
  <2>3. PICK j \in 1..Len(F) : pos[j] = k
    BY <1>3, <1>5, <2>2 DEF PickedBy
  <2>4. F[j] = h
    BY <1>3, <2>1, <2>3 DEF PickedBy
  <2> QED BY <1>5, <2>4
<1> QED BY <1>2, <1>4, <1>6, <1>7

(* CollectTrapEvents disarms exactly the traps that fire, so that no trap  *)
(* stays armed with a trigger that matches, and queues their events.       *)
LEMMA CollectEffect ==
  ASSUME NEW c, Table(c), TrapList(c), TrapObjects(c), \E S : c.pending_events \in Seq(S)
  PROVE  Collected(c, CollectTrapEvents(c))
<1> DEFINE d   == CollectTrapEvents(c)
           F   == Firing(c)
           new == [h \in DOMAIN c.slots |->
                     IF \E i \in DOMAIN F : F[i] = h
                     THEN [c.slots[h] EXCEPT !.obj.armed = FALSE]
                     ELSE c.slots[h]]
           events == [i \in 1..Len(F) |-> TrapEvent(c, F[i])]
<1>0. d = [c EXCEPT !.slots = new, !.pending_events = @ \o events]
  BY Zenon DEF CollectTrapEvents
<1>1. PICK S : F \in Seq(S)
  BY FiringExact
<1> HIDE DEF d, new, events
<1>2. /\ d.slots = new /\ d.pending_events = c.pending_events \o events
      /\ d.traps = c.traps /\ d.pipes = c.pipes
      /\ d.messages = c.messages /\ d.writes = c.writes /\ d.ntraps = c.ntraps
  BY <1>0 DEF Table, Shape, CoreFields
<1>3. DOMAIN d.slots = DOMAIN c.slots
  BY <1>2 DEF new
<1>4. ASSUME NEW h \in DOMAIN c.slots, c.slots[h].kind # "Trap"
      PROVE  d.slots[h] = c.slots[h]
  <2>1. ~ \E i \in DOMAIN F : F[i] = h
    BY <1>4, FiringExact
  <2> QED BY <1>2, <2>1 DEF new
<1>5. ASSUME NEW h \in DOMAIN c.slots, c.slots[h].kind = "Trap"
      PROVE  /\ d.slots[h].kind = "Trap"
             /\ DOMAIN d.slots[h].obj = TrapFields
             /\ d.slots[h].obj.id = c.slots[h].obj.id
             /\ d.slots[h].obj.triggers = c.slots[h].obj.triggers
             /\ d.slots[h].obj.armed \in BOOLEAN
             /\ d.slots[h].obj.armed => Matching(c, c.slots[h].obj) = {}
             /\ d.slots[h].obj.armed => c.slots[h].obj.armed
  <2>1. TrapObject(c.slots[h].obj) /\ DOMAIN c.slots[h] = {"kind", "obj"}
    BY <1>5 DEF TrapObjects, Table, Shape
  <2>2. CASE Fires(c, h)
    <3>1. d.slots[h] = [c.slots[h] EXCEPT !.obj.armed = FALSE]
      BY <1>2, <1>5, <2>2, FiringExact DEF new
    <3> QED BY <1>5, <2>1, <3>1 DEF TrapObject, TrapFields
  <2>3. CASE ~Fires(c, h)
    <3>1. d.slots[h] = c.slots[h]
      BY <1>2, <1>5, <2>3, FiringExact DEF new
    <3> QED BY <1>5, <2>1, <2>3, <3>1 DEF TrapObject, Fires
  <2> QED BY <2>2, <2>3
<1>6. PICK P : c.pending_events \in Seq(P)
  OBVIOUS
<1> DEFINE E == {TrapEvent(c, F[i]) : i \in 1..Len(F)}
<1>7. Len(F) \in Nat /\ DOMAIN F = 1..Len(F)
  BY <1>1
<1>8. /\ events \in Seq(E) /\ Len(events) = Len(F)
      /\ \A i \in 1..Len(F) : events[i] = TrapEvent(c, F[i])
  <2> HIDE DEF F
  <2>1. events \in [1..Len(F) -> E]
    BY DEF events
  <2> HIDE DEF E
  <2>2. events \in Seq(E) /\ Len(events) = Len(F)
    BY <1>7, <2>1
  <2> QED BY <2>2 DEF events
<1> HIDE DEF F, E
<1>9. /\ d.pending_events \in Seq(P \cup E)
      /\ \A i \in DOMAIN d.pending_events :
           \/ \E j \in DOMAIN c.pending_events : d.pending_events[i] = c.pending_events[j]
           \/ \E j \in 1..Len(F) : d.pending_events[i] = TrapEvent(c, F[j])
      /\ \A j \in DOMAIN c.pending_events :
           \E i \in DOMAIN d.pending_events : d.pending_events[i] = c.pending_events[j]
      /\ \A j \in 1..Len(F) :
           \E i \in DOMAIN d.pending_events : d.pending_events[i] = TrapEvent(c, F[j])
  <2> DEFINE p == c.pending_events
  <2>1. p \in Seq(P \cup E) /\ events \in Seq(P \cup E)
    BY <1>6, <1>8
  <2>2. /\ p \o events \in Seq(P \cup E)
        /\ Len(p) \in Nat /\ DOMAIN p = 1..Len(p)
        /\ DOMAIN (p \o events) = 1..(Len(p) + Len(F))
        /\ \A i \in 1..Len(p) : (p \o events)[i] = p[i]
        /\ \A i \in 1..Len(F) : (p \o events)[Len(p) + i] = events[i]
    BY <1>7, <1>8, <2>1
  <2>3. ASSUME NEW i \in 1..(Len(p) + Len(F))
        PROVE  \/ \E j \in DOMAIN p : (p \o events)[i] = p[j]
               \/ \E j \in 1..Len(F) : (p \o events)[i] = TrapEvent(c, F[j])
    <3>1. CASE i \in 1..Len(p)
      BY <2>2, <3>1
    <3>2. CASE ~(i \in 1..Len(p))
      <4>1. i - Len(p) \in 1..Len(F) /\ Len(p) + (i - Len(p)) = i
        BY <1>7, <2>2, <3>2
      <4>2. (p \o events)[i] = events[i - Len(p)]
        BY <2>2, <4>1
      <4> QED BY <1>8, <4>1, <4>2
    <3> QED BY <3>1, <3>2
  <2>4. ASSUME NEW j \in DOMAIN p
        PROVE  \E i \in DOMAIN (p \o events) : (p \o events)[i] = p[j]
    <3>1. j \in 1..(Len(p) + Len(F))
      BY <1>7, <2>2
    <3> QED BY <2>2, <3>1
  <2>5. ASSUME NEW j \in 1..Len(F)
        PROVE  \E i \in DOMAIN (p \o events) : (p \o events)[i] = TrapEvent(c, F[j])
    <3>1. Len(p) + j \in 1..(Len(p) + Len(F)) /\ (p \o events)[Len(p) + j] = TrapEvent(c, F[j])
      BY <1>7, <1>8, <2>2
    <3> QED BY <2>2, <3>1
  <2> DEFINE q == p \o events
  <2>6. /\ q \in Seq(P \cup E) /\ DOMAIN q = 1..(Len(p) + Len(F)) /\ d.pending_events = q
        /\ \A i \in 1..(Len(p) + Len(F)) : \/ \E j \in DOMAIN p : q[i] = p[j]
                                          \/ \E j \in 1..Len(F) : q[i] = TrapEvent(c, F[j])
        /\ \A j \in DOMAIN p : \E i \in DOMAIN q : q[i] = p[j]
        /\ \A j \in 1..Len(F) : \E i \in DOMAIN q : q[i] = TrapEvent(c, F[j])
    BY <1>2, <2>2, <2>3, <2>4, <2>5
  <2> HIDE DEF q
  <2> QED BY <2>6
<1>10. ASSUME NEW j \in 1..Len(F)
       PROVE  \E h \in DOMAIN c.slots : c.slots[h].kind = "Trap" /\ EventOf(c, h, TrapEvent(c, F[j]))
  <2>1. F[j] \in DOMAIN c.slots /\ c.slots[F[j]].kind = "Trap" /\ Fires(c, F[j])
    BY <1>7, FiringExact DEF F
  <2>2. EventOf(c, F[j], TrapEvent(c, F[j]))
    BY <2>1, EventOfFiring DEF TrapObjects
  <2> QED BY <2>1, <2>2
<1>11. \A i \in DOMAIN d.pending_events :
         \/ \E j \in DOMAIN c.pending_events : d.pending_events[i] = c.pending_events[j]
         \/ \E h \in DOMAIN c.slots : c.slots[h].kind = "Trap" /\ EventOf(c, h, d.pending_events[i])
  BY <1>9, <1>10
<1>12. Woken(c, d)
  <2>1. ASSUME NEW h, IsA(c, h, "Trap"), c.slots[h].obj.armed, ~d.slots[h].obj.armed
        PROVE  \E i \in DOMAIN d.pending_events : EventOf(c, h, d.pending_events[i])
    <3>1. h \in DOMAIN c.slots /\ c.slots[h].kind = "Trap"
      BY <2>1 DEF IsA, Lookup
    <3>2. Fires(c, h)
      <4>1. SUFFICES ASSUME ~Fires(c, h) PROVE d.slots[h] = c.slots[h]
        BY <2>1
      <4> QED BY <1>2, <3>1, <4>1, FiringExact DEF new, F
    <3>3. PICK j \in 1..Len(F) : F[j] = h
      BY <1>7, <3>1, <3>2, FiringExact DEF F
    <3>4. EventOf(c, h, TrapEvent(c, h))
      BY <3>1, <3>2, EventOfFiring DEF TrapObjects
    <3> QED BY <1>9, <3>3, <3>4
  <2> QED BY <1>9, <2>1 DEF Woken
<1> QED BY <1>2, <1>3, <1>4, <1>5, <1>9, <1>11, <1>12 DEF Collected, d

-----------------------------------------------------------------------------
(* The types of the objects and of the other fields.                       *)

Ids  == (Nat \X Nat) \cup Seq(Nat)
MsgIds == {<<k>> : k \in Nat}
Msgs == [id : MsgIds, size : Nat, committed : BOOLEAN, seq : Nat, writer : Ids]
PipeStates == [queues : [0..1 -> Seq(Msgs)], closed : [0..1 -> BOOLEAN],
               quota_count : [0..1 -> Nat], quota_bytes : [0..1 -> Nat]]
\* The ends of n pipe states.
EndObjects(n) == [id : (1..n) \X (0..1), state : 1..n, end : 0..1]

\* A slot of a core that has n pipe states.
SlotTyped(n, s) ==
  /\ s.kind \in Kinds
  /\ s.kind = "MessagePipe" => s.obj \in EndObjects(n)
  /\ s.kind = "Message" => s.obj \in Msgs
  /\ s.kind = "Trap" => TrapObject(s.obj)

Typed(c) ==
  /\ Table(c) /\ TrapList(c)
  /\ c.pipes \in Seq(PipeStates)
  /\ \E S : c.pending_events \in Seq(S)
  /\ c.messages \in Nat /\ c.writes \in Nat /\ c.ntraps \in Nat
  /\ \A h \in DOMAIN c.slots : SlotTyped(Len(c.pipes), c.slots[h])

(* More pipe states leave a slot typed.                                    *)
LEMMA SlotTypedMore ==
  ASSUME NEW n \in Nat, NEW k \in Nat, n <= k, NEW s, SlotTyped(n, s)
  PROVE  SlotTyped(k, s)
BY DEF SlotTyped, EndObjects

(* Typed objects are objects of traps, too.                                *)
LEMMA TypedTraps ==
  ASSUME NEW c, Typed(c)
  PROVE  TrapObjects(c)
BY DEF Typed, TrapObjects, SlotTyped

(* Alloc of an object that is no trap.                                     *)
LEMMA TypedAlloc ==
  ASSUME NEW c, Typed(c), NEW kind \in {"MessagePipe", "Message"}, NEW obj,
         SlotTyped(Len(c.pipes), [kind |-> kind, obj |-> obj])
  PROVE  Typed(Alloc(c, kind, obj))
<1> DEFINE d == Alloc(c, kind, obj)
           n == NextHandle(c)
           new == [kind |-> kind, obj |-> obj]
<1>1. Table(d) /\ Allocated(c, d, n, kind, obj)
  BY AllocKeeps, AllocEffect DEF Typed
<1> HIDE DEF d, n
<1>2. new.kind # "Trap"
  OBVIOUS
<1>3. d.slots[n].kind # "Trap" /\ (n \in DOMAIN c.slots => c.slots[n].kind = "Free")
  BY <1>1, <1>2 DEF Allocated, Lookup
<1>4. TrapList(d)
  BY <1>1, <1>3, SMTT(30) DEF Typed, TrapList, Allocated, SameRest
<1>5. \A h \in DOMAIN d.slots : SlotTyped(Len(d.pipes), d.slots[h])
  BY <1>1 DEF Typed, Allocated, SameRest
<1> QED BY <1>1, <1>4, <1>5 DEF Typed, Allocated, SameRest, d

(* Free of an object that is no trap.                                      *)
LEMMA TypedFree ==
  ASSUME NEW c, Typed(c), NEW h, Lookup(c, h), c.slots[h].kind # "Trap"
  PROVE  Typed(Free(c, h)) /\ Freed(c, Free(c, h), h)
<1> DEFINE d == Free(c, h)
<1>1. h \in DOMAIN c.slots
  BY DEF Lookup
<1>2. Table(d) /\ Freed(c, d, h)
  BY <1>1, FreeKeeps, FreeEffect DEF Typed
<1> HIDE DEF d
<1>3. FreeSlot.kind = "Free" /\ "Free" \in Kinds
  BY DEF FreeSlot, Kinds
<1>4. TrapList(d)
  BY <1>1, <1>2, <1>3, SMTT(30) DEF Typed, TrapList, Freed, SameRest
<1>5. \A k \in DOMAIN d.slots : SlotTyped(Len(d.pipes), d.slots[k])
  <2>1. SlotTyped(Len(d.pipes), FreeSlot)
    BY <1>3 DEF SlotTyped, Kinds
  <2> QED BY <1>2, <2>1 DEF Typed, Freed, SameRest
<1> QED BY <1>2, <1>4, <1>5 DEF Typed, Freed, SameRest, d

(* CollectTrapEvents.                                                      *)
LEMMA TypedCollect ==
  ASSUME NEW c, Typed(c)
  PROVE  Typed(CollectTrapEvents(c)) /\ Collected(c, CollectTrapEvents(c))
<1> DEFINE d == CollectTrapEvents(c)
<1>1. Table(d) /\ Collected(c, d)
  BY CollectKeeps, CollectEffect, TypedTraps DEF Typed
<1> HIDE DEF d
<1>2. \A h \in DOMAIN c.slots : d.slots[h].kind = c.slots[h].kind
  BY <1>1 DEF Collected
<1>3. TrapList(d)
  <2>1. d.traps = c.traps /\ DOMAIN d.slots = DOMAIN c.slots
    BY <1>1 DEF Collected
  <2> QED BY <1>2, <2>1 DEF Typed, TrapList
<1>4. ASSUME NEW h \in DOMAIN d.slots PROVE SlotTyped(Len(d.pipes), d.slots[h])
  <2>1. h \in DOMAIN c.slots /\ d.pipes = c.pipes
    BY <1>1 DEF Collected
  <2>2. CASE c.slots[h].kind # "Trap"
    <3>1. d.slots[h] = c.slots[h]
      BY <1>1, <2>1, <2>2 DEF Collected
    <3> QED BY <2>1, <3>1 DEF Typed
  <2>3. CASE c.slots[h].kind = "Trap"
    <3>1. TrapObject(c.slots[h].obj)
      BY <2>1, <2>3 DEF Typed, SlotTyped
    <3>2. TrapObject(d.slots[h].obj) /\ d.slots[h].kind = "Trap"
      BY <1>1, <2>1, <2>3, <3>1 DEF Collected, TrapObject
    <3> QED BY <3>2 DEF SlotTyped, Kinds
  <2> QED BY <2>2, <2>3
<1> QED BY <1>1, <1>3, <1>4 DEF Typed, Collected, d

(* Another value of the fields that are not the table's.                   *)
LEMMA TypedFields ==
  ASSUME NEW c, Typed(c), NEW d, DOMAIN d = CoreFields,
         d.slots = c.slots, d.free_list = c.free_list, d.traps = c.traps,
         d.pipes \in Seq(PipeStates), Len(d.pipes) >= Len(c.pipes),
         \E S : d.pending_events \in Seq(S),
         d.messages \in Nat, d.writes \in Nat, d.ntraps \in Nat
  PROVE  Typed(d)
<1>1. Table(d)
  BY OtherFieldsKeep DEF Typed
<1>2. TrapList(d)
  BY DEF Typed, TrapList
<1>3. Len(c.pipes) \in Nat /\ Len(d.pipes) \in Nat
  BY DEF Typed
<1>4. \A h \in DOMAIN d.slots : SlotTyped(Len(d.pipes), d.slots[h])
  BY <1>3, SlotTypedMore DEF Typed
<1> QED BY <1>1, <1>2, <1>4 DEF Typed

(* Another object in one slot.                                             *)
LEMMA TypedObject ==
  ASSUME NEW c, Typed(c), NEW d, DOMAIN d = CoreFields,
         NEW h \in DOMAIN c.slots, NEW o,
         d.slots = [c.slots EXCEPT ![h] = [c.slots[h] EXCEPT !.obj = o]],
         d.free_list = c.free_list, d.traps = c.traps, d.pipes = c.pipes,
         \E S : d.pending_events \in Seq(S),
         d.messages = c.messages, d.writes = c.writes, d.ntraps = c.ntraps,
         SlotTyped(Len(c.pipes), [kind |-> c.slots[h].kind, obj |-> o])
  PROVE  Typed(d)
<1>1. Table(d) /\ SameTable(c, d)
  BY ObjectKeeps DEF Typed
<1>2. TrapList(d)
  BY <1>1 DEF Typed, TrapList, SameTable
<1>3. /\ d.slots[h].kind = c.slots[h].kind /\ d.slots[h].obj = o
      /\ \A k \in DOMAIN c.slots : k # h => d.slots[k] = c.slots[k]
  BY DEF Typed, Table, Shape
<1>4. SlotTyped(Len(c.pipes), d.slots[h])
  BY <1>3 DEF SlotTyped, Kinds
<1>5. \A k \in DOMAIN d.slots : SlotTyped(Len(d.pipes), d.slots[k])
  BY <1>1, <1>3, <1>4 DEF Typed, SameTable
<1> QED BY <1>1, <1>2, <1>5 DEF Typed

-----------------------------------------------------------------------------
(* What an operation does, in the terms that the invariants speak of.      *)

\* The same pipe ends, without those at the handles in Gone.
SameEnds(c, d, Gone) ==
  \A h : /\ IsA(d, h, "MessagePipe") <=> IsA(c, h, "MessagePipe") /\ h \notin Gone
         /\ IsA(d, h, "MessagePipe") => d.slots[h].obj = c.slots[h].obj

\* The same traps with the same triggers.
SameTraps(c, d) ==
  \A h : /\ IsA(d, h, "Trap") <=> IsA(c, h, "Trap")
         /\ IsA(c, h, "Trap") => /\ d.slots[h].obj.id = c.slots[h].obj.id
                                 /\ d.slots[h].obj.triggers = c.slots[h].obj.triggers

\* Every event of d was one of c or is for a trigger of a trap of c.
NewEvents(c, d) ==
  \A i \in DOMAIN d.pending_events :
    \/ \E j \in DOMAIN c.pending_events : d.pending_events[i] = c.pending_events[j]
    \/ \E h : IsA(c, h, "Trap") /\ EventOf(c, h, d.pending_events[i])

\* No armed trap has a trigger that matches.
Settled(c) ==
  \A h : IsA(c, h, "Trap") /\ c.slots[h].obj.armed => Matching(c, c.slots[h].obj) = {}

SameCounters(c, d) ==
  d.messages = c.messages /\ d.writes = c.writes /\ d.ntraps = c.ntraps

(* After CollectTrapEvents no armed trap has a trigger that matches.       *)
LEMMA CollectSettles ==
  ASSUME NEW c, NEW d, Typed(c), Collected(c, d)
  PROVE  /\ Settled(d) /\ SameEnds(c, d, {}) /\ SameTraps(c, d) /\ NewEvents(c, d)
         /\ Woken(c, d) /\ d.pipes = c.pipes /\ SameCounters(c, d)
<1>1. \A h : Lookup(d, h) <=> Lookup(c, h)
  BY DEF Collected, Lookup
<1>2. \A h, k : IsA(d, h, k) <=> IsA(c, h, k)
  BY <1>1 DEF Collected, IsA, Lookup
<1>3. SameEnds(c, d, {}) /\ SameTraps(c, d)
  BY <1>2 DEF SameEnds, SameTraps, IsA, Lookup, Collected
<1>4. NewEvents(c, d)
  BY DEF NewEvents, IsA, Lookup, Collected
<1>5. \A t : TriggerMatches(d, t) = TriggerMatches(c, t)
  <2>1. d.pipes = c.pipes
    BY DEF Collected
  <2>2. \A o : PipeSignals(d, o) = PipeSignals(c, o)
    BY <2>1 DEF PipeSignals
  <2>3. \A h : QueryLocked(d, h) = QueryLocked(c, h)
    <3> SUFFICES ASSUME NEW h PROVE QueryLocked(d, h) = QueryLocked(c, h)
      OBVIOUS
    <3>1. CASE IsA(c, h, "MessagePipe")
      <4>1. d.slots[h].obj = c.slots[h].obj /\ IsA(d, h, "MessagePipe")
        BY <1>2, <1>3, <3>1 DEF SameEnds
      <4> QED BY <2>2, <3>1, <4>1 DEF QueryLocked
    <3>2. CASE ~IsA(c, h, "MessagePipe")
      BY <1>2, <3>2 DEF QueryLocked
    <3> QED BY <3>1, <3>2
  <2> QED BY <2>3 DEF TriggerMatches
<1>6. ASSUME NEW h, IsA(d, h, "Trap"), d.slots[h].obj.armed
      PROVE  Matching(d, d.slots[h].obj) = {}
  <2>1. h \in DOMAIN c.slots /\ c.slots[h].kind = "Trap"
    BY <1>2, <1>6 DEF IsA, Lookup
  <2>2. Matching(c, c.slots[h].obj) = {} /\ d.slots[h].obj.triggers = c.slots[h].obj.triggers
    BY <1>6, <2>1 DEF Collected
  <2> QED BY <1>5, <2>2 DEF Matching
<1> QED BY <1>3, <1>4, <1>6 DEF Settled, Collected, SameCounters

\* What a locked section that frees handle m, no trap, and then collects does.
FreedAndCollected(c, d, m) ==
  /\ Typed(d) /\ Settled(d) /\ SameEnds(c, d, {m}) /\ SameTraps(c, d) /\ NewEvents(c, d)
  /\ Woken(c, d) /\ d.pipes = c.pipes /\ SameCounters(c, d)

(* The end of WhpClose and of WhpWriteMessage.                             *)
LEMMA FreeCollect ==
  ASSUME NEW c, Typed(c), NEW m, Lookup(c, m), c.slots[m].kind # "Trap"
  PROVE  FreedAndCollected(c, CollectTrapEvents(Free(c, m)), m)
<1> DEFINE b == Free(c, m)
           d == CollectTrapEvents(b)
<1>1. Typed(b) /\ Freed(c, b, m)
  BY TypedFree
<1> HIDE DEF b
<1>2. Typed(d) /\ Collected(b, d)
  BY <1>1, TypedCollect
<1> HIDE DEF d
<1>3. /\ Settled(d) /\ SameEnds(b, d, {}) /\ SameTraps(b, d) /\ NewEvents(b, d)
      /\ Woken(b, d) /\ d.pipes = b.pipes /\ SameCounters(b, d)
  BY <1>1, <1>2, CollectSettles
<1>4. /\ FreeSlot.kind = "Free" /\ m \in DOMAIN c.slots /\ c.slots[m].kind # "Free"
      /\ DOMAIN b.slots = DOMAIN c.slots /\ b.slots[m] = FreeSlot
      /\ \A h \in DOMAIN c.slots : h # m => b.slots[h] = c.slots[h]
  BY <1>1 DEF FreeSlot, Freed, Lookup
<1>5. SameEnds(c, b, {m}) /\ SameTraps(c, b)
  BY <1>4 DEF SameEnds, SameTraps, IsA, Lookup
<1>6. \A h, e : IsA(b, h, "Trap") /\ EventOf(b, h, e) => IsA(c, h, "Trap") /\ EventOf(c, h, e)
  BY <1>5 DEF SameTraps, EventOf
<1>7. NewEvents(c, d)
  BY <1>1, <1>3, <1>6 DEF NewEvents, Freed, SameRest
<1>8. SameEnds(c, d, {m}) /\ SameTraps(c, d)
  BY <1>3, <1>5 DEF SameEnds, SameTraps
<1>9. d.pipes = c.pipes /\ SameCounters(c, d)
  BY <1>1, <1>3 DEF Freed, SameRest, SameCounters
<1>10. Woken(c, d)
  <2>1. /\ \A h : IsA(c, h, "Trap") => IsA(b, h, "Trap") /\ b.slots[h] = c.slots[h]
        /\ b.pending_events = c.pending_events
    BY <1>1, <1>4 DEF IsA, Lookup, Freed, SameRest
  <2> QED BY <1>3, <2>1 DEF Woken, EventOf
<1> QED BY <1>2, <1>3, <1>7, <1>8, <1>9, <1>10 DEF FreedAndCollected, d, b

-----------------------------------------------------------------------------
(* What each operation of WhpCore does to the ends of the pipes, to the    *)
(* traps and to their events.                                              *)

\* The same traps, armed as before.
SameTrapObjects(c, d) ==
  \A h : /\ IsA(d, h, "Trap") <=> IsA(c, h, "Trap")
         /\ IsA(c, h, "Trap") => d.slots[h].obj = c.slots[h].obj

\* An operation that queues no event and leaves ends and traps alone.
Calm(c, d) ==
  /\ Typed(d) /\ SameEnds(c, d, {}) /\ SameTrapObjects(c, d)
  /\ d.pending_events = c.pending_events /\ d.writes = c.writes

-----------------------------------------------------------------------------
(* The effect of each operation.                                           *)

\* The handles n0 and n1, free before, are the two ends of a new pipe.
PipeMade(c, d, n0, n1) ==
  /\ n0 # n1 /\ ~Lookup(c, n0) /\ ~Lookup(c, n1)
  /\ DOMAIN d.slots = DOMAIN c.slots \cup {n0, n1}
  /\ d.slots[n0] = [kind |-> "MessagePipe", obj |-> PipeEnd(Len(c.pipes) + 1, 0)]
  /\ d.slots[n1] = [kind |-> "MessagePipe", obj |-> PipeEnd(Len(c.pipes) + 1, 1)]
  /\ \A h \in DOMAIN c.slots : h \notin {n0, n1} => d.slots[h] = c.slots[h]
  /\ d.pipes = Append(c.pipes, NewPipeState)
  /\ d.traps = c.traps /\ d.pending_events = c.pending_events /\ SameCounters(c, d)

(* A new pipe state is typed.                                              *)
LEMMA NewPipeTyped == NewPipeState \in PipeStates
BY UnlimitedAssumption DEF NewPipeState, PipeStates

(* WhpCreateMessagePipe.                                                   *)
LEMMA CreateMessagePipeEffect ==
  ASSUME NEW c, Typed(c)
  PROVE  /\ Typed(WhpCreateMessagePipe(c))
         /\ \E n0, n1 : PipeMade(c, WhpCreateMessagePipe(c), n0, n1)
<1> DEFINE p  == Len(c.pipes) + 1
           c1 == [c EXCEPT !.pipes = Append(@, NewPipeState)]
           a  == Alloc(c1, "MessagePipe", PipeEnd(p, 0))
           d  == Alloc(a, "MessagePipe", PipeEnd(p, 1))
<1>1. WhpCreateMessagePipe(c) = d
  BY DEF WhpCreateMessagePipe
<1>2. /\ DOMAIN c1 = CoreFields /\ c1.pipes = Append(c.pipes, NewPipeState)
      /\ c1.slots = c.slots /\ c1.free_list = c.free_list /\ c1.traps = c.traps
      /\ c1.pending_events = c.pending_events /\ SameCounters(c, c1)
  BY DEF Typed, Table, Shape, CoreFields, SameCounters
<1> HIDE DEF c1
<1>3. p \in Nat \ {0} /\ c1.pipes \in Seq(PipeStates) /\ Len(c1.pipes) = p
  BY <1>2, NewPipeTyped DEF Typed
<1>4. Typed(c1)
  <2>1. /\ \E S : c1.pending_events \in Seq(S)
        /\ c1.messages \in Nat /\ c1.writes \in Nat /\ c1.ntraps \in Nat
        /\ Len(c1.pipes) >= Len(c.pipes)
    BY <1>2, <1>3 DEF Typed, SameCounters
  <2> QED BY <1>2, <1>3, <2>1, TypedFields
<1> DEFINE o0 == PipeEnd(p, 0)
           o1 == PipeEnd(p, 1)
<1>5. o0 \in EndObjects(p) /\ o1 \in EndObjects(p)
  BY <1>3 DEF PipeEnd, EndObjects
<1> HIDE DEF o0, o1, p
<1>6. /\ SlotTyped(p, [kind |-> "MessagePipe", obj |-> o0])
      /\ SlotTyped(p, [kind |-> "MessagePipe", obj |-> o1])
  BY <1>5 DEF SlotTyped, Kinds
<1>7. Typed(a) /\ Allocated(c1, a, NextHandle(c1), "MessagePipe", o0)
  <2>1. Table(c1) /\ a = Alloc(c1, "MessagePipe", o0)
    BY <1>4 DEF Typed, o0
  <2>2. Typed(a)
    BY <1>3, <1>4, <1>6, <2>1, TypedAlloc
  <2> QED BY <2>1, <2>2, AllocEffect
<1> HIDE DEF a
<1>8. Typed(d) /\ Allocated(a, d, NextHandle(a), "MessagePipe", o1)
  <2>1. Len(a.pipes) = p
    BY <1>3, <1>7 DEF Allocated, SameRest
  <2>2. Table(a) /\ d = Alloc(a, "MessagePipe", o1)
    BY <1>7 DEF Typed, o1
  <2>3. Typed(d)
    BY <1>6, <1>7, <2>1, <2>2, TypedAlloc
  <2> QED BY <2>2, <2>3, AllocEffect
<1> HIDE DEF d
<1> DEFINE n0 == NextHandle(c1)
           n1 == NextHandle(a)
<1> HIDE DEF n0, n1
<1>9. ~Lookup(c, n0) /\ ~Lookup(a, n1) /\ DOMAIN a.slots = DOMAIN c.slots \cup {n0}
  BY <1>2, <1>7, <1>8 DEF Allocated, Lookup, n0, n1
<1>10. a.slots[n0].kind = "MessagePipe" /\ Lookup(a, n0)
  BY <1>7, <1>9 DEF Allocated, Lookup, n0
<1>11. n0 # n1
  BY <1>9, <1>10
<1>12. \A h \in DOMAIN c.slots : h # n0 => a.slots[h] = c.slots[h]
  BY <1>2, <1>7 DEF Allocated, n0
<1>13. ~Lookup(c, n1)
  BY <1>9, <1>11, <1>12 DEF Lookup
<1>14. /\ DOMAIN d.slots = DOMAIN c.slots \cup {n0, n1}
       /\ d.slots[n1] = [kind |-> "MessagePipe", obj |-> o1]
       /\ \A h \in DOMAIN a.slots : h # n1 => d.slots[h] = a.slots[h]
  BY <1>8, <1>9 DEF Allocated, n1
<1>15. d.slots[n0] = [kind |-> "MessagePipe", obj |-> o0]
  BY <1>7, <1>9, <1>11, <1>14 DEF Allocated, n0
<1>16. \A h \in DOMAIN c.slots : h \notin {n0, n1} => d.slots[h] = c.slots[h]
  BY <1>9, <1>12, <1>14
<1>17. /\ d.pipes = Append(c.pipes, NewPipeState)
       /\ d.traps = c.traps /\ d.pending_events = c.pending_events /\ SameCounters(c, d)
  BY <1>2, <1>7, <1>8 DEF Allocated, SameRest, SameCounters
<1>18. PipeMade(c, d, n0, n1)
  BY <1>9, <1>11, <1>13, <1>14, <1>15, <1>16, <1>17 DEF PipeMade, p, o0, o1
<1> QED BY <1>1, <1>8, <1>18

\* A message at handle n, free before, is all that is new in d.
MessageMade(c, d, n) ==
  /\ ~Lookup(c, n) /\ DOMAIN d.slots = DOMAIN c.slots \cup {n}
  /\ d.slots[n].kind = "Message"
  /\ \A h \in DOMAIN c.slots : h # n => d.slots[h] = c.slots[h]
  /\ d.traps = c.traps /\ d.pending_events = c.pending_events
  /\ d.writes = c.writes /\ d.ntraps = c.ntraps

(* WhpCreateMessage.                                                       *)
LEMMA CreateMessageEffect ==
  ASSUME NEW c, Typed(c)
  PROVE  /\ Typed(WhpCreateMessage(c)) /\ WhpCreateMessage(c).pipes = c.pipes
         /\ MessageMade(c, WhpCreateMessage(c), NextHandle(c))
<1> DEFINE c1 == [c EXCEPT !.messages = @ + 1]
           o  == [id |-> <<c.messages + 1>>, size |-> 0, committed |-> FALSE, seq |-> 0,
                  writer |-> <<>>]
           d  == Alloc(c1, "Message", o)
<1>1. WhpCreateMessage(c) = d
  BY DEF WhpCreateMessage
<1>2. /\ DOMAIN c1 = CoreFields /\ c1.pipes = c.pipes
      /\ c1.slots = c.slots /\ c1.free_list = c.free_list /\ c1.traps = c.traps
      /\ c1.pending_events = c.pending_events
      /\ c1.messages = c.messages + 1 /\ c1.writes = c.writes /\ c1.ntraps = c.ntraps
  BY DEF Typed, Table, Shape, CoreFields
<1>3. o \in Msgs
  <2>1. <<c.messages + 1>> \in Seq(Nat) /\ <<>> \in Seq(Nat)
    BY DEF Typed
  <2>2. <<c.messages + 1>> \in MsgIds /\ <<>> \in Ids
    BY <2>1 DEF Ids, MsgIds, Typed
  <2> QED BY <2>2 DEF Msgs
<1> HIDE DEF c1, o
<1>4. Len(c.pipes) \in Nat
  BY DEF Typed
<1>5. Typed(c1)
  BY <1>2, <1>4, TypedFields DEF Typed
<1>6. SlotTyped(Len(c1.pipes), [kind |-> "Message", obj |-> o])
  BY <1>3 DEF SlotTyped, Kinds
<1>7. Typed(d) /\ Allocated(c1, d, NextHandle(c1), "Message", o)
  BY <1>5, <1>6, TypedAlloc, AllocEffect DEF Typed
<1> HIDE DEF d
<1>8. NextHandle(c1) = NextHandle(c)
  BY <1>2 DEF NextHandle
<1>9. d.pipes = c.pipes /\ MessageMade(c, d, NextHandle(c))
  BY <1>2, <1>7, <1>8 DEF Allocated, SameRest, MessageMade, Lookup
<1> QED BY <1>1, <1>7, <1>9

(* WhpReadMessage: the front of the queue goes into a new handle.          *)
LEMMA ReadMessageEffect ==
  ASSUME NEW c, Typed(c), NEW h, IsA(c, h, "MessagePipe"), Inbound(c, h) # <<>>
  PROVE  LET d   == WhpReadMessage(c, h)
             end == c.slots[h].obj
         IN  /\ Typed(d) /\ MessageMade(c, d, NextHandle(c)) /\ d.messages = c.messages
             /\ d.pipes = [c.pipes EXCEPT ![end.state].queues[end.end] = Tail(@)]
<1> DEFINE end == c.slots[h].obj
           P   == [c.pipes EXCEPT ![end.state].queues[end.end] = Tail(@)]
           c1  == [c EXCEPT !.pipes[end.state].queues[end.end] = Tail(@)]
           q   == c.pipes[end.state].queues[end.end]
           d   == Alloc(c1, "Message", Head(q))
<1>1. WhpReadMessage(c, h) = d
  BY DEF WhpReadMessage, Inbound, Outbound
<1>2. /\ DOMAIN c1 = CoreFields /\ c1.pipes = P
      /\ c1.slots = c.slots /\ c1.free_list = c.free_list /\ c1.traps = c.traps
      /\ c1.pending_events = c.pending_events /\ SameCounters(c, c1)
  BY DEF Typed, Table, Shape, CoreFields, SameCounters
<1>3. end \in EndObjects(Len(c.pipes))
  BY DEF Typed, IsA, Lookup, SlotTyped
<1>4. /\ end.state \in 1..Len(c.pipes) /\ end.end \in 0..1
      /\ c.pipes[end.state] \in PipeStates /\ Len(c.pipes) \in Nat
  BY <1>3 DEF EndObjects, Typed
<1> HIDE DEF end, c1
<1>5. q \in Seq(Msgs) /\ q # <<>>
  BY <1>4 DEF PipeStates, Inbound, Outbound, end
<1> HIDE DEF q
<1>6. Tail(q) \in Seq(Msgs) /\ Head(q) \in Msgs
  BY <1>5
<1>7. P \in Seq(PipeStates) /\ Len(P) = Len(c.pipes)
  <2> DEFINE s == [c.pipes[end.state] EXCEPT !.queues[end.end] = Tail(q)]
  <2>1. s \in PipeStates
    BY <1>4, <1>6 DEF PipeStates
  <2>2. P = [c.pipes EXCEPT ![end.state] = s]
    BY DEF q
  <2> HIDE DEF s, P
  <2> QED BY <1>4, <2>1, <2>2 DEF Typed
<1> HIDE DEF P
<1>8. Typed(c1)
  BY <1>2, <1>4, <1>7, TypedFields DEF Typed, SameCounters
<1>9. SlotTyped(Len(c1.pipes), [kind |-> "Message", obj |-> Head(q)])
  BY <1>6 DEF SlotTyped, Kinds
<1>10. Typed(d) /\ Allocated(c1, d, NextHandle(c1), "Message", Head(q))
  BY <1>8, <1>9, TypedAlloc, AllocEffect DEF Typed
<1> HIDE DEF d
<1>11. NextHandle(c1) = NextHandle(c)
  BY <1>2 DEF NextHandle
<1>12. d.pipes = P /\ d.messages = c.messages /\ MessageMade(c, d, NextHandle(c))
  BY <1>2, <1>10, <1>11 DEF Allocated, SameRest, MessageMade, Lookup, SameCounters
<1> QED BY <1>1, <1>10, <1>12 DEF P, end

(* A new message leaves ends and traps alone.                              *)
LEMMA MessageMadeIsCalm ==
  ASSUME NEW c, NEW d, NEW n, Typed(d), MessageMade(c, d, n)
  PROVE  Calm(c, d)
<1>1. d.slots[n].kind # "MessagePipe" /\ d.slots[n].kind # "Trap"
  BY DEF MessageMade
<1>2. SameEnds(c, d, {})
  BY <1>1 DEF SameEnds, IsA, Lookup, MessageMade
<1>3. SameTrapObjects(c, d)
  BY <1>1 DEF SameTrapObjects, IsA, Lookup, MessageMade
<1> QED BY <1>2, <1>3 DEF Calm, MessageMade

\* d is c with another object at the message handle m.
MessageChanged(c, d, m) ==
  /\ Calm(c, d) /\ d.pipes = c.pipes
  /\ DOMAIN d.slots = DOMAIN c.slots
  /\ d.slots[m].kind = "Message"
  /\ \A h \in DOMAIN c.slots : h # m => d.slots[h] = c.slots[h]

\* d is c with object o at handle h, and perhaps other events.
ObjectSet(c, d, h, o) ==
  /\ DOMAIN d = CoreFields
  /\ d.slots = [c.slots EXCEPT ![h] = [c.slots[h] EXCEPT !.obj = o]]
  /\ d.free_list = c.free_list /\ d.traps = c.traps /\ d.pipes = c.pipes
  /\ d.messages = c.messages /\ d.writes = c.writes /\ d.ntraps = c.ntraps

(* WhpAppendMessageData, WhpReserveMessageCapacity, WhpSerializeMessage.   *)
LEMMA MessageOpEffect ==
  ASSUME NEW c, Typed(c), NEW m, IsA(c, m, "Message"), NEW o \in Msgs,
         NEW d, ObjectSet(c, d, m, o), d.pending_events = c.pending_events
  PROVE  MessageChanged(c, d, m) /\ d.slots[m].obj = o
<1>1. m \in DOMAIN c.slots /\ c.slots[m].kind = "Message" /\ DOMAIN c.slots[m] = {"kind", "obj"}
  BY DEF IsA, Lookup, Typed, Table, Shape
<1>2. /\ DOMAIN d = CoreFields
      /\ d.slots = [c.slots EXCEPT ![m] = [c.slots[m] EXCEPT !.obj = o]]
      /\ d.free_list = c.free_list /\ d.traps = c.traps /\ d.pipes = c.pipes
      /\ d.pending_events = c.pending_events
      /\ d.messages = c.messages /\ d.writes = c.writes /\ d.ntraps = c.ntraps
  BY DEF ObjectSet
<1>3. SlotTyped(Len(c.pipes), [kind |-> c.slots[m].kind, obj |-> o])
  BY <1>1 DEF SlotTyped, Kinds
<1>4. \E S : d.pending_events \in Seq(S)
  BY <1>2 DEF Typed
<1>5. Typed(d)
  BY <1>1, <1>2, <1>3, <1>4, TypedObject
<1>6. /\ DOMAIN d.slots = DOMAIN c.slots /\ d.slots[m].kind = "Message" /\ d.slots[m].obj = o
      /\ \A h \in DOMAIN c.slots : h # m => d.slots[h] = c.slots[h]
  BY <1>1, <1>2
<1>7. SameEnds(c, d, {})
  BY <1>1, <1>6 DEF SameEnds, IsA, Lookup
<1>8. SameTrapObjects(c, d)
  BY <1>1, <1>6 DEF SameTrapObjects, IsA, Lookup
<1> QED BY <1>2, <1>5, <1>6, <1>7, <1>8 DEF MessageChanged, Calm

(* WhpAppendMessageData.                                                   *)
LEMMA AppendMessageDataEffect ==
  ASSUME NEW c, Typed(c), NEW m, IsA(c, m, "Message"), NEW n \in Nat, NEW commit \in BOOLEAN
  PROVE  MessageChanged(c, WhpAppendMessageData(c, m, n, commit), m)
<1> DEFINE b == c.slots[m].obj.committed \/ commit
           o == [c.slots[m].obj EXCEPT !.size = @ + n, !.committed = b]
           d == WhpAppendMessageData(c, m, n, commit)
<1>1. c.slots[m].obj \in Msgs
  BY DEF Typed, IsA, Lookup, SlotTyped
<1>0. DOMAIN c = CoreFields /\ m \in DOMAIN c.slots /\ DOMAIN c.slots[m] = {"kind", "obj"}
  BY DEF Typed, Table, Shape, IsA, Lookup
<1>3. ObjectSet(c, d, m, o) /\ d.pending_events = c.pending_events
  BY <1>0, <1>1 DEF WhpAppendMessageData, CoreFields, Msgs, ObjectSet
<1>b. b \in BOOLEAN
  OBVIOUS
<1> HIDE DEF b
<1>2. o \in Msgs
  <2>1. c.slots[m].obj.size + n \in Nat
    BY <1>1 DEF Msgs
  <2> DEFINE k == c.slots[m].obj.size + n
  <2> HIDE DEF k
  <2>2. o = [c.slots[m].obj EXCEPT !.size = k, !.committed = b]
    BY DEF k
  <2> QED BY <1>1, <1>b, <2>1, <2>2 DEF Msgs, k
<1> HIDE DEF o, d
<1> QED BY <1>2, <1>3, MessageOpEffect DEF d

(* WhpReserveMessageCapacity.                                              *)
LEMMA ReserveEffect ==
  ASSUME NEW c, Typed(c), NEW m, IsA(c, m, "Message"), NEW n \in Nat
  PROVE  MessageChanged(c, WhpReserveMessageCapacity(c, m, n), m)
<1> DEFINE o == [c.slots[m].obj EXCEPT !.size = IF n > @ THEN n ELSE @]
           d == WhpReserveMessageCapacity(c, m, n)
<1>1. c.slots[m].obj \in Msgs
  BY DEF Typed, IsA, Lookup, SlotTyped
<1>2. o \in Msgs
  BY <1>1 DEF Msgs
<1>3. ObjectSet(c, d, m, o) /\ d.pending_events = c.pending_events
  BY DEF WhpReserveMessageCapacity, Typed, Table, Shape, CoreFields, ObjectSet
<1> HIDE DEF o, d
<1> QED BY <1>2, <1>3, MessageOpEffect DEF d

(* WhpSerializeMessage.                                                    *)
LEMMA SerializeEffect ==
  ASSUME NEW c, Typed(c), NEW m, IsA(c, m, "Message")
  PROVE  /\ MessageChanged(c, WhpSerializeMessage(c, m), m)
         /\ WhpSerializeMessage(c, m).slots[m].obj = [c.slots[m].obj EXCEPT !.committed = TRUE]
<1> DEFINE o == [c.slots[m].obj EXCEPT !.committed = TRUE]
           d == WhpSerializeMessage(c, m)
<1>1. c.slots[m].obj \in Msgs
  BY DEF Typed, IsA, Lookup, SlotTyped
<1>2. o \in Msgs
  BY <1>1 DEF Msgs
<1>3. ObjectSet(c, d, m, o) /\ d.pending_events = c.pending_events
  BY DEF WhpSerializeMessage, Typed, Table, Shape, CoreFields, ObjectSet
<1> HIDE DEF o, d
<1>4. MessageChanged(c, d, m) /\ d.slots[m].obj = o
  BY <1>2, <1>3, MessageOpEffect
<1> QED BY <1>4 DEF d, o

\* R is P with q as the queue of end e of pipe state s.
QueueSet(P, R, s, e, q) ==
  /\ DOMAIN R = DOMAIN P
  /\ R[s].queues[e] = q
  /\ \A p \in DOMAIN P, x \in 0..1 : p # s \/ x # e => R[p].queues[x] = P[p].queues[x]
  /\ \A p \in DOMAIN P : /\ R[p].closed = P[p].closed
                         /\ R[p].quota_count = P[p].quota_count
                         /\ R[p].quota_bytes = P[p].quota_bytes

(* Another queue for one end.                                              *)
LEMMA QueueSetTyped ==
  ASSUME NEW P \in Seq(PipeStates), NEW s \in DOMAIN P, NEW e \in 0..1, NEW q \in Seq(Msgs)
  PROVE  LET R == [P EXCEPT ![s].queues[e] = q]
         IN  R \in Seq(PipeStates) /\ Len(R) = Len(P) /\ QueueSet(P, R, s, e, q)
<1> DEFINE t == [P[s] EXCEPT !.queues[e] = q]
           R == [P EXCEPT ![s] = t]
<1>1. P[s] \in PipeStates
  OBVIOUS
<1>2. t \in PipeStates
  BY <1>1 DEF PipeStates
<1>3. /\ t.queues[e] = q /\ \A x \in 0..1 : x # e => t.queues[x] = P[s].queues[x]
      /\ t.closed = P[s].closed /\ t.quota_count = P[s].quota_count
      /\ t.quota_bytes = P[s].quota_bytes
  BY <1>1 DEF PipeStates
<1> HIDE DEF t
<1>4. R \in Seq(PipeStates) /\ Len(R) = Len(P)
  BY <1>2
<1>5. DOMAIN R = DOMAIN P /\ R[s] = t /\ \A p \in DOMAIN P : p # s => R[p] = P[p]
  OBVIOUS
<1> HIDE DEF R
<1>6. QueueSet(P, R, s, e, q)
  BY <1>3, <1>5 DEF QueueSet
<1> QED BY <1>4, <1>6 DEF R, t

\* Queues and closed flags as before, in the same pipe states.
SamePipes(c, d) ==
  /\ DOMAIN d.pipes = DOMAIN c.pipes
  /\ \A p \in DOMAIN c.pipes : /\ d.pipes[p].queues = c.pipes[p].queues
                               /\ d.pipes[p].closed = c.pipes[p].closed

(* WhpSetQuota, for both kinds of limit.                                   *)
LEMMA SetQuotaEffect ==
  ASSUME NEW c, Typed(c), NEW h, IsA(c, h, "MessagePipe"), NEW limit \in Nat,
         NEW d, d = WhpSetQuotaCount(c, h, limit) \/ d = WhpSetQuotaBytes(c, h, limit)
  PROVE  Calm(c, d) /\ SamePipes(c, d)
<1> DEFINE end == c.slots[h].obj
           s   == c.pipes[end.state]
           s1  == [s EXCEPT !.quota_count[end.end] = limit]
           s2  == [s EXCEPT !.quota_bytes[end.end] = limit]
<1>1. end \in EndObjects(Len(c.pipes))
  BY DEF Typed, IsA, Lookup, SlotTyped
<1>2. /\ end.state \in DOMAIN c.pipes /\ end.end \in 0..1
      /\ s \in PipeStates /\ c.pipes \in Seq(PipeStates)
  BY <1>1 DEF EndObjects, Typed
<1>3. s1 \in PipeStates /\ s2 \in PipeStates
  BY <1>2 DEF PipeStates
<1>4. /\ s1.queues = s.queues /\ s1.closed = s.closed
      /\ s2.queues = s.queues /\ s2.closed = s.closed
  BY <1>2 DEF PipeStates
<1>5. PICK t \in {s1, s2} : d = [c EXCEPT !.pipes = [c.pipes EXCEPT ![end.state] = t]]
  BY DEF WhpSetQuotaCount, WhpSetQuotaBytes
<1>6. t \in PipeStates /\ t.queues = s.queues /\ t.closed = s.closed
  BY <1>3, <1>4
<1> HIDE DEF end, s1, s2
<1> DEFINE P == [c.pipes EXCEPT ![end.state] = t]
<1>7. /\ DOMAIN d = CoreFields /\ d.pipes = P
      /\ d.slots = c.slots /\ d.free_list = c.free_list /\ d.traps = c.traps
      /\ d.pending_events = c.pending_events
      /\ d.messages = c.messages /\ d.writes = c.writes /\ d.ntraps = c.ntraps
  BY <1>5 DEF Typed, Table, Shape, CoreFields
<1>8. P \in Seq(PipeStates) /\ Len(P) = Len(c.pipes) /\ Len(P) >= Len(c.pipes)
  BY <1>2, <1>6
<1>9. SamePipes(c, d)
  BY <1>2, <1>6, <1>7 DEF SamePipes
<1> HIDE DEF P
<1>10. Typed(d)
  <2>1. /\ \E S : d.pending_events \in Seq(S)
        /\ d.messages \in Nat /\ d.writes \in Nat /\ d.ntraps \in Nat
    BY <1>7 DEF Typed
  <2> QED BY <1>7, <1>8, <2>1, TypedFields
<1>11. SameEnds(c, d, {}) /\ SameTrapObjects(c, d)
  BY <1>7 DEF SameEnds, SameTrapObjects, IsA, Lookup
<1> QED BY <1>7, <1>9, <1>10, <1>11 DEF Calm

-----------------------------------------------------------------------------
(* The operations that end in CollectTrapEvents.                           *)

\* An operation that frees the ends in Gone, and no trap, and collects.
Collecting(c, d, Gone) ==
  /\ Typed(d) /\ Settled(d) /\ SameEnds(c, d, Gone) /\ SameTraps(c, d) /\ NewEvents(c, d)
  /\ Woken(c, d)

\* h's pipe takes message msg into its peer's queue.
Accepted(c, d, h, msg) ==
  LET s == c.slots[h].obj.state
      e == PeerOf(c, h)
      q == c.pipes[s].queues[e]
  IN  /\ IsA(c, h, "MessagePipe") /\ ~WriteRefused(c, h)
      /\ msg \in Msgs /\ msg.seq = c.writes + 1 /\ msg.writer = c.slots[h].obj.id
      /\ Len(q) < c.pipes[s].quota_count[e]
      /\ QueueBytes(q) + msg.size <= c.pipes[s].quota_bytes[e]
      /\ QueueSet(c.pipes, d.pipes, s, e, Append(q, msg))
      /\ d.writes = c.writes + 1

(* A calm operation first changes nothing for one that collects after it.  *)
LEMMA CalmThenCollecting ==
  ASSUME NEW c, NEW b, NEW d, NEW Gone, Calm(c, b), Collecting(b, d, Gone)
  PROVE  Collecting(c, d, Gone)
<1>1. SameEnds(c, d, Gone)
  BY DEF Calm, Collecting, SameEnds
<1>2. SameTraps(c, d)
  BY DEF Calm, Collecting, SameTraps, SameTrapObjects
<1>3. \A h, e : IsA(b, h, "Trap") /\ EventOf(b, h, e) => IsA(c, h, "Trap") /\ EventOf(c, h, e)
  BY DEF Calm, SameTrapObjects, EventOf
<1>4. NewEvents(c, d)
  BY <1>3 DEF Calm, Collecting, NewEvents
<1>5. \A h, e : IsA(c, h, "Trap") /\ EventOf(b, h, e) => EventOf(c, h, e)
  BY DEF Calm, SameTrapObjects, EventOf
<1>6. Woken(c, d)
  BY <1>5 DEF Calm, SameTrapObjects, Collecting, Woken
<1> QED BY <1>1, <1>2, <1>4, <1>6 DEF Collecting

(* The same for a change of other fields.                                  *)
LEMMA FieldsThenWoken ==
  ASSUME NEW c, NEW b, NEW d, b.slots = c.slots, b.pending_events = c.pending_events,
         Woken(b, d)
  PROVE  Woken(c, d)
BY DEF Woken, IsA, Lookup, EventOf

(* The write that is accepted.                                             *)
LEMMA AcceptEffect ==
  ASSUME NEW c, Typed(c), NEW h, IsA(c, h, "MessagePipe"), NEW m, IsA(c, m, "Message"),
         ~WriteRefused(c, h), ~OverQuota(c, h, m)
  PROVE  LET d == WriteSerialized(c, h, m)
         IN  Collecting(c, d, {m}) /\ \E msg : Accepted(c, d, h, msg)
<1> DEFINE s   == c.slots[h].obj.state
           e   == PeerOf(c, h)
           q   == c.pipes[s].queues[e]
           o   == c.slots[m].obj
           id  == c.slots[h].obj.id
           msg == [o EXCEPT !.seq = c.writes + 1, !.writer = id]
           P   == [c.pipes EXCEPT ![s].queues[e] = Append(q, msg)]
           b   == [c EXCEPT !.writes = @ + 1, !.pipes[s].queues[e] = Append(@, msg)]
           d   == CollectTrapEvents(Free(b, m))
<1>1. WriteSerialized(c, h, m) = d
  BY DEF WriteSerialized, Enqueue
<1>2. /\ o \in Msgs /\ c.slots[h].obj \in EndObjects(Len(c.pipes))
      /\ c.pipes \in Seq(PipeStates) /\ c.writes \in Nat
  BY DEF Typed, IsA, Lookup, SlotTyped
<1>3. /\ s \in DOMAIN c.pipes /\ e \in 0..1
  BY <1>2 DEF EndObjects, PeerOf
<1>4. c.pipes[s] \in PipeStates /\ q \in Seq(Msgs)
  <2> HIDE DEF s, e
  <2>1. c.pipes[s] \in PipeStates
    BY <1>2, <1>3
  <2> QED BY <1>3, <2>1 DEF PipeStates
<1>5. id \in Ids
  BY <1>2 DEF EndObjects, Ids
<1>6. /\ DOMAIN b = CoreFields /\ b.pipes = P
      /\ b.slots = c.slots /\ b.free_list = c.free_list /\ b.traps = c.traps
      /\ b.pending_events = c.pending_events
      /\ b.messages = c.messages /\ b.writes = c.writes + 1 /\ b.ntraps = c.ntraps
  BY DEF Typed, Table, Shape, CoreFields
<1> HIDE DEF b, id, o
<1>7. msg \in Msgs /\ msg.seq = c.writes + 1 /\ msg.writer = id /\ msg.size = o.size
  <2> DEFINE k == c.writes + 1
  <2>1. k \in Nat
    BY <1>2
  <2> HIDE DEF k
  <2>2. LET x == [o EXCEPT !.seq = k, !.writer = id]
        IN  x \in Msgs /\ x.seq = k /\ x.writer = id /\ x.size = o.size
    BY <1>2, <1>5, <2>1 DEF Msgs
  <2> QED BY <2>2 DEF k
<1> HIDE DEF msg
<1>8. Append(q, msg) \in Seq(Msgs)
  BY <1>4, <1>7
<1> HIDE DEF s, e
<1>9. P \in Seq(PipeStates) /\ Len(P) = Len(c.pipes) /\ QueueSet(c.pipes, P, s, e, Append(q, msg))
  <2> HIDE DEF q
  <2> QED BY <1>2, <1>3, <1>8, QueueSetTyped
<1>10. /\ Len(q) < c.pipes[s].quota_count[e]
       /\ QueueBytes(q) + msg.size <= c.pipes[s].quota_bytes[e]
  <2>1. /\ ~(Len(q) >= c.pipes[s].quota_count[e])
        /\ ~(QueueBytes(q) + o.size > c.pipes[s].quota_bytes[e])
    BY DEF OverQuota, Outbound, s, e, o
  <2>2. c.pipes[s].quota_count[e] \in Nat /\ c.pipes[s].quota_bytes[e] \in Nat /\ o.size \in Nat
    BY <1>2, <1>3, <1>4 DEF PipeStates, Msgs
  <2> HIDE DEF q
  <2>3. QueueBytes(q) \in Nat
    <3>1. \A x \in Msgs : x.size \in Nat
      BY DEF Msgs
    <3> QED BY <1>4, <1>7, <3>1, QueueBytesAppend
  <2>4. Len(q) \in Nat
    BY <1>4
  <2> QED BY <1>7, <2>1, <2>2, <2>3, <2>4
<1> HIDE DEF P, q
<1>12. Typed(b)
  <2>1. /\ \E S : b.pending_events \in Seq(S)
        /\ b.messages \in Nat /\ b.writes \in Nat /\ b.ntraps \in Nat
    BY <1>6 DEF Typed
  <2>2. Len(P) >= Len(c.pipes)
    BY <1>2, <1>9
  <2> QED BY <1>6, <1>9, <2>1, <2>2, TypedFields
<1>13. Lookup(b, m) /\ b.slots[m].kind # "Trap"
  BY <1>6 DEF IsA, Lookup
<1>14. FreedAndCollected(b, d, m)
  BY <1>12, <1>13, FreeCollect
<1> HIDE DEF d
<1>15. SameEnds(c, d, {m}) /\ SameTraps(c, d)
  BY <1>6, <1>14 DEF FreedAndCollected, SameEnds, SameTraps, IsA, Lookup
<1>16. NewEvents(c, d)
  BY <1>6, <1>14 DEF FreedAndCollected, NewEvents, EventOf, IsA, Lookup
<1>17. Collecting(c, d, {m})
  <2>1. Woken(c, d)
    BY <1>6, <1>14, FieldsThenWoken DEF FreedAndCollected
  <2> QED BY <1>14, <1>15, <1>16, <2>1 DEF Collecting, FreedAndCollected
<1>18. QueueSet(c.pipes, d.pipes, s, e, Append(q, msg)) /\ d.writes = c.writes + 1
  BY <1>6, <1>9, <1>14 DEF FreedAndCollected, SameCounters
<1>19. Accepted(c, d, h, msg)
  BY <1>7, <1>10, <1>18 DEF Accepted, s, e, q, id
<1> QED BY <1>1, <1>17, <1>19

(* WhpWriteMessage: refused or over quota, or accepted.                    *)
LEMMA WriteMessageEffect ==
  ASSUME NEW c, Typed(c), NEW h, NEW m, IsA(c, m, "Message")
  PROVE  LET d == WhpWriteMessage(c, h, m)
         IN  \/ Calm(c, d) /\ d.pipes = c.pipes
             \/ Collecting(c, d, {}) /\ d.pipes = c.pipes /\ d.writes = c.writes
             \/ Collecting(c, d, {}) /\ \E msg : Accepted(c, d, h, msg)
<1> DEFINE b == WhpSerializeMessage(c, m)
           d == WriteSerialized(b, h, m)
<1>1. WhpWriteMessage(c, h, m) = d
  BY DEF WhpWriteMessage
<1>2. MessageChanged(c, b, m)
  BY SerializeEffect
<1> HIDE DEF b, d
<1>3. /\ Typed(b) /\ Calm(c, b) /\ b.pipes = c.pipes /\ b.writes = c.writes
      /\ m \in DOMAIN b.slots /\ b.slots[m].kind = "Message"
      /\ DOMAIN b.slots = DOMAIN c.slots
      /\ \A k \in DOMAIN c.slots : k # m => b.slots[k] = c.slots[k]
  BY <1>2 DEF MessageChanged, Calm, IsA, Lookup
<1>4. IsA(b, m, "Message") /\ Lookup(b, m) /\ b.slots[m].kind # "Trap"
  BY <1>3 DEF IsA, Lookup
<1>5. ASSUME NEW x, Collecting(b, x, {m})
      PROVE  Collecting(c, x, {})
  <2>1. Collecting(b, x, {})
    BY <1>4, <1>5 DEF Collecting, SameEnds, IsA
  <2> QED BY <1>3, <2>1, CalmThenCollecting
<1>6. CASE ~IsA(b, h, "MessagePipe")
  BY <1>1, <1>3, <1>6 DEF d, WriteSerialized
<1>7. CASE IsA(b, h, "MessagePipe")
  <2>1. IsA(c, h, "MessagePipe") /\ b.slots[h] = c.slots[h]
    BY <1>3, <1>7 DEF IsA, Lookup
  <2>2. CASE WriteRefused(b, h)
    <3>1. d = CollectTrapEvents(Free(b, m))
      BY <1>7, <2>2 DEF d, WriteSerialized
    <3>2. FreedAndCollected(b, d, m)
      BY <1>3, <1>4, <3>1, FreeCollect
    <3>3. Collecting(b, d, {m}) /\ d.pipes = b.pipes /\ d.writes = b.writes
      BY <3>2 DEF FreedAndCollected, Collecting, SameCounters
    <3> QED BY <1>1, <1>3, <1>5, <3>3
  <2>3. CASE ~WriteRefused(b, h) /\ OverQuota(b, h, m)
    <3>1. d = b
      BY <1>7, <2>3 DEF d, WriteSerialized
    <3> QED BY <1>1, <1>3, <3>1
  <2>4. CASE ~WriteRefused(b, h) /\ ~OverQuota(b, h, m)
    <3>1. Collecting(b, d, {m}) /\ \E msg : Accepted(b, d, h, msg)
      BY <1>3, <1>4, <1>7, <2>4, AcceptEffect DEF d
    <3>2. PICK msg : Accepted(b, d, h, msg)
      BY <3>1
    <3>3. Accepted(c, d, h, msg)
      BY <1>3, <2>1, <3>2 DEF Accepted, PeerOf, WriteRefused, Outbound
    <3> QED BY <1>1, <1>5, <3>1, <3>3
  <2> QED BY <2>2, <2>3, <2>4
<1> QED BY <1>6, <1>7

\* d is c with another object at the trap handle th, and perhaps other events.
TrapChanged(c, d, th, o) ==
  /\ Typed(d) /\ SameEnds(c, d, {}) /\ d.pipes = c.pipes /\ d.writes = c.writes
  /\ \A h : IsA(d, h, "Trap") <=> IsA(c, h, "Trap")
  /\ d.slots[th].obj = o
  /\ \A h : IsA(c, h, "Trap") /\ h # th => d.slots[h].obj = c.slots[h].obj

(* WhpAddTrigger, WhpRemoveTrigger, WhpArmTrap.                            *)
LEMMA TrapOpEffect ==
  ASSUME NEW c, Typed(c), NEW th, IsA(c, th, "Trap"), NEW o, TrapObject(o),
         NEW d, ObjectSet(c, d, th, o), \E S : d.pending_events \in Seq(S)
  PROVE  TrapChanged(c, d, th, o)
<1>1. /\ th \in DOMAIN c.slots /\ c.slots[th].kind = "Trap"
      /\ DOMAIN c.slots[th] = {"kind", "obj"}
  BY DEF IsA, Lookup, Typed, Table, Shape
<1>2. SlotTyped(Len(c.pipes), [kind |-> c.slots[th].kind, obj |-> o])
  BY <1>1 DEF SlotTyped, Kinds
<1>3. Typed(d)
  BY <1>1, <1>2, TypedObject DEF ObjectSet
<1>4. /\ DOMAIN d.slots = DOMAIN c.slots /\ d.slots[th].kind = "Trap" /\ d.slots[th].obj = o
      /\ \A h \in DOMAIN c.slots : h # th => d.slots[h] = c.slots[h]
  BY <1>1 DEF ObjectSet
<1>5. SameEnds(c, d, {})
  BY <1>1, <1>4 DEF SameEnds, IsA, Lookup
<1>6. /\ \A h : IsA(d, h, "Trap") <=> IsA(c, h, "Trap")
      /\ \A h : IsA(c, h, "Trap") /\ h # th => d.slots[h].obj = c.slots[h].obj
  BY <1>1, <1>4 DEF IsA, Lookup
<1> QED BY <1>3, <1>4, <1>5, <1>6 DEF TrapChanged, ObjectSet

(* WhpAddTrigger.                                                          *)
LEMMA AddTriggerEffect ==
  ASSUME NEW c, Typed(c), NEW th, IsA(c, th, "Trap"), NEW h, NEW signals, NEW condition, NEW context
  PROVE  LET d == WhpAddTrigger(c, th, h, signals, condition, context)
             new == [watched |-> h, signals |-> signals, condition |-> condition,
                     context |-> context, obj |-> c.slots[h].obj.id,
                     late |-> c.slots[th].obj.armed]
             old == c.slots[th].obj
         IN  /\ TrapChanged(c, d, th, [old EXCEPT !.triggers = Append(@, new)])
             /\ d.pending_events = c.pending_events
<1> DEFINE d == WhpAddTrigger(c, th, h, signals, condition, context)
           new == [watched |-> h, signals |-> signals, condition |-> condition,
                   context |-> context, obj |-> c.slots[h].obj.id,
                   late |-> c.slots[th].obj.armed]
           old == c.slots[th].obj
           o   == [old EXCEPT !.triggers = Append(@, new)]
<1>1. ObjectSet(c, d, th, o) /\ d.pending_events = c.pending_events
  BY DEF WhpAddTrigger, ObjectSet, Typed, Table, Shape, CoreFields
<1>2. TrapObject(old) /\ \E S : d.pending_events \in Seq(S)
  BY <1>1 DEF Typed, SlotTyped, IsA, Lookup
<1> HIDE DEF new, old, d
<1>3. TrapObject(o)
  <2>1. PICK S : old.triggers \in Seq(S)
    BY <1>2 DEF TrapObject
  <2>2. Append(old.triggers, new) \in Seq(S \cup {new})
    BY <2>1
  <2>3. DOMAIN o = TrapFields /\ o.id = old.id /\ o.armed = old.armed /\ o.triggers = Append(old.triggers, new)
    BY <1>2 DEF TrapObject, TrapFields
  <2> QED BY <1>2, <2>2, <2>3 DEF TrapObject
<1> HIDE DEF o
<1>4. TrapChanged(c, d, th, o)
  BY <1>1, <1>2, <1>3, TrapOpEffect
<1> QED BY <1>1, <1>4 DEF o, d, new, old

(* WhpArmTrap.                                                             *)
LEMMA ArmTrapEffect ==
  ASSUME NEW c, Typed(c), NEW th, IsA(c, th, "Trap")
  PROVE  LET d == WhpArmTrap(c, th)
         IN  /\ TrapChanged(c, d, th, [c.slots[th].obj EXCEPT !.armed = TRUE])
             /\ d.pending_events = c.pending_events
<1> DEFINE d == WhpArmTrap(c, th)
           old == c.slots[th].obj
           o   == [old EXCEPT !.armed = TRUE]
<1>1. ObjectSet(c, d, th, o) /\ d.pending_events = c.pending_events
  BY DEF WhpArmTrap, ObjectSet, Typed, Table, Shape, CoreFields
<1>2. TrapObject(old) /\ \E S : d.pending_events \in Seq(S)
  BY <1>1 DEF Typed, SlotTyped, IsA, Lookup
<1> HIDE DEF old, d
<1>3. TrapObject(o)
  BY <1>2 DEF TrapObject, TrapFields
<1> HIDE DEF o
<1>4. TrapChanged(c, d, th, o)
  BY <1>1, <1>2, <1>3, TrapOpEffect
<1> QED BY <1>1, <1>4 DEF o, d, old

\* Every element of r is an element of s at a position in K, and those all are.
Kept(r, s, K) ==
  /\ \A i \in DOMAIN r : \E k \in DOMAIN s : k \in K /\ r[i] = s[k]
  /\ \A k \in DOMAIN s : k \in K => \E i \in DOMAIN r : r[i] = s[k]

(* KeepAt, where the order does not matter.                                *)
LEMMA KeepAtElements ==
  ASSUME NEW S, NEW s \in Seq(S), NEW K
  PROVE  /\ KeepAt(s, K) \in Seq(S) /\ Kept(KeepAt(s, K), s, K)
         /\ IsInjective(s) => IsInjective(KeepAt(s, K))
<1> DEFINE r == KeepAt(s, K)
<1>1. r \in Seq(S) /\ \E pos : PickedBy(r, s, K, Len(s), pos)
  BY KeepAtPositions
<1> HIDE DEF r
<1>2. PICK pos : PickedBy(r, s, K, Len(s), pos)
  BY <1>1
<1>3. DOMAIN r = 1..Len(r) /\ DOMAIN s = 1..Len(s) /\ Len(r) \in Nat /\ Len(s) \in Nat
  BY <1>1
<1>4. Kept(r, s, K)
  <2>1. \A i \in 1..Len(r) : pos[i] \in 1..Len(s) /\ pos[i] \in K /\ r[i] = s[pos[i]]
    BY <1>2 DEF PickedBy
  <2>2. \A k \in 1..Len(s) : k \in K => \E j \in 1..Len(r) : pos[j] = k
    BY <1>2 DEF PickedBy
  <2> QED BY <1>3, <2>1, <2>2 DEF Kept
<1>5. ASSUME IsInjective(s) PROVE IsInjective(r)
  <2>1. \A i, j \in 1..Len(r) : i < j => pos[i] < pos[j]
    BY <1>2 DEF PickedBy
  <2>2. \A i \in 1..Len(r) : pos[i] \in 1..Len(s) /\ r[i] = s[pos[i]]
    BY <1>2 DEF PickedBy
  <2>3. ASSUME NEW i \in 1..Len(r), NEW j \in 1..Len(r), r[i] = r[j]
        PROVE  i = j
    <3>1. pos[i] = pos[j]
      BY <1>3, <1>5, <2>2, <2>3 DEF IsInjective
    <3>2. ~(i < j) /\ ~(j < i)
      BY <1>3, <2>1, <2>2, <3>1
    <3> QED BY <1>3, <3>2
  <2> QED BY <1>3, <2>3 DEF IsInjective
<1> QED BY <1>1, <1>4, <1>5 DEF r

(* WhpRemoveTrigger: the triggers with the context go, and the event says  *)
(* so.                                                                     *)
LEMMA RemoveTriggerEffect ==
  ASSUME NEW c, Typed(c), NEW th, IsA(c, th, "Trap"), NEW context
  PROVE  LET d    == WhpRemoveTrigger(c, th, context)
             old  == c.slots[th].obj
             left == KeepAt(old.triggers, {i \in DOMAIN old.triggers : old.triggers[i].context # context})
         IN  /\ TrapChanged(c, d, th, [old EXCEPT !.triggers = left])
             /\ d.pending_events = Append(c.pending_events,
                                          [trap |-> old.id, context |-> context, result |-> "CANCELLED"])
<1> DEFINE d    == WhpRemoveTrigger(c, th, context)
           old  == c.slots[th].obj
           K    == {i \in DOMAIN old.triggers : old.triggers[i].context # context}
           left == KeepAt(old.triggers, K)
           o    == [old EXCEPT !.triggers = left]
           ev   == [trap |-> old.id, context |-> context, result |-> "CANCELLED"]
<1>1. ObjectSet(c, d, th, o) /\ d.pending_events = Append(c.pending_events, ev)
  BY DEF WhpRemoveTrigger, ObjectSet, Typed, Table, Shape, CoreFields
<1> HIDE DEF d, ev, K
<1>2. TrapObject(old) /\ \E S : c.pending_events \in Seq(S)
  BY <1>1 DEF Typed, SlotTyped, IsA, Lookup
<1>3. \E S : d.pending_events \in Seq(S)
  <2>1. PICK S : c.pending_events \in Seq(S)
    BY <1>2
  <2>2. Append(c.pending_events, ev) \in Seq(S \cup {ev})
    BY <2>1
  <2> QED BY <1>1, <2>2
<1> HIDE DEF old
<1>4. TrapObject(o)
  <2>1. PICK S : old.triggers \in Seq(S)
    BY <1>2 DEF TrapObject
  <2>2. left \in Seq(S)
    BY <2>1, KeepAtElements
  <2> HIDE DEF left
  <2>3. DOMAIN o = TrapFields /\ o.id = old.id /\ o.armed = old.armed /\ o.triggers = left
    BY <1>2 DEF TrapObject, TrapFields
  <2> QED BY <1>2, <2>2, <2>3 DEF TrapObject
<1> HIDE DEF o
<1>5. TrapChanged(c, d, th, o)
  BY <1>1, <1>3, <1>4, TrapOpEffect
<1> QED BY <1>1, <1>5 DEF o, d, old, left, K, ev

\* The handle n, free before, is a trap without triggers in d, not armed.
TrapMade(c, d, n) ==
  /\ Typed(d) /\ SameEnds(c, d, {}) /\ d.pipes = c.pipes
  /\ d.pending_events = c.pending_events /\ d.writes = c.writes
  /\ ~Lookup(c, n) /\ n \in Nat \ {0}
  /\ d.slots[n].obj.triggers = <<>> /\ ~d.slots[n].obj.armed
  /\ \A h : IsA(d, h, "Trap") <=> IsA(c, h, "Trap") \/ h = n
  /\ \A h : IsA(c, h, "Trap") => d.slots[h].obj = c.slots[h].obj

(* WhpCreateTrap.                                                          *)
LEMMA CreateTrapEffect ==
  ASSUME NEW c, Typed(c)
  PROVE  TrapMade(c, WhpCreateTrap(c), NextHandle(c))
<1> DEFINE b  == [c EXCEPT !.ntraps = @ + 1]
           o  == [id |-> <<0, c.ntraps + 1>>, triggers |-> <<>>, armed |-> FALSE]
           a  == Alloc(b, "Trap", o)
           n  == NextHandle(c)
           d  == [a EXCEPT !.traps = Append(@, n)]
<1>1. WhpCreateTrap(c) = d
  BY DEF WhpCreateTrap
<1>2. /\ DOMAIN b = CoreFields /\ b.slots = c.slots /\ b.free_list = c.free_list
      /\ b.traps = c.traps /\ b.pipes = c.pipes /\ b.pending_events = c.pending_events
      /\ b.messages = c.messages /\ b.writes = c.writes /\ b.ntraps = c.ntraps + 1
  BY DEF Typed, Table, Shape, CoreFields
<1>3. TrapObject(o)
  <2>1. <<>> \in Seq({}) /\ c.ntraps + 1 \in Nat
    BY DEF Typed
  <2> QED BY <2>1 DEF TrapObject, TrapFields
<1>4. o.triggers = <<>> /\ ~o.armed
  OBVIOUS
<1> HIDE DEF b, o
<1>5. Table(b) /\ NextHandle(b) = n
  BY <1>2, OtherFieldsKeep DEF Typed, NextHandle
<1>6. Table(a) /\ Allocated(b, a, n, "Trap", o)
  BY <1>5, AllocKeeps, AllocEffect
<1> HIDE DEF a, n
<1>7. /\ DOMAIN d = CoreFields /\ d.slots = a.slots /\ d.free_list = a.free_list
      /\ d.traps = Append(c.traps, n) /\ d.pipes = c.pipes
      /\ d.pending_events = c.pending_events
      /\ d.messages = c.messages /\ d.writes = c.writes /\ d.ntraps = c.ntraps + 1
  BY <1>2, <1>6 DEF Table, Shape, CoreFields, Allocated, SameRest
<1> HIDE DEF d
<1>8. Table(d)
  BY <1>6, <1>7, OtherFieldsKeep
<1>9. /\ DOMAIN d.slots = DOMAIN c.slots \cup {n} /\ d.slots[n].kind = "Trap"
      /\ d.slots[n].obj = o /\ n \in Nat \ {0}
      /\ \A h \in DOMAIN c.slots : h # n => d.slots[h] = c.slots[h]
      /\ ~Lookup(c, n)
  BY <1>2, <1>6, <1>7 DEF Allocated, Lookup
<1>10. TrapList(d)
  <2> DEFINE k == Len(c.traps)
  <2>1. PICK S : c.traps \in Seq(S)
    BY DEF Typed, TrapList
  <2>2. /\ k \in Nat /\ DOMAIN c.traps = 1..k /\ DOMAIN d.traps = 1..(k+1)
        /\ d.traps[k+1] = n /\ \A i \in 1..k : d.traps[i] = c.traps[i]
        /\ d.traps \in Seq(S \cup {n})
    BY <1>7, <2>1
  <2>3. \A i \in 1..k : c.traps[i] \in DOMAIN c.slots /\ c.slots[c.traps[i]].kind = "Trap"
    BY <2>2 DEF Typed, TrapList
  <2>4. \A i \in 1..k : c.traps[i] # n
    BY <1>9, <2>3 DEF Lookup
  <2> HIDE DEF k
  <2>5. ASSUME NEW i \in 1..(k+1), NEW j \in 1..(k+1), d.traps[i] = d.traps[j]
        PROVE  i = j
    <3>1. \A x, y \in 1..k : c.traps[x] = c.traps[y] => x = y
      BY <2>2 DEF Typed, TrapList, IsInjective
    <3> QED BY <2>2, <2>4, <2>5, <3>1
  <2>6. IsInjective(d.traps)
    BY <2>2, <2>5 DEF IsInjective
  <2>7. ASSUME NEW i \in 1..(k+1)
        PROVE  d.traps[i] \in DOMAIN d.slots /\ d.slots[d.traps[i]].kind = "Trap"
    <3>1. CASE i = k + 1
      BY <1>9, <2>2, <3>1
    <3>2. CASE i \in 1..k
      <4>1. d.traps[i] = c.traps[i] /\ c.traps[i] # n
        BY <2>2, <2>4, <3>2
      <4> QED BY <1>9, <2>3, <3>2, <4>1
    <3>3. i = k + 1 \/ i \in 1..k
      BY <2>2
    <3> QED BY <3>1, <3>2, <3>3
  <2>8. ASSUME NEW h \in DOMAIN d.slots, d.slots[h].kind = "Trap"
        PROVE  \E i \in 1..(k+1) : d.traps[i] = h
    <3>1. CASE h = n
      BY <2>2, <3>1
    <3>2. CASE h # n
      <4>1. h \in DOMAIN c.slots /\ c.slots[h].kind = "Trap"
        BY <1>9, <2>8, <3>2
      <4>2. PICK i \in 1..k : c.traps[i] = h
        BY <2>2, <4>1 DEF Typed, TrapList
      <4> QED BY <2>2, <4>2
    <3> QED BY <3>1, <3>2
  <2> QED BY <2>2, <2>6, <2>7, <2>8 DEF TrapList
<1>11. \A h \in DOMAIN d.slots : SlotTyped(Len(d.pipes), d.slots[h])
  BY <1>3, <1>7, <1>9 DEF Typed, SlotTyped, Kinds
<1>12. Typed(d)
  BY <1>7, <1>8, <1>10, <1>11 DEF Typed
<1>13. SameEnds(c, d, {})
  BY <1>9 DEF SameEnds, IsA, Lookup
<1>14. /\ \A h : IsA(d, h, "Trap") <=> IsA(c, h, "Trap") \/ h = n
       /\ \A h : IsA(c, h, "Trap") => d.slots[h].obj = c.slots[h].obj
  BY <1>9 DEF IsA, Lookup
<1> QED BY <1>1, <1>4, <1>7, <1>9, <1>12, <1>13, <1>14 DEF TrapMade, n

\* The trap at handle h is gone in d, with the events of its triggers; the
\* rest was collected.
TrapClosed(c, d, h) ==
  LET contexts == {c.slots[h].obj.triggers[i].context : i \in DOMAIN c.slots[h].obj.triggers}
  IN  /\ Typed(d) /\ Settled(d) /\ SameEnds(c, d, {}) /\ d.pipes = c.pipes /\ d.writes = c.writes
      /\ \A k : IsA(d, k, "Trap") <=> IsA(c, k, "Trap") /\ k # h
      /\ \A k : IsA(d, k, "Trap") => /\ d.slots[k].obj.id = c.slots[k].obj.id
                                     /\ d.slots[k].obj.triggers = c.slots[k].obj.triggers
      /\ \A i \in DOMAIN d.pending_events :
           \/ \E j \in DOMAIN c.pending_events :
                c.pending_events[j].context \notin contexts /\ d.pending_events[i] = c.pending_events[j]
           \/ \E k : IsA(c, k, "Trap") /\ k # h /\ EventOf(c, k, d.pending_events[i])
      /\ \A j \in DOMAIN c.pending_events :
           c.pending_events[j].context \notin contexts =>
             \E i \in DOMAIN d.pending_events : d.pending_events[i] = c.pending_events[j]
      /\ \A k : IsA(c, k, "Trap") /\ k # h /\ c.slots[k].obj.armed /\ ~d.slots[k].obj.armed =>
           \E i \in DOMAIN d.pending_events : EventOf(c, k, d.pending_events[i])

(* WhpClose of a trap.                                                     *)
LEMMA CloseTrapEffect ==
  ASSUME NEW c, Typed(c), NEW h, IsA(c, h, "Trap")
  PROVE  TrapClosed(c, WhpClose(c, h), h)
<1> DEFINE o  == c.slots[h].obj
           contexts == {o.triggers[i].context : i \in DOMAIN o.triggers}
           E  == {i \in DOMAIN c.pending_events : c.pending_events[i].context \notin contexts}
           T  == {i \in DOMAIN c.traps : c.traps[i] # h}
           events == KeepAt(c.pending_events, E)
           traps  == KeepAt(c.traps, T)
           b  == [c EXCEPT !.pending_events = events, !.traps = traps]
           a  == Free(b, h)
           d  == CollectTrapEvents(a)
<1>1. WhpClose(c, h) = d
  BY DEF WhpClose, PurgeEvents, IsA
<1>2. /\ DOMAIN b = CoreFields /\ b.slots = c.slots /\ b.free_list = c.free_list
      /\ b.traps = traps /\ b.pipes = c.pipes /\ b.pending_events = events
      /\ b.messages = c.messages /\ b.writes = c.writes /\ b.ntraps = c.ntraps
  BY DEF Typed, Table, Shape, CoreFields
<1>3. h \in DOMAIN c.slots /\ c.slots[h].kind = "Trap" /\ Lookup(c, h)
  BY DEF IsA, Lookup
<1>4. /\ \E S : events \in Seq(S)
      /\ Kept(events, c.pending_events, E)
  <2>1. PICK S : c.pending_events \in Seq(S)
    BY DEF Typed
  <2> HIDE DEF E
  <2> QED BY <2>1, KeepAtElements
<1>5. /\ \E S : traps \in Seq(S)
      /\ Kept(traps, c.traps, T) /\ IsInjective(traps)
  <2>1. PICK S : c.traps \in Seq(S)
    BY DEF Typed, TrapList
  <2>2. IsInjective(c.traps)
    BY DEF Typed, TrapList
  <2> HIDE DEF T
  <2> QED BY <2>1, <2>2, KeepAtElements
<1> HIDE DEF b, events, traps
<1>6. Table(b) /\ Lookup(b, h)
  BY <1>2, <1>3, OtherFieldsKeep DEF Typed, Lookup
<1>7. Table(a) /\ Freed(b, a, h)
  BY <1>2, <1>3, <1>6, FreeKeeps, FreeEffect
<1> HIDE DEF a
<1>8. /\ DOMAIN a.slots = DOMAIN c.slots /\ a.slots[h].kind = "Free"
      /\ \A k \in DOMAIN c.slots : k # h => a.slots[k] = c.slots[k]
      /\ a.traps = traps /\ a.pipes = c.pipes /\ a.pending_events = events
      /\ a.messages = c.messages /\ a.writes = c.writes /\ a.ntraps = c.ntraps
  BY <1>2, <1>7 DEF Freed, SameRest, FreeSlot
<1>9. TrapList(a)
  <2>1. ASSUME NEW i \in DOMAIN traps
        PROVE  traps[i] \in DOMAIN a.slots /\ a.slots[traps[i]].kind = "Trap"
    <3>1. PICK k \in DOMAIN c.traps : k \in T /\ traps[i] = c.traps[k]
      BY <1>5 DEF Kept
    <3>2. c.traps[k] # h /\ c.traps[k] \in DOMAIN c.slots /\ c.slots[c.traps[k]].kind = "Trap"
      BY <3>1 DEF Typed, TrapList
    <3> QED BY <1>8, <3>1, <3>2
  <2>2. ASSUME NEW k \in DOMAIN a.slots, a.slots[k].kind = "Trap"
        PROVE  \E i \in DOMAIN traps : traps[i] = k
    <3>1. k # h /\ k \in DOMAIN c.slots /\ c.slots[k].kind = "Trap"
      BY <1>8, <2>2
    <3>2. PICK j \in DOMAIN c.traps : c.traps[j] = k
      BY <3>1 DEF Typed, TrapList
    <3>3. j \in T
      BY <3>1, <3>2
    <3> QED BY <1>5, <3>2, <3>3 DEF Kept
  <2> QED BY <1>5, <1>8, <2>1, <2>2 DEF TrapList
<1>10. \A k \in DOMAIN a.slots : SlotTyped(Len(a.pipes), a.slots[k])
  BY <1>8 DEF Typed, SlotTyped, Kinds
<1>11. Typed(a)
  BY <1>4, <1>7, <1>8, <1>9, <1>10 DEF Typed
<1>12. Typed(d) /\ Collected(a, d)
  BY <1>11, TypedCollect
<1> HIDE DEF d
<1>13. /\ Settled(d) /\ SameEnds(a, d, {}) /\ SameTraps(a, d) /\ NewEvents(a, d)
       /\ Woken(a, d) /\ d.pipes = a.pipes /\ SameCounters(a, d)
  BY <1>11, <1>12, CollectSettles
<1>14. \A k, kind : IsA(a, k, kind) /\ kind # "Free" <=> IsA(c, k, kind) /\ k # h /\ kind # "Free"
  BY <1>3, <1>8 DEF IsA, Lookup
<1>15. SameEnds(c, d, {})
  <2>1. \A k : IsA(a, k, "MessagePipe") <=> IsA(c, k, "MessagePipe")
    BY <1>3, <1>14 DEF IsA
  <2>2. \A k : IsA(c, k, "MessagePipe") => k # h /\ a.slots[k] = c.slots[k]
    BY <1>3, <1>8 DEF IsA, Lookup
  <2> QED BY <1>13, <2>1, <2>2 DEF SameEnds
<1>16. /\ \A k : IsA(a, k, "Trap") <=> IsA(c, k, "Trap") /\ k # h
       /\ \A k : IsA(a, k, "Trap") => a.slots[k] = c.slots[k]
  BY <1>8, <1>14 DEF IsA, Lookup
<1>17. /\ \A k : IsA(d, k, "Trap") <=> IsA(c, k, "Trap") /\ k # h
       /\ \A k : IsA(d, k, "Trap") => /\ d.slots[k].obj.id = c.slots[k].obj.id
                                      /\ d.slots[k].obj.triggers = c.slots[k].obj.triggers
  BY <1>13, <1>16 DEF SameTraps
<1>18. ASSUME NEW i \in DOMAIN d.pending_events
       PROVE  \/ \E j \in DOMAIN c.pending_events :
                   /\ c.pending_events[j].context \notin contexts
                   /\ d.pending_events[i] = c.pending_events[j]
              \/ \E k : IsA(c, k, "Trap") /\ k # h /\ EventOf(c, k, d.pending_events[i])
  <2>1. CASE \E j \in DOMAIN events : d.pending_events[i] = events[j]
    <3>1. PICK j \in DOMAIN events : d.pending_events[i] = events[j]
      BY <2>1
    <3>2. PICK k \in DOMAIN c.pending_events : k \in E /\ events[j] = c.pending_events[k]
      BY <1>4 DEF Kept
    <3>3. c.pending_events[k].context \notin contexts
      BY <3>2
    <3> QED BY <3>1, <3>2, <3>3
  <2>2. CASE \E k : IsA(a, k, "Trap") /\ EventOf(a, k, d.pending_events[i])
    BY <1>16, <2>2 DEF EventOf
  <2> QED BY <1>8, <1>13, <2>1, <2>2 DEF NewEvents
<1>19. \A j \in DOMAIN c.pending_events :
         c.pending_events[j].context \notin contexts =>
           \E i \in DOMAIN d.pending_events : d.pending_events[i] = c.pending_events[j]
  <2> SUFFICES ASSUME NEW j \in DOMAIN c.pending_events, c.pending_events[j].context \notin contexts
               PROVE  \E i \in DOMAIN d.pending_events : d.pending_events[i] = c.pending_events[j]
    OBVIOUS
  <2>1. j \in E
    OBVIOUS
  <2>2. PICK i \in DOMAIN events : events[i] = c.pending_events[j]
    BY <1>4, <2>1 DEF Kept
  <2> QED BY <1>8, <1>13, <2>2 DEF Woken
<1>20. \A k : IsA(c, k, "Trap") /\ k # h /\ c.slots[k].obj.armed /\ ~d.slots[k].obj.armed =>
         \E i \in DOMAIN d.pending_events : EventOf(c, k, d.pending_events[i])
  BY <1>13, <1>16 DEF Woken, EventOf
<1> HIDE DEF contexts
<1>21. d.pipes = c.pipes /\ d.writes = c.writes
  BY <1>8, <1>13 DEF SameCounters
<1> QED BY <1>1, <1>12, <1>13, <1>15, <1>17, <1>18, <1>19, <1>20, <1>21 DEF TrapClosed, contexts

\* R is P with end e of pipe state s closed.
EndClosed(P, R, s, e) ==
  /\ DOMAIN R = DOMAIN P
  /\ \A p \in DOMAIN P, x \in 0..1 :
       R[p].closed[x] = IF p = s /\ x = e THEN TRUE ELSE P[p].closed[x]
  /\ \A p \in DOMAIN P : R[p].queues = P[p].queues

(* WhpClose of a pipe end.                                                 *)
LEMMA ClosePipeEffect ==
  ASSUME NEW c, Typed(c), NEW h, IsA(c, h, "MessagePipe")
  PROVE  LET d == WhpClose(c, h)
             o == c.slots[h].obj
         IN  /\ Collecting(c, d, {h}) /\ d.writes = c.writes
             /\ EndClosed(c.pipes, d.pipes, o.state, o.end)
<1> DEFINE o == c.slots[h].obj
           s == o.state
           e == o.end
           t == [c.pipes[s] EXCEPT !.closed[e] = TRUE]
           P == [c.pipes EXCEPT ![s] = t]
           b == [c EXCEPT !.pipes[s].closed[e] = TRUE]
           d == CollectTrapEvents(Free(b, h))
<1>1. WhpClose(c, h) = d
  BY DEF WhpClose, IsA
<1>2. o \in EndObjects(Len(c.pipes)) /\ c.pipes \in Seq(PipeStates)
  BY DEF Typed, IsA, Lookup, SlotTyped
<1>3. s \in DOMAIN c.pipes /\ e \in 0..1
  BY <1>2 DEF EndObjects
<1>4. /\ DOMAIN b = CoreFields /\ b.slots = c.slots /\ b.free_list = c.free_list
      /\ b.traps = c.traps /\ b.pipes = P /\ b.pending_events = c.pending_events
      /\ b.messages = c.messages /\ b.writes = c.writes /\ b.ntraps = c.ntraps
  BY DEF Typed, Table, Shape, CoreFields
<1> HIDE DEF b, s, e
<1>5. c.pipes[s] \in PipeStates
  BY <1>2, <1>3
<1>6. t \in PipeStates
  BY <1>3, <1>5 DEF PipeStates
<1>7. t.queues = c.pipes[s].queues /\ \A x \in 0..1 : t.closed[x] = IF x = e THEN TRUE ELSE c.pipes[s].closed[x]
  BY <1>3, <1>5 DEF PipeStates
<1> HIDE DEF t
<1>8. P \in Seq(PipeStates) /\ Len(P) = Len(c.pipes)
  BY <1>2, <1>3, <1>6
<1>9. EndClosed(c.pipes, P, s, e)
  <2>1. DOMAIN P = DOMAIN c.pipes /\ P[s] = t /\ \A p \in DOMAIN c.pipes : p # s => P[p] = c.pipes[p]
    BY <1>3
  <2> HIDE DEF P
  <2> QED BY <1>7, <2>1 DEF EndClosed
<1> HIDE DEF P
<1>10. Typed(b)
  <2>1. /\ \E S : b.pending_events \in Seq(S)
        /\ b.messages \in Nat /\ b.writes \in Nat /\ b.ntraps \in Nat
    BY <1>4 DEF Typed
  <2>2. Len(P) >= Len(c.pipes)
    BY <1>2, <1>8
  <2> QED BY <1>4, <1>8, <2>1, <2>2, TypedFields
<1>11. Lookup(b, h) /\ b.slots[h].kind # "Trap"
  BY <1>4 DEF IsA, Lookup
<1>12. FreedAndCollected(b, d, h)
  BY <1>10, <1>11, FreeCollect
<1> HIDE DEF d
<1>13. SameEnds(c, d, {h}) /\ SameTraps(c, d)
  BY <1>4, <1>12 DEF FreedAndCollected, SameEnds, SameTraps, IsA, Lookup
<1>14. NewEvents(c, d)
  BY <1>4, <1>12 DEF FreedAndCollected, NewEvents, EventOf, IsA, Lookup
<1>15. Collecting(c, d, {h})
  <2>1. Woken(c, d)
    BY <1>4, <1>12, FieldsThenWoken DEF FreedAndCollected
  <2> QED BY <1>12, <1>13, <1>14, <2>1 DEF Collecting, FreedAndCollected
<1>16. d.pipes = P /\ d.writes = c.writes
  BY <1>4, <1>12 DEF FreedAndCollected, SameCounters
<1> QED BY <1>1, <1>9, <1>15, <1>16 DEF s, e, o

(* WhpClose of a message.                                                  *)
LEMMA CloseMessageEffect ==
  ASSUME NEW c, Typed(c), NEW h, IsA(c, h, "Message")
  PROVE  LET d == WhpClose(c, h)
         IN  Collecting(c, d, {}) /\ d.writes = c.writes /\ d.pipes = c.pipes
<1> DEFINE d == CollectTrapEvents(Free(c, h))
<1>1. WhpClose(c, h) = d
  BY DEF WhpClose, IsA
<1>2. Lookup(c, h) /\ c.slots[h].kind # "Trap" /\ ~IsA(c, h, "MessagePipe")
  BY DEF IsA
<1>3. FreedAndCollected(c, d, h)
  BY <1>2, FreeCollect
<1> HIDE DEF d
<1>4. SameEnds(c, d, {})
  BY <1>2, <1>3 DEF FreedAndCollected, SameEnds
<1> QED BY <1>1, <1>3, <1>4 DEF FreedAndCollected, Collecting, SameCounters

-----------------------------------------------------------------------------
(* WhpFuseMessagePipes.                                                    *)

(* Another object for a pipe end.                                          *)
LEMMA EndSet ==
  ASSUME NEW c, Typed(c), NEW k, IsA(c, k, "MessagePipe"), NEW o \in EndObjects(Len(c.pipes)),
         NEW d, ObjectSet(c, d, k, o), d.pending_events = c.pending_events
  PROVE  /\ Typed(d) /\ DOMAIN d.slots = DOMAIN c.slots
         /\ d.slots[k].kind = "MessagePipe" /\ d.slots[k].obj = o /\ IsA(d, k, "MessagePipe")
         /\ \A h \in DOMAIN c.slots : h # k => d.slots[h] = c.slots[h]
<1>1. /\ k \in DOMAIN c.slots /\ c.slots[k].kind = "MessagePipe"
      /\ DOMAIN c.slots[k] = {"kind", "obj"}
  BY DEF IsA, Lookup, Typed, Table, Shape
<1>2. SlotTyped(Len(c.pipes), [kind |-> c.slots[k].kind, obj |-> o])
  BY <1>1 DEF SlotTyped, Kinds
<1>3. \E S : d.pending_events \in Seq(S)
  BY DEF Typed
<1>4. Typed(d)
  BY <1>1, <1>2, <1>3, TypedObject DEF ObjectSet
<1>5. /\ DOMAIN d.slots = DOMAIN c.slots /\ d.slots[k].kind = "MessagePipe" /\ d.slots[k].obj = o
      /\ \A h \in DOMAIN c.slots : h # k => d.slots[h] = c.slots[h]
  BY <1>1 DEF ObjectSet
<1>6. IsA(d, k, "MessagePipe")
  BY <1>1, <1>5 DEF IsA, Lookup
<1> QED BY <1>4, <1>5, <1>6

\* d is c with the end at handle k moved to end e of pipe state s.
EndMoved(c, d, k, s, e) ==
  /\ Typed(d) /\ DOMAIN d.slots = DOMAIN c.slots /\ IsA(d, k, "MessagePipe")
  /\ d.slots[k].obj = [id |-> c.slots[k].obj.id, state |-> s, end |-> e]
  /\ \A h \in DOMAIN c.slots : h # k => d.slots[h] = c.slots[h]
  /\ d.pipes = c.pipes /\ d.pending_events = c.pending_events /\ d.writes = c.writes

(* One field of the end of a pipe is assigned.                             *)
LEMMA MoveEnd ==
  ASSUME NEW c, Typed(c), NEW k, IsA(c, k, "MessagePipe"),
         NEW s \in 1..Len(c.pipes), NEW e \in 0..1
  PROVE  /\ EndMoved(c, [c EXCEPT !.slots[k].obj.state = s], k, s, c.slots[k].obj.end)
         /\ EndMoved(c, [c EXCEPT !.slots[k].obj.end = e], k, c.slots[k].obj.state, e)
<1> DEFINE o  == c.slots[k].obj
           os == [o EXCEPT !.state = s]
           oe == [o EXCEPT !.end = e]
           ds == [c EXCEPT !.slots[k].obj.state = s]
           de == [c EXCEPT !.slots[k].obj.end = e]
<1>1. o \in EndObjects(Len(c.pipes))
  BY DEF Typed, IsA, Lookup, SlotTyped
<1>2. ObjectSet(c, ds, k, os) /\ ds.pending_events = c.pending_events
  BY DEF ObjectSet, Typed, Table, Shape, CoreFields
<1>3. ObjectSet(c, de, k, oe) /\ de.pending_events = c.pending_events
  BY DEF ObjectSet, Typed, Table, Shape, CoreFields
<1> HIDE DEF o, ds, de
<1>4. os \in EndObjects(Len(c.pipes)) /\ oe \in EndObjects(Len(c.pipes))
  BY <1>1 DEF EndObjects
<1>5. os = [id |-> o.id, state |-> s, end |-> o.end] /\ oe = [id |-> o.id, state |-> o.state, end |-> e]
  BY <1>1 DEF EndObjects
<1> HIDE DEF os, oe
<1>6. EndMoved(c, ds, k, s, o.end)
  <2>1. /\ Typed(ds) /\ DOMAIN ds.slots = DOMAIN c.slots /\ ds.slots[k].obj = os
        /\ IsA(ds, k, "MessagePipe")
        /\ \A h \in DOMAIN c.slots : h # k => ds.slots[h] = c.slots[h]
    BY <1>2, <1>4, EndSet
  <2> QED BY <1>2, <1>5, <2>1 DEF EndMoved, ObjectSet, o
<1>7. EndMoved(c, de, k, o.state, e)
  <2>1. /\ Typed(de) /\ DOMAIN de.slots = DOMAIN c.slots /\ de.slots[k].obj = oe
        /\ IsA(de, k, "MessagePipe")
        /\ \A h \in DOMAIN c.slots : h # k => de.slots[h] = c.slots[h]
    BY <1>3, <1>4, EndSet
  <2> QED BY <1>3, <1>5, <2>1 DEF EndMoved, ObjectSet, o
<1> QED BY <1>6, <1>7 DEF o, ds, de

\* R is P with pipe state new after its last, and s0 and s1 emptied.
Spliced(P, R, s0, s1, new) ==
  /\ DOMAIN R = 1..(Len(P) + 1) /\ R[Len(P) + 1] = new
  /\ \A p \in DOMAIN P : /\ R[p].closed = P[p].closed
                         /\ p \in {s0, s1} => R[p].queues[0] = <<>> /\ R[p].queues[1] = <<>>
                         /\ p \notin {s0, s1} => R[p] = P[p]

\* The pipe states after a fusion.
Splice(P, s0, s1, none, new) ==
  Append([i \in DOMAIN P |-> IF i \in {s0, s1} THEN [P[i] EXCEPT !.queues = none] ELSE P[i]], new)

(* They are typed, and one more.                                           *)
LEMMA SplicedTyped ==
  ASSUME NEW P \in Seq(PipeStates), NEW s0, NEW s1, NEW new \in PipeStates,
         NEW none, none = [e \in 0..1 |-> IF e = 0 THEN <<>> ELSE <<>>]
  PROVE  LET R == Splice(P, s0, s1, none, new)
         IN  R \in Seq(PipeStates) /\ Len(R) = Len(P) + 1 /\ Spliced(P, R, s0, s1, new)
<1> DEFINE Q == [i \in DOMAIN P |-> IF i \in {s0, s1} THEN [P[i] EXCEPT !.queues = none] ELSE P[i]]
           R == Append(Q, new)
           n == Len(P)
<1>1. n \in Nat /\ DOMAIN P = 1..n
  OBVIOUS
<1>2. none \in [0..1 -> Seq(Msgs)] /\ none[0] = <<>> /\ none[1] = <<>>
  <2>1. <<>> \in Seq(Msgs)
    OBVIOUS
  <2>2. none = [e \in 0..1 |-> <<>>]
    OBVIOUS
  <2> QED BY <2>1, <2>2
<1>3. ASSUME NEW i \in 1..n
      PROVE  /\ Q[i] \in PipeStates /\ Q[i].closed = P[i].closed
             /\ i \in {s0, s1} => Q[i].queues[0] = <<>> /\ Q[i].queues[1] = <<>>
             /\ i \notin {s0, s1} => Q[i] = P[i]
  <2>1. P[i] \in PipeStates /\ Q[i] = IF i \in {s0, s1} THEN [P[i] EXCEPT !.queues = none] ELSE P[i]
    BY <1>1
  <2> HIDE DEF Q
  <2>2. [P[i] EXCEPT !.queues = none] \in PipeStates
    BY <1>2, <2>1 DEF PipeStates
  <2>3. LET x == [P[i] EXCEPT !.queues = none]
        IN  x.closed = P[i].closed /\ x.queues = none
    BY <2>1 DEF PipeStates
  <2> QED BY <1>2, <2>1, <2>2, <2>3
<1>4. Q = [i \in 1..n |-> Q[i]]
  BY <1>1
<1> HIDE DEF Q
<1>5. Q \in Seq(PipeStates) /\ Len(Q) = n /\ DOMAIN Q = 1..n
  <2>1. [i \in 1..n |-> Q[i]] \in Seq(PipeStates)
    BY <1>1, <1>3, IsASeq, SMTT(30)
  <2>2. DOMAIN Q = 1..n
    BY <1>4
  <2> QED BY <1>1, <1>4, <2>1, <2>2
<1>6. /\ R \in Seq(PipeStates) /\ Len(R) = n + 1 /\ DOMAIN R = 1..(n+1) /\ R[n+1] = new
      /\ \A i \in 1..n : R[i] = Q[i]
  BY <1>1, <1>5
<1> HIDE DEF R
<1>7. Spliced(P, R, s0, s1, new)
  BY <1>1, <1>3, <1>6 DEF Spliced
<1>8. Splice(P, s0, s1, none, new) = R
  BY DEF R, Q, Splice
<1> QED BY <1>6, <1>7, <1>8

\* h0 and h1 are ends of two pipes, whose other ends are k0 and k1.
Fusible(c, h0, h1, k0, k1) ==
  LET s0 == c.slots[h0].obj.state
      s1 == c.slots[h1].obj.state
  IN  /\ IsA(c, h0, "MessagePipe") /\ IsA(c, h1, "MessagePipe") /\ h0 # h1 /\ s0 # s1
      /\ IsA(c, k0, "MessagePipe") /\ c.slots[k0].obj.state = s0
      /\ IsA(c, k1, "MessagePipe") /\ c.slots[k1].obj.state = s1
      /\ c.slots[k0].obj.end = 1 - c.slots[h0].obj.end
      /\ c.slots[k1].obj.end = 1 - c.slots[h1].obj.end

\* h0 and h1 are gone, and k0 and k1 the ends 0 and 1 of a new pipe.
FusedEnds(c, d, h0, h1, k0, k1) ==
  LET f == Len(c.pipes) + 1
  IN  /\ \A h : IsA(d, h, "MessagePipe") <=> IsA(c, h, "MessagePipe") /\ h \notin {h0, h1}
      /\ \A h : IsA(d, h, "MessagePipe") /\ h \notin {k0, k1} => d.slots[h].obj = c.slots[h].obj
      /\ d.slots[k0].obj = [id |-> c.slots[k0].obj.id, state |-> f, end |-> 0]
      /\ d.slots[k1].obj = [id |-> c.slots[k1].obj.id, state |-> f, end |-> 1]

\* The new pipe has the queues of the two old ones.
FusedPipes(c, d, h0, h1) ==
  LET s0 == c.slots[h0].obj.state
      e0 == c.slots[h0].obj.end
      s1 == c.slots[h1].obj.state
      e1 == c.slots[h1].obj.end
      f  == Len(c.pipes) + 1
  IN  /\ Spliced(c.pipes, d.pipes, s0, s1, d.pipes[f])
      /\ d.pipes[f].queues[0] = c.pipes[s0].queues[1 - e0] \o c.pipes[s1].queues[e1]
      /\ d.pipes[f].queues[1] = c.pipes[s1].queues[1 - e1] \o c.pipes[s0].queues[e0]
      /\ d.pipes[f].closed[0] = FALSE /\ d.pipes[f].closed[1] = FALSE

\* d is c after the fusion of h0 and h1, whose peers are k0 and k1.
Fused(c, d, h0, h1, k0, k1) ==
  /\ Fusible(c, h0, h1, k0, k1)
  /\ FusedEnds(c, d, h0, h1, k0, k1) /\ FusedPipes(c, d, h0, h1)
  /\ Typed(d) /\ Settled(d) /\ SameTraps(c, d) /\ NewEvents(c, d) /\ d.writes = c.writes

(* WhpFuseMessagePipes: the peers of the two ends that go are the ends of  *)
(* a new pipe, whose queues are theirs followed by those of the other      *)
(* pipe in the same direction.                                             *)
LEMMA FuseEffect ==
  ASSUME NEW c, Typed(c), NEW h0, NEW h1, CanFuse(c, h0, h1)
  PROVE  \E k0, k1 : Fused(c, WhpFuseMessagePipes(c, h0, h1), h0, h1, k0, k1)
<1> DEFINE k0 == CHOOSE i \in PeerHandles(c, h0) : TRUE
           k1 == CHOOSE i \in PeerHandles(c, h1) : TRUE
           n  == Len(c.pipes)
           f  == n + 1
           s0 == c.slots[h0].obj.state
           e0 == c.slots[h0].obj.end
           s1 == c.slots[h1].obj.state
           e1 == c.slots[h1].obj.end
           Two(x, y) == [e \in 0..1 |-> IF e = 0 THEN x ELSE y]
           q0 == Inbound(c, k0) \o Inbound(c, h1)
           q1 == Inbound(c, k1) \o Inbound(c, h0)
           new == [queues      |-> Two(q0, q1),
                   closed      |-> Two(FALSE, FALSE),
                   quota_count |-> Two(Outbound(c, k0).quota_count[c.slots[k0].obj.end],
                                       Outbound(c, k1).quota_count[c.slots[k1].obj.end]),
                   quota_bytes |-> Two(Outbound(c, k0).quota_bytes[c.slots[k0].obj.end],
                                       Outbound(c, k1).quota_bytes[c.slots[k1].obj.end])]
           none == Two(<<>>, <<>>)
           P == Splice(c.pipes, s0, s1, none, new)
           x == [c EXCEPT !.pipes = P]
           a == [x EXCEPT !.slots[k0].obj.state = f]
           b == [a EXCEPT !.slots[k0].obj.end = 0]
           u == [b EXCEPT !.slots[k1].obj.state = f]
           g == [u EXCEPT !.slots[k1].obj.end = 1]
           v == Free(g, h0)
           d == CollectTrapEvents(Free(v, h1))
<1>1. WhpFuseMessagePipes(c, h0, h1) = d
  BY DEF WhpFuseMessagePipes, Splice
<1>2. /\ IsA(c, h0, "MessagePipe") /\ IsA(c, h1, "MessagePipe") /\ h0 # h1 /\ s0 # s1
      /\ k0 \in PeerHandles(c, h0) /\ k1 \in PeerHandles(c, h1)
  BY DEF CanFuse
<1> HIDE DEF k0, k1
<1>3. /\ IsA(c, k0, "MessagePipe") /\ c.slots[k0].obj.state = s0 /\ c.slots[k0].obj.end # e0
      /\ IsA(c, k1, "MessagePipe") /\ c.slots[k1].obj.state = s1 /\ c.slots[k1].obj.end # e1
  BY <1>2 DEF PeerHandles
<1>4. /\ c.slots[h0].obj \in EndObjects(n) /\ c.slots[h1].obj \in EndObjects(n)
      /\ c.slots[k0].obj \in EndObjects(n) /\ c.slots[k1].obj \in EndObjects(n)
      /\ c.pipes \in Seq(PipeStates) /\ n \in Nat
  BY <1>2, <1>3 DEF Typed, IsA, Lookup, SlotTyped
<1>5. /\ s0 \in 1..n /\ s1 \in 1..n /\ e0 \in 0..1 /\ e1 \in 0..1
      /\ c.slots[k0].obj.end \in 0..1 /\ c.slots[k1].obj.end \in 0..1
  BY <1>4 DEF EndObjects
<1>6. c.slots[k0].obj.end = 1 - e0 /\ c.slots[k1].obj.end = 1 - e1
  BY <1>3, <1>5
<1>7. k0 # k1 /\ k0 \notin {h0, h1} /\ k1 \notin {h0, h1}
  BY <1>2, <1>3
<1> HIDE DEF s0, s1, e0, e1, n
<1>8. c.pipes[s0] \in PipeStates /\ c.pipes[s1] \in PipeStates
  BY <1>4, <1>5 DEF n
<1>9. /\ Inbound(c, k0) = c.pipes[s0].queues[1 - e0] /\ Inbound(c, h1) = c.pipes[s1].queues[e1]
      /\ Inbound(c, k1) = c.pipes[s1].queues[1 - e1] /\ Inbound(c, h0) = c.pipes[s0].queues[e0]
  BY <1>3, <1>6 DEF Inbound, Outbound, s0, s1, e0, e1
<1>10. 1 - e0 \in 0..1 /\ 1 - e1 \in 0..1
  BY <1>5
<1>11. q0 \in Seq(Msgs) /\ q1 \in Seq(Msgs)
  <2>1. \A s \in PipeStates, e \in 0..1 : s.queues[e] \in Seq(Msgs)
    BY DEF PipeStates
  <2> QED BY <1>5, <1>8, <1>9, <1>10, <2>1
<1>12. new \in PipeStates
  <2>1. \A s \in PipeStates, e \in 0..1 : s.quota_count[e] \in Nat /\ s.quota_bytes[e] \in Nat
    BY DEF PipeStates
  <2>2. /\ Outbound(c, k0).quota_count[c.slots[k0].obj.end] \in Nat
        /\ Outbound(c, k1).quota_count[c.slots[k1].obj.end] \in Nat
        /\ Outbound(c, k0).quota_bytes[c.slots[k0].obj.end] \in Nat
        /\ Outbound(c, k1).quota_bytes[c.slots[k1].obj.end] \in Nat
    BY <1>3, <1>5, <1>8, <2>1 DEF Outbound
  <2>3. /\ \A y, z \in Nat : Two(y, z) \in [0..1 -> Nat]
        /\ \A y, z \in Seq(Msgs) : Two(y, z) \in [0..1 -> Seq(Msgs)]
        /\ Two(FALSE, FALSE) \in [0..1 -> BOOLEAN]
    OBVIOUS
  <2> HIDE DEF Two, q0, q1
  <2> QED BY <1>11, <2>2, <2>3 DEF PipeStates
<1>13. /\ new.queues[0] = q0 /\ new.queues[1] = q1
       /\ new.closed[0] = FALSE /\ new.closed[1] = FALSE
  OBVIOUS
<1> HIDE DEF new, q0, q1
<1>14. P \in Seq(PipeStates) /\ Len(P) = n + 1 /\ Spliced(c.pipes, P, s0, s1, new)
  <2>1. none = [e \in 0..1 |-> IF e = 0 THEN <<>> ELSE <<>>]
    OBVIOUS
  <2> HIDE DEF none
  <2> QED BY <1>4, <1>12, <2>1, SplicedTyped DEF n
<1> HIDE DEF P, none
<1>15. /\ DOMAIN x = CoreFields /\ x.slots = c.slots /\ x.free_list = c.free_list
       /\ x.traps = c.traps /\ x.pipes = P /\ x.pending_events = c.pending_events
       /\ x.messages = c.messages /\ x.writes = c.writes /\ x.ntraps = c.ntraps
  BY DEF Typed, Table, Shape, CoreFields
<1> HIDE DEF x
<1>16. Typed(x)
  <2>1. /\ \E S : x.pending_events \in Seq(S)
        /\ x.messages \in Nat /\ x.writes \in Nat /\ x.ntraps \in Nat
    BY <1>15 DEF Typed
  <2>2. Len(P) >= Len(c.pipes)
    BY <1>4, <1>14 DEF n
  <2> QED BY <1>14, <1>15, <2>1, <2>2, TypedFields
<1> HIDE DEF Two
<1>17. f \in 1..f /\ n \in Nat /\ f = Len(P) /\ 0 \in 0..1 /\ 1 \in 0..1
  BY <1>4, <1>14
<1>18. x.slots[k0].obj = c.slots[k0].obj /\ IsA(x, k0, "MessagePipe") /\ IsA(x, k1, "MessagePipe")
  BY <1>3, <1>15 DEF IsA, Lookup
<1> HIDE DEF f
<1>19. EndMoved(x, a, k0, f, x.slots[k0].obj.end)
  BY <1>15, <1>16, <1>17, <1>18, MoveEnd
<1> HIDE DEF a
<1>20. EndMoved(a, b, k0, f, 0)
  <2>1. Typed(a) /\ IsA(a, k0, "MessagePipe") /\ f \in 1..Len(a.pipes) /\ a.slots[k0].obj.state = f
    BY <1>15, <1>17, <1>19 DEF EndMoved
  <2> QED BY <1>17, <2>1, MoveEnd
<1> HIDE DEF b
<1>21. IsA(a, k1, "MessagePipe") /\ IsA(b, k1, "MessagePipe")
  BY <1>7, <1>18, <1>19, <1>20 DEF EndMoved, IsA, Lookup
<1>22. EndMoved(b, u, k1, f, b.slots[k1].obj.end)
  <2>1. Typed(b) /\ f \in 1..Len(b.pipes)
    BY <1>15, <1>17, <1>19, <1>20 DEF EndMoved
  <2> QED BY <1>17, <1>21, <2>1, MoveEnd
<1> HIDE DEF u
<1>23. EndMoved(u, g, k1, f, 1)
  <2>1. Typed(u) /\ f \in 1..Len(u.pipes) /\ IsA(u, k1, "MessagePipe") /\ u.slots[k1].obj.state = f
    BY <1>15, <1>17, <1>19, <1>20, <1>22 DEF EndMoved
  <2> QED BY <1>17, <2>1, MoveEnd
<1> HIDE DEF g
<1>24. k0 \in DOMAIN c.slots /\ k1 \in DOMAIN c.slots
  BY <1>3 DEF IsA, Lookup
<1>25. /\ Typed(g) /\ DOMAIN g.slots = DOMAIN c.slots
       /\ g.pipes = P /\ g.pending_events = c.pending_events /\ g.writes = c.writes
       /\ \A h \in DOMAIN c.slots : h \notin {k0, k1} => g.slots[h] = c.slots[h]
  BY <1>15, <1>19, <1>20, <1>22, <1>23 DEF EndMoved
<1>26. /\ b.slots[k0].obj = [id |-> c.slots[k0].obj.id, state |-> f, end |-> 0]
       /\ b.slots[k1] = c.slots[k1] /\ IsA(b, k0, "MessagePipe")
  BY <1>7, <1>15, <1>18, <1>19, <1>20, <1>24 DEF EndMoved
<1>27. /\ g.slots[k0].obj = [id |-> c.slots[k0].obj.id, state |-> f, end |-> 0]
       /\ g.slots[k1].obj = [id |-> c.slots[k1].obj.id, state |-> f, end |-> 1]
       /\ IsA(g, k0, "MessagePipe") /\ IsA(g, k1, "MessagePipe")
  BY <1>7, <1>15, <1>19, <1>20, <1>22, <1>23, <1>24, <1>26 DEF EndMoved, IsA, Lookup
<1>28. /\ \A h : IsA(g, h, "MessagePipe") <=> IsA(c, h, "MessagePipe")
       /\ \A h : IsA(g, h, "MessagePipe") /\ h \notin {k0, k1} => g.slots[h].obj = c.slots[h].obj
       /\ \A h : IsA(g, h, "Trap") <=> IsA(c, h, "Trap")
       /\ \A h : IsA(g, h, "Trap") => g.slots[h].obj = c.slots[h].obj
  BY <1>3, <1>25, <1>27 DEF IsA, Lookup
<1>29. /\ Lookup(g, h0) /\ g.slots[h0].kind # "Trap" /\ IsA(g, h1, "MessagePipe")
       /\ h0 \in DOMAIN g.slots
  BY <1>2, <1>28 DEF IsA, Lookup
<1>30. Typed(v) /\ Freed(g, v, h0)
  BY <1>25, <1>29, TypedFree
<1> HIDE DEF v
<1>31. /\ DOMAIN v.slots = DOMAIN g.slots /\ v.slots[h0].kind = "Free"
       /\ \A h \in DOMAIN g.slots : h # h0 => v.slots[h] = g.slots[h]
       /\ v.pipes = g.pipes /\ v.pending_events = g.pending_events /\ v.writes = g.writes
  BY <1>30 DEF Freed, SameRest, FreeSlot
<1>32. Lookup(v, h1) /\ v.slots[h1].kind # "Trap"
  BY <1>2, <1>29, <1>31 DEF IsA, Lookup
<1>33. FreedAndCollected(v, d, h1)
  BY <1>30, <1>32, FreeCollect
<1> HIDE DEF d
<1>34. /\ \A h : IsA(v, h, "MessagePipe") <=> IsA(g, h, "MessagePipe") /\ h # h0
       /\ \A h : IsA(v, h, "MessagePipe") => v.slots[h] = g.slots[h]
       /\ \A h : IsA(v, h, "Trap") <=> IsA(g, h, "Trap")
       /\ \A h : IsA(v, h, "Trap") => v.slots[h] = g.slots[h]
  BY <1>29, <1>31 DEF IsA, Lookup
<1>35. /\ \A h : IsA(d, h, "MessagePipe") <=> IsA(c, h, "MessagePipe") /\ h \notin {h0, h1}
       /\ \A h : IsA(d, h, "MessagePipe") => d.slots[h].obj = g.slots[h].obj
  BY <1>28, <1>33, <1>34 DEF FreedAndCollected, SameEnds
<1>36. SameTraps(c, d)
  BY <1>28, <1>33, <1>34 DEF FreedAndCollected, SameTraps
<1>37. NewEvents(c, d)
  <2>1. \A h, e : IsA(v, h, "Trap") /\ EventOf(v, h, e) => IsA(c, h, "Trap") /\ EventOf(c, h, e)
    BY <1>28, <1>34 DEF EventOf
  <2> QED BY <1>25, <1>31, <1>33, <2>1 DEF FreedAndCollected, NewEvents
<1>38. d.pipes = P /\ d.writes = c.writes /\ Typed(d) /\ Settled(d)
  BY <1>25, <1>31, <1>33 DEF FreedAndCollected, SameCounters
<1>39. /\ \A h : IsA(d, h, "MessagePipe") /\ h \notin {k0, k1} => d.slots[h].obj = c.slots[h].obj
       /\ d.slots[k0].obj = [id |-> c.slots[k0].obj.id, state |-> f, end |-> 0]
       /\ d.slots[k1].obj = [id |-> c.slots[k1].obj.id, state |-> f, end |-> 1]
  BY <1>3, <1>7, <1>27, <1>28, <1>35
<1>40. Spliced(c.pipes, d.pipes, s0, s1, d.pipes[f]) /\ d.pipes[f] = new
  BY <1>14, <1>38 DEF Spliced, f, n
<1>41. /\ d.pipes[f].queues[0] = c.pipes[s0].queues[1 - e0] \o c.pipes[s1].queues[e1]
       /\ d.pipes[f].queues[1] = c.pipes[s1].queues[1 - e1] \o c.pipes[s0].queues[e0]
       /\ d.pipes[f].closed[0] = FALSE /\ d.pipes[f].closed[1] = FALSE
  BY <1>9, <1>13, <1>40 DEF q0, q1
<1>42. Fusible(c, h0, h1, k0, k1)
  BY <1>2, <1>3, <1>6 DEF Fusible, s0, s1, e0, e1
<1>43. FusedEnds(c, d, h0, h1, k0, k1)
  BY <1>35, <1>39 DEF FusedEnds, f, n
<1>44. FusedPipes(c, d, h0, h1)
  BY <1>40, <1>41 DEF FusedPipes, s0, s1, e0, e1, f, n
<1> QED BY <1>1, <1>36, <1>37, <1>38, <1>42, <1>43, <1>44 DEF Fused

=============================================================================
