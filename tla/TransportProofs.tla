---------------------------- MODULE TransportProofs ----------------------------
(***************************************************************************)
(* Proofs about what carries bytes in HolePunch, DataPipe and Invitation,  *)
(* in the two parts of this module.                                        *)
(*                                                                         *)
(* A data pipe, for every capacity, element size, modulus and bound on the *)
(* stream, keeps what was written for the consumer, in order.              *)
(*                                                                         *)
(* Of two peers that punch and shake hands: over a reliable network each   *)
(* is past its drain before the other one is attached, and the first frame *)
(* that it gets from an attached one ends its handshake (Ordered), however *)
(* their polls time out; what each sees of the other is Right on every     *)
(* network.                                                                *)
(***************************************************************************)
EXTENDS DataPipe, Invitation, SequenceTheorems, TLAPS

-----------------------------------------------------------------------------
(* Data pipes.                                                             *)

(* Remainders: their range, and their value when nothing wraps or once.    *)
LEMMA ModRange ==
  ASSUME NEW m \in Nat \ {0}, NEW x \in Int
  PROVE  x % m \in 0..(m - 1)
OBVIOUS

\* A number below the modulus is its own remainder.
LEMMA ModSmall ==
  ASSUME NEW m \in Nat \ {0}, NEW x \in 0..(m - 1)
  PROVE  x % m = x
OBVIOUS

\* One modulus too many is taken off once.
LEMMA ModOnce ==
  ASSUME NEW m \in Nat \ {0}, NEW x \in m..(2 * m - 1)
  PROVE  x % m = x - m
OBVIOUS

\* A remainder is no larger than the number.
LEMMA ModLe ==
  ASSUME NEW m \in Nat \ {0}, NEW x \in Nat
  PROVE  x % m \in 0..x
OBVIOUS

(* Rounding down to whole elements.                                        *)
LEMMA WholeRange ==
  ASSUME NEW n, n \in Nat
  PROVE  Whole(n) \in 0..n
BY DataPipeAssumption, ModLe DEF Whole

\* Lesser returns one of its arguments, and no more than either.
LEMMA LesserRange ==
  ASSUME NEW a, NEW b, a \in Nat, b \in Nat
  PROVE  Lesser(a, b) \in Nat /\ Lesser(a, b) <= a /\ Lesser(a, b) <= b
BY DEF Lesser

(* Moving around the ring.                                                 *)
LEMMA ForwardType ==
  ASSUME NEW i, NEW n, i \in Nat, n \in Nat
  PROVE  Forward(i, n) \in Offsets
BY DataPipeAssumption, ModRange DEF Forward, Offsets

\* Moving forward in the ring, without the modulo.
LEMMA ForwardValue ==
  ASSUME NEW i, NEW n, i \in Offsets, n \in 0..Capacity
  PROVE  Forward(i, n) = IF i + n < Capacity THEN i + n ELSE i + n - Capacity
<1>1. CASE i + n < Capacity
  BY <1>1, DataPipeAssumption, ModSmall DEF Forward, Offsets
<1>2. CASE i + n >= Capacity
  BY <1>2, DataPipeAssumption, ModOnce DEF Forward, Offsets
<1> QED BY <1>1, <1>2, DataPipeAssumption DEF Offsets

\* uint32_t arithmetic stays within a word.
LEMMA WordTypes ==
  ASSUME NEW a, NEW b, a \in Int, b \in Int
  PROVE  Plus(a, b) \in 0..(Word - 1) /\ Minus(a, b) \in 0..(Word - 1)
BY DataPipeAssumption, ModRange DEF Plus, Minus

\* The numeric fields of DataPipeState are natural numbers.
LEMMA NaturalFields ==
  ASSUME TypeOK
  PROVE  /\ r \in Nat /\ w \in Nat /\ r < Capacity /\ w < Capacity
         /\ available \in Nat /\ sent \in Nat /\ stored \in Nat
         /\ two_phase_write # Null => two_phase_write \in Nat
         /\ two_phase_read # Null => two_phase_read \in Nat
         /\ Capacity \in Nat /\ Offsets \subseteq Nat
BY DataPipeAssumption DEF TypeOK, Offsets, Region

(* What the calls compute from the state, whatever the client mixes.       *)
LEMMA CountTypes ==
  ASSUME TypeOK, NEW n, n \in Nat
  PROVE  /\ BytesToWrite(n) \in 0..n
         /\ BytesToRead(n) \in 0..n /\ BytesToRead(n) <= available
         /\ WriteRegion(n) \in 0..(Capacity - w)
         /\ ReadRegion(n) \in 0..(Capacity - r) /\ ReadRegion(n) <= available
<1> DEFINE space == Minus(Capacity, available)
           cw    == Capacity - w
           cr    == Capacity - r
<1>0. Capacity \in Int /\ available \in Nat /\ cw \in Nat /\ cr \in Nat
  BY NaturalFields
<1>1. space \in Nat /\ cw \in Nat /\ cr \in Nat /\ available \in Nat
  <2>1. space \in 0..(Word - 1)
    BY <1>0, WordTypes
  <2> QED BY <1>0, <2>1, DataPipeAssumption
<1>2. /\ BytesToWrite(n) = Whole(Lesser(n, space))
      /\ BytesToRead(n) = Whole(Lesser(n, available))
      /\ WriteRegion(n) = Whole(Lesser(Lesser(space, cw), n))
      /\ ReadRegion(n) = Whole(Lesser(Lesser(available, cr), n))
  BY DEF BytesToWrite, BytesToRead, WriteRegion, ReadRegion
<1> HIDE DEF space, cw, cr
<1>3. Lesser(n, space) \in Nat /\ Lesser(n, space) <= n
  BY <1>1, LesserRange
<1>4. Lesser(n, available) \in Nat /\ Lesser(n, available) <= n
      /\ Lesser(n, available) <= available
  BY <1>1, LesserRange
<1>5. /\ Lesser(space, cw) \in Nat /\ Lesser(space, cw) <= cw
      /\ Lesser(available, cr) \in Nat /\ Lesser(available, cr) <= cr
      /\ Lesser(available, cr) <= available
  BY <1>1, LesserRange
<1>6. /\ Lesser(Lesser(space, cw), n) \in Nat
      /\ Lesser(Lesser(space, cw), n) <= Lesser(space, cw)
      /\ Lesser(Lesser(available, cr), n) \in Nat
      /\ Lesser(Lesser(available, cr), n) <= Lesser(available, cr)
  BY <1>5, LesserRange
<1>7. BytesToWrite(n) \in 0..n
  BY <1>2, <1>3, WholeRange
<1>8. BytesToRead(n) \in 0..n /\ BytesToRead(n) <= available
  BY <1>1, <1>2, <1>4, WholeRange
<1>9. WriteRegion(n) \in 0..cw
  BY <1>1, <1>2, <1>5, <1>6, WholeRange
<1>10. ReadRegion(n) \in 0..cr /\ ReadRegion(n) <= available
  BY <1>1, <1>2, <1>5, <1>6, WholeRange
<1> QED BY <1>7, <1>8, <1>9, <1>10 DEF cw, cr

(* The bytes a read returns are bytes.                                     *)
LEMMA BytesAtType ==
  ASSUME TypeOK, NEW i, NEW n, i \in Nat, n \in Nat
  PROVE  /\ BytesAt(i, n) \in Seq(Nat) /\ Len(BytesAt(i, n)) = n
         /\ \A k \in 1..n : BytesAt(i, n)[k] = buf[Forward(i, k - 1)]
<1>1. \A k \in 1..n : buf[Forward(i, k - 1)] \in Nat
  BY ForwardType DEF TypeOK
<1> QED BY <1>1 DEF BytesAt

-----------------------------------------------------------------------------
(* The fields keep their types and the regions of two-phase calls lie      *)
(* inside buf, in every reachable state and for every client.              *)
THEOREM TypeTheorem == Spec => [](TypeOK /\ RegionsInBounds)
<1> DEFINE Inv == TypeOK /\ RegionsInBounds
<1> USE DataPipeAssumption
<1>1. Init => Inv
  BY DEF Init, TypeOK, RegionsInBounds, Offsets, Region, Null
<1>2. Inv /\ [Next]_vars => Inv'
  <2> SUFFICES ASSUME Inv, [Next]_vars PROVE Inv'
    OBVIOUS
  <2> USE DEF ring, ends, writing, reading, vars
  <2>0. Counts \subseteq Nat
    BY DEF Counts
  <2>1. ASSUME NEW x \in Watches, ArmTrap(x) PROVE Inv'
    BY <2>1 DEF ArmTrap, TypeOK, RegionsInBounds
  <2>2. ASSUME NEW n \in Counts, WhpWriteData(n) PROVE Inv'
    <3>1. BytesToWrite(n) \in Nat
      BY <2>0, CountTypes
    <3>2. w' \in Offsets /\ available' \in 0..(Word - 1) /\ sent' \in Nat
      BY <2>2, <3>1, ForwardType, WordTypes, NaturalFields DEF WhpWriteData
    <3>3. buf' \in [Offsets -> Nat]
      <4>1. ASSUME NEW i \in Offsets
            PROVE  /\ Ahead(i, w) \in Nat
                   /\ sent + LastPut(Ahead(i, w), BytesToWrite(n)) \in Nat
        <5>1. Ahead(i, w) \in Nat
          BY <4>1, NaturalFields DEF Ahead
        <5> QED BY <3>1, <5>1, NaturalFields DEF LastPut
      <4> QED BY <2>2, <4>1 DEF WhpWriteData, TypeOK
    <3>4. armed' \subseteq AllWatches
      BY <2>2 DEF WhpWriteData, CollectTrapEvents, TypeOK
    <3> QED BY <2>2, <3>2, <3>3, <3>4 DEF WhpWriteData, TypeOK, RegionsInBounds
  <2>3. ASSUME NEW n \in Counts, WhpReadData(n) PROVE Inv'
    <3>1. BytesToRead(n) \in Nat
      BY <2>0, CountTypes
    <3>2. r' \in Offsets /\ available' \in 0..(Word - 1)
      BY <2>3, <3>1, ForwardType, WordTypes, NaturalFields DEF WhpReadData
    <3>3. received' \in Seq(Nat)
      BY <2>3, <3>1, BytesAtType, NaturalFields, SMTT(30) DEF WhpReadData, TypeOK
    <3>4. armed' \subseteq AllWatches
      BY <2>3 DEF WhpReadData, CollectTrapEvents, TypeOK
    <3> QED BY <2>3, <3>2, <3>3, <3>4 DEF WhpReadData, TypeOK, RegionsInBounds
  <2>4. ASSUME NEW n \in Counts, WhpBeginWriteData(n) PROVE Inv'
    <3>1. /\ WriteRegion(n) \in 0..(Capacity - w)
          /\ two_phase_write' = w /\ two_phase_write_max' = WriteRegion(n) /\ stored' = 0
      BY <2>0, <2>4, CountTypes DEF WhpBeginWriteData
    <3>2. /\ two_phase_write' \in Offsets /\ two_phase_write_max' \in Region
          /\ stored' \in Region /\ two_phase_write' + two_phase_write_max' <= Capacity
          /\ stored' <= two_phase_write_max'
      BY <3>1, NaturalFields DEF TypeOK, Region
    <3> QED BY <2>4, <3>2 DEF WhpBeginWriteData, TypeOK, RegionsInBounds
  <2>5. CASE StoreByte
    <3>1. buf' \in [Offsets -> Nat]
      <4>1. sent + stored + 1 \in Nat
        BY NaturalFields
      <4> QED BY <2>5, <4>1 DEF StoreByte, TypeOK
    <3> QED BY <2>5, <3>1 DEF StoreByte, TypeOK, RegionsInBounds, Offsets, Region
  <2>6. ASSUME NEW n \in Counts, WhpEndWriteData(n) PROVE Inv'
    <3>1. w' \in Offsets /\ available' \in 0..(Word - 1) /\ sent' \in Nat
      BY <2>0, <2>6, ForwardType, WordTypes, NaturalFields DEF WhpEndWriteData
    <3>2. armed' \subseteq AllWatches
      BY <2>6 DEF WhpEndWriteData, CollectTrapEvents, TypeOK
    <3> QED BY <2>6, <3>1, <3>2
            DEF WhpEndWriteData, TypeOK, RegionsInBounds, Region
  <2>7. ASSUME NEW n \in Counts, WhpEndWriteDataRefused(n) PROVE Inv'
    BY <2>7 DEF WhpEndWriteDataRefused, TypeOK, RegionsInBounds, Region
  <2>8. ASSUME NEW n \in Counts, WhpBeginReadData(n) PROVE Inv'
    <3>1. /\ ReadRegion(n) \in 0..(Capacity - r)
          /\ two_phase_read' = r /\ two_phase_read_max' = ReadRegion(n)
      BY <2>0, <2>8, CountTypes DEF WhpBeginReadData
    <3>2. /\ two_phase_read' \in Offsets /\ two_phase_read_max' \in Region
          /\ two_phase_read' + two_phase_read_max' <= Capacity
      BY <3>1, NaturalFields DEF TypeOK, Region
    <3> QED BY <2>8, <3>2 DEF WhpBeginReadData, TypeOK, RegionsInBounds
  <2>9. ASSUME NEW n \in Counts, WhpEndReadData(n) PROVE Inv'
    <3>1. r' \in Offsets /\ available' \in 0..(Word - 1)
      BY <2>0, <2>9, ForwardType, WordTypes, NaturalFields DEF WhpEndReadData
    <3>2. received' \in Seq(Nat)
      BY <2>0, <2>9, BytesAtType, NaturalFields, SMTT(30) DEF WhpEndReadData, TypeOK
    <3>3. armed' \subseteq AllWatches
      BY <2>9 DEF WhpEndReadData, CollectTrapEvents, TypeOK
    <3> QED BY <2>9, <3>1, <3>2, <3>3 DEF WhpEndReadData, TypeOK, RegionsInBounds
  <2>10. ASSUME NEW n \in Counts, WhpEndReadDataRefused(n) PROVE Inv'
    BY <2>10 DEF WhpEndReadDataRefused, TypeOK, RegionsInBounds
  <2>11. CASE CloseProducer
    BY <2>11 DEF CloseProducer, CollectTrapEvents, TypeOK, RegionsInBounds
  <2>12. CASE CloseConsumer
    BY <2>12 DEF CloseConsumer, CollectTrapEvents, TypeOK, RegionsInBounds
  <2>13. CASE UNCHANGED vars
    BY <2>13 DEF TypeOK, RegionsInBounds
  <2> QED BY <2>1, <2>2, <2>3, <2>4, <2>5, <2>6, <2>7, <2>8, <2>9, <2>10, <2>11,
             <2>12, <2>13 DEF Next
<1> QED BY <1>1, <1>2, PTL DEF Spec

-----------------------------------------------------------------------------
(* When no client mixes the phases, uint32_t arithmetic never wraps.       *)
LEMMA NoWrap ==
  ASSUME TypeOK, available <= Capacity, NEW n, n \in Nat
  PROVE  /\ BytesToWrite(n) <= Capacity - available
         /\ WriteRegion(n) <= Capacity - available
         /\ \A k \in 0..(Capacity - available) : Plus(available, k) = available + k
         /\ \A k \in 0..available : Minus(available, k) = available - k
<1> DEFINE space == Capacity - available
<1>1. space \in Nat /\ available \in Nat /\ Capacity \in Nat /\ Capacity < Word
      /\ Word \in Nat /\ Capacity - w \in Nat
  BY DataPipeAssumption, NaturalFields
<1>2. Minus(Capacity, available) = space
  BY <1>1, ModSmall DEF Minus
<1>3. /\ BytesToWrite(n) = Whole(Lesser(n, space))
      /\ WriteRegion(n) = Whole(Lesser(Lesser(space, Capacity - w), n))
  BY <1>2 DEF BytesToWrite, WriteRegion
<1>4. /\ \A k \in 0..space : Plus(available, k) = available + k
      /\ \A k \in 0..available : Minus(available, k) = available - k
  BY <1>1, ModSmall, SMTT(30) DEF Plus, Minus
<1> HIDE DEF space
<1>5. Lesser(n, space) \in Nat /\ Lesser(n, space) <= space
  BY <1>1, LesserRange
<1>6. Lesser(space, Capacity - w) \in Nat /\ Lesser(space, Capacity - w) <= space
  BY <1>1, LesserRange
<1>7. /\ Lesser(Lesser(space, Capacity - w), n) \in Nat
      /\ Lesser(Lesser(space, Capacity - w), n) <= space
  BY <1>1, <1>6, LesserRange
<1>8. BytesToWrite(n) <= space /\ WriteRegion(n) <= space
  BY <1>1, <1>3, <1>5, <1>7, WholeRange
<1> QED BY <1>4, <1>8 DEF space

(* The ring stays consistent, for every order of the calls of both ends,   *)
(* as long as an end starts no one-phase call during its two-phase call.   *)
LEMMA RingStep ==
  ASSUME ~MixPhases, TypeOK, RegionsInBounds, RingConsistent, [Next]_vars
  PROVE  RingConsistent'
<1> USE DataPipeAssumption DEF ring, ends, writing, reading, vars
<1>0. /\ Counts \subseteq Nat /\ available \in 0..Capacity /\ r \in Offsets /\ w \in Offsets
      /\ Ahead(w, r) = IF available = Capacity THEN 0 ELSE available
  BY NaturalFields DEF Counts, RingConsistent, TypeOK
<1>1. ASSUME NEW n \in Counts, WhpWriteData(n) PROVE RingConsistent'
  <2> DEFINE m == BytesToWrite(n)
  <2>0. n \in Nat /\ available <= Capacity
    BY <1>0
  <2>1. m \in 0..(Capacity - available) /\ Plus(available, m) = available + m
    <3>1. m \in 0..n /\ m <= Capacity - available
      BY <2>0, CountTypes, NoWrap
    <3>2. m \in 0..(Capacity - available)
      BY <2>0, <3>1, NaturalFields
    <3> QED BY <2>0, <3>2, NoWrap
  <2>2. /\ w' = Forward(w, m) /\ available' = available + m /\ r' = r
        /\ two_phase_write = Null /\ UNCHANGED <<writing, reading>>
    BY <1>1, <2>1 DEF WhpWriteData, Idle
  <2> HIDE DEF m
  <2>3. Ahead(w', r') = IF available' = Capacity THEN 0 ELSE available'
    BY <1>0, <2>1, <2>2, ForwardValue DEF Ahead, Offsets
  <2> QED BY <1>0, <2>1, <2>2, <2>3, NaturalFields DEF RingConsistent, TypeOK, Region
<1>2. ASSUME NEW n \in Counts, WhpReadData(n) PROVE RingConsistent'
  <2> DEFINE m == BytesToRead(n)
  <2>1. m \in 0..available /\ Minus(available, m) = available - m
    BY <1>0, CountTypes, NoWrap
  <2>2. /\ r' = Forward(r, m) /\ available' = available - m /\ w' = w
        /\ two_phase_read = Null /\ UNCHANGED <<writing, reading>>
    BY <1>2, <2>1 DEF WhpReadData, Idle
  <2> HIDE DEF m
  <2>3. Ahead(w', r') = IF available' = Capacity THEN 0 ELSE available'
    BY <1>0, <2>1, <2>2, ForwardValue DEF Ahead, Offsets
  <2> QED BY <1>0, <2>1, <2>2, <2>3, NaturalFields DEF RingConsistent, TypeOK, Region
<1>3. ASSUME NEW n \in Counts, WhpBeginWriteData(n) PROVE RingConsistent'
  BY <1>0, <1>3, NoWrap DEF WhpBeginWriteData, RingConsistent, Ahead
<1>4. ASSUME NEW n \in Counts, WhpBeginReadData(n) PROVE RingConsistent'
  BY <1>0, <1>4, CountTypes DEF WhpBeginReadData, RingConsistent, Ahead
<1>5. ASSUME NEW n \in Counts, WhpEndWriteData(n) PROVE RingConsistent'
  <2>1. n \in 0..(Capacity - available) /\ Plus(available, n) = available + n
    <3>1. n \in Nat /\ n <= stored /\ stored <= two_phase_write_max
          /\ two_phase_write_max <= Capacity - available
      BY <1>0, <1>5 DEF WhpEndWriteData, RegionsInBounds, RingConsistent
    <3>2. stored \in Nat /\ two_phase_write_max \in Nat
      BY DEF TypeOK, Region
    <3>3. n \in 0..(Capacity - available)
      BY <1>0, <3>1, <3>2
    <3> QED BY <1>0, <3>1, <3>3, NoWrap
  <2>2. /\ w' = Forward(w, n) /\ available' = available + n /\ r' = r
        /\ two_phase_write' = Null /\ UNCHANGED reading
    BY <1>5, <2>1 DEF WhpEndWriteData
  <2>3. Ahead(w', r') = IF available' = Capacity THEN 0 ELSE available'
    BY <1>0, <2>1, <2>2, ForwardValue DEF Ahead, Offsets
  <2> QED BY <1>0, <2>1, <2>2, <2>3, NaturalFields DEF RingConsistent, TypeOK, Region
<1>6. ASSUME NEW n \in Counts, WhpEndReadData(n) PROVE RingConsistent'
  <2>1. n \in 0..available /\ Minus(available, n) = available - n
    <3>1. n \in Nat /\ n <= two_phase_read_max /\ two_phase_read_max <= available
      BY <1>0, <1>6 DEF WhpEndReadData, RingConsistent
    <3>2. two_phase_read_max \in Nat
      BY DEF TypeOK, Region
    <3>3. n \in 0..available
      BY <1>0, <3>1, <3>2
    <3> QED BY <1>0, <3>1, <3>3, NoWrap
  <2>2. /\ r' = Forward(r, n) /\ available' = available - n /\ w' = w
        /\ two_phase_read' = Null /\ UNCHANGED writing
    BY <1>6, <2>1 DEF WhpEndReadData
  <2>3. Ahead(w', r') = IF available' = Capacity THEN 0 ELSE available'
    BY <1>0, <2>1, <2>2, ForwardValue DEF Ahead, Offsets
  <2> QED BY <1>0, <2>1, <2>2, <2>3, NaturalFields, SMTT(30) DEF RingConsistent, TypeOK, Region
<1>7. CASE StoreByte
  BY <1>7 DEF StoreByte, RingConsistent, Ahead
<1>8. ASSUME NEW n \in Counts, WhpEndWriteDataRefused(n) \/ WhpEndReadDataRefused(n)
      PROVE  RingConsistent'
  BY <1>8 DEF WhpEndWriteDataRefused, WhpEndReadDataRefused, RingConsistent, Ahead
<1>9. CASE CloseProducer \/ CloseConsumer
  BY <1>9 DEF CloseProducer, CloseConsumer, RingConsistent, Ahead
<1>10. CASE UNCHANGED vars
  BY <1>10 DEF RingConsistent, Ahead
<1>11. ASSUME NEW x \in Watches, ArmTrap(x) PROVE RingConsistent'
  BY <1>11 DEF ArmTrap, RingConsistent, Ahead
<1> QED BY <1>1, <1>2, <1>3, <1>4, <1>5, <1>6, <1>7, <1>8, <1>9, <1>10, <1>11 DEF Next

(* Regions that a consistent ring hands out at the same time are disjoint. *)
LEMMA ConsistentDisjoint ==
  ASSUME TypeOK, RegionsInBounds, RingConsistent
  PROVE  RegionsDisjoint
<1> SUFFICES ASSUME two_phase_write # Null, two_phase_read # Null
             PROVE  \/ two_phase_write + two_phase_write_max <= two_phase_read
                    \/ two_phase_read + two_phase_read_max <= two_phase_write
  BY DEF RegionsDisjoint
<1>1. /\ two_phase_write = w /\ two_phase_write_max <= Capacity - available
      /\ two_phase_read = r /\ two_phase_read_max <= available
      /\ Ahead(w, r) = IF available = Capacity THEN 0 ELSE available
      /\ available <= Capacity
  BY DEF RingConsistent
<1>2. two_phase_write_max \in Nat /\ two_phase_read_max \in Nat
  BY DEF TypeOK, Region
<1> QED BY <1>1, <1>2, NaturalFields DEF Ahead

(* For every capacity, element size and sequence of calls of two ends that *)
(* do not mix the phases, r, w and available of DataPipeState agree, and a *)
(* producer's and a consumer's two-phase regions never overlap.            *)
THEOREM RingTheorem ==
  ASSUME ~MixPhases
  PROVE  Spec => [](RingConsistent /\ RegionsDisjoint)
<1>1. Init => RingConsistent
  BY DataPipeAssumption DEF Init, RingConsistent, Ahead
<1>2. TypeOK /\ RegionsInBounds /\ RingConsistent /\ [Next]_vars => RingConsistent'
  BY RingStep
<1>3. TypeOK /\ RegionsInBounds /\ RingConsistent => RegionsDisjoint
  BY ConsistentDisjoint
<1> QED BY <1>1, <1>2, <1>3, TypeTheorem, PTL DEF Spec

-----------------------------------------------------------------------------
(* The contents of the ring: what was sent and not received lies in order  *)
(* from r on, and what the producer has stored in its region from w on.    *)
Content ==
  /\ sent = Len(received) + available
  /\ \A i \in 1..Len(received) : received[i] = i
  /\ \A k \in 0..(available - 1) : buf[Forward(r, k)] = Len(received) + k + 1
  /\ two_phase_write # Null => \A j \in 0..(stored - 1) : buf[w + j] = sent + j + 1

Good == TypeOK /\ RegionsInBounds /\ RingConsistent /\ Content

(* Facts about a consistent ring in linear arithmetic.                     *)
LEMMA RingFacts ==
  ASSUME Good
  PROVE  /\ Capacity \in Nat /\ r \in 0..(Capacity - 1) /\ w \in 0..(Capacity - 1)
         /\ available \in 0..Capacity /\ sent \in Nat /\ Len(received) \in Nat
         /\ \/ w = r /\ available = Capacity
            \/ w = r + available
            \/ w = r + available - Capacity /\ available < Capacity
         /\ \A k \in 0..Capacity :
              Forward(r, k) = IF r + k < Capacity THEN r + k ELSE r + k - Capacity
<1>1. /\ Capacity \in Nat /\ r \in 0..(Capacity - 1) /\ w \in 0..(Capacity - 1)
      /\ available \in 0..Capacity /\ sent \in Nat
  BY NaturalFields DEF Good, RingConsistent
<1>2. Len(received) \in Nat
  BY DEF Good, TypeOK
<1>3. \/ w = r /\ available = Capacity
      \/ w = r + available
      \/ w = r + available - Capacity /\ available < Capacity
  BY <1>1 DEF Good, RingConsistent, Ahead
<1>4. \A k \in 0..Capacity :
         Forward(r, k) = IF r + k < Capacity THEN r + k ELSE r + k - Capacity
  BY <1>1, ForwardValue DEF Offsets
<1> QED BY <1>1, <1>2, <1>3, <1>4

(* Taking n readable bytes from r on, with either kind of read.            *)
LEMMA TakeStep ==
  ASSUME Good, NEW n, n \in 0..available,
         received' = received \o BytesAt(r, n),
         r' = Forward(r, n), available' = available - n,
         UNCHANGED <<buf, w, two_phase_write, stored, sent>>
  PROVE  Content' /\ Len(received') = Len(received) + n
<1>0. /\ n \in Nat /\ n <= Capacity /\ r \in Nat /\ r < Capacity
      /\ Capacity \in Nat /\ available \in Nat /\ available <= Capacity
  BY RingFacts
<1>1. /\ BytesAt(r, n) \in Seq(Nat) /\ Len(BytesAt(r, n)) = n
      /\ \A k \in 1..n : BytesAt(r, n)[k] = buf[Forward(r, k - 1)]
  BY <1>0, BytesAtType DEF Good
<1> DEFINE got == BytesAt(r, n)
           len == Len(received)
<1>2. received \in Seq(Nat) /\ len \in Nat
  BY DEF Good, TypeOK
<1> HIDE DEF got
<1>3. /\ Len(received') = len + n
      /\ \A i \in 1..len : received'[i] = received[i]
      /\ \A i \in (len + 1)..(len + n) : received'[i] = got[i - len]
  BY <1>0, <1>1, <1>2 DEF got
<1>4. \A i \in 1..(len + n) : received'[i] = i
  <2> SUFFICES ASSUME NEW i \in 1..(len + n) PROVE received'[i] = i
    OBVIOUS
  <2>1. CASE i <= len
    BY <1>2, <1>3, <2>1 DEF Good, Content
  <2>2. CASE i > len
    <3>1. i - len \in 1..n /\ i - len - 1 \in 0..(available - 1)
      BY <1>0, <1>2, <2>2, RingFacts
    <3>2. received'[i] = buf[Forward(r, i - len - 1)]
      BY <1>1, <1>2, <1>3, <2>2, <3>1 DEF got
    <3>3. buf[Forward(r, i - len - 1)] = i
      BY <1>0, <1>2, <3>1 DEF Good, Content
    <3> QED BY <3>2, <3>3, Zenon
  <2>3. i <= len \/ i > len
    BY <1>0, <1>2
  <2> QED BY <2>1, <2>2, <2>3, Zenon
<1>5. ASSUME NEW k \in 0..(available' - 1)
      PROVE  buf'[Forward(r', k)] = Len(received') + k + 1
  <2>1. n + k \in 0..(available - 1)
    BY <1>0, RingFacts
  <2>2. Forward(r', k) = Forward(r, n + k)
    <3>1. r' = IF r + n < Capacity THEN r + n ELSE r + n - Capacity
      BY <1>0, RingFacts
    <3>2. r' \in Offsets /\ k \in 0..Capacity
      BY <1>0, <2>1, <3>1 DEF Offsets
    <3>3. Forward(r', k) = IF r' + k < Capacity THEN r' + k ELSE r' + k - Capacity
      BY <3>2, ForwardValue
    <3>4. Forward(r, n + k) = IF r + (n + k) < Capacity THEN r + (n + k) ELSE r + (n + k) - Capacity
      <4>1. n + k \in 0..Capacity /\ r \in Offsets
        BY <1>0, <2>1 DEF Offsets
      <4> QED BY <4>1, ForwardValue
    <3> QED BY <1>0, <2>1, <3>1, <3>3, <3>4
  <2>3. buf[Forward(r, n + k)] = len + (n + k) + 1
    BY <2>1 DEF Good, Content
  <2> QED BY <1>0, <1>2, <1>3, <2>1, <2>2, <2>3
<1>6. sent' = Len(received') + available'
  BY <1>0, <1>2, <1>3, RingFacts DEF Good, Content
<1>7. two_phase_write' # Null => \A j \in 0..(stored' - 1) : buf'[w' + j] = sent' + j + 1
  BY DEF Good, Content
<1> QED BY <1>3, <1>4, <1>5, <1>6, <1>7 DEF Content

(* Adding n bytes from w on, with either kind of write: the bytes that were *)
(* readable are untouched and the next n hold the next n numbers.           *)
LEMMA PutStep ==
  ASSUME Good, NEW n, n \in 0..(Capacity - available),
         w' = Forward(w, n), available' = available + n, sent' = sent + n,
         \A k \in 0..(available - 1) : buf'[Forward(r, k)] = buf[Forward(r, k)],
         \A j \in 0..(n - 1) : buf'[Forward(r, available + j)] = sent + j + 1,
         two_phase_write' = Null, UNCHANGED <<r, received>>
  PROVE  Content'
<1>0. /\ n \in Nat /\ available \in Nat /\ Len(received) \in Nat /\ Capacity \in Nat
      /\ sent = Len(received) + available
  BY RingFacts DEF Good, Content
<1>1. ASSUME NEW k \in 0..(available' - 1)
      PROVE  buf'[Forward(r', k)] = Len(received') + k + 1
  <2>1. CASE k < available
    <3>1. k \in 0..(available - 1)
      BY <1>0, <2>1
    <3> QED BY <3>1 DEF Good, Content
  <2>2. CASE k >= available
    <3>1. k - available \in 0..(n - 1) /\ available + (k - available) = k
      BY <1>0, <2>2
    <3>2. buf'[Forward(r, k)] = sent + (k - available) + 1
      BY <3>1
    <3> QED BY <1>0, <3>2
  <2> QED BY <1>0, <2>1, <2>2
<1>2. \A i \in 1..Len(received') : received'[i] = i
  BY DEF Good, Content
<1>3. sent' = Len(received') + available'
  BY <1>0
<1> QED BY <1>1, <1>2, <1>3 DEF Content

(* Where the bytes of a write go, relative to the readable ones.           *)
LEMMA Places ==
  ASSUME Good
  PROVE  /\ \A j \in 0..(Capacity - available - 1) :
              /\ Forward(r, available + j) \in Offsets
              /\ Ahead(Forward(r, available + j), w) = j
              /\ w + j < Capacity => Forward(r, available + j) = w + j
         /\ \A k \in 0..(available - 1) :
              /\ Forward(r, k) \in Offsets
              /\ Ahead(Forward(r, k), w) >= Capacity - available
              /\ \A j \in 0..(Capacity - available - 1) : Forward(r, k) # w + j
<1>0. /\ Capacity \in Nat /\ r \in 0..(Capacity - 1) /\ w \in 0..(Capacity - 1)
      /\ available \in 0..Capacity
      /\ \/ w = r /\ available = Capacity
         \/ w = r + available
         \/ w = r + available - Capacity /\ available < Capacity
  BY RingFacts
<1>1. ASSUME NEW j \in 0..(Capacity - available - 1)
      PROVE  /\ Forward(r, available + j) \in Offsets
             /\ Ahead(Forward(r, available + j), w) = j
             /\ w + j < Capacity => Forward(r, available + j) = w + j
  <2>1. available + j \in 0..Capacity
    BY <1>0
  <2>2. Forward(r, available + j) =
          IF r + (available + j) < Capacity THEN r + (available + j)
                                            ELSE r + (available + j) - Capacity
    BY <2>1, RingFacts
  <2> QED BY <1>0, <2>2 DEF Ahead, Offsets
<1>2. ASSUME NEW k \in 0..(available - 1)
      PROVE  /\ Forward(r, k) \in Offsets
             /\ Ahead(Forward(r, k), w) >= Capacity - available
             /\ \A j \in 0..(Capacity - available - 1) : Forward(r, k) # w + j
  <2>1. k \in 0..Capacity
    BY <1>0
  <2>2. Forward(r, k) = IF r + k < Capacity THEN r + k ELSE r + k - Capacity
    BY <2>1, RingFacts
  <2> QED BY <1>0, <2>2 DEF Ahead, Offsets
<1> QED BY <1>1, <1>2

(* Every step keeps the contents of the ring.                              *)
LEMMA ContentStep ==
  ASSUME ~MixPhases, Good, [Next]_vars
  PROVE  Content'
<1> USE DataPipeAssumption DEF ring, ends, writing, reading, vars
<1>0. /\ Counts \subseteq Nat /\ available \in 0..Capacity /\ available <= Capacity
      /\ TypeOK /\ Capacity \in Nat /\ stored \in Nat
  <2>1. TypeOK
    BY DEF Good
  <2>2. available \in 0..Capacity /\ Capacity \in Nat
    BY RingFacts
  <2> QED BY <2>1, <2>2, NaturalFields DEF Counts
<1>1. ASSUME NEW x \in Counts, WhpWriteData(x) PROVE Content'
  <2> DEFINE n == BytesToWrite(x)
  <2>1. n \in 0..(Capacity - available) /\ Plus(available, n) = available + n
    <3>1. x \in Nat
      BY <1>0
    <3>2. n \in 0..x /\ n <= Capacity - available
      BY <1>0, <3>1, CountTypes, NoWrap
    <3>3. n \in 0..(Capacity - available)
      BY <1>0, <3>2
    <3> QED BY <1>0, <3>1, <3>3, NoWrap
  <2>2. /\ w' = Forward(w, n) /\ available' = available + n /\ sent' = sent + n
        /\ two_phase_write' = Null /\ UNCHANGED <<r, received>>
        /\ buf' = [i \in Offsets |-> IF Ahead(i, w) < n
                                     THEN sent + LastPut(Ahead(i, w), n) ELSE buf[i]]
    BY <1>1, <2>1 DEF WhpWriteData, Idle
  <2> HIDE DEF n
  <2>3. ASSUME NEW k \in 0..(available - 1)
        PROVE  buf'[Forward(r, k)] = buf[Forward(r, k)]
    <3>1. Forward(r, k) \in Offsets /\ Ahead(Forward(r, k), w) >= Capacity - available
      BY Places
    <3>2. Ahead(Forward(r, k), w) \in Int
      BY <1>0, <3>1, NaturalFields DEF Ahead, Offsets
    <3>3. ~(Ahead(Forward(r, k), w) < n)
      BY <1>0, <2>1, <3>1, <3>2
    <3> QED BY <2>2, <3>1, <3>3
  <2>4. ASSUME NEW j \in 0..(n - 1)
        PROVE  buf'[Forward(r, available + j)] = sent + j + 1
    <3>1. j \in 0..(Capacity - available - 1)
      BY <1>0, <2>1
    <3>2. Forward(r, available + j) \in Offsets /\ Ahead(Forward(r, available + j), w) = j
      BY <3>1, Places
    <3>3. j < n /\ LastPut(j, n) = j + 1
      BY <1>0, <2>1, <3>1 DEF LastPut
    <3> QED BY <2>2, <3>2, <3>3, NaturalFields, <1>0
  <2> QED BY <2>1, <2>2, <2>3, <2>4, PutStep
<1>2. ASSUME NEW x \in Counts, WhpEndWriteData(x) PROVE Content'
  <2>1. /\ two_phase_write # Null /\ two_phase_write = w /\ x <= stored
        /\ stored <= two_phase_write_max /\ two_phase_write_max <= Capacity - available
        /\ w + two_phase_write_max <= Capacity
    BY <1>2 DEF WhpEndWriteData, Good, RegionsInBounds, RingConsistent
  <2>2. two_phase_write_max \in Nat /\ x \in Nat /\ w \in Nat
    BY <1>0, NaturalFields DEF TypeOK, Region
  <2>3. x \in 0..(Capacity - available)
    BY <1>0, <2>1, <2>2
  <2>4. Plus(available, x) = available + x
    BY <1>0, <2>2, <2>3, NoWrap
  <2>5. /\ w' = Forward(w, x) /\ available' = available + x /\ sent' = sent + x
        /\ two_phase_write' = Null /\ UNCHANGED <<r, received, buf>>
    BY <1>2, <2>4 DEF WhpEndWriteData
  <2>6. ASSUME NEW j \in 0..(x - 1)
        PROVE  buf'[Forward(r, available + j)] = sent + j + 1
    <3>1. j \in 0..(stored - 1) /\ j \in 0..(Capacity - available - 1) /\ w + j < Capacity
      BY <1>0, <2>1, <2>2
    <3>2. Forward(r, available + j) = w + j
      BY <3>1, Places
    <3>3. buf[w + j] = sent + j + 1
      BY <2>1, <3>1 DEF Good, Content
    <3> QED BY <2>5, <3>2, <3>3
  <2>7. \A k \in 0..(available - 1) : buf'[Forward(r, k)] = buf[Forward(r, k)]
    BY <2>5
  <2> QED BY <2>3, <2>5, <2>6, <2>7, PutStep
<1>3. ASSUME NEW x \in Counts, WhpReadData(x) PROVE Content'
  <2> DEFINE n == BytesToRead(x)
  <2>1. n \in 0..available /\ Minus(available, n) = available - n
    <3>1. x \in Nat
      BY <1>0
    <3>2. n \in 0..x /\ n <= available
      BY <1>0, <3>1, CountTypes
    <3>3. n \in 0..available
      BY <1>0, <3>2
    <3> QED BY <1>0, <3>1, <3>3, NoWrap
  <2>2. /\ received' = received \o BytesAt(r, n)
        /\ r' = Forward(r, n) /\ available' = available - n
        /\ UNCHANGED <<buf, w, two_phase_write, stored, sent>>
    BY <1>3, <2>1 DEF WhpReadData
  <2> HIDE DEF n
  <2> QED BY <2>1, <2>2, TakeStep
<1>4. ASSUME NEW x \in Counts, WhpEndReadData(x) PROVE Content'
  <2>1. /\ two_phase_read = r /\ x <= two_phase_read_max /\ two_phase_read_max <= available
        /\ two_phase_read_max \in Nat /\ x \in Nat
    BY <1>0, <1>4 DEF WhpEndReadData, Good, RingConsistent, TypeOK, Region
  <2>2. x \in 0..available
    BY <1>0, <2>1
  <2>3. Minus(available, x) = available - x
    BY <1>0, <2>1, <2>2, NoWrap
  <2>4. /\ received' = received \o BytesAt(r, x)
        /\ r' = Forward(r, x) /\ available' = available - x
        /\ UNCHANGED <<buf, w, two_phase_write, stored, sent>>
    BY <1>4, <2>1, <2>3 DEF WhpEndReadData
  <2> QED BY <2>2, <2>4, TakeStep
<1>5. CASE StoreByte
  <2>1. /\ two_phase_write # Null /\ two_phase_write = w /\ stored < two_phase_write_max
        /\ two_phase_write_max <= Capacity - available
        /\ w + two_phase_write_max <= Capacity
    BY <1>5 DEF StoreByte, Good, RegionsInBounds, RingConsistent
  <2>2. two_phase_write_max \in Nat /\ w \in Nat /\ sent \in Nat
    BY <1>0, NaturalFields DEF TypeOK, Region
  <2>3. /\ buf' = [buf EXCEPT ![w + stored] = sent + stored + 1] /\ stored' = stored + 1
        /\ UNCHANGED <<r, w, available, two_phase_write, sent, received>>
    BY <1>5, <2>1 DEF StoreByte
  <2>4. stored \in 0..(Capacity - available - 1) /\ w + stored \in Offsets
    BY <1>0, <2>1, <2>2 DEF Offsets
  <2>5. \A i \in Offsets : buf'[i] = IF i = w + stored THEN sent + stored + 1 ELSE buf[i]
    BY <1>0, <2>3, <2>4 DEF TypeOK
  <2>6. ASSUME NEW k \in 0..(available - 1)
        PROVE  buf'[Forward(r, k)] = Len(received) + k + 1
    <3>1. Forward(r, k) \in Offsets /\ Forward(r, k) # w + stored
      BY <2>4, Places
    <3>2. buf[Forward(r, k)] = Len(received) + k + 1
      BY DEF Good, Content
    <3> QED BY <2>5, <3>1, <3>2
  <2>7. ASSUME NEW j \in 0..stored
        PROVE  buf'[w + j] = sent + j + 1
    <3>1. w + j \in Offsets
      BY <1>0, <2>1, <2>2 DEF Offsets
    <3>2. CASE j = stored
      BY <2>4, <2>5, <3>2
    <3>3. CASE j < stored
      <4>1. j \in 0..(stored - 1) /\ w + j # w + stored
        BY <1>0, <2>2, <3>3
      <4>2. buf[w + j] = sent + j + 1
        BY <2>1, <4>1 DEF Good, Content
      <4> QED BY <2>5, <3>1, <4>1, <4>2
    <3> QED BY <1>0, <3>2, <3>3
  <2>8. stored' - 1 = stored
    BY <1>0, <2>3
  <2> QED BY <2>3, <2>6, <2>7, <2>8 DEF Good, Content
<1>6. ASSUME NEW x \in Counts, WhpBeginWriteData(x) PROVE Content'
  BY <1>6 DEF WhpBeginWriteData, Good, Content, Forward
<1>7. ASSUME NEW x \in Counts,
             WhpBeginReadData(x) \/ WhpEndWriteDataRefused(x) \/ WhpEndReadDataRefused(x)
      PROVE  Content'
  BY <1>7 DEF WhpBeginReadData, WhpEndWriteDataRefused, WhpEndReadDataRefused, Good,
              Content, Forward
<1>8. CASE CloseProducer \/ CloseConsumer \/ UNCHANGED vars
  BY <1>8 DEF CloseProducer, CloseConsumer, Good, Content, Forward
<1>9. ASSUME NEW x \in Watches, ArmTrap(x) PROVE Content'
  BY <1>9 DEF ArmTrap, Good, Content, Forward
<1> QED BY <1>1, <1>2, <1>3, <1>4, <1>5, <1>6, <1>7, <1>8, <1>9 DEF Next

(* The stream of numbers that ByteStream's sent is mapped to.              *)
Upto(n) == [i \in 1..n |-> i]

\* It is a sequence of that length.
LEMMA UptoSeq ==
  ASSUME NEW n, n \in Nat
  PROVE  Upto(n) \in Seq(Nat) /\ Len(Upto(n)) = n
BY DEF Upto

(* Its prefixes are such streams themselves.                               *)
LEMMA UptoPrefix ==
  ASSUME NEW n, NEW m, n \in Nat, m \in Nat, m <= n
  PROVE  SubSeq(Upto(n), 1, m) = Upto(m)
<1>1. Upto(n) \in Seq(Nat) /\ Len(Upto(n)) = n
  BY UptoSeq
<1> QED BY <1>1 DEF Upto

\* A sequence that counts up is such a stream.
LEMMA SeqUpto ==
  ASSUME NEW s, s \in Seq(Nat), \A i \in 1..Len(s) : s[i] = i
  PROVE  s = Upto(Len(s))
BY DEF Upto

(* Every step of a data pipe is a step of its stream, or leaves it alone.  *)
LEMMA StreamStep ==
  ASSUME ~MixPhases, Good, Good', [Next]_vars
  PROVE  [Stream!Next]_(Stream!vars)
<1> USE DataPipeAssumption DEF ring, ends, writing, reading, vars
<1> DEFINE len == Len(received)
<1>1. /\ sent \in Nat /\ sent' \in Nat /\ len \in Nat /\ len' \in Nat
      /\ received \in Seq(Nat) /\ received' \in Seq(Nat)
      /\ sent = len + available /\ sent' = len' + available'
      /\ available \in Nat /\ available' \in Nat
      /\ available <= Capacity /\ available' <= Capacity
  BY SMTT(30) DEF Good, TypeOK, Content, RingConsistent
<1>2. received = Upto(len) /\ received' = Upto(len')
  BY <1>1, SeqUpto DEF Good, Content
<1>3. Upto(sent) \in Seq(Nat) /\ Len(Upto(sent)) = sent /\ Len(Upto(sent')) = sent'
  <2>1. \A n \in Nat : Upto(n) \in Seq(Nat) /\ Len(Upto(n)) = n
    BY UptoSeq
  <2> QED BY <1>1, <2>1
<1>4. ASSUME ~producer_closed, sent' >= sent, UNCHANGED <<received, ends>>
      PROVE  [Stream!Next]_(Stream!vars)
  <2>1. CASE sent' = sent
    BY <1>4, <2>1 DEF Stream!vars
  <2>2. CASE sent' > sent
    <3>1. SubSeq(Upto(sent'), 1, Len(Upto(sent))) = Upto(sent)
      <4>1. \A n, m \in Nat : m <= n => SubSeq(Upto(n), 1, m) = Upto(m)
        BY UptoPrefix
      <4>2. SubSeq(Upto(sent'), 1, sent) = Upto(sent)
        BY <1>1, <2>2, <4>1
      <4> QED BY <1>3, <4>2
    <3>2. Len(Upto(sent')) > Len(Upto(sent)) /\ Len(Upto(sent')) - Len(received) <= Capacity
      BY <1>1, <1>3, <1>4, <2>2
    <3>3. Stream!Put
      BY <1>4, <3>1, <3>2 DEF Stream!Put, Upto
    <3> QED BY <3>3 DEF Stream!Next
  <2> QED BY <1>1, <1>4, <2>1, <2>2
<1>5. ASSUME ~consumer_closed, UNCHANGED <<sent, ends>>, len' >= len
      PROVE  [Stream!Next]_(Stream!vars)
  <2>1. CASE len' = len
    BY <1>2, <1>5, <2>1 DEF Stream!vars
  <2>2. CASE len' > len
    <3> DEFINE n == len' - len
    <3>1. n \in 1..(sent - len) /\ len' = len + n
      BY <1>1, <1>5, <2>2
    <3>2. received' = SubSeq(Upto(sent), 1, len + n)
      <4>1. \A k, m \in Nat : m <= k => SubSeq(Upto(k), 1, m) = Upto(m)
        BY UptoPrefix
      <4>2. len + n \in Nat /\ len + n <= sent /\ len' = len + n
        BY <1>1, <3>1
      <4>3. SubSeq(Upto(sent), 1, len + n) = Upto(len')
        <5> HIDE DEF len, n
        <5> QED BY <1>1, <4>1, <4>2
      <4> QED BY <1>2, <4>3
    <3>3. Stream!Waiting = sent - len
      BY <1>3 DEF Stream!Waiting, Upto
    <3>4. Stream!Take
      BY <1>5, <3>1, <3>2, <3>3 DEF Stream!Take, Upto
    <3> QED BY <3>4 DEF Stream!Next
  <2> QED BY <1>1, <1>5, <2>1, <2>2
<1>6. ASSUME UNCHANGED <<sent, received, ends>>
      PROVE  [Stream!Next]_(Stream!vars)
  <2>1. /\ sent' = sent /\ received' = received
        /\ producer_closed' = producer_closed /\ consumer_closed' = consumer_closed
    BY <1>6
  <2>2. UNCHANGED Stream!vars
    BY <2>1, Zenon DEF Stream!vars
  <2> QED BY <2>2
<1>7. ASSUME NEW x \in Counts, WhpWriteData(x) PROVE [Stream!Next]_(Stream!vars)
  <2>1. BytesToWrite(x) \in Nat
    BY CountTypes DEF Good, Counts
  <2>2. sent' >= sent
    BY <1>1, <1>7, <2>1 DEF WhpWriteData
  <2> QED BY <1>4, <1>7, <2>2 DEF WhpWriteData
<1>8. ASSUME NEW x \in Counts, WhpEndWriteData(x) PROVE [Stream!Next]_(Stream!vars)
  BY <1>1, <1>4, <1>8 DEF WhpEndWriteData, Counts
<1>9. ASSUME NEW x \in Counts, WhpReadData(x) \/ WhpEndReadData(x)
      PROVE  [Stream!Next]_(Stream!vars)
  <2>1. PICK b \in Seq(Nat) : received' = received \o b
    <3>0. TypeOK /\ x \in Nat
      BY DEF Good, Counts
    <3>1. CASE WhpReadData(x)
      <4>1. BytesToRead(x) \in Nat /\ r \in Nat
        BY <3>0, CountTypes, NaturalFields
      <4> QED BY <3>0, <3>1, <4>1, BytesAtType DEF WhpReadData
    <3>2. CASE WhpEndReadData(x)
      BY <3>0, <3>2, BytesAtType, NaturalFields DEF WhpEndReadData
    <3> QED BY <1>9, <3>1, <3>2
  <2>2. len' >= len
    BY <1>1, <2>1
  <2> QED BY <1>5, <1>9, <2>2 DEF WhpReadData, WhpEndReadData
<1>10. CASE CloseProducer
  <2>1. Stream!Hangup
    BY <1>10 DEF CloseProducer, Stream!Hangup
  <2> QED BY <2>1 DEF Stream!Next
<1>11. CASE CloseConsumer
  <2>1. Stream!Hangup
    BY <1>11 DEF CloseConsumer, Stream!Hangup
  <2> QED BY <2>1 DEF Stream!Next
<1>12. ASSUME NEW x \in Counts,
              \/ WhpBeginWriteData(x) \/ WhpBeginReadData(x)
              \/ WhpEndWriteDataRefused(x) \/ WhpEndReadDataRefused(x)
       PROVE  [Stream!Next]_(Stream!vars)
  BY <1>6, <1>12 DEF WhpBeginWriteData, WhpBeginReadData, WhpEndWriteDataRefused,
                     WhpEndReadDataRefused
<1>13. CASE StoreByte \/ UNCHANGED vars
  BY <1>6, <1>13 DEF StoreByte
<1>14. ASSUME NEW x \in Watches, ArmTrap(x) PROVE [Stream!Next]_(Stream!vars)
  BY <1>6, <1>14 DEF ArmTrap
<1> QED BY <1>7, <1>8, <1>9, <1>10, <1>11, <1>12, <1>13, <1>14 DEF Next

(* A data pipe delivers its bytes in order, each once and never more than  *)
(* its capacity waiting, for every capacity, element size and sequence of  *)
(* calls of two ends that do not mix the phases.                           *)
THEOREM StreamTheorem ==
  ASSUME ~MixPhases
  PROVE  Spec => ImplementsByteStream
<1>1. Init => Content /\ RingConsistent
  BY DataPipeAssumption DEF Init, Content, RingConsistent, Ahead, Null
<1>2. Init => Stream!Init
  BY DEF Init, Stream!Init
<1>3. Good /\ TypeOK' /\ RegionsInBounds' /\ [Next]_vars => Good'
  BY RingStep, ContentStep DEF Good
<1>4. Good /\ Good' /\ [Next]_vars => [Stream!Next]_(Stream!vars)
  BY StreamStep
<1>5. TypeOK /\ RegionsInBounds /\ Content /\ RingConsistent => Good
  BY DEF Good
<1> QED BY <1>1, <1>2, <1>3, <1>4, <1>5, TypeTheorem, PTL
        DEF Spec, ImplementsByteStream, Stream!Spec

-----------------------------------------------------------------------------
(* The calls that change a signal fire the traps on it.                    *)
THEOREM TrapTheorem == Spec => []NoMissedSignal
<1> USE DEF ring, ends, writing, reading, vars
<1>1. Init => NoMissedSignal
  BY DEF Init, NoMissedSignal
<1>2. NoMissedSignal /\ [Next]_vars => NoMissedSignal'
  <2> SUFFICES ASSUME NoMissedSignal, [Next]_vars PROVE NoMissedSignal'
    OBVIOUS
  <2>1. ASSUME CollectTrapEvents PROVE NoMissedSignal'
    BY <2>1 DEF CollectTrapEvents, NoMissedSignal
  <2>2. ASSUME UNCHANGED <<armed, available, producer_closed, consumer_closed>>
        PROVE  NoMissedSignal'
    <3>1. \A x : Satisfied(x)' <=> Satisfied(x)
      BY <2>2 DEF Satisfied
    <3> QED BY <2>2, <3>1 DEF NoMissedSignal
  <2>3. ASSUME NEW x \in Watches, ArmTrap(x) PROVE NoMissedSignal'
    <3>1. \A y : Satisfied(y)' <=> Satisfied(y)
      BY <2>3 DEF Satisfied, ArmTrap
    <3> QED BY <2>3, <3>1 DEF NoMissedSignal, ArmTrap
  <2>4. ASSUME NEW n \in Counts,
               \/ WhpWriteData(n) \/ WhpReadData(n) \/ WhpEndWriteData(n) \/ WhpEndReadData(n)
        PROVE  CollectTrapEvents
    BY <2>4 DEF WhpWriteData, WhpReadData, WhpEndWriteData, WhpEndReadData
  <2>5. ASSUME NEW n \in Counts,
               \/ WhpBeginWriteData(n) \/ WhpBeginReadData(n)
               \/ WhpEndWriteDataRefused(n) \/ WhpEndReadDataRefused(n)
        PROVE  UNCHANGED <<armed, available, producer_closed, consumer_closed>>
    BY <2>5 DEF WhpBeginWriteData, WhpBeginReadData, WhpEndWriteDataRefused, WhpEndReadDataRefused
  <2>6. CASE StoreByte \/ UNCHANGED vars
    BY <2>2, <2>6 DEF StoreByte
  <2>7. CASE CloseProducer \/ CloseConsumer
    BY <2>1, <2>7 DEF CloseProducer, CloseConsumer
  <2> QED BY <2>1, <2>2, <2>3, <2>4, <2>5, <2>6, <2>7 DEF Next
<1> QED BY <1>1, <1>2, PTL DEF Spec

(* Multiples of the modulus.                                               *)
LEMMA ModAdd ==
  ASSUME NEW m \in Nat \ {0}, NEW x \in Int, NEW y \in Int, x % m = 0, y % m = 0
  PROVE  (x + y) % m = 0 /\ (x - y) % m = 0
<1> DEFINE a == x \div m
           b == y \div m
<1>1. x = m * a /\ y = m * b /\ a \in Int /\ b \in Int
  OBVIOUS
<1> HIDE DEF a, b
<1>2. \A k \in Int : (m * k) % m = 0
  OBVIOUS
<1>3. x + y = m * (a + b) /\ x - y = m * (a - b)
  BY <1>1
<1> QED BY <1>1, <1>2, <1>3

\* A number of bytes that is a whole number of elements.
Elements(n) == n % ElementSize = 0

\* Sums and differences of such numbers are such numbers.
LEMMA ElementsAdd ==
  ASSUME NEW x, NEW y, x \in Int, y \in Int, Elements(x), Elements(y)
  PROVE  Elements(x + y) /\ Elements(x - y)
BY ModAdd, DataPipeAssumption DEF Elements

\* What is left of n by `n -= n % element_size`.
LEMMA WholeElements ==
  ASSUME NEW n, n \in Nat
  PROVE  /\ Elements(Whole(n))
         /\ n >= ElementSize => Whole(n) > 0
<1> USE DataPipeAssumption
<1>1. (n - (n % ElementSize)) % ElementSize = 0
  OBVIOUS
<1>2. n % ElementSize \in 0..(ElementSize - 1)
  BY ModRange
<1> QED BY <1>1, <1>2 DEF Elements, Whole

\* Less than an element is no element.
LEMMA OneElement ==
  ASSUME NEW n, n \in Nat \ {0}, Elements(n)
  PROVE  n >= ElementSize
<1> USE DataPipeAssumption
<1>1. CASE n < ElementSize
  <2>1. n % ElementSize = n
    BY <1>1, ModSmall
  <2> QED BY <2>1 DEF Elements
<1> QED BY <1>1

\* r, w and available stay at elements.
ElementsOnly == Elements(available) /\ Elements(r) /\ Elements(w)

\* Moving around a ring of whole elements by whole elements.
LEMMA ElementsForward ==
  ASSUME Elements(Capacity), NEW i, NEW n, i \in Offsets, n \in 0..Capacity,
         Elements(i), Elements(n)
  PROVE  Elements(Forward(i, n))
<1>0. i \in Int /\ n \in Int /\ i + n \in Int /\ Capacity \in Int
  BY DataPipeAssumption DEF Offsets
<1>1. Elements(i + n)
  BY <1>0, ElementsAdd, Zenon
<1>2. Elements((i + n) - Capacity)
  BY <1>0, <1>1, ElementsAdd, Zenon
<1>3. i + n - Capacity = (i + n) - Capacity
  BY DataPipeAssumption DEF Offsets
<1> QED BY <1>1, <1>2, <1>3, ForwardValue

\* The calls move r, w and available by whole elements.
LEMMA ElementsStep ==
  ASSUME ~MixPhases, Elements(Capacity), TypeOK, RegionsInBounds, RingConsistent, ElementsOnly,
         [Next]_vars
  PROVE  ElementsOnly'
<1> USE DataPipeAssumption DEF ring, ends, writing, reading, vars
<1>0. /\ Counts \subseteq Nat /\ available \in 0..Capacity /\ r \in Offsets /\ w \in Offsets
      /\ Capacity \in Nat /\ available \in Int
  BY NaturalFields DEF Counts, RingConsistent, TypeOK
<1>1. ASSUME NEW n, n \in 0..(Capacity - available), Elements(n),
             w' = Forward(w, n), available' = Plus(available, n), r' = r
      PROVE  ElementsOnly'
  <2>1. available' = available + n
    BY <1>0, <1>1, NoWrap
  <2>2. n \in 0..Capacity /\ n \in Int
    BY <1>0, <1>1
  <2>3. Elements(available') /\ Elements(w')
    BY <1>0, <1>1, <2>1, <2>2, ElementsAdd, ElementsForward DEF ElementsOnly
  <2> QED BY <1>1, <2>3 DEF ElementsOnly, Elements
<1>2. ASSUME NEW n, n \in 0..available, Elements(n),
             r' = Forward(r, n), available' = Minus(available, n), w' = w
      PROVE  ElementsOnly'
  <2>1. available' = available - n
    BY <1>0, <1>2, NoWrap
  <2>2. n \in 0..Capacity /\ n \in Int
    BY <1>0, <1>2
  <2>3. Elements(available') /\ Elements(r')
    BY <1>0, <1>2, <2>1, <2>2, ElementsAdd, ElementsForward DEF ElementsOnly
  <2> QED BY <1>2, <2>3 DEF ElementsOnly, Elements
<1>3. ASSUME NEW n \in Counts, WhpWriteData(n) PROVE ElementsOnly'
  <2> DEFINE m == BytesToWrite(n)
  <2>1. n \in Nat /\ m \in 0..n /\ m <= Capacity - available
    BY <1>0, CountTypes, NoWrap
  <2>2. Elements(m)
    <3>1. Minus(Capacity, available) \in Nat
      BY <1>0, WordTypes
    <3>2. Lesser(n, Minus(Capacity, available)) \in Nat
      BY <2>1, <3>1, LesserRange
    <3> QED BY <3>2, WholeElements DEF BytesToWrite
  <2>3. w' = Forward(w, m) /\ available' = Plus(available, m) /\ r' = r
    BY <1>3 DEF WhpWriteData
  <2> HIDE DEF m
  <2>4. m \in 0..(Capacity - available)
    BY <1>0, <2>1
  <2> QED BY <1>1, <2>2, <2>3, <2>4
<1>4. ASSUME NEW n \in Counts, WhpReadData(n) PROVE ElementsOnly'
  <2> DEFINE m == BytesToRead(n)
  <2>1. n \in Nat /\ m \in 0..n /\ m <= available
    BY <1>0, CountTypes
  <2>2. Elements(m)
    <3>1. Lesser(n, available) \in Nat
      BY <1>0, <2>1, LesserRange
    <3> QED BY <3>1, WholeElements DEF BytesToRead
  <2>3. r' = Forward(r, m) /\ available' = Minus(available, m) /\ w' = w
    BY <1>4 DEF WhpReadData
  <2> HIDE DEF m
  <2>4. m \in 0..available
    BY <1>0, <2>1
  <2> QED BY <1>2, <2>2, <2>3, <2>4
<1>5. ASSUME NEW n \in Counts, WhpEndWriteData(n) PROVE ElementsOnly'
  <2>1. /\ n \in Nat /\ n <= stored /\ stored <= two_phase_write_max
        /\ two_phase_write_max <= Capacity - available
        /\ stored \in Nat /\ two_phase_write_max \in Nat
    BY <1>0, <1>5 DEF WhpEndWriteData, RegionsInBounds, RingConsistent, TypeOK, Region
  <2>2. n \in 0..(Capacity - available)
    BY <1>0, <2>1
  <2> QED BY <1>1, <1>5, <2>2 DEF WhpEndWriteData, Elements
<1>6. ASSUME NEW n \in Counts, WhpEndReadData(n) PROVE ElementsOnly'
  <2>1. /\ n \in Nat /\ n <= two_phase_read_max /\ two_phase_read_max <= available
        /\ two_phase_read_max \in Nat
    BY <1>0, <1>6 DEF WhpEndReadData, RingConsistent, TypeOK, Region
  <2>2. n \in 0..available
    BY <1>0, <2>1
  <2> QED BY <1>2, <1>6, <2>2 DEF WhpEndReadData, Elements
<1>7. ASSUME UNCHANGED <<r, w, available>> PROVE ElementsOnly'
  BY <1>7 DEF ElementsOnly, Elements
<1>8. ASSUME NEW n \in Counts,
             \/ WhpBeginWriteData(n) \/ WhpBeginReadData(n)
             \/ WhpEndWriteDataRefused(n) \/ WhpEndReadDataRefused(n)
      PROVE  ElementsOnly'
  BY <1>7, <1>8 DEF WhpBeginWriteData, WhpBeginReadData, WhpEndWriteDataRefused,
                    WhpEndReadDataRefused
<1>9. CASE StoreByte \/ CloseProducer \/ CloseConsumer \/ UNCHANGED vars
  BY <1>7, <1>9 DEF StoreByte, CloseProducer, CloseConsumer
<1>10. ASSUME NEW x \in Watches, ArmTrap(x) PROVE ElementsOnly'
  BY <1>7, <1>10 DEF ArmTrap
<1> QED BY <1>3, <1>4, <1>5, <1>6, <1>8, <1>9, <1>10 DEF Next

\* Whole of at least an element is not zero, and Lesser of such is such.
LEMMA WholePositive ==
  ASSUME NEW a, NEW b, a \in Nat, b \in Nat, a >= ElementSize, b >= ElementSize
  PROVE  /\ Lesser(a, b) \in Nat /\ Lesser(a, b) >= ElementSize /\ Whole(Lesser(a, b)) > 0
<1>1. Lesser(a, b) \in Nat /\ Lesser(a, b) >= ElementSize
  BY DEF Lesser
<1> QED BY <1>1, WholeElements

\* Then a signal means that at least one element fits or is there.
LEMMA ElementsSignal ==
  ASSUME Elements(Capacity), TypeOK, RingConsistent, ElementsOnly
  PROVE  SignalsTruthful
<1> USE DataPipeAssumption
<1> DEFINE E     == ElementSize
           space == Minus(Capacity, available)
           front == Capacity - w
           back  == Capacity - r
<1>0. /\ E \in Nat /\ Capacity \in Nat /\ available \in 0..Capacity /\ E >= E
      /\ r \in Nat /\ w \in Nat /\ r < Capacity /\ w < Capacity
  BY NaturalFields DEF RingConsistent
<1>1. space = Capacity - available
  BY <1>0, ModSmall DEF Minus
<1>2. front \in Nat /\ front >= E /\ back \in Nat /\ back >= E
  <2>1. front \in Nat \ {0} /\ back \in Nat \ {0}
    BY <1>0
  <2>2. Elements(front) /\ Elements(back)
    <3>1. Capacity \in Int /\ w \in Int /\ r \in Int
      BY <1>0
    <3> QED BY <3>1, ElementsAdd, Zenon DEF ElementsOnly
  <2> QED BY <2>1, <2>2, OneElement
<1>3. ASSUME available < Capacity
      PROVE  space \in Nat /\ space >= E
  <2>1. Capacity - available \in Nat \ {0}
    BY <1>0, <1>3
  <2>2. Elements(Capacity - available)
    <3>1. Capacity \in Int /\ available \in Int
      BY <1>0
    <3> QED BY <3>1, ElementsAdd, Zenon DEF ElementsOnly
  <2> QED BY <1>1, <2>1, <2>2, OneElement
<1>4. ASSUME available > 0
      PROVE  available \in Nat /\ available >= E
  <2>1. available \in Nat \ {0}
    BY <1>0, <1>4
  <2> QED BY <2>1, OneElement DEF ElementsOnly
<1>5. /\ BytesToWrite(E) = Whole(Lesser(E, space)) /\ BytesToRead(E) = Whole(Lesser(E, available))
      /\ WriteRegion(E) = Whole(Lesser(Lesser(space, front), E))
      /\ ReadRegion(E) = Whole(Lesser(Lesser(available, back), E))
  BY DEF BytesToWrite, BytesToRead, WriteRegion, ReadRegion
<1> HIDE DEF E, space, front, back
<1>6. ASSUME available < Capacity
      PROVE  BytesToWrite(E) > 0 /\ WriteRegion(E) > 0
  <2>1. Whole(Lesser(E, space)) > 0
    BY <1>0, <1>3, <1>6, WholePositive DEF E
  <2>2. Lesser(space, front) \in Nat /\ Lesser(space, front) >= E
    BY <1>2, <1>3, <1>6, WholePositive DEF E
  <2>3. Whole(Lesser(Lesser(space, front), E)) > 0
    BY <1>0, <2>2, WholePositive DEF E
  <2> QED BY <1>5, <2>1, <2>3
<1>7. ASSUME available > 0
      PROVE  BytesToRead(E) > 0 /\ ReadRegion(E) > 0
  <2>1. Whole(Lesser(E, available)) > 0
    BY <1>0, <1>4, <1>7, WholePositive DEF E
  <2>2. Lesser(available, back) \in Nat /\ Lesser(available, back) >= E
    BY <1>2, <1>4, <1>7, WholePositive DEF E
  <2>3. Whole(Lesser(Lesser(available, back), E)) > 0
    BY <1>0, <2>2, WholePositive DEF E
  <2> QED BY <1>5, <2>1, <2>3
<1>8. Satisfied(<<"producer", "WRITABLE">>) => available < Capacity
  BY DEF Satisfied
<1>9. Satisfied(<<"consumer", "READABLE">>) => available > 0
  BY DEF Satisfied
<1> QED BY <1>6, <1>7, <1>8, <1>9 DEF SignalsTruthful, E

(* When WhpCreateDataPipe is given a capacity of whole elements and the    *)
(* clients do not mix the phases, WRITABLE and READABLE never promise a    *)
(* call that would be told SHOULD_WAIT.  The invariant this takes is that  *)
(* r, w and available stay at whole elements.                              *)
THEOREM SignalTheorem ==
  ASSUME ~MixPhases, Capacity % ElementSize = 0
  PROVE  Spec => []SignalsTruthful
<1>0. Elements(Capacity)
  BY DEF Elements
<1>1. Init => RingConsistent /\ ElementsOnly
  BY DataPipeAssumption, ModSmall DEF Init, RingConsistent, Ahead, ElementsOnly, Elements
<1>2. TypeOK /\ RegionsInBounds /\ RingConsistent /\ ElementsOnly /\ [Next]_vars
        => RingConsistent' /\ ElementsOnly'
  BY <1>0, RingStep, ElementsStep
<1>3. TypeOK /\ RingConsistent /\ ElementsOnly => SignalsTruthful
  BY <1>0, ElementsSignal
<1> QED BY <1>1, <1>2, <1>3, TypeTheorem, PTL DEF Spec

-----------------------------------------------------------------------------
(* A step neither writes nor stores where the consumer is reading.         *)
LEMMA RegionKept ==
  ASSUME ~MixPhases, Good, [Next]_vars, two_phase_read # Null,
         NEW i, i \in two_phase_read..(two_phase_read + two_phase_read_max - 1)
  PROVE  buf'[i] = buf[i]
<1> USE DataPipeAssumption DEF ring, ends, writing, reading, vars
<1> DEFINE k == i - r
<1>0. /\ Counts \subseteq Nat /\ Capacity \in Nat /\ r \in 0..(Capacity - 1)
      /\ w \in 0..(Capacity - 1) /\ available \in 0..Capacity
  BY RingFacts DEF Counts
<1>1. /\ two_phase_read = r /\ two_phase_read_max <= available
      /\ r + two_phase_read_max <= Capacity /\ two_phase_read_max \in Nat
  BY DEF Good, RingConsistent, RegionsInBounds, TypeOK, Region
<1>2. /\ k \in 0..(available - 1) /\ k \in 0..Capacity /\ r + k < Capacity /\ i = r + k
      /\ i \in Offsets
  BY <1>0, <1>1 DEF Offsets
<1>3. i = Forward(r, k)
  BY <1>2, RingFacts
<1> HIDE DEF k
<1>4. /\ Ahead(i, w) >= Capacity - available
      /\ \A j \in 0..(Capacity - available - 1) : i # w + j
  BY <1>2, <1>3, Places
<1>5. ASSUME NEW n \in Counts, WhpWriteData(n) PROVE buf'[i] = buf[i]
  <2> DEFINE m == BytesToWrite(n)
  <2>1. m \in 0..n /\ m <= Capacity - available
    BY <1>0, CountTypes, NoWrap DEF Good
  <2>2. buf'[i] = IF Ahead(i, w) < m THEN sent + LastPut(Ahead(i, w), m) ELSE buf[i]
    BY <1>2, <1>5 DEF WhpWriteData
  <2> HIDE DEF m
  <2>3. Ahead(i, w) \in Int /\ m \in Int /\ Capacity - available \in Int
    BY <1>0, <1>2, <2>1 DEF Ahead, Offsets
  <2>4. ~(Ahead(i, w) < m)
    BY <1>4, <2>1, <2>3
  <2> QED BY <2>2, <2>4
<1>6. CASE StoreByte
  <2>1. /\ buf' = [buf EXCEPT ![two_phase_write + stored] = sent + stored + 1]
        /\ two_phase_write = w /\ stored < two_phase_write_max
        /\ two_phase_write_max <= Capacity - available
        /\ stored \in Nat /\ two_phase_write_max \in Nat
    BY <1>6 DEF StoreByte, Good, RingConsistent, TypeOK, Region
  <2>2. stored \in 0..(Capacity - available - 1)
    BY <1>0, <2>1
  <2>3. i # w + stored
    BY <1>4, <2>2
  <2>4. i \in DOMAIN buf
    BY <1>2 DEF Good, TypeOK
  <2> QED BY <2>1, <2>3, <2>4
<1>7. ASSUME NEW n \in Counts,
             \/ WhpReadData(n) \/ WhpBeginWriteData(n) \/ WhpBeginReadData(n)
             \/ WhpEndWriteData(n) \/ WhpEndReadData(n)
             \/ WhpEndWriteDataRefused(n) \/ WhpEndReadDataRefused(n)
      PROVE  buf' = buf
  BY <1>7 DEF WhpReadData, WhpBeginWriteData, WhpBeginReadData, WhpEndWriteData, WhpEndReadData,
              WhpEndWriteDataRefused, WhpEndReadDataRefused
<1>8. CASE CloseProducer \/ CloseConsumer \/ UNCHANGED vars
  BY <1>8 DEF CloseProducer, CloseConsumer
<1>9. ASSUME NEW x \in Watches, ArmTrap(x) PROVE buf' = buf
  BY <1>9 DEF ArmTrap
<1> QED BY <1>5, <1>6, <1>7, <1>8, <1>9 DEF Next

(* WhpBeginReadData lends the consumer bytes that stay what they are until *)
(* the read ends, whatever the producer writes or stores meanwhile, when   *)
(* no client mixes the phases.                                             *)
THEOREM ReadRegionTheorem ==
  ASSUME ~MixPhases
  PROVE  Spec => ReadRegionStable
<1>1. Init => Content /\ RingConsistent
  BY DataPipeAssumption DEF Init, Content, RingConsistent, Ahead, Null
<1>2. Good /\ TypeOK' /\ RegionsInBounds' /\ [Next]_vars => Good'
  BY RingStep, ContentStep DEF Good
<1>3. Good /\ [Next]_vars =>
        [two_phase_read # Null /\ two_phase_read' # Null =>
           \A i \in two_phase_read..(two_phase_read + two_phase_read_max - 1) :
             buf'[i] = buf[i]]_vars
  BY RegionKept
<1>4. TypeOK /\ RegionsInBounds /\ Content /\ RingConsistent => Good
  BY DEF Good
<1> QED BY <1>1, <1>2, <1>3, <1>4, TypeTheorem, PTL DEF Spec, ReadRegionStable

-----------------------------------------------------------------------------
(* Invitations.                                                            *)

FrameTypes == {"magic", "invite", "accept", "close", "run", "runReply", "mojo"}
AllFrames == [type : FrameTypes, n : Nat]
Stages == Running \cup {"idle", "attached", "failed", "closed"}

\* What the variables hold.
Types ==
  /\ reliable \in BOOLEAN /\ offers \in [Peers -> BOOLEAN] /\ writer \in Peers
  /\ stage \in [Peers -> Stages] /\ count \in [Peers -> Nat] /\ netOpen \in [Peers -> BOOLEAN]
  /\ line \in [Peers -> Seq(AllFrames)] /\ air \in [Peers -> SUBSET AllFrames]
  /\ pipe \in [Peers -> Seq(AllFrames)] /\ inbox \in [Peers -> Seq(AllFrames)]
  /\ delivered \in [Peers -> Seq(AllFrames)] /\ written \in [Peers -> Nat]
  /\ asked \in [Peers -> BOOLEAN] /\ accepted \in [Peers -> BOOLEAN]
  /\ refused \in [Peers -> BOOLEAN] /\ \A p \in Peers : Len(inbox[p]) <= Quota

\* Frame f may be under way to p, or have reached it.
Right(p, f) ==
  /\ f.type = "mojo" => p # writer
  /\ f.type = "run" => asked[Peer(p)]
  /\ f.type = "runReply" => asked[p]
  /\ f.type = "invite" => offers[Peer(p)]
  /\ f.type = "accept" => accepted[Peer(p)]

\* Frame f may have got to the client of p.
RightMessage(p, f) == Right(p, f) /\ f.type \in {"mojo", "runReply"}

Used == {"attached", "closed"}
RightAt(p) ==
  /\ \A f \in Range(line[p]) \cup air[p] : Right(p, f)
  /\ \A f \in Range(inbox[p]) \cup Range(delivered[p]) : RightMessage(p, f)
  /\ \A f \in Range(pipe[p]) : f.type = "mojo" /\ p = writer
  /\ offers[p] /\ ~offers[Peer(p)] /\ stage[p] = "attached" => accepted[Peer(p)]
  /\ stage[p] \notin Used =>
       pipe[p] = <<>> /\ inbox[p] = <<>> /\ delivered[p] = <<>> /\ written[p] = 0
AllRight == \A p \in Peers : RightAt(p)

\* Over a reliable network, what p may still have to take of the other's
\* messages.  Before p is attached nothing that supposes so is under way from
\* it; before its handshake nobody can be attached to it; and in its handshake
\* a frame that ends it comes before the messages of one that is.
Early == {"idle", "punch", "drain"}
Ends(p, f) == f.type = "invite" \/ (f.type = "accept" /\ offers[p])
Released(p, s) ==
  \E i \in DOMAIN s : Ends(p, s[i]) /\ \A j \in DOMAIN s : j < i => s[j].type # "mojo"
OrderAt(p) ==
  /\ stage[p] \notin Used => \A f \in Range(line[Peer(p)]) : f.type \notin {"mojo", "accept"}
  /\ stage[p] \in Early => /\ stage[Peer(p)] \notin Used
                           /\ \A f \in Range(line[Peer(p)]) : f.type # "invite"
  /\ stage[p] = "handshake" /\ stage[Peer(p)] \in Used => Released(p, line[p])
Ordered == reliable => \A p \in Peers : OrderAt(p)

\* The messages in s are those after the a-th and up to the b-th, in order.
Numbers(s, a, b) ==
  /\ a <= b
  /\ \A i \in DOMAIN s : s[i].type = "mojo" =>
       /\ a < s[i].n /\ s[i].n <= b
       /\ \A j \in DOMAIN s : j < i /\ s[j].type = "mojo" => s[j].n < s[i].n
  /\ \A n \in Nat : a < n /\ n <= b => \E i \in DOMAIN s : s[i].type = "mojo" /\ s[i].n = n

\* p takes what arrives, or will.
Listens(p) == stage[p] \in Running \cup {"idle"} \/ (stage[p] = "attached" /\ netOpen[p])

\* Where the messages of one peer to the other are, unless that one has stopped taking them.
Flows(from, to) ==
  \E a, b, c \in Nat :
    /\ Numbers(delivered[to], 0, a)
    /\ stage[to] # "closed" => Numbers(inbox[to], a, b)
    /\ Listens(to) => Numbers(line[to], b, c) /\ Numbers(pipe[from], c, written[from])
Flow == reliable /\ (\A p \in Peers : ~refused[p]) => Flows(writer, Peer(writer))

IInv == Types /\ AllRight /\ Ordered /\ Flow

-----------------------------------------------------------------------------
(* Sequences.                                                              *)

LEMMA RangeCat ==
  ASSUME NEW S, NEW s \in Seq(S), NEW t \in Seq(S)
  PROVE  /\ Range(s \o t) = Range(s) \cup Range(t) /\ s \o t \in Seq(S)
         /\ Range(<<>>) = {} /\ Range(s) \subseteq S
<1>1. /\ s \o t \in Seq(S) /\ DOMAIN (s \o t) = 1 .. Len(s) + Len(t)
      /\ DOMAIN s = 1 .. Len(s) /\ DOMAIN t = 1 .. Len(t) /\ Len(s) \in Nat /\ Len(t) \in Nat
      /\ \A i \in 1 .. Len(s) : (s \o t)[i] = s[i]
      /\ \A i \in 1 .. Len(t) : (s \o t)[Len(s) + i] = t[i]
  OBVIOUS
<1>2. ASSUME NEW i \in DOMAIN (s \o t) PROVE (s \o t)[i] \in Range(s) \cup Range(t)
  <2>1. CASE i <= Len(s)
    BY <1>1, <2>1 DEF Range
  <2>2. CASE i > Len(s)
    <3>1. i - Len(s) \in 1 .. Len(t) /\ i = Len(s) + (i - Len(s))
      BY <1>1, <2>2
    <3> QED BY <1>1, <3>1 DEF Range
  <2> QED BY <1>1, <2>1, <2>2
<1>3. Range(s) \subseteq Range(s \o t)
  BY <1>1 DEF Range
<1>4. Range(t) \subseteq Range(s \o t)
  <2>1. \A i \in 1 .. Len(t) : Len(s) + i \in DOMAIN (s \o t)
    BY <1>1
  <2> QED BY <1>1, <2>1 DEF Range
<1>5. Range(s \o t) \subseteq Range(s) \cup Range(t)
  BY <1>2 DEF Range
<1>6. Range(<<>>) = {} /\ Range(s) \subseteq S
  BY <1>1 DEF Range
<1> QED BY <1>1, <1>3, <1>4, <1>5, <1>6

LEMMA RangeTail ==
  ASSUME NEW S, NEW s \in Seq(S), s # <<>>
  PROVE  /\ Tail(s) \in Seq(S) /\ Head(s) \in S /\ Head(s) \in Range(s)
         /\ Range(Tail(s)) \subseteq Range(s)
<1>1. /\ Tail(s) \in Seq(S) /\ Head(s) = s[1] /\ 1 \in DOMAIN s /\ Len(s) \in Nat
      /\ DOMAIN s = 1 .. Len(s) /\ DOMAIN Tail(s) = 1 .. (Len(s) - 1)
      /\ \A i \in DOMAIN Tail(s) : Tail(s)[i] = s[i + 1]
  OBVIOUS
<1>2. \A i \in DOMAIN Tail(s) : i + 1 \in DOMAIN s
  BY <1>1
<1> QED BY <1>1, <1>2 DEF Range

LEMMA AppendIs ==
  ASSUME NEW s \in Seq(AllFrames), NEW f \in AllFrames
  PROVE  /\ Append(s, f) \in Seq(AllFrames) /\ Range(Append(s, f)) = Range(s) \cup {f}
         /\ Len(s) \in Nat /\ Len(Append(s, f)) = Len(s) + 1
<1>1. PICK t : t = <<f>>
  OBVIOUS
<1>2. /\ t \in Seq(AllFrames) /\ Append(s, f) = s \o t
      /\ Len(s) \in Nat /\ Len(Append(s, f)) = Len(s) + 1
  <2> HIDE DEF AllFrames
  <2> QED BY <1>1
<1>3. Range(t) = {f}
  BY <1>1 DEF Range
<1>4. s \o t \in Seq(AllFrames) /\ Range(s \o t) = Range(s) \cup Range(t)
  BY <1>2, RangeCat
<1> QED BY <1>2, <1>3, <1>4

(* Frames that follow others, and carry on with their numbers.             *)
LEMMA NumbersCat ==
  ASSUME NEW s \in Seq(AllFrames), NEW t \in Seq(AllFrames),
         NEW a \in Nat, NEW b \in Nat, NEW c \in Nat, Numbers(s, a, b), Numbers(t, b, c)
  PROVE  Numbers(s \o t, a, c)
<1> DEFINE u == s \o t
           k == Len(s)
<1>1. /\ DOMAIN u = 1 .. k + Len(t) /\ DOMAIN s = 1 .. k /\ DOMAIN t = 1 .. Len(t)
      /\ k \in Nat /\ Len(t) \in Nat
      /\ \A i \in 1 .. k : u[i] = s[i]
      /\ \A i \in 1 .. Len(t) : u[k + i] = t[i]
  OBVIOUS
<1>2. ASSUME NEW i \in DOMAIN u
      PROVE  (i \in DOMAIN s /\ u[i] = s[i]) \/ (i - k \in DOMAIN t /\ u[i] = t[i - k] /\ i > k)
  <2>1. CASE i <= k
    BY <1>1, <2>1
  <2>2. CASE i > k
    <3>1. i - k \in 1 .. Len(t) /\ i = k + (i - k)
      BY <1>1, <2>2
    <3> QED BY <1>1, <2>2, <3>1
  <2> QED BY <1>1, <2>1, <2>2
<1>3. /\ \A i \in DOMAIN s : i \in DOMAIN u /\ u[i] = s[i] /\ i <= k /\ s[i].n \in Nat
      /\ \A i \in DOMAIN t : k + i \in DOMAIN u /\ u[k + i] = t[i] /\ t[i].n \in Nat
  <2>1. \A x \in AllFrames : x.n \in Nat
    BY DEF AllFrames
  <2>2. (\A i \in DOMAIN s : s[i] \in AllFrames) /\ \A i \in DOMAIN t : t[i] \in AllFrames
    <3> HIDE DEF AllFrames
    <3> QED OBVIOUS
  <2> HIDE DEF AllFrames
  <2>3. /\ \A i \in DOMAIN s : i \in DOMAIN u /\ u[i] = s[i] /\ i <= k
        /\ \A i \in DOMAIN t : k + i \in DOMAIN u /\ u[k + i] = t[i]
    BY <1>1
  <2> QED BY <2>1, <2>2, <2>3
<1> HIDE DEF u, k
<1>4. /\ a <= b /\ b <= c
      /\ \A i \in DOMAIN s : s[i].type = "mojo" =>
           /\ a < s[i].n /\ s[i].n <= b
           /\ \A j \in DOMAIN s : j < i /\ s[j].type = "mojo" => s[j].n < s[i].n
      /\ \A i \in DOMAIN t : t[i].type = "mojo" =>
           /\ b < t[i].n /\ t[i].n <= c
           /\ \A j \in DOMAIN t : j < i /\ t[j].type = "mojo" => t[j].n < t[i].n
  BY DEF Numbers
<1>5. ASSUME NEW i \in DOMAIN u, u[i].type = "mojo"
      PROVE  a < u[i].n /\ u[i].n <= c
  BY <1>2, <1>3, <1>4, <1>5
<1>6. ASSUME NEW i \in DOMAIN u, NEW j \in DOMAIN u, u[i].type = "mojo", u[j].type = "mojo", j < i
      PROVE  u[j].n < u[i].n
  <2>1. CASE i \in DOMAIN s /\ u[i] = s[i]
    <3>1. j \in DOMAIN s /\ u[j] = s[j]
      BY <1>1, <1>2, <1>3, <1>6, <2>1
    <3> QED BY <1>4, <1>6, <2>1, <3>1
  <2>2. CASE i - k \in DOMAIN t /\ u[i] = t[i - k]
    <3>1. CASE j \in DOMAIN s /\ u[j] = s[j]
      BY <1>3, <1>4, <1>6, <2>2, <3>1
    <3>2. CASE j - k \in DOMAIN t /\ u[j] = t[j - k]
      <4>1. j - k < i - k
        BY <1>1, <1>6, <2>2, <3>2
      <4> QED BY <1>4, <1>6, <2>2, <3>2, <4>1
    <3> QED BY <1>2, <3>1, <3>2
  <2> QED BY <1>2, <2>1, <2>2
<1>7. ASSUME NEW n \in Nat, a < n, n <= c
      PROVE  \E i \in DOMAIN u : u[i].type = "mojo" /\ u[i].n = n
  <2>1. CASE n <= b
    <3>1. PICK i \in DOMAIN s : s[i].type = "mojo" /\ s[i].n = n
      BY <1>7, <2>1 DEF Numbers
    <3> QED BY <1>3, <3>1
  <2>2. CASE b < n
    <3>1. PICK i \in DOMAIN t : t[i].type = "mojo" /\ t[i].n = n
      BY <1>7, <2>2 DEF Numbers
    <3>2. k + i \in DOMAIN u /\ u[k + i].type = "mojo" /\ u[k + i].n = n
      BY <1>3, <3>1
    <3> QED BY <3>2
  <2> QED BY <2>1, <2>2
<1>8. Numbers(u, a, c)
  BY <1>4, <1>5, <1>6, <1>7 DEF Numbers
<1> QED BY <1>8 DEF u

(* Frames without messages carry on with any numbers.                      *)
LEMMA NumbersNone ==
  ASSUME NEW s \in Seq(AllFrames), \A f \in Range(s) : f.type # "mojo", NEW a \in Nat
  PROVE  Numbers(s, a, a)
<1>1. \A i \in DOMAIN s : s[i].type # "mojo"
  BY DEF Range
<1> QED BY <1>1 DEF Numbers

LEMMA NumbersOne ==
  ASSUME NEW f \in AllFrames, f.type = "mojo", NEW a \in Nat, f.n = a + 1
  PROVE  Numbers(<<f>>, a, a + 1)
<1> DEFINE s == <<f>>
<1>1. DOMAIN s = {1} /\ s[1] = f
  OBVIOUS
<1> HIDE DEF s
<1>2. \A n \in Nat : a < n /\ n <= a + 1 => n = a + 1
  OBVIOUS
<1>3. a <= a + 1 /\ a < f.n /\ f.n <= a + 1 /\ ~(1 < 1)
  OBVIOUS
<1>4. Numbers(s, a, a + 1)
  BY <1>1, <1>2, <1>3 DEF Numbers
<1> QED BY <1>4 DEF s

(* The first of the frames is taken.                                       *)
LEMMA NumbersTail ==
  ASSUME NEW s \in Seq(AllFrames), s # <<>>, NEW a \in Nat, NEW b \in Nat, Numbers(s, a, b)
  PROVE  \E c \in Nat : Numbers(<<Head(s)>>, a, c) /\ Numbers(Tail(s), c, b)
                        /\ (Head(s).type # "mojo" => c = a)
<1> DEFINE t == Tail(s)
           f == Head(s)
<1>1. /\ f = s[1] /\ 1 \in DOMAIN s /\ Len(s) \in Nat /\ f \in AllFrames
      /\ DOMAIN s = 1 .. Len(s) /\ DOMAIN t = 1 .. (Len(s) - 1)
      /\ \A i \in DOMAIN t : t[i] = s[i + 1]
  <2> HIDE DEF AllFrames
  <2> QED OBVIOUS
<1>2. f.n \in Nat
  BY <1>1 DEF AllFrames
<1>3. \A i \in DOMAIN t : i + 1 \in DOMAIN s /\ t[i] = s[i + 1] /\ 1 < i + 1
  BY <1>1
<1>4. \A i \in DOMAIN s : i # 1 => i - 1 \in DOMAIN t /\ t[i - 1] = s[i]
  BY <1>1
<1>5. \A i \in DOMAIN s : s[i].type = "mojo" => s[i].n \in Nat
  <2>1. \A i \in DOMAIN s : s[i] \in AllFrames
    <3> HIDE DEF AllFrames
    <3> QED OBVIOUS
  <2> QED BY <2>1 DEF AllFrames
<1> HIDE DEF t, f
<1>6. /\ a <= b
      /\ \A i \in DOMAIN s : s[i].type = "mojo" =>
           /\ a < s[i].n /\ s[i].n <= b
           /\ \A j \in DOMAIN s : j < i /\ s[j].type = "mojo" => s[j].n < s[i].n
      /\ \A n \in Nat : a < n /\ n <= b => \E i \in DOMAIN s : s[i].type = "mojo" /\ s[i].n = n
  BY DEF Numbers
<1>7. \A i, j \in DOMAIN t : j < i /\ t[i].type = "mojo" /\ t[j].type = "mojo" => t[j].n < t[i].n
  <2> SUFFICES ASSUME NEW i \in DOMAIN t, NEW j \in DOMAIN t, j < i,
                      t[i].type = "mojo", t[j].type = "mojo"
               PROVE  t[j].n < t[i].n
    OBVIOUS
  <2>1. j + 1 < i + 1
    BY <1>1
  <2> QED BY <1>3, <1>6, <2>1
<1>8. CASE f.type # "mojo"
  <2>1. Numbers(<<f>>, a, a)
    <3>1. <<f>> \in Seq(AllFrames) /\ \A g \in Range(<<f>>) : g = f
      <4> HIDE DEF AllFrames
      <4> QED BY <1>1 DEF Range
    <3> QED BY <1>8, <3>1, NumbersNone
  <2>2. \A i \in DOMAIN t : t[i].type = "mojo" => a < t[i].n /\ t[i].n <= b
    BY <1>3, <1>6
  <2>3. \A n \in Nat : a < n /\ n <= b => \E i \in DOMAIN t : t[i].type = "mojo" /\ t[i].n = n
    <3> SUFFICES ASSUME NEW n \in Nat, a < n, n <= b
                 PROVE  \E i \in DOMAIN t : t[i].type = "mojo" /\ t[i].n = n
      OBVIOUS
    <3>1. PICK i \in DOMAIN s : s[i].type = "mojo" /\ s[i].n = n
      BY <1>6
    <3>2. i # 1
      BY <1>1, <1>8, <3>1
    <3> QED BY <1>4, <3>1, <3>2
  <2>4. Numbers(t, a, b)
    BY <1>6, <1>7, <2>2, <2>3 DEF Numbers
  <2> QED BY <1>8, <2>1, <2>4 DEF t, f
<1>9. CASE f.type = "mojo"
  <2>1. a < f.n /\ f.n <= b
    BY <1>1, <1>6, <1>9
  <2>2. f.n = a + 1
    <3>1. PICK i \in DOMAIN s : s[i].type = "mojo" /\ s[i].n = a + 1
      BY <1>2, <1>6, <2>1
    <3>2. i = 1 \/ 1 < i
      BY <1>1
    <3>3. 1 < i => f.n < a + 1
      BY <1>1, <1>6, <1>9, <3>1
    <3> QED BY <1>1, <1>2, <2>1, <3>1, <3>2, <3>3
  <2>3. Numbers(<<f>>, a, f.n)
    BY <1>1, <1>9, <2>2, NumbersOne
  <2>4. \A i \in DOMAIN t : t[i].type = "mojo" => f.n < t[i].n /\ t[i].n <= b
    BY <1>1, <1>3, <1>6, <1>9
  <2>5. \A n \in Nat : f.n < n /\ n <= b => \E i \in DOMAIN t : t[i].type = "mojo" /\ t[i].n = n
    <3> SUFFICES ASSUME NEW n \in Nat, f.n < n, n <= b
                 PROVE  \E i \in DOMAIN t : t[i].type = "mojo" /\ t[i].n = n
      OBVIOUS
    <3>1. a < n
      BY <1>2, <2>1
    <3>2. PICK i \in DOMAIN s : s[i].type = "mojo" /\ s[i].n = n
      BY <1>6, <3>1
    <3>3. i # 1
      BY <1>1, <1>2, <3>2
    <3> QED BY <1>4, <3>2, <3>3
  <2>6. Numbers(t, f.n, b)
    BY <1>7, <2>1, <2>4, <2>5 DEF Numbers
  <2> QED BY <1>2, <1>9, <2>3, <2>6 DEF t, f
<1> QED BY <1>8, <1>9

(* Messages from the first on are in order.                                *)
LEMMA NumbersInOrder ==
  ASSUME NEW s \in Seq(AllFrames), NEW a \in Nat, Numbers(s, 0, a)
  PROVE  InOrder(s)
<1>1. /\ \A i \in DOMAIN s : s[i].type = "mojo" =>
           /\ 0 < s[i].n /\ s[i].n <= a
           /\ \A j \in DOMAIN s : j < i /\ s[j].type = "mojo" => s[j].n < s[i].n
      /\ \A n \in Nat : 0 < n /\ n <= a => \E i \in DOMAIN s : s[i].type = "mojo" /\ s[i].n = n
  BY DEF Numbers
<1>2. /\ DOMAIN s = 1 .. Len(s) /\ Len(s) \in Nat
      /\ \A i \in DOMAIN s : s[i] \in AllFrames
  <2> HIDE DEF AllFrames
  <2> QED OBVIOUS
<1>3. \A i \in DOMAIN s : s[i].n \in Nat
  BY <1>2 DEF AllFrames
<1> SUFFICES ASSUME NEW i \in DOMAIN s, s[i].type = "mojo"
             PROVE  {s[j].n : j \in {k \in 1 .. i - 1 : s[k].type = "mojo"}} = 1 .. s[i].n - 1
  BY DEF InOrder
<1>4. ASSUME NEW j \in 1 .. i - 1, s[j].type = "mojo" PROVE s[j].n \in 1 .. s[i].n - 1
  <2>1. j \in DOMAIN s /\ j < i
    BY <1>2
  <2>2. 0 < s[j].n /\ s[j].n < s[i].n /\ s[j].n \in Nat /\ s[i].n \in Nat
    BY <1>1, <1>3, <1>4, <2>1
  <2> QED BY <2>2
<1>5. ASSUME NEW n \in 1 .. s[i].n - 1
      PROVE  \E j \in 1 .. i - 1 : s[j].type = "mojo" /\ s[j].n = n
  <2>1. s[i].n \in Nat /\ s[i].n <= a
    BY <1>1, <1>3
  <2>2. n \in Nat /\ 0 < n /\ n <= a /\ n < s[i].n
    BY <2>1
  <2>3. PICK j \in DOMAIN s : s[j].type = "mojo" /\ s[j].n = n
    BY <1>1, <2>2
  <2>4. ~(i < j)
    <3> SUFFICES ASSUME i < j PROVE FALSE
      OBVIOUS
    <3>1. s[i].n < s[j].n
      BY <1>1, <2>3
    <3> QED BY <2>1, <2>2, <2>3, <3>1
  <2>5. j # i
    BY <2>1, <2>2, <2>3
  <2>6. j \in 1 .. i - 1
    BY <1>2, <2>4, <2>5
  <2> QED BY <2>3, <2>6
<1> QED BY <1>4, <1>5

-----------------------------------------------------------------------------
(* Datagrams.                                                              *)

LEMMA PeerIs ==
  ASSUME NEW p \in Peers
  PROVE  /\ Peer(p) \in Peers /\ Peer(p) # p /\ Peer(Peer(p)) = p
         /\ \A q \in Peers : q = p \/ q = Peer(p)
BY DEF Peers, Peer

\* What may arrive at p.
UnderWay(p) == Range(line[p]) \cup air[p]

\* p took a frame or not, and sent those in F.
Moved(p, taken, F) ==
  /\ line' \in [Peers -> Seq(AllFrames)] /\ air' \in [Peers -> SUBSET AllFrames]
  /\ taken /\ reliable => line[p] # <<>>
  /\ reliable => /\ line'[p] = IF taken THEN Tail(line[p]) ELSE line[p]
                 /\ line'[Peer(p)] = line[Peer(p)] \o F
  /\ UnderWay(p)' \subseteq UnderWay(p)
  /\ UnderWay(Peer(p))' \subseteq UnderWay(Peer(p)) \cup Range(F)

LEMMA SendsMoves ==
  ASSUME Types, NEW p \in Peers, NEW F \in Seq(AllFrames), Sends(p, F)
  PROVE  Moved(p, FALSE, F)
<1> DEFINE q == Peer(p)
<1>1. /\ line \in [Peers -> Seq(AllFrames)] /\ air \in [Peers -> SUBSET AllFrames]
      /\ q \in Peers /\ q # p
  BY PeerIs DEF Types
<1> HIDE DEF q
<1>2. CASE reliable
  <2>1. line' = [line EXCEPT ![q] = @ \o F] /\ air' = air
    BY <1>2 DEF Sends, q
  <2>2. line'[p] = line[p] /\ line'[q] = line[q] \o F /\ line[q] \in Seq(AllFrames)
    BY <1>1, <2>1
  <2>3. Range(line'[q]) = Range(line[q]) \cup Range(F) /\ line'[q] \in Seq(AllFrames)
    BY <2>2, RangeCat
  <2>4. line' \in [Peers -> Seq(AllFrames)]
    BY <1>1, <2>1, <2>2, <2>3
  <2> QED BY <1>1, <2>1, <2>2, <2>3, <2>4 DEF Moved, UnderWay, q
<1>3. CASE ~reliable
  <2>1. air' = [air EXCEPT ![q] = @ \cup Range(F)] /\ line' = line
    BY <1>3 DEF Sends, q
  <2>2. Range(F) \subseteq AllFrames
    BY RangeCat
  <2>3. /\ air' \in [Peers -> SUBSET AllFrames]
        /\ air'[p] = air[p] /\ air'[q] = air[q] \cup Range(F)
    BY <1>1, <2>1, <2>2
  <2> QED BY <1>1, <1>3, <2>1, <2>3 DEF Moved, UnderWay, q
<1> QED BY <1>2, <1>3

LEMMA TakesMoves ==
  ASSUME Types, NEW p \in Peers, NEW f, NEW F \in Seq(AllFrames), Arrives(p, f), Takes(p, f, F)
  PROVE  Moved(p, TRUE, F) /\ f \in UnderWay(p) /\ (reliable => line[p] # <<>> /\ f = Head(line[p]))
<1> DEFINE q == Peer(p)
<1>1. /\ line \in [Peers -> Seq(AllFrames)] /\ air \in [Peers -> SUBSET AllFrames]
      /\ q \in Peers /\ q # p
  BY PeerIs DEF Types
<1> HIDE DEF q
<1>2. CASE reliable
  <2>1. /\ line' = [line EXCEPT ![p] = Tail(@), ![q] = @ \o F] /\ air' = air
        /\ line[p] # <<>> /\ f = Head(line[p])
    BY <1>2 DEF Takes, Arrives, q
  <2>2. /\ line'[p] = Tail(line[p]) /\ line'[q] = line[q] \o F
        /\ line[q] \in Seq(AllFrames) /\ line[p] \in Seq(AllFrames)
    BY <1>1, <2>1
  <2>3. Range(line'[q]) = Range(line[q]) \cup Range(F) /\ line'[q] \in Seq(AllFrames)
    BY <2>2, RangeCat
  <2>4. /\ Range(line'[p]) \subseteq Range(line[p]) /\ line'[p] \in Seq(AllFrames)
        /\ f \in Range(line[p])
    BY <2>1, <2>2, RangeTail
  <2>5. line' \in [Peers -> Seq(AllFrames)]
    BY <1>1, <2>1, <2>2, <2>3, <2>4
  <2> QED BY <1>1, <2>1, <2>2, <2>3, <2>4, <2>5 DEF Moved, UnderWay, q
<1>3. CASE ~reliable
  <2>1. Sends(p, F) /\ f \in air[p]
    BY <1>3 DEF Takes, Arrives
  <2>2. Moved(p, FALSE, F)
    BY <2>1, SendsMoves
  <2> QED BY <1>3, <2>1, <2>2 DEF Moved, UnderWay
<1> QED BY <1>2, <1>3

\* The datagrams that are sent one at a time.
LEMMA FrameIs ==
  ASSUME NEW type \in FrameTypes, NEW n \in Nat
  PROVE  /\ Frame(type, n) \in AllFrames /\ Frame(type, n).type = type /\ Frame(type, n).n = n
         /\ <<>> \in Seq(AllFrames) /\ Range(<<>>) = {}
         /\ <<Frame(type, n)>> \in Seq(AllFrames) /\ Range(<<Frame(type, n)>>) = {Frame(type, n)}
<1>1. Frame(type, n) \in AllFrames /\ Frame(type, n).type = type /\ Frame(type, n).n = n
  BY DEF Frame, AllFrames
<1> DEFINE f == Frame(type, n)
<1> HIDE DEF f
<1>2. f \in AllFrames => <<f>> \in Seq(AllFrames)
  <2> HIDE DEF AllFrames
  <2> QED OBVIOUS
<1>3. Range(<<f>>) = {f}
  BY DEF Range
<1>4. <<>> \in Seq(AllFrames) /\ Range(<<>>) = {}
  <2> HIDE DEF AllFrames
  <2> QED BY DEF Range
<1> QED BY <1>1, <1>2, <1>3, <1>4 DEF f

LEMMA EmptyIs == <<>> \in Seq(AllFrames) /\ Range(<<>>) = {} /\ Len(<<>>) = 0 /\ 0 <= Quota
<1>1. <<>> \in Seq(AllFrames) /\ Range(<<>>) = {}
  BY FrameIs DEF FrameTypes
<1>2. Quota \in Nat
  BY InvitationBounds
<1> QED BY <1>1, <1>2

LEMMA FramesTyped == Frames \subseteq AllFrames
<1>1. MaxWrites \in Nat
  BY InvitationBounds
<1> QED BY <1>1 DEF Frames, Frame, AllFrames, FrameTypes

-----------------------------------------------------------------------------
(* What each sees of the other.                                            *)

\* What the peers are stays; what they asked for and accepted is not taken back.
SameRoles == reliable' = reliable /\ offers' = offers /\ writer' = writer
Grows == \A q \in Peers : (asked[q] => asked'[q]) /\ (accepted[q] => accepted'[q])

LEMMA RightStays ==
  ASSUME Types, SameRoles, Grows, NEW p \in Peers, NEW f, Right(p, f)
  PROVE  Right(p, f)'
<1>1. Peer(p) \in Peers
  BY PeerIs
<1> QED BY <1>1 DEF SameRoles, Grows, Right

\* What clients have written and read stays, or is right.
SessionRight(q) ==
  /\ \A f \in Range(inbox'[q]) \cup Range(delivered'[q]) :
       f \in Range(inbox[q]) \cup Range(delivered[q]) \/ RightMessage(q, f)'
  /\ \A f \in Range(pipe'[q]) : f \in Range(pipe[q]) \/ (f.type = "mojo" /\ q = writer)
  /\ stage'[q] \notin Used =>
       /\ stage[q] \notin Used /\ pipe'[q] = pipe[q] /\ inbox'[q] = inbox[q]
       /\ delivered'[q] = delivered[q] /\ written'[q] = written[q]
  /\ stage'[q] = "attached" =>
       \/ stage[q] = "attached"
       \/ offers[q] /\ ~offers[Peer(q)] => accepted[Peer(q)]

LEMMA RightStep ==
  ASSUME Types, AllRight, SameRoles, Grows, NEW p \in Peers, NEW taken, NEW F, Moved(p, taken, F),
         \A f \in Range(F) : Right(Peer(p), f)', \A q \in Peers : SessionRight(q)
  PROVE  AllRight'
<1>1. SUFFICES ASSUME NEW q \in Peers PROVE RightAt(q)'
  BY DEF AllRight
<1>2. RightAt(q) /\ SessionRight(q) /\ Peer(q) \in Peers
  BY PeerIs DEF AllRight
<1>3. \A f \in UnderWay(q)' : f \in UnderWay(q) \/ Right(q, f)'
  BY PeerIs DEF Moved
<1>4. \A f \in UnderWay(q)' : Right(q, f)'
  BY <1>2, <1>3, RightStays DEF RightAt, UnderWay
<1>5. \A f \in Range(inbox'[q]) \cup Range(delivered'[q]) : RightMessage(q, f)'
  <2> SUFFICES ASSUME NEW f \in Range(inbox'[q]) \cup Range(delivered'[q])
               PROVE  RightMessage(q, f)'
    OBVIOUS
  <2>1. CASE f \in Range(inbox[q]) \cup Range(delivered[q])
    <3>1. RightMessage(q, f)
      BY <1>2, <2>1 DEF RightAt
    <3> QED BY <3>1, RightStays DEF RightMessage
  <2> QED BY <1>2, <2>1 DEF SessionRight
<1>6. \A f \in Range(pipe'[q]) : f.type = "mojo" /\ q = writer'
  BY <1>2 DEF RightAt, SessionRight, SameRoles
<1>7. (offers[q] /\ ~offers[Peer(q)] /\ stage[q] = "attached" => accepted[Peer(q)])'
  BY <1>2 DEF RightAt, SessionRight, SameRoles, Grows
<1>8. (stage[q] \notin Used =>
         pipe[q] = <<>> /\ inbox[q] = <<>> /\ delivered[q] = <<>> /\ written[q] = 0)'
  BY <1>2 DEF RightAt, SessionRight
<1> QED BY <1>4, <1>5, <1>6, <1>7, <1>8 DEF RightAt, UnderWay

-----------------------------------------------------------------------------
(* Where the messages are.                                                 *)

\* Nothing was taken back: a message that was refused stays refused.
Refuses == \A q \in Peers : refused[q] => refused'[q]

LEMMA FlowIs ==
  ASSUME Types, Flow, SameRoles, Refuses, NEW from, NEW to, from = writer, to = Peer(from),
         reliable /\ Flows(from, to) => Flows(from, to)' \/ \E q \in Peers : refused'[q]
  PROVE  Flow'
BY DEF Types, Flow, SameRoles, Refuses

\* The side of the writer: it flushes what is in its pipe, or writes to it.
Passes(p, F, d) ==
  Numbers(pipe[p], d, written[p]) =>
    \E c \in Nat : Numbers(F, d, c) /\ Numbers(pipe'[p], c, written'[p])

LEMMA FlowSent ==
  ASSUME Types, Flow, SameRoles, Refuses, NEW from, from = writer, NEW to, to = Peer(from),
         NEW taken, NEW F \in Seq(AllFrames), Moved(from, taken, F),
         delivered'[to] = delivered[to], inbox'[to] = inbox[to],
         stage'[to] = stage[to], netOpen'[to] = netOpen[to],
         (\A d \in Nat : Passes(from, F, d)) \/ \E q \in Peers : refused'[q]
  PROVE  Flow'
<1>0. from \in Peers /\ to \in Peers
  BY PeerIs DEF Types
<1>1. line[to] \in Seq(AllFrames)
  BY <1>0 DEF Types
<1>2. Listens(to)' <=> Listens(to)
  BY DEF Listens
<1>3. ASSUME reliable, Flows(from, to), \A d \in Nat : Passes(from, F, d) PROVE Flows(from, to)'
  <2>1. PICK a \in Nat, b \in Nat, d \in Nat :
          /\ Numbers(delivered[to], 0, a)
          /\ stage[to] # "closed" => Numbers(inbox[to], a, b)
          /\ Listens(to) => Numbers(line[to], b, d) /\ Numbers(pipe[from], d, written[from])
    BY <1>3 DEF Flows
  <2>2. line'[to] = line[to] \o F
    BY <1>3 DEF Moved
  <2>3. CASE Listens(to)
    <3>1. PICK c \in Nat : Numbers(F, d, c) /\ Numbers(pipe'[from], c, written'[from])
      BY <1>3, <2>1, <2>3 DEF Passes
    <3>2. Numbers(line'[to], b, c)
      BY <1>1, <2>1, <2>2, <2>3, <3>1, NumbersCat
    <3> QED BY <2>1, <3>1, <3>2 DEF Flows
  <2>4. CASE ~Listens(to)
    BY <1>2, <2>1, <2>4 DEF Flows
  <2> QED BY <2>3, <2>4
<1> QED BY <1>0, <1>3, FlowIs

\* The side of the reader: what p takes before it is attached is no message.
LEMMA FlowTaken ==
  ASSUME Types, Flow, SameRoles, Refuses, NEW from, from = writer, NEW to, to = Peer(from),
         NEW taken \in BOOLEAN, NEW F, Moved(to, taken, F), taken /\ reliable => Head(line[to]).type # "mojo",
         UNCHANGED <<delivered, inbox>>, pipe'[from] = pipe[from], written'[from] = written[from],
         Listens(to)' => Listens(to), stage'[to] # "closed" => stage[to] # "closed"
  PROVE  Flow'
<1>0. from \in Peers /\ to \in Peers
  BY PeerIs DEF Types
<1>1. line[to] \in Seq(AllFrames)
  BY <1>0 DEF Types
<1>2. ASSUME reliable, Flows(from, to) PROVE Flows(from, to)'
  <2>1. PICK a \in Nat, b \in Nat, d \in Nat :
          /\ Numbers(delivered[to], 0, a)
          /\ stage[to] # "closed" => Numbers(inbox[to], a, b)
          /\ Listens(to) => Numbers(line[to], b, d) /\ Numbers(pipe[from], d, written[from])
    BY <1>2 DEF Flows
  <2>2. ASSUME Listens(to) PROVE Numbers(line'[to], b, d)
    <3>1. CASE ~taken
      BY <1>2, <2>1, <2>2, <3>1 DEF Moved
    <3>2. CASE taken
      <4>1. line[to] # <<>> /\ line'[to] = Tail(line[to]) /\ Head(line[to]).type # "mojo"
        BY <1>2, <3>2 DEF Moved
      <4> QED BY <1>1, <2>1, <2>2, <4>1, NumbersTail
    <3> QED BY <3>1, <3>2
  <2> QED BY <2>1, <2>2 DEF Flows
<1> QED BY <1>0, <1>2, FlowIs

\* A step of p before it is attached.
LEMMA FlowConnects ==
  ASSUME Types, Flow, SameRoles, NEW p \in Peers, NEW taken \in BOOLEAN, NEW F \in Seq(AllFrames),
         Moved(p, taken, F), \A f \in Range(F) : f.type # "mojo",
         taken /\ reliable => Head(line[p]).type # "mojo",
         UNCHANGED <<pipe, inbox, written, delivered, refused>>,
         stage[p] \in Running \cup {"idle"},
         \A q \in Peers : q # p => stage'[q] = stage[q] /\ netOpen'[q] = netOpen[q]
  PROVE  Flow'
<1>1. Refuses
  BY DEF Refuses
<1>2. CASE p = writer
  <2>1. \A d \in Nat : Passes(p, F, d)
    BY NumbersNone DEF Passes
  <2>2. PICK to : to = Peer(p)
    OBVIOUS
  <2>3. to \in Peers /\ to # p
    BY <2>2, PeerIs
  <2>4. delivered'[to] = delivered[to] /\ inbox'[to] = inbox[to]
        /\ stage'[to] = stage[to] /\ netOpen'[to] = netOpen[to]
    BY <2>3
  <2> QED BY <1>1, <1>2, <2>1, <2>2, <2>4, FlowSent
<1>3. CASE p # writer
  <2>1. PICK from \in Peers : from = writer
    BY DEF Types
  <2>2. p = Peer(from)
    BY <1>3, <2>1, PeerIs
  <2>3. Listens(p) /\ stage[p] # "closed"
    BY DEF Listens, Running
  <2>4. pipe'[from] = pipe[from] /\ written'[from] = written[from]
    OBVIOUS
  <2> QED BY <1>1, <2>1, <2>2, <2>3, <2>4, FlowTaken
<1> QED BY <1>2, <1>3

LEMMA FlowReads ==
  ASSUME Types, Flow, NEW from, from = writer, NEW to, to = Peer(from), Recv(to)
  PROVE  Flow'
<1> DEFINE f == Head(inbox[to])
<1>0. from \in Peers /\ to \in Peers
  BY PeerIs DEF Types
<1>1. /\ inbox[to] \in Seq(AllFrames) /\ delivered[to] \in Seq(AllFrames) /\ inbox[to] # <<>>
      /\ SameRoles /\ Refuses /\ stage[to] = "attached"
      /\ stage' = stage /\ netOpen' = netOpen /\ line' = line /\ pipe' = pipe /\ written' = written
  BY <1>0 DEF Types, Recv, SameRoles, Refuses
<1>2. inbox'[to] = Tail(inbox[to]) /\ delivered'[to] = Append(delivered[to], f)
  BY <1>0 DEF Recv, Types
<1>3. f \in AllFrames
  BY <1>1, RangeTail
<1>4. /\ delivered'[to] = delivered[to] \o <<f>> /\ <<f>> \in Seq(AllFrames)
  <2> HIDE DEF AllFrames, f
  <2> QED BY <1>1, <1>2, <1>3
<1>5. ASSUME reliable, Flows(from, to) PROVE Flows(from, to)'
  <2>1. PICK a \in Nat, b \in Nat, d \in Nat :
          /\ Numbers(delivered[to], 0, a) /\ Numbers(inbox[to], a, b)
          /\ Listens(to) => Numbers(line[to], b, d) /\ Numbers(pipe[from], d, written[from])
    BY <1>1, <1>5 DEF Flows
  <2>2. PICK c \in Nat : Numbers(<<f>>, a, c) /\ Numbers(Tail(inbox[to]), c, b)
    BY <1>1, <2>1, NumbersTail
  <2> HIDE DEF f
  <2>3. Numbers(delivered'[to], 0, c) /\ Numbers(inbox'[to], c, b)
    BY <1>1, <1>2, <1>4, <2>1, <2>2, NumbersCat
  <2>4. Listens(to)' <=> Listens(to)
    BY <1>1 DEF Listens
  <2> QED BY <1>1, <2>1, <2>3, <2>4 DEF Flows
<1> QED BY <1>0, <1>1, <1>5, FlowIs

\* IngestNet of the reader.
LEMMA FlowPumps ==
  ASSUME Types, Flow, NEW from, from = writer, NEW to, to = Peer(from), NEW f, Pump(to, f), NEW F,
         Moved(to, TRUE, F), reliable => f = Head(line[to])
  PROVE  Flow'
<1>0. from \in Peers /\ to \in Peers /\ to # from
  BY PeerIs DEF Types
<1>1. /\ inbox[to] \in Seq(AllFrames) /\ line[to] \in Seq(AllFrames)
      /\ SameRoles /\ Refuses /\ stage[to] = "attached" /\ netOpen[to]
      /\ stage' = stage /\ delivered' = delivered /\ written' = written /\ pipe'[from] = pipe[from]
  BY <1>0 DEF Types, Pump, SameRoles, Refuses
<1>2. CASE f.type \in {"mojo", "runReply"} /\ Len(inbox[to]) = Quota
  <2>1. refused'[to]
    BY <1>0, <1>2 DEF Pump, Types
  <2> QED BY <1>0, <1>1, <2>1, FlowIs
<1>3. CASE ~(f.type \in {"mojo", "runReply"} /\ Len(inbox[to]) = Quota)
  <2>1. ASSUME reliable, Flows(from, to) PROVE Flows(from, to)' \/ \E q \in Peers : refused'[q]
    <3>1. Listens(to)
      BY <1>1 DEF Listens
    <3>2. PICK a \in Nat, b \in Nat, d \in Nat :
            /\ Numbers(delivered[to], 0, a) /\ Numbers(inbox[to], a, b)
            /\ Numbers(line[to], b, d) /\ Numbers(pipe[from], d, written[from])
      BY <1>1, <2>1, <3>1 DEF Flows
    <3>3. line[to] # <<>> /\ line'[to] = Tail(line[to]) /\ f = Head(line[to])
      BY <2>1 DEF Moved
    <3>4. PICK c \in Nat : /\ Numbers(<<f>>, b, c) /\ Numbers(line'[to], c, d)
                           /\ f.type # "mojo" => c = b
      BY <1>1, <3>2, <3>3, NumbersTail
    <3>5. \/ inbox'[to] = Append(inbox[to], f)
          \/ inbox'[to] = inbox[to] /\ f.type # "mojo"
          \/ \E q \in Peers : refused'[q]
      <4>0. Len(inbox[to]) \in Nat /\ Quota \in Nat
        BY <1>1, InvitationBounds
      <4>1. CASE f.type \in {"mojo", "runReply"} /\ Len(inbox[to]) < Quota
        BY <1>0, <4>1 DEF Pump, Types
      <4>2. CASE f.type \notin {"mojo", "runReply"}
        BY <1>0, <4>2 DEF Pump
      <4> QED BY <1>0, <1>3, <4>0, <4>1, <4>2 DEF Types
    <3>6. CASE inbox'[to] = Append(inbox[to], f)
      <4>1. f \in AllFrames
        BY <1>1, <3>3, RangeTail
      <4>2. inbox'[to] = inbox[to] \o <<f>> /\ <<f>> \in Seq(AllFrames)
        <5> HIDE DEF AllFrames
        <5> QED BY <1>1, <3>6, <4>1
      <4>3. Numbers(inbox'[to], a, c)
        BY <1>1, <3>2, <3>4, <4>2, NumbersCat
      <4> QED BY <1>1, <3>2, <3>4, <4>3 DEF Flows
    <3>7. CASE inbox'[to] = inbox[to] /\ f.type # "mojo"
      BY <1>1, <3>2, <3>4, <3>7 DEF Flows
    <3> QED BY <3>5, <3>6, <3>7
  <2> QED BY <1>0, <1>1, <2>1, FlowIs
<1> QED BY <1>2, <1>3

-----------------------------------------------------------------------------
(* The order of the connection.                                            *)

LEMMA CatFirst ==
  ASSUME NEW s \in Seq(AllFrames), NEW t \in Seq(AllFrames)
  PROVE  /\ s # <<>> => s \o t # <<>> /\ Head(s \o t) = Head(s)
         /\ t # <<>> => s \o t # <<>>
         /\ s = <<>> => s \o t = t
         /\ t = <<>> => s \o t = s
<1>1. CASE s # <<>>
  <2>1. Len(s) \in Nat /\ Len(s) # 0 /\ Len(t) \in Nat /\ Len(s \o t) = Len(s) + Len(t)
    BY <1>1
  <2>2. s \o t # <<>>
    BY <2>1
  <2>3. (s \o t)[1] = s[1]
    BY <2>1
  <2>4. t = <<>> => s \o t = s
    OBVIOUS
  <2> QED BY <1>1, <2>2, <2>3, <2>4
<1>2. CASE s = <<>>
  <2>1. s \o t = t
    BY <1>2
  <2> QED BY <1>2, <2>1
<1> QED BY <1>1, <1>2

\* Over a reliable network, what p sent comes behind what was there.
LEMMA MovedFirst ==
  ASSUME Types, reliable, NEW p \in Peers, NEW taken, NEW F \in Seq(AllFrames), Moved(p, taken, F),
         NEW q, q = Peer(p)
  PROVE  /\ line[q] # <<>> => line'[q] # <<>> /\ Head(line'[q]) = Head(line[q])
         /\ line[q] = <<>> => line'[q] = F
         /\ F = <<>> => line'[q] = line[q]
         /\ F # <<>> => line'[q] # <<>>
         /\ \A f \in Range(line'[p]) : f \in Range(line[p])
         /\ \A f \in Range(line'[q]) : f \in Range(line[q]) \cup Range(F)
         /\ ~taken => line'[p] = line[p]
<1>1. q \in Peers /\ line[q] \in Seq(AllFrames) /\ line[p] \in Seq(AllFrames)
  BY PeerIs DEF Types
<1>2. /\ line'[q] = line[q] \o F
      /\ line'[p] = IF taken THEN Tail(line[p]) ELSE line[p]
      /\ taken => line[p] # <<>>
  BY DEF Moved
<1>3. \A f \in Range(line'[p]) : f \in Range(line[p])
  BY <1>1, <1>2, RangeTail
<1>4. \A f \in Range(line'[q]) : f \in Range(line[q]) \cup Range(F)
  BY <1>1, <1>2, RangeCat
<1> QED BY <1>1, <1>2, <1>3, <1>4, CatFirst

\* The other one stays where it is.
Alone(p) == \A q \in Peers : q # p => stage'[q] = stage[q]

LEMMA ReleasedTail ==
  ASSUME NEW p, NEW s \in Seq(AllFrames), s # <<>>, Released(p, s), ~Ends(p, Head(s))
  PROVE  Head(s).type # "mojo" /\ Released(p, Tail(s))
<1>1. PICK i \in DOMAIN s : Ends(p, s[i]) /\ \A j \in DOMAIN s : j < i => s[j].type # "mojo"
  BY DEF Released
<1>2. /\ Len(s) \in Nat /\ DOMAIN s = 1 .. Len(s) /\ Len(s) # 0 /\ Head(s) = s[1]
      /\ DOMAIN Tail(s) = 1 .. Len(s) - 1 /\ \A j \in 1 .. Len(s) - 1 : Tail(s)[j] = s[j + 1]
  <2> HIDE DEF AllFrames
  <2> QED OBVIOUS
<1>3. i \in 1 .. Len(s) /\ i # 1
  BY <1>1, <1>2
<1>4. s[1].type # "mojo"
  BY <1>1, <1>2, <1>3
<1>5. PICK k : k = i - 1
  OBVIOUS
<1>6. k \in DOMAIN Tail(s) /\ Ends(p, Tail(s)[k])
  BY <1>1, <1>2, <1>3, <1>5
<1>7. \A j \in DOMAIN Tail(s) : j < k => Tail(s)[j].type # "mojo"
  BY <1>1, <1>2, <1>3, <1>5
<1> QED BY <1>2, <1>4, <1>6, <1>7 DEF Released

LEMMA ReleasedCat ==
  ASSUME NEW p, NEW s \in Seq(AllFrames), NEW t \in Seq(AllFrames), Released(p, s)
  PROVE  Released(p, s \o t)
<1>1. PICK i \in DOMAIN s : Ends(p, s[i]) /\ \A j \in DOMAIN s : j < i => s[j].type # "mojo"
  BY DEF Released
<1>2. /\ Len(s) \in Nat /\ Len(t) \in Nat /\ DOMAIN s = 1 .. Len(s)
      /\ DOMAIN (s \o t) = 1 .. Len(s) + Len(t) /\ \A j \in 1 .. Len(s) : (s \o t)[j] = s[j]
  <2> HIDE DEF AllFrames
  <2> QED OBVIOUS
<1>3. i \in 1 .. Len(s) /\ i \in DOMAIN (s \o t)
  BY <1>1, <1>2
<1>4. Ends(p, (s \o t)[i])
  BY <1>1, <1>2, <1>3
<1>5. \A j \in DOMAIN (s \o t) : j < i => (s \o t)[j].type # "mojo"
  BY <1>1, <1>2, <1>3
<1> QED BY <1>3, <1>4, <1>5 DEF Released

LEMMA ReleasedLast ==
  ASSUME NEW p, NEW s \in Seq(AllFrames), \A f \in Range(s) : f.type # "mojo",
         NEW f \in AllFrames, Ends(p, f)
  PROVE  Released(p, s \o <<f>>)
<1>1. PICK i : i = Len(s) + 1
  OBVIOUS
<1>2. /\ Len(s) \in Nat /\ DOMAIN (s \o <<f>>) = 1 .. Len(s) + 1 /\ (s \o <<f>>)[Len(s) + 1] = f
      /\ \A j \in 1 .. Len(s) : (s \o <<f>>)[j] = s[j] /\ s[j] \in Range(s)
  <2> HIDE DEF AllFrames
  <2> QED BY DEF Range
<1>3. i \in DOMAIN (s \o <<f>>) /\ Ends(p, (s \o <<f>>)[i])
  BY <1>1, <1>2
<1>4. \A j \in DOMAIN (s \o <<f>>) : j < i => (s \o <<f>>)[j].type # "mojo"
  BY <1>1, <1>2
<1> QED BY <1>3, <1>4 DEF Released

\* What a peer takes before it is attached is no message.
LEMMA NotTaken ==
  ASSUME Types, Ordered, reliable, NEW p \in Peers, line[p] # <<>>,
         stage[p] \in Early \cup {"handshake"},
         stage[p] = "handshake" => ~Ends(p, Head(line[p]))
  PROVE  Head(line[p]).type # "mojo"
<1>1. PICK q \in Peers : q = Peer(p) /\ Peer(q) = p
  BY PeerIs
<1>2. OrderAt(p) /\ OrderAt(q)
  BY DEF Ordered
<1>3. line[p] \in Seq(AllFrames)
  BY DEF Types
<1>4. Head(line[p]) \in Range(line[p])
  BY <1>3, RangeTail
<1>5. CASE stage[q] \notin Used
  BY <1>1, <1>2, <1>4, <1>5 DEF OrderAt
<1>6. CASE stage[q] \in Used
  <2>1. stage[p] = "handshake" /\ Released(p, line[p])
    BY <1>1, <1>2, <1>6 DEF OrderAt
  <2> QED BY <1>3, <2>1, ReleasedTail
<1> QED BY <1>5, <1>6

\* A step of p that does not attach it.
LEMMA OrderConnects ==
  ASSUME Types, Ordered, SameRoles, NEW p \in Peers, NEW taken \in BOOLEAN,
         NEW F \in Seq(AllFrames), Moved(p, taken, F), Alone(p),
         \A f \in Range(F) : f.type \notin {"mojo", "accept"},
         stage[p] \notin Used, stage'[p] \notin Used,
         stage'[p] \in Early => stage[p] \in Early /\ \A f \in Range(F) : f.type # "invite",
         stage'[p] = "handshake" => stage[p] \in {"drain", "handshake"},
         stage[p] = "handshake" /\ taken /\ reliable => ~Ends(p, Head(line[p]))
  PROVE  Ordered'
<1> SUFFICES ASSUME reliable PROVE \A x \in Peers : OrderAt(x)'
  BY DEF Ordered, SameRoles
<1>1. PICK q \in Peers : q = Peer(p) /\ q # p /\ Peer(q) = p /\ \A x \in Peers : x = p \/ x = q
  BY PeerIs
<1>2. OrderAt(p) /\ OrderAt(q) /\ stage'[q] = stage[q]
  BY <1>1 DEF Ordered, Alone
<1>3. /\ \A f \in Range(line'[p]) : f \in Range(line[p])
      /\ \A f \in Range(line'[q]) : f \in Range(line[q]) \cup Range(F)
      /\ ~taken => line'[p] = line[p]
  BY <1>1, MovedFirst
<1>4. \A f \in Range(line'[q]) : f.type \notin {"mojo", "accept"}
  BY <1>1, <1>2, <1>3 DEF OrderAt
<1>5. stage'[p] \in Early => stage'[q] \notin Used /\ \A f \in Range(line'[q]) : f.type # "invite"
  BY <1>1, <1>2, <1>3 DEF OrderAt
<1>6. ASSUME stage'[p] = "handshake", stage'[q] \in Used PROVE Released(p, line'[p])
  <2>1. stage[p] = "handshake" /\ Released(p, line[p])
    BY <1>1, <1>2, <1>6 DEF OrderAt, Early
  <2>2. CASE ~taken
    BY <1>3, <2>1, <2>2
  <2>3. CASE taken
    <3>1. line[p] # <<>> /\ line'[p] = Tail(line[p]) /\ line[p] \in Seq(AllFrames)
      BY <2>3 DEF Moved, Types
    <3> QED BY <2>1, <2>3, <3>1, ReleasedTail
  <2> QED BY <2>2, <2>3
<1>7. \A x : Released(p, x) <=> Released(p, x)'
  BY DEF Released, Ends, SameRoles
<1>8. OrderAt(p)'
  BY <1>1, <1>4, <1>5, <1>6 DEF OrderAt, Released, Ends, SameRoles
<1>9. OrderAt(q)'
  BY <1>1, <1>2, <1>3 DEF OrderAt
<1> QED BY <1>1, <1>8, <1>9

\* p takes the frame that ends its handshake.
LEMMA OrderAttaches ==
  ASSUME Types, Ordered, AllRight, SameRoles, NEW p \in Peers, NEW f, f = Head(line[p]), Ends(p, f),
         NEW F \in Seq(AllFrames), Moved(p, TRUE, F), Alone(p), reliable,
         stage[p] = "handshake", stage'[p] = "attached",
         f.type = "invite" => F = <<Frame("accept", 0)>>
  PROVE  Ordered'
<1> SUFFICES \A x \in Peers : OrderAt(x)'
  BY DEF Ordered
<1>1. PICK q \in Peers : q = Peer(p) /\ q # p /\ Peer(q) = p /\ \A x \in Peers : x = p \/ x = q
  BY PeerIs
<1>2. OrderAt(p) /\ OrderAt(q) /\ stage'[q] = stage[q]
  BY <1>1 DEF Ordered, Alone
<1>3. line[p] # <<>> /\ line[p] \in Seq(AllFrames) /\ line[q] \in Seq(AllFrames)
      /\ line'[q] = line[q] \o F
  BY <1>1 DEF Moved, Types
<1>4. f \in Range(line[p])
  BY <1>3, RangeTail
<1>5. PICK taken : taken = TRUE
  OBVIOUS
<1>6. Moved(p, taken, F)
  BY <1>5
<1>7. \A g \in Range(line'[p]) : g \in Range(line[p])
  BY <1>1, <1>6, MovedFirst
<1>8. stage[q] \notin Early
  BY <1>1, <1>2, <1>4 DEF OrderAt, Ends, Early, Used
<1>9. ASSUME stage[q] = "handshake" PROVE Released(q, line'[q])
  <2>1. f.type = "invite"
    BY <1>1, <1>2, <1>4, <1>9 DEF OrderAt, Ends, Used
  <2>2. Right(p, f)
    BY <1>4 DEF AllRight, RightAt
  <2>3. PICK a : a = Frame("accept", 0)
    OBVIOUS
  <2>4. Ends(q, a) /\ a \in AllFrames
    BY <1>1, <2>1, <2>2, <2>3, FrameIs DEF Right, Ends, FrameTypes
  <2>5. \A g \in Range(line[q]) : g.type # "mojo"
    BY <1>1, <1>2 DEF OrderAt, Used
  <2>6. Released(q, line[q] \o <<a>>)
    BY <1>3, <2>4, <2>5, ReleasedLast
  <2> QED BY <1>3, <2>1, <2>3, <2>6
<1>10. OrderAt(p)'
  BY DEF OrderAt, Used, Early
<1>11. OrderAt(q)'
  BY <1>1, <1>2, <1>7, <1>8, <1>9 DEF OrderAt, Released, Ends, SameRoles
<1> QED BY <1>1, <1>10, <1>11

LEMMA OrderUses ==
  ASSUME Types, Ordered, SameRoles, NEW p \in Peers, NEW taken, NEW F \in Seq(AllFrames),
         Moved(p, taken, F), stage[p] = "attached", stage'[p] \in Used, Alone(p)
  PROVE  Ordered'
<1> SUFFICES ASSUME reliable PROVE \A x \in Peers : OrderAt(x)'
  BY DEF Ordered, SameRoles
<1>1. PICK q \in Peers : q = Peer(p) /\ q # p /\ Peer(q) = p /\ \A x \in Peers : x = p \/ x = q
  BY PeerIs
<1>2. OrderAt(q) /\ stage'[q] = stage[q] /\ stage[p] \in Used
  BY <1>1 DEF Ordered, Alone, Used
<1>3. line[q] \in Seq(AllFrames) /\ line'[q] = line[q] \o F
  BY <1>1 DEF Moved, Types
<1>4. \A g \in Range(line'[p]) : g \in Range(line[p])
  BY <1>1, MovedFirst
<1>5. Released(q, line[q]) => Released(q, line'[q])
  BY <1>3, ReleasedCat
<1>6. OrderAt(p)'
  BY DEF OrderAt, Used, Early
<1>7. OrderAt(q)'
  BY <1>1, <1>2, <1>4, <1>5 DEF OrderAt, Released, Ends, SameRoles
<1> QED BY <1>1, <1>6, <1>7

\* Time passes.
LEMMA TickStep ==
  ASSUME IInv, Tick
  PROVE  IInv'
<1>1. /\ UNCHANGED <<reliable, offers, writer, stage, count, line, air, accepted>>
      /\ UNCHANGED <<pipe, netOpen, inbox, written, delivered, asked, refused>>
  BY DEF Tick, sessionVars
<1>2. Types /\ AllRight /\ Ordered /\ Flow
  BY DEF IInv
<1>3. Types'
  BY <1>1, <1>2 DEF Types
<1>4. AllRight'
  BY <1>1, <1>2 DEF AllRight, RightAt, Right, RightMessage
<1>5. Ordered'
  BY <1>1, <1>2 DEF Ordered, OrderAt, Released, Ends
<1>6. Flow'
  <2>1. (reliable /\ (\A p \in Peers : ~refused[p]))' = (reliable /\ (\A p \in Peers : ~refused[p]))
    BY <1>1
  <2>2. Flows(writer, Peer(writer))' = Flows(writer, Peer(writer))
    BY <1>1 DEF Flows, Listens
  <2> QED BY <1>2, <2>1, <2>2 DEF Flow
<1> QED BY <1>3, <1>4, <1>5, <1>6 DEF IInv

LEMMA FramesSent ==
  ASSUME Types, NEW p \in Peers, NEW F, F \in {QuietFrames(p), SliceFrames(p), AttemptFrames(p)}
  PROVE  /\ F \in {<<>>, <<Frame("magic", 0)>>, <<Frame("close", 0)>>, <<Frame("invite", 0)>>}
         /\ F = <<Frame("invite", 0)>> => offers[p]
         /\ F \in Seq(AllFrames)
<1>1. /\ F \in {<<>>, <<Frame("magic", 0)>>, <<Frame("close", 0)>>, <<Frame("invite", 0)>>}
      /\ F = <<Frame("invite", 0)>> => offers[p]
  BY DEF QuietFrames, SliceFrames, AttemptFrames, Frame
<1>2. /\ <<>> \in Seq(AllFrames) /\ <<Frame("magic", 0)>> \in Seq(AllFrames)
      /\ <<Frame("close", 0)>> \in Seq(AllFrames) /\ <<Frame("invite", 0)>> \in Seq(AllFrames)
  BY FrameIs DEF FrameTypes
<1> QED BY <1>1, <1>2

-----------------------------------------------------------------------------
(* The steps of a peer that connects.                                      *)

Signals == {<<>>, <<Frame("magic", 0)>>, <<Frame("close", 0)>>,
            <<Frame("invite", 0)>>, <<Frame("accept", 0)>>}

LEMMA SignalIs ==
  ASSUME NEW F \in Signals
  PROVE  /\ F \in Seq(AllFrames)
         /\ \A f \in Range(F) : /\ f.type \in {"magic", "close", "invite", "accept"}
                                /\ f.type = "invite" => F = <<Frame("invite", 0)>>
                                /\ f.type = "accept" => F = <<Frame("accept", 0)>>
<1>1. ASSUME NEW t \in {"magic", "close", "invite", "accept"}, F = <<Frame(t, 0)>>
      PROVE  F \in Seq(AllFrames) /\ \A f \in Range(F) : f.type = t
  BY <1>1, FrameIs DEF FrameTypes
<1>2. CASE F = <<>>
  <2>1. F \in Seq(AllFrames) /\ Range(F) = {}
    <3> HIDE DEF AllFrames
    <3> QED BY <1>2 DEF Range
  <2> QED BY <2>1
<1> QED BY <1>1, <1>2 DEF Signals

\* The other peer does nothing.
Beside(p) == \A q \in Peers : q # p => /\ stage'[q] = stage[q] /\ count'[q] = count[q]
                                       /\ netOpen'[q] = netOpen[q]

LEMMA ConnectStep ==
  ASSUME IInv, SameRoles, NEW p \in Peers, NEW taken \in BOOLEAN, NEW F \in Signals,
         Moved(p, taken, F), F = <<Frame("invite", 0)>> => offers[p],
         F = <<Frame("accept", 0)>> => accepted'[p],
         UNCHANGED <<pipe, inbox, written, delivered, asked, refused>>,
         stage[p] \in Running \cup {"idle"}, Beside(p), Grows,
         stage' \in [Peers -> Stages], count' \in [Peers -> Nat],
         netOpen' \in [Peers -> BOOLEAN], accepted' \in [Peers -> BOOLEAN],
         stage'[p] = "attached" => (offers[p] /\ ~offers[Peer(p)] => accepted[Peer(p)]),
         taken /\ reliable => Head(line[p]).type # "mojo", Ordered'
  PROVE  IInv'
<1>1. Types /\ AllRight /\ Ordered /\ Flow
  BY DEF IInv
<1>2. Types'
  BY <1>1 DEF Types, SameRoles, Moved
<1>3. /\ F \in Seq(AllFrames)
      /\ \A f \in Range(F) : /\ f.type \in {"magic", "close", "invite", "accept"}
                             /\ f.type = "invite" => F = <<Frame("invite", 0)>>
                             /\ f.type = "accept" => F = <<Frame("accept", 0)>>
  BY SignalIs
<1>4. \A f \in Range(F) : Right(Peer(p), f)'
  BY <1>3, PeerIs DEF Right, SameRoles
<1>5. ASSUME NEW q \in Peers PROVE SessionRight(q)
  <2>1. stage'[q] # stage[q] => q = p /\ stage[q] \notin Used
    BY DEF Beside, Used, Running
  <2> QED BY <2>1 DEF SessionRight, Used
<1>6. AllRight'
  BY <1>1, <1>3, <1>4, <1>5, RightStep
<1>7. Flow'
  <2>1. \A f \in Range(F) : f.type # "mojo"
    BY <1>3
  <2> QED BY <1>1, <1>3, <2>1, FlowConnects DEF Beside
<1> QED BY <1>2, <1>6, <1>7 DEF IInv

LEMMA PunchStartStep ==
  ASSUME IInv, NEW p \in Peers, PunchStart(p)
  PROVE  IInv'
<1> DEFINE F == <<Frame("magic", 0)>>
<1>1. Types /\ Ordered
  BY DEF IInv
<1>2. /\ stage[p] = "idle" /\ stage' = [stage EXCEPT ![p] = "punch"]
      /\ count' = [count EXCEPT ![p] = 1] /\ Sends(p, F) /\ SameRoles
      /\ accepted' = accepted /\ netOpen' = netOpen
      /\ UNCHANGED <<pipe, inbox, written, delivered, asked, refused>>
  BY DEF PunchStart, SameRoles, sessionVars
<1>3. /\ stage' \in [Peers -> Stages] /\ count' \in [Peers -> Nat] /\ stage'[p] = "punch"
      /\ netOpen' \in [Peers -> BOOLEAN] /\ accepted' \in [Peers -> BOOLEAN]
  BY <1>1, <1>2 DEF Types, Stages, Running
<1>4. Beside(p) /\ Alone(p) /\ Grows
  BY <1>1, <1>2 DEF Beside, Alone, Grows, Types
<1>5. PICK G : G = F
  OBVIOUS
<1>6. /\ G \in Signals /\ G # <<>> /\ G \in Seq(AllFrames) /\ \A f \in Range(G) : f.type = "magic"
      /\ G # <<Frame("invite", 0)>> /\ G # <<Frame("accept", 0)>>
  <2>1. G \in Signals /\ G # <<>> /\ G # <<Frame("invite", 0)>> /\ G # <<Frame("accept", 0)>>
    BY <1>5 DEF Signals, Frame
  <2> QED BY <1>5, <2>1, FrameIs DEF FrameTypes
<1>7. PICK taken \in BOOLEAN : taken = FALSE
  OBVIOUS
<1>8. Moved(p, taken, G)
  BY <1>1, <1>2, <1>5, <1>6, <1>7, SendsMoves
<1>9. Ordered'
  <2>1. /\ \A f \in Range(G) : f.type \notin {"mojo", "accept", "invite"}
        /\ stage[p] \notin Used /\ stage'[p] \notin Used /\ stage[p] \in Early
        /\ stage'[p] # "handshake" /\ stage[p] # "handshake"
    BY <1>2, <1>3, <1>6 DEF Used, Early
  <2> QED BY <1>1, <1>2, <1>4, <1>6, <1>8, <2>1, OrderConnects
<1>10. stage[p] \in Running \cup {"idle"} /\ stage'[p] # "attached"
  BY <1>2, <1>3
<1> QED BY <1>2, <1>3, <1>4, <1>6, <1>7, <1>8, <1>9, <1>10, ConnectStep

\* A connecting peer goes on to its next attempt, poll or slice, or gives up,
\* and sends what belongs to it.
GoesOn(p, G) ==
  \/ stage[p] = "punch" /\ NextAttempt(p) /\ netOpen' = netOpen /\ G = AttemptFrames(p)
  \/ stage[p] = "drain" /\ AfterQuiet(p) /\ G = QuietFrames(p)
  \/ stage[p] = "handshake" /\ NextSlice(p) /\ G = SliceFrames(p)

LEMMA NextMoves ==
  ASSUME Types, NEW p \in Peers, NEW G, GoesOn(p, G)
  PROVE  /\ stage' \in [Peers -> Stages] /\ count' \in [Peers -> Nat]
         /\ netOpen' \in [Peers -> BOOLEAN] /\ Beside(p) /\ Alone(p)
         /\ stage'[p] \in Running \cup {"failed"}
         /\ stage'[p] \in Early => stage[p] \in Early /\ G \in {<<>>, <<Frame("magic", 0)>>}
         /\ stage'[p] = "handshake" => stage[p] \in {"drain", "handshake"}
<1>1. /\ stage \in [Peers -> Stages] /\ count \in [Peers -> Nat] /\ netOpen \in [Peers -> BOOLEAN]
      /\ {"failed", "handshake"} \subseteq Stages /\ stage[p] \in Running
  BY DEF Types, Stages, Running, GoesOn
<1>2. /\ \/ stage' = [stage EXCEPT ![p] = "failed"] \/ stage' = [stage EXCEPT ![p] = "handshake"]
         \/ stage' = stage
      /\ \/ count' = count \/ count' = [count EXCEPT ![p] = count[p] + 1]
         \/ count' = [count EXCEPT ![p] = 0]
      /\ \/ netOpen' = netOpen \/ netOpen' = [netOpen EXCEPT ![p] = TRUE]
         \/ netOpen' = [netOpen EXCEPT ![p] = FALSE]
  BY DEF NextAttempt, AfterQuiet, NextSlice, GoesOn
<1>3. /\ stage' \in [Peers -> Stages] /\ stage'[p] \in Running \cup {"failed"}
      /\ \A q \in Peers : q # p => stage'[q] = stage[q]
  BY <1>1, <1>2 DEF Running
<1>4. count' \in [Peers -> Nat] /\ \A q \in Peers : q # p => count'[q] = count[q]
  BY <1>1, <1>2
<1>5. netOpen' \in [Peers -> BOOLEAN] /\ \A q \in Peers : q # p => netOpen'[q] = netOpen[q]
  BY <1>1, <1>2, Zenon
<1>6. CASE stage[p] = "punch" /\ NextAttempt(p) /\ G = AttemptFrames(p)
  <2>1. stage' = stage \/ stage' = [stage EXCEPT ![p] = "failed"]
    BY <1>6 DEF NextAttempt
  <2>2. stage'[p] \in {"punch", "failed"}
    BY <1>1, <1>6, <2>1
  <2>3. G \in {<<>>, <<Frame("magic", 0)>>}
    BY <1>6 DEF AttemptFrames
  <2> QED BY <1>3, <1>4, <1>5, <1>6, <2>2, <2>3 DEF Early, Beside, Alone
<1>7. CASE stage[p] = "drain" /\ AfterQuiet(p) /\ G = QuietFrames(p)
  <2>1. CASE count[p] + 1 = Quiet
    <3>1. stage'[p] = "handshake"
      BY <1>1, <1>7, <2>1 DEF AfterQuiet
    <3> QED BY <1>3, <1>4, <1>5, <1>7, <3>1 DEF Early, Beside, Alone
  <2>2. CASE count[p] + 1 # Quiet
    <3>1. stage' = stage /\ G = <<>>
      BY <1>7, <2>2 DEF AfterQuiet, QuietFrames
    <3> QED BY <1>3, <1>4, <1>5, <1>7, <3>1 DEF Early, Beside, Alone
  <2> QED BY <2>1, <2>2
<1>8. CASE stage[p] = "handshake" /\ NextSlice(p) /\ G = SliceFrames(p)
  <2>1. stage' = stage \/ stage' = [stage EXCEPT ![p] = "failed"]
    BY <1>8 DEF NextSlice
  <2>2. stage'[p] \in {"handshake", "failed"}
    BY <1>1, <1>8, <2>1
  <2> QED BY <1>3, <1>4, <1>5, <1>8, <2>2 DEF Early, Beside, Alone
<1> QED BY <1>6, <1>7, <1>8 DEF GoesOn

\* It may have taken a frame that does not end its handshake.
LEMMA GoesOnStep ==
  ASSUME IInv, SameRoles, NEW p \in Peers, NEW taken \in BOOLEAN, NEW G, Moved(p, taken, G),
         GoesOn(p, G), stage[p] = "handshake" /\ taken /\ reliable => ~Ends(p, Head(line[p])),
         UNCHANGED <<accepted, pipe, inbox, written, delivered, asked, refused>>
  PROVE  IInv'
<1>1. Types /\ Ordered
  BY DEF IInv
<1>2. /\ G \in Signals /\ (G = <<Frame("invite", 0)>> => offers[p]) /\ G # <<Frame("accept", 0)>>
      /\ G \in Seq(AllFrames)
      /\ \A f \in Range(G) : f.type \notin {"mojo", "accept"}
      /\ G \in {<<>>, <<Frame("magic", 0)>>} => \A f \in Range(G) : f.type # "invite"
  <2>1. G \in {QuietFrames(p), SliceFrames(p), AttemptFrames(p)}
    BY DEF GoesOn
  <2>2. /\ G \in {<<>>, <<Frame("magic", 0)>>, <<Frame("close", 0)>>, <<Frame("invite", 0)>>}
        /\ G = <<Frame("invite", 0)>> => offers[p]
        /\ G \in Seq(AllFrames)
    BY <1>1, <2>1, FramesSent
  <2>3. G \in Signals /\ G # <<Frame("accept", 0)>>
        /\ (G \in {<<>>, <<Frame("magic", 0)>>} => G # <<Frame("invite", 0)>>)
    <3>1. G \in Signals
      BY <2>2 DEF Signals
    <3>2. /\ Frame("magic", 0) # Frame("accept", 0) /\ Frame("close", 0) # Frame("accept", 0)
          /\ Frame("invite", 0) # Frame("accept", 0) /\ Frame("magic", 0) # Frame("invite", 0)
      BY DEF Frame
    <3>3. ASSUME NEW a, NEW b, a # b
          PROVE  <<a>> # <<b>> /\ <<>> # <<a>>
      <4>1. <<a>>[1] = a /\ <<b>>[1] = b /\ Len(<<a>>) = 1 /\ Len(<<>>) = 0
        OBVIOUS
      <4> QED BY <3>3, <4>1
    <3>4. /\ <<Frame("magic", 0)>> # <<Frame("accept", 0)>>
          /\ <<Frame("close", 0)>> # <<Frame("accept", 0)>>
          /\ <<Frame("invite", 0)>> # <<Frame("accept", 0)>>
          /\ <<Frame("magic", 0)>> # <<Frame("invite", 0)>>
          /\ <<>> # <<Frame("accept", 0)>> /\ <<>> # <<Frame("invite", 0)>>
      BY <3>2, <3>3, Zenon
    <3> QED BY <2>2, <3>1, <3>4, Zenon
  <2>4. \A f \in Range(G) : /\ f.type \in {"magic", "close", "invite", "accept"}
                            /\ f.type = "invite" => G = <<Frame("invite", 0)>>
                            /\ f.type = "accept" => G = <<Frame("accept", 0)>>
    BY <2>3, SignalIs
  <2> QED BY <2>2, <2>3, <2>4
<1>3. /\ stage' \in [Peers -> Stages] /\ count' \in [Peers -> Nat]
      /\ netOpen' \in [Peers -> BOOLEAN] /\ Beside(p) /\ Alone(p)
      /\ stage'[p] \in Running \cup {"failed"}
      /\ stage'[p] \in Early => stage[p] \in Early /\ G \in {<<>>, <<Frame("magic", 0)>>}
      /\ stage'[p] = "handshake" => stage[p] \in {"drain", "handshake"}
  BY <1>1, NextMoves
<1>4. stage[p] \in Running /\ stage[p] \notin Used /\ stage'[p] \notin Used /\ stage'[p] # "attached"
  BY <1>3 DEF GoesOn, Running, Used
<1>5. accepted' \in [Peers -> BOOLEAN] /\ Grows
  BY <1>1 DEF Types, Grows
<1>6. Ordered'
  BY <1>1, <1>2, <1>3, <1>4, OrderConnects
<1>7. taken /\ reliable => Head(line[p]).type # "mojo"
  <2>1. stage[p] \in Early \cup {"handshake"}
    BY <1>4 DEF Early, Running
  <2>2. taken /\ reliable => line[p] # <<>>
    BY DEF Moved
  <2> QED BY <1>1, <2>1, <2>2, NotTaken
<1> QED BY <1>2, <1>3, <1>4, <1>5, <1>6, <1>7, ConnectStep

LEMMA PunchRecvStep ==
  ASSUME IInv, NEW p \in Peers, NEW f \in Frames, PunchRecv(p, f)
  PROVE  IInv'
<1>1. Types /\ Ordered
  BY DEF IInv
<1>2. /\ stage[p] = "punch" /\ Arrives(p, f) /\ SameRoles
      /\ accepted' = accepted /\ netOpen' = netOpen
      /\ UNCHANGED <<pipe, inbox, written, delivered, asked, refused>>
  BY DEF PunchRecv, SameRoles, sessionVars
<1>3. PICK taken \in BOOLEAN : taken = TRUE
  OBVIOUS
<1>4. CASE f.type = "magic"
  <2>1. PICK G : G = <<Frame("magic", 0)>>
    OBVIOUS
  <2>2. /\ stage' = [stage EXCEPT ![p] = "drain"] /\ count' = [count EXCEPT ![p] = 0]
        /\ Takes(p, f, G)
    BY <1>4, <2>1 DEF PunchRecv
  <2>3. /\ G \in Signals /\ G # <<>> /\ G \in Seq(AllFrames) /\ \A g \in Range(G) : g.type = "magic"
        /\ G # <<Frame("invite", 0)>> /\ G # <<Frame("accept", 0)>>
    <3>1. G \in Signals /\ G # <<>> /\ G # <<Frame("invite", 0)>> /\ G # <<Frame("accept", 0)>>
      BY <2>1 DEF Signals, Frame
    <3> QED BY <2>1, <3>1, FrameIs DEF FrameTypes
  <2>4. Moved(p, taken, G) /\ (reliable => f = Head(line[p]))
    BY <1>1, <1>2, <1>3, <2>2, <2>3, TakesMoves
  <2>5. /\ stage' \in [Peers -> Stages] /\ count' \in [Peers -> Nat] /\ stage'[p] = "drain"
        /\ count'[p] = 0 /\ netOpen' \in [Peers -> BOOLEAN] /\ accepted' \in [Peers -> BOOLEAN]
    BY <1>1, <1>2, <2>2 DEF Types, Stages, Running
  <2>6. Beside(p) /\ Alone(p) /\ Grows
    BY <1>1, <1>2, <2>2 DEF Beside, Alone, Grows, Types
  <2>7. Ordered'
    <3>1. /\ \A g \in Range(G) : g.type \notin {"mojo", "accept", "invite"}
          /\ stage[p] \notin Used /\ stage'[p] \notin Used /\ stage[p] \in Early
          /\ stage'[p] # "handshake" /\ stage[p] # "handshake"
      BY <1>2, <2>3, <2>5 DEF Used, Early
    <3> QED BY <1>1, <1>2, <2>3, <2>4, <2>6, <3>1, OrderConnects
  <2>8. /\ stage[p] \in Running \cup {"idle"} /\ stage'[p] # "attached"
        /\ taken /\ reliable => Head(line[p]).type # "mojo"
    BY <1>2, <1>4, <2>4, <2>5 DEF Running
  <2> QED BY <1>2, <2>3, <2>4, <2>5, <2>6, <2>7, <2>8, ConnectStep
<1>5. CASE f.type # "magic"
  <2>1. NextAttempt(p) /\ Takes(p, f, AttemptFrames(p))
    BY <1>5 DEF PunchRecv
  <2>2. PICK G : G = AttemptFrames(p)
    OBVIOUS
  <2>3. G \in Seq(AllFrames)
    BY <1>1, <2>2, FramesSent
  <2>4. Moved(p, taken, G)
    BY <1>1, <1>2, <1>3, <2>1, <2>2, <2>3, TakesMoves
  <2>5. GoesOn(p, G) /\ stage[p] # "handshake"
    BY <1>2, <2>1, <2>2 DEF GoesOn
  <2> QED BY <1>2, <2>4, <2>5, GoesOnStep
<1> QED BY <1>4, <1>5

LEMMA TimeoutStep ==
  ASSUME IInv, NEW p \in Peers, PunchTimeout(p) \/ DrainTimeout(p) \/ HandshakeTimeout(p)
  PROVE  IInv'
<1>1. Types
  BY DEF IInv
<1>2. PICK G : GoesOn(p, G) /\ Sends(p, G)
  BY DEF PunchTimeout, DrainTimeout, HandshakeTimeout, sessionVars, GoesOn
<1>3. /\ SameRoles
      /\ UNCHANGED <<accepted, pipe, inbox, written, delivered, asked, refused>>
  BY DEF PunchTimeout, DrainTimeout, HandshakeTimeout, SameRoles, sessionVars
<1>4. G \in Seq(AllFrames)
  <2>1. G \in {QuietFrames(p), SliceFrames(p), AttemptFrames(p)}
    BY <1>2 DEF GoesOn
  <2> QED BY <1>1, <2>1, FramesSent
<1>5. PICK taken \in BOOLEAN : taken = FALSE
  OBVIOUS
<1>6. Moved(p, taken, G)
  BY <1>1, <1>2, <1>4, <1>5, SendsMoves
<1> QED BY <1>2, <1>3, <1>5, <1>6, GoesOnStep

LEMMA DrainRecvStep ==
  ASSUME IInv, NEW p \in Peers, NEW f \in Frames, DrainRecv(p, f)
  PROVE  IInv'
<1>1. Types /\ Ordered
  BY DEF IInv
<1>2. /\ stage[p] = "drain" /\ Arrives(p, f) /\ SameRoles /\ count' = [count EXCEPT ![p] = 0]
      /\ stage' = stage /\ accepted' = accepted /\ netOpen' = netOpen
      /\ UNCHANGED <<pipe, inbox, written, delivered, asked, refused>>
  BY DEF DrainRecv, SameRoles, sessionVars
<1>3. PICK taken \in BOOLEAN : taken = TRUE
  OBVIOUS
<1>4. PICK G : G = <<>>
  OBVIOUS
<1>5. /\ G \in Signals /\ G = <<>> /\ G \in Seq(AllFrames) /\ \A g \in Range(G) : g.type = "magic"
      /\ G # <<Frame("invite", 0)>> /\ G # <<Frame("accept", 0)>>
  <2>1. G \in Signals /\ G # <<Frame("invite", 0)>> /\ G # <<Frame("accept", 0)>>
    BY <1>4 DEF Signals, Frame
  <2> QED BY <1>4, <2>1, FrameIs DEF FrameTypes
<1>6. Takes(p, f, G)
  BY <1>4 DEF DrainRecv
<1>7. Moved(p, taken, G) /\ (reliable => line[p] # <<>>)
  BY <1>1, <1>2, <1>3, <1>5, <1>6, TakesMoves
<1>8. /\ stage' \in [Peers -> Stages] /\ count' \in [Peers -> Nat] /\ stage'[p] = "drain"
      /\ count'[p] = 0 /\ netOpen' \in [Peers -> BOOLEAN] /\ accepted' \in [Peers -> BOOLEAN]
  BY <1>1, <1>2 DEF Types
<1>9. Beside(p) /\ Alone(p) /\ Grows
  BY <1>1, <1>2 DEF Beside, Alone, Grows, Types
<1>10. Ordered'
  <2>1. /\ \A g \in Range(G) : g.type \notin {"mojo", "accept", "invite"}
        /\ stage[p] \notin Used /\ stage'[p] \notin Used /\ stage[p] \in Early
        /\ stage'[p] # "handshake" /\ stage[p] # "handshake"
    BY <1>2, <1>5, <1>8 DEF Used, Early
  <2> QED BY <1>1, <1>2, <1>5, <1>7, <1>9, <2>1, OrderConnects
<1>11. taken /\ reliable => Head(line[p]).type # "mojo"
  <2>1. stage[p] \in Early \cup {"handshake"} /\ stage[p] # "handshake"
    BY <1>2 DEF Early
  <2> QED BY <1>1, <1>7, <2>1, NotTaken
<1>12. stage[p] \in Running \cup {"idle"} /\ stage'[p] # "attached"
  BY <1>2, <1>8 DEF Running
<1> QED BY <1>2, <1>5, <1>7, <1>8, <1>9, <1>10, <1>11, <1>12, ConnectStep

\* The answer to an invite, or the end of an offer.
LEMMA AttachStep ==
  ASSUME IInv, NEW p \in Peers, NEW f \in Frames, HandshakeRecv(p, f),
         f.type = "invite" \/ (f.type = "accept" /\ offers[p])
  PROVE  IInv'
<1>1. Types /\ Ordered /\ AllRight
  BY DEF IInv
<1>2. PICK G : /\ Takes(p, f, G)
               /\ \/ f.type = "invite" /\ G = <<Frame("accept", 0)>> /\ accepted'[p]
                  \/ f.type = "accept" /\ offers[p] /\ G = <<>>
  BY <1>1 DEF HandshakeRecv, Types
<1>3. /\ stage[p] = "handshake" /\ Arrives(p, f) /\ SameRoles
      /\ stage' = [stage EXCEPT ![p] = "attached"] /\ count' = count /\ netOpen' = netOpen
      /\ UNCHANGED <<pipe, inbox, written, delivered, asked, refused>>
  BY DEF HandshakeRecv, SameRoles
<1>4. accepted' = accepted \/ accepted' = [accepted EXCEPT ![p] = TRUE]
  BY DEF HandshakeRecv
<1>5. G \in Signals /\ G \in Seq(AllFrames) /\ G # <<Frame("invite", 0)>>
      /\ (G = <<Frame("accept", 0)>> => accepted'[p])
  <2>1. /\ G \in Signals /\ G # <<Frame("invite", 0)>>
        /\ (G = <<Frame("accept", 0)>> => accepted'[p])
    BY <1>2 DEF Signals, Frame
  <2> QED BY <2>1, SignalIs
<1>6. PICK taken \in BOOLEAN : taken = TRUE
  OBVIOUS
<1>7. /\ Moved(p, taken, G) /\ f \in UnderWay(p)
      /\ reliable => line[p] # <<>> /\ f = Head(line[p])
  BY <1>1, <1>2, <1>3, <1>5, <1>6, TakesMoves
<1>8. Right(p, f)
  BY <1>1, <1>7 DEF AllRight, RightAt, UnderWay
<1>9. offers[p] /\ ~offers[Peer(p)] => accepted[Peer(p)]
  BY <1>2, <1>8 DEF Right
<1>10. accepted' \in [Peers -> BOOLEAN] /\ Grows
  <2>1. accepted' \in [Peers -> BOOLEAN] /\ \A q \in Peers : accepted[q] => accepted'[q]
    BY <1>1, <1>4, Zenon DEF Types
  <2> QED BY <1>3, <2>1 DEF Grows
<1>11. /\ stage' \in [Peers -> Stages] /\ count' \in [Peers -> Nat] /\ stage'[p] = "attached"
       /\ netOpen' \in [Peers -> BOOLEAN] /\ Beside(p) /\ Alone(p)
  BY <1>1, <1>3 DEF Types, Stages, Beside, Alone
<1>12. Ordered'
  <2>1. CASE reliable
    <3>1. Ends(p, f) /\ Moved(p, TRUE, G) /\ (f.type = "invite" => G = <<Frame("accept", 0)>>)
      BY <1>2, <1>6, <1>7 DEF Ends
    <3> QED BY <1>1, <1>3, <1>5, <1>7, <1>11, <2>1, <3>1, OrderAttaches
  <2>2. CASE ~reliable
    BY <1>3, <2>2 DEF Ordered, SameRoles
  <2> QED BY <2>1, <2>2
<1>13. /\ stage[p] \in Running \cup {"idle"}
       /\ taken /\ reliable => Head(line[p]).type # "mojo"
  BY <1>2, <1>3, <1>7 DEF Running
<1> QED BY <1>3, <1>5, <1>7, <1>9, <1>10, <1>11, <1>12, <1>13, ConnectStep

LEMMA HandshakeRecvStep ==
  ASSUME IInv, NEW p \in Peers, NEW f \in Frames, HandshakeRecv(p, f)
  PROVE  IInv'
<1>1. Types /\ Ordered
  BY DEF IInv
<1>2. CASE f.type = "invite" \/ (f.type = "accept" /\ offers[p])
  BY <1>2, AttachStep
<1>3. CASE f.type # "invite" /\ ~(f.type = "accept" /\ offers[p])
  <2>1. /\ stage[p] = "handshake" /\ Arrives(p, f) /\ SameRoles /\ NextSlice(p)
        /\ UNCHANGED <<accepted, pipe, inbox, written, delivered, asked, refused>>
    BY <1>3 DEF HandshakeRecv, SameRoles
  <2>2. PICK G : G = SliceFrames(p)
    OBVIOUS
  <2>3. G \in Seq(AllFrames)
    BY <1>1, <2>2, FramesSent
  <2>4. PICK taken \in BOOLEAN : taken = TRUE
    OBVIOUS
  <2>5. Takes(p, f, G)
    BY <1>3, <2>2 DEF HandshakeRecv
  <2>6. Moved(p, taken, G) /\ (reliable => f = Head(line[p]))
    BY <1>1, <2>1, <2>3, <2>4, <2>5, TakesMoves
  <2>7. GoesOn(p, G)
    BY <2>1, <2>2 DEF GoesOn
  <2>8. reliable => ~Ends(p, Head(line[p]))
    BY <1>3, <2>6 DEF Ends
  <2> QED BY <2>1, <2>6, <2>7, <2>8, GoesOnStep
<1> QED BY <1>2, <1>3

-----------------------------------------------------------------------------
(* The steps of a peer that is attached.                                   *)

Apart(p) ==
  \A q \in Peers : q # p =>
    /\ stage'[q] = stage[q] /\ count'[q] = count[q] /\ netOpen'[q] = netOpen[q]
    /\ pipe'[q] = pipe[q] /\ inbox'[q] = inbox[q] /\ delivered'[q] = delivered[q]
    /\ written'[q] = written[q]

LEMMA UseStep ==
  ASSUME IInv, SameRoles, NEW p \in Peers, NEW taken \in BOOLEAN, NEW F \in Seq(AllFrames),
         Moved(p, taken, F), Apart(p), Grows, Types', Flow',
         stage[p] = "attached", stage'[p] \in Used,
         \A f \in Range(F) : f \in Range(pipe[p]) \/ Right(Peer(p), f)',
         \A f \in Range(inbox'[p]) \cup Range(delivered'[p]) :
           f \in Range(inbox[p]) \cup Range(delivered[p]) \/ RightMessage(p, f)',
         \A f \in Range(pipe'[p]) : f \in Range(pipe[p]) \/ (f.type = "mojo" /\ p = writer)
  PROVE  IInv'
<1>1. Types /\ AllRight /\ Ordered
  BY DEF IInv
<1>2. \A f \in Range(F) : Right(Peer(p), f)'
  <2>1. \A f \in Range(pipe[p]) : f.type = "mojo" /\ p = writer
    BY <1>1 DEF AllRight, RightAt
  <2>2. \A f \in Range(pipe[p]) : Right(Peer(p), f)'
    BY <2>1, PeerIs DEF Right, SameRoles
  <2> QED BY <2>2
<1>3. \A q \in Peers : SessionRight(q)
  BY DEF SessionRight, Apart, Used
<1>4. AllRight'
  BY <1>1, <1>2, <1>3, RightStep
<1>5. Ordered'
  <2>1. Alone(p)
    BY DEF Apart, Alone
  <2> QED BY <1>1, <2>1, OrderUses
<1> QED BY <1>4, <1>5 DEF IInv

\* What a flush sends, with frames of the step behind it.
LEMMA FlushPasses ==
  ASSUME NEW from, pipe[from] \in Seq(AllFrames), NEW T \in Seq(AllFrames), NEW F, F = pipe[from] \o T,
         pipe'[from] = <<>>, written[from] \in Nat, written'[from] \in Nat,
         Numbers(T, written[from], written'[from])
  PROVE  \A d \in Nat : Passes(from, F, d)
<1> SUFFICES ASSUME NEW d \in Nat, Numbers(pipe[from], d, written[from])
             PROVE  \E c \in Nat : Numbers(F, d, c) /\ Numbers(pipe'[from], c, written'[from])
  BY DEF Passes
<1>1. Numbers(F, d, written'[from])
  BY NumbersCat
<1>2. <<>> \in Seq(AllFrames) /\ Range(<<>>) = {}
  BY FrameIs DEF FrameTypes
<1>3. Numbers(<<>>, written'[from], written'[from])
  BY <1>2, NumbersNone
<1> QED BY <1>1, <1>3

\* A message of the client.
LEMMA MessageIs ==
  ASSUME Types, NEW p \in Peers, NEW f, f = Frame("mojo", written[p] + 1)
  PROVE  /\ f \in AllFrames /\ f.type = "mojo" /\ <<f>> \in Seq(AllFrames) /\ Range(<<f>>) = {f}
         /\ Numbers(<<f>>, written[p], written[p] + 1)
         /\ pipe[p] \in Seq(AllFrames) /\ Append(pipe[p], f) = pipe[p] \o <<f>>
<1>1. written[p] \in Nat /\ written[p] + 1 \in Nat /\ pipe[p] \in Seq(AllFrames)
  BY DEF Types
<1>2. /\ f \in AllFrames /\ f.type = "mojo" /\ f.n = written[p] + 1
      /\ <<f>> \in Seq(AllFrames) /\ Range(<<f>>) = {f}
  BY <1>1, FrameIs DEF FrameTypes
<1>3. Append(pipe[p], f) = pipe[p] \o <<f>>
  <2> HIDE DEF AllFrames
  <2> QED BY <1>1, <1>2
<1> QED BY <1>1, <1>2, <1>3, NumbersOne

\* A step of the writer that takes nothing from the reader.
LEMMA WriterFlow ==
  ASSUME Types, Flow, SameRoles, Refuses, NEW p \in Peers, p = writer, NEW taken,
         NEW F \in Seq(AllFrames), Moved(p, taken, F), Apart(p),
         (\A d \in Nat : Passes(p, F, d)) \/ \E q \in Peers : refused'[q]
  PROVE  Flow'
<1>1. PICK to \in Peers : to = Peer(p) /\ to # p
  BY PeerIs
<1> QED BY <1>1, FlowSent DEF Apart

LEMMA WriteLocalStep ==
  ASSUME IInv, NEW p \in Peers, WriteLocal(p)
  PROVE  IInv'
<1>1. Types /\ Flow
  BY DEF IInv
<1>2. PICK f : f = Frame("mojo", written[p] + 1)
  OBVIOUS
<1>3. PICK G : G = <<>>
  OBVIOUS
<1>4. PICK taken \in BOOLEAN : taken = FALSE
  OBVIOUS
<1>0. PICK s : s = <<f>>
  OBVIOUS
<1>5. /\ f \in AllFrames /\ f.type = "mojo" /\ s \in Seq(AllFrames) /\ Range(s) = {f}
      /\ Numbers(s, written[p], written[p] + 1)
      /\ pipe[p] \in Seq(AllFrames) /\ Append(pipe[p], f) = pipe[p] \o s
  BY <1>0, <1>1, <1>2, MessageIs
<1>6. /\ p = writer /\ stage[p] = "attached" /\ stage' = stage /\ count' = count
      /\ netOpen' = netOpen /\ inbox' = inbox /\ delivered' = delivered
      /\ accepted' = accepted /\ asked' = asked /\ refused' = refused /\ SameRoles
      /\ line' = line /\ air' = air
      /\ written' = [written EXCEPT ![p] = @ + 1] /\ pipe' = [pipe EXCEPT ![p] = Append(@, f)]
  BY <1>2 DEF WriteLocal, SameRoles
<1>7. G \in Seq(AllFrames) /\ Range(G) = {}
  BY <1>3, FrameIs DEF FrameTypes
<1>8. Moved(p, taken, G)
  <2>1. Peer(p) \in Peers /\ line[Peer(p)] \in Seq(AllFrames)
    BY <1>1, PeerIs DEF Types
  <2>2. line[Peer(p)] \o G = line[Peer(p)]
    BY <1>3, <1>7, <2>1, CatFirst
  <2> QED BY <1>1, <1>4, <1>6, <2>1, <2>2 DEF Moved, UnderWay, Types
<1>9. /\ pipe'[p] = pipe[p] \o s /\ written'[p] = written[p] + 1
      /\ written[p] \in Nat
  BY <1>1, <1>5, <1>6 DEF Types
<1>10. pipe'[p] \in Seq(AllFrames) /\ Range(pipe'[p]) = Range(pipe[p]) \cup {f}
  BY <1>5, <1>9, RangeCat
<1>11. Types'
  <2>1. pipe' \in [Peers -> Seq(AllFrames)] /\ written' \in [Peers -> Nat]
    BY <1>1, <1>6, <1>9, <1>10 DEF Types
  <2> QED BY <1>1, <1>6, <1>8, <2>1 DEF Types, SameRoles
<1>12. Apart(p) /\ Grows /\ Refuses
  BY <1>1, <1>6 DEF Apart, Grows, Refuses, Types
<1>13. \A d \in Nat : Passes(p, G, d)
  <2> SUFFICES ASSUME NEW d \in Nat, Numbers(pipe[p], d, written[p])
               PROVE  \E c \in Nat : Numbers(G, d, c) /\ Numbers(pipe'[p], c, written'[p])
    BY DEF Passes
  <2>1. Numbers(G, d, d)
    BY <1>7, NumbersNone
  <2>2. Numbers(pipe'[p], d, written'[p])
    <3>1. written'[p] \in Nat /\ Numbers(s, written[p], written'[p])
      BY <1>5, <1>9
    <3>2. Numbers(pipe[p] \o s, d, written'[p])
      BY <1>5, <1>9, <3>1, NumbersCat
    <3> QED BY <1>9, <3>2
  <2> QED BY <2>1, <2>2
<1>14. Flow'
  BY <1>1, <1>6, <1>7, <1>8, <1>12, <1>13, WriterFlow
<1> QED BY <1>5, <1>6, <1>7, <1>8, <1>10, <1>11, <1>12, <1>14, UseStep DEF Used

\* Fire, FireRun and a Pump flush the pipe; the frames in T come behind.
LEMMA FlushStep ==
  ASSUME IInv, NEW p \in Peers, NEW T \in Seq(AllFrames), Sends(p, pipe[p] \o T), SameRoles, Grows,
         p = writer \/ pipe[p] # <<>>, stage[p] = "attached", pipe' = [pipe EXCEPT ![p] = <<>>],
         UNCHANGED <<stage, count, netOpen, inbox, delivered, accepted, refused>>,
         asked' \in [Peers -> BOOLEAN], written' \in [Peers -> Nat],
         \A q \in Peers : q # p => written'[q] = written[q],
         Numbers(T, written[p], written'[p]), \A f \in Range(T) : Right(Peer(p), f)'
  PROVE  IInv'
<1>1. Types /\ Flow /\ AllRight
  BY DEF IInv
<1>2. PICK G : G = pipe[p] \o T
  OBVIOUS
<1>3. pipe[p] \in Seq(AllFrames) /\ written[p] \in Nat /\ written'[p] \in Nat /\ pipe'[p] = <<>>
  BY <1>1 DEF Types
<1>4. G \in Seq(AllFrames) /\ Range(G) = Range(pipe[p]) \cup Range(T)
      /\ <<>> \in Seq(AllFrames) /\ Range(<<>>) = {}
  BY <1>2, <1>3, RangeCat, FrameIs DEF FrameTypes
<1>5. PICK taken \in BOOLEAN : taken = FALSE
  OBVIOUS
<1>6. Moved(p, taken, G)
  BY <1>1, <1>2, <1>4, <1>5, SendsMoves
<1>7. p = writer
  <2>1. CASE pipe[p] # <<>>
    <3>1. Head(pipe[p]) \in Range(pipe[p])
      BY <1>3, <2>1, RangeTail
    <3> QED BY <1>1, <3>1 DEF AllRight, RightAt
  <2> QED BY <2>1
<1>8. Types'
  <2>1. pipe' \in [Peers -> Seq(AllFrames)]
    BY <1>1, <1>4 DEF Types
  <2> QED BY <1>1, <1>6, <2>1 DEF Types, SameRoles, Moved
<1>9. Apart(p) /\ Refuses
  BY <1>1 DEF Apart, Refuses, Types
<1>10. \A d \in Nat : Passes(p, G, d)
  BY <1>2, <1>3, FlushPasses
<1>11. Flow'
  BY <1>1, <1>4, <1>6, <1>7, <1>9, <1>10, WriterFlow
<1> QED BY <1>3, <1>4, <1>6, <1>8, <1>9, <1>11, UseStep DEF Used

LEMMA FireStep ==
  ASSUME IInv, NEW p \in Peers, Fire(p)
  PROVE  IInv'
<1>1. Types
  BY DEF IInv
<1>2. PICK f : f = Frame("mojo", written[p] + 1)
  OBVIOUS
<1>3. PICK T : T = <<f>>
  OBVIOUS
<1>4. /\ f.type = "mojo" /\ T \in Seq(AllFrames) /\ Range(T) = {f}
      /\ Numbers(T, written[p], written[p] + 1) /\ Append(pipe[p], f) = pipe[p] \o T
  BY <1>1, <1>2, <1>3, MessageIs
<1>5. /\ p = writer /\ stage[p] = "attached" /\ SameRoles /\ asked' = asked
      /\ UNCHANGED <<stage, count, netOpen, inbox, delivered, accepted, refused>>
      /\ written' = [written EXCEPT ![p] = @ + 1] /\ pipe' = [pipe EXCEPT ![p] = <<>>]
      /\ Sends(p, pipe[p] \o T)
  BY <1>2, <1>4 DEF Fire, SameRoles
<1>6. /\ written' \in [Peers -> Nat] /\ written'[p] = written[p] + 1
      /\ asked' \in [Peers -> BOOLEAN] /\ \A q \in Peers : q # p => written'[q] = written[q]
  BY <1>1, <1>5 DEF Types
<1>7. Grows
  BY <1>5 DEF Grows
<1>8. \A g \in Range(T) : Right(Peer(p), g)'
  BY <1>4, <1>5, PeerIs DEF Right, SameRoles
<1> QED BY <1>4, <1>5, <1>6, <1>7, <1>8, FlushStep

\* Frames of a step that are no messages.
LEMMA NoMessage ==
  ASSUME Types, NEW p \in Peers, NEW type \in FrameTypes \ {"mojo"}, NEW T,
         T \in {<<>>, <<Frame(type, 0)>>}
  PROVE  /\ T \in Seq(AllFrames) /\ Range(T) \subseteq {Frame(type, 0)}
         /\ \A f \in Range(T) : f.type = type /\ T = <<Frame(type, 0)>>
         /\ \A a \in Nat : Numbers(T, a, a)
<1>1. /\ T \in Seq(AllFrames) /\ Range(T) \subseteq {Frame(type, 0)}
      /\ \A f \in Range(T) : f.type = type /\ T = <<Frame(type, 0)>>
  <2>1. CASE T = <<>>
    BY <2>1, EmptyIs
  <2>2. CASE T = <<Frame(type, 0)>>
    BY <2>2, FrameIs
  <2> QED BY <2>1, <2>2
<1> QED BY <1>1, NumbersNone

LEMMA FireRunStep ==
  ASSUME IInv, NEW p \in Peers, FireRun(p)
  PROVE  IInv'
<1>1. Types
  BY DEF IInv
<1>2. PICK f : f = Frame("run", 0)
  OBVIOUS
<1>3. PICK T : T = <<f>>
  OBVIOUS
<1>4. /\ T \in Seq(AllFrames) /\ (\A g \in Range(T) : g.type = "run")
      /\ \A a \in Nat : Numbers(T, a, a)
  BY <1>1, <1>2, <1>3, NoMessage DEF FrameTypes
<1>5. f \in AllFrames /\ pipe[p] \in Seq(AllFrames)
  <2>1. f \in AllFrames
    BY <1>2, FrameIs DEF FrameTypes
  <2> QED BY <1>1, <2>1 DEF Types
<1>6. Append(pipe[p], f) = pipe[p] \o T
  <2> HIDE DEF AllFrames
  <2> QED BY <1>3, <1>5
<1>7. /\ p = writer /\ stage[p] = "attached" /\ SameRoles /\ asked' = [asked EXCEPT ![p] = TRUE]
      /\ UNCHANGED <<stage, count, netOpen, inbox, delivered, accepted, refused>>
      /\ written' = written /\ pipe' = [pipe EXCEPT ![p] = <<>>] /\ Sends(p, pipe[p] \o T)
  BY <1>2, <1>6 DEF FireRun, SameRoles
<1>8. written' \in [Peers -> Nat] /\ written[p] \in Nat /\ written'[p] = written[p]
  BY <1>1, <1>7 DEF Types
<1>9. /\ asked' \in [Peers -> BOOLEAN] /\ asked'[p] /\ \A q \in Peers : asked[q] => asked'[q]
  BY <1>1, <1>7, Zenon DEF Types
<1>10. Grows
  BY <1>7, <1>9 DEF Grows
<1>11. \A g \in Range(T) : Right(Peer(p), g)'
  BY <1>4, <1>9, PeerIs DEF Right
<1> QED BY <1>4, <1>7, <1>8, <1>9, <1>10, <1>11, FlushStep

LEMMA PumpFlushStep ==
  ASSUME IInv, NEW p \in Peers, PumpFlush(p)
  PROVE  IInv'
<1>1. Types
  BY DEF IInv
<1>2. PICK T : T = <<>>
  OBVIOUS
<1>3. T \in Seq(AllFrames) /\ (\A a \in Nat : Numbers(T, a, a)) /\ Range(T) = {}
  BY <1>1, <1>2, NoMessage, FrameIs DEF FrameTypes
<1>4. pipe[p] \in Seq(AllFrames) /\ pipe[p] \o T = pipe[p]
  BY <1>1, <1>2, <1>3, CatFirst DEF Types
<1>5. /\ pipe[p] # <<>> /\ stage[p] = "attached" /\ SameRoles /\ asked' = asked /\ Grows
      /\ UNCHANGED <<stage, count, netOpen, inbox, delivered, accepted, refused>>
      /\ written' = written /\ pipe' = [pipe EXCEPT ![p] = <<>>] /\ Sends(p, pipe[p] \o T)
  BY <1>4 DEF PumpFlush, SameRoles, Grows
<1>6. /\ written' \in [Peers -> Nat] /\ written[p] \in Nat /\ written'[p] = written[p]
      /\ asked' \in [Peers -> BOOLEAN]
  BY <1>1, <1>5 DEF Types
<1> QED BY <1>3, <1>5, <1>6, FlushStep

LEMMA RecvStep ==
  ASSUME IInv, NEW p \in Peers, Recv(p)
  PROVE  IInv'
<1>1. Types /\ Flow
  BY DEF IInv
<1>2. PICK G : G = <<>>
  OBVIOUS
<1>3. PICK taken \in BOOLEAN : taken = FALSE
  OBVIOUS
<1>4. PICK f : f = Head(inbox[p])
  OBVIOUS
<1>5. /\ stage[p] = "attached" /\ stage' = stage /\ count' = count /\ inbox[p] # <<>>
      /\ netOpen' = netOpen /\ pipe' = pipe /\ written' = written
      /\ accepted' = accepted /\ asked' = asked /\ refused' = refused /\ SameRoles
      /\ line' = line /\ air' = air /\ inbox' = [inbox EXCEPT ![p] = Tail(@)]
      /\ delivered' = [delivered EXCEPT ![p] = Append(@, f)]
  BY <1>4 DEF Recv, SameRoles
<1>6. G \in Seq(AllFrames) /\ Range(G) = {}
  BY <1>2, FrameIs DEF FrameTypes
<1>7. Moved(p, taken, G)
  <2>1. Peer(p) \in Peers /\ line[Peer(p)] \in Seq(AllFrames)
    BY <1>1, PeerIs DEF Types
  <2>2. line[Peer(p)] \o G = line[Peer(p)]
    BY <1>2, <1>6, <2>1, CatFirst
  <2> QED BY <1>1, <1>3, <1>5, <1>6, <2>1, <2>2 DEF Moved, UnderWay, Types
<1>8. /\ inbox[p] \in Seq(AllFrames) /\ delivered[p] \in Seq(AllFrames) /\ Len(inbox[p]) <= Quota
      /\ inbox'[p] = Tail(inbox[p]) /\ delivered'[p] = Append(delivered[p], f)
  BY <1>1, <1>5 DEF Types
<1>9. /\ f \in AllFrames /\ f \in Range(inbox[p]) /\ inbox'[p] \in Seq(AllFrames)
      /\ Range(inbox'[p]) \subseteq Range(inbox[p])
  BY <1>4, <1>5, <1>8, RangeTail
<1>10. /\ delivered'[p] \in Seq(AllFrames) /\ Range(delivered'[p]) = Range(delivered[p]) \cup {f}
  <2>1. PICK s \in Seq(AllFrames) : s = delivered[p]
    BY <1>8
  <2>2. Append(s, f) \in Seq(AllFrames) /\ Range(Append(s, f)) = Range(s) \cup {f}
    BY <1>9, AppendIs
  <2> QED BY <1>8, <2>1, <2>2
<1>11. Len(inbox'[p]) <= Quota
  <2>1. Len(Tail(inbox[p])) = Len(inbox[p]) - 1 /\ Len(inbox[p]) \in Nat /\ Quota \in Nat
    <3> HIDE DEF AllFrames
    <3> QED BY <1>5, <1>8, InvitationBounds
  <2> QED BY <1>8, <2>1
<1>12. Types'
  <2>1. inbox' \in [Peers -> Seq(AllFrames)] /\ delivered' \in [Peers -> Seq(AllFrames)]
    BY <1>1, <1>5, <1>9, <1>10 DEF Types
  <2>2. \A q \in Peers : Len(inbox'[q]) <= Quota
    BY <1>1, <1>5, <1>11 DEF Types
  <2> QED BY <1>1, <1>5, <1>7, <2>1, <2>2 DEF Types, SameRoles
<1>13. Apart(p) /\ Grows /\ Refuses
  BY <1>1, <1>5 DEF Apart, Grows, Refuses, Types
<1>14. Flow'
  <2>1. CASE p = writer
    <3>1. \A d \in Nat : Passes(p, G, d)
      <4>1. \A d \in Nat : Numbers(G, d, d)
        BY <1>6, NumbersNone
      <4> QED BY <1>5, <4>1 DEF Passes
    <3> QED BY <1>1, <1>5, <1>6, <1>7, <1>13, <2>1, <3>1, WriterFlow
  <2>2. CASE p # writer
    <3>1. PICK from \in Peers : from = writer
      BY <1>1 DEF Types
    <3>2. p = Peer(from)
      BY <2>2, <3>1, PeerIs
    <3> QED BY <1>1, <3>1, <3>2, FlowReads
  <2> QED BY <2>1, <2>2
<1> QED BY <1>5, <1>6, <1>7, <1>9, <1>10, <1>12, <1>13, <1>14, UseStep DEF Used

LEMMA CloseStep ==
  ASSUME IInv, NEW p \in Peers, Close(p)
  PROVE  IInv'
<1>1. Types /\ Flow
  BY DEF IInv
<1>2. PICK G : G = <<Frame("close", 0)>>
  OBVIOUS
<1>3. PICK taken \in BOOLEAN : taken = FALSE
  OBVIOUS
<1>4. /\ stage[p] = "attached" /\ stage' = [stage EXCEPT ![p] = "closed"] /\ count' = count
      /\ netOpen' = [netOpen EXCEPT ![p] = FALSE] /\ pipe' = [pipe EXCEPT ![p] = <<>>]
      /\ inbox' = [inbox EXCEPT ![p] = <<>>] /\ delivered' = delivered /\ written' = written
      /\ refused' = [refused EXCEPT ![p] = @ \/ pipe[p] # <<>>]
      /\ accepted' = accepted /\ asked' = asked /\ SameRoles /\ Sends(p, G)
  BY <1>2 DEF Close, SameRoles
<1>5. /\ G \in Seq(AllFrames) /\ (\A g \in Range(G) : g.type = "close")
      /\ \A a \in Nat : Numbers(G, a, a)
  BY <1>1, <1>2, NoMessage DEF FrameTypes
<1>6. Moved(p, taken, G)
  BY <1>1, <1>3, <1>4, <1>5, SendsMoves
<1>7. <<>> \in Seq(AllFrames) /\ Range(<<>>) = {} /\ Len(<<>>) = 0 /\ 0 <= Quota
  BY EmptyIs
<1>8. Types'
  <2>1. /\ stage' \in [Peers -> Stages] /\ pipe' \in [Peers -> Seq(AllFrames)]
        /\ inbox' \in [Peers -> Seq(AllFrames)]
    BY <1>1, <1>4, <1>7 DEF Types, Stages
  <2>2. netOpen' \in [Peers -> BOOLEAN] /\ refused' \in [Peers -> BOOLEAN]
    BY <1>1, <1>4, Zenon DEF Types
  <2>3. \A q \in Peers : Len(inbox'[q]) <= Quota
    BY <1>1, <1>4, <1>7 DEF Types
  <2> QED BY <1>1, <1>4, <1>6, <2>1, <2>2, <2>3 DEF Types, SameRoles, Moved
<1>9. Refuses /\ (pipe[p] # <<>> => refused'[p])
  BY <1>1, <1>4, Zenon DEF Refuses, Types
<1>10. Apart(p) /\ Grows
  BY <1>1, <1>4 DEF Apart, Grows, Types
<1>11. Flow'
  <2>1. CASE p = writer
    <3>1. (\A d \in Nat : Passes(p, G, d)) \/ \E q \in Peers : refused'[q]
      <4>1. CASE pipe[p] # <<>>
        BY <1>9, <4>1
      <4>2. CASE pipe[p] = <<>>
        <5>1. pipe'[p] = pipe[p]
          BY <1>1, <1>4, <4>2 DEF Types
        <5> QED BY <1>4, <1>5, <5>1 DEF Passes
      <4> QED BY <4>1, <4>2
    <3> QED BY <1>1, <1>4, <1>5, <1>6, <1>9, <1>10, <2>1, <3>1, WriterFlow
  <2>2. CASE p # writer
    <3>1. PICK from \in Peers : from = writer
      BY <1>1 DEF Types
    <3>2. p = Peer(from)
      BY <2>2, <3>1, PeerIs
    <3>3. stage'[p] = "closed"
      BY <1>1, <1>4 DEF Types
    <3>4. Flows(from, p) => Flows(from, p)'
      BY <1>4, <3>3 DEF Flows, Listens, Running
    <3> QED BY <1>1, <1>4, <1>9, <3>1, <3>2, <3>4, FlowIs
  <2> QED BY <2>1, <2>2
<1>12. /\ stage'[p] \in Used /\ Range(pipe'[p]) = {} /\ Range(inbox'[p]) = {}
  BY <1>1, <1>4, <1>7 DEF Types, Used
<1>13. \A g \in Range(G) : Right(Peer(p), g)'
  BY <1>5 DEF Right
<1> QED BY <1>4, <1>5, <1>6, <1>8, <1>10, <1>11, <1>12, <1>13, UseStep

LEMMA PumpStep ==
  ASSUME IInv, NEW p \in Peers, NEW f \in Frames, Pump(p, f)
  PROVE  IInv'
<1>1. Types /\ Flow /\ AllRight
  BY DEF IInv
<1>2. PICK T : T = IF f.type = "run" THEN <<Frame("runReply", 0)>> ELSE <<>>
  OBVIOUS
<1>3. PICK taken \in BOOLEAN : taken = TRUE
  OBVIOUS
<1>4. PICK m \in BOOLEAN : m <=> f.type \in {"mojo", "runReply"}
  OBVIOUS
<1>5. PICK G : G = pipe[p] \o T
  OBVIOUS
<1>6. /\ stage[p] = "attached" /\ stage' = stage /\ count' = count /\ SameRoles
      /\ delivered' = delivered /\ written' = written /\ accepted' = accepted /\ asked' = asked
      /\ Arrives(p, f) /\ Takes(p, f, G) /\ pipe' = [pipe EXCEPT ![p] = <<>>]
      /\ netOpen' = [netOpen EXCEPT ![p] = f.type # "close"]
      /\ inbox' = IF f.type \in {"mojo", "runReply"} /\ Len(inbox[p]) < Quota
                  THEN [inbox EXCEPT ![p] = Append(@, f)] ELSE inbox
      /\ refused' = [refused EXCEPT ![p] = @ \/ (f.type \in {"mojo", "runReply"} /\ Len(inbox[p]) = Quota)]
  BY <1>2, <1>5 DEF Pump, SameRoles
<1>7. /\ T \in Seq(AllFrames)
      /\ \A g \in Range(T) : g.type = "runReply" /\ T = <<Frame("runReply", 0)>>
      /\ \A a \in Nat : Numbers(T, a, a)
  BY <1>1, <1>2, NoMessage DEF FrameTypes
<1>8. /\ pipe[p] \in Seq(AllFrames) /\ written[p] \in Nat /\ inbox[p] \in Seq(AllFrames)
      /\ pipe'[p] = <<>> /\ written'[p] = written[p] /\ Len(inbox[p]) <= Quota
  BY <1>1, <1>6 DEF Types
<1>9. G \in Seq(AllFrames) /\ Range(G) = Range(pipe[p]) \cup Range(T)
      /\ <<>> \in Seq(AllFrames) /\ Range(<<>>) = {}
  BY <1>5, <1>7, <1>8, RangeCat, FrameIs DEF FrameTypes
<1>10. /\ Moved(p, taken, G) /\ f \in UnderWay(p)
       /\ reliable => line[p] # <<>> /\ f = Head(line[p])
  BY <1>1, <1>3, <1>6, <1>9, TakesMoves
<1>11. Right(p, f) /\ f \in AllFrames
  BY <1>1, <1>10, FramesTyped DEF AllRight, RightAt, UnderWay
<1>12. \A g \in Range(T) : Right(Peer(p), g)'
  <2> SUFFICES ASSUME NEW g \in Range(T) PROVE Right(Peer(p), g)'
    OBVIOUS
  <2>1. g.type = "runReply" /\ f.type = "run"
    <3>1. T # <<>>
      BY <1>7, <1>9
    <3> QED BY <1>2, <1>7, <3>1
  <2>2. asked[Peer(p)]
    BY <1>11, <2>1 DEF Right
  <2> QED BY <1>6, <2>1, <2>2, PeerIs DEF Right
<1>13. /\ inbox'[p] = inbox[p]
          \/ (inbox'[p] = Append(inbox[p], f) /\ m /\ Len(inbox[p]) < Quota)
       /\ \A q \in Peers : q # p => inbox'[q] = inbox[q]
       /\ inbox' = [q \in Peers |-> inbox'[q]]
  BY <1>1, <1>4, <1>6 DEF Types
<1>14. /\ inbox'[p] \in Seq(AllFrames) /\ Len(inbox'[p]) <= Quota
       /\ \A g \in Range(inbox'[p]) : g \in Range(inbox[p]) \/ (g = f /\ m)
  <2>1. CASE inbox'[p] = inbox[p]
    BY <1>8, <2>1
  <2>2. CASE inbox'[p] = Append(inbox[p], f) /\ m /\ Len(inbox[p]) < Quota
    <3>1. /\ Len(inbox'[p]) = Len(inbox[p]) + 1 /\ Len(inbox[p]) \in Nat
          /\ inbox'[p] \in Seq(AllFrames) /\ Range(inbox'[p]) = Range(inbox[p]) \cup {f}
      <4>1. PICK s \in Seq(AllFrames) : s = inbox[p]
        BY <1>8
      <4>2. /\ Append(s, f) \in Seq(AllFrames) /\ Range(Append(s, f)) = Range(s) \cup {f}
            /\ Len(s) \in Nat /\ Len(Append(s, f)) = Len(s) + 1
        BY <1>11, AppendIs
      <4> QED BY <2>2, <4>1, <4>2
    <3>4. Len(inbox'[p]) <= Quota
      BY <2>2, <3>1, InvitationBounds
    <3> QED BY <2>2, <3>1, <3>4
  <2> QED BY <1>13, <2>1, <2>2
<1>15. Types'
  <2>1. pipe' \in [Peers -> Seq(AllFrames)]
    BY <1>1, <1>6, <1>9 DEF Types
  <2>2. inbox' \in [Peers -> Seq(AllFrames)] /\ \A q \in Peers : Len(inbox'[q]) <= Quota
    <3>1. \A q \in Peers : inbox'[q] \in Seq(AllFrames) /\ Len(inbox'[q]) <= Quota
      BY <1>1, <1>13, <1>14 DEF Types
    <3> HIDE DEF AllFrames
    <3> QED BY <1>13, <3>1
  <2>3. netOpen' \in [Peers -> BOOLEAN] /\ refused' \in [Peers -> BOOLEAN]
    BY <1>1, <1>6, Zenon DEF Types
  <2> QED BY <1>1, <1>6, <1>10, <2>1, <2>2, <2>3 DEF Types, SameRoles, Moved
<1>16. Refuses
  BY <1>1, <1>6, Zenon DEF Refuses, Types
<1>17. Apart(p) /\ Grows
  BY <1>1, <1>6, <1>13 DEF Apart, Grows, Types
<1>18. Flow'
  <2>1. CASE p = writer
    <3>1. Numbers(T, written[p], written'[p])
      BY <1>7, <1>8
    <3>2. \A d \in Nat : Passes(p, G, d)
      BY <1>5, <1>7, <1>8, <3>1, FlushPasses
    <3> QED BY <1>1, <1>6, <1>9, <1>10, <1>16, <1>17, <2>1, <3>2, WriterFlow
  <2>2. CASE p # writer
    <3>1. PICK from \in Peers : from = writer
      BY <1>1 DEF Types
    <3>2. p = Peer(from)
      BY <2>2, <3>1, PeerIs
    <3>3. Moved(p, TRUE, G)
      BY <1>3, <1>10
    <3> QED BY <1>1, <1>10, <3>1, <3>2, <3>3, FlowPumps
  <2> QED BY <2>1, <2>2
<1>19. \A g \in Range(inbox'[p]) \cup Range(delivered'[p]) :
         g \in Range(inbox[p]) \cup Range(delivered[p]) \/ RightMessage(p, g)'
  <2>1. m => RightMessage(p, f)'
    BY <1>1, <1>4, <1>6, <1>11, <1>17, RightStays DEF RightMessage
  <2> QED BY <1>6, <1>14, <2>1
<1> QED BY <1>6, <1>8, <1>9, <1>10, <1>12, <1>15, <1>17, <1>18, <1>19, UseStep DEF Used

-----------------------------------------------------------------------------
(* The theorem.                                                            *)

LEMMA Inits ==
  ASSUME InviteInit
  PROVE  IInv
<1>1. <<>> \in Seq(AllFrames) /\ Range(<<>>) = {} /\ Len(<<>>) = 0 /\ 0 <= Quota
  BY EmptyIs
<1>2. Types
  BY <1>1 DEF InviteInit, Types, Stages
<1>3. AllRight
  BY <1>1 DEF InviteInit, AllRight, RightAt
<1>4. Ordered
  BY <1>1, PeerIs DEF InviteInit, Ordered, OrderAt, Used
<1>5. Flow
  <2>1. PICK from \in Peers, to \in Peers : from = writer /\ to = Peer(from)
    BY <1>2, PeerIs DEF Types
  <2>2. Numbers(<<>>, 0, 0)
    BY <1>1, NumbersNone
  <2>3. delivered[to] = <<>> /\ inbox[to] = <<>> /\ line[to] = <<>> /\ pipe[from] = <<>> /\ written[from] = 0
    BY DEF InviteInit
  <2> QED BY <2>1, <2>2, <2>3 DEF Flow, Flows
<1> QED BY <1>2, <1>3, <1>4, <1>5 DEF IInv

LEMMA Steps ==
  ASSUME IInv, [InviteNext]_inviteVars
  PROVE  IInv'
<1>1. CASE Tick
  BY <1>1, TickStep
<1>2. CASE \E p \in Peers : PunchStart(p)
  BY <1>2, PunchStartStep
<1>3. CASE \E p \in Peers : Connecting(p)
  BY <1>3, TimeoutStep, PunchRecvStep, DrainRecvStep, HandshakeRecvStep DEF Connecting
<1>4. CASE \E p \in Peers : Using(p)
  BY <1>4, WriteLocalStep, FireStep, FireRunStep, PumpFlushStep, RecvStep, CloseStep, PumpStep
     DEF Using
<1>5. CASE UNCHANGED inviteVars
  BY <1>5 DEF inviteVars, IInv, Types, AllRight, RightAt, Right, RightMessage, Ordered, OrderAt,
              Released, Ends, Flow, Flows, Listens
<1> QED BY <1>1, <1>2, <1>3, <1>4, <1>5 DEF InviteNext

LEMMA InvAlways == InviteSpec => []IInv
<1>1. InviteInit => IInv
  BY Inits
<1>2. IInv /\ [InviteNext]_inviteVars => IInv'
  BY Steps
<1> QED BY <1>1, <1>2, PTL DEF InviteSpec

LEMMA InvIsSound ==
  ASSUME IInv
  PROVE  ConversationIsSound
<1>1. Types /\ AllRight /\ Flow
  BY DEF IInv
<1>2. OffererHasPeer
  BY <1>1 DEF AllRight, RightAt, OffererHasPeer
<1>3. RunStaysInside
  <2> SUFFICES ASSUME NEW p \in Peers, NEW i \in 1 .. Len(delivered[p])
               PROVE  /\ delivered[p][i].type # "run"
                      /\ delivered[p][i].type = "runReply" => asked[p]
    BY DEF RunStaysInside
  <2>1. delivered[p] \in Seq(AllFrames)
    BY <1>1 DEF Types
  <2>2. delivered[p][i] \in Range(delivered[p])
    <3> HIDE DEF AllFrames
    <3> QED BY <2>1 DEF Range
  <2> QED BY <1>1, <2>2 DEF AllRight, RightAt, RightMessage, Right
<1>4. ReliableOrder
  <2> SUFFICES ASSUME reliable, \A p \in Peers : ~refused[p], NEW p \in Peers
               PROVE  InOrder(delivered[p])
    BY DEF ReliableOrder
  <2>1. delivered[p] \in Seq(AllFrames)
    BY <1>1 DEF Types
  <2>2. CASE p = writer
    <3>1. \A f \in Range(delivered[p]) : f.type # "mojo"
      BY <1>1, <2>2 DEF AllRight, RightAt, RightMessage, Right
    <3> QED BY <3>1 DEF InOrder, Range
  <2>3. CASE p # writer
    <3>1. p = Peer(writer)
      BY <1>1, <2>3, PeerIs DEF Types
    <3>2. Flows(writer, p)
      BY <1>1, <3>1 DEF Flow
    <3>3. PICK a \in Nat : Numbers(delivered[p], 0, a)
      BY <3>2 DEF Flows
    <3> QED BY <2>1, <3>3, NumbersInOrder
  <2> QED BY <2>2, <2>3
<1> QED BY <1>2, <1>3, <1>4 DEF ConversationIsSound

(* punch.cc and platform/invitation.cc: whatever the network does, an      *)
(* offerer is attached to a peer that answered it, and a client sees a     *)
(* reply to Run only when it asked and never a request; over a reliable    *)
(* network it reads the messages of the other side in order and without a  *)
(* gap, unless a pipe was full or closed: neither the drain of Punch nor a *)
(* handshake that is still on takes one.                                   *)
THEOREM ConversationTheorem == InviteSpec => []ConversationIsSound
<1>1. IInv => ConversationIsSound
  BY InvIsSound
<1> QED BY <1>1, InvAlways, PTL
=============================================================================
