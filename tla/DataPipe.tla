------------------------------ MODULE DataPipe ------------------------------
(***************************************************************************)
(* A data pipe of HolePunch (core.cc, DataPipeState and the WhpXxxData     *)
(* functions): a ring buffer between a producer handle and a consumer      *)
(* handle, with one-phase and two-phase writes and reads, and traps on the *)
(* signals of both ends.  Each call is one step, as it holds Core::mu;     *)
(* between WhpBeginWriteData and WhpEndWriteData the producer stores bytes *)
(* into the buffer without the lock, one per step.                         *)
(*                                                                         *)
(* A byte is modelled by its number in the stream, so that a lost, doubled *)
(* or reordered byte shows; 0 is a byte nobody wrote.  uint32_t arithmetic *)
(* is modulo Word.  A call that returns an error and changes nothing is    *)
(* not a step.                                                             *)
(***************************************************************************)
EXTENDS Integers, Sequences, FiniteSets

CONSTANTS
  Capacity,     \* capacity_num_bytes
  ElementSize,  \* element_num_bytes
  Word,         \* 2^32, or a smaller modulus for TLC
  MaxSent,      \* bound on the bytes each end ever moves
  MixPhases,    \* whether a client starts one-phase calls of an end while its
                \* own two-phase call is open, which core.cc does not refuse
  Watches       \* the <<end, signal>> pairs that have a trap of their own

AllWatches == {<<"producer", "WRITABLE">>, <<"producer", "PEER_CLOSED">>,
               <<"consumer", "READABLE">>, <<"consumer", "PEER_CLOSED">>}

ASSUME DataPipeAssumption ==
  /\ Capacity \in Nat \ {0} /\ ElementSize \in Nat \ {0}
  /\ Word \in Nat /\ Capacity < Word
  /\ MaxSent \in Nat
  /\ MixPhases \in BOOLEAN
  /\ Watches \subseteq AllWatches

VARIABLES
  buf,                  \* DataPipeState, field by field
  r,
  w,
  available,
  producer_closed,
  consumer_closed,
  two_phase_write,      \* the offset it points to, or Null
  two_phase_write_max,
  two_phase_read,
  two_phase_read_max,
  stored,    \* bytes the producer has stored in its two-phase region
  sent,      \* number of bytes the producer's successful calls have sent
  received,  \* the bytes the consumer's successful calls have returned
  armed      \* the watches whose trap is armed

ring == <<buf, r, w, available>>
ends == <<producer_closed, consumer_closed>>
writing == <<two_phase_write, two_phase_write_max, stored>>
reading == <<two_phase_read, two_phase_read_max>>
vars == <<ring, ends, writing, reading, sent, received, armed>>

Null    == -1
Offsets == 0..(Capacity - 1)
Lesser(a, b) == IF a < b THEN a ELSE b
Minus(a, b)  == (a - b) % Word
Plus(a, b)   == (a + b) % Word
Whole(n)     == n - (n % ElementSize)  \* n -= n % s.element_size

Forward(i, n) == (i + n) % Capacity

Init ==
  /\ buf = [i \in Offsets |-> 0]
  /\ r = 0 /\ w = 0 /\ available = 0
  /\ producer_closed = FALSE /\ consumer_closed = FALSE
  /\ two_phase_write = Null /\ two_phase_write_max = 0 /\ stored = 0
  /\ two_phase_read = Null /\ two_phase_read_max = 0
  /\ sent = 0 /\ received = <<>>
  /\ armed = {}

-----------------------------------------------------------------------------
(* DataPipeSignals and the traps on them.                                  *)

\* Mutant of Satisfied: WRITABLE on a full buffer too.
SatisfiedWhenFull(watch) ==
  CASE watch = <<"producer", "WRITABLE">> -> ~producer_closed /\ ~consumer_closed
    [] watch = <<"producer", "PEER_CLOSED">> -> ~producer_closed /\ consumer_closed
    [] watch = <<"consumer", "READABLE">> -> ~consumer_closed /\ available > 0
    [] watch = <<"consumer", "PEER_CLOSED">> -> ~consumer_closed /\ producer_closed

\* The watch's signal is satisfied; a closed end has no signals.
Satisfied(watch) ==
  CASE watch = <<"producer", "WRITABLE">> ->
         ~producer_closed /\ ~consumer_closed /\ available < Capacity
    [] watch = <<"producer", "PEER_CLOSED">> -> ~producer_closed /\ consumer_closed
    [] watch = <<"consumer", "READABLE">> -> ~consumer_closed /\ available > 0
    [] watch = <<"consumer", "PEER_CLOSED">> -> ~consumer_closed /\ producer_closed

\* Mutant of CollectTrapEvents: only the calling end's traps are looked at.
CollectOwnEnd ==
  armed' = armed \ {x \in armed : x[1] = "producer" /\ Satisfied(x)'}

\* CollectTrapEvents: a trap whose signal holds now fires and is disarmed.
CollectTrapEvents == armed' = armed \ {x \in armed : Satisfied(x)'}

\* WhpArmTrap arms a trap unless its signal holds already.
ArmTrap(watch) ==
  /\ ~Satisfied(watch)
  /\ armed' = armed \cup {watch}
  /\ UNCHANGED <<ring, ends, writing, reading, sent, received>>

-----------------------------------------------------------------------------
(* One-phase calls.                                                        *)

Idle(two_phase) == MixPhases \/ two_phase = Null

\* Mutant of BytesToWrite: the space is not looked at.
BytesToWriteAll(want) == Whole(want)

BytesToWrite(want) == Whole(Lesser(want, Minus(Capacity, available)))

\* Mutant of BytesAt: the copy does not go on at the start of the buffer.
BytesAtNoWrap(i, n) == [k \in 1..n |-> buf[Lesser(i + k - 1, Capacity - 1)]]

\* The n bytes from offset i on; those the consumer gets.
BytesAt(i, n) == [k \in 1..n |-> buf[Forward(i, k - 1)]]

\* How far offset i lies ahead of offset j in the ring.
Ahead(i, j) == IF i >= j THEN i - j ELSE i - j + Capacity

\* Which of n <= 2 * Capacity bytes ends up at the place k ahead of w.
LastPut(k, n) == IF k + Capacity < n THEN k + Capacity + 1 ELSE k + 1

WhpWriteData(want) ==
  LET n == BytesToWrite(want)
  IN  /\ ~producer_closed /\ ~consumer_closed /\ Idle(two_phase_write)
      /\ want % ElementSize = 0 /\ n > 0
      /\ buf' = [i \in Offsets |->
                   IF Ahead(i, w) < n THEN sent + LastPut(Ahead(i, w), n) ELSE buf[i]]
      /\ w' = Forward(w, n)
      /\ available' = Plus(available, n)
      /\ sent' = sent + n
      /\ UNCHANGED <<r, ends, writing, reading, received>>
      /\ CollectTrapEvents

BytesToRead(want) == Whole(Lesser(want, available))

WhpReadData(want) ==
  LET n == BytesToRead(want)
  IN  /\ ~consumer_closed /\ Idle(two_phase_read)
      /\ want % ElementSize = 0 /\ n > 0
      /\ received' = received \o BytesAt(r, n)
      /\ r' = Forward(r, n)
      /\ available' = Minus(available, n)
      /\ UNCHANGED <<buf, w, ends, writing, reading, sent>>
      /\ CollectTrapEvents

-----------------------------------------------------------------------------
(* Two-phase calls.                                                        *)

\* The contiguous free bytes from w on, as whole elements.
WriteRegion(want) ==
  Whole(Lesser(Lesser(Minus(Capacity, available), Capacity - w), want))

WhpBeginWriteData(want) ==
  /\ ~producer_closed /\ two_phase_write = Null
  /\ WriteRegion(want) > 0
  /\ two_phase_write' = w
  /\ two_phase_write_max' = WriteRegion(want)
  /\ stored' = 0
  /\ UNCHANGED <<ring, ends, reading, sent, received, armed>>

\* The producer stores its next byte into the region it was given.
StoreByte ==
  /\ ~producer_closed /\ two_phase_write # Null /\ stored < two_phase_write_max
  /\ buf' = [buf EXCEPT ![two_phase_write + stored] = sent + stored + 1]
  /\ stored' = stored + 1
  /\ UNCHANGED <<r, w, available, ends, two_phase_write, two_phase_write_max,
                 reading, sent, received, armed>>

\* Commits n bytes, of those that the producer has stored.
WhpEndWriteData(n) ==
  /\ ~producer_closed /\ two_phase_write # Null
  /\ n <= stored /\ n % ElementSize = 0
  /\ w' = Forward(w, n)
  /\ available' = Plus(available, n)
  /\ two_phase_write' = Null /\ stored' = 0
  /\ sent' = sent + n
  /\ UNCHANGED <<buf, r, ends, two_phase_write_max, reading, received>>
  /\ CollectTrapEvents

\* A count that is too large or no multiple ends the two-phase write too.
WhpEndWriteDataRefused(n) ==
  /\ ~producer_closed /\ two_phase_write # Null
  /\ n > two_phase_write_max \/ n % ElementSize # 0
  /\ two_phase_write' = Null /\ stored' = 0
  /\ UNCHANGED <<ring, ends, two_phase_write_max, reading, sent, received, armed>>

ReadRegion(want) == Whole(Lesser(Lesser(available, Capacity - r), want))

WhpBeginReadData(want) ==
  /\ ~consumer_closed /\ two_phase_read = Null
  /\ ReadRegion(want) > 0
  /\ two_phase_read' = r
  /\ two_phase_read_max' = ReadRegion(want)
  /\ UNCHANGED <<ring, ends, writing, sent, received, armed>>

\* The consumer has copied the n bytes out of its region by now.
WhpEndReadData(n) ==
  /\ ~consumer_closed /\ two_phase_read # Null
  /\ n <= two_phase_read_max /\ n % ElementSize = 0
  /\ received' = received \o BytesAt(two_phase_read, n)
  /\ r' = Forward(r, n)
  /\ available' = Minus(available, n)
  /\ two_phase_read' = Null
  /\ UNCHANGED <<buf, w, ends, writing, two_phase_read_max, sent>>
  /\ CollectTrapEvents

WhpEndReadDataRefused(n) ==
  /\ ~consumer_closed /\ two_phase_read # Null
  /\ n > two_phase_read_max \/ n % ElementSize # 0
  /\ two_phase_read' = Null
  /\ UNCHANGED <<ring, ends, writing, two_phase_read_max, sent, received, armed>>

-----------------------------------------------------------------------------
\* WhpClose of either handle.  Bytes already sent stay readable.
CloseProducer ==
  /\ ~producer_closed /\ producer_closed' = TRUE
  /\ UNCHANGED <<ring, consumer_closed, writing, reading, sent, received>>
  /\ CollectTrapEvents

CloseConsumer ==
  /\ ~consumer_closed /\ consumer_closed' = TRUE
  /\ UNCHANGED <<ring, producer_closed, writing, reading, sent, received>>
  /\ CollectTrapEvents

Counts == 0..(Capacity + 1)  \* byte counts that clients pass

Next ==
  \/ \E x \in Watches : ArmTrap(x)
  \/ \E n \in Counts : sent + BytesToWrite(n) <= MaxSent /\ WhpWriteData(n)
  \/ \E n \in Counts : Len(received) + BytesToRead(n) <= MaxSent /\ WhpReadData(n)
  \/ \E n \in Counts : sent + WriteRegion(n) <= MaxSent /\ WhpBeginWriteData(n)
  \/ StoreByte
  \/ \E n \in Counts : WhpEndWriteData(n)
  \/ \E n \in Counts : WhpEndWriteDataRefused(n)
  \/ \E n \in Counts : WhpBeginReadData(n)
  \/ \E n \in Counts : Len(received) + n <= MaxSent /\ WhpEndReadData(n)
  \/ \E n \in Counts : WhpEndReadDataRefused(n)
  \/ CloseProducer
  \/ CloseConsumer

Spec == Init /\ [][Next]_vars

-----------------------------------------------------------------------------
(* Properties.                                                             *)

Region == 0..Capacity

\* The types of DataPipeState; available stays a uint32_t whatever clients do.
TypeOK ==
  /\ buf \in [Offsets -> Nat] /\ r \in Offsets /\ w \in Offsets
  /\ available \in 0..(Word - 1)
  /\ producer_closed \in BOOLEAN /\ consumer_closed \in BOOLEAN
  /\ two_phase_write \in Offsets \cup {Null} /\ two_phase_write_max \in Region
  /\ two_phase_read \in Offsets \cup {Null} /\ two_phase_read_max \in Region
  /\ stored \in Region /\ sent \in Nat /\ received \in Seq(Nat)
  /\ armed \subseteq AllWatches

\* The memory that a two-phase call hands out lies inside buf, even when the
\* client mixes one-phase calls in (WhpBeginWriteData, WhpBeginReadData), and
\* the producer stores only there.
RegionsInBounds ==
  /\ two_phase_write # Null => /\ two_phase_write + two_phase_write_max <= Capacity
                               /\ stored <= two_phase_write_max
  /\ two_phase_read # Null => two_phase_read + two_phase_read_max <= Capacity

\* r, w and available agree, and a two-phase region is where r or w still
\* is and covers only free or only readable bytes: no call of either end, in
\* any order, leaves more bytes than the buffer holds or loses the distance
\* between r and w.
RingConsistent ==
  /\ available <= Capacity
  /\ Ahead(w, r) = IF available = Capacity THEN 0 ELSE available
  /\ two_phase_write # Null => /\ two_phase_write = w
                               /\ two_phase_write_max <= Capacity - available
  /\ two_phase_read # Null => /\ two_phase_read = r
                              /\ two_phase_read_max <= available

\* The free region that a producer holds and the readable region that a
\* consumer holds at the same time do not overlap.
RegionsDisjoint ==
  two_phase_write # Null /\ two_phase_read # Null =>
    \/ two_phase_write + two_phase_write_max <= two_phase_read
    \/ two_phase_read + two_phase_read_max <= two_phase_write

\* The bytes WhpBeginReadData showed the consumer do not change until it
\* ends the read, whatever the producer stores or sends meanwhile.
ReadRegionStable ==
  [][two_phase_read # Null /\ two_phase_read' # Null =>
       \A i \in two_phase_read..(two_phase_read + two_phase_read_max - 1) :
         buf'[i] = buf[i]]_vars

\* DataPipeSignals tells the truth: WRITABLE means that an element can be
\* written, READABLE that one can be read, so a client that waits for the
\* signal and then calls is never told SHOULD_WAIT.  It is checked for
\* capacities that are a multiple of the element size; WhpCreateDataPipe
\* does not ask for that.
SignalsTruthful ==
  /\ Satisfied(<<"producer", "WRITABLE">>) => BytesToWrite(ElementSize) > 0
  /\ Satisfied(<<"producer", "WRITABLE">>) => WriteRegion(ElementSize) > 0
  /\ Satisfied(<<"consumer", "READABLE">>) => BytesToRead(ElementSize) > 0
  /\ Satisfied(<<"consumer", "READABLE">>) => ReadRegion(ElementSize) > 0

\* CollectTrapEvents runs after every change of a signal: a trap that is
\* armed watches a signal that does not hold.
NoMissedSignal == \A x \in armed : ~Satisfied(x)

\* A data pipe implements ByteStream.
Stream == INSTANCE ByteStream WITH
  sent <- [i \in 1..sent |-> i],
  received <- received,
  open <- (IF producer_closed THEN {} ELSE {"producer"})
          \cup (IF consumer_closed THEN {} ELSE {"consumer"})

\* Bytes arrive in order, each once, whatever mix of one-phase and two-phase
\* calls moves them around the ring (WhpWriteData to WhpEndReadData).
ImplementsByteStream == Stream!Spec

=============================================================================
