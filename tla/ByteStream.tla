----------------------------- MODULE ByteStream -----------------------------
(***************************************************************************)
(* What a data pipe promises: a bounded first-in first-out stream of bytes *)
(* from one producer to one consumer.  Bytes leave in the order they came, *)
(* each once, none before the last one was taken if the stream is full,    *)
(* and an end that is closed neither puts nor takes.                       *)
(***************************************************************************)
EXTENDS Integers, Sequences

CONSTANT Capacity  \* bytes that may wait in the stream

VARIABLES
  sent,      \* bytes put so far
  received,  \* bytes taken so far
  open       \* the ends that are open

vars == <<sent, received, open>>

Waiting == Len(sent) - Len(received)

Init == sent = <<>> /\ received = <<>> /\ open = {"producer", "consumer"}

\* Put appends n > 0 bytes of the producer's choice.
Put ==
  /\ "producer" \in open
  /\ Len(sent') > Len(sent)
  /\ SubSeq(sent', 1, Len(sent)) = sent
  /\ Len(sent') - Len(received) <= Capacity
  /\ UNCHANGED <<received, open>>

Take ==
  /\ "consumer" \in open
  /\ \E n \in 1..Waiting : received' = SubSeq(sent, 1, Len(received) + n)
  /\ UNCHANGED <<sent, open>>

Hangup ==
  /\ \E e \in open : open' = open \ {e}
  /\ UNCHANGED <<sent, received>>

Next == Put \/ Take \/ Hangup

Spec == Init /\ [][Next]_vars

=============================================================================
