------------------------------ MODULE WhpCore ------------------------------
(***************************************************************************)
(* HolePunch's system core (WASMHolePunch/src/system/core.cc): the handle  *)
(* table, message pipes with quotas and fusion, messages, traps, triggers  *)
(* and the queue of trap events that WhpPumpEvents delivers.               *)
(*                                                                         *)
(* The whole of Core (guarded by Core::mu) is one record, and every locked *)
(* section of core.cc is an operator from a core to the core it leaves.    *)
(* The operators carry the names of the source; modules that run on top of *)
(* the core use them too.                                                 *)
(*                                                                         *)
(* Three things here are not in the code, so that properties can speak of  *)
(* them: the identity of an object (obj.id), which tells it from a later   *)
(* one that got its handle number; the number of a write and the identity  *)
(* of the end that wrote, kept with the message (seq, writer); and, with a *)
(* trigger, the object it was added for and whether the trap was armed     *)
(* then (obj, late).  A message's bytes are abstracted to their count, and *)
(* the WhpResult an operation returns to which of its branches it takes.   *)
(* The module HolePunch runs these operators.                              *)
(***************************************************************************)
EXTENDS Integers, Sequences, FiniteSets, Functions

CONSTANT Unlimited  \* the quota a pipe starts with, ~uint64_t{0}

ASSUME UnlimitedAssumption == Unlimited \in Nat

Signals == {"READABLE", "WRITABLE", "PEER_CLOSED"}
Kinds   == {"Free", "MessagePipe", "Message", "Trap"}
NoObj   == [id |-> <<>>]
FreeSlot == [kind |-> "Free", obj |-> NoObj]

\* The elements of s at the positions in K, in their order: what
\* std::remove_if leaves of a vector.
KeepAt(s, K) ==
  LET kept[i \in 0..Len(s)] ==
        IF i = 0 THEN <<>>
        ELSE IF i \in K THEN Append(kept[i-1], s[i]) ELSE kept[i-1]
  IN  kept[Len(s)]

-----------------------------------------------------------------------------
(* The handle table.  A handle is the index of its slot; slot 0 is unused. *)

Lookup(c, h) == h \in DOMAIN c.slots /\ c.slots[h].kind # "Free"

IsA(c, h, kind) == Lookup(c, h) /\ c.slots[h].kind = kind

\* The handle the next Alloc returns: the most recently freed one, if any.
NextHandle(c) ==
  IF c.free_list # <<>> THEN c.free_list[Len(c.free_list)]
                        ELSE Len(c.slots) + 1

\* Mutant of Alloc: the reused handle stays on the free list.
AllocNoPop(c, kind, obj) ==
  IF c.free_list # <<>>
  THEN [c EXCEPT !.slots[NextHandle(c)] = [kind |-> kind, obj |-> obj]]
  ELSE [c EXCEPT !.slots = Append(@, [kind |-> kind, obj |-> obj])]

Alloc(c, kind, obj) ==
  IF c.free_list # <<>>
  THEN [c EXCEPT !.free_list = SubSeq(@, 1, Len(@) - 1),
                 !.slots[NextHandle(c)] = [kind |-> kind, obj |-> obj]]
  ELSE [c EXCEPT !.slots = Append(@, [kind |-> kind, obj |-> obj])]

Free(c, h) == [c EXCEPT !.slots[h] = FreeSlot, !.free_list = Append(@, h)]

\* The free list of core c names every free slot once and nothing else.
FreeListExactIn(c) ==
  /\ IsInjective(c.free_list)
  /\ \A i \in DOMAIN c.free_list :
       /\ c.free_list[i] \in DOMAIN c.slots
       /\ c.slots[c.free_list[i]].kind = "Free"
  /\ \A h \in DOMAIN c.slots : c.slots[h].kind = "Free" =>
       \E i \in DOMAIN c.free_list : c.free_list[i] = h

-----------------------------------------------------------------------------
(* Signals.                                                                *)

QueueBytes(q) ==
  LET sum[i \in 0..Len(q)] == IF i = 0 THEN 0 ELSE sum[i-1] + q[i].size
  IN  sum[Len(q)]

NoSignals == [satisfied |-> {}, satisfiable |-> {}]

PipeSignals(c, end) ==
  LET p           == c.pipes[end.state]
      peer_closed == p.closed[1 - end.end]
      have        == p.queues[end.end] # <<>>
  IN  [satisfied   |-> (IF have THEN {"READABLE"} ELSE {})
                       \cup {IF peer_closed THEN "PEER_CLOSED" ELSE "WRITABLE"},
       satisfiable |-> IF ~peer_closed THEN Signals
                       ELSE {"PEER_CLOSED"}
                            \cup (IF have THEN {"READABLE"} ELSE {})]

QueryLocked(c, h) ==
  IF IsA(c, h, "MessagePipe") THEN PipeSignals(c, c.slots[h].obj)
                              ELSE NoSignals

SignalsMatch(st, want, condition) ==
  IF condition = "UNSATISFIABLE" THEN st.satisfiable \cap want = {}
                                 ELSE want \subseteq st.satisfied

-----------------------------------------------------------------------------
(* Trap events.                                                            *)

TriggerMatches(c, trig) ==
  SignalsMatch(QueryLocked(c, trig.watched), trig.signals, trig.condition)

\* Positions of the triggers of trap object t that match now.
Matching(c, t) == {i \in DOMAIN t.triggers : TriggerMatches(c, t.triggers[i])}

\* Mutant of Fires: the loop over the triggers stops after the first one.
FiresFirstOnly(c, th) ==
  c.slots[th].obj.armed /\ 1 \in Matching(c, c.slots[th].obj)

Fires(c, th) == c.slots[th].obj.armed /\ Matching(c, c.slots[th].obj) # {}

First(S) == CHOOSE i \in S : \A j \in S : i <= j

\* The event CollectTrapEvents queues for a trap: its first matching trigger.
TrapEvent(c, th) ==
  LET t    == c.slots[th].obj
      trig == t.triggers[First(Matching(c, t))]
      dead == QueryLocked(c, trig.watched).satisfiable \cap trig.signals = {}
  IN  [trap    |-> t.id,
       context |-> trig.context,
       result  |-> IF trig.condition = "UNSATISFIABLE" \/ dead
                   THEN "FAILED_PRECONDITION" ELSE "OK"]

\* The traps that fire, in the order of Core::traps.
Firing(c) == KeepAt(c.traps, {i \in DOMAIN c.traps : Fires(c, c.traps[i])})

\* Appends to pending_events and disarms; never runs a handler.  c.traps
\* only holds live traps, because WhpClose erases the one it closes.
CollectTrapEvents(c) ==
  LET firing == Firing(c)
      events == [i \in 1..Len(firing) |-> TrapEvent(c, firing[i])]
  IN  [c EXCEPT
         !.slots = [h \in DOMAIN c.slots |->
                      IF \E i \in DOMAIN firing : firing[i] = h
                      THEN [c.slots[h] EXCEPT !.obj.armed = FALSE]
                      ELSE c.slots[h]],
         !.pending_events = @ \o events]

-----------------------------------------------------------------------------
(* The operations, each a locked section of its WhpXxx function.           *)

NewPipeState ==
  [queues      |-> [e \in 0..1 |-> <<>>],
   closed      |-> [e \in 0..1 |-> FALSE],
   quota_count |-> [e \in 0..1 |-> Unlimited],
   quota_bytes |-> [e \in 0..1 |-> Unlimited]]

PipeEnd(p, e) == [id |-> <<p, e>>, state |-> p, end |-> e]

WhpCreateMessagePipe(c) ==
  LET p  == Len(c.pipes) + 1
      c1 == [c EXCEPT !.pipes = Append(@, NewPipeState)]
  IN  Alloc(Alloc(c1, "MessagePipe", PipeEnd(p, 0)), "MessagePipe", PipeEnd(p, 1))

WhpCreateMessage(c) ==
  Alloc([c EXCEPT !.messages = @ + 1], "Message",
        [id |-> <<c.messages + 1>>, size |-> 0, committed |-> FALSE, seq |-> 0, writer |-> <<>>])

\* additional_num_bytes = n; commit is the COMMIT_SIZE flag.
WhpAppendMessageData(c, m, n, commit) ==
  [c EXCEPT !.slots[m].obj.size = @ + n,
            !.slots[m].obj.committed = @ \/ commit]

WhpReserveMessageCapacity(c, m, n) ==
  [c EXCEPT !.slots[m].obj.size = IF n > @ THEN n ELSE @]

\* Without a message context (MessageContext models those) serializing a
\* message only commits its size.
WhpSerializeMessage(c, m) == [c EXCEPT !.slots[m].obj.committed = TRUE]

\* The state and the side that a write to this handle delivers to.
Outbound(c, h)   == c.pipes[c.slots[h].obj.state]
PeerOf(c, h)     == 1 - c.slots[h].obj.end

WriteRefused(c, h) ==
  \/ Outbound(c, h).closed[PeerOf(c, h)]
  \/ Outbound(c, h).closed[c.slots[h].obj.end]

\* Mutant of OverQuota: off by one in the count, no bytes.
OverQuotaLate(c, h, m) ==
  LET p == Outbound(c, h)
      e == PeerOf(c, h)
  IN  Len(p.queues[e]) > p.quota_count[e]

OverQuota(c, h, m) ==
  LET p == Outbound(c, h)
      e == PeerOf(c, h)
  IN  \/ Len(p.queues[e]) >= p.quota_count[e]
      \/ QueueBytes(p.queues[e]) + c.slots[m].obj.size > p.quota_bytes[e]

\* Mutant of Enqueue: push_front.
EnqueueFront(q, msg) == <<msg>> \o q

Enqueue(q, msg) == Append(q, msg)

\* The second locked section of WhpWriteMessage, for a serialized message.
WriteSerialized(c, h, m) ==
  IF ~IsA(c, h, "MessagePipe") THEN c
  ELSE IF WriteRefused(c, h) THEN CollectTrapEvents(Free(c, m))
  ELSE IF OverQuota(c, h, m) THEN c
  ELSE CollectTrapEvents(
         Free([c EXCEPT !.writes = @ + 1,
                        !.pipes[c.slots[h].obj.state].queues[PeerOf(c, h)] =
                          Enqueue(@, [c.slots[m].obj EXCEPT
                                        !.seq = c.writes + 1,
                                        !.writer = c.slots[h].obj.id])],
              m))

\* A refused write frees the message and one over quota does not; either
\* leaves it committed.
WhpWriteMessage(c, h, m) == WriteSerialized(WhpSerializeMessage(c, m), h, m)

Inbound(c, h) == Outbound(c, h).queues[c.slots[h].obj.end]

\* Mutant of WhpReadMessage: no pop_front.
WhpReadMessageNoPop(c, h) == Alloc(c, "Message", Head(Inbound(c, h)))

\* Takes the front message into a new handle.  Queues no trap event.
WhpReadMessage(c, h) ==
  LET end == c.slots[h].obj
  IN  Alloc([c EXCEPT !.pipes[end.state].queues[end.end] = Tail(@)],
            "Message", Head(Inbound(c, h)))

WhpSetQuotaCount(c, h, limit) ==
  [c EXCEPT !.pipes[c.slots[h].obj.state].quota_count[c.slots[h].obj.end] = limit]

WhpSetQuotaBytes(c, h, limit) ==
  [c EXCEPT !.pipes[c.slots[h].obj.state].quota_bytes[c.slots[h].obj.end] = limit]

\* Mutant of PeerHandles: any handle of the state, h itself included.
PeerHandlesAnyEnd(c, h) ==
  {i \in DOMAIN c.slots :
     IsA(c, i, "MessagePipe") /\ c.slots[i].obj.state = c.slots[h].obj.state}

\* The live handles of the other end of h's pipe (at most one).
PeerHandles(c, h) ==
  {i \in DOMAIN c.slots :
     /\ IsA(c, i, "MessagePipe")
     /\ c.slots[i].obj.state = c.slots[h].obj.state
     /\ c.slots[i].obj.end # c.slots[h].obj.end}

CanFuse(c, h0, h1) ==
  /\ IsA(c, h0, "MessagePipe") /\ IsA(c, h1, "MessagePipe") /\ h0 # h1
  /\ c.slots[h0].obj.state # c.slots[h1].obj.state
  /\ PeerHandles(c, h0) # {} /\ PeerHandles(c, h1) # {}

WhpFuseMessagePipes(c, h0, h1) ==
  LET peer0 == CHOOSE i \in PeerHandles(c, h0) : TRUE
      peer1 == CHOOSE i \in PeerHandles(c, h1) : TRUE
      CountQuota(h) == Outbound(c, h).quota_count[c.slots[h].obj.end]
      BytesQuota(h) == Outbound(c, h).quota_bytes[c.slots[h].obj.end]
      Two(x, y) == [e \in 0..1 |-> IF e = 0 THEN x ELSE y]
      fused == [queues      |-> Two(Inbound(c, peer0) \o Inbound(c, h1),
                                    Inbound(c, peer1) \o Inbound(c, h0)),
                closed      |-> Two(FALSE, FALSE),
                quota_count |-> Two(CountQuota(peer0), CountQuota(peer1)),
                quota_bytes |-> Two(BytesQuota(peer0), BytesQuota(peer1))]
      emptied(p) == [p EXCEPT !.queues = Two(<<>>, <<>>)]
      f  == Len(c.pipes) + 1
      c1 == [c EXCEPT
               !.pipes = Append([i \in DOMAIN @ |->
                                   IF i \in {c.slots[h0].obj.state, c.slots[h1].obj.state}
                                   THEN emptied(@[i]) ELSE @[i]], fused),
               !.slots[peer0].obj.state = f, !.slots[peer0].obj.end = 0,
               !.slots[peer1].obj.state = f, !.slots[peer1].obj.end = 1]
  IN  CollectTrapEvents(Free(Free(c1, h0), h1))

WhpCreateTrap(c) ==
  LET c1 == Alloc([c EXCEPT !.ntraps = @ + 1], "Trap",
                  [id |-> <<0, c.ntraps + 1>>, triggers |-> <<>>, armed |-> FALSE])
  IN  [c1 EXCEPT !.traps = Append(@, NextHandle(c))]

WhpAddTrigger(c, th, h, signals, condition, context) ==
  [c EXCEPT !.slots[th].obj.triggers =
     Append(@, [watched |-> h, signals |-> signals, condition |-> condition,
                context |-> context, obj |-> c.slots[h].obj.id,
                late |-> c.slots[th].obj.armed])]

HasTrigger(c, th, context) ==
  \E i \in DOMAIN c.slots[th].obj.triggers :
    c.slots[th].obj.triggers[i].context = context

WhpRemoveTrigger(c, th, context) ==
  [c EXCEPT
     !.slots[th].obj.triggers = KeepAt(@, {i \in DOMAIN @ : @[i].context # context}),
     !.pending_events = Append(@, [trap |-> c.slots[th].obj.id,
                                   context |-> context, result |-> "CANCELLED"])]

\* Arms the trap unless a trigger matches already.
CanArm(c, th) == Matching(c, c.slots[th].obj) = {}

WhpArmTrap(c, th) == [c EXCEPT !.slots[th].obj.armed = TRUE]

\* Mutant of PurgeEvents: nothing is purged.
PurgeEventsNot(c, th) == c.pending_events

\* WhpClose of a trap drops the queued events that carry one of the contexts
\* of its triggers.
PurgeEvents(c, th) ==
  LET t == c.slots[th].obj
      contexts == {t.triggers[i].context : i \in DOMAIN t.triggers}
  IN  KeepAt(c.pending_events,
             {i \in DOMAIN c.pending_events : c.pending_events[i].context \notin contexts})

WhpClose(c, h) ==
  LET obj == c.slots[h].obj
      c1 == IF c.slots[h].kind = "MessagePipe"
            THEN [c EXCEPT !.pipes[obj.state].closed[obj.end] = TRUE]
            ELSE IF c.slots[h].kind = "Trap"
            THEN [c EXCEPT !.pending_events = PurgeEvents(c, h),
                           !.traps = KeepAt(@, {i \in DOMAIN @ : @[i] # h})]
            ELSE c
  IN  CollectTrapEvents(Free(c1, h))

InitCore ==
  [slots |-> <<>>, free_list |-> <<>>, traps |-> <<>>, pipes |-> <<>>,
   pending_events |-> <<>>, messages |-> 0, writes |-> 0, ntraps |-> 0]

=============================================================================
