----------------------------- MODULE HolePunch -----------------------------
(***************************************************************************)
(* The HolePunch C API as a state machine: any sequence of Whp* calls, by  *)
(* any number of threads, on the core of module WhpCore.  A call takes     *)
(* effect in its locked section, so a call is one step; WhpPumpEvents      *)
(* takes the queued events under the lock and runs the handlers after it,  *)
(* so other calls (a handler's own too) come between.  A call on a handle  *)
(* that Lookup refuses changes nothing and is not a step.  WhpWriteMessage *)
(* has two locked sections and is one step here, for messages that one     *)
(* thread uses at a time; MessageContext takes them apart.                 *)
(***************************************************************************)
EXTENDS WhpCore

CONSTANTS
  MaxHandles,    \* bound on the handle table
  MaxPipes,      \* bound on the PipeStates when a pipe is created
  MaxPipeStates, \* bound on the PipeStates ever created (fusion makes one)
  MaxMessages,   \* bound on the messages ever created
  MaxWrites,     \* bound on the messages ever written
  MaxTraps,      \* bound on the traps ever created
  MaxTriggers,   \* bound on the triggers of one trap
  MaxEvents,     \* bound on the queued events
  MaxBytes,      \* bound on the size of a message
  TriggerSignals,\* signal sets that the users of traps pass
  Conditions,    \* trigger conditions that they pass
  Contexts,      \* trigger contexts that they pass
  WatchedKinds,  \* kinds of the handles that they watch
  Quotas         \* limits that WhpSetQuota is called with

ASSUME HolePunchAssumption ==
  /\ {MaxPipes, MaxPipeStates} \subseteq Nat /\ MaxHandles \in Nat /\ MaxMessages \in Nat
  /\ MaxTraps \in Nat /\ MaxTriggers \in Nat /\ MaxEvents \in Nat
  /\ MaxBytes \in Nat /\ MaxWrites \in Nat
  /\ Quotas \subseteq Nat
  /\ Conditions \subseteq {"SATISFIED", "UNSATISFIABLE"}
  /\ WatchedKinds \subseteq Kinds
  /\ TriggerSignals \subseteq ((SUBSET Signals) \ {{}})

VARIABLES
  core,    \* Core::Get()
  batch,   \* the events a WhpPumpEvents call took and has not handled yet
  read,    \* the writes whose message WhpReadMessage has returned
  removed  \* the <<trap, context>> pairs that WhpRemoveTrigger removed

vars == <<core, batch, read, removed>>

Handles == DOMAIN core.slots
Watchable == {h \in Handles : core.slots[h].kind \in WatchedKinds}

\* Room for n more handles.
Room(n) == Cardinality({h \in Handles : core.slots[h].kind = "Free"})
           + MaxHandles - Len(core.slots) >= n

Init ==
  /\ core = InitCore
  /\ batch = <<>>
  /\ read = {}
  /\ removed = {}

-----------------------------------------------------------------------------
CreateMessagePipe ==
  /\ Room(2) /\ Len(core.pipes) < MaxPipes
  /\ core' = WhpCreateMessagePipe(core)
  /\ UNCHANGED <<batch, read, removed>>

CreateMessage ==
  /\ Room(1) /\ core.messages < MaxMessages
  /\ core' = WhpCreateMessage(core)
  /\ UNCHANGED <<batch, read, removed>>

AppendMessageData(m, n, commit) ==
  /\ IsA(core, m, "Message")
  /\ ~(core.slots[m].obj.committed /\ n # 0)
  /\ core.slots[m].obj.size + n <= MaxBytes
  /\ core' = WhpAppendMessageData(core, m, n, commit)
  /\ UNCHANGED <<batch, read, removed>>

ReserveMessageCapacity(m, n) ==
  /\ IsA(core, m, "Message")
  /\ ~core.slots[m].obj.committed
  /\ core' = WhpReserveMessageCapacity(core, m, n)
  /\ UNCHANGED <<batch, read, removed>>

SerializeMessage(m) ==
  /\ IsA(core, m, "Message")
  /\ core' = WhpSerializeMessage(core, m)
  /\ UNCHANGED <<batch, read, removed>>

WriteMessage(h, m) ==
  /\ IsA(core, m, "Message") /\ core.writes < MaxWrites
  /\ core' = WhpWriteMessage(core, h, m)
  /\ UNCHANGED <<batch, read, removed>>

ReadMessage(h) ==
  /\ IsA(core, h, "MessagePipe") /\ Inbound(core, h) # <<>>
  /\ Room(1)
  /\ core' = WhpReadMessage(core, h)
  /\ read' = read \cup {Head(Inbound(core, h)).seq}
  /\ UNCHANGED <<batch, removed>>

SetQuota(h, limit) ==
  /\ IsA(core, h, "MessagePipe")
  /\ \/ core' = WhpSetQuotaCount(core, h, limit)
     \/ core' = WhpSetQuotaBytes(core, h, limit)
  /\ UNCHANGED <<batch, read, removed>>

FuseMessagePipes(h0, h1) ==
  /\ Len(core.pipes) < MaxPipeStates /\ CanFuse(core, h0, h1)
  /\ core' = WhpFuseMessagePipes(core, h0, h1)
  /\ UNCHANGED <<batch, read, removed>>

CreateTrap ==
  /\ Room(1) /\ core.ntraps < MaxTraps
  /\ core' = WhpCreateTrap(core)
  /\ UNCHANGED <<batch, read, removed>>

AddTrigger(th, h, signals, condition, context) ==
  /\ IsA(core, th, "Trap") /\ Lookup(core, h)
  /\ Len(core.slots[th].obj.triggers) < MaxTriggers
  /\ core' = WhpAddTrigger(core, th, h, signals, condition, context)
  /\ UNCHANGED <<batch, read, removed>>

RemoveTrigger(th, context) ==
  /\ IsA(core, th, "Trap") /\ HasTrigger(core, th, context)
  /\ Len(core.pending_events) < MaxEvents
  /\ core' = WhpRemoveTrigger(core, th, context)
  /\ removed' = removed \cup {<<core.slots[th].obj.id, context>>}
  /\ UNCHANGED <<batch, read>>

ArmTrap(th) ==
  /\ IsA(core, th, "Trap") /\ CanArm(core, th)
  /\ Len(core.pending_events) < MaxEvents
  /\ core' = WhpArmTrap(core, th)
  /\ UNCHANGED <<batch, read, removed>>

Close(h) ==
  /\ Lookup(core, h)
  /\ core' = WhpClose(core, h)
  /\ UNCHANGED <<batch, read, removed>>

\* WhpPumpEvents: the locked section, then the handlers one by one.
PumpTake ==
  /\ batch = <<>> /\ core.pending_events # <<>>
  /\ batch' = core.pending_events
  /\ core' = [core EXCEPT !.pending_events = <<>>]
  /\ UNCHANGED <<read, removed>>

PumpHandle ==
  /\ batch # <<>>
  /\ batch' = Tail(batch)
  /\ UNCHANGED <<core, read, removed>>

WhpPumpEvents == PumpTake \/ PumpHandle

Next ==
  \/ CreateMessagePipe
  \/ CreateMessage
  \/ \E m \in Handles, n \in 0..MaxBytes, commit \in BOOLEAN :
       AppendMessageData(m, n, commit)
  \/ \E m \in Handles, n \in 0..MaxBytes : ReserveMessageCapacity(m, n)
  \/ \E m \in Handles : SerializeMessage(m)
  \/ \E h, m \in Handles : WriteMessage(h, m)
  \/ \E h \in Handles : ReadMessage(h)
  \/ \E h \in Handles, limit \in Quotas : SetQuota(h, limit)
  \/ \E h0, h1 \in Handles : FuseMessagePipes(h0, h1)
  \/ CreateTrap
  \/ \E th \in Handles, h \in Watchable, signals \in TriggerSignals,
        condition \in Conditions, context \in Contexts :
       AddTrigger(th, h, signals, condition, context)
  \/ \E th \in Handles, context \in Contexts : RemoveTrigger(th, context)
  \/ \E th \in Handles : ArmTrap(th)
  \/ \E h \in Handles : Close(h)
  \/ WhpPumpEvents

Spec == Init /\ [][Next]_vars

-----------------------------------------------------------------------------
(* Properties.                                                             *)

\* Core::Alloc and Core::Free keep the free list exact, so that no sequence
\* of closes, refused writes, reads and fusions makes Alloc hand out a
\* handle that is in use.
FreeListExact == FreeListExactIn(core)

\* Core::traps, which CollectTrapEvents walks, names every live trap once.
TrapsRegistered ==
  /\ IsInjective(core.traps)
  /\ \A h \in Handles : (\E i \in DOMAIN core.traps : core.traps[i] = h)
                          <=> core.slots[h].kind = "Trap"

\* closed[] tells the truth about the other end (WhpClose, WhpWriteMessage,
\* PipeSignals): a live end sees its peer closed exactly when no live handle
\* is the other end, fused ends included, and no end has two handles.
PeerClosedTruthful ==
  \A h \in Handles : IsA(core, h, "MessagePipe") =>
    LET end == core.slots[h].obj
        Holders(e) == {i \in Handles : /\ IsA(core, i, "MessagePipe")
                                       /\ core.slots[i].obj.state = end.state
                                       /\ core.slots[i].obj.end = e}
    IN  /\ Holders(end.end) = {h}
        /\ core.pipes[end.state].closed[1 - end.end] <=> Holders(1 - end.end) = {}

\* Places in the queues: <<pipe state, end, position>>.
QueuedAt == UNION {{<<p, e, i>> : i \in DOMAIN core.pipes[p].queues[e]} :
                     p \in DOMAIN core.pipes, e \in 0..1}
Queued(q) == core.pipes[q[1]].queues[q[2]][q[3]]

\* A message WhpWriteMessage accepted waits in exactly one queue until
\* WhpReadMessage takes it: fusing pipes neither drops nor copies one.
NoLossNoDup ==
  /\ {Queued(q).seq : q \in QueuedAt} = (1..core.writes) \ read
  /\ \A q, r \in QueuedAt : Queued(q).seq = Queued(r).seq => q = r

\* Messages that one end wrote wait in the order it wrote them, also after
\* WhpFuseMessagePipes has spliced the queues of two pipes.
WriterOrder ==
  \A q, r \in QueuedAt :
    /\ q[1] = r[1] /\ q[2] = r[2] /\ q[3] < r[3]
    /\ Queued(q).writer = Queued(r).writer
    => Queued(q).seq < Queued(r).seq

\* Of the messages that WhpWriteMessage accepted none is lost, read twice or
\* overtaken by a later one of the same writer, fusions included.
QueuesAreExact == NoLossNoDup /\ WriterOrder

\* WhpWriteMessage keeps a queue within the quota that its reader has set
\* with WhpSetQuota, in messages and in bytes: a queue that grows ends up
\* within both limits (a limit set lower later drops nothing).
QuotaHonoured ==
  [][\A p \in DOMAIN core.pipes, e \in 0..1 :
       Len(core'.pipes[p].queues[e]) > Len(core.pipes[p].queues[e]) =>
         /\ Len(core'.pipes[p].queues[e]) <= core.pipes[p].quota_count[e]
         /\ QueueBytes(core'.pipes[p].queues[e]) <= core.pipes[p].quota_bytes[e]]_vars

\* CollectTrapEvents misses nothing: a trap that is armed has no satisfied
\* trigger, as long as the trigger was added before the trap was armed and
\* still watches the object it was added for.
NoMissedSignal ==
  \A th \in Handles : IsA(core, th, "Trap") /\ core.slots[th].obj.armed =>
    \A i \in DOMAIN core.slots[th].obj.triggers :
      LET trig == core.slots[th].obj.triggers[i]
      IN  /\ trig.condition = "SATISFIED" /\ ~trig.late
          /\ core.slots[trig.watched].obj.id = trig.obj
          => ~TriggerMatches(core, trig)

LiveTraps == {core.slots[h].obj.id : h \in {x \in Handles : IsA(core, x, "Trap")}}

\* WhpClose's purge: no event of a trap that is gone is still queued, except
\* for triggers that WhpRemoveTrigger had taken off it before; and the list
\* of traps that a write or a close walks holds the live ones, each once.
NoEventOutlivesTrap ==
  /\ TrapsRegistered
  /\ \A i \in DOMAIN core.pending_events :
       LET e == core.pending_events[i]
       IN  e.trap \in LiveTraps \/ <<e.trap, e.context>> \in removed

=============================================================================
