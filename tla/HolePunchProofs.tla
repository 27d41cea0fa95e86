-------------------------- MODULE HolePunchProofs --------------------------
(***************************************************************************)
(* Theorems about HolePunch, for every value of its bounds: the events of  *)
(* traps and their signals first, then the message pipes (their closed     *)
(* flags, the messages in their queues and the quotas).                    *)
(***************************************************************************)
EXTENDS HolePunch, WhpLemmas

-----------------------------------------------------------------------------
(* What a step of HolePunch does to the core, by kinds of steps.           *)

\* Ends, traps, events and queues stay: the operations on message objects,
\* WhpCreateMessage, WhpSetQuota and a write over quota.
CalmStep(c, d) == Calm(c, d) /\ SamePipes(c, d)

PipeStep(c, d) == Typed(d) /\ \E n0, n1 : PipeMade(c, d, n0, n1)

\* The front of the queue of h's end is taken.
ReadStep(c, d, h) ==
  /\ IsA(c, h, "MessagePipe") /\ Inbound(c, h) # <<>> /\ Calm(c, d)
  /\ QueueSet(c.pipes, d.pipes, c.slots[h].obj.state, c.slots[h].obj.end, Tail(Inbound(c, h)))

\* A refused write and the close of a message only collect.
CollectStep(c, d) == Collecting(c, d, {}) /\ d.pipes = c.pipes /\ d.writes = c.writes

AcceptStep(c, d) == Collecting(c, d, {}) /\ \E h, msg : Accepted(c, d, h, msg)

FuseStep(c, d) == \E h0, h1, k0, k1 : Fused(c, d, h0, h1, k0, k1)

TrapStep(c, d) == \E n : TrapMade(c, d, n)

AddStep(c, d) ==
  \E th, new :
    /\ IsA(c, th, "Trap")
    /\ new.signals # {} /\ Lookup(c, new.watched) /\ new.obj = c.slots[new.watched].obj.id
    /\ new.late = c.slots[th].obj.armed
    /\ TrapChanged(c, d, th, [c.slots[th].obj EXCEPT !.triggers = Append(@, new)])
    /\ d.pending_events = c.pending_events

RemoveStep(c, d, th, context) ==
  LET old  == c.slots[th].obj
      left == KeepAt(old.triggers, {i \in DOMAIN old.triggers : old.triggers[i].context # context})
  IN  /\ IsA(c, th, "Trap")
      /\ TrapChanged(c, d, th, [old EXCEPT !.triggers = left])
      /\ d.pending_events = Append(c.pending_events,
                                   [trap |-> old.id, context |-> context, result |-> "CANCELLED"])

ArmStep(c, d) ==
  \E th : /\ IsA(c, th, "Trap") /\ Matching(c, c.slots[th].obj) = {}
          /\ TrapChanged(c, d, th, [c.slots[th].obj EXCEPT !.armed = TRUE])
          /\ d.pending_events = c.pending_events

ClosePipeStep(c, d) ==
  \E h : /\ IsA(c, h, "MessagePipe") /\ Collecting(c, d, {h}) /\ d.writes = c.writes
         /\ EndClosed(c.pipes, d.pipes, c.slots[h].obj.state, c.slots[h].obj.end)

CloseTrapStep(c, d) == \E h : IsA(c, h, "Trap") /\ TrapClosed(c, d, h)

\* WhpPumpEvents takes the events.
TakeStep(c, d) ==
  /\ Typed(d) /\ SameEnds(c, d, {}) /\ SameTrapObjects(c, d)
  /\ d.pipes = c.pipes /\ d.writes = c.writes /\ d.pending_events = <<>>

\* The steps that leave the ghost variables alone.
PlainStep(c, d) ==
  \/ CalmStep(c, d) \/ PipeStep(c, d) \/ CollectStep(c, d) \/ AcceptStep(c, d)
  \/ FuseStep(c, d) \/ TrapStep(c, d) \/ AddStep(c, d) \/ ArmStep(c, d)
  \/ ClosePipeStep(c, d) \/ CloseTrapStep(c, d) \/ TakeStep(c, d) \/ d = c

\* Every step.
Step ==
  \/ PlainStep(core, core') /\ UNCHANGED <<read, removed>>
  \/ \E h : /\ ReadStep(core, core', h) /\ UNCHANGED removed
            /\ read' = read \cup {Head(Inbound(core, h)).seq}
  \/ \E th, context : /\ RemoveStep(core, core', th, context) /\ UNCHANGED read
                      /\ removed' = removed \cup {<<core.slots[th].obj.id, context>>}

(* A change of a message object is a calm step.                            *)
LEMMA MessageStep ==
  ASSUME NEW c, NEW d, NEW m, MessageChanged(c, d, m)
  PROVE  PlainStep(c, d)
<1>1. CalmStep(c, d)
  BY DEF MessageChanged, CalmStep, SamePipes
<1> QED BY <1>1 DEF PlainStep

(* The steps of Next are of these kinds.                                   *)
LEMMA NextSteps ==
  ASSUME Typed(core), [Next]_vars
  PROVE  Step
<1>1. CASE CreateMessagePipe
  <2>1. core' = WhpCreateMessagePipe(core) /\ UNCHANGED <<read, removed>>
    BY <1>1 DEF CreateMessagePipe
  <2>2. PipeStep(core, WhpCreateMessagePipe(core))
    BY CreateMessagePipeEffect DEF PipeStep
  <2> QED BY <2>1, <2>2 DEF Step, PlainStep
<1>2. CASE CreateMessage
  <2>1. core' = WhpCreateMessage(core) /\ UNCHANGED <<read, removed>>
    BY <1>2 DEF CreateMessage
  <2> DEFINE d == WhpCreateMessage(core)
  <2>2. Typed(d) /\ d.pipes = core.pipes /\ MessageMade(core, d, NextHandle(core))
    BY CreateMessageEffect
  <2> HIDE DEF d
  <2>3. CalmStep(core, d)
    BY <2>2, MessageMadeIsCalm DEF CalmStep, SamePipes
  <2> QED BY <2>1, <2>3 DEF Step, PlainStep, d
<1>3. ASSUME NEW m \in Handles, NEW n \in 0..MaxBytes, NEW commit \in BOOLEAN,
             AppendMessageData(m, n, commit)
      PROVE  Step
  <2>1. /\ core' = WhpAppendMessageData(core, m, n, commit) /\ UNCHANGED <<read, removed>>
        /\ IsA(core, m, "Message") /\ n \in Nat
    BY <1>3, HolePunchAssumption DEF AppendMessageData
  <2>2. MessageChanged(core, WhpAppendMessageData(core, m, n, commit), m)
    BY <2>1, AppendMessageDataEffect
  <2> QED BY <2>1, <2>2, MessageStep DEF Step
<1>4. ASSUME NEW m \in Handles, NEW n \in 0..MaxBytes, ReserveMessageCapacity(m, n)
      PROVE  Step
  <2>1. /\ core' = WhpReserveMessageCapacity(core, m, n) /\ UNCHANGED <<read, removed>>
        /\ IsA(core, m, "Message") /\ n \in Nat
    BY <1>4, HolePunchAssumption DEF ReserveMessageCapacity
  <2>2. MessageChanged(core, WhpReserveMessageCapacity(core, m, n), m)
    BY <2>1, ReserveEffect
  <2> QED BY <2>1, <2>2, MessageStep DEF Step
<1>5. ASSUME NEW m \in Handles, SerializeMessage(m)
      PROVE  Step
  <2>1. /\ core' = WhpSerializeMessage(core, m) /\ UNCHANGED <<read, removed>>
        /\ IsA(core, m, "Message")
    BY <1>5 DEF SerializeMessage
  <2>2. MessageChanged(core, WhpSerializeMessage(core, m), m)
    BY <2>1, SerializeEffect
  <2> QED BY <2>1, <2>2, MessageStep DEF Step
<1>6. ASSUME NEW h \in Handles, NEW m \in Handles, WriteMessage(h, m)
      PROVE  Step
  <2>1. /\ core' = WhpWriteMessage(core, h, m) /\ UNCHANGED <<read, removed>>
        /\ IsA(core, m, "Message")
    BY <1>6 DEF WriteMessage
  <2> DEFINE d == WhpWriteMessage(core, h, m)
  <2>2. \/ Calm(core, d) /\ d.pipes = core.pipes
        \/ Collecting(core, d, {}) /\ d.pipes = core.pipes /\ d.writes = core.writes
        \/ Collecting(core, d, {}) /\ \E msg : Accepted(core, d, h, msg)
    BY <2>1, WriteMessageEffect
  <2> HIDE DEF d
  <2>3. CalmStep(core, d) \/ CollectStep(core, d) \/ AcceptStep(core, d)
    BY <2>2 DEF CalmStep, SamePipes, CollectStep, AcceptStep
  <2> QED BY <2>1, <2>3 DEF Step, PlainStep, d
<1>7. ASSUME NEW h \in Handles, ReadMessage(h)
      PROVE  Step
  <2>1. /\ core' = WhpReadMessage(core, h) /\ UNCHANGED removed
        /\ read' = read \cup {Head(Inbound(core, h)).seq}
        /\ IsA(core, h, "MessagePipe") /\ Inbound(core, h) # <<>>
    BY <1>7 DEF ReadMessage
  <2> DEFINE d == WhpReadMessage(core, h)
             s == core.slots[h].obj.state
             e == core.slots[h].obj.end
             q == core.pipes[s].queues[e]
  <2>2. /\ Typed(d) /\ MessageMade(core, d, NextHandle(core))
        /\ d.pipes = [core.pipes EXCEPT ![s].queues[e] = Tail(q)]
    BY <2>1, ReadMessageEffect
  <2>3. Calm(core, d)
    BY <2>2, MessageMadeIsCalm
  <2>4. /\ core.slots[h].obj \in EndObjects(Len(core.pipes)) /\ core.pipes \in Seq(PipeStates)
        /\ Inbound(core, h) = q
    BY <2>1 DEF Typed, IsA, Lookup, SlotTyped, Inbound, Outbound
  <2>5. s \in DOMAIN core.pipes /\ e \in 0..1
    BY <2>4 DEF EndObjects
  <2> HIDE DEF d, s, e
  <2>6. core.pipes[s] \in PipeStates
    BY <2>4, <2>5
  <2>7. q \in Seq(Msgs)
    BY <2>5, <2>6 DEF PipeStates
  <2>8. Tail(q) \in Seq(Msgs)
    BY <2>1, <2>4, <2>7
  <2>9. QueueSet(core.pipes, d.pipes, s, e, Tail(q))
    <3> HIDE DEF q
    <3>1. QueueSet(core.pipes, [core.pipes EXCEPT ![s].queues[e] = Tail(q)], s, e, Tail(q))
      BY <2>4, <2>5, <2>8, QueueSetTyped
    <3> QED BY <2>2, <3>1, Zenon
  <2>10. ReadStep(core, d, h)
    BY <2>1, <2>3, <2>4, <2>9 DEF ReadStep, s, e
  <2> QED BY <2>1, <2>10 DEF Step, d
<1>8. ASSUME NEW h \in Handles, NEW limit \in Quotas, SetQuota(h, limit)
      PROVE  Step
  <2>1. /\ core' = WhpSetQuotaCount(core, h, limit) \/ core' = WhpSetQuotaBytes(core, h, limit)
        /\ IsA(core, h, "MessagePipe") /\ limit \in Nat /\ UNCHANGED <<read, removed>>
    BY <1>8, HolePunchAssumption DEF SetQuota
  <2>2. CalmStep(core, core')
    BY <2>1, SetQuotaEffect DEF CalmStep
  <2> QED BY <2>1, <2>2 DEF Step, PlainStep
<1>9. ASSUME NEW h0 \in Handles, NEW h1 \in Handles, FuseMessagePipes(h0, h1)
      PROVE  Step
  <2>1. /\ core' = WhpFuseMessagePipes(core, h0, h1) /\ CanFuse(core, h0, h1)
        /\ UNCHANGED <<read, removed>>
    BY <1>9 DEF FuseMessagePipes
  <2>2. FuseStep(core, WhpFuseMessagePipes(core, h0, h1))
    BY <2>1, FuseEffect DEF FuseStep
  <2> QED BY <2>1, <2>2 DEF Step, PlainStep
<1>10. CASE CreateTrap
  <2>1. core' = WhpCreateTrap(core) /\ UNCHANGED <<read, removed>>
    BY <1>10 DEF CreateTrap
  <2>2. TrapStep(core, WhpCreateTrap(core))
    BY CreateTrapEffect DEF TrapStep
  <2> QED BY <2>1, <2>2 DEF Step, PlainStep
<1>11. ASSUME NEW th \in Handles, NEW h \in Watchable, NEW signals \in TriggerSignals,
              NEW condition \in Conditions, NEW context \in Contexts,
              AddTrigger(th, h, signals, condition, context)
       PROVE  Step
  <2>1. /\ core' = WhpAddTrigger(core, th, h, signals, condition, context)
        /\ IsA(core, th, "Trap") /\ Lookup(core, h) /\ UNCHANGED <<read, removed>>
        /\ signals # {}
    BY <1>11, HolePunchAssumption DEF AddTrigger
  <2> DEFINE new == [watched |-> h, signals |-> signals, condition |-> condition,
                     context |-> context, obj |-> core.slots[h].obj.id,
                     late |-> core.slots[th].obj.armed]
             d == WhpAddTrigger(core, th, h, signals, condition, context)
  <2>2. /\ TrapChanged(core, d, th, [core.slots[th].obj EXCEPT !.triggers = Append(@, new)])
        /\ d.pending_events = core.pending_events
    BY <2>1, AddTriggerEffect
  <2>3. /\ new.signals # {} /\ new.watched = h /\ new.obj = core.slots[h].obj.id
        /\ new.late = core.slots[th].obj.armed
    BY <2>1
  <2> HIDE DEF new, d
  <2>4. AddStep(core, d)
    BY <2>1, <2>2, <2>3 DEF AddStep
  <2> QED BY <2>1, <2>4 DEF Step, PlainStep, d
<1>12. ASSUME NEW th \in Handles, NEW context \in Contexts, RemoveTrigger(th, context)
       PROVE  Step
  <2>1. /\ core' = WhpRemoveTrigger(core, th, context) /\ IsA(core, th, "Trap")
        /\ UNCHANGED read /\ removed' = removed \cup {<<core.slots[th].obj.id, context>>}
    BY <1>12 DEF RemoveTrigger
  <2> DEFINE d    == WhpRemoveTrigger(core, th, context)
             old  == core.slots[th].obj
             left == KeepAt(old.triggers,
                            {i \in DOMAIN old.triggers : old.triggers[i].context # context})
  <2>2. /\ TrapChanged(core, d, th, [old EXCEPT !.triggers = left])
        /\ d.pending_events = Append(core.pending_events,
                                     [trap |-> old.id, context |-> context, result |-> "CANCELLED"])
    BY <2>1, RemoveTriggerEffect
  <2> HIDE DEF d
  <2>3. RemoveStep(core, d, th, context)
    BY <2>1, <2>2, Zenon DEF RemoveStep
  <2> QED BY <2>1, <2>3 DEF Step, d
<1>13. ASSUME NEW th \in Handles, ArmTrap(th)
       PROVE  Step
  <2>1. /\ core' = WhpArmTrap(core, th) /\ IsA(core, th, "Trap") /\ CanArm(core, th)
        /\ UNCHANGED <<read, removed>>
    BY <1>13 DEF ArmTrap
  <2>2. ArmStep(core, WhpArmTrap(core, th))
    BY <2>1, ArmTrapEffect DEF ArmStep, CanArm
  <2> QED BY <2>1, <2>2 DEF Step, PlainStep
<1>14. ASSUME NEW h \in Handles, Close(h)
       PROVE  Step
  <2>1. core' = WhpClose(core, h) /\ Lookup(core, h) /\ UNCHANGED <<read, removed>>
    BY <1>14 DEF Close
  <2>2. CASE IsA(core, h, "MessagePipe")
    <3>1. ClosePipeStep(core, WhpClose(core, h))
      BY <2>2, ClosePipeEffect DEF ClosePipeStep
    <3> QED BY <2>1, <3>1 DEF Step, PlainStep
  <2>3. CASE IsA(core, h, "Message")
    <3>1. CollectStep(core, WhpClose(core, h))
      BY <2>3, CloseMessageEffect DEF CollectStep
    <3> QED BY <2>1, <3>1 DEF Step, PlainStep
  <2>4. CASE IsA(core, h, "Trap")
    <3>1. CloseTrapStep(core, WhpClose(core, h))
      BY <2>4, CloseTrapEffect DEF CloseTrapStep
    <3> QED BY <2>1, <3>1 DEF Step, PlainStep
  <2>5. core.slots[h].kind \in Kinds
    BY <2>1 DEF Typed, Lookup, SlotTyped
  <2> QED BY <2>1, <2>2, <2>3, <2>4, <2>5 DEF Kinds, IsA, Lookup
<1>15. CASE PumpTake
  <2>1. /\ DOMAIN core' = CoreFields /\ core'.slots = core.slots /\ core'.free_list = core.free_list
        /\ core'.traps = core.traps /\ core'.pipes = core.pipes /\ core'.pending_events = <<>>
        /\ core'.messages = core.messages /\ core'.writes = core.writes
        /\ core'.ntraps = core.ntraps /\ UNCHANGED <<read, removed>>
    BY <1>15 DEF PumpTake, Typed, Table, Shape, CoreFields
  <2>2. Typed(core')
    <3>1. /\ <<>> \in Seq({}) /\ Len(core.pipes) >= Len(core.pipes)
          /\ core.pipes \in Seq(PipeStates)
          /\ core.messages \in Nat /\ core.writes \in Nat /\ core.ntraps \in Nat
      BY DEF Typed
    <3> QED BY <2>1, <3>1, TypedFields
  <2>3. SameEnds(core, core', {}) /\ SameTrapObjects(core, core')
    BY <2>1 DEF SameEnds, SameTrapObjects, IsA, Lookup
  <2>4. TakeStep(core, core')
    BY <2>1, <2>2, <2>3 DEF TakeStep
  <2> QED BY <2>1, <2>4 DEF Step, PlainStep
<1>16. CASE PumpHandle \/ UNCHANGED vars
  BY <1>16 DEF PumpHandle, vars, Step, PlainStep
<1> QED BY <1>1, <1>2, <1>3, <1>4, <1>5, <1>6, <1>7, <1>8, <1>9, <1>10, <1>11,
           <1>12, <1>13, <1>14, <1>15, <1>16 DEF Next, WhpPumpEvents

-----------------------------------------------------------------------------
(* The core stays typed.                                                   *)
LEMMA TypedStep ==
  ASSUME Typed(core), Step
  PROVE  Typed(core')
<1> DEFINE c == core
           d == core'
<1>1. CalmStep(c, d) => Typed(d)
  BY DEF CalmStep, Calm
<1>2. PipeStep(c, d) => Typed(d)
  BY DEF PipeStep
<1>3. CollectStep(c, d) => Typed(d)
  BY DEF CollectStep, Collecting
<1>4. AcceptStep(c, d) => Typed(d)
  BY DEF AcceptStep, Collecting
<1>5. FuseStep(c, d) => Typed(d)
  <2>1. \A h0, h1, k0, k1 : Fused(c, d, h0, h1, k0, k1) => Typed(d)
    BY DEF Fused
  <2> QED BY <2>1, Zenon DEF FuseStep
<1>6. TrapStep(c, d) => Typed(d)
  BY DEF TrapStep, TrapMade
<1>0. \A th, o : TrapChanged(c, d, th, o) => Typed(d)
  BY DEF TrapChanged
<1>7. AddStep(c, d) => Typed(d)
  BY <1>0, Zenon DEF AddStep
<1>8. ArmStep(c, d) => Typed(d)
  BY <1>0, Zenon DEF ArmStep
<1>9. ClosePipeStep(c, d) => Typed(d)
  BY DEF ClosePipeStep, Collecting
<1>10. CloseTrapStep(c, d) => Typed(d)
  BY DEF CloseTrapStep, TrapClosed
<1>11. TakeStep(c, d) => Typed(d)
  BY DEF TakeStep
<1>12. PlainStep(c, d) => Typed(d)
  BY <1>1, <1>2, <1>3, <1>4, <1>5, <1>6, <1>7, <1>8, <1>9, <1>10, <1>11 DEF PlainStep
<1>13. \A h : ReadStep(c, d, h) => Typed(d)
  BY DEF ReadStep, Calm
<1>14. \A th, context : RemoveStep(c, d, th, context) => Typed(d)
  BY <1>0, Zenon DEF RemoveStep
<1> QED BY <1>12, <1>13, <1>14 DEF Step

LEMMA TypedInit ==
  ASSUME Init
  PROVE  Typed(core)
<1>1. Table(core) /\ TrapList(core)
  BY DEF Init, InitCore, Table, Shape, CoreFields, FreeListExactIn, IsInjective, TrapList
<1>2. core.pipes \in Seq(PipeStates) /\ core.pending_events \in Seq({})
  BY DEF Init, InitCore
<1> QED BY <1>1, <1>2 DEF Typed, Init, InitCore

(* Core's free list is exact in every reachable state: handles are handed  *)
(* out one owner at a time (Core::Alloc, Core::Free and all their callers). *)
THEOREM FreeListTheorem == Spec => []FreeListExact
<1>1. Init => Typed(core)
  BY TypedInit
<1>2. Typed(core) /\ [Next]_vars => Typed(core)'
  <2> SUFFICES ASSUME Typed(core), [Next]_vars PROVE Typed(core')
    OBVIOUS
  <2> QED BY NextSteps, TypedStep
<1>3. Typed(core) => FreeListExact
  BY DEF Typed, Table, FreeListExact
<1> QED BY <1>1, <1>2, <1>3, PTL DEF Spec

-----------------------------------------------------------------------------
(* Events and the traps they are for.                                      *)

\* Every queued event is for a trigger that was removed, or for one of a live
\* trap.
EventsIn(c, gone) ==
  \A i \in DOMAIN c.pending_events :
    LET e == c.pending_events[i]
    IN  <<e.trap, e.context>> \in gone \/ \E h : IsA(c, h, "Trap") /\ EventOf(c, h, e)

(* The traps stay, and the new events are for their triggers.              *)
LEMMA EventsFrame ==
  ASSUME NEW c, NEW d, NEW gone, EventsIn(c, gone), SameTraps(c, d), NewEvents(c, d)
  PROVE  EventsIn(d, gone)
<1>1. \A h, e : IsA(c, h, "Trap") /\ EventOf(c, h, e) => IsA(d, h, "Trap") /\ EventOf(d, h, e)
  BY DEF SameTraps, EventOf
<1> QED BY <1>1 DEF EventsIn, NewEvents

(* The events stay, and each stays one for a trigger of a live trap.       *)
LEMMA EventsSame ==
  ASSUME NEW c, NEW d, NEW gone, EventsIn(c, gone), d.pending_events = c.pending_events,
         \A h, e : IsA(c, h, "Trap") /\ EventOf(c, h, e) => IsA(d, h, "Trap") /\ EventOf(d, h, e)
  PROVE  EventsIn(d, gone)
BY DEF EventsIn

(* Traps that are the same objects have the same events.                   *)
LEMMA EventsCalm ==
  ASSUME NEW c, NEW d, NEW gone, EventsIn(c, gone), SameTrapObjects(c, d),
         d.pending_events = c.pending_events
  PROVE  EventsIn(d, gone)
<1>1. \A h, e : IsA(c, h, "Trap") /\ EventOf(c, h, e) => IsA(d, h, "Trap") /\ EventOf(d, h, e)
  BY DEF SameTrapObjects, EventOf
<1> QED BY <1>1, EventsSame

(* A trap whose triggers grow, or stay.                                    *)
LEMMA EventsTrapChanged ==
  ASSUME NEW c, NEW d, NEW th, NEW o, TrapChanged(c, d, th, o), IsA(c, th, "Trap"),
         o.id = c.slots[th].obj.id,
         \A i \in DOMAIN c.slots[th].obj.triggers :
           \E j \in DOMAIN o.triggers : o.triggers[j] = c.slots[th].obj.triggers[i],
         NEW gone, EventsIn(c, gone), d.pending_events = c.pending_events
  PROVE  EventsIn(d, gone)
<1>1. ASSUME NEW h, NEW e, IsA(c, h, "Trap"), EventOf(c, h, e)
      PROVE  IsA(d, h, "Trap") /\ EventOf(d, h, e)
  <2>1. IsA(d, h, "Trap")
    BY <1>1 DEF TrapChanged
  <2>2. CASE h = th
    <3>1. d.slots[h].obj = o
      BY <2>2 DEF TrapChanged
    <3>2. PICK i \in DOMAIN c.slots[th].obj.triggers : e.context = c.slots[th].obj.triggers[i].context
      BY <1>1, <2>2 DEF EventOf
    <3>3. PICK j \in DOMAIN o.triggers : o.triggers[j] = c.slots[th].obj.triggers[i]
      BY <3>2
    <3> QED BY <1>1, <2>1, <2>2, <3>1, <3>2, <3>3 DEF EventOf
  <2>3. CASE h # th
    <3>1. d.slots[h].obj = c.slots[h].obj
      BY <1>1, <2>3 DEF TrapChanged
    <3> QED BY <1>1, <2>1, <3>1 DEF EventOf
  <2> QED BY <2>2, <2>3
<1> QED BY <1>1, EventsSame

(* WhpRemoveTrigger: its event, and those for the triggers it removed, are *)
(* for removed triggers.                                                   *)
LEMMA EventsRemove ==
  ASSUME NEW c, NEW d, Typed(c), NEW th, NEW context, RemoveStep(c, d, th, context),
         NEW gone, EventsIn(c, gone)
  PROVE  EventsIn(d, gone \cup {<<c.slots[th].obj.id, context>>})
<1> DEFINE old  == c.slots[th].obj
           K    == {i \in DOMAIN old.triggers : old.triggers[i].context # context}
           left == KeepAt(old.triggers, K)
           ev   == [trap |-> old.id, context |-> context, result |-> "CANCELLED"]
           all  == gone \cup {<<old.id, context>>}
<1>1. /\ IsA(c, th, "Trap") /\ TrapChanged(c, d, th, [old EXCEPT !.triggers = left])
      /\ d.pending_events = Append(c.pending_events, ev)
  BY Zenon DEF RemoveStep
<1>2. TrapObject(old) /\ \E S : c.pending_events \in Seq(S)
  BY <1>1 DEF Typed, SlotTyped, IsA, Lookup
<1> HIDE DEF old
<1>3. Kept(left, old.triggers, K)
  <2>1. PICK S : old.triggers \in Seq(S)
    BY <1>2 DEF TrapObject
  <2> HIDE DEF K
  <2> QED BY <2>1, KeepAtElements
<1> HIDE DEF left
<1>4. d.slots[th].obj.id = old.id /\ d.slots[th].obj.triggers = left
  BY <1>1, <1>2 DEF TrapChanged, TrapObject, TrapFields
<1>5. ASSUME NEW e, <<e.trap, e.context>> \in gone \/ \E h : IsA(c, h, "Trap") /\ EventOf(c, h, e)
      PROVE  <<e.trap, e.context>> \in all \/ \E h : IsA(d, h, "Trap") /\ EventOf(d, h, e)
  <2>1. CASE <<e.trap, e.context>> \in gone
    BY <2>1
  <2>2. ASSUME NEW h, IsA(c, h, "Trap"), EventOf(c, h, e), h # th
        PROVE  IsA(d, h, "Trap") /\ EventOf(d, h, e)
    BY <1>1, <2>2 DEF TrapChanged, EventOf
  <2>3. CASE EventOf(c, th, e)
    <3>1. PICK i \in DOMAIN old.triggers : e.context = old.triggers[i].context
      BY <2>3 DEF EventOf, old
    <3>2. e.trap = old.id
      BY <2>3 DEF EventOf, old
    <3>3. CASE e.context = context
      BY <3>2, <3>3
    <3>4. CASE e.context # context
      <4>1. i \in K
        BY <3>1, <3>4
      <4>2. PICK j \in DOMAIN left : left[j] = old.triggers[i]
        BY <1>3, <4>1 DEF Kept
      <4>3. IsA(d, th, "Trap") /\ EventOf(d, th, e)
        BY <1>1, <1>4, <3>1, <3>2, <4>2 DEF EventOf, TrapChanged
      <4> QED BY <4>3
    <3> QED BY <3>3, <3>4
  <2> QED BY <1>5, <2>1, <2>2, <2>3
<1>6. <<ev.trap, ev.context>> \in all
  OBVIOUS
<1> HIDE DEF ev
<1>7. ASSUME NEW i \in DOMAIN d.pending_events
      PROVE  \/ d.pending_events[i] = ev
             \/ \E j \in DOMAIN c.pending_events : d.pending_events[i] = c.pending_events[j]
  <2>1. PICK S : c.pending_events \in Seq(S)
    BY <1>2
  <2>2. /\ Len(c.pending_events) \in Nat /\ DOMAIN c.pending_events = 1..Len(c.pending_events)
        /\ DOMAIN d.pending_events = 1..(Len(c.pending_events) + 1)
        /\ d.pending_events[Len(c.pending_events) + 1] = ev
        /\ \A j \in 1..Len(c.pending_events) : d.pending_events[j] = c.pending_events[j]
    BY <1>1, <2>1
  <2> QED BY <2>2
<1> HIDE DEF all
<1>8. ASSUME NEW i \in DOMAIN d.pending_events
      PROVE  LET e == d.pending_events[i]
             IN  <<e.trap, e.context>> \in all \/ \E h : IsA(d, h, "Trap") /\ EventOf(d, h, e)
  <2>1. CASE d.pending_events[i] = ev
    BY <1>6, <2>1
  <2>2. CASE \E j \in DOMAIN c.pending_events : d.pending_events[i] = c.pending_events[j]
    <3>1. PICK j \in DOMAIN c.pending_events : d.pending_events[i] = c.pending_events[j]
      BY <2>2
    <3> DEFINE e == c.pending_events[j]
    <3>2. <<e.trap, e.context>> \in gone \/ \E h : IsA(c, h, "Trap") /\ EventOf(c, h, e)
      BY <3>1 DEF EventsIn
    <3> HIDE DEF e
    <3>3. <<e.trap, e.context>> \in all \/ \E h : IsA(d, h, "Trap") /\ EventOf(d, h, e)
      BY <1>5, <3>2
    <3> QED BY <3>1, <3>3 DEF e
  <2> QED BY <1>7, <2>1, <2>2
<1> QED BY <1>8 DEF EventsIn, all, old

(* WhpClose of a trap: what is left of the events is for other traps.      *)
LEMMA EventsClose ==
  ASSUME NEW c, NEW d, NEW h, IsA(c, h, "Trap"), TrapClosed(c, d, h), NEW gone, EventsIn(c, gone)
  PROVE  EventsIn(d, gone)
<1> DEFINE contexts == {c.slots[h].obj.triggers[i].context : i \in DOMAIN c.slots[h].obj.triggers}
<1>1. \A k, e : IsA(c, k, "Trap") /\ k # h /\ EventOf(c, k, e) => IsA(d, k, "Trap") /\ EventOf(d, k, e)
  BY DEF TrapClosed, EventOf
<1>2. \A e : EventOf(c, h, e) => e.context \in contexts
  BY DEF EventOf
<1>3. \A i \in DOMAIN d.pending_events :
        \/ \E j \in DOMAIN c.pending_events :
             c.pending_events[j].context \notin contexts /\ d.pending_events[i] = c.pending_events[j]
        \/ \E k : IsA(c, k, "Trap") /\ k # h /\ EventOf(c, k, d.pending_events[i])
  BY DEF TrapClosed
<1> HIDE DEF contexts
<1> QED BY <1>1, <1>2, <1>3 DEF EventsIn

(* Every step keeps the events for removed triggers or for live traps.     *)
LEMMA EventsPlain ==
  ASSUME NEW c, NEW d, Typed(c), PlainStep(c, d), NEW gone, EventsIn(c, gone)
  PROVE  EventsIn(d, gone)
<1>1. CASE CalmStep(c, d)
  BY <1>1, EventsCalm DEF CalmStep, Calm
<1>2. CASE PipeStep(c, d)
  <2>1. PICK n0, n1 : PipeMade(c, d, n0, n1)
    BY <1>2 DEF PipeStep
  <2>2. SameTrapObjects(c, d)
    BY <2>1 DEF PipeMade, SameTrapObjects, IsA, Lookup
  <2> QED BY <2>1, <2>2, EventsCalm DEF PipeMade
<1>3. CASE CollectStep(c, d) \/ AcceptStep(c, d)
  BY <1>3, EventsFrame DEF CollectStep, AcceptStep, Collecting
<1>4. CASE FuseStep(c, d)
  BY <1>4, EventsFrame DEF FuseStep, Fused
<1>5. CASE TrapStep(c, d)
  <2>1. PICK n : TrapMade(c, d, n)
    BY <1>5 DEF TrapStep
  <2>2. \A h, e : IsA(c, h, "Trap") /\ EventOf(c, h, e) => IsA(d, h, "Trap") /\ EventOf(d, h, e)
    BY <2>1 DEF TrapMade, EventOf
  <2> QED BY <2>1, <2>2, EventsSame DEF TrapMade
<1>6. CASE AddStep(c, d)
  <2>1. PICK th, new :
          /\ IsA(c, th, "Trap") /\ d.pending_events = c.pending_events
          /\ TrapChanged(c, d, th, [c.slots[th].obj EXCEPT !.triggers = Append(@, new)])
    BY <1>6, Zenon DEF AddStep
  <2> DEFINE old == c.slots[th].obj
             o   == [old EXCEPT !.triggers = Append(@, new)]
  <2>2. TrapObject(old)
    BY <2>1 DEF Typed, SlotTyped, IsA, Lookup
  <2>3. TrapChanged(c, d, th, o)
    BY <2>1
  <2> HIDE DEF old
  <2>4. o.id = old.id /\ o.triggers = Append(old.triggers, new)
    BY <2>2 DEF TrapObject, TrapFields
  <2> HIDE DEF o
  <2>5. PICK S : old.triggers \in Seq(S)
    BY <2>2 DEF TrapObject
  <2>6. \A i \in DOMAIN old.triggers : i \in DOMAIN o.triggers /\ o.triggers[i] = old.triggers[i]
    BY <2>4, <2>5
  <2>7. \A i \in DOMAIN c.slots[th].obj.triggers :
          \E j \in DOMAIN o.triggers : o.triggers[j] = c.slots[th].obj.triggers[i]
    BY <2>6 DEF old
  <2> QED BY <2>1, <2>3, <2>4, <2>7, EventsTrapChanged DEF old
<1>7. CASE ArmStep(c, d)
  <2>1. PICK th :
          /\ IsA(c, th, "Trap") /\ d.pending_events = c.pending_events
          /\ TrapChanged(c, d, th, [c.slots[th].obj EXCEPT !.armed = TRUE])
    BY <1>7, Zenon DEF ArmStep
  <2> DEFINE o   == [c.slots[th].obj EXCEPT !.armed = TRUE]
  <2>2. TrapObject(c.slots[th].obj)
    BY <2>1 DEF Typed, SlotTyped, IsA, Lookup
  <2>3. o.id = c.slots[th].obj.id /\ o.triggers = c.slots[th].obj.triggers
    BY <2>2 DEF TrapObject, TrapFields
  <2>4. TrapChanged(c, d, th, o)
    BY <2>1
  <2> HIDE DEF o
  <2> QED BY <2>1, <2>3, <2>4, EventsTrapChanged
<1>8. CASE ClosePipeStep(c, d)
  BY <1>8, EventsFrame DEF ClosePipeStep, Collecting
<1>9. CASE CloseTrapStep(c, d)
  BY <1>9, EventsClose DEF CloseTrapStep
<1>10. CASE TakeStep(c, d)
  BY <1>10 DEF TakeStep, EventsIn
<1> QED BY <1>1, <1>2, <1>3, <1>4, <1>5, <1>6, <1>7, <1>8, <1>9, <1>10 DEF PlainStep

(* WhpClose drops the queued events of the trap it closes: an event that   *)
(* WhpPumpEvents will deliver is for a live trap, unless it is for a       *)
(* trigger that WhpRemoveTrigger had taken off.  The inductive invariant   *)
(* says that such an event carries the context of a trigger the live trap  *)
(* still has, without which the purge by contexts would miss it.           *)
THEOREM NoEventOutlivesTrapTheorem == Spec => []NoEventOutlivesTrap
<1> DEFINE Inv == Typed(core) /\ EventsIn(core, removed)
<1>1. Init => Inv
  <2>1. Init => EventsIn(core, removed)
    BY DEF Init, InitCore, EventsIn
  <2> QED BY <2>1, TypedInit
<1>2. Inv /\ [Next]_vars => Inv'
  <2> SUFFICES ASSUME Inv, [Next]_vars PROVE Typed(core') /\ EventsIn(core', removed')
    OBVIOUS
  <2>1. Step
    BY NextSteps
  <2>2. Typed(core')
    BY <2>1, TypedStep
  <2>3. CASE PlainStep(core, core') /\ UNCHANGED <<read, removed>>
    BY <2>2, <2>3, EventsPlain
  <2>4. ASSUME NEW h, ReadStep(core, core', h), UNCHANGED removed
        PROVE  EventsIn(core', removed')
    BY <2>4, EventsCalm DEF ReadStep, Calm
  <2>5. ASSUME NEW th, NEW context, RemoveStep(core, core', th, context),
               removed' = removed \cup {<<core.slots[th].obj.id, context>>}
        PROVE  EventsIn(core', removed')
    BY <2>5, EventsRemove
  <2> QED BY <2>1, <2>2, <2>3, <2>4, <2>5 DEF Step
<1>3. Inv => NoEventOutlivesTrap
  <2> SUFFICES ASSUME Inv PROVE NoEventOutlivesTrap
    OBVIOUS
  <2>1. TrapsRegistered
    BY DEF TrapsRegistered, Typed, TrapList, Handles
  <2>2. \A h : IsA(core, h, "Trap") => core.slots[h].obj.id \in LiveTraps
    BY DEF LiveTraps, Handles, IsA, Lookup
  <2> QED BY <2>1, <2>2 DEF NoEventOutlivesTrap, EventsIn, EventOf
<1> QED BY <1>1, <1>2, <1>3, PTL DEF Spec

-----------------------------------------------------------------------------
(* Signals and the triggers that wait for them.                            *)

\* Trigger t, in a core with n pipe states, waits for something, and not for
\* an end of a pipe that is yet to be created.
SoundTrigger(n, t) ==
  /\ t.signals # {}
  /\ \A p \in Nat, e \in 0..1 : p > n => t.obj # <<p, e>>

Watches(c) ==
  \A th : IsA(c, th, "Trap") =>
    \A i \in DOMAIN c.slots[th].obj.triggers : SoundTrigger(Len(c.pipes), c.slots[th].obj.triggers[i])

\* Trigger t has missed no signal.
Waits(c, t) ==
  /\ t.condition = "SATISFIED" /\ ~t.late /\ c.slots[t.watched].obj.id = t.obj
  => ~TriggerMatches(c, t)

\* NoMissedSignal of core c.
NoMissed(c) ==
  \A th : IsA(c, th, "Trap") /\ c.slots[th].obj.armed =>
    \A i \in DOMAIN c.slots[th].obj.triggers : Waits(c, c.slots[th].obj.triggers[i])

\* No pipe end of c has more signals satisfied in d; the others are new.
Quiet(c, d) ==
  \A h : IsA(d, h, "MessagePipe") =>
    \/ /\ IsA(c, h, "MessagePipe") /\ d.slots[h].obj.id = c.slots[h].obj.id
       /\ PipeSignals(d, d.slots[h].obj).satisfied \subseteq PipeSignals(c, c.slots[h].obj).satisfied
    \/ \E e \in 0..1 : d.slots[h].obj.id = <<Len(c.pipes) + 1, e>>

(* A trigger that waits goes on waiting.                                   *)
LEMMA WaitsOn ==
  ASSUME NEW c, NEW d, Quiet(c, d), Len(c.pipes) \in Nat,
         NEW t, SoundTrigger(Len(c.pipes), t), Waits(c, t)
  PROVE  Waits(d, t)
<1> SUFFICES ASSUME t.condition = "SATISFIED", ~t.late, d.slots[t.watched].obj.id = t.obj
             PROVE  ~(t.signals \subseteq QueryLocked(d, t.watched).satisfied)
  BY DEF Waits, TriggerMatches, SignalsMatch
<1> DEFINE h == t.watched
<1>1. CASE ~IsA(d, h, "MessagePipe")
  <2>1. QueryLocked(d, h).satisfied = {}
    BY <1>1 DEF QueryLocked, NoSignals
  <2> QED BY <2>1 DEF SoundTrigger
<1>2. CASE IsA(d, h, "MessagePipe")
  <2>1. ~ \E e \in 0..1 : d.slots[h].obj.id = <<Len(c.pipes) + 1, e>>
    <3>1. Len(c.pipes) + 1 \in Nat /\ Len(c.pipes) + 1 > Len(c.pipes)
      OBVIOUS
    <3> QED BY <3>1 DEF SoundTrigger
  <2>2. /\ IsA(c, h, "MessagePipe") /\ d.slots[h].obj.id = c.slots[h].obj.id
        /\ PipeSignals(d, d.slots[h].obj).satisfied \subseteq PipeSignals(c, c.slots[h].obj).satisfied
    BY <1>2, <2>1 DEF Quiet
  <2>3. ~(t.signals \subseteq QueryLocked(c, h).satisfied)
    BY <2>2 DEF Waits, TriggerMatches, SignalsMatch
  <2> QED BY <1>2, <2>2, <2>3 DEF QueryLocked
<1> QED BY <1>1, <1>2

(* Each trigger of an armed trap is late, or was there and waiting.        *)
LEMMA NoMissedKept ==
  ASSUME NEW c, NEW d, Quiet(c, d), Len(c.pipes) \in Nat, Watches(c),
         \A th : IsA(d, th, "Trap") /\ d.slots[th].obj.armed =>
           \A i \in DOMAIN d.slots[th].obj.triggers :
             \/ d.slots[th].obj.triggers[i].late
             \/ /\ IsA(c, th, "Trap")
                /\ \E j \in DOMAIN c.slots[th].obj.triggers :
                     /\ d.slots[th].obj.triggers[i] = c.slots[th].obj.triggers[j]
                     /\ Waits(c, c.slots[th].obj.triggers[j])
  PROVE  NoMissed(d)
<1> SUFFICES ASSUME NEW th, IsA(d, th, "Trap"), d.slots[th].obj.armed,
                    NEW i \in DOMAIN d.slots[th].obj.triggers
             PROVE  Waits(d, d.slots[th].obj.triggers[i])
  BY DEF NoMissed
<1> DEFINE t == d.slots[th].obj.triggers[i]
<1>1. CASE t.late
  BY <1>1 DEF Waits
<1>2. CASE ~t.late
  <2>1. /\ IsA(c, th, "Trap")
        /\ \E j \in DOMAIN c.slots[th].obj.triggers :
             t = c.slots[th].obj.triggers[j] /\ Waits(c, c.slots[th].obj.triggers[j])
    BY <1>2
  <2>2. PICK j \in DOMAIN c.slots[th].obj.triggers :
          t = c.slots[th].obj.triggers[j] /\ Waits(c, c.slots[th].obj.triggers[j])
    BY <2>1
  <2> HIDE DEF t
  <2>3. SoundTrigger(Len(c.pipes), t) /\ Waits(c, t)
    BY <2>1, <2>2 DEF Watches
  <2>4. Waits(d, t)
    BY <2>3, WaitsOn
  <2> QED BY <2>4 DEF t
<1> QED BY <1>1, <1>2

(* The traps that a calm operation leaves as they are.                     *)
LEMMA NoMissedCalm ==
  ASSUME NEW c, NEW d, Quiet(c, d), Len(c.pipes) \in Nat, Watches(c), NoMissed(c),
         SameTrapObjects(c, d)
  PROVE  NoMissed(d)
<1>1. ASSUME NEW th, IsA(d, th, "Trap"), d.slots[th].obj.armed,
             NEW i \in DOMAIN d.slots[th].obj.triggers
      PROVE  /\ IsA(c, th, "Trap")
             /\ \E j \in DOMAIN c.slots[th].obj.triggers :
                  /\ d.slots[th].obj.triggers[i] = c.slots[th].obj.triggers[j]
                  /\ Waits(c, c.slots[th].obj.triggers[j])
  BY <1>1 DEF SameTrapObjects, NoMissed
<1> QED BY <1>1, NoMissedKept

(* After CollectTrapEvents nothing is missed.                              *)
LEMMA NoMissedSettled ==
  ASSUME NEW c, Settled(c)
  PROVE  NoMissed(c)
BY DEF Settled, NoMissed, Matching, Waits

(* The triggers stay sound when traps and triggers only go.                *)
LEMMA WatchesKept ==
  ASSUME NEW c, NEW d, Watches(c), Len(c.pipes) \in Nat, Len(d.pipes) \in Nat,
         Len(d.pipes) >= Len(c.pipes),
         \A th : IsA(d, th, "Trap") =>
           \A i \in DOMAIN d.slots[th].obj.triggers :
             \/ SoundTrigger(Len(d.pipes), d.slots[th].obj.triggers[i])
             \/ /\ IsA(c, th, "Trap")
                /\ \E j \in DOMAIN c.slots[th].obj.triggers :
                     d.slots[th].obj.triggers[i] = c.slots[th].obj.triggers[j]
  PROVE  Watches(d)
<1>1. \A t : SoundTrigger(Len(c.pipes), t) => SoundTrigger(Len(d.pipes), t)
  BY DEF SoundTrigger
<1> QED BY <1>1 DEF Watches

(* The same ends of pipes with the same queues and flags.                  *)
LEMMA QuietSame ==
  ASSUME NEW c, NEW d, SameEnds(c, d, {}), Typed(c), SamePipes(c, d)
  PROVE  Quiet(c, d)
<1> SUFFICES ASSUME NEW h, IsA(d, h, "MessagePipe")
             PROVE  /\ IsA(c, h, "MessagePipe") /\ d.slots[h].obj = c.slots[h].obj
                    /\ PipeSignals(d, c.slots[h].obj) = PipeSignals(c, c.slots[h].obj)
  BY DEF Quiet
<1>1. IsA(c, h, "MessagePipe") /\ d.slots[h].obj = c.slots[h].obj
  BY DEF SameEnds
<1>2. c.slots[h].obj \in EndObjects(Len(c.pipes)) /\ c.pipes \in Seq(PipeStates)
  BY <1>1 DEF Typed, IsA, Lookup, SlotTyped
<1>3. c.slots[h].obj.state \in DOMAIN c.pipes
  BY <1>2 DEF EndObjects
<1> QED BY <1>1, <1>3 DEF PipeSignals, SamePipes

(* The front of a queue is read.                                           *)
LEMMA QuietRead ==
  ASSUME NEW c, NEW d, Typed(c), NEW k, ReadStep(c, d, k)
  PROVE  Quiet(c, d)
<1> SUFFICES ASSUME NEW h, IsA(d, h, "MessagePipe")
             PROVE  /\ IsA(c, h, "MessagePipe") /\ d.slots[h].obj = c.slots[h].obj
                    /\ PipeSignals(d, c.slots[h].obj).satisfied
                          \subseteq PipeSignals(c, c.slots[h].obj).satisfied
  BY DEF Quiet
<1> DEFINE o == c.slots[h].obj
           q == Inbound(c, k)
<1>1. IsA(c, h, "MessagePipe") /\ d.slots[h].obj = o
  BY DEF ReadStep, Calm, SameEnds
<1>2. o \in EndObjects(Len(c.pipes)) /\ c.pipes \in Seq(PipeStates)
  BY <1>1 DEF Typed, IsA, Lookup, SlotTyped
<1>3. o.state \in DOMAIN c.pipes /\ o.end \in 0..1
  BY <1>2 DEF EndObjects
<1> HIDE DEF o
<1>4. /\ d.pipes[o.state].closed = c.pipes[o.state].closed
      /\ \/ d.pipes[o.state].queues[o.end] = c.pipes[o.state].queues[o.end]
         \/ d.pipes[o.state].queues[o.end] = Tail(q) /\ c.pipes[o.state].queues[o.end] = q /\ q # <<>>
  BY <1>3 DEF ReadStep, QueueSet, Inbound, Outbound
<1>5. d.pipes[o.state].queues[o.end] # <<>> => c.pipes[o.state].queues[o.end] # <<>>
  BY <1>4
<1>6. PipeSignals(d, o).satisfied \subseteq PipeSignals(c, o).satisfied
  BY <1>4, <1>5 DEF PipeSignals
<1> QED BY <1>1, <1>6 DEF o

(* The same triggers, and no fewer pipe states.                            *)
LEMMA WatchesSame ==
  ASSUME NEW c, NEW d, Typed(c), Typed(d), Watches(c), DOMAIN c.pipes \subseteq DOMAIN d.pipes,
         SameTraps(c, d) \/ SameTrapObjects(c, d)
  PROVE  Watches(d)
<1>1. Len(c.pipes) \in Nat /\ Len(d.pipes) \in Nat /\ Len(d.pipes) >= Len(c.pipes)
  <2>1. /\ Len(c.pipes) \in Nat /\ DOMAIN c.pipes = 1..Len(c.pipes)
        /\ Len(d.pipes) \in Nat /\ DOMAIN d.pipes = 1..Len(d.pipes)
    BY DEF Typed
  <2>2. Len(c.pipes) = 0 \/ Len(c.pipes) \in DOMAIN d.pipes
    BY <2>1
  <2> QED BY <2>1, <2>2
<1>2. ASSUME NEW th, IsA(d, th, "Trap"), NEW i \in DOMAIN d.slots[th].obj.triggers
      PROVE  /\ IsA(c, th, "Trap")
             /\ \E j \in DOMAIN c.slots[th].obj.triggers :
                  d.slots[th].obj.triggers[i] = c.slots[th].obj.triggers[j]
  BY <1>2 DEF SameTraps, SameTrapObjects
<1> QED BY <1>1, <1>2, WatchesKept

(* A new trigger on a live handle waits for an object there is.            *)
LEMMA NewTriggerSound ==
  ASSUME NEW c, Typed(c), NEW t, t.signals # {}, Lookup(c, t.watched),
         t.obj = c.slots[t.watched].obj.id
  PROVE  SoundTrigger(Len(c.pipes), t)
<1> DEFINE h == t.watched
           n == Len(c.pipes)
<1>1. h \in DOMAIN c.slots /\ SlotTyped(n, c.slots[h]) /\ n \in Nat
  BY DEF Typed, Lookup
<1>2. c.slots[h].kind \in {"MessagePipe", "Message", "Trap"}
  BY <1>1 DEF SlotTyped, Lookup, Kinds
<1>3. CASE c.slots[h].kind = "MessagePipe"
  <2>1. t.obj \in (1..n) \X (0..1)
    BY <1>1, <1>3 DEF SlotTyped, EndObjects
  <2>2. \A p, e : <<p, e>> = t.obj => p <= n
    BY <1>1, <2>1
  <2> QED BY <1>1, <2>2 DEF SoundTrigger
<1>4. CASE c.slots[h].kind = "Message"
  <2>1. t.obj \in MsgIds
    BY <1>1, <1>4 DEF SlotTyped, Msgs
  <2>2. \A k, p, e : <<k>> # <<p, e>>
    OBVIOUS
  <2> QED BY <1>1, <2>1, <2>2 DEF SoundTrigger, MsgIds
<1>5. CASE c.slots[h].kind = "Trap"
  <2>1. t.obj \in {0} \X Nat
    BY <1>1, <1>5 DEF SlotTyped, TrapObject
  <2>2. \A p, e : <<p, e>> = t.obj => p = 0
    BY <2>1
  <2> QED BY <1>1, <2>2 DEF SoundTrigger
<1> QED BY <1>2, <1>3, <1>4, <1>5

(* Every step keeps the triggers of armed traps waiting.                   *)
LEMMA SignalsPlain ==
  ASSUME NEW c, NEW d, Typed(c), Typed(d), PlainStep(c, d), Watches(c), NoMissed(c)
  PROVE  Watches(d) /\ NoMissed(d)
<1>0. /\ Len(c.pipes) \in Nat /\ DOMAIN c.pipes = 1..Len(c.pipes)
      /\ Len(d.pipes) \in Nat /\ DOMAIN d.pipes = 1..Len(d.pipes)
  BY DEF Typed
<1>1. CASE CalmStep(c, d)
  BY <1>0, <1>1, QuietSame, NoMissedCalm, WatchesSame DEF CalmStep, Calm, SamePipes
<1>2. CASE PipeStep(c, d)
  <2>1. PICK n0, n1 : PipeMade(c, d, n0, n1)
    BY <1>2 DEF PipeStep
  <2>2. SameTrapObjects(c, d)
    BY <2>1 DEF PipeMade, SameTrapObjects, IsA, Lookup
  <2>3. d.pipes = Append(c.pipes, NewPipeState) /\ c.pipes \in Seq(PipeStates)
    BY <2>1 DEF PipeMade, Typed
  <2>4. DOMAIN c.pipes \subseteq DOMAIN d.pipes /\ \A p \in DOMAIN c.pipes : d.pipes[p] = c.pipes[p]
    BY <2>3
  <2>5. ASSUME NEW h, IsA(d, h, "MessagePipe")
        PROVE  \/ /\ IsA(c, h, "MessagePipe") /\ d.slots[h].obj.id = c.slots[h].obj.id
                  /\ PipeSignals(d, d.slots[h].obj).satisfied
                        \subseteq PipeSignals(c, c.slots[h].obj).satisfied
               \/ \E e \in 0..1 : d.slots[h].obj.id = <<Len(c.pipes) + 1, e>>
    <3>1. CASE h \in {n0, n1}
      BY <2>1, <3>1 DEF PipeMade, PipeEnd
    <3>2. CASE h \notin {n0, n1}
      <4>1. IsA(c, h, "MessagePipe") /\ d.slots[h] = c.slots[h]
        BY <2>1, <2>5, <3>2 DEF PipeMade, IsA, Lookup
      <4>2. c.slots[h].obj \in EndObjects(Len(c.pipes))
        BY <4>1 DEF Typed, IsA, Lookup, SlotTyped
      <4>3. c.slots[h].obj.state \in DOMAIN c.pipes
        BY <1>0, <4>2 DEF EndObjects
      <4> QED BY <2>4, <4>1, <4>3 DEF PipeSignals
    <3> QED BY <3>1, <3>2
  <2>6. Quiet(c, d)
    BY <2>5 DEF Quiet
  <2> QED BY <1>0, <2>2, <2>4, <2>6, NoMissedCalm, WatchesSame
<1>3. CASE CollectStep(c, d)
  BY <1>3, NoMissedSettled, WatchesSame DEF CollectStep, Collecting
<1>4. CASE AcceptStep(c, d)
  <2>1. DOMAIN d.pipes = DOMAIN c.pipes
    BY <1>4 DEF AcceptStep, Accepted, QueueSet
  <2> QED BY <1>4, <2>1, NoMissedSettled, WatchesSame DEF AcceptStep, Collecting
<1>5. CASE FuseStep(c, d)
  <2>1. PICK h0, h1, k0, k1 : Fused(c, d, h0, h1, k0, k1)
    BY <1>5 DEF FuseStep
  <2>2. DOMAIN c.pipes \subseteq DOMAIN d.pipes
    <3>1. FusedPipes(c, d, h0, h1)
      BY <2>1 DEF Fused
    <3>2. DOMAIN d.pipes = 1..(Len(c.pipes) + 1)
      BY <3>1 DEF FusedPipes, Spliced
    <3> QED BY <1>0, <3>2
  <2>3. Settled(d) /\ SameTraps(c, d)
    BY <2>1 DEF Fused
  <2> QED BY <2>2, <2>3, NoMissedSettled, WatchesSame
<1>6. CASE TrapStep(c, d)
  <2>1. PICK n : TrapMade(c, d, n)
    BY <1>6 DEF TrapStep
  <2>2. ASSUME NEW th, IsA(d, th, "Trap"), NEW i \in DOMAIN d.slots[th].obj.triggers
        PROVE  /\ IsA(c, th, "Trap") /\ d.slots[th].obj = c.slots[th].obj
    <3>1. CASE th = n
      <4>1. DOMAIN d.slots[th].obj.triggers = {}
        BY <2>1, <3>1 DEF TrapMade
      <4> QED BY <2>2, <4>1
    <3>2. CASE th # n
      BY <2>1, <2>2, <3>2 DEF TrapMade
    <3> QED BY <3>1, <3>2
  <2>3. Quiet(c, d)
    BY <2>1, QuietSame DEF TrapMade, SamePipes
  <2>4. Watches(d)
    BY <1>0, <2>1, <2>2, WatchesKept DEF TrapMade
  <2>5. NoMissed(d)
    BY <1>0, <2>2, <2>3, NoMissedKept DEF NoMissed
  <2> QED BY <2>4, <2>5
<1>7. CASE AddStep(c, d)
  <2>1. PICK th, new :
          /\ IsA(c, th, "Trap")
          /\ new.signals # {} /\ Lookup(c, new.watched) /\ new.obj = c.slots[new.watched].obj.id
          /\ new.late = c.slots[th].obj.armed
          /\ TrapChanged(c, d, th, [c.slots[th].obj EXCEPT !.triggers = Append(@, new)])
    BY <1>7, Zenon DEF AddStep
  <2> DEFINE old == c.slots[th].obj
             o   == [old EXCEPT !.triggers = Append(@, new)]
  <2>2. TrapObject(old)
    BY <2>1 DEF Typed, SlotTyped, IsA, Lookup
  <2>3. TrapChanged(c, d, th, o)
    BY <2>1
  <2>4. new.late = old.armed /\ SoundTrigger(Len(c.pipes), new)
    BY <2>1, NewTriggerSound
  <2> HIDE DEF old
  <2>5. o.armed = old.armed /\ o.triggers = Append(old.triggers, new)
    BY <2>2 DEF TrapObject, TrapFields
  <2> HIDE DEF o
  <2>6. PICK S : old.triggers \in Seq(S)
    BY <2>2 DEF TrapObject
  <2>7. \A i \in DOMAIN o.triggers :
          o.triggers[i] = new \/ \E j \in DOMAIN old.triggers : o.triggers[i] = old.triggers[j]
    BY <2>5, <2>6
  <2>8. d.slots[th].obj = o /\ d.pipes = c.pipes /\ SameEnds(c, d, {})
    BY <2>3 DEF TrapChanged
  <2>9. \A x : IsA(d, x, "Trap") => IsA(c, x, "Trap") /\ (x # th => d.slots[x].obj = c.slots[x].obj)
    BY <2>3 DEF TrapChanged
  <2>10. Quiet(c, d)
    BY <2>8, QuietSame DEF SamePipes
  <2>11. ASSUME NEW x, IsA(d, x, "Trap"), NEW i \in DOMAIN d.slots[x].obj.triggers
         PROVE  \/ /\ x = th /\ d.slots[x].obj.triggers[i] = new
                \/ \E j \in DOMAIN c.slots[x].obj.triggers :
                     d.slots[x].obj.triggers[i] = c.slots[x].obj.triggers[j]
    BY <2>7, <2>8, <2>9, <2>11 DEF old
  <2>12. Watches(d)
    <3>1. Len(d.pipes) = Len(c.pipes)
      BY <2>8
    <3>2. ASSUME NEW x, IsA(d, x, "Trap"), NEW i \in DOMAIN d.slots[x].obj.triggers
          PROVE  \/ SoundTrigger(Len(d.pipes), d.slots[x].obj.triggers[i])
                 \/ /\ IsA(c, x, "Trap")
                    /\ \E j \in DOMAIN c.slots[x].obj.triggers :
                         d.slots[x].obj.triggers[i] = c.slots[x].obj.triggers[j]
      BY <2>4, <2>9, <2>11, <3>1, <3>2
    <3>3. Len(d.pipes) \in Nat /\ Len(d.pipes) >= Len(c.pipes)
      BY <1>0, <3>1
    <3>4. \A x : IsA(d, x, "Trap") =>
            \A i \in DOMAIN d.slots[x].obj.triggers :
              \/ SoundTrigger(Len(d.pipes), d.slots[x].obj.triggers[i])
              \/ /\ IsA(c, x, "Trap")
                 /\ \E j \in DOMAIN c.slots[x].obj.triggers :
                      d.slots[x].obj.triggers[i] = c.slots[x].obj.triggers[j]
      BY <3>2
    <3> QED BY <1>0, <3>3, <3>4, WatchesKept
  <2>13. ASSUME NEW x, IsA(d, x, "Trap"), d.slots[x].obj.armed,
                NEW i \in DOMAIN d.slots[x].obj.triggers
         PROVE  \/ d.slots[x].obj.triggers[i].late
                \/ /\ IsA(c, x, "Trap")
                   /\ \E j \in DOMAIN c.slots[x].obj.triggers :
                        /\ d.slots[x].obj.triggers[i] = c.slots[x].obj.triggers[j]
                        /\ Waits(c, c.slots[x].obj.triggers[j])
    <3>1. IsA(c, x, "Trap") /\ c.slots[x].obj.armed
      BY <2>5, <2>8, <2>9, <2>13 DEF old
    <3>2. CASE x = th /\ d.slots[x].obj.triggers[i] = new
      BY <2>4, <3>1, <3>2 DEF old
    <3>3. CASE \E j \in DOMAIN c.slots[x].obj.triggers :
                 d.slots[x].obj.triggers[i] = c.slots[x].obj.triggers[j]
      BY <3>1, <3>3 DEF NoMissed
    <3> QED BY <2>11, <2>13, <3>2, <3>3
  <2>14. NoMissed(d)
    BY <1>0, <2>10, <2>13, NoMissedKept
  <2> QED BY <2>12, <2>14
<1>8. CASE ArmStep(c, d)
  <2>1. PICK th :
          /\ IsA(c, th, "Trap") /\ Matching(c, c.slots[th].obj) = {}
          /\ TrapChanged(c, d, th, [c.slots[th].obj EXCEPT !.armed = TRUE])
    BY <1>8, Zenon DEF ArmStep
  <2> DEFINE o == [c.slots[th].obj EXCEPT !.armed = TRUE]
  <2>2. TrapObject(c.slots[th].obj)
    BY <2>1 DEF Typed, SlotTyped, IsA, Lookup
  <2>3. o.triggers = c.slots[th].obj.triggers
    BY <2>2 DEF TrapObject, TrapFields
  <2>4. TrapChanged(c, d, th, o)
    BY <2>1
  <2> HIDE DEF o
  <2>5. /\ d.slots[th].obj.triggers = c.slots[th].obj.triggers /\ d.pipes = c.pipes
        /\ SameEnds(c, d, {})
    BY <2>3, <2>4 DEF TrapChanged
  <2>6. \A x : IsA(d, x, "Trap") => IsA(c, x, "Trap") /\ (x # th => d.slots[x].obj = c.slots[x].obj)
    BY <2>4 DEF TrapChanged
  <2>7. Quiet(c, d)
    BY <2>5, QuietSame DEF SamePipes
  <2>8. \A x : IsA(d, x, "Trap") =>
          IsA(c, x, "Trap") /\ d.slots[x].obj.triggers = c.slots[x].obj.triggers
    BY <2>5, <2>6
  <2>9. Watches(d)
    BY <1>0, <2>5, <2>8, WatchesKept
  <2>10. ASSUME NEW x, IsA(d, x, "Trap"), d.slots[x].obj.armed,
                NEW i \in DOMAIN c.slots[x].obj.triggers
         PROVE  Waits(c, c.slots[x].obj.triggers[i])
    <3>1. CASE x = th
      BY <2>1, <2>10, <3>1 DEF Matching, Waits
    <3>2. CASE x # th
      BY <2>6, <2>10, <3>2 DEF NoMissed
    <3> QED BY <3>1, <3>2
  <2>11. NoMissed(d)
    BY <1>0, <2>7, <2>8, <2>10, NoMissedKept
  <2> QED BY <2>9, <2>11
<1>9. CASE ClosePipeStep(c, d)
  <2>1. DOMAIN d.pipes = DOMAIN c.pipes
    BY <1>9 DEF ClosePipeStep, EndClosed
  <2> QED BY <1>9, <2>1, NoMissedSettled, WatchesSame DEF ClosePipeStep, Collecting
<1>10. CASE CloseTrapStep(c, d)
  <2>1. PICK h : TrapClosed(c, d, h)
    BY <1>10 DEF CloseTrapStep
  <2>2. Settled(d) /\ d.pipes = c.pipes
    BY <2>1 DEF TrapClosed
  <2>3. \A x : IsA(d, x, "Trap") =>
          IsA(c, x, "Trap") /\ d.slots[x].obj.triggers = c.slots[x].obj.triggers
    BY <2>1 DEF TrapClosed
  <2>4. Watches(d)
    BY <1>0, <2>2, <2>3, WatchesKept
  <2> QED BY <2>2, <2>4, NoMissedSettled
<1>11. CASE TakeStep(c, d)
  <2>1. Quiet(c, d)
    BY <1>11, QuietSame DEF TakeStep, SamePipes
  <2> QED BY <1>0, <1>11, <2>1, NoMissedCalm, WatchesSame DEF TakeStep
<1> QED BY <1>1, <1>2, <1>3, <1>4, <1>5, <1>6, <1>7, <1>8, <1>9, <1>10, <1>11 DEF PlainStep

(* WhpRemoveTrigger takes triggers off a trap and leaves the others.       *)
LEMMA SignalsRemove ==
  ASSUME NEW c, NEW d, Typed(c), Typed(d), NEW th, NEW context, RemoveStep(c, d, th, context),
         Watches(c), NoMissed(c)
  PROVE  Watches(d) /\ NoMissed(d)
<1> DEFINE old  == c.slots[th].obj
           K    == {i \in DOMAIN old.triggers : old.triggers[i].context # context}
           left == KeepAt(old.triggers, K)
<1>1. IsA(c, th, "Trap") /\ TrapChanged(c, d, th, [old EXCEPT !.triggers = left])
  BY Zenon DEF RemoveStep
<1>2. TrapObject(old) /\ Len(c.pipes) \in Nat
  BY <1>1 DEF Typed, SlotTyped, IsA, Lookup
<1> HIDE DEF old
<1>3. Kept(left, old.triggers, K)
  <2>1. PICK S : old.triggers \in Seq(S)
    BY <1>2 DEF TrapObject
  <2> HIDE DEF K
  <2> QED BY <2>1, KeepAtElements
<1> HIDE DEF left, K
<1>4. /\ d.slots[th].obj.armed = old.armed /\ d.slots[th].obj.triggers = left
      /\ d.pipes = c.pipes /\ SameEnds(c, d, {})
  BY <1>1, <1>2 DEF TrapChanged, TrapObject, TrapFields
<1>5. \A x : IsA(d, x, "Trap") => IsA(c, x, "Trap") /\ (x # th => d.slots[x].obj = c.slots[x].obj)
  BY <1>1 DEF TrapChanged
<1>6. Quiet(c, d)
  BY <1>4, QuietSame DEF SamePipes
<1>7. ASSUME NEW x, IsA(d, x, "Trap"), NEW i \in DOMAIN d.slots[x].obj.triggers
      PROVE  /\ IsA(c, x, "Trap") /\ d.slots[x].obj.armed = c.slots[x].obj.armed
             /\ \E j \in DOMAIN c.slots[x].obj.triggers :
                  d.slots[x].obj.triggers[i] = c.slots[x].obj.triggers[j]
  <2>1. CASE x = th
    BY <1>1, <1>3, <1>4, <1>7, <2>1 DEF Kept, old
  <2>2. CASE x # th
    BY <1>5, <1>7, <2>2
  <2> QED BY <2>1, <2>2
<1>8. Watches(d)
  BY <1>2, <1>4, <1>7, WatchesKept
<1>9. ASSUME NEW x, IsA(d, x, "Trap"), d.slots[x].obj.armed,
             NEW i \in DOMAIN d.slots[x].obj.triggers
      PROVE  /\ IsA(c, x, "Trap")
             /\ \E j \in DOMAIN c.slots[x].obj.triggers :
                  /\ d.slots[x].obj.triggers[i] = c.slots[x].obj.triggers[j]
                  /\ Waits(c, c.slots[x].obj.triggers[j])
  BY <1>7, <1>9 DEF NoMissed
<1>10. NoMissed(d)
  BY <1>2, <1>6, <1>9, NoMissedKept
<1> QED BY <1>8, <1>10

(* CollectTrapEvents, in every operation that can satisfy a signal, misses *)
(* nothing: a trap that is armed has no trigger, added before it was armed *)
(* and still on the object it was added for, that is satisfied.  The       *)
(* inductive invariant adds that a trigger waits for at least one signal   *)
(* and not for an end that is yet to be created, for a reused handle would *)
(* else make it match unnoticed.                                           *)
THEOREM NoMissedSignalTheorem == Spec => []NoMissedSignal
<1> DEFINE Inv == Typed(core) /\ Watches(core) /\ NoMissed(core)
<1>1. Init => Inv
  <2>1. Init => Watches(core) /\ NoMissed(core)
    BY DEF Init, InitCore, Watches, NoMissed, IsA, Lookup
  <2> QED BY <2>1, TypedInit
<1>2. Inv /\ [Next]_vars => Inv'
  <2> SUFFICES ASSUME Inv, [Next]_vars PROVE Typed(core') /\ Watches(core') /\ NoMissed(core')
    OBVIOUS
  <2>1. Step
    BY NextSteps
  <2>2. Typed(core')
    BY <2>1, TypedStep
  <2>3. CASE PlainStep(core, core')
    BY <2>2, <2>3, SignalsPlain
  <2>4. ASSUME NEW h, ReadStep(core, core', h)
        PROVE  Watches(core') /\ NoMissed(core')
    <3>1. Quiet(core, core')
      BY <2>4, QuietRead
    <3>2. SameTrapObjects(core, core') /\ DOMAIN core'.pipes = DOMAIN core.pipes
      BY <2>4 DEF ReadStep, Calm, QueueSet
    <3>3. Len(core.pipes) \in Nat
      BY DEF Typed
    <3>4. NoMissed(core')
      BY <3>1, <3>2, <3>3, NoMissedCalm
    <3>5. Watches(core')
      BY <2>2, <3>2, WatchesSame
    <3> QED BY <3>4, <3>5
  <2>5. ASSUME NEW th, NEW context, RemoveStep(core, core', th, context)
        PROVE  Watches(core') /\ NoMissed(core')
    BY <2>2, <2>5, SignalsRemove
  <2> QED BY <2>1, <2>2, <2>3, <2>4, <2>5 DEF Step
<1>3. Inv => NoMissedSignal
  BY DEF NoMissedSignal, NoMissed, Waits
<1> QED BY <1>1, <1>2, <1>3, PTL DEF Spec

-----------------------------------------------------------------------------
(* The ends of pipes.                                                      *)

\* Handle h is end e of pipe state s.
EndAt(c, h, s, e) ==
  IsA(c, h, "MessagePipe") /\ c.slots[h].obj.state = s /\ c.slots[h].obj.end = e

OneHolder(c) == \A h, k, s, e : EndAt(c, h, s, e) /\ EndAt(c, k, s, e) => h = k

OneIdentity(c) ==
  \A h, k : /\ IsA(c, h, "MessagePipe") /\ IsA(c, k, "MessagePipe")
            /\ c.slots[h].obj.id = c.slots[k].obj.id
            => h = k

ClosedTruthful(c) ==
  \A h, s, e : EndAt(c, h, s, e) =>
    (c.pipes[s].closed[1 - e] <=> ~ \E k : EndAt(c, k, s, 1 - e))

Ends(c) == OneHolder(c) /\ OneIdentity(c) /\ ClosedTruthful(c)

(* The fields of an end are within the pipe states.                        *)
LEMMA EndTyped ==
  ASSUME NEW c, Typed(c), NEW h, IsA(c, h, "MessagePipe")
  PROVE  /\ EndAt(c, h, c.slots[h].obj.state, c.slots[h].obj.end)
         /\ Len(c.pipes) \in Nat /\ DOMAIN c.pipes = 1..Len(c.pipes)
         /\ c.slots[h].obj.state \in 1..Len(c.pipes) /\ c.slots[h].obj.end \in 0..1
         /\ c.slots[h].obj.id \in (1..Len(c.pipes)) \X (0..1)
<1>1. c.slots[h].obj \in EndObjects(Len(c.pipes))
  BY DEF Typed, IsA, Lookup, SlotTyped
<1>2. Len(c.pipes) \in Nat /\ DOMAIN c.pipes = 1..Len(c.pipes)
  BY DEF Typed
<1> QED BY <1>1, <1>2 DEF EndObjects, EndAt

(* Ends and closed flags as before.                                        *)
LEMMA EndsSame ==
  ASSUME NEW c, NEW d, Typed(c), Ends(c), SameEnds(c, d, {}),
         \A p \in DOMAIN c.pipes : d.pipes[p].closed = c.pipes[p].closed
  PROVE  Ends(d)
<1>1. \A h, s, e : EndAt(d, h, s, e) <=> EndAt(c, h, s, e)
  BY DEF SameEnds, EndAt
<1>2. OneHolder(d)
  BY <1>1 DEF Ends, OneHolder
<1>3. OneIdentity(d)
  BY DEF Ends, OneIdentity, SameEnds
<1>4. \A h, s, e : EndAt(c, h, s, e) => s \in DOMAIN c.pipes
  BY EndTyped DEF EndAt
<1>5. ClosedTruthful(d)
  BY <1>1, <1>4 DEF Ends, ClosedTruthful
<1> QED BY <1>2, <1>3, <1>5 DEF Ends

(* WhpCreateMessagePipe: the ends of the new pipe are nobody else's.       *)
LEMMA EndsPipe ==
  ASSUME NEW c, NEW d, Typed(c), Ends(c), PipeStep(c, d)
  PROVE  Ends(d)
<1> DEFINE f == Len(c.pipes) + 1
<1>1. PICK n0, n1 : PipeMade(c, d, n0, n1)
  BY DEF PipeStep
<1>0. Len(c.pipes) \in Nat /\ DOMAIN c.pipes = 1..Len(c.pipes)
  BY DEF Typed
<1>2. /\ n0 # n1 /\ ~IsA(c, n0, "MessagePipe") /\ ~IsA(c, n1, "MessagePipe")
      /\ IsA(d, n0, "MessagePipe") /\ IsA(d, n1, "MessagePipe")
      /\ d.slots[n0].obj = PipeEnd(f, 0) /\ d.slots[n1].obj = PipeEnd(f, 1)
  BY <1>1 DEF PipeMade, IsA, Lookup
<1>3. \A h : h \notin {n0, n1} => /\ IsA(d, h, "MessagePipe") <=> IsA(c, h, "MessagePipe")
                                  /\ IsA(c, h, "MessagePipe") => d.slots[h].obj = c.slots[h].obj
  BY <1>1 DEF PipeMade, IsA, Lookup
<1>4. /\ \A p \in DOMAIN c.pipes : d.pipes[p] = c.pipes[p]
      /\ d.pipes[f].closed[0] = FALSE /\ d.pipes[f].closed[1] = FALSE
  BY <1>0, <1>1 DEF PipeMade, NewPipeState, Typed
<1> HIDE DEF f
<1>5. \A h, s, e : EndAt(c, h, s, e) => s \in DOMAIN c.pipes /\ s # f /\ h \notin {n0, n1}
  BY <1>0, <1>2, EndTyped DEF EndAt, f
<1>6. \A h, s, e : EndAt(d, h, s, e) <=> \/ h = n0 /\ s = f /\ e = 0
                                         \/ h = n1 /\ s = f /\ e = 1
                                         \/ EndAt(c, h, s, e)
  BY <1>2, <1>3, <1>5 DEF EndAt, PipeEnd
<1>7. OneHolder(d)
  BY <1>2, <1>5, <1>6 DEF Ends, OneHolder
<1>8. OneIdentity(d)
  <2>1. \A h : IsA(c, h, "MessagePipe") =>
          c.slots[h].obj.id # <<f, 0>> /\ c.slots[h].obj.id # <<f, 1>>
    BY <1>0, EndTyped DEF f
  <2>2. d.slots[n0].obj.id = <<f, 0>> /\ d.slots[n1].obj.id = <<f, 1>>
    BY <1>2 DEF PipeEnd
  <2>3. \A h : IsA(d, h, "MessagePipe") =>
          h \in {n0, n1} \/ (IsA(c, h, "MessagePipe") /\ d.slots[h].obj = c.slots[h].obj)
    BY <1>3
  <2>4. <<f, 0>> # <<f, 1>>
    OBVIOUS
  <2> QED BY <2>1, <2>2, <2>3, <2>4 DEF Ends, OneIdentity
<1>9. ClosedTruthful(d)
  <2> SUFFICES ASSUME NEW h, NEW s, NEW e, EndAt(d, h, s, e)
               PROVE  d.pipes[s].closed[1 - e] <=> ~ \E k : EndAt(d, k, s, 1 - e)
    BY DEF ClosedTruthful
  <2>1. CASE h \in {n0, n1}
    <3>1. s = f /\ e \in {0, 1} /\ d.pipes[s].closed[1 - e] = FALSE
      BY <1>2, <1>4, <1>5, <1>6, <2>1
    <3>2. EndAt(d, n0, s, 0) /\ EndAt(d, n1, s, 1)
      BY <1>6, <3>1
    <3>3. EndAt(d, n0, s, 1 - e) \/ EndAt(d, n1, s, 1 - e)
      BY <3>1, <3>2
    <3> QED BY <3>1, <3>3
  <2>2. CASE EndAt(c, h, s, e)
    <3>1. s \in DOMAIN c.pipes /\ s # f
      BY <1>5, <2>2
    <3>2. \A k : EndAt(d, k, s, 1 - e) <=> EndAt(c, k, s, 1 - e)
      BY <1>6, <3>1
    <3> QED BY <1>4, <2>2, <3>1, <3>2 DEF Ends, ClosedTruthful
  <2> QED BY <1>6, <2>1, <2>2
<1> QED BY <1>7, <1>8, <1>9 DEF Ends

(* WhpClose of an end: its flag is set, and nobody else held the end.      *)
LEMMA EndsClosed ==
  ASSUME NEW c, NEW d, Typed(c), Ends(c), ClosePipeStep(c, d)
  PROVE  Ends(d)
<1>1. PICK h : /\ IsA(c, h, "MessagePipe") /\ Collecting(c, d, {h})
               /\ EndClosed(c.pipes, d.pipes, c.slots[h].obj.state, c.slots[h].obj.end)
  BY DEF ClosePipeStep
<1> DEFINE s == c.slots[h].obj.state
           e == c.slots[h].obj.end
<1>2. EndAt(c, h, s, e) /\ s \in DOMAIN c.pipes /\ e \in 0..1
  BY <1>1, EndTyped
<1>3. SameEnds(c, d, {h})
  BY <1>1 DEF Collecting
<1>4. \A p \in DOMAIN c.pipes, x \in 0..1 :
        d.pipes[p].closed[x] = IF p = s /\ x = e THEN TRUE ELSE c.pipes[p].closed[x]
  BY <1>1 DEF EndClosed
<1> HIDE DEF s, e
<1>5. \A k, p, x : EndAt(d, k, p, x) <=> EndAt(c, k, p, x) /\ k # h
  BY <1>3 DEF SameEnds, EndAt
<1>6. OneHolder(d)
  BY <1>5 DEF Ends, OneHolder
<1>7. OneIdentity(d)
  BY <1>3 DEF Ends, OneIdentity, SameEnds
<1>8. ClosedTruthful(d)
  <2> SUFFICES ASSUME NEW k, NEW p, NEW x, EndAt(d, k, p, x)
               PROVE  d.pipes[p].closed[1 - x] <=> ~ \E i : EndAt(d, i, p, 1 - x)
    BY DEF ClosedTruthful
  <2>1. EndAt(c, k, p, x) /\ k # h
    BY <1>5
  <2>2. p \in DOMAIN c.pipes /\ x \in 0..1
    BY <2>1, EndTyped DEF EndAt
  <2>3. 1 - x \in 0..1
    BY <2>2
  <2>4. CASE p = s /\ 1 - x = e
    <3>1. d.pipes[p].closed[1 - x] = TRUE
      BY <1>4, <2>2, <2>3, <2>4
    <3>2. \A i : EndAt(c, i, p, 1 - x) => i = h
      BY <1>2, <2>4 DEF Ends, OneHolder
    <3> QED BY <1>5, <3>1, <3>2
  <2>5. CASE ~(p = s /\ 1 - x = e)
    <3>1. d.pipes[p].closed[1 - x] = c.pipes[p].closed[1 - x]
      BY <1>4, <2>2, <2>3, <2>5
    <3>2. ~EndAt(c, h, p, 1 - x)
      BY <1>2, <2>5 DEF EndAt
    <3>3. \A i : EndAt(d, i, p, 1 - x) <=> EndAt(c, i, p, 1 - x)
      BY <1>5, <3>2
    <3> QED BY <2>1, <3>1, <3>3 DEF Ends, ClosedTruthful
  <2> QED BY <2>4, <2>5
<1> QED BY <1>6, <1>7, <1>8 DEF Ends

(* WhpFuseMessagePipes: k0 and k1 become the ends of a new pipe that is    *)
(* open, and nobody is left at the two old ones.                           *)
LEMMA EndsFused ==
  ASSUME NEW c, NEW d, Typed(c), Ends(c), FuseStep(c, d)
  PROVE  Ends(d)
<1>1. PICK h0, h1, k0, k1 : Fused(c, d, h0, h1, k0, k1)
  BY DEF FuseStep
<1> DEFINE f  == Len(c.pipes) + 1
           s0 == c.slots[h0].obj.state
           e0 == c.slots[h0].obj.end
           s1 == c.slots[h1].obj.state
           e1 == c.slots[h1].obj.end
<1>2. Fusible(c, h0, h1, k0, k1) /\ FusedEnds(c, d, h0, h1, k0, k1) /\ FusedPipes(c, d, h0, h1)
  BY <1>1 DEF Fused
<1>3. /\ EndAt(c, h0, s0, e0) /\ EndAt(c, k0, s0, 1 - e0)
      /\ EndAt(c, h1, s1, e1) /\ EndAt(c, k1, s1, 1 - e1) /\ s0 # s1
  BY <1>2 DEF Fusible, EndAt
<1>4. /\ e0 \in 0..1 /\ e1 \in 0..1 /\ s0 \in 1..Len(c.pipes) /\ s1 \in 1..Len(c.pipes)
      /\ Len(c.pipes) \in Nat /\ DOMAIN c.pipes = 1..Len(c.pipes)
  BY <1>3, EndTyped DEF EndAt
<1>5. /\ \A p \in DOMAIN c.pipes : d.pipes[p].closed = c.pipes[p].closed
      /\ d.pipes[f].closed[0] = FALSE /\ d.pipes[f].closed[1] = FALSE
  BY <1>2 DEF FusedPipes, Spliced
<1>6. /\ \A h : IsA(d, h, "MessagePipe") <=> IsA(c, h, "MessagePipe") /\ h \notin {h0, h1}
      /\ \A h : IsA(d, h, "MessagePipe") /\ h \notin {k0, k1} => d.slots[h].obj = c.slots[h].obj
      /\ d.slots[k0].obj = [id |-> c.slots[k0].obj.id, state |-> f, end |-> 0]
      /\ d.slots[k1].obj = [id |-> c.slots[k1].obj.id, state |-> f, end |-> 1]
  BY <1>2 DEF FusedEnds
<1> HIDE DEF f, s0, e0, s1, e1
<1>7. k0 # k1 /\ k0 \notin {h0, h1} /\ k1 \notin {h0, h1}
  BY <1>3, <1>4 DEF EndAt
<1>8. \A h, s, e : EndAt(c, h, s, e) => s # f /\ s \in DOMAIN c.pipes /\ e \in 0..1
  BY <1>4, EndTyped DEF EndAt, f
<1>9. \A h, s, e : EndAt(d, h, s, e) <=>
        \/ h = k0 /\ s = f /\ e = 0
        \/ h = k1 /\ s = f /\ e = 1
        \/ EndAt(c, h, s, e) /\ h \notin {h0, h1, k0, k1}
  <2>1. /\ IsA(d, k0, "MessagePipe") /\ d.slots[k0].obj.state = f /\ d.slots[k0].obj.end = 0
        /\ IsA(d, k1, "MessagePipe") /\ d.slots[k1].obj.state = f /\ d.slots[k1].obj.end = 1
    <3>1. IsA(c, k0, "MessagePipe") /\ IsA(c, k1, "MessagePipe")
      BY <1>3 DEF EndAt
    <3>2. IsA(d, k0, "MessagePipe") /\ IsA(d, k1, "MessagePipe")
      BY <1>6, <1>7, <3>1
    <3>3. /\ d.slots[k0].obj.state = f /\ d.slots[k0].obj.end = 0
          /\ d.slots[k1].obj.state = f /\ d.slots[k1].obj.end = 1
      BY <1>6
    <3> QED BY <3>2, <3>3
  <2>2. \A s, e : EndAt(d, k0, s, e) <=> s = f /\ e = 0
    BY <2>1 DEF EndAt
  <2>3. \A s, e : EndAt(d, k1, s, e) <=> s = f /\ e = 1
    BY <2>1 DEF EndAt
  <2>4. \A h, s, e : h \notin {k0, k1} =>
          (EndAt(d, h, s, e) <=> EndAt(c, h, s, e) /\ h \notin {h0, h1})
    BY <1>6 DEF EndAt
  <2> QED BY <1>7, <2>2, <2>3, <2>4
<1>10. \A h, s, e : EndAt(c, h, s, e) /\ h \notin {h0, h1, k0, k1} => s \notin {s0, s1}
  <2>1. ASSUME NEW h, NEW e, EndAt(c, h, s0, e) PROVE h \in {h0, k0}
    <3>1. e \in 0..1
      BY <1>8, <2>1
    <3>2. e = e0 \/ e = 1 - e0
      BY <1>4, <3>1
    <3> QED BY <1>3, <2>1, <3>2 DEF Ends, OneHolder
  <2>2. ASSUME NEW h, NEW e, EndAt(c, h, s1, e) PROVE h \in {h1, k1}
    <3>1. e \in 0..1
      BY <1>8, <2>2
    <3>2. e = e1 \/ e = 1 - e1
      BY <1>4, <3>1
    <3> QED BY <1>3, <2>2, <3>2 DEF Ends, OneHolder
  <2> QED BY <2>1, <2>2
<1>11. OneHolder(d)
  BY <1>7, <1>8, <1>9 DEF Ends, OneHolder
<1>12. OneIdentity(d)
  <2>1. \A h : IsA(d, h, "MessagePipe") =>
          IsA(c, h, "MessagePipe") /\ d.slots[h].obj.id = c.slots[h].obj.id
    BY <1>6
  <2> QED BY <2>1 DEF Ends, OneIdentity
<1>13. ClosedTruthful(d)
  <2> SUFFICES ASSUME NEW h, NEW s, NEW e, EndAt(d, h, s, e)
               PROVE  d.pipes[s].closed[1 - e] <=> ~ \E k : EndAt(d, k, s, 1 - e)
    BY DEF ClosedTruthful
  <2>1. CASE s = f
    <3>1. e \in {0, 1} /\ d.pipes[s].closed[1 - e] = FALSE
      BY <1>5, <1>8, <1>9, <2>1
    <3>2. EndAt(d, k0, s, 0) /\ EndAt(d, k1, s, 1)
      BY <1>9, <2>1
    <3>3. EndAt(d, k0, s, 1 - e) \/ EndAt(d, k1, s, 1 - e)
      BY <3>1, <3>2
    <3> QED BY <3>1, <3>3
  <2>2. CASE s # f
    <3>1. EndAt(c, h, s, e) /\ h \notin {h0, h1, k0, k1} /\ s \in DOMAIN c.pipes
      BY <1>8, <1>9, <2>2
    <3>2. s \notin {s0, s1}
      BY <1>10, <3>1
    <3>3. \A k : EndAt(c, k, s, 1 - e) => k \notin {h0, h1, k0, k1}
      BY <1>3, <3>2 DEF EndAt
    <3>4. \A k : EndAt(d, k, s, 1 - e) <=> EndAt(c, k, s, 1 - e)
      BY <1>9, <2>2, <3>3
    <3> QED BY <1>5, <3>1, <3>4 DEF Ends, ClosedTruthful
  <2> QED BY <2>1, <2>2
<1> QED BY <1>11, <1>12, <1>13 DEF Ends

(* Every step keeps the ends exact.                                        *)
LEMMA EndsStep ==
  ASSUME Typed(core), Ends(core), Step
  PROVE  Ends(core')
<1> DEFINE c == core
           d == core'
<1>1. CASE CalmStep(c, d)
  <2>1. SameEnds(c, d, {}) /\ \A p \in DOMAIN c.pipes : d.pipes[p].closed = c.pipes[p].closed
    BY <1>1 DEF CalmStep, Calm, SamePipes
  <2> QED BY <2>1, EndsSame
<1>2. CASE PipeStep(c, d)
  BY <1>2, EndsPipe
<1>3. CASE CollectStep(c, d)
  BY <1>3, EndsSame DEF CollectStep, Collecting
<1>4. CASE AcceptStep(c, d)
  <2>1. SameEnds(c, d, {}) /\ \A p \in DOMAIN c.pipes : d.pipes[p].closed = c.pipes[p].closed
    BY <1>4 DEF AcceptStep, Collecting, Accepted, QueueSet
  <2> QED BY <2>1, EndsSame
<1>5. CASE FuseStep(c, d)
  BY <1>5, EndsFused
<1>6. CASE TrapStep(c, d)
  <2>1. PICK n : TrapMade(c, d, n)
    BY <1>6 DEF TrapStep
  <2>2. SameEnds(c, d, {}) /\ d.pipes = c.pipes
    BY <2>1 DEF TrapMade
  <2> QED BY <2>2, EndsSame
<1>7. ASSUME NEW th, NEW o, TrapChanged(c, d, th, o)
      PROVE  Ends(d)
  BY <1>7, EndsSame DEF TrapChanged
<1>8. CASE AddStep(c, d)
  BY <1>7, <1>8, Zenon DEF AddStep
<1>9. CASE ArmStep(c, d)
  BY <1>7, <1>9, Zenon DEF ArmStep
<1>10. CASE ClosePipeStep(c, d)
  BY <1>10, EndsClosed
<1>11. CASE CloseTrapStep(c, d)
  <2>1. PICK h : TrapClosed(c, d, h)
    BY <1>11 DEF CloseTrapStep
  <2>2. SameEnds(c, d, {}) /\ d.pipes = c.pipes
    BY <2>1 DEF TrapClosed
  <2> QED BY <2>2, EndsSame
<1>12. CASE TakeStep(c, d)
  BY <1>12, EndsSame DEF TakeStep
<1>13. CASE PlainStep(c, d)
  BY <1>1, <1>2, <1>3, <1>4, <1>5, <1>6, <1>8, <1>9, <1>10, <1>11, <1>12, <1>13 DEF PlainStep
<1>14. ASSUME NEW h, ReadStep(c, d, h)
       PROVE  Ends(d)
  <2>1. SameEnds(c, d, {}) /\ \A p \in DOMAIN c.pipes : d.pipes[p].closed = c.pipes[p].closed
    BY <1>14 DEF ReadStep, Calm, QueueSet
  <2> QED BY <2>1, EndsSame
<1>15. ASSUME NEW th, NEW context, RemoveStep(c, d, th, context)
       PROVE  Ends(d)
  BY <1>7, <1>15, Zenon DEF RemoveStep
<1> QED BY <1>13, <1>14, <1>15 DEF Step

LEMMA EndsInit ==
  ASSUME Init
  PROVE  Ends(core)
BY DEF Init, InitCore, Ends, OneHolder, OneIdentity, ClosedTruthful, EndAt, IsA, Lookup

(* A live end of a pipe sees its peer closed exactly when no live handle   *)
(* is the other end (WhpClose, WhpFuseMessagePipes), and no end has two    *)
(* handles.  The inductive invariant adds that ends keep their identities. *)
THEOREM PeerClosedTheorem == Spec => []PeerClosedTruthful
<1> DEFINE Inv == Typed(core) /\ Ends(core)
<1>1. Init => Inv
  BY TypedInit, EndsInit
<1>2. Inv /\ [Next]_vars => Inv'
  <2> SUFFICES ASSUME Inv, [Next]_vars PROVE Typed(core') /\ Ends(core')
    OBVIOUS
  <2>1. Step
    BY NextSteps
  <2> QED BY <2>1, TypedStep, EndsStep
<1>3. Inv => PeerClosedTruthful
  <2> SUFFICES ASSUME Inv, NEW h \in Handles, IsA(core, h, "MessagePipe")
               PROVE  LET end == core.slots[h].obj
                          Holders(e) == {i \in Handles : /\ IsA(core, i, "MessagePipe")
                                                         /\ core.slots[i].obj.state = end.state
                                                         /\ core.slots[i].obj.end = e}
                      IN  /\ Holders(end.end) = {h}
                          /\ core.pipes[end.state].closed[1 - end.end] <=> Holders(1 - end.end) = {}
    BY DEF PeerClosedTruthful
  <2> DEFINE s == core.slots[h].obj.state
             e == core.slots[h].obj.end
             Holders(x) == {i \in Handles : /\ IsA(core, i, "MessagePipe")
                                            /\ core.slots[i].obj.state = s
                                            /\ core.slots[i].obj.end = x}
  <2>1. EndAt(core, h, s, e)
    BY DEF EndAt
  <2>2. \A x, i : i \in Holders(x) <=> EndAt(core, i, s, x)
    BY DEF EndAt, Handles, IsA, Lookup
  <2> HIDE DEF Holders, s, e
  <2>3. Holders(e) = {h}
    BY <2>1, <2>2 DEF Ends, OneHolder
  <2>4. core.pipes[s].closed[1 - e] <=> ~ \E k : EndAt(core, k, s, 1 - e)
    BY <2>1 DEF Ends, ClosedTruthful
  <2>5. core.pipes[s].closed[1 - e] <=> Holders(1 - e) = {}
    BY <2>2, <2>4
  <2> QED BY <2>3, <2>5 DEF Holders, s, e
<1> QED BY <1>1, <1>2, <1>3, PTL DEF Spec

-----------------------------------------------------------------------------
(* The messages in the queues.                                             *)

\* The places of the queues, <<pipe state, end, position>>, and what is there.
IsPlace(c, q) ==
  \E p \in DOMAIN c.pipes, e \in 0..1 : \E i \in DOMAIN c.pipes[p].queues[e] : q = <<p, e, i>>

Places(c) == UNION {{<<p, e, i>> : i \in DOMAIN c.pipes[p].queues[e]} :
                      p \in DOMAIN c.pipes, e \in 0..1}

At(c, q) == c.pipes[q[1]].queues[q[2]][q[3]]

SameQueue(q, r) == q[1] = r[1] /\ q[2] = r[2]

\* Each accepted message that rd does not have is at one place.
NoneLost(c, rd) ==
  /\ rd \subseteq 1..c.writes
  /\ \A q \in Places(c) : At(c, q).seq \in (1..c.writes) \ rd
  /\ \A n \in (1..c.writes) \ rd : \E q \in Places(c) : At(c, q).seq = n
  /\ \A q, r \in Places(c) : At(c, q).seq = At(c, r).seq => q = r

\* The messages of one writer are in one queue, in the order of their writes.
WritersInOrder(c) ==
  \A q, r \in Places(c) : At(c, q).writer = At(c, r).writer =>
    SameQueue(q, r) /\ (q[3] < r[3] => At(c, q).seq < At(c, r).seq)

\* A writer is an end there was, and if it is live that queue is its peer's.
WritersKnown(c) ==
  \A q \in Places(c) :
    /\ At(c, q).writer \in (1..Len(c.pipes)) \X (0..1)
    /\ \A h : IsA(c, h, "MessagePipe") /\ c.slots[h].obj.id = At(c, q).writer =>
         q[1] = c.slots[h].obj.state /\ q[2] = 1 - c.slots[h].obj.end

Exact(c, rd) == NoneLost(c, rd) /\ WritersInOrder(c) /\ WritersKnown(c)

(* A place by its coordinates.                                             *)
LEMMA PlaceDef ==
  ASSUME NEW c, NEW q
  PROVE  q \in Places(c) <=> IsPlace(c, q)
<1> DEFINE In(p, e) == {<<p, e, i>> : i \in DOMAIN c.pipes[p].queues[e]}
           All == {In(p, e) : p \in DOMAIN c.pipes, e \in 0..1}
<1>1. \A p, e : q \in In(p, e) <=> \E i \in DOMAIN c.pipes[p].queues[e] : q = <<p, e, i>>
  OBVIOUS
<1>2. Places(c) = UNION All
  BY DEF Places
<1> HIDE DEF In
<1>3. q \in UNION All <=> \E p \in DOMAIN c.pipes, e \in 0..1 : q \in In(p, e)
  OBVIOUS
<1> QED BY <1>1, <1>2, <1>3 DEF IsPlace

(* The coordinates of a place.                                             *)
LEMMA PlaceParts ==
  ASSUME NEW c, Typed(c), NEW q \in Places(c)
  PROVE  /\ q = <<q[1], q[2], q[3]>>
         /\ q[1] \in DOMAIN c.pipes /\ q[1] \in 1..Len(c.pipes) /\ Len(c.pipes) \in Nat
         /\ q[2] \in 0..1
         /\ q[3] \in DOMAIN c.pipes[q[1]].queues[q[2]] /\ q[3] \in Nat
         /\ c.pipes[q[1]].queues[q[2]] \in Seq(Msgs)
         /\ At(c, q) \in Msgs
<1>1. PICK p \in DOMAIN c.pipes, e \in 0..1 :
        \E i \in DOMAIN c.pipes[p].queues[e] : q = <<p, e, i>>
  BY PlaceDef DEF IsPlace
<1>2. PICK i \in DOMAIN c.pipes[p].queues[e] : q = <<p, e, i>>
  BY <1>1
<1>3. c.pipes \in Seq(PipeStates)
  BY DEF Typed
<1>4. c.pipes[p] \in PipeStates /\ Len(c.pipes) \in Nat /\ p \in 1..Len(c.pipes)
  BY <1>3
<1>5. c.pipes[p].queues[e] \in Seq(Msgs)
  BY <1>4 DEF PipeStates
<1>6. c.pipes[p].queues[e][i] \in Msgs /\ i \in Nat
  BY <1>5
<1>7. q[1] = p /\ q[2] = e /\ q[3] = i
  BY <1>2
<1> QED BY <1>2, <1>4, <1>5, <1>6, <1>7 DEF At

(* Coordinates of a place make it one.                                     *)
LEMMA PlaceMade ==
  ASSUME NEW c, NEW p \in DOMAIN c.pipes, NEW e \in 0..1, NEW i \in DOMAIN c.pipes[p].queues[e]
  PROVE  <<p, e, i>> \in Places(c) /\ At(c, <<p, e, i>>) = c.pipes[p].queues[e][i]
<1>1. IsPlace(c, <<p, e, i>>)
  BY DEF IsPlace
<1> QED BY <1>1, PlaceDef DEF At

\* Function o takes each place of d to the one its message had in c.  Only
\* the message at a place in Gone has left the queues.
Moved(c, d, o, Gone) ==
  /\ \A q \in Places(d) : o[q] \in Places(c) \ Gone /\ At(d, q) = At(c, o[q])
  /\ \A q, r \in Places(d) : o[q] = o[r] => q = r
  /\ \A q \in Places(c) \ Gone : \E r \in Places(d) : o[r] = q

\* It keeps messages of one queue in one queue, and their order.
KeepsOrder(d, o) ==
  \A q, r \in Places(d) :
    SameQueue(o[q], o[r]) => SameQueue(q, r) /\ (q[3] < r[3] => o[q][3] < o[r][3])

\* It takes the queues that live ends write to along with the ends.
KeepsWriters(c, d, o) ==
  \A h : IsA(d, h, "MessagePipe") =>
    /\ IsA(c, h, "MessagePipe") /\ c.slots[h].obj.id = d.slots[h].obj.id
    /\ \A q \in Places(d) :
         o[q][1] = c.slots[h].obj.state /\ o[q][2] = 1 - c.slots[h].obj.end =>
         q[1] = d.slots[h].obj.state /\ q[2] = 1 - d.slots[h].obj.end

(* Messages that only move stay exact.                                     *)
LEMMA ExactMoved ==
  ASSUME NEW c, NEW d, Typed(c), Typed(d), NEW rd, Exact(c, rd),
         NEW o, NEW Gone \in SUBSET Places(c), Moved(c, d, o, Gone), KeepsOrder(d, o),
         KeepsWriters(c, d, o), d.writes = c.writes, Len(d.pipes) >= Len(c.pipes)
  PROVE  Exact(d, rd \cup {At(c, q).seq : q \in Gone})
<1> DEFINE new == rd \cup {At(c, q).seq : q \in Gone}
<1>1. NoneLost(c, rd) /\ WritersInOrder(c) /\ WritersKnown(c)
  BY DEF Exact
<1>2. \A q \in Places(d) : o[q] \in Places(c) /\ o[q] \notin Gone /\ At(d, q) = At(c, o[q])
  BY DEF Moved
<1>3. NoneLost(d, new)
  <2>1. new \subseteq 1..d.writes
    <3>1. rd \subseteq 1..d.writes
      BY <1>1 DEF NoneLost
    <3>2. \A q \in Gone : At(c, q).seq \in 1..d.writes
      BY <1>1 DEF NoneLost
    <3> HIDE DEF new
    <3> SUFFICES ASSUME NEW n \in new PROVE n \in 1..d.writes
      OBVIOUS
    <3> QED BY <3>1, <3>2 DEF new
  <2>2. \A q \in Places(d) : At(d, q).seq \in (1..d.writes) \ new
    BY <1>1, <1>2 DEF NoneLost
  <2>3. \A n \in (1..d.writes) \ new : \E q \in Places(d) : At(d, q).seq = n
    BY <1>1, <1>2 DEF NoneLost, Moved
  <2>4. \A q, r \in Places(d) : At(d, q).seq = At(d, r).seq => q = r
    BY <1>1, <1>2 DEF NoneLost, Moved
  <2> QED BY <2>1, <2>2, <2>3, <2>4 DEF NoneLost
<1>4. WritersInOrder(d)
  BY <1>1, <1>2 DEF WritersInOrder, KeepsOrder
<1>5. WritersKnown(d)
  <2> SUFFICES ASSUME NEW q \in Places(d)
               PROVE  /\ At(d, q).writer \in (1..Len(d.pipes)) \X (0..1)
                      /\ \A h : IsA(d, h, "MessagePipe") /\ d.slots[h].obj.id = At(d, q).writer =>
                           q[1] = d.slots[h].obj.state /\ q[2] = 1 - d.slots[h].obj.end
    BY DEF WritersKnown
  <2>1. Len(c.pipes) \in Nat /\ Len(d.pipes) \in Nat
    BY DEF Typed
  <2>2. At(d, q).writer \in (1..Len(c.pipes)) \X (0..1)
    BY <1>1, <1>2 DEF WritersKnown
  <2>3. At(d, q).writer \in (1..Len(d.pipes)) \X (0..1)
    BY <2>1, <2>2
  <2>4. ASSUME NEW h, IsA(d, h, "MessagePipe"), d.slots[h].obj.id = At(d, q).writer
        PROVE  q[1] = d.slots[h].obj.state /\ q[2] = 1 - d.slots[h].obj.end
    <3>1. IsA(c, h, "MessagePipe") /\ c.slots[h].obj.id = At(c, o[q]).writer
      BY <1>2, <2>4 DEF KeepsWriters
    <3>2. o[q][1] = c.slots[h].obj.state /\ o[q][2] = 1 - c.slots[h].obj.end
      BY <1>1, <1>2, <3>1 DEF WritersKnown
    <3> QED BY <2>4, <3>2 DEF KeepsWriters
  <2> QED BY <2>3, <2>4
<1> QED BY <1>3, <1>4, <1>5 DEF Exact

\* The live ends of d were there, or have identities that are new.
OldOrNewEnds(c, d) ==
  \A h : IsA(d, h, "MessagePipe") =>
    \/ IsA(c, h, "MessagePipe") /\ d.slots[h].obj = c.slots[h].obj
    \/ d.slots[h].obj.id \notin (1..Len(c.pipes)) \X (0..1)

(* The messages as they were: nothing moves.                               *)
LEMMA ExactSame ==
  ASSUME NEW c, NEW d, Typed(c), NEW rd, Exact(c, rd), OldOrNewEnds(c, d),
         d.writes = c.writes, Len(d.pipes) \in Nat, Len(d.pipes) >= Len(c.pipes),
         Places(d) = Places(c), \A q \in Places(c) : At(d, q) = At(c, q)
  PROVE  Exact(d, rd)
<1>1. NoneLost(d, rd)
  BY DEF Exact, NoneLost
<1>2. WritersInOrder(d)
  BY DEF Exact, WritersInOrder
<1>3. WritersKnown(d)
  <2> SUFFICES ASSUME NEW q \in Places(c)
               PROVE  /\ At(c, q).writer \in (1..Len(d.pipes)) \X (0..1)
                      /\ \A h : IsA(d, h, "MessagePipe") /\ d.slots[h].obj.id = At(c, q).writer =>
                           q[1] = d.slots[h].obj.state /\ q[2] = 1 - d.slots[h].obj.end
    BY DEF WritersKnown
  <2>1. At(c, q).writer \in (1..Len(c.pipes)) \X (0..1)
    BY DEF Exact, WritersKnown
  <2>2. Len(c.pipes) \in Nat
    BY DEF Typed
  <2>3. At(c, q).writer \in (1..Len(d.pipes)) \X (0..1)
    BY <2>1, <2>2
  <2>4. \A h : IsA(d, h, "MessagePipe") /\ d.slots[h].obj.id = At(c, q).writer =>
          IsA(c, h, "MessagePipe") /\ d.slots[h].obj = c.slots[h].obj
    BY <2>1 DEF OldOrNewEnds
  <2> QED BY <2>3, <2>4 DEF Exact, WritersKnown
<1> QED BY <1>1, <1>2, <1>3 DEF Exact

(* The same pipe states and queues.                                        *)
LEMMA ExactSameQueues ==
  ASSUME NEW c, NEW d, Typed(c), Typed(d), NEW rd, Exact(c, rd), NEW Gone, SameEnds(c, d, Gone),
         d.writes = c.writes, DOMAIN d.pipes = DOMAIN c.pipes,
         \A p \in DOMAIN c.pipes, e \in 0..1 : d.pipes[p].queues[e] = c.pipes[p].queues[e]
  PROVE  Exact(d, rd)
<1>1. Places(d) = Places(c)
  <2>1. \A q : IsPlace(d, q) <=> IsPlace(c, q)
    BY DEF IsPlace
  <2> QED BY <2>1, PlaceDef
<1>2. \A q \in Places(c) : At(d, q) = At(c, q)
  BY PlaceParts DEF At
<1>3. Len(d.pipes) = Len(c.pipes) /\ Len(d.pipes) \in Nat
  <2>1. /\ DOMAIN c.pipes = 1..Len(c.pipes) /\ Len(c.pipes) \in Nat
        /\ DOMAIN d.pipes = 1..Len(d.pipes) /\ Len(d.pipes) \in Nat
    BY DEF Typed
  <2> QED BY <2>1
<1>4. OldOrNewEnds(c, d)
  BY DEF SameEnds, OldOrNewEnds
<1> QED BY <1>1, <1>2, <1>3, <1>4, ExactSame

(* WhpCreateMessagePipe: the new pipe is empty and its ends wrote nothing. *)
LEMMA ExactPipe ==
  ASSUME NEW c, NEW d, Typed(c), NEW rd, Exact(c, rd), PipeStep(c, d)
  PROVE  Exact(d, rd)
<1> DEFINE f == Len(c.pipes) + 1
<1>1. PICK n0, n1 : PipeMade(c, d, n0, n1)
  BY DEF PipeStep
<1>2. Len(c.pipes) \in Nat /\ DOMAIN c.pipes = 1..Len(c.pipes)
  BY DEF Typed
<1>3. /\ d.pipes = Append(c.pipes, NewPipeState) /\ d.writes = c.writes
  BY <1>1 DEF PipeMade, SameCounters
<1>4. /\ Len(d.pipes) = f /\ DOMAIN d.pipes = DOMAIN c.pipes \cup {f}
      /\ \A p \in DOMAIN c.pipes : d.pipes[p] = c.pipes[p]
      /\ d.pipes[f] = NewPipeState
  BY <1>2, <1>3 DEF Typed
<1>5. \A e \in 0..1 : DOMAIN d.pipes[f].queues[e] = {}
  <2>1. \A e \in 0..1 : d.pipes[f].queues[e] = <<>>
    BY <1>4 DEF NewPipeState
  <2> QED BY <2>1
<1>6. Places(d) = Places(c)
  <2>1. \A q : IsPlace(d, q) <=> IsPlace(c, q)
    BY <1>4, <1>5 DEF IsPlace
  <2> QED BY <2>1, PlaceDef
<1>7. \A q \in Places(c) : At(d, q) = At(c, q)
  BY <1>4, PlaceParts DEF At
<1>8. OldOrNewEnds(c, d)
  <2>1. d.slots[n0].obj.id = <<f, 0>> /\ d.slots[n1].obj.id = <<f, 1>>
    BY <1>1 DEF PipeMade, PipeEnd
  <2>2. \A h : IsA(d, h, "MessagePipe") =>
          h \in {n0, n1} \/ (IsA(c, h, "MessagePipe") /\ d.slots[h].obj = c.slots[h].obj)
    BY <1>1 DEF PipeMade, IsA, Lookup
  <2> QED BY <1>2, <2>1, <2>2 DEF OldOrNewEnds
<1> QED BY <1>2, <1>3, <1>4, <1>6, <1>7, <1>8, ExactSame

(* WhpWriteMessage: the message is the last one of its writer.             *)
LEMMA ExactAccepted ==
  ASSUME NEW c, NEW d, Typed(c), Ends(c), NEW rd, Exact(c, rd), AcceptStep(c, d)
  PROVE  Exact(d, rd)
<1>1. PICK h, msg : Accepted(c, d, h, msg)
  BY DEF AcceptStep
<1>0. Typed(d) /\ SameEnds(c, d, {})
  BY DEF AcceptStep, Collecting
<1> DEFINE s   == c.slots[h].obj.state
           x   == 1 - c.slots[h].obj.end
           old == c.pipes[s].queues[x]
           n   == <<s, x, Len(old) + 1>>
<1>2. /\ IsA(c, h, "MessagePipe") /\ s \in DOMAIN c.pipes /\ x \in 0..1
      /\ c.slots[h].obj.id \in (1..Len(c.pipes)) \X (0..1)
  <2>1. IsA(c, h, "MessagePipe")
    BY <1>1 DEF Accepted
  <2>2. /\ s \in DOMAIN c.pipes /\ c.slots[h].obj.end \in 0..1
        /\ c.slots[h].obj.id \in (1..Len(c.pipes)) \X (0..1)
    BY <2>1, EndTyped
  <2> QED BY <2>1, <2>2
<1>3. /\ msg.seq = c.writes + 1 /\ msg.writer = c.slots[h].obj.id /\ msg \in Msgs
      /\ QueueSet(c.pipes, d.pipes, s, x, Append(old, msg)) /\ d.writes = c.writes + 1
  BY <1>1 DEF Accepted, PeerOf
<1>4. old \in Seq(Msgs)
  <2>1. c.pipes[s] \in PipeStates
    BY <1>2 DEF Typed
  <2> QED BY <1>2, <2>1 DEF PipeStates
<1>5. c.writes \in Nat
  BY DEF Typed
<1> HIDE DEF old, s, x
<1>6. /\ DOMAIN d.pipes = DOMAIN c.pipes /\ d.pipes[s].queues[x] = Append(old, msg)
      /\ \A p \in DOMAIN c.pipes, y \in 0..1 :
           p # s \/ y # x => d.pipes[p].queues[y] = c.pipes[p].queues[y]
      /\ c.pipes[s].queues[x] = old
  BY <1>3 DEF QueueSet, old
<1>7. /\ DOMAIN d.pipes[s].queues[x] = DOMAIN old \cup {Len(old) + 1}
      /\ Len(old) + 1 \notin DOMAIN old /\ Len(old) \in Nat
      /\ d.pipes[s].queues[x][Len(old) + 1] = msg
      /\ \A i \in DOMAIN old : d.pipes[s].queues[x][i] = old[i] /\ i < Len(old) + 1
  BY <1>3, <1>4, <1>6
<1>8. \A q : IsPlace(d, q) <=> IsPlace(c, q) \/ q = n
  <2>1. \A p \in DOMAIN c.pipes, y \in 0..1 : \A i :
          i \in DOMAIN d.pipes[p].queues[y] <=>
            i \in DOMAIN c.pipes[p].queues[y] \/ (p = s /\ y = x /\ i = Len(old) + 1)
    BY <1>6, <1>7
  <2> QED BY <1>2, <1>6, <2>1 DEF IsPlace
<1>9. n \in Places(d) /\ Places(d) = Places(c) \cup {n}
  BY <1>8, PlaceDef
<1>10. At(d, n) = msg
  BY <1>7 DEF At
<1>11. \A q \in Places(c) : At(d, q) = At(c, q) /\ q[3] \in Nat
  <2> SUFFICES ASSUME NEW q \in Places(c) PROVE At(d, q) = At(c, q) /\ q[3] \in Nat
    OBVIOUS
  <2>1. /\ q[1] \in DOMAIN c.pipes /\ q[2] \in 0..1 /\ q[3] \in Nat
        /\ q[3] \in DOMAIN c.pipes[q[1]].queues[q[2]]
    BY PlaceParts
  <2>2. CASE q[1] = s /\ q[2] = x
    BY <1>6, <1>7, <2>1, <2>2 DEF At
  <2>3. CASE ~(q[1] = s /\ q[2] = x)
    BY <1>6, <2>1, <2>3 DEF At
  <2> QED BY <2>1, <2>2, <2>3
<1>12. \A q \in Places(c) : q[1] = s /\ q[2] = x => q[3] < Len(old) + 1
  BY <1>6, <1>7, PlaceParts
<1>13. n[1] = s /\ n[2] = x /\ n[3] = Len(old) + 1
  OBVIOUS
<1> HIDE DEF n
<1>14. NoneLost(d, rd)
  <2>1. rd \subseteq 1..d.writes
    BY <1>3, <1>5 DEF Exact, NoneLost
  <2>2. \A q \in Places(c) : At(c, q).seq \in (1..c.writes) \ rd
    BY DEF Exact, NoneLost
  <2>3. c.writes + 1 \notin 1..c.writes /\ c.writes + 1 \notin rd
    BY <1>5 DEF Exact, NoneLost
  <2>4. \A q \in Places(d) : At(d, q).seq \in (1..d.writes) \ rd
    BY <1>3, <1>5, <1>9, <1>10, <1>11, <2>2, <2>3
  <2>5. \A k \in (1..d.writes) \ rd : \E q \in Places(d) : At(d, q).seq = k
    <3> SUFFICES ASSUME NEW k \in (1..d.writes) \ rd
                 PROVE  \E q \in Places(d) : At(d, q).seq = k
      OBVIOUS
    <3>1. CASE k = c.writes + 1
      BY <1>3, <1>9, <1>10, <3>1
    <3>2. CASE k # c.writes + 1
      <4>1. k \in (1..c.writes) \ rd
        BY <1>3, <1>5, <3>2
      <4>2. PICK q \in Places(c) : At(c, q).seq = k
        BY <4>1 DEF Exact, NoneLost
      <4> QED BY <1>9, <1>11, <4>2
    <3> QED BY <3>1, <3>2
  <2>6. \A q, r \in Places(d) : At(d, q).seq = At(d, r).seq => q = r
    <3>1. \A q, r \in Places(c) : At(c, q).seq = At(c, r).seq => q = r
      BY DEF Exact, NoneLost
    <3> QED BY <1>3, <1>9, <1>10, <1>11, <2>2, <2>3, <3>1
  <2> QED BY <2>1, <2>4, <2>5, <2>6 DEF NoneLost
<1>15. \A q \in Places(c) : At(c, q).writer = msg.writer => q[1] = s /\ q[2] = x
  BY <1>2, <1>3 DEF Exact, WritersKnown, s, x
<1>16. WritersInOrder(d)
  <2> SUFFICES ASSUME NEW q \in Places(d), NEW r \in Places(d),
                      At(d, q).writer = At(d, r).writer
               PROVE  SameQueue(q, r) /\ (q[3] < r[3] => At(d, q).seq < At(d, r).seq)
    BY DEF WritersInOrder
  <2>1. CASE q \in Places(c) /\ r \in Places(c)
    BY <1>11, <2>1 DEF Exact, WritersInOrder
  <2>2. CASE q = n /\ r = n
    BY <1>7, <1>13, <2>2 DEF SameQueue
  <2>3. CASE q = n /\ r \in Places(c)
    <3>1. r[1] = s /\ r[2] = x
      BY <1>10, <1>11, <1>15, <2>3
    <3>2. r[3] < n[3] /\ r[3] \in Nat /\ n[3] \in Nat
      BY <1>7, <1>11, <1>12, <1>13, <2>3, <3>1
    <3> QED BY <1>13, <2>3, <3>1, <3>2 DEF SameQueue
  <2>4. CASE q \in Places(c) /\ r = n
    <3>1. q[1] = s /\ q[2] = x
      BY <1>10, <1>11, <1>15, <2>4
    <3>2. At(c, q).seq \in 1..c.writes
      BY <2>4 DEF Exact, NoneLost
    <3>3. At(d, q).seq < At(d, r).seq
      BY <1>3, <1>5, <1>10, <1>11, <2>4, <3>2
    <3> QED BY <1>13, <2>4, <3>1, <3>3 DEF SameQueue
  <2> QED BY <1>9, <2>1, <2>2, <2>3, <2>4
<1>17. WritersKnown(d)
  <2>1. Len(d.pipes) = Len(c.pipes)
    <3>1. /\ DOMAIN c.pipes = 1..Len(c.pipes) /\ Len(c.pipes) \in Nat
          /\ DOMAIN d.pipes = 1..Len(d.pipes) /\ Len(d.pipes) \in Nat
      BY <1>0 DEF Typed
    <3> QED BY <1>6, <3>1
  <2> SUFFICES ASSUME NEW q \in Places(d)
               PROVE  /\ At(d, q).writer \in (1..Len(c.pipes)) \X (0..1)
                      /\ \A k : IsA(d, k, "MessagePipe") /\ d.slots[k].obj.id = At(d, q).writer =>
                           q[1] = d.slots[k].obj.state /\ q[2] = 1 - d.slots[k].obj.end
    BY <2>1 DEF WritersKnown
  <2>2. \A k : IsA(d, k, "MessagePipe") => IsA(c, k, "MessagePipe") /\ d.slots[k].obj = c.slots[k].obj
    BY <1>0 DEF SameEnds
  <2>3. CASE q \in Places(c)
    BY <1>11, <2>2, <2>3 DEF Exact, WritersKnown
  <2>4. CASE q = n
    <3>1. At(d, q).writer = c.slots[h].obj.id
      BY <1>3, <1>10, <2>4
    <3>2. \A k : IsA(d, k, "MessagePipe") /\ d.slots[k].obj.id = c.slots[h].obj.id => k = h
      BY <1>2, <2>2 DEF Ends, OneIdentity
    <3> QED BY <1>2, <1>13, <2>2, <2>4, <3>1, <3>2 DEF s, x
  <2> QED BY <1>9, <2>3, <2>4
<1> QED BY <1>14, <1>16, <1>17 DEF Exact

(* WhpReadMessage: the messages behind the front of one queue move up.     *)
LEMMA ExactRead ==
  ASSUME NEW c, NEW d, Typed(c), NEW rd, Exact(c, rd), NEW h, ReadStep(c, d, h)
  PROVE  Exact(d, rd \cup {Head(Inbound(c, h)).seq})
<1> DEFINE s       == c.slots[h].obj.state
           e       == c.slots[h].obj.end
           old     == c.pipes[s].queues[e]
           front   == <<s, e, 1>>
           Here(q) == q[1] = s /\ q[2] = e
           o       == [q \in Places(d) |-> IF Here(q) THEN <<s, e, q[3] + 1>> ELSE q]
<1>1. /\ IsA(c, h, "MessagePipe") /\ Inbound(c, h) = old /\ old # <<>> /\ Calm(c, d)
      /\ QueueSet(c.pipes, d.pipes, s, e, Tail(old))
  BY DEF ReadStep, Inbound, Outbound
<1>2. Typed(d) /\ SameEnds(c, d, {}) /\ d.writes = c.writes
  BY <1>1 DEF Calm
<1>3. s \in DOMAIN c.pipes /\ e \in 0..1
  BY <1>1, EndTyped
<1>4. old \in Seq(Msgs)
  <2>1. c.pipes[s] \in PipeStates
    BY <1>3 DEF Typed
  <2> QED BY <1>3, <2>1 DEF PipeStates
<1>5. /\ DOMAIN d.pipes = DOMAIN c.pipes /\ d.pipes[s].queues[e] = Tail(old)
      /\ \A p \in DOMAIN c.pipes, y \in 0..1 :
           p # s \/ y # e => d.pipes[p].queues[y] = c.pipes[p].queues[y]
      /\ c.pipes[s].queues[e] = old
  BY <1>1 DEF QueueSet
<1> HIDE DEF s, e, old
<1>6. /\ Len(old) \in Nat /\ DOMAIN old = 1..Len(old) /\ 1 \in DOMAIN old
      /\ DOMAIN Tail(old) = 1..(Len(old) - 1) /\ Head(old) = old[1]
      /\ \A i \in 1..(Len(old) - 1) : Tail(old)[i] = old[i+1]
  BY <1>1, <1>4
<1>7. front \in Places(c) /\ At(c, front) = Head(old) /\ Here(front) /\ front[3] = 1
  BY <1>3, <1>5, <1>6, PlaceMade
<1>8. \A q \in Places(d) : Here(q) =>
        /\ q[3] \in 1..(Len(old) - 1) /\ q = <<s, e, q[3]>>
        /\ <<s, e, q[3] + 1>> \in Places(c) /\ At(d, q) = At(c, <<s, e, q[3] + 1>>)
  <2> SUFFICES ASSUME NEW q \in Places(d), Here(q)
               PROVE  /\ q[3] \in 1..(Len(old) - 1) /\ q = <<s, e, q[3]>>
                      /\ <<s, e, q[3] + 1>> \in Places(c) /\ At(d, q) = At(c, <<s, e, q[3] + 1>>)
    OBVIOUS
  <2>1. q[3] \in DOMAIN d.pipes[q[1]].queues[q[2]] /\ q = <<q[1], q[2], q[3]>>
    BY <1>2, PlaceParts
  <2>2. q[3] \in 1..(Len(old) - 1) /\ q = <<s, e, q[3]>> /\ At(d, q) = old[q[3] + 1]
    BY <1>5, <1>6, <2>1 DEF At
  <2>3. q[3] + 1 \in DOMAIN c.pipes[s].queues[e]
    BY <1>5, <1>6, <2>2
  <2>4. <<s, e, q[3] + 1>> \in Places(c) /\ At(c, <<s, e, q[3] + 1>>) = old[q[3] + 1]
    BY <1>3, <1>5, <2>3, PlaceMade
  <2> QED BY <2>2, <2>4
<1>9. \A q : ~Here(q) => /\ q \in Places(d) <=> q \in Places(c)
                         /\ q \in Places(c) => At(d, q) = At(c, q)
  <2> SUFFICES ASSUME NEW q, ~Here(q)
               PROVE  /\ q \in Places(d) <=> q \in Places(c)
                      /\ q \in Places(c) => At(d, q) = At(c, q)
    OBVIOUS
  <2>1. IsPlace(d, q) <=> IsPlace(c, q)
    BY <1>5 DEF IsPlace
  <2>2. q \in Places(c) => At(d, q) = At(c, q)
    BY <1>5, PlaceParts DEF At
  <2> QED BY <2>1, <2>2, PlaceDef
<1>10. ASSUME NEW q \in Places(c), Here(q), q # front
       PROVE  <<s, e, q[3] - 1>> \in Places(d) /\ q = <<s, e, (q[3] - 1) + 1>>
  <2>1. q[3] \in DOMAIN c.pipes[q[1]].queues[q[2]] /\ q = <<q[1], q[2], q[3]>>
    BY PlaceParts
  <2>2. q[3] \in 1..Len(old) /\ q = <<s, e, q[3]>>
    BY <1>5, <1>6, <1>10, <2>1
  <2>3. q[3] # 1
    BY <1>10, <2>2
  <2>4. q[3] - 1 \in DOMAIN d.pipes[s].queues[e] /\ (q[3] - 1) + 1 = q[3]
    BY <1>5, <1>6, <2>2, <2>3
  <2>5. <<s, e, q[3] - 1>> \in Places(d)
    BY <1>3, <1>5, <2>4, PlaceMade
  <2> QED BY <2>2, <2>4, <2>5
<1> HIDE DEF front
<1>11. \A q \in Places(d) : /\ Here(q) => o[q] = <<s, e, q[3] + 1>>
                            /\ ~Here(q) => o[q] = q
  OBVIOUS
<1>12. \A q \in Places(d) : q[3] \in Nat /\ (Here(q) <=> Here(o[q])) /\ SameQueue(o[q], q)
  BY <1>2, <1>11, PlaceParts DEF SameQueue
<1> HIDE DEF o
<1>13. Moved(c, d, o, {front})
  <2>1. ASSUME NEW q \in Places(d)
        PROVE  o[q] \in Places(c) /\ o[q] # front /\ At(d, q) = At(c, o[q])
    <3>1. CASE Here(q)
      <4>1. o[q] \in Places(c) /\ At(d, q) = At(c, o[q])
        BY <1>8, <1>11, <3>1
      <4>2. o[q] = <<s, e, q[3] + 1>> /\ q[3] \in 1..(Len(old) - 1)
        BY <1>8, <1>11, <3>1
      <4>3. o[q][3] = q[3] + 1
        BY <4>2
      <4>4. o[q][3] # 1
        BY <1>6, <4>2, <4>3
      <4> QED BY <1>7, <4>1, <4>4
    <3>2. CASE ~Here(q)
      BY <1>7, <1>9, <1>11, <3>2
    <3> QED BY <3>1, <3>2
  <2>2. ASSUME NEW q \in Places(d), NEW r \in Places(d), o[q] = o[r]
        PROVE  q = r
    <3>1. CASE Here(q) /\ Here(r)
      <4>1. <<s, e, q[3] + 1>> = <<s, e, r[3] + 1>>
        BY <1>11, <2>2, <3>1
      <4>2. q[3] = r[3]
        BY <1>12, <4>1
      <4> QED BY <1>8, <3>1, <4>2
    <3>2. CASE ~Here(q) /\ ~Here(r)
      BY <1>11, <2>2, <3>2
    <3> QED BY <1>12, <2>2, <3>1, <3>2
  <2>3. ASSUME NEW q \in Places(c), q # front
        PROVE  \E r \in Places(d) : o[r] = q
    <3>1. CASE Here(q)
      <4> DEFINE r == <<s, e, q[3] - 1>>
      <4>1. r \in Places(d) /\ q = <<s, e, (q[3] - 1) + 1>>
        BY <1>10, <2>3, <3>1
      <4>2. Here(r) /\ r[3] = q[3] - 1
        OBVIOUS
      <4> QED BY <1>11, <4>1, <4>2
    <3>2. CASE ~Here(q)
      BY <1>9, <1>11, <3>2
    <3> QED BY <3>1, <3>2
  <2> QED BY <2>1, <2>2, <2>3 DEF Moved
<1>14. KeepsOrder(d, o)
  <2> SUFFICES ASSUME NEW q \in Places(d), NEW r \in Places(d), SameQueue(o[q], o[r])
               PROVE  SameQueue(q, r) /\ (q[3] < r[3] => o[q][3] < o[r][3])
    BY DEF KeepsOrder
  <2>1. SameQueue(q, r)
    BY <1>12 DEF SameQueue
  <2>2. CASE Here(q)
    <3>1. o[q][3] = q[3] + 1 /\ o[r][3] = r[3] + 1
      BY <1>11, <2>1, <2>2 DEF SameQueue
    <3> QED BY <1>12, <2>1, <3>1
  <2>3. CASE ~Here(q)
    <3>1. o[q] = q /\ o[r] = r
      BY <1>11, <2>1, <2>3 DEF SameQueue
    <3> QED BY <2>1, <3>1
  <2> QED BY <2>2, <2>3
<1>15. KeepsWriters(c, d, o)
  BY <1>2, <1>12 DEF KeepsWriters, SameEnds, SameQueue
<1>16. Len(d.pipes) >= Len(c.pipes)
  <2>1. /\ DOMAIN c.pipes = 1..Len(c.pipes) /\ Len(c.pipes) \in Nat
        /\ DOMAIN d.pipes = 1..Len(d.pipes) /\ Len(d.pipes) \in Nat
    BY <1>2 DEF Typed
  <2> QED BY <1>5, <2>1
<1>17. {At(c, q).seq : q \in {front}} = {Head(Inbound(c, h)).seq}
  BY <1>1, <1>7
<1>18. Exact(d, rd \cup {At(c, q).seq : q \in {front}})
  BY <1>2, <1>7, <1>13, <1>14, <1>15, <1>16, ExactMoved
<1> QED BY <1>17, <1>18

\* The queue of end w[2] of pipe state w[1].
QueueOf(c, w) == c.pipes[w[1]].queues[w[2]]

\* The queues of the ends of pipe state f of d are those of c at a and then
\* those at b, which were all queues of the states in Old; those are empty.
Joined(c, d, f, Old, a, b) ==
  /\ f \notin DOMAIN c.pipes /\ DOMAIN d.pipes = DOMAIN c.pipes \cup {f}
  /\ Old \subseteq DOMAIN c.pipes
  /\ \A p \in DOMAIN c.pipes, x \in 0..1 :
       d.pipes[p].queues[x] = IF p \in Old THEN <<>> ELSE c.pipes[p].queues[x]
  /\ \A x \in 0..1 : /\ a[x] \in Old \X (0..1) /\ b[x] \in Old \X (0..1)
                     /\ QueueOf(c, a[x]) \in Seq(Msgs) /\ QueueOf(c, b[x]) \in Seq(Msgs)
                     /\ d.pipes[f].queues[x] = QueueOf(c, a[x]) \o QueueOf(c, b[x])
  /\ \A x, y \in 0..1 : a[x] # b[y] /\ (x # y => a[x] # a[y] /\ b[x] # b[y])
  /\ \A p \in Old, y \in 0..1 : \E x \in 0..1 : <<p, y>> = a[x] \/ <<p, y>> = b[x]

\* A message of the new pipe state and the place it had.
FromA(c, f, a, q, r) ==
  \E x \in 0..1 : \E i \in 1..Len(QueueOf(c, a[x])) :
    q = <<f, x, i>> /\ r = <<a[x][1], a[x][2], i>>
FromB(c, f, a, b, q, r) ==
  \E x \in 0..1 : \E i \in 1..Len(QueueOf(c, b[x])) :
    q = <<f, x, Len(QueueOf(c, a[x])) + i>> /\ r = <<b[x][1], b[x][2], i>>

(* Places of joined queues: elsewhere, or in one part or the other.        *)
LEMMA JoinedPlaces ==
  ASSUME NEW c, NEW d, Typed(c), Typed(d), NEW f, NEW Old, NEW a, NEW b,
         Joined(c, d, f, Old, a, b)
  PROVE  /\ \A q : q \in Places(d) =>
              \/ q \in Places(c) /\ q[1] \notin Old /\ q[1] # f /\ At(d, q) = At(c, q)
              \/ \E r : FromA(c, f, a, q, r) \/ FromB(c, f, a, b, q, r)
         /\ \A q \in Places(c) :
              /\ q[1] # f
              /\ q[1] \notin Old => q \in Places(d)
              /\ q[1] \in Old => \E r \in Places(d) : FromA(c, f, a, r, q) \/ FromB(c, f, a, b, r, q)
         /\ \A q, r : FromA(c, f, a, q, r) \/ FromB(c, f, a, b, q, r) =>
              q \in Places(d) /\ r \in Places(c) /\ r[1] \in Old /\ At(d, q) = At(c, r)
<1>0. /\ f \notin DOMAIN c.pipes /\ DOMAIN d.pipes = DOMAIN c.pipes \cup {f}
      /\ Old \subseteq DOMAIN c.pipes
      /\ \A p \in DOMAIN c.pipes, x \in 0..1 :
           d.pipes[p].queues[x] = IF p \in Old THEN <<>> ELSE c.pipes[p].queues[x]
      /\ \A p \in Old, y \in 0..1 : \E x \in 0..1 : <<p, y>> = a[x] \/ <<p, y>> = b[x]
  BY DEF Joined
<1>1. \A x \in 0..1 :
        /\ a[x] \in Old \X (0..1) /\ b[x] \in Old \X (0..1)
        /\ QueueOf(c, a[x]) \in Seq(Msgs) /\ QueueOf(c, b[x]) \in Seq(Msgs)
        /\ d.pipes[f].queues[x] = QueueOf(c, a[x]) \o QueueOf(c, b[x])
  BY DEF Joined
<1>2. ASSUME NEW A \in Seq(Msgs), NEW B \in Seq(Msgs)
      PROVE  /\ Len(A) \in Nat /\ Len(B) \in Nat /\ DOMAIN A = 1..Len(A) /\ DOMAIN B = 1..Len(B)
             /\ DOMAIN (A \o B) = 1..(Len(A) + Len(B))
             /\ \A i \in 1..Len(A) : (A \o B)[i] = A[i]
             /\ \A i \in 1..Len(B) : (A \o B)[Len(A) + i] = B[i]
             /\ \A k \in 1..(Len(A) + Len(B)) :
                  k \in 1..Len(A) \/ \E i \in 1..Len(B) : k = Len(A) + i
  <2>1. /\ Len(A) \in Nat /\ Len(B) \in Nat /\ DOMAIN A = 1..Len(A) /\ DOMAIN B = 1..Len(B)
        /\ A \o B \in Seq(Msgs) /\ Len(A \o B) = Len(A) + Len(B)
    OBVIOUS
  <2>2. \A i \in 1..(Len(A) + Len(B)) :
          (A \o B)[i] = IF i <= Len(A) THEN A[i] ELSE B[i - Len(A)]
    OBVIOUS
  <2>3. \A k \in 1..(Len(A) + Len(B)) :
          k \in 1..Len(A) \/ \E i \in 1..Len(B) : k = Len(A) + i
    <3> SUFFICES ASSUME NEW k \in 1..(Len(A) + Len(B)), k \notin 1..Len(A)
                 PROVE  \E i \in 1..Len(B) : k = Len(A) + i
      OBVIOUS
    <3>1. k - Len(A) \in 1..Len(B) /\ k = Len(A) + (k - Len(A))
      BY <2>1
    <3> QED BY <3>1
  <2>4. \A i \in 1..Len(A) : (A \o B)[i] = A[i]
    BY <2>1, <2>2
  <2>5. \A i \in 1..Len(B) : (A \o B)[Len(A) + i] = B[i]
    <3> SUFFICES ASSUME NEW i \in 1..Len(B) PROVE (A \o B)[Len(A) + i] = B[i]
      OBVIOUS
    <3>1. /\ Len(A) + i \in 1..(Len(A) + Len(B)) /\ ~(Len(A) + i <= Len(A))
          /\ (Len(A) + i) - Len(A) = i
      BY <2>1
    <3> QED BY <2>2, <3>1
  <2> QED BY <2>1, <2>3, <2>4, <2>5
<1>3. ASSUME NEW q, NEW r, FromA(c, f, a, q, r)
      PROVE  q \in Places(d) /\ r \in Places(c) /\ r[1] \in Old /\ At(d, q) = At(c, r)
  <2>1. PICK x \in 0..1 : \E i \in 1..Len(QueueOf(c, a[x])) :
               q = <<f, x, i>> /\ r = <<a[x][1], a[x][2], i>>
    BY <1>3 DEF FromA
  <2>2. PICK i \in 1..Len(QueueOf(c, a[x])) : q = <<f, x, i>> /\ r = <<a[x][1], a[x][2], i>>
    BY <2>1
  <2> DEFINE A == QueueOf(c, a[x])
             B == QueueOf(c, b[x])
  <2>3. A \in Seq(Msgs) /\ B \in Seq(Msgs) /\ d.pipes[f].queues[x] = A \o B
    BY <1>1
  <2>4. c.pipes[a[x][1]].queues[a[x][2]] = A /\ i \in 1..Len(A)
    BY DEF QueueOf
  <2> HIDE DEF A, B
  <2>5. i \in DOMAIN A /\ i \in DOMAIN (A \o B) /\ (A \o B)[i] = A[i]
    <3>1. /\ Len(A) \in Nat /\ Len(B) \in Nat /\ DOMAIN A = 1..Len(A)
          /\ DOMAIN (A \o B) = 1..(Len(A) + Len(B)) /\ \A k \in 1..Len(A) : (A \o B)[k] = A[k]
      BY <1>2, <2>3
    <3> QED BY <2>4, <3>1
  <2>6. a[x][1] \in DOMAIN c.pipes /\ a[x][1] \in Old /\ a[x][2] \in 0..1 /\ f \in DOMAIN d.pipes
    BY <1>0, <1>1
  <2>7. r \in Places(c) /\ At(c, r) = A[i]
    BY <2>2, <2>4, <2>5, <2>6, PlaceMade
  <2>8. q \in Places(d) /\ At(d, q) = (A \o B)[i]
    BY <2>2, <2>3, <2>5, <2>6, PlaceMade
  <2> QED BY <2>2, <2>5, <2>6, <2>7, <2>8
<1>4. ASSUME NEW q, NEW r, FromB(c, f, a, b, q, r)
      PROVE  q \in Places(d) /\ r \in Places(c) /\ r[1] \in Old /\ At(d, q) = At(c, r)
  <2>1. PICK x \in 0..1 : \E i \in 1..Len(QueueOf(c, b[x])) :
               q = <<f, x, Len(QueueOf(c, a[x])) + i>> /\ r = <<b[x][1], b[x][2], i>>
    BY <1>4 DEF FromB
  <2>2. PICK i \in 1..Len(QueueOf(c, b[x])) :
          q = <<f, x, Len(QueueOf(c, a[x])) + i>> /\ r = <<b[x][1], b[x][2], i>>
    BY <2>1
  <2> DEFINE A == QueueOf(c, a[x])
             B == QueueOf(c, b[x])
             k == Len(A) + i
  <2>3. A \in Seq(Msgs) /\ B \in Seq(Msgs) /\ d.pipes[f].queues[x] = A \o B
    BY <1>1
  <2>4. c.pipes[b[x][1]].queues[b[x][2]] = B /\ i \in 1..Len(B) /\ q = <<f, x, k>>
    BY <2>2 DEF QueueOf
  <2> HIDE DEF A, B
  <2>5. i \in DOMAIN B /\ k \in DOMAIN (A \o B) /\ (A \o B)[k] = B[i]
    <3>1. /\ Len(A) \in Nat /\ Len(B) \in Nat /\ DOMAIN B = 1..Len(B)
          /\ DOMAIN (A \o B) = 1..(Len(A) + Len(B))
          /\ \A j \in 1..Len(B) : (A \o B)[Len(A) + j] = B[j]
      BY <1>2, <2>3
    <3> QED BY <2>4, <3>1
  <2> HIDE DEF k
  <2>6. b[x][1] \in DOMAIN c.pipes /\ b[x][1] \in Old /\ b[x][2] \in 0..1 /\ f \in DOMAIN d.pipes
    BY <1>0, <1>1
  <2>7. r \in Places(c) /\ At(c, r) = B[i]
    <3>1. i \in DOMAIN c.pipes[b[x][1]].queues[b[x][2]]
      BY <2>4, <2>5
    <3>2. r = <<b[x][1], b[x][2], i>>
      BY <2>2
    <3> QED BY <2>4, <2>6, <3>1, <3>2, PlaceMade
  <2>8. q \in Places(d) /\ At(d, q) = (A \o B)[k]
    <3>1. k \in DOMAIN d.pipes[f].queues[x]
      BY <2>3, <2>5
    <3>2. <<f, x, k>> \in Places(d) /\ At(d, <<f, x, k>>) = d.pipes[f].queues[x][k]
      BY <2>6, <3>1, PlaceMade
    <3> QED BY <2>3, <2>4, <3>2
  <2> QED BY <2>2, <2>5, <2>6, <2>7, <2>8
<1>5. ASSUME NEW q \in Places(d)
      PROVE  \/ q \in Places(c) /\ q[1] \notin Old /\ q[1] # f /\ At(d, q) = At(c, q)
             \/ \E r : FromA(c, f, a, q, r) \/ FromB(c, f, a, b, q, r)
  <2>1. /\ q = <<q[1], q[2], q[3]>> /\ q[1] \in DOMAIN d.pipes /\ q[2] \in 0..1
        /\ q[3] \in DOMAIN d.pipes[q[1]].queues[q[2]]
    BY PlaceParts
  <2>2. CASE q[1] = f
    <3> DEFINE A == QueueOf(c, a[q[2]])
               B == QueueOf(c, b[q[2]])
    <3>1. A \in Seq(Msgs) /\ B \in Seq(Msgs) /\ d.pipes[f].queues[q[2]] = A \o B
      BY <1>1, <2>1
    <3> HIDE DEF A, B
    <3>2. q[3] \in 1..(Len(A) + Len(B))
      BY <1>2, <2>1, <2>2, <3>1
    <3>3. q[3] \in 1..Len(A) \/ \E i \in 1..Len(B) : q[3] = Len(A) + i
      BY <1>2, <3>1, <3>2
    <3>4. CASE q[3] \in 1..Len(A)
      <4>1. FromA(c, f, a, q, <<a[q[2]][1], a[q[2]][2], q[3]>>)
        BY <2>1, <2>2, <3>4 DEF FromA, A
      <4> QED BY <4>1
    <3>5. CASE \E i \in 1..Len(B) : q[3] = Len(A) + i
      <4>1. PICK i \in 1..Len(B) : q[3] = Len(A) + i
        BY <3>5
      <4>2. FromB(c, f, a, b, q, <<b[q[2]][1], b[q[2]][2], i>>)
        BY <2>1, <2>2, <4>1 DEF FromB, A, B
      <4> QED BY <4>2
    <3> QED BY <3>3, <3>4, <3>5
  <2>3. CASE q[1] # f
    <3>1. q[1] \in DOMAIN c.pipes
      BY <1>0, <2>1, <2>3
    <3>2. q[1] \notin Old
      BY <1>0, <2>1, <3>1
    <3>3. d.pipes[q[1]].queues[q[2]] = c.pipes[q[1]].queues[q[2]]
      BY <1>0, <2>1, <3>1, <3>2
    <3>4. q \in Places(c) /\ At(c, q) = c.pipes[q[1]].queues[q[2]][q[3]]
      BY <2>1, <3>1, <3>3, PlaceMade
    <3> QED BY <2>3, <3>2, <3>3, <3>4 DEF At
  <2> QED BY <2>2, <2>3
<1>6. ASSUME NEW q \in Places(c)
      PROVE  /\ q[1] # f
             /\ q[1] \notin Old => q \in Places(d)
             /\ q[1] \in Old => \E r \in Places(d) : FromA(c, f, a, r, q) \/ FromB(c, f, a, b, r, q)
  <2>1. /\ q = <<q[1], q[2], q[3]>> /\ q[1] \in DOMAIN c.pipes /\ q[2] \in 0..1
        /\ q[3] \in DOMAIN c.pipes[q[1]].queues[q[2]]
        /\ c.pipes[q[1]].queues[q[2]] \in Seq(Msgs)
    BY PlaceParts
  <2>2. q[1] # f
    BY <1>0, <2>1
  <2>3. CASE q[1] \notin Old
    <3>1. q[1] \in DOMAIN d.pipes /\ q[3] \in DOMAIN d.pipes[q[1]].queues[q[2]]
      BY <1>0, <2>1, <2>3
    <3>2. q \in Places(d)
      BY <2>1, <3>1, PlaceMade
    <3> QED BY <2>2, <2>3, <3>2
  <2>4. CASE q[1] \in Old
    <3>1. PICK x \in 0..1 : <<q[1], q[2]>> = a[x] \/ <<q[1], q[2]>> = b[x]
      BY <1>0, <2>1, <2>4
    <3>2. q[3] \in 1..Len(c.pipes[q[1]].queues[q[2]])
      BY <2>1
    <3>3. CASE <<q[1], q[2]>> = a[x]
      <4>1. QueueOf(c, a[x]) = c.pipes[q[1]].queues[q[2]] /\ q = <<a[x][1], a[x][2], q[3]>>
        BY <2>1, <3>3 DEF QueueOf
      <4>2. FromA(c, f, a, <<f, x, q[3]>>, q)
        BY <3>2, <4>1 DEF FromA
      <4> QED BY <1>3, <2>2, <2>4, <4>2
    <3>4. CASE <<q[1], q[2]>> = b[x]
      <4>1. QueueOf(c, b[x]) = c.pipes[q[1]].queues[q[2]] /\ q = <<b[x][1], b[x][2], q[3]>>
        BY <2>1, <3>4 DEF QueueOf
      <4>2. FromB(c, f, a, b, <<f, x, Len(QueueOf(c, a[x])) + q[3]>>, q)
        BY <3>2, <4>1 DEF FromB
      <4> QED BY <1>4, <2>2, <2>4, <4>2
    <3> QED BY <3>1, <3>3, <3>4
  <2> QED BY <2>3, <2>4
<1> QED BY <1>3, <1>4, <1>5, <1>6

\* r and r1 are both the place that the message at q had.
FromUnique(c, f, a, b, q, r, r1) ==
  /\ FromA(c, f, a, q, r) \/ FromB(c, f, a, b, q, r)
  /\ FromA(c, f, a, q, r1) \/ FromB(c, f, a, b, q, r1)

(* There is only one.                                                      *)
LEMMA FromOne ==
  ASSUME NEW c, NEW f, NEW a, NEW b, NEW q, NEW r, NEW r1, FromUnique(c, f, a, b, q, r, r1),
         \A x \in 0..1 : Len(QueueOf(c, a[x])) \in Nat /\ Len(QueueOf(c, b[x])) \in Nat
  PROVE  r = r1
<1>1. ASSUME NEW v, FromA(c, f, a, q, v)
      PROVE  /\ q[2] \in 0..1 /\ q[3] \in 1..Len(QueueOf(c, a[q[2]]))
             /\ v = <<a[q[2]][1], a[q[2]][2], q[3]>>
  BY <1>1 DEF FromA
<1>2. ASSUME NEW v, FromB(c, f, a, b, q, v)
      PROVE  /\ q[2] \in 0..1 /\ q[3] > Len(QueueOf(c, a[q[2]]))
             /\ v = <<b[q[2]][1], b[q[2]][2], q[3] - Len(QueueOf(c, a[q[2]]))>>
  <2>1. PICK x \in 0..1 : \E i \in 1..Len(QueueOf(c, b[x])) :
          q = <<f, x, Len(QueueOf(c, a[x])) + i>> /\ v = <<b[x][1], b[x][2], i>>
    BY <1>2 DEF FromB
  <2> DEFINE n == Len(QueueOf(c, a[x]))
             m == Len(QueueOf(c, b[x]))
  <2>2. PICK i \in 1..m : q = <<f, x, n + i>> /\ v = <<b[x][1], b[x][2], i>>
    BY <2>1
  <2>3. n \in Nat /\ m \in Nat
    OBVIOUS
  <2>4. q[2] = x /\ q[3] = n + i
    BY <2>2
  <2>5. Len(QueueOf(c, a[q[2]])) = n
    BY <2>4
  <2> HIDE DEF n, m
  <2>6. q[3] > n /\ q[3] - n = i
    BY <2>2, <2>3, <2>4
  <2> QED BY <2>2, <2>4, <2>5, <2>6
<1>3. ~(q[3] \in 1..Len(QueueOf(c, a[q[2]])) /\ q[3] > Len(QueueOf(c, a[q[2]])) /\ q[2] \in 0..1)
  OBVIOUS
<1> QED BY <1>1, <1>2, <1>3 DEF FromUnique

\* The live ends are elsewhere, or the queue they write to is now at f.
EndsFollow(c, d, f, Old, b) ==
  \A h : IsA(d, h, "MessagePipe") =>
    /\ IsA(c, h, "MessagePipe") /\ c.slots[h].obj.id = d.slots[h].obj.id
    /\ \/ c.slots[h].obj.state \notin Old /\ d.slots[h].obj = c.slots[h].obj
       \/ \E x \in 0..1 : /\ b[x] = <<c.slots[h].obj.state, 1 - c.slots[h].obj.end>>
                          /\ f = d.slots[h].obj.state /\ x = 1 - d.slots[h].obj.end

(* WhpFuseMessagePipes' queues stay exact: nothing is lost or doubled, and *)
(* the messages of one writer, which were in one queue, stay in order.     *)
LEMMA ExactJoined ==
  ASSUME NEW c, NEW d, Typed(c), Typed(d), NEW rd, Exact(c, rd), NEW f, NEW Old, NEW a, NEW b,
         Joined(c, d, f, Old, a, b), d.writes = c.writes, Len(d.pipes) >= Len(c.pipes),
         EndsFollow(c, d, f, Old, b)
  PROVE  Exact(d, rd)
<1> DEFINE From(q, r) == FromA(c, f, a, q, r) \/ FromB(c, f, a, b, q, r)
           o == [q \in Places(d) |-> IF q[1] = f THEN CHOOSE r : From(q, r) ELSE q]
<1>1. \A q : q \in Places(d) =>
        \/ q \in Places(c) /\ q[1] \notin Old /\ q[1] # f /\ At(d, q) = At(c, q)
        \/ \E r : From(q, r)
  BY JoinedPlaces
<1>2. \A q \in Places(c) : /\ q[1] # f
                           /\ q[1] \notin Old => q \in Places(d)
                           /\ q[1] \in Old => \E r \in Places(d) : From(r, q)
  BY JoinedPlaces
<1>3. \A q, r : From(q, r) =>
        q \in Places(d) /\ r \in Places(c) /\ r[1] \in Old /\ At(d, q) = At(c, r)
  BY JoinedPlaces
<1>4. \A q, r : From(q, r) => q[1] = f
  BY DEF FromA, FromB
<1>5. \A x, y \in 0..1 : /\ a[x] # b[y] /\ (x # y => a[x] # a[y] /\ b[x] # b[y])
                         /\ a[x] = <<a[x][1], a[x][2]>> /\ b[x] = <<b[x][1], b[x][2]>>
                         /\ Len(QueueOf(c, a[x])) \in Nat /\ Len(QueueOf(c, b[x])) \in Nat
  <2>1. \A x \in 0..1 : a[x] \in Old \X (0..1) /\ b[x] \in Old \X (0..1)
                        /\ QueueOf(c, a[x]) \in Seq(Msgs) /\ QueueOf(c, b[x]) \in Seq(Msgs)
    BY DEF Joined
  <2>2. \A x, y \in 0..1 : a[x] # b[y] /\ (x # y => a[x] # a[y] /\ b[x] # b[y])
    BY DEF Joined
  <2> QED BY <2>1, <2>2
<1>a. ASSUME NEW u, NEW v, FromA(c, f, a, u, v)
      PROVE  \E x \in 0..1 : \E i \in 1..Len(QueueOf(c, a[x])) :
               u = <<f, x, i>> /\ <<v[1], v[2]>> = a[x] /\ v[3] = i
  BY <1>5, <1>a DEF FromA
<1>b. ASSUME NEW u, NEW v, FromB(c, f, a, b, u, v)
      PROVE  \E x \in 0..1 : \E i \in 1..Len(QueueOf(c, b[x])) :
               u = <<f, x, Len(QueueOf(c, a[x])) + i>> /\ <<v[1], v[2]>> = b[x] /\ v[3] = i
  BY <1>5, <1>b DEF FromB
<1>6. ASSUME NEW q, NEW r, NEW q1, NEW r1, From(q, r), From(q1, r1), SameQueue(r, r1)
      PROVE  /\ SameQueue(q, q1) /\ (q[3] < q1[3] => r[3] < r1[3])
             /\ r = r1 => q = q1
  <2>3. <<r[1], r[2]>> = <<r1[1], r1[2]>>
    BY <1>6 DEF SameQueue
  <2>4. CASE FromA(c, f, a, q, r) /\ FromA(c, f, a, q1, r1)
    <3>1. PICK x \in 0..1, i \in Nat : q = <<f, x, i>> /\ <<r[1], r[2]>> = a[x] /\ r[3] = i
      BY <1>5, <1>a, <2>4
    <3>2. PICK y \in 0..1, j \in Nat : q1 = <<f, y, j>> /\ <<r1[1], r1[2]>> = a[y] /\ r1[3] = j
      BY <1>5, <1>a, <2>4
    <3>3. x = y
      BY <1>5, <2>3, <3>1, <3>2
    <3> QED BY <3>1, <3>2, <3>3 DEF SameQueue
  <2>5. CASE FromB(c, f, a, b, q, r) /\ FromB(c, f, a, b, q1, r1)
    <3>1. PICK x \in 0..1 : \E i \in 1..Len(QueueOf(c, b[x])) :
            q = <<f, x, Len(QueueOf(c, a[x])) + i>> /\ <<r[1], r[2]>> = b[x] /\ r[3] = i
      BY <1>b, <2>5
    <3>2. PICK y \in 0..1 : \E i \in 1..Len(QueueOf(c, b[y])) :
            q1 = <<f, y, Len(QueueOf(c, a[y])) + i>> /\ <<r1[1], r1[2]>> = b[y] /\ r1[3] = i
      BY <1>b, <2>5
    <3>0. b[x] = b[y]
      BY <2>3, <3>1, <3>2
    <3>3. x = y
      BY <1>5, <3>0
    <3> DEFINE n == Len(QueueOf(c, a[x]))
    <3>4. PICK i \in Nat : q = <<f, x, n + i>> /\ r[3] = i
      BY <1>5, <3>1
    <3>5. PICK j \in Nat : q1 = <<f, x, n + j>> /\ r1[3] = j
      BY <1>5, <3>2, <3>3
    <3>6. n \in Nat
      BY <1>5
    <3> HIDE DEF n
    <3>7. q[3] = n + i /\ q1[3] = n + j /\ q[1] = q1[1] /\ q[2] = q1[2]
      BY <3>4, <3>5
    <3>8. q[3] < q1[3] => i < j
      BY <3>6, <3>7
    <3>9. r = r1 => q = q1
      BY <3>4, <3>5
    <3> QED BY <3>4, <3>5, <3>7, <3>8, <3>9 DEF SameQueue
  <2>6. CASE FromA(c, f, a, q, r) /\ FromB(c, f, a, b, q1, r1)
    <3>1. PICK x \in 0..1 : <<r[1], r[2]>> = a[x]
      BY <1>a, <2>6
    <3>2. PICK y \in 0..1 : <<r1[1], r1[2]>> = b[y]
      BY <1>b, <2>6
    <3> QED BY <1>5, <2>3, <3>1, <3>2
  <2>7. CASE FromB(c, f, a, b, q, r) /\ FromA(c, f, a, q1, r1)
    <3>1. PICK x \in 0..1 : <<r[1], r[2]>> = b[x]
      BY <1>b, <2>7
    <3>2. PICK y \in 0..1 : <<r1[1], r1[2]>> = a[y]
      BY <1>a, <2>7
    <3> QED BY <1>5, <2>3, <3>1, <3>2
  <2> QED BY <1>6, <2>4, <2>5, <2>6, <2>7
<1>7. ASSUME NEW q, NEW r, From(q, r), NEW x \in 0..1, <<r[1], r[2]>> = b[x]
      PROVE  q[1] = f /\ q[2] = x
  <2>1. ~FromA(c, f, a, q, r)
    BY <1>5, <1>7, <1>a
  <2>2. FromB(c, f, a, b, q, r)
    BY <1>7, <2>1
  <2>3. PICK y \in 0..1 : \E i \in 1..Len(QueueOf(c, b[y])) :
          q = <<f, y, Len(QueueOf(c, a[y])) + i>> /\ <<r[1], r[2]>> = b[y] /\ r[3] = i
    BY <1>b, <2>2
  <2>4. b[x] = b[y]
    BY <1>7, <2>3
  <2>5. x = y
    BY <1>5, <2>4
  <2> QED BY <2>3, <2>5
<1> HIDE DEF From
<1>8. \A q \in Places(d) : IF q[1] = f THEN From(q, o[q])
                           ELSE o[q] = q /\ q[1] \notin Old /\ q \in Places(c) /\ At(d, q) = At(c, q)
  <2> SUFFICES ASSUME NEW q \in Places(d)
               PROVE  IF q[1] = f THEN From(q, o[q])
                      ELSE o[q] = q /\ q[1] \notin Old /\ q \in Places(c) /\ At(d, q) = At(c, q)
    OBVIOUS
  <2>1. CASE q[1] = f
    <3>1. \E r : From(q, r)
      BY <1>1, <2>1
    <3> QED BY <2>1, <3>1
  <2>2. CASE q[1] # f
    <3>1. ~ \E r : From(q, r)
      BY <1>4, <2>2
    <3> QED BY <1>1, <2>2, <3>1
  <2> QED BY <2>1, <2>2
<1> HIDE DEF o
<1>9. \A q \in Places(d) : /\ o[q] \in Places(c) /\ At(d, q) = At(c, o[q])
                           /\ o[q][1] \in Old <=> q[1] = f
  BY <1>3, <1>8
<1>10. ASSUME NEW q \in Places(d), NEW r \in Places(d), SameQueue(o[q], o[r])
       PROVE  /\ SameQueue(q, r) /\ (q[3] < r[3] => o[q][3] < o[r][3])
              /\ o[q] = o[r] => q = r
  <2>1. CASE q[1] = f
    <3>1. r[1] = f
      BY <1>9, <1>10, <2>1 DEF SameQueue
    <3>2. From(q, o[q]) /\ From(r, o[r])
      BY <1>8, <2>1, <3>1
    <3> QED BY <1>6, <1>10, <3>2
  <2>2. CASE q[1] # f
    <3>1. r[1] # f
      BY <1>9, <1>10, <2>2 DEF SameQueue
    <3>2. o[q] = q /\ o[r] = r
      BY <1>8, <2>2, <3>1
    <3> QED BY <1>10, <3>2
  <2> QED BY <2>1, <2>2
<1>11. Moved(c, d, o, {})
  <2>1. \A q, r \in Places(d) : o[q] = o[r] => q = r
    BY <1>10 DEF SameQueue
  <2>2. ASSUME NEW q \in Places(c)
        PROVE  \E r \in Places(d) : o[r] = q
    <3>1. CASE q[1] \notin Old
      BY <1>2, <1>8, <3>1
    <3>2. CASE q[1] \in Old
      <4>1. PICK r \in Places(d) : From(r, q)
        BY <1>2, <3>2
      <4>2. r[1] = f
        BY <1>4, <4>1
      <4>3. From(r, o[r])
        BY <1>8, <4>2
      <4>4. q = o[r]
        <5>1. FromUnique(c, f, a, b, r, q, o[r])
          BY <4>1, <4>3 DEF FromUnique, From
        <5> QED BY <1>5, <5>1, FromOne
      <4> QED BY <4>4
    <3> QED BY <3>1, <3>2
  <2> QED BY <1>9, <2>1, <2>2 DEF Moved
<1>12. KeepsOrder(d, o)
  BY <1>10 DEF KeepsOrder
<1>13. KeepsWriters(c, d, o)
  <2> SUFFICES ASSUME NEW h, IsA(d, h, "MessagePipe"), NEW q \in Places(d),
                      o[q][1] = c.slots[h].obj.state, o[q][2] = 1 - c.slots[h].obj.end
               PROVE  q[1] = d.slots[h].obj.state /\ q[2] = 1 - d.slots[h].obj.end
    BY DEF KeepsWriters, EndsFollow
  <2>1. CASE c.slots[h].obj.state \notin Old /\ d.slots[h].obj = c.slots[h].obj
    BY <1>8, <1>9, <2>1
  <2>2. ASSUME NEW x \in 0..1, b[x] = <<c.slots[h].obj.state, 1 - c.slots[h].obj.end>>,
               f = d.slots[h].obj.state, x = 1 - d.slots[h].obj.end
        PROVE  q[1] = d.slots[h].obj.state /\ q[2] = 1 - d.slots[h].obj.end
    <3>1. <<o[q][1], o[q][2]>> = b[x]
      BY <2>2
    <3>2. o[q][1] \in Old
      <4>1. b[x] \in Old \X (0..1)
        BY DEF Joined
      <4> QED BY <3>1, <4>1
    <3>3. From(q, o[q])
      BY <1>8, <1>9, <3>2
    <3> QED BY <1>7, <2>2, <3>1, <3>3
  <2> QED BY <2>1, <2>2 DEF EndsFollow
<1>14. Exact(d, rd \cup {At(c, q).seq : q \in {}})
  BY <1>11, <1>12, <1>13, ExactMoved
<1>15. rd \cup {At(c, q).seq : q \in {}} = rd
  OBVIOUS
<1> QED BY <1>14, <1>15

(* A fusion joins the queues of the pipes of h0 and h1.                    *)
LEMMA ExactFused ==
  ASSUME NEW c, NEW d, Typed(c), Ends(c), NEW rd, Exact(c, rd), FuseStep(c, d)
  PROVE  Exact(d, rd)
<1>1. PICK h0, h1, k0, k1 : Fused(c, d, h0, h1, k0, k1)
  BY DEF FuseStep
<1> DEFINE f   == Len(c.pipes) + 1
           s0  == c.slots[h0].obj.state
           e0  == c.slots[h0].obj.end
           s1  == c.slots[h1].obj.state
           e1  == c.slots[h1].obj.end
           Old == {s0, s1}
           a   == [x \in 0..1 |-> IF x = 0 THEN <<s0, 1 - e0>> ELSE <<s1, 1 - e1>>]
           b   == [x \in 0..1 |-> IF x = 0 THEN <<s1, e1>> ELSE <<s0, e0>>]
<1>2. Fusible(c, h0, h1, k0, k1) /\ FusedEnds(c, d, h0, h1, k0, k1) /\ FusedPipes(c, d, h0, h1)
  BY <1>1 DEF Fused
<1>3. Typed(d) /\ d.writes = c.writes
  BY <1>1 DEF Fused
<1>4. /\ EndAt(c, h0, s0, e0) /\ EndAt(c, k0, s0, 1 - e0)
      /\ EndAt(c, h1, s1, e1) /\ EndAt(c, k1, s1, 1 - e1) /\ s0 # s1
  BY <1>2 DEF Fusible, EndAt
<1>5. /\ e0 \in 0..1 /\ e1 \in 0..1 /\ s0 \in DOMAIN c.pipes /\ s1 \in DOMAIN c.pipes
      /\ Len(c.pipes) \in Nat /\ DOMAIN c.pipes = 1..Len(c.pipes)
  BY <1>4, EndTyped DEF EndAt
<1>6. /\ Spliced(c.pipes, d.pipes, s0, s1, d.pipes[f])
      /\ d.pipes[f].queues[0] = c.pipes[s0].queues[1 - e0] \o c.pipes[s1].queues[e1]
      /\ d.pipes[f].queues[1] = c.pipes[s1].queues[1 - e1] \o c.pipes[s0].queues[e0]
  BY <1>2 DEF FusedPipes
<1>7. /\ \A h : IsA(d, h, "MessagePipe") <=> IsA(c, h, "MessagePipe") /\ h \notin {h0, h1}
      /\ \A h : IsA(d, h, "MessagePipe") /\ h \notin {k0, k1} => d.slots[h].obj = c.slots[h].obj
      /\ d.slots[k0].obj = [id |-> c.slots[k0].obj.id, state |-> f, end |-> 0]
      /\ d.slots[k1].obj = [id |-> c.slots[k1].obj.id, state |-> f, end |-> 1]
  BY <1>2 DEF FusedEnds
<1> HIDE DEF s0, e0, s1, e1
<1>8. /\ a[0] = <<s0, 1 - e0>> /\ a[1] = <<s1, 1 - e1>>
      /\ b[0] = <<s1, e1>> /\ b[1] = <<s0, e0>>
  OBVIOUS
<1>9. f \notin DOMAIN c.pipes /\ DOMAIN d.pipes = DOMAIN c.pipes \cup {f} /\ Len(d.pipes) = f
  <2>1. DOMAIN d.pipes = 1..(Len(c.pipes) + 1)
    BY <1>6 DEF Spliced
  <2>2. DOMAIN d.pipes = 1..Len(d.pipes) /\ Len(d.pipes) \in Nat
    BY <1>3 DEF Typed
  <2> QED BY <1>5, <2>1, <2>2
<1>10. 1 - e0 \in 0..1 /\ 1 - e1 \in 0..1 /\ 1 - e0 # e0 /\ 1 - e1 # e1
  BY <1>5
<1> HIDE DEF f, a, b
<1>11. \A p \in DOMAIN c.pipes, x \in 0..1 :
         d.pipes[p].queues[x] = IF p \in Old THEN <<>> ELSE c.pipes[p].queues[x]
  <2> SUFFICES ASSUME NEW p \in DOMAIN c.pipes, NEW x \in 0..1
               PROVE  d.pipes[p].queues[x] = IF p \in Old THEN <<>> ELSE c.pipes[p].queues[x]
    OBVIOUS
  <2>1. /\ p \in {s0, s1} => d.pipes[p].queues[0] = <<>> /\ d.pipes[p].queues[1] = <<>>
        /\ p \notin {s0, s1} => d.pipes[p] = c.pipes[p]
    BY <1>6 DEF Spliced
  <2>2. CASE p \in Old
    <3>1. d.pipes[p].queues[0] = <<>> /\ d.pipes[p].queues[1] = <<>>
      BY <2>1, <2>2
    <3>2. CASE x = 0
      BY <2>2, <3>1, <3>2
    <3>3. CASE x = 1
      BY <2>2, <3>1, <3>3
    <3> QED BY <3>2, <3>3
  <2>3. CASE p \notin Old
    BY <2>1, <2>3
  <2> QED BY <2>2, <2>3
<1> HIDE DEF Old
<1>12. \A p \in DOMAIN c.pipes, x \in 0..1 : c.pipes[p].queues[x] \in Seq(Msgs)
  <2>1. \A p \in DOMAIN c.pipes : c.pipes[p] \in PipeStates
    BY DEF Typed
  <2> QED BY <2>1 DEF PipeStates
<1>13. ASSUME NEW x \in 0..1
       PROVE  /\ a[x] \in Old \X (0..1) /\ b[x] \in Old \X (0..1)
              /\ QueueOf(c, a[x]) \in Seq(Msgs) /\ QueueOf(c, b[x]) \in Seq(Msgs)
              /\ d.pipes[f].queues[x] = QueueOf(c, a[x]) \o QueueOf(c, b[x])
  <2>1. x = 0 \/ x = 1
    OBVIOUS
  <2>2. /\ QueueOf(c, a[0]) = c.pipes[s0].queues[1 - e0] /\ QueueOf(c, b[0]) = c.pipes[s1].queues[e1]
        /\ QueueOf(c, a[1]) = c.pipes[s1].queues[1 - e1] /\ QueueOf(c, b[1]) = c.pipes[s0].queues[e0]
    BY <1>8 DEF QueueOf
  <2>3. s0 \in Old /\ s1 \in Old
    BY DEF Old
  <2>4. /\ a[0] \in Old \X (0..1) /\ b[0] \in Old \X (0..1)
        /\ a[1] \in Old \X (0..1) /\ b[1] \in Old \X (0..1)
    BY <1>5, <1>8, <1>10, <2>3
  <2>5. /\ QueueOf(c, a[0]) \in Seq(Msgs) /\ QueueOf(c, b[0]) \in Seq(Msgs)
        /\ QueueOf(c, a[1]) \in Seq(Msgs) /\ QueueOf(c, b[1]) \in Seq(Msgs)
    BY <1>5, <1>10, <1>12, <2>2
  <2>6. /\ d.pipes[f].queues[0] = QueueOf(c, a[0]) \o QueueOf(c, b[0])
        /\ d.pipes[f].queues[1] = QueueOf(c, a[1]) \o QueueOf(c, b[1])
    BY <1>6, <2>2
  <2>7. CASE x = 0
    BY <2>4, <2>5, <2>6, <2>7
  <2>8. CASE x = 1
    BY <2>4, <2>5, <2>6, <2>8
  <2> QED BY <2>1, <2>7, <2>8
<1>14. \A x, y \in 0..1 : a[x] # b[y] /\ (x # y => a[x] # a[y] /\ b[x] # b[y])
  <2>1. a[0] # b[0] /\ a[0] # b[1] /\ a[1] # b[0] /\ a[1] # b[1] /\ a[0] # a[1] /\ b[0] # b[1]
    BY <1>4, <1>8, <1>10
  <2>2. \A x \in 0..1 : x = 0 \/ x = 1
    OBVIOUS
  <2> QED BY <2>1, <2>2
<1>15. \A p \in Old, y \in 0..1 : \E x \in 0..1 : <<p, y>> = a[x] \/ <<p, y>> = b[x]
  <2> SUFFICES ASSUME NEW p \in Old, NEW y \in 0..1
               PROVE  \E x \in {0, 1} : <<p, y>> = a[x] \/ <<p, y>> = b[x]
    OBVIOUS
  <2>1. (y = e0 \/ y = 1 - e0) /\ (y = e1 \/ y = 1 - e1)
    BY <1>5
  <2> QED BY <1>8, <2>1 DEF Old
<1>16. Joined(c, d, f, Old, a, b)
  <2>1. Old \subseteq DOMAIN c.pipes
    BY <1>5 DEF Old
  <2> QED BY <1>9, <1>11, <1>13, <1>14, <1>15, <2>1 DEF Joined
<1>17. EndsFollow(c, d, f, Old, b)
  <2> SUFFICES ASSUME NEW h, IsA(d, h, "MessagePipe")
               PROVE  /\ IsA(c, h, "MessagePipe") /\ c.slots[h].obj.id = d.slots[h].obj.id
                      /\ \/ c.slots[h].obj.state \notin Old /\ d.slots[h].obj = c.slots[h].obj
                         \/ \E x \in 0..1 :
                              /\ b[x] = <<c.slots[h].obj.state, 1 - c.slots[h].obj.end>>
                              /\ f = d.slots[h].obj.state /\ x = 1 - d.slots[h].obj.end
    BY DEF EndsFollow
  <2>1. IsA(c, h, "MessagePipe") /\ h \notin {h0, h1}
    BY <1>7
  <2>2. CASE h = k0
    <3>1. /\ d.slots[h].obj.id = c.slots[h].obj.id /\ d.slots[h].obj.state = f
          /\ d.slots[h].obj.end = 0
      BY <1>7, <2>2
    <3>2. c.slots[h].obj.state = s0 /\ c.slots[h].obj.end = 1 - e0
      BY <1>4, <2>2 DEF EndAt
    <3>3. 1 - (1 - e0) = e0 /\ 1 - 0 = 1 /\ 1 \in 0..1
      BY <1>5
    <3> QED BY <1>8, <2>1, <3>1, <3>2, <3>3
  <2>3. CASE h = k1
    <3>1. /\ d.slots[h].obj.id = c.slots[h].obj.id /\ d.slots[h].obj.state = f
          /\ d.slots[h].obj.end = 1
      BY <1>7, <2>3
    <3>2. c.slots[h].obj.state = s1 /\ c.slots[h].obj.end = 1 - e1
      BY <1>4, <2>3 DEF EndAt
    <3>3. 1 - (1 - e1) = e1 /\ 1 - 1 = 0 /\ 0 \in 0..1
      BY <1>5
    <3> QED BY <1>8, <2>1, <3>1, <3>2, <3>3
  <2>4. CASE h \notin {k0, k1}
    <3>1. d.slots[h].obj = c.slots[h].obj
      BY <1>7, <2>4
    <3> DEFINE s == c.slots[h].obj.state
               e == c.slots[h].obj.end
    <3>2. EndAt(c, h, s, e) /\ e \in 0..1
      BY <2>1, EndTyped
    <3> HIDE DEF s, e
    <3>3. (e = e0 \/ e = 1 - e0) /\ (e = e1 \/ e = 1 - e1)
      BY <1>5, <3>2
    <3>4. s # s0 /\ s # s1
      BY <1>4, <2>1, <2>4, <3>2, <3>3 DEF Ends, OneHolder
    <3> QED BY <2>1, <3>1, <3>4 DEF Old, s
  <2> QED BY <2>2, <2>3, <2>4
<1>18. Len(d.pipes) >= Len(c.pipes)
  BY <1>5, <1>9 DEF f
<1> QED BY <1>3, <1>16, <1>17, <1>18, ExactJoined

(* Every step keeps the messages exact.                                    *)
LEMMA ExactStep ==
  ASSUME Typed(core), Typed(core'), Ends(core), Exact(core, read), Step
  PROVE  Exact(core', read')
<1> DEFINE c == core
           d == core'
<1>0. ASSUME NEW Gone, SameEnds(c, d, Gone), d.writes = c.writes,
             \/ d.pipes = c.pipes
             \/ SamePipes(c, d)
             \/ \E s, e : EndClosed(c.pipes, d.pipes, s, e)
      PROVE  Exact(d, read)
  <2>1. /\ DOMAIN d.pipes = DOMAIN c.pipes
        /\ \A p \in DOMAIN c.pipes, e \in 0..1 : d.pipes[p].queues[e] = c.pipes[p].queues[e]
    BY <1>0 DEF SamePipes, EndClosed
  <2> QED BY <1>0, <2>1, ExactSameQueues
<1>1. ASSUME CalmStep(c, d) PROVE Exact(d, read)
  BY <1>0, <1>1 DEF CalmStep, Calm
<1>2. ASSUME PipeStep(c, d) PROVE Exact(d, read)
  BY <1>2, ExactPipe
<1>3. ASSUME CollectStep(c, d) PROVE Exact(d, read)
  BY <1>0, <1>3 DEF CollectStep, Collecting
<1>4. ASSUME AcceptStep(c, d) PROVE Exact(d, read)
  BY <1>4, ExactAccepted
<1>5. ASSUME FuseStep(c, d) PROVE Exact(d, read)
  BY <1>5, ExactFused
<1>6. ASSUME TrapStep(c, d) PROVE Exact(d, read)
  <2>1. PICK n : TrapMade(c, d, n)
    BY <1>6 DEF TrapStep
  <2>2. SameEnds(c, d, {}) /\ d.pipes = c.pipes /\ d.writes = c.writes
    BY <2>1 DEF TrapMade
  <2> QED BY <1>0, <2>2
<1>7. ASSUME NEW th, NEW o, TrapChanged(c, d, th, o)
      PROVE  Exact(d, read)
  BY <1>0, <1>7 DEF TrapChanged
<1>8. ASSUME AddStep(c, d) PROVE Exact(d, read)
  BY <1>7, <1>8, Zenon DEF AddStep
<1>9. ASSUME ArmStep(c, d) PROVE Exact(d, read)
  BY <1>7, <1>9, Zenon DEF ArmStep
<1>10. ASSUME ClosePipeStep(c, d) PROVE Exact(d, read)
  <2>1. PICK h : Collecting(c, d, {h}) /\ d.writes = c.writes
                 /\ EndClosed(c.pipes, d.pipes, c.slots[h].obj.state, c.slots[h].obj.end)
    BY <1>10 DEF ClosePipeStep
  <2> QED BY <1>0, <2>1 DEF Collecting
<1>11. ASSUME CloseTrapStep(c, d) PROVE Exact(d, read)
  <2>1. PICK h : TrapClosed(c, d, h)
    BY <1>11 DEF CloseTrapStep
  <2>2. SameEnds(c, d, {}) /\ d.pipes = c.pipes /\ d.writes = c.writes
    BY <2>1 DEF TrapClosed
  <2> QED BY <1>0, <2>2
<1>12. ASSUME TakeStep(c, d) PROVE Exact(d, read)
  BY <1>0, <1>12 DEF TakeStep
<1>13. ASSUME PlainStep(c, d) PROVE Exact(d, read)
  <2>1. CASE d = c
    BY <2>1
  <2> HIDE DEF c, d
  <2> QED BY <1>1, <1>2, <1>3, <1>4, <1>5, <1>6, <1>8, <1>9, <1>10, <1>11, <1>12, <1>13, <2>1
          DEF PlainStep
<1>14. ASSUME NEW h, ReadStep(c, d, h)
       PROVE  Exact(d, read \cup {Head(Inbound(c, h)).seq})
  BY <1>14, ExactRead
<1>15. ASSUME NEW th, NEW context, RemoveStep(c, d, th, context)
       PROVE  Exact(d, read)
  BY <1>7, <1>15, Zenon DEF RemoveStep
<1>16. CASE PlainStep(c, d) /\ read' = read
  BY <1>13, <1>16
<1>17. ASSUME NEW h, ReadStep(c, d, h), read' = read \cup {Head(Inbound(c, h)).seq}
       PROVE  Exact(d, read')
  BY <1>14, <1>17
<1>18. ASSUME NEW th, NEW context, RemoveStep(c, d, th, context), read' = read
       PROVE  Exact(d, read')
  BY <1>15, <1>18
<1> QED BY <1>16, <1>17, <1>18 DEF Step

LEMMA ExactInit ==
  ASSUME Init
  PROVE  Exact(core, read)
<1>1. core.pipes = <<>> /\ core.writes = 0 /\ read = {}
  BY DEF Init, InitCore
<1>2. \A q : q \notin Places(core)
  BY <1>1, PlaceDef DEF IsPlace
<1>3. NoneLost(core, read)
  BY <1>1, <1>2 DEF NoneLost
<1> QED BY <1>2, <1>3 DEF Exact, WritersInOrder, WritersKnown

(* Of the messages that WhpWriteMessage accepted none is lost, doubled or  *)
(* overtaken by a later one of the same writer, fusions included.  By      *)
(* itself this is not inductive: a fusion could bring messages of one      *)
(* writer into one queue in the wrong order.  The invariant adds that all  *)
(* messages of a writer are in one queue, that of its peer while the       *)
(* writer is live.                                                         *)
THEOREM QueuesTheorem == Spec => []QueuesAreExact
<1> DEFINE Inv == Typed(core) /\ Ends(core) /\ Exact(core, read)
<1>1. Init => Inv
  BY TypedInit, EndsInit, ExactInit
<1>2. Inv /\ [Next]_vars => Inv'
  <2> SUFFICES ASSUME Inv, [Next]_vars
               PROVE  Typed(core') /\ Ends(core') /\ Exact(core', read')
    OBVIOUS
  <2>1. Step
    BY NextSteps
  <2>2. Typed(core')
    BY <2>1, TypedStep
  <2> QED BY <2>1, <2>2, EndsStep, ExactStep
<1>3. Inv => QueuesAreExact
  <2> SUFFICES ASSUME Inv PROVE NoLossNoDup /\ WriterOrder
    BY DEF QueuesAreExact
  <2>1. QueuedAt = Places(core) /\ \A q : Queued(q) = At(core, q)
    BY DEF QueuedAt, Places, Queued, At
  <2>2. {Queued(q).seq : q \in QueuedAt} = (1..core.writes) \ read
    BY <2>1 DEF Exact, NoneLost
  <2>3. \A q, r \in QueuedAt : Queued(q).seq = Queued(r).seq => q = r
    BY <2>1 DEF Exact, NoneLost
  <2>4. WriterOrder
    BY <2>1 DEF WriterOrder, Exact, WritersInOrder
  <2> QED BY <2>2, <2>3, <2>4 DEF NoLossNoDup
<1> QED BY <1>1, <1>2, <1>3, PTL DEF Spec

(* WhpWriteMessage keeps the queue it appends to within the quotas of its  *)
(* reader; no other operation makes a queue longer, a fusion neither: what *)
(* it joins is in a new pipe state.                                        *)
THEOREM QuotaTheorem == Spec => QuotaHonoured
<1> DEFINE Within(c, d) ==
      \A p \in DOMAIN c.pipes, e \in 0..1 :
        Len(d.pipes[p].queues[e]) > Len(c.pipes[p].queues[e]) =>
          /\ Len(d.pipes[p].queues[e]) <= c.pipes[p].quota_count[e]
          /\ QueueBytes(d.pipes[p].queues[e]) <= c.pipes[p].quota_bytes[e]
<1>1. Init => Typed(core)
  BY TypedInit
<1>2. Typed(core) /\ [Next]_vars => Typed(core)'
  <2> SUFFICES ASSUME Typed(core), [Next]_vars PROVE Typed(core')
    OBVIOUS
  <2> QED BY NextSteps, TypedStep
<1>3. ASSUME Typed(core), [Next]_vars
      PROVE  Within(core, core')
  <2> DEFINE c == core
             d == core'
  <2>1. \A p \in DOMAIN c.pipes, e \in 0..1 :
          c.pipes[p].queues[e] \in Seq(Msgs) /\ Len(c.pipes[p].queues[e]) \in Nat
    <3>1. \A p \in DOMAIN c.pipes : c.pipes[p] \in PipeStates
      BY <1>3 DEF Typed
    <3> QED BY <3>1 DEF PipeStates
  <2>2. Step
    BY <1>3, NextSteps
  <2>3. ASSUME \A p \in DOMAIN c.pipes, e \in 0..1 :
                 d.pipes[p].queues[e] = c.pipes[p].queues[e] \/ d.pipes[p].queues[e] = <<>>
        PROVE  Within(c, d)
    <3> SUFFICES ASSUME NEW p \in DOMAIN c.pipes, NEW e \in 0..1,
                        Len(d.pipes[p].queues[e]) > Len(c.pipes[p].queues[e])
                 PROVE  FALSE
      OBVIOUS
    <3> DEFINE m == Len(c.pipes[p].queues[e])
               n == Len(d.pipes[p].queues[e])
    <3>1. m \in Nat /\ n > m
      BY <2>1
    <3>2. n = m \/ n = 0
      BY <2>3
    <3> HIDE DEF m, n
    <3> QED BY <3>1, <3>2
  <2>4. CASE AcceptStep(c, d)
    <3>1. PICK h, msg : Accepted(c, d, h, msg)
      BY <2>4 DEF AcceptStep
    <3> DEFINE s   == c.slots[h].obj.state
               x   == 1 - c.slots[h].obj.end
               old == c.pipes[s].queues[x]
    <3>2. /\ IsA(c, h, "MessagePipe") /\ msg \in Msgs
          /\ Len(old) < c.pipes[s].quota_count[x]
          /\ QueueBytes(old) + msg.size <= c.pipes[s].quota_bytes[x]
          /\ QueueSet(c.pipes, d.pipes, s, x, Append(old, msg))
      BY <3>1 DEF Accepted, PeerOf
    <3>3. s \in DOMAIN c.pipes /\ x \in 0..1
      <4>1. s \in DOMAIN c.pipes /\ c.slots[h].obj.end \in 0..1
        BY <1>3, <3>2, EndTyped
      <4> QED BY <4>1
    <3>4. old \in Seq(Msgs) /\ c.pipes[s].quota_count[x] \in Nat
      <4>1. c.pipes[s] \in PipeStates
        BY <1>3, <3>3 DEF Typed
      <4> QED BY <2>1, <3>3, <4>1 DEF PipeStates
    <3>5. \A m \in Msgs : m.size \in Nat
      BY DEF Msgs
    <3> HIDE DEF old, s, x
    <3>6. QueueBytes(Append(old, msg)) = QueueBytes(old) + msg.size
      BY <3>2, <3>4, <3>5, QueueBytesAppend
    <3>7. Len(Append(old, msg)) = Len(old) + 1 /\ Len(old) \in Nat
      BY <3>2, <3>4
    <3>8. ASSUME NEW p \in DOMAIN c.pipes, NEW e \in 0..1,
                 Len(d.pipes[p].queues[e]) > Len(c.pipes[p].queues[e])
          PROVE  /\ Len(d.pipes[p].queues[e]) <= c.pipes[p].quota_count[e]
                 /\ QueueBytes(d.pipes[p].queues[e]) <= c.pipes[p].quota_bytes[e]
      <4>1. CASE p = s /\ e = x
        <5>1. d.pipes[p].queues[e] = Append(old, msg)
          BY <3>2, <4>1 DEF QueueSet
        <5> QED BY <3>2, <3>4, <3>6, <3>7, <4>1, <5>1
      <4>2. CASE ~(p = s /\ e = x)
        <5>1. d.pipes[p].queues[e] = c.pipes[p].queues[e]
          BY <3>2, <4>2 DEF QueueSet
        <5> QED BY <2>1, <3>8, <5>1
      <4> QED BY <4>1, <4>2
    <3> QED BY <3>8
  <2>5. CASE FuseStep(c, d)
    <3>1. PICK h0, h1, k0, k1 : Fused(c, d, h0, h1, k0, k1)
      BY <2>5 DEF FuseStep
    <3>2. FusedPipes(c, d, h0, h1)
      BY <3>1 DEF Fused
    <3>3. \A p \in DOMAIN c.pipes, e \in 0..1 :
            d.pipes[p].queues[e] = c.pipes[p].queues[e] \/ d.pipes[p].queues[e] = <<>>
      <4> SUFFICES ASSUME NEW p \in DOMAIN c.pipes, NEW e \in 0..1
                   PROVE  d.pipes[p].queues[e] = c.pipes[p].queues[e] \/ d.pipes[p].queues[e] = <<>>
        OBVIOUS
      <4>1. \/ d.pipes[p].queues[0] = <<>> /\ d.pipes[p].queues[1] = <<>>
            \/ d.pipes[p] = c.pipes[p]
        BY <3>2 DEF FusedPipes, Spliced
      <4>2. CASE e = 0
        BY <4>1, <4>2
      <4>3. CASE e = 1
        BY <4>1, <4>3
      <4> QED BY <4>2, <4>3
    <3> QED BY <2>3, <3>3
  <2>6. CASE PipeStep(c, d)
    <3>1. PICK n0, n1 : PipeMade(c, d, n0, n1)
      BY <2>6 DEF PipeStep
    <3>2. \A p \in DOMAIN c.pipes : d.pipes[p] = c.pipes[p]
      BY <1>3, <3>1 DEF PipeMade, Typed
    <3> QED BY <2>3, <3>2
  <2>7. ASSUME \/ d.pipes = c.pipes
               \/ SamePipes(c, d)
               \/ \E s, e : EndClosed(c.pipes, d.pipes, s, e)
        PROVE  Within(c, d)
    <3>1. \A p \in DOMAIN c.pipes, e \in 0..1 : d.pipes[p].queues[e] = c.pipes[p].queues[e]
      BY <2>7 DEF SamePipes, EndClosed
    <3> QED BY <2>3, <3>1
  <2>8. CASE CalmStep(c, d) \/ CollectStep(c, d) \/ TakeStep(c, d) \/ d = c
    BY <2>7, <2>8 DEF CalmStep, CollectStep, TakeStep
  <2>9. CASE TrapStep(c, d) \/ CloseTrapStep(c, d)
    <3>1. d.pipes = c.pipes
      BY <2>9 DEF TrapStep, CloseTrapStep, TrapMade, TrapClosed
    <3> QED BY <2>7, <3>1
  <2>10. ASSUME NEW th, NEW o, TrapChanged(c, d, th, o)
         PROVE  Within(c, d)
    BY <2>7, <2>10 DEF TrapChanged
  <2>11. CASE AddStep(c, d)
    BY <2>10, <2>11, Zenon DEF AddStep
  <2>12. CASE ArmStep(c, d)
    BY <2>10, <2>12, Zenon DEF ArmStep
  <2>13. CASE ClosePipeStep(c, d)
    BY <2>7, <2>13 DEF ClosePipeStep
  <2>14. ASSUME NEW h, ReadStep(c, d, h)
         PROVE  Within(c, d)
    <3> DEFINE s   == c.slots[h].obj.state
               e   == c.slots[h].obj.end
               old == c.pipes[s].queues[e]
    <3>1. /\ IsA(c, h, "MessagePipe") /\ old # <<>>
          /\ QueueSet(c.pipes, d.pipes, s, e, Tail(old))
      BY <2>14 DEF ReadStep, Inbound, Outbound
    <3>2. s \in DOMAIN c.pipes /\ e \in 0..1
      BY <1>3, <3>1, EndTyped
    <3>3. Len(Tail(old)) = Len(old) - 1 /\ Len(old) \in Nat
      <4>1. old \in Seq(Msgs)
        BY <2>1, <3>2
      <4> HIDE DEF old
      <4> QED BY <3>1, <4>1
    <3> HIDE DEF s, e
    <3>4. ASSUME NEW p \in DOMAIN c.pipes, NEW y \in 0..1
          PROVE  ~(Len(d.pipes[p].queues[y]) > Len(c.pipes[p].queues[y]))
      <4>1. CASE p = s /\ y = e
        <5>1. d.pipes[p].queues[y] = Tail(old) /\ c.pipes[p].queues[y] = old
          BY <3>1, <4>1 DEF QueueSet
        <5> HIDE DEF old
        <5>2. Len(d.pipes[p].queues[y]) = Len(old) - 1 /\ Len(c.pipes[p].queues[y]) = Len(old)
          BY <3>3, <5>1
        <5> QED BY <3>3, <5>2
      <4>2. CASE ~(p = s /\ y = e)
        <5>1. d.pipes[p].queues[y] = c.pipes[p].queues[y]
          BY <3>1, <4>2 DEF QueueSet
        <5>2. Len(c.pipes[p].queues[y]) \in Nat
          BY <2>1
        <5> QED BY <5>1, <5>2
      <4> QED BY <4>1, <4>2
    <3> QED BY <3>4
  <2>15. ASSUME NEW th, NEW context, RemoveStep(c, d, th, context)
         PROVE  Within(c, d)
    BY <2>10, <2>15, Zenon DEF RemoveStep
  <2> HIDE DEF Within
  <2> QED BY <2>2, <2>4, <2>5, <2>6, <2>8, <2>9, <2>11, <2>12, <2>13, <2>14, <2>15
          DEF Step, PlainStep
<1>4. Typed(core) /\ [Next]_vars =>
        [\A p \in DOMAIN core.pipes, e \in 0..1 :
           Len(core'.pipes[p].queues[e]) > Len(core.pipes[p].queues[e]) =>
             /\ Len(core'.pipes[p].queues[e]) <= core.pipes[p].quota_count[e]
             /\ QueueBytes(core'.pipes[p].queues[e]) <= core.pipes[p].quota_bytes[e]]_vars
  BY <1>3
<1> QED BY <1>1, <1>2, <1>4, PTL DEF Spec, QuotaHonoured

=============================================================================
