------------------------ MODULE SimpleWatcherProofs ------------------------
(***************************************************************************)
(* Proofs about SimpleWatcher.  Every action is a use of the member        *)
(* functions that WatcherLemmas is about, or an operation of another       *)
(* client of the core that leaves the traps alone.                         *)
(***************************************************************************)
EXTENDS SimpleWatcher, WatcherLemmas

\* What every state has, before any property of the wakeups.
Inv ==
  /\ Sound(State, {}) /\ DOMAIN watcher = Watchers
  /\ Posted(running, watcher, {})

(* The record of the variables after a step.                               *)
LEMMA BecomesSound ==
  ASSUME NEW r, Sound(r, {}), core' = r.core, table' = r.table, watcher' = r.watcher,
         tasks' = r.tasks
  PROVE  Sound([core |-> core', table |-> table', watcher |-> watcher', tasks |-> tasks'], {})
BY DEF Sound

\* The invariant after a step.
InvAfter ==
  /\ Sound([core |-> core', table |-> table', watcher |-> watcher', tasks |-> tasks'], {})
  /\ DOMAIN watcher' = Watchers /\ Posted(running', watcher', {})

LEMMA InvNext ==
  ASSUME InvAfter
  PROVE  Inv'
BY DEF Inv, InvAfter, State

(* The tasks that run are of watchers there are.                           *)
LEMMA RunningKept ==
  ASSUME Inv, NEW V, DOMAIN V = Watchers
  PROVE  Posted(running, V, {})
BY DEF Inv, Posted

LEMMA InvInit ==
  ASSUME Init
  PROVE  Inv
<1> DEFINE c1 == WhpCreateMessagePipe(InitCore)
           c2 == WhpCreateMessagePipe(c1)
<1>1. Typed(InitCore)
  <2>1. Table(InitCore) /\ TrapList(InitCore)
    BY DEF InitCore, Table, Shape, CoreFields, FreeListExactIn, IsInjective, TrapList
  <2>2. InitCore.pipes \in Seq(PipeStates) /\ InitCore.pending_events \in Seq({})
    BY DEF InitCore
  <2> QED BY <2>1, <2>2 DEF Typed, InitCore
<1>2. ASSUME NEW c, Typed(c), \A h : ~IsA(c, h, "Trap"), c.pending_events = <<>>
      PROVE  LET d == WhpCreateMessagePipe(c)
             IN  Typed(d) /\ (\A h : ~IsA(d, h, "Trap")) /\ d.pending_events = <<>>
  <2> DEFINE d == WhpCreateMessagePipe(c)
  <2>1. Typed(d) /\ \E n0, n1 : PipeMade(c, d, n0, n1)
    BY <1>2, CreateMessagePipeEffect
  <2> HIDE DEF d
  <2>2. PICK n0, n1 : PipeMade(c, d, n0, n1)
    BY <2>1
  <2>3. \A h : ~IsA(d, h, "Trap")
    BY <1>2, <2>2 DEF PipeMade, IsA, Lookup
  <2> QED BY <1>2, <2>1, <2>2, <2>3 DEF PipeMade, d
<1>3. (\A h : ~IsA(InitCore, h, "Trap")) /\ InitCore.pending_events = <<>>
  BY DEF InitCore, IsA, Lookup
<1>4. Typed(c1) /\ (\A h : ~IsA(c1, h, "Trap")) /\ c1.pending_events = <<>>
  BY <1>1, <1>2, <1>3
<1>5. Typed(c2) /\ (\A h : ~IsA(c2, h, "Trap")) /\ c2.pending_events = <<>>
  BY <1>2, <1>4
<1>6. core = c1 \/ core = c2
  BY DEF Init
<1> HIDE DEF c1, c2
<1>7. Typed(core) /\ (\A h : ~IsA(core, h, "Trap")) /\ core.pending_events = <<>>
  BY <1>4, <1>5, <1>6
<1>8. TableSound(table) /\ \A i : ~UsedAt(table, i)
  BY DEF Init, EmptyTable, TableSound, ListSound, UsedAt, FreeAt, kNullHandle
<1>9. /\ DOMAIN watcher = Watchers
      /\ \A w \in Watchers : /\ DOMAIN watcher[w] = WatcherFields
                             /\ watcher[w].trap = 0 /\ watcher[w].watcher_handle = 0
  BY DEF Init, Fresh, WatcherFields, MOJO_HANDLE_INVALID, kNullHandle
<1>10. Linked(core, table, watcher)
  BY <1>7, <1>8, <1>9 DEF Linked
<1>11. Posted(tasks, watcher, {}) /\ Posted(running, watcher, {})
  <2>1. tasks = <<>> /\ running = <<>> /\ <<>> \in Seq({}) /\ DOMAIN <<>> = {}
    BY DEF Init
  <2> QED BY <2>1 DEF Posted
<1> QED BY <1>7, <1>8, <1>9, <1>10, <1>11 DEF Inv, State, Sound

(* The steps of the watchers' thread and of the executor.                  *)
LEMMA InvBecomes ==
  ASSUME Inv, NEW r, Sound(r, {}), DOMAIN r.watcher = Watchers, Becomes(r), UNCHANGED running
  PROVE  InvAfter
<1>1. Sound([core |-> core', table |-> table', watcher |-> watcher', tasks |-> tasks'], {})
  BY BecomesSound DEF Becomes
<1>2. DOMAIN watcher' = Watchers
  BY DEF Becomes
<1>3. Posted(running, watcher', {})
  BY <1>2, RunningKept
<1>4. running' = running
  OBVIOUS
<1> QED BY <1>1, <1>2, <1>3, <1>4 DEF InvAfter

(* The steps that leave all but the core alone.                            *)
LEMMA InvCore ==
  ASSUME Inv, Typed(core'), SameTraps(core, core'), NewEvents(core, core'),
         UNCHANGED <<table, watcher, tasks, running>>
  PROVE  InvAfter
<1> DEFINE r == [core |-> core', table |-> table, watcher |-> watcher, tasks |-> tasks]
<1>1. /\ DOMAIN r = DOMAIN State /\ r.core = core' /\ r.table = State.table
      /\ r.watcher = State.watcher /\ r.tasks = State.tasks /\ State.core = core
      /\ r.table = table /\ r.watcher = watcher /\ r.tasks = tasks
  BY DEF State
<1>2. Sound(State, {})
  BY DEF Inv
<1> HIDE DEF r
<1>3. Sound(r, {})
  BY <1>1, <1>2, CoreSound
<1> QED BY <1>1, <1>3, InvBecomes DEF Becomes, Inv

(* The pump in front of a task.                                            *)
LEMMA PumpedState ==
  ASSUME Inv
  PROVE  LET s == Pumped(State)
         IN  Sound(s, {}) /\ s.watcher = watcher /\ s.table = table
<1>1. Sound(State, {}) /\ State.watcher = watcher /\ State.table = table
  BY DEF Inv, State
<1> QED BY <1>1, PumpedSound

(* Every task is a watcher's here.                                         *)
LEMMA TaskTaken ==
  ASSUME NEW s, Sound(s, {}), s.tasks # <<>>
  PROVE  LET r == [s EXCEPT !.tasks = Tail(@)]
             t == Head(s.tasks)
         IN  /\ Sound(r, {}) /\ r.core = s.core /\ r.watcher = s.watcher /\ r.table = s.table
             /\ r.tasks = Tail(s.tasks)
             /\ t.watcher \in DOMAIN s.watcher /\ t.trap_at_post # 0
<1> DEFINE r == [s EXCEPT !.tasks = Tail(@)]
           t == Head(s.tasks)
<1>1. /\ Sound(r, {}) /\ r.core = s.core /\ r.watcher = s.watcher /\ r.table = s.table
      /\ r.tasks = Tail(s.tasks)
  BY TailSound
<1>2. Posted(s.tasks, s.watcher, {}) /\ 1 \in DOMAIN s.tasks /\ t = s.tasks[1]
  BY DEF Sound, Posted
<1> HIDE DEF r, t
<1>3. t.watcher \in DOMAIN s.watcher /\ t.trap_at_post # 0
  BY <1>2 DEF Posted
<1> QED BY <1>1, <1>3 DEF r, t

(* The destructor starts.                                                  *)
LEMMA DestroyedSound ==
  ASSUME Sound(State, {}), DOMAIN watcher = Watchers, NEW w \in Watchers
  PROVE  Sound([State EXCEPT !.watcher[w].alive = FALSE], {})
<1> DEFINE s == [State EXCEPT !.watcher[w].alive = FALSE]
<1>1. State.watcher = watcher
  BY DEF State
<1>2. /\ DOMAIN s = DOMAIN State /\ s.core = State.core /\ s.table = State.table
      /\ s.tasks = State.tasks /\ DOMAIN s.watcher = Watchers
      /\ \A v \in Watchers : /\ DOMAIN s.watcher[v] = WatcherFields
                             /\ s.watcher[v].trap = watcher[v].trap
                             /\ s.watcher[v].watcher_handle = watcher[v].watcher_handle
  BY DEF State, Sound, WatcherFields
<1> HIDE DEF s
<1>3. Linked(s.core, s.table, s.watcher)
  BY <1>1, <1>2, LinkedFields DEF Sound
<1>4. Posted(s.tasks, s.watcher, {})
  BY <1>1, <1>2 DEF Sound, Posted
<1>5. Sound(s, {})
  BY <1>2, <1>3, <1>4 DEF Sound
<1> QED BY <1>5 DEF s

LEMMA InvStep ==
  ASSUME Inv, [Next]_vars
  PROVE  InvAfter
<1>0. /\ Sound(State, {}) /\ State.core = core /\ State.watcher = watcher /\ State.tasks = tasks
      /\ Typed(core) /\ DOMAIN watcher = Watchers /\ Posted(running, watcher, {})
  BY DEF Inv, State, Sound
<1>1. ASSUME NEW w \in Watchers, NEW h \in LocalEnds, NEW signals \in WatchSignals,
             ClientWatch(w, h, signals)
      PROVE  InvAfter
  <2> DEFINE r == Watch(State, w, h, signals, watches + 1)
  <2>1. Becomes(r) /\ UNCHANGED running
    BY <1>1 DEF ClientWatch
  <2>2. Sound(r, {}) /\ DOMAIN r.watcher = Watchers
    BY <1>0, WatchSound
  <2> HIDE DEF r
  <2> QED BY <2>1, <2>2, InvBecomes
<1>2. ASSUME NEW w \in Watchers, ClientCancel(w)
      PROVE  InvAfter
  <2> DEFINE r == Cancel(State, w)
  <2>1. Becomes(r) /\ UNCHANGED running
    BY <1>2 DEF ClientCancel
  <2>2. Sound(r, {}) /\ DOMAIN r.watcher = Watchers
    BY <1>0, CancelSound
  <2> HIDE DEF r
  <2> QED BY <2>1, <2>2, InvBecomes
<1>3. ASSUME NEW w \in Watchers, ClientArm(w)
      PROVE  InvAfter
  <2> DEFINE r == Arm(State, w)
  <2>1. Becomes(r) /\ UNCHANGED running
    BY <1>3 DEF ClientArm
  <2>2. Sound(r, {}) /\ DOMAIN r.watcher = Watchers
    BY <1>0, ArmSound
  <2> HIDE DEF r
  <2> QED BY <2>1, <2>2, InvBecomes
<1>4. ASSUME NEW w \in Watchers, Destroy(w)
      PROVE  InvAfter
  <2> DEFINE s == [State EXCEPT !.watcher[w].alive = FALSE]
             r == Cancel(s, w)
  <2>1. Becomes(r) /\ UNCHANGED running
    BY <1>4 DEF Destroy
  <2>2. DOMAIN s.watcher = Watchers
    BY <1>0 DEF State
  <2>3. Sound(s, {})
    BY <1>0, DestroyedSound
  <2> HIDE DEF s
  <2>4. Sound(r, {}) /\ DOMAIN r.watcher = Watchers
    BY <2>2, <2>3, CancelSound
  <2> HIDE DEF r
  <2> QED BY <2>1, <2>4, InvBecomes
<1>5. ASSUME NEW h \in LocalEnds, ReadMessage(h)
      PROVE  InvAfter
  <2> DEFINE d == WhpReadMessage(core, h)
             n == NextHandle(core)
  <2>1. /\ IsA(core, h, "MessagePipe") /\ Inbound(core, h) # <<>>
        /\ core' = WhpClose(d, n) /\ UNCHANGED <<table, watcher, tasks, running>>
    BY <1>5 DEF ReadMessage
  <2>2. Typed(d) /\ MessageMade(core, d, n)
    BY <1>0, <2>1, ReadMessageEffect
  <2> HIDE DEF d, n
  <2>3. Calm(core, d)
    BY <2>2, MessageMadeIsCalm
  <2>4. IsA(d, n, "Message")
    BY <2>2 DEF MessageMade, IsA, Lookup
  <2>5. Collecting(d, core', {})
    BY <2>1, <2>2, <2>4, CloseMessageEffect
  <2>6. Collecting(core, core', {})
    BY <2>3, <2>5, CalmThenCollecting
  <2> QED BY <2>1, <2>6, InvCore DEF Collecting
<1>6. ASSUME NEW h \in LocalEnds \cup PeerEnds, ClosePipe(h)
      PROVE  InvAfter
  <2>1. /\ IsA(core, h, "MessagePipe") /\ core' = WhpClose(core, h)
        /\ UNCHANGED <<table, watcher, tasks, running>>
    BY <1>6 DEF ClosePipe
  <2>2. Collecting(core, core', {h})
    BY <1>0, <2>1, ClosePipeEffect
  <2> QED BY <2>1, <2>2, InvCore DEF Collecting
<1>7. CASE PumpEvents
  <2> DEFINE s == Pumped(State)
  <2>1. Becomes(s) /\ UNCHANGED running
    BY <1>7 DEF PumpEvents
  <2>2. Sound(s, {}) /\ DOMAIN s.watcher = Watchers
    BY <1>0, PumpedState
  <2> HIDE DEF s
  <2> QED BY <2>1, <2>2, InvBecomes
<1>8. CASE DropTask
  <2> DEFINE s == Pumped(State)
             r == [s EXCEPT !.tasks = Tail(@)]
  <2>1. Becomes(r) /\ UNCHANGED running /\ s.tasks # <<>>
    BY <1>8 DEF DropTask
  <2>2. Sound(s, {}) /\ DOMAIN s.watcher = Watchers
    BY <1>0, PumpedState
  <2> HIDE DEF s
  <2>3. Sound(r, {}) /\ DOMAIN r.watcher = Watchers
    BY <2>1, <2>2, TaskTaken
  <2> HIDE DEF r
  <2> QED BY <2>1, <2>3, InvBecomes
<1>9. CASE RunTask
  <2> DEFINE s == Pumped(State)
             r == [s EXCEPT !.tasks = Tail(@)]
             t == Head(s.tasks)
  <2>1. Becomes(r) /\ running' = Append(running, t) /\ s.tasks # <<>>
    BY <1>9 DEF RunTask
  <2>2. Sound(s, {}) /\ DOMAIN s.watcher = Watchers
    BY <1>0, PumpedState
  <2> HIDE DEF s
  <2>3. /\ Sound(r, {}) /\ DOMAIN r.watcher = Watchers
        /\ t.watcher \in Watchers /\ t.trap_at_post # 0
    BY <2>1, <2>2, TaskTaken
  <2> HIDE DEF r, t
  <2>4. Sound([core |-> core', table |-> table', watcher |-> watcher', tasks |-> tasks'], {})
    BY <2>1, <2>3, BecomesSound DEF Becomes
  <2>5. DOMAIN watcher' = Watchers
    BY <2>1, <2>3 DEF Becomes
  <2>6. Posted(running, watcher', {})
    BY <2>5, RunningKept
  <2>7. Posted(Append(running, t), watcher', {})
    BY <2>3, <2>5, <2>6, PostedMore
  <2> QED BY <2>1, <2>4, <2>5, <2>7 DEF InvAfter
<1>10. CASE FinishTask
  <2> DEFINE t == running[Len(running)]
             r == Rearmed(State, t)
  <2>1. /\ Becomes(r) /\ running # <<>>
        /\ running' = SubSeq(running, 1, Len(running) - 1)
    BY <1>10 DEF FinishTask
  <2>2. PICK S : running \in Seq(S)
    BY <1>0 DEF Posted
  <2>3. /\ running' \in Seq(S) /\ Len(running) \in DOMAIN running
        /\ \A i \in DOMAIN running' : i \in DOMAIN running /\ running'[i] = running[i]
    BY <2>1, <2>2
  <2>4. t.watcher \in Watchers
    BY <1>0, <2>3 DEF Posted
  <2> HIDE DEF t
  <2>5. Sound(r, {}) /\ DOMAIN r.watcher = Watchers
    BY <1>0, <2>4, ArmSound DEF Rearmed
  <2> HIDE DEF r
  <2>6. Sound([core |-> core', table |-> table', watcher |-> watcher', tasks |-> tasks'], {})
    BY <2>1, <2>5, BecomesSound DEF Becomes
  <2>7. DOMAIN watcher' = Watchers
    BY <2>1, <2>5 DEF Becomes
  <2>8. Posted(running', watcher', {})
    BY <1>0, <2>3, <2>7 DEF Posted
  <2> QED BY <2>6, <2>7, <2>8 DEF InvAfter
<1>11. ASSUME NEW h \in PeerEnds, PeerWrite(h)
       PROVE  InvAfter
  <2> DEFINE d == WhpCreateMessage(core)
             n == NextHandle(core)
  <2>1. core' = WhpWriteMessage(d, h, n) /\ UNCHANGED <<table, watcher, tasks, running>>
    BY <1>11 DEF PeerWrite
  <2>2. Typed(d) /\ MessageMade(core, d, n)
    BY <1>0, CreateMessageEffect
  <2> HIDE DEF d, n
  <2>3. Calm(core, d)
    BY <2>2, MessageMadeIsCalm
  <2>4. IsA(d, n, "Message")
    BY <2>2 DEF MessageMade, IsA, Lookup
  <2>5. Calm(d, core') \/ Collecting(d, core', {})
    BY <2>1, <2>2, <2>4, WriteMessageEffect
  <2>6. CASE Collecting(d, core', {})
    BY <2>1, <2>3, <2>6, CalmThenCollecting, InvCore DEF Collecting
  <2>7. CASE Calm(d, core')
    <3>1. Typed(core') /\ SameTraps(core, core')
      BY <2>3, <2>7 DEF Calm, SameTraps, SameTrapObjects
    <3>2. NewEvents(core, core')
      BY <2>3, <2>7 DEF Calm, NewEvents
    <3> QED BY <2>1, <3>1, <3>2, InvCore
  <2> QED BY <2>5, <2>6, <2>7
<1>12. CASE UNCHANGED vars
  <2>1. Becomes(State) /\ UNCHANGED running
    BY <1>12 DEF Becomes, State, vars
  <2> QED BY <1>0, <2>1, InvBecomes
<1> QED BY <1>1, <1>2, <1>3, <1>4, <1>5, <1>6, <1>7, <1>8, <1>9, <1>10, <1>11, <1>12 DEF Next

LEMMA InvAlways == Spec => []Inv
<1>1. Init => Inv
  BY InvInit
<1>2. Inv /\ [Next]_vars => Inv'
  BY InvStep, InvNext
<1> QED BY <1>1, <1>2, PTL DEF Spec

-----------------------------------------------------------------------------
(* What the invariant says of a state.                                     *)
LEMMA ExactState ==
  ASSUME Inv
  PROVE  WatchersExact
<1> DEFINE NW == NoWatcher
<1>0. /\ Typed(core) /\ TableSound(table) /\ Linked(core, table, watcher)
      /\ DOMAIN watcher = Watchers
  BY DEF Inv, Sound, State
<1>1. EventsReachTheirWatcher
  <2> SUFFICES ASSUME NEW i \in DOMAIN core.pending_events,
                      Get(table, core.pending_events[i].context, {WatcherTag}, NW) # NW
               PROVE  LET e == core.pending_events[i]
                          w == Get(table, e.context, {WatcherTag}, NW)
                      IN  watcher[w].trap # 0 /\ core.slots[watcher[w].trap].obj.id = e.trap
    BY DEF EventsReachTheirWatcher, Watching, MOJO_HANDLE_INVALID
  <2> DEFINE e == core.pending_events[i]
             w == Get(table, e.context, {WatcherTag}, NW)
  <2>1. w \in Watchers /\ watcher[w].trap # 0 /\ watcher[w].watcher_handle = e.context
    BY <1>0, ResolveExact
  <2> HIDE DEF w
  <2>2. PICK v \in Watchers : watcher[v].trap # 0 /\ EventOf(core, watcher[v].trap, e)
    BY <1>0 DEF Linked
  <2>3. e.context = watcher[v].watcher_handle
    BY <1>0, <2>2 DEF EventOf, Linked, Owned
  <2>4. v = w
    BY <1>0, <2>1, <2>2, <2>3, EntriesDiffer
  <2>5. core.slots[watcher[w].trap].obj.id = e.trap
    BY <2>2, <2>4 DEF EventOf
  <2> QED BY <2>1, <2>5 DEF w
<1>2. ASSUME NEW w \in Watchers, watcher[w].trap # 0
      PROVE  /\ IsA(core, watcher[w].trap, "Trap")
             /\ Get(table, watcher[w].watcher_handle, {WatcherTag}, NW) = w
  <2>1. Owned(core, table, watcher[w], w)
    BY <1>0, <1>2 DEF Linked
  <2>2. /\ table.entries[watcher[w].watcher_handle].tag = WatcherTag
        /\ table.entries[watcher[w].watcher_handle].payload = w
    BY <2>1 DEF Owned, Entry
  <2> QED BY <2>1, <2>2 DEF Owned, Get, UsedAt
<1>3. \A w \in Watchers : watcher[w].trap = 0 => watcher[w].watcher_handle = 0
  BY <1>0 DEF Linked
<1>4. \A h \in DOMAIN core.slots : IsA(core, h, "Trap") => \E w \in Watchers : watcher[w].trap = h
  BY <1>0 DEF Linked
<1>5. \A i \in DOMAIN table.entries : ~ContainsFreelistLink(table, i) =>
        \E w \in Watchers : watcher[w].watcher_handle = i
  BY <1>0 DEF Linked, UsedAt, ContainsFreelistLink
<1>6. \A v, w \in Watchers : watcher[v].trap # 0 /\ watcher[v].trap = watcher[w].trap => v = w
  BY <1>0 DEF Linked
<1> HIDE DEF NW
<1> QED BY <1>1, <1>2, <1>3, <1>4, <1>5, <1>6
        DEF WatchersExact, Watching, MOJO_HANDLE_INVALID, kNullHandle, NW

(* A callback starts only in RunTask, which checks the trap that the task  *)
(* was posted with; that one was no invalid handle.                        *)
LEMMA SilentStep ==
  ASSUME Inv, [Next]_vars, Starts
  PROVE  watcher[Started.watcher].alive /\ Watching(Started.watcher)
<1>1. PICK S : running \in Seq(S)
  BY DEF Inv, Posted
<1>2. ASSUME UNCHANGED running PROVE FALSE
  <2>1. Len(running) \in Nat /\ Len(running') = Len(running)
    BY <1>1, <1>2
  <2> QED BY <2>1 DEF Starts
<1>3. ASSUME FinishTask PROVE FALSE
  <2>1. running' = SubSeq(running, 1, Len(running) - 1) /\ running # <<>>
    BY <1>3 DEF FinishTask
  <2>2. Len(running) \in Nat \ {0} /\ \A k \in 0..Len(running) : Len(SubSeq(running, 1, k)) = k
    BY <1>1, <2>1
  <2>3. Len(running') = Len(running) - 1
    <3> DEFINE k == Len(running) - 1
    <3>1. k \in 0..Len(running)
      BY <2>2
    <3>2. running' = SubSeq(running, 1, k)
      BY <2>1
    <3> HIDE DEF k
    <3>3. Len(running') = k
      BY <2>2, <3>1, <3>2, Zenon
    <3> QED BY <3>3 DEF k
  <2> QED BY <2>2, <2>3 DEF Starts
<1>4. RunTask
  <2>1. RunTask \/ FinishTask \/ UNCHANGED running
    BY DEF Next, vars, ClientWatch, ClientCancel, ClientArm, Destroy, ReadMessage, ClosePipe,
           PumpEvents, DropTask, PeerWrite
  <2> QED BY <1>2, <1>3, <2>1
<1> DEFINE s == Pumped(State)
           t == Head(s.tasks)
<1>5. s.tasks # <<>> /\ ~Dropped(s, t) /\ running' = Append(running, t)
  BY <1>4 DEF RunTask
<1>6. Sound(s, {}) /\ s.watcher = watcher
  BY PumpedState
<1> HIDE DEF s
<1>7. t.trap_at_post # 0
  BY <1>5, <1>6, TaskTaken
<1> HIDE DEF t
<1>8. running'[Len(running')] = t
  BY <1>1, <1>5
<1> QED BY <1>5, <1>6, <1>7, <1>8 DEF Started, Dropped, Watching, MOJO_HANDLE_INVALID

-----------------------------------------------------------------------------
(* The chain trap, event, task, callback, re-arm.                          *)

\* One of the tasks that run is of watcher w and its present trap.
RunsIn(run, s, w) ==
  \E i \in DOMAIN run : run[i].watcher = w /\ run[i].trap_at_post = s.watcher[w].trap

\* A watcher that watches is alive, its trap has its trigger, and if it is
\* automatic then its chain is not broken.
Holds(s, run, w) ==
  s.watcher[w].trap # 0 => /\ s.watcher[w].alive /\ Triggered(s, w)
                           /\ Policy[w] = "kAutomatic" => Up(s, w) \/ RunsIn(run, s, w)

\* The inductive invariant for the wakeups.
WakeInv ==
  /\ Inv /\ Settled(core)
  /\ \A w \in Watchers : Holds(State, running, w)

\* Its own part, after a step.
WakeAfter ==
  /\ Settled(core')
  /\ \A w \in Watchers :
       Holds([core |-> core', table |-> table', watcher |-> watcher', tasks |-> tasks'],
             running', w)

LEMMA WakeNext ==
  ASSUME InvAfter, WakeAfter
  PROVE  WakeInv'
BY InvNext DEF WakeInv, WakeAfter, State

LEMMA HoldsKept ==
  ASSUME NEW s, NEW r, NEW w, NEW run, NEW more, Stays(s, r, w),
         r.watcher[w].alive = s.watcher[w].alive,
         RunsIn(run, s, w) => RunsIn(more, s, w), Holds(s, run, w)
  PROVE  Holds(r, more, w)
<1>1. RunsIn(more, s, w) => RunsIn(more, r, w)
  BY DEF RunsIn, Stays
<1> QED BY <1>1 DEF Stays, Holds

LEMMA WakeBecomes ==
  ASSUME NEW r, Becomes(r), Settled(r.core), \A w \in Watchers : Holds(r, running', w)
  PROVE  WakeAfter
<1> DEFINE q == [core |-> core', table |-> table', watcher |-> watcher', tasks |-> tasks']
<1>1. q.core = r.core /\ q.watcher = r.watcher /\ q.tasks = r.tasks /\ core' = r.core
  BY DEF Becomes
<1> HIDE DEF q
<1>2. \A w \in Watchers : Holds(q, running', w)
  BY <1>1 DEF Holds, Up, Triggered, RunsIn
<1> QED BY <1>1, <1>2 DEF WakeAfter, q

\* Each watcher keeps its chain, or r has one for it.
KeepsChains(r) ==
  \A w \in Watchers :
    \/ Holds(r, running, w)
    \/ Stays(State, r, w) /\ r.watcher[w].alive = watcher[w].alive

LEMMA WakeSame ==
  ASSUME WakeInv, NEW r, Becomes(r), UNCHANGED running, Settled(r.core), KeepsChains(r)
  PROVE  WakeAfter
<1>1. \A w \in Watchers : Holds(r, running, w)
  <2>1. State.watcher = watcher
    BY DEF State
  <2> QED BY <2>1, HoldsKept DEF WakeInv, KeepsChains
<1>2. \A w \in Watchers : Holds(r, running', w)
  BY <1>1
<1> QED BY <1>2, WakeBecomes

(* The steps that leave all but the core alone.                            *)
LEMMA WakeCore ==
  ASSUME WakeInv, UNCHANGED <<table, watcher, tasks, running>>,
         \/ \E Gone : Collecting(core, core', Gone)
         \/ Calm(core, core') /\ core'.pipes = core.pipes
  PROVE  WakeAfter
<1> DEFINE r == [core |-> core', table |-> table, watcher |-> watcher, tasks |-> tasks]
<1>1. /\ r.core = core' /\ r.watcher = State.watcher /\ r.tasks = State.tasks
      /\ State.core = core /\ State.watcher = watcher
      /\ r.table = table /\ r.watcher = watcher /\ r.tasks = tasks
  BY DEF State
<1>2. Sound(State, {}) /\ DOMAIN watcher = Watchers /\ Settled(State.core)
  BY <1>1 DEF WakeInv, Inv
<1> HIDE DEF r
<1>3. Settled(r.core) /\ \A w \in Watchers : Stays(State, r, w)
  <2>1. CASE Calm(core, core') /\ core'.pipes = core.pipes
    BY <1>1, <1>2, <2>1, CalmStays
  <2>2. CASE \E Gone : Collecting(core, core', Gone)
    <3>1. PICK Gone : Collecting(State.core, core', Gone)
      BY <1>1, <2>2
    <3>2. Settled(core')
      BY <3>1 DEF Collecting
    <3> QED BY <1>1, <1>2, <3>1, <3>2, CollectingStays
  <2> QED BY <2>1, <2>2
<1>4. KeepsChains(r)
  BY <1>1, <1>3 DEF KeepsChains
<1>5. Becomes(r) /\ UNCHANGED running
  BY <1>1 DEF Becomes
<1> QED BY <1>3, <1>4, <1>5, WakeSame

(* The member functions that clients call.                                 *)
LEMMA WakeClient ==
  ASSUME WakeInv, NEW w \in Watchers,
         \/ \E h, signals : ClientWatch(w, h, signals)
         \/ ClientCancel(w) \/ ClientArm(w) \/ Destroy(w)
  PROVE  WakeAfter
<1>0. /\ Sound(State, {}) /\ State.core = core /\ State.watcher = watcher /\ State.tasks = tasks
      /\ Settled(State.core) /\ DOMAIN watcher = Watchers
  BY DEF WakeInv, Inv, State
<1>1. ASSUME NEW h, NEW signals, ClientWatch(w, h, signals)
      PROVE  WakeAfter
  <2> DEFINE r == Watch(State, w, h, signals, watches + 1)
  <2>1. Becomes(r) /\ UNCHANGED running /\ watcher[w].alive
    BY <1>1 DEF ClientWatch
  <2>2. /\ Settled(r.core) /\ Chained(r, w)
        /\ \A v \in Watchers : v # w => Stays(State, r, v) /\ r.watcher[v] = watcher[v]
    BY <1>0, <2>1, WatchStays
  <2> HIDE DEF r
  <2>3. KeepsChains(r)
    BY <2>2 DEF KeepsChains, Chained, Holds
  <2> QED BY <2>1, <2>2, <2>3, WakeSame
<1>2. CASE ClientCancel(w)
  <2> DEFINE r == Cancel(State, w)
  <2>1. Becomes(r) /\ UNCHANGED running
    BY <1>2 DEF ClientCancel
  <2>2. /\ r.watcher[w].trap = 0
        /\ \A v \in Watchers : v # w => r.watcher[v] = watcher[v]
    BY <1>0, CancelSound
  <2>3. Settled(r.core) /\ \A v \in Watchers : v # w => Stays(State, r, v)
    BY <1>0, CancelStays
  <2> HIDE DEF r
  <2>4. KeepsChains(r)
    BY <2>2, <2>3 DEF KeepsChains, Holds
  <2> QED BY <2>1, <2>3, <2>4, WakeSame
<1>3. CASE ClientArm(w)
  <2> DEFINE r == Arm(State, w)
  <2>1. Becomes(r) /\ UNCHANGED running
    BY <1>3 DEF ClientArm
  <2>2. r.watcher = watcher
    BY <1>0, ArmSound
  <2>3. Settled(r.core) /\ \A v \in Watchers : Stays(State, r, v)
    BY <1>0, ArmStays
  <2> HIDE DEF r
  <2>4. KeepsChains(r)
    BY <2>2, <2>3 DEF KeepsChains
  <2> QED BY <2>1, <2>3, <2>4, WakeSame
<1>4. CASE Destroy(w)
  <2> DEFINE s == [State EXCEPT !.watcher[w].alive = FALSE]
             r == Cancel(s, w)
  <2>1. Becomes(r) /\ UNCHANGED running
    BY <1>4 DEF Destroy
  <2>2. /\ DOMAIN s = DOMAIN State /\ s.core = State.core /\ s.table = State.table
        /\ s.tasks = State.tasks /\ DOMAIN s.watcher = Watchers
        /\ \A v \in Watchers : v # w => s.watcher[v] = watcher[v]
    BY <1>0 DEF State
  <2>3. Sound(s, {})
    BY <1>0, DestroyedSound
  <2> HIDE DEF s
  <2>4. \A v \in Watchers : v # w => Stays(State, s, v)
    BY <1>0, <2>2, StaysSame
  <2>5. /\ r.watcher[w].trap = 0
        /\ \A v \in Watchers : v # w => r.watcher[v] = s.watcher[v]
    BY <2>2, <2>3, CancelSound
  <2>6. Settled(r.core) /\ \A v \in Watchers : v # w => Stays(s, r, v)
    BY <1>0, <2>2, <2>3, CancelStays
  <2> HIDE DEF r
  <2>7. \A v \in Watchers : v # w => Stays(State, r, v)
    BY <2>4, <2>6, StaysTransitive
  <2>8. KeepsChains(r)
    BY <2>2, <2>5, <2>7 DEF KeepsChains, Holds
  <2> QED BY <2>1, <2>6, <2>8, WakeSame
<1> QED BY <1>1, <1>2, <1>3, <1>4

(* The pump keeps every chain.                                             *)
LEMMA WakePumped ==
  ASSUME WakeInv
  PROVE  LET s == Pumped(State)
         IN  /\ Sound(s, {}) /\ Settled(s.core) /\ s.watcher = watcher
             /\ \A w \in Watchers : Stays(State, s, w) /\ Holds(s, running, w)
<1> DEFINE s == Pumped(State)
<1>0. /\ Sound(State, {}) /\ State.core = core /\ State.watcher = watcher
      /\ Settled(State.core) /\ DOMAIN watcher = Watchers
  BY DEF WakeInv, Inv, State
<1>1. Sound(s, {}) /\ s.watcher = watcher
  BY <1>0, PumpedSound
<1>2. Settled(s.core) /\ \A w \in Watchers : Stays(State, s, w)
  <2>1. NoWatcher \notin DOMAIN State.watcher
    BY <1>0, SimpleWatcherAssumption
  <2> QED BY <1>0, <2>1, PumpedStays
<1> HIDE DEF s
<1>3. \A w \in Watchers : Holds(s, running, w)
  BY <1>0, <1>1, <1>2, HoldsKept DEF WakeInv
<1> QED BY <1>1, <1>2, <1>3 DEF s

(* The steps of the executor.                                              *)
LEMMA WakeExecutor ==
  ASSUME WakeInv, PumpEvents \/ DropTask \/ RunTask
  PROVE  WakeAfter
<1> DEFINE s == Pumped(State)
           r == [s EXCEPT !.tasks = Tail(@)]
           t == Head(s.tasks)
<1>1. /\ Sound(s, {}) /\ Settled(s.core) /\ s.watcher = watcher
      /\ \A w \in Watchers : Stays(State, s, w) /\ Holds(s, running, w)
  BY WakePumped
<1>2. DOMAIN watcher = Watchers
  BY DEF WakeInv, Inv
<1>3. CASE PumpEvents
  <2>1. Becomes(s) /\ UNCHANGED running
    BY <1>3 DEF PumpEvents
  <2> HIDE DEF s
  <2>2. \A w \in Watchers : Holds(s, running', w)
    BY <1>1, <2>1
  <2> QED BY <1>1, <2>1, <2>2, WakeBecomes
<1>4. CASE DropTask
  <2>1. Becomes(r) /\ UNCHANGED running /\ s.tasks # <<>> /\ Dropped(s, t)
    BY <1>4 DEF DropTask
  <2> HIDE DEF s
  <2>2. r.core = s.core /\ r.watcher = s.watcher /\ t.trap_at_post # 0
    BY <1>1, <2>1, TaskTaken
  <2>3. \A w \in Watchers :
          \/ t.watcher = w /\ t.trap_at_post = s.watcher[w].trap
          \/ Stays(s, r, w)
    BY <1>1, <1>2, <2>1, TailStays
  <2> HIDE DEF r, t
  <2>4. ASSUME NEW w \in Watchers PROVE Holds(r, running', w)
    <3>1. CASE t.watcher = w /\ t.trap_at_post = s.watcher[w].trap
      BY <1>1, <2>1, <2>2, <3>1 DEF Dropped, Holds
    <3>2. CASE Stays(s, r, w)
      <4>1. RunsIn(running, s, w) => RunsIn(running', s, w)
        BY <2>1
      <4> QED BY <1>1, <2>2, <3>2, <4>1, HoldsKept
    <3> QED BY <2>3, <3>1, <3>2
  <2> QED BY <1>1, <2>1, <2>2, <2>4, WakeBecomes
<1>5. CASE RunTask
  <2>1. Becomes(r) /\ running' = Append(running, t) /\ s.tasks # <<>>
    BY <1>5 DEF RunTask
  <2> HIDE DEF s
  <2>2. r.core = s.core /\ r.watcher = s.watcher
    BY <1>1, <2>1, TaskTaken
  <2>3. \A w \in Watchers :
          \/ t.watcher = w /\ t.trap_at_post = s.watcher[w].trap
          \/ Stays(s, r, w)
    BY <1>1, <1>2, <2>1, TailStays
  <2> HIDE DEF r, t
  <2>4. PICK S : running \in Seq(S)
    BY DEF WakeInv, Inv, Posted
  <2>5. /\ \A i \in DOMAIN running : i \in DOMAIN running' /\ running'[i] = running[i]
        /\ Len(running) + 1 \in DOMAIN running' /\ running'[Len(running) + 1] = t
    BY <2>1, <2>4
  <2>6. ASSUME NEW w \in Watchers PROVE Holds(r, running', w)
    <3>1. CASE t.watcher = w /\ t.trap_at_post = s.watcher[w].trap
      <4>1. RunsIn(running', r, w)
        BY <2>2, <2>5, <3>1 DEF RunsIn
      <4>2. Triggered(s, w) => Triggered(r, w)
        BY <2>2 DEF Triggered
      <4> QED BY <1>1, <2>2, <4>1, <4>2 DEF Holds
    <3>2. CASE Stays(s, r, w)
      <4>1. RunsIn(running, s, w) => RunsIn(running', s, w)
        BY <2>5 DEF RunsIn
      <4> QED BY <1>1, <2>2, <3>2, <4>1, HoldsKept
    <3> QED BY <2>3, <3>1, <3>2
  <2> QED BY <1>1, <2>1, <2>2, <2>6, WakeBecomes
<1> QED BY <1>3, <1>4, <1>5

(* A task that returns hands the chain of its watcher back to the trap.    *)
LEMMA WakeFinish ==
  ASSUME WakeInv, FinishTask
  PROVE  WakeAfter
<1> DEFINE n == Len(running)
           t == running[n]
           r == Rearmed(State, t)
<1>0. /\ Sound(State, {}) /\ State.core = core /\ State.watcher = watcher
      /\ Settled(State.core) /\ DOMAIN watcher = Watchers
      /\ \A w \in Watchers : Holds(State, running, w)
  BY DEF WakeInv, Inv, State
<1>1. Becomes(r) /\ running # <<>> /\ running' = SubSeq(running, 1, n - 1)
  BY DEF FinishTask
<1>2. PICK S : running \in Seq(S)
  BY DEF WakeInv, Inv, Posted
<1>3. /\ n \in DOMAIN running
      /\ \A i \in DOMAIN running : i # n => i \in DOMAIN running' /\ running'[i] = running[i]
  BY <1>1, <1>2
<1>4. t.watcher \in Watchers
  BY <1>3 DEF WakeInv, Inv, Posted
<1> HIDE DEF n, t
<1>5. CASE Rearms(State, t)
  <2>1. r = Arm(State, t.watcher)
    BY <1>5 DEF Rearmed
  <2>2. /\ Settled(r.core)
        /\ State.watcher[t.watcher].trap # 0 => Up(r, t.watcher)
        /\ \A v \in Watchers : Stays(State, r, v)
    BY <1>0, <1>4, <2>1, ArmStays
  <2>3. r.watcher = State.watcher
    BY <1>0, <1>4, <2>1, ArmSound
  <2> HIDE DEF r
  <2>4. ASSUME NEW w \in Watchers PROVE Holds(r, running', w)
    <3>1. CASE w = t.watcher
      BY <1>0, <2>2, <2>3, <3>1 DEF Holds, Stays
    <3>2. CASE w # t.watcher
      <4>1. RunsIn(running, State, w) => RunsIn(running', State, w)
        BY <1>3, <3>2 DEF RunsIn, t
      <4> QED BY <1>0, <2>2, <2>3, <4>1, HoldsKept
    <3> QED BY <3>1, <3>2
  <2> QED BY <1>1, <2>2, <2>4, WakeBecomes
<1>6. CASE ~Rearms(State, t)
  <2>1. r = State
    BY <1>6 DEF Rearmed
  <2>2. ASSUME NEW w \in Watchers PROVE Holds(State, running', w)
    <3>1. CASE t.watcher = w /\ t.trap_at_post = State.watcher[w].trap
      BY <1>0, <1>6, <3>1 DEF Rearms, Holds
    <3>2. CASE ~(t.watcher = w /\ t.trap_at_post = State.watcher[w].trap)
      <4>1. RunsIn(running, State, w) => RunsIn(running', State, w)
        BY <1>3, <3>2 DEF RunsIn, t
      <4> QED BY <1>0, <4>1 DEF Holds
    <3> QED BY <3>1, <3>2
  <2> HIDE DEF r
  <2> QED BY <1>0, <1>1, <2>1, <2>2, WakeBecomes
<1> QED BY <1>5, <1>6

LEMMA WakeStep ==
  ASSUME WakeInv, [Next]_vars
  PROVE  WakeAfter
<1>0. Inv /\ Typed(core)
  BY DEF WakeInv, Inv, Sound, State
<1>1. CASE \E w \in Watchers : \/ \E h \in LocalEnds, signals \in WatchSignals :
                                    ClientWatch(w, h, signals)
                               \/ ClientCancel(w) \/ ClientArm(w) \/ Destroy(w)
  <2>1. PICK w \in Watchers : \/ \E h, signals : ClientWatch(w, h, signals)
                              \/ ClientCancel(w) \/ ClientArm(w) \/ Destroy(w)
    BY <1>1
  <2> QED BY <2>1, WakeClient
<1>2. ASSUME NEW h \in LocalEnds, ReadMessage(h)
      PROVE  WakeAfter
  <2> DEFINE d == WhpReadMessage(core, h)
             n == NextHandle(core)
  <2>1. /\ IsA(core, h, "MessagePipe") /\ Inbound(core, h) # <<>>
        /\ core' = WhpClose(d, n) /\ UNCHANGED <<table, watcher, tasks, running>>
    BY <1>2 DEF ReadMessage
  <2>2. Typed(d) /\ MessageMade(core, d, n)
    BY <1>0, <2>1, ReadMessageEffect
  <2> HIDE DEF d, n
  <2>3. Calm(core, d)
    BY <2>2, MessageMadeIsCalm
  <2>4. IsA(d, n, "Message")
    BY <2>2 DEF MessageMade, IsA, Lookup
  <2>5. Collecting(d, core', {})
    BY <2>1, <2>2, <2>4, CloseMessageEffect
  <2>6. Collecting(core, core', {})
    BY <2>3, <2>5, CalmThenCollecting
  <2> QED BY <2>1, <2>6, WakeCore
<1>3. ASSUME NEW h, ClosePipe(h)
      PROVE  WakeAfter
  <2>1. /\ IsA(core, h, "MessagePipe") /\ core' = WhpClose(core, h)
        /\ UNCHANGED <<table, watcher, tasks, running>>
    BY <1>3 DEF ClosePipe
  <2>2. Collecting(core, core', {h})
    BY <1>0, <2>1, ClosePipeEffect
  <2> QED BY <2>1, <2>2, WakeCore
<1>4. ASSUME NEW h \in PeerEnds, PeerWrite(h)
      PROVE  WakeAfter
  <2> DEFINE d == WhpCreateMessage(core)
             n == NextHandle(core)
  <2>1. core' = WhpWriteMessage(d, h, n) /\ UNCHANGED <<table, watcher, tasks, running>>
    BY <1>4 DEF PeerWrite
  <2>2. Typed(d) /\ MessageMade(core, d, n) /\ d.pipes = core.pipes
    BY <1>0, CreateMessageEffect
  <2> HIDE DEF d, n
  <2>3. Calm(core, d)
    BY <2>2, MessageMadeIsCalm
  <2>4. IsA(d, n, "Message")
    BY <2>2 DEF MessageMade, IsA, Lookup
  <2>5. (Calm(d, core') /\ core'.pipes = d.pipes) \/ Collecting(d, core', {})
    BY <2>1, <2>2, <2>4, WriteMessageEffect
  <2>6. CASE Collecting(d, core', {})
    BY <2>1, <2>3, <2>6, CalmThenCollecting, WakeCore
  <2>7. CASE Calm(d, core') /\ core'.pipes = d.pipes
    <3>1. Calm(core, core')
      BY <2>3, <2>7 DEF Calm, SameEnds, SameTrapObjects
    <3> QED BY <2>1, <2>2, <2>7, <3>1, WakeCore
  <2> QED BY <2>5, <2>6, <2>7
<1>5. CASE UNCHANGED vars
  <2>1. Becomes(State) /\ running' = running /\ State.core = core
    BY <1>5 DEF Becomes, State, vars
  <2>2. \A w \in Watchers : Holds(State, running', w)
    BY <2>1 DEF WakeInv
  <2> QED BY <2>1, <2>2, WakeBecomes DEF WakeInv
<1> QED BY <1>1, <1>2, <1>3, <1>4, <1>5, WakeExecutor, WakeFinish DEF Next

LEMMA WakeInit ==
  ASSUME Init
  PROVE  WakeInv
<1>1. Inv
  BY InvInit
<1>2. \A w \in Watchers : watcher[w].trap = 0
  BY DEF Init, Fresh, MOJO_HANDLE_INVALID
<1>3. Settled(core)
  <2>1. \A h : ~IsA(core, h, "Trap")
    <3>1. \A h : IsA(core, h, "Trap") => h # 0
      BY <1>1, HandlePositive DEF Inv, Sound, State
    <3> QED BY <1>1, <1>2, <3>1 DEF Inv, Sound, State, Linked
  <2> QED BY <2>1 DEF Settled
<1> QED BY <1>1, <1>2, <1>3 DEF WakeInv, Holds, State

(* What the invariant says of a state.                                     *)
LEMMA WakeState ==
  ASSUME WakeInv
  PROVE  NoLostWakeup
<1> SUFFICES ASSUME NEW w \in Watchers, Watching(w), Policy[w] = "kAutomatic"
             PROVE  LET trap == core.slots[watcher[w].trap].obj
                    IN  \/ trap.armed /\ ~Ready(w)
                        \/ \E i \in DOMAIN core.pending_events :
                             core.pending_events[i].trap = trap.id
                        \/ Mentions(tasks, w)
                        \/ Mentions(running, w)
  BY DEF NoLostWakeup
<1> DEFINE h == watcher[w].trap
<1>1. /\ State.core = core /\ State.watcher = watcher /\ State.tasks = tasks
      /\ h # 0 /\ Holds(State, running, w) /\ Settled(core)
  BY DEF WakeInv, State, Watching, MOJO_HANDLE_INVALID
<1>2. IsA(core, h, "Trap")
  BY <1>1 DEF WakeInv, Inv, Sound, Linked, Owned
<1>3. Triggered(State, w) /\ (Up(State, w) \/ RunsIn(running, State, w))
  BY <1>1 DEF Holds
<1>4. ASSUME core.slots[h].obj.armed PROVE ~Ready(w)
  <2>1. Matching(core, core.slots[h].obj) = {} /\ 1 \in DOMAIN core.slots[h].obj.triggers
    BY <1>1, <1>2, <1>3, <1>4 DEF Settled, Triggered
  <2> QED BY <2>1 DEF Ready, Matching
<1>5. RunsIn(running, State, w) => Mentions(running, w)
  BY <1>1 DEF RunsIn, Mentions
<1>6. Up(State, w) => \/ core.slots[h].obj.armed
                      \/ \E i \in DOMAIN core.pending_events :
                           core.pending_events[i].trap = core.slots[h].obj.id
                      \/ Mentions(tasks, w)
  BY <1>1 DEF Up, EventOf, Mentions
<1> QED BY <1>3, <1>4, <1>5, <1>6

-----------------------------------------------------------------------------
(* Watch, its failure path, Cancel and the destructor keep the traps of    *)
(* the core, the entries of the table and the watchers in step, whatever   *)
(* callbacks and peers do, and a queued event resolves to the watcher      *)
(* whose trap fired or to none (simple_watcher.cc, WhpClose of a trap).    *)
THEOREM WatchersTheorem == Spec => []WatchersExact
<1>1. Inv => WatchersExact
  BY ExactState
<1> QED BY <1>1, InvAlways, PTL

(* Once Cancel or the destructor has run, and until the next Watch, no     *)
(* callback of the watcher starts: the check of trap_ in the posted task   *)
(* drops the tasks that are still queued.                                  *)
THEOREM SilenceTheorem == Spec => CancelledStaysSilent
<1>1. Inv /\ [Next]_vars
        => [Starts => watcher[Started.watcher].alive /\ Watching(Started.watcher)]_vars
  BY SilentStep
<1> QED BY <1>1, InvAlways, PTL DEF Spec, CancelledStaysSilent

(* An automatic watcher never sleeps through its signal: whatever peers    *)
(* write and close, whatever clients call from inside callbacks, and       *)
(* whichever tasks are dropped as stale, its trap is armed and its signals *)
(* do not hold, or an event or a task of it is queued, or its callback     *)
(* runs (Arm, Notify, the posted task, WhpPumpEvents).                     *)
THEOREM WakeupTheorem == Spec => []NoLostWakeup
<1>1. Init => WakeInv
  BY WakeInit
<1>2. WakeInv /\ [Next]_vars => WakeInv'
  <2>1. ASSUME WakeInv, [Next]_vars PROVE WakeInv'
    <3>1. InvAfter
      BY <2>1, InvStep DEF WakeInv
    <3>2. WakeAfter
      BY <2>1, WakeStep
    <3> QED BY <3>1, <3>2, WakeNext
  <2> QED BY <2>1
<1>3. WakeInv => NoLostWakeup
  BY WakeState
<1> QED BY <1>1, <1>2, <1>3, PTL DEF Spec

=============================================================================
