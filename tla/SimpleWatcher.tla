--------------------------- MODULE SimpleWatcher ---------------------------
(***************************************************************************)
(* Clients of mojo::SimpleWatcher (WatcherCore) and the loop of            *)
(* whp::Executor (executor.cc) that runs what the watchers post.           *)
(*                                                                         *)
(* One thread owns the watchers and the executor: it calls Watch, Cancel,  *)
(* Arm and the destructor, at top level or inside a callback, and runs     *)
(* tasks, also nested inside a callback.  Other threads hold the peer ends *)
(* of the pipes and write and close at any time.  A member function of     *)
(* SimpleWatcher is one step: what other threads do between two of its     *)
(* calls into the core has the same effect before or after it, but for the *)
(* handle number that a new trap gets when they allocate one then.         *)
(***************************************************************************)
EXTENDS WatcherCore

CONSTANTS
  Watchers,      \* the SimpleWatcher objects
  Pipes,         \* message pipes, one end of each held by the watchers' thread
  WatchSignals,  \* signal sets that Watch is called with
  MaxWatches,    \* bound on the calls of Watch
  MaxWrites,     \* bound on the messages that peers write
  MaxTasks,      \* bound on queued tasks when a client calls Arm
  MaxNesting     \* bound on callbacks that run inside one another

ASSUME SimpleWatcherAssumption ==
  /\ Policy \in [Watchers -> {"kAutomatic", "kManual"}]
  /\ NoWatcher \notin Watchers
  /\ Pipes \in 1..2
  /\ WatchSignals \subseteq ((SUBSET Signals) \ {{}})
  /\ {MaxWatches, MaxWrites, MaxTasks, MaxNesting} \subseteq Nat

VARIABLES
  core,     \* Core::Get()
  table,    \* WatcherHandleTable()
  watcher,  \* the fields of every SimpleWatcher
  tasks,    \* Executor::queue_
  running,  \* the tasks whose callback is on the stack, outermost first
  watches   \* number of Watch calls so far

vars == <<core, table, watcher, tasks, running, watches>>

\* What the operators of WatcherCore read and change, as one record.
State == [core |-> core, table |-> table, watcher |-> watcher, tasks |-> tasks]

Becomes(s) ==
  /\ core' = s.core /\ table' = s.table /\ watcher' = s.watcher /\ tasks' = s.tasks

\* Handles 2i - 1 and 2i are the two ends of pipe i.
LocalEnds == {2 * i - 1 : i \in 1..Pipes}
PeerEnds  == {2 * i : i \in 1..Pipes}

Init ==
  /\ core = IF Pipes = 1 THEN WhpCreateMessagePipe(InitCore)
                         ELSE WhpCreateMessagePipe(WhpCreateMessagePipe(InitCore))
  /\ table = EmptyTable
  /\ watcher = [w \in Watchers |-> Fresh]
  /\ tasks = <<>> /\ running = <<>> /\ watches = 0

-----------------------------------------------------------------------------
(* The watchers' thread.                                                   *)

ClientWatch(w, h, signals) ==
  /\ watcher[w].alive /\ watches < MaxWatches
  /\ Becomes(Watch(State, w, h, signals, watches + 1))
  /\ watches' = watches + 1
  /\ UNCHANGED running

ClientCancel(w) ==
  /\ watcher[w].alive
  /\ Becomes(Cancel(State, w))
  /\ UNCHANGED <<running, watches>>

ClientArm(w) ==
  /\ watcher[w].alive /\ Len(tasks) < MaxTasks
  /\ Becomes(Arm(State, w))
  /\ UNCHANGED <<running, watches>>

\* ~SimpleWatcher.
Destroy(w) ==
  /\ watcher[w].alive
  /\ Becomes(Cancel([State EXCEPT !.watcher[w].alive = FALSE], w))
  /\ UNCHANGED <<running, watches>>

\* Reads a message and destroys it.
ReadMessage(h) ==
  /\ IsA(core, h, "MessagePipe") /\ Inbound(core, h) # <<>>
  /\ core' = WhpClose(WhpReadMessage(core, h), NextHandle(core))
  /\ UNCHANGED <<table, watcher, tasks, running, watches>>

ClosePipe(h) ==
  /\ IsA(core, h, "MessagePipe")
  /\ core' = WhpClose(core, h)
  /\ UNCHANGED <<table, watcher, tasks, running, watches>>

-----------------------------------------------------------------------------
(* The executor: one turn of the loop in RunUntilIdle or Run pumps the     *)
(* events and runs the first task.                                         *)

\* The pump alone: the turn in which the queue is empty.
PumpEvents ==
  /\ core.pending_events # <<>>
  /\ Becomes(Pumped(State))
  /\ UNCHANGED <<running, watches>>

DropTask ==
  LET s == Pumped(State)
  IN  /\ s.tasks # <<>> /\ Dropped(s, Head(s.tasks))
      /\ Becomes([s EXCEPT !.tasks = Tail(@)])
      /\ UNCHANGED <<running, watches>>

\* The task calls its callback, which goes on until FinishTask.
RunTask ==
  LET s == Pumped(State)
  IN  /\ s.tasks # <<>> /\ ~Dropped(s, Head(s.tasks))
      /\ Len(running) < MaxNesting
      /\ Becomes([s EXCEPT !.tasks = Tail(@)])
      /\ running' = Append(running, Head(s.tasks))
      /\ UNCHANGED watches

\* The callback of the innermost task has returned.
FinishTask ==
  /\ running # <<>>
  /\ LET t == running[Len(running)]
     IN  Becomes(Rearmed(State, t))
  /\ running' = SubSeq(running, 1, Len(running) - 1)
  /\ UNCHANGED watches

-----------------------------------------------------------------------------
\* Another thread creates a message and writes it.
PeerWrite(h) ==
  /\ IsA(core, h, "MessagePipe") /\ core.messages < MaxWrites
  /\ core' = WhpWriteMessage(WhpCreateMessage(core), h, NextHandle(core))
  /\ UNCHANGED <<table, watcher, tasks, running, watches>>

Next ==
  \/ \E w \in Watchers, h \in LocalEnds, signals \in WatchSignals :
       ClientWatch(w, h, signals)
  \/ \E w \in Watchers : ClientCancel(w)
  \/ \E w \in Watchers : ClientArm(w)
  \/ \E w \in Watchers : Destroy(w)
  \/ \E h \in LocalEnds : ReadMessage(h)
  \/ \E h \in LocalEnds \cup PeerEnds : ClosePipe(h)
  \/ PumpEvents
  \/ DropTask
  \/ RunTask
  \/ FinishTask
  \/ \E h \in PeerEnds : PeerWrite(h)

Spec == Init /\ [][Next]_vars

\* The thread keeps calling RunUntilIdle, and callbacks return.
FairSpec == Spec /\ WF_vars(DropTask) /\ WF_vars(RunTask) /\ WF_vars(FinishTask)

-----------------------------------------------------------------------------
(* Properties.                                                             *)

Watching(w) == watcher[w].trap # MOJO_HANDLE_INVALID

\* What the purge in WhpClose is for: a queued trap event whose context still
\* resolves (OnTrapEvent) resolves to the watcher whose own trap fired, never
\* to one that got a freed table entry since.
EventsReachTheirWatcher ==
  \A i \in DOMAIN core.pending_events :
    LET e == core.pending_events[i]
        w == Get(table, e.context, {WatcherTag}, NoWatcher)
    IN  w # NoWatcher => Watching(w) /\ core.slots[watcher[w].trap].obj.id = e.trap

\* Watch, its failure path, Cancel and the destructor keep the traps of the
\* core, the entries of the table and the watchers in step: a watcher that
\* watches has a trap and an entry of its own, one that does not has neither,
\* and no trap and no entry is left over; queued events find their watcher.
WatchersExact ==
  /\ EventsReachTheirWatcher
  /\ \A w \in Watchers :
       IF Watching(w)
       THEN /\ IsA(core, watcher[w].trap, "Trap")
            /\ Get(table, watcher[w].watcher_handle, {WatcherTag}, NoWatcher) = w
       ELSE watcher[w].watcher_handle = kNullHandle
  /\ \A h \in DOMAIN core.slots : IsA(core, h, "Trap") =>
       \E w \in Watchers : watcher[w].trap = h
  /\ \A i \in DOMAIN table.entries : ~ContainsFreelistLink(table, i) =>
       \E w \in Watchers : watcher[w].watcher_handle = i
  /\ \A v, w \in Watchers : Watching(v) /\ watcher[v].trap = watcher[w].trap => v = w

Mentions(s, w) ==
  \E i \in DOMAIN s : s[i].watcher = w /\ s[i].trap_at_post = watcher[w].trap

\* The signals of w hold at the object it was asked to watch.
Ready(w) ==
  /\ Watching(w)
  /\ LET trig == core.slots[watcher[w].trap].obj.triggers[1]
     IN  /\ core.slots[trig.watched].obj.id = trig.obj
         /\ TriggerMatches(core, trig)

\* The chain trap, event, task, re-arm of an automatic watcher never breaks:
\* when its signals hold, an event or a task of it is queued or its callback
\* is running, and otherwise its trap is armed (or one of these will arm it).
NoLostWakeup ==
  \A w \in Watchers : Watching(w) /\ Policy[w] = "kAutomatic" =>
    LET trap == core.slots[watcher[w].trap].obj
    IN  \/ trap.armed /\ ~Ready(w)
        \/ \E i \in DOMAIN core.pending_events : core.pending_events[i].trap = trap.id
        \/ Mentions(tasks, w)
        \/ Mentions(running, w)

Starts == Len(running') > Len(running)
Started == running'[Len(running')]

\* After Cancel or the destructor, and until Watch is called again, no
\* callback of the watcher starts, though its tasks may still be queued.
CancelledStaysSilent ==
  [][Starts => watcher[Started.watcher].alive /\ Watching(Started.watcher)]_vars

\* "if Cancel()/Watch() runs before this task is pumped, trap_ will differ (or
\* be invalid) and this stale event is dropped instead of firing a
\* since-replaced callback" (Notify): a callback that starts is the one that
\* the watcher's last Watch installed.
NoStaleCallback ==
  [][Starts => Started.callback = watcher[Started.watcher].callback]_vars

\* An automatic watcher whose signals hold gets its callback, unless the
\* signals go away or it is cancelled or asked to watch something else.
ReadyIsNotified ==
  \A w \in {x \in Watchers : Policy[x] = "kAutomatic"}, k \in 1..MaxWatches :
    Ready(w) /\ watcher[w].callback = k
      ~> \/ ~Ready(w) \/ watcher[w].callback # k
         \/ \E i \in DOMAIN running : running[i].callback = k

=============================================================================
