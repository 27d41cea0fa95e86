---------------------------- MODULE WatcherCore ----------------------------
(***************************************************************************)
(* The member functions of mojo::SimpleWatcher (WASMCadidumKernel,         *)
(* simple_watcher.cc) as operators on a record s that holds the core       *)
(* (WhpCore), the table that turns a trigger context into a watcher        *)
(* (EntityTable), the watchers' fields and the task queue of whp::Executor *)
(* (executor.cc).  SimpleWatcher and Connector are built on them.          *)
(*                                                                         *)
(* A ReadyCallback is modelled by the number of the Watch call it came     *)
(* with, which tells a replaced callback from its successor.               *)
(***************************************************************************)
EXTENDS WhpCore, EntityTable

CONSTANTS
  Policy,     \* the arming policy of each SimpleWatcher object
  NoWatcher   \* the nullptr that Get returns

MOJO_HANDLE_INVALID == 0
WatcherTag == 1

Fresh == [alive |-> TRUE, trap |-> MOJO_HANDLE_INVALID, handle |-> MOJO_HANDLE_INVALID,
          callback |-> 0, watcher_handle |-> kNullHandle]

-----------------------------------------------------------------------------
(* The member functions.                                                   *)

\* Posts a task with the callback and the trap as they are now.
Notify(s, w) ==
  [s EXCEPT !.tasks = Append(@, [watcher      |-> w,
                                 trap_at_post |-> s.watcher[w].trap,
                                 callback     |-> s.watcher[w].callback])]

\* Mutant of Arm: a blocked trap is left alone.
ArmSilently(s, w) ==
  IF s.watcher[w].trap # MOJO_HANDLE_INVALID /\ CanArm(s.core, s.watcher[w].trap)
  THEN [s EXCEPT !.core = WhpArmTrap(@, s.watcher[w].trap)] ELSE s

Arm(s, w) ==
  LET trap == s.watcher[w].trap
  IN  IF trap = MOJO_HANDLE_INVALID THEN s
      ELSE IF CanArm(s.core, trap) THEN [s EXCEPT !.core = WhpArmTrap(@, trap)]
      ELSE Notify(s, w)

\* Mutant of Cancel: the entry of the table stays.
CancelKeepsEntry(s, w) ==
  LET trap == s.watcher[w].trap
      s1   == [s EXCEPT !.watcher[w] = [Fresh EXCEPT !.alive = s.watcher[w].alive]]
  IN  IF trap = MOJO_HANDLE_INVALID THEN s1
      ELSE [s1 EXCEPT !.core = WhpClose(@, trap)]

\* Frees the table entry, then closes the trap.
Cancel(s, w) ==
  LET x  == s.watcher[w]
      s1 == [s EXCEPT !.watcher[w] = [Fresh EXCEPT !.alive = x.alive]]
  IN  IF x.trap = MOJO_HANDLE_INVALID THEN s1
      ELSE [s1 EXCEPT !.table = FreeEntry(@, x.watcher_handle),
                      !.core = WhpClose(@, x.trap)]

\* Cancels what was watched; on a handle that MojoAddTrigger refuses it
\* undoes the trap and the entry and keeps the callback.
Watch(s0, w, h, signals, callback) ==
  LET s1    == Cancel(s0, w)
      trap  == NextHandle(s1.core)
      entry == NextEntry(s1.table)
      s2 == [s1 EXCEPT !.core = WhpCreateTrap(@),
                       !.table = AllocateEntry(@, Entry(WatcherTag, w)),
                       !.watcher[w] = [@ EXCEPT !.callback = callback, !.handle = h,
                                                !.trap = trap, !.watcher_handle = entry]]
      s3 == [s2 EXCEPT !.core = WhpAddTrigger(@, trap, h, signals, "SATISFIED", entry)]
      undone == [s2 EXCEPT !.table = FreeEntry(@, entry),
                           !.core = WhpClose(@, trap),
                           !.watcher[w] = [Fresh EXCEPT !.callback = callback]]
  IN  IF ~Lookup(s2.core, h) THEN undone
      ELSE IF Policy[w] = "kAutomatic" THEN Arm(s3, w) ELSE s3

Resolve(s, e) == Get(s.table, e.context, {WatcherTag}, NoWatcher)

\* OnTrapEvent for each event: notifies the watcher that the context
\* resolves to now, and drops the event when there is none.
OnTrapEvents(s, events) ==
  LET live == KeepAt(events, {i \in DOMAIN events : Resolve(s, events[i]) # NoWatcher})
  IN  [s EXCEPT !.tasks = @ \o
         [i \in 1..Len(live) |->
            LET w == Resolve(s, live[i])
            IN  [watcher |-> w, trap_at_post |-> s.watcher[w].trap,
                 callback |-> s.watcher[w].callback]]]

\* WhpPumpEvents, the executor's idle source.  Its handlers only post tasks,
\* so nothing of this thread comes between them.
Pumped(s) ==
  OnTrapEvents([s EXCEPT !.core.pending_events = <<>>], s.core.pending_events)

-----------------------------------------------------------------------------
(* A posted task, before and after its callback.                           *)

\* Mutant of Dropped: only the watcher's life is checked.
DroppedIfDead(s, t) == ~s.watcher[t.watcher].alive

\* A posted task returns at once if its watcher is gone or has another trap.
Dropped(s, t) ==
  ~s.watcher[t.watcher].alive \/ s.watcher[t.watcher].trap # t.trap_at_post

\* Mutant of Rearms: an automatic watcher is not armed again.
RearmsNever(s, t) == FALSE

Rearms(s, t) ==
  /\ s.watcher[t.watcher].alive /\ Policy[t.watcher] = "kAutomatic"
  /\ s.watcher[t.watcher].trap = t.trap_at_post

\* The end of the task, once its callback has returned.
Rearmed(s, t) == IF Rearms(s, t) THEN Arm(s, t.watcher) ELSE s

=============================================================================
