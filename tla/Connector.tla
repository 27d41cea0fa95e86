----------------------------- MODULE Connector -----------------------------
(***************************************************************************)
(* mojo::Connector (WASMCadidumBindings, connector.cc): one end of a       *)
(* message pipe, read through two automatic SimpleWatchers (WatcherCore)   *)
(* and handed message by message to incoming_receiver_.                    *)
(*                                                                         *)
(* One thread owns the connector and the executor.  Its call stack is the  *)
(* variable stack: the client's code runs at the bottom (main), inside     *)
(* Accept of the receiver and inside the connection error handler, and     *)
(* calls the connector from there; SyncWaitFor runs the executor inside    *)
(* such a call.  Another thread holds the peer end and writes and closes   *)
(* at any time.                                                            *)
(*                                                                         *)
(* Clients keep the rule that the repository's containers keep by posting  *)
(* (ReceiverSet, SelfOwnedReceiver): the connector is destroyed from main  *)
(* or from a task of its own, never inside Accept or the error handler.    *)
(* The containers' task keeps the rule only while the thread turns the     *)
(* executor at main: a receiver of a ReceiverSet that waits in SyncWaitFor *)
(* of another connector inside its method can turn it there, and the task  *)
(* then destroys this connector under its own Accept (receiver_set.h:31).  *)
(* Such receivers are left out.                                            *)
(***************************************************************************)
EXTENDS WatcherCore

CONSTANTS
  NestedWaits,  \* whether clients wait without a timeout inside Accept
  MaxStarts,    \* bound on the calls of StartReceiving that watch, Bind's included
  MaxWrites,    \* bound on the peer's writes
  MaxSends,     \* bound on the connector's writes
  MaxWaits,     \* bound on the calls of SyncWaitFor
  MaxDepth      \* bound on the depth of the stack when SyncWaitFor is called

VARIABLES
  core,       \* Core::Get()
  table,      \* WatcherHandleTable()
  watcher,    \* the SimpleWatchers that StartReceiving makes
  tasks,      \* Executor::queue_
  conn,       \* the fields of the Connector
  stack,      \* the thread's calls, innermost last
  delivered,  \* number of messages that Accept was called with
  used        \* numbers of sends and waits so far, for the bounds

vars == <<core, table, watcher, tasks, conn, stack, delivered, used>>

\* The k-th StartReceiving makes watcher 2k - 1 for READABLE and 2k for
\* PEER_CLOSED.
Watchers == 1..(2 * MaxStarts)
ForPeerClosed(w) == w % 2 = 0

ASSUME ConnectorAssumption ==
  /\ Policy = [w \in Watchers |-> "kAutomatic"] /\ NoWatcher \notin Watchers
  /\ NestedWaits \in BOOLEAN
  /\ {MaxStarts, MaxWrites, MaxSends, MaxWaits, MaxDepth} \subseteq Nat
  /\ MaxStarts # 0

State == [core |-> core, table |-> table, watcher |-> watcher, tasks |-> tasks,
          conn |-> conn, stack |-> stack]

Becomes(next) ==
  \E s \in {next} :
    /\ core' = s.core /\ table' = s.table /\ watcher' = s.watcher /\ tasks' = s.tasks
    /\ conn' = s.conn /\ stack' = s.stack

-----------------------------------------------------------------------------
(* The calls on the stack.                                                 *)

AcceptCall  == [fn |-> "accept"]
HandlerCall == [fn |-> "handler"]

\* A posted task in OnReadable or OnPeerClosed: at "read" in the loop of
\* ReadAllAvailableMessages, at "finish" when the callback returns.
CallbackCall(task) == [fn |-> "callback", at |-> "read", task |-> task]

\* SyncWaitFor until target messages are delivered: at "pump" in RunUntilIdle,
\* at "sleep" in WaitForWork with what is left of a finite timeout.
WaitCall(target, finite) ==
  [fn |-> "wait", at |-> "pump", target |-> target, finite |-> finite]

Top(st) == st[Len(st)]
Pop(st) == SubSeq(st, 1, Len(st) - 1)
TopIs(fn) == stack # <<>> /\ Top(stack).fn = fn
CallbackAt(at) == TopIs("callback") /\ Top(stack).at = at
Finishing(st) == [st EXCEPT ![Len(st)].at = "finish"]

\* The task that ReceiverSet and SelfOwnedReceiver post from their handler.
DestroyTask == [watcher |-> NoWatcher, trap_at_post |-> 0, callback |-> 0]

LocalEnd == 1
PeerEnd  == 2

\* "plain": the client's own code handles errors; "set": the error handler
\* only posts the connector's destruction, and nobody waits on it.
Init ==
  /\ core = WhpCreateMessagePipe(InitCore)
  /\ table = EmptyTable
  /\ watcher = [w \in Watchers |-> Fresh]
  /\ tasks = <<>> /\ stack = <<>> /\ delivered = 0
  /\ \E owner \in {"plain", "set"} :
       conn = [owner |-> owner, alive |-> TRUE, pipe |-> LocalEnd, error |-> FALSE,
               paused |-> FALSE, handler |-> TRUE, read |-> 0, closed |-> 0, starts |-> 0]
  /\ used = [sends |-> 0, waits |-> 0]

-----------------------------------------------------------------------------
(* The member functions.                                                   *)

DestroyWatcher(s, w) == Cancel([s EXCEPT !.watcher[w].alive = FALSE], w)

\* Mutant of CancelWatchers: only the first watcher.
CancelReadWatcher(s) ==
  LET s1 == IF s.conn.read # 0 THEN DestroyWatcher(s, s.conn.read) ELSE s
  IN  [s1 EXCEPT !.conn.read = 0, !.conn.closed = 0]

CancelWatchers(s) ==
  LET s1 == IF s.conn.read # 0 THEN DestroyWatcher(s, s.conn.read) ELSE s
      s2 == IF s.conn.closed # 0 THEN DestroyWatcher(s1, s.conn.closed) ELSE s1
  IN  [s2 EXCEPT !.conn.read = 0, !.conn.closed = 0]

ResetPipe(s) ==
  IF s.conn.pipe = MOJO_HANDLE_INVALID THEN s
  ELSE [s EXCEPT !.core = WhpClose(@, s.conn.pipe), !.conn.pipe = MOJO_HANDLE_INVALID]

\* StartReceiving does not return early.
Receives(s) == s.conn.pipe # MOJO_HANDLE_INVALID /\ s.conn.read = 0

\* Mutant of StartReceiving: one watcher for both signals.
StartReceivingOnce(s) ==
  LET k  == s.conn.starts + 1
      s1 == Watch(s, 2 * k - 1, s.conn.pipe, {"READABLE", "PEER_CLOSED"}, 2 * k - 1)
  IN  IF ~Receives(s) THEN s
      ELSE [s1 EXCEPT !.conn.read = 2 * k - 1, !.conn.starts = k]

StartReceiving(s) ==
  LET k  == s.conn.starts + 1
      s1 == Watch(s, 2 * k - 1, s.conn.pipe, {"READABLE"}, 2 * k - 1)
      s2 == Watch(s1, 2 * k, s.conn.pipe, {"PEER_CLOSED"}, 2 * k)
  IN  IF ~Receives(s) THEN s
      ELSE [s2 EXCEPT !.conn.read = 2 * k - 1, !.conn.closed = 2 * k, !.conn.starts = k]

\* Calls the handler last, after the watchers and the pipe are gone.
RaiseError(s) ==
  LET s1 == ResetPipe(CancelWatchers([s EXCEPT !.conn.error = TRUE]))
  IN  IF s.conn.error THEN s
      ELSE IF ~s.conn.handler THEN s1
      ELSE [s1 EXCEPT !.conn.handler = FALSE, !.stack = Append(@, HandlerCall)]

\* ~Connector and the destructors of its members.
Destroyed(s) == ResetPipe(CancelWatchers([s EXCEPT !.conn.alive = FALSE]))

\* ReadAllAvailableMessages returns after a message.
Stops(s) == s.conn.error \/ s.conn.paused

\* ReadAllAvailableMessages returns to OnReadable, which returns, or to
\* OnPeerClosed, which raises the error.
Returned(s) ==
  LET s1 == [s EXCEPT !.stack = Finishing(@)]
  IN  IF ForPeerClosed(Top(s.stack).task.watcher) THEN RaiseError(s1) ELSE s1

\* The same after ReadAllAvailableMessages raised the error itself.
ReturnedWithError(s) == RaiseError([s EXCEPT !.stack = Finishing(@)])

-----------------------------------------------------------------------------
(* The client.                                                             *)

\* The client's own code is what runs now, and the connector is there.
ClientRuns ==
  /\ conn.alive
  /\ stack = <<>> \/ TopIs("accept") \/ (TopIs("handler") /\ conn.owner = "plain")

\* Remote::Bind and Receiver::Bind.
Bind ==
  /\ ClientRuns /\ conn.starts = 0 /\ conn.pipe # MOJO_HANDLE_INVALID
  /\ Becomes(StartReceiving(State))
  /\ UNCHANGED <<delivered, used>>

Bound == conn.starts > 0

PauseIncomingMethodCallProcessing ==
  /\ ClientRuns /\ Bound /\ ~conn.paused
  /\ Becomes(CancelWatchers([State EXCEPT !.conn.paused = TRUE]))
  /\ UNCHANGED <<delivered, used>>

ResumeIncomingMethodCallProcessing ==
  /\ ClientRuns /\ conn.paused
  /\ Receives(State) => conn.starts < MaxStarts
  /\ Becomes(StartReceiving([State EXCEPT !.conn.paused = FALSE]))
  /\ UNCHANGED <<delivered, used>>

\* Connector::Accept: WriteMessageRaw creates the message and writes it.
Send ==
  LET m == NextHandle(core)
  IN  /\ ClientRuns /\ Bound /\ used.sends < MaxSends
      /\ conn.pipe # MOJO_HANDLE_INVALID /\ ~conn.error
      /\ LET s == [State EXCEPT !.core = WhpWriteMessage(WhpCreateMessage(@), conn.pipe, m)]
         IN  Becomes(IF WriteRefused(core, conn.pipe) THEN RaiseError(s) ELSE s)
      /\ used' = [used EXCEPT !.sends = @ + 1]
      /\ UNCHANGED delivered

\* ReportBadMessage, the callback of GetBadMessageCallback, and the router.
ClientRaisesError ==
  /\ ClientRuns /\ Bound /\ ~conn.error
  /\ Becomes(RaiseError(State))
  /\ UNCHANGED <<delivered, used>>

CloseMessagePipe ==
  /\ ClientRuns /\ Bound /\ conn.pipe # MOJO_HANDLE_INVALID
  /\ Becomes(ResetPipe(CancelWatchers(State)))
  /\ UNCHANGED <<delivered, used>>

Destroy ==
  /\ ClientRuns /\ stack = <<>>
  /\ Becomes(Destroyed(State))
  /\ UNCHANGED <<delivered, used>>

\* Remote::Unbind and Receiver::Unbind: the client gets the pipe back, open,
\* and the connector is destroyed.
PassMessagePipe ==
  /\ ClientRuns /\ stack = <<>> /\ Bound
  /\ Becomes(Destroyed([CancelWatchers(State) EXCEPT !.conn.pipe = MOJO_HANDLE_INVALID]))
  /\ UNCHANGED <<delivered, used>>

\* Mutant of AcceptReturns: the loop does not look at the flags again.
AcceptReturnsUnchecked(ok) ==
  /\ TopIs("accept")
  /\ LET s == [State EXCEPT !.stack = Pop(@)]
     IN  Becomes(IF ~ok THEN ReturnedWithError(s) ELSE s)
  /\ UNCHANGED <<delivered, used>>

\* Accept returns to the loop.
AcceptReturns(ok) ==
  /\ TopIs("accept")
  /\ LET s == [State EXCEPT !.stack = Pop(@)]
     IN  Becomes(IF ~ok THEN ReturnedWithError(s)
                 ELSE IF Stops(s) THEN Returned(s) ELSE s)
  /\ UNCHANGED <<delivered, used>>

HandlerReturns ==
  /\ TopIs("handler")
  /\ Becomes([State EXCEPT !.stack = Pop(@),
                           !.tasks = IF conn.owner = "set" THEN Append(@, DestroyTask) ELSE @])
  /\ UNCHANGED <<delivered, used>>

-----------------------------------------------------------------------------
(* SyncWaitFor.  Its job runs on the calling thread, inside PostJob.       *)

SyncWaitFor(finite) ==
  /\ ClientRuns /\ Bound /\ conn.owner = "plain"
  /\ used.waits < MaxWaits /\ Len(stack) < MaxDepth
  /\ finite \/ NestedWaits \/ stack = <<>>
  /\ Becomes([State EXCEPT !.stack = Append(@, WaitCall(delivered + 1, finite))])
  /\ used' = [used EXCEPT !.waits = @ + 1]
  /\ UNCHANGED delivered

WaitAt(at) == TopIs("wait") /\ Top(stack).at = at
ExecutorIdle == core.pending_events = <<>> /\ tasks = <<>>

\* RunUntilIdle has returned, and the predicate holds or the error is raised.
WaitSucceeds ==
  /\ WaitAt("pump") /\ ExecutorIdle
  /\ delivered >= Top(stack).target \/ conn.error
  /\ Becomes([State EXCEPT !.stack = Pop(@)])
  /\ UNCHANGED <<delivered, used>>

\* RunUntilIdle has returned with neither: a wait without a timeout goes on
\* pumping after 50 ms, one with a timeout waits for a task to be posted.
WaitSleeps ==
  /\ WaitAt("pump") /\ ExecutorIdle
  /\ delivered < Top(stack).target /\ ~conn.error /\ Top(stack).finite
  /\ Becomes([State EXCEPT !.stack[Len(stack)].at = "sleep"])
  /\ UNCHANGED <<delivered, used>>

\* No task is posted, because only the pump posts the watchers' tasks.
WaitExpires ==
  /\ WaitAt("sleep")
  /\ Becomes([State EXCEPT !.stack = Pop(@)])
  /\ UNCHANGED <<delivered, used>>

-----------------------------------------------------------------------------
(* The executor, at main or in SyncWaitFor: one turn pumps the events and  *)
(* takes the first task.  An event is purged with its watcher's trap, so   *)
(* each one that is pumped posts a task.                                   *)

FirstTask == Head(Pumped(State).tasks)
Taken     == [Pumped(State) EXCEPT !.tasks = Tail(@)]
TurnStarts == (stack = <<>> \/ WaitAt("pump")) /\ Pumped(State).tasks # <<>>

DropTask ==
  /\ TurnStarts /\ FirstTask # DestroyTask /\ Dropped(Taken, FirstTask)
  /\ Becomes(Taken)
  /\ UNCHANGED <<delivered, used>>

RunDestroyTask ==
  /\ TurnStarts /\ FirstTask = DestroyTask
  /\ Becomes(IF conn.alive THEN Destroyed(Taken) ELSE Taken)
  /\ UNCHANGED <<delivered, used>>

\* OnPeerClosed cancels its watcher before it looks at anything.
Entered(s, t) ==
  IF ForPeerClosed(t.watcher) /\ s.conn.closed # 0 THEN Cancel(s, s.conn.closed) ELSE s

\* OnReadable and OnPeerClosed, up to ReadAllAvailableMessages.  The result
\* they are called with is OK: both watch for signals that are satisfied.
RunTask ==
  LET s == Entered(Taken, FirstTask)
  IN  /\ TurnStarts /\ FirstTask # DestroyTask /\ ~Dropped(Taken, FirstTask)
      /\ Becomes(IF Stops(s) THEN Rearmed(s, FirstTask)
                 ELSE [s EXCEPT !.stack = Append(@, CallbackCall(FirstTask))])
      /\ UNCHANGED <<delivered, used>>

\* ReadMessageRaw reads a message and destroys its handle.
HasMessage == conn.pipe # MOJO_HANDLE_INVALID /\ Inbound(core, conn.pipe) # <<>>
MessageRead ==
  [State EXCEPT !.core = WhpClose(WhpReadMessage(@, conn.pipe), NextHandle(@))]

ReadAndAccept ==
  /\ CallbackAt("read") /\ HasMessage
  /\ Becomes([MessageRead EXCEPT !.stack = Append(@, AcceptCall)])
  /\ delivered' = delivered + 1
  /\ UNCHANGED used

\* The bytes make no message.
ReadMalformed ==
  /\ CallbackAt("read") /\ HasMessage
  /\ Becomes(ReturnedWithError(MessageRead))
  /\ UNCHANGED <<delivered, used>>

\* No message: SHOULD_WAIT, or an error when the peer is closed or the pipe
\* is no longer there.
ReadNothing ==
  /\ CallbackAt("read") /\ ~HasMessage
  /\ Becomes(IF conn.pipe # MOJO_HANDLE_INVALID
                /\ ~Outbound(core, conn.pipe).closed[PeerOf(core, conn.pipe)]
             THEN Returned(State) ELSE ReturnedWithError(State))
  /\ UNCHANGED <<delivered, used>>

\* The callback has returned to the watcher's task.
FinishTask ==
  /\ CallbackAt("finish")
  /\ LET t == Top(stack).task
     IN  Becomes([Rearmed(State, t) EXCEPT !.stack = Pop(@)])
  /\ UNCHANGED <<delivered, used>>

-----------------------------------------------------------------------------
(* The peer.                                                               *)

PeerWrites ==
  /\ IsA(core, PeerEnd, "MessagePipe") /\ core.messages - used.sends < MaxWrites
  /\ core' = WhpWriteMessage(WhpCreateMessage(core), PeerEnd, NextHandle(core))
  /\ UNCHANGED <<table, watcher, tasks, conn, stack, delivered, used>>

PeerCloses ==
  /\ IsA(core, PeerEnd, "MessagePipe")
  /\ core' = WhpClose(core, PeerEnd)
  /\ UNCHANGED <<table, watcher, tasks, conn, stack, delivered, used>>

Next ==
  \/ Bind
  \/ PauseIncomingMethodCallProcessing
  \/ ResumeIncomingMethodCallProcessing
  \/ Send
  \/ ClientRaisesError
  \/ CloseMessagePipe
  \/ Destroy
  \/ PassMessagePipe
  \/ \E ok \in BOOLEAN : AcceptReturns(ok)
  \/ HandlerReturns
  \/ \E finite \in BOOLEAN : SyncWaitFor(finite)
  \/ WaitSucceeds
  \/ WaitSleeps
  \/ WaitExpires
  \/ DropTask
  \/ RunDestroyTask
  \/ RunTask
  \/ ReadAndAccept
  \/ ReadMalformed
  \/ ReadNothing
  \/ FinishTask
  \/ PeerWrites
  \/ PeerCloses

Spec == Init /\ [][Next]_vars

\* What the thread does by itself: the loop turns, callbacks and calls go on.
Proceeds ==
  \/ WaitSucceeds \/ WaitSleeps \/ WaitExpires
  \/ DropTask \/ RunDestroyTask \/ RunTask
  \/ ReadAndAccept \/ ReadMalformed \/ ReadNothing \/ FinishTask

\* When Proceeds is enabled.
CanProceed ==
  \/ TopIs("callback") \/ WaitAt("sleep")
  \/ stack = <<>> /\ ~ExecutorIdle
  \/ /\ WaitAt("pump")
     /\ ~ExecutorIdle \/ delivered >= Top(stack).target \/ conn.error \/ Top(stack).finite

AcceptReturnsSome == \E ok \in BOOLEAN : AcceptReturns(ok)

\* Weak fairness, with its enabling conditions written out: the thread runs,
\* and the client's Accept and error handler return.
FairSpec ==
  /\ Spec
  /\ ([]<>(~CanProceed)) \/ ([]<><<Proceeds>>_vars)
  /\ ([]<>(~TopIs("accept"))) \/ ([]<><<AcceptReturnsSome>>_vars)
  /\ ([]<>(~TopIs("handler"))) \/ ([]<><<HandlerReturns>>_vars)

-----------------------------------------------------------------------------
(* Properties.                                                             *)

Receiving == conn.read # 0

\* Through every order of pause, resume, error, close and destruction, at
\* main and inside callbacks, the connector watches its pipe exactly when it
\* is bound, not paused and has a pipe; an error leaves no pipe; and the core
\* holds no trap but those of the two watchers (StartReceiving,
\* CancelWatchers, RaiseError).
WatchesExactly ==
  /\ Receiving <=> conn.alive /\ Bound /\ ~conn.paused /\ conn.pipe # MOJO_HANDLE_INVALID
  /\ Receiving => watcher[conn.read].trap # MOJO_HANDLE_INVALID
  /\ conn.error => conn.pipe = MOJO_HANDLE_INVALID
  /\ \A h \in DOMAIN core.slots : IsA(core, h, "Trap") =>
       \E w \in {conn.read, conn.closed} \ {0} : watcher[w].trap = h

\* "Whatever's still buffered gets one last drain before the error fires"
\* (OnPeerClosed): when the error is raised because the peer is closed, and
\* not because a message was refused, no message is left in the pipe.
DrainedBeforeError ==
  [][(ReadNothing \/ AcceptReturns(TRUE)) /\ ~conn.error /\ conn'.error => ~HasMessage]_vars

\* However deep the callbacks of the two watchers nest in the waits of the
\* client, and whoever pauses, closes or raises the error in between, each of
\* the loops that are on the stack stops in time: no message reaches the receiver
\* while it is paused or after the error (OnReadable, OnPeerClosed,
\* ReadAllAvailableMessages).
NoDeliveryAfterStop ==
  [][delivered' # delivered => ~conn.paused /\ ~conn.error]_vars

Waiting(n) == HasMessage /\ \E i \in DOMAIN Inbound(core, conn.pipe) :
                               Inbound(core, conn.pipe)[i].id = <<n>>

\* The chain of trap, event, task and re-arm does not break in the connector:
\* a message that waits in the pipe of a connector that is receiving is taken
\* out, unless the connector stops receiving.
MessagesAreRead ==
  \A n \in 1..(MaxWrites + MaxSends) : Receiving /\ Waiting(n) ~> ~Receiving \/ ~Waiting(n)

\* The close of the peer reaches the client: a connector that is receiving
\* raises its error or stops receiving first.
PeerCloseIsNoticed ==
  Receiving /\ ~IsA(core, PeerEnd, "MessagePipe") ~> ~Receiving

=============================================================================
