-------------------------- MODULE MessageContext --------------------------
(***************************************************************************)
(* Message contexts of HolePunch (core.cc, WhpSetMessageContext to         *)
(* WhpWriteMessage): an object the client hangs on a message, with a       *)
(* serializer that WhpWriteMessage calls to turn it into bytes and a       *)
(* destructor.  Both callbacks run outside Core::mu, between two locked    *)
(* sections of one call, so that calls of other threads come between.      *)
(*                                                                         *)
(* The handle table and the pipe are those of WhpCore.  A context is the   *)
(* number of the WhpSetMessageContext call that passed it, and its fields  *)
(* of MessageObj are kept under the message object's identity.  Bytes and  *)
(* attached handles are left out.  A serializer may commit its message, as *)
(* in tests/system/message_context.cc.                                     *)
(***************************************************************************)
EXTENDS WhpCore

CONSTANTS
  Threads,
  Callbacks,    \* <<serializer, destructor>>: which ones clients pass
  Quota,        \* quota_count of the pipe
  MaxMessages,  \* bound on the messages ever created
  MaxContexts,  \* bound on the contexts ever set
  MaxWrites     \* bound on the messages ever queued

ASSUME MessageContextAssumption ==
  /\ Callbacks \subseteq BOOLEAN \X BOOLEAN
  /\ {Quota, MaxMessages, MaxContexts, MaxWrites} \subseteq Nat

VARIABLES
  shared,   \* whether threads use message handles of other threads (fixed)
  core,     \* Core::Get()
  msg,      \* context, serializer and destructor of every message object
  call,     \* the call each thread is in
  mine,     \* the message handles each thread knows and uses
  context   \* what was passed with each context, and its callbacks' runs

contextVars == <<shared, core, msg, call, mine, context>>

MsgOf(m) == core.slots[m].obj.id[1]

NoCall == [at |-> "idle"]

\* The state of a thread inside WhpSerializeMessage: the handle it was called
\* with, what the first locked section took, and the pipe to write to next
\* (0 for a plain WhpSerializeMessage).
Serializing(at, m, ctx, run, pipe) ==
  [at |-> at, message |-> m, ctx |-> ctx, run |-> run, pipe |-> pipe]

\* About to call the destructor it took, before a write or before returning.
Destroying(ctx, m, pipe) ==
  [at |-> "destructor", message |-> m, ctx |-> ctx, pipe |-> pipe]

Writing(m, pipe) == [at |-> "write", message |-> m, pipe |-> pipe]

NoContext == [context |-> 0, serializer |-> FALSE, destructor |-> FALSE]

\* Messages are written to one end of the pipe and read from the other.
Sender   == 1
Receiver == 2
PipeEnds == {Sender, Receiver}

ContextInit ==
  /\ shared \in BOOLEAN
  /\ core = WhpSetQuotaCount(WhpCreateMessagePipe(InitCore), Receiver, Quota)
  /\ msg = [n \in 1..MaxMessages |-> NoContext]
  /\ call = [t \in Threads |-> NoCall]
  /\ mine = [t \in Threads |-> {}]
  /\ context = <<>>

\* Thread t gets a message handle; every thread does if they share.
Learn(t, h) ==
  [x \in Threads |-> IF shared \/ x = t THEN mine[x] \cup {h} ELSE mine[x]]

Idle(t) == call[t].at = "idle"

\* Threads inside WhpWriteMessage.
Writers == {t \in Threads : ~Idle(t) /\ call[t].pipe # 0}

-----------------------------------------------------------------------------
CreateMessage(t) ==
  /\ Idle(t) /\ core.messages < MaxMessages
  /\ core' = WhpCreateMessage(core)
  /\ mine' = Learn(t, NextHandle(core))
  /\ UNCHANGED <<msg, call, context>>

\* WhpAppendMessageData with the flag COMMIT_SIZE.
CommitSize(t, m) ==
  /\ Idle(t) /\ ~core.slots[m].obj.committed
  /\ core' = WhpAppendMessageData(core, m, 0, TRUE)
  /\ UNCHANGED <<msg, call, mine, context>>

\* Mutant of TakeDestructor: neither destructor nor context is reset.
TakeDestructorKept(n) == [msg EXCEPT ![n].serializer = FALSE]

\* WhpSerializeMessage, second section: the message loses its context.
TakeDestructor(n) == [msg EXCEPT ![n] = NoContext]

\* Mutant of DestroyOr: the destructor that was taken is never called.
DestroyOrForget(n, m, pipe, otherwise) == otherwise

\* The thread runs the destructor of the context that message n has, if any.
DestroyOr(n, m, pipe, otherwise) ==
  IF msg[n].destructor THEN Destroying(msg[n].context, m, pipe) ELSE otherwise

Install(n, k, serializer, destructor) ==
  [msg EXCEPT ![n] = [context |-> k, serializer |-> serializer,
                      destructor |-> destructor]]

Passed(n, serializer, destructor) ==
  [message |-> n, serializer |-> serializer, destructor |-> destructor,
   serialized |-> 0, destroyed |-> 0]

\* Replaces the context; the old one's destructor runs after the section.
SetMessageContext(t, m, serializer, destructor) ==
  LET n == MsgOf(m)
      k == Len(context) + 1
  IN  /\ Idle(t) /\ k <= MaxContexts
      /\ msg' = Install(n, k, serializer, destructor)
      /\ context' = Append(context, Passed(n, serializer, destructor))
      /\ call' = [call EXCEPT ![t] = DestroyOr(n, m, 0, NoCall)]
      /\ UNCHANGED <<core, mine>>

\* WhpClose or WhpDestroyMessage.
DestroyMessage(t, m) ==
  LET n == MsgOf(m)
  IN  /\ Idle(t)
      /\ core' = WhpClose(core, m)
      /\ msg' = [msg EXCEPT ![n].destructor = FALSE, ![n].serializer = FALSE]
      /\ mine' = [x \in Threads |-> mine[x] \ {m}]
      /\ call' = [call EXCEPT ![t] = DestroyOr(n, m, 0, NoCall)]
      /\ UNCHANGED context

-----------------------------------------------------------------------------
(* WhpSerializeMessage, and WhpWriteMessage which calls it first.          *)

\* What comes after the message is serialized.
Then(m, pipe) == IF pipe = 0 THEN NoCall ELSE Writing(m, pipe)

TakeSerializer(n) == [msg EXCEPT ![n].serializer = FALSE]

SerializedAlready(m) == core.slots[m].obj.committed /\ ~msg[MsgOf(m)].serializer

\* The first section: nothing to do, or takes the serializer.
SerializeMessage(t, m, pipe) ==
  LET n == MsgOf(m)
  IN  /\ Idle(t) /\ (pipe # 0 => core.writes + Cardinality(Writers) < MaxWrites)
      /\ IF SerializedAlready(m)
         THEN call' = [call EXCEPT ![t] = Then(m, pipe)] /\ UNCHANGED msg
         ELSE /\ call' = [call EXCEPT ![t] =
                            Serializing("serializer", m, msg[n].context,
                                        msg[n].serializer, pipe)]
              /\ msg' = TakeSerializer(n)
      /\ UNCHANGED <<core, mine, context>>

\* The serializer, if there is one; it may commit the size of the message
\* that its handle names.
RunSerializer(t) ==
  LET x == call[t]
  IN  /\ x.at = "serializer"
      /\ context' = IF x.run THEN [context EXCEPT ![x.ctx].serialized = @ + 1] ELSE context
      /\ \/ UNCHANGED core
         \/ /\ x.run /\ IsA(core, x.message, "Message")
            /\ core' = WhpAppendMessageData(core, x.message, 0, TRUE)
      /\ call' = [call EXCEPT ![t].at = "commit"]
      /\ UNCHANGED <<msg, mine>>

\* The second section.
CommitSerialized(t) ==
  LET x == call[t]
      n == MsgOf(x.message)
  IN  /\ x.at = "commit"
      /\ IF ~IsA(core, x.message, "Message")
         THEN call' = [call EXCEPT ![t] = NoCall] /\ UNCHANGED <<core, msg>>
         ELSE /\ core' = WhpSerializeMessage(core, x.message)
              /\ msg' = TakeDestructor(n)
              /\ call' = [call EXCEPT ![t] =
                            DestroyOr(n, x.message, x.pipe, Then(x.message, x.pipe))]
      /\ UNCHANGED <<mine, context>>

RunDestructor(t) ==
  LET x == call[t]
  IN  /\ x.at = "destructor"
      /\ context' = [context EXCEPT ![x.ctx].destroyed = @ + 1]
      /\ call' = [call EXCEPT ![t] = Then(x.message, x.pipe)]
      /\ UNCHANGED <<core, msg, mine>>

\* The second section of WhpWriteMessage.
WriteMessage(t) ==
  LET x == call[t]
  IN  /\ x.at = "write"
      /\ core' = IF IsA(core, x.message, "Message")
                 THEN WriteSerialized(core, x.pipe, x.message) ELSE core
      /\ mine' = [y \in Threads |-> {m \in mine[y] : IsA(core, m, "Message")'}]
      /\ call' = [call EXCEPT ![t] = NoCall]
      /\ UNCHANGED <<msg, context>>

-----------------------------------------------------------------------------
ReadMessage(t, pipe) ==
  /\ Idle(t) /\ IsA(core, pipe, "MessagePipe") /\ Inbound(core, pipe) # <<>>
  /\ core' = WhpReadMessage(core, pipe)
  /\ mine' = Learn(t, NextHandle(core))
  /\ UNCHANGED <<msg, call, context>>

ClosePipe(t, pipe) ==
  /\ Idle(t) /\ IsA(core, pipe, "MessagePipe")
  /\ core' = WhpClose(core, pipe)
  /\ UNCHANGED <<msg, call, mine, context>>

ContextNext ==
  /\ UNCHANGED shared
  /\ \E t \in Threads :
       \/ CreateMessage(t)
       \/ \E m \in mine[t] : CommitSize(t, m)
       \/ \E m \in mine[t], f \in Callbacks : SetMessageContext(t, m, f[1], f[2])
       \/ \E m \in mine[t] : DestroyMessage(t, m)
       \/ \E m \in mine[t], pipe \in {0, Sender} : SerializeMessage(t, m, pipe)
       \/ RunSerializer(t)
       \/ CommitSerialized(t)
       \/ RunDestructor(t)
       \/ WriteMessage(t)
       \/ ReadMessage(t, Receiver)
       \/ \E pipe \in PipeEnds : ClosePipe(t, pipe)

ContextSpec == ContextInit /\ [][ContextNext]_contextVars

-----------------------------------------------------------------------------
(* Properties.                                                             *)

\* Message objects that a handle or a queue still holds.
HeldByHandle == {MsgOf(m) : m \in {x \in DOMAIN core.slots : IsA(core, x, "Message")}}
HeldByQueue ==
  UNION {{core.pipes[1].queues[e][i].id[1] : i \in DOMAIN core.pipes[1].queues[e]} :
           e \in 0..1}
Held == HeldByHandle \cup HeldByQueue

\* Who will still call the destructor of context k: threads that took it, and
\* the message that has it.
Takers(k) == {t \in Threads : call[t].at = "destructor" /\ call[t].ctx = k}
Bearers(k) == {n \in Held : msg[n].context = k /\ msg[n].destructor}

\* However WhpSetMessageContext, WhpSerializeMessage, WhpWriteMessage and
\* WhpClose interleave, on one message or on one whose handle was reused
\* between two sections of a call, each callback of a context runs at most
\* once: it has run, or one thread has taken it, or one message bears it.
\* When every thread keeps to its own messages, the serializer never gets a
\* context whose destructor has run.
CallbacksOnce ==
  /\ \A k \in DOMAIN context :
       /\ context[k].destroyed + Cardinality(Takers(k)) + Cardinality(Bearers(k)) <= 1
       /\ context[k].serialized
          + Cardinality({t \in Threads : /\ call[t].at = "serializer"
                                         /\ call[t].run /\ call[t].ctx = k})
          + Cardinality({n \in Held : msg[n].context = k /\ msg[n].serializer}) <= 1
  /\ \A t \in Threads : ~shared /\ call[t].at = "serializer" /\ call[t].run =>
       context[call[t].ctx].destroyed = 0

\* When every thread keeps to its own messages, a context that has both
\* callbacks is destroyed no later than its message: no call lets go of the
\* message, a refused write included, and forgets the destructor.  A context
\* without a serializer can be forgotten: on a committed message
\* WhpSerializeMessage returns before it gets to the destructor.
NoContextLeak ==
  \A k \in DOMAIN context :
    ~shared /\ context[k].serializer /\ context[k].destructor /\ context[k].message \notin Held =>
      context[k].destroyed = 1 \/ Takers(k) # {}

\* The callbacks that WhpSetMessageContext takes on run once: neither twice
\* nor, for a message that one thread keeps to itself, never.
ContextsAreExact == CallbacksOnce /\ NoContextLeak

=============================================================================
