--------------------------- MODULE MultiplexRouter ---------------------------
(***************************************************************************)
(* One message pipe shared by a primary interface and associated ones:     *)
(* MultiplexRouter, ScopedInterfaceEndpointHandle, Remote, Receiver,       *)
(* AssociatedRemote, AssociatedReceiver and ResponseDispatcher, as both    *)
(* ends of the pipe use them.  Side "A" is bound by a Remote, side "B" by  *)
(* a Receiver.  The Connector below a router (module Connector) is an      *)
(* ordered queue here; reading one message is one step.                    *)
(*                                                                         *)
(* Functions of the code are operators on the record w, so that one step   *)
(* is the whole of a call.  The client of a side resets no object inside a *)
(* call to it.  An id that is given out again names one interface at a     *)
(* time: its earlier halves are reset or on no side's hands by then.       *)
(***************************************************************************)
EXTENDS Naturals, Sequences, FiniteSets

CONSTANTS MaxMint,      \* associated interfaces minted by each side
          MaxCalls,     \* calls on each associated interface
          CarelessCalls, \* the same if the client is careless
          MaxRequests,  \* calls of the primary interface that expect an answer
          MaxFlushes    \* FlushForTesting by each side

ASSUME RouterBounds == /\ MaxMint \in Nat /\ MaxCalls \in Nat /\ CarelessCalls \in Nat
                       /\ MaxRequests \in Nat /\ MaxFlushes \in Nat

VARIABLES w,      \* both routers, the pipe between them and what they were used for
          style,  \* what clients do besides plain calls: "flushes"; "nests", they
                  \* turn the executor inside Accept; "rebinds", they unbind a
                  \* Remote that is idle; "careless", also one that is in use
          minter, \* the side that mints associated interfaces
          restarted  \* whether a router counts from 1 again after ids were given out
vars == <<w, style, minter, restarted>>

Sides == {"A", "B"}
Other(s) == IF s = "A" THEN "B" ELSE "A"
Roles == {"remote", "receiver"}
Partner(r) == IF r = "remote" THEN "receiver" ELSE "remote"

\* kInterfaceIdNamespaceMask keeps the ids of the two sides apart.
NamespaceMask == MaxMint + 1
Ids == (1 .. MaxMint) \cup ((NamespaceMask + 1) .. (NamespaceMask + MaxMint))
NoId == 0

Endpoint(live, client, queue, handler, refs) ==
  [live |-> live, client |-> client, queue |-> queue,
   handler |-> handler, refs |-> refs]
Absent == Endpoint(FALSE, "none", <<>>, "none", 0)

Msg(kind, id, role, n, call) ==
  [kind |-> kind, id |-> id, role |-> role, n |-> n, call |-> call]

Gone == [at |-> "none", bound |-> FALSE, told |-> FALSE]
Held(s) == [at |-> s, bound |-> FALSE, told |-> FALSE]

Start ==
  [ep |-> [s \in Sides |-> [i \in Ids |-> Absent]],
   next |-> [s \in Sides |-> 1],
   conn |-> [s \in Sides |-> "open"],
   wire |-> [s \in Sides |-> <<>>],
   prim |-> [s \in Sides |-> TRUE],
   erase |-> [s \in Sides |-> FALSE],
   ends |-> [i \in Ids |-> [r \in Roles |-> Gone]],
   drain |-> [s \in Sides |-> [id |-> NoId, rest |-> <<>>]],
   flush |-> [s \in Sides |-> "idle"], flushes |-> [s \in Sides |-> 0],
   pending |-> {}, nextReq |-> 1, calls |-> 0, asked |-> {}, answers |-> <<>>,
   rebinds |-> 0,
   sent |-> [i \in Ids |-> 0], got |-> [i \in Ids |-> <<>>]]

-----------------------------------------------------------------------------
(* Connector and router, seen from one side.                               *)

\* Connector::RaiseError closes the pipe, with it what was not read yet, and
\* runs the error handler; a ReceiverSet's handler posts a task that erases
\* the entry.
RaiseError(v, s) ==
  IF v.conn[s] # "open" THEN v
  ELSE [v EXCEPT !.conn[s] = "error", !.wire[s] = <<>>,
                 !.erase[s] = (s = "B" /\ v.prim[s])]

\* Connector::Accept: the write is refused when the peer's end is closed.
Send(v, s, m) ==
  IF v.conn[s] # "open" THEN v
  ELSE IF v.conn[Other(s)] # "open" THEN RaiseError(v, s)
  ELSE [v EXCEPT !.wire[Other(s)] = Append(@, m)]

\* ~MultiplexRouter, when neither the primary object nor a handle is left.
ReleaseRouter(v, s) ==
  IF v.prim[s] \/ \E i \in Ids, r \in Roles : v.ends[i][r].at = s
  THEN v
  ELSE [v EXCEPT !.conn[s] = IF @ = "open" THEN "closed" ELSE @,
                 !.wire[s] = <<>>,
                 !.ep[s] = [i \in Ids |-> Absent]]

\* Mutant: an endpoint that is found is made anew.
AlwaysCreateEndpoint(v, s, id) == [v EXCEPT !.ep[s][id] = [Absent EXCEPT !.live = TRUE]]

FindOrCreateEndpoint(v, s, id) == [v EXCEPT !.ep[s][id].live = TRUE]

RetainEndpoint(v, s, id) ==
  [v EXCEPT !.ep[s][id].live = TRUE, !.ep[s][id].refs = @ + 1]

MaybeEraseEndpoint(v, s, id) ==
  LET e == v.ep[s][id] IN
  IF e.live /\ e.refs = 0 /\ e.client = "none" /\ e.queue = <<>>
  THEN [v EXCEPT !.ep[s][id] = Absent]
  ELSE v

\* Mutant: a dropped handle stays counted.
DropEndpointHandleCounted(v, s, id) ==
  IF ~v.ep[s][id].live THEN v ELSE MaybeEraseEndpoint(v, s, id)

DropEndpointHandle(v, s, id) ==
  IF ~v.ep[s][id].live THEN v
  ELSE MaybeEraseEndpoint(
         [v EXCEPT !.ep[s][id].refs = IF @ > 0 THEN @ - 1 ELSE 0], s, id)

DetachEndpointClient(v, s, id) ==
  MaybeEraseEndpoint([v EXCEPT !.ep[s][id].client = "none"], s, id)

NotifyPeerEndpointClosed(v, s, id) ==
  Send(v, s, Msg("closed", id, "none", 0, 0))

CloseEndpoint(v, s, id) ==
  DropEndpointHandle(
    [NotifyPeerEndpointClosed(v, s, id) EXCEPT !.ep[s][id].client = "none"],
    s, id)

\* CreateLocalEndpointHandle: what a Stub_ does with an id it decodes.
CreateLocalEndpointHandle(v, s, id, role) ==
  [RetainEndpoint(v, s, id) EXCEPT !.ends[id][role] = Held(s)]

\* HandlePipeControlMessage: pings are answered, a closed endpoint's handler
\* is run and spent.
HandlePipeControlMessage(v, s, m) ==
  CASE m.kind = "ping" -> Send(v, s, Msg("pong", NoId, "none", 0, 0))
    [] m.kind = "pong" -> [v EXCEPT !.flush[s] = IF @ = "wait" THEN "done" ELSE @]
    [] OTHER ->
       LET h == v.ep[s][m.id].handler IN
       IF h = "none" THEN v
       ELSE [v EXCEPT !.ep[s][m.id].handler = "none",
                      !.ends[m.id][h].told = TRUE]

\* ResponseDispatcher::DispatchResponse in Proxy_::Accept: an id that is not
\* pending is a protocol error.  An answer may carry an associated endpoint.
DispatchResponse(v, s, m) ==
  LET p == {q \in v.pending : q.rid = m.n} IN
  IF p = {} THEN RaiseError(v, s)
  ELSE LET q == CHOOSE x \in p : TRUE
           v1 == [v EXCEPT !.pending = @ \ {q},
                           !.answers = Append(@, [call |-> q.call, to |-> m.call])]
       IN IF m.id = NoId THEN v1
          ELSE CreateLocalEndpointHandle(v1, s, m.id, m.role)

\* The primary Stub_ (side B) or Proxy_ (side A).
AcceptPrimary(v, s, m) ==
  IF ~v.prim[s] THEN v
  ELSE CASE m.kind = "response" -> DispatchResponse(v, s, m)
         [] m.kind = "request" ->
              [v EXCEPT !.asked = @ \cup {[rid |-> m.n, call |-> m.call]}]
         [] m.kind = "pass" -> CreateLocalEndpointHandle(v, s, m.id, m.role)
         [] m.kind = "require" -> RaiseError(v, s)

\* MultiplexRouter::Accept: a message for an endpoint without a client makes
\* the endpoint and waits there.
Accept(v, s, m) ==
  CASE m.kind \in {"ping", "pong", "closed"} -> HandlePipeControlMessage(v, s, m)
    [] m.kind \in {"request", "response", "pass", "require"} ->
         AcceptPrimary(v, s, m)
    [] m.kind = "call" ->
         IF v.ep[s][m.id].client # "none"
         THEN [v EXCEPT !.got[m.id] = Append(@, m.n)]
         ELSE [FindOrCreateEndpoint(v, s, m.id)
                 EXCEPT !.ep[s][m.id].queue = Append(@, m)]

-----------------------------------------------------------------------------
(* Steps of a side.  A side that drains a queue or waits for a flush takes *)
(* no other step, except that it reads messages: always while it flushes,  *)
(* while it drains only if its client turns the executor inside Accept.    *)

Draining(s) == w.drain[s].id # NoId
Free(s) == ~Draining(s) /\ w.flush[s] = "idle"
Reading(s) == ~Draining(s) \/ style = "nests"
Becomes(v) == w' = v /\ UNCHANGED <<style, minter, restarted>>

\* Connector::ReadAllAvailableMessages, one message.
ReadMessage(s) ==
  /\ w.conn[s] = "open" /\ w.wire[s] # <<>> /\ Reading(s)
  /\ Becomes(Accept([w EXCEPT !.wire[s] = Tail(@)], s, Head(w.wire[s])))

\* Connector::OnPeerClosed, once everything is read.
PeerClosed(s) ==
  /\ w.conn[s] = "open" /\ w.conn[Other(s)] # "open" /\ w.wire[s] = <<>>
  /\ Reading(s)
  /\ Becomes(RaiseError(w, s))

\* CreatePairPendingAssociation: both halves start on the side that mints.
Mint(s) ==
  /\ Free(s) /\ s = minter /\ w.prim[s] /\ w.next[s] <= MaxMint
  /\ LET id == w.next[s] + (IF s = "B" THEN NamespaceMask ELSE 0)
     IN /\ \A r \in Roles : w.ends[id][r].at = "none"
        /\ Becomes([RetainEndpoint(RetainEndpoint(w, s, id), s, id)
                      EXCEPT !.next[s] = @ + 1,
                             !.ends[id] = [r \in Roles |-> Held(s)]])

\* Mutant: the handle is closed once its id is on the wire.
PassCloses(id, role) ==
  /\ Free("A") /\ w.prim["A"] /\ w.ends[id][role] = Held("A")
  /\ Becomes(CloseEndpoint(Send([w EXCEPT !.ends[id][role] = [Gone EXCEPT !.at = "wire"]],
                                "A", Msg("pass", id, role, 0, 0)), "A", id))

\* A call of the primary interface that hands an endpoint over: the id is
\* peeled off the handle, which does not close the endpoint.
Pass(id, role) ==
  /\ Free("A") /\ w.prim["A"] /\ w.ends[id][role] = Held("A")
  /\ Becomes(Send([DropEndpointHandle(w, "A", id)
                     EXCEPT !.ends[id][role] = [Gone EXCEPT !.at = "wire"]],
                  "A", Msg("pass", id, role, 0, 0)))

\* AssociatedRemote::Bind, AssociatedReceiver::Bind.  AttachEndpointClient
\* takes the waiting messages out and hands them to the client one by one.
\* A client does not bind the second half of a pair on the same side.
Bind(s, id, role) ==
  /\ Free(s) /\ w.ends[id][role].at = s /\ ~w.ends[id][role].bound
  /\ ~(w.ends[id][Partner(role)].at = s /\ w.ends[id][Partner(role)].bound)
  /\ Becomes([w EXCEPT !.ends[id][role].bound = TRUE,
                       !.ep[s][id] = Endpoint(TRUE, role, <<>>, @.handler, @.refs),
                       !.drain[s] = IF w.ep[s][id].queue = <<>> THEN @
                                    ELSE [id |-> id, rest |-> w.ep[s][id].queue]])

\* One message of the loop in AttachEndpointClient.
Drain(s) ==
  /\ Draining(s)
  /\ LET id == w.drain[s].id
         rest == w.drain[s].rest
     IN Becomes([w EXCEPT !.got[id] = Append(@, Head(rest).n),
                          !.drain[s] = IF Len(rest) = 1
                                       THEN [id |-> NoId, rest |-> <<>>]
                                       ELSE [id |-> id, rest |-> Tail(rest)]])

\* set_disconnect_handler of a bound associated object.
SetPeerClosedHandler(s, id, role) ==
  /\ Free(s) /\ w.ends[id][role].at = s /\ w.ends[id][role].bound
  /\ ~w.ends[id][role].told /\ w.ep[s][id].handler = "none"
  /\ Becomes([w EXCEPT !.ep[s][id].live = TRUE, !.ep[s][id].handler = role])

\* A method of a bound AssociatedRemote.
Call(s, id) ==
  /\ Free(s) /\ w.ends[id]["remote"].at = s /\ w.ends[id]["remote"].bound
  /\ w.ends[id]["receiver"].at # s
  /\ w.sent[id] < IF style = "careless" THEN CarelessCalls ELSE MaxCalls
  /\ w.conn[s] = "open"
  /\ Becomes(Send([w EXCEPT !.sent[id] = @ + 1], s,
                  Msg("call", id, "none", w.sent[id] + 1, 0)))

\* reset() and reset_with_reason() of a bound object, and of a pending one.
ResetAssociated(s, id, role) ==
  /\ Free(s) /\ w.ends[id][role].at = s
  /\ LET v == [w EXCEPT !.ends[id][role].at = "none", !.ends[id][role].bound = FALSE]
         detached(x) == IF w.ends[id][role].bound
                        THEN DetachEndpointClient(x, s, id) ELSE x
     IN \/ Becomes(ReleaseRouter(CloseEndpoint(detached(v), s, id), s))
        \/ /\ w.ends[id][role].bound
           /\ Becomes(ReleaseRouter(DropEndpointHandle(
                detached(NotifyPeerEndpointClosed(v, s, id)), s, id), s))

\* Remote::reset, Receiver::reset.  Calls without an answer are dropped.
Reset(v, s) ==
  ReleaseRouter([v EXCEPT !.prim[s] = FALSE,
                          !.pending = IF s = "A" THEN {} ELSE @,
                          !.asked = IF s = "B" THEN {} ELSE @], s)

ResetPrimary(s) == Free(s) /\ w.prim[s] /\ Becomes(Reset(w, s))

\* The task that a set posts when the pipe of an entry fails.
EraseEntry(s) ==
  /\ Free(s) /\ w.erase[s]
  /\ Becomes(Reset([w EXCEPT !.erase[s] = FALSE], s))

\* Remote::Unbind and Bind again: the pipe moves to a new router with a new
\* Proxy_; request ids and the ids it mints both start again.
Rebind ==
  /\ style \in {"rebinds", "careless"} /\ w.rebinds = 0
  /\ Free("A") /\ w.prim["A"] /\ w.conn["A"] = "open"
  /\ \A i \in Ids, r \in Roles : w.ends[i][r].at # "A"
  /\ style = "rebinds" => w.pending = {} /\ \A s \in Sides : w.next[s] = 1
  /\ w' = [w EXCEPT !.rebinds = 1, !.pending = {}, !.nextReq = 1, !.next["A"] = 1,
                    !.ep["A"] = [i \in Ids |-> Absent]]
  /\ restarted' = (restarted \/ w.next["A"] # 1)
  /\ UNCHANGED <<style, minter>>

\* A method of the primary interface with an answer: RegisterPendingResponse.
Request ==
  /\ Free("A") /\ w.prim["A"] /\ w.calls < MaxRequests
  /\ LET m == Msg("request", NoId, "none", w.nextReq, w.calls + 1)
     IN Becomes(Send([w EXCEPT !.calls = @ + 1, !.nextReq = @ + 1,
                               !.pending = @ \cup {[rid |-> m.n, call |-> m.call]}],
                     "A", m))

\* The implementation runs the responder, perhaps handing over an endpoint.
\* Responders of a receiver that was reset are not run.
Respond(q) ==
  /\ Free("B")
  /\ LET answer(id, role) == Msg("response", id, role, q.rid, q.call)
         v == [w EXCEPT !.asked = @ \ {q}]
     IN \/ Becomes(Send(v, "B", answer(NoId, "none")))
        \/ \E id \in Ids, role \in Roles :
             /\ w.ends[id][role] = Held("B")
             /\ Becomes(Send([DropEndpointHandle(v, "B", id)
                                EXCEPT !.ends[id][role] = [Gone EXCEPT !.at = "wire"]],
                             "B", answer(id, role)))

\* RequireVersion of a version the other side does not have.
RequireVersion ==
  /\ Free("A") /\ w.prim["A"] /\ w.conn["A"] = "open" /\ w.calls < MaxRequests
  /\ Becomes(Send([w EXCEPT !.calls = @ + 1], "A", Msg("require", NoId, "none", 0, 0)))

\* FlushForTesting: a ping, then messages are read until the pong or an error.
Flush(s) ==
  /\ style = "flushes"
  /\ Free(s) /\ w.prim[s] /\ w.conn[s] = "open" /\ w.flushes[s] < MaxFlushes
  /\ Becomes(Send([w EXCEPT !.flush[s] = "wait", !.flushes[s] = @ + 1], s,
                  Msg("ping", NoId, "none", 0, 0)))

\* Mutant: only the pong ends a flush.
FlushReturnsOnPong(s) ==
  ~Draining(s) /\ w.flush[s] = "done" /\ Becomes([w EXCEPT !.flush[s] = "idle"])

FlushReturns(s) ==
  /\ ~Draining(s) /\ w.flush[s] # "idle"
  /\ w.flush[s] = "done" \/ w.conn[s] = "error"
  /\ Becomes([w EXCEPT !.flush[s] = "idle"])

Init == /\ w = Start /\ minter \in Sides /\ restarted = FALSE
        /\ style \in {"flushes"} \cup
                     (IF minter = "A" THEN {"nests", "rebinds", "careless"} ELSE {})

Client(s) ==
  \/ Mint(s) \/ Flush(s) \/ ResetPrimary(s)
  \/ \E id \in Ids : Call(s, id)
  \/ \E id \in Ids, role \in Roles :
       \/ Bind(s, id, role)
       \/ SetPeerClosedHandler(s, id, role)
       \/ ResetAssociated(s, id, role)

Runtime(s) == ReadMessage(s) \/ PeerClosed(s) \/ Drain(s) \/ FlushReturns(s)
              \/ EraseEntry(s)

Next ==
  \/ \E s \in Sides : Client(s) \/ Runtime(s)
  \/ \E id \in Ids, role \in Roles : Pass(id, role)
  \/ \E q \in w.asked : Respond(q)
  \/ Request \/ Rebind \/ RequireVersion

Spec == Init /\ [][Next]_vars
FairSpec == Spec /\ \A s \in Sides : WF_vars(Runtime(s))

-----------------------------------------------------------------------------
\* endpoints_[id].refs counts the handles of this side, the table keeps
\* nothing that no handle, client or waiting message needs, and a client
\* pointer in it is that of an object that is still bound on this side, so
\* that Accept never calls a destroyed Proxy_ or Stub_.
EndpointsExact ==
  \A s \in Sides, id \in Ids :
    LET e == w.ep[s][id] IN
    /\ e.refs = Cardinality({r \in Roles : w.ends[id][r].at = s})
    /\ e.live => e.refs > 0 \/ e.client # "none" \/ e.queue # <<>>
    /\ e.client # "none" => w.ends[id][e.client].at = s /\ w.ends[id][e.client].bound

\* Calls of one associated interface are dispatched in the order they were
\* made and none is skipped, also those that arrive before the receiver is
\* bound or before its id, unless a client turns the executor inside Accept
\* or unbinds the Remote; and the callback of a call gets the answer to that
\* call, unless the Remote is unbound while calls are outstanding.
DispatchIsFaithful ==
  /\ style \in {"flushes", "rebinds"} =>
       \A id \in Ids : \A i \in DOMAIN w.got[id] : w.got[id][i] = i
  /\ style # "careless" => \A i \in DOMAIN w.answers : w.answers[i].call = w.answers[i].to

\* A peer-closed handler runs only when the other half is gone, as long as no
\* Remote that minted interfaces was unbound: the new router gives their ids
\* out again, and a notification for the old interface that is still on its way
\* is taken for the new one.
PeerClosedTruthful ==
  ~restarted =>
    \A id \in Ids, r \in Roles :
      w.ends[id][r].told => w.ends[id][Partner(r)].at = "none"

\* FlushForTesting returns, also when both sides flush at the same time or
\* the other side goes away.
FlushesReturn == \A s \in Sides : w.flush[s] = "wait" ~> w.flush[s] = "idle"
=============================================================================
