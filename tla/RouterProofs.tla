---------------------------- MODULE RouterProofs ----------------------------
(***************************************************************************)
(* Proofs about MultiplexRouter: for any number of associated interfaces,  *)
(* calls, requests and flushes the endpoint tables count what they hold    *)
(* (EndpointsExact), a peer-closed handler runs only when the other half   *)
(* is gone (PeerClosedTruthful), and calls and answers reach the right     *)
(* object in the right order (DispatchIsFaithful).                         *)
(*                                                                         *)
(* The invariant is a conjunction of parts that each relate the wires to   *)
(* one kind of state.  They are stated about any record v of the shape of  *)
(* w, because a step of the router is a chain of operators on such         *)
(* records: each operator is shown to keep the parts, and the step         *)
(* theorems cite the operators in the order of the code.                   *)
(***************************************************************************)
EXTENDS MultiplexRouter, FiniteSetTheorems, SequenceTheorems, TLAPS

Clients == Roles \cup {"none"}
Kinds == {"ping", "pong", "closed", "request", "response", "pass", "require", "call"}
Messages == [kind : Kinds, id : Ids \cup {NoId}, role : Clients, n : Nat, call : Nat]
Endpoints == [live : BOOLEAN, client : Clients, queue : Seq(Messages),
              handler : Clients, refs : Nat]
Halves == [at : Sides \cup {"none", "wire"}, bound : BOOLEAN, told : BOOLEAN]
Loops == {l \in [id : Ids \cup {NoId}, rest : Seq(Messages)] : l.id # NoId => l.rest # <<>>}
Asks == [rid : Nat, call : Nat]
Answers == [call : Nat, to : Nat]

\* The records that w ranges over.
Worlds ==
  [ep : [Sides -> [Ids -> Endpoints]],
   next : [Sides -> Nat],
   conn : [Sides -> {"open", "error", "closed"}],
   wire : [Sides -> Seq(Messages)],
   prim : [Sides -> BOOLEAN],
   erase : [Sides -> BOOLEAN],
   ends : [Ids -> [Roles -> Halves]],
   drain : [Sides -> Loops],
   flush : [Sides -> {"idle", "wait", "done"}], flushes : [Sides -> Nat],
   pending : SUBSET Asks, nextReq : Nat, calls : Nat, asked : SUBSET Asks,
   answers : Seq(Answers), rebinds : Nat,
   sent : [Ids -> Nat], got : [Ids -> Seq(Nat)]]

-----------------------------------------------------------------------------
(* The inductive invariant.                                                *)

Minted(v, id) ==
  IF id < NamespaceMask THEN id < v.next["A"] ELSE id < v.next["B"] + NamespaceMask

\* The handles of an interface id that side s holds.
Holding(v, s, id, r) == IF v.ends[id][r].at = s THEN 1 ELSE 0
Handles(v, s, id) == Holding(v, s, id, "remote") + Holding(v, s, id, "receiver")

\* A closed pipe delivers nothing.
Silent(v) == \A t \in Sides : v.conn[t] # "open" => v.wire[t] = <<>>

\* Every endpoint entry is what the handles and the bound objects of its side
\* need.
EntryExact(v, s, id) ==
  /\ v.ep[s][id].refs = Handles(v, s, id)
  /\ v.ep[s][id].refs > 0 => v.ep[s][id].live
  /\ v.ep[s][id].live => \/ v.ep[s][id].refs > 0 \/ v.ep[s][id].client # "none"
                         \/ v.ep[s][id].queue # <<>>
  /\ v.ep[s][id].client # "none" =>
       /\ v.ends[id][v.ep[s][id].client].at = s
       /\ v.ends[id][v.ep[s][id].client].bound
Exact(v) == \A s \in Sides, id \in Ids : EntryExact(v, s, id)

\* An id that was not minted yet names nothing.
Fresh(v) ==
  /\ \A s \in Sides : v.next[s] >= 1
  /\ \A id \in Ids : ~Minted(v, id) =>
       v.sent[id] = 0 /\ \A r \in Roles : v.ends[id][r] = Gone

\* A message that carries a handle is the only one that does, and the handle
\* is in no table meanwhile.
Carrier(m) == m.kind = "pass" \/ (m.kind = "response" /\ m.id # NoId)
Carried(v, m) ==
  Carrier(m) => m.id # NoId /\ m.role \in Roles /\ v.ends[m.id][m.role].at = "wire"
Apart(m, o) == ~(Carrier(m) /\ Carrier(o) /\ m.id = o.id /\ m.role = o.role)
Carriage(v) ==
  /\ \A t \in Sides : \A i \in DOMAIN v.wire[t] : Carried(v, v.wire[t][i])
  /\ \A t, u \in Sides : \A i \in DOMAIN v.wire[t], j \in DOMAIN v.wire[u] :
       t # u \/ i # j => Apart(v.wire[t][i], v.wire[u][j])

\* What a closed notification on its way to side t says is true, also of the
\* handler that it will meet.
Announced(v, t, m) ==
  m.kind = "closed" =>
    /\ m.id # NoId /\ Minted(v, m.id)
    /\ \E r \in Roles : v.ends[m.id][r].at = "none"
    /\ v.ep[t][m.id].handler # "none" =>
         v.ends[m.id][Partner(v.ep[t][m.id].handler)].at = "none"
Truthful(v) ==
  /\ \A t \in Sides : \A i \in DOMAIN v.wire[t] : Announced(v, t, v.wire[t][i])
  /\ \A s \in Sides, id \in Ids : v.ep[s][id].handler # "none" =>
       /\ Minted(v, id)
       /\ v.ends[id][v.ep[s][id].handler].at \in {s, "none"}
       /\ v.ends[id][v.ep[s][id].handler].at = s =>
            v.ends[id][v.ep[s][id].handler].bound
  /\ \A id \in Ids, r \in Roles :
       v.ends[id][r].told => v.ends[id][Partner(r)].at = "none"

\* Every request that is on its way, asked or answered is still pending, once.
Asking(m) == m.kind = "request" \/ m.kind = "response"
AskOf(m) == [rid |-> m.n, call |-> m.call]
Expected(v, m) ==
  Asking(m) => AskOf(m) \notin v.asked /\ (v.prim["A"] => AskOf(m) \in v.pending)
Different(m, o) == ~(Asking(m) /\ Asking(o) /\ AskOf(m) = AskOf(o))
Answering(v) ==
  /\ \A t \in Sides : \A i \in DOMAIN v.wire[t] : Expected(v, v.wire[t][i])
  /\ \A t, u \in Sides : \A i \in DOMAIN v.wire[t], j \in DOMAIN v.wire[u] :
       t # u \/ i # j => Different(v.wire[t][i], v.wire[u][j])
  /\ \A q, p \in v.pending : q.rid = p.rid => q = p
  /\ \A q \in v.pending : q.rid < v.nextReq
  /\ v.prim["A"] => v.asked \subseteq v.pending
  /\ ~v.prim["A"] => v.pending = {}
  /\ \A i \in DOMAIN v.answers : v.answers[i].call = v.answers[i].to

\* The calls of an interface stand in one line to one side: dispatched, in the
\* loop of AttachEndpointClient, waiting in the endpoint, on the wire.
Drained(v, t, id) == IF v.drain[t].id = id THEN Len(v.drain[t].rest) ELSE 0
Base(v, t, id) == Len(v.got[id]) + Drained(v, t, id) + Len(v.ep[t][id].queue)
IsCall(m, id) == m.kind = "call" /\ m.id = id
Waiting(v, t, id) ==
  \/ v.drain[t].id = id \/ v.ep[t][id].queue # <<>>
  \/ \E i \in DOMAIN v.wire[t] : IsCall(v.wire[t][i], id)
Lined(v) ==
  /\ \A t \in Sides : \A i \in DOMAIN v.wire[t] :
       v.wire[t][i].kind = "call" =>
         v.wire[t][i].id # NoId /\ v.wire[t][i].n <= v.sent[v.wire[t][i].id]
  /\ \A t \in Sides, id \in Ids :
       /\ v.drain[t].id = id => v.drain[t].rest # <<>> /\ v.ep[t][id].queue = <<>>
       /\ v.ep[t][id].queue # <<>> => v.ep[t][id].client = "none"
       /\ Base(v, t, id) <= v.sent[id]
       /\ Waiting(v, t, id) => v.ends[id]["remote"].at \in {Other(t), "none"}
       /\ ~(Waiting(v, t, id) /\ Waiting(v, Other(t), id))
  /\ \A id \in Ids :
       /\ v.ends[id]["remote"].at # "none"
       /\ v.ends[id]["remote"].bound => v.ends[id]["remote"].at = "wire"
       => v.sent[id] = 0

\* Nothing in that line is out of order, and while it can grow nothing of it
\* is missing.
Known(v, t, id, k) ==
  \E j \in DOMAIN v.wire[t] : IsCall(v.wire[t][j], id) /\ v.wire[t][j].n = k
Rising(v, t, id) ==
  \A i, j \in DOMAIN v.wire[t] :
    IsCall(v.wire[t][i], id) /\ IsCall(v.wire[t][j], id) /\ i < j
      => v.wire[t][i].n < v.wire[t][j].n
Gapless(v, t, id) ==
  \A i \in DOMAIN v.wire[t] : IsCall(v.wire[t][i], id) =>
    /\ v.wire[t][i].n > Base(v, t, id)
    /\ \A k \in Nat : k > Base(v, t, id) /\ k < v.wire[t][i].n => Known(v, t, id, k)
Complete(v, t, id) ==
  v.conn[t] = "open" /\ v.ends[id]["remote"].at = Other(t) /\ v.ends[id]["remote"].bound
    => \A k \in Nat : k > Base(v, t, id) /\ k <= v.sent[id] => Known(v, t, id, k)
Queued(v, t, id) ==
  /\ v.drain[t].id = id => \A i \in DOMAIN v.drain[t].rest :
       v.drain[t].rest[i].n = Len(v.got[id]) + i
  /\ \A i \in DOMAIN v.ep[t][id].queue :
       v.ep[t][id].queue[i].n = Len(v.got[id]) + Drained(v, t, id) + i
InOrder(v) ==
  /\ \A id \in Ids : \A i \in DOMAIN v.got[id] : v.got[id][i] = i
  /\ \A t \in Sides, id \in Ids :
       Rising(v, t, id) /\ Gapless(v, t, id) /\ Complete(v, t, id) /\ Queued(v, t, id)

Sound(v) == /\ v \in Worlds
            /\ Silent(v) /\ Exact(v) /\ Fresh(v) /\ Carriage(v) /\ Truthful(v)
RouterInv ==
  /\ restarted => style = "careless"
  /\ ~restarted =>
       /\ Sound(w)
       /\ style # "careless" => Answering(w)
       /\ style \in {"flushes", "rebinds"} => Lined(w) /\ InOrder(w)

-----------------------------------------------------------------------------
(* Sequences, ids and the shape of a world.                                *)

\* Sending appends: what was on the wire keeps its position.
LEMMA AppendAt ==
  ASSUME NEW q \in Seq(Messages), NEW m \in Messages
  PROVE  /\ Append(q, m) \in Seq(Messages)
         /\ Len(Append(q, m)) = Len(q) + 1
         /\ DOMAIN Append(q, m) = 1 .. Len(q) + 1
         /\ \A i \in DOMAIN q : Append(q, m)[i] = q[i]
         /\ Append(q, m)[Len(q) + 1] = m
  BY AppendProperties

\* Reading takes the first message and moves the others up.
LEMMA TailAt ==
  ASSUME NEW q \in Seq(Messages), q # <<>>
  PROVE  /\ Tail(q) \in Seq(Messages) /\ Head(q) \in Messages
         /\ Len(q) \in Nat /\ Len(q) >= 1
         /\ Len(Tail(q)) = Len(q) - 1
         /\ DOMAIN q = 1 .. Len(q) /\ DOMAIN Tail(q) = 1 .. Len(q) - 1
         /\ \A i \in DOMAIN Tail(q) : i + 1 \in DOMAIN q /\ Tail(q)[i] = q[i + 1]
         /\ Head(q) = q[1] /\ 1 \in DOMAIN q
  BY HeadTailProperties, LenProperties

\* A position of a sequence is a positive number up to its length.
LEMMA PositionOf ==
  ASSUME NEW q \in Seq(Messages), NEW i \in DOMAIN q
  PROVE  q[i] \in Messages /\ i \in Nat /\ i >= 1 /\ i <= Len(q) /\ Len(q) \in Nat
  BY LenProperties, ElementOfSeq

\* No interface id is the one that stands for none.
LEMMA IdsArePositive ==
  /\ NoId \notin Ids /\ Ids \subseteq Nat
  /\ MaxMint \in Nat /\ NamespaceMask \in Nat
  BY RouterBounds DEF Ids, NoId, NamespaceMask

\* The sides and the halves of an interface come in pairs.
LEMMA Pairs ==
  /\ \A s \in Sides : Other(s) \in Sides /\ Other(s) # s /\ Other(Other(s)) = s
  /\ \A s, t \in Sides : t = s \/ t = Other(s)
  /\ \A r \in Roles : Partner(r) \in Roles /\ Partner(r) # r /\ Partner(Partner(r)) = r
  /\ \A r, q \in Roles : q = r \/ q = Partner(r)
  BY DEF Sides, Other, Roles, Partner

\* The fields of a world.
LEMMA Fields ==
  ASSUME NEW v \in Worlds
  PROVE  /\ v.ep \in [Sides -> [Ids -> Endpoints]]
         /\ v.next \in [Sides -> Nat]
         /\ v.conn \in [Sides -> {"open", "error", "closed"}]
         /\ v.wire \in [Sides -> Seq(Messages)]
         /\ v.prim \in [Sides -> BOOLEAN] /\ v.erase \in [Sides -> BOOLEAN]
         /\ v.ends \in [Ids -> [Roles -> Halves]]
         /\ v.drain \in [Sides -> Loops]
         /\ v.flush \in [Sides -> {"idle", "wait", "done"}] /\ v.flushes \in [Sides -> Nat]
         /\ v.pending \in SUBSET Asks /\ v.nextReq \in Nat /\ v.calls \in Nat
         /\ v.asked \in SUBSET Asks /\ v.answers \in Seq(Answers) /\ v.rebinds \in Nat
         /\ v.sent \in [Ids -> Nat] /\ v.got \in [Ids -> Seq(Nat)]
  BY DEF Worlds

\* A message that is built from an id and a role.
LEMMA MsgType ==
  ASSUME NEW kind \in Kinds, NEW id \in Ids \cup {NoId}, NEW role \in Clients,
         NEW n \in Nat, NEW call \in Nat
  PROVE  Msg(kind, id, role, n, call) \in Messages
  BY DEF Msg, Messages

\* What exactness says of one entry.
LEMMA EntryAt ==
  ASSUME NEW v \in Worlds, Exact(v), NEW t \in Sides, NEW j \in Ids
  PROVE  /\ v.ep[t][j].refs = Handles(v, t, j)
         /\ v.ep[t][j].refs > 0 => v.ep[t][j].live
         /\ v.ep[t][j].live => \/ v.ep[t][j].refs > 0 \/ v.ep[t][j].client # "none"
                               \/ v.ep[t][j].queue # <<>>
         /\ v.ep[t][j].client # "none" =>
              /\ v.ends[j][v.ep[t][j].client].at = t
              /\ v.ends[j][v.ep[t][j].client].bound
  BY Zenon DEF Exact, EntryExact

\* An entry counts the handles of its side.
LEMMA RefsAt ==
  ASSUME NEW v \in Worlds, Exact(v), NEW t \in Sides, NEW j \in Ids
  PROVE  v.ep[t][j].refs = Handles(v, t, j)
  BY Zenon DEF Exact, EntryExact

\* The client of an entry is bound at its side.
LEMMA ClientAt ==
  ASSUME NEW v \in Worlds, Exact(v), NEW t \in Sides, NEW j \in Ids,
         v.ep[t][j].client # "none"
  PROVE  v.ends[j][v.ep[t][j].client].at = t /\ v.ends[j][v.ep[t][j].client].bound
  BY Zenon DEF Exact, EntryExact

\* The fields of an entry that name a client and count handles.
LEMMA FieldsAt ==
  ASSUME NEW v \in Worlds, NEW t \in Sides, NEW j \in Ids
  PROVE  /\ v.ep[t][j].client \in Roles \cup {"none"}
         /\ v.ep[t][j].handler \in Roles \cup {"none"}
         /\ v.ep[t][j].refs \in Nat
  <1>1. v.ep[t][j] \in Endpoints
    BY Fields
  <1> QED BY <1>1 DEF Endpoints, Clients

\* A closed notification on a wire is true.
LEMMA AnnouncedAt ==
  ASSUME NEW v \in Worlds, Truthful(v), NEW t \in Sides, NEW i \in DOMAIN v.wire[t]
  PROVE  Announced(v, t, v.wire[t][i]) /\ v.wire[t][i] \in Messages
  <1>1. Announced(v, t, v.wire[t][i])
    BY Zenon DEF Truthful
  <1> QED BY <1>1, Fields, PositionOf

\* A handler is a bound half of a minted interface, or a half that is gone.
LEMMA HandlerAt ==
  ASSUME NEW v \in Worlds, Truthful(v), NEW t \in Sides, NEW j \in Ids,
         v.ep[t][j].handler # "none"
  PROVE  /\ Minted(v, j)
         /\ v.ends[j][v.ep[t][j].handler].at \in {t, "none"}
         /\ v.ends[j][v.ep[t][j].handler].at = t => v.ends[j][v.ep[t][j].handler].bound
  BY Zenon DEF Truthful

\* A half that was told of a closed peer has one.
LEMMA ToldAt ==
  ASSUME NEW v \in Worlds, Truthful(v), NEW j \in Ids, NEW r \in Roles, v.ends[j][r].told
  PROVE  v.ends[j][Partner(r)].at = "none"
  BY Zenon DEF Truthful

\* An entry that is written with the handles and the client that it needs.
LEMMA EntryIs ==
  ASSUME NEW u, NEW t, NEW j, NEW e, u.ep[t][j] = e, e.refs = Handles(u, t, j),
         e.refs > 0 => e.live,
         e.live => e.refs > 0 \/ e.client # "none" \/ e.queue # <<>>,
         e.client # "none" => u.ends[j][e.client].at = t /\ u.ends[j][e.client].bound
  PROVE  EntryExact(u, t, j)
  BY Zenon DEF EntryExact

\* An entry that stays exact because all that it depends on stays.
LEMMA EntryKept ==
  ASSUME NEW v \in Worlds, NEW u \in Worlds, Exact(v), NEW t \in Sides, NEW j \in Ids,
         u.ep[t][j] = v.ep[t][j], Handles(u, t, j) = Handles(v, t, j),
         v.ep[t][j].client # "none" =>
           /\ u.ends[j][v.ep[t][j].client].at = v.ends[j][v.ep[t][j].client].at
           /\ v.ends[j][v.ep[t][j].client].bound => u.ends[j][v.ep[t][j].client].bound
  PROVE  EntryExact(u, t, j)
  <1> DEFINE e == v.ep[t][j]
  <1>1. EntryExact(v, t, j)
    BY Zenon DEF Exact
  <1>2. /\ e.refs = Handles(u, t, j)
        /\ e.refs > 0 => e.live
        /\ e.live => \/ e.refs > 0 \/ e.client # "none" \/ e.queue # <<>>
    BY <1>1, Zenon DEF EntryExact
  <1>3. e.client # "none" => u.ends[j][e.client].at = t /\ u.ends[j][e.client].bound
    BY <1>1, Zenon DEF EntryExact
  <1>4. u.ep[t][j] = e
    BY Zenon
  <1> HIDE DEF e
  <1> QED BY <1>2, <1>3, <1>4, EntryIs, Zenon

-----------------------------------------------------------------------------
(* The pipe.                                                               *)

\* All that a message on its way leaves alone.
Kept(v, u) ==
  /\ u.ep = v.ep /\ u.next = v.next /\ u.prim = v.prim /\ u.ends = v.ends
  /\ u.drain = v.drain /\ u.pending = v.pending /\ u.nextReq = v.nextReq
  /\ u.asked = v.asked /\ u.answers = v.answers /\ u.sent = v.sent /\ u.got = v.got
  /\ u.flush = v.flush /\ u.flushes = v.flushes /\ u.calls = v.calls
  /\ u.rebinds = v.rebinds

\* The wires after m was sent by s, or refused: no other message is new, and
\* a wire is cut only with its pipe.
Posted(v, u, s, m) ==
  \A t \in Sides :
    /\ u.conn[t] = "open" => v.conn[t] = "open"
    /\ \/ u.wire[t] = v.wire[t]
       \/ u.wire[t] = <<>> /\ u.conn[t] # "open"
       \/ t = Other(s) /\ u.wire[t] = Append(v.wire[t], m)

\* Connector::RaiseError cuts the wire of its side.
LEMMA RaiseErrorEffect ==
  ASSUME NEW v \in Worlds, NEW s \in Sides, Silent(v), NEW m
  PROVE  LET u == RaiseError(v, s) IN
         u \in Worlds /\ Kept(v, u) /\ Posted(v, u, s, m) /\ Silent(u)
  <1> DEFINE u == RaiseError(v, s)
  <1>0. <<>> \in Seq(Messages)
    OBVIOUS
  <1>1. CASE v.conn[s] # "open"
    <2>1. u = v
      BY <1>1 DEF RaiseError
    <2> QED BY <2>1 DEF Kept, Posted
  <1>2. CASE v.conn[s] = "open"
    <2>1. u = [v EXCEPT !.conn[s] = "error", !.wire[s] = <<>>,
                 !.erase[s] = (s = "B" /\ v.prim[s])]
      BY <1>2 DEF RaiseError
    <2>2. /\ u.conn = [v.conn EXCEPT ![s] = "error"]
          /\ u.wire = [v.wire EXCEPT ![s] = <<>>]
          /\ u.erase = [v.erase EXCEPT ![s] = (s = "B" /\ v.prim[s])]
          /\ Kept(v, u)
      BY <2>1 DEF Worlds, Kept
    <2>3. u \in Worlds
      <3> HIDE DEF u
      <3> QED BY <2>1, <1>0 DEF Worlds
    <2>4. Posted(v, u, s, m) /\ Silent(u)
      BY <2>2, Fields DEF Posted, Silent
    <2> QED BY <2>2, <2>3, <2>4
  <1> QED BY <1>1, <1>2

\* Connector::Accept refuses the message, fails, or appends it.
LEMMA SendEffect ==
  ASSUME NEW v \in Worlds, NEW s \in Sides, NEW m \in Messages, Silent(v)
  PROVE  LET u == Send(v, s, m) IN
         u \in Worlds /\ Kept(v, u) /\ Posted(v, u, s, m) /\ Silent(u)
  <1> DEFINE u == Send(v, s, m)
              r == Other(s)
              q == Append(v.wire[r], m)
  <1>0. r \in Sides /\ q \in Seq(Messages)
    BY AppendAt, Fields, Pairs
  <1>1. CASE v.conn[s] # "open"
    <2>1. u = v
      BY <1>1 DEF Send
    <2> QED BY <2>1 DEF Kept, Posted
  <1>2. CASE v.conn[s] = "open" /\ v.conn[r] # "open"
    <2>1. u = RaiseError(v, s)
      BY <1>2 DEF Send
    <2> QED BY <2>1, RaiseErrorEffect
  <1>3. CASE v.conn[s] = "open" /\ v.conn[r] = "open"
    <2> HIDE DEF q, r
    <2>1. u = [v EXCEPT !.wire[r] = q]
      BY <1>3, <1>0, Fields DEF Send, q, r
    <2>2. u.wire = [v.wire EXCEPT ![r] = q] /\ u.conn = v.conn /\ Kept(v, u)
      BY <2>1 DEF Worlds, Kept
    <2>3. u \in Worlds
      <3> HIDE DEF u
      <3> QED BY <2>1, <1>0 DEF Worlds
    <2>4. Posted(v, u, s, m) /\ Silent(u)
      BY <2>2, <1>0, <1>3, Fields DEF Posted, Silent, q, r
    <2> QED BY <2>2, <2>3, <2>4
  <1> QED BY <1>1, <1>2, <1>3

\* Where a message on a wire comes from.
LEMMA PostedAt ==
  ASSUME NEW v \in Worlds, NEW u \in Worlds, NEW s \in Sides, NEW m \in Messages,
         Posted(v, u, s, m), NEW t \in Sides, NEW i \in DOMAIN u.wire[t]
  PROVE  \/ i \in DOMAIN v.wire[t] /\ u.wire[t][i] = v.wire[t][i]
         \/ t = Other(s) /\ i = Len(v.wire[t]) + 1 /\ u.wire[t][i] = m
  <1>0. v.wire[t] \in Seq(Messages)
    BY Fields
  <1>1. CASE u.wire[t] = v.wire[t]
    BY <1>1
  <1>2. CASE u.wire[t] = <<>>
    BY <1>2
  <1>3. CASE t = Other(s) /\ u.wire[t] = Append(v.wire[t], m)
    <2>1. i \in 1 .. Len(v.wire[t]) + 1
      BY <1>0, <1>3, AppendAt
    <2>2. CASE i = Len(v.wire[t]) + 1
      BY <2>2, <1>0, <1>3, AppendAt
    <2>3. CASE i # Len(v.wire[t]) + 1
      <3>1. i \in DOMAIN v.wire[t]
        BY <2>1, <2>3, <1>0, LenProperties
      <3> QED BY <3>1, <1>0, <1>3, AppendAt
    <2> QED BY <2>2, <2>3
  <1> QED BY <1>1, <1>2, <1>3 DEF Posted

\* A position that is new on a wire is not one that was there.
LEMMA PostedOnce ==
  ASSUME NEW v \in Worlds, NEW t \in Sides, NEW i \in DOMAIN v.wire[t]
  PROVE  i # Len(v.wire[t]) + 1
  BY PositionOf, Fields

\* A message on its way changes no endpoint and mints nothing.
LEMMA ExactPosted ==
  ASSUME NEW v \in Worlds, NEW u \in Worlds, Kept(v, u)
  PROVE  (Exact(v) => Exact(u)) /\ (Fresh(v) => Fresh(u))
  <1>1. u.ep = v.ep /\ u.ends = v.ends /\ u.next = v.next /\ u.sent = v.sent
    BY DEF Kept
  <1>2. ASSUME NEW s, NEW id PROVE Handles(u, s, id) = Handles(v, s, id)
    BY <1>1, ZenonT(40) DEF Handles, Holding
  <1>3. ASSUME Exact(v), NEW t \in Sides, NEW id \in Ids
        PROVE  EntryExact(u, t, id)
    <2>1. u.ep[t][id] = v.ep[t][id] /\ u.ends = v.ends
      BY <1>1, Zenon
    <2>2. Handles(u, t, id) = Handles(v, t, id)
      BY <1>2
    <2> QED BY <1>3, <2>1, <2>2, EntryKept, Zenon
  <1>4. \A id : Minted(u, id) <=> Minted(v, id)
    BY <1>1 DEF Minted
  <1>5. Fresh(v) => Fresh(u)
    BY <1>1, <1>4 DEF Fresh
  <1> QED BY <1>3, <1>5, Zenon DEF Exact

\* A handle is sent once, and out of the table.
LEMMA CarriagePosted ==
  ASSUME NEW v \in Worlds, NEW u \in Worlds, NEW s \in Sides, NEW m \in Messages,
         Posted(v, u, s, m), Kept(v, u), Carriage(v), Carried(v, m),
         \A t \in Sides : \A i \in DOMAIN v.wire[t] : Apart(v.wire[t][i], m)
  PROVE  Carriage(u)
  <1>1. ASSUME NEW t \in Sides, NEW i \in DOMAIN u.wire[t]
        PROVE  Carried(u, u.wire[t][i])
    <2>1. Carried(v, u.wire[t][i])
      BY <1>1, PostedAt DEF Carriage
    <2> QED BY <2>1, Zenon DEF Carried, Kept
  <1>2. ASSUME NEW t \in Sides, NEW r \in Sides,
               NEW i \in DOMAIN u.wire[t], NEW j \in DOMAIN u.wire[r], t # r \/ i # j
        PROVE  Apart(u.wire[t][i], u.wire[r][j])
    <2>1. CASE /\ i \in DOMAIN v.wire[t] /\ u.wire[t][i] = v.wire[t][i]
               /\ j \in DOMAIN v.wire[r] /\ u.wire[r][j] = v.wire[r][j]
      BY <1>2, <2>1 DEF Carriage
    <2>2. CASE /\ i \in DOMAIN v.wire[t] /\ u.wire[t][i] = v.wire[t][i]
               /\ r = Other(s) /\ u.wire[r][j] = m
      BY <2>2
    <2>3. CASE /\ j \in DOMAIN v.wire[r] /\ u.wire[r][j] = v.wire[r][j]
               /\ t = Other(s) /\ u.wire[t][i] = m
      <3>1. Apart(u.wire[r][j], m)
        BY <2>3
      <3> QED BY <3>1, <2>3 DEF Apart
    <2>4. (i \in DOMAIN v.wire[t] /\ u.wire[t][i] = v.wire[t][i])
          \/ (t = Other(s) /\ i = Len(v.wire[t]) + 1 /\ u.wire[t][i] = m)
      BY PostedAt
    <2>5. (j \in DOMAIN v.wire[r] /\ u.wire[r][j] = v.wire[r][j])
          \/ (r = Other(s) /\ j = Len(v.wire[r]) + 1 /\ u.wire[r][j] = m)
      BY PostedAt
    <2> QED BY <2>1, <2>2, <2>3, <2>4, <2>5, <1>2
  <1> QED BY <1>1, <1>2 DEF Carriage

\* A closed notification is sent when what it says is true.
LEMMA TruthfulPosted ==
  ASSUME NEW v \in Worlds, NEW u \in Worlds, NEW s \in Sides, NEW m \in Messages,
         Posted(v, u, s, m), Kept(v, u), Truthful(v), Announced(v, Other(s), m)
  PROVE  Truthful(u)
  <1>1. ASSUME NEW t \in Sides, NEW i \in DOMAIN u.wire[t]
        PROVE  Announced(u, t, u.wire[t][i])
    <2>1. Announced(v, t, u.wire[t][i])
      <3>1. CASE i \in DOMAIN v.wire[t] /\ u.wire[t][i] = v.wire[t][i]
        <4>1. Announced(v, t, v.wire[t][i])
          BY <3>1, AnnouncedAt, Zenon
        <4> QED BY <3>1, <4>1, Zenon
      <3>2. CASE t = Other(s) /\ u.wire[t][i] = m
        BY <3>2, Zenon
      <3>3. \/ i \in DOMAIN v.wire[t] /\ u.wire[t][i] = v.wire[t][i]
            \/ t = Other(s) /\ u.wire[t][i] = m
        BY PostedAt
      <3> QED BY <3>1, <3>2, <3>3, Zenon
    <2> QED BY <2>1, ZenonT(40) DEF Announced, Kept, Minted
  <1>2. u.ep = v.ep /\ u.ends = v.ends /\ u.next = v.next
    BY DEF Kept
  <1>3. ASSUME NEW t \in Sides, NEW id \in Ids, u.ep[t][id].handler # "none"
        PROVE  /\ Minted(u, id)
               /\ u.ends[id][u.ep[t][id].handler].at \in {t, "none"}
               /\ u.ends[id][u.ep[t][id].handler].at = t =>
                    u.ends[id][u.ep[t][id].handler].bound
    <2>1. v.ep[t][id].handler # "none"
      BY <1>2, <1>3, Zenon
    <2>2. /\ Minted(v, id)
          /\ v.ends[id][v.ep[t][id].handler].at \in {t, "none"}
          /\ v.ends[id][v.ep[t][id].handler].at = t => v.ends[id][v.ep[t][id].handler].bound
      BY <2>1, HandlerAt, Zenon
    <2> QED BY <2>2, <1>2, Zenon DEF Minted
  <1>4. ASSUME NEW id \in Ids, NEW r \in Roles, u.ends[id][r].told
        PROVE  u.ends[id][Partner(r)].at = "none"
    <2>1. v.ends[id][r].told
      BY <1>2, <1>4, Zenon
    <2>2. v.ends[id][Partner(r)].at = "none"
      BY <2>1, ToldAt, Zenon
    <2> QED BY <2>2, <1>2, Zenon
  <1> QED BY <1>1, <1>3, <1>4, Zenon DEF Truthful

\* A request is sent once, when it is pending, and answered once.
LEMMA AnsweringPosted ==
  ASSUME NEW v \in Worlds, NEW u \in Worlds, NEW s \in Sides, NEW m \in Messages,
         Posted(v, u, s, m), Kept(v, u), Answering(v), Expected(v, m),
         \A t \in Sides : \A i \in DOMAIN v.wire[t] : Different(v.wire[t][i], m)
  PROVE  Answering(u)
  <1>1. ASSUME NEW t \in Sides, NEW i \in DOMAIN u.wire[t]
        PROVE  Expected(u, u.wire[t][i])
    <2>1. Expected(v, u.wire[t][i])
      BY <1>1, PostedAt DEF Answering
    <2> QED BY <2>1 DEF Expected, Kept
  <1>2. ASSUME NEW t \in Sides, NEW r \in Sides,
               NEW i \in DOMAIN u.wire[t], NEW j \in DOMAIN u.wire[r], t # r \/ i # j
        PROVE  Different(u.wire[t][i], u.wire[r][j])
    <2>1. CASE /\ i \in DOMAIN v.wire[t] /\ u.wire[t][i] = v.wire[t][i]
               /\ j \in DOMAIN v.wire[r] /\ u.wire[r][j] = v.wire[r][j]
      BY <1>2, <2>1 DEF Answering
    <2>2. CASE /\ i \in DOMAIN v.wire[t] /\ u.wire[t][i] = v.wire[t][i]
               /\ r = Other(s) /\ u.wire[r][j] = m
      BY <2>2
    <2>3. CASE /\ j \in DOMAIN v.wire[r] /\ u.wire[r][j] = v.wire[r][j]
               /\ t = Other(s) /\ u.wire[t][i] = m
      <3>1. Different(u.wire[r][j], m)
        BY <2>3
      <3> QED BY <3>1, <2>3 DEF Different
    <2>4. (i \in DOMAIN v.wire[t] /\ u.wire[t][i] = v.wire[t][i])
          \/ (t = Other(s) /\ i = Len(v.wire[t]) + 1 /\ u.wire[t][i] = m)
      BY PostedAt
    <2>5. (j \in DOMAIN v.wire[r] /\ u.wire[r][j] = v.wire[r][j])
          \/ (r = Other(s) /\ j = Len(v.wire[r]) + 1 /\ u.wire[r][j] = m)
      BY PostedAt
    <2> QED BY <2>1, <2>2, <2>3, <2>4, <2>5, <1>2
  <1>3. /\ \A q, p \in u.pending : q.rid = p.rid => q = p
        /\ \A q \in u.pending : q.rid < u.nextReq
        /\ u.prim["A"] => u.asked \subseteq u.pending
        /\ ~u.prim["A"] => u.pending = {}
        /\ \A i \in DOMAIN u.answers : u.answers[i].call = u.answers[i].to
    BY DEF Answering, Kept
  <1> QED BY <1>1, <1>2, <1>3 DEF Answering

\* The parts of a line are counted in natural numbers.
LEMMA LineLengths ==
  ASSUME NEW v \in Worlds, NEW t \in Sides, NEW id \in Ids
  PROVE  /\ Len(v.got[id]) \in Nat /\ Drained(v, t, id) \in Nat
         /\ Len(v.ep[t][id].queue) \in Nat /\ v.sent[id] \in Nat
         /\ Base(v, t, id) \in Nat
  <1>1. v.got[id] \in Seq(Nat) /\ v.drain[t] \in Loops /\ v.ep[t][id] \in Endpoints
        /\ v.sent[id] \in Nat
    BY Fields
  <1>2. v.drain[t].rest \in Seq(Messages) /\ v.ep[t][id].queue \in Seq(Messages)
    BY <1>1 DEF Loops, Endpoints
  <1>3. /\ Len(v.got[id]) \in Nat /\ Drained(v, t, id) \in Nat
        /\ Len(v.ep[t][id].queue) \in Nat
    BY <1>1, <1>2, LenProperties DEF Drained
  <1>4. PICK a \in Nat, b \in Nat, c \in Nat :
          a = Len(v.got[id]) /\ b = Drained(v, t, id) /\ c = Len(v.ep[t][id].queue)
    BY <1>3
  <1>5. Base(v, t, id) = a + b + c
    BY <1>4 DEF Base
  <1> QED BY <1>1, <1>3, <1>5

\* A call joins the line of its interface at the side that has no Remote.
LEMMA LinedPosted ==
  ASSUME NEW v \in Worlds, NEW u \in Worlds, NEW s \in Sides, NEW m \in Messages,
         Posted(v, u, s, m), Kept(v, u), Lined(v),
         m.kind = "call" => /\ m.id \in Ids /\ m.n <= v.sent[m.id]
                            /\ v.ends[m.id]["remote"].at = s
  PROVE  Lined(u)
  <1>1. ASSUME NEW t \in Sides, NEW i \in DOMAIN u.wire[t], u.wire[t][i].kind = "call"
        PROVE  u.wire[t][i].id # NoId /\ u.wire[t][i].n <= u.sent[u.wire[t][i].id]
    BY <1>1, PostedAt, IdsArePositive DEF Lined, Kept
  <1>2. ASSUME NEW t \in Sides, NEW id \in Ids, Waiting(u, t, id)
        PROVE  Waiting(v, t, id) \/ (t = Other(s) /\ v.ends[id]["remote"].at = s)
    <2>1. CASE u.drain[t].id = id \/ u.ep[t][id].queue # <<>>
      BY <2>1 DEF Kept, Waiting
    <2>2. ASSUME NEW i \in DOMAIN u.wire[t], IsCall(u.wire[t][i], id)
          PROVE  Waiting(v, t, id) \/ (t = Other(s) /\ v.ends[id]["remote"].at = s)
      BY <2>2, PostedAt DEF Waiting, IsCall
    <2> QED BY <1>2, <2>1, <2>2 DEF Waiting
  <1>3. ASSUME NEW t \in Sides, NEW id \in Ids
        PROVE  Waiting(u, t, id) => u.ends[id]["remote"].at \in {Other(t), "none"}
    <2>1. Waiting(v, t, id) => v.ends[id]["remote"].at \in {Other(t), "none"}
      BY DEF Lined
    <2> QED BY <2>1, <1>2, Pairs DEF Kept
  <1>4. ASSUME NEW t \in Sides, NEW id \in Ids
        PROVE  ~(Waiting(u, t, id) /\ Waiting(u, Other(t), id))
    <2>1. ~(Waiting(v, t, id) /\ Waiting(v, Other(t), id))
      BY DEF Lined
    <2>2. Waiting(v, s, id) => v.ends[id]["remote"].at \in {Other(s), "none"}
      BY DEF Lined
    <2>3. v.ends[id]["remote"].at = s => ~Waiting(v, s, id)
      BY <2>2, Pairs DEF Sides
    <2>4. Other(t) \in Sides /\ Other(Other(t)) = t /\ Other(t) # t /\ (t = s \/ t = Other(s))
      BY Pairs
    <2> QED BY <2>1, <2>3, <2>4, <1>2, Pairs
  <1>5. ASSUME NEW t \in Sides, NEW id \in Ids
        PROVE  /\ u.drain[t].id = id => u.drain[t].rest # <<>> /\ u.ep[t][id].queue = <<>>
               /\ u.ep[t][id].queue # <<>> => u.ep[t][id].client = "none"
               /\ Base(u, t, id) <= u.sent[id]
    <2>1. /\ u.drain = v.drain /\ u.ep = v.ep /\ u.sent = v.sent
          /\ Base(u, t, id) = Base(v, t, id)
      BY DEF Kept, Base, Drained
    <2> QED BY <2>1 DEF Lined
  <1>6. \A id \in Ids :
          /\ u.ends[id]["remote"].at # "none"
          /\ u.ends[id]["remote"].bound => u.ends[id]["remote"].at = "wire"
          => u.sent[id] = 0
    BY DEF Lined, Kept
  <1> QED BY <1>1, <1>3, <1>4, <1>5, <1>6 DEF Lined

\* What is not a call leaves every line as it was.
LEMMA InOrderPosted ==
  ASSUME NEW v \in Worlds, NEW u \in Worlds, NEW s \in Sides, NEW m \in Messages,
         Posted(v, u, s, m), Kept(v, u), InOrder(v), m.kind # "call"
  PROVE  InOrder(u)
  <1> SUFFICES ASSUME NEW t \in Sides, NEW id \in Ids
               PROVE  Rising(u, t, id) /\ Gapless(u, t, id) /\ Complete(u, t, id)
    <2>1. u.got = v.got /\ \A t \in Sides, id \in Ids : Queued(v, t, id) => Queued(u, t, id)
      BY ZenonT(40) DEF Kept, Queued, Drained
    <2> QED BY <2>1 DEF InOrder
  <1>0. /\ Rising(v, t, id) /\ Gapless(v, t, id) /\ Complete(v, t, id)
        /\ Base(u, t, id) = Base(v, t, id) /\ u.sent[id] = v.sent[id]
        /\ u.ends[id] = v.ends[id]
    BY DEF InOrder, Kept, Base, Drained
  <1>1. ASSUME NEW i \in DOMAIN u.wire[t], IsCall(u.wire[t][i], id)
        PROVE  i \in DOMAIN v.wire[t] /\ u.wire[t][i] = v.wire[t][i]
    BY <1>1, PostedAt DEF IsCall
  <1>2. CASE u.wire[t] = <<>> /\ u.conn[t] # "open"
    BY <1>2 DEF Rising, Gapless, Complete
  <1>3. CASE ~(u.wire[t] = <<>> /\ u.conn[t] # "open")
    <2>1. ASSUME NEW i \in DOMAIN v.wire[t]
          PROVE  i \in DOMAIN u.wire[t] /\ u.wire[t][i] = v.wire[t][i]
      <3>0. v.wire[t] \in Seq(Messages)
        BY Fields
      <3>1. CASE u.wire[t] = v.wire[t]
        BY <3>1
      <3>2. CASE u.wire[t] = Append(v.wire[t], m)
        <4>1. i \in Nat /\ i >= 1 /\ i <= Len(v.wire[t]) /\ Len(v.wire[t]) \in Nat
          BY PositionOf, <3>0
        <4>2. i \in 1 .. Len(v.wire[t]) + 1
          BY <4>1
        <4> QED BY <4>2, <3>2, <3>0, AppendAt
      <3> QED BY <3>1, <3>2, <1>3 DEF Posted
    <2>2. ASSUME NEW k, Known(v, t, id, k) PROVE Known(u, t, id, k)
      BY <2>1, <2>2 DEF Known
    <2>3. Rising(u, t, id)
      BY <1>0, <1>1 DEF Rising
    <2>4. Gapless(u, t, id)
      BY <1>0, <1>1, <2>2 DEF Gapless
    <2>5. Complete(u, t, id)
      <3>1. u.conn[t] = "open" => v.conn[t] = "open"
        BY DEF Posted
      <3> QED BY <3>1, <1>0, <2>2 DEF Complete
    <2> QED BY <2>3, <2>4, <2>5
  <1> QED BY <1>2, <1>3

-----------------------------------------------------------------------------
(* The invariant of a world in which clients behave as st says.            *)

Good(v, st) ==
  /\ Sound(v)
  /\ st # "careless" => Answering(v)
  /\ st \in {"flushes", "rebinds"} => Lined(v) /\ InOrder(v)

\* A message that s may send: what it carries or says is true.
Fitting(v, s, m) ==
  /\ Carried(v, m) /\ Announced(v, Other(s), m)
  /\ \A t \in Sides : \A i \in DOMAIN v.wire[t] : Apart(v.wire[t][i], m)
Answerable(v, m) ==
  /\ Expected(v, m)
  /\ \A t \in Sides : \A i \in DOMAIN v.wire[t] : Different(v.wire[t][i], m)

\* The pipe keeps the invariant.
LEMMA PostedGood ==
  ASSUME NEW v \in Worlds, NEW u \in Worlds, NEW s \in Sides, NEW m \in Messages, NEW st,
         Posted(v, u, s, m), Kept(v, u), Silent(u), Good(v, st), m.kind # "call",
         Fitting(v, s, m), st # "careless" => Answerable(v, m)
  PROVE  Good(u, st)
  <1>1. Sound(u)
    <2>1. Carriage(u)
      BY CarriagePosted DEF Good, Sound, Fitting
    <2>2. Truthful(u)
      BY TruthfulPosted DEF Good, Sound, Fitting
    <2> QED BY <2>1, <2>2, ExactPosted DEF Good, Sound
  <1>2. st # "careless" => Answering(u)
    BY AnsweringPosted DEF Good, Answerable
  <1>3. st \in {"flushes", "rebinds"} => Lined(u) /\ InOrder(u)
    BY LinedPosted, InOrderPosted DEF Good
  <1> QED BY <1>1, <1>2, <1>3 DEF Good

\* A message that carries nothing and is no request fits everywhere.
LEMMA PlainFits ==
  ASSUME NEW v, NEW s, NEW m \in Messages, m.kind \in {"ping", "pong", "require"}
  PROVE  Fitting(v, s, m) /\ Answerable(v, m) /\ m.kind # "call"
  BY Zenon DEF Fitting, Answerable, Carried, Announced, Apart, Expected, Different,
         Carrier, Asking

\* Sending keeps the invariant, whether the message arrives or not.
LEMMA SendGood ==
  ASSUME NEW v \in Worlds, NEW s \in Sides, NEW m \in Messages, NEW st,
         Good(v, st), m.kind # "call",
         Fitting(v, s, m), st # "careless" => Answerable(v, m)
  PROVE  Good(Send(v, s, m), st)
  BY SendEffect, PostedGood DEF Good, Sound

\* So does an error of the pipe.
LEMMA RaiseGood ==
  ASSUME NEW v \in Worlds, NEW s \in Sides, NEW st, Good(v, st)
  PROVE  Good(RaiseError(v, s), st)
  <1> DEFINE m == Msg("pong", NoId, "none", 0, 0)
  <1>1. m \in Messages /\ m.kind = "pong"
    <2>1. "pong" \in Kinds /\ "none" \in Clients
      BY DEF Kinds, Clients
    <2> QED BY <2>1, MsgType DEF Msg
  <1>2. Fitting(v, s, m) /\ Answerable(v, m) /\ m.kind # "call"
    BY <1>1, PlainFits
  <1> HIDE DEF m
  <1> QED BY <1>1, <1>2, RaiseErrorEffect, PostedGood DEF Good, Sound

\* A side without handles may forget its endpoints.
LEMMA WipeSound ==
  ASSUME NEW v \in Worlds, NEW s \in Sides, Sound(v),
         \A i \in Ids, r \in Roles : v.ends[i][r].at # s
  PROVE  LET u == [v EXCEPT !.ep[s] = [i \in Ids |-> Absent]] IN
         /\ Sound(u)
         /\ u.ep = [v.ep EXCEPT ![s] = [i \in Ids |-> Absent]]
         /\ u.conn = v.conn /\ u.wire = v.wire /\ u.ends = v.ends /\ u.next = v.next
         /\ u.drain = v.drain /\ u.sent = v.sent /\ u.got = v.got
         /\ Answering(v) => Answering(u)
  <1> DEFINE u == [v EXCEPT !.ep[s] = [i \in Ids |-> Absent]]
  <1>1. Absent \in Endpoints
    <2>1. <<>> \in Seq(Messages)
      OBVIOUS
    <2> QED BY <2>1 DEF Absent, Endpoint, Endpoints, Clients
  <1>2. /\ u.ep = [v.ep EXCEPT ![s] = [i \in Ids |-> Absent]]
        /\ u.conn = v.conn /\ u.wire = v.wire /\ u.ends = v.ends /\ u.next = v.next
        /\ u.drain = v.drain /\ u.sent = v.sent /\ u.got = v.got
        /\ u.pending = v.pending /\ u.asked = v.asked /\ u.prim = v.prim
        /\ u.answers = v.answers /\ u.nextReq = v.nextReq
    BY DEF Worlds
  <1>3. u \in Worlds
    <2> HIDE DEF u
    <2>1. u = [v EXCEPT !.ep[s] = [i \in Ids |-> Absent]]
      BY DEF u
    <2> QED BY <2>1, <1>1, Zenon DEF Worlds
  <1> HIDE DEF u
  <1>4. ASSUME NEW t \in Sides, NEW id \in Ids
        PROVE  u.ep[t][id] = IF t = s THEN Absent ELSE v.ep[t][id]
    BY <1>2, Fields
  <1>5. Absent.refs = 0 /\ ~Absent.live /\ Absent.client = "none"
        /\ Absent.handler = "none" /\ Absent.queue = <<>>
    BY DEF Absent, Endpoint
  <1>6. Exact(u)
    <2> SUFFICES ASSUME NEW t \in Sides, NEW id \in Ids
                 PROVE  EntryExact(u, t, id)
      BY DEF Exact
    <2>1. Handles(u, t, id) = Handles(v, t, id)
      BY <1>2 DEF Handles, Holding
    <2>2. t = s => Handles(v, t, id) = 0
      BY DEF Handles, Holding, Roles
    <2>3. CASE t = s
      <3>1. u.ep[t][id] = Absent
        BY <2>3, <1>4, Zenon
      <3>2. /\ Absent.refs = Handles(u, t, id)
            /\ Absent.refs > 0 => Absent.live
        BY <2>1, <2>2, <2>3, <1>5
      <3> QED BY <3>1, <3>2, <1>5, EntryIs, Zenon
    <2>4. CASE t # s
      <3>1. u.ep[t][id] = v.ep[t][id] /\ u.ends = v.ends
        BY <2>4, <1>4, <1>2, Zenon
      <3>2. Exact(v)
        BY DEF Sound
      <3> QED BY <3>1, <3>2, <2>1, <1>3, EntryKept, Zenon
    <2> QED BY <2>3, <2>4, Zenon
  <1>7. Truthful(u)
    <2>0. Truthful(v)
      BY DEF Sound
    <2>1. ASSUME NEW t \in Sides, NEW i \in DOMAIN u.wire[t]
          PROVE  Announced(u, t, u.wire[t][i])
      <3>1. Announced(v, t, u.wire[t][i])
        BY <1>2, Zenon DEF Sound, Truthful
      <3>2. u.wire[t][i] \in Messages
        BY <1>3, Fields, PositionOf
      <3>3. u.wire[t][i].id \in Ids \cup {NoId}
        BY <3>2 DEF Messages
      <3> QED BY <3>1, <3>3, <1>2, <1>4, <1>5, ZenonT(40) DEF Announced, Minted
    <2>2. ASSUME NEW t \in Sides, NEW id \in Ids, u.ep[t][id].handler # "none"
          PROVE  /\ Minted(u, id)
                 /\ u.ends[id][u.ep[t][id].handler].at \in {t, "none"}
                 /\ u.ends[id][u.ep[t][id].handler].at = t =>
                      u.ends[id][u.ep[t][id].handler].bound
      <3>1. u.ep[t][id] = v.ep[t][id] /\ v.ep[t][id].handler # "none"
        BY <2>2, <1>4, <1>5, Zenon
      <3>2. /\ Minted(v, id)
            /\ v.ends[id][v.ep[t][id].handler].at \in {t, "none"}
            /\ v.ends[id][v.ep[t][id].handler].at = t => v.ends[id][v.ep[t][id].handler].bound
        BY <2>0, <3>1, HandlerAt, Zenon
      <3> QED BY <3>1, <3>2, <1>2, Zenon DEF Minted
    <2>3. ASSUME NEW id \in Ids, NEW r \in Roles, u.ends[id][r].told
          PROVE  u.ends[id][Partner(r)].at = "none"
      <3>1. v.ends[id][r].told
        BY <2>3, <1>2, Zenon
      <3>2. v.ends[id][Partner(r)].at = "none"
        BY <2>0, <3>1, ToldAt, Zenon
      <3> QED BY <3>2, <1>2, Zenon
    <2> QED BY <2>1, <2>2, <2>3, Zenon DEF Truthful
  <1>8. Fresh(u) /\ Silent(u)
    BY <1>2 DEF Sound, Fresh, Minted, Silent
  <1>9. Carriage(u)
    <2>1. Carriage(v)
      BY DEF Sound
    <2>2. \A m : Carried(u, m) <=> Carried(v, m)
      BY <1>2, Zenon DEF Carried
    <2> QED BY <2>1, <2>2, <1>2, Zenon DEF Carriage
  <1>10. Answering(v) => Answering(u)
    BY <1>2 DEF Answering, Expected
  <1> QED BY <1>2, <1>3, <1>6, <1>7, <1>8, <1>9, <1>10 DEF Sound, u

\* ~MultiplexRouter keeps the invariant.
LEMMA ReleaseGood ==
  ASSUME NEW v \in Worlds, NEW s \in Sides, NEW st, Good(v, st), v.drain[s].id = NoId
  PROVE  Good(ReleaseRouter(v, s), st)
  <1>1. CASE v.prim[s] \/ \E i \in Ids, r \in Roles : v.ends[i][r].at = s
    BY <1>1 DEF ReleaseRouter
  <1>2. CASE ~(v.prim[s] \/ \E i \in Ids, r \in Roles : v.ends[i][r].at = s)
    <2> DEFINE c == IF v.conn[s] = "open" THEN "closed" ELSE v.conn[s]
               x == [v EXCEPT !.conn[s] = c, !.wire[s] = <<>>]
               u == [x EXCEPT !.ep[s] = [i \in Ids |-> Absent]]
               m == Msg("pong", NoId, "none", 0, 0)
    <2>0. m \in Messages /\ m.kind = "pong"
      <3>1. "pong" \in Kinds /\ "none" \in Clients
        BY DEF Kinds, Clients
      <3> QED BY <3>1, MsgType DEF Msg
    <2>00. Fitting(v, s, m) /\ Answerable(v, m) /\ m.kind # "call"
      BY <2>0, PlainFits
    <2> HIDE DEF m
    <2>1. c \in {"error", "closed"}
      BY Fields
    <2>2. x.conn = [v.conn EXCEPT ![s] = c] /\ x.wire = [v.wire EXCEPT ![s] = <<>>]
          /\ Kept(v, x)
      BY DEF Worlds, Kept
    <2>3. x \in Worlds
      <3> HIDE DEF x, c
      <3>1. x = [v EXCEPT !.conn[s] = c, !.wire[s] = <<>>]
        BY DEF x
      <3>2. <<>> \in Seq(Messages)
        OBVIOUS
      <3> QED BY <3>1, <3>2, <2>1, Zenon DEF Worlds
    <2>4. ReleaseRouter(v, s) = u
      BY <1>2 DEF ReleaseRouter, Worlds
    <2> HIDE DEF x, c
    <2>5. x.wire[s] = <<>> /\ x.conn[s] # "open" /\ Silent(x) /\ Posted(v, x, s, m)
      <3>1. Silent(v)
        BY DEF Good, Sound
      <3> QED BY <2>1, <2>2, <3>1, Fields DEF Silent, Posted
    <2>6. Good(x, st)
      BY <2>0, <2>00, <2>2, <2>3, <2>5, PostedGood
    <2>7. \A i \in Ids, r \in Roles : x.ends[i][r].at # s
      BY <1>2, <2>2 DEF Kept
    <2>8. /\ Sound(u)
          /\ u.ep = [x.ep EXCEPT ![s] = [i \in Ids |-> Absent]]
          /\ u.conn = x.conn /\ u.wire = x.wire /\ u.ends = x.ends /\ u.next = x.next
          /\ u.drain = x.drain /\ u.sent = x.sent /\ u.got = x.got
          /\ Answering(x) => Answering(u)
      BY <2>3, <2>6, <2>7, WipeSound DEF Good
    <2> HIDE DEF u
    <2>9. ASSUME Lined(x), InOrder(x)
          PROVE  Lined(u) /\ InOrder(u)
      <3>1. ASSUME NEW t \in Sides, NEW id \in Ids
            PROVE  /\ u.ep[t][id].queue = IF t = s THEN <<>> ELSE x.ep[t][id].queue
                   /\ u.ep[t][id].client = IF t = s THEN "none" ELSE x.ep[t][id].client
        BY <2>3, <2>8, Fields DEF Absent, Endpoint
      <3>2. ASSUME NEW t \in Sides, NEW id \in Ids
            PROVE  /\ Drained(u, t, id) = Drained(x, t, id)
                   /\ t # s => Base(u, t, id) = Base(x, t, id)
                   /\ Base(u, t, id) <= Base(x, t, id)
                   /\ Base(u, t, id) \in Nat /\ Base(x, t, id) \in Nat
        <4>1. Drained(u, t, id) = Drained(x, t, id) /\ u.got = x.got
          BY <2>8 DEF Drained
        <4>2. Len(x.got[id]) \in Nat /\ Drained(x, t, id) \in Nat /\ Len(x.ep[t][id].queue) \in Nat
          BY <2>3, LineLengths
        <4>3. Len(u.ep[t][id].queue) = IF t = s THEN 0 ELSE Len(x.ep[t][id].queue)
          BY <3>1, SMTT(60)
        <4>4. /\ Base(u, t, id) = Len(x.got[id]) + Drained(x, t, id) + Len(u.ep[t][id].queue)
              /\ Base(x, t, id) = Len(x.got[id]) + Drained(x, t, id) + Len(x.ep[t][id].queue)
          BY <4>1 DEF Base
        <4>5. PICK a \in Nat, b \in Nat, e \in Nat, d \in Nat :
                a = Len(x.got[id]) /\ b = Drained(x, t, id)
                /\ e = Len(x.ep[t][id].queue) /\ d = Len(u.ep[t][id].queue)
          BY <4>2, <4>3
        <4>6. Base(u, t, id) = a + b + d /\ Base(x, t, id) = a + b + e
          BY <4>4, <4>5
        <4>7. d = IF t = s THEN 0 ELSE e
          BY <4>3, <4>5
        <4> QED BY <4>1, <4>6, <4>7
      <3>3. \A t \in Sides, id \in Ids : Waiting(u, t, id) => Waiting(x, t, id)
        BY <2>8, <3>1 DEF Waiting
      <3>4. Lined(u)
        <4>1. ASSUME NEW t \in Sides, NEW id \in Ids
              PROVE  /\ u.drain[t].id = id => u.drain[t].rest # <<>> /\ u.ep[t][id].queue = <<>>
                     /\ u.ep[t][id].queue # <<>> => u.ep[t][id].client = "none"
                     /\ Base(u, t, id) <= u.sent[id]
                     /\ Waiting(u, t, id) => u.ends[id]["remote"].at \in {Other(t), "none"}
                     /\ ~(Waiting(u, t, id) /\ Waiting(u, Other(t), id))
          <5>1. x.sent[id] \in Nat
            BY <2>3, Fields
          <5>2. Base(x, t, id) <= x.sent[id]
            BY <2>9 DEF Lined
          <5>3. Base(u, t, id) <= u.sent[id]
            BY <5>1, <5>2, <3>2, <2>8
          <5>4. Other(t) \in Sides
            BY Pairs
          <5>5. ~(Waiting(u, t, id) /\ Waiting(u, Other(t), id))
            BY <5>4, <3>3, <2>9 DEF Lined
          <5>6. Waiting(u, t, id) => u.ends[id]["remote"].at \in {Other(t), "none"}
            BY <3>3, <2>9, <2>8 DEF Lined
          <5>7. /\ u.drain[t].id = id => u.drain[t].rest # <<>> /\ u.ep[t][id].queue = <<>>
                /\ u.ep[t][id].queue # <<>> => u.ep[t][id].client = "none"
            BY <3>1, <2>8, <2>9 DEF Lined
          <5> QED BY <5>3, <5>5, <5>6, <5>7
        <4> QED BY <4>1, <2>8, <2>9 DEF Lined
      <3>5. ASSUME NEW t \in Sides, NEW id \in Ids
            PROVE  Rising(u, t, id) /\ Gapless(u, t, id) /\ Complete(u, t, id) /\ Queued(u, t, id)
        <4>0. Rising(x, t, id) /\ Gapless(x, t, id) /\ Complete(x, t, id) /\ Queued(x, t, id)
          BY <2>9 DEF InOrder
        <4>1. CASE t = s
          <5>1. u.wire[t] = <<>> /\ u.conn[t] # "open"
            BY <2>5, <2>8, <4>1
          <5>2. Rising(u, t, id) /\ Gapless(u, t, id) /\ Complete(u, t, id)
            BY <5>1 DEF Rising, Gapless, Complete
          <5>3. Queued(u, t, id)
            BY <4>0, <4>1, <3>1, <2>8 DEF Queued
          <5> QED BY <5>2, <5>3
        <4>2. CASE t # s
          <5>1. Base(u, t, id) = Base(x, t, id) /\ Drained(u, t, id) = Drained(x, t, id)
            BY <4>2, <3>2
          <5>2. \A k : Known(u, t, id, k) <=> Known(x, t, id, k)
            BY <2>8 DEF Known
          <5>3. Rising(u, t, id) /\ Gapless(u, t, id) /\ Complete(u, t, id)
            BY <4>0, <5>1, <5>2, <2>8 DEF Rising, Gapless, Complete
          <5>4. Queued(u, t, id)
            BY <4>0, <4>2, <5>1, <3>1, <2>8 DEF Queued
          <5> QED BY <5>3, <5>4
        <4> QED BY <4>1, <4>2
      <3> QED BY <3>4, <3>5, <2>8, <2>9 DEF InOrder
    <2> QED BY <2>4, <2>6, <2>8, <2>9 DEF Good
  <1> QED BY <1>1, <1>2

-----------------------------------------------------------------------------
(* The endpoint table.                                                     *)

Put(v, s, id, e) == [v EXCEPT !.ep[s][id] = e]
Erased(e) == IF e.live /\ e.refs = 0 /\ e.client = "none" /\ e.queue = <<>> THEN Absent ELSE e
Unbound(e) == [e EXCEPT !.client = "none"]
Dropped(e) ==
  IF ~e.live THEN e ELSE Erased([e EXCEPT !.refs = IF @ > 0 THEN @ - 1 ELSE 0])

\* An entry after a handle of it went, and perhaps its client.
Thinned(e, f, client) ==
  /\ f \in Endpoints /\ f.refs = e.refs - 1 /\ f.client = client /\ f.queue = e.queue
  /\ f.handler \in {e.handler, "none"}
  /\ f.refs > 0 => f.live
  /\ f.live => f.refs > 0 \/ f.client # "none" \/ f.queue # <<>>

\* What DropEndpointHandle leaves of an entry that counts a handle.
LEMMA DroppedThins ==
  ASSUME NEW e \in Endpoints, e.live, e.refs > 0
  PROVE  /\ Dropped(e) \in Endpoints /\ Thinned(e, Dropped(e), e.client)
         /\ Unbound(e) \in Endpoints /\ Erased(Unbound(e)) = Unbound(e)
         /\ Unbound(Unbound(e)) = Unbound(e)
         /\ Dropped(Unbound(e)) \in Endpoints
         /\ Thinned(e, Dropped(Unbound(e)), "none")
  <1>0. Absent \in Endpoints /\ Absent = [live |-> FALSE, client |-> "none", queue |-> <<>>,
                                          handler |-> "none", refs |-> 0]
    <2>1. <<>> \in Seq(Messages)
      OBVIOUS
    <2> QED BY <2>1 DEF Absent, Endpoint, Endpoints, Clients
  <1>1. Unbound(e) \in Endpoints /\ Unbound(Unbound(e)) = Unbound(e)
        /\ Unbound(e).live /\ Unbound(e).refs = e.refs /\ Unbound(e).client = "none"
        /\ Unbound(e).queue = e.queue /\ Unbound(e).handler = e.handler
    BY DEF Unbound, Endpoints, Clients
  <1>2. Erased(Unbound(e)) = Unbound(e)
    BY <1>1 DEF Erased
  <1>3. ASSUME NEW d \in Endpoints, d.live, d.refs > 0
        PROVE  Dropped(d) \in Endpoints /\ Thinned(d, Dropped(d), d.client)
    <2> DEFINE g == [d EXCEPT !.refs = IF @ > 0 THEN @ - 1 ELSE 0]
    <2>1. g \in Endpoints /\ g.refs = d.refs - 1 /\ g.live /\ g.client = d.client
          /\ g.queue = d.queue /\ g.handler = d.handler
      BY <1>3 DEF Endpoints
    <2>2. Dropped(d) = Erased(g)
      BY <1>3 DEF Dropped
    <2> HIDE DEF g
    <2>3. d.refs \in Nat
      BY DEF Endpoints
    <2>4. CASE g.refs = 0 /\ g.client = "none" /\ g.queue = <<>>
      <3>1. Erased(g) = Absent
        BY <2>1, <2>4 DEF Erased
      <3>2. Dropped(d) \in Endpoints /\ Dropped(d).refs = 0 /\ Dropped(d).client = "none"
            /\ Dropped(d).queue = <<>> /\ Dropped(d).handler = "none" /\ ~Dropped(d).live
        <4>1. Dropped(d) = Absent
          BY <3>1, <2>2
        <4>2. Absent.refs = 0 /\ Absent.client = "none" /\ Absent.queue = <<>>
              /\ Absent.handler = "none" /\ ~Absent.live
          BY DEF Absent, Endpoint
        <4> QED BY <4>1, <4>2, <1>0
      <3>3. d.refs - 1 = 0 /\ d.client = "none" /\ d.queue = <<>>
        BY <2>1, <2>4
      <3> QED BY <3>2, <3>3 DEF Thinned
    <2>5. CASE ~(g.refs = 0 /\ g.client = "none" /\ g.queue = <<>>)
      <3>1. Erased(g) = g
        BY <2>1, <2>5 DEF Erased
      <3>2. Dropped(d) = g
        BY <3>1, <2>2
      <3>3. g.refs > 0 \/ g.client # "none" \/ g.queue # <<>>
        BY <1>3, <2>1, <2>3, <2>5
      <3> QED BY <3>2, <3>3, <2>1 DEF Thinned
    <2> QED BY <2>4, <2>5
  <1>4. Dropped(Unbound(e)) \in Endpoints
        /\ Thinned(Unbound(e), Dropped(Unbound(e)), "none")
    BY <1>1, <1>3
  <1>5. Thinned(e, Dropped(Unbound(e)), "none")
    BY <1>4, <1>1 DEF Thinned
  <1> QED BY <1>1, <1>2, <1>3, <1>4, <1>5

\* Writing one entry of the table.
LEMMA PutFacts ==
  ASSUME NEW v \in Worlds, NEW s \in Sides, NEW id \in Ids, NEW e \in Endpoints
  PROVE  LET u == Put(v, s, id, e) IN
         /\ u \in Worlds /\ u.ep[s][id] = e
         /\ \A t \in Sides, j \in Ids :
              u.ep[t][j] = IF t = s /\ j = id THEN e ELSE v.ep[t][j]
         /\ u.conn = v.conn /\ u.wire = v.wire /\ u.erase = v.erase
         /\ u.ends = v.ends /\ u.prim = v.prim
         /\ \A f : Put(u, s, id, f) = Put(v, s, id, f)
         /\ Put(v, s, id, v.ep[s][id]) = v
  <1> DEFINE u == Put(v, s, id, e)
  <1>1. u = [v EXCEPT !.ep = [v.ep EXCEPT ![s] = [v.ep[s] EXCEPT ![id] = e]]]
    BY DEF Put
  <1>2. [v.ep EXCEPT ![s] = [v.ep[s] EXCEPT ![id] = e]] \in [Sides -> [Ids -> Endpoints]]
    BY Fields
  <1>3. u \in Worlds
    <2> HIDE DEF u
    <2> DEFINE p == [v.ep EXCEPT ![s] = [v.ep[s] EXCEPT ![id] = e]]
    <2>1. u = [v EXCEPT !.ep = p] /\ p \in [Sides -> [Ids -> Endpoints]]
      BY <1>1, <1>2
    <2> HIDE DEF p
    <2> QED BY <2>1 DEF Worlds
  <1>4. /\ u.ep = [v.ep EXCEPT ![s] = [v.ep[s] EXCEPT ![id] = e]]
        /\ u.conn = v.conn /\ u.wire = v.wire /\ u.erase = v.erase
        /\ u.ends = v.ends /\ u.prim = v.prim
    BY <1>1 DEF Worlds
  <1>5. \A t \in Sides, j \in Ids : u.ep[t][j] = IF t = s /\ j = id THEN e ELSE v.ep[t][j]
    BY <1>4, Fields
  <1>6. ASSUME NEW f PROVE Put(u, s, id, f) = Put(v, s, id, f)
    <2>1. Put(u, s, id, f) = [u EXCEPT !.ep = [u.ep EXCEPT ![s] = [u.ep[s] EXCEPT ![id] = f]]]
      BY DEF Put
    <2>2. u.ep[s] = [v.ep[s] EXCEPT ![id] = e]
      BY <1>4, Fields
    <2>3. [u.ep[s] EXCEPT ![id] = f] = [v.ep[s] EXCEPT ![id] = f]
      BY <2>2, Fields
    <2>4. [u.ep EXCEPT ![s] = [u.ep[s] EXCEPT ![id] = f]]
            = [v.ep EXCEPT ![s] = [v.ep[s] EXCEPT ![id] = f]]
      BY <2>3, <1>4, Fields
    <2> DEFINE p == [v.ep EXCEPT ![s] = [v.ep[s] EXCEPT ![id] = f]]
               o == [v.ep EXCEPT ![s] = [v.ep[s] EXCEPT ![id] = e]]
    <2>5. Put(u, s, id, f) = [u EXCEPT !.ep = p] /\ u = [v EXCEPT !.ep = o]
          /\ Put(v, s, id, f) = [v EXCEPT !.ep = p]
      BY <2>1, <2>4, <1>1 DEF Put
    <2> HIDE DEF p, o, u
    <2> QED BY <2>5 DEF Worlds
  <1>7. Put(v, s, id, v.ep[s][id]) = v
    <2>1. [v.ep EXCEPT ![s] = [v.ep[s] EXCEPT ![id] = v.ep[s][id]]] = v.ep
      BY Fields
    <2>2. Put(v, s, id, v.ep[s][id]) = [v EXCEPT !.ep = v.ep]
      BY <2>1 DEF Put
    <2> QED BY <2>2 DEF Worlds
  <1> QED BY <1>3, <1>4, <1>5, <1>6, <1>7

-----------------------------------------------------------------------------
(* Handles that leave a side and handles that arrive.                      *)

\* All that the endpoint table and the handles leave alone.
Aside(v, u) ==
  /\ u.next = v.next /\ u.conn = v.conn /\ u.wire = v.wire /\ u.prim = v.prim
  /\ u.drain = v.drain /\ u.pending = v.pending /\ u.nextReq = v.nextReq
  /\ u.asked = v.asked /\ u.answers = v.answers /\ u.sent = v.sent /\ u.got = v.got

\* What answers and what is silent does not depend on handles.
LEMMA AsideKeeps ==
  ASSUME NEW v, NEW u, Aside(v, u)
  PROVE  /\ Silent(v) => Silent(u)
         /\ Answering(v) => Answering(u)
  BY DEF Aside, Silent, Answering, Expected

\* No call waits of an interface on which none was made.
LEMMA NothingWaits ==
  ASSUME NEW v \in Worlds, NEW id \in Ids, Lined(v), InOrder(v), v.sent[id] = 0
  PROVE  \A t \in Sides : ~Waiting(v, t, id)
  <1> SUFFICES ASSUME NEW t \in Sides PROVE ~Waiting(v, t, id)
    OBVIOUS
  <1>1. PICK a \in Nat, b \in Nat, c \in Nat :
          a = Len(v.got[id]) /\ b = Drained(v, t, id) /\ c = Len(v.ep[t][id].queue)
    BY LineLengths
  <1>2. Base(v, t, id) = a + b + c /\ Base(v, t, id) <= 0
    BY <1>1 DEF Base, Lined
  <1>3. b = 0 /\ c = 0
    BY <1>2
  <1>4. v.drain[t].rest \in Seq(Messages) /\ v.ep[t][id].queue \in Seq(Messages)
    BY Fields DEF Loops, Endpoints
  <1>5. v.ep[t][id].queue = <<>>
    BY <1>1, <1>3, <1>4, EmptySeq
  <1>6. v.drain[t].id # id
    <2>1. CASE v.drain[t].id = id
      <3>1. v.drain[t].rest # <<>> /\ Len(v.drain[t].rest) = 0
        BY <2>1, <1>1, <1>3 DEF Lined, Drained
      <3> QED BY <3>1, <1>4, EmptySeq
    <2> QED BY <2>1
  <1>7. ASSUME NEW i \in DOMAIN v.wire[t], IsCall(v.wire[t][i], id)
        PROVE  FALSE
    <2>1. v.wire[t][i].n <= 0
      BY <1>7 DEF Lined, IsCall
    <2>2. v.wire[t][i].n > Base(v, t, id)
      BY <1>7 DEF InOrder, Gapless
    <2>3. v.wire[t][i] \in Messages
      BY Fields, PositionOf
    <2>4. v.wire[t][i].n \in Nat
      BY <2>3 DEF Messages
    <2> QED BY <2>1, <2>2, <2>4, <1>2
  <1> QED BY <1>5, <1>6, <1>7 DEF Waiting

\* The lines of calls, when no endpoint loses a message and a Remote moves
\* only if no call was made through it.
LEMMA LinesKept ==
  ASSUME NEW v \in Worlds, NEW u \in Worlds, Aside(v, u),
         \A t \in Sides, j \in Ids :
           /\ u.ep[t][j].queue = v.ep[t][j].queue
           /\ u.ep[t][j].client \in {v.ep[t][j].client, "none"},
         \A j \in Ids :
           \/ /\ u.ends[j]["remote"].at = v.ends[j]["remote"].at
              /\ v.ends[j]["remote"].bound => u.ends[j]["remote"].bound
           \/ u.ends[j]["remote"].at = "none"
           \/ v.sent[j] = 0,
         \A j \in Ids, t \in Sides :
           u.ends[j]["remote"].at = t /\ u.ends[j]["remote"].bound /\ v.sent[j] # 0
             => v.ends[j]["remote"].at = t /\ v.ends[j]["remote"].bound,
         Lined(v), InOrder(v)
  PROVE  Lined(u) /\ InOrder(u)
  <1>0. /\ u.conn = v.conn /\ u.wire = v.wire /\ u.drain = v.drain
        /\ u.sent = v.sent /\ u.got = v.got
    BY DEF Aside
  <1>1. ASSUME NEW t \in Sides, NEW id \in Ids
        PROVE  /\ Waiting(u, t, id) <=> Waiting(v, t, id)
               /\ Base(u, t, id) = Base(v, t, id) /\ Drained(u, t, id) = Drained(v, t, id)
               /\ \A k : Known(u, t, id, k) <=> Known(v, t, id, k)
    BY <1>0, Zenon DEF Waiting, Base, Drained, Known
  <1>2. ASSUME NEW t \in Sides, NEW id \in Ids
        PROVE  /\ u.drain[t].id = id => u.drain[t].rest # <<>> /\ u.ep[t][id].queue = <<>>
               /\ u.ep[t][id].queue # <<>> => u.ep[t][id].client = "none"
               /\ Base(u, t, id) <= u.sent[id]
               /\ Waiting(u, t, id) => u.ends[id]["remote"].at \in {Other(t), "none"}
               /\ ~(Waiting(u, t, id) /\ Waiting(u, Other(t), id))
    <2>1. Other(t) \in Sides
      BY Pairs
    <2>2. /\ v.drain[t].id = id => v.drain[t].rest # <<>> /\ v.ep[t][id].queue = <<>>
          /\ v.ep[t][id].queue # <<>> => v.ep[t][id].client = "none"
          /\ Base(v, t, id) <= v.sent[id]
          /\ Waiting(v, t, id) => v.ends[id]["remote"].at \in {Other(t), "none"}
          /\ ~(Waiting(v, t, id) /\ Waiting(v, Other(t), id))
      BY DEF Lined
    <2>3. v.sent[id] = 0 => ~Waiting(v, t, id)
      BY NothingWaits
    <2>4. Waiting(u, t, id) => u.ends[id]["remote"].at \in {Other(t), "none"}
      BY <2>2, <2>3, <1>1
    <2>5. ~(Waiting(u, t, id) /\ Waiting(u, Other(t), id))
      BY <2>1, <2>2, <1>1
    <2>6. /\ u.drain[t].id = id => u.drain[t].rest # <<>> /\ u.ep[t][id].queue = <<>>
          /\ u.ep[t][id].queue # <<>> => u.ep[t][id].client = "none"
      BY <2>2, <1>0
    <2>7. Base(u, t, id) <= u.sent[id]
      BY <2>2, <1>0, <1>1
    <2> QED BY <2>4, <2>5, <2>6, <2>7
  <1>3. \A id \in Ids :
          /\ u.ends[id]["remote"].at # "none"
          /\ u.ends[id]["remote"].bound => u.ends[id]["remote"].at = "wire"
          => u.sent[id] = 0
    BY <1>0 DEF Lined
  <1>4. Lined(u)
    BY <1>0, <1>2, <1>3 DEF Lined
  <1>5. ASSUME NEW t \in Sides, NEW id \in Ids
        PROVE  Rising(u, t, id) /\ Gapless(u, t, id) /\ Complete(u, t, id) /\ Queued(u, t, id)
    <2>0. Rising(v, t, id) /\ Gapless(v, t, id) /\ Complete(v, t, id) /\ Queued(v, t, id)
      BY DEF InOrder
    <2>1. Rising(u, t, id)
      BY <2>0, <1>0 DEF Rising
    <2>2. Gapless(u, t, id)
      BY <2>0, <1>0, <1>1 DEF Gapless
    <2>3. Queued(u, t, id)
      BY <2>0, <1>0, <1>1, SMTT(40) DEF Queued
    <2>4. Complete(u, t, id)
      <3>1. CASE v.sent[id] = 0
        <4>1. Base(v, t, id) \in Nat
          BY LineLengths
        <4> QED BY <3>1, <4>1, <1>0, <1>1 DEF Complete
      <3>2. CASE v.sent[id] # 0
        <4>1. Other(t) \in Sides
          BY Pairs
        <4> QED BY <3>2, <4>1, <2>0, <1>0, <1>1 DEF Complete
      <3> QED BY <3>1, <3>2
    <2> QED BY <2>1, <2>2, <2>3, <2>4
  <1> QED BY <1>4, <1>5, <1>0 DEF InOrder

\* u is v with the entry f, and with the half h.
Wrote(v, u, s, id, f) ==
  \A t \in Sides, j \in Ids : u.ep[t][j] = IF t = s /\ j = id THEN f ELSE v.ep[t][j]
Redirected(v, u, id, role, h) ==
  \A j \in Ids, r \in Roles : u.ends[j][r] = IF j = id /\ r = role THEN h ELSE v.ends[j][r]

\* A handle that is dropped, closed or put into a message.
LEMMA ThinGood ==
  ASSUME NEW v \in Worlds, NEW u \in Worlds, NEW st, Good(v, st), Aside(v, u),
         NEW s \in Sides, NEW id \in Ids, NEW role \in Roles,
         NEW f, NEW h \in Halves, NEW client,
         Wrote(v, u, s, id, f), Redirected(v, u, id, role, h),
         v.ends[id][role].at = s, h.at \in {"none", "wire"}, ~h.bound,
         h.told => v.ends[id][role].told,
         h.at = "wire" => ~v.ends[id][role].bound,
         Thinned(v.ep[s][id], f, client),
         client \in {v.ep[s][id].client, "none"}, client # role
  PROVE  Good(u, st)
  <1>0. /\ u.next = v.next /\ u.conn = v.conn /\ u.wire = v.wire /\ u.sent = v.sent
        /\ s # "none" /\ s # "wire" /\ Partner(role) \in Roles /\ Partner(role) # role
    BY Pairs DEF Aside, Sides
  <1>a. /\ u.ep[s][id] = f
        /\ \A t \in Sides, j \in Ids : ~(t = s /\ j = id) => u.ep[t][j] = v.ep[t][j]
    BY DEF Wrote
  <1>b. /\ u.ends[id][role] = h
        /\ \A j \in Ids, r \in Roles : ~(j = id /\ r = role) => u.ends[j][r] = v.ends[j][r]
    BY DEF Redirected
  <1>c. Sound(v) /\ Exact(v) /\ Truthful(v)
    BY DEF Good, Sound
  <1>1. Exact(u)
    <2>1. ASSUME NEW t \in Sides, NEW j \in Ids
          PROVE  Handles(u, t, j) = IF t = s /\ j = id THEN Handles(v, t, j) - 1
                                    ELSE Handles(v, t, j)
      <3>1. ASSUME NEW r \in Roles
            PROVE  Holding(u, t, j, r) =
                     IF t = s /\ j = id /\ r = role THEN Holding(v, t, j, r) - 1
                     ELSE Holding(v, t, j, r)
        <4>1. CASE j = id /\ r = role
          <5>1. u.ends[j][r] = h /\ v.ends[j][r].at = s /\ h.at # t
            BY <4>1, <1>0, <1>b DEF Sides
          <5> QED BY <5>1, <4>1 DEF Holding
        <4>2. CASE ~(j = id /\ r = role)
          BY <4>2, <1>b DEF Holding
        <4> QED BY <4>1, <4>2
      <3>2. Holding(v, t, j, "remote") \in {0, 1} /\ Holding(v, t, j, "receiver") \in {0, 1}
        BY DEF Holding
      <3> QED BY <3>1, <3>2 DEF Handles, Roles
    <2> SUFFICES ASSUME NEW t \in Sides, NEW j \in Ids
                 PROVE  EntryExact(u, t, j)
      BY DEF Exact
    <2>2. /\ v.ep[t][j].refs = Handles(v, t, j)
          /\ v.ep[t][j].refs > 0 => v.ep[t][j].live
          /\ v.ep[t][j].live => \/ v.ep[t][j].refs > 0 \/ v.ep[t][j].client # "none"
                                \/ v.ep[t][j].queue # <<>>
          /\ v.ep[t][j].client # "none" =>
               /\ v.ends[j][v.ep[t][j].client].at = t
               /\ v.ends[j][v.ep[t][j].client].bound
          /\ v.ep[t][j].client \in Roles \cup {"none"}
      <3>1. v.ep[t][j].client \in Roles \cup {"none"}
        BY FieldsAt, Zenon
      <3>2. /\ v.ep[t][j].refs = Handles(v, t, j)
            /\ v.ep[t][j].refs > 0 => v.ep[t][j].live
            /\ v.ep[t][j].live => \/ v.ep[t][j].refs > 0 \/ v.ep[t][j].client # "none"
                                  \/ v.ep[t][j].queue # <<>>
            /\ v.ep[t][j].client # "none" =>
                 /\ v.ends[j][v.ep[t][j].client].at = t
                 /\ v.ends[j][v.ep[t][j].client].bound
        BY <1>c, EntryAt, Zenon
      <3> QED BY <3>1, <3>2, Zenon
    <2>3. CASE t = s /\ j = id
      <3>1. u.ep[t][j] = f
        BY <2>3, <1>a
      <3>2. f.client # "none" => f.client \in Roles /\ f.client = v.ep[t][j].client
                                 /\ f.client # role
        BY <2>2, <2>3 DEF Thinned
      <3>3. ASSUME f.client # "none" PROVE u.ends[j][f.client] = v.ends[j][f.client]
        <4>1. PICK c \in Roles : c = f.client /\ c # role
          BY <3>2, <3>3, Zenon
        <4>2. u.ends[j][c] = v.ends[j][c]
          BY <4>1, <1>b, Zenon
        <4> QED BY <4>1, <4>2, Zenon
      <3>4. f.refs = Handles(v, t, j) - 1
        BY <2>2, <2>3 DEF Thinned
      <3>5. (f.refs > 0 => f.live)
            /\ (f.live => f.refs > 0 \/ f.client # "none" \/ f.queue # <<>>)
        BY DEF Thinned
      <3>6. f.refs = Handles(u, t, j)
        BY <2>1, <2>3, <3>4
      <3>7. f.client # "none" => u.ends[j][f.client].at = t /\ u.ends[j][f.client].bound
        BY <2>2, <3>2, <3>3, Zenon
      <3> QED BY <3>1, <3>5, <3>6, <3>7, EntryIs
    <2>4. CASE ~(t = s /\ j = id)
      <3>1. u.ep[t][j] = v.ep[t][j] /\ Handles(u, t, j) = Handles(v, t, j)
        BY <2>1, <2>4, <1>a
      <3>2. v.ep[t][j].client # "none" =>
              u.ends[j][v.ep[t][j].client] = v.ends[j][v.ep[t][j].client]
        <4>1. CASE j # id
          BY <2>2, <4>1, <1>b, Zenon
        <4>2. CASE j = id
          <5>1. t # s /\ v.ends[j][role].at = s
            BY <2>4, <4>2
          <5>2. v.ep[t][j].client # "none" => v.ep[t][j].client # role
            BY <2>2, <5>1
          <5> QED BY <2>2, <5>2, <1>b, Zenon
        <4> QED BY <4>1, <4>2
      <3> QED BY <3>1, <3>2, <1>c, EntryKept, Zenon
    <2> QED BY <2>3, <2>4, Zenon
  <1>2. Fresh(u)
    BY <1>0, <1>b DEF Good, Sound, Fresh, Minted, Gone
  <1>3. Carriage(u)
    <2>1. ASSUME NEW t \in Sides, NEW i \in DOMAIN u.wire[t]
          PROVE  Carried(u, u.wire[t][i])
      <3>1. Carried(v, u.wire[t][i]) /\ u.wire[t][i] \in Messages
        BY <1>0, Fields, PositionOf DEF Good, Sound, Carriage
      <3>2. u.wire[t][i].id \in Ids \cup {NoId}
        BY <3>1 DEF Messages
      <3> QED BY <3>1, <3>2, <1>0, <1>b, Zenon DEF Carried
    <2> QED BY <2>1, <1>0 DEF Good, Sound, Carriage
  <1>4. Truthful(u)
    <2>1. ASSUME NEW j \in Ids, NEW r \in Roles, v.ends[j][r].at = "none"
          PROVE  u.ends[j][r].at = "none"
      BY <2>1, <1>0, <1>b
    <2>2. ASSUME NEW t \in Sides, NEW j \in Ids
          PROVE  /\ u.ep[t][j].handler \in {v.ep[t][j].handler, "none"}
                 /\ v.ep[t][j].handler \in Roles \cup {"none"}
      <3>1. v.ep[t][j] \in Endpoints
        BY Fields
      <3>2. v.ep[t][j].handler \in Roles \cup {"none"}
        BY <3>1 DEF Endpoints, Clients
      <3>3. f.handler \in {v.ep[s][id].handler, "none"}
        BY DEF Thinned
      <3> QED BY <3>2, <3>3, <1>a
    <2>3. ASSUME NEW t \in Sides, NEW i \in DOMAIN u.wire[t]
          PROVE  Announced(u, t, u.wire[t][i])
      <3>1. Announced(v, t, u.wire[t][i]) /\ u.wire[t][i] \in Messages
        BY <1>0, <1>c, AnnouncedAt
      <3>2. u.wire[t][i].id \in Ids \cup {NoId}
        BY <3>1 DEF Messages
      <3>3. CASE u.wire[t][i].kind # "closed"
        BY <3>3, ZenonT(40) DEF Announced
      <3>4. CASE u.wire[t][i].kind = "closed"
        <4> DEFINE j == u.wire[t][i].id
        <4>1. j \in Ids /\ Minted(v, j) /\ j # NoId
          BY <3>1, <3>2, <3>4, ZenonT(40) DEF Announced
        <4>2. \E r \in Roles : u.ends[j][r].at = "none"
          <5>1. PICK r \in Roles : v.ends[j][r].at = "none"
            BY <3>1, <3>4, ZenonT(40) DEF Announced
          <5> QED BY <5>1, <4>1, <2>1, Zenon
        <4>3. u.ep[t][j].handler # "none" =>
                u.ends[j][Partner(u.ep[t][j].handler)].at = "none"
          <5> SUFFICES ASSUME u.ep[t][j].handler # "none"
                       PROVE  u.ends[j][Partner(u.ep[t][j].handler)].at = "none"
            BY ZenonT(40)
          <5>1. u.ep[t][j].handler = v.ep[t][j].handler /\ v.ep[t][j].handler \in Roles
            <6> HIDE DEF j
            <6>1. /\ u.ep[t][j].handler \in {v.ep[t][j].handler, "none"}
                  /\ v.ep[t][j].handler \in Roles \cup {"none"}
              BY <2>2, <4>1, ZenonT(40)
            <6> QED BY <6>1, ZenonT(40)
          <5>2. v.ends[j][Partner(v.ep[t][j].handler)].at = "none"
            BY <5>1, <3>1, <3>4, ZenonT(40) DEF Announced
          <5>3. Partner(v.ep[t][j].handler) \in Roles
            BY <5>1, Pairs, Zenon
          <5> HIDE DEF j
          <5>4. u.ends[j][Partner(v.ep[t][j].handler)].at = "none"
            BY <5>2, <5>3, <4>1, <2>1
          <5> QED BY <5>1, <5>4
        <4>4. Minted(u, j)
          BY <4>1, <1>0 DEF Minted
        <4> QED BY <4>1, <4>2, <4>3, <4>4, ZenonT(40) DEF Announced
      <3> QED BY <3>3, <3>4
    <2>4. ASSUME NEW t \in Sides, NEW j \in Ids, u.ep[t][j].handler # "none"
          PROVE  /\ Minted(u, j)
                 /\ u.ends[j][u.ep[t][j].handler].at \in {t, "none"}
                 /\ u.ends[j][u.ep[t][j].handler].at = t =>
                      u.ends[j][u.ep[t][j].handler].bound
      <3>1. u.ep[t][j].handler = v.ep[t][j].handler /\ v.ep[t][j].handler \in Roles
        BY <2>2, <2>4
      <3>2. /\ Minted(v, j)
            /\ v.ends[j][v.ep[t][j].handler].at \in {t, "none"}
            /\ v.ends[j][v.ep[t][j].handler].at = t => v.ends[j][v.ep[t][j].handler].bound
        BY <3>1, <2>4, <1>c, HandlerAt, Zenon
      <3>3. Minted(u, j)
        BY <3>2, <1>0, Zenon DEF Minted
      <3>4. CASE j = id /\ v.ep[t][j].handler = role
        <4>1. v.ends[j][role].bound /\ h.at = "none" /\ u.ends[j][role] = h
          BY <3>2, <3>4, <1>0, <1>b
        <4> QED BY <4>1, <3>1, <3>3, <3>4 DEF Sides
      <3>5. CASE ~(j = id /\ v.ep[t][j].handler = role)
        <4>1. u.ends[j][v.ep[t][j].handler] = v.ends[j][v.ep[t][j].handler]
          BY <3>1, <3>5, <1>b
        <4> QED BY <4>1, <3>1, <3>2, <3>3, Zenon
      <3> QED BY <3>4, <3>5, ZenonT(40)
    <2>5. ASSUME NEW j \in Ids, NEW r \in Roles, u.ends[j][r].told
          PROVE  u.ends[j][Partner(r)].at = "none"
      <3>1. v.ends[j][r].told
        BY <2>5, <1>b
      <3>2. v.ends[j][Partner(r)].at = "none" /\ Partner(r) \in Roles
        BY <3>1, <1>c, Pairs, ToldAt
      <3> QED BY <3>2, <2>1
    <2> QED BY <2>3, <2>4, <2>5, Zenon DEF Truthful
  <1>5. Sound(u)
    BY <1>1, <1>2, <1>3, <1>4, AsideKeeps DEF Good, Sound
  <1>6. ASSUME Lined(v), InOrder(v) PROVE Lined(u) /\ InOrder(u)
    <2>1. \A t \in Sides, j \in Ids : /\ u.ep[t][j].queue = v.ep[t][j].queue
                                      /\ u.ep[t][j].client \in {v.ep[t][j].client, "none"}
      BY <1>a DEF Thinned
    <2>2. "remote" \in Roles
      BY DEF Roles
    <2>3. ASSUME NEW j \in Ids
          PROVE  \/ u.ends[j]["remote"] = v.ends[j]["remote"]
                 \/ u.ends[j]["remote"].at = "none"
                 \/ v.sent[j] = 0
      <3>1. CASE j = id /\ role = "remote"
        <4>1. h.at = "wire" => v.sent[j] = 0
          BY <3>1, <1>0, <1>6 DEF Lined
        <4> QED BY <4>1, <3>1, <2>2, <1>b
      <3>2. CASE ~(j = id /\ role = "remote")
        BY <3>2, <2>2, <1>b
      <3> QED BY <3>1, <3>2
    <2>4. ASSUME NEW j \in Ids, NEW t \in Sides,
                 u.ends[j]["remote"].at = t, u.ends[j]["remote"].bound
          PROVE  v.ends[j]["remote"].at = t /\ v.ends[j]["remote"].bound
      BY <2>2, <2>4, <1>b
    <2>5. \A j \in Ids, t \in Sides :
            u.ends[j]["remote"].at = t /\ u.ends[j]["remote"].bound /\ v.sent[j] # 0
              => v.ends[j]["remote"].at = t /\ v.ends[j]["remote"].bound
      BY <2>4
    <2> QED BY <2>1, <2>3, <2>5, <1>6, LinesKept, Zenon
  <1> QED BY <1>5, <1>6, AsideKeeps DEF Good

\* A handle that arrives with the message that carried it.
LEMMA GainGood ==
  ASSUME NEW v \in Worlds, NEW u \in Worlds, NEW st, Good(v, st), Aside(v, u),
         NEW s \in Sides, NEW id \in Ids, NEW role \in Roles, NEW f, NEW h,
         Wrote(v, u, s, id, f), Redirected(v, u, id, role, h),
         v.ends[id][role].at = "wire",
         \A t \in Sides : \A i \in DOMAIN v.wire[t] :
           ~(Carrier(v.wire[t][i]) /\ v.wire[t][i].id = id /\ v.wire[t][i].role = role),
         h.at = s, ~h.bound, ~h.told,
         f.live, f.refs = v.ep[s][id].refs + 1, f.client = v.ep[s][id].client,
         f.queue = v.ep[s][id].queue, f.handler = v.ep[s][id].handler
  PROVE  Good(u, st)
  <1>0. /\ u.next = v.next /\ u.conn = v.conn /\ u.wire = v.wire /\ u.sent = v.sent
        /\ s # "none" /\ s # "wire" /\ Partner(role) \in Roles /\ Partner(role) # role
    BY Pairs DEF Aside, Sides
  <1>a. /\ u.ep[s][id] = f
        /\ \A t \in Sides, j \in Ids : ~(t = s /\ j = id) => u.ep[t][j] = v.ep[t][j]
    BY DEF Wrote
  <1>b. /\ u.ends[id][role] = h
        /\ \A j \in Ids, r \in Roles : ~(j = id /\ r = role) => u.ends[j][r] = v.ends[j][r]
    BY DEF Redirected
  <1>c. Sound(v) /\ Exact(v) /\ Truthful(v)
    BY DEF Good, Sound
  <1>1. Exact(u)
    <2>1. ASSUME NEW t \in Sides, NEW j \in Ids
          PROVE  Handles(u, t, j) = IF t = s /\ j = id THEN Handles(v, t, j) + 1
                                    ELSE Handles(v, t, j)
      <3>1. ASSUME NEW r \in Roles
            PROVE  Holding(u, t, j, r) =
                     IF t = s /\ j = id /\ r = role THEN Holding(v, t, j, r) + 1
                     ELSE Holding(v, t, j, r)
        <4>1. CASE j = id /\ r = role
          <5>1. u.ends[j][r] = h /\ v.ends[j][r].at # t /\ h.at = s
            BY <4>1, <1>0, <1>b DEF Sides
          <5> QED BY <5>1, <4>1 DEF Holding
        <4>2. CASE ~(j = id /\ r = role)
          BY <4>2, <1>b DEF Holding
        <4> QED BY <4>1, <4>2
      <3>2. Holding(v, t, j, "remote") \in {0, 1} /\ Holding(v, t, j, "receiver") \in {0, 1}
        BY DEF Holding
      <3> QED BY <3>1, <3>2 DEF Handles, Roles
    <2> SUFFICES ASSUME NEW t \in Sides, NEW j \in Ids
                 PROVE  EntryExact(u, t, j)
      BY DEF Exact
    <2>b. v.ep[t][j].client \in Roles \cup {"none"} /\ v.ep[t][j].refs \in Nat
      BY FieldsAt
    <2>2. /\ v.ep[t][j].refs = Handles(v, t, j)
          /\ v.ep[t][j].refs > 0 => v.ep[t][j].live
          /\ v.ep[t][j].live => \/ v.ep[t][j].refs > 0 \/ v.ep[t][j].client # "none"
                                \/ v.ep[t][j].queue # <<>>
          /\ v.ep[t][j].client # "none" =>
               /\ v.ends[j][v.ep[t][j].client].at = t
               /\ v.ends[j][v.ep[t][j].client].bound
      BY <1>c, EntryAt, Zenon
    <2>4. v.ep[t][j].client # "none" =>
            u.ends[j][v.ep[t][j].client] = v.ends[j][v.ep[t][j].client]
      <3>1. CASE j # id
        BY <2>b, <3>1, <1>b
      <3>2. CASE j = id
        <4>1. v.ends[j][role].at # t
          BY <3>2, <1>0 DEF Sides
        <4>2. v.ep[t][j].client # "none" => v.ep[t][j].client # role
          BY <2>2, <4>1
        <4> QED BY <2>b, <4>2, <1>b
      <3> QED BY <3>1, <3>2
    <2>5. CASE t = s /\ j = id
      <3>1. u.ep[t][j] = f /\ Handles(u, t, j) = Handles(v, t, j) + 1
        BY <2>1, <2>5, <1>a
      <3>2. f.refs = Handles(u, t, j) /\ f.refs > 0 /\ f.live
        BY <2>b, <2>2, <2>5, <3>1
      <3>3. f.client # "none" => u.ends[j][f.client].at = t /\ u.ends[j][f.client].bound
        <4>1. PICK c : c = v.ep[t][j].client
          OBVIOUS
        <4>2. f.client = c
          BY <4>1, <2>5, Zenon
        <4>3. c # "none" => u.ends[j][c].at = t /\ u.ends[j][c].bound
          BY <4>1, <2>2, <2>4, Zenon
        <4> QED BY <4>2, <4>3, Zenon
      <3> QED BY <3>1, <3>2, <3>3, EntryIs, Zenon
    <2>6. CASE ~(t = s /\ j = id)
      <3>1. u.ep[t][j] = v.ep[t][j] /\ Handles(u, t, j) = Handles(v, t, j)
        BY <2>1, <2>6, <1>a
      <3> QED BY <3>1, <2>4, <1>c, EntryKept, Zenon
    <2> QED BY <2>5, <2>6, Zenon
  <1>2. Fresh(u)
    BY <1>0, <1>b DEF Good, Sound, Fresh, Minted, Gone
  <1>3. Carriage(u)
    <2>1. ASSUME NEW t \in Sides, NEW i \in DOMAIN u.wire[t]
          PROVE  Carried(u, u.wire[t][i])
      <3>1. Carried(v, u.wire[t][i]) /\ u.wire[t][i] \in Messages
        BY <1>0, Fields, PositionOf DEF Good, Sound, Carriage
      <3>2. u.wire[t][i].id \in Ids \cup {NoId}
        BY <3>1 DEF Messages
      <3>3. PICK m : m = u.wire[t][i]
        OBVIOUS
      <3>4. /\ Carried(v, m) /\ m.id \in Ids \cup {NoId}
            /\ Carrier(m) => ~(m.id = id /\ m.role = role)
        BY <3>1, <3>2, <3>3, <1>0
      <3>5. Carried(u, m)
        BY <3>4, <1>b DEF Carried
      <3> QED BY <3>3, <3>5
    <2> QED BY <2>1, <1>0 DEF Good, Sound, Carriage
  <1>4. Truthful(u)
    <2>1. ASSUME NEW j \in Ids, NEW r \in Roles, v.ends[j][r].at = "none"
          PROVE  u.ends[j][r].at = "none"
      BY <2>1, <1>0, <1>b
    <2>2. ASSUME NEW t \in Sides, NEW j \in Ids
          PROVE  /\ u.ep[t][j].handler = v.ep[t][j].handler
                 /\ v.ep[t][j].handler \in Roles \cup {"none"}
      <3>1. v.ep[t][j] \in Endpoints
        BY Fields
      <3>2. v.ep[t][j].handler \in Roles \cup {"none"}
        BY <3>1 DEF Endpoints, Clients
      <3> QED BY <3>2, <1>a
    <2>3. ASSUME NEW t \in Sides, NEW i \in DOMAIN u.wire[t]
          PROVE  Announced(u, t, u.wire[t][i])
      <3>1. Announced(v, t, u.wire[t][i]) /\ u.wire[t][i] \in Messages
        BY <1>0, <1>c, AnnouncedAt
      <3>2. u.wire[t][i].id \in Ids \cup {NoId}
        BY <3>1 DEF Messages
      <3>3. CASE u.wire[t][i].kind # "closed"
        BY <3>3, ZenonT(40) DEF Announced
      <3>4. CASE u.wire[t][i].kind = "closed"
        <4> DEFINE j == u.wire[t][i].id
        <4>1. j \in Ids /\ Minted(v, j) /\ j # NoId
          BY <3>1, <3>2, <3>4, ZenonT(40) DEF Announced
        <4>2. \E r \in Roles : u.ends[j][r].at = "none"
          <5>1. PICK r \in Roles : v.ends[j][r].at = "none"
            BY <3>1, <3>4, ZenonT(40) DEF Announced
          <5> QED BY <5>1, <4>1, <2>1, Zenon
        <4>3. u.ep[t][j].handler # "none" =>
                u.ends[j][Partner(u.ep[t][j].handler)].at = "none"
          <5> SUFFICES ASSUME u.ep[t][j].handler # "none"
                       PROVE  u.ends[j][Partner(u.ep[t][j].handler)].at = "none"
            BY ZenonT(40)
          <5>1. u.ep[t][j].handler = v.ep[t][j].handler /\ v.ep[t][j].handler \in Roles
            <6> HIDE DEF j
            <6>1. /\ u.ep[t][j].handler = v.ep[t][j].handler
                  /\ v.ep[t][j].handler \in Roles \cup {"none"}
              BY <2>2, <4>1, Zenon
            <6> QED BY <6>1, Zenon
          <5>2. v.ends[j][Partner(v.ep[t][j].handler)].at = "none"
            BY <5>1, <3>1, <3>4, ZenonT(40) DEF Announced
          <5>3. Partner(v.ep[t][j].handler) \in Roles
            BY <5>1, Pairs, Zenon
          <5> HIDE DEF j
          <5>4. u.ends[j][Partner(v.ep[t][j].handler)].at = "none"
            BY <5>2, <5>3, <4>1, <2>1
          <5> QED BY <5>1, <5>4
        <4>4. Minted(u, j)
          BY <4>1, <1>0 DEF Minted
        <4> QED BY <4>1, <4>2, <4>3, <4>4, ZenonT(40) DEF Announced
      <3> QED BY <3>3, <3>4
    <2>4. ASSUME NEW t \in Sides, NEW j \in Ids, u.ep[t][j].handler # "none"
          PROVE  /\ Minted(u, j)
                 /\ u.ends[j][u.ep[t][j].handler].at \in {t, "none"}
                 /\ u.ends[j][u.ep[t][j].handler].at = t =>
                      u.ends[j][u.ep[t][j].handler].bound
      <3>1. u.ep[t][j].handler = v.ep[t][j].handler /\ v.ep[t][j].handler \in Roles
        BY <2>2, <2>4
      <3>2. /\ Minted(v, j)
            /\ v.ends[j][v.ep[t][j].handler].at \in {t, "none"}
            /\ v.ends[j][v.ep[t][j].handler].at = t => v.ends[j][v.ep[t][j].handler].bound
        BY <3>1, <2>4, <1>c, HandlerAt, Zenon
      <3>3. Minted(u, j)
        BY <3>2, <1>0, Zenon DEF Minted
      <3>4. ~(j = id /\ v.ep[t][j].handler = role)
        BY <3>2, Zenon DEF Sides
      <3>5. u.ends[j][v.ep[t][j].handler] = v.ends[j][v.ep[t][j].handler]
        BY <3>1, <3>4, <1>b
      <3> QED BY <3>1, <3>2, <3>3, <3>5, Zenon
    <2>5. ASSUME NEW j \in Ids, NEW r \in Roles, u.ends[j][r].told
          PROVE  u.ends[j][Partner(r)].at = "none"
      <3>1. v.ends[j][r].told
        BY <2>5, <1>b
      <3>2. v.ends[j][Partner(r)].at = "none" /\ Partner(r) \in Roles
        BY <3>1, <1>c, Pairs, ToldAt
      <3> QED BY <3>2, <2>1
    <2> QED BY <2>3, <2>4, <2>5, Zenon DEF Truthful
  <1>5. Sound(u)
    BY <1>1, <1>2, <1>3, <1>4, AsideKeeps DEF Good, Sound
  <1>6. ASSUME Lined(v), InOrder(v) PROVE Lined(u) /\ InOrder(u)
    <2>1. \A t \in Sides, j \in Ids : /\ u.ep[t][j].queue = v.ep[t][j].queue
                                      /\ u.ep[t][j].client \in {v.ep[t][j].client, "none"}
      BY <1>a
    <2>2. "remote" \in Roles
      BY DEF Roles
    <2>3. ASSUME NEW j \in Ids
          PROVE  \/ u.ends[j]["remote"] = v.ends[j]["remote"]
                 \/ u.ends[j]["remote"].at = "none"
                 \/ v.sent[j] = 0
      <3>1. CASE j = id /\ role = "remote"
        BY <3>1, <1>6 DEF Lined
      <3>2. CASE ~(j = id /\ role = "remote")
        BY <3>2, <2>2, <1>b
      <3> QED BY <3>1, <3>2
    <2>4. ASSUME NEW j \in Ids, NEW t \in Sides,
                 u.ends[j]["remote"].at = t, u.ends[j]["remote"].bound
          PROVE  v.ends[j]["remote"].at = t /\ v.ends[j]["remote"].bound
      BY <2>2, <2>4, <1>b
    <2>5. \A j \in Ids, t \in Sides :
            u.ends[j]["remote"].at = t /\ u.ends[j]["remote"].bound /\ v.sent[j] # 0
              => v.ends[j]["remote"].at = t /\ v.ends[j]["remote"].bound
      BY <2>4
    <2>6. \A j \in Ids :
            \/ /\ u.ends[j]["remote"].at = v.ends[j]["remote"].at
               /\ v.ends[j]["remote"].bound => u.ends[j]["remote"].bound
            \/ u.ends[j]["remote"].at = "none"
            \/ v.sent[j] = 0
      BY <2>3, Zenon
    <2> QED BY <2>1, <2>5, <2>6, <1>6, LinesKept, Zenon
  <1> QED BY <1>5, <1>6, AsideKeeps DEF Good

\* The notification of a closed endpoint may be sent after the entry was
\* written as well as before.
LEMMA SendPut ==
  ASSUME NEW v \in Worlds, NEW s \in Sides, NEW id \in Ids, NEW e \in Endpoints,
         NEW m \in Messages
  PROVE  Send(Put(v, s, id, e), s, m) = Put(Send(v, s, m), s, id, e)
  <1> DEFINE u == Put(v, s, id, e)
              r == Other(s)
              p == [v.ep EXCEPT ![s] = [v.ep[s] EXCEPT ![id] = e]]
  <1>0. u.conn = v.conn /\ u.wire = v.wire /\ u.prim = v.prim /\ r \in Sides
    BY PutFacts, Pairs
  <1>1. u = [v EXCEPT !.ep = p]
    BY DEF Put
  <1>2. CASE v.conn[s] # "open"
    BY <1>0, <1>2 DEF Send
  <1>3. CASE v.conn[s] = "open" /\ v.conn[r] # "open"
    <2> DEFINE b == (s = "B" /\ v.prim[s])
               y == [v EXCEPT !.conn[s] = "error", !.wire[s] = <<>>, !.erase[s] = b]
    <2>1. Send(v, s, m) = y
      BY <1>3 DEF Send, RaiseError
    <2>2. Send(u, s, m) = [u EXCEPT !.conn[s] = "error", !.wire[s] = <<>>, !.erase[s] = b]
      BY <1>3, <1>0 DEF Send, RaiseError
    <2>3. y.ep = v.ep
      BY DEF Worlds
    <2>4. Put(y, s, id, e) = [y EXCEPT !.ep = p]
      BY <2>3 DEF Put
    <2>5. [u EXCEPT !.conn[s] = "error", !.wire[s] = <<>>, !.erase[s] = b]
            = [y EXCEPT !.ep = p]
      <3>1. y = [v EXCEPT !.conn[s] = "error", !.wire[s] = <<>>, !.erase[s] = b]
        OBVIOUS
      <3> HIDE DEF u, y, b, p
      <3> QED BY <1>1, <3>1 DEF Worlds
    <2> QED BY <2>1, <2>2, <2>4, <2>5
  <1>4. CASE v.conn[s] = "open" /\ v.conn[r] = "open"
    <2> DEFINE q == Append(v.wire[r], m)
               y == [v EXCEPT !.wire[r] = q]
    <2>1. Send(v, s, m) = y
      BY <1>4 DEF Send
    <2>2. Send(u, s, m) = [u EXCEPT !.wire[r] = q]
      BY <1>4, <1>0 DEF Send
    <2>3. y.ep = v.ep
      BY DEF Worlds
    <2>4. Put(y, s, id, e) = [y EXCEPT !.ep = p]
      BY <2>3 DEF Put
    <2>5. [u EXCEPT !.wire[r] = q] = [y EXCEPT !.ep = p]
      <3>1. y = [v EXCEPT !.wire[r] = q]
        OBVIOUS
      <3> HIDE DEF u, y, q, p, r
      <3> QED BY <1>1, <3>1 DEF Worlds
    <2> QED BY <2>1, <2>2, <2>4, <2>5
  <1> QED BY <1>2, <1>3, <1>4

-----------------------------------------------------------------------------
(* The operations on the table, as writings of one entry.                  *)

Retained(e) == [e EXCEPT !.live = TRUE, !.refs = @ + 1]

\* Entries stay entries.
LEMMA EntryTypes ==
  ASSUME NEW e \in Endpoints
  PROVE  /\ Retained(e) \in Endpoints /\ Unbound(e) \in Endpoints
         /\ Erased(e) \in Endpoints /\ Dropped(e) \in Endpoints
  <1>0. Absent \in Endpoints
    <2>1. <<>> \in Seq(Messages)
      OBVIOUS
    <2> QED BY <2>1 DEF Absent, Endpoint, Endpoints, Clients
  <1>1. \A d \in Endpoints : Erased(d) \in Endpoints
    BY <1>0 DEF Erased
  <1>2. Retained(e) \in Endpoints /\ Unbound(e) \in Endpoints
    <2>1. Unbound(e) \in Endpoints
      BY DEF Unbound, Endpoints, Clients
    <2>2. PICK n \in Nat : n = e.refs + 1
      BY DEF Endpoints
    <2>3. Retained(e) = [e EXCEPT !.live = TRUE, !.refs = n]
      BY <2>2 DEF Retained
    <2>4. Retained(e) \in Endpoints
      BY <2>3 DEF Endpoints
    <2> QED BY <2>1, <2>4
  <1>3. [e EXCEPT !.refs = IF @ > 0 THEN @ - 1 ELSE 0] \in Endpoints
    BY DEF Endpoints
  <1>4. Dropped(e) \in Endpoints
    BY <1>1, <1>3 DEF Dropped
  <1> QED BY <1>1, <1>2, <1>4

\* Each operation writes the entry of its id and nothing else.
LEMMA PutOps ==
  ASSUME NEW v \in Worlds, NEW s \in Sides, NEW id \in Ids
  PROVE  /\ v.ep[s][id] \in Endpoints
         /\ MaybeEraseEndpoint(v, s, id) = Put(v, s, id, Erased(v.ep[s][id]))
         /\ DropEndpointHandle(v, s, id) = Put(v, s, id, Dropped(v.ep[s][id]))
         /\ [v EXCEPT !.ep[s][id].client = "none"] = Put(v, s, id, Unbound(v.ep[s][id]))
         /\ DetachEndpointClient(v, s, id) = Put(v, s, id, Erased(Unbound(v.ep[s][id])))
         /\ RetainEndpoint(v, s, id) = Put(v, s, id, Retained(v.ep[s][id]))
  <1>0. \A x \in Worlds : x.ep[s][id] \in Endpoints
    BY Fields
  <1>1. ASSUME NEW x \in Worlds
        PROVE  MaybeEraseEndpoint(x, s, id) = Put(x, s, id, Erased(x.ep[s][id]))
    <2> DEFINE e == x.ep[s][id]
    <2>1. CASE e.live /\ e.refs = 0 /\ e.client = "none" /\ e.queue = <<>>
      BY <2>1 DEF MaybeEraseEndpoint, Put, Erased
    <2>2. CASE ~(e.live /\ e.refs = 0 /\ e.client = "none" /\ e.queue = <<>>)
      <3>1. MaybeEraseEndpoint(x, s, id) = x
        BY <2>2 DEF MaybeEraseEndpoint
      <3>2. Erased(e) = e
        BY <2>2 DEF Erased
      <3>3. Put(x, s, id, x.ep[s][id]) = x
        BY <1>0, PutFacts
      <3> QED BY <3>1, <3>2, <3>3
    <2> QED BY <2>1, <2>2
  <1>2. DropEndpointHandle(v, s, id) = Put(v, s, id, Dropped(v.ep[s][id]))
    <2> DEFINE e == v.ep[s][id]
               d == [e EXCEPT !.refs = IF @ > 0 THEN @ - 1 ELSE 0]
    <2>1. CASE ~e.live
      <3>1. DropEndpointHandle(v, s, id) = v /\ Dropped(e) = e
        BY <2>1 DEF DropEndpointHandle, Dropped
      <3>2. Put(v, s, id, v.ep[s][id]) = v
        BY <1>0, PutFacts
      <3> QED BY <3>1, <3>2
    <2>2. CASE e.live
      <3>1. DropEndpointHandle(v, s, id) = MaybeEraseEndpoint(Put(v, s, id, d), s, id)
        BY <2>2 DEF DropEndpointHandle, Put
      <3>2. Dropped(e) = Erased(d)
        BY <2>2 DEF Dropped
      <3>3. d \in Endpoints
        BY <1>0 DEF Endpoints
      <3> HIDE DEF d
      <3>4. Put(v, s, id, d) \in Worlds /\ Put(v, s, id, d).ep[s][id] = d
            /\ \A f : Put(Put(v, s, id, d), s, id, f) = Put(v, s, id, f)
        BY <3>3, PutFacts
      <3> QED BY <3>1, <3>2, <3>4, <1>1
    <2> QED BY <2>1, <2>2
  <1>3. [v EXCEPT !.ep[s][id].client = "none"] = Put(v, s, id, Unbound(v.ep[s][id]))
    BY DEF Put, Unbound
  <1>4. DetachEndpointClient(v, s, id) = Put(v, s, id, Erased(Unbound(v.ep[s][id])))
    <2> DEFINE d == Unbound(v.ep[s][id])
    <2>1. DetachEndpointClient(v, s, id) = MaybeEraseEndpoint(Put(v, s, id, d), s, id)
      BY <1>3 DEF DetachEndpointClient
    <2>2. d \in Endpoints
      BY <1>0, EntryTypes
    <2> HIDE DEF d
    <2>3. Put(v, s, id, d) \in Worlds /\ Put(v, s, id, d).ep[s][id] = d
          /\ \A f : Put(Put(v, s, id, d), s, id, f) = Put(v, s, id, f)
      BY <2>2, PutFacts
    <2>4. DetachEndpointClient(v, s, id) = Put(v, s, id, Erased(d))
      BY <2>1, <2>3, <1>1
    <2> QED BY <2>4 DEF d
  <1>5. RetainEndpoint(v, s, id) = Put(v, s, id, Retained(v.ep[s][id]))
    <2> DEFINE e == v.ep[s][id]
               d == [e EXCEPT !.live = TRUE]
               y == Put(v, s, id, d)
    <2>1. RetainEndpoint(v, s, id) = [y EXCEPT !.ep[s][id].refs = e.refs + 1]
      BY DEF RetainEndpoint, Put
    <2>2. d \in Endpoints /\ Retained(e) = [d EXCEPT !.refs = e.refs + 1]
      <3>1. e \in Endpoints
        BY <1>0
      <3> HIDE DEF e
      <3> QED BY <3>1 DEF Endpoints, Retained
    <2> HIDE DEF d
    <2>3. y.ep[s][id] = d /\ \A f : Put(y, s, id, f) = Put(v, s, id, f)
      BY <2>2, PutFacts
    <2>4. [y EXCEPT !.ep[s][id].refs = e.refs + 1]
            = Put(y, s, id, [y.ep[s][id] EXCEPT !.refs = e.refs + 1])
      BY DEF Put
    <2> HIDE DEF y
    <2> QED BY <2>1, <2>2, <2>3, <2>4
  <1> QED BY <1>0, <1>1, <1>2, <1>3, <1>4, <1>5

\* Writing an entry and a handle.
PutHandle(v, s, id, e, role, h) == [Put(v, s, id, e) EXCEPT !.ends[id][role] = h]

\* Such a world is well typed, and nothing but the entry and the handle changed.
LEMMA PutHandleFacts ==
  ASSUME NEW v \in Worlds, NEW s \in Sides, NEW id \in Ids, NEW e \in Endpoints,
         NEW role \in Roles, NEW h \in Halves,
         NEW u, u = PutHandle(v, s, id, e, role, h)
  PROVE  /\ u \in Worlds /\ Aside(v, u)
         /\ Wrote(v, u, s, id, e) /\ Redirected(v, u, id, role, h)
  <1> DEFINE p == [v.ep EXCEPT ![s] = [v.ep[s] EXCEPT ![id] = e]]
             n == [v.ends EXCEPT ![id] = [v.ends[id] EXCEPT ![role] = h]]
             x == Put(v, s, id, e)
  <1>1. p \in [Sides -> [Ids -> Endpoints]] /\ n \in [Ids -> [Roles -> Halves]]
    BY Fields
  <1>2. x = [v EXCEPT !.ep = p] /\ x.ends = v.ends
    <2>1. x = [v EXCEPT !.ep = p]
      BY DEF Put
    <2>2. x.ends = v.ends
      BY PutFacts
    <2> QED BY <2>1, <2>2
  <1>3. u = [x EXCEPT !.ends = n]
    BY <1>2 DEF PutHandle
  <1>4. \A t \in Sides, j \in Ids : p[t][j] = IF t = s /\ j = id THEN e ELSE v.ep[t][j]
    BY Fields
  <1>5. \A j \in Ids, r \in Roles : n[j][r] = IF j = id /\ r = role THEN h ELSE v.ends[j][r]
    BY Fields
  <1> HIDE DEF p, n, x
  <1>6. u \in Worlds /\ u.ep = p /\ u.ends = n /\ Aside(v, u)
    BY <1>1, <1>2, <1>3, ZenonT(40) DEF Worlds, Aside
  <1> QED BY <1>4, <1>5, <1>6 DEF Wrote, Redirected

\* The order of the two writings does not matter.
LEMMA PutHandleOrder ==
  ASSUME NEW v \in Worlds, NEW s \in Sides, NEW id \in Ids, NEW e \in Endpoints,
         NEW role \in Roles, NEW h \in Halves
  PROVE  Put([v EXCEPT !.ends[id][role] = h], s, id, e) = PutHandle(v, s, id, e, role, h)
  <1> DEFINE p == [v.ep EXCEPT ![s] = [v.ep[s] EXCEPT ![id] = e]]
             n == [v.ends EXCEPT ![id] = [v.ends[id] EXCEPT ![role] = h]]
             x == Put(v, s, id, e)
             y == [v EXCEPT !.ends = n]
  <1>1. x = [v EXCEPT !.ep = p] /\ x.ends = v.ends
    <2>1. x = [v EXCEPT !.ep = p]
      BY DEF Put
    <2>2. x.ends = v.ends
      BY PutFacts
    <2> QED BY <2>1, <2>2
  <1>2. PutHandle(v, s, id, e, role, h) = [x EXCEPT !.ends = n]
    BY <1>1 DEF PutHandle
  <1>3. [v EXCEPT !.ends[id][role] = h] = y /\ y.ep = v.ep
    BY DEF Worlds
  <1>4. Put([v EXCEPT !.ends[id][role] = h], s, id, e) = [y EXCEPT !.ep = p]
    BY <1>3 DEF Put
  <1>5. y = [v EXCEPT !.ends = n]
    OBVIOUS
  <1> HIDE DEF p, n, x, y
  <1>6. [y EXCEPT !.ep = p] = [x EXCEPT !.ends = n]
    BY <1>1, <1>5 DEF Worlds
  <1> QED BY <1>2, <1>4, <1>6

\* What a side knows of a handle that it holds.
LEMMA HeldEntry ==
  ASSUME NEW v \in Worlds, NEW s \in Sides, NEW id \in Ids, NEW role \in Roles,
         Exact(v), v.ends[id][role].at = s
  PROVE  /\ v.ep[s][id] \in Endpoints /\ v.ep[s][id].live /\ v.ep[s][id].refs > 0
         /\ ~v.ends[id][role].bound => v.ep[s][id].client # role
  <1>1. Handles(v, s, id) > 0
    <2>1. Holding(v, s, id, role) = 1
      BY DEF Holding
    <2>2. Holding(v, s, id, "remote") \in {0, 1} /\ Holding(v, s, id, "receiver") \in {0, 1}
      BY DEF Holding
    <2> QED BY <2>1, <2>2 DEF Handles, Roles
  <1>2. v.ep[s][id].refs > 0 /\ v.ep[s][id].live
    BY <1>1 DEF Exact, EntryExact
  <1>3. v.ep[s][id].client # "none" => v.ends[id][v.ep[s][id].client].bound
    BY Zenon DEF Exact, EntryExact
  <1>4. role # "none"
    BY DEF Roles
  <1> QED BY <1>2, <1>3, <1>4, PutOps

\* A handle that is put into a message.
LEMMA HandOverGood ==
  ASSUME NEW v \in Worlds, NEW s \in Sides, NEW id \in Ids, NEW role \in Roles, NEW st,
         Good(v, st), v.ends[id][role] = Held(s)
  PROVE  LET u == [DropEndpointHandle(v, s, id) EXCEPT
                     !.ends[id][role] = [Gone EXCEPT !.at = "wire"]] IN
         /\ Good(u, st) /\ u \in Worlds /\ Aside(v, u)
         /\ u.ends[id][role].at = "wire"
         /\ \A t \in Sides : \A i \in DOMAIN u.wire[t] :
              ~(Carrier(u.wire[t][i]) /\ u.wire[t][i].id = id /\ u.wire[t][i].role = role)
  <1> DEFINE h == [Gone EXCEPT !.at = "wire"]
             e == v.ep[s][id]
             f == Dropped(e)
  <1>0. PICK u : u = PutHandle(v, s, id, f, role, h)
    OBVIOUS
  <1>1. h \in Halves /\ h.at = "wire" /\ ~h.bound /\ ~h.told
    BY DEF Gone, Halves
  <1>2. v.ends[id][role].at = s /\ ~v.ends[id][role].bound
    BY DEF Held
  <1>3. e \in Endpoints /\ e.live /\ e.refs > 0 /\ e.client # role
    BY <1>2, HeldEntry DEF Good, Sound
  <1> HIDE DEF h
  <1>4. f \in Endpoints /\ Thinned(e, f, e.client)
    BY <1>3, DroppedThins
  <1>5. DropEndpointHandle(v, s, id) = Put(v, s, id, f)
    BY PutOps
  <1> HIDE DEF f
  <1>6. /\ u \in Worlds /\ Aside(v, u)
        /\ Wrote(v, u, s, id, f) /\ Redirected(v, u, id, role, h)
    BY <1>0, <1>1, <1>4, PutHandleFacts
  <1>7. [DropEndpointHandle(v, s, id) EXCEPT !.ends[id][role] = [Gone EXCEPT !.at = "wire"]] = u
    BY <1>0, <1>5 DEF PutHandle, h
  <1>8. Good(u, st)
    <2>1. PICK c : c = e.client
      OBVIOUS
    <2>2. Thinned(v.ep[s][id], f, c) /\ c \in {v.ep[s][id].client, "none"} /\ c # role
      BY <1>3, <1>4, <2>1
    <2> QED BY <1>1, <1>2, <1>6, <2>2, ThinGood
  <1>9. ASSUME NEW t \in Sides, NEW i \in DOMAIN u.wire[t]
        PROVE  ~(Carrier(u.wire[t][i]) /\ u.wire[t][i].id = id /\ u.wire[t][i].role = role)
    <2>1. Carried(v, u.wire[t][i])
      BY <1>6 DEF Good, Sound, Carriage, Aside
    <2> QED BY <2>1, <1>2, Zenon DEF Carried, Sides
  <1>10. u.ends[id][role].at = "wire"
    BY <1>1, <1>6 DEF Redirected
  <1> QED BY <1>6, <1>7, <1>8, <1>9, <1>10

\* CreateLocalEndpointHandle, for the handle that a message carried.
LEMMA CreateGood ==
  ASSUME NEW v \in Worlds, NEW s \in Sides, NEW id \in Ids, NEW role \in Roles, NEW st,
         Good(v, st), v.ends[id][role].at = "wire",
         \A t \in Sides : \A i \in DOMAIN v.wire[t] :
           ~(Carrier(v.wire[t][i]) /\ v.wire[t][i].id = id /\ v.wire[t][i].role = role)
  PROVE  Good(CreateLocalEndpointHandle(v, s, id, role), st)
  <1> DEFINE h == Held(s)
             e == v.ep[s][id]
             f == Retained(e)
  <1>0. PICK u : u = PutHandle(v, s, id, f, role, h)
    OBVIOUS
  <1>1. h \in Halves /\ h.at = s /\ ~h.bound /\ ~h.told
    BY DEF Held, Halves
  <1>2. e \in Endpoints /\ RetainEndpoint(v, s, id) = Put(v, s, id, f)
    BY PutOps
  <1>3. /\ f \in Endpoints /\ f.live /\ f.refs = e.refs + 1 /\ f.client = e.client
        /\ f.queue = e.queue /\ f.handler = e.handler
    <2>1. f \in Endpoints
      BY <1>2, EntryTypes
    <2> HIDE DEF e
    <2>2. f = [e EXCEPT !.live = TRUE, !.refs = e.refs + 1]
      BY DEF Retained
    <2> HIDE DEF f
    <2> QED BY <1>2, <2>1, <2>2 DEF Endpoints
  <1>4. CreateLocalEndpointHandle(v, s, id, role) = u
    BY <1>0, <1>2 DEF CreateLocalEndpointHandle, PutHandle
  <1> HIDE DEF h, f
  <1>6. /\ u \in Worlds /\ Aside(v, u)
        /\ Wrote(v, u, s, id, f) /\ Redirected(v, u, id, role, h)
    BY <1>0, <1>1, <1>3, PutHandleFacts
  <1>8. Good(u, st)
    BY <1>1, <1>3, <1>6, GainGood
  <1> QED BY <1>4, <1>8

\* The half of an interface that is reset.
LooseHalf(h) == [h EXCEPT !.at = "none", !.bound = FALSE]
IsLoose(v, x, id, role) ==
  x = [v EXCEPT !.ends[id][role].at = "none", !.ends[id][role].bound = FALSE]

\* A reset half is at no side and has no binding; the table and the wires stay.
LEMMA LooseHalfFacts ==
  ASSUME NEW v \in Worlds, NEW id \in Ids, NEW role \in Roles,
         NEW x, IsLoose(v, x, id, role), NEW h, h = LooseHalf(v.ends[id][role])
  PROVE  /\ h \in Halves /\ h.at = "none" /\ ~h.bound /\ h.told = v.ends[id][role].told
         /\ x \in Worlds /\ x.ep = v.ep /\ x.conn = v.conn /\ x.wire = v.wire
         /\ \A s \in Sides, g \in Endpoints : Put(x, s, id, g) = PutHandle(v, s, id, g, role, h)
  <1> DEFINE g == v.ends[id][role]
             d == [g EXCEPT !.at = "none"]
             o == [v.ends EXCEPT ![id] = [v.ends[id] EXCEPT ![role] = d]]
             n == [v.ends EXCEPT ![id] = [v.ends[id] EXCEPT ![role] = h]]
             y == [v EXCEPT !.ends = o]
  <1>1. g \in Halves
    BY Fields
  <1> HIDE DEF g
  <1>2. /\ h \in Halves /\ h.at = "none" /\ ~h.bound /\ h.told = g.told
        /\ h = [d EXCEPT !.bound = FALSE]
    BY <1>1 DEF LooseHalf, Halves, g
  <1>3. v.ends \in [Ids -> [Roles -> Halves]]
    BY Fields
  <1>4. y.ends = o /\ o[id] = [v.ends[id] EXCEPT ![role] = d] /\ o[id][role] = d
    BY <1>3, ZenonT(40) DEF Worlds
  <1>5. x = [y EXCEPT !.ends[id][role].bound = FALSE]
    BY DEF g, IsLoose
  <1>6. x = [y EXCEPT !.ends = [y.ends EXCEPT ![id] = [y.ends[id] EXCEPT
                                  ![role] = [y.ends[id][role] EXCEPT !.bound = FALSE]]]]
    BY <1>5
  <1> HIDE DEF d
  <1>7. [y.ends EXCEPT ![id] = [y.ends[id] EXCEPT
                          ![role] = [y.ends[id][role] EXCEPT !.bound = FALSE]]] = n
    <2>1. [y.ends[id][role] EXCEPT !.bound = FALSE] = h
      BY <1>2, <1>4
    <2>2. [y.ends[id] EXCEPT ![role] = h] = [v.ends[id] EXCEPT ![role] = h]
      BY <1>3, <1>4
    <2>3. [o EXCEPT ![id] = [v.ends[id] EXCEPT ![role] = h]] = n
      BY <1>3
    <2> HIDE DEF y, o, n
    <2> QED BY <2>1, <2>2, <2>3, <1>4
  <1>8. x = [y EXCEPT !.ends = n]
    BY <1>6, <1>7
  <1>9. n \in [Ids -> [Roles -> Halves]]
    BY <1>2, <1>3
  <1>10. [v EXCEPT !.ends[id][role] = h] = [v EXCEPT !.ends = n]
    OBVIOUS
  <1>11. y = [v EXCEPT !.ends = o]
    OBVIOUS
  <1> HIDE DEF n, o, y
  <1>12. x = [v EXCEPT !.ends = n]
    BY <1>8, <1>11 DEF Worlds
  <1>13. x \in Worlds
    BY <1>9, <1>12 DEF Worlds
  <1>14. x.ep = v.ep /\ x.conn = v.conn /\ x.wire = v.wire
    BY <1>12 DEF Worlds
  <1>15. x = [v EXCEPT !.ends[id][role] = h]
    BY <1>10, <1>12
  <1>16. ASSUME NEW s \in Sides, NEW e \in Endpoints
         PROVE  Put(x, s, id, e) = PutHandle(v, s, id, e, role, h)
    <2>1. ASSUME NEW k \in Halves
          PROVE  Put([v EXCEPT !.ends[id][role] = k], s, id, e) = PutHandle(v, s, id, e, role, k)
      BY PutHandleOrder
    <2>2. Put([v EXCEPT !.ends[id][role] = h], s, id, e) = PutHandle(v, s, id, e, role, h)
      BY <1>2, <2>1
    <2> QED BY <2>2, <1>15
  <1> QED BY <1>2, <1>13, <1>14, <1>16 DEF g

\* The notification that a closed endpoint sends is true when it is sent.
LEMMA NotifyFits ==
  ASSUME NEW v \in Worlds, NEW u \in Worlds, Fresh(v), Truthful(v), Aside(v, u),
         NEW s \in Sides, NEW id \in Ids, NEW role \in Roles,
         v.ends[id][role].at = s, u.ends[id][role].at = "none",
         u.ep[Other(s)][id] = v.ep[Other(s)][id],
         NEW m, m = Msg("closed", id, "none", 0, 0)
  PROVE  m \in Messages /\ m.kind # "call" /\ Fitting(u, s, m) /\ Answerable(u, m)
  <1>1. m \in Messages /\ m.kind = "closed" /\ m.id = id
    <2>1. "closed" \in Kinds /\ "none" \in Clients
      BY DEF Kinds, Clients
    <2> QED BY <2>1, MsgType DEF Msg
  <1>2. Minted(u, id) /\ id # NoId
    <2>1. v.ends[id][role] # Gone
      BY DEF Gone, Sides
    <2>2. Minted(v, id)
      BY <2>1 DEF Fresh
    <2> QED BY <2>2, IdsArePositive DEF Aside, Minted
  <1>3. Announced(u, Other(s), m)
    <2> DEFINE q == v.ep[Other(s)][id].handler
    <2>1. Other(s) \in Sides /\ Other(s) # s
      BY Pairs
    <2>2. v.ep[Other(s)][id] \in Endpoints
      BY <2>1, Fields
    <2>3. q \in Roles \cup {"none"}
      BY <2>2 DEF Endpoints, Clients
    <2>4. q # "none" => v.ends[id][q].at \in {Other(s), "none"}
      BY <2>1, Zenon DEF Truthful
    <2>5. q # "none" => q # role
      BY <2>1, <2>4 DEF Sides
    <2>6. q # "none" => Partner(q) = role
      BY <2>3, <2>5, Pairs
    <2>7. q # "none" => u.ends[id][Partner(q)].at = "none"
      BY <2>6
    <2>8. u.ep[Other(s)][id].handler = q
      OBVIOUS
    <2> HIDE DEF q
    <2> QED BY <1>1, <1>2, <2>7, <2>8, Zenon DEF Announced
  <1>4. ~Carrier(m) /\ ~Asking(m)
    BY <1>1 DEF Carrier, Asking
  <1> QED BY <1>1, <1>3, <1>4 DEF Fitting, Answerable, Carried, Apart, Expected, Different

\* A half that is reset is a handle less on its side.
LEMMA LooseThins ==
  ASSUME NEW v \in Worlds, NEW u \in Worlds, NEW st, Good(v, st), Aside(v, u),
         NEW s \in Sides, NEW id \in Ids, NEW role \in Roles,
         NEW f, NEW h \in Halves, NEW client,
         Wrote(v, u, s, id, f), Redirected(v, u, id, role, h),
         v.ends[id][role].at = s, h.at = "none", ~h.bound,
         h.told => v.ends[id][role].told,
         h.at = "wire" => ~v.ends[id][role].bound,
         Thinned(v.ep[s][id], f, client),
         client \in {v.ep[s][id].client, "none"}, client # role
  PROVE  Good(u, st)
  BY ThinGood

\* Whatever the order of the calls in a reset, the entry counts one handle
\* less, the other side is told, and the router goes with its last handle.
LEMMA LooseGood ==
  ASSUME NEW v \in Worlds, NEW s \in Sides, NEW id \in Ids, NEW role \in Roles, NEW st,
         Good(v, st), v.ends[id][role].at = s, v.drain[s].id = NoId,
         NEW h \in Halves, h.at = "none", ~h.bound, h.told => v.ends[id][role].told,
         NEW x \in Worlds, x.ep = v.ep, x.conn = v.conn, x.wire = v.wire,
         \A g \in Endpoints : Put(x, s, id, g) = PutHandle(v, s, id, g, role, h)
  PROVE  /\ Good(ReleaseRouter(CloseEndpoint(x, s, id), s), st)
         /\ Good(ReleaseRouter(CloseEndpoint(DetachEndpointClient(x, s, id), s, id), s), st)
         /\ Good(ReleaseRouter(DropEndpointHandle(DetachEndpointClient(
                   NotifyPeerEndpointClosed(x, s, id), s, id), s, id), s), st)
  <1> DEFINE e == v.ep[s][id]
             f == Dropped(Unbound(e))
             m == Msg("closed", id, "none", 0, 0)
  <1>1. /\ h \in Halves /\ h.at = "none" /\ ~h.bound
        /\ h.told => v.ends[id][role].told
        /\ x \in Worlds /\ x.ep = v.ep /\ x.conn = v.conn /\ x.wire = v.wire
    OBVIOUS
  <1>2. e \in Endpoints /\ e.live /\ e.refs > 0
    BY HeldEntry DEF Good, Sound
  <1>3. /\ f \in Endpoints /\ Thinned(e, f, "none")
        /\ Unbound(e) \in Endpoints /\ Erased(Unbound(e)) = Unbound(e)
        /\ Unbound(Unbound(e)) = Unbound(e)
    BY <1>2, DroppedThins
  <1>4. PICK u : u = PutHandle(v, s, id, f, role, h)
    OBVIOUS
  <1>5. u = Put(x, s, id, f)
    BY <1>3, <1>4
  <1>m. PICK n : n = m
    OBVIOUS
  <1> HIDE DEF f, m
  <1>6. /\ u \in Worlds /\ Aside(v, u)
        /\ Wrote(v, u, s, id, f) /\ Redirected(v, u, id, role, h)
    BY <1>1, <1>3, <1>4, PutHandleFacts
  <1>7. Good(u, st)
    <2>1. PICK c : c = "none"
      OBVIOUS
    <2>2. /\ Thinned(v.ep[s][id], f, c) /\ c \in {v.ep[s][id].client, "none"} /\ c # role
          /\ h.at = "wire" => ~v.ends[id][role].bound
      BY <1>1, <1>3, <2>1 DEF Roles
    <2> HIDE DEF e
    <2> QED BY <1>1, <1>6, <2>2, LooseThins
  <1>8. m \in Messages /\ m.kind # "call" /\ Fitting(u, s, m) /\ Answerable(u, m)
    <2>1. Other(s) \in Sides /\ Other(s) # s
      BY Pairs
    <2>2. u.ends[id][role].at = "none" /\ u.ep[Other(s)][id] = v.ep[Other(s)][id]
      BY <1>1, <1>6, <2>1 DEF Wrote, Redirected
    <2>3. n = Msg("closed", id, "none", 0, 0)
      BY <1>m DEF m
    <2>4. Fresh(v) /\ Truthful(v)
      BY DEF Good, Sound
    <2>5. n \in Messages /\ n.kind # "call" /\ Fitting(u, s, n) /\ Answerable(u, n)
      BY <1>6, <2>2, <2>3, <2>4, NotifyFits
    <2> QED BY <2>5, <1>m
  <1>9. Good(ReleaseRouter(Send(u, s, m), s), st)
    <2>1. Silent(u)
      BY <1>7 DEF Good, Sound
    <2>2. Send(u, s, m) \in Worlds /\ Kept(u, Send(u, s, m))
      BY <1>6, <1>8, <2>1, SendEffect
    <2>3. Good(Send(u, s, m), st)
      BY <1>6, <1>7, <1>8, SendGood
    <2>4. Send(u, s, m).drain[s].id = NoId
      BY <2>2, <1>6 DEF Kept, Aside
    <2> QED BY <2>2, <2>3, <2>4, ReleaseGood
  <1>10. ASSUME NEW y \in Worlds, Silent(y), y.ep[s][id] \in {e, Unbound(e)},
                Put(y, s, id, f) = u
         PROVE  CloseEndpoint(y, s, id) = Send(u, s, m)
    <2> DEFINE z == Send(y, s, m)
               a == Unbound(e)
               b == Put(z, s, id, a)
    <2>1. z \in Worlds /\ z.ep = y.ep
      BY <1>8, <1>10, SendEffect DEF Kept
    <2>2. Unbound(z.ep[s][id]) = a
      BY <1>3, <1>10, <2>1
    <2>3. z = NotifyPeerEndpointClosed(y, s, id)
      BY DEF NotifyPeerEndpointClosed, m
    <2> HIDE DEF z, a
    <2>4. [z EXCEPT !.ep[s][id].client = "none"] = b
      <3>1. [z EXCEPT !.ep[s][id].client = "none"] = Put(z, s, id, Unbound(z.ep[s][id]))
        BY <2>1, PutOps
      <3> QED BY <3>1, <2>2
    <2>5. a \in Endpoints
      BY <1>3 DEF a
    <2>6. b \in Worlds /\ b.ep[s][id] = a /\ \A g : Put(b, s, id, g) = Put(z, s, id, g)
      BY <2>1, <2>5, PutFacts
    <2>7. CloseEndpoint(y, s, id) = DropEndpointHandle(b, s, id)
      BY <2>3, <2>4 DEF CloseEndpoint
    <2> HIDE DEF b
    <2>8. DropEndpointHandle(b, s, id) = Put(b, s, id, Dropped(b.ep[s][id]))
      BY <2>6, PutOps, ZenonT(40)
    <2>9. Dropped(a) = f
      BY DEF a, f
    <2>10. CloseEndpoint(y, s, id) = Put(z, s, id, f)
      BY <2>6, <2>7, <2>8, <2>9
    <2>11. Send(Put(y, s, id, f), s, m) = Put(Send(y, s, m), s, id, f)
      BY <1>3, <1>8, <1>10, SendPut
    <2> QED BY <2>10, <2>11, <1>10 DEF z
  <1>11. Silent(x)
    BY <1>1 DEF Good, Sound, Silent
  <1>12. CloseEndpoint(x, s, id) = Send(u, s, m)
    BY <1>1, <1>5, <1>10, <1>11
  <1>13. PICK d : d = DetachEndpointClient(x, s, id)
    OBVIOUS
  <1>14. d = Put(x, s, id, Unbound(e))
    <2>1. d = Put(x, s, id, Erased(Unbound(x.ep[s][id])))
      BY <1>1, <1>13, PutOps
    <2> QED BY <2>1, <1>1, <1>3
  <1>15. /\ d \in Worlds /\ d.ep[s][id] = Unbound(e) /\ d.conn = x.conn /\ d.wire = x.wire
         /\ \A g : Put(d, s, id, g) = Put(x, s, id, g)
    BY <1>1, <1>3, <1>14, PutFacts
  <1>16. CloseEndpoint(d, s, id) = Send(u, s, m)
    <2>1. Silent(d)
      BY <1>11, <1>15 DEF Silent
    <2>2. Put(d, s, id, f) = u
      BY <1>5, <1>15
    <2> QED BY <2>1, <2>2, <1>10, <1>15
  <1>17. DropEndpointHandle(DetachEndpointClient(NotifyPeerEndpointClosed(x, s, id), s, id), s, id)
           = Send(u, s, m)
    <2> DEFINE z == Send(x, s, m)
               a == Unbound(e)
               b == Put(z, s, id, a)
    <2>1. z \in Worlds /\ z.ep = v.ep
      BY <1>1, <1>8, <1>11, SendEffect DEF Kept
    <2>2. z = NotifyPeerEndpointClosed(x, s, id)
      BY DEF NotifyPeerEndpointClosed, m
    <2> HIDE DEF z, a
    <2>3. DetachEndpointClient(z, s, id) = b
      <3>1. DetachEndpointClient(z, s, id) = Put(z, s, id, Erased(Unbound(z.ep[s][id])))
        BY <2>1, PutOps, ZenonT(40)
      <3>2. Erased(Unbound(z.ep[s][id])) = a
        BY <1>3, <2>1 DEF a
      <3> QED BY <3>1, <3>2
    <2>5. a \in Endpoints
      BY <1>3 DEF a
    <2>6. b \in Worlds /\ b.ep[s][id] = a /\ \A g : Put(b, s, id, g) = Put(z, s, id, g)
      BY <2>1, <2>5, PutFacts
    <2> HIDE DEF b
    <2>8. DropEndpointHandle(b, s, id) = Put(b, s, id, Dropped(b.ep[s][id]))
      BY <2>6, PutOps, Zenon
    <2>9. Dropped(a) = f
      BY DEF a, f
    <2>10. DropEndpointHandle(b, s, id) = Put(z, s, id, f)
      BY <2>6, <2>8, <2>9
    <2>11. Send(Put(x, s, id, f), s, m) = Put(Send(x, s, m), s, id, f)
      BY <1>1, <1>3, <1>8, SendPut
    <2>12. Put(Send(x, s, m), s, id, f) = Put(z, s, id, f)
      BY DEF z
    <2> QED BY <2>2, <2>3, <2>10, <2>11, <2>12, <1>5
  <1> QED BY <1>9, <1>12, <1>13, <1>16, <1>17

\* reset() and reset_with_reason() of an associated object.
LEMMA ResetAssociatedGood ==
  ASSUME NEW v \in Worlds, NEW s \in Sides, NEW id \in Ids, NEW role \in Roles, NEW st,
         Good(v, st), v.ends[id][role].at = s, v.drain[s].id = NoId,
         NEW x, IsLoose(v, x, id, role)
  PROVE  /\ Good(ReleaseRouter(CloseEndpoint(x, s, id), s), st)
         /\ Good(ReleaseRouter(CloseEndpoint(DetachEndpointClient(x, s, id), s, id), s), st)
         /\ Good(ReleaseRouter(DropEndpointHandle(DetachEndpointClient(
                   NotifyPeerEndpointClosed(x, s, id), s, id), s, id), s), st)
  <1>1. PICK h : h = LooseHalf(v.ends[id][role])
    OBVIOUS
  <1>2. /\ h \in Halves /\ h.at = "none" /\ ~h.bound /\ h.told = v.ends[id][role].told
        /\ x \in Worlds /\ x.ep = v.ep /\ x.conn = v.conn /\ x.wire = v.wire
        /\ \A g \in Endpoints : Put(x, s, id, g) = PutHandle(v, s, id, g, role, h)
    BY <1>1, LooseHalfFacts
  <1> QED BY <1>2, LooseGood

-----------------------------------------------------------------------------
(* Reading.                                                                *)

\* The wires once side s has read a message.
Popped(v, x, s) ==
  /\ Kept(v, x) /\ x.conn = v.conn
  /\ x.wire[s] = Tail(v.wire[s]) /\ x.wire[Other(s)] = v.wire[Other(s)]

\* Reading takes the message off its wire and changes nothing else.
LEMMA PopEffect ==
  ASSUME NEW v \in Worlds, NEW s \in Sides, v.wire[s] # <<>>
  PROVE  LET x == [v EXCEPT !.wire[s] = Tail(@)] IN
         x \in Worlds /\ Popped(v, x, s)
  <1> DEFINE q == Tail(v.wire[s])
             n == [v.wire EXCEPT ![s] = q]
  <1>1. v.wire \in [Sides -> Seq(Messages)]
    BY Fields
  <1>2. q \in Seq(Messages)
    BY <1>1, TailAt
  <1>3. n \in [Sides -> Seq(Messages)] /\ n[s] = q /\ n[Other(s)] = v.wire[Other(s)]
    BY <1>1, <1>2, Pairs
  <1> HIDE DEF n
  <1>4. PICK x : x = [v EXCEPT !.wire = n]
    OBVIOUS
  <1>5. x \in Worlds /\ x.wire = n /\ x.conn = v.conn /\ Kept(v, x)
    BY <1>3, <1>4 DEF Worlds, Kept
  <1>6. Popped(v, x, s)
    BY <1>3, <1>5 DEF Popped
  <1>7. x = [v EXCEPT !.wire[s] = Tail(@)]
    BY <1>4 DEF n
  <1> QED BY <1>5, <1>6, <1>7

\* What is left on a wire was there before, one place further on.
LEMMA PoppedAt ==
  ASSUME NEW v \in Worlds, NEW x \in Worlds, NEW s \in Sides, v.wire[s] # <<>>,
         Popped(v, x, s), NEW t \in Sides, NEW i \in DOMAIN x.wire[t]
  PROVE  \E j \in DOMAIN v.wire[t] :
           /\ x.wire[t][i] = v.wire[t][j]
           /\ j = IF t = s THEN i + 1 ELSE i
           /\ t # s \/ j # 1
  <1>1. v.wire[s] \in Seq(Messages)
    BY Fields
  <1>2. CASE t = s
    <2>1. i \in DOMAIN Tail(v.wire[s])
      BY <1>2 DEF Popped
    <2>2. i + 1 \in DOMAIN v.wire[s] /\ Tail(v.wire[s])[i] = v.wire[s][i + 1]
      BY <1>1, <2>1, TailAt
    <2>3. i \in Nat /\ i >= 1
      BY PositionOf, Fields
    <2>4. i + 1 # 1
      BY <2>3
    <2>5. x.wire[t][i] = v.wire[t][i + 1] /\ i + 1 \in DOMAIN v.wire[t]
      BY <2>2, <1>2 DEF Popped
    <2> QED BY <2>4, <2>5, <1>2
  <1>3. CASE t # s
    <2>1. t = Other(s)
      BY <1>3, Pairs
    <2>2. x.wire[t] = v.wire[t]
      BY <2>1 DEF Popped
    <2> QED BY <2>2, <1>3
  <1> QED BY <1>2, <1>3

\* Two places of the wires stay apart.
LEMMA PoppedApart ==
  ASSUME NEW v \in Worlds, NEW x \in Worlds, NEW s \in Sides, v.wire[s] # <<>>,
         Popped(v, x, s), NEW t \in Sides, NEW i \in DOMAIN x.wire[t],
         NEW u \in Sides, NEW j \in DOMAIN x.wire[u], t # u \/ i # j
  PROVE  \E k \in DOMAIN v.wire[t], l \in DOMAIN v.wire[u] :
           /\ x.wire[t][i] = v.wire[t][k] /\ x.wire[u][j] = v.wire[u][l]
           /\ t # u \/ k # l
  <1>0. i \in Nat /\ j \in Nat
    BY PositionOf, Fields
  <1>1. PICK k \in DOMAIN v.wire[t] :
          x.wire[t][i] = v.wire[t][k] /\ k = IF t = s THEN i + 1 ELSE i
    BY PoppedAt
  <1>2. PICK l \in DOMAIN v.wire[u] :
          x.wire[u][j] = v.wire[u][l] /\ l = IF u = s THEN j + 1 ELSE j
    BY PoppedAt
  <1>3. t = u => k # l
    <2>1. CASE t = s
      BY <2>1, <1>0, <1>1, <1>2
    <2>2. CASE t # s
      BY <2>2, <1>0, <1>1, <1>2
    <2> QED BY <2>1, <2>2
  <1> QED BY <1>1, <1>2, <1>3

\* The message that is read is not one that is left.
LEMMA PoppedHead ==
  ASSUME NEW v \in Worlds, NEW x \in Worlds, NEW s \in Sides, v.wire[s] # <<>>,
         Popped(v, x, s), NEW t \in Sides, NEW i \in DOMAIN x.wire[t]
  PROVE  /\ 1 \in DOMAIN v.wire[s] /\ Head(v.wire[s]) = v.wire[s][1]
         /\ Head(v.wire[s]) \in Messages
         /\ \E j \in DOMAIN v.wire[t] : x.wire[t][i] = v.wire[t][j] /\ (t # s \/ j # 1)
  <1>1. v.wire[s] \in Seq(Messages)
    BY Fields
  <1>2. 1 \in DOMAIN v.wire[s] /\ Head(v.wire[s]) = v.wire[s][1] /\ Head(v.wire[s]) \in Messages
    BY <1>1, TailAt
  <1>3. \E j \in DOMAIN v.wire[t] : x.wire[t][i] = v.wire[t][j] /\ (t # s \/ j # 1)
    BY PoppedAt
  <1> QED BY <1>2, <1>3

\* Reading keeps what is known of endpoints, handles and messages, and the
\* message that is read is as true as it was on the wire.
LEMMA PoppedSound ==
  ASSUME NEW v \in Worlds, NEW x \in Worlds, NEW s \in Sides, v.wire[s] # <<>>,
         Popped(v, x, s), Sound(v), NEW m, m = Head(v.wire[s])
  PROVE  /\ Sound(x) /\ m \in Messages
         /\ Carried(x, m) /\ Announced(x, s, m)
         /\ \A t \in Sides : \A i \in DOMAIN x.wire[t] : Apart(x.wire[t][i], m)
  <1>1. Kept(v, x) /\ x.conn = v.conn
    BY DEF Popped
  <1>2. 1 \in DOMAIN v.wire[s] /\ m = v.wire[s][1] /\ m \in Messages
    BY Fields, TailAt
  <1>3. Silent(x)
    <2>1. ASSUME NEW t \in Sides, x.conn[t] # "open" PROVE x.wire[t] = <<>>
      <3>1. v.wire[t] = <<>>
        BY <2>1, <1>1 DEF Sound, Silent
      <3>2. t = Other(s)
        BY <3>1, Pairs
      <3> QED BY <3>1, <3>2 DEF Popped
    <2> QED BY <2>1 DEF Silent
  <1>4. Exact(x) /\ Fresh(x)
    BY <1>1, ExactPosted DEF Sound
  <1>5. Carriage(x)
    <2>1. ASSUME NEW t \in Sides, NEW i \in DOMAIN x.wire[t]
          PROVE  Carried(x, x.wire[t][i])
      <3>1. PICK j \in DOMAIN v.wire[t] : x.wire[t][i] = v.wire[t][j]
        BY PoppedAt
      <3>2. Carried(v, v.wire[t][j])
        BY DEF Sound, Carriage
      <3> QED BY <3>1, <3>2, <1>1, Zenon DEF Carried, Kept
    <2>2. ASSUME NEW t \in Sides, NEW u \in Sides,
                 NEW i \in DOMAIN x.wire[t], NEW j \in DOMAIN x.wire[u], t # u \/ i # j
          PROVE  Apart(x.wire[t][i], x.wire[u][j])
      <3>1. PICK k \in DOMAIN v.wire[t], l \in DOMAIN v.wire[u] :
              /\ x.wire[t][i] = v.wire[t][k] /\ x.wire[u][j] = v.wire[u][l]
              /\ t # u \/ k # l
        BY <2>2, PoppedApart
      <3>2. Apart(v.wire[t][k], v.wire[u][l])
        BY <3>1 DEF Sound, Carriage
      <3> QED BY <3>1, <3>2
    <2> QED BY <2>1, <2>2 DEF Carriage
  <1>6. \A t \in Sides, n \in Messages : Announced(v, t, n) => Announced(x, t, n)
    BY <1>1, Zenon DEF Announced, Kept, Minted
  <1>7. Truthful(x)
    <2>1. ASSUME NEW t \in Sides, NEW i \in DOMAIN x.wire[t]
          PROVE  Announced(x, t, x.wire[t][i])
      <3>1. PICK j \in DOMAIN v.wire[t] : x.wire[t][i] = v.wire[t][j]
        BY PoppedAt
      <3>2. Announced(v, t, v.wire[t][j])
        BY Zenon DEF Sound, Truthful
      <3>3. v.wire[t][j] \in Messages
        BY Fields, PositionOf
      <3> QED BY <3>1, <3>2, <3>3, <1>6
    <2>2. /\ \A t \in Sides, id \in Ids : x.ep[t][id].handler # "none" =>
               /\ Minted(x, id)
               /\ x.ends[id][x.ep[t][id].handler].at \in {t, "none"}
               /\ x.ends[id][x.ep[t][id].handler].at = t =>
                    x.ends[id][x.ep[t][id].handler].bound
          /\ \A id \in Ids, r \in Roles :
               x.ends[id][r].told => x.ends[id][Partner(r)].at = "none"
      <3>1. x.ep = v.ep /\ x.ends = v.ends /\ x.next = v.next
        BY <1>1 DEF Kept
      <3>2. \A id \in Ids : Minted(v, id) => Minted(x, id)
        BY <3>1 DEF Minted
      <3>3. ASSUME NEW t \in Sides, NEW id \in Ids, x.ep[t][id].handler # "none"
            PROVE  /\ Minted(x, id)
                   /\ x.ends[id][x.ep[t][id].handler].at \in {t, "none"}
                   /\ x.ends[id][x.ep[t][id].handler].at = t =>
                        x.ends[id][x.ep[t][id].handler].bound
        <4>1. /\ Minted(v, id)
              /\ v.ends[id][v.ep[t][id].handler].at \in {t, "none"}
              /\ v.ends[id][v.ep[t][id].handler].at = t =>
                   v.ends[id][v.ep[t][id].handler].bound
          <5>1. v.ep[t][id].handler # "none" /\ Truthful(v)
            BY <3>1, <3>3 DEF Sound
          <5> QED BY <5>1, HandlerAt, Zenon
        <4> QED BY <4>1, <3>1, <3>2, Zenon
      <3>4. ASSUME NEW id \in Ids, NEW r \in Roles, x.ends[id][r].told
            PROVE  x.ends[id][Partner(r)].at = "none"
        <4>1. v.ends[id][r].told /\ Truthful(v)
          BY <3>1, <3>4 DEF Sound
        <4>2. v.ends[id][Partner(r)].at = "none"
          BY <4>1, ToldAt, Zenon
        <4> QED BY <4>2, <3>1, Zenon
      <3> QED BY <3>3, <3>4, Zenon
    <2> QED BY <2>1, <2>2, Zenon DEF Truthful
  <1>8. Carried(x, m) /\ Announced(x, s, m)
    <2>1. Carried(v, m)
      BY <1>2 DEF Sound, Carriage
    <2>2. Announced(v, s, m)
      BY <1>2, Zenon DEF Sound, Truthful
    <2>3. Carried(x, m)
      BY <2>1, <1>1, Zenon DEF Carried, Kept
    <2> QED BY <2>2, <2>3, <1>2, <1>6
  <1>9. ASSUME NEW t \in Sides, NEW i \in DOMAIN x.wire[t]
        PROVE  Apart(x.wire[t][i], m)
    <2>1. PICK j \in DOMAIN v.wire[t] : x.wire[t][i] = v.wire[t][j] /\ (t # s \/ j # 1)
      BY PoppedHead
    <2>2. Apart(v.wire[t][j], v.wire[s][1])
      BY <2>1, <1>2 DEF Sound, Carriage
    <2> QED BY <2>1, <2>2, <1>2
  <1> QED BY <1>2, <1>3, <1>4, <1>5, <1>7, <1>8, <1>9 DEF Sound

\* A request or answer that is read is still expected, and no other is like it.
LEMMA PoppedAnswering ==
  ASSUME NEW v \in Worlds, NEW x \in Worlds, NEW s \in Sides, v.wire[s] # <<>>,
         Popped(v, x, s), Answering(v), NEW m, m = Head(v.wire[s])
  PROVE  Answering(x) /\ Answerable(x, m)
  <1>1. Kept(v, x)
    BY DEF Popped
  <1>2. 1 \in DOMAIN v.wire[s] /\ m = v.wire[s][1] /\ m \in Messages
    BY Fields, TailAt
  <1>3. \A n : Expected(v, n) => Expected(x, n)
    BY <1>1 DEF Expected, Kept
  <1>4. ASSUME NEW t \in Sides, NEW i \in DOMAIN x.wire[t]
        PROVE  Expected(x, x.wire[t][i])
    <2>1. PICK j \in DOMAIN v.wire[t] : x.wire[t][i] = v.wire[t][j]
      BY PoppedAt
    <2>2. Expected(v, v.wire[t][j])
      BY DEF Answering
    <2> QED BY <2>1, <2>2, <1>3
  <1>5. ASSUME NEW t \in Sides, NEW u \in Sides,
               NEW i \in DOMAIN x.wire[t], NEW j \in DOMAIN x.wire[u], t # u \/ i # j
        PROVE  Different(x.wire[t][i], x.wire[u][j])
    <2>1. PICK k \in DOMAIN v.wire[t], l \in DOMAIN v.wire[u] :
            /\ x.wire[t][i] = v.wire[t][k] /\ x.wire[u][j] = v.wire[u][l]
            /\ t # u \/ k # l
      BY <1>5, PoppedApart
    <2>2. Different(v.wire[t][k], v.wire[u][l])
      BY <2>1 DEF Answering
    <2> QED BY <2>1, <2>2
  <1>6. Expected(x, m)
    BY <1>2, <1>3 DEF Answering
  <1>7. ASSUME NEW t \in Sides, NEW i \in DOMAIN x.wire[t]
        PROVE  Different(x.wire[t][i], m)
    <2>1. PICK j \in DOMAIN v.wire[t] : x.wire[t][i] = v.wire[t][j] /\ (t # s \/ j # 1)
      BY PoppedHead
    <2>2. Different(v.wire[t][j], v.wire[s][1])
      BY <2>1, <1>2 DEF Answering
    <2> QED BY <2>1, <2>2, <1>2
  <1>8. /\ \A q, p \in x.pending : q.rid = p.rid => q = p
        /\ \A q \in x.pending : q.rid < x.nextReq
        /\ x.prim["A"] => x.asked \subseteq x.pending
        /\ ~x.prim["A"] => x.pending = {}
        /\ \A i \in DOMAIN x.answers : x.answers[i].call = x.answers[i].to
    BY <1>1 DEF Answering, Kept
  <1> QED BY <1>4, <1>5, <1>6, <1>7, <1>8 DEF Answering, Answerable

\* No call joins a line when a message is read, and a call that was first on
\* the wire is known.
LEMMA PoppedLined ==
  ASSUME NEW v \in Worlds, NEW x \in Worlds, NEW s \in Sides, v.wire[s] # <<>>,
         Popped(v, x, s), Lined(v), NEW m, m = Head(v.wire[s])
  PROVE  /\ Lined(x)
         /\ m.kind = "call" => m.id # NoId /\ m.n <= v.sent[m.id]
  <1>1. Kept(v, x)
    BY DEF Popped
  <1>2. 1 \in DOMAIN v.wire[s] /\ m = v.wire[s][1] /\ m \in Messages
    BY Fields, TailAt
  <1>3. ASSUME NEW t \in Sides, NEW id \in Ids, Waiting(x, t, id)
        PROVE  Waiting(v, t, id)
    <2>1. CASE x.drain[t].id = id \/ x.ep[t][id].queue # <<>>
      BY <2>1, <1>1 DEF Kept, Waiting
    <2>2. ASSUME NEW i \in DOMAIN x.wire[t], IsCall(x.wire[t][i], id)
          PROVE  Waiting(v, t, id)
      <3>1. PICK j \in DOMAIN v.wire[t] : x.wire[t][i] = v.wire[t][j]
        BY PoppedAt
      <3> QED BY <3>1, <2>2 DEF Waiting
    <2> QED BY <1>3, <2>1, <2>2 DEF Waiting
  <1>4. ASSUME NEW t \in Sides, NEW i \in DOMAIN x.wire[t], x.wire[t][i].kind = "call"
        PROVE  x.wire[t][i].id # NoId /\ x.wire[t][i].n <= x.sent[x.wire[t][i].id]
    <2>1. PICK j \in DOMAIN v.wire[t] : x.wire[t][i] = v.wire[t][j]
      BY PoppedAt
    <2> QED BY <2>1, <1>1, <1>4 DEF Lined, Kept
  <1>5. ASSUME NEW t \in Sides, NEW id \in Ids
        PROVE  /\ x.drain[t].id = id => x.drain[t].rest # <<>> /\ x.ep[t][id].queue = <<>>
               /\ x.ep[t][id].queue # <<>> => x.ep[t][id].client = "none"
               /\ Base(x, t, id) <= x.sent[id]
    <2>1. /\ x.drain = v.drain /\ x.ep = v.ep /\ x.sent = v.sent
          /\ Base(x, t, id) = Base(v, t, id)
      BY <1>1 DEF Kept, Base, Drained
    <2> QED BY <2>1 DEF Lined
  <1>6. ASSUME NEW t \in Sides, NEW id \in Ids
        PROVE  /\ Waiting(x, t, id) => x.ends[id]["remote"].at \in {Other(t), "none"}
               /\ ~(Waiting(x, t, id) /\ Waiting(x, Other(t), id))
    <2>1. /\ Waiting(v, t, id) => v.ends[id]["remote"].at \in {Other(t), "none"}
          /\ ~(Waiting(v, t, id) /\ Waiting(v, Other(t), id))
      BY DEF Lined
    <2>2. Other(t) \in Sides
      BY Pairs
    <2> QED BY <2>1, <2>2, <1>1, <1>3 DEF Kept
  <1>7. \A id \in Ids :
          /\ x.ends[id]["remote"].at # "none"
          /\ x.ends[id]["remote"].bound => x.ends[id]["remote"].at = "wire"
          => x.sent[id] = 0
    BY <1>1 DEF Lined, Kept
  <1>8. m.kind = "call" => m.id # NoId /\ m.n <= v.sent[m.id]
    BY <1>2 DEF Lined
  <1> QED BY <1>4, <1>5, <1>6, <1>7, <1>8 DEF Lined

\* What is not read is left.
LEMMA PoppedLeft ==
  ASSUME NEW v \in Worlds, NEW x \in Worlds, NEW s \in Sides, v.wire[s] # <<>>,
         Popped(v, x, s), NEW t \in Sides, NEW j \in DOMAIN v.wire[t], t # s \/ j # 1
  PROVE  \E i \in DOMAIN x.wire[t] : x.wire[t][i] = v.wire[t][j]
  <1>1. CASE t # s
    <2>1. x.wire[t] = v.wire[t]
      BY <1>1, Pairs DEF Popped
    <2> QED BY <2>1
  <1>2. CASE t = s
    <2>1. v.wire[s] \in Seq(Messages) /\ j \in DOMAIN v.wire[s]
      BY <1>2, Fields
    <2>2. j \in 1 .. Len(v.wire[s]) /\ Len(v.wire[s]) \in Nat
          /\ DOMAIN Tail(v.wire[s]) = 1 .. Len(v.wire[s]) - 1
      BY <2>1, TailAt
    <2>3. j - 1 \in DOMAIN Tail(v.wire[s]) /\ (j - 1) + 1 = j
      BY <2>2, <1>2
    <2>4. Tail(v.wire[s])[j - 1] = v.wire[s][j]
      BY <2>1, <2>3, TailAt
    <2>5. x.wire[t] = Tail(v.wire[s])
      BY <1>2 DEF Popped
    <2> QED BY <2>3, <2>4, <2>5, <1>2
  <1> QED BY <1>1, <1>2

\* The calls of an interface that are left are in the order they were in.
LEMMA PoppedRising ==
  ASSUME NEW v \in Worlds, NEW x \in Worlds, NEW s \in Sides, v.wire[s] # <<>>,
         Popped(v, x, s), NEW t \in Sides, NEW id \in Ids, Rising(v, t, id)
  PROVE  Rising(x, t, id)
  <1> SUFFICES ASSUME NEW i \in DOMAIN x.wire[t], NEW j \in DOMAIN x.wire[t], i < j,
                      IsCall(x.wire[t][i], id), IsCall(x.wire[t][j], id)
               PROVE  x.wire[t][i].n < x.wire[t][j].n
    BY DEF Rising
  <1>0. i \in Nat /\ j \in Nat
    BY PositionOf, Fields
  <1>1. PICK k \in DOMAIN v.wire[t] :
          x.wire[t][i] = v.wire[t][k] /\ k = IF t = s THEN i + 1 ELSE i
    BY PoppedAt
  <1>2. PICK l \in DOMAIN v.wire[t] :
          x.wire[t][j] = v.wire[t][l] /\ l = IF t = s THEN j + 1 ELSE j
    BY PoppedAt
  <1>3. k < l
    BY <1>0, <1>1, <1>2
  <1> QED BY <1>1, <1>2, <1>3 DEF Rising

\* Reading a message that is no call leaves every line as it was.
LEMMA PoppedInOrder ==
  ASSUME NEW v \in Worlds, NEW x \in Worlds, NEW s \in Sides, v.wire[s] # <<>>,
         Popped(v, x, s), InOrder(v), Head(v.wire[s]).kind # "call"
  PROVE  InOrder(x)
  <1>0. Kept(v, x) /\ x.conn = v.conn
    BY DEF Popped
  <1>1. 1 \in DOMAIN v.wire[s] /\ Head(v.wire[s]) = v.wire[s][1]
    BY Fields, TailAt
  <1> SUFFICES ASSUME NEW t \in Sides, NEW id \in Ids
               PROVE  Rising(x, t, id) /\ Gapless(x, t, id) /\ Complete(x, t, id)
    <2>1. x.got = v.got /\ \A t \in Sides, id \in Ids : Queued(v, t, id) => Queued(x, t, id)
      BY <1>0, ZenonT(40) DEF Kept, Queued, Drained
    <2> QED BY <2>1 DEF InOrder
  <1>2. /\ Rising(v, t, id) /\ Gapless(v, t, id) /\ Complete(v, t, id)
        /\ Base(x, t, id) = Base(v, t, id) /\ x.sent[id] = v.sent[id]
        /\ x.ends[id] = v.ends[id]
    BY <1>0 DEF InOrder, Kept, Base, Drained
  <1>3. ASSUME NEW k, Known(v, t, id, k) PROVE Known(x, t, id, k)
    <2>1. PICK j \in DOMAIN v.wire[t] : IsCall(v.wire[t][j], id) /\ v.wire[t][j].n = k
      BY <1>3 DEF Known
    <2>2. t # s \/ j # 1
      BY <2>1, <1>1 DEF IsCall
    <2>3. \E i \in DOMAIN x.wire[t] : x.wire[t][i] = v.wire[t][j]
      BY <2>2, PoppedLeft
    <2> QED BY <2>1, <2>3 DEF Known
  <1>4. Rising(x, t, id)
    BY <1>2, PoppedRising
  <1>5. Gapless(x, t, id)
    <2> SUFFICES ASSUME NEW i \in DOMAIN x.wire[t], IsCall(x.wire[t][i], id)
                 PROVE  /\ x.wire[t][i].n > Base(x, t, id)
                        /\ \A k \in Nat : k > Base(x, t, id) /\ k < x.wire[t][i].n
                                            => Known(x, t, id, k)
      BY DEF Gapless
    <2>1. PICK j \in DOMAIN v.wire[t] : x.wire[t][i] = v.wire[t][j]
      BY PoppedAt
    <2> QED BY <2>1, <1>2, <1>3 DEF Gapless
  <1>6. Complete(x, t, id)
    BY <1>0, <1>2, <1>3 DEF Complete
  <1> QED BY <1>4, <1>5, <1>6

\* The first call of a line is the next one, the line stands at one side, and
\* the others on the wire follow it.
LEMMA NextCall ==
  ASSUME NEW v \in Worlds, NEW s \in Sides, v.wire[s] # <<>>, Lined(v), InOrder(v),
         NEW m, m = Head(v.wire[s]), NEW id \in Ids, IsCall(m, id)
  PROVE  /\ m \in Messages /\ m.n = Base(v, s, id) + 1 /\ m.n <= v.sent[id]
         /\ 1 \in DOMAIN v.wire[s] /\ m = v.wire[s][1]
         /\ Waiting(v, s, id) /\ ~Waiting(v, Other(s), id)
         /\ v.ends[id]["remote"].at \in {Other(s), "none"}
         /\ \A j \in DOMAIN v.wire[s] :
              j # 1 /\ IsCall(v.wire[s][j], id) => v.wire[s][j].n > m.n
  <1>1. 1 \in DOMAIN v.wire[s] /\ m = v.wire[s][1] /\ m \in Messages
    BY Fields, TailAt
  <1>2. Waiting(v, s, id)
    BY <1>1 DEF Waiting
  <1>3. ~Waiting(v, Other(s), id) /\ v.ends[id]["remote"].at \in {Other(s), "none"}
    BY <1>2 DEF Lined
  <1>4. m.n \in Nat /\ m.id = id /\ m.kind = "call"
    BY <1>1 DEF Messages, IsCall
  <1>5. m.n <= v.sent[id]
    BY <1>1, <1>4 DEF Lined
  <1>6. ASSUME NEW j \in DOMAIN v.wire[s], j # 1, IsCall(v.wire[s][j], id)
        PROVE  v.wire[s][j].n > m.n
    <2>1. j \in Nat /\ j >= 1
      BY PositionOf, Fields
    <2>2. 1 < j
      BY <2>1, <1>6
    <2>3. v.wire[s][1].n < v.wire[s][j].n
      BY <2>2, <1>1, <1>6 DEF InOrder, Rising
    <2>4. v.wire[s][j] \in Messages
      BY PositionOf, Fields
    <2>5. v.wire[s][j].n \in Nat
      BY <2>4 DEF Messages
    <2> QED BY <2>3, <2>5, <1>1, <1>4
  <1>7. m.n = Base(v, s, id) + 1
    <2>0. PICK b \in Nat : b = Base(v, s, id)
      BY LineLengths
    <2>1. m.n > b
      BY <1>1, <2>0 DEF InOrder, Gapless
    <2>2. CASE m.n > b + 1
      <3>1. Known(v, s, id, b + 1)
        BY <2>0, <2>2, <1>1 DEF InOrder, Gapless
      <3>2. PICK j \in DOMAIN v.wire[s] : IsCall(v.wire[s][j], id) /\ v.wire[s][j].n = b + 1
        BY <3>1 DEF Known
      <3>3. j # 1
        BY <3>2, <2>2, <1>1, <1>4
      <3> QED BY <3>2, <3>3, <2>2, <1>4, <1>6
    <2> QED BY <2>0, <2>1, <2>2, <1>4
  <1> QED BY <1>1, <1>2, <1>3, <1>5, <1>6, <1>7

\* A call that is read moves up its line, to the endpoint's queue or to the
\* object.
LEMMA CallMoves ==
  ASSUME NEW v \in Worlds, NEW x \in Worlds, NEW s \in Sides, v.wire[s] # <<>>,
         Popped(v, x, s), Lined(v), InOrder(v), NEW id \in Ids,
         IsCall(Head(v.wire[s]), id),
         NEW u \in Worlds, u.conn = v.conn, u.wire = x.wire, u.ends = v.ends,
         u.drain = v.drain, u.sent = v.sent,
         \A t \in Sides, j \in Ids : t # s \/ j # id => u.ep[t][j] = v.ep[t][j],
         \A j \in Ids : j # id => u.got[j] = v.got[j],
         u.drain[s].id # id,
         u.ep[s][id].queue # <<>> => u.ep[s][id].client = "none",
         Base(u, s, id) = Base(v, s, id) + 1, Len(u.got[id]) <= Base(u, s, id),
         Queued(u, s, id), \A i \in DOMAIN u.got[id] : u.got[id][i] = i
  PROVE  Lined(u) /\ InOrder(u)
  <1>0. PICK m : m = Head(v.wire[s])
    OBVIOUS
  <1>1. /\ m \in Messages /\ m.n = Base(v, s, id) + 1 /\ m.n <= v.sent[id]
        /\ 1 \in DOMAIN v.wire[s] /\ m = v.wire[s][1]
        /\ Waiting(v, s, id) /\ ~Waiting(v, Other(s), id)
        /\ v.ends[id]["remote"].at \in {Other(s), "none"}
        /\ \A j \in DOMAIN v.wire[s] :
             j # 1 /\ IsCall(v.wire[s][j], id) => v.wire[s][j].n > m.n
    BY <1>0, NextCall
  <1>2. IsCall(m, id)
    BY <1>0
  <1>3. ASSUME NEW t \in Sides, NEW i \in DOMAIN u.wire[t]
        PROVE  \E j \in DOMAIN v.wire[t] : u.wire[t][i] = v.wire[t][j] /\ (t # s \/ j # 1)
    BY PoppedAt
  <1>4. ASSUME NEW t \in Sides, NEW j \in Ids, t # s \/ j # id, Waiting(u, t, j)
        PROVE  Waiting(v, t, j)
    <2>1. CASE u.drain[t].id = j \/ u.ep[t][j].queue # <<>>
      BY <2>1, <1>4 DEF Waiting
    <2>2. ASSUME NEW i \in DOMAIN u.wire[t], IsCall(u.wire[t][i], j)
          PROVE  Waiting(v, t, j)
      BY <2>2, <1>3 DEF Waiting
    <2> QED BY <1>4, <2>1, <2>2 DEF Waiting
  <1>5. ASSUME NEW t \in Sides, NEW j \in Ids, Waiting(u, t, j) PROVE Waiting(v, t, j)
    BY <1>1, <1>4, <1>5
  <1>6. ASSUME NEW t \in Sides, NEW j \in Ids, j # id
        PROVE  Base(u, t, j) = Base(v, t, j) /\ Drained(u, t, j) = Drained(v, t, j)
    BY <1>6 DEF Base, Drained
  <1>7. Other(s) \in Sides /\ Other(s) # s /\ \A t \in Sides : t = s \/ t = Other(s)
    BY Pairs
  <1>8. Base(u, Other(s), id) = Len(u.got[id])
    <2>1. v.drain[Other(s)].id # id /\ v.ep[Other(s)][id].queue = <<>>
      BY <1>1 DEF Waiting
    <2>2. Drained(u, Other(s), id) = 0 /\ Len(u.ep[Other(s)][id].queue) = 0
      BY <2>1, <1>7 DEF Drained
    <2> QED BY <2>2, <1>7, LineLengths DEF Base
  <1>9. ASSUME NEW t \in Sides, NEW j \in Ids
        PROVE  /\ u.drain[t].id = j => u.drain[t].rest # <<>> /\ u.ep[t][j].queue = <<>>
               /\ u.ep[t][j].queue # <<>> => u.ep[t][j].client = "none"
               /\ Base(u, t, j) <= u.sent[j]
    <2>0. /\ v.drain[t].id = j => v.drain[t].rest # <<>> /\ v.ep[t][j].queue = <<>>
          /\ v.ep[t][j].queue # <<>> => v.ep[t][j].client = "none"
          /\ Base(v, t, j) <= v.sent[j]
      BY DEF Lined
    <2>1. CASE j # id
      BY <2>0, <2>1, <1>6
    <2>2. CASE j = id /\ t = s
      BY <2>0, <2>2, <1>1
    <2>3. CASE j = id /\ t = Other(s)
      <3>1. Base(u, t, j) <= u.sent[j]
        <4>1. PICK a \in Nat, b \in Nat, n \in Nat :
                a = Len(u.got[id]) /\ b = Base(u, s, id) /\ n = v.sent[id]
          BY LineLengths
        <4>2. a <= b /\ b <= n
          BY <4>1, <1>1
        <4>3. Base(u, t, j) = a /\ u.sent[j] = n
          BY <2>3, <4>1, <1>8
        <4> QED BY <4>2, <4>3
      <3>2. u.ep[t][j] = v.ep[t][j]
        BY <2>3, <1>7
      <3> QED BY <2>0, <3>1, <3>2
    <2> QED BY <2>1, <2>2, <2>3, <1>7
  <1>10. ASSUME NEW t \in Sides, NEW j \in Ids
         PROVE  /\ Waiting(u, t, j) => u.ends[j]["remote"].at \in {Other(t), "none"}
                /\ ~(Waiting(u, t, j) /\ Waiting(u, Other(t), j))
    <2>1. /\ Waiting(v, t, j) => v.ends[j]["remote"].at \in {Other(t), "none"}
          /\ ~(Waiting(v, t, j) /\ Waiting(v, Other(t), j))
      BY DEF Lined
    <2> QED BY <2>1, <1>5, Pairs
  <1>11. ASSUME NEW t \in Sides, NEW i \in DOMAIN u.wire[t], u.wire[t][i].kind = "call"
         PROVE  u.wire[t][i].id # NoId /\ u.wire[t][i].n <= u.sent[u.wire[t][i].id]
    BY <1>3, <1>11 DEF Lined
  <1>12. \A j \in Ids :
           /\ u.ends[j]["remote"].at # "none"
           /\ u.ends[j]["remote"].bound => u.ends[j]["remote"].at = "wire"
           => u.sent[j] = 0
    BY DEF Lined
  <1>13. Lined(u)
    BY <1>9, <1>10, <1>11, <1>12 DEF Lined
  <1>14. ASSUME NEW t \in Sides, NEW j \in Ids
         PROVE  Rising(u, t, j)
    <2>1. Rising(x, t, j)
      BY PoppedRising DEF InOrder
    <2> QED BY <2>1 DEF Rising
  <1>15. ASSUME NEW t \in Sides, NEW j \in Ids, NEW k, Known(v, t, j, k),
                t # s \/ j # id \/ k # m.n
         PROVE  Known(u, t, j, k)
    <2>1. PICK p \in DOMAIN v.wire[t] : IsCall(v.wire[t][p], j) /\ v.wire[t][p].n = k
      BY <1>15 DEF Known
    <2>2. t # s \/ p # 1
      BY <2>1, <1>1, <1>2, <1>15 DEF IsCall
    <2>3. \E i \in DOMAIN x.wire[t] : x.wire[t][i] = v.wire[t][p]
      BY <2>2, PoppedLeft
    <2> QED BY <2>1, <2>3 DEF Known
  <1>16. ASSUME NEW t \in Sides, NEW j \in Ids
         PROVE  Gapless(u, t, j) /\ Complete(u, t, j) /\ Queued(u, t, j)
    <2>0. Gapless(v, t, j) /\ Complete(v, t, j) /\ Queued(v, t, j)
      BY DEF InOrder
    <2>1. CASE j # id
      <3>1. Queued(u, t, j)
        BY <2>0, <2>1, <1>6, ZenonT(40) DEF Queued
      <3>2. Gapless(u, t, j)
        <4> SUFFICES ASSUME NEW i \in DOMAIN u.wire[t], IsCall(u.wire[t][i], j)
                     PROVE  /\ u.wire[t][i].n > Base(u, t, j)
                            /\ \A k \in Nat : k > Base(u, t, j) /\ k < u.wire[t][i].n
                                                => Known(u, t, j, k)
          BY DEF Gapless
        <4>1. PICK p \in DOMAIN v.wire[t] : u.wire[t][i] = v.wire[t][p]
          BY <1>3
        <4> QED BY <4>1, <2>0, <2>1, <1>6, <1>15 DEF Gapless
      <3>3. Complete(u, t, j)
        BY <2>0, <2>1, <1>6, <1>15 DEF Complete
      <3> QED BY <3>1, <3>2, <3>3
    <2>2. CASE j = id /\ t = s
      <3>0. PICK b \in Nat : b = Base(v, s, id) /\ Base(u, s, id) = b + 1 /\ m.n = b + 1
        BY <1>1, LineLengths
      <3>1. Gapless(u, s, id)
        <4> SUFFICES ASSUME NEW i \in DOMAIN u.wire[s], IsCall(u.wire[s][i], id)
                     PROVE  /\ u.wire[s][i].n > b + 1
                            /\ \A k \in Nat : k > b + 1 /\ k < u.wire[s][i].n
                                                => Known(u, s, id, k)
          BY <3>0 DEF Gapless
        <4>1. PICK p \in DOMAIN v.wire[s] : u.wire[s][i] = v.wire[s][p] /\ p # 1
          BY <1>3
        <4>2. u.wire[s][i].n > b + 1
          BY <4>1, <3>0, <1>1
        <4>3. ASSUME NEW k \in Nat, k > b + 1, k < u.wire[s][i].n
              PROVE  Known(u, s, id, k)
          <5>1. k > b /\ k # b + 1
            BY <4>3
          <5>2. Known(v, s, id, k)
            BY <5>1, <4>1, <4>3, <2>0, <2>2, <3>0 DEF Gapless
          <5> QED BY <5>1, <5>2, <3>0, <1>15
        <4> QED BY <4>2, <4>3
      <3>2. Complete(u, s, id)
        <4> SUFFICES ASSUME u.conn[s] = "open", u.ends[id]["remote"].at = Other(s),
                            u.ends[id]["remote"].bound,
                            NEW k \in Nat, k > b + 1, k <= u.sent[id]
                     PROVE  Known(u, s, id, k)
          BY <3>0 DEF Complete
        <4>1. k > b /\ k # b + 1
          OBVIOUS
        <4>2. Known(v, s, id, k)
          BY <4>1, <2>0, <2>2, <3>0 DEF Complete
        <4> QED BY <4>1, <4>2, <3>0, <1>15
      <3> QED BY <3>1, <3>2, <2>2
    <2>3. CASE j = id /\ t = Other(s)
      <3>1. \A i \in DOMAIN u.wire[t] : ~IsCall(u.wire[t][i], id)
        BY <2>3, <1>1, <1>3, <1>7 DEF Waiting
      <3>2. Gapless(u, t, id)
        BY <3>1 DEF Gapless
      <3>3. u.ends[id]["remote"].at # Other(t)
        BY <2>3, <1>1, <1>7, Pairs DEF Sides
      <3>4. Complete(u, t, id)
        BY <3>3 DEF Complete
      <3>5. u.drain[t].id # id /\ u.ep[t][id].queue = <<>>
        BY <2>3, <1>1, <1>7 DEF Waiting
      <3>6. Queued(u, t, id)
        BY <3>5 DEF Queued
      <3> QED BY <3>2, <3>4, <3>6, <2>3
    <2> QED BY <2>1, <2>2, <2>3, <1>7
  <1>17. ASSUME NEW j \in Ids PROVE \A i \in DOMAIN u.got[j] : u.got[j][i] = i
    BY DEF InOrder
  <1> QED BY <1>13, <1>14, <1>16, <1>17 DEF InOrder

-----------------------------------------------------------------------------
(* Steps that write an entry of the table and count no handle.             *)

\* Sound speaks of the pipe, the table and the handles only.
LEMMA SoundSame ==
  ASSUME NEW v \in Worlds, NEW u \in Worlds, Sound(v), u.ep = v.ep, u.next = v.next,
         u.conn = v.conn, u.wire = v.wire, u.ends = v.ends,
         \A id \in Ids : ~Minted(v, id) => u.sent[id] = v.sent[id]
  PROVE  Sound(u)
  <1>0. /\ \A s \in Sides, id \in Ids : Handles(u, s, id) = Handles(v, s, id)
        /\ \A id : Minted(u, id) <=> Minted(v, id)
    BY DEF Handles, Holding, Minted
  <1>1. Silent(u) /\ Exact(u) /\ Fresh(u)
    <2>1. Silent(u)
      BY DEF Sound, Silent
    <2>2. Exact(u)
      <3>1. Exact(v)
        BY DEF Sound
      <3>2. ASSUME NEW s \in Sides, NEW id \in Ids
            PROVE  EntryExact(u, s, id)
        <4>1. /\ u.ep[s][id] = v.ep[s][id] /\ u.ends = v.ends
              /\ Handles(u, s, id) = Handles(v, s, id)
          BY <1>0, Zenon
        <4> QED BY <3>1, <4>1, EntryKept, Zenon
      <3> QED BY <3>2, Zenon DEF Exact
    <2>3. Fresh(u)
      BY <1>0 DEF Sound, Fresh
    <2> QED BY <2>1, <2>2, <2>3
  <1>2. Carriage(u)
    <2>1. \A m : Carried(v, m) => Carried(u, m)
      BY DEF Carried
    <2> QED BY <2>1 DEF Sound, Carriage
  <1>3. Truthful(u)
    <2>1. \A t, m : Announced(v, t, m) => Announced(u, t, m)
      BY <1>0, Zenon DEF Announced
    <2>2. \A t \in Sides : \A i \in DOMAIN u.wire[t] : Announced(u, t, u.wire[t][i])
      BY <2>1, Zenon DEF Sound, Truthful
    <2>3. ASSUME NEW t \in Sides, NEW id \in Ids, u.ep[t][id].handler # "none"
          PROVE  /\ Minted(u, id)
                 /\ u.ends[id][u.ep[t][id].handler].at \in {t, "none"}
                 /\ u.ends[id][u.ep[t][id].handler].at = t =>
                      u.ends[id][u.ep[t][id].handler].bound
      <3>1. /\ Minted(v, id)
            /\ v.ends[id][v.ep[t][id].handler].at \in {t, "none"}
            /\ v.ends[id][v.ep[t][id].handler].at = t =>
                 v.ends[id][v.ep[t][id].handler].bound
        BY <2>3, Zenon DEF Sound, Truthful
      <3> QED BY <3>1, <1>0, Zenon
    <2>4. ASSUME NEW id \in Ids, NEW r \in Roles, u.ends[id][r].told
          PROVE  u.ends[id][Partner(r)].at = "none"
      <3>1. Truthful(v) /\ v.ends[id][r].told
        BY <2>4 DEF Sound
      <3>2. v.ends[id][Partner(r)].at = "none"
        BY <3>1, ToldAt, Zenon
      <3> QED BY <3>2, Zenon
    <2> QED BY <2>2, <2>3, <2>4, Zenon DEF Truthful
  <1> QED BY <1>1, <1>2, <1>3 DEF Sound

\* Answering speaks of requests and answers only.
LEMMA AnsweringSame ==
  ASSUME NEW v, NEW u, Answering(v), u.wire = v.wire, u.prim = v.prim,
         u.pending = v.pending, u.nextReq = v.nextReq, u.asked = v.asked,
         u.answers = v.answers
  PROVE  Answering(u)
  <1>1. \A m : Expected(v, m) => Expected(u, m)
    BY DEF Expected
  <1> QED BY <1>1 DEF Answering

\* The lines of calls are made of wires, tables, loops and Remotes.
LEMMA LinesSame ==
  ASSUME NEW v, NEW u, Lined(v), InOrder(v), u.ep = v.ep, u.wire = v.wire,
         u.conn = v.conn, u.ends = v.ends, u.drain = v.drain, u.sent = v.sent,
         u.got = v.got
  PROVE  Lined(u) /\ InOrder(u)
  <1>1. ASSUME NEW t \in Sides, NEW id \in Ids
        PROVE  /\ Waiting(u, t, id) <=> Waiting(v, t, id)
               /\ Base(u, t, id) = Base(v, t, id) /\ Drained(u, t, id) = Drained(v, t, id)
               /\ \A k : Known(u, t, id, k) <=> Known(v, t, id, k)
    BY DEF Waiting, Base, Drained, Known
  <1>2. Lined(u)
    <2>1. ASSUME NEW t \in Sides, NEW id \in Ids
          PROVE  /\ u.drain[t].id = id => u.drain[t].rest # <<>> /\ u.ep[t][id].queue = <<>>
                 /\ u.ep[t][id].queue # <<>> => u.ep[t][id].client = "none"
                 /\ Base(u, t, id) <= u.sent[id]
                 /\ Waiting(u, t, id) => u.ends[id]["remote"].at \in {Other(t), "none"}
                 /\ ~(Waiting(u, t, id) /\ Waiting(u, Other(t), id))
      BY <1>1, Pairs DEF Lined
    <2> QED BY <2>1 DEF Lined
  <1>3. ASSUME NEW t \in Sides, NEW id \in Ids
        PROVE  Rising(u, t, id) /\ Gapless(u, t, id) /\ Complete(u, t, id) /\ Queued(u, t, id)
    <2>0. Rising(v, t, id) /\ Gapless(v, t, id) /\ Complete(v, t, id) /\ Queued(v, t, id)
      BY DEF InOrder
    <2> QED BY <2>0, <1>1 DEF Rising, Gapless, Complete, Queued
  <1> QED BY <1>2, <1>3 DEF InOrder

\* What is known of an entry f that is written: it counts the same handles,
\* its client is bound, and so is its handler's object unless it is gone.
Steady(v, u) ==
  /\ u.next = v.next /\ u.conn = v.conn /\ u.wire = v.wire /\ u.sent = v.sent
  /\ \A j \in Ids, r \in Roles :
       /\ u.ends[j][r].at = v.ends[j][r].at
       /\ v.ends[j][r].bound => u.ends[j][r].bound
       /\ u.ends[j][r].told => v.ends[j][r].told \/ v.ends[j][Partner(r)].at = "none"
       /\ ~Minted(v, j) => u.ends[j][r] = v.ends[j][r]
Counted(e, f) ==
  /\ f.refs = e.refs
  /\ f.refs > 0 => f.live
  /\ f.live => f.refs > 0 \/ f.client # "none" \/ f.queue # <<>>
Owned(u, s, id, f) ==
  f.client # "none" => u.ends[id][f.client].at = s /\ u.ends[id][f.client].bound
Handled(v, u, s, id, f) ==
  /\ f.handler \in Roles \cup {"none"}
  /\ f.handler = "none" \/ f.handler = v.ep[s][id].handler
       \/ (v.ends[id][f.handler].at = s /\ u.ends[id][f.handler].bound)

\* Rewriting one entry for handles that are at this side keeps the world sound.
LEMMA TableSound ==
  ASSUME NEW v \in Worlds, NEW u \in Worlds, Sound(v), NEW s \in Sides, NEW id \in Ids,
         NEW f, Wrote(v, u, s, id, f), Steady(v, u), Counted(v.ep[s][id], f),
         Owned(u, s, id, f), Handled(v, u, s, id, f)
  PROVE  Sound(u)
  <1>a. u.next = v.next /\ u.conn = v.conn /\ u.wire = v.wire /\ u.sent = v.sent
    BY DEF Steady
  <1>b. ASSUME NEW j \in Ids, NEW r \in Roles
        PROVE  /\ u.ends[j][r].at = v.ends[j][r].at
               /\ v.ends[j][r].bound => u.ends[j][r].bound
               /\ u.ends[j][r].told => v.ends[j][r].told \/ v.ends[j][Partner(r)].at = "none"
               /\ ~Minted(v, j) => u.ends[j][r] = v.ends[j][r]
    BY Zenon DEF Steady
  <1>c. u.ep[s][id] = f
    BY DEF Wrote
  <1>d. ASSUME NEW t \in Sides, NEW j \in Ids, ~(t = s /\ j = id)
        PROVE  u.ep[t][j] = v.ep[t][j]
    BY <1>d DEF Wrote
  <1>e. Exact(v) /\ Fresh(v) /\ Carriage(v) /\ Truthful(v) /\ Silent(v)
    BY DEF Sound
  <1>0. /\ \A j : Minted(u, j) <=> Minted(v, j)
        /\ \A r \in Roles : Partner(r) \in Roles
    BY <1>a, Pairs DEF Minted
  <1>1. ASSUME NEW t \in Sides, NEW j \in Ids PROVE Handles(u, t, j) = Handles(v, t, j)
    BY <1>b DEF Handles, Holding, Roles
  <1>3. Silent(u)
    BY <1>a, <1>e DEF Silent
  <1>4. Exact(u)
    <2> SUFFICES ASSUME NEW t \in Sides, NEW j \in Ids
                 PROVE  EntryExact(u, t, j)
      BY DEF Exact
    <2>1. Handles(u, t, j) = Handles(v, t, j)
      BY <1>1
    <2>2. CASE t = s /\ j = id
      <3>1. u.ep[t][j] = f /\ v.ep[t][j] = v.ep[s][id]
        BY <2>2, <1>c, Zenon
      <3>2. v.ep[t][j].refs = Handles(v, t, j)
        BY <1>e, RefsAt, Zenon
      <3>3. f.refs = v.ep[s][id].refs /\ (f.refs > 0 => f.live)
            /\ (f.live => f.refs > 0 \/ f.client # "none" \/ f.queue # <<>>)
        BY Zenon DEF Counted
      <3>4. f.client # "none" => u.ends[j][f.client].at = t /\ u.ends[j][f.client].bound
        BY <2>2, Zenon DEF Owned
      <3>5. f.refs = Handles(u, t, j)
        BY <3>1, <3>2, <3>3, <2>1, Zenon
      <3> QED BY <3>1, <3>3, <3>4, <3>5, EntryIs, Zenon
    <2>3. CASE ~(t = s /\ j = id)
      <3>1. u.ep[t][j] = v.ep[t][j]
        BY <2>3, <1>d
      <3>2. v.ep[t][j].client \in Roles \cup {"none"}
        BY FieldsAt, Zenon
      <3>3. ASSUME v.ep[t][j].client # "none"
            PROVE  /\ u.ends[j][v.ep[t][j].client].at = v.ends[j][v.ep[t][j].client].at
                   /\ v.ends[j][v.ep[t][j].client].bound => u.ends[j][v.ep[t][j].client].bound
        <4>1. v.ep[t][j].client \in Roles
          BY <3>2, <3>3
        <4> QED BY <4>1, <1>b, Zenon
      <3> QED BY <3>1, <3>3, <2>1, <1>e, EntryKept, Zenon
    <2> QED BY <2>2, <2>3, Zenon
  <1>5. Fresh(u)
    <2>1. ASSUME NEW j \in Ids, ~Minted(u, j)
          PROVE  u.sent[j] = 0 /\ \A r \in Roles : u.ends[j][r] = Gone
      <3>1. ~Minted(v, j)
        BY <2>1, <1>0, Zenon
      <3>2. v.sent[j] = 0 /\ \A r \in Roles : v.ends[j][r] = Gone
        BY <3>1, <1>e, Zenon DEF Fresh
      <3> QED BY <3>1, <3>2, <1>a, <1>b, Zenon
    <2> QED BY <2>1, <1>a, <1>e, Zenon DEF Fresh
  <1>6. Carriage(u)
    <2>1. ASSUME NEW t \in Sides, NEW i \in DOMAIN v.wire[t]
          PROVE  Carried(u, v.wire[t][i])
      <3>1. Carried(v, v.wire[t][i])
        BY <1>e, Zenon DEF Carriage
      <3>2. v.wire[t][i] \in Messages
        BY Fields, PositionOf
      <3>3. PICK m \in Messages : m = v.wire[t][i]
        BY <3>2
      <3>4. m.id \in Ids \cup {NoId}
        BY DEF Messages
      <3>5. ASSUME Carrier(m)
            PROVE  m.id # NoId /\ m.role \in Roles /\ u.ends[m.id][m.role].at = "wire"
        <4>1. m.id # NoId /\ m.role \in Roles /\ v.ends[m.id][m.role].at = "wire"
          BY <3>1, <3>3, <3>5, Zenon DEF Carried
        <4>2. m.id \in Ids
          BY <4>1, <3>4, Zenon
        <4>3. u.ends[m.id][m.role].at = v.ends[m.id][m.role].at
          BY <4>1, <4>2, <1>b, Zenon
        <4> QED BY <4>1, <4>3, Zenon
      <3> QED BY <3>3, <3>5, Zenon DEF Carried
    <2> QED BY <2>1, <1>a, <1>e, Zenon DEF Carriage
  <1>7. ASSUME NEW t \in Sides, NEW j \in Ids, NEW m \in Messages,
               m.kind = "closed", m.id = j, Announced(v, t, m)
        PROVE  Announced(u, t, m)
    <2>1. /\ j # NoId /\ Minted(v, j)
          /\ v.ep[t][j].handler # "none" =>
               v.ends[j][Partner(v.ep[t][j].handler)].at = "none"
      BY <1>7, Zenon DEF Announced
    <2>2. PICK r \in Roles : v.ends[j][r].at = "none"
      BY <1>7, Zenon DEF Announced
    <2>3. u.ends[j][r].at = "none"
      BY <2>2, <1>b, Zenon
    <2>4. ASSUME u.ep[t][j].handler # "none"
          PROVE  u.ends[j][Partner(u.ep[t][j].handler)].at = "none"
      <3>1. CASE u.ep[t][j].handler = v.ep[t][j].handler
        <4>1. v.ep[t][j].handler \in Roles
          BY <2>4, <3>1, FieldsAt
        <4>2. /\ Partner(v.ep[t][j].handler) \in Roles
              /\ v.ends[j][Partner(v.ep[t][j].handler)].at = "none"
          BY <2>1, <2>4, <3>1, <4>1, <1>0, Zenon
        <4>3. PICK q \in Roles : q = Partner(v.ep[t][j].handler)
          BY <4>2
        <4>4. u.ends[j][q].at = v.ends[j][q].at
          BY <1>b, Zenon
        <4> QED BY <3>1, <4>2, <4>3, <4>4, Zenon
      <3>2. CASE u.ep[t][j].handler # v.ep[t][j].handler
        <4>1. t = s /\ j = id
          BY <3>2, <1>d, Zenon
        <4>2. u.ep[t][j].handler = f.handler
          BY <4>1, <1>c, Zenon
        <4>3. f.handler \in Roles /\ v.ends[id][f.handler].at = s
          BY <2>4, <3>2, <4>1, <4>2 DEF Handled
        <4>4. r # f.handler
          BY <2>2, <4>1, <4>3 DEF Sides
        <4>5. r = Partner(f.handler)
          BY <4>3, <4>4, Pairs
        <4> QED BY <4>2, <4>5, <2>3, Zenon
      <3> QED BY <3>1, <3>2, Zenon
    <2>5. \E q \in Roles : u.ends[j][q].at = "none"
      BY <2>3, Zenon
    <2> QED BY <2>1, <2>4, <2>5, <1>0, <1>7, Zenon DEF Announced
  <1>8. Truthful(u)
    <2>1. ASSUME NEW t \in Sides, NEW i \in DOMAIN v.wire[t]
          PROVE  Announced(u, t, v.wire[t][i])
      <3>1. Announced(v, t, v.wire[t][i]) /\ v.wire[t][i] \in Messages
        BY <1>e, AnnouncedAt, Zenon
      <3>2. PICK m \in Messages : m = v.wire[t][i]
        BY <3>1
      <3>3. m.id \in Ids \cup {NoId}
        BY DEF Messages
      <3>4. CASE m.kind # "closed"
        BY <3>2, <3>4, Zenon DEF Announced
      <3>5. CASE m.kind = "closed"
        <4>1. m.id # NoId
          BY <3>1, <3>2, <3>5, Zenon DEF Announced
        <4>2. m.id \in Ids
          BY <4>1, <3>3, Zenon
        <4> QED BY <4>2, <3>1, <3>2, <3>5, <1>7, Zenon
      <3> QED BY <3>4, <3>5, Zenon
    <2>2. ASSUME NEW t \in Sides, NEW j \in Ids, u.ep[t][j].handler # "none"
          PROVE  /\ Minted(u, j)
                 /\ u.ends[j][u.ep[t][j].handler].at \in {t, "none"}
                 /\ u.ends[j][u.ep[t][j].handler].at = t =>
                      u.ends[j][u.ep[t][j].handler].bound
      <3>1. CASE u.ep[t][j].handler = v.ep[t][j].handler
        <4>1. v.ep[t][j].handler # "none"
          BY <2>2, <3>1, Zenon
        <4>2. /\ Minted(v, j)
              /\ v.ends[j][v.ep[t][j].handler].at \in {t, "none"}
              /\ v.ends[j][v.ep[t][j].handler].at = t => v.ends[j][v.ep[t][j].handler].bound
          BY <4>1, <1>e, HandlerAt, Zenon
        <4>3. PICK c \in Roles : c = v.ep[t][j].handler
          BY <4>1, FieldsAt
        <4>4. u.ends[j][c].at = v.ends[j][c].at /\ (v.ends[j][c].bound => u.ends[j][c].bound)
          BY <1>b, Zenon
        <4>5. /\ u.ends[j][c].at \in {t, "none"}
              /\ u.ends[j][c].at = t => u.ends[j][c].bound
          BY <4>2, <4>3, <4>4, Zenon
        <4>6. Minted(u, j)
          BY <4>2, <1>0, Zenon
        <4> QED BY <3>1, <4>3, <4>5, <4>6, Zenon
      <3>2. CASE u.ep[t][j].handler # v.ep[t][j].handler
        <4>1. t = s /\ j = id
          BY <3>2, <1>d, Zenon
        <4>2. u.ep[t][j].handler = f.handler
          BY <4>1, <1>c, Zenon
        <4>3. f.handler \in Roles /\ v.ends[id][f.handler].at = s /\ u.ends[id][f.handler].bound
          BY <2>2, <3>2, <4>1, <4>2 DEF Handled
        <4>4. v.ends[id][f.handler] # Gone
          BY <4>3 DEF Gone, Sides
        <4>5. Minted(v, id)
          BY <4>3, <4>4, <1>e, Zenon DEF Fresh
        <4>6. u.ends[id][f.handler].at = s
          BY <4>3, <1>b, Zenon
        <4>7. Minted(u, id)
          BY <4>5, <1>0, Zenon
        <4> QED BY <4>1, <4>2, <4>3, <4>6, <4>7, Zenon
      <3> QED BY <3>1, <3>2, Zenon
    <2>3. ASSUME NEW j \in Ids, NEW r \in Roles, u.ends[j][r].told
          PROVE  u.ends[j][Partner(r)].at = "none"
      <3>1. v.ends[j][r].told \/ v.ends[j][Partner(r)].at = "none"
        BY <2>3, <1>b, Zenon
      <3>2. v.ends[j][Partner(r)].at = "none"
        BY <3>1, <1>e, ToldAt, Zenon
      <3>3. Partner(r) \in Roles
        BY <1>0, Zenon
      <3> QED BY <3>2, <3>3, <1>b, Zenon
    <2>4. u.wire = v.wire
      BY <1>a
    <2> QED BY <2>1, <2>2, <2>3, <2>4, Zenon DEF Truthful
  <1> QED BY <1>3, <1>4, <1>5, <1>6, <1>8 DEF Sound

\* The world after call n of interface id was dispatched.
GotOne(v, u, id, n) ==
  /\ u.got[id] = Append(v.got[id], n) /\ \A j \in Ids : j # id => u.got[j] = v.got[j]
  /\ u.ep = v.ep /\ u.next = v.next /\ u.conn = v.conn /\ u.wire = v.wire
  /\ u.ends = v.ends /\ u.sent = v.sent /\ u.drain = v.drain /\ u.prim = v.prim
  /\ u.pending = v.pending /\ u.nextReq = v.nextReq /\ u.asked = v.asked
  /\ u.answers = v.answers

\* A call reaches the object.
LEMMA GotEffect ==
  ASSUME NEW v \in Worlds, NEW id \in Ids, NEW n \in Nat
  PROVE  LET u == [v EXCEPT !.got[id] = Append(@, n)] IN
         u \in Worlds /\ GotOne(v, u, id, n)
  <1> DEFINE q == Append(v.got[id], n)
             g == [v.got EXCEPT ![id] = q]
  <1>1. v.got \in [Ids -> Seq(Nat)]
    BY Fields
  <1>2. q \in Seq(Nat)
    BY <1>1
  <1>3. g \in [Ids -> Seq(Nat)] /\ g[id] = q /\ \A j \in Ids : j # id => g[j] = v.got[j]
    BY <1>1, <1>2
  <1> HIDE DEF g
  <1>4. PICK u : u = [v EXCEPT !.got = g]
    OBVIOUS
  <1>5. /\ u \in Worlds /\ u.got = g /\ u.ep = v.ep /\ u.next = v.next /\ u.conn = v.conn
        /\ u.wire = v.wire /\ u.ends = v.ends /\ u.sent = v.sent /\ u.drain = v.drain
        /\ u.prim = v.prim /\ u.pending = v.pending /\ u.nextReq = v.nextReq
        /\ u.asked = v.asked /\ u.answers = v.answers
    BY <1>3, <1>4 DEF Worlds
  <1>6. u = [v EXCEPT !.got[id] = Append(@, n)]
    BY <1>4 DEF g
  <1>7. GotOne(v, u, id, n)
    BY <1>3, <1>5 DEF GotOne
  <1> QED BY <1>5, <1>6, <1>7

\* What is known of a world is known when a call was dispatched.
LEMMA GotSound ==
  ASSUME NEW v \in Worlds, NEW id, NEW n, NEW u \in Worlds, GotOne(v, u, id, n)
  PROVE  (Sound(v) => Sound(u)) /\ (Answering(v) => Answering(u))
  <1>1. /\ u.ep = v.ep /\ u.next = v.next /\ u.conn = v.conn /\ u.wire = v.wire
        /\ u.ends = v.ends /\ u.sent = v.sent /\ u.prim = v.prim
        /\ u.pending = v.pending /\ u.nextReq = v.nextReq /\ u.asked = v.asked
        /\ u.answers = v.answers
    BY DEF GotOne
  <1> QED BY <1>1, SoundSame, AnsweringSame

\* A sequence of numbers that counts from one, and the next number.
LEMMA CountingOn ==
  ASSUME NEW q \in Seq(Nat), \A i \in DOMAIN q : q[i] = i, NEW n, n = Len(q) + 1
  PROVE  /\ \A i \in DOMAIN Append(q, n) : Append(q, n)[i] = i
         /\ Len(Append(q, n)) = Len(q) + 1
  <1>1. DOMAIN q = 1 .. Len(q) /\ Len(q) \in Nat /\ n \in Nat
    OBVIOUS
  <1>2. DOMAIN Append(q, n) = 1 .. Len(q) + 1 /\ Len(Append(q, n)) = Len(q) + 1
    BY <1>1
  <1>3. ASSUME NEW i \in 1 .. Len(q) + 1 PROVE Append(q, n)[i] = i
    BY <1>1, <1>3
  <1> QED BY <1>2, <1>3

\* A message that waits in an entry.
Lengthened(e, m) == [e EXCEPT !.live = TRUE, !.queue = Append(@, m)]

\* FindOrCreateEndpoint and the push on the queue rewrite the entry, and only it.
LEMMA QueueEffect ==
  ASSUME NEW v \in Worlds, NEW s \in Sides, NEW id \in Ids, NEW m \in Messages
  PROVE  /\ [FindOrCreateEndpoint(v, s, id) EXCEPT !.ep[s][id].queue = Append(@, m)]
              = Put(v, s, id, Lengthened(v.ep[s][id], m))
         /\ Lengthened(v.ep[s][id], m) \in Endpoints
  <1> DEFINE e == v.ep[s][id]
             d == [e EXCEPT !.live = TRUE]
             x == Put(v, s, id, d)
             q == Append(e.queue, m)
  <1>1. e \in Endpoints
    BY Fields
  <1>2. e.queue \in Seq(Messages)
    BY <1>1 DEF Endpoints
  <1>3. q \in Seq(Messages)
    BY <1>2, AppendAt
  <1> HIDE DEF e, q
  <1>4. Lengthened(e, m) = [e EXCEPT !.live = TRUE, !.queue = q]
    BY <1>1 DEF Lengthened, q, Endpoints
  <1>5. Lengthened(e, m) \in Endpoints
    BY <1>1, <1>3, <1>4 DEF Endpoints
  <1>6. d \in Endpoints /\ d.queue = e.queue /\ Lengthened(e, m) = [d EXCEPT !.queue = q]
    BY <1>1, <1>4 DEF Endpoints
  <1>7. FindOrCreateEndpoint(v, s, id) = x
    BY DEF FindOrCreateEndpoint, Put, e
  <1> HIDE DEF d
  <1>8. x \in Worlds /\ x.ep[s][id] = d /\ \A f : Put(x, s, id, f) = Put(v, s, id, f)
    BY <1>6, PutFacts
  <1> HIDE DEF x
  <1>9. [x EXCEPT !.ep[s][id].queue = Append(@, m)] = Put(x, s, id, Lengthened(e, m))
    <2>1. [x EXCEPT !.ep[s][id].queue = Append(@, m)]
            = Put(x, s, id, [x.ep[s][id] EXCEPT !.queue = Append(x.ep[s][id].queue, m)])
      BY DEF Put
    <2> QED BY <2>1, <1>6, <1>8 DEF q
  <1> QED BY <1>5, <1>7, <1>8, <1>9 DEF e

\* Writing an entry leaves all else alone.
LEMMA PutAside ==
  ASSUME NEW v \in Worlds, NEW s \in Sides, NEW id \in Ids, NEW e \in Endpoints
  PROVE  LET u == Put(v, s, id, e) IN
         /\ u \in Worlds /\ Aside(v, u) /\ u.ends = v.ends
         /\ \A t \in Sides, j \in Ids :
              u.ep[t][j] = IF t = s /\ j = id THEN e ELSE v.ep[t][j]
  <1>1. Aside(v, Put(v, s, id, e))
    BY DEF Put, Aside, Worlds
  <1> QED BY <1>1, PutFacts

\* A call for a bound object is dispatched.
LEMMA DispatchGood ==
  ASSUME NEW v \in Worlds, NEW x \in Worlds, NEW s \in Sides, NEW st, Good(v, st),
         v.wire[s] # <<>>, Popped(v, x, s), NEW m, m = Head(v.wire[s]),
         NEW id \in Ids, IsCall(m, id), v.ep[s][id].client # "none",
         st \in {"flushes", "rebinds"} => v.drain[s].id # id,
         NEW u \in Worlds, GotOne(x, u, id, m.n)
  PROVE  Good(u, st)
  <1>1. /\ Kept(v, x) /\ x.conn = v.conn
        /\ x.ep = v.ep /\ x.got = v.got /\ x.ends = v.ends /\ x.drain = v.drain
        /\ x.sent = v.sent
    BY DEF Popped, Kept
  <1>2. Sound(u) /\ (st # "careless" => Answering(u))
    <2>1. Sound(x)
      BY PoppedSound DEF Good
    <2>2. st # "careless" => Answering(x)
      BY PoppedAnswering DEF Good
    <2> QED BY <2>1, <2>2, GotSound
  <1>3. ASSUME Lined(v), InOrder(v), v.drain[s].id # id
        PROVE  Lined(u) /\ InOrder(u)
    <2>1. /\ u.conn = v.conn /\ u.wire = x.wire /\ u.ends = v.ends /\ u.drain = v.drain
          /\ u.sent = v.sent /\ u.ep = v.ep /\ u.got[id] = Append(v.got[id], m.n)
          /\ \A j \in Ids : j # id => u.got[j] = v.got[j]
      BY <1>1 DEF GotOne
    <2>2. m.n = Base(v, s, id) + 1
      BY <1>3, NextCall
    <2>3. v.ep[s][id].queue = <<>>
      BY <1>3 DEF Lined
    <2>4. Base(v, s, id) = Len(v.got[id])
      <3>1. Drained(v, s, id) = 0 /\ Len(v.ep[s][id].queue) = 0
        BY <1>3, <2>3 DEF Drained
      <3> QED BY <3>1, LineLengths DEF Base
    <2>5. Base(u, s, id) = Len(u.got[id])
      <3>1. Drained(u, s, id) = 0 /\ Len(u.ep[s][id].queue) = 0
        BY <1>3, <2>1, <2>3 DEF Drained
      <3> QED BY <3>1, LineLengths DEF Base
    <2>6. /\ \A i \in DOMAIN u.got[id] : u.got[id][i] = i
          /\ Len(u.got[id]) = Len(v.got[id]) + 1
      <3>1. v.got[id] \in Seq(Nat) /\ \A i \in DOMAIN v.got[id] : v.got[id][i] = i
        BY <1>3, Fields DEF InOrder
      <3> QED BY <3>1, <2>1, <2>2, <2>4, CountingOn, SMTT(40)
    <2>7. Queued(u, s, id)
      BY <1>3, <2>1, <2>3 DEF Queued
    <2>8. /\ Base(u, s, id) = Base(v, s, id) + 1 /\ Len(u.got[id]) <= Base(u, s, id)
      BY <2>4, <2>5, <2>6, LineLengths
    <2>9. \A t \in Sides, j \in Ids : t # s \/ j # id => u.ep[t][j] = v.ep[t][j]
      BY <2>1
    <2>10. u.drain[s].id # id /\ u.ep[s][id].queue = <<>> /\ IsCall(Head(v.wire[s]), id)
      BY <1>3, <2>1, <2>3
    <2> QED BY <1>3, <2>1, <2>6, <2>7, <2>8, <2>9, <2>10, CallMoves, ZenonT(40)
  <1> QED BY <1>2, <1>3 DEF Good

\* A call for an endpoint without a client waits there.
LEMMA QueueGood ==
  ASSUME NEW v \in Worlds, NEW x \in Worlds, NEW s \in Sides, NEW st, Good(v, st),
         v.wire[s] # <<>>, Popped(v, x, s), NEW m, m = Head(v.wire[s]),
         NEW id \in Ids, IsCall(m, id), v.ep[s][id].client = "none",
         st \in {"flushes", "rebinds"} => v.drain[s].id # id
  PROVE  Good(Put(x, s, id, Lengthened(x.ep[s][id], m)), st)
  <1> DEFINE e == x.ep[s][id]
             f == Lengthened(e, m)
  <1>1. /\ Kept(v, x) /\ x.conn = v.conn
        /\ x.ep = v.ep /\ x.got = v.got /\ x.ends = v.ends /\ x.drain = v.drain
        /\ x.sent = v.sent /\ m \in Messages
    <2>1. m \in Messages
      BY Fields, TailAt
    <2> QED BY <2>1 DEF Popped, Kept
  <1>2. e \in Endpoints /\ f \in Endpoints /\ e = v.ep[s][id]
    <2>1. \A k \in Messages : Lengthened(x.ep[s][id], k) \in Endpoints
      BY QueueEffect
    <2>2. f \in Endpoints
      BY <2>1, <1>1
    <2> QED BY <2>2, <1>1, Fields
  <1>3. /\ f.live /\ f.refs = e.refs /\ f.client = e.client /\ f.handler = e.handler
        /\ f.queue = Append(e.queue, m) /\ e.queue \in Seq(Messages)
        /\ e.handler \in Roles \cup {"none"}
    BY <1>2, Zenon DEF Lengthened, Endpoints, Clients
  <1> HIDE DEF f
  <1>4. f.queue # <<>> /\ Len(f.queue) = Len(e.queue) + 1 /\ Len(e.queue) \in Nat
    <2>1. Len(f.queue) = Len(e.queue) + 1 /\ Len(e.queue) \in Nat
      BY <1>1, <1>3, AppendAt, SMTT(40)
    <2> QED BY <2>1
  <1>5. PICK u : u = Put(x, s, id, f)
    OBVIOUS
  <1>6. /\ u \in Worlds /\ Aside(x, u) /\ u.ends = x.ends
        /\ \A t \in Sides, j \in Ids :
             u.ep[t][j] = IF t = s /\ j = id THEN f ELSE x.ep[t][j]
    BY <1>2, <1>5, PutAside
  <1>7. Sound(x) /\ (st # "careless" => Answering(x))
    BY PoppedSound, PoppedAnswering DEF Good
  <1>8. Sound(u)
    <2>1. Wrote(x, u, s, id, f)
      BY <1>6 DEF Wrote
    <2>2. Steady(x, u)
      BY <1>6 DEF Aside, Steady
    <2>3. Counted(x.ep[s][id], f)
      <3>1. e.refs > 0 => e.live
        BY <1>7, Zenon DEF Sound, Exact, EntryExact
      <3> QED BY <1>3, <1>4, Zenon DEF Counted
    <2>4. Owned(u, s, id, f) /\ Handled(x, u, s, id, f)
      BY <1>2, <1>3 DEF Owned, Handled
    <2> QED BY <1>6, <1>7, <2>1, <2>2, <2>3, <2>4, TableSound
  <1>9. st # "careless" => Answering(u)
    BY <1>6, <1>7, AsideKeeps
  <1>10. ASSUME Lined(v), InOrder(v), v.drain[s].id # id
         PROVE  Lined(u) /\ InOrder(u)
    <2>1. /\ u.conn = v.conn /\ u.wire = x.wire /\ u.ends = v.ends /\ u.drain = v.drain
          /\ u.sent = v.sent /\ u.got = v.got /\ u.ep[s][id] = f
          /\ \A t \in Sides, j \in Ids : t # s \/ j # id => u.ep[t][j] = v.ep[t][j]
      BY <1>1, <1>6 DEF Aside
    <2>2. m.n = Base(v, s, id) + 1
      BY <1>10, NextCall
    <2>3. Drained(v, s, id) = 0 /\ Drained(u, s, id) = 0
      BY <1>10, <2>1 DEF Drained
    <2>4. PICK a \in Nat, b \in Nat : a = Len(v.got[id]) /\ b = Len(e.queue)
      BY <1>4, LineLengths
    <2>5. Base(v, s, id) = a + b /\ Base(u, s, id) = a + b + 1
      <3>1. Base(v, s, id) = a + 0 + b
        BY <1>2, <2>3, <2>4 DEF Base
      <3>2. Base(u, s, id) = a + 0 + (b + 1)
        BY <1>4, <2>1, <2>3, <2>4 DEF Base
      <3> QED BY <3>1, <3>2
    <2>6. Queued(u, s, id)
      <3>1. ASSUME NEW i \in DOMAIN f.queue
            PROVE  f.queue[i].n = Len(u.got[id]) + Drained(u, s, id) + i
        <4>1. i \in 1 .. b + 1
          BY <1>1, <1>3, <2>4, AppendAt
        <4>2. CASE i \in 1 .. b
          <5>1. i \in DOMAIN e.queue
            BY <4>2, <1>3, <2>4
          <5>2. e.queue[i].n = Len(v.got[id]) + Drained(v, s, id) + i
            BY <5>1, <1>2, <1>10 DEF InOrder, Queued
          <5>3. f.queue[i] = e.queue[i]
            BY <5>1, <1>1, <1>3, AppendAt
          <5> QED BY <5>2, <5>3, <2>1, <2>3
        <4>3. CASE i = b + 1
          <5>1. f.queue[i] = m
            <6>1. Append(e.queue, m)[Len(e.queue) + 1] = m
              BY <1>1, <1>3, AppendAt, Zenon
            <6>2. f.queue = Append(e.queue, m) /\ i = Len(e.queue) + 1
              BY <1>3, <2>4, <4>3, Zenon
            <6> QED BY <6>1, <6>2, Zenon
          <5>2. f.queue[i].n = a + 0 + (b + 1)
            BY <5>1, <2>2, <2>5
          <5>3. Len(u.got[id]) = a /\ Drained(u, s, id) = 0
            BY <2>1, <2>3, <2>4, Zenon
          <5> QED BY <5>2, <5>3, <4>3, Zenon
        <4> QED BY <4>1, <4>2, <4>3
      <3> QED BY <3>1, <1>10, <2>1 DEF Queued
    <2>7. /\ Base(u, s, id) = Base(v, s, id) + 1 /\ Len(u.got[id]) <= Base(u, s, id)
      <3>1. Len(u.got[id]) = a
        BY <2>1, <2>4
      <3> HIDE DEF e
      <3> QED BY <3>1, <2>5
    <2>8. u.drain[s].id # id /\ u.ep[s][id].client = "none" /\ IsCall(Head(v.wire[s]), id)
      BY <1>2, <1>3, <1>10, <2>1
    <2>9. \A i \in DOMAIN u.got[id] : u.got[id][i] = i
      BY <1>10, <2>1 DEF InOrder
    <2>10. \A j \in Ids : j # id => u.got[j] = v.got[j]
      BY <2>1
    <2> HIDE DEF e
    <2> QED BY <1>6, <1>10, <2>1, <2>6, <2>7, <2>8, <2>9, <2>10, CallMoves
  <1>11. Good(u, st)
    BY <1>8, <1>9, <1>10 DEF Good
  <1> QED BY <1>5, <1>11 DEF f

-----------------------------------------------------------------------------
(* What the router does with a message.                                    *)

\* A message that is no call leaves all the invariant behind.
LEMMA PoppedGood ==
  ASSUME NEW v \in Worlds, NEW x \in Worlds, NEW s \in Sides, NEW st, Good(v, st),
         v.wire[s] # <<>>, Popped(v, x, s), Head(v.wire[s]).kind # "call"
  PROVE  Good(x, st)
  <1>1. PICK m : m = Head(v.wire[s])
    OBVIOUS
  <1>2. Sound(x) /\ (st # "careless" => Answering(x))
    BY <1>1, PoppedSound, PoppedAnswering DEF Good
  <1>3. st \in {"flushes", "rebinds"} => Lined(x) /\ InOrder(x)
    BY <1>1, PoppedLined, PoppedInOrder DEF Good
  <1> QED BY <1>2, <1>3 DEF Good

\* What calls and what requests are outstanding is kept apart from the rest.
Settled(v, u) ==
  /\ u.ep = v.ep /\ u.next = v.next /\ u.conn = v.conn /\ u.wire = v.wire
  /\ u.ends = v.ends /\ u.drain = v.drain /\ u.sent = v.sent /\ u.got = v.got

\* Such a change keeps the invariant when the answers expected still are.
LEMMA SettledGood ==
  ASSUME NEW v \in Worlds, NEW u \in Worlds, NEW st, Good(v, st), Settled(v, u),
         st # "careless" => Answering(u)
  PROVE  Good(u, st)
  <1>0. /\ u.ep = v.ep /\ u.next = v.next /\ u.conn = v.conn /\ u.wire = v.wire
        /\ u.ends = v.ends /\ u.drain = v.drain /\ u.sent = v.sent /\ u.got = v.got
    BY DEF Settled
  <1>1. Sound(u)
    BY <1>0, SoundSame DEF Good
  <1>2. Lined(v) /\ InOrder(v) => Lined(u) /\ InOrder(u)
    BY <1>0, LinesSame
  <1> QED BY <1>1, <1>2 DEF Good

\* A closed notification runs the handler, which is then spent.
SpentHandler(v, u, s, id, h) ==
  u = [v EXCEPT !.ep[s][id].handler = "none", !.ends[id][h].told = TRUE]
Quiet(e) == [e EXCEPT !.handler = "none"]

\* Running the handler clears it in the entry and marks its half as told.
LEMMA SpentEffect ==
  ASSUME NEW v \in Worlds, NEW s \in Sides, NEW id \in Ids, NEW h \in Roles,
         NEW u, SpentHandler(v, u, s, id, h)
  PROVE  /\ u \in Worlds /\ Aside(v, u) /\ Quiet(v.ep[s][id]) \in Endpoints
         /\ \A t \in Sides, j \in Ids :
              u.ep[t][j] = IF t = s /\ j = id THEN Quiet(v.ep[s][id]) ELSE v.ep[t][j]
         /\ \A j \in Ids, r \in Roles :
              /\ u.ends[j][r].at = v.ends[j][r].at /\ u.ends[j][r].bound = v.ends[j][r].bound
              /\ ~(j = id /\ r = h) => u.ends[j][r] = v.ends[j][r]
  <1> DEFINE e == v.ep[s][id]
             f == Quiet(e)
             x == Put(v, s, id, f)
             g == v.ends[id][h]
             d == [g EXCEPT !.told = TRUE]
  <1>1. e \in Endpoints /\ g \in Halves
    BY Fields
  <1>2. f \in Endpoints /\ d \in Halves /\ d.at = g.at /\ d.bound = g.bound
    BY <1>1 DEF Quiet, Endpoints, Halves, Clients
  <1> HIDE DEF f, d
  <1>3. /\ x \in Worlds /\ Aside(v, x) /\ x.ends = v.ends
        /\ \A t \in Sides, j \in Ids :
             x.ep[t][j] = IF t = s /\ j = id THEN f ELSE v.ep[t][j]
    BY <1>2, PutAside
  <1>4. u = [x EXCEPT !.ends[id][h].told = TRUE]
    BY DEF SpentHandler, Put, f, Quiet
  <1>5. u = PutHandle(v, s, id, f, h, d)
    <2>1. x.ends[id][h] = g
      BY <1>3
    <2>2. u = [x EXCEPT !.ends = [x.ends EXCEPT ![id] = [x.ends[id] EXCEPT
                                     ![h] = [x.ends[id][h] EXCEPT !.told = TRUE]]]]
      BY <1>4
    <2>3. u = [x EXCEPT !.ends = [x.ends EXCEPT ![id] = [x.ends[id] EXCEPT ![h] = d]]]
      BY <2>1, <2>2 DEF d
    <2> QED BY <2>3 DEF PutHandle
  <1>6. /\ u \in Worlds /\ Aside(v, u)
        /\ \A t \in Sides, j \in Ids :
             u.ep[t][j] = IF t = s /\ j = id THEN f ELSE v.ep[t][j]
        /\ \A j \in Ids, r \in Roles :
             u.ends[j][r] = IF j = id /\ r = h THEN d ELSE v.ends[j][r]
    BY <1>2, <1>5, PutHandleFacts DEF Wrote, Redirected
  <1>7. ASSUME NEW j \in Ids, NEW r \in Roles
        PROVE  /\ u.ends[j][r].at = v.ends[j][r].at /\ u.ends[j][r].bound = v.ends[j][r].bound
               /\ ~(j = id /\ r = h) => u.ends[j][r] = v.ends[j][r]
    BY <1>2, <1>6
  <1> QED BY <1>2, <1>6, <1>7 DEF f

\* Running a handler whose partner is gone keeps the invariant.
LEMMA SpentGood ==
  ASSUME NEW v \in Worlds, NEW s \in Sides, NEW id \in Ids, NEW st, Good(v, st),
         NEW h \in Roles, h = v.ep[s][id].handler, v.ends[id][Partner(h)].at = "none",
         NEW u, SpentHandler(v, u, s, id, h)
  PROVE  Good(u, st)
  <1> DEFINE e == v.ep[s][id]
             f == Quiet(e)
  <1>1. /\ u \in Worlds /\ Aside(v, u) /\ f \in Endpoints
        /\ \A t \in Sides, j \in Ids :
             u.ep[t][j] = IF t = s /\ j = id THEN f ELSE v.ep[t][j]
        /\ \A j \in Ids, r \in Roles :
             /\ u.ends[j][r].at = v.ends[j][r].at /\ u.ends[j][r].bound = v.ends[j][r].bound
             /\ ~(j = id /\ r = h) => u.ends[j][r] = v.ends[j][r]
    <2>1. PICK k \in Roles : k = h
      OBVIOUS
    <2>2. SpentHandler(v, u, s, id, k)
      BY <2>1
    <2>3. /\ u \in Worlds /\ Aside(v, u) /\ f \in Endpoints
          /\ \A t \in Sides, j \in Ids :
               u.ep[t][j] = IF t = s /\ j = id THEN f ELSE v.ep[t][j]
          /\ \A j \in Ids, r \in Roles :
               /\ u.ends[j][r].at = v.ends[j][r].at /\ u.ends[j][r].bound = v.ends[j][r].bound
               /\ ~(j = id /\ r = k) => u.ends[j][r] = v.ends[j][r]
      BY <2>2, SpentEffect
    <2> QED BY <2>1, <2>3
  <1>2. e \in Endpoints
    BY Fields
  <1>3. /\ f.refs = e.refs /\ f.live = e.live /\ f.client = e.client /\ f.queue = e.queue
        /\ f.handler = "none" /\ e.client \in Roles \cup {"none"}
    BY <1>2 DEF Quiet, Endpoints, Clients
  <1> HIDE DEF f
  <1>4. /\ u.next = v.next /\ u.conn = v.conn /\ u.wire = v.wire /\ u.sent = v.sent
    BY <1>1 DEF Aside
  <1>5. Minted(v, id)
    BY Zenon DEF Good, Sound, Truthful, Roles
  <1>6. Sound(u)
    <2>1. /\ e.refs > 0 => e.live
          /\ e.live => e.refs > 0 \/ e.client # "none" \/ e.queue # <<>>
          /\ e.client # "none" => v.ends[id][e.client].at = s /\ v.ends[id][e.client].bound
      BY Zenon DEF Good, Sound, Exact, EntryExact
    <2>2. Owned(u, s, id, f)
      <3> SUFFICES ASSUME f.client # "none"
                   PROVE  u.ends[id][f.client].at = s /\ u.ends[id][f.client].bound
        BY DEF Owned
      <3>1. PICK c \in Roles : c = f.client
        BY <1>3
      <3>2. v.ends[id][c].at = s /\ v.ends[id][c].bound
        BY <1>3, <2>1, <3>1, Zenon
      <3>3. u.ends[id][c].at = s /\ u.ends[id][c].bound
        BY <1>1, <3>2
      <3> QED BY <3>1, <3>3
    <2>3. ASSUME NEW j \in Ids, NEW r \in Roles
          PROVE  /\ u.ends[j][r].at = v.ends[j][r].at
                 /\ v.ends[j][r].bound => u.ends[j][r].bound
                 /\ u.ends[j][r].told => v.ends[j][r].told \/ v.ends[j][Partner(r)].at = "none"
                 /\ ~Minted(v, j) => u.ends[j][r] = v.ends[j][r]
      BY <1>1, <1>5
    <2>4. Sound(v)
      BY DEF Good
    <2>5. Wrote(v, u, s, id, f)
      BY <1>1 DEF Wrote
    <2>6. Steady(v, u)
      BY <1>4, <2>3 DEF Steady
    <2>7. Counted(v.ep[s][id], f)
      BY <1>3, <2>1, Zenon DEF Counted
    <2>8. Handled(v, u, s, id, f)
      BY <1>3 DEF Handled
    <2> QED BY <1>1, <2>2, <2>4, <2>5, <2>6, <2>7, <2>8, TableSound
  <1>7. Lined(v) /\ InOrder(v) => Lined(u) /\ InOrder(u)
    <2>1. \A t \in Sides, j \in Ids : /\ u.ep[t][j].queue = v.ep[t][j].queue
                                      /\ u.ep[t][j].client \in {v.ep[t][j].client, "none"}
      BY <1>1, <1>3
    <2>2. "remote" \in Roles
      BY DEF Roles
    <2>3. ASSUME NEW j \in Ids
          PROVE  /\ u.ends[j]["remote"].at = v.ends[j]["remote"].at
                 /\ u.ends[j]["remote"].bound = v.ends[j]["remote"].bound
      BY <1>1, <2>2
    <2> QED BY <1>1, <2>1, <2>3, LinesKept, Zenon
  <1> QED BY <1>1, <1>6, <1>7, AsideKeeps DEF Good

\* A request that arrives is asked.
LEMMA AskGood ==
  ASSUME NEW v \in Worlds, NEW m \in Messages, m.kind = "request", NEW st, Good(v, st),
         st # "careless" => Answerable(v, m)
  PROVE  Good([v EXCEPT !.asked = @ \cup {[rid |-> m.n, call |-> m.call]}], st)
  <1> DEFINE q == AskOf(m)
             a == v.asked \cup {q}
  <1>1. q \in Asks
    BY DEF AskOf, Messages, Asks
  <1>2. a \in SUBSET Asks
    BY <1>1, Fields
  <1> HIDE DEF q, a
  <1>3. PICK u : u = [v EXCEPT !.asked = a]
    OBVIOUS
  <1>4. /\ u \in Worlds /\ u.asked = a /\ Settled(v, u) /\ u.wire = v.wire
        /\ u.prim = v.prim /\ u.pending = v.pending /\ u.nextReq = v.nextReq
        /\ u.answers = v.answers
    BY <1>2, <1>3 DEF Worlds, Settled
  <1>5. ASSUME Answering(v), Answerable(v, m)
        PROVE  Answering(u)
    <2>1. Asking(m)
      BY DEF Asking
    <2>2. ASSUME NEW t \in Sides, NEW i \in DOMAIN u.wire[t]
          PROVE  Expected(u, u.wire[t][i])
      <3>1. Expected(v, u.wire[t][i]) /\ Different(u.wire[t][i], m)
        BY <1>4, <1>5 DEF Answering, Answerable
      <3> QED BY <3>1, <2>1, <1>4 DEF Expected, Different, a, q
    <2>3. u.prim["A"] => u.asked \subseteq u.pending
      <3>1. v.prim["A"] => q \in v.pending
        BY <1>5, <2>1 DEF Answerable, Expected, q
      <3> QED BY <3>1, <1>4, <1>5 DEF Answering, a
    <2> QED BY <2>2, <2>3, <1>4, <1>5 DEF Answering
  <1>6. Good(u, st)
    BY <1>4, <1>5, SettledGood DEF Good
  <1>7. u = [v EXCEPT !.asked = @ \cup {[rid |-> m.n, call |-> m.call]}]
    BY <1>3 DEF a, q, AskOf
  <1> QED BY <1>6, <1>7

\* The world after the answer m was dispatched to the request q.
Answered(v, u, q, m) ==
  u = [v EXCEPT !.pending = @ \ {q},
                !.answers = Append(@, [call |-> q.call, to |-> m.call])]

\* Dispatching an answer that is owed keeps the invariant.
LEMMA AnsweredGood ==
  ASSUME NEW v \in Worlds, NEW m \in Messages, m.kind = "response", NEW st, Good(v, st),
         st # "careless" => Answerable(v, m),
         NEW q \in v.pending, q.rid = m.n, NEW u, Answered(v, u, q, m)
  PROVE  /\ u \in Worlds /\ Good(u, st) /\ u.ends = v.ends /\ u.wire = v.wire
  <1> DEFINE p == v.pending \ {q}
             z == [call |-> q.call, to |-> m.call]
             a == Append(v.answers, z)
  <1>1. q \in Asks /\ v.pending \in SUBSET Asks /\ v.answers \in Seq(Answers)
    BY Fields
  <1>2. z \in Answers
    BY <1>1 DEF Asks, Answers, Messages
  <1>3. z.call = q.call /\ z.to = m.call
    OBVIOUS
  <1> HIDE DEF z
  <1>4. p \in SUBSET Asks /\ a \in Seq(Answers)
    BY <1>1, <1>2
  <1> HIDE DEF p, a
  <1>5. u = [v EXCEPT !.pending = p, !.answers = a]
    BY DEF Answered, p, a, z
  <1>6. /\ u \in Worlds /\ u.pending = p /\ u.answers = a /\ Settled(v, u)
        /\ u.wire = v.wire /\ u.ends = v.ends /\ u.prim = v.prim
        /\ u.nextReq = v.nextReq /\ u.asked = v.asked
    BY <1>4, <1>5 DEF Worlds, Settled
  <1>7. ASSUME Answering(v), Answerable(v, m)
        PROVE  Answering(u)
    <2>1. Asking(m) /\ AskOf(m).rid = m.n /\ AskOf(m).call = m.call
      BY DEF Asking, AskOf
    <2>2. v.prim["A"]
      BY <1>7 DEF Answering
    <2>3. AskOf(m) \in v.pending /\ AskOf(m) \notin v.asked
      BY <1>7, <2>1, <2>2 DEF Answerable, Expected
    <2>4. q = AskOf(m)
      BY <1>7, <2>1, <2>3 DEF Answering
    <2>5. ASSUME NEW t \in Sides, NEW i \in DOMAIN u.wire[t]
          PROVE  Expected(u, u.wire[t][i])
      <3>1. Expected(v, u.wire[t][i]) /\ Different(u.wire[t][i], m)
        BY <1>6, <1>7 DEF Answering, Answerable
      <3> QED BY <3>1, <2>1, <2>4, <1>6 DEF Expected, Different, p
    <2>6. u.asked \subseteq u.pending
      BY <1>6, <1>7, <2>2, <2>3, <2>4 DEF Answering, p
    <2>7. ASSUME NEW i \in DOMAIN u.answers
          PROVE  u.answers[i].call = u.answers[i].to
      <3>1. z.call = z.to
        BY <1>3, <2>1, <2>4
      <3>2. DOMAIN v.answers = 1 .. Len(v.answers) /\ Len(v.answers) \in Nat
        BY <1>1
      <3>3. DOMAIN a = 1 .. Len(v.answers) + 1
        BY <1>1, <1>2 DEF a
      <3>4. CASE i \in 1 .. Len(v.answers)
        <4>1. a[i] = v.answers[i]
          BY <3>4, <1>1, <1>2 DEF a
        <4> QED BY <4>1, <3>2, <3>4, <1>6, <1>7 DEF Answering
      <3>5. CASE i = Len(v.answers) + 1
        <4>1. a[i] = z
          BY <3>5, <1>1, <1>2 DEF a
        <4> QED BY <4>1, <3>1, <1>6
      <3> QED BY <3>2, <3>3, <3>4, <3>5, <1>6
    <2>8. /\ \A k, l \in u.pending : k.rid = l.rid => k = l
          /\ \A k \in u.pending : k.rid < u.nextReq
          /\ u.prim["A"]
      BY <1>6, <1>7, <2>2 DEF Answering, p
    <2>9. \A t, y \in Sides : \A i \in DOMAIN u.wire[t], j \in DOMAIN u.wire[y] :
            t # y \/ i # j => Different(u.wire[t][i], u.wire[y][j])
      BY <1>6, <1>7 DEF Answering
    <2> QED BY <2>5, <2>6, <2>7, <2>8, <2>9 DEF Answering
  <1>8. Good(u, st)
    BY <1>6, <1>7, SettledGood DEF Good
  <1> QED BY <1>6, <1>8

\* ResponseDispatcher::DispatchResponse keeps the invariant.
LEMMA DispatchResponseGood ==
  ASSUME NEW v \in Worlds, NEW s \in Sides, NEW m \in Messages, m.kind = "response",
         NEW st, Good(v, st), st # "careless" => Answerable(v, m), Carried(v, m),
         \A t \in Sides : \A i \in DOMAIN v.wire[t] : Apart(v.wire[t][i], m)
  PROVE  Good(DispatchResponse(v, s, m), st)
  <1> DEFINE p == {q \in v.pending : q.rid = m.n}
  <1>1. CASE p = {}
    BY <1>1, RaiseGood DEF DispatchResponse
  <1>2. CASE p # {}
    <2>1. PICK q : q = CHOOSE y \in p : TRUE
      OBVIOUS
    <2>2. q \in v.pending /\ q.rid = m.n
      BY <1>2, <2>1
    <2>3. PICK u : Answered(v, u, q, m)
      BY DEF Answered
    <2>4. u \in Worlds /\ Good(u, st) /\ u.ends = v.ends /\ u.wire = v.wire
      BY <2>2, <2>3, AnsweredGood
    <2>5. DispatchResponse(v, s, m) =
            IF m.id = NoId THEN u ELSE CreateLocalEndpointHandle(u, s, m.id, m.role)
      BY <1>2, <2>1, <2>3 DEF DispatchResponse, Answered
    <2>6. CASE m.id = NoId
      BY <2>4, <2>5, <2>6
    <2>7. CASE m.id # NoId
      <3>1. Carrier(m) /\ m.id \in Ids
        BY <2>7 DEF Carrier, Messages
      <3>2. m.role \in Roles /\ u.ends[m.id][m.role].at = "wire"
        BY <3>1, <2>4 DEF Carried
      <3>3. \A t \in Sides : \A i \in DOMAIN u.wire[t] :
              ~(Carrier(u.wire[t][i]) /\ u.wire[t][i].id = m.id /\ u.wire[t][i].role = m.role)
        BY <3>1, <2>4 DEF Apart
      <3>4. Good(CreateLocalEndpointHandle(u, s, m.id, m.role), st)
        BY <3>1, <3>2, <3>3, <2>4, CreateGood
      <3> QED BY <3>4, <2>5, <2>7
    <2> QED BY <2>6, <2>7
  <1> QED BY <1>1, <1>2

\* A call that names no interface changes nothing.
LEMMA NowhereKeeps ==
  ASSUME NEW x \in Worlds, NEW s \in Sides, NEW m \in Messages, m.kind = "call",
         m.id \notin Ids
  PROVE  Accept(x, s, m) = x
  <1> DEFINE d == [x.ep[s] EXCEPT ![m.id] = [@ EXCEPT !.live = TRUE]]
  <1>1. x.got \in [Ids -> Seq(Nat)] /\ x.ep \in [Sides -> [Ids -> Endpoints]]
    BY Fields
  <1>2. \A e : [x.got EXCEPT ![m.id] = e] = x.got
    BY <1>1
  <1>3. \A e : [x EXCEPT !.got[m.id] = e] = x
    <2>1. [x EXCEPT !.got = x.got] = x
      BY DEF Worlds
    <2> QED BY <2>1, <1>2
  <1>4. \A e : [x.ep EXCEPT ![s] = [x.ep[s] EXCEPT ![m.id] = e]] = x.ep
    <2>1. \A e : [x.ep[s] EXCEPT ![m.id] = e] = x.ep[s]
      BY <1>1
    <2>2. [x.ep EXCEPT ![s] = x.ep[s]] = x.ep
      BY <1>1
    <2> QED BY <2>1, <2>2
  <1>5. \A e : [x EXCEPT !.ep[s][m.id] = e] = x
    <2>1. [x EXCEPT !.ep = x.ep] = x
      BY DEF Worlds
    <2> QED BY <2>1, <1>4
  <1>6. FindOrCreateEndpoint(x, s, m.id) = x
    BY <1>5 DEF FindOrCreateEndpoint
  <1>7. Accept(x, s, m) =
          IF x.ep[s][m.id].client # "none"
          THEN [x EXCEPT !.got[m.id] = Append(x.got[m.id], m.n)]
          ELSE [FindOrCreateEndpoint(x, s, m.id)
                  EXCEPT !.ep[s][m.id].queue = Append(@, m)]
    BY DEF Accept
  <1>8. [x EXCEPT !.got[m.id] = Append(x.got[m.id], m.n)] = x
    BY <1>3
  <1>9. [FindOrCreateEndpoint(x, s, m.id) EXCEPT !.ep[s][m.id].queue = Append(@, m)] = x
    <2>1. [x EXCEPT !.ep[s][m.id].queue = Append(@, m)] = x
      BY <1>5
    <2> QED BY <2>1, <1>6
  <1> QED BY <1>7, <1>8, <1>9

\* MultiplexRouter::Accept of a call.
LEMMA AcceptCallGood ==
  ASSUME NEW v \in Worlds, NEW x \in Worlds, NEW s \in Sides, NEW st, Good(v, st),
         v.wire[s] # <<>>, Popped(v, x, s), NEW m, m = Head(v.wire[s]), m.kind = "call",
         st \in {"flushes", "rebinds"} => v.drain[s].id = NoId
  PROVE  Good(Accept(x, s, m), st)
  <1>1. m \in Messages /\ x.ep = v.ep
    BY Fields, TailAt DEF Popped, Kept
  <1>2. CASE m.id \notin Ids
    <2>1. PICK k \in Messages : k = m
      BY <1>1
    <2>2. Accept(x, s, k) = x
      BY <1>2, <2>1, NowhereKeeps
    <2>3. Sound(x) /\ (st # "careless" => Answering(x))
      BY PoppedSound, PoppedAnswering DEF Good
    <2>4. st \notin {"flushes", "rebinds"}
      <3>1. ASSUME Lined(v) PROVE FALSE
        <4>1. m.id # NoId
          BY <3>1, PoppedLined
        <4> QED BY <4>1, <1>1, <1>2 DEF Messages
      <3> QED BY <3>1 DEF Good
    <2> QED BY <2>1, <2>2, <2>3, <2>4 DEF Good
  <1>3. CASE m.id \in Ids
    <2>1. PICK id \in Ids, n \in Nat : id = m.id /\ n = m.n
      BY <1>1, <1>3 DEF Messages
    <2>2. IsCall(m, id) /\ id # NoId
      BY <2>1, IdsArePositive DEF IsCall
    <2>3. Accept(x, s, m) =
            IF x.ep[s][id].client # "none"
            THEN [x EXCEPT !.got[id] = Append(@, n)]
            ELSE [FindOrCreateEndpoint(x, s, id) EXCEPT !.ep[s][id].queue = Append(@, m)]
      BY <2>1, ZenonT(40) DEF Accept
    <2>4. st \in {"flushes", "rebinds"} => v.drain[s].id # id
      BY <2>2
    <2>5. CASE v.ep[s][id].client # "none"
      <3>1. PICK u : u = [x EXCEPT !.got[id] = Append(@, n)]
        OBVIOUS
      <3>2. u \in Worlds /\ GotOne(x, u, id, m.n)
        BY <2>1, <3>1, GotEffect, Zenon
      <3>3. Good(u, st)
        BY <2>2, <2>4, <2>5, <3>2, DispatchGood
      <3> QED BY <3>1, <3>3, <2>3, <2>5, <1>1
    <2>6. CASE v.ep[s][id].client = "none"
      <3>1. Good(Put(x, s, id, Lengthened(x.ep[s][id], m)), st)
        BY <2>2, <2>4, <2>6, QueueGood
      <3>2. \A k \in Messages :
              [FindOrCreateEndpoint(x, s, id) EXCEPT !.ep[s][id].queue = Append(@, k)]
                = Put(x, s, id, Lengthened(x.ep[s][id], k))
        BY QueueEffect
      <3>3. [FindOrCreateEndpoint(x, s, id) EXCEPT !.ep[s][id].queue = Append(@, m)]
              = Put(x, s, id, Lengthened(x.ep[s][id], m))
        BY <3>2, <1>1
      <3> QED BY <3>1, <3>3, <2>3, <2>6, <1>1
    <2> QED BY <2>5, <2>6
  <1> QED BY <1>2, <1>3

\* HandlePipeControlMessage.
LEMMA ControlGood ==
  ASSUME NEW x \in Worlds, NEW s \in Sides, NEW m \in Messages, NEW st, Good(x, st),
         m.kind \in {"ping", "pong", "closed"}, Announced(x, s, m)
  PROVE  Good(HandlePipeControlMessage(x, s, m), st)
  <1>1. CASE m.kind = "ping"
    <2>1. PICK k : k = Msg("pong", NoId, "none", 0, 0)
      OBVIOUS
    <2>2. k \in Messages /\ k.kind = "pong"
      <3>1. "pong" \in Kinds /\ "none" \in Clients
        BY DEF Kinds, Clients
      <3> QED BY <3>1, <2>1, MsgType DEF Msg
    <2>3. Fitting(x, s, k) /\ Answerable(x, k) /\ k.kind # "call"
      BY <2>2, PlainFits
    <2>4. Good(Send(x, s, k), st)
      BY <2>2, <2>3, SendGood
    <2>5. HandlePipeControlMessage(x, s, m) = Send(x, s, k)
      BY <1>1, <2>1 DEF HandlePipeControlMessage
    <2> QED BY <2>4, <2>5
  <1>2. CASE m.kind = "pong"
    <2> DEFINE f == [x.flush EXCEPT ![s] = IF @ = "wait" THEN "done" ELSE @]
    <2>1. f \in [Sides -> {"idle", "wait", "done"}]
      BY Fields
    <2> HIDE DEF f
    <2>2. PICK u : u = [x EXCEPT !.flush = f]
      OBVIOUS
    <2>3. /\ u \in Worlds /\ Settled(x, u) /\ u.wire = x.wire /\ u.prim = x.prim
          /\ u.pending = x.pending /\ u.nextReq = x.nextReq /\ u.asked = x.asked
          /\ u.answers = x.answers
      BY <2>1, <2>2 DEF Worlds, Settled
    <2>4. Good(u, st)
      BY <2>3, AnsweringSame, SettledGood DEF Good
    <2>5. HandlePipeControlMessage(x, s, m) = u
      BY <1>2, <2>2 DEF HandlePipeControlMessage, f
    <2> QED BY <2>4, <2>5
  <1>3. CASE m.kind = "closed"
    <2>1. PICK id \in Ids : id = m.id
      BY <1>3 DEF Announced, Messages
    <2>2. PICK h : h = x.ep[s][id].handler
      OBVIOUS
    <2>3. x.ep[s][id] \in Endpoints
      BY Fields
    <2>4. h \in Roles \cup {"none"}
      BY <2>2, <2>3 DEF Endpoints, Clients
    <2>5. CASE h = "none"
      <3>1. HandlePipeControlMessage(x, s, m) = x
        BY <1>3, <2>1, <2>2, <2>5 DEF HandlePipeControlMessage
      <3> QED BY <3>1
    <2>6. CASE h # "none"
      <3>1. h \in Roles /\ x.ends[id][Partner(h)].at = "none"
        BY <1>3, <2>1, <2>2, <2>4, <2>6, Zenon DEF Announced
      <3>2. PICK u : SpentHandler(x, u, s, id, h)
        BY DEF SpentHandler
      <3>3. Good(u, st)
        BY <2>2, <3>1, <3>2, SpentGood
      <3>4. HandlePipeControlMessage(x, s, m) = u
        BY <1>3, <2>1, <2>2, <2>6, <3>2 DEF HandlePipeControlMessage, SpentHandler
      <3> QED BY <3>3, <3>4
    <2> QED BY <2>5, <2>6
  <1> QED BY <1>1, <1>2, <1>3

\* The primary object.
LEMMA AcceptPrimaryGood ==
  ASSUME NEW x \in Worlds, NEW s \in Sides, NEW m \in Messages, NEW st, Good(x, st),
         m.kind \in {"request", "response", "pass", "require"},
         st # "careless" => Answerable(x, m), Carried(x, m),
         \A t \in Sides : \A i \in DOMAIN x.wire[t] : Apart(x.wire[t][i], m)
  PROVE  Good(AcceptPrimary(x, s, m), st)
  <1>1. CASE ~x.prim[s]
    BY <1>1 DEF AcceptPrimary
  <1>2. CASE x.prim[s] /\ m.kind = "response"
    <2>1. Good(DispatchResponse(x, s, m), st)
      BY <1>2, DispatchResponseGood
    <2> QED BY <2>1, <1>2 DEF AcceptPrimary
  <1>3. CASE x.prim[s] /\ m.kind = "request"
    <2>1. Good([x EXCEPT !.asked = @ \cup {[rid |-> m.n, call |-> m.call]}], st)
      BY <1>3, AskGood
    <2>2. AcceptPrimary(x, s, m) = [x EXCEPT !.asked = @ \cup {[rid |-> m.n, call |-> m.call]}]
      BY <1>3 DEF AcceptPrimary
    <2> QED BY <2>1, <2>2
  <1>4. CASE x.prim[s] /\ m.kind = "pass"
    <2>1. Carrier(m)
      BY <1>4 DEF Carrier
    <2>2. PICK id \in Ids, r \in Roles : id = m.id /\ r = m.role /\ x.ends[id][r].at = "wire"
      BY <2>1 DEF Carried, Messages
    <2>3. \A t \in Sides : \A i \in DOMAIN x.wire[t] :
            ~(Carrier(x.wire[t][i]) /\ x.wire[t][i].id = id /\ x.wire[t][i].role = r)
      BY <2>1, <2>2 DEF Apart
    <2>4. Good(CreateLocalEndpointHandle(x, s, id, r), st)
      BY <2>2, <2>3, CreateGood
    <2>5. AcceptPrimary(x, s, m) = CreateLocalEndpointHandle(x, s, id, r)
      BY <1>4, <2>2 DEF AcceptPrimary
    <2> QED BY <2>4, <2>5
  <1>5. CASE x.prim[s] /\ m.kind = "require"
    <2>1. Good(RaiseError(x, s), st)
      BY RaiseGood
    <2> QED BY <2>1, <1>5 DEF AcceptPrimary
  <1> QED BY <1>1, <1>2, <1>3, <1>4, <1>5

\* MultiplexRouter::Accept keeps the invariant.
LEMMA AcceptGood ==
  ASSUME NEW v \in Worlds, NEW x \in Worlds, NEW s \in Sides, NEW st, Good(v, st),
         v.wire[s] # <<>>, Popped(v, x, s), NEW m, m = Head(v.wire[s]),
         st \in {"flushes", "rebinds"} => v.drain[s].id = NoId
  PROVE  Good(Accept(x, s, m), st)
  <1>1. /\ m \in Messages /\ Carried(x, m) /\ Announced(x, s, m)
        /\ \A t \in Sides : \A i \in DOMAIN x.wire[t] : Apart(x.wire[t][i], m)
    BY PoppedSound DEF Good
  <1>2. st # "careless" => Answerable(x, m)
    BY PoppedAnswering DEF Good
  <1>3. PICK k \in Messages : k = m
    BY <1>1
  <1>4. CASE m.kind = "call"
    BY <1>4, AcceptCallGood
  <1>5. CASE m.kind # "call"
    <2>1. Good(x, st)
      BY <1>5, PoppedGood
    <2>2. CASE m.kind \in {"ping", "pong", "closed"}
      <3>1. Good(HandlePipeControlMessage(x, s, k), st)
        BY <1>1, <1>3, <2>1, <2>2, ControlGood
      <3> QED BY <3>1, <1>3, <2>2, ZenonT(40) DEF Accept
    <2>3. CASE m.kind \in {"request", "response", "pass", "require"}
      <3>1. Good(AcceptPrimary(x, s, k), st)
        BY <1>1, <1>2, <1>3, <2>1, <2>3, AcceptPrimaryGood
      <3>2. Accept(x, s, m) = AcceptPrimary(x, s, m)
        BY <2>3, ZenonT(40) DEF Accept
      <3> QED BY <3>1, <3>2, <1>3
    <2>4. m.kind \in Kinds
      BY <1>1 DEF Messages
    <2> QED BY <1>5, <2>2, <2>3, <2>4 DEF Kinds
  <1> QED BY <1>4, <1>5

-----------------------------------------------------------------------------
(* The steps of a side.                                                    *)

\* Connector::ReadAllAvailableMessages.
LEMMA ReadMessageStep ==
  ASSUME Good(w, style), NEW s \in Sides, ReadMessage(s)
  PROVE  Good(w', style)
  <1> DEFINE x == [w EXCEPT !.wire[s] = Tail(@)]
  <1>1. w \in Worlds
    BY DEF Good, Sound
  <1>2. w.wire[s] # <<>> /\ w' = Accept(x, s, Head(w.wire[s]))
    BY DEF ReadMessage, Becomes
  <1>3. x \in Worlds /\ Popped(w, x, s)
    BY <1>1, <1>2, PopEffect
  <1>4. style \in {"flushes", "rebinds"} => w.drain[s].id = NoId
    BY DEF ReadMessage, Reading, Draining
  <1> HIDE DEF x
  <1>5. PICK m : m = Head(w.wire[s])
    OBVIOUS
  <1>6. Good(Accept(x, s, m), style)
    BY <1>1, <1>2, <1>3, <1>4, <1>5, AcceptGood
  <1> QED BY <1>2, <1>5, <1>6

\* Connector::OnPeerClosed.
LEMMA PeerClosedStep ==
  ASSUME Good(w, style), NEW s \in Sides, PeerClosed(s)
  PROVE  Good(w', style)
  <1>1. w \in Worlds
    BY DEF Good, Sound
  <1>2. w' = RaiseError(w, s)
    BY DEF PeerClosed, Becomes
  <1> QED BY <1>1, <1>2, RaiseGood

\* FlushForTesting sends its ping.
LEMMA FlushStep ==
  ASSUME Good(w, style), NEW s \in Sides, Flush(s)
  PROVE  Good(w', style)
  <1> DEFINE x == [w EXCEPT !.flush[s] = "wait", !.flushes[s] = @ + 1]
             m == Msg("ping", NoId, "none", 0, 0)
  <1>1. w \in Worlds
    BY DEF Good, Sound
  <1>2. w' = Send(x, s, m)
    BY DEF Flush, Becomes
  <1>3. m \in Messages /\ m.kind = "ping"
    BY DEF Messages, Msg, Kinds, Clients
  <1>4. /\ x \in Worlds /\ Settled(w, x) /\ x.wire = w.wire /\ x.prim = w.prim
        /\ x.pending = w.pending /\ x.nextReq = w.nextReq /\ x.asked = w.asked
        /\ x.answers = w.answers
    <2>1. w.flushes \in [Sides -> Nat] /\ w.flush \in [Sides -> {"idle", "wait", "done"}]
      BY <1>1, Fields
    <2> DEFINE k == [w.flushes EXCEPT ![s] = @ + 1]
    <2>2. k \in [Sides -> Nat]
      BY <2>1
    <2>3. x = [w EXCEPT !.flush[s] = "wait", !.flushes = k]
      OBVIOUS
    <2> HIDE DEF x, k
    <2> QED BY <1>1, <2>1, <2>2, <2>3 DEF Worlds, Settled
  <1> HIDE DEF x, m
  <1>5. Good(x, style)
    BY <1>1, <1>4, SettledGood, AnsweringSame DEF Good
  <1>6. Fitting(x, s, m) /\ Answerable(x, m) /\ m.kind # "call"
    BY <1>3, PlainFits
  <1> QED BY <1>2, <1>3, <1>4, <1>5, <1>6, SendGood

\* FlushForTesting returns.
LEMMA FlushReturnsStep ==
  ASSUME Good(w, style), NEW s \in Sides, FlushReturns(s)
  PROVE  Good(w', style)
  <1>1. w \in Worlds
    BY DEF Good, Sound
  <1>2. w' = [w EXCEPT !.flush[s] = "idle"]
    BY DEF FlushReturns, Becomes
  <1>3. /\ w' \in Worlds /\ Settled(w, w') /\ w'.wire = w.wire /\ w'.prim = w.prim
        /\ w'.pending = w.pending /\ w'.nextReq = w.nextReq /\ w'.asked = w.asked
        /\ w'.answers = w.answers
    BY <1>1, <1>2 DEF Worlds, Settled
  <1> QED BY <1>1, <1>3, SettledGood, AnsweringSame DEF Good

\* RequireVersion carries nothing.
LEMMA RequireVersionStep ==
  ASSUME Good(w, style), RequireVersion
  PROVE  Good(w', style)
  <1> DEFINE x == [w EXCEPT !.calls = @ + 1]
             m == Msg("require", NoId, "none", 0, 0)
  <1>1. w \in Worlds
    BY DEF Good, Sound
  <1>2. w' = Send(x, "A", m)
    BY DEF RequireVersion, Becomes
  <1>3. m \in Messages /\ m.kind = "require"
    BY DEF Messages, Msg, Kinds, Clients
  <1>4. /\ x \in Worlds /\ Settled(w, x) /\ x.wire = w.wire /\ x.prim = w.prim
        /\ x.pending = w.pending /\ x.nextReq = w.nextReq /\ x.asked = w.asked
        /\ x.answers = w.answers
    <2>1. PICK k \in Nat : k = w.calls + 1
      BY <1>1, Fields
    <2>2. x = [w EXCEPT !.calls = k]
      BY <2>1
    <2> QED BY <1>1, <2>2 DEF Worlds, Settled
  <1> HIDE DEF x, m
  <1>5. Good(x, style)
    BY <1>1, <1>4, SettledGood, AnsweringSame DEF Good
  <1>6. PICK s \in Sides : s = "A"
    BY DEF Sides
  <1>7. Fitting(x, s, m) /\ Answerable(x, m) /\ m.kind # "call"
    BY <1>3, PlainFits
  <1>8. Good(Send(x, s, m), style)
    BY <1>3, <1>4, <1>5, <1>7, SendGood
  <1> QED BY <1>2, <1>6, <1>8

\* A primary object that is reset takes its requests with it.
LEMMA ResetGood ==
  ASSUME NEW v \in Worlds, NEW s \in Sides, NEW st, Good(v, st), v.drain[s].id = NoId
  PROVE  Good(Reset(v, s), st)
  <1> DEFINE p == IF s = "A" THEN {} ELSE v.pending
             a == IF s = "B" THEN {} ELSE v.asked
             x == [v EXCEPT !.prim[s] = FALSE, !.pending = p, !.asked = a]
  <1>1. Reset(v, s) = ReleaseRouter(x, s)
    BY DEF Reset
  <1>2. p \subseteq v.pending /\ a \subseteq v.asked /\ v.pending \in SUBSET Asks
        /\ v.asked \in SUBSET Asks
    BY Fields
  <1>3. p \in SUBSET Asks /\ a \in SUBSET Asks
    BY <1>2
  <1>4. (s = "A" => p = {}) /\ (s = "B" => p = v.pending /\ a = {}) /\ s \in {"A", "B"}
    BY DEF Sides
  <1> HIDE DEF p, a
  <1>5. /\ x \in Worlds /\ Settled(v, x) /\ x.pending = p /\ x.asked = a
        /\ x.nextReq = v.nextReq /\ x.answers = v.answers /\ x.wire = v.wire
        /\ x.prim = [v.prim EXCEPT ![s] = FALSE] /\ x.drain = v.drain
    BY <1>3 DEF Worlds, Settled
  <1>6. v.prim \in [Sides -> BOOLEAN] /\ "A" \in Sides
    BY Fields DEF Sides
  <1>7. (s = "A" => ~x.prim["A"]) /\ (s = "B" => x.prim["A"] = v.prim["A"])
    BY <1>5, <1>6, ZenonT(40)
  <1> HIDE DEF x
  <1>8. ASSUME Answering(v)
        PROVE  Answering(x)
    <2>1. \A t \in Sides : \A i \in DOMAIN x.wire[t] : Expected(x, x.wire[t][i])
      BY <1>2, <1>4, <1>5, <1>7, <1>8 DEF Answering, Expected
    <2>2. /\ \A t, u \in Sides : \A i \in DOMAIN x.wire[t], j \in DOMAIN x.wire[u] :
               t # u \/ i # j => Different(x.wire[t][i], x.wire[u][j])
          /\ \A i \in DOMAIN x.answers : x.answers[i].call = x.answers[i].to
      BY <1>5, <1>8 DEF Answering
    <2>3. /\ \A q, k \in x.pending : q.rid = k.rid => q = k
          /\ \A q \in x.pending : q.rid < x.nextReq
      BY <1>2, <1>5, <1>8 DEF Answering
    <2>4. /\ x.prim["A"] => x.asked \subseteq x.pending
          /\ ~x.prim["A"] => x.pending = {}
      BY <1>2, <1>4, <1>5, <1>7, <1>8 DEF Answering
    <2> QED BY <2>1, <2>2, <2>3, <2>4 DEF Answering
  <1>9. Good(x, st)
    BY <1>5, <1>8, SettledGood DEF Good
  <1> QED BY <1>1, <1>5, <1>9, ReleaseGood

\* Remote::reset, Receiver::reset.
LEMMA ResetPrimaryStep ==
  ASSUME Good(w, style), NEW s \in Sides, ResetPrimary(s)
  PROVE  Good(w', style)
  <1>1. w \in Worlds
    BY DEF Good, Sound
  <1> QED BY <1>1, ResetGood DEF ResetPrimary, Becomes, Free, Draining

\* The task of a set.
LEMMA EraseEntryStep ==
  ASSUME Good(w, style), NEW s \in Sides, EraseEntry(s)
  PROVE  Good(w', style)
  <1> DEFINE x == [w EXCEPT !.erase[s] = FALSE]
  <1>1. w \in Worlds
    BY DEF Good, Sound
  <1>2. w' = Reset(x, s) /\ w.drain[s].id = NoId
    BY DEF EraseEntry, Becomes, Free, Draining
  <1>3. /\ x \in Worlds /\ Settled(w, x) /\ x.wire = w.wire /\ x.prim = w.prim
        /\ x.pending = w.pending /\ x.nextReq = w.nextReq /\ x.asked = w.asked
        /\ x.answers = w.answers /\ x.drain = w.drain
    BY <1>1 DEF Worlds, Settled
  <1> HIDE DEF x
  <1>4. Good(x, style)
    BY <1>1, <1>3, SettledGood, AnsweringSame DEF Good
  <1> QED BY <1>2, <1>3, <1>4, ResetGood

\* A message that carries a handle fits once the handle is out of the table.
LEMMA CarryFits ==
  ASSUME NEW u \in Worlds, NEW s \in Sides, NEW id \in Ids, NEW role \in Roles,
         u.ends[id][role].at = "wire",
         \A t \in Sides : \A i \in DOMAIN u.wire[t] :
           ~(Carrier(u.wire[t][i]) /\ u.wire[t][i].id = id /\ u.wire[t][i].role = role),
         NEW m \in Messages, m.kind \in {"pass", "response"}, m.id = id, m.role = role
  PROVE  Fitting(u, s, m) /\ m.kind # "call"
  <1>1. Carried(u, m) /\ Announced(u, Other(s), m) /\ m.kind # "call"
    BY IdsArePositive DEF Carried, Announced
  <1>2. \A t \in Sides : \A i \in DOMAIN u.wire[t] : Apart(u.wire[t][i], m)
    BY DEF Apart
  <1> QED BY <1>1, <1>2 DEF Fitting

\* A primary object hands an endpoint over.
LEMMA PassStep ==
  ASSUME Good(w, style), NEW id \in Ids, NEW role \in Roles, Pass(id, role)
  PROVE  Good(w', style)
  <1> DEFINE u == [DropEndpointHandle(w, "A", id) EXCEPT
                     !.ends[id][role] = [Gone EXCEPT !.at = "wire"]]
  <1>1. w \in Worlds
    BY DEF Good, Sound
  <1>2. PICK s \in Sides : s = "A"
    BY DEF Sides
  <1>3. PICK m \in Messages : m = Msg("pass", id, role, 0, 0)
    <2>1. role \in Clients /\ "pass" \in Kinds /\ id \in Ids \cup {NoId} /\ 0 \in Nat
      BY DEF Clients, Kinds
    <2> QED BY <2>1, MsgType
  <1>4. w' = Send(u, s, m) /\ w.ends[id][role] = Held(s)
    BY <1>2, <1>3 DEF Pass, Becomes
  <1>5. /\ Good(u, style) /\ u \in Worlds /\ u.ends[id][role].at = "wire"
        /\ \A t \in Sides : \A i \in DOMAIN u.wire[t] :
             ~(Carrier(u.wire[t][i]) /\ u.wire[t][i].id = id /\ u.wire[t][i].role = role)
    BY <1>1, <1>2, <1>4, HandOverGood
  <1>6. m.kind = "pass" /\ m.id = id /\ m.role = role
    BY <1>3 DEF Msg
  <1> HIDE DEF u
  <1>7. Fitting(u, s, m) /\ m.kind # "call"
    BY <1>5, <1>6, CarryFits
  <1>8. Answerable(u, m)
    BY <1>6 DEF Answerable, Expected, Different, Asking
  <1> QED BY <1>4, <1>5, <1>7, <1>8, SendGood

\* A request is registered before it is sent, under a number of its own.
LEMMA RequestStep ==
  ASSUME Good(w, style), Request
  PROVE  Good(w', style)
  <1> DEFINE m == Msg("request", NoId, "none", w.nextReq, w.calls + 1)
             q == [rid |-> m.n, call |-> m.call]
             p == w.pending \cup {q}
             x == [w EXCEPT !.calls = @ + 1, !.nextReq = @ + 1, !.pending = p]
  <1>1. w \in Worlds
    BY DEF Good, Sound
  <1>2. /\ w.nextReq \in Nat /\ w.calls \in Nat /\ w.pending \in SUBSET Asks
        /\ w.asked \in SUBSET Asks
    BY <1>1, Fields
  <1>3. PICK s \in Sides : s = "A"
    BY DEF Sides
  <1>4. w' = Send(x, s, m) /\ w.prim["A"]
    BY <1>3 DEF Request, Becomes
  <1>5. /\ m \in Messages /\ m.kind = "request" /\ m.id = NoId /\ m.n = w.nextReq
        /\ m.call = w.calls + 1
    BY <1>2 DEF Messages, Msg, Kinds, Clients
  <1> HIDE DEF m
  <1>6. q \in Asks /\ q.rid = w.nextReq /\ q = AskOf(m)
    BY <1>2, <1>5 DEF Asks, AskOf
  <1> HIDE DEF q
  <1>7. /\ x \in Worlds /\ Settled(w, x) /\ x.wire = w.wire /\ x.prim = w.prim
        /\ x.pending = p /\ x.nextReq = w.nextReq + 1 /\ x.asked = w.asked
        /\ x.answers = w.answers
    <2>1. PICK k \in Nat : k = w.calls + 1
      BY <1>2
    <2>2. PICK n \in Nat : n = w.nextReq + 1
      BY <1>2
    <2>3. x = [w EXCEPT !.calls = k, !.nextReq = n, !.pending = p]
      BY <2>1, <2>2
    <2>4. p \in SUBSET Asks
      BY <1>2, <1>6
    <2> HIDE DEF x, p
    <2> QED BY <1>1, <2>2, <2>3, <2>4 DEF Worlds, Settled
  <1> HIDE DEF x
  <1>8. ASSUME Answering(w)
        PROVE  Answering(x) /\ Answerable(x, m)
    <2>1. /\ q \notin w.pending /\ q \notin w.asked
          /\ w.asked \subseteq w.pending
          /\ \A k \in w.pending : k.rid # q.rid
      <3>1. \A k \in w.pending : k.rid < w.nextReq /\ k.rid \in Nat
        BY <1>2, <1>8 DEF Answering, Asks
      <3> QED BY <3>1, <1>2, <1>4, <1>6, <1>8 DEF Answering
    <2>2. \A t \in Sides : \A i \in DOMAIN x.wire[t] :
            Expected(x, x.wire[t][i]) /\ Different(x.wire[t][i], m)
      <3>1. \A t \in Sides : \A i \in DOMAIN x.wire[t] :
              Asking(x.wire[t][i]) =>
                AskOf(x.wire[t][i]) \in w.pending /\ AskOf(x.wire[t][i]) \notin w.asked
        BY <1>4, <1>7, <1>8 DEF Answering, Expected
      <3> QED BY <3>1, <2>1, <1>6, <1>7 DEF Expected, Different
    <2>3. \A t, u \in Sides : \A i \in DOMAIN x.wire[t], j \in DOMAIN x.wire[u] :
            t # u \/ i # j => Different(x.wire[t][i], x.wire[u][j])
      BY <1>7, <1>8 DEF Answering
    <2>4. \A k, l \in x.pending : k.rid = l.rid => k = l
      BY <1>7, <1>8, <2>1 DEF Answering
    <2>5. \A k \in x.pending : k.rid < x.nextReq
      <3>1. \A k \in w.pending : k.rid < w.nextReq /\ k.rid \in Nat
        BY <1>2, <1>8 DEF Answering, Asks
      <3> QED BY <3>1, <1>2, <1>6, <1>7
    <2>6. /\ x.prim["A"] /\ x.asked \subseteq x.pending
          /\ \A i \in DOMAIN x.answers : x.answers[i].call = x.answers[i].to
      BY <1>4, <1>7, <1>8, <2>1 DEF Answering
    <2>7. Answering(x)
      BY <2>2, <2>3, <2>4, <2>5, <2>6 DEF Answering
    <2>8. Expected(x, m)
      BY <2>1, <1>6, <1>7 DEF Expected
    <2> QED BY <2>2, <2>7, <2>8 DEF Answerable
  <1>9. Good(x, style)
    BY <1>1, <1>7, <1>8, SettledGood DEF Good
  <1>10. Fitting(x, s, m) /\ m.kind # "call"
    BY <1>5 DEF Fitting, Carried, Announced, Apart, Carrier
  <1>11. style # "careless" => Answerable(x, m)
    BY <1>8 DEF Good
  <1> QED BY <1>4, <1>5, <1>7, <1>9, <1>10, <1>11, SendGood

\* A responder that was run is gone, so no second answer is sent.
LEMMA UnaskGood ==
  ASSUME NEW v \in Worlds, NEW st, Good(v, st), NEW q \in v.asked,
         NEW x, x = [v EXCEPT !.asked = @ \ {q}],
         NEW m \in Messages, m.kind = "response", m.n = q.rid, m.call = q.call
  PROVE  /\ x \in Worlds /\ Good(x, st) /\ x.ends = v.ends
         /\ st # "careless" => Answerable(x, m)
  <1>1. v.asked \in SUBSET Asks /\ q \in Asks
    BY Fields
  <1>2. Asking(m) /\ AskOf(m) = q
    BY <1>1 DEF Asking, AskOf, Asks
  <1>3. PICK a \in SUBSET Asks : a = v.asked \ {q}
    BY <1>1
  <1>4. /\ x \in Worlds /\ Settled(v, x) /\ x.wire = v.wire /\ x.prim = v.prim
        /\ x.pending = v.pending /\ x.nextReq = v.nextReq /\ x.asked = a
        /\ x.answers = v.answers /\ x.ends = v.ends
    <2>1. x = [v EXCEPT !.asked = a]
      BY <1>3
    <2> QED BY <2>1, ZenonT(40) DEF Worlds, Settled
  <1>5. ASSUME Answering(v)
        PROVE  Answering(x) /\ Answerable(x, m)
    <2>1. \A t \in Sides : \A i \in DOMAIN x.wire[t] :
            Expected(x, x.wire[t][i]) /\ Different(x.wire[t][i], m)
      BY <1>2, <1>3, <1>4, <1>5 DEF Answering, Expected, Different
    <2>2. Answering(x)
      BY <1>3, <1>4, <1>5, <2>1, ZenonT(40) DEF Answering
    <2>3. Expected(x, m)
      BY <1>2, <1>3, <1>4, <1>5 DEF Answering, Expected
    <2> QED BY <2>1, <2>2, <2>3 DEF Answerable
  <1>6. Good(x, st)
    BY <1>4, <1>5, SettledGood DEF Good
  <1> QED BY <1>4, <1>5, <1>6 DEF Good

\* The implementation answers, perhaps with an endpoint.
LEMMA RespondStep ==
  ASSUME Good(w, style), NEW q \in w.asked, Respond(q)
  PROVE  Good(w', style)
  <1>1. w \in Worlds
    BY DEF Good, Sound
  <1>2. PICK s \in Sides : s = "B"
    BY DEF Sides
  <1>3. q.rid \in Nat /\ q.call \in Nat
    BY <1>1, Fields DEF Asks
  <1>4. PICK v : v = [w EXCEPT !.asked = @ \ {q}]
    OBVIOUS
  <1>5. CASE w' = Send(v, "B", Msg("response", NoId, "none", q.rid, q.call))
    <2>1. PICK m \in Messages : m = Msg("response", NoId, "none", q.rid, q.call)
      BY <1>3 DEF Messages, Msg, Kinds, Clients
    <2>2. m.kind = "response" /\ m.id = NoId /\ m.n = q.rid /\ m.call = q.call
      BY <2>1 DEF Msg
    <2>3. v \in Worlds /\ Good(v, style) /\ (style # "careless" => Answerable(v, m))
      BY <1>1, <1>4, <2>2, UnaskGood
    <2>4. Fitting(v, s, m) /\ m.kind # "call"
      BY <2>2 DEF Fitting, Carried, Announced, Apart, Carrier
    <2>5. Good(Send(v, s, m), style)
      BY <2>3, <2>4, SendGood
    <2> QED BY <1>2, <1>5, <2>1, <2>5
  <1>6. ASSUME NEW id \in Ids, NEW role \in Roles, w.ends[id][role] = Held("B"),
               w' = Send([DropEndpointHandle(v, "B", id)
                            EXCEPT !.ends[id][role] = [Gone EXCEPT !.at = "wire"]],
                         "B", Msg("response", id, role, q.rid, q.call))
        PROVE  Good(w', style)
    <2> DEFINE u == [DropEndpointHandle(v, "B", id) EXCEPT
                       !.ends[id][role] = [Gone EXCEPT !.at = "wire"]]
    <2>1. PICK m \in Messages : m = Msg("response", id, role, q.rid, q.call)
      <3>1. role \in Clients /\ "response" \in Kinds /\ id \in Ids \cup {NoId}
        BY DEF Clients, Kinds
      <3> QED BY <3>1, <1>3, MsgType
    <2>2. /\ m.kind = "response" /\ m.id = id /\ m.role = role /\ m.n = q.rid
          /\ m.call = q.call
      BY <2>1 DEF Msg
    <2>3. /\ v \in Worlds /\ Good(v, style) /\ (style # "careless" => Answerable(v, m))
          /\ v.ends = w.ends
      BY <1>1, <1>4, <2>2, UnaskGood
    <2>4. /\ Good(u, style) /\ u \in Worlds /\ u.ends[id][role].at = "wire" /\ Aside(v, u)
          /\ \A t \in Sides : \A i \in DOMAIN u.wire[t] :
               ~(Carrier(u.wire[t][i]) /\ u.wire[t][i].id = id /\ u.wire[t][i].role = role)
      BY <1>2, <1>6, <2>3, HandOverGood
    <2> HIDE DEF u
    <2>5. Fitting(u, s, m) /\ m.kind # "call"
      BY <2>2, <2>4, CarryFits
    <2>6. style # "careless" => Answerable(u, m)
      BY <2>3, <2>4 DEF Aside, Answerable, Expected
    <2>7. Good(Send(u, s, m), style)
      BY <2>4, <2>5, <2>6, SendGood
    <2> QED BY <1>2, <1>6, <2>1, <2>7 DEF u
  <1> QED BY <1>4, <1>5, <1>6 DEF Respond, Becomes

\* reset() and reset_with_reason() of an associated object.
LEMMA ResetAssociatedStep ==
  ASSUME Good(w, style), NEW s \in Sides, NEW id \in Ids, NEW role \in Roles,
         ResetAssociated(s, id, role)
  PROVE  Good(w', style)
  <1>1. w \in Worlds
    BY DEF Good, Sound
  <1>2. w.ends[id][role].at = s /\ w.drain[s].id = NoId
    BY DEF ResetAssociated, Free, Draining
  <1>3. PICK x : x = [w EXCEPT !.ends[id][role].at = "none", !.ends[id][role].bound = FALSE]
    OBVIOUS
  <1>4. IsLoose(w, x, id, role)
    BY <1>3 DEF IsLoose
  <1>5. \/ w' = ReleaseRouter(CloseEndpoint(x, s, id), s)
        \/ w' = ReleaseRouter(CloseEndpoint(DetachEndpointClient(x, s, id), s, id), s)
        \/ w' = ReleaseRouter(DropEndpointHandle(DetachEndpointClient(
                  NotifyPeerEndpointClosed(x, s, id), s, id), s, id), s)
    BY <1>3 DEF ResetAssociated, Becomes
  <1> QED BY <1>1, <1>2, <1>4, <1>5, ResetAssociatedGood

\* set_disconnect_handler of a bound object.
LEMMA SetPeerClosedHandlerStep ==
  ASSUME Good(w, style), NEW s \in Sides, NEW id \in Ids, NEW role \in Roles,
         SetPeerClosedHandler(s, id, role)
  PROVE  Good(w', style)
  <1> DEFINE e == w.ep[s][id]
             f == [e EXCEPT !.live = TRUE, !.handler = role]
  <1>1. w \in Worlds /\ Sound(w) /\ Exact(w)
    BY DEF Good, Sound
  <1>2. w.ends[id][role].at = s /\ w.ends[id][role].bound
    BY DEF SetPeerClosedHandler
  <1>3. e \in Endpoints /\ e.live /\ e.refs > 0
    BY <1>1, <1>2, HeldEntry
  <1>4. /\ f \in Endpoints /\ f.refs = e.refs /\ f.live /\ f.client = e.client
        /\ f.queue = e.queue /\ f.handler = role
    BY <1>3 DEF Endpoints, Clients
  <1>5. PICK u : u = Put(w, s, id, f)
    OBVIOUS
  <1>6. w' = u
    <2> DEFINE d == [e EXCEPT !.live = TRUE]
               y == Put(w, s, id, d)
    <2>1. w' = [y EXCEPT !.ep[s][id].handler = role]
      BY DEF SetPeerClosedHandler, Becomes, Put
    <2>2. d \in Endpoints /\ f = [d EXCEPT !.handler = role]
      <3> HIDE DEF e
      <3> QED BY <1>3 DEF Endpoints
    <2> HIDE DEF d
    <2>3. y.ep[s][id] = d /\ \A g : Put(y, s, id, g) = Put(w, s, id, g)
      BY <1>1, <2>2, PutFacts
    <2>4. [y EXCEPT !.ep[s][id].handler = role]
            = Put(y, s, id, [y.ep[s][id] EXCEPT !.handler = role])
      BY DEF Put
    <2> HIDE DEF y, f
    <2> QED BY <1>5, <2>1, <2>2, <2>3, <2>4
  <1> HIDE DEF f
  <1>7. /\ u \in Worlds /\ Aside(w, u) /\ u.ends = w.ends
        /\ \A t \in Sides, j \in Ids :
             u.ep[t][j] = IF t = s /\ j = id THEN f ELSE w.ep[t][j]
    BY <1>1, <1>4, <1>5, PutAside
  <1>8. Sound(u)
    <2>1. Wrote(w, u, s, id, f)
      BY <1>7 DEF Wrote
    <2>2. Steady(w, u)
      BY <1>7 DEF Steady, Aside
    <2>3. Counted(w.ep[s][id], f)
      BY <1>3, <1>4 DEF Counted
    <2>4. Owned(u, s, id, f)
      <3>1. e.client # "none" => w.ends[id][e.client].at = s /\ w.ends[id][e.client].bound
        BY <1>1, ClientAt, Zenon
      <3> HIDE DEF e
      <3>2. f.client = e.client /\ u.ends = w.ends
        BY <1>4, <1>7, Zenon
      <3> QED BY <3>1, <3>2, Zenon DEF Owned
    <2>5. Handled(w, u, s, id, f)
      BY <1>2, <1>4, <1>7 DEF Handled
    <2> QED BY <1>1, <1>7, <2>1, <2>2, <2>3, <2>4, <2>5, TableSound
  <1>9. Lined(w) /\ InOrder(w) => Lined(u) /\ InOrder(u)
    <2>1. \A t \in Sides, j \in Ids : /\ u.ep[t][j].queue = w.ep[t][j].queue
                                      /\ u.ep[t][j].client \in {w.ep[t][j].client, "none"}
      BY <1>4, <1>7
    <2> QED BY <1>1, <1>7, <2>1, LinesKept, Zenon
  <1>10. Good(u, style)
    BY <1>7, <1>8, <1>9, AsideKeeps DEF Good
  <1> QED BY <1>6, <1>10

\* A Remote that is unbound and bound again starts from an empty router.
LEMMA RebindStep ==
  ASSUME Good(w, style), Rebind, ~restarted'
  PROVE  Good(w', style)
  <1> DEFINE x == [w EXCEPT !.ep["A"] = [i \in Ids |-> Absent]]
             u == [w EXCEPT !.rebinds = 1, !.pending = {}, !.nextReq = 1, !.next["A"] = 1,
                            !.ep["A"] = [i \in Ids |-> Absent]]
  <1>1. w \in Worlds /\ Sound(w)
    BY DEF Good, Sound
  <1>2. /\ style \in {"rebinds", "careless"} /\ w' = u
        /\ \A i \in Ids, r \in Roles : w.ends[i][r].at # "A"
        /\ style = "rebinds" => w.pending = {} /\ \A s \in Sides : w.next[s] = 1
        /\ w.next["A"] = 1
    BY DEF Rebind
  <1>3. PICK s \in Sides : s = "A"
    BY DEF Sides
  <1>4. /\ Sound(x) /\ x.ep = [w.ep EXCEPT !["A"] = [i \in Ids |-> Absent]]
        /\ x.conn = w.conn /\ x.wire = w.wire /\ x.ends = w.ends /\ x.next = w.next
        /\ x.drain = w.drain /\ x.sent = w.sent /\ x.got = w.got
    BY <1>1, <1>2, <1>3, WipeSound
  <1>5. x \in Worlds
    BY <1>4 DEF Sound
  <1>6. /\ x.pending = w.pending /\ x.nextReq = w.nextReq /\ x.prim = w.prim
        /\ x.asked = w.asked /\ x.answers = w.answers
    BY <1>1 DEF Worlds
  <1>7. u = [x EXCEPT !.rebinds = 1, !.pending = {}, !.nextReq = 1]
    <2>1. [w.next EXCEPT !["A"] = 1] = w.next
      BY <1>1, <1>2, Fields
    <2> QED BY <1>1, <2>1 DEF Worlds
  <1> HIDE DEF x, u
  <1>8. /\ u \in Worlds /\ u.pending = {} /\ u.nextReq = 1 /\ u.prim = x.prim
        /\ u.asked = x.asked /\ u.answers = x.answers /\ Settled(x, u) /\ u.wire = x.wire
    BY <1>5, <1>7 DEF Worlds, Settled
  <1>9. Sound(u)
    BY <1>4, <1>5, <1>8, SoundSame DEF Settled
  <1>10. ASSUME style = "rebinds", Answering(w)
         PROVE  Answering(u)
    BY <1>2, <1>4, <1>6, <1>8, <1>10 DEF Answering, Expected
  <1>11. ASSUME style = "rebinds", Lined(w), InOrder(w)
         PROVE  Lined(u) /\ InOrder(u)
    <2>1. ASSUME NEW id \in Ids
          PROVE  w.sent[id] = 0
      <3>1. ~Minted(w, id)
        <4>1. w.next["A"] = 1 /\ w.next["B"] = 1
          BY <1>2, <1>11 DEF Sides
        <4>2. MaxMint \in Nat /\ NamespaceMask \in Nat
          BY IdsArePositive
        <4>3. \/ id \in 1 .. MaxMint
              \/ id \in (NamespaceMask + 1) .. (NamespaceMask + MaxMint)
          BY DEF Ids
        <4> QED BY <4>1, <4>2, <4>3 DEF Minted, NamespaceMask
      <3> QED BY <3>1, <1>1 DEF Sound, Fresh
    <2>2. ASSUME NEW t \in Sides, NEW j \in Ids
          PROVE  /\ x.ep[t][j].queue = w.ep[t][j].queue
                 /\ x.ep[t][j].client \in {w.ep[t][j].client, "none"}
      <3>1. w.ep[t][j].queue = <<>>
        BY <1>1, <1>11, <2>1, NothingWaits DEF Waiting
      <3>2. x.ep[t][j] = w.ep[t][j] \/ x.ep[t][j] = Absent
        BY <1>1, <1>4, Fields
      <3> QED BY <3>1, <3>2 DEF Absent, Endpoint
    <2>3. Aside(w, x)
      BY <1>4, <1>6 DEF Aside
    <2>4. Lined(x) /\ InOrder(x)
      BY <1>1, <1>4, <1>5, <1>11, <2>1, <2>2, <2>3, LinesKept, Zenon
    <2> QED BY <2>4, <1>8, LinesSame DEF Settled
  <1> QED BY <1>2, <1>9, <1>10, <1>11 DEF Good

\* The loop of AttachEndpointClient hands over one message.
OneDrained(v, u, s, id) ==
  /\ u.ep = v.ep /\ u.conn = v.conn /\ u.wire = v.wire /\ u.ends = v.ends
  /\ u.sent = v.sent
  /\ u.got[id] = Append(v.got[id], Head(v.drain[s].rest).n)
  /\ \A j \in Ids : j # id => u.got[j] = v.got[j]
  /\ u.drain[Other(s)] = v.drain[Other(s)]
  /\ \/ u.drain[s].id = id /\ u.drain[s].rest = Tail(v.drain[s].rest)
        /\ Len(v.drain[s].rest) # 1
     \/ u.drain[s].id = NoId /\ Len(v.drain[s].rest) = 1

\* The line of the interface moves up by one and keeps its order.
LEMMA DrainLines ==
  ASSUME NEW v \in Worlds, NEW u \in Worlds, NEW s \in Sides, NEW id \in Ids,
         Lined(v), InOrder(v), v.drain[s].id = id, OneDrained(v, u, s, id)
  PROVE  Lined(u) /\ InOrder(u)
  <1>1. Other(s) \in Sides /\ Other(s) # s /\ Other(Other(s)) = s
        /\ \A t \in Sides : t = s \/ t = Other(s)
    BY Pairs
  <1>2. /\ Waiting(v, s, id) /\ ~Waiting(v, Other(s), id)
        /\ v.ends[id]["remote"].at \in {Other(s), "none"}
        /\ v.drain[s].rest # <<>> /\ v.ep[s][id].queue = <<>>
    BY <1>1 DEF Lined, Waiting
  <1>3. /\ v.drain[Other(s)].id # id /\ v.ep[Other(s)][id].queue = <<>>
        /\ \A i \in DOMAIN v.wire[Other(s)] : ~IsCall(v.wire[Other(s)][i], id)
    BY <1>2 DEF Waiting
  <1>4. PICK q \in Seq(Messages) : q = v.drain[s].rest /\ q # <<>>
    BY <1>2, Fields DEF Loops
  <1>5. /\ Head(q) \in Messages /\ Len(Tail(q)) = Len(q) - 1 /\ Len(q) \in Nat
        /\ Len(q) >= 1 /\ Head(q) = q[1] /\ 1 \in DOMAIN q
        /\ \A i \in DOMAIN Tail(q) : i + 1 \in DOMAIN q /\ Tail(q)[i] = q[i + 1]
    BY <1>4, TailAt
  <1>6. PICK a \in Nat, c \in Nat : a = Len(v.got[id]) /\ c = Len(q) - 1
    BY <1>5, LineLengths
  <1>7. PICK n \in Nat : n = Head(q).n /\ n = a + 1
    <2>1. Queued(v, s, id)
      BY DEF InOrder
    <2>2. q[1].n = Len(v.got[id]) + 1
      BY <2>1, <1>4, <1>5 DEF Queued
    <2> QED BY <2>2, <1>5, <1>6
  <1>8. /\ \A i \in DOMAIN u.got[id] : u.got[id][i] = i
        /\ Len(u.got[id]) = a + 1
    <2>1. v.got[id] \in Seq(Nat) /\ \A i \in DOMAIN v.got[id] : v.got[id][i] = i
      BY Fields DEF InOrder
    <2>2. u.got[id] = Append(v.got[id], n)
      BY <1>4, <1>7 DEF OneDrained
    <2> QED BY <2>1, <2>2, <1>6, <1>7, CountingOn
  <1>9. Drained(v, s, id) = c + 1 /\ Drained(u, s, id) = c
    <2>1. Drained(v, s, id) = c + 1
      BY <1>4, <1>5, <1>6 DEF Drained
    <2>2. CASE u.drain[s].id = id /\ u.drain[s].rest = Tail(q)
      BY <2>1, <2>2, <1>5, <1>6 DEF Drained
    <2>3. CASE u.drain[s].id = NoId /\ Len(q) = 1
      BY <2>1, <2>3, <1>6, IdsArePositive DEF Drained
    <2> QED BY <2>1, <2>2, <2>3, <1>4 DEF OneDrained
  <1>10. Base(v, s, id) = a + c + 1 /\ Base(u, s, id) = a + c + 1
    <2>1. Len(v.ep[s][id].queue) = 0 /\ Len(u.ep[s][id].queue) = 0
      BY <1>2 DEF OneDrained
    <2> QED BY <2>1, <1>6, <1>8, <1>9 DEF Base
  <1>11. Base(u, Other(s), id) = a + 1
    <2>1. Drained(u, Other(s), id) = 0 /\ Len(u.ep[Other(s)][id].queue) = 0
      BY <1>3 DEF OneDrained, Drained
    <2> QED BY <2>1, <1>8 DEF Base
  <1>12. ASSUME NEW t \in Sides, NEW j \in Ids, j # id
         PROVE  Base(u, t, j) = Base(v, t, j) /\ Drained(u, t, j) = Drained(v, t, j)
    <2>1. Drained(u, t, j) = Drained(v, t, j)
      BY <1>1, <1>12, IdsArePositive DEF Drained, OneDrained
    <2> QED BY <2>1, <1>12 DEF Base, OneDrained
  <1>13. ASSUME NEW t \in Sides, NEW j \in Ids, Waiting(u, t, j)
         PROVE  Waiting(v, t, j)
    <2>1. u.drain[t].id = j => v.drain[t].id = j
      BY <1>1, IdsArePositive DEF OneDrained
    <2> QED BY <2>1, <1>13 DEF Waiting, OneDrained
  <1>14. ASSUME NEW t \in Sides, NEW j \in Ids
         PROVE  /\ u.drain[t].id = j => u.drain[t].rest # <<>> /\ u.ep[t][j].queue = <<>>
                /\ u.ep[t][j].queue # <<>> => u.ep[t][j].client = "none"
                /\ Base(u, t, j) <= u.sent[j]
    <2>0. /\ v.drain[t].id = j => v.drain[t].rest # <<>> /\ v.ep[t][j].queue = <<>>
          /\ v.ep[t][j].queue # <<>> => v.ep[t][j].client = "none"
          /\ Base(v, t, j) <= v.sent[j]
      BY DEF Lined
    <2>1. u.drain[t].id = j => u.drain[t].rest # <<>> /\ u.ep[t][j].queue = <<>>
      <3> SUFFICES ASSUME u.drain[t].id = j
                   PROVE  u.drain[t].rest # <<>> /\ u.ep[t][j].queue = <<>>
        OBVIOUS
      <3>1. u.drain[t] \in Loops /\ j # NoId
        BY Fields, IdsArePositive
      <3>2. u.drain[t].rest # <<>>
        BY <3>1 DEF Loops
      <3>3. v.drain[t].id = j
        BY <1>1, IdsArePositive DEF OneDrained
      <3> QED BY <3>2, <3>3, <2>0 DEF OneDrained
    <2>2. Base(u, t, j) <= u.sent[j]
      <3>1. PICK m \in Nat : m = v.sent[id] /\ a + c + 1 <= m
        BY <1>10, LineLengths DEF Lined
      <3>2. CASE j # id
        BY <3>2, <2>0, <1>12 DEF OneDrained
      <3>3. CASE j = id /\ t = s
        BY <3>1, <3>3, <1>10 DEF OneDrained
      <3>4. CASE j = id /\ t = Other(s)
        BY <3>1, <3>4, <1>11 DEF OneDrained
      <3> QED BY <3>2, <3>3, <3>4, <1>1
    <2> QED BY <2>0, <2>1, <2>2 DEF OneDrained
  <1>15. ASSUME NEW t \in Sides, NEW j \in Ids
         PROVE  /\ Waiting(u, t, j) => u.ends[j]["remote"].at \in {Other(t), "none"}
                /\ ~(Waiting(u, t, j) /\ Waiting(u, Other(t), j))
    <2>1. /\ Waiting(v, t, j) => v.ends[j]["remote"].at \in {Other(t), "none"}
          /\ ~(Waiting(v, t, j) /\ Waiting(v, Other(t), j))
      BY DEF Lined
    <2> QED BY <2>1, <1>13, Pairs DEF OneDrained
  <1>16. /\ \A t \in Sides : \A i \in DOMAIN u.wire[t] :
              u.wire[t][i].kind = "call" =>
                u.wire[t][i].id # NoId /\ u.wire[t][i].n <= u.sent[u.wire[t][i].id]
         /\ \A j \in Ids :
              /\ u.ends[j]["remote"].at # "none"
              /\ u.ends[j]["remote"].bound => u.ends[j]["remote"].at = "wire"
              => u.sent[j] = 0
    BY SMTT(40) DEF Lined, OneDrained
  <1>17. Lined(u)
    BY <1>14, <1>15, <1>16 DEF Lined
  <1>18. ASSUME NEW t \in Sides, NEW j \in Ids
         PROVE  Rising(u, t, j) /\ Gapless(u, t, j) /\ Complete(u, t, j) /\ Queued(u, t, j)
    <2>0. /\ Rising(v, t, j) /\ Gapless(v, t, j) /\ Complete(v, t, j) /\ Queued(v, t, j)
          /\ \A k : Known(u, t, j, k) <=> Known(v, t, j, k)
          /\ u.wire = v.wire /\ u.conn = v.conn /\ u.ends = v.ends /\ u.sent = v.sent
          /\ u.ep = v.ep
      BY DEF InOrder, Known, OneDrained
    <2>1. Rising(u, t, j)
      BY <2>0 DEF Rising
    <2>2. CASE j # id
      <3>1. /\ u.got[j] = v.got[j] /\ u.drain[t].id = j => v.drain[t] = u.drain[t]
        BY <2>2, <1>1, IdsArePositive DEF OneDrained
      <3>2. Queued(u, t, j)
        <4>1. u.drain[t].id = j => v.drain[t] = u.drain[t]
          BY <2>2, <1>1, IdsArePositive, SMTT(40) DEF OneDrained
        <4>2. u.got[j] = v.got[j]
          BY <2>2 DEF OneDrained
        <4> QED BY <4>1, <4>2, <2>0, <2>2, <1>12 DEF Queued
      <3>3. Gapless(u, t, j) /\ Complete(u, t, j)
        BY <2>0, <2>2, <1>12 DEF Gapless, Complete
      <3> QED BY <2>1, <3>2, <3>3
    <2>3. CASE j = id /\ t = s
      <3>1. Gapless(u, t, j) /\ Complete(u, t, j)
        BY <2>0, <2>3, <1>10 DEF Gapless, Complete
      <3>2. ASSUME u.drain[s].id = id, NEW i \in DOMAIN u.drain[s].rest
            PROVE  u.drain[s].rest[i].n = Len(u.got[id]) + i
        <4>1. u.drain[s].rest = Tail(q)
          BY <3>2, <1>4, IdsArePositive DEF OneDrained
        <4>2. i + 1 \in DOMAIN q /\ Tail(q)[i] = q[i + 1]
          BY <4>1, <3>2, <1>5
        <4>3. Tail(q) \in Seq(Messages)
          BY <1>4, TailAt
        <4>4. i \in Nat
          BY <4>1, <4>3, <3>2, PositionOf
        <4>5. q[i + 1].n = a + (i + 1)
          BY <4>2, <2>0, <2>3, <1>4, <1>6 DEF Queued
        <4> QED BY <4>1, <4>2, <4>4, <4>5, <1>8
      <3>3. Queued(u, t, j)
        BY <2>0, <2>3, <3>2, <1>2 DEF Queued
      <3> QED BY <2>1, <2>3, <3>1, <3>3
    <2>4. CASE j = id /\ t = Other(s)
      <3>1. Gapless(u, t, j)
        BY <2>0, <2>4, <1>3 DEF Gapless
      <3>2. u.ends[id]["remote"].at # Other(t)
        BY <2>0, <2>4, <1>1, <1>2 DEF Sides
      <3>3. Complete(u, t, j)
        BY <2>4, <3>2 DEF Complete
      <3>4. u.drain[t].id # id /\ u.ep[t][id].queue = <<>>
        BY <2>4, <1>3 DEF OneDrained
      <3>5. Queued(u, t, j)
        BY <2>4, <3>4 DEF Queued
      <3> QED BY <2>1, <3>1, <3>3, <3>5
    <2> QED BY <2>2, <2>3, <2>4, <1>1
  <1>19. ASSUME NEW j \in Ids PROVE \A i \in DOMAIN u.got[j] : u.got[j][i] = i
    <2>1. CASE j = id
      BY <2>1, <1>8
    <2>2. CASE j # id
      <3>1. u.got[j] = v.got[j]
        BY <2>2 DEF OneDrained
      <3> QED BY <3>1 DEF InOrder
    <2> QED BY <2>1, <2>2
  <1> QED BY <1>17, <1>18, <1>19 DEF InOrder

\* A loop under way keeps the invariant.
LEMMA DrainStep ==
  ASSUME Good(w, style), NEW s \in Sides, Drain(s)
  PROVE  Good(w', style)
  <1>1. w \in Worlds /\ Sound(w)
    BY DEF Good, Sound
  <1>2. w.drain[s] \in Loops /\ w.drain[s].id # NoId
    BY <1>1, Fields DEF Drain, Draining
  <1>3. PICK id \in Ids : id = w.drain[s].id
    BY <1>2 DEF Loops
  <1>4. PICK q \in Seq(Messages) : q = w.drain[s].rest /\ q # <<>>
    BY <1>2 DEF Loops
  <1>5. /\ Head(q) \in Messages /\ Tail(q) \in Seq(Messages) /\ Len(q) \in Nat /\ Len(q) >= 1
        /\ Len(Tail(q)) = Len(q) - 1
    BY <1>4, TailAt
  <1>6. PICK n \in Nat : n = Head(q).n
    BY <1>5 DEF Messages
  <1>7. PICK l : l = IF Len(q) = 1 THEN [id |-> NoId, rest |-> <<>>]
                     ELSE [id |-> id, rest |-> Tail(q)]
    OBVIOUS
  <1>8. /\ l \in Loops
        /\ \/ l.id = id /\ l.rest = Tail(q) /\ Len(q) # 1
           \/ l.id = NoId /\ Len(q) = 1
    <2>1. CASE Len(q) = 1
      <3>1. l = [id |-> NoId, rest |-> <<>>] /\ <<>> \in Seq(Messages)
        BY <2>1, <1>7
      <3> QED BY <2>1, <3>1 DEF Loops
    <2>2. CASE Len(q) # 1
      <3>1. Tail(q) # <<>>
        <4>1. CASE Tail(q) = <<>>
          <5>1. Len(Tail(q)) = 0
            BY <4>1, <1>5, EmptySeq
          <5> QED BY <5>1, <2>2, <1>5
        <4> QED BY <4>1
      <3>2. l = [id |-> id, rest |-> Tail(q)]
        BY <2>2, <1>7
      <3> QED BY <2>2, <3>1, <3>2, <1>5 DEF Loops
    <2> QED BY <2>1, <2>2
  <1> DEFINE x == [w EXCEPT !.got[id] = Append(@, n)]
             u == [x EXCEPT !.drain[s] = l]
  <1>9. w' = u
    <2>1. w' = [w EXCEPT !.got[id] = Append(@, n), !.drain[s] = l]
      BY <1>3, <1>4, <1>6, <1>7 DEF Drain, Becomes
    <2> QED BY <2>1
  <1>10. x \in Worlds /\ GotOne(w, x, id, n)
    BY <1>1, GotEffect
  <1> HIDE DEF x
  <1>11. /\ u \in Worlds /\ u.drain = [x.drain EXCEPT ![s] = l]
         /\ u.ep = x.ep /\ u.next = x.next /\ u.conn = x.conn /\ u.wire = x.wire
         /\ u.ends = x.ends /\ u.sent = x.sent /\ u.got = x.got /\ u.prim = x.prim
         /\ u.pending = x.pending /\ u.nextReq = x.nextReq /\ u.asked = x.asked
         /\ u.answers = x.answers
    BY <1>8, <1>10 DEF Worlds
  <1> HIDE DEF u
  <1>12. Sound(u)
    <2>1. Sound(x)
      BY <1>1, <1>10, GotSound
    <2> QED BY <2>1, <1>10, <1>11, SoundSame
  <1>13. Answering(w) => Answering(u)
    <2>1. Answering(w) => Answering(x)
      BY <1>1, <1>10, GotSound
    <2> QED BY <2>1, <1>11, AnsweringSame
  <1>14. OneDrained(w, u, s, id)
    <2>1. u.drain[s] = l /\ u.drain[Other(s)] = w.drain[Other(s)]
      <3>1. w.drain \in [Sides -> Loops] /\ x.drain = w.drain
        BY <1>1, <1>10, Fields DEF GotOne
      <3> QED BY <3>1, <1>11, Pairs
    <2> QED BY <2>1, <1>4, <1>6, <1>8, <1>10, <1>11 DEF OneDrained, GotOne
  <1>15. Lined(w) /\ InOrder(w) => Lined(u) /\ InOrder(u)
    BY <1>1, <1>3, <1>11, <1>14, DrainLines
  <1> QED BY <1>9, <1>12, <1>13, <1>15 DEF Good

\* The world after a call that was made through the Remote of side s.
Called(v, u, s, id) ==
  /\ u.ep = v.ep /\ u.ends = v.ends /\ u.drain = v.drain /\ u.got = v.got
  /\ u.sent[id] = v.sent[id] + 1 /\ \A j \in Ids : j # id => u.sent[j] = v.sent[j]

\* A call goes to the end of the line that its Remote keeps, or the pipe is
\* closed and the line ends.
LEMMA CallInOrder ==
  ASSUME NEW v \in Worlds, NEW u \in Worlds, NEW s \in Sides, NEW id \in Ids,
         Lined(v), InOrder(v), v.ends[id]["remote"].at = s, v.ends[id]["remote"].bound,
         NEW m \in Messages, IsCall(m, id), m.n = v.sent[id] + 1,
         Called(v, u, s, id), Posted(v, u, s, m), Silent(u),
         u.conn[Other(s)] = "open" => u.wire[Other(s)] = Append(v.wire[Other(s)], m)
  PROVE  InOrder(u)
  <1>1. Other(s) \in Sides /\ Other(s) # s /\ Other(Other(s)) = s
        /\ \A t \in Sides : t = s \/ t = Other(s)
    BY Pairs
  <1>2. ASSUME NEW t \in Sides, NEW j \in Ids
        PROVE  /\ Base(u, t, j) = Base(v, t, j) /\ (Queued(v, t, j) => Queued(u, t, j))
               /\ u.got[j] = v.got[j]
    BY ZenonT(40) DEF Called, Base, Drained, Queued
  <1>3. ASSUME NEW t \in Sides, NEW j \in Ids, u.conn[t] # "open"
        PROVE  Rising(u, t, j) /\ Gapless(u, t, j) /\ Complete(u, t, j)
    <2>1. u.wire[t] = <<>>
      BY <1>3 DEF Silent
    <2> QED BY <2>1, <1>3 DEF Rising, Gapless, Complete
  <1>4. ASSUME NEW t \in Sides, NEW k, NEW j \in Ids, Known(v, t, j, k), u.conn[t] = "open"
        PROVE  Known(u, t, j, k)
    <2>1. PICK i \in DOMAIN v.wire[t] : IsCall(v.wire[t][i], j) /\ v.wire[t][i].n = k
      BY <1>4 DEF Known
    <2>2. CASE u.wire[t] = v.wire[t]
      BY <2>1, <2>2 DEF Known
    <2>3. CASE u.wire[t] = Append(v.wire[t], m)
      <3>1. v.wire[t] \in Seq(Messages)
        BY Fields
      <3>2. i \in Nat /\ i >= 1 /\ i <= Len(v.wire[t]) /\ Len(v.wire[t]) \in Nat
        BY <3>1, PositionOf
      <3>3. i \in DOMAIN u.wire[t] /\ u.wire[t][i] = v.wire[t][i]
        BY <2>3, <3>1, <3>2, AppendAt
      <3> QED BY <2>1, <3>3 DEF Known
    <2> QED BY <1>4, <2>2, <2>3 DEF Posted
  <1>5. ASSUME NEW t \in Sides, NEW j \in Ids, t # Other(s) \/ j # id, u.conn[t] = "open"
        PROVE  Rising(u, t, j) /\ Gapless(u, t, j) /\ Complete(u, t, j)
    <2>0. Rising(v, t, j) /\ Gapless(v, t, j) /\ Complete(v, t, j)
      BY DEF InOrder
    <2>1. ASSUME NEW i \in DOMAIN u.wire[t], IsCall(u.wire[t][i], j)
          PROVE  i \in DOMAIN v.wire[t] /\ u.wire[t][i] = v.wire[t][i]
      BY <1>5, <2>1, PostedAt DEF IsCall
    <2>2. Rising(u, t, j)
      BY <2>0, <2>1 DEF Rising
    <2>3. Gapless(u, t, j)
      BY <2>0, <2>1, <1>2, <1>4, <1>5 DEF Gapless
    <2>4. Complete(u, t, j)
      <3>1. v.conn[t] = "open"
        BY <1>5 DEF Posted
      <3>2. CASE j # id
        BY <3>1, <3>2, <2>0, <1>2, <1>4, <1>5 DEF Complete, Called
      <3>3. CASE j = id /\ t # Other(s)
        <4>1. t = s /\ u.ends[j]["remote"].at = s
          BY <3>3, <1>1 DEF Called
        <4> QED BY <4>1, <1>1 DEF Complete
      <3> QED BY <3>2, <3>3, <1>5
    <2> QED BY <2>2, <2>3, <2>4
  <1>6. ASSUME u.conn[Other(s)] = "open"
        PROVE  /\ Rising(u, Other(s), id) /\ Gapless(u, Other(s), id)
               /\ Complete(u, Other(s), id)
    <2> DEFINE t == Other(s)
               q == v.wire[t]
    <2>1. t \in Sides /\ q \in Seq(Messages) /\ u.wire[t] = Append(q, m)
      BY <1>1, <1>6, Fields
    <2>2. v.conn[t] = "open" /\ v.ends[id]["remote"].at = Other(t)
      BY <1>1, <1>6 DEF Posted
    <2> HIDE DEF t
    <2>3. PICK b \in Nat, n \in Nat : b = Base(v, t, id) /\ n = v.sent[id] /\ b <= n
      BY <2>1, LineLengths, SMTT(40) DEF Lined
    <2>4. /\ Rising(v, t, id) /\ Gapless(v, t, id)
          /\ \A k \in Nat : k > b /\ k <= n => Known(u, t, id, k)
      BY <2>1, <2>2, <2>3, <1>1, <1>4, <1>6 DEF InOrder, Complete, t
    <2>5. PICK l \in Nat : l = Len(q)
      BY <2>1
    <2>6. /\ l + 1 \in DOMAIN u.wire[t] /\ u.wire[t][l + 1] = m
          /\ DOMAIN u.wire[t] = 1 .. l + 1 /\ DOMAIN q = 1 .. l
          /\ \A i \in 1 .. l : u.wire[t][i] = q[i]
      BY <2>1, <2>5, AppendAt
    <2>7. m.n = n + 1
      BY <2>3
    <2>8. ASSUME NEW i \in 1 .. l, IsCall(u.wire[t][i], id)
          PROVE  u.wire[t][i].n <= n /\ u.wire[t][i].n \in Nat
      <3>1. q[i] \in Messages /\ u.wire[t][i] = q[i]
        BY <2>1, <2>6, PositionOf
      <3>2. q[i].n <= v.sent[q[i].id] /\ q[i].id = id
        BY <3>1, <2>1, <2>6, <2>8 DEF IsCall, Lined
      <3> QED BY <3>1, <3>2, <2>3 DEF Messages
    <2>9. Rising(u, t, id)
      <3> SUFFICES ASSUME NEW i \in DOMAIN u.wire[t], NEW j \in DOMAIN u.wire[t],
                          IsCall(u.wire[t][i], id), IsCall(u.wire[t][j], id), i < j
                   PROVE  u.wire[t][i].n < u.wire[t][j].n
        BY DEF Rising
      <3>1. CASE j \in 1 .. l
        <4>1. i \in 1 .. l
          BY <3>1, <2>6
        <4> QED BY <3>1, <4>1, <2>4, <2>6 DEF Rising
      <3>2. CASE j = l + 1
        <4>1. i \in 1 .. l
          BY <3>2, <2>6
        <4> QED BY <3>2, <4>1, <2>6, <2>7, <2>8
      <3> QED BY <3>1, <3>2, <2>6
    <2>10. Gapless(u, t, id)
      <3> SUFFICES ASSUME NEW i \in DOMAIN u.wire[t], IsCall(u.wire[t][i], id)
                   PROVE  /\ u.wire[t][i].n > b
                          /\ \A k \in Nat : k > b /\ k < u.wire[t][i].n
                                              => Known(u, t, id, k)
        BY <2>1, <2>3, <1>2 DEF Gapless
      <3>1. CASE i \in 1 .. l
        <4>1. u.wire[t][i] = q[i] /\ i \in DOMAIN q
          BY <3>1, <2>6
        <4> QED BY <4>1, <2>1, <2>3, <2>4, <1>4, <1>6 DEF Gapless, t
      <3>2. CASE i = l + 1
        BY <3>2, <2>3, <2>4, <2>6, <2>7
      <3> QED BY <3>1, <3>2, <2>6
    <2>11. Complete(u, t, id)
      <3>1. Known(u, t, id, n + 1)
        BY <2>6, <2>7 DEF Known
      <3>2. \A k \in Nat : k > b /\ k <= n + 1 => Known(u, t, id, k)
        BY <3>1, <2>3, <2>4
      <3>3. Base(u, t, id) = b /\ u.sent[id] = n + 1
        BY <2>1, <2>3, <1>2 DEF Called
      <3> QED BY <3>2, <3>3 DEF Complete
    <2> QED BY <2>9, <2>10, <2>11 DEF t
  <1>7. ASSUME NEW t \in Sides, NEW j \in Ids
        PROVE  Rising(u, t, j) /\ Gapless(u, t, j) /\ Complete(u, t, j) /\ Queued(u, t, j)
    <2>1. Rising(u, t, j) /\ Gapless(u, t, j) /\ Complete(u, t, j)
      <3>1. CASE u.conn[t] # "open"
        BY <3>1, <1>3
      <3>2. CASE u.conn[t] = "open" /\ (t # Other(s) \/ j # id)
        BY <3>2, <1>5
      <3>3. CASE u.conn[t] = "open" /\ t = Other(s) /\ j = id
        BY <3>3, <1>6
      <3> QED BY <3>1, <3>2, <3>3
    <2>2. Queued(v, t, j)
      BY DEF InOrder
    <2> QED BY <2>1, <2>2, <1>2
  <1> QED BY <1>2, <1>7 DEF InOrder

\* A method of a bound AssociatedRemote.
LEMMA CallStep ==
  ASSUME Good(w, style), NEW s \in Sides, NEW id \in Ids, Call(s, id)
  PROVE  Good(w', style)
  <1> DEFINE x == [w EXCEPT !.sent[id] = @ + 1]
             k == w.sent[id] + 1
             m == Msg("call", id, "none", k, 0)
             u == Send(x, s, m)
  <1>1. w \in Worlds /\ Sound(w)
    BY DEF Good, Sound
  <1>2. /\ w.ends[id]["remote"].at = s /\ w.ends[id]["remote"].bound
        /\ w.conn[s] = "open" /\ w' = u
    BY DEF Call, Becomes
  <1>3. k \in Nat /\ w.sent \in [Ids -> Nat]
    BY <1>1, Fields
  <1> HIDE DEF k
  <1>4. m \in Messages /\ m.kind = "call" /\ m.id = id /\ m.n = k
    BY <1>3 DEF Messages, Msg, Kinds, Clients
  <1> HIDE DEF m
  <1>5. /\ x \in Worlds /\ x.sent = [w.sent EXCEPT ![id] = k]
        /\ x.ep = w.ep /\ x.next = w.next /\ x.conn = w.conn /\ x.wire = w.wire
        /\ x.ends = w.ends /\ x.drain = w.drain /\ x.got = w.got /\ x.prim = w.prim
        /\ x.pending = w.pending /\ x.nextReq = w.nextReq /\ x.asked = w.asked
        /\ x.answers = w.answers
    <2>1. PICK f \in [Ids -> Nat] : f = [w.sent EXCEPT ![id] = k]
      BY <1>3
    <2>2. x = [w EXCEPT !.sent = f]
      BY <2>1 DEF k
    <2> HIDE DEF x
    <2> QED BY <1>1, <2>1, <2>2 DEF Worlds
  <1> HIDE DEF x
  <1>6. /\ x.sent[id] = w.sent[id] + 1
        /\ \A j \in Ids : j # id => x.sent[j] = w.sent[j]
    BY <1>3, <1>5 DEF k
  <1>7. Minted(w, id)
    BY <1>1, <1>2 DEF Sound, Fresh, Gone, Roles, Sides
  <1>8. Sound(x)
    BY <1>1, <1>5, <1>6, <1>7, SoundSame
  <1>9. u \in Worlds /\ Kept(x, u) /\ Posted(x, u, s, m) /\ Silent(u)
    BY <1>4, <1>5, <1>8, SendEffect DEF Sound
  <1>10. u.conn[Other(s)] = "open" => u.wire[Other(s)] = Append(w.wire[Other(s)], m)
    <2>1. CASE x.conn[Other(s)] # "open"
      BY <2>1, <1>9, Pairs DEF Posted
    <2>2. CASE x.conn[Other(s)] = "open"
      <3>1. u = [x EXCEPT !.wire[Other(s)] = Append(@, m)]
        BY <2>2, <1>2, <1>5 DEF Send
      <3>2. x.wire \in [Sides -> Seq(Messages)] /\ Other(s) \in Sides
        BY <1>5, Fields, Pairs
      <3>3. u.wire = [x.wire EXCEPT ![Other(s)] = Append(@, m)]
        <4> HIDE DEF u
        <4> QED BY <3>1, <1>5 DEF Worlds
      <3> QED BY <3>2, <3>3, <1>5
    <2> QED BY <2>1, <2>2
  <1> HIDE DEF u
  <1>11. Sound(u)
    <2>1. Exact(u) /\ Fresh(u)
      BY <1>5, <1>8, <1>9, ExactPosted DEF Sound
    <2>2. Carriage(u)
      <3>1. Carried(x, m) /\ \A t \in Sides : \A i \in DOMAIN x.wire[t] : Apart(x.wire[t][i], m)
        BY <1>4 DEF Carried, Apart, Carrier
      <3> QED BY <3>1, <1>4, <1>5, <1>8, <1>9, CarriagePosted DEF Sound
    <2>3. Truthful(u)
      <3>1. Announced(x, Other(s), m)
        BY <1>4 DEF Announced
      <3> QED BY <3>1, <1>4, <1>5, <1>8, <1>9, TruthfulPosted DEF Sound
    <2> QED BY <2>1, <2>2, <2>3, <1>9 DEF Sound
  <1>12. ASSUME Answering(w)
         PROVE  Answering(u)
    <2>1. Answering(x)
      BY <1>5, <1>12, AnsweringSame
    <2>2. Expected(x, m) /\ \A t \in Sides : \A i \in DOMAIN x.wire[t] : Different(x.wire[t][i], m)
      BY <1>4 DEF Expected, Different, Asking
    <2> QED BY <2>1, <2>2, <1>4, <1>5, <1>9, AnsweringPosted
  <1>13. ASSUME Lined(w), InOrder(w)
         PROVE  Lined(u) /\ InOrder(u)
    <2>1. Lined(x)
      <3>1. ASSUME NEW t \in Sides, NEW j \in Ids
            PROVE  /\ Base(x, t, j) = Base(w, t, j) /\ (Waiting(x, t, j) <=> Waiting(w, t, j))
                   /\ Base(x, t, j) <= x.sent[j]
        <4>1. Base(x, t, j) = Base(w, t, j) /\ (Waiting(x, t, j) <=> Waiting(w, t, j))
          BY <1>5 DEF Base, Drained, Waiting
        <4>2. Base(w, t, j) \in Nat /\ w.sent[j] \in Nat /\ Base(w, t, j) <= w.sent[j]
          BY <1>1, <1>13, LineLengths DEF Lined
        <4> QED BY <4>1, <4>2, <1>6
      <3>2. ASSUME NEW t \in Sides, NEW i \in DOMAIN x.wire[t], x.wire[t][i].kind = "call"
            PROVE  x.wire[t][i].id # NoId /\ x.wire[t][i].n <= x.sent[x.wire[t][i].id]
        <4>1. w.wire[t][i] \in Messages
          BY <1>1, <1>5, <3>2, Fields, PositionOf
        <4>2. w.wire[t][i].id # NoId /\ w.wire[t][i].n <= w.sent[w.wire[t][i].id]
          BY <1>5, <1>13, <3>2 DEF Lined
        <4>3. PICK j \in Ids, n \in Nat, l \in Nat :
                j = w.wire[t][i].id /\ n = w.wire[t][i].n /\ l = w.sent[j] /\ n <= l
          BY <4>1, <4>2, <1>3 DEF Messages
        <4> QED BY <4>2, <4>3, <1>5, <1>6
      <3>3. ASSUME NEW j \in Ids, x.ends[j]["remote"].at # "none",
                   x.ends[j]["remote"].bound => x.ends[j]["remote"].at = "wire"
            PROVE  x.sent[j] = 0
        <4>1. j # id
          BY <3>3, <1>2, <1>5 DEF Sides
        <4> QED BY <4>1, <3>3, <1>5, <1>6, <1>13 DEF Lined
      <3>4. ASSUME NEW t \in Sides, NEW j \in Ids
            PROVE  /\ x.drain[t].id = j => x.drain[t].rest # <<>> /\ x.ep[t][j].queue = <<>>
                   /\ x.ep[t][j].queue # <<>> => x.ep[t][j].client = "none"
                   /\ Waiting(x, t, j) => x.ends[j]["remote"].at \in {Other(t), "none"}
                   /\ ~(Waiting(x, t, j) /\ Waiting(x, Other(t), j))
        BY <3>1, <1>5, <1>13, Pairs DEF Lined
      <3> QED BY <3>1, <3>2, <3>3, <3>4 DEF Lined
    <2>2. Lined(u)
      <3>1. m.kind = "call" => /\ m.id \in Ids /\ m.n <= x.sent[m.id]
                               /\ x.ends[m.id]["remote"].at = s
        BY <1>2, <1>3, <1>4, <1>5
      <3> QED BY <2>1, <3>1, <1>4, <1>5, <1>9, LinedPosted
    <2>3. Called(w, u, s, id)
      BY <1>5, <1>6, <1>9 DEF Called, Kept
    <2>4. Posted(w, u, s, m)
      BY <1>5, <1>9 DEF Posted
    <2>5. IsCall(m, id) /\ m.n = w.sent[id] + 1
      BY <1>4 DEF IsCall, k
    <2>6. InOrder(u)
      BY <2>3, <2>4, <2>5, <1>1, <1>2, <1>4, <1>9, <1>10, <1>13, CallInOrder
    <2> QED BY <2>2, <2>6
  <1> QED BY <1>2, <1>11, <1>12, <1>13 DEF Good

\* AttachEndpointClient takes what waits in an endpoint into its loop.
Attached(v, u, s, id) ==
  /\ u.conn = v.conn /\ u.wire = v.wire /\ u.sent = v.sent /\ u.got = v.got
  /\ \A t \in Sides, j \in Ids : t # s \/ j # id => u.ep[t][j] = v.ep[t][j]
  /\ u.ep[s][id].queue = <<>>
  /\ u.drain[Other(s)] = v.drain[Other(s)] /\ v.drain[s].id = NoId
  /\ \/ v.ep[s][id].queue = <<>> /\ u.drain[s] = v.drain[s]
     \/ /\ v.ep[s][id].queue # <<>>
        /\ u.drain[s].id = id /\ u.drain[s].rest = v.ep[s][id].queue
  /\ \A j \in Ids : /\ u.ends[j]["remote"].at = v.ends[j]["remote"].at
                    /\ v.ends[j]["remote"].bound => u.ends[j]["remote"].bound

\* The line of the interface is as long as it was, and its calls stand where
\* they stood.
LEMMA AttachLines ==
  ASSUME NEW v \in Worlds, NEW u \in Worlds, NEW s \in Sides, NEW id \in Ids,
         Lined(v), InOrder(v), Attached(v, u, s, id)
  PROVE  Lined(u) /\ InOrder(u)
  <1>1. Other(s) \in Sides /\ Other(s) # s /\ \A t \in Sides : t = s \/ t = Other(s)
    BY Pairs
  <1>2. v.ep[s][id].queue \in Seq(Messages)
    BY Fields DEF Endpoints
  <1>3. PICK a \in Nat, b \in Nat : a = Len(v.got[id]) /\ b = Len(v.ep[s][id].queue)
    BY LineLengths
  <1>4. Drained(v, s, id) = 0 /\ Drained(u, s, id) = b /\ Len(u.ep[s][id].queue) = 0
    <2>1. Drained(v, s, id) = 0 /\ Len(u.ep[s][id].queue) = 0
      BY IdsArePositive DEF Drained, Attached
    <2>2. CASE v.ep[s][id].queue = <<>> /\ u.drain[s] = v.drain[s]
      <3>1. b = 0
        BY <2>2, <1>3
      <3>2. Drained(u, s, id) = 0
        BY <2>2, IdsArePositive DEF Drained, Attached
      <3> QED BY <3>1, <3>2, <2>1
    <2>3. CASE u.drain[s].id = id /\ u.drain[s].rest = v.ep[s][id].queue
      BY <2>1, <2>3, <1>3 DEF Drained
    <2> QED BY <2>2, <2>3 DEF Attached
  <1>5. Base(v, s, id) = a + b /\ Base(u, s, id) = a + b
    BY <1>3, <1>4 DEF Base, Attached
  <1>6. ASSUME NEW t \in Sides, NEW j \in Ids
        PROVE  Base(u, t, j) = Base(v, t, j)
    <2>1. CASE t = s /\ j = id
      BY <2>1, <1>5
    <2>2. CASE t # s \/ j # id
      <3>1. Drained(u, t, j) = Drained(v, t, j)
        BY <2>2, <1>1, IdsArePositive DEF Drained, Attached
      <3> QED BY <2>2, <3>1 DEF Base, Attached
    <2> QED BY <2>1, <2>2
  <1>7. ASSUME NEW t \in Sides, NEW j \in Ids, Waiting(u, t, j)
        PROVE  Waiting(v, t, j)
    <2>1. u.drain[t].id = j => v.drain[t].id = j \/ v.ep[t][j].queue # <<>>
      BY <1>1, IdsArePositive DEF Attached
    <2>2. u.ep[t][j].queue # <<>> => v.ep[t][j].queue # <<>>
      BY DEF Attached
    <2> QED BY <2>1, <2>2, <1>7 DEF Waiting, Attached
  <1>8. ASSUME NEW t \in Sides, NEW j \in Ids
        PROVE  /\ u.drain[t].id = j => u.drain[t].rest # <<>> /\ u.ep[t][j].queue = <<>>
               /\ u.ep[t][j].queue # <<>> => u.ep[t][j].client = "none"
               /\ Base(u, t, j) <= u.sent[j]
               /\ Waiting(u, t, j) => u.ends[j]["remote"].at \in {Other(t), "none"}
               /\ ~(Waiting(u, t, j) /\ Waiting(u, Other(t), j))
    <2>0. /\ v.drain[t].id = j => v.drain[t].rest # <<>> /\ v.ep[t][j].queue = <<>>
          /\ v.ep[t][j].queue # <<>> => v.ep[t][j].client = "none"
          /\ Base(v, t, j) <= v.sent[j]
          /\ Waiting(v, t, j) => v.ends[j]["remote"].at \in {Other(t), "none"}
          /\ ~(Waiting(v, t, j) /\ Waiting(v, Other(t), j))
      BY DEF Lined
    <2>1. u.drain[t].id = j => u.drain[t].rest # <<>> /\ u.ep[t][j].queue = <<>>
      BY <2>0, <1>1, IdsArePositive DEF Attached
    <2>2. u.ep[t][j].queue # <<>> => u.ep[t][j].client = "none"
      BY <2>0 DEF Attached
    <2>3. Base(u, t, j) <= u.sent[j]
      BY <2>0, <1>6 DEF Attached
    <2>4. /\ Waiting(u, t, j) => u.ends[j]["remote"].at \in {Other(t), "none"}
          /\ ~(Waiting(u, t, j) /\ Waiting(u, Other(t), j))
      BY <2>0, <1>7, Pairs DEF Attached
    <2> QED BY <2>1, <2>2, <2>3, <2>4
  <1>9. /\ \A t \in Sides : \A i \in DOMAIN u.wire[t] :
             u.wire[t][i].kind = "call" =>
               u.wire[t][i].id # NoId /\ u.wire[t][i].n <= u.sent[u.wire[t][i].id]
        /\ \A j \in Ids :
             /\ u.ends[j]["remote"].at # "none"
             /\ u.ends[j]["remote"].bound => u.ends[j]["remote"].at = "wire"
             => u.sent[j] = 0
    BY DEF Lined, Attached
  <1>10. Lined(u)
    BY <1>8, <1>9 DEF Lined
  <1>11. ASSUME NEW t \in Sides, NEW j \in Ids
         PROVE  Rising(u, t, j) /\ Gapless(u, t, j) /\ Complete(u, t, j) /\ Queued(u, t, j)
    <2>0. /\ Rising(v, t, j) /\ Gapless(v, t, j) /\ Complete(v, t, j) /\ Queued(v, t, j)
          /\ u.wire = v.wire /\ u.conn = v.conn /\ u.sent = v.sent /\ u.got = v.got
      BY DEF InOrder, Attached
    <2>1. \A k : Known(u, t, j, k) <=> Known(v, t, j, k)
      BY <2>0 DEF Known
    <2>2. Rising(u, t, j) /\ Gapless(u, t, j)
      BY <2>0, <2>1, <1>6 DEF Rising, Gapless
    <2>3. Complete(u, t, j)
      <3> SUFFICES ASSUME u.conn[t] = "open", u.ends[j]["remote"].at = Other(t),
                          NEW k \in Nat, k > Base(u, t, j), k <= u.sent[j]
                   PROVE  Known(u, t, j, k)
        BY DEF Complete
      <3>1. v.ends[j]["remote"].at = Other(t)
        BY DEF Attached
      <3>2. CASE v.ends[j]["remote"].bound
        BY <3>1, <3>2, <2>0, <2>1, <1>6 DEF Complete
      <3>3. CASE ~v.ends[j]["remote"].bound
        <4>1. v.sent[j] = 0
          BY <3>1, <3>3, Pairs DEF Lined, Sides
        <4>2. Base(u, t, j) \in Nat
          BY LineLengths
        <4> QED BY <4>1, <4>2, <2>0
      <3> QED BY <3>2, <3>3
    <2>4. Queued(u, t, j)
      <3>1. CASE t = s /\ j = id
        <4>1. u.ep[s][id].queue = <<>>
          BY DEF Attached
        <4>2. ASSUME u.drain[s].id = id, NEW i \in DOMAIN u.drain[s].rest
              PROVE  u.drain[s].rest[i].n = Len(u.got[id]) + i
          <5>1. u.drain[s].rest = v.ep[s][id].queue
            BY <4>2, IdsArePositive DEF Attached
          <5>2. i \in Nat
            BY <4>2, <5>1, <1>2, PositionOf
          <5>3. v.ep[s][id].queue[i].n = a + 0 + i
            BY <4>2, <5>1, <2>0, <3>1, <1>3, <1>4 DEF Queued
          <5> QED BY <5>1, <5>2, <5>3, <2>0, <1>3
        <4> QED BY <3>1, <4>1, <4>2 DEF Queued
      <3>2. CASE t # s \/ j # id
        <4>1. Drained(u, t, j) = Drained(v, t, j)
          BY <3>2, <1>1, IdsArePositive DEF Drained, Attached
        <4>2. u.drain[t].id = j => u.drain[t] = v.drain[t]
          BY <3>2, <1>1, IdsArePositive DEF Attached
        <4>3. u.ep[t][j] = v.ep[t][j]
          BY <3>2 DEF Attached
        <4> QED BY <4>1, <4>2, <4>3, <2>0 DEF Queued
      <3> QED BY <3>1, <3>2
    <2> QED BY <2>2, <2>3, <2>4
  <1>12. ASSUME NEW j \in Ids PROVE \A i \in DOMAIN u.got[j] : u.got[j][i] = i
    BY DEF InOrder, Attached
  <1> QED BY <1>10, <1>11, <1>12 DEF InOrder

\* AssociatedRemote::Bind, AssociatedReceiver::Bind.
LEMMA BindStep ==
  ASSUME Good(w, style), NEW s \in Sides, NEW id \in Ids, NEW role \in Roles,
         Bind(s, id, role)
  PROVE  Good(w', style)
  <1> DEFINE e == w.ep[s][id]
             f == Endpoint(TRUE, role, <<>>, e.handler, e.refs)
             g == w.ends[id][role]
             h == [g EXCEPT !.bound = TRUE]
             l == IF e.queue = <<>> THEN w.drain[s] ELSE [id |-> id, rest |-> e.queue]
             y == PutHandle(w, s, id, f, role, h)
             u == [y EXCEPT !.drain[s] = l]
  <1>1. w \in Worlds /\ Sound(w) /\ Exact(w)
    BY DEF Good, Sound
  <1>2. /\ w.drain[s].id = NoId /\ g.at = s /\ ~g.bound
    BY DEF Bind, Free, Draining
  <1>3. e \in Endpoints /\ g \in Halves /\ w.drain[s] \in Loops
    BY <1>1, Fields
  <1>4. /\ f \in Endpoints /\ f.refs = e.refs /\ f.live /\ f.client = role
        /\ f.queue = <<>> /\ f.handler = e.handler
    <2>1. <<>> \in Seq(Messages) /\ role \in Clients
      BY DEF Clients
    <2> HIDE DEF e
    <2> QED BY <2>1, <1>3 DEF Endpoints, Endpoint
  <1>5. h \in Halves /\ h.at = g.at /\ h.bound /\ h.told = g.told
    <2> HIDE DEF g
    <2> QED BY <1>3 DEF Halves
  <1>6. /\ l \in Loops
        /\ \/ e.queue = <<>> /\ l = w.drain[s]
           \/ e.queue # <<>> /\ l.id = id /\ l.rest = e.queue
    <2>1. CASE e.queue = <<>>
      BY <2>1, <1>3
    <2>2. CASE e.queue # <<>>
      <3>1. l = [id |-> id, rest |-> e.queue] /\ e.queue \in Seq(Messages)
        BY <2>2, <1>3 DEF Endpoints
      <3> QED BY <2>2, <3>1 DEF Loops
    <2> QED BY <2>1, <2>2
  <1>7. w' = u
    <2>1. w' = [w EXCEPT !.ends[id][role].bound = TRUE, !.ep[s][id] = f, !.drain[s] = l]
      BY DEF Bind, Becomes
    <2>2. [w EXCEPT !.ends[id][role].bound = TRUE]
            = [w EXCEPT !.ends = [w.ends EXCEPT ![id] = [w.ends[id] EXCEPT ![role] = h]]]
      OBVIOUS
    <2> HIDE DEF f, h, l
    <2> QED BY <2>1, <2>2, ZenonT(40) DEF PutHandle, Put
  <1> HIDE DEF f, h, l
  <1>8. /\ y \in Worlds /\ Aside(w, y)
        /\ \A t \in Sides, j \in Ids :
             y.ep[t][j] = IF t = s /\ j = id THEN f ELSE w.ep[t][j]
        /\ \A j \in Ids, r \in Roles :
             y.ends[j][r] = IF j = id /\ r = role THEN h ELSE w.ends[j][r]
    BY <1>1, <1>4, <1>5, PutHandleFacts DEF Wrote, Redirected
  <1> HIDE DEF y
  <1>9. /\ u \in Worlds /\ u.drain = [y.drain EXCEPT ![s] = l]
        /\ u.ep = y.ep /\ u.next = y.next /\ u.conn = y.conn /\ u.wire = y.wire
        /\ u.ends = y.ends /\ u.sent = y.sent /\ u.got = y.got /\ u.prim = y.prim
        /\ u.pending = y.pending /\ u.nextReq = y.nextReq /\ u.asked = y.asked
        /\ u.answers = y.answers
    BY <1>6, <1>8 DEF Worlds
  <1> HIDE DEF u
  <1>10. Minted(w, id)
    BY <1>1, <1>2 DEF Sound, Fresh, Gone, Sides
  <1>11. ASSUME NEW j \in Ids, NEW r \in Roles
         PROVE  /\ u.ends[j][r].at = w.ends[j][r].at
                /\ w.ends[j][r].bound => u.ends[j][r].bound
                /\ u.ends[j][r].told = w.ends[j][r].told
                /\ j # id => u.ends[j][r] = w.ends[j][r]
    BY <1>5, <1>8, <1>9
  <1>12. Sound(u)
    <2>1. Wrote(w, u, s, id, f)
      BY <1>8, <1>9 DEF Wrote
    <2>2. Steady(w, u)
      BY <1>8, <1>9, <1>10, <1>11 DEF Steady, Aside
    <2>3. Counted(w.ep[s][id], f)
      BY <1>4 DEF Counted, Roles
    <2>4. Owned(u, s, id, f)
      BY <1>2, <1>4, <1>5, <1>8, <1>9 DEF Owned
    <2>5. Handled(w, u, s, id, f)
      <3>1. e.handler \in Clients
        BY <1>3 DEF Endpoints
      <3> QED BY <3>1, <1>4 DEF Handled, Clients
    <2> QED BY <1>1, <1>9, <2>1, <2>2, <2>3, <2>4, <2>5, TableSound
  <1>13. Answering(w) => Answering(u)
    BY <1>8, <1>9, AnsweringSame DEF Aside
  <1>14. Attached(w, u, s, id)
    <2>1. u.drain[s] = l /\ u.drain[Other(s)] = w.drain[Other(s)]
      <3>1. w.drain \in [Sides -> Loops] /\ y.drain = w.drain
        BY <1>1, <1>8, Fields DEF Aside
      <3> QED BY <3>1, <1>9, Pairs
    <2>2. "remote" \in Roles
      BY DEF Roles
    <2> QED BY <2>1, <2>2, <1>2, <1>4, <1>6, <1>8, <1>9, <1>11 DEF Attached, Aside
  <1>15. Lined(w) /\ InOrder(w) => Lined(u) /\ InOrder(u)
    BY <1>1, <1>9, <1>14, AttachLines
  <1> QED BY <1>7, <1>12, <1>13, <1>15 DEF Good

\* The world after side s minted id.
HeldBoth(v, u, s, id, f) ==
  /\ Wrote(v, u, s, id, f)
  /\ \A j \in Ids, r \in Roles : u.ends[j][r] = IF j = id THEN Held(s) ELSE v.ends[j][r]
  /\ u.conn = v.conn /\ u.wire = v.wire /\ u.sent = v.sent
  /\ u.next[s] = v.next[s] + 1 /\ u.next[Other(s)] = v.next[Other(s)]

\* An id that is minted named nothing before, and names two handles now.
LEMMA MintSound ==
  ASSUME NEW v \in Worlds, NEW u \in Worlds, Sound(v), NEW s \in Sides, NEW id \in Ids,
         ~Minted(v, id), Minted(u, id),
         NEW f, f = Retained(Retained(v.ep[s][id])), HeldBoth(v, u, s, id, f)
  PROVE  Sound(u)
  <1> DEFINE e == v.ep[s][id]
  <1>1. /\ \A r \in Roles : v.ends[id][r] = Gone
        /\ v.sent[id] = 0
    BY DEF Sound, Fresh
  <1>2. Gone.at = "none" /\ ~Gone.told /\ Held(s).at = s /\ ~Held(s).bound /\ ~Held(s).told
    BY DEF Gone, Held
  <1>3. "remote" \in Roles /\ "receiver" \in Roles /\ "none" \notin Sides /\ "wire" \notin Sides
    BY DEF Roles, Sides
  <1>4. e \in Endpoints
    BY Fields
  <1>5. /\ f.refs = e.refs + 2 /\ f.live /\ f.client = e.client /\ f.queue = e.queue
        /\ f.handler = e.handler
    <2>1. e.refs \in Nat
      BY <1>4 DEF Endpoints
    <2> HIDE DEF e
    <2> QED BY <2>1, <1>4 DEF Retained, Endpoints, e
  <1>6. \A t \in Sides : v.ep[t][id].refs = 0 /\ v.ep[t][id].client = "none"
                         /\ v.ep[t][id].handler = "none"
    <2> SUFFICES ASSUME NEW t \in Sides
                 PROVE  v.ep[t][id].refs = 0 /\ v.ep[t][id].client = "none"
                        /\ v.ep[t][id].handler = "none"
      OBVIOUS
    <2>1. Handles(v, t, id) = 0
      BY <1>1, <1>2, <1>3 DEF Handles, Holding
    <2>2. v.ep[t][id] \in Endpoints
      BY Fields
    <2>3. v.ep[t][id].client = "none"
      <3>1. Exact(v)
        BY DEF Sound
      <3>2. ASSUME v.ep[t][id].client # "none"
            PROVE  v.ends[id][v.ep[t][id].client].at = t
        <4>1. /\ v.ends[id][v.ep[t][id].client].at = t
              /\ v.ends[id][v.ep[t][id].client].bound
          BY <3>1, <3>2, ClientAt, Zenon
        <4> QED BY <4>1, Zenon
      <3>3. v.ep[t][id].client \in Roles \cup {"none"}
        BY FieldsAt, Zenon
      <3> QED BY <3>2, <3>3, <1>1, <1>2, <1>3
    <2>4. v.ep[t][id].handler = "none"
      BY Zenon DEF Sound, Truthful
    <2>5. v.ep[t][id].refs = 0
      <3>1. Exact(v)
        BY DEF Sound
      <3>2. v.ep[t][id].refs = Handles(v, t, id)
        BY <3>1, RefsAt, Zenon
      <3> QED BY <3>2, <2>1
    <2> QED BY <2>3, <2>4, <2>5, Zenon
  <1>7. ASSUME NEW j \in Ids, Minted(v, j)
        PROVE  Minted(u, j) /\ j # id
    <2>1. v.next["A"] \in Nat /\ v.next["B"] \in Nat /\ j \in Nat /\ NamespaceMask \in Nat
      BY Fields, IdsArePositive DEF Sides
    <2>2. u.next["A"] \in Nat /\ u.next["B"] \in Nat
      BY Fields DEF Sides
    <2>3. u.next["A"] >= v.next["A"] /\ u.next["B"] >= v.next["B"]
      BY <2>1, <2>2 DEF HeldBoth, Sides, Other
    <2> QED BY <1>7, <2>1, <2>2, <2>3 DEF Minted
  <1>8. \A t \in Sides, j \in Ids :
          u.ep[t][j] = IF t = s /\ j = id THEN f ELSE v.ep[t][j]
    BY DEF HeldBoth, Wrote
  <1>9. ASSUME NEW j \in Ids, NEW r \in Roles
        PROVE  u.ends[j][r] = IF j = id THEN Held(s) ELSE v.ends[j][r]
    BY DEF HeldBoth
  <1>10. u.conn = v.conn /\ u.wire = v.wire /\ u.sent = v.sent
    BY DEF HeldBoth
  <1>11. Silent(u)
    BY <1>10 DEF Sound, Silent
  <1>12. Exact(u)
    <2> SUFFICES ASSUME NEW t \in Sides, NEW j \in Ids
                 PROVE  EntryExact(u, t, j)
      BY DEF Exact
    <2>0. Exact(v)
      BY DEF Sound
    <2>1. CASE j # id
      <3>1. u.ep[t][j] = v.ep[t][j] /\ \A r \in Roles : u.ends[j][r] = v.ends[j][r]
        BY <2>1, <1>8, <1>9
      <3>2. Handles(u, t, j) = Handles(v, t, j)
        BY <3>1, <1>3 DEF Handles, Holding
      <3>3. ASSUME v.ep[t][j].client # "none"
            PROVE  u.ends[j][v.ep[t][j].client] = v.ends[j][v.ep[t][j].client]
        <4>1. v.ep[t][j].client \in Roles
          BY <3>3, FieldsAt
        <4> QED BY <4>1, <3>1, Zenon
      <3> QED BY <2>0, <3>1, <3>2, <3>3, EntryKept, Zenon
    <2>2. CASE j = id /\ t = s
      <3>1. Handles(u, t, j) = 2
        BY <2>2, <1>2, <1>3, <1>9 DEF Handles, Holding
      <3>2. u.ep[t][j] = f
        BY <2>2, <1>8, Zenon
      <3>3. f.refs = 2 /\ f.live /\ f.client = "none" /\ f.refs > 0
        BY <1>5, <1>6
      <3>4. f.refs = Handles(u, t, j)
        BY <3>1, <3>3
      <3> QED BY <3>2, <3>3, <3>4, EntryIs, Zenon
    <2>3. CASE j = id /\ t # s
      <3>1. Handles(u, t, j) = 0 /\ Handles(v, t, j) = 0
        BY <2>3, <1>1, <1>2, <1>3, <1>9 DEF Handles, Holding
      <3>2. u.ep[t][j] = v.ep[t][j] /\ v.ep[t][j].client = "none"
        BY <2>3, <1>6, <1>8, Zenon
      <3>3. Handles(u, t, j) = Handles(v, t, j)
        BY <3>1, Zenon
      <3> QED BY <2>0, <3>2, <3>3, EntryKept, Zenon
    <2> QED BY <2>1, <2>2, <2>3, Zenon
  <1>13. Fresh(u)
    <2>1. ASSUME NEW t \in Sides
          PROVE  u.next[t] >= 1
      <3>1. v.next[t] >= 1 /\ v.next[t] \in Nat
        BY Fields DEF Sound, Fresh
      <3> QED BY <3>1, Pairs DEF HeldBoth
    <2>2. ASSUME NEW j \in Ids, ~Minted(u, j)
          PROVE  u.sent[j] = 0 /\ \A r \in Roles : u.ends[j][r] = Gone
      <3>1. ~Minted(v, j) /\ j # id
        BY <2>2, <1>7
      <3> QED BY <3>1, <1>9, <1>10 DEF Sound, Fresh
    <2> QED BY <2>1, <2>2 DEF Fresh
  <1>14. Carriage(u)
    <2>1. ASSUME NEW t \in Sides, NEW i \in DOMAIN u.wire[t]
          PROVE  Carried(u, u.wire[t][i])
      <3>1. PICK m \in Messages : m = u.wire[t][i]
        BY Fields, PositionOf
      <3>2. Carried(v, m)
        BY <3>1, <1>10 DEF Sound, Carriage
      <3>3. m.id \in Ids \cup {NoId}
        BY DEF Messages
      <3>4. Carried(u, m)
        BY <3>2, <3>3, <1>1, <1>2, <1>9 DEF Carried
      <3> QED BY <3>1, <3>4
    <2> QED BY <2>1, <1>10 DEF Sound, Carriage
  <1>15. Truthful(u)
    <2>1. ASSUME NEW t \in Sides, NEW i \in DOMAIN u.wire[t]
          PROVE  Announced(u, t, u.wire[t][i])
      <3>1. PICK m \in Messages : m = u.wire[t][i]
        BY Fields, PositionOf
      <3>2. Announced(v, t, m)
        BY <3>1, <1>10, Zenon DEF Sound, Truthful
      <3> SUFFICES ASSUME m.kind = "closed" PROVE Announced(u, t, m)
        BY <3>1, ZenonT(40) DEF Announced
      <3>3. PICK j \in Ids : j = m.id
        BY <3>2 DEF Announced, Messages
      <3>4. Minted(v, j)
        BY <3>2, <3>3, Zenon DEF Announced
      <3>5. Minted(u, j) /\ j # id
        BY <3>4, <1>7
      <3>6. u.ep[t][j] = v.ep[t][j] /\ \A r \in Roles : u.ends[j][r] = v.ends[j][r]
        BY <3>5, <1>8, <1>9
      <3>7. v.ep[t][j].handler \in Roles \cup {"none"}
        BY Fields DEF Endpoints, Clients
      <3>8. \A r \in Roles : Partner(r) \in Roles
        BY Pairs
      <3>9. \E r \in Roles : u.ends[j][r].at = "none"
        BY <3>2, <3>3, <3>6, Zenon DEF Announced
      <3>10. ASSUME u.ep[t][j].handler # "none"
             PROVE  u.ends[j][Partner(u.ep[t][j].handler)].at = "none"
        <4>1. v.ep[t][j].handler # "none" /\ v.ep[t][j].handler \in Roles
          BY <3>6, <3>7, <3>10, Zenon
        <4>2. v.ends[j][Partner(v.ep[t][j].handler)].at = "none"
          BY <3>2, <3>3, <4>1, Zenon DEF Announced
        <4> QED BY <3>6, <3>8, <4>1, <4>2, Zenon
      <3>11. j # NoId
        BY IdsArePositive
      <3> QED BY <3>3, <3>5, <3>9, <3>10, <3>11, Zenon DEF Announced
    <2>2. ASSUME NEW t \in Sides, NEW j \in Ids, u.ep[t][j].handler # "none"
          PROVE  /\ Minted(u, j)
                 /\ u.ends[j][u.ep[t][j].handler].at \in {t, "none"}
                 /\ u.ends[j][u.ep[t][j].handler].at = t =>
                      u.ends[j][u.ep[t][j].handler].bound
      <3>1. u.ep[t][j].handler = v.ep[t][j].handler
        BY <1>5, <1>8
      <3>2. PICK h \in Roles : h = v.ep[t][j].handler
        BY <2>2, <3>1, Fields DEF Endpoints, Clients
      <3>3. Minted(v, j) /\ v.ends[j][h].at \in {t, "none"}
            /\ (v.ends[j][h].at = t => v.ends[j][h].bound)
        BY <2>2, <3>1, <3>2, ZenonT(40) DEF Sound, Truthful
      <3>4. Minted(u, j) /\ j # id
        BY <3>3, <1>7
      <3>5. u.ends[j][h] = v.ends[j][h]
        BY <3>4, <1>9
      <3>6. u.ep[t][j].handler = h
        BY <3>1, <3>2
      <3> QED BY <3>3, <3>4, <3>5, <3>6
    <2>3. ASSUME NEW j \in Ids, NEW r \in Roles, u.ends[j][r].told
          PROVE  u.ends[j][Partner(r)].at = "none"
      <3>1. j # id /\ v.ends[j][r].told
        BY <2>3, <1>2, <1>9
      <3>2. Partner(r) \in Roles
        BY Pairs
      <3>3. Truthful(v)
        BY DEF Sound
      <3>4. v.ends[j][Partner(r)].at = "none"
        BY <3>1, <3>3, ToldAt, Zenon
      <3> QED BY <3>1, <3>2, <3>4, <1>9, Zenon
    <2> QED BY <2>1, <2>2, <2>3, Zenon DEF Truthful
  <1> QED BY <1>11, <1>12, <1>13, <1>14, <1>15 DEF Sound

\* CreatePairPendingAssociation.
LEMMA MintStep ==
  ASSUME Good(w, style), NEW s \in Sides, Mint(s)
  PROVE  Good(w', style)
  <1>1. w \in Worlds /\ Sound(w)
    BY DEF Good, Sound
  <1>2. PICK n \in Nat : n = w.next[s] /\ n >= 1 /\ n <= MaxMint
    BY <1>1, Fields DEF Mint, Sound, Fresh
  <1>3. PICK id \in Ids : id = n + (IF s = "B" THEN NamespaceMask ELSE 0)
    BY <1>2, IdsArePositive DEF Ids
  <1> DEFINE e == w.ep[s][id]
             f == Retained(Retained(e))
             both == [r \in Roles |-> Held(s)]
             y == [Put(w, s, id, f) EXCEPT !.ends[id] = both]
             u == [y EXCEPT !.next[s] = n + 1]
  <1>4. e \in Endpoints /\ Retained(e) \in Endpoints /\ f \in Endpoints
    BY <1>1, Fields, EntryTypes
  <1>5. RetainEndpoint(RetainEndpoint(w, s, id), s, id) = Put(w, s, id, f)
    <2> DEFINE d == Retained(e)
               z == Put(w, s, id, d)
    <2>1. RetainEndpoint(w, s, id) = z
      BY <1>1, PutOps
    <2>2. z \in Worlds /\ z.ep[s][id] = d /\ \A g : Put(z, s, id, g) = Put(w, s, id, g)
      BY <1>1, <1>4, PutFacts
    <2> HIDE DEF z
    <2>3. RetainEndpoint(z, s, id) = Put(z, s, id, Retained(z.ep[s][id]))
      BY <2>2, PutOps
    <2> QED BY <2>1, <2>2, <2>3
  <1>6. both \in [Roles -> Halves]
    BY DEF Held, Halves
  <1>7. w' = u
    <2>1. Put(w, s, id, f).next[s] = n
      BY <1>2 DEF Put
    <2>2. w' = [RetainEndpoint(RetainEndpoint(w, s, id), s, id)
                  EXCEPT !.next[s] = @ + 1, !.ends[id] = both]
      BY <1>2, <1>3 DEF Mint, Becomes
    <2>3. w' = [Put(w, s, id, f) EXCEPT !.next[s] = @ + 1, !.ends[id] = both]
      BY <2>2, <1>5
    <2> HIDE DEF both, f
    <2> QED BY <2>1, <2>3 DEF Put
  <1> HIDE DEF f, both
  <1>8. /\ y \in Worlds /\ Aside(w, y) /\ y.ends = [w.ends EXCEPT ![id] = both]
        /\ \A t \in Sides, j \in Ids :
             y.ep[t][j] = IF t = s /\ j = id THEN f ELSE w.ep[t][j]
    <2> DEFINE z == Put(w, s, id, f)
    <2>1. /\ z \in Worlds /\ Aside(w, z) /\ z.ends = w.ends
          /\ \A t \in Sides, j \in Ids :
               z.ep[t][j] = IF t = s /\ j = id THEN f ELSE w.ep[t][j]
      BY <1>1, <1>4, PutAside
    <2> HIDE DEF z
    <2>2. y = [z EXCEPT !.ends[id] = both]
      BY DEF z
    <2> HIDE DEF y
    <2> QED BY <2>1, <2>2, <1>6, ZenonT(40) DEF Worlds, Aside
  <1> HIDE DEF y
  <1>9. /\ u \in Worlds /\ u.next = [y.next EXCEPT ![s] = n + 1]
        /\ u.ep = y.ep /\ u.conn = y.conn /\ u.wire = y.wire /\ u.drain = y.drain
        /\ u.ends = y.ends /\ u.sent = y.sent /\ u.got = y.got /\ u.prim = y.prim
        /\ u.pending = y.pending /\ u.nextReq = y.nextReq /\ u.asked = y.asked
        /\ u.answers = y.answers
    <2>1. PICK k \in Nat : k = n + 1
      OBVIOUS
    <2>2. u = [y EXCEPT !.next[s] = k]
      BY <2>1
    <2> HIDE DEF u
    <2> QED BY <2>1, <2>2, <1>8 DEF Worlds
  <1> HIDE DEF u
  <1>10. w.next \in [Sides -> Nat] /\ w.ends \in [Ids -> [Roles -> Halves]] /\ y.next = w.next
    BY <1>1, <1>8, Fields DEF Aside
  <1>11. ASSUME NEW j \in Ids, NEW r \in Roles
         PROVE  u.ends[j][r] = IF j = id THEN Held(s) ELSE w.ends[j][r]
    BY <1>8, <1>9, <1>10 DEF both
  <1>12. HeldBoth(w, u, s, id, f)
    <2>1. u.next[s] = w.next[s] + 1 /\ u.next[Other(s)] = w.next[Other(s)]
      BY <1>2, <1>9, <1>10, Pairs
    <2>2. Wrote(w, u, s, id, f)
      BY <1>8, <1>9 DEF Wrote
    <2> QED BY <2>1, <2>2, <1>8, <1>9, <1>11 DEF HeldBoth, Aside
  <1>13. ~Minted(w, id) /\ Minted(u, id)
    <2>1. MaxMint \in Nat /\ NamespaceMask = MaxMint + 1
      BY IdsArePositive DEF NamespaceMask
    <2>2. CASE s = "A"
      <3>1. id = n /\ w.next["A"] = n /\ u.next["A"] = n + 1
        BY <2>2, <1>2, <1>3, <1>9, <1>10
      <3> QED BY <2>1, <3>1, <1>2 DEF Minted
    <2>3. CASE s = "B"
      <3>1. id = n + NamespaceMask /\ w.next["B"] = n /\ u.next["B"] = n + 1
        BY <2>3, <1>2, <1>3, <1>9, <1>10
      <3> QED BY <2>1, <3>1, <1>2 DEF Minted
    <2> QED BY <2>2, <2>3 DEF Sides
  <1>14. Sound(u)
    BY <1>1, <1>9, <1>12, <1>13, MintSound DEF f
  <1>15. Answering(w) => Answering(u)
    BY <1>8, <1>9, AnsweringSame DEF Aside
  <1>16. ASSUME Lined(w), InOrder(w)
         PROVE  Lined(u) /\ InOrder(u)
    <2>1. w.sent[id] = 0
      BY <1>1, <1>13 DEF Sound, Fresh
    <2>2. f.queue = e.queue /\ f.client = e.client
      <3> HIDE DEF e
      <3> QED BY <1>4 DEF f, Retained, Endpoints
    <2>3. \A t \in Sides, j \in Ids : /\ y.ep[t][j].queue = w.ep[t][j].queue
                                      /\ y.ep[t][j].client \in {w.ep[t][j].client, "none"}
      BY <1>8, <2>2
    <2>4. ASSUME NEW j \in Ids
          PROVE  y.ends[j] = w.ends[j] \/ w.sent[j] = 0
      BY <2>1, <1>8, <1>10
    <2>5. Lined(y) /\ InOrder(y)
      BY <1>1, <1>8, <1>16, <2>3, <2>4, LinesKept, Zenon
    <2> QED BY <2>5, <1>9, LinesSame
  <1> QED BY <1>7, <1>14, <1>15, <1>16 DEF Good

-----------------------------------------------------------------------------
(* The theorems.                                                           *)

\* Nothing is minted, sent or asked at first.
LEMMA StartGood == \A st : Good(Start, st)
  <1>1. Absent \in Endpoints /\ Gone \in Halves
    <2>1. <<>> \in Seq(Messages)
      OBVIOUS
    <2> QED BY <2>1 DEF Absent, Endpoint, Endpoints, Clients, Gone, Halves
  <1>2. [id |-> NoId, rest |-> <<>>] \in Loops
    <2>1. <<>> \in Seq(Messages)
      OBVIOUS
    <2> QED BY <2>1 DEF Loops
  <1>3. Start \in Worlds
    <2>1. /\ <<>> \in Seq(Messages) /\ <<>> \in Seq(Nat) /\ <<>> \in Seq(Answers)
          /\ {} \in SUBSET Asks
      OBVIOUS
    <2> QED BY <2>1, <1>1, <1>2 DEF Start, Worlds
  <1>4. ASSUME NEW s \in Sides
        PROVE  /\ Start.wire[s] = <<>> /\ Start.next[s] = 1 /\ Start.drain[s].id = NoId
               /\ Start.prim[s] /\ \A id \in Ids : Start.ep[s][id] = Absent
    BY DEF Start
  <1>5. ASSUME NEW id \in Ids
        PROVE  /\ Start.sent[id] = 0 /\ Start.got[id] = <<>>
               /\ \A r \in Roles : Start.ends[id][r] = Gone
    BY DEF Start
  <1>6. Start.pending = {} /\ Start.asked = {} /\ Start.answers = <<>>
    BY DEF Start
  <1>7. /\ Absent.refs = 0 /\ ~Absent.live /\ Absent.client = "none"
        /\ Absent.handler = "none" /\ Absent.queue = <<>>
        /\ Gone.at = "none" /\ ~Gone.told
    BY DEF Absent, Endpoint, Gone
  <1>8. "remote" \in Roles /\ "receiver" \in Roles /\ "A" \in Sides /\ "none" \notin Sides
    BY DEF Roles, Sides
  <1> HIDE DEF Start
  <1>9. Exact(Start)
    <2>1. ASSUME NEW s \in Sides, NEW id \in Ids
          PROVE  Handles(Start, s, id) = 0
      BY <1>5, <1>7, <1>8 DEF Handles, Holding
    <2> QED BY <2>1, <1>4, <1>7 DEF Exact, EntryExact
  <1>10. Silent(Start) /\ Fresh(Start) /\ Carriage(Start) /\ Truthful(Start)
    <2>1. Silent(Start)
      BY <1>4, <1>5 DEF Silent
    <2>2. Fresh(Start)
      BY <1>4, <1>5 DEF Fresh
    <2>3. Carriage(Start)
      BY <1>4, <1>5 DEF Carriage
    <2>4. Truthful(Start)
      <3>1. \A t \in Sides : DOMAIN Start.wire[t] = {}
        BY <1>4
      <3>2. \A t \in Sides, id \in Ids : Start.ep[t][id].handler = "none"
        BY <1>4, <1>7
      <3>3. \A id \in Ids, r \in Roles : ~Start.ends[id][r].told
        BY <1>5, <1>7
      <3> QED BY <3>1, <3>2, <3>3, Zenon DEF Truthful
    <2> QED BY <2>1, <2>2, <2>3, <2>4, Zenon
  <1>11. Answering(Start)
    BY <1>4, <1>6, <1>8 DEF Answering
  <1>12. ASSUME NEW t \in Sides, NEW id \in Ids
         PROVE  /\ Base(Start, t, id) = 0 /\ Drained(Start, t, id) = 0
                /\ ~Waiting(Start, t, id)
    <2>1. Drained(Start, t, id) = 0
      BY <1>4, IdsArePositive DEF Drained
    <2>2. Len(Start.got[id]) = 0 /\ Start.ep[t][id].queue = <<>>
      BY <1>4, <1>5, <1>7
    <2>3. Base(Start, t, id) = 0
      BY <2>1, <2>2 DEF Base
    <2>4. ~Waiting(Start, t, id)
      BY <2>2, <1>4, IdsArePositive DEF Waiting
    <2> QED BY <2>1, <2>3, <2>4
  <1>13. Lined(Start)
    BY <1>4, <1>5, <1>7, <1>12, IdsArePositive DEF Lined
  <1>14. InOrder(Start)
    <2>1. ASSUME NEW t \in Sides, NEW id \in Ids
          PROVE  /\ Rising(Start, t, id) /\ Gapless(Start, t, id)
                 /\ Complete(Start, t, id) /\ Queued(Start, t, id)
      BY <1>4, <1>5, <1>7, <1>12, IdsArePositive
         DEF Rising, Gapless, Complete, Queued
    <2> QED BY <2>1, <1>5 DEF InOrder
  <1> QED BY <1>3, <1>9, <1>10, <1>11, <1>13, <1>14 DEF Good, Sound

\* What holds of every world holds of the system.
LEMMA InvIsGood ==
  RouterInv <=> (restarted => style = "careless") /\ (~restarted => Good(w, style))
  BY DEF RouterInv, Good

\* A step of a side keeps the invariant.
LEMMA SideStep ==
  ASSUME Good(w, style), NEW s \in Sides, Client(s) \/ Runtime(s)
  PROVE  Good(w', style) /\ style' = style
  <1>1. CASE Mint(s)
    BY <1>1, MintStep, ZenonT(40) DEF Mint, Becomes
  <1>2. CASE Flush(s)
    BY <1>2, FlushStep, ZenonT(40) DEF Flush, Becomes
  <1>3. CASE ResetPrimary(s)
    BY <1>3, ResetPrimaryStep, ZenonT(40) DEF ResetPrimary, Becomes
  <1>4. ASSUME NEW id \in Ids, Call(s, id)
        PROVE  Good(w', style) /\ style' = style
    BY <1>4, CallStep, ZenonT(40) DEF Call, Becomes
  <1>5. ASSUME NEW id \in Ids, NEW role \in Roles, Bind(s, id, role)
        PROVE  Good(w', style) /\ style' = style
    BY <1>5, BindStep, ZenonT(40) DEF Bind, Becomes
  <1>6. ASSUME NEW id \in Ids, NEW role \in Roles, SetPeerClosedHandler(s, id, role)
        PROVE  Good(w', style) /\ style' = style
    BY <1>6, SetPeerClosedHandlerStep, ZenonT(40) DEF SetPeerClosedHandler, Becomes
  <1>7. ASSUME NEW id \in Ids, NEW role \in Roles, ResetAssociated(s, id, role)
        PROVE  Good(w', style) /\ style' = style
    BY <1>7, ResetAssociatedStep, ZenonT(40) DEF ResetAssociated, Becomes
  <1>8. CASE ReadMessage(s)
    BY <1>8, ReadMessageStep, ZenonT(40) DEF ReadMessage, Becomes
  <1>9. CASE PeerClosed(s)
    BY <1>9, PeerClosedStep, ZenonT(40) DEF PeerClosed, Becomes
  <1>10. CASE Drain(s)
    BY <1>10, DrainStep, ZenonT(40) DEF Drain, Becomes
  <1>11. CASE FlushReturns(s)
    BY <1>11, FlushReturnsStep DEF FlushReturns, Becomes
  <1>12. CASE EraseEntry(s)
    BY <1>12, EraseEntryStep DEF EraseEntry, Becomes
  <1> QED BY <1>1, <1>2, <1>3, <1>4, <1>5, <1>6, <1>7, <1>8, <1>9, <1>10, <1>11, <1>12
          DEF Client, Runtime

\* A router that counts again goes on to, and its Remote's client is careless.
LEMMA RestartedStays ==
  ASSUME [Next]_vars
  PROVE  /\ style' = style
         /\ restarted => restarted'
         /\ restarted' => restarted \/ style = "careless"
  <1>1. CASE Rebind
    <2>1. style = "rebinds" => w.next["A"] = 1
      BY <1>1 DEF Rebind, Sides
    <2>2. /\ style \in {"rebinds", "careless"} /\ style' = style
          /\ restarted' = (restarted \/ w.next["A"] # 1)
      BY <1>1 DEF Rebind
    <2> HIDE DEF Rebind
    <2> QED BY <2>1, <2>2
  <1>2. CASE UNCHANGED <<style, minter, restarted>>
    BY <1>2
  <1>3. CASE UNCHANGED vars
    BY <1>3 DEF vars
  <1>4. ASSUME NEW s \in Sides, Client(s) \/ Runtime(s)
        PROVE  UNCHANGED <<style, minter, restarted>>
    <2>1. \A v : Becomes(v) => UNCHANGED <<style, minter, restarted>>
      BY DEF Becomes
    <2>2. CASE Mint(s)
      BY <2>1, <2>2 DEF Mint
    <2>3. CASE Flush(s)
      BY <2>1, <2>3 DEF Flush
    <2>4. CASE ResetPrimary(s)
      BY <2>1, <2>4 DEF ResetPrimary
    <2>5. CASE \E id \in Ids : Call(s, id)
      BY <2>1, <2>5 DEF Call
    <2>6. ASSUME NEW id \in Ids, NEW role \in Roles,
                 Bind(s, id, role) \/ SetPeerClosedHandler(s, id, role)
          PROVE  UNCHANGED <<style, minter, restarted>>
      BY <2>1, <2>6, Zenon DEF Bind, SetPeerClosedHandler
    <2>7. ASSUME NEW id \in Ids, NEW role \in Roles, ResetAssociated(s, id, role)
          PROVE  UNCHANGED <<style, minter, restarted>>
      BY <2>1, <2>7, Zenon DEF ResetAssociated
    <2>8. CASE Runtime(s)
      BY <2>1, <2>8, Zenon
         DEF Runtime, ReadMessage, PeerClosed, Drain, FlushReturns, EraseEntry
    <2> QED BY <1>4, <2>2, <2>3, <2>4, <2>5, <2>6, <2>7, <2>8 DEF Client
  <1>5. ASSUME NEW id \in Ids, NEW role \in Roles, Pass(id, role)
        PROVE  UNCHANGED <<style, minter, restarted>>
    BY <1>5, Zenon DEF Pass, Becomes
  <1>6. ASSUME NEW q \in w.asked, Respond(q)
        PROVE  UNCHANGED <<style, minter, restarted>>
    BY <1>6, Zenon DEF Respond, Becomes
  <1>7. ASSUME Request \/ RequireVersion
        PROVE  UNCHANGED <<style, minter, restarted>>
    BY <1>7, Zenon DEF Request, RequireVersion, Becomes
  <1> QED BY <1>1, <1>2, <1>3, <1>4, <1>5, <1>6, <1>7, Zenon DEF Next

\* Every step of the system keeps the invariant.
LEMMA RouterStep ==
  ASSUME RouterInv, [Next]_vars
  PROVE  RouterInv'
  <1>a. /\ style' = style
        /\ restarted => restarted'
        /\ restarted' => restarted \/ style = "careless"
    BY RestartedStays
  <1>b. (restarted => style = "careless") /\ (~restarted => Good(w, style))
    BY InvIsGood
  <1>c. restarted' => style' = "careless"
    <2>1. restarted' => style = "careless"
      BY <1>a, <1>b, Zenon
    <2> QED BY <1>a, <2>1
  <1>d. RouterInv' <=> (restarted' => style' = "careless") /\ (~restarted' => Good(w', style'))
    BY Zenon DEF RouterInv, Good
  <1>0. SUFFICES ASSUME ~restarted' PROVE Good(w', style')
    BY <1>c, <1>d, Zenon
  <1>1. Good(w, style)
    BY <1>0, <1>a, <1>b, Zenon
  <1>2. Good(w', style) /\ style' = style
    <2>1. ASSUME NEW s \in Sides, Client(s) \/ Runtime(s)
          PROVE  Good(w', style) /\ style' = style
      BY <1>1, <2>1, SideStep
    <2>2. ASSUME NEW id \in Ids, NEW role \in Roles, Pass(id, role)
          PROVE  Good(w', style) /\ style' = style
      BY <1>1, <2>2, PassStep DEF Pass, Becomes
    <2>3. ASSUME NEW q \in w.asked, Respond(q)
          PROVE  Good(w', style) /\ style' = style
      BY <1>1, <2>3, RespondStep DEF Respond, Becomes
    <2>4. CASE Request
      BY <1>1, <2>4, RequestStep DEF Request, Becomes
    <2>5. CASE Rebind
      BY <1>0, <1>1, <2>5, RebindStep DEF Rebind
    <2>6. CASE RequireVersion
      BY <1>1, <2>6, RequireVersionStep DEF RequireVersion, Becomes
    <2>7. CASE UNCHANGED vars
      BY <1>1, <2>7 DEF vars
    <2> QED BY <2>1, <2>2, <2>3, <2>4, <2>5, <2>6, <2>7 DEF Next
  <1>3. Good(w', style')
    BY <1>2
  <1> QED BY <1>3

\* The invariant holds of every reachable state.
LEMMA RouterInvariance == Spec => []RouterInv
  <1>1. Init => RouterInv
    BY StartGood, InvIsGood DEF Init
  <1>2. RouterInv /\ [Next]_vars => RouterInv'
    BY RouterStep
  <1> QED BY <1>1, <1>2, PTL DEF Spec

\* The two halves of an interface, counted as a set.
LEMMA HandlesAreCounted ==
  ASSUME NEW v, NEW s, NEW id
  PROVE  Handles(v, s, id) = Cardinality({r \in Roles : v.ends[id][r].at = s})
  <1> DEFINE H == {r \in Roles : v.ends[id][r].at = s}
             a == v.ends[id]["remote"].at = s
             b == v.ends[id]["receiver"].at = s
  <1>1. ASSUME a, b PROVE Handles(v, s, id) = Cardinality(H)
    <2>1. PICK S, x : S = {"remote"} /\ x = "receiver"
      OBVIOUS
    <2>2. H = S \cup {x} /\ x \notin S
      BY <1>1, <2>1 DEF Roles
    <2>3. IsFiniteSet(S) /\ Cardinality(S) = 1
      BY <2>1, FS_Singleton
    <2>4. Cardinality(S \cup {x}) = 1 + 1
      BY <2>2, <2>3, FS_AddElement
    <2> HIDE DEF H
    <2> QED BY <1>1, <2>2, <2>4 DEF Handles, Holding
  <1>2. ASSUME a, ~b PROVE Handles(v, s, id) = Cardinality(H)
    <2>1. H = {"remote"}
      BY <1>2 DEF Roles
    <2>2. Cardinality({"remote"}) = 1
      BY FS_Singleton
    <2> HIDE DEF H
    <2> QED BY <1>2, <2>1, <2>2 DEF Handles, Holding
  <1>3. ASSUME ~a, b PROVE Handles(v, s, id) = Cardinality(H)
    <2>1. H = {"receiver"}
      BY <1>3 DEF Roles
    <2>2. Cardinality({"receiver"}) = 1
      BY FS_Singleton
    <2> HIDE DEF H
    <2> QED BY <1>3, <2>1, <2>2 DEF Handles, Holding
  <1>4. ASSUME ~a, ~b PROVE Handles(v, s, id) = Cardinality(H)
    <2>1. H = {}
      BY <1>4 DEF Roles
    <2>2. Cardinality({}) = 0
      BY FS_EmptySet
    <2> HIDE DEF H
    <2> QED BY <1>4, <2>1, <2>2 DEF Handles, Holding
  <1> QED BY <1>1, <1>2, <1>3, <1>4

\* The endpoint tables of both sides count exactly the handles of their side,
\* keep nothing that nothing needs, and point to bound objects only: what
\* RetainEndpoint, DropEndpointHandle, DetachEndpointClient and
\* MaybeEraseEndpoint owe to each other in MultiplexRouter, as long as no
\* router gives ids out again.
THEOREM EndpointsTheorem == Spec => [](~restarted => EndpointsExact)
  <1>1. RouterInv => (~restarted => EndpointsExact)
    <2> SUFFICES ASSUME RouterInv, ~restarted, NEW s \in Sides, NEW id \in Ids
                 PROVE  LET e == w.ep[s][id] IN
                        /\ e.refs = Cardinality({r \in Roles : w.ends[id][r].at = s})
                        /\ e.live => e.refs > 0 \/ e.client # "none" \/ e.queue # <<>>
                        /\ e.client # "none" =>
                             w.ends[id][e.client].at = s /\ w.ends[id][e.client].bound
      BY Zenon DEF EndpointsExact
    <2>1. w.ep[s][id].refs = Handles(w, s, id)
      BY Zenon DEF RouterInv, Sound, Exact, EntryExact
    <2>2. w.ep[s][id].refs = Cardinality({r \in Roles : w.ends[id][r].at = s})
      BY <2>1, HandlesAreCounted
    <2> QED BY <2>2, Zenon DEF RouterInv, Sound, Exact, EntryExact
  <1> QED BY <1>1, RouterInvariance, PTL

\* A peer-closed handler of an associated object runs only when the other
\* half of its interface is gone, wherever the notification was on its way
\* when the handler was set, as long as no router gives ids out again.
THEOREM PeerClosedTheorem == Spec => []PeerClosedTruthful
  <1>1. RouterInv => PeerClosedTruthful
    BY Zenon DEF RouterInv, Sound, Truthful, PeerClosedTruthful
  <1> QED BY <1>1, RouterInvariance, PTL

\* Calls of an associated interface are dispatched in order without a gap,
\* and a callback gets the answer to its own call, for clients that do not
\* do what the code does not support.
THEOREM DispatchTheorem == Spec => []DispatchIsFaithful
  <1>1. RouterInv => DispatchIsFaithful
    BY DEF RouterInv, InOrder, Answering, DispatchIsFaithful
  <1> QED BY <1>1, RouterInvariance, PTL

=============================================================================
