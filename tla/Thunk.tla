-------------------------------- MODULE Thunk --------------------------------
(***************************************************************************)
(* The Mojo C API on top of HolePunch (WASMThunker/src/thunk.cc).  Most of *)
(* it is calls of whp::c, which HolePunch, DataPipe and SharedBuffer       *)
(* model; this is the registry of invitations, which is the thunk's own    *)
(* state under g_mu.  An invitation carries message pipe ends by name from *)
(* the one who sends it on a channel to the one who accepts it there; on a *)
(* channel that is a live socket it carries the HolePunch Invitation that  *)
(* adopts the socket too.  A call that is refused changes nothing and is   *)
(* not a step.                                                             *)
(***************************************************************************)
EXTENDS WhpCore, SequencesExt

CONSTANTS
  Names,           \* the names that pipes are attached under
  Channels,        \* the values of the transports' first platform handle
  InvitationBase,  \* kInvitationHandleBase
  MaxInvitations,  \* bound on the invitation handles ever made
  MaxPipeEnds,     \* bound on the handle table
  MaxMojoPipes     \* bound on the pipes ever created

\* The ranges of the two kinds of handles do not meet.
ASSUME ThunkAssumption == MaxPipeEnds < InvitationBase

VARIABLES
  mojo,             \* whp's Core
  invitations,      \* g_invitations
  next_invitation,  \* g_next_invitation_handle
  sent,             \* g_sent_invitations
  app,              \* the whp handles that clients have
  socket,           \* who has the socket of a channel: "app", "punch", "nobody"
  attachedAs,       \* the name under which each pipe was attached
  extractedAs,      \* the name under which each pipe end was extracted
  lost              \* pipe ends of invitations that another one replaced

thunkVars == <<mojo, invitations, next_invitation, sent, app, socket, attachedAs, extractedAs, lost>>

Empty == [x \in {} |-> 0]
With(f, x, v) == [y \in DOMAIN f \cup {x} |-> IF y = x THEN v ELSE f[y]]
Without(f, x) == [y \in DOMAIN f \ {x} |-> f[y]]
NewInvitation == [attached |-> Empty, punch |-> {}]

ThunkInit ==
  /\ mojo = InitCore
  /\ invitations = Empty /\ next_invitation = InvitationBase /\ sent = Empty
  /\ app = {} /\ lost = {}
  /\ socket = [ch \in Channels |-> "app"]
  /\ attachedAs = Empty /\ extractedAs = Empty

HasRoom(n) ==
  Cardinality({h \in DOMAIN mojo.slots : mojo.slots[h].kind = "Free"}) + MaxPipeEnds - Len(mojo.slots) >= n
\* What two calls of Alloc return.
TwoHandles == <<NextHandle(mojo), NextHandle(Alloc(mojo, "Message", NoObj))>>
registry == <<invitations, next_invitation, sent, socket, attachedAs, extractedAs, lost>>

-----------------------------------------------------------------------------
(* Pipes.                                                                  *)

MojoCreateMessagePipe ==
  /\ HasRoom(2) /\ Len(mojo.pipes) < MaxMojoPipes
  /\ mojo' = WhpCreateMessagePipe(mojo)
  /\ app' = app \cup Range(TwoHandles)
  /\ UNCHANGED registry

-----------------------------------------------------------------------------
(* Invitations.                                                            *)

\* A HolePunch Invitation closes its socket when it goes.
SocketsClosed(chs) == [ch \in Channels |-> IF ch \in chs THEN "nobody" ELSE socket[ch]]

\* ~ThunkInvitation: the ends that are still attached are closed, in the
\* order of the hash table.
Destroyed(i, c) ==
  \E order \in SetToSeqs(Range(i.attached)) : c = FoldLeft(WhpClose, mojo, order)

\* MojoClose tells the two kinds of handles apart by their value.
MojoClose(h) ==
  IF h >= InvitationBase
  THEN /\ h \in DOMAIN invitations
       /\ Destroyed(invitations[h], mojo')
       /\ socket' = SocketsClosed(invitations[h].punch)
       /\ invitations' = Without(invitations, h)
       /\ UNCHANGED <<next_invitation, sent, app, attachedAs, extractedAs, lost>>
  ELSE /\ h \in app
       /\ mojo' = WhpClose(mojo, h) /\ app' = app \ {h}
       /\ UNCHANGED registry

MojoCreateInvitation ==
  /\ next_invitation < InvitationBase + MaxInvitations
  /\ next_invitation' = next_invitation + 1
  /\ invitations' = With(invitations, next_invitation, NewInvitation)
  /\ UNCHANGED <<mojo, sent, app, socket, attachedAs, extractedAs, lost>>

\* The caller gets one end of a new pipe, the invitation the other.
MojoAttachMessagePipeToInvitation(i, name) ==
  /\ i \in DOMAIN invitations /\ name \notin DOMAIN invitations[i].attached
  /\ HasRoom(2) /\ Len(mojo.pipes) < MaxMojoPipes
  /\ mojo' = WhpCreateMessagePipe(mojo)
  /\ app' = app \cup {TwoHandles[1]}
  /\ invitations' = [invitations EXCEPT ![i].attached = With(@, name, TwoHandles[2])]
  /\ attachedAs' = With(attachedAs, Len(mojo.pipes) + 1, name)
  /\ UNCHANGED <<next_invitation, sent, socket, extractedAs, lost>>

MojoExtractMessagePipeFromInvitation(i, name) ==
  /\ i \in DOMAIN invitations /\ name \in DOMAIN invitations[i].attached
  /\ LET h == invitations[i].attached[name]
     IN  /\ app' = app \cup {h}
         /\ extractedAs' = With(extractedAs, mojo.slots[h].obj.id, name)
  /\ invitations' = [invitations EXCEPT ![i].attached = Without(@, name)]
  /\ UNCHANGED <<mojo, next_invitation, sent, socket, attachedAs, lost>>

\* PunchFromEndpoint: a file descriptor is adopted, a channel id is not.
Adopts(ch, type) == type = "FILE_DESCRIPTOR"
PunchFromEndpoint(ch, type) == IF Adopts(ch, type) THEN {ch} ELSE {}
Owned(ch, type) == Adopts(ch, type) => socket[ch] = "app"
SentOn(ch) == IF ch \in DOMAIN sent THEN sent[ch] ELSE NewInvitation

\* Mutant of MovedFrom: attached is copied.
MovedFromCopied(i) == i

\* What std::move(attached) leaves of an invitation.
MovedFrom(i) == [i EXCEPT !.attached = Empty]

\* The ends move to the channel and the handle goes.  What was sent on the
\* channel before and not accepted is replaced: its Invitation is destroyed
\* with its socket, its pipe ends are not closed.  The Invitation of a handle
\* that was accepted before goes with the handle.
MojoSendInvitation(i, ch, type) ==
  /\ i \in DOMAIN invitations /\ Owned(ch, type)
  /\ sent' = With(sent, ch, [attached |-> invitations[i].attached, punch |-> PunchFromEndpoint(ch, type)])
  /\ lost' = lost \cup Range(SentOn(ch).attached)
  /\ socket' = [SocketsClosed(SentOn(ch).punch \cup invitations[i].punch) EXCEPT ![ch] = IF Adopts(ch, type) THEN "punch" ELSE @]
  /\ invitations' = Without(invitations, i) /\ Destroyed(MovedFrom(invitations[i]), mojo')
  /\ UNCHANGED <<next_invitation, app, attachedAs, extractedAs>>

\* The acceptor takes over the sender's Invitation, or else adopts its own
\* endpoint.
MojoAcceptInvitation(ch, type) ==
  /\ ch \in DOMAIN sent /\ next_invitation < InvitationBase + MaxInvitations
  /\ LET own == sent[ch].punch = {}
     IN  /\ own => Owned(ch, type)
         /\ invitations' = With(invitations, next_invitation,
                                [sent[ch] EXCEPT !.punch = IF own THEN PunchFromEndpoint(ch, type) ELSE @])
         /\ socket' = [socket EXCEPT ![ch] = IF own /\ Adopts(ch, type) THEN "punch" ELSE @]
  /\ next_invitation' = next_invitation + 1
  /\ sent' = Without(sent, ch)
  /\ UNCHANGED <<mojo, app, attachedAs, extractedAs, lost>>

EndpointTypes == {"INVALID", "FILE_DESCRIPTOR"}
ThunkNext ==
  \/ MojoCreateMessagePipe \/ MojoCreateInvitation
  \/ \E h \in app \cup DOMAIN invitations : MojoClose(h)
  \/ \E i \in DOMAIN invitations, name \in Names :
       MojoAttachMessagePipeToInvitation(i, name) \/ MojoExtractMessagePipeFromInvitation(i, name)
  \/ \E i \in DOMAIN invitations, ch \in Channels, type \in EndpointTypes : MojoSendInvitation(i, ch, type)
  \/ \E ch \in Channels, type \in EndpointTypes : MojoAcceptInvitation(ch, type)
ThunkSpec == ThunkInit /\ [][ThunkNext]_thunkVars

-----------------------------------------------------------------------------
(* Properties.                                                             *)

Holders == [r : {"invitation"}, of : DOMAIN invitations] \cup [r : {"channel"}, of : DOMAIN sent]
HolderOf(x) == IF x.r = "invitation" THEN invitations[x.of] ELSE sent[x.of]
Attached == UNION {Range(HolderOf(x).attached) : x \in Holders}

\* Every open handle has one owner (a client, an invitation or a channel), so
\* that it is closed once; the only ends that nobody can close are those of
\* an invitation that was replaced on its channel.
OneOwner ==
  /\ {h \in DOMAIN mojo.slots : Lookup(mojo, h)} = app \cup Attached \cup lost
  /\ app \cap (Attached \cup lost) = {} /\ Attached \cap lost = {}
  /\ \A x, y \in Holders : x # y => Range(HolderOf(x).attached) \cap Range(HolderOf(y).attached) = {}
  /\ \A h \in Attached : IsA(mojo, h, "MessagePipe")

\* The end that is extracted under a name is the far end of the pipe that was
\* attached under that name.
NamesMeet == \A id \in DOMAIN extractedAs : id[2] = 1 /\ attachedAs[id[1]] = extractedAs[id]

\* An adopted socket belongs to one Invitation, which is still there.
SocketsHeld ==
  \A ch \in Channels :
    Cardinality({x \in Holders : ch \in HolderOf(x).punch}) = IF socket[ch] = "punch" THEN 1 ELSE 0

\* Nothing that an invitation carries is lost, closed twice or handed to the
\* wrong one (MojoSendInvitation, MojoAcceptInvitation, ~ThunkInvitation).
InvitationsAreSound == OneOwner /\ NamesMeet /\ SocketsHeld
=============================================================================
