------------------------------ MODULE Invitation ------------------------------
(***************************************************************************)
(* Two peers punch a UDP path (punch.cc), shake hands over it and exchange *)
(* messages through an Invitation (platform/invitation.cc).  The network   *)
(* loses, doubles and reorders datagrams unless reliable is TRUE; then it  *)
(* delivers each within a unit of time (5 ms), and the peers, which begin  *)
(* when they like, poll by timers of their own.                            *)
(***************************************************************************)
EXTENDS Naturals, Sequences, Functions

CONSTANTS Attempts,     \* rounds of Punch (40 in the code)
          Quiet,        \* silent polls that end its drain (3)
          Slices,       \* polls of a handshake (80)
          ResendEvery,  \* polls between two invites (8)
          MaxWrites,    \* messages written by each peer
          MaxReads,     \* messages read by each client
          Quota         \* messages the local pipe holds

ASSUME InvitationBounds ==
  /\ {Attempts, Quiet, Slices, ResendEvery} \subseteq Nat \ {0}
  /\ {MaxWrites, MaxReads, Quota} \subseteq Nat

VARIABLES reliable,  \* what the network is like
          offers,    \* is_offerer of each peer
          writer,    \* the peer whose client sends; the other one reads
          stage,     \* how far each peer is
          count,     \* attempts, silent polls or slices so far
          wait,      \* units of time left to the peer's poll
          line, air, \* datagrams to each peer: the reliable and the other network
          pipe,      \* written to local_, not flushed yet
          netOpen,   \* net_ is a handle
          inbox,     \* written to net_, not read by the client
          written,   \* messages each client wrote
          delivered, \* messages each client read
          asked,     \* whether a client sent a Run request
          accepted,  \* whether a peer answered an invite
          refused    \* messages refused by a full pipe or lost in a close
inviteVars == <<reliable, offers, writer, stage, count, wait, line, air, pipe, netOpen,
                inbox, written, delivered, asked, accepted, refused>>
sessionVars == <<pipe, netOpen, inbox, written, delivered, asked, refused>>

Peers == {"p", "q"}
Peer(p) == IF p = "p" THEN "q" ELSE "p"
Frame(type, n) == [type |-> type, n |-> n]
Frames == {Frame(t, 0) : t \in {"magic", "invite", "accept", "close", "run", "runReply"}}
          \cup {Frame("mojo", n) : n \in 1 .. MaxWrites}
Running == {"punch", "drain", "handshake"}

\* ConnectedPath::Send, UdpSocket::SendTo.
Sends(p, frames) ==
  IF reliable
  THEN line' = [line EXCEPT ![Peer(p)] = @ \o frames] /\ UNCHANGED air
  ELSE air' = [air EXCEPT ![Peer(p)] = @ \cup Range(frames)] /\ UNCHANGED line

\* UdpSocket::Recv gets f, and frames are sent in answer.  In the air a
\* datagram stays: it can arrive again, later than others, or never.
Arrives(p, f) == IF reliable THEN line[p] # <<>> /\ f = Head(line[p]) ELSE f \in air[p]
Takes(p, f, frames) ==
  IF reliable
  THEN /\ line' = [line EXCEPT ![p] = Tail(@), ![Peer(p)] = @ \o frames]
       /\ UNCHANGED air
  ELSE Sends(p, frames)

\* Poll returns 0: its time is over, whatever is still under way.
TimesOut(p) == reliable => wait[p] = 0

\* A poll is 25 ms long in Punch and in RecvFrame, 15 ms in the drain of Punch.
Interval(s) == CASE s \in {"punch", "handshake"} -> 5 [] s = "drain" -> 3 [] OTHER -> 0
Polls(p) == wait' = [wait EXCEPT ![p] = Interval(stage'[p])]

-----------------------------------------------------------------------------
(* punch::Punch.                                                           *)

PunchStart(p) ==
  /\ stage[p] = "idle"
  /\ stage' = [stage EXCEPT ![p] = "punch"]
  /\ count' = [count EXCEPT ![p] = 1]
  /\ Sends(p, <<Frame("magic", 0)>>)
  /\ UNCHANGED <<reliable, offers, writer, accepted, sessionVars>>
  /\ Polls(p)

\* The next attempt sends the magic again; the last one gives up.
NextAttempt(p) ==
  IF count[p] = Attempts
  THEN /\ stage' = [stage EXCEPT ![p] = "failed"]
       /\ UNCHANGED count
  ELSE /\ count' = [count EXCEPT ![p] = @ + 1]
       /\ UNCHANGED stage
AttemptFrames(p) == IF count[p] = Attempts THEN <<>> ELSE <<Frame("magic", 0)>>

PunchRecv(p, f) ==
  /\ stage[p] = "punch" /\ Arrives(p, f)
  /\ IF f.type = "magic"
     THEN /\ stage' = [stage EXCEPT ![p] = "drain"]
          /\ count' = [count EXCEPT ![p] = 0]
          /\ Takes(p, f, <<Frame("magic", 0)>>)
     ELSE NextAttempt(p) /\ Takes(p, f, AttemptFrames(p))
  /\ UNCHANGED <<reliable, offers, writer, accepted, sessionVars>>
  /\ Polls(p)

PunchTimeout(p) ==
  /\ stage[p] = "punch" /\ TimesOut(p)
  /\ NextAttempt(p) /\ Sends(p, AttemptFrames(p))
  /\ UNCHANGED <<reliable, offers, writer, accepted, sessionVars>>
  /\ Polls(p)

\* Leftovers are read and dropped, whatever they are, until it is quiet.
DrainRecv(p, f) ==
  /\ stage[p] = "drain" /\ Arrives(p, f)
  /\ count' = [count EXCEPT ![p] = 0]
  /\ Takes(p, f, <<>>)
  /\ UNCHANGED <<reliable, offers, writer, stage, accepted, sessionVars>>
  /\ Polls(p)

\* After the last silent poll Attach begins its handshake; an offerer invites.
QuietFrames(p) ==
  IF count[p] + 1 = Quiet /\ offers[p] THEN <<Frame("invite", 0)>> ELSE <<>>
AfterQuiet(p) ==
  IF count[p] + 1 = Quiet
  THEN /\ stage' = [stage EXCEPT ![p] = "handshake"]
       /\ count' = [count EXCEPT ![p] = 0]
       /\ netOpen' = [netOpen EXCEPT ![p] = TRUE]
  ELSE /\ count' = [count EXCEPT ![p] = @ + 1]
       /\ UNCHANGED <<stage, netOpen>>

DrainTimeout(p) ==
  /\ stage[p] = "drain" /\ TimesOut(p)
  /\ AfterQuiet(p) /\ Sends(p, QuietFrames(p))
  /\ UNCHANGED <<reliable, offers, writer, accepted,
                 pipe, inbox, written, delivered, asked, refused>>
  /\ Polls(p)

-----------------------------------------------------------------------------
(* Invitation::Handshake and Attach.                                       *)

\* Mutant: an offerer invites again in every slice.
SliceFramesEvery(p) ==
  IF count[p] + 1 = Slices THEN <<Frame("close", 0)>>
  ELSE IF offers[p] THEN <<Frame("invite", 0)>> ELSE <<>>

\* One more slice without an answer: an offerer invites again now and then;
\* when the budget is spent Attach closes, which tells the other side.
SliceFrames(p) ==
  IF count[p] + 1 = Slices THEN <<Frame("close", 0)>>
  ELSE IF offers[p] /\ (count[p] + 1) % ResendEvery = 0
  THEN <<Frame("invite", 0)>> ELSE <<>>
NextSlice(p) ==
  IF count[p] + 1 = Slices
  THEN /\ stage' = [stage EXCEPT ![p] = "failed"]
       /\ netOpen' = [netOpen EXCEPT ![p] = FALSE]
       /\ UNCHANGED count
  ELSE /\ count' = [count EXCEPT ![p] = @ + 1]
       /\ UNCHANGED <<stage, netOpen>>

HandshakeTimeout(p) ==
  /\ stage[p] = "handshake" /\ TimesOut(p)
  /\ NextSlice(p) /\ Sends(p, SliceFrames(p))
  /\ UNCHANGED <<reliable, offers, writer, accepted,
                 pipe, inbox, written, delivered, asked, refused>>
  /\ Polls(p)

\* An invite is accepted by either role, an accept ends an offer; anything
\* else, also a message that overtook the accept, is dropped.
HandshakeRecv(p, f) ==
  /\ stage[p] = "handshake" /\ Arrives(p, f)
  /\ LET type == f.type IN
     \/ /\ type = "invite"
        /\ stage' = [stage EXCEPT ![p] = "attached"]
        /\ accepted' = [accepted EXCEPT ![p] = TRUE]
        /\ Takes(p, f, <<Frame("accept", 0)>>)
        /\ UNCHANGED <<count, netOpen>>
     \/ /\ type = "accept" /\ offers[p]
        /\ stage' = [stage EXCEPT ![p] = "attached"]
        /\ Takes(p, f, <<>>)
        /\ UNCHANGED <<count, accepted, netOpen>>
     \/ /\ type # "invite" /\ ~(type = "accept" /\ offers[p])
        /\ NextSlice(p) /\ Takes(p, f, SliceFrames(p))
        /\ UNCHANGED accepted
  /\ UNCHANGED <<reliable, offers, writer, pipe, inbox, written, delivered, asked, refused>>
  /\ Polls(p)

-----------------------------------------------------------------------------
(* An attached Invitation.                                                 *)

\* The client writes to local_pipe() itself; nothing is sent before a Pump.
WriteLocal(p) ==
  /\ p = writer /\ stage[p] = "attached" /\ netOpen[p] /\ written[p] < MaxWrites
  /\ Len(pipe[p]) < Quota
  /\ written' = [written EXCEPT ![p] = @ + 1]
  /\ pipe' = [pipe EXCEPT ![p] = Append(@, Frame("mojo", written[p] + 1))]
  /\ UNCHANGED <<reliable, offers, writer, stage, count, wait, line, air, netOpen, inbox,
                 delivered, accepted, asked, refused>>

\* Mutant: Fire sends its message before those that wait in the pipe.
FireOvertakes(p) ==
  /\ p = writer /\ stage[p] = "attached" /\ netOpen[p] /\ written[p] < MaxWrites
  /\ Len(pipe[p]) < Quota
  /\ written' = [written EXCEPT ![p] = @ + 1]
  /\ pipe' = [pipe EXCEPT ![p] = <<>>]
  /\ Sends(p, <<Frame("mojo", written[p] + 1)>> \o pipe[p])
  /\ UNCHANGED <<reliable, offers, writer, stage, count, wait, netOpen, inbox,
                 delivered, accepted, asked, refused>>

\* Fire writes and flushes.
Fire(p) ==
  /\ p = writer /\ stage[p] = "attached" /\ netOpen[p] /\ written[p] < MaxWrites
  /\ Len(pipe[p]) < Quota
  /\ written' = [written EXCEPT ![p] = @ + 1]
  /\ pipe' = [pipe EXCEPT ![p] = <<>>]
  /\ Sends(p, Append(pipe[p], Frame("mojo", written[p] + 1)))
  /\ UNCHANGED <<reliable, offers, writer, stage, count, wait, netOpen, inbox,
                 delivered, accepted, asked, refused>>

\* The same with the ordinal of the control message Run, once.
FireRun(p) ==
  /\ p = writer /\ stage[p] = "attached" /\ netOpen[p] /\ ~asked[p] /\ Len(pipe[p]) < Quota
  /\ asked' = [asked EXCEPT ![p] = TRUE]
  /\ pipe' = [pipe EXCEPT ![p] = <<>>]
  /\ Sends(p, Append(pipe[p], Frame("run", 0)))
  /\ UNCHANGED <<reliable, offers, writer, stage, count, wait, netOpen, inbox,
                 written, delivered, accepted, refused>>

\* Pump: flush, one frame of IngestNet.  A Run request is answered and never
\* reaches the client; a message for a full pipe is destroyed.
Pump(p, f) ==
  /\ stage[p] = "attached" /\ netOpen[p] /\ Arrives(p, f)
  /\ LET reply == IF f.type = "run" THEN <<Frame("runReply", 0)>> ELSE <<>>
         message == f.type \in {"mojo", "runReply"}
     IN /\ Takes(p, f, pipe[p] \o reply)
        /\ pipe' = [pipe EXCEPT ![p] = <<>>]
        /\ netOpen' = [netOpen EXCEPT ![p] = f.type # "close"]
        /\ inbox' = IF message /\ Len(inbox[p]) < Quota
                    THEN [inbox EXCEPT ![p] = Append(@, f)] ELSE inbox
        /\ refused' = [refused EXCEPT ![p] = @ \/ (message /\ Len(inbox[p]) = Quota)]
  /\ UNCHANGED <<reliable, offers, writer, stage, count, wait, written, delivered, asked,
                 accepted>>

\* Pump when nothing arrives.
PumpFlush(p) ==
  /\ stage[p] = "attached" /\ netOpen[p] /\ pipe[p] # <<>>
  /\ Sends(p, pipe[p])
  /\ pipe' = [pipe EXCEPT ![p] = <<>>]
  /\ UNCHANGED <<reliable, offers, writer, stage, count, wait, netOpen, inbox,
                 written, delivered, asked, accepted, refused>>

\* Recv reads one message; what arrived before the other side closed is
\* still there.
Recv(p) ==
  /\ stage[p] = "attached" /\ inbox[p] # <<>> /\ Len(delivered[p]) < MaxReads
  /\ inbox' = [inbox EXCEPT ![p] = Tail(@)]
  /\ delivered' = [delivered EXCEPT ![p] = Append(@, Head(inbox[p]))]
  /\ UNCHANGED <<reliable, offers, writer, stage, count, wait, line, air, pipe, netOpen,
                 written, asked, accepted, refused>>

\* Close does not flush.
Close(p) ==
  /\ stage[p] = "attached"
  /\ stage' = [stage EXCEPT ![p] = "closed"]
  /\ Sends(p, <<Frame("close", 0)>>)
  /\ pipe' = [pipe EXCEPT ![p] = <<>>]
  /\ netOpen' = [netOpen EXCEPT ![p] = FALSE]
  /\ inbox' = [inbox EXCEPT ![p] = <<>>]
  /\ refused' = [refused EXCEPT ![p] = @ \/ pipe[p] # <<>>]
  /\ UNCHANGED <<reliable, offers, writer, count, wait, written, delivered, asked,
                 accepted>>

\* A unit of time passes, for a poll that is not over and a network with
\* nothing under way to it.
Tick ==
  /\ reliable
  /\ \E p \in Peers : stage[p] \in Running
  /\ \A p \in Peers : stage[p] \in Running => wait[p] > 0 /\ line[p] = <<>>
  /\ wait' = [p \in Peers |-> IF stage[p] \in Running THEN wait[p] - 1 ELSE wait[p]]
  /\ UNCHANGED <<reliable, offers, writer, stage, count, line, air, accepted, sessionVars>>

InviteInit ==
  /\ reliable \in BOOLEAN
  /\ offers \in {o \in [Peers -> BOOLEAN] : o["q"] => o["p"]}  \* up to the peers' names
  /\ writer \in Peers
  /\ stage = [p \in Peers |-> "idle"]
  /\ count = [p \in Peers |-> 0] /\ wait = [p \in Peers |-> 0]
  /\ line = [p \in Peers |-> <<>>] /\ air = [p \in Peers |-> {}]
  /\ pipe = [p \in Peers |-> <<>>] /\ netOpen = [p \in Peers |-> FALSE]
  /\ inbox = [p \in Peers |-> <<>>]
  /\ written = [p \in Peers |-> 0] /\ delivered = [p \in Peers |-> <<>>]
  /\ asked = [p \in Peers |-> FALSE] /\ accepted = [p \in Peers |-> FALSE]
  /\ refused = [p \in Peers |-> FALSE]

\* What Punch and Attach do by themselves once they are called.
Connecting(p) ==
  \/ PunchTimeout(p) \/ DrainTimeout(p) \/ HandshakeTimeout(p)
  \/ \E f \in Frames : PunchRecv(p, f) \/ DrainRecv(p, f) \/ HandshakeRecv(p, f)

Using(p) ==
  \/ WriteLocal(p) \/ Fire(p) \/ FireRun(p) \/ PumpFlush(p)
  \/ Recv(p) \/ Close(p)
  \/ \E f \in Frames : Pump(p, f)

InviteNext ==
  \/ \E p \in Peers : PunchStart(p) \/ Connecting(p) \/ Using(p)
  \/ Tick

InviteSpec == InviteInit /\ [][InviteNext]_inviteVars
              /\ WF_inviteVars(Tick)
              /\ \A p \in Peers : WF_inviteVars(Connecting(p))

-----------------------------------------------------------------------------
\* An offerer whose peer does not offer is attached only if that peer took an
\* invite and accepted it: the offering side is never the half-open one.
OffererHasPeer ==
  \A p \in Peers : offers[p] /\ ~offers[Peer(p)] /\ stage[p] = "attached"
                     => accepted[Peer(p)]

\* The messages before each one are those with smaller numbers.
InOrder(frames) ==
  \A i \in DOMAIN frames : frames[i].type = "mojo" =>
    {frames[j].n : j \in {k \in 1 .. i - 1 : frames[k].type = "mojo"}}
      = 1 .. frames[i].n - 1

\* Over a reliable network messages arrive in the order they were written and
\* none is missing, unless a pipe was full or closed: none is taken by the
\* drain of Punch or by a handshake that is still on.
ReliableOrder ==
  reliable /\ (\A p \in Peers : ~refused[p]) => \A p \in Peers : InOrder(delivered[p])

\* No client sees a Run request, and a Run reply only if it sent the request.
RunStaysInside ==
  \A p \in Peers : \A i \in 1 .. Len(delivered[p]) :
    /\ delivered[p][i].type # "run"
    /\ delivered[p][i].type = "runReply" => asked[p]

\* What the clients of two Invitations may rely on: order and completeness
\* over a reliable network, an offerer that is never half-open, and control
\* messages that never reach a client.
ConversationIsSound == ReliableOrder /\ OffererHasPeer /\ RunStaysInside

\* Over a reliable network both sides get attached, if one of them offers and
\* the second one begins before the first one's last attempt, however their
\* polls lie to each other from then on: an invite lost in the drain of the
\* other side is sent again, and not so soon that it keeps that drain from its
\* silence.
ReliableConnects ==
  reliable /\ (\E p \in Peers : offers[p])
      /\ (\A p \in Peers : stage[p] = "punch" /\ count[p] < Attempts)
    ~> \A p \in Peers : stage[p] \in {"attached", "closed"}
=============================================================================
