---------------------------- MODULE MCTransport ----------------------------
(* What carries bytes in HolePunch: a data pipe of one process and an       *)
(* Invitation between two.  They do not touch each other; a behaviour is    *)
(* about the one that `part` names, and the other stays in an initial state.*)
EXTENDS DataPipe, Invitation

VARIABLE part
MCvars == <<part, vars, inviteVars>>

\* One trap on each signal of interest.
MCSignals == {<<"producer", "WRITABLE">>, <<"consumer", "READABLE">>,
              <<"consumer", "PEER_CLOSED">>}

MCInit ==
  /\ part \in {"pipe", "invitation"}
  /\ Init /\ InviteInit
  /\ part = "pipe" => ~reliable /\ writer = "p" /\ \A p \in Peers : ~offers[p]

Piping == part = "pipe" /\ Next /\ UNCHANGED <<part, inviteVars>>
Inviting == part = "invitation" /\ InviteNext /\ UNCHANGED <<part, vars>>

MCSpec ==
  /\ MCInit /\ [][Piping \/ Inviting]_MCvars
  /\ WF_inviteVars(part = "invitation" /\ Tick)
  /\ \A p \in Peers : WF_inviteVars(part = "invitation" /\ Connecting(p))
=============================================================================
