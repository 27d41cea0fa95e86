---------------------------- MODULE MCHolePunch ----------------------------
(* An instance of HolePunch for TLC.  The bounds of the .cfg are the       *)
(* largest that a scenario needs; MCScenarios keeps each scenario to the   *)
(* part it is about, so that their states add up and do not multiply.      *)
EXTENDS HolePunch

\* The trigger signals that the SimpleWatcher users in the repository pass.
MCReadableOrClosed == {{"READABLE"}, {"PEER_CLOSED"}}

Bytes(s) == IF s.kind = "Message" THEN s.obj.size ELSE 0
Limited == \E p \in DOMAIN core.pipes : \E e \in 0..1 :
             {core.pipes[p].quota_count[e], core.pipes[p].quota_bytes[e]} # {Unlimited}

\* Two pipes that are fused, written and read.
Fusing == core.ntraps = 0 /\ ~Limited /\ \A h \in Handles : Bytes(core.slots[h]) = 0
\* One pipe whose queues are limited, three writes of messages of both sizes.
Limiting == core.ntraps = 0 /\ Len(core.pipes) <= 1 /\ Len(core.slots) <= 3
\* A trap that is made when the first pipe is there, and one message.  Two
\* triggers wait for signals to be satisfied, one for them to be impossible.
Alone(s) == s.kind = "Trap" /\ Len(s.obj.triggers) > 1 =>
              \A i \in DOMAIN s.obj.triggers : s.obj.triggers[i].condition = "SATISFIED"
Trapping == /\ core.ntraps = 1 /\ Len(core.pipes) = 1 /\ Len(core.slots) <= 4
            /\ core.messages <= 1 /\ core.writes <= 1 /\ ~Limited
            /\ \A h \in Handles : Bytes(core.slots[h]) = 0 /\ Alone(core.slots[h])

MCScenarios == \/ Fusing
               \/ Limiting
               \/ Trapping
=============================================================================
