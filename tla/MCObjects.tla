----------------------------- MODULE MCObjects -----------------------------
(* The objects besides pipes and traps in the handle table of HolePunch     *)
(* (messages with contexts, and shared buffers with platform handles), and  *)
(* the Mojo invitations that are kept next to it.  A behaviour is about the *)
(* one that `part` names; the others stay in an initial state.  The threads *)
(* are interchangeable, and so are the primitives and the names.            *)
EXTENDS MessageContext, SharedBuffer, Thunk, TLC

CONSTANTS t1, t2, p1, p2, n1, n2
VARIABLE part
MCvars == <<part, contextVars, bufferVars, thunkVars>>

MCCallbacks == {<<TRUE, TRUE>>, <<FALSE, TRUE>>}
MCSymmetry == Permutations({t1, t2}) \cup Permutations({p1, p2}) \cup Permutations({n1, n2})

\* Threads that share messages pass both callbacks.
MCBoth == shared => \A k \in DOMAIN context : context[k].serializer

MCInit ==
  /\ part \in {"contexts", "buffers", "mojo"}
  /\ ContextInit /\ BufferInit /\ ThunkInit
  /\ part # "contexts" => ~shared
MCNext ==
  \/ part = "contexts" /\ ContextNext /\ UNCHANGED <<part, bufferVars, thunkVars>>
  \/ part = "buffers" /\ BufferNext /\ UNCHANGED <<part, contextVars, thunkVars>>
  \/ part = "mojo" /\ ThunkNext /\ UNCHANGED <<part, contextVars, bufferVars>>
MCSpec == MCInit /\ [][MCNext]_MCvars
=============================================================================
