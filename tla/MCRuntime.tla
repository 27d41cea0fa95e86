----------------------------- MODULE MCRuntime -----------------------------
(* The V8 facade at run time and brujac: the cppgc heap in its cage, the     *)
(* wrappers of the bindings that brujac generates, the calls through them,   *)
(* and the inputs it generates them from.  A behaviour is about the one that *)
(* `part` names; the others stay in an initial state.                        *)
EXTENDS CppHeap, MCJsBinding, MCJsCalls, MCBrujac

VARIABLE part
MCvars == <<part, allVars, jsVars, callVars, brujacVars>>

\* Two size classes that share a bucket, and one large type; one page of the
\* process heap, or a cage whose base is not aligned to the page.
MCSizes == ("leaf" :> 2) @@ ("node" :> 3) @@ ("blob" :> 4)

AProgram == CHOOSE p \in Programs : TRUE
AFile == CHOOSE f \in Files : TRUE
AnInput == CHOOSE in \in Inputs : TRUE
MCInit ==
  /\ HeapInit
  /\ \/ part = "heap" /\ JsStart(AProgram) /\ CallStart(AFile, "parsed") /\ BrujacStart(AnInput)
     \/ /\ client = "shapes"
        /\ \/ part = "bindings" /\ JsInit /\ CallStart(AFile, "parsed") /\ BrujacStart(AnInput)
           \/ part = "calls" /\ JsStart(AProgram) /\ CallInit /\ BrujacStart(AnInput)
           \/ part = "inputs" /\ JsStart(AProgram) /\ BrujacInit
MCNext ==
  \/ part = "heap" /\ HeapNext /\ UNCHANGED <<part, jsVars, callVars, brujacVars>>
  \/ part = "bindings" /\ JsNext /\ UNCHANGED <<part, allVars, callVars, brujacVars>>
  \/ part = "inputs" /\ (Translate \/ ParseText) /\ UNCHANGED <<part, allVars, jsVars>>
  \/ part \in {"calls", "inputs"} /\ CallNext /\ UNCHANGED <<part, allVars, jsVars, brujacVars>>
MCSpec == MCInit /\ [][MCNext]_MCvars
=============================================================================
