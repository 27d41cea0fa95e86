----------------------------- MODULE MCCompiler -----------------------------
(* The compilers and what stands behind the code they write: loading the     *)
(* graph of imported files, compiling one file, two peers that were compiled *)
(* from different versions of a schema, the DOM that implements Bruja's      *)
(* generated interfaces, and the converter to Go++.  A behaviour is about    *)
(* the one that `part` names; the others stay in an initial state.           *)
EXTENDS MCWireFormat, ModuleLoader, MCIdl, Dom, MCGoxx

\* Worlds for ModuleLoader: an entry that uses two names and two files that
\* declare one each, with every way to import one another, files that do not
\* parse and files without a module statement.
CONSTANTS fe, fa, fb
Seqs(S) == UNION {{s \in [1..n -> S] : \A i, j \in 1..n : s[i] = s[j] => i = j} : n \in 0..2}
File(st, im, d, u) == [header |-> st[1], body |-> st[2], module |-> st[3], imports |-> im, declares |-> d, uses |-> u]
Good == <<TRUE, TRUE, TRUE>>
States == {Good, <<FALSE, TRUE, TRUE>>, <<TRUE, FALSE, TRUE>>, <<TRUE, TRUE, FALSE>>}
MCWorlds ==
  {[f \in {fe, fa, fb} |->
      CASE f = fe -> File(Good, ie, {}, {"A", "B"})
        [] f = fa -> File(sa, ia, {"A"}, {"B"})
        [] f = fb -> File(sb, ib, {"B"}, {"A"})] :
     ie \in Seqs({fa, fb, Missing}), ia \in Seqs({fe, fb, Missing}),
     ib \in {<<>>, <<fa>>, <<fe>>, <<Missing>>}, sa \in States, sb \in States}

\* Pages for Dom: a script that edits a tree, one that edits the children of a
\* parsed page, attributes and classes, events, timers and navigation.
\* nodes: created; list: children of a node when one is added; calls: nested
\* dispatches and listeners of a target; ids: timers of a queue.
Page(backend, acts, kinds) ==
  [backend |-> backend, acts |-> acts, kinds |-> kinds, names |-> {"id", "class"}, nodes |-> 3, list |-> 2, calls |-> 2, ids |-> 2]
MCPages ==
  {Page("v8", {"create", "tree"}, {"fragment", "IMG"}),
   [Page("v8", {"create", "build", "child"}, {"IMG"}) EXCEPT !.list = 3],
   Page("v8", {"create", "build", "text"}, {"text", "DIV"}),
   [Page("quickjs", {"create", "attributes", "classes", "tree"}, {"IMG"}) EXCEPT !.nodes = 1],
   [Page("quickjs", {"create", "attributes", "fields"}, {"INPUT", "VIDEO", "P"})
      EXCEPT !.nodes = 1, !.names = {"checked", "value"}],
   Page("v8", {"params"}, {}),
   [Page("quickjs", {"create", "events", "reset"}, {"DIV"}) EXCEPT !.nodes = 1],
   [Page("quickjs", {"timers", "create", "reset", "body"}, {"DIV"}) EXCEPT !.nodes = 1]}

VARIABLE part
MCvars == <<part, wireVars, loaderVars, idlVars, domVars, goxxVars>>

AWorld == CHOOSE w \in Worlds : TRUE
AFile == CHOOSE f \in IdlFiles : TRUE
ASource == CHOOSE s \in Sources : TRUE
APage == CHOOSE p \in Pages : TRUE
MCInit ==
  /\ part \in {"wire", "loader", "file", "dom", "goxx"}
  /\ IF part = "wire"   THEN WireInit   ELSE WireStart(<<0, 0>>)
  /\ IF part = "loader" THEN LoaderInit ELSE LoaderStart(AWorld, TRUE)
  /\ IF part = "file"   THEN IdlInit    ELSE IdlStart(AFile, {})
  /\ IF part = "dom"    THEN DomInit    ELSE DomStart(APage)
  /\ IF part = "goxx"   THEN GoxxInit   ELSE GoxxStart(ASource)
MCNext ==
  \/ part = "wire" /\ WireNext /\ UNCHANGED <<part, loaderVars, idlVars, domVars, goxxVars>>
  \/ part = "loader" /\ LoaderNext /\ UNCHANGED <<part, wireVars, idlVars, domVars, goxxVars>>
  \/ part = "file" /\ IdlNext /\ UNCHANGED <<part, wireVars, loaderVars, domVars, goxxVars>>
  \/ part = "dom" /\ DomNext /\ UNCHANGED <<part, wireVars, loaderVars, idlVars, goxxVars>>
  \/ part = "goxx" /\ GoxxNext /\ UNCHANGED <<part, wireVars, loaderVars, idlVars, domVars>>
MCSpec == MCInit /\ [][MCNext]_MCvars
=============================================================================
