---------------------------- MODULE ModuleLoader ----------------------------
(* voodoomc from the command line to the headers on disk: LoadModuleGraph    *)
(* and LoadFileInto (src/src/module_loader.cc), which parse a file after     *)
(* everything it imports, and main (src/src/main.cc), which generates one    *)
(* header for each file of the graph.  A file is what the loader sees of     *)
(* it: whether its header and its body parse, its module statement, its      *)
(* imports, and the names its body declares and uses.                        *)
EXTENDS Naturals, Sequences, FiniteSets, SequencesExt

CONSTANTS
  Files,        \* resolved paths
  Missing,      \* an import path that no candidate directory has
  Worlds,       \* the contents of the files: sets of functions over Files
  Entry,        \* the file named on the command line
  PerFileModes  \* whether `skipped` was passed: main and mojovm do

VARIABLES
  world,        \* file -> [header, body: BOOLEAN, module: BOOLEAN, imports, declares, uses]
  per_file,
  frames,       \* the recursion of LoadFileInto: sequence of [path, next, resolved]
  merged,       \* LoadState::merged
  failed,       \* LoadState::failed
  owner_by_name,\* Prelude::owner_by_name: name -> file, the last that declared it
  graph,        \* LoadedGraph: sequence of [path, imports, bound]
  outcome,      \* "loading", "thrown", "loaded", "exit0", "exit1"
  written       \* the files whose header is on disk

loaderVars == <<world, per_file, frames, merged, failed, owner_by_name, graph, outcome, written>>

-----------------------------------------------------------------------------

InGraph == {graph[i].path : i \in DOMAIN graph}
Loading == {frames[i].path : i \in DOMAIN frames}
Top == frames[Len(frames)]
Frame(f) == [path |-> f, next |-> 1, resolved |-> <<>>]

LoaderStart(w, mode) ==
  /\ world = w
  /\ per_file = mode
  /\ frames = <<Frame(Entry)>>
  /\ merged = {} /\ failed = {} /\ graph = <<>> /\ written = {}
  /\ owner_by_name = <<>>
  /\ outcome = "loading"
LoaderInit == \E w \in Worlds, mode \in PerFileModes : LoaderStart(w, mode)

Loads == outcome = "loading" /\ frames # <<>>

\* GiveUp: in per-file mode the file is marked merged and failed, and the
\* importer goes on; otherwise LoadError leaves LoadModuleGraph.
GiveUp(f) ==
  /\ frames' = Front(frames)
  /\ merged' = merged \union {f}
  /\ failed' = failed \union {f}
  /\ outcome' = IF per_file THEN outcome ELSE "thrown"

\* Tokenize or ParseHeader throws.
BadHeader ==
  /\ Loads /\ Top.next = 1 /\ ~world[Top.path].header
  /\ GiveUp(Top.path)
  /\ UNCHANGED <<world, per_file, owner_by_name, graph, written>>

HasImport == Loads /\ world[Top.path].header /\ Top.next <= Len(world[Top.path].imports)
NextImport == world[Top.path].imports[Top.next]

\* The loop over header.imports takes its next step: to is resolved_path,
\* or Missing when that is cleared.
Resolve(to) ==
  [frames EXCEPT ![Len(frames)] =
     [@ EXCEPT !.next = @ + 1, !.resolved = Append(@, to)]]

\* No candidate can be read.
UnresolvedImport ==
  /\ HasImport /\ NextImport = Missing
  /\ IF per_file THEN outcome' = outcome /\ frames' = Resolve(Missing)
                 ELSE outcome' = "thrown" /\ frames' = frames
  /\ UNCHANGED <<world, per_file, merged, failed, owner_by_name, graph, written>>


\* LoadFileInto on a file that is merged: a diamond, or one that failed.
MergedImport ==
  /\ HasImport /\ NextImport \in merged
  /\ frames' = Resolve(IF NextImport \in failed THEN Missing ELSE NextImport)
  /\ UNCHANGED <<world, per_file, merged, failed, owner_by_name, graph, outcome, written>>

\* LoadFileInto on a file that is loading throws, in either mode.
CyclicImport ==
  /\ HasImport /\ NextImport \in Loading
  /\ outcome' = "thrown"
  /\ UNCHANGED <<world, per_file, frames, merged, failed, owner_by_name, graph, written>>

\* LoadFileInto recurses; the importer looks at the import again when it
\* returns, when the file is merged.
NewImport ==
  /\ HasImport /\ NextImport \in Files \ (merged \union Loading)
  /\ frames' = Append(frames, Frame(NextImport))
  /\ UNCHANGED <<world, per_file, merged, failed, owner_by_name, graph, outcome, written>>

ImportsDone == Loads /\ world[Top.path].header /\ Top.next > Len(world[Top.path].imports)

BadBody ==
  /\ ImportsDone /\ ~world[Top.path].body
  /\ GiveUp(Top.path)
  /\ UNCHANGED <<world, per_file, owner_by_name, graph, written>>

\* OwnerOf: a name of the file itself is local, another belongs to the file
\* that declared it last, and one nobody declared is an ExternalType.
OwnerOf(f, n) ==
  IF n \in world[f].declares THEN f
  ELSE IF n \in DOMAIN owner_by_name THEN owner_by_name[n] ELSE Missing

MergeIntoAccumulated(f) ==
  [n \in DOMAIN owner_by_name \union world[f].declares |->
     IF n \in world[f].declares THEN f ELSE owner_by_name[n]]

\* ParseBody, ApplyEnableIf, MergeIntoAccumulated and the push onto graph.
Body ==
  /\ ImportsDone /\ world[Top.path].body
  /\ LET f == Top.path
     IN  /\ graph' = Append(graph, [path |-> f, imports |-> Top.resolved,
                                    bound |-> [n \in world[f].uses |-> OwnerOf(f, n)]])
         /\ owner_by_name' = MergeIntoAccumulated(f)
         /\ merged' = merged \union {f}
  /\ frames' = Front(frames)
  /\ UNCHANGED <<world, per_file, failed, outcome, written>>

\* LoadModuleGraph returns; entry_loaded compares graph.back() with the entry.
EntryLoaded == graph # <<>> /\ graph[Len(graph)].path = Entry

Return ==
  /\ outcome = "loading" /\ frames = <<>>
  /\ outcome' = "loaded"
  /\ UNCHANGED <<world, per_file, frames, merged, failed, owner_by_name, graph, written>>

\* main: a header for each import that has a module statement; the entry's
\* last, when the entry was loaded and has a namespace.
Generate ==
  /\ outcome = "loaded" /\ per_file
  /\ LET imports == IF EntryLoaded THEN InGraph \ {Entry} ELSE InGraph
         ok      == EntryLoaded /\ world[Entry].module
     IN  /\ written' = {f \in imports : world[f].module} \union (IF ok THEN {Entry} ELSE {})
         /\ outcome' = IF ok THEN "exit0" ELSE "exit1"
  /\ UNCHANGED <<world, per_file, frames, merged, failed, owner_by_name, graph>>

\* main's handlers of LexError, ParseError and LoadError.
Report ==
  /\ outcome = "thrown"
  /\ outcome' = "exit1"
  /\ UNCHANGED <<world, per_file, frames, merged, failed, owner_by_name, graph, written>>

LoaderNext ==
  \/ BadHeader \/ UnresolvedImport \/ MergedImport \/ CyclicImport \/ NewImport
  \/ BadBody \/ Body \/ Return \/ Generate \/ Report

LoaderSpec == LoaderInit /\ [][LoaderNext]_loaderVars

-----------------------------------------------------------------------------

\* What f imports, directly or through others, as far as headers can be read.
ImportPaths(f) == {world[f].imports[i] : i \in DOMAIN world[f].imports}
OpenImports == [f \in Files |-> IF world[f].header THEN ImportPaths(f) \ {Missing} ELSE {}]
RECURSIVE ReachesIn(_, _, _)
ReachesIn(rel, from, n) ==
  IF n = 0 THEN from ELSE ReachesIn(rel, from \union UNION {rel[f] : f \in from}, n - 1)
Transitive(f) == ReachesIn(OpenImports, OpenImports[f], Cardinality(Files))

Place(f) == CHOOSE i \in DOMAIN graph : graph[i].path = f
Loaded == outcome \in {"loaded", "exit0", "exit1"} /\ frames = <<>>

\* LoadedGraph: "every file a given file imports (transitively) appears
\* strictly before it, so back() is always the entry file", and a diamond-
\* imported file appears exactly once; in per-file mode, of the files that
\* made it into the graph.
DependencyOrder ==
  /\ \A i, j \in DOMAIN graph : graph[i].path = graph[j].path => i = j
  /\ \A f \in InGraph : \A g \in Transitive(f) \intersect InGraph : Place(g) < Place(f)
  /\ Loaded /\ Entry \in InGraph => graph[Len(graph)].path = Entry

\* A load gives up only for a reason: what is reachable from the entry and
\* missing from the graph is a file that does not parse, or one that only
\* such files import, and a thrown load has a cycle or, in strict mode, a bad file.
Sound(f) == world[f].header /\ world[f].body
Visited == ReachesIn(OpenImports, {Entry}, Cardinality(Files))
Cyclic == \E f \in Visited : f \in Transitive(f)
NothingLeftOut ==
  /\ outcome \in {"loaded", "exit0"} => InGraph = {f \in Visited : Sound(f)}
  /\ outcome = "thrown" =>
       \/ Cyclic
       \/ ~per_file /\ \E f \in Visited : ~Sound(f) \/ Missing \in ImportPaths(f)

\* The header of a file #includes the headers of its resolved imports.
Includes == [f \in Files |-> IF f \in InGraph
                              THEN {graph[Place(f)].imports[i] : i \in DOMAIN graph[Place(f)].imports} \ {Missing}
                              ELSE {}]

\* Cross-file resolution (SeedFromPrelude, OwnerOf): a name that one file of
\* the transitive imports declares, and no other file does, is bound to that
\* file, and the file's header is among those the #include lines reach.
NamesAreBound ==
  \A f \in InGraph : \A n \in world[f].uses \ world[f].declares :
    \A g \in InGraph \intersect ReachesIn(Includes, Includes[f], Cardinality(Files)) :
      /\ n \in world[g].declares
      /\ \A h \in Files \ {g} : n \notin world[h].declares
      => graph[Place(f)].bound[n] = g

\* main.cc: "every *imported* file gets its own generated header written
\* there ... #included from whatever generated header(s) actually reference
\* it".  When voodoomc succeeds, the headers that are included and not on disk
\* are those of imports without a module statement, which main names on stderr
\* and skips, and no others: against the comment, DirectImportHeaders includes
\* them all the same.
IncludesAreWritten ==
  outcome = "exit0" => \A f \in written : Includes[f] \ written = {g \in Includes[f] : ~world[g].module}


=============================================================================
