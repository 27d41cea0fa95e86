------------------------------ MODULE JsBinding ------------------------------
(***************************************************************************)
(* What brujac makes of a .bruja file (WASMBruja: resolver.cc,             *)
(* cpp_generator.cc for --backend=quickjs, cpp_generator_v8.cc for         *)
(* --backend=v8) and what the generated header does when it runs on the V8 *)
(* facade (WASMv8bindings: isolate.cc, object.cc, template.cc,             *)
(* v8-sandbox.h): wrapping C++ objects, unwrapping them as arguments of a  *)
(* declared interface type, and the per isolate templates and              *)
(* constructors.  The values that calls convert are in JsCalls.            *)
(*                                                                         *)
(* A program is a backend and the headers linked into it.  A header has a  *)
(* C++ namespace and interfaces in the order of the file, each with its    *)
(* base.  The rest of the record bounds what the program does: the         *)
(* isolates and wrappers it makes (isolates, made), the wrappers alive at  *)
(* a time (objects), and whether scripts call methods or construct         *)
(* objects.                                                                *)
(***************************************************************************)
EXTENDS EntityTable, FiniteSets, FiniteSetsExt, SequencesExt

CONSTANTS
  Programs,    \* the programs to build and run
  Addresses,   \* where Isolate::New may put an isolate
  JsContexts   \* contexts of an isolate

VARIABLES
  program,   \* the program
  stage,     \* "resolve", "run" or "refused"
  process,   \* the globals of the generated headers: next, base, tag, factory
  isolates,  \* address |-> the isolate there, numbered by birth, or 0
  tables,    \* isolate |-> its CppHeapPointerTable
  templates, \* the XV8TemplatesByIsolate and XV8ConstructorsByIsolate entries
  wrappers,  \* the JS objects of class WasmV8Wrapper or of an interface
  cast       \* the last conversion of an interface argument

jsVars == <<program, stage, process, isolates, tables, templates, wrappers, cast>>

NoBase   == ""
kNullTag == 0
NoCast   == [as |-> NoBase, made |-> NoBase, impl |-> NoBase, got |-> FALSE]

-----------------------------------------------------------------------------
(* resolver.cc and the orders of the generators.                           *)

Headers == Range(program.headers)
Names(h) == [i \in DOMAIN h.interfaces |-> h.interfaces[i].name]
Decl(h, x) == CHOOSE d \in Range(h.interfaces) : d.name = x
HeaderOf(x) == CHOOSE h \in Headers : x \in Range(Names(h))
Interfaces == UNION {Range(Names(h)) : h \in Headers}

\* CheckBaseChain walks from an interface to its bases: a name that is not
\* declared and one that was visited are errors.
RECURSIVE ChainIsGood(_, _, _)
ChainIsGood(h, x, visited) ==
  LET b == Decl(h, x).base
  IN  b = NoBase \/ /\ b \in Range(Names(h)) \ visited
                    /\ ChainIsGood(h, b, visited \cup {b})

\* AncestorsInclusive.
RECURSIVE Ancestors(_, _)
Ancestors(h, x) ==
  LET b == Decl(h, x).base IN {x} \cup IF b = NoBase THEN {} ELSE Ancestors(h, b)

IsA(x, t) == HeaderOf(x) = HeaderOf(t) /\ t \in Ancestors(HeaderOf(x), x)

\* TopoSortByBase, and TopoSortDictionariesByBase, which is the same: each
\* declaration is preceded by the bases that were not emitted yet.
RECURSIVE Chain(_, _, _)
Chain(h, x, emitted) ==
  IF x = NoBase \/ x \in emitted THEN <<>>
  ELSE Append(Chain(h, Decl(h, x).base, emitted), x)

TopoSortByBase(h) ==
  FoldLeft(LAMBDA out, x : out \o Chain(h, x, Range(out)), <<>>, Names(h))

\* AssignTagIndicesRec: a subtree in pre-order, children as declared.
RECURSIVE Subtree(_, _)
Subtree(h, x) ==
  LET children == SelectSeq(Names(h), LAMBDA c : Decl(h, c).base = x)
  IN  <<x>> \o FlattenSeq([i \in DOMAIN children |-> Subtree(h, children[i])])

\* ComputeTagIndices: local_index, and subtree_min and subtree_max.
Preorder(h) ==
  LET roots == SelectSeq(Names(h), LAMBDA c : Decl(h, c).base = NoBase)
  IN  FlattenSeq([i \in DOMAIN roots |-> Subtree(h, roots[i])])

LocalIndex(x) ==
  LET order == Preorder(HeaderOf(x)) IN (CHOOSE i \in DOMAIN order : order[i] = x) - 1
SubtreeMax(x) == Max({LocalIndex(y) : y \in Range(Subtree(HeaderOf(x), x))})

-----------------------------------------------------------------------------
(* Tags and class ids.  The V8 backend adds to a local index the base that *)
(* TagBaseValue() allocates, a static of a function that is not named for  *)
(* the header: headers of one namespace share it, with the count of the    *)
(* definition that the linker kept.                                        *)

\* TagBaseValue with AllocateCppHeapPointerTagRange.
WithTagBase(p, h) ==
  IF p.base[h.ns] # kNullTag THEN p
  ELSE LET kept == CHOOSE k \in Headers : k.ns = h.ns
       IN  [p EXCEPT !.base[h.ns] = p.next, !.next = @ + Len(kept.interfaces)]

\* EnsureV8XTag; JS_NewClassID in CreateXBinding of the quickjs backend.
WithTag(p, x) ==
  IF p.tag[x] # kNullTag THEN p
  ELSE IF program.backend = "v8"
       THEN LET q == WithTagBase(p, HeaderOf(x))
            IN  [q EXCEPT !.tag[x] = q.base[HeaderOf(x).ns] + LocalIndex(x)]
       ELSE [p EXCEPT !.tag[x] = p.next, !.next = @ + 1]

\* Mutant of TagRange: the range ends at the last direct child.
TagRangeOfChildren(p, t) ==
  LET h == HeaderOf(t)
      b == WithTagBase(p, h).base[h.ns]
      children == {c \in Range(Names(h)) : Decl(h, c).base = t}
  IN  b + LocalIndex(t) .. b + LocalIndex(t) + Cardinality(children)

\* TagRangeExpr.
TagRange(p, t) ==
  LET h == HeaderOf(t)
      b == WithTagBase(p, h).base[h.ns]
  IN  b + LocalIndex(t) .. b + SubtreeMax(t)

\* The class ids that EmitInterfaceProbe tries: DescendantsInclusive.  An id
\* that was never allocated is 0, which is no object's class.
ProbedIds(p, t) == {p.tag[x] : x \in Range(Subtree(HeaderOf(t), t))} \ {kNullTag}

Accepted(p, t) == IF program.backend = "v8" THEN TagRange(p, t) ELSE ProbedIds(p, t)

NoPointer == NoBase

\* Object::Unwrap and JS_GetOpaque: the C++ object behind a wrapper, if its
\* tag is among those asked for.
UnwrapRaw(w, tags) == Get(tables[w.isolate], w.handle, tags, NoPointer)

-----------------------------------------------------------------------------
(* The life of the process.                                                *)

JsStart(p) ==
  /\ program = p
  /\ stage = "resolve"
  /\ process = [next |-> 1, base |-> [n \in {h.ns : h \in Headers} |-> kNullTag],
                tag |-> [x \in Interfaces |-> kNullTag],
                factory |-> [x \in Interfaces |-> 0]]
  /\ isolates = [a \in Addresses |-> 0]
  /\ tables = <<>>
  /\ templates = {}
  /\ wrappers = <<>>
  /\ cast = NoCast
JsInit == \E p \in Programs : JsStart(p)

\* Resolve: the first bad base chain refuses the file.
Resolves ==
  /\ stage = "resolve"
  /\ stage' = IF \A h \in Headers : \A x \in Range(Names(h)) : ChainIsGood(h, x, {x})
              THEN "run" ELSE "refused"
  /\ UNCHANGED <<program, process, isolates, tables, templates, wrappers, cast>>

\* Isolate::New, at an address that the allocator has free.
NewIsolate(a) ==
  /\ stage = "run" /\ isolates[a] = 0 /\ Len(tables) < program.isolates
  /\ isolates' = [isolates EXCEPT ![a] = Len(tables) + 1]
  /\ tables' = Append(tables, EmptyTable)
  /\ UNCHANGED <<program, stage, process, templates, wrappers, cast>>

NoContext == 0
Template(kind, x, a) ==
  [kind |-> kind, of |-> x, at |-> a, isolate |-> isolates[a], cached |-> NoContext,
   made |-> [c \in JsContexts |-> 0]]
Found(kind, x, a) == {t \in templates : t.kind = kind /\ t.of = x /\ t.at = a}

\* EnsureV8XTemplate and EnsureV8XConstructorTemplate: the entry of this
\* isolate's address, built at the first use.
Ensured(kind, x, a) ==
  IF Found(kind, x, a) = {} THEN Template(kind, x, a)
  ELSE CHOOSE t \in Found(kind, x, a) : TRUE

\* FunctionTemplate::GetFunction: one function is kept, with its context.
GetFunction(t, c) ==
  IF t.cached = c THEN t ELSE [t EXCEPT !.cached = c, !.made[c] = @ + 1]

Refreshed(kind, x, a, c) ==
  (templates \ Found(kind, x, a)) \cup {GetFunction(Ensured(kind, x, a), c)}

Room == Cardinality({i \in DOMAIN wrappers : wrappers[i].live}) < program.objects
        /\ Len(wrappers) < program.made

\* Object::Wrap, or JS_SetOpaque, on a fresh instance.
Wrapped(x, impl, iso) ==
  [as |-> x, impl |-> impl, isolate |-> iso, handle |-> NextEntry(tables[iso]), live |-> TRUE]

\* CreateXBinding with an implementation of x or of an interface below it:
\* the template (v8), the tag, a new instance and its table entry.
CreateBinding(a, c, x, impl) ==
  /\ stage = "run" /\ isolates[a] # 0 /\ Room /\ IsA(impl, x)
  /\ LET iso == isolates[a]
         p   == WithTag(process, x)
     IN  /\ process' = p
         /\ templates' = IF program.backend = "v8" THEN Refreshed("object", x, a, c) ELSE templates
         /\ tables' = [tables EXCEPT ![iso] = AllocateEntry(@, Entry(p.tag[x], impl))]
         /\ wrappers' = Append(wrappers, Wrapped(x, impl, iso))
  /\ UNCHANGED <<program, stage, isolates, cast>>

\* InstallV8XConstructor: the factory slot is the process's.
InstallConstructor(a, c, x) ==
  /\ stage = "run" /\ isolates[a] # 0 /\ program.constructors
  /\ process' = [process EXCEPT !.factory[x] = isolates[a]]
  /\ templates' = IF program.backend = "v8" THEN Refreshed("constructor", x, a, c) ELSE templates
  /\ UNCHANGED <<program, stage, isolates, tables, wrappers, cast>>

\* new X(...): InvokeConstructor makes the instance, JsV8X_construct calls
\* the factory and wraps what it returns.  A factory that returns null, or a
\* call with too few arguments, leaves the instance without an entry.
Construct(a, x, succeeds) ==
  /\ isolates[a] # 0 /\ Room /\ process.factory[x] # 0
  /\ program.backend = "quickjs" \/ Found("constructor", x, a) # {}
  /\ program.backend = "quickjs" => succeeds
  /\ LET iso == isolates[a]
         p   == WithTag(process, x)
     IN  IF succeeds
         THEN /\ process' = p
              /\ tables' = [tables EXCEPT ![iso] = AllocateEntry(@, Entry(p.tag[x], x))]
              /\ wrappers' = Append(wrappers, Wrapped(x, x, iso))
         ELSE /\ wrappers' = Append(wrappers, [Wrapped(x, NoPointer, iso)
                                                 EXCEPT !.handle = kNullHandle])
              /\ UNCHANGED <<process, tables>>
  /\ UNCHANGED <<program, stage, isolates, templates, cast>>

\* A call of the method of template x that takes a T, on `this`: the
\* receiver is unwrapped by x's own tag, the argument by T's subtree.
CallMethod(x, t, this, arg) ==
  /\ program.calls /\ this.live /\ arg.live /\ this.isolate = arg.isolate
  /\ HeaderOf(x) = HeaderOf(t)
  /\ IF UnwrapRaw(this, {process.tag[x]} \ {kNullTag}) = NoPointer THEN UNCHANGED <<process, cast>>
     ELSE /\ process' = IF program.backend = "v8" THEN WithTagBase(process, HeaderOf(t)) ELSE process
          /\ cast' = [as |-> t, made |-> arg.as, impl |-> arg.impl,
                      got |-> UnwrapRaw(arg, Accepted(process, t)) # NoPointer]
  /\ UNCHANGED <<program, stage, isolates, tables, templates, wrappers>>

\* A wrapper is collected: its entry goes back to the table.
WrapperFinalizer(i) ==
  /\ wrappers[i].live
  /\ wrappers' = [wrappers EXCEPT ![i].live = FALSE]
  /\ tables' = [tables EXCEPT ![wrappers[i].isolate] = FreeEntry(@, wrappers[i].handle)]
  /\ UNCHANGED <<program, stage, process, isolates, templates, cast>>

\* TeardownXV8Binding for every interface.
TeardownBinding(a) == {t \in templates : t.at # a}

\* The embedder tears the bindings down and calls Isolate::Dispose, which
\* frees the contexts and the runtime with every wrapper in it.
Dispose(a) ==
  /\ isolates[a] # 0
  /\ templates' = TeardownBinding(a)
  /\ isolates' = [isolates EXCEPT ![a] = 0]
  /\ wrappers' = [i \in DOMAIN wrappers |->
                    IF wrappers[i].isolate = isolates[a]
                    THEN [wrappers[i] EXCEPT !.live = FALSE] ELSE wrappers[i]]
  /\ tables' = [tables EXCEPT ![isolates[a]] = EmptyTable]
  /\ UNCHANGED <<program, stage, process, cast>>

JsNext ==
  \/ Resolves
  \/ \E a \in Addresses :
       \/ NewIsolate(a)
       \/ Dispose(a)
       \/ \E x \in Interfaces :
            \/ \E c \in JsContexts, impl \in Interfaces : CreateBinding(a, c, x, impl)
            \/ \E c \in JsContexts : InstallConstructor(a, c, x)
            \/ \E succeeds \in BOOLEAN : Construct(a, x, succeeds)
  \/ \E x, t \in Interfaces : \E this, arg \in Range(wrappers) : CallMethod(x, t, this, arg)
  \/ \E i \in DOMAIN wrappers : WrapperFinalizer(i)

JsSpec == JsInit /\ [][JsNext]_jsVars

-----------------------------------------------------------------------------
(* Properties.                                                             *)

(* An argument of interface type is accepted exactly when the wrapper was   *)
(* made as that interface or one below it, whatever the order of the       *)
(* declarations, the order in which the interfaces were first used and the *)
(* other headers of the process: the pointer that the implementation gets  *)
(* is then a T.  (TagRangeExpr and EmitInterfaceProbe.)                    *)
UnwrapIsSubtyping ==
  cast # NoCast => /\ cast.got <=> cast.impl # NoPointer /\ IsA(cast.made, cast.as)
                   /\ cast.got => IsA(cast.impl, cast.as)

(* When a class is emitted the class that it derives from is complete:     *)
(* every base precedes its derived interfaces, and every interface is      *)
(* emitted once.  (TopoSortByBase.)                                        *)
BasesFirst ==
  stage = "run" =>
    \A h \in Headers :
      LET order == TopoSortByBase(h)
      IN  /\ Len(order) = Len(h.interfaces) /\ Range(order) = Range(Names(h))
          /\ \A i \in DOMAIN order :
               \A b \in {Decl(h, order[i]).base} \ {NoBase} :
                 b \in Range(SubSeq(order, 1, i - 1))

(* Templates and constructors belong to the isolate that lives at their    *)
(* address, also when an address is used again: an instance is never made  *)
(* with the class id of a runtime that is gone.  (XV8TemplatesByIsolate.)  *)
TemplatesOfLiveIsolates == \A t \in templates : t.isolate = isolates[t.at]

(* Every live wrapper has an entry of its own, with the object it was made *)
(* for, and a table keeps no entry that no wrapper names, whatever was     *)
(* collected and reused before.  (WrapRaw, WrapperFinalizer.)              *)
EntriesExact ==
  \A n \in DOMAIN tables :
    LET mine == {w \in Range(wrappers) : w.live /\ w.isolate = n /\ w.handle # kNullHandle}
        used == {e \in DOMAIN tables[n].entries : ~ContainsFreelistLink(tables[n], e)}
    IN  /\ Cardinality(used) = Cardinality({i \in DOMAIN wrappers : wrappers[i] \in mine})
        /\ \A w \in mine : /\ w.handle \in used
                           /\ tables[n].entries[w.handle].payload = w.impl

(* v8-template.h: a second GetFunction for a context returns the same      *)
(* function rather than a disconnected duplicate.  It does as long as an   *)
(* isolate has one context: the template keeps the function of the context *)
(* that asked last.                                                        *)
OneFunctionPerContext ==
  Cardinality(JsContexts) = 1 => \A t \in templates : \A c \in JsContexts : t.made[c] <= 1

(* What scripts and implementations rely on, however isolates come and go, *)
(* wrappers are made and collected, and headers are combined.              *)
BindingsAreSafe ==
  UnwrapIsSubtyping /\ BasesFirst /\ TemplatesOfLiveIsolates /\ EntriesExact
    /\ OneFunctionPerContext
=============================================================================
