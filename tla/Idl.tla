-------------------------------- MODULE Idl --------------------------------
(***************************************************************************)
(* voodoomc on one .voodoom file: the name pre-scan, the recursive descent  *)
(* over the declarations, the complete-type cycle check, [EnableIf] and the *)
(* order in which the C++ header is written (src/parser.cc, src/ast.h,      *)
(* src/cpp_generator.cc).                                                   *)
(*                                                                          *)
(* A file is the sequence of its declarations in the order the parser       *)
(* finishes them (members before the interface or struct that holds them).  *)
(* Every declaration is a record with the same fields:                      *)
(*   kind    "struct", "union", "enum", "const", "method" or "interface"    *)
(*   name, in  its name and the container it is nested in ("" at top level) *)
(*   fields  of a struct, a union or an enum, the two arms of a method's    *)
(*           result<T, E>; a field is [wrap, to, name, tag, when, default]  *)
(*   tag     the explicit @N of a method, NoTag without one                 *)
(*   ref     the const a const's value names, <<>> for a literal            *)
(*   when    its [EnableIf] and [EnableIfNot] clauses                       *)
(* A type is the sequence of its wrappers, the outermost first, and the     *)
(* qualified name of the struct or union it holds.                          *)
(***************************************************************************)
EXTENDS Integers, Sequences, FiniteSets

CONSTANTS
  IdlFiles,       \* the files compiled
  IdlFeatures,    \* the sets of --enable-if flags
  ReservedOrdinal \* the first ordinal of the control messages, 0xFFFFFFFE

ASSUME IdlFilesAreCompleted ==
  \A f \in IdlFiles : \A i \in DOMAIN f : f[i].in # "" =>
    \E j \in i + 1..Len(f) : f[j].name = f[i].in /\ f[j].in = "" /\ f[j].kind \in {"struct", "interface"}

VARIABLES
  source,    \* [file, features]: the compiled file and the enabled features
  decls,     \* what the parser has accepted, in the order it finished them
  constant,  \* const_by_name_: const name -> its declaration's index in decls
  container, \* const_container_: const name -> the container seen last
  phase,     \* "parsing", "rejected", "parsed", "filtered", "sorting", "done", "logic_error"
  header     \* the definitions written to the header so far

idlVars == <<source, decls, constant, container, phase, header>>

NoTag == -1
Indices(s) == DOMAIN s
IdlFile == source.file
Embeds == {"struct", "union"}
At == IdlFile[Len(SelectSeq(decls, LAMBDA d : ~d.made)) + 1]
MoreTokens == Len(SelectSeq(decls, LAMBDA d : ~d.made)) < Len(IdlFile)

(***************************************************************************)
(* Name resolution. CollectDeclaredNames runs over the whole file before    *)
(* the first declaration is parsed: where a name is nested in two           *)
(* containers a bare reference means the textually last one.                *)
(***************************************************************************)
Declaring(kinds, name) == {i \in Indices(IdlFile) : IdlFile[i].kind \in kinds /\ IdlFile[i].name = name}
LastOf(S) == CHOOSE i \in S : \A j \in S : j <= i
EmbedDeclKey(in, name) == <<in, name>>

ResolveBare(name) ==
  IF Declaring({"struct"}, name) # {} THEN EmbedDeclKey(IdlFile[LastOf(Declaring({"struct"}, name))].in, name)
  ELSE IF Declaring({"union"}, name) # {} THEN EmbedDeclKey(IdlFile[LastOf(Declaring({"union"}, name))].in, name)
  ELSE <<"", name>>  \* ExternalType: a name of no import stays a struct reference

ResolveType(to) ==
  IF to[1] # "" /\ \E i \in Declaring(Embeds, to[2]) : IdlFile[i].in = to[1]
  THEN EmbedDeclKey(to[1], to[2])
  ELSE ResolveBare(to[2])

\* Mutant: a fixed array counts as a pointer, too.
CompleteDepUnwrapped(f) == IF f.wrap # <<>> THEN {} ELSE {f.to}

\* AppendCompleteTypeDeps: array<T> and map<K, T> hold an incomplete T, a
\* fixed array is looked through, a nullable struct or union is skipped.
CompleteDep(f) ==
  IF \E i \in DOMAIN f.wrap : f.wrap[i] \in {"array", "map"} THEN {}
  ELSE IF f.wrap # <<>> /\ f.wrap[Len(f.wrap)] = "optional" THEN {}
  ELSE {f.to}
CompleteTypeDeps(d) == UNION {CompleteDep(d.fields[i]) : i \in Indices(d.fields)}
KeyOf(d) == EmbedDeclKey(d.in, d.name)
EmbedsIn(ds) == {i \in Indices(ds) : ds[i].kind \in Embeds}

(***************************************************************************)
(* [EnableIf]                                                               *)
(***************************************************************************)
ClauseMatches(c, negate) ==
  \/ c.mode = "none"
  \/ c.mode # "none"
     /\ LET hit == IF c.mode = "any" THEN c.flags \cap source.features # {}
                   ELSE c.flags # {} /\ c.flags \subseteq source.features
        IN  hit # negate
IsDeclEnabled(when) == ClauseMatches(when.enable_if, FALSE) /\ ClauseMatches(when.enable_if_not, TRUE)

FilterFields(d) == [d EXCEPT !.fields = SelectSeq(@, LAMBDA f : IsDeclEnabled(f.when))]
\* A disabled container takes what is nested in it along. The union a
\* result<T, E> was turned into carries no clause and hangs at top level.
Kept(ds, d) ==
  /\ IsDeclEnabled(d.when)
  /\ \/ d.made
     \/ \A i \in Indices(ds) : ds[i].kind \in {"struct", "interface"} /\ ds[i].name = d.in => IsDeclEnabled(ds[i].when)
EraseDisabled(ds) == SelectSeq(ds, LAMBDA d : Kept(ds, d))
FilteredModule(ds) ==
  LET kept == EraseDisabled(ds)
      filtered == [i \in Indices(kept) |-> FilterFields(kept[i])]
  IN  SelectSeq(filtered, LAMBDA d : d.kind = "union" => d.fields # <<>>)

(***************************************************************************)
(* Numbering: union tags, enum values                                       *)
(***************************************************************************)
Explicit(fs) == {fs[i].tag : i \in {j \in Indices(fs) : fs[j].tag # NoTag}}
ImplicitBefore(fs, i) == Cardinality({j \in 1..i - 1 : fs[j].tag = NoTag})
\* Mutant: untagged fields take their place in the file.
UnionTagsByPlace(fs) == [i \in Indices(fs) |-> IF fs[i].tag # NoTag THEN fs[i].tag ELSE i - 1]

\* Untagged fields take, in order, the next ordinal that is not already used.
UnionTags(fs) ==
  LET tag[i \in 0..Len(fs)] ==  \* <<the tag of field i, the next candidate>>
        IF i = 0 THEN <<NoTag, 0>>
        ELSE IF fs[i].tag # NoTag THEN <<fs[i].tag, tag[i - 1][2]>>
        ELSE LET t == CHOOSE n \in tag[i - 1][2]..tag[i - 1][2] + Len(fs) :
                        /\ n \notin Explicit(fs)
                        /\ \A m \in tag[i - 1][2]..n - 1 : m \in Explicit(fs)
             IN  <<t, t + 1>>
  IN  [i \in Indices(fs) |-> tag[i][1]]
EnumNumbers(fs) ==
  LET value[i \in 1..Len(fs)] ==
        IF fs[i].tag # NoTag THEN fs[i].tag
        ELSE IF fs[i].to[2] # "" THEN value[CHOOSE j \in 1..i - 1 : fs[j].name = fs[i].to[2]]  \* alias
        ELSE IF i = 1 THEN 0 ELSE value[i - 1] + 1
  IN  [i \in Indices(fs) |-> value[i]]
UnknownAlias(fs) ==
  \E i \in Indices(fs) : fs[i].tag = NoTag /\ fs[i].to[2] # "" /\ ~\E j \in 1..i - 1 : fs[j].name = fs[i].to[2]

Numbered(fs, tags) == [i \in Indices(fs) |-> [fs[i] EXCEPT !.tag = tags[i]]]
Typed(fs) == [i \in Indices(fs) |-> [fs[i] EXCEPT !.to = ResolveType(@)]]
Defaults(fs) == Cardinality({i \in Indices(fs) : fs[i].default})

(***************************************************************************)
(* ParseBody, one declaration at a time                                     *)
(***************************************************************************)
Parsing == phase = "parsing" /\ MoreTokens
Finish(ds) == decls' = decls \o ds
Reject == phase' = "rejected" /\ UNCHANGED <<source, decls, constant, container, header>>
Parsed(d) == [kind |-> d.kind, name |-> d.name, in |-> d.in, fields |-> d.fields, tag |-> d.tag,
              ref |-> d.ref, when |-> d.when, made |-> FALSE]
NoClause == [mode |-> "none", flags |-> {}]
Always == [enable_if |-> NoClause, enable_if_not |-> NoClause]

ParseStruct ==
  /\ Parsing /\ At.kind = "struct"
  /\ Finish(<<[Parsed(At) EXCEPT !.fields = Typed(@)]>>)
  /\ UNCHANGED <<source, constant, container, phase, header>>

BadUnion(fs) == fs = <<>> \/ Defaults(fs) > 1
ParseUnion ==
  /\ Parsing /\ At.kind = "union"
  /\ IF BadUnion(At.fields) THEN Reject
     ELSE /\ Finish(<<[Parsed(At) EXCEPT !.fields = Numbered(Typed(@), UnionTags(@))]>>)
          /\ UNCHANGED <<source, constant, container, phase, header>>

BadEnum(fs) == UnknownAlias(fs) \/ Defaults(fs) > 1
ParseEnum ==
  /\ Parsing /\ At.kind = "enum"
  /\ IF BadEnum(At.fields) THEN Reject
     ELSE /\ Finish(<<[Parsed(At) EXCEPT !.fields = Numbered(@, EnumNumbers(@))]>>)
          /\ UNCHANGED <<source, constant, container, phase, header>>

ConstContainerOf(name) == IF name \in DOMAIN container THEN container[name] ELSE ""
\* ResolveConstReference: consts are visible after their declaration only, and
\* a qualified name must give the container recorded for the const.
BadConst(ref) ==
  /\ ref # <<>>
  /\ \/ ref[2] \notin DOMAIN constant
     \/ ref[1] # "" /\ ConstContainerOf(ref[2]) # ref[1]
ParseConst ==
  /\ Parsing /\ At.kind = "const"
  /\ IF BadConst(At.ref) THEN Reject
     ELSE /\ Finish(<<[Parsed(At) EXCEPT !.ref = IF @ = <<>> THEN <<>> ELSE <<ConstContainerOf(@[2]), @[2]>>]>>)
          /\ constant' = [n \in DOMAIN constant \cup {At.name} |->
                            IF n = At.name THEN Len(decls) + 1 ELSE constant[n]]
          /\ container' = IF At.in = "" THEN container
                          ELSE [n \in DOMAIN container \cup {At.name} |->
                                  IF n = At.name THEN At.in ELSE container[n]]
          /\ UNCHANGED <<source, phase, header>>

MethodsOf(in) == {i \in Indices(decls) : decls[i].kind = "method" /\ decls[i].in = in}
Implicit(in) == {i \in MethodsOf(in) : ~decls[i].fields[1].default}
NextOrdinal(in) == Cardinality(Implicit(in))
\* MakeResultUnion: the wire form of result<T, E>, a top-level union of its
\* own, Interface_MethodResult: here it keeps its interface in the key.
MakeResultUnion(m) ==
  [Parsed(m) EXCEPT !.kind = "union", !.when = Always, !.made = TRUE, !.fields = Numbered(Typed(@), <<0, 1>>)]
\* A parsed method keeps its ordinal, and whether the file gave it, in a
\* single field record.
ParsedMethod(m) ==
  [Parsed(m) EXCEPT !.fields =
     <<[wrap |-> <<>>, to |-> <<"", "">>, name |-> "", when |-> Always, default |-> m.tag # NoTag,
        tag |-> IF m.tag # NoTag THEN m.tag ELSE NextOrdinal(m.in)]>>]
ParseMethod ==
  /\ Parsing /\ At.kind = "method"
  /\ IF At.tag >= ReservedOrdinal THEN Reject
     ELSE /\ Finish((IF At.fields = <<>> THEN <<>> ELSE <<MakeResultUnion(At)>>) \o <<ParsedMethod(At)>>)
          /\ UNCHANGED <<source, constant, container, phase, header>>

MixedOrdinals(in) == Implicit(in) # {} /\ Implicit(in) # MethodsOf(in)
ParseInterface ==
  /\ Parsing /\ At.kind = "interface"
  /\ IF MixedOrdinals(At.name) THEN Reject
     ELSE Finish(<<Parsed(At)>>) /\ UNCHANGED <<source, constant, container, phase, header>>

(***************************************************************************)
(* CheckCompleteTypeAcyclic: take out, as long as there is one, a type all  *)
(* of whose complete-type dependencies are out already.                     *)
(***************************************************************************)
Removable(ds) ==
  LET local == {KeyOf(ds[i]) : i \in EmbedsIn(ds)}
      deps(k) == UNION {CompleteTypeDeps(ds[i]) \cap local : i \in {j \in EmbedsIn(ds) : KeyOf(ds[j]) = k}}
      out[n \in 0..Cardinality(local)] ==
        IF n = 0 THEN {} ELSE out[n - 1] \cup {k \in local : deps(k) \subseteq out[n - 1]}
  IN  out[Cardinality(local)] = local
CheckCompleteTypeAcyclic(ds) == Removable(ds)
EndOfBody ==
  /\ phase = "parsing" /\ ~MoreTokens
  /\ phase' = IF CheckCompleteTypeAcyclic(decls) THEN "parsed" ELSE "rejected"
  /\ UNCHANGED <<source, decls, constant, container, header>>

ApplyEnableIf ==
  /\ phase = "parsed"
  /\ decls' = FilteredModule(decls)
  /\ phase' = "filtered"
  /\ UNCHANGED <<source, constant, container, header>>

(***************************************************************************)
(* GenerateCppHeader: forward declarations and enums need no order; consts  *)
(* by declaration index; structs and unions by SortEmbeds; interfaces last. *)
(***************************************************************************)
Definition(d) == [kind |-> d.kind, key |-> KeyOf(d), at |-> d]
Consts(ds) == SelectSeq(ds, LAMBDA d : d.kind = "const")
EmitConsts ==
  /\ phase = "filtered"
  /\ header' = [i \in Indices(Consts(decls)) |-> Definition(Consts(decls)[i])]
  /\ phase' = "sorting"
  /\ UNCHANGED <<source, decls, constant, container>>

EmittedKeys == {header[i].key : i \in {j \in Indices(header) : header[j].kind \in Embeds}}
LocalKeys == {KeyOf(decls[i]) : i \in EmbedsIn(decls)}
Ready == {i \in EmbedsIn(decls) : /\ KeyOf(decls[i]) \notin EmittedKeys
                                  /\ CompleteTypeDeps(decls[i]) \cap LocalKeys \subseteq EmittedKeys}
\* SortEmbeds: of the types whose dependencies are written, the first declared.
EmitEmbed ==
  /\ phase = "sorting" /\ Ready # {}
  /\ LET i == CHOOSE j \in Ready : \A k \in Ready : j <= k
     IN  header' = Append(header, Definition(decls[i]))
  /\ UNCHANGED <<source, decls, constant, container, phase>>

Interfaces(ds) == SelectSeq(ds, LAMBDA d : d.kind = "interface")
EmitInterfaces ==
  /\ phase = "sorting" /\ Ready = {}
  /\ IF LocalKeys \subseteq EmittedKeys
     THEN /\ header' = header \o [i \in Indices(Interfaces(decls)) |-> Definition(Interfaces(decls)[i])]
          /\ phase' = "done"
     ELSE phase' = "logic_error" /\ UNCHANGED header
  /\ UNCHANGED <<source, decls, constant, container>>

IdlStart(file, features) ==
  /\ source = [file |-> file, features |-> features]
  /\ decls = <<>> /\ header = <<>> /\ phase = "parsing"
  /\ constant = [n \in {} |-> 0] /\ container = [n \in {} |-> ""]
IdlInit == \E file \in IdlFiles, features \in IdlFeatures : IdlStart(file, features)
IdlNext ==
  \/ ParseStruct \/ ParseUnion \/ ParseEnum \/ ParseConst \/ ParseMethod \/ ParseInterface
  \/ EndOfBody \/ ApplyEnableIf \/ EmitConsts \/ EmitEmbed \/ EmitInterfaces
IdlSpec == IdlInit /\ [][IdlNext]_idlVars

-----------------------------------------------------------------------------
(***************************************************************************)
(* Properties                                                               *)
(***************************************************************************)
BeforeIn(i, kind, key) == \E j \in 1..i - 1 : header[j].kind \in kind /\ header[j].key = key

\* The parser refuses a file for its type graph exactly when some of its
\* types hold one another by value in a circle: a file that only closes the
\* circle through array<T>, map<K, T> or T? goes through.
Circle(S) ==
  \A i \in S : \E n \in Indices(decls[i].fields) :
    LET f == decls[i].fields[n]
    IN  /\ \A w \in Indices(f.wrap) : f.wrap[w] \notin {"array", "map"}
        /\ f.wrap = <<>> \/ f.wrap[Len(f.wrap)] # "optional"
        /\ \E j \in S : KeyOf(decls[j]) = f.to
RefusesExactlyCircles ==
  ~MoreTokens /\ phase \in {"rejected", "parsed"} =>
    (phase = "rejected" <=> \E S \in SUBSET EmbedsIn(decls) : S # {} /\ Circle(S))

\* A const whose value names another const is written after it, under the name
\* the other was written with, wherever the two are nested.
ConstsResolve ==
  phase = "done" => \A i \in Indices(header) :
    header[i].kind = "const" /\ header[i].at.ref # <<>> => BeforeIn(i, {"const"}, header[i].at.ref)

\* Members of which C++ needs the whole type: T, array<T, N> and, because it is
\* a std::optional, T?.
NeedsComplete(f) == (\A w \in Indices(f.wrap) : f.wrap[w] \notin {"array", "map"}) /\ f.to \in LocalKeys
Nullable(f) == \E w \in Indices(f.wrap) : f.wrap[w] = "optional"

\* The file declares each type before the members that need it whole.
DeclaredInOrder ==
  \A i \in EmbedsIn(decls) : \A n \in Indices(decls[i].fields) :
    NeedsComplete(decls[i].fields[n]) => \E j \in EmbedsIn(decls) : j < i /\ KeyOf(decls[j]) = decls[i].fields[n].to

\* A type the header defines comes after every struct and union it holds by
\* value or in a fixed array, whatever the order of the file, the nesting and
\* the enabled features, and a const after the const it names; the parser
\* refuses exactly the files for which there is no such order, so that
\* SortEmbeds never meets the cycle that it throws a logic_error for.  Members
\* T? are not among what AppendCompleteTypeDeps counts, although ast.h:194-197
\* and parser.cc:1476-1478 say so: a header may define one before T, and does
\* not compile.  It does not happen to files that declare T first.
CompleteBeforeUse ==
  /\ phase # "logic_error" /\ RefusesExactlyCircles /\ ConstsResolve
  /\ phase = "done" =>
       \A i \in Indices(header) : header[i].kind \in Embeds =>
         \A n \in Indices(header[i].at.fields) :
           LET f == header[i].at.fields[n]
           IN  NeedsComplete(f) /\ (Nullable(f) => DeclaredInOrder) => BeforeIn(i, Embeds, f.to)

\* Helpers: an untagged field with number n, and where a field is declared.
Rank(fs, i, n) == n \notin Explicit(fs) /\ Cardinality({m \in 0..n - 1 : m \notin Explicit(fs)}) = ImplicitBefore(fs, i)
SourceField(d, f) == CHOOSE p \in {<<i, n>> : i \in Indices(IdlFile), n \in 1..4} :
  /\ IdlFile[p[1]].kind = d.kind /\ IdlFile[p[1]].name = d.name /\ IdlFile[p[1]].in = d.in
  /\ p[2] \in Indices(IdlFile[p[1]].fields) /\ IdlFile[p[1]].fields[p[2]].name = f.name

\* What goes over the wire does not depend on the features a build enables:
\* the number of a union field and of a method that is kept is the one the
\* whole file gives it, and no two fields of a union, nor two
\* methods of an interface, share a number.
StableNumbers ==
  phase \in {"filtered", "done"} =>
    /\ \A i \in Indices(decls) : decls[i].kind = "union" =>
         /\ \A n, m \in Indices(decls[i].fields) : n # m => decls[i].fields[n].tag # decls[i].fields[m].tag
         /\ ~decls[i].made => \A n \in Indices(decls[i].fields) :
              LET p == SourceField(decls[i], decls[i].fields[n])
                  fs == IdlFile[p[1]].fields
              IN  IF fs[p[2]].tag # NoTag THEN decls[i].fields[n].tag = fs[p[2]].tag
                  ELSE Rank(fs, p[2], decls[i].fields[n].tag)
    /\ \A i, j \in Indices(decls) :
         decls[i].kind = "method" /\ decls[j].kind = "method" /\ decls[i].in = decls[j].in /\ i # j
           => decls[i].fields[1].tag # decls[j].fields[1].tag
    /\ \A i \in Indices(decls) : decls[i].kind = "method" /\ ~decls[i].fields[1].default =>
         decls[i].fields[1].tag =
           Cardinality({k \in Indices(IdlFile) : /\ IdlFile[k].kind = "method" /\ IdlFile[k].in = decls[i].in
                                                 /\ \E m \in Indices(IdlFile) : m > k /\ IdlFile[m].kind = "method"
                                                      /\ IdlFile[m].in = decls[i].in /\ IdlFile[m].name = decls[i].name})

\* What the generator writes for a file is in an order that compiles, but for
\* nullable members, and talks to what another build of the same file writes.
HeaderIsSound == CompleteBeforeUse /\ StableNumbers

=============================================================================
