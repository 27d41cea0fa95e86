------------------------------- MODULE JsCalls -------------------------------
(***************************************************************************)
(* The calls that go through a header brujac generated (WASMBruja:         *)
(* resolver.cc, cpp_generator.cc for --backend=quickjs and                 *)
(* cpp_generator_v8.cc for --backend=v8): a parsed .bruja file is resolved *)
(* and generated, or refused; then scripts call methods, read and write    *)
(* attributes, and the implementation calls back the functions it was      *)
(* given.  JsBinding is about the wrappers and their tags; here a wrapper  *)
(* is the interface it was made as and the class of its implementation.    *)
(*                                                                         *)
(* What a method does is the embedder's: the implementation keeps the      *)
(* arguments, answers with the first, and keeps what its attributes are    *)
(* set to.                                                                 *)
(***************************************************************************)
EXTENDS Integers, Sequences, FiniteSets, SequencesExt

CONSTANTS
  Files,      \* the parsed files, each with a bound on the calls (calls)
  Tries,      \* file.tries |-> the argument lists that scripts try
  OctetLimit  \* an octet of the model holds 0 .. OctetLimit - 1

VARIABLES
  file,      \* the file: as parsed, then as resolved
  fileState, \* "parsed", "resolved", "live" or "refused"; before: see Brujac
  kept,      \* what the implementation keeps: attribute |-> value, the arguments
             \* of the last method, and the callback it was given last
  said,      \* the last call: what the script did and what it got
  calls      \* how many calls were made

callVars == <<file, fileState, kept, said, calls>>

NoName  == ""
Silence == [call |-> "none"]

-----------------------------------------------------------------------------
(* resolver.cc.  A type is a record of a kind, whether it is nullable, the  *)
(* name it refers to and its element or member types.                      *)

\* ResolveType: a name becomes the kind of its declaration, and a Promise is
\* only the type that a method returns.
RECURSIVE ResolveType(_, _)
ResolveType(t, allow_promise) ==
  CASE t.kind = "promise" /\ ~allow_promise -> [t EXCEPT !.kind = "bad"]
    [] t.kind \in {"sequence", "promise", "union"} ->
         [t EXCEPT !.of = [i \in DOMAIN t.of |-> ResolveType(t.of[i], FALSE)]]
    [] t.kind = "ref" ->
         [t EXCEPT !.kind = CASE t.ref \in DOMAIN file.interfaces -> "interface"
                              [] t.ref \in DOMAIN file.enums      -> "enum"
                              [] t.ref \in DOMAIN file.dicts      -> "dictionary"
                              [] t.ref \in DOMAIN file.callbacks  -> "callback"
                              [] OTHER -> "bad"]
    [] OTHER -> t

RECURSIVE IsBad(_)
IsBad(t) == t.kind = "bad" \/ \E u \in Range(t.of) : IsBad(u)

ResolveParams(params) ==
  [i \in DOMAIN params |-> [params[i] EXCEPT !.type = ResolveType(@, FALSE)]]
ResolveMember(m) ==
  [m EXCEPT !.type = ResolveType(@, m.kind = "method"), !.params = ResolveParams(@)]
ResolveMembers(d) == [d EXCEPT !.members = [i \in DOMAIN @ |-> ResolveMember(d.members[i])]]

\* CheckBaseChain and CheckDictBaseChain, over decls: name |-> a record with
\* a base.
RECURSIVE BaseChainIsGood(_, _, _)
BaseChainIsGood(decls, x, visited) ==
  LET b == decls[x].base
  IN  b = NoName \/ /\ b \in DOMAIN decls \ visited
                    /\ BaseChainIsGood(decls, b, visited \cup {b})
ChainsAreGood(decls) == \A x \in DOMAIN decls : BaseChainIsGood(decls, x, {x})

\* Every declaration with its types resolved.
WithTypes ==
  [file EXCEPT
     !.interfaces = [x \in DOMAIN @ |-> ResolveMembers(file.interfaces[x])],
     !.mixins = [x \in DOMAIN @ |-> ResolveMembers(file.mixins[x])],
     !.dicts = [d \in DOMAIN @ |->
                  [file.dicts[d] EXCEPT !.fields = ResolveParams(@)]],
     !.callbacks = [c \in DOMAIN @ |->
                      [file.callbacks[c] EXCEPT !.type = ResolveType(@, FALSE),
                                                !.params = ResolveParams(@)]]]

\* The types that a file names.
TypesOf(f) ==
  LET members == UNION {Range(d.members) : d \in Range(f.interfaces) \cup Range(f.mixins)}
                   \cup Range(f.callbacks)
  IN  {m.type : m \in members}
        \cup {p.type : p \in UNION ({Range(m.params) : m \in members}
                                      \cup {Range(d.fields) : d \in Range(f.dicts)})}

IncludesAreGood(f) ==
  \A i \in DOMAIN f.includes : /\ f.includes[i].target \in DOMAIN f.interfaces
                               /\ f.includes[i].mixin \in DOMAIN f.mixins

\* `Target includes Mixin;` copies the members of the mixin to the target.
WithMixins(f) ==
  FoldLeft(LAMBDA g, inc : [g EXCEPT !.interfaces[inc.target].members =
                                        @ \o g.mixins[inc.mixin].members],
           f, f.includes)

\* Resolve: the first error refuses the file.
ResolveFile ==
  /\ fileState = "parsed"
  /\ IF /\ ChainsAreGood(file.interfaces) /\ ChainsAreGood(file.dicts)
        /\ \A t \in TypesOf(WithTypes) : ~IsBad(t)
        /\ IncludesAreGood(file)
     THEN file' = WithMixins(WithTypes) /\ fileState' = "resolved"
     ELSE fileState' = "refused" /\ UNCHANGED file
  /\ UNCHANGED <<kept, said, calls>>

-----------------------------------------------------------------------------
(* The generators.                                                         *)

\* CheckSupportedType: what is left over after Resolve is refused.
RECURSIVE CheckSupportedType(_)
CheckSupportedType(t) == t.kind # "ref" /\ \A u \in Range(t.of) : CheckSupportedType(u)

\* CheckSupportedInterface of the V8 backend.
CheckSupportedInterface(d) ==
  \A m \in Range(d.members) :
    /\ CheckSupportedType(m.type)
    /\ \A p \in Range(m.params) :
         CheckSupportedType(p.type) /\ ~(m.kind = "constructor" /\ p.variadic)

\* AncestorsInclusive, over interfaces or dictionaries, itself first.
RECURSIVE AncestorsInclusive(_, _)
AncestorsInclusive(decls, x) ==
  <<x>> \o IF decls[x].base = NoName THEN <<>> ELSE AncestorsInclusive(decls, decls[x].base)

\* CollectEffectiveMembers: what a wrapper of x has, its own and inherited.
CollectEffectiveMembers(x) ==
  LET up == AncestorsInclusive(file.interfaces, x)
  IN  SelectSeq(FlattenSeq([i \in DOMAIN up |-> file.interfaces[up[i]].members]),
                LAMBDA m : m.kind # "constructor")

\* Mutant of CollectEffectiveFields: the fields of the dictionary alone.
OwnFields(d) == file.dicts[d].fields

\* CollectEffectiveFields: the fields of the bases first.
CollectEffectiveFields(d) ==
  LET up == Reverse(AncestorsInclusive(file.dicts, d))
  IN  FlattenSeq([i \in DOMAIN up |-> file.dicts[up[i]].fields])

IsDerived(x, y) == y \in Range(AncestorsInclusive(file.interfaces, x))

\* RequiredArgCount: up to the last parameter that must be there.
RequiredArgCount(params) ==
  LET must == {i \in DOMAIN params : ~params[i].optional /\ ~params[i].variadic}
  IN  IF must = {} THEN 0 ELSE CHOOSE i \in must : \A j \in must : j <= i

\* GenerateCppHeader, GenerateV8CppHeader.
Generate ==
  /\ fileState = "resolved"
  /\ fileState' = IF \/ file.backend = "quickjs"
                 \/ \A x \in DOMAIN file.interfaces : CheckSupportedInterface(file.interfaces[x])
              THEN "live" ELSE "refused"
  /\ UNCHANGED <<file, kept, said, calls>>

-----------------------------------------------------------------------------
(* Values.  JS values and C++ values are pairs of a kind and a datum.  The *)
(* JS kinds: undefined, null, number, string, boolean, array, plain (an    *)
(* object with properties), object (a wrapper: the interface it was made   *)
(* as, and the class behind it), function (with what it returns), promise  *)
(* and poison (an object whose coercion throws).                           *)

Js(kind, v)  == <<kind, v>>
Undefined    == Js("undefined", 0)
JsNull       == Js("null", 0)
Throw        == Js("throw", 0)
Nullopt      == <<"nullopt", 0>>
NullPtr      == <<"pointer", NoName>>
Pointer(x)   == <<"pointer", x>>

Quickjs == file.backend = "quickjs"
NonNull(t) == [t EXCEPT !.nullable = FALSE]

\* UsesOptionalWrapper: the nullable types that are a std::optional.
UsesOptionalWrapper(t) ==
  t.kind \notin {"void", "interface", "callback", "any", "dictionary", "promise"}

\* CppBaseType and CppType: the C++ values of a type.
RECURSIVE HasType(_, _)
HasType(t, x) ==
  IF t.nullable /\ UsesOptionalWrapper(t) THEN x = Nullopt \/ HasType(NonNull(t), x)
  ELSE CASE t.kind \in {"string", "enum"} -> x[1] = "string"
         [] t.kind = "interface"  -> x # NullPtr => x[1] = "pointer" /\ IsDerived(x[2], t.ref)
         [] t.kind = "sequence"   -> x[1] = "sequence" /\ \A e \in Range(x[2]) : HasType(t.of[1], e)
         [] t.kind = "union"      -> \E u \in Range(t.of) : HasType(u, x)
         [] t.kind = "promise"    -> HasType(t.of[1], x)
         [] t.kind = "dictionary" ->
              LET fields == Range(CollectEffectiveFields(t.ref))
              IN  /\ x[1] = "dictionary" /\ DOMAIN x[2] = {f.name : f \in fields}
                  /\ \A f \in fields : HasType(f.type, x[2][f.name])
         [] OTHER -> x[1] = t.kind

\* A value of a type initialised with `{}`.
RECURSIVE ValueInit(_)
ValueInit(t) ==
  IF t.nullable /\ UsesOptionalWrapper(t) THEN Nullopt
  ELSE CASE t.kind = "octet"     -> <<"octet", 0>>
         [] t.kind = "boolean"   -> <<"boolean", FALSE>>
         [] t.kind \in {"string", "enum"} -> <<"string", "">>
         [] t.kind = "sequence"  -> <<"sequence", <<>> >>
         [] t.kind = "interface" -> NullPtr
         [] t.kind = "union"     -> ValueInit(t.of[1])
         [] t.kind = "callback"  -> <<"callback", Undefined>>
         [] t.kind = "any"       -> <<"any", IF Quickjs THEN Js("number", 0) ELSE Undefined>>
         [] t.kind = "dictionary" ->
              LET fields == Range(CollectEffectiveFields(t.ref))
              IN  <<"dictionary", [n \in {f.name : f \in fields} |->
                      LET f == CHOOSE g \in fields : g.name = n
                      IN  IF f.default # <<>> THEN f.default[1] ELSE ValueInit(f.type)]>>

\* EmitDictionaryStruct: what a field of `Init init;` holds that the script
\* does not give.  Its default, and a null default is only null in the
\* quickjs backend; a number or a boolean without a default is not
\* initialised, and holds what file.garbage says.
FieldInit(f) ==
  CASE f.default # <<>> -> IF f.default[1] = <<"any", JsNull>> /\ ~Quickjs
                           THEN <<"any", Undefined>> ELSE f.default[1]
    [] f.type.kind = "octet" /\ ~f.type.nullable   -> <<"octet", file.garbage>>
    [] f.type.kind = "boolean" /\ ~f.type.nullable -> <<"boolean", file.garbage # 0>>
    [] OTHER -> ValueInit(f.type)

\* JavaScript's own coercions (external): an array is coerced through its
\* text, an object of kind "poison" throws when it is coerced, and a text
\* that no property tells apart is "coerced".
Poisoned(v) == v[1] = "poison" \/ (v[1] = "array" /\ \E e \in Range(v[2]) : e[1] = "poison")
Single(v, kind) == v[1] = "array" /\ Len(v[2]) = 1 /\ v[2][1][1] = kind
AsNumber(v) == IF v[1] = "number" THEN v[2]
               ELSE IF Single(v, "number") THEN v[2][1][2]
               ELSE IF v = Js("boolean", TRUE) THEN 1 ELSE 0
AsText(v) == IF v[1] = "string" THEN v[2]
             ELSE IF Single(v, "string") THEN v[2][1][2] ELSE "coerced"
AsBoolean(v) == CASE v[1] = "boolean" -> v[2]
                  [] v[1] = "number"  -> v[2] # 0
                  [] v[1] = "string"  -> v[2] # ""
                  [] OTHER -> v[1] \notin {"undefined", "null"}
Elements(v) == CASE v[1] = "array"  -> v[2]
                 [] v[1] = "string" -> [i \in 1 .. Len(v[2]) |-> Js("string", "char")]
                 [] OTHER -> <<>>
HasProperty(v, n) == v[1] = "plain" /\ n \in DOMAIN v[2] /\ v[2][n] # Undefined

\* The probe of an interface, by tag range or by the class ids of the
\* descendants: what JsBinding!UnwrapIsSubtyping is about.
Unwraps(v, x) == v[1] = "object" /\ IsDerived(v[2].as, x)

\* The interface members of a union come first, in order, then the first of
\* the others.
MatchingMember(t, v) ==
  LET hits == SelectSeq(t.of, LAMBDA u : u.kind = "interface" /\ Unwraps(v, u.ref))
      rest == SelectSeq(t.of, LAMBDA u : u.kind # "interface")
  IN  IF hits # <<>> THEN <<hits[1]>> ELSE IF rest # <<>> THEN <<rest[1]>> ELSE <<>>

-----------------------------------------------------------------------------
(* From JS to C++, quickjs backend: a conversion that fails throws.        *)

\* EmitInterfaceProbe.
ProbeInterface(t, v) ==
  CASE v = JsNull -> NullPtr
    [] Unwraps(v, t.ref) -> Pointer(v[2].impl)
    [] OTHER -> Throw

\* The scalars of EmitBaseValueConversion: JS_ToUint32 and a cast, JS_ToBool,
\* JS_ToCString, and the check of an enum's values.
Coerced(t, v) ==
  IF Poisoned(v) /\ t.kind # "boolean" THEN Throw
  ELSE CASE t.kind = "octet"   -> <<"octet", AsNumber(v) % OctetLimit>>
         [] t.kind = "boolean" -> <<"boolean", AsBoolean(v)>>
         [] t.kind = "string"  -> <<"string", AsText(v)>>
         [] t.kind = "enum"    -> IF AsText(v) \in file.enums[t.ref] THEN <<"string", AsText(v)>>
                                  ELSE Throw

\* EmitValueConversion, EmitBaseValueConversion and EmitDictionaryFromJs.  The
\* first element or field that throws ends the call; reading a property of
\* null or undefined throws.
RECURSIVE FromQuickjs(_, _)
FromQuickjs(t, v) ==
  LET absent == v \in {Undefined, JsNull}
  IN CASE t.kind = "interface" -> ProbeInterface(t, v)
       [] t.kind # "interface" /\ t.nullable ->
            IF absent THEN Nullopt ELSE FromQuickjs(NonNull(t), v)
       [] OTHER ->
          CASE t.kind = "any"      -> <<"any", v>>
            [] t.kind = "callback" -> <<"callback", v>>
            [] t.kind = "union"    ->
                 LET m == MatchingMember(t, v)
                 IN  IF m = <<>> THEN Throw ELSE FromQuickjs(m[1], v)
            [] t.kind = "sequence" ->
                 LET xs == [i \in DOMAIN Elements(v) |-> FromQuickjs(t.of[1], Elements(v)[i])]
                 IN  IF absent \/ Throw \in Range(xs) THEN Throw ELSE <<"sequence", xs>>
            [] t.kind = "dictionary" ->
                 LET fields == Range(CollectEffectiveFields(t.ref))
                     xs == [n \in {f.name : f \in fields} |->
                              LET f == CHOOSE g \in fields : g.name = n
                              IN  IF HasProperty(v, n) THEN FromQuickjs(f.type, v[2][n])
                                  ELSE FieldInit(f)]
                 IN  IF absent \/ \E n \in DOMAIN xs : xs[n] = Throw THEN Throw
                     ELSE <<"dictionary", xs>>
            [] OTHER -> Coerced(t, v)

-----------------------------------------------------------------------------
(* From JS to C++, V8 backend: a conversion that fails gives a default.    *)

\* EmitInterfaceValueConversion.
UnwrapInterface(t, v) == IF Unwraps(v, t.ref) THEN Pointer(v[2].impl) ELSE NullPtr

\* ToCppDouble, ToCppBool and ToCppString take the one kind of value; an
\* enum's values are not checked.
Defaulted(t, v) ==
  CASE t.kind = "octet"   -> <<"octet", IF v[1] = "number" THEN v[2] % OctetLimit ELSE 0>>
    [] t.kind = "boolean" -> <<"boolean", v[1] = "boolean" /\ v[2]>>
    [] OTHER -> <<"string", IF v[1] = "string" THEN v[2] ELSE "">>

RECURSIVE FromV8(_, _)

\* EmitDictionaryFromJs: nothing is read from what is no object.
DictionaryFromV8(t, v) ==
  LET fields == Range(CollectEffectiveFields(t.ref))
  IN  <<"dictionary", [n \in {f.name : f \in fields} |->
          LET f == CHOOSE g \in fields : g.name = n
          IN  IF HasProperty(v, n) THEN FromV8(f.type, v[2][n]) ELSE FieldInit(f)]>>

\* EmitUnionValueConversion: without a match the variant is its first.
UnionFromV8(t, v) ==
  LET m == MatchingMember(t, v) IN IF m = <<>> THEN ValueInit(t) ELSE FromV8(m[1], v)

\* EmitBaseValueConversion.
BaseFromV8(t, v) ==
  CASE t.kind = "any"        -> <<"any", v>>
    [] t.kind = "dictionary" -> DictionaryFromV8(t, v)
    [] t.kind = "union"      -> UnionFromV8(t, v)
    [] t.kind = "sequence"   ->
         <<"sequence", [i \in DOMAIN Elements(v) |-> FromV8(t.of[1], Elements(v)[i])]>>
    [] OTHER -> Defaulted(t, v)

\* EmitValueConversion.
FromV8(t, v) ==
  CASE t.kind = "interface" -> UnwrapInterface(t, v)
    [] t.kind = "callback"  -> <<"callback", v>>
    [] t.nullable /\ t.kind \notin {"interface", "callback"} ->
         IF v \in {Undefined, JsNull} THEN Nullopt ELSE BaseFromV8(NonNull(t), v)
    [] OTHER -> BaseFromV8(t, v)

FromJs(t, v) == IF Quickjs THEN FromQuickjs(t, v) ELSE FromV8(t, v)

-----------------------------------------------------------------------------
(* From C++ to JS.                                                         *)

Scalar(t, x) ==
  CASE t.kind = "any"     -> x[2]
    [] t.kind = "boolean" -> Js("boolean", x[2])
    [] t.kind = "octet"   -> Js("number", x[2])
    [] t.kind \in {"string", "enum"} -> Js("string", x[2])

\* EmitInterfaceToJs: the wrapper is made as the declared type, whatever the
\* object is.
InterfaceToJs(t, x) ==
  IF x = NullPtr THEN JsNull ELSE Js("object", [as |-> t.ref, impl |-> x[2]])

\* EmitInterfaceReturn: the V8 backend wraps an Element as what it is.
InterfaceReturn(t, x) ==
  CASE x = NullPtr -> JsNull
    [] t.ref = "Element" /\ x # NullPtr -> Js("object", [as |-> x[2], impl |-> x[2]])
    [] OTHER -> InterfaceToJs(t, x)

RECURSIVE ToJs(_, _), ToJsVariable(_, _)

\* EmitBaseToJs; a union is never returned.
BaseToJs(t, x) ==
  CASE t.kind \in {"union", "callback"} -> Undefined
    [] t.kind = "sequence" -> Js("array", [i \in DOMAIN x[2] |-> ToJs(t.of[1], x[2][i])])
    [] t.kind = "dictionary" ->
         LET fields == Range(CollectEffectiveFields(t.ref))
         IN  Js("plain", [n \in {f.name : f \in fields} |->
                            ToJs((CHOOSE f \in fields : f.name = n).type, x[2][n])])
    [] OTHER -> Scalar(t, x)

\* EmitToJs of the quickjs backend.
ToJs(t, x) ==
  CASE t.kind = "interface" -> InterfaceToJs(t, x)
    [] t.kind # "interface" /\ t.nullable /\ x = Nullopt -> JsNull
    [] OTHER -> BaseToJs(t, x)

\* EmitDictionaryToJsVariable.
DictionaryToJsVariable(t, x) ==
  LET fields == Range(CollectEffectiveFields(t.ref))
  IN  Js("plain", [n \in {f.name : f \in fields} |->
                     ToJsVariable((CHOOSE f \in fields : f.name = n).type, x[2][n])])

\* EmitSequenceToJsVariable.
SequenceToJsVariable(t, x) ==
  Js("array", [i \in DOMAIN x[2] |-> ToJsVariable(t.of[1], x[2][i])])

\* EmitBaseToJsVariable.
BaseToJsVariable(t, x) ==
  CASE t.kind = "interface"  -> InterfaceReturn(t, x)
    [] t.kind = "dictionary" -> DictionaryToJsVariable(t, x)
    [] t.kind = "sequence"   -> SequenceToJsVariable(t, x)
    [] t.kind = "union"      -> Undefined
    [] OTHER -> Scalar(t, x)

\* EmitToJsVariable.
ToJsVariable(t, x) ==
  IF t.nullable /\ UsesOptionalWrapper(t) /\ x = Nullopt THEN JsNull ELSE BaseToJsVariable(t, x)

\* EmitBaseReturn.
BaseReturn(t, x) ==
  CASE t.kind = "dictionary" -> DictionaryToJsVariable(t, x)
    [] t.kind = "sequence"   -> SequenceToJsVariable(t, x)
    [] t.kind = "union"      -> Undefined
    [] OTHER -> Scalar(t, x)

\* ReturnsVoid: the C++ method has nothing to convert.
ReturnsVoid(t) == t.kind = "void" \/ (t.kind = "promise" /\ t.of[1].kind = "void")

\* EmitPromiseReturnConversion: a promise that is resolved at once.
PromiseReturn(t, x) ==
  Js("promise", CASE ReturnsVoid(t) -> Undefined
                  [] ~ReturnsVoid(t) /\ Quickjs -> ToJs(t.of[1], x)
                  [] OTHER -> ToJsVariable(t.of[1], x))

\* EmitReturnConversion of the V8 backend.
ReturnV8(t, x) ==
  CASE t.kind = "interface" -> InterfaceReturn(t, x)
    [] t.nullable /\ t.kind # "interface" /\ x = Nullopt -> JsNull
    [] OTHER -> BaseReturn(t, x)

\* EmitReturnConversion.
Return(t, x) ==
  CASE t.kind = "void"    -> Undefined
    [] t.kind = "promise" -> PromiseReturn(t, x)
    [] OTHER -> IF Quickjs THEN ToJs(t, x) ELSE ReturnV8(t, x)

-----------------------------------------------------------------------------
(* Calls.                                                                  *)

\* EmitParamConversions.
Argument(params, args, i) ==
  LET p == params[i]
  IN CASE p.variadic ->
            LET xs == [j \in 1 .. Len(args) - i + 1 |-> FromJs(p.type, args[i + j - 1])]
            IN  IF Throw \in Range(xs) THEN Throw ELSE <<"sequence", xs>>
       [] p.optional /\ ~p.variadic /\ Len(args) < i ->
            IF p.default # <<>> THEN p.default[1] ELSE ValueInit(p.type)
       [] OTHER -> FromJs(p.type, args[i])
ParamConversions(params, args) == [i \in DOMAIN params |-> Argument(params, args, i)]

\* What a script gets for a call that is refused.
Refused == IF Quickjs THEN Throw ELSE Undefined

Says(call, m, bound, args, result) ==
  /\ fileState = "live" /\ calls < file.calls
  /\ calls' = calls + 1
  /\ said' = [call |-> call, member |-> m, bound |-> bound, args |-> args, result |-> result]
  /\ UNCHANGED <<file, fileState>>

\* EmitMethodCallback, on a receiver that is a wrapper of x or is not.
MethodCallback(m, bound, args) ==
  /\ m.kind = "method"
  /\ LET xs == ParamConversions(m.params, args)
         given == {i \in DOMAIN xs : xs[i][1] = "callback"}
     IN  IF \/ ~bound \/ Len(args) < RequiredArgCount(m.params)
            \/ Throw \in Range(xs)
         THEN Says("refused", m, bound, args, Refused) /\ UNCHANGED kept
         ELSE /\ Says("method", m, bound, args,
                      Return(m.type, IF ReturnsVoid(m.type) THEN Nullopt ELSE xs[1]))
              /\ kept' = [kept EXCEPT
                            !.args = xs,
                            !.callback = IF given = {} THEN @
                                         ELSE LET i == CHOOSE j \in given : TRUE
                                              IN  <<[decl |-> m.params[i].type.ref, fn |-> xs[i][2]]>>]

\* EmitInstallConstructorFunction: Js<X>_construct calls the factory that
\* the embedder installed.  Without enough arguments the V8 backend leaves an
\* instance with nothing behind it.
ConstructCall(x, m, args) ==
  /\ m.kind = "constructor"
  /\ LET xs == ParamConversions(m.params, args)
     IN  IF Len(args) < RequiredArgCount(m.params) \/ Throw \in Range(xs)
         THEN /\ Says("refused", m, TRUE, args, IF Quickjs THEN Throw ELSE Js("bare", x))
              /\ UNCHANGED kept
         ELSE /\ Says("construct", m, TRUE, args, Js("object", [as |-> x, impl |-> x]))
              /\ kept' = [kept EXCEPT !.args = xs]

\* EmitAttributeCallbacks: the getter.
AttributeGetter(m, bound) ==
  /\ m.kind = "attribute" /\ m.name \in DOMAIN kept.attributes
  /\ IF bound THEN Says("get", m, bound, <<>>, Return(m.type, kept.attributes[m.name]))
     ELSE Says("refused", m, bound, <<>>, Refused)
  /\ UNCHANGED kept

\* EmitAttributeCallbacks: the setter.  Writing a readonly attribute throws
\* with quickjs and is ignored with V8.
AttributeSetter(m, bound, v) ==
  /\ m.kind = "attribute"
  /\ LET x == FromJs(m.type, v)
     IN  IF ~bound \/ m.readonly \/ x = Throw
         THEN Says("refused", m, bound, <<v>>, Refused) /\ UNCHANGED kept
         ELSE /\ Says("set", m, bound, <<v>>, Undefined)
              /\ kept' = [kept EXCEPT !.attributes =
                            [a \in DOMAIN @ \cup {m.name} |->
                               IF a = m.name THEN x ELSE kept.attributes[a]]]

\* EmitCallbackWrapperClass: Call.  What is no function, and a function that
\* throws, gives a default.
CallbackCall(x) ==
  /\ kept.callback # <<>>
  /\ LET d  == file.callbacks[kept.callback[1].decl]
         fn == kept.callback[1].fn
         js == IF Quickjs THEN ToJs(d.params[1].type, x) ELSE ToJsVariable(d.params[1].type, x)
         fails == fn[1] # "function" \/ fn[2] = Throw
     IN  /\ HasType(d.params[1].type, x)
         /\ Says("callback", d, TRUE, IF fn[1] = "function" THEN <<js>> ELSE <<>>,
                 CASE d.type.kind = "void" -> Nullopt
                   [] d.type.kind # "void" /\ fails -> ValueInit(d.type)
                   [] OTHER -> FromJs(d.type, fn[2]))
  /\ UNCHANGED kept

CallStart(f, state) ==
  /\ file = f /\ fileState = state /\ calls = 0
  /\ kept = [attributes |-> <<>>, args |-> <<>>, callback |-> <<>>]
  /\ said = Silence
CallInit == \E f \in Files : CallStart(f, "parsed")

CallNext ==
  \/ ResolveFile
  \/ Generate
  \/ fileState = "live" /\ calls < file.calls /\
     \/ \E m \in UNION {Range(CollectEffectiveMembers(x)) : x \in DOMAIN file.interfaces} :
          \E bound \in BOOLEAN :
            \/ \E args \in Tries[file.tries] : MethodCallback(m, bound, args)
            \/ AttributeGetter(m, bound)
            \/ \E args \in Tries[file.tries] : args # <<>> /\ AttributeSetter(m, bound, args[1])
     \/ \E x \in DOMAIN file.interfaces : \E m \in Range(file.interfaces[x].members) :
          \E args \in Tries[file.tries] : ConstructCall(x, m, args)
     \/ \E x \in DOMAIN file.interfaces \cup {NoName} : CallbackCall(Pointer(x))
CallSpec == CallInit /\ [][CallNext]_callVars

-----------------------------------------------------------------------------
(* Properties.                                                             *)

\* The fields a dictionary has by its declaration and those of its bases.
RECURSIVE Inherited(_)
Inherited(d) ==
  Range(file.dicts[d].fields)
    \cup IF file.dicts[d].base = NoName THEN {} ELSE Inherited(file.dicts[d].base)

\* The JS values of a type.  The V8 backend checks no enum; null is a value
\* of every interface type but not of a union of them.
RECURSIVE Denotes(_, _)
Denotes(t, v) ==
  IF t.nullable /\ v = JsNull THEN TRUE
  ELSE CASE t.kind = "any"       -> TRUE
         [] t.kind = "void"      -> v = Undefined
         [] t.kind = "callback"  -> v[1] = "function"
         [] t.kind = "octet"     -> v[1] = "number" /\ v[2] \in 0 .. OctetLimit - 1
         [] t.kind = "boolean"   -> v[1] = "boolean"
         [] t.kind = "string"    -> v[1] = "string"
         [] t.kind = "enum"      -> v[1] = "string" /\ (~Quickjs \/ v[2] \in file.enums[t.ref])
         [] t.kind = "interface" -> v = JsNull \/ (v[1] = "object" /\ IsDerived(v[2].as, t.ref))
         [] t.kind = "promise"   -> v[1] = "promise" /\ Denotes(t.of[1], v[2])
         [] t.kind = "union"     -> v # JsNull /\ \E u \in Range(t.of) : Denotes(u, v)
         [] t.kind = "sequence"  -> v[1] = "array" /\ \A e \in Range(v[2]) : Denotes(t.of[1], e)
         [] t.kind = "dictionary" ->
              /\ v[1] = "plain" /\ DOMAIN v[2] = {f.name : f \in Inherited(t.ref)}
              /\ \A f \in Inherited(t.ref) : Denotes(f.type, v[2][f.name])

\* The same value, and the same object behind a wrapper whatever the
\* interface it was made as: a wrapper's identity is not kept.
RECURSIVE Same(_, _)
Same(v, w) ==
  /\ v[1] = w[1]
  /\ CASE v[1] = "object" -> v[2].impl = w[2].impl
       [] v[1] = "array"  -> Len(v[2]) = Len(w[2]) /\ \A i \in DOMAIN v[2] : Same(v[2][i], w[2][i])
       [] v[1] = "plain"  -> DOMAIN v[2] = DOMAIN w[2] /\ \A n \in DOMAIN v[2] : Same(v[2][n], w[2][n])
       [] OTHER -> v[2] = w[2]

\* What a script gives and gets back: a value of the declared type comes
\* back as it went in, and what comes back is always of the type, through
\* optionals, sequences, wrappers and dictionaries with inherited fields,
\* and also for what an attribute was set to.
EchoesAreFaithful ==
  LET m == said.member
      Echoed(t, v, r) == Denotes(t, r) /\ (Denotes(t, v) => Same(r, v))
  IN  /\ said.call = "method" =>
           CASE ReturnsVoid(m.type)    -> TRUE
             [] m.type.kind = "promise" ->
                  said.result[1] = "promise" /\ Echoed(m.type.of[1], said.args[1], said.result[2])
             [] OTHER -> Echoed(m.type, said.args[1], said.result)
      /\ said.call = "set" =>
           Echoed(m.type, said.args[1], Return(m.type, kept.attributes[m.name]))
      /\ said.call = "get" => Denotes(m.type, said.result)

\* The implementation gets a C++ value of the declared type for every
\* parameter, whatever the script passed and however many it passed: an
\* optional that was left out is its default, and all that follows goes to
\* a variadic one.  A wrapper is passed to a union as the object it wraps.
ArgumentsFit ==
  said.call \in {"method", "construct"} =>
    LET ps == said.member.params
    IN  /\ Len(kept.args) = Len(ps)
        /\ \A i \in DOMAIN ps :
             IF ps[i].variadic
             THEN /\ Len(kept.args[i][2]) = Len(said.args) - i + 1
                  /\ \A j \in DOMAIN kept.args[i][2] :
                       /\ HasType(ps[i].type, kept.args[i][2][j])
                       /\ LET v == said.args[i + j - 1]
                          IN  Denotes(ps[i].type, v) /\ v[1] = "object" =>
                                kept.args[i][2][j] = Pointer(v[2].impl)
             ELSE HasType(ps[i].type, kept.args[i])

\* A call with a receiver of the interface, enough arguments and values of
\* the declared types is never refused.
WellTypedIsAccepted ==
  said.call = "refused" /\ said.bound =>
    LET m == said.member
    IN  IF m.kind = "attribute" THEN m.readonly \/ ~Denotes(m.type, said.args[1])
        ELSE \/ Len(said.args) < Cardinality({p \in Range(m.params) : ~p.optional /\ ~p.variadic})
             \/ \E i \in DOMAIN said.args :
                  /\ m.params # <<>>
                  /\ LET p == m.params[IF i > Len(m.params) THEN Len(m.params) ELSE i]
                     IN  ~Denotes(p.type, said.args[i])

\* A callback hears values of the types it declares, and what its caller
\* gets is of the type it returns, also when the script passed no function
\* and when the function throws.
CallbacksFit ==
  said.call = "callback" =>
    /\ \A i \in DOMAIN said.args : Denotes(said.member.params[i].type, said.args[i])
    /\ said.member.type.kind # "void" => HasType(said.member.type, said.result)

\* The references of a type, and whether a Promise is within another type.
RECURSIVE RefsOf(_)
RefsOf(t) == {t.ref} \cup UNION {RefsOf(u) : u \in Range(t.of)}
RECURSIVE HoldsPromise(_)
HoldsPromise(t) == \E u \in Range(t.of) : u.kind = "promise" \/ HoldsPromise(u)
RECURSIVE Above(_, _, _)
Above(decls, xs, n) ==
  IF n = 0 THEN xs
  ELSE Above(decls, {decls[x].base : x \in xs \cap DOMAIN decls}, n - 1)

\* What is wrong with a file.
Defective(f) ==
  LET Declared == DOMAIN f.interfaces \cup DOMAIN f.enums \cup DOMAIN f.dicts \cup DOMAIN f.callbacks
      Lost(decls) == \E x \in DOMAIN decls :
                       Above(decls, {x}, Cardinality(DOMAIN decls)) \notin {{}, {NoName}}
      Unknown(decls) == \E x \in DOMAIN decls : decls[x].base \notin DOMAIN decls \cup {NoName}
      members == UNION {Range(d.members) : d \in Range(f.interfaces) \cup Range(f.mixins)}
  IN  \/ Lost(f.interfaces) \/ Lost(f.dicts) \/ Unknown(f.interfaces) \/ Unknown(f.dicts)
      \/ \E t \in TypesOf(f) : ~(RefsOf(t) \subseteq Declared \cup {NoName}) \/ HoldsPromise(t)
      \/ \E m \in members :
           \/ m.kind = "attribute" /\ m.type.kind = "promise"
           \/ \E p \in Range(m.params) : p.type.kind = "promise"
      \/ ~IncludesAreGood(f)
      \/ f.backend = "v8" /\ \E d \in Range(f.interfaces) : \E m \in Range(d.members) :
           m.kind = "constructor" /\ \E p \in Range(m.params) : p.variadic

\* A file goes through exactly when nothing is wrong with it, and a wrapper
\* then has every member of its interface, of the bases and of the mixins
\* that these include.
FilesAreJudged ==
  /\ fileState = "live" => ~Defective(file)
  /\ fileState = "refused" => Defective(file)
  /\ fileState = "live" =>
       \A i \in DOMAIN file.includes : \A x \in DOMAIN file.interfaces :
         IsDerived(x, file.includes[i].target) =>
           Range(file.mixins[file.includes[i].mixin].members)
             \subseteq Range(CollectEffectiveMembers(x))

(* What scripts and implementations rely on in a call through a generated  *)
(* header: EmitParamConversions, EmitValueConversion, EmitReturnConversion *)
(* and EmitCallbackWrapperClass of both backends, and Resolve.             *)
CallsAreFaithful ==
  EchoesAreFaithful /\ ArgumentsFit /\ WellTypedIsAccepted /\ CallbacksFit /\ FilesAreJudged
=============================================================================
