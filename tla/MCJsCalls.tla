------------------------------ MODULE MCJsCalls ------------------------------
(* Files for JsCalls: a small DOM with one echo type each, files for       *)
(* optional, variadic, promised and callback parameters, and files with    *)
(* one thing wrong.                                                        *)
EXTENDS JsCalls

Type(kind) == [kind |-> kind, nullable |-> FALSE, ref |-> NoName, of |-> <<>>]
Ref(x) == [Type("ref") EXCEPT !.ref = x]
Opt(t) == [t EXCEPT !.nullable = TRUE]
ListOf(t) == [Type("sequence") EXCEPT !.of = <<t>>]
Promise(t) == [Type("promise") EXCEPT !.of = <<t>>]
Either(t, u) == [Type("union") EXCEPT !.of = <<t, u>>]
Octet == Type("octet")

P(t) == [name |-> "p", type |-> t, optional |-> FALSE, variadic |-> FALSE, default |-> <<>>]
Optional(p) == [p EXCEPT !.optional = TRUE]
Variadic(p) == [p EXCEPT !.variadic = TRUE]
Default(p, x) == [p EXCEPT !.default = <<x>>]
F(name, t) == [P(t) EXCEPT !.name = name]

Method(name, t, params) ==
  [kind |-> "method", name |-> name, type |-> t, params |-> params, readonly |-> FALSE]
Attr(name, t, readonly) ==
  [kind |-> "attribute", name |-> name, type |-> t, params |-> <<>>, readonly |-> readonly]
Constructor(params) == [Method("constructor", Type("void"), params) EXCEPT !.kind = "constructor"]
Iface(base, members) == [base |-> base, members |-> members]

\* Node, Element : Node and Text : Node, where Text includes the mixin.
File(backend, members, mixed) ==
  [backend |-> backend, garbage |-> 2, tries |-> "none", calls |-> 1,
   interfaces |-> [Node |-> Iface(NoName, members), Element |-> Iface("Node", <<>>),
                   Text |-> Iface("Node", <<>>)],
   mixins |-> [Child |-> [members |-> mixed]],
   includes |-> <<[target |-> "Text", mixin |-> "Child"]>>,
   enums |-> [Mode |-> {"on"}],
   dicts |-> [EventInit |-> [base |-> NoName, fields |-> <<F("a", Type("string"))>>],
              CustomInit |-> [base |-> "EventInit",
                              fields |-> <<F("b", Octet), F("c", ListOf(Type("boolean"))),
                                           Default(F("d", Type("any")), <<"any", JsNull>>)>>]],
   callbacks |-> [Listener |-> [type |-> Type("void"), params |-> <<P(Ref("Node"))>>]]]

Object(as, impl) == Js("object", [as |-> as, impl |-> impl])
Scalars ==
  {Undefined, JsNull, Js("number", 3), Js("number", 5), Js("string", ""), Js("string", "on"),
   Js("boolean", TRUE), Js("poison", 0)}
Objects3 == {Object("Node", "Text"), Object("Element", "Element"), Object("Text", "Text")}
Few == {Js("number", 3), Js("string", "on"), Js("poison", 0), Object("Node", "Text")}
Values ==
  Scalars \cup Objects3 \cup {Js("array", s) : s \in {<<>>} \cup {<<v>> : v \in Few}
                                                 \cup {<<v, w>> : v, w \in Few}}
  \cup {Js("plain", [a |-> v]) : v \in Few}
  \cup {Js("plain", [a |-> Js("string", "on"), b |-> v, c |-> w, d |-> JsNull]) :
          v \in Scalars, w \in {Undefined, Js("array", <<Js("boolean", FALSE)>>)}}
Ones == {<<v>> : v \in Values}

EchoTypes ==
  {Octet, Type("boolean"), Type("string"), Ref("Mode"), Type("any"), Opt(Octet),
   Opt(Type("string")), Opt(Ref("Mode")), ListOf(Octet), ListOf(Ref("Mode")), Opt(ListOf(Type("string"))),
   Ref("EventInit"), Ref("CustomInit"), Ref("Node"), Ref("Element"), Opt(Ref("Text")),
   ListOf(Ref("Node"))}
Backends2 == {"v8", "quickjs"}

Echoing(b, t) == [File(b, <<>>, <<Method("echo", t, <<P(t)>>)>>) EXCEPT !.tries = "one"]
Holding(b, t) == [File(b, <<Attr("value", t, FALSE)>>, <<>>) EXCEPT !.tries = "one", !.calls = 2]

Lists == {<<>>} \cup {<<v>> : v \in Scalars \cup Objects3} \cup {<<v, w>> : v, w \in Scalars}
         \cup {<<v, w, u>> : v, w, u \in Few}
NodeOrText == Either(Ref("Text"), Either(Ref("Node"), Type("string")).of[2])
Calling2(b) ==
  [File(b, <<Constructor(<<P(Type("string")), Optional(P(Ref("CustomInit")))>>),
             Method("fetch", Promise(Octet), <<P(Octet), Default(Optional(P(Octet)), <<"octet", 2>>)>>),
             Method("done", Promise(Type("void")), <<Optional(P(Ref("Node")))>>),
             Attr("name", Type("string"), TRUE)>>,
           <<Method("before", Type("void"), <<Variadic(P(NodeOrText))>>),
             Method("pick", Type("void"), <<P(Either(Ref("Text"), Ref("Element")))>>)>>)
     EXCEPT !.tries = "lists"]

Functions3 == {Js("function", Undefined), Js("function", Throw), Js("function", Js("number", 3)), Undefined}
Listening(b) ==
  [File(b, <<Method("listen", Type("void"), <<P(Ref("Listener"))>>)>>, <<>>)
     EXCEPT !.tries = "functions", !.calls = 2,
            !.callbacks.Listener.type = IF b = "v8" THEN Octet ELSE Type("void")]

Plain(b) == [Echoing(b, Octet) EXCEPT !.tries = "none"]
Wrong(b) ==
  {[Plain(b) EXCEPT !.interfaces.Node.base = "Text"],
   [Plain(b) EXCEPT !.interfaces.Node.base = "Gone"],
   [Plain(b) EXCEPT !.dicts.EventInit.base = "CustomInit"],
   [Plain(b) EXCEPT !.dicts.CustomInit.base = "Node"],
   [Plain(b) EXCEPT !.includes = <<[target |-> "Gone", mixin |-> "Child"]>>],
   [Plain(b) EXCEPT !.includes = <<[target |-> "Node", mixin |-> "Node"]>>],
   [Plain(b) EXCEPT !.callbacks.Listener.params[1].type = Ref("Child")],
   [Plain(b) EXCEPT !.dicts.EventInit.fields[1].type = ListOf(Promise(Octet))],
   Holding(b, Promise(Octet)), Echoing(b, Promise(Octet)),
   [Plain(b) EXCEPT !.interfaces.Node.members = <<Constructor(<<Variadic(P(Octet))>>)>>]}

MCFiles ==
  UNION {{Echoing(b, t), Holding(b, t)} : b \in Backends2, t \in EchoTypes}
    \cup UNION {{Calling2(b), Listening(b)} \cup Wrong(b) : b \in Backends2}
MCTries ==
  [none |-> {<<>>}, one |-> Ones, lists |-> Lists, functions |-> {<<f>> : f \in Functions3}]
=============================================================================
