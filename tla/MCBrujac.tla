------------------------------ MODULE MCBrujac ------------------------------
(* Inputs for Brujac: Bruja texts, whole and with one token missing; a       *)
(* receiver's messages and the members of a class, in every small            *)
(* arrangement of conditional groups.                                        *)
EXTENDS Brujac

Line(dir, toks) ==
  [dir |-> dir, toks |-> toks, expr |-> <<>>, means |-> <<>>, names |-> {}]
Txt(toks) == Line("text", toks)
Saying(toks, of, member) == [Txt(toks) EXCEPT !.means = <<[of |-> of, member |-> member]>>]
Naming(toks, names) == [Txt(toks) EXCEPT !.names = names]

\* Conditions, and how they are spelled.
Atom(t) == [op |-> "atom", t |-> t, of |-> <<>>]
Op(op, of) == [op |-> op, t |-> "", of |-> of]
On == Atom("TARGET_OS_OSX")
Off == Atom("ENABLE()")
Not(e) == Op("not", <<e>>)
RECURSIVE Spell(_)
Spell(e) ==
  LET Sep(t) == FlattenSeq([i \in DOMAIN e.of |-> (IF i > 1 THEN <<t>> ELSE <<>>) \o Spell(e.of[i])])
  IN CASE e.op = "atom"  -> <<e.t>>
       [] e.op = "not"   -> <<"!">> \o Spell(e.of[1])
       [] e.op = "group" -> <<"(">> \o Spell(e.of[1]) \o <<")">>
       [] e.op = "and"   -> Sep("&&")
       [] e.op = "or"    -> Sep("||")
Cond(dir, e) == [Line(dir, Spell(e)) EXCEPT !.expr = e]
Simple == {On, Off}
Pairs2 == {<<x, y>> : x \in Simple, y \in Simple \cup {Not(z) : z \in Simple}}
Conditions ==
  Simple \cup {Not(x) : x \in Simple} \cup {Op(o, p) : o \in {"and", "or"}, p \in Pairs2}
  \cup {Not(Op("group", <<Op(o, <<x, y>>)>>)) : o \in {"and", "or"}, x, y \in Simple}
  \cup {Op(o, <<x, y, z>>) : o \in {"and", "or"}, x, y, z \in Simple}
  \cup {Op("or", <<Op("and", <<x, y>>), z>>) : x, y, z \in Simple}
  \cup {Op("and", <<Not(x), y>>) : x, y \in Simple}

\* One line under a condition, and up to three under a group.
Guarded(l) == {<<Cond("if", e), l, Line("endif", <<>>)>> : e \in Conditions}
Grouped(x, y, z) ==
  LET If(e) == Cond("if", e) Elif(e) == Cond("elif", e)
      Alt == Line("else", <<>>) Endif == Line("endif", <<>>)
  IN  {<<x, y, z>>, <<Line("ifdef", <<"X">>), x, Alt, y, Endif, z>>,
       <<Line("ifndef", <<"X">>), x, Endif, Line("import", <<"Y">>), y, z>>}
      \cup {<<If(e), x, Alt, y, Endif, z>> : e \in Simple}
      \cup {<<If(e), x, If(f), y, Alt, z, Endif, Endif>> : e, f \in Simple}
      \cup {<<If(e), x, Elif(f), y, Alt, z, Endif>> : e, f \in Simple}
      \cup {<<If(e), If(f), x, Endif, Alt, y, Endif, Line("endif", <<>>), z>> : e, f \in Simple}

Tp(kind) == TypeSpec(kind, NoName, <<>>)
In(kind, of) == TypeSpec(kind, NoName, <<of>>)
Rf(x) == TypeSpec("ref", x, <<>>)
Nl(t) == [t EXCEPT !.nullable = TRUE]
Pm(t, name) == [name |-> name, type |-> t, optional |-> FALSE, variadic |-> FALSE, default |-> <<>>]
Op1(p) == [p EXCEPT !.optional = TRUE]
Mth(t, name, params) == Member("method", name, t, params, FALSE)

\* A *.messages.in.
Says2(toks, member) == Saying(toks, "Page", member)
Messages6 ==
  [close |-> Says2(<<"Close", "(", ")">>, Mth(Tp("void"), "close", <<>>)),
   load |-> Says2(<<"LoadURL", "(", "String", "url", ",", "uint64_t", "id", ")", "Flag", ";">>,
                  Mth(Tp("void"), "loadURL", <<Pm(Tp("string"), "url"), Pm(Tp("unsigned long long"), "id")>>)),
   run |-> Says2(<<"[]", "Run", "(", "Vector", "<", "Pair", "<", "int", ",", "A", ">", ">", "names", ",", "struct",
                   "WebKit::Page", "x", ",", "enum:", "uint8_t", "Mode", "m", ")", "->", "(", "bool", "ok", ")">>,
                 Mth(In("promise", Tp("boolean")), "run",
                     <<Pm(In("sequence", Tp("string")), "names"), Pm(Tp("string"), "x"), Pm(Tp("octet"), "m")>>)),
   get |-> Says2(<<"Get", "(", "int32_t", ")", "->", "(", "uint16_t", "v", ",", "bool", ")", "Synchronous">>,
                 Mth(Tp("unsigned short"), "get", <<Pm(Tp("long"), "arg0")>>)),
   ask |-> Says2(<<"Ask", "(", "float", "f", ")", "->", "(", "uint32_t", "v", ",", "bool", "b", ")">>,
                 Mth(In("promise", Tp("unsigned long")), "ask", <<Pm(Tp("float"), "f")>>)),
   ping |-> Says2(<<"Ping", "(", ")", "->", "(", ")", "Flag">>, Mth(Tp("void"), "ping", <<>>))]
Receiver(lines) ==
  [path |-> "messages.in", backend |-> "v8", sound |-> TRUE,
   lines |-> <<Naming(<<"[]", "messages", "->", "WebKit::Page", "NotRefCounted", "{">>, {"Page"})>>
               \o lines \o <<Txt(<<"}">>)>>]
Msgs == Range(Messages6)
MessageInputs ==
  {Receiver(ls) : ls \in Guarded(Messages6.close)
                          \cup Grouped(Messages6.load, Messages6.run, Messages6.ping)
                          \cup {<<x, y>> : x, y \in Msgs}}

\* An Objective-C header.
Has(toks, names, member) == [Saying(toks, "WKView", member) EXCEPT !.names = names]
Attrib(name, t, readonly) == Member("attribute", name, t, <<>>, readonly)
Init(params) == Member("constructor", "constructor", Tp("void"), params, FALSE)
AnyT == Tp("any")
Members8 ==
  [title |-> Has(<<"@property", "(", "nullable", "readonly", ")", "NSString", "*", "title", ";">>, {},
                 Attrib("title", Nl(Tp("string")), TRUE)),
   item |-> Has(<<"@property", "(", "nonatomic", ")", "WKItem", "*", "item", ";">>, {"WKItem"},
                Attrib("item", Rf("WKItem"), FALSE)),
   color |-> Txt(<<"@property", "NSColor", "*", "color", ";">>),
   on |-> Txt(<<"@property", "(", "copy", ")", "void", "(", "^", "on", ")", "(", ")", ";">>),
   init |-> Has(<<"-", "(", "instancetype", ")", "init", ";">>, {}, Init(<<>>)),
   initW |-> Has(<<"-", "(", "instancetype", ")", "initWithItem", ":", "(", "nullable", "WKItem", "*", ")", "item", ";">>,
                 {"WKItem"}, Init(<<Op1(Pm(Nl(Rf("WKItem")), "item"))>>)),
   coder |-> Txt(<<"-", "(", "instancetype", ")", "initWithCoder", ":", "(", "NSCoder", "*", ")", "c", ";">>),
   eval |-> Has(<<"-", "(", "void", ")", "eval", ":", "(", "NSString", "*", ")", "js", "completionHandler", ":",
                  "(", "void", "(", "^", ")", "(", "id", ")", ")", "completionHandler", ";">>, {},
                Mth(In("promise", AnyT), "eval", <<Pm(Tp("string"), "js")>>)),
   all |-> Has(<<"-", "(", "NSArray", "<", "NSString", "*", ">", "*", ")", "all", ":", "(", "NSUInteger", ")", "n",
                 "in", ":", "(", "id", "<", "Proto", ">", ")", "d", ";">>, {},
               Mth(In("sequence", AnyT), "all", <<Pm(Tp("unsigned long"), "n"), Pm(AnyT, "d")>>)),
   owner |-> Has(<<"+", "(", "WKOwner", "*", ")", "owner", ";">>, {}, Mth(Rf("WKOwner"), "owner", <<>>)),
   draw |-> Txt(<<"-", "(", "void", ")", "draw", ":", "(", "NSColor", "*", ")", "c", ";">>)]
ClassHeader(lines) ==
  [path |-> "h", backend |-> "v8", sound |-> TRUE,
   lines |-> <<Txt(<<"@protocol", "P", "-", "(", "void", ")", "p", ";", "@end">>),
               Naming(<<"@interface", "WKBase", ":", "NSObject", "@end">>, {"WKBase"}),
               Naming(<<"@interface", "WKView", ":", "WKBase", "<", "P", ">", "{", "int", "x", ";", "}">>, {"WKView"})>>
             \o lines
             \o <<Txt(<<"@end">>), Txt(<<"@interface", "WKView", "(", "More", ")", "-", "(", "void", ")", "more", ";", "@end">>)>>]
Mode == Naming(<<"typedef", "NS_ENUM", "(", "NSInteger", ",", "Mode", ")", "{", "A", "=", "0", ",", "B", "}", ";">>, {"Mode"})
Classes == Naming(<<"@class", "WKOwner", ",", "NSView", ";">>, {"WKOwner"})
HeaderInputs ==
  {ClassHeader(ls) : ls \in Grouped(Members8.title, Members8.initW, Members8.eval)
                         \cup {<<x, y>> : x, y \in Range(Members8)}}
  \cup {[ClassHeader(<<x, y>>) EXCEPT !.lines = InsertAt(@, n, Txt(<<"@protocol", "Q", ";">>))] :
          n \in 2 .. 3, x, y \in {Members8.title, Members8.owner}}
  \cup {[in EXCEPT !.lines = <<Classes>> \o @] : in \in {ClassHeader(<<x, Members8.owner>>) : x \in Range(Members8)}}
  \cup {[ClassHeader(<<Members8.title>>) EXCEPT !.lines = <<Line(d, <<"X">>), Mode, Line("endif", <<>>)>> \o @] :
          d \in {"ifdef", "ifndef"}}

\* Bruja texts.
Body ==
  <<Member("const", "MAX", Tp("octet"), <<Valued(Tp("octet"), <<"1">>)>>, TRUE), Attrib("id", Tp("string"), FALSE),
    Attrib("kind", Rf("Mode"), TRUE), Init(<<Op1(Pm(Rf("Opts"), "o"))>>),
    Mth(In("promise", Nl(Rf("Node"))), "find",
        <<Pm(TypeSpec("union", NoName, <<Rf("Node"), Tp("string")>>), "n"),
          [Op1(Pm(Tp("unsigned long long"), "max")) EXCEPT !.default = <<"1">>],
          [Pm(In("sequence", Nl(Tp("long long"))), "rest") EXCEPT !.variadic = TRUE]>>)>>
Decls ==
  {[NoDecls EXCEPT !.interfaces = <<[name |-> "Node", base |-> b, members |-> ms]>>] :
     b \in {NoName, "Node"}, ms \in {<<>>, Body}}
  \cup {[NoDecls EXCEPT !.interfaces = <<[name |-> "Node", base |-> NoName, members |-> <<>>]>>,
                        !.mixins = <<[name |-> "Mix", members |-> <<Body[1], Body[2], Body[5]>>]>>,
                        !.enums = <<[name |-> "Mode", values |-> <<"'A'", "'B'">>]>>,
                        !.dicts = <<[name |-> "Base", base |-> NoName, fields |-> <<>>],
                                    [name |-> "Opts", base |-> "Base",
                                     fields |-> <<[Pm(Tp("boolean"), "deep") EXCEPT !.default = <<"true">>],
                                                  Pm(Nl(Tp("unsigned short")), "n")>>]>>,
                        !.callbacks = <<[name |-> "Call", type |-> Tp("void"), params |-> <<Pm(Rf("Node"), "n")>>]>>,
                        !.includes = <<[target |-> "Node", mixin |-> "Mix"]>>]}
Bruja(ts, sound) == [path |-> "bruja", backend |-> "quickjs", sound |-> sound, lines |-> <<Txt(ts)>>]
TextInputs ==
  {Bruja(Show(m), TRUE) : m \in Decls}
  \cup UNION {{Bruja(RemoveAt(Show(m), i), FALSE) : i \in DOMAIN Show(m)} : m \in Decls}
  \cup {Bruja(<<"interface", "Node", "{", "attribute", "unrestricted", t, "x", ";", "object", "f", "(", "USVString", "s",
                ")", ";", "}", ";">>, t \in {"float", "double"}) : t \in {"float", "double", "long"}}
  \cup {[Bruja(<<"interface", "Node", "{">>, TRUE) EXCEPT
            !.path = "mm", !.lines = @ \o <<Txt(<<"}", ";">>), l, Txt(<<"*">>)>>] :
          l \in {Line("marker", <<>>), Line("include", <<"Y">>)}}

MCInputs == MessageInputs \cup HeaderInputs \cup TextInputs
MCComponents == "WebKit::Page" :> "Page"
MCCamel == [Close |-> "close", LoadURL |-> "loadURL", Run |-> "run", Get |-> "get", Ask |-> "ask", Ping |-> "ping"]
=============================================================================
