------------------------------- MODULE Brujac -------------------------------
(***************************************************************************)
(* brujac from its input to the parsed file (WASMBruja/src/main.cc and     *)
(* frontends.cc): a WebKit *.messages.in or an Objective-C header is       *)
(* preprocessed and rewritten as Bruja text, which is parsed.  Resolving   *)
(* and generating are those of JsCalls, on the same file.  An input is a   *)
(* sequence of lines of tokens, and a list in brackets is one token.       *)
(***************************************************************************)
EXTENDS BrujaParser

CONSTANTS
  Inputs,      \* the inputs: [path, backend, lines, sound]
  Components,  \* a qualified name |-> its last component
  Camel,       \* a name |-> the same with a small first letter
  InitNames,   \* the names that begin with "init"
  WKNames,     \* ... with "WK"
  AppleNames   \* the names that hold one of TypeLooksAppleOnly's words

VARIABLES
  input,  \* the file: its extension (path), the backend asked for, its lines
          \* [dir: the directive, or "text"; toks], and what its author meant:
          \* sound, whether it was meant as an input, and for each line the
          \* condition (expr), the members (means: of |-> interface, member)
          \* and the interfaces and enums it declares or mentions (names)
  text    \* the Bruja source

brujacVars == <<input, text>>

At(ts, i) == IF i <= Len(ts) THEN ts[i] ELSE End
\* Past the next t.  skipToSemicolon stops at the end of the line, too: the
\* declarations that it is called in are each on a line here.
RECURSIVE SkipPast(_, _, _)
SkipPast(ts, i, t) == IF At(ts, i) \in {t, End} THEN i + 1 ELSE SkipPast(ts, i + 1, t)
\* SkipBalanced, from inside the bracket.
RECURSIVE Closing(_, _, _, _, _)
Closing(ts, i, open, close, depth) ==
  CASE depth = 0 \/ At(ts, i) = End -> i
    [] At(ts, i) = open  -> Closing(ts, i + 1, open, close, depth + 1)
    [] At(ts, i) = close -> Closing(ts, i + 1, open, close, depth - 1)
    [] OTHER -> Closing(ts, i + 1, open, close, depth)
SkipBalanced(ts, i, open, close) ==
  IF At(ts, i) = open THEN Closing(ts, i + 1, open, close, 1) ELSE i

\* TakeIdent, TakeObjCIdent: a name, or nothing and the reader stays.
IsIdent(t) == IsName(t) /\ t \notin {"@class", "@protocol", "@interface", "@property", "@end"}
TakeIdent(ts, i) == IF IsIdent(At(ts, i)) THEN Got(i + 1, ts[i]) ELSE Got(i, NoName)
Consume(ts, i, t) == IF At(ts, i) = t THEN Got(i + 1, t) ELSE Thrown

-----------------------------------------------------------------------------
(* The preprocessor.                                                       *)

\* EvalPpExpr's macros: calls of PLATFORM, ENABLE, HAVE, USE and defined, and
\* every other name, are 0.
PpValue(t) == t \in {"1", "TARGET_OS_OSX", "TARGET_OS_MAC"}

\* parseOr, parseAnd and parsePrimary.  An operand that && or || does not
\* need is not read either, and the operand of ! is all that follows.
RECURSIVE ParseOr(_, _)
RECURSIVE OrLoop(_, _, _)
RECURSIVE AndLoop(_, _, _)
ParsePrimary(e, i) ==
  CASE At(e, i) = "!" -> LET r == ParseOr(e, i + 1) IN Got(r.i, ~r.v)
    [] At(e, i) = "(" -> LET r == ParseOr(e, i + 1)
                         IN  Got(IF At(e, r.i) = ")" THEN r.i + 1 ELSE r.i, r.v)
    [] At(e, i) \in {")", "&&", "||", End} -> Got(i, FALSE)
    [] OTHER -> Got(i + 1, PpValue(e[i]))
AndLoop(e, i, v) ==
  IF At(e, i) # "&&" THEN Got(i, v)
  ELSE IF ~v THEN AndLoop(e, i + 1, FALSE)
  ELSE LET r == ParsePrimary(e, i + 1) IN AndLoop(e, r.i, r.v)
ParseAnd(e, i) == LET r == ParsePrimary(e, i) IN AndLoop(e, r.i, r.v)
OrLoop(e, i, v) ==
  IF At(e, i) # "||" THEN Got(i, v)
  ELSE IF v THEN OrLoop(e, i + 1, TRUE)
  ELSE LET r == ParseAnd(e, i + 1) IN OrLoop(e, r.i, r.v)
ParseOr(e, i) == LET r == ParseAnd(e, i) IN OrLoop(e, r.i, r.v)
EvalPpExpr(e) == ParseOr(e, 1).v

\* One line: p.stack are the frames of the open #ifs, p.out the lines kept.
Taking(p) == p.stack = <<>> \/ Last(p.stack).taking
Branch(p, taking, else_seen) ==
  IF p.stack = <<>> \/ Last(p.stack).else_seen THEN p
  ELSE [p EXCEPT !.stack[Len(p.stack)] = [@ EXCEPT !.taking = taking, !.else_seen = else_seen]]
\* Mutant of Else: it forgets whether the text around the group is taken.
ElseForgetsParent(p) == Branch(p, ~Last(p.stack).taking, TRUE)
Else(p) == Branch(p, Last(p.stack).parent /\ ~Last(p.stack).taking, TRUE)
Directive(p, line) ==
  LET f == Last(p.stack)
      Push(cond) == [p EXCEPT !.stack = Append(@, [parent |-> Taking(p), taking |-> Taking(p) /\ cond,
                                                   else_seen |-> FALSE])]
  IN CASE line.dir = "if"     -> Push(EvalPpExpr(line.toks))
       [] line.dir = "ifdef"  -> Push(FALSE)
       [] line.dir = "ifndef" -> Push(TRUE)
       [] line.dir = "else"   -> Else(p)
       [] line.dir = "elif"   -> Branch(p, f.parent /\ ~f.taking /\ EvalPpExpr(line.toks), FALSE)
       [] line.dir = "endif"  -> IF p.stack = <<>> THEN p ELSE [p EXCEPT !.stack = Front(@)]
       [] line.dir = "text"   -> IF Taking(p) THEN [p EXCEPT !.out = Append(@, line)] ELSE p
       [] OTHER -> p

Kept(lines) == FoldLeft(Directive, [stack |-> <<>>, out |-> <<>>], lines).out
TokensOf(lines) == FlattenSeq([i \in DOMAIN lines |-> lines[i].toks])
Preprocess(lines) == TokensOf(Kept(lines))

-----------------------------------------------------------------------------
(* MessagesInToBruja.                                                      *)

LastComponent(n) == IF n \in DOMAIN Components THEN Components[n] ELSE n
ToCamel(n) == LET l == LastComponent(n) IN IF l \in DOMAIN Camel THEN Camel[l] ELSE l

\* MapType; a type that is not here is a DOMString.
CxxTypes ==
  [bool |-> <<"boolean">>, boolean |-> <<"boolean">>, uint8_t |-> <<"octet">>, octet |-> <<"octet">>,
   uint16_t |-> <<"unsigned", "short">>, int32_t |-> <<"long">>, int |-> <<"long">>, long |-> <<"long">>,
   uint32_t |-> <<"unsigned", "long">>, unsigned |-> <<"unsigned", "long">>,
   uint64_t |-> <<"unsigned", "long", "long">>, int64_t |-> <<"long", "long">>, double |-> <<"double">>,
   float |-> <<"float">>, void |-> <<"void">>]
MapType(n) == IF n \in DOMAIN CxxTypes THEN CxxTypes[n] ELSE <<"DOMString">>

\* ParseType of frontends.cc: the arguments of a template are skipped.
TakeType(ts, i) ==
  LET Skip(j) == SkipBalanced(ts, j, "<", ">")
      name == TakeIdent(ts, i)
  IN CASE At(ts, i) = "enum:"  -> Got(Skip(TakeIdent(ts, TakeIdent(ts, i + 1).i).i), <<"octet">>)
       [] At(ts, i) = "struct" -> Got(Skip(TakeIdent(ts, i + 1).i), <<"DOMString">>)
       [] OTHER -> Got(Skip(name.i),
                       IF At(ts, name.i) = "<" /\ name.v \in {"Vector", "WTF::Vector"}
                       THEN <<"sequence", "<", "DOMString", ">">> ELSE MapType(name.v))

\* Types and names up to the parenthesis.
ArgName(n) == "arg" \o ToString(n)
RECURSIVE TakeTyped(_, _, _)
TakeTyped(ts, i, params) ==
  LET type == TakeType(ts, i)
      name == TakeIdent(ts, type.i)
      all  == Append(params, [type |-> type.v,
                              name |-> IF name.v = NoName THEN ArgName(Len(params)) ELSE name.v])
  IN  IF At(ts, name.i) = "," THEN TakeTyped(ts, name.i + 1, all) ELSE Got(name.i, all)
TakeList(ts, i) ==
  After(Consume(ts, i, "("), LAMBDA j, c :
    After(IF At(ts, j) = ")" THEN Got(j, <<>>) ELSE TakeTyped(ts, j, <<>>), LAMBDA k, params :
      After(Consume(ts, k, ")"), LAMBDA l, d : Got(l, params))))

\* The reply: of several, all but the first are dropped.
TakeReply(ts, i) ==
  IF At(ts, i) # "->" THEN Got(i, <<"void">>)
  ELSE After(TakeList(ts, i + 1), LAMBDA j, replies :
         LET sync == At(ts, j) = "Synchronous"
         IN  Got(IF sync THEN j + 1 ELSE j,
                 CASE replies = <<>> -> <<"void">>
                   [] replies # <<>> /\ sync -> replies[1].type
                   [] OTHER -> <<"Promise", "<">> \o replies[1].type \o <<">">>))

\* The flags after a message, up to the next one.
RECURSIVE SkipFlags(_, _)
SkipFlags(ts, i) ==
  CASE At(ts, i) = ";" -> i + 1
    [] IsIdent(At(ts, i)) /\ At(ts, i + 1) # "(" -> SkipFlags(ts, i + 1)
    [] OTHER -> i

Listed(params, prefix) ==
  FlattenSeq([p \in DOMAIN params |->
                (IF p > 1 THEN <<",">> ELSE <<>>) \o prefix \o params[p].type \o <<params[p].name>>])
Declared(ret, name, params) == ret \o <<name, "(">> \o Listed(params, <<>>) \o <<")", ";">>

RECURSIVE TakeMessages(_, _, _)
TakeMessages(ts, i, out) ==
  CASE At(ts, i) = End -> Got(i, out)
    [] At(ts, i) = "}" -> Got(i + 1, out)
    [] IsIdent(At(ts, i)) ->
         After(TakeList(ts, i + 1), LAMBDA j, params :
           After(TakeReply(ts, j), LAMBDA k, ret :
             TakeMessages(ts, SkipFlags(ts, k), out \o Declared(ret, ToCamel(ts[i]), params))))
    [] OTHER -> TakeMessages(ts, i + 1, out)

\* The words between the receiver and its body.
RECURSIVE SkipExtras(_, _)
SkipExtras(ts, i) == IF At(ts, i) = "[]" \/ IsIdent(At(ts, i)) THEN SkipExtras(ts, i + 1) ELSE i

RECURSIVE MessagesInToBruja(_, _, _)
MessagesInToBruja(ts, i, out) ==
  IF i > Len(ts) THEN IF out = <<>> THEN Thrown ELSE Got(i, out)
  ELSE IF ts[i] # "messages" THEN MessagesInToBruja(ts, i + 1, out)
  ELSE After(Consume(ts, i + 1, "->"), LAMBDA j, c :
         LET receiver == LastComponent(At(ts, j))
         IN  IF ~IsIdent(At(ts, j)) THEN Thrown
             ELSE After(Consume(ts, SkipExtras(ts, j + 1), "{"), LAMBDA k, d :
                    After(TakeMessages(ts, k, <<>>), LAMBDA l, methods :
                      MessagesInToBruja(ts, l, out \o <<"interface", receiver, "{">> \o methods
                                                   \o <<"}", ";">>))))

-----------------------------------------------------------------------------
(* ObjCToBruja.  What it collects: out, the classes it defined and those   *)
(* that are referenced.                                                    *)

\* MapObjCType's table; a name that is not here is "any", and a WK class is
\* itself.
ObjCTypes ==
  [void |-> "void", BOOL |-> "boolean", bool |-> "boolean", Boolean |-> "boolean",
   double |-> "double", float |-> "double", CGFloat |-> "double", NSInteger |-> "long",
   NSTimeInterval |-> "long", int |-> "long", long |-> "long",
   NSString |-> "DOMString", NSURL |-> "DOMString", NSURLRequest |-> "DOMString", NSData |-> "DOMString",
   NSError |-> "DOMString", NSNumber |-> "DOMString", NSDate |-> "DOMString", NSDictionary |-> "DOMString",
   CGRect |-> "DOMString", CGSize |-> "DOMString", CGPoint |-> "DOMString", NSRect |-> "DOMString",
   NSSize |-> "DOMString"]
ObjCType(raw) ==
  CASE raw = <<>> -> <<"void">>
    [] raw # <<>> /\ raw[1] \in WKNames -> raw
    [] Len(raw) = 1 /\ raw[1] \in DOMAIN ObjCTypes -> <<ObjCTypes[raw[1]]>>
    [] raw = <<"NSArray">> -> <<"sequence", "<", "any", ">">>
    [] raw \in {<<"NSUInteger">>, <<"unsigned">>, <<"uint32_t">>} -> <<"unsigned", "long">>
    [] OTHER -> <<"any">>

Nullables == {"nullable", "_Nullable"}
\* Without protocols, the trailing stars and the leading qualifiers.
BeforeAngle(raw) ==
  LET angles == {i \in DOMAIN raw : raw[i] = "<"}
      first == CHOOSE i \in angles : \A j \in angles : i <= j
  IN  IF angles # {} /\ \A i \in 1 .. first : raw[i] # "*" THEN SubSeq(raw, 1, first - 1) ELSE raw
RECURSIVE DropStars(_)
DropStars(raw) == IF raw # <<>> /\ Last(raw) = "*" THEN DropStars(Front(raw)) ELSE raw
RECURSIVE DropNullables(_)
DropNullables(raw) == IF Len(raw) > 1 /\ raw[1] \in Nullables THEN DropNullables(Tail(raw)) ELSE raw
MapObjCType(raw, nullable) ==
  LET bare   == DropStars(BeforeAngle(raw))
      mapped == ObjCType(DropNullables(bare))
      null   == nullable \/ DropNullables(bare) # bare
  IN  IF null /\ mapped \notin {<<"void">>, <<"any">>} THEN Append(mapped, "?") ELSE mapped

TypeLooksAppleOnly(ts) == Range(ts) \cap AppleNames # {}
References(type) == {type[1]} \cap WKNames

\* NS_ENUM's values, without what they are set to.
RECURSIVE TakeEnumValues(_, _, _)
TakeEnumValues(ts, i, values) ==
  IF At(ts, i) \in {"}", End} THEN Got(i + 1, values)
  ELSE LET v == TakeIdent(ts, i)
           RECURSIVE Stop(_)
           Stop(j) == IF At(ts, j) \in {",", "}", End} THEN j ELSE Stop(j + 1)
           s == Stop(v.i)
       IN  TakeEnumValues(ts, IF At(ts, s) = "," THEN s + 1 ELSE s,
                          IF v.v = NoName THEN values
                          ELSE values \o (IF values = <<>> THEN <<>> ELSE <<",">>) \o <<"'" \o v.v \o "'">>)
\* typedef: NS_ENUM's parenthesis is skipped, and the name with it.
TakeTypedef(ts, i, st) ==
  LET name == TakeIdent(ts, SkipBalanced(ts, i + 1, "(", ")"))
      vals == TakeEnumValues(ts, name.i + 1, <<>>)
  IN  IF At(ts, i) \in {"NS_ENUM", "NS_OPTIONS"} /\ At(ts, name.i) = "{"
      THEN Got(SkipPast(ts, vals.i, ";"),
               [st EXCEPT !.out = @ \o <<"enum">> \o (IF name.v = NoName THEN <<>> ELSE <<name.v>>)
                                    \o <<"{">> \o vals.v \o <<"}", ";">>])
      ELSE Got(SkipPast(ts, i, ";"), st)

RECURSIVE TakeClasses(_, _, _)
TakeClasses(ts, i, st) ==
  IF At(ts, i) \in {";", End} THEN Got(i + 1, st)
  ELSE LET name == TakeIdent(ts, i)
       IN  TakeClasses(ts, IF At(ts, name.i) = "," THEN name.i + 1 ELSE name.i,
                       [st EXCEPT !.referenced = @ \cup ({name.v} \cap WKNames)])

\* @property: the name is the last word before the `;` at semi.
PropertyUpTo(ts, from, semi, attrs, st) ==
  LET named == semi > from /\ IsIdent(ts[semi - 1])
      raw   == SubSeq(ts, from, IF named THEN semi - 2 ELSE semi - 1)
      type  == MapObjCType(raw, "nullable" \in attrs)
  IN CASE At(ts, semi) = End -> Got(Len(ts) + 1, st)
       [] At(ts, semi) # End /\ (~named \/ TypeLooksAppleOnly(type \o raw)) -> Got(semi + 1, st)
       [] OTHER -> Got(semi + 1,
                       [st EXCEPT !.referenced = @ \cup References(type),
                                  !.out = @ \o (IF "readonly" \in attrs THEN <<"readonly">> ELSE <<>>)
                                            \o <<"attribute">> \o type \o <<ts[semi - 1], ";">>])
TakeProperty(ts, i, st) ==
  LET from == SkipBalanced(ts, i, "(", ")")
  IN  PropertyUpTo(ts, from, SkipPast(ts, from, ";") - 1, Range(SubSeq(ts, i, from - 1)), st)

\* A type in parentheses, and where it ends; a block has a ^ in it.
Bracketed(ts, i) ==
  LET end == SkipBalanced(ts, i, "(", ")")
  IN  [typed |-> At(ts, i) = "(", raw |-> SubSeq(ts, i + 1, end - 2), end |-> end]
IsBlock(b) == b.typed /\ "^" \in Range(b.raw)
TypeOf(b) == IF IsBlock(b) THEN <<"any">> ELSE MapObjCType(b.raw, "nullable" \in Range(b.raw))

\* The pieces of a selector, after a `:`.  m.promise: there is a completion
\* handler; m.skip: a type that the port does not have.  The name of another
\* block is passed over, so that the next piece names its parameter.
Handlers3 == {"completionHandler", "callback", "function"}
RECURSIVE TakePieces(_, _, _)
NextPiece(ts, i, handler, m) ==
  LET piece == TakeIdent(ts, i).i
  IN  IF At(ts, piece) = ":" /\ (handler \/ piece > i) THEN TakePieces(ts, piece + 1, m) ELSE Got(piece, m)
AddParam(m, b, name) ==
  IF ~b.typed THEN m
  ELSE LET type == TypeOf(b)
       IN  [m EXCEPT !.params = Append(@, [type |-> type, name |-> IF name = NoName THEN ArgName(Len(@)) ELSE name]),
                     !.referenced = @ \cup References(type),
                     !.skip = @ \/ (~IsBlock(b) /\ TypeLooksAppleOnly(type \o b.raw))]
TakePiece(ts, b, m) ==
  IF IsBlock(b) /\ At(ts, b.end) \in Handlers3
  THEN NextPiece(ts, b.end + 1, TRUE, [m EXCEPT !.promise = TRUE])
  ELSE LET name == TakeIdent(ts, IF IsBlock(b) THEN TakeIdent(ts, b.end).i ELSE b.end)
       IN  NextPiece(ts, name.i, FALSE, AddParam(m, b, name.v))
TakePieces(ts, i, m) == TakePiece(ts, Bracketed(ts, i), m)

\* A method that was read; one whose name begins with init is a constructor.
EmitMethod(st, ret, sel, m) ==
  [st EXCEPT
     !.referenced = @ \cup m.referenced,
     !.out = @ \o CASE m.skip -> <<>>
                    [] ~m.skip /\ sel \in InitNames ->
                         <<"constructor", "(">> \o Listed(m.params, <<"optional">>) \o <<")", ";">>
                    [] OTHER -> Declared(IF m.promise THEN <<"Promise", "<", "any", ">">> ELSE ret, sel, m.params)]
EndMethod(ts, r, st, ret, sel) == Got(SkipPast(ts, r.i, ";"), EmitMethod(st, ret, sel, r.v))
SelectorFrom(ts, i, m) == IF At(ts, i) = ":" THEN TakePieces(ts, i + 1, m) ELSE Got(i, m)
\* A method, from its + or -, whose result is b.
MethodReturning(ts, i, b, st) ==
  LET ret  == MapObjCType(b.raw, "nullable" \in Range(b.raw))
      sel  == At(ts, b.end)
      none == [params |-> <<>>, promise |-> FALSE, referenced |-> {}, skip |-> TypeLooksAppleOnly(ret \o b.raw)]
  IN  IF ~b.typed \/ ~IsIdent(sel) \/ sel = "initWithCoder" THEN Got(SkipPast(ts, i, ";"), st)
      ELSE EndMethod(ts, SelectorFrom(ts, b.end + 1, none), st, ret, sel)
TakeMethod(ts, i, st) == MethodReturning(ts, i, Bracketed(ts, i + 1), st)

\* The members up to @end; r: where the reader is and what it collected.
RECURSIVE TakeBody(_, _)
TakeBody(ts, r) ==
  CASE At(ts, r.i) \in {"@end", End} -> Got(r.i + 1, r.v)
    [] At(ts, r.i) = "@property" -> TakeBody(ts, TakeProperty(ts, r.i + 1, r.v))
    [] At(ts, r.i) \in {"+", "-"} -> TakeBody(ts, TakeMethod(ts, r.i, r.v))
    [] OTHER -> TakeBody(ts, Got(r.i + 1, r.v))

\* A category adds nothing; a base is kept when it is a WK class seen before.
OpenInterface(st, name, base) ==
  LET kept_base == base \in WKNames \cap (st.defined \cup {name})
  IN  [st EXCEPT !.defined = @ \cup {name},
                 !.out = @ \o <<"interface", name>> \o (IF kept_base THEN <<":", base>> ELSE <<>>) \o <<"{">>]
CloseInterface(r) == Got(r.i, [r.v EXCEPT !.out = @ \o <<"}", ";">>])
TakeInterface(ts, i, st) ==
  LET name == TakeIdent(ts, i)
      base == IF At(ts, name.i) = ":" THEN TakeIdent(ts, name.i + 1) ELSE Got(name.i, NoName)
      from == SkipBalanced(ts, SkipBalanced(ts, base.i, "<", ">"), "{", "}")
  IN CASE name.v = NoName -> Got(i, st)
       [] name.v # NoName /\ At(ts, name.i) = "(" -> Got(SkipPast(ts, name.i, "@end"), st)
       [] OTHER -> CloseInterface(TakeBody(ts, Got(from, OpenInterface(st, name.v, base.v))))

\* The classes that are only referenced are declared empty.
Stubs(st) ==
  FlattenSeq(SetToSeq({<<"interface", n, "{", "}", ";">> : n \in st.referenced \ st.defined}))

RECURSIVE TakeDecls(_, _)
TakeDecls(ts, r) ==
  IF At(ts, r.i) = End THEN r.v
  ELSE TakeDecls(ts, CASE At(ts, r.i) = "@class"     -> TakeClasses(ts, r.i + 1, r.v)
                       [] At(ts, r.i) = "@protocol"  -> Got(SkipPast(ts, r.i, "@end"), r.v)
                       [] At(ts, r.i) = "typedef"    -> TakeTypedef(ts, r.i + 1, r.v)
                       [] At(ts, r.i) = "@interface" -> TakeInterface(ts, r.i + 1, r.v)
                       [] OTHER -> Got(r.i + 1, r.v))
ObjCToBruja(ts) ==
  LET st == TakeDecls(ts, Got(1, [out |-> <<>>, defined |-> {}, referenced |-> {}]))
      out == st.out \o Stubs(st)
  IN  IF out = <<>> THEN Thrown ELSE Got(1, out)

-----------------------------------------------------------------------------
(* main.                                                                   *)

Mentions(lines, t) == \E i \in DOMAIN lines : t \in Range(lines[i].toks)
HasMessages(lines) ==
  \E i \in DOMAIN lines : \E j \in DOMAIN lines[i].toks :
    lines[i].toks[j] = "messages" /\ At(lines[i].toks, j + 1) = "->"
InferInputKind(in) ==
  CASE in.path = "messages.in" -> "messages"
    [] in.path \in {"mm", "h", "m"} /\ (in.path = "mm" \/ Mentions(in.lines, "@interface")) -> "cocoa"
    [] OTHER -> IF HasMessages(in.lines) THEN "messages"
                ELSE IF Mentions(in.lines, "@interface") THEN "cocoa" ELSE "bruja"

\* A line as Tokenize sees it.
Raw(line) ==
  CASE line.dir = "text"   -> line.toks
    [] line.dir = "marker" -> <<>>
    [] OTHER -> <<"#">> \o line.toks

\* ExtractBrujaFromMm: up to the marker, else up to the first #include if
\* Bruja text comes before it.
ExtractBrujaFromMm(lines) ==
  LET markers  == {i \in DOMAIN lines : lines[i].dir = "marker"}
      includes == {i \in DOMAIN lines : i > 1 /\ lines[i].dir = "include"}
      First(S) == CHOOSE i \in S : \A j \in S : i <= j
  IN CASE markers # {} -> SubSeq(lines, 1, First(markers) - 1)
       [] markers = {} /\ includes # {} ->
            LET before == SubSeq(lines, 1, First(includes) - 1)
            IN  IF Mentions(before, "interface") THEN before ELSE lines
       [] OTHER -> lines

ToBrujaSource(in) ==
  LET kind == InferInputKind(in)
      AsIs(lines) == Got(1, FlattenSeq([i \in DOMAIN lines |-> Raw(lines[i])]))
  IN CASE kind = "messages" -> MessagesInToBruja(Preprocess(in.lines), 1, <<>>)
       [] kind = "cocoa" /\ Mentions(in.lines, "@interface") -> ObjCToBruja(Preprocess(in.lines))
       [] kind = "cocoa" /\ ~Mentions(in.lines, "@interface") -> AsIs(ExtractBrujaFromMm(in.lines))
       [] OTHER -> AsIs(in.lines)

\* The file that JsCalls goes on with.
ByName(decls, Of(_)) ==
  [n \in {decls[i].name : i \in DOMAIN decls} |->
     Of(decls[CHOOSE i \in DOMAIN decls : /\ decls[i].name = n
                                          /\ \A j \in DOMAIN decls : decls[j].name = n => j <= i])]
AsFile(m, backend) ==
  [backend |-> backend, garbage |-> 0, tries |-> "none", calls |-> 0,
   interfaces |-> ByName(m.interfaces, LAMBDA d : [base |-> d.base, members |-> d.members]),
   mixins |-> ByName(m.mixins, LAMBDA d : [members |-> d.members]),
   dicts |-> ByName(m.dicts, LAMBDA d : [base |-> d.base, fields |-> d.fields]),
   enums |-> ByName(m.enums, LAMBDA d : Range(d.values)),
   callbacks |-> ByName(m.callbacks, LAMBDA d : [type |-> d.type, params |-> d.params]),
   includes |-> m.includes]

BrujacStart(in) == input = in /\ text = <<>>
BrujacInit ==
  /\ \E in \in Inputs : BrujacStart(in)
  /\ CallStart(AsFile(NoDecls, "quickjs"), "source")

Translate ==
  /\ fileState = "source"
  /\ LET r == ToBrujaSource(input)
     IN  IF r.ok THEN text' = r.v /\ fileState' = "translated"
         ELSE text' = text /\ fileState' = "failed"
  /\ UNCHANGED <<input, file, kept, said, calls>>

ParseText ==
  /\ fileState = "translated"
  /\ LET r == Parsed(text)
     IN  IF r.ok THEN file' = AsFile(r.v, input.backend) /\ fileState' = "parsed"
         ELSE file' = file /\ fileState' = "failed"
  /\ UNCHANGED <<input, text, kept, said, calls>>

BrujacNext == Translate \/ ParseText \/ (CallNext /\ UNCHANGED brujacVars)
BrujacSpec == BrujacInit /\ [][BrujacNext]_<<brujacVars, callVars>>

-----------------------------------------------------------------------------
(* Properties.                                                             *)

\* The value that C gives to a condition, a tree of [op, t, of].
RECURSIVE ExprValue(_)
ExprValue(e) ==
  CASE e.op = "atom"  -> PpValue(e.t)
    [] e.op = "not"   -> ~ExprValue(e.of[1])
    [] e.op = "group" -> ExprValue(e.of[1])
    [] e.op = "and"   -> \A i \in DOMAIN e.of : ExprValue(e.of[i])
    [] e.op = "or"    -> \E i \in DOMAIN e.of : ExprValue(e.of[i])

\* A chain: one operator, and a ! at most before the last operand.
RECURSIVE IsChain(_)
IsChain(e) ==
  CASE e.op = "atom" -> TRUE
    [] e.op \in {"not", "group"} -> e.of[1].op \in {"atom", "group"} /\ IsChain(e.of[1])
    [] OTHER -> /\ \A i \in 1 .. Len(e.of) - 1 : e.of[i].op = "atom"
                /\ Last(e.of).op \in {"atom", "not"} /\ IsChain(Last(e.of))

\* C's conditional groups: a branch is taken when no earlier one was.  again:
\* an #elif came after the branch that is taken, and another branch after it.
Taken(frames) == frames = <<>> \/ Last(frames).taking
CBranch(p, cond) ==
  LET f == Last(p.frames)
  IN  IF p.frames = <<>> THEN p
      ELSE [p EXCEPT !.frames[Len(p.frames)] =
                       [f EXCEPT !.taking = f.parent /\ ~f.done /\ cond, !.done = @ \/ cond,
                                 !.passed = @ \/ f.done],
                     !.again = @ \/ (f.parent /\ f.passed)]
CLine(p, line) ==
  LET Push(cond) == [p EXCEPT !.frames = Append(@, [parent |-> Taken(p.frames), done |-> cond,
                                                    taking |-> Taken(p.frames) /\ cond, passed |-> FALSE])]
  IN CASE line.dir = "if"     -> Push(EvalPpExpr(line.toks))
       [] line.dir = "ifdef"  -> Push(FALSE)
       [] line.dir = "ifndef" -> Push(TRUE)
       [] line.dir = "else"   -> CBranch(p, TRUE)
       [] line.dir = "elif"   -> CBranch(p, EvalPpExpr(line.toks))
       [] line.dir = "endif"  -> IF p.frames = <<>> THEN p ELSE [p EXCEPT !.frames = Front(@)]
       [] line.dir = "text"   -> IF Taken(p.frames) THEN [p EXCEPT !.out = Append(@, line)] ELSE p
       [] OTHER -> p

\* EvalPpExpr gives a chain the value that C gives it, and Preprocess keeps
\* the lines that a C preprocessor keeps, however the groups are nested,
\* unless a group goes on after an #elif that follows the branch it took.
ConditionsAgree ==
  fileState = "source" =>
    /\ \A i \in DOMAIN input.lines :
         input.lines[i].dir \in {"if", "elif"} /\ IsChain(input.lines[i].expr) =>
           EvalPpExpr(input.lines[i].toks) = ExprValue(input.lines[i].expr)
    /\ LET c == FoldLeft(CLine, [frames |-> <<>>, again |-> FALSE, out |-> <<>>], input.lines)
       IN  ~c.again => Kept(input.lines) = c.out

\* What a text says, in one spelling.
RECURSIVE ShowType(_)
ShowType(t) ==
  (CASE t.kind = "ref"     -> <<t.ref>>
     [] t.kind = "string"  -> <<"DOMString">>
     [] t.kind = "any"     -> <<"any">>
     [] t.kind \in {"float", "double"} -> <<t.kind>>
     [] t.kind = "sequence" -> <<"sequence", "<">> \o ShowType(t.of[1]) \o <<">">>
     [] t.kind = "promise"  -> <<"Promise", "<">> \o ShowType(t.of[1]) \o <<">">>
     [] t.kind = "union"    -> <<"(">> \o FlattenSeq([i \in DOMAIN t.of |->
                                 (IF i > 1 THEN <<"or">> ELSE <<>>) \o ShowType(t.of[i])]) \o <<")">>
     [] OTHER -> CHOOSE s \in DOMAIN Spellings : Spellings[s] = t.kind)
  \o (IF t.nullable THEN <<"?">> ELSE <<>>)
ShowDefault(d) == IF d = <<>> THEN <<>> ELSE <<"=", d[1]>>
ShowParams(ps) ==
  <<"(">> \o FlattenSeq([i \in DOMAIN ps |->
               (IF i > 1 THEN <<",">> ELSE <<>>) \o (IF ps[i].optional THEN <<"optional">> ELSE <<>>)
                 \o ShowType(ps[i].type) \o (IF ps[i].variadic THEN <<"...">> ELSE <<>>)
                 \o <<ps[i].name>> \o ShowDefault(ps[i].default)]) \o <<")", ";">>
ShowMember(m) ==
  CASE m.kind = "const"       -> <<"const">> \o ShowType(m.type) \o <<m.name>>
                                   \o ShowDefault(m.params[1].default) \o <<";">>
    [] m.kind = "attribute"   -> (IF m.readonly THEN <<"readonly">> ELSE <<>>) \o <<"attribute">>
                                   \o ShowType(m.type) \o <<m.name, ";">>
    [] m.kind = "constructor" -> <<"constructor">> \o ShowParams(m.params)
    [] m.kind = "method"      -> ShowType(m.type) \o <<m.name>> \o ShowParams(m.params)
ShowAll(s, Show(_)) == FlattenSeq([i \in DOMAIN s |-> Show(s[i])])
ShowBase(b) == IF b = NoName THEN <<>> ELSE <<":", b>>
Show(m) ==
  ShowAll(m.interfaces, LAMBDA d : <<"interface", d.name>> \o ShowBase(d.base) \o <<"{">>
                                     \o ShowAll(d.members, ShowMember) \o <<"}", ";">>)
  \o ShowAll(m.mixins, LAMBDA d : <<"interface", "mixin", d.name, "{">> \o ShowAll(d.members, ShowMember)
                                     \o <<"}", ";">>)
  \o ShowAll(m.enums, LAMBDA d : <<"enum", d.name, "{">>
                \o FlattenSeq([i \in DOMAIN d.values |-> (IF i > 1 THEN <<",">> ELSE <<>>) \o <<d.values[i]>>])
                \o <<"}", ";">>)
  \o ShowAll(m.dicts, LAMBDA d : <<"dictionary", d.name>> \o ShowBase(d.base) \o <<"{">>
                \o ShowAll(d.fields, LAMBDA f : ShowType(f.type) \o <<f.name>> \o ShowDefault(f.default) \o <<";">>)
                \o <<"}", ";">>)
  \o ShowAll(m.callbacks, LAMBDA d : <<"callback", d.name, "=">> \o ShowType(d.type) \o ShowParams(d.params))
  \o ShowAll(m.includes, LAMBDA d : <<d.target, "includes", d.mixin, ";">>)

\* A Bruja text that is read is read to the last token: what the parser made
\* of it, written down again, is the text, but for the synonyms.
Canonical(ts) ==
  LET said_once == SelectSeq(ts, LAMBDA t : t # "unrestricted")
  IN  [i \in DOMAIN said_once |-> CASE said_once[i] = "USVString" -> "DOMString"
                                    [] said_once[i] = "object"    -> "any"
                                    [] OTHER -> said_once[i]]
TextsAreReadExactly ==
  fileState = "parsed" /\ input.path \in {"bruja", "mm"} => Show(Parsed(text).v) = Canonical(text)

\* The kept lines, without a protocol: a forward declaration `@protocol P;` is
\* taken for the beginning of one, and all that follows up to an @end for its body.
Seen(lines) ==
  FoldLeft(LAMBDA p, line :
             IF p.inside \/ "@protocol" \in Range(line.toks)
             THEN [p EXCEPT !.inside = "@end" \notin Range(line.toks)]
             ELSE [p EXCEPT !.out = Append(@, line)],
           [inside |-> FALSE, out |-> <<>>], Kept(lines)).out

\* What the lines of an input that are seen say.
KeptMeans == ShowAll(Seen(input.lines), LAMBDA l : l.means)
MembersOf(x) ==
  LET mine == SelectSeq(KeptMeans, LAMBDA w : w.of = x) IN [i \in DOMAIN mine |-> mine[i].member]

\* Each message and each member of a class that is kept is one member of
\* the file, in order, with the types that it is given for its own; every
\* class that is declared or mentioned is there, but for the classes that a
\* forward declaration of a protocol hides.
MeaningIsKept ==
  fileState = "parsed" /\ text # <<>> /\ input.path \in {"messages.in", "h"} =>
    /\ DOMAIN file.interfaces \cup DOMAIN file.enums
         = UNION {l.names : l \in Range(Seen(input.lines))}
    /\ \A x \in DOMAIN file.interfaces : file.interfaces[x].members = MembersOf(x)

\* An input that was meant as one gets through the front end and the parser,
\* unless a class has two constructors, which Bruja does not have, or an
\* NS_ENUM is declared, which loses its name.
Unreadable ==
  \/ "NS_ENUM" \in Range(Preprocess(input.lines))
  \/ \E w \in Range(KeptMeans) :
       Cardinality({i \in DOMAIN MembersOf(w.of) : MembersOf(w.of)[i].kind = "constructor"}) > 1
SoundInputsAreRead ==
  input.sound => /\ fileState = "failed" => Unreadable
                 /\ fileState = "parsed" /\ text # <<>> => ~Unreadable

(* brujac's front ends and parser (Preprocess, MessagesInToBruja,          *)
(* ObjCToBruja, ExtractBrujaFromMm, Parse) neither lose nor make up what   *)
(* an input declares.                                                      *)
InputsAreFaithful == ConditionsAgree /\ TextsAreReadExactly /\ MeaningIsKept /\ SoundInputsAreRead
=============================================================================
