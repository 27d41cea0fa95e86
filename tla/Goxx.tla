-------------------------------- MODULE Goxx --------------------------------
(***************************************************************************)
(* brujac's converter from TypeScript to Go++ (WASMBruja/src/              *)
(* goxx_generator.cc): the lexer, the recursive-descent parser and the     *)
(* emitter.  A source is a sequence of characters in which a word, a       *)
(* number and a string literal count as one; a tree is [k: kind, t: text,  *)
(* c: children]; the output is the sequence of Go++ tokens.                *)
(***************************************************************************)
EXTENDS Integers, Sequences, FiniteSets, SequencesExt

CONSTANTS
  Sources,   \* what the converter is run on
  WordChars,     \* the characters that are words
  Numbers,   \* ... numbers
  Strings    \* ... string literals

VARIABLES
  typescript,  \* the input
  toks,    \* TokenizeTs's result
  tree,    \* TsParser's result
  go,      \* Emitter::out
  goxxStage    \* "source", "lexed", "parsed", "emitted", "failed" (an exception)

goxxVars == <<typescript, toks, tree, go, goxxStage>>

Node(k, t, c) == [k |-> k, t |-> t, c |-> c]
Nil == Node("Nil", "", <<>>)
Tok(type, text, line) == [type |-> type, text |-> text, line |-> line]

GoxxStart(s) == typescript = s /\ toks = <<>> /\ tree = Nil /\ go = <<>> /\ goxxStage = "source"
GoxxInit == \E s \in Sources : GoxxStart(s)

-----------------------------------------------------------------------------
(* TokenizeTs.                                                             *)

\* The spellings of several characters in the order in which they are tried,
\* then those of one.
Long == <<<<".", ".", ".">>, <<"=", ">">>, <<"=", "=", "=">>, <<"!", "=", "=">>, <<"=", "=">>, <<"!", "=">>,
          <<"<", "=">>, <<">", "=">>, <<"&", "&">>, <<"|", "|">>, <<"+", "+">>, <<"-", "-">>, <<"+", "=">>,
          <<"-", "=">>, <<"*", "=">>, <<"/", "=">>>>
Short == {"(", ")", "{", "}", "[", "]", ",", ";", ":", ".", "?", "!", "+", "-", "*", "/", "%", "=", "<", ">",
          "&", "|"}
SpellsAt(s, i, p) == i + Len(p) - 1 <= Len(s) /\ SubSeq(s, i, i + Len(p) - 1) = p
\* Where the text after i goes on: past the end of the line, or past "*/".
LineEnd(s, i) == LET ends == {j \in i .. Len(s) : s[j] = "NL"} IN IF ends = {} THEN Len(s) + 1 ELSE Min(ends)
CommentEnds(s, i) == {j \in i .. Len(s) - 1 : s[j] = "*" /\ s[j + 1] = "/"}

TokenAt(s, i) ==
  LET fits == SelectSeq(Long, LAMBDA p : SpellsAt(s, i, p))
  IN  IF fits # <<>> THEN fits[1] ELSE <<s[i]>>

\* The name of a token that is spelled by several characters.
Joined(p) == IF Len(p) = 3 THEN p[1] \o p[2] \o p[3] ELSE IF Len(p) = 2 THEN p[1] \o p[2] ELSE p[1]

LexError == [ok |-> FALSE, toks |-> <<>>]
RECURSIVE TokenizeTs(_, _, _, _)
TokenizeTs(s, i, line, out) ==
  IF i > Len(s) THEN [ok |-> TRUE, toks |-> Append(out, Tok("End", "", line))]
  ELSE IF s[i] = "NL" THEN TokenizeTs(s, i + 1, line + 1, out)
  ELSE IF s[i] = " " THEN TokenizeTs(s, i + 1, line, out)
  ELSE IF SpellsAt(s, i, <<"/", "/">>) THEN TokenizeTs(s, LineEnd(s, i), line, out)
  ELSE IF SpellsAt(s, i, <<"/", "*">>)
  THEN LET ends == CommentEnds(s, i + 2)
       IN  IF ends = {} THEN LexError
           ELSE TokenizeTs(s, Min(ends) + 2,
                           line + Cardinality({j \in i .. Min(ends) : s[j] = "NL"}), out)
  ELSE IF s[i] \in WordChars THEN TokenizeTs(s, i + 1, line, Append(out, Tok("Ident", s[i], line)))
  ELSE IF s[i] \in Numbers THEN TokenizeTs(s, i + 1, line, Append(out, Tok("Number", s[i], line)))
  ELSE IF s[i] \in Strings THEN TokenizeTs(s, i + 1, line, Append(out, Tok("String", s[i], line)))
  ELSE LET p == TokenAt(s, i)
       IN  IF p[1] \notin Short THEN LexError
           ELSE TokenizeTs(s, i + Len(p), line, Append(out, Tok(Joined(p), "", line)))

-----------------------------------------------------------------------------
(* TsParser.  A result is where the parser is and the tree, or the         *)
(* exception.                                                              *)

Ok(i, n) == [ok |-> TRUE, i |-> i, n |-> n]
Err == [ok |-> FALSE, i |-> 0, n |-> Nil]
AndThen(r, F(_, _)) == IF r.ok THEN F(r.i, r.n) ELSE Err

Check(ts, i, type) == ts[i].type = type
CheckIdent(ts, i, word) == ts[i].type = "Ident" /\ ts[i].text = word
CheckIdents(ts, i, words) == ts[i].type = "Ident" /\ ts[i].text \in words
PeekN(ts, i, n) == IF i + n > Len(ts) THEN ts[Len(ts)] ELSE ts[i + n]
Match(ts, i, type) == IF Check(ts, i, type) THEN i + 1 ELSE i
Expect(ts, i, type, F(_)) == IF Check(ts, i, type) THEN F(i + 1) ELSE Err

\* SkipModifiers, where "async" is an error.
RECURSIVE SkipModifiers(_, _)
SkipModifiers(ts, i) ==
  IF CheckIdents(ts, i, {"export", "default", "public", "private", "protected", "readonly", "static",
                         "declare", "abstract"})
  THEN SkipModifiers(ts, i + 1)
  ELSE IF CheckIdent(ts, i, "async") THEN Err ELSE Ok(i, Nil)

\* Past the bracket that closes the one before i; the end if none does.
RECURSIVE SkipNested(_, _, _, _, _)
SkipNested(ts, i, open, close, depth) ==
  IF depth = 0 \/ Check(ts, i, "End") THEN i
  ELSE SkipNested(ts, i + 1, open, close,
                  IF Check(ts, i, open) THEN depth + 1 ELSE IF Check(ts, i, close) THEN depth - 1 ELSE depth)

\* ParseType: a braced type is any; Array<T> is T[]; Promise<T> is T; the
\* arguments of another generic are dropped; of a union the first type stays.
Type(name, array) == Node("Type", name, IF array THEN <<Nil>> ELSE <<>>)
NoType == Type("", FALSE)
RECURSIVE Brackets(_, _, _)
Brackets(ts, i, t) ==
  IF ~Check(ts, i, "[") THEN Ok(i, t)
  ELSE Expect(ts, i + 1, "]", LAMBDA j : Brackets(ts, j, Type(t.t, TRUE)))
RECURSIVE ParseType(_, _), PipedTypes(_, _, _)
PipedTypes(ts, i, t) ==
  IF ~Check(ts, i, "|") THEN Ok(i, t)
  ELSE AndThen(ParseType(ts, i + 1), LAMBDA j, dropped : PipedTypes(ts, j, t))
ParseType(ts, i) ==
  IF Check(ts, i, "{") THEN Ok(SkipNested(ts, i + 1, "{", "}", 1), Type("any", FALSE))
  ELSE LET named   == Check(ts, i, "Ident")
           name    == IF named THEN ts[i].text ELSE "any"
           j       == IF named THEN i + 1 ELSE i
           generic == Check(ts, j, "<")
           base    == IF generic /\ name \in {"Array", "Promise"}
                      THEN AndThen(ParseType(ts, j + 1), LAMBDA k, inner :
                             Expect(ts, k, ">", LAMBDA m :
                               Ok(m, Type(inner.t, inner.c # <<>> \/ name = "Array"))))
                      ELSE IF generic THEN Ok(SkipNested(ts, j + 1, "<", ">", 1), Type(name, FALSE))
                      ELSE Ok(j, Type(name, FALSE))
       IN  AndThen(base, LAMBDA k, t : AndThen(Brackets(ts, k, t), LAMBDA m, u : PipedTypes(ts, m, u)))
\* An optional ": type".
Annotation(ts, i) == IF Check(ts, i, ":") THEN ParseType(ts, i + 1) ELSE Ok(i, NoType)

\* ParseParamList, after "(" and with its ")".
Param(name, t) == Node("Param", name, <<t>>)
RECURSIVE ParseParamList(_, _, _)
ParseParamList(ts, i, acc) ==
  IF Check(ts, i, ")") THEN Ok(i + 1, Node("Params", "", acc))
  ELSE LET a == Match(ts, i, "...")
           name == IF Check(ts, a, "Ident") THEN ts[a].text ELSE ""
           b == Match(ts, Match(ts, a, "Ident"), "?")
       IN  AndThen(Annotation(ts, b), LAMBDA j, t :
             IF Check(ts, j, ",") THEN ParseParamList(ts, j + 1, Append(acc, Param(name, t)))
             ELSE Expect(ts, j, ")", LAMBDA k : Ok(k, Node("Params", "", Append(acc, Param(name, t))))))

\* The parameters of an arrow function, after "(" and with its ")".
RECURSIVE ArrowParams(_, _, _)
ArrowParams(ts, i, acc) ==
  IF Check(ts, i, ")") /\ acc = <<>> THEN Ok(i + 1, Node("Params", "", <<>>))
  ELSE LET name == IF Check(ts, i, "Ident") THEN ts[i].text ELSE ""
       IN  AndThen(Annotation(ts, Match(ts, i, "Ident")), LAMBDA j, t :
             IF Check(ts, j, ",") THEN ArrowParams(ts, j + 1, Append(acc, Param(name, t)))
             ELSE Expect(ts, j, ")", LAMBDA k : Ok(k, Node("Params", "", Append(acc, Param(name, t))))))

\* LooksLikeArrowParams, after "(": the matching ")" is followed by "=>",
\* possibly behind a type.
LooksLikeArrowParams(ts, i) ==
  LET j == SkipNested(ts, i, "(", ")", 1)
      stops == {k \in j .. Len(ts) : ts[k].type \in {"=>", ";", "{"}}
  IN  IF Check(ts, j, ":") THEN stops # {} /\ Check(ts, Min(stops), "=>") ELSE Check(ts, j, "=>")

\* The levels of ParseOr, ParseAnd, ParseEq, ParseCmp, ParseAdd and ParseMul.
TsLevels == <<{"||"}, {"&&"}, {"==", "===", "!=", "!=="}, {"<", ">", "<=", ">="}, {"+", "-"}, {"*", "/", "%"}>>
Spelled(op) == IF op = "===" THEN "==" ELSE IF op = "!==" THEN "!=" ELSE op

RECURSIVE ParseLevel(_, _, _, _), LevelLoop(_, _, _, _, _)
RECURSIVE ParseAssign(_, _), ParseUnary(_, _), ParsePostfix(_, _, _), ParsePrimary(_, _)
RECURSIVE ParseList(_, _, _, _), ParseFields(_, _, _), ParseStatement(_, _), ParseStatements(_, _, _)
RECURSIVE ParseClassBody(_, _, _), ParseMembers(_, _, _, _)

\* Mutant: the operators of a level associate to the right.
LevelLoopRight(ts, i, left, levels, k) ==
  IF ts[i].type \notin levels[k] THEN Ok(i, left)
  ELSE AndThen(ParseLevel(ts, i + 1, levels, k), LAMBDA j, right :
         Ok(j, Node("Binary", Spelled(ts[i].type), <<left, right>>)))

\* One level: operands of the next, folded to the left.
LevelLoop(ts, i, left, levels, k) ==
  IF ts[i].type \notin levels[k] THEN Ok(i, left)
  ELSE AndThen(ParseLevel(ts, i + 1, levels, k + 1), LAMBDA j, right :
         LevelLoop(ts, j, Node("Binary", Spelled(ts[i].type), <<left, right>>), levels, k))
ParseLevel(ts, i, levels, k) ==
  IF k > Len(levels) THEN ParseUnary(ts, i)
  ELSE AndThen(ParseLevel(ts, i, levels, k + 1), LAMBDA j, left : LevelLoop(ts, j, left, levels, k))

ParseAssign(ts, i) ==
  AndThen(ParseLevel(ts, i, TsLevels, 1), LAMBDA j, left :
    IF ts[j].type \notin {"=", "+=", "-=", "*=", "/="} THEN Ok(j, left)
    ELSE AndThen(ParseAssign(ts, j + 1), LAMBDA k, right : Ok(k, Node("Assign", ts[j].type, <<left, right>>))))
ParseExpression(ts, i) == ParseAssign(ts, i)

ParseUnary(ts, i) ==
  IF ts[i].type \in {"!", "-", "+"}
  THEN AndThen(ParseUnary(ts, i + 1), LAMBDA j, e : Ok(j, Node("Unary", ts[i].type, <<e>>)))
  ELSE IF ts[i].type \in {"++", "--"}
  THEN AndThen(ParseUnary(ts, i + 1), LAMBDA j, e : Ok(j, Node("PrefixUpdate", ts[i].type, <<e>>)))
  ELSE AndThen(ParsePrimary(ts, i), LAMBDA j, e : ParsePostfix(ts, j, e))

\* Expressions up to a closing bracket, which goes too.
ParseList(ts, i, close, acc) ==
  IF Check(ts, i, close) /\ acc = <<>> THEN Ok(i + 1, Node("List", "", <<>>))
  ELSE AndThen(ParseExpression(ts, i), LAMBDA j, e :
         IF Check(ts, j, ",") THEN ParseList(ts, j + 1, close, Append(acc, e))
         ELSE Expect(ts, j, close, LAMBDA k : Ok(k, Node("List", "", Append(acc, e)))))

\* ParsePostfix.  A type assertion and a "!" that asserts are dropped; a "!"
\* in front of "=" is dropped as well, and ends the loop.
Member(ts, i, e) ==
  Expect(ts, i, "Ident", LAMBDA j : ParsePostfix(ts, j, Node("Member", ts[i].text, <<e>>)))
ParsePostfix(ts, i, e) ==
  CASE Check(ts, i, "(") ->
         AndThen(ParseList(ts, i + 1, ")", <<>>), LAMBDA j, l : ParsePostfix(ts, j, Node("Call", "", <<e>> \o l.c)))
    [] Check(ts, i, ".") -> Member(ts, IF Check(ts, i + 1, "?") THEN i + 3 ELSE i + 1, e)
    [] Check(ts, i, "?") /\ PeekN(ts, i, 1).type = "." -> Member(ts, i + 2, e)
    [] Check(ts, i, "[") ->
         AndThen(ParseExpression(ts, i + 1), LAMBDA j, x :
           Expect(ts, j, "]", LAMBDA k : ParsePostfix(ts, k, Node("Index", "", <<e, x>>))))
    [] ts[i].type \in {"++", "--"} -> ParsePostfix(ts, i + 1, Node("PostfixUpdate", ts[i].type, <<e>>))
    [] CheckIdent(ts, i, "as") -> AndThen(ParseType(ts, i + 1), LAMBDA j, t : ParsePostfix(ts, j, e))
    [] Check(ts, i, "!") -> IF Check(ts, i + 1, "=") THEN Ok(i + 1, e) ELSE ParsePostfix(ts, i + 1, e)
    [] OTHER -> Ok(i, e)

ParseBlock(ts, i) == Expect(ts, i, "{", LAMBDA j : ParseStatements(ts, j, <<>>))
Func(params, ret, body) == Node("Func", "", <<params, ret, body>>)
\* FinishArrow, after "=>".
FinishArrow(ts, i, params, ret) ==
  IF Check(ts, i, "{") THEN AndThen(ParseBlock(ts, i), LAMBDA j, b : Ok(j, Func(params, ret, b)))
  ELSE AndThen(ParseAssign(ts, i), LAMBDA j, e :
         Ok(j, Func(params, ret, Node("Block", "", <<Node("Return", "", <<e>>)>>))))

\* ParseFunction, after "function": the name may be missing.
ParseFunction(ts, i) ==
  LET name == IF Check(ts, i, "Ident") THEN ts[i].text ELSE ""
  IN  Expect(ts, Match(ts, i, "Ident"), "(", LAMBDA j :
        AndThen(ParseParamList(ts, j, <<>>), LAMBDA k, params :
          AndThen(Annotation(ts, k), LAMBDA m, ret :
            AndThen(ParseBlock(ts, m), LAMBDA n, body : Ok(n, [Func(params, ret, body) EXCEPT !.t = name])))))

ParseFields(ts, i, acc) ==
  IF Check(ts, i, "}") THEN Ok(i + 1, Node("Object", "", acc))
  ELSE LET key == IF ts[i].type \in {"Ident", "String"} THEN ts[i].text ELSE ""
       IN  Expect(ts, IF ts[i].type \in {"Ident", "String"} THEN i + 1 ELSE i, ":", LAMBDA j :
             AndThen(ParseExpression(ts, j), LAMBDA k, e :
               ParseFields(ts, Match(ts, k, ","), Append(acc, Node("Field", key, <<e>>)))))

\* ParsePrimary.  A parenthesized expression is its inner tree.
ParsePrimary(ts, i) ==
  CASE CheckIdents(ts, i, {"true", "false"}) -> Ok(i + 1, Node("Bool", ts[i].text, <<>>))
    [] CheckIdents(ts, i, {"null", "undefined"}) -> Ok(i + 1, Node("Null", "", <<>>))
    [] CheckIdent(ts, i, "this") -> Ok(i + 1, Node("This", "", <<>>))
    [] CheckIdent(ts, i, "new") ->
         Expect(ts, i + 1, "Ident", LAMBDA j :
           IF Check(ts, j, "(")
           THEN AndThen(ParseList(ts, j + 1, ")", <<>>), LAMBDA k, l : Ok(k, Node("New", ts[i + 1].text, l.c)))
           ELSE Ok(j, Node("New", ts[i + 1].text, <<>>)))
    [] CheckIdent(ts, i, "function") -> ParseFunction(ts, i + 1)
    [] Check(ts, i, "Ident") /\ ~CheckIdents(ts, i, {"true", "false", "null", "undefined", "this", "new", "function"}) ->
         IF Check(ts, i + 1, "=>")
         THEN FinishArrow(ts, i + 2, Node("Params", "", <<Param(ts[i].text, NoType)>>), NoType)
         ELSE Ok(i + 1, Node("Ident", ts[i].text, <<>>))
    [] Check(ts, i, "Number") -> Ok(i + 1, Node("Number", ts[i].text, <<>>))
    [] Check(ts, i, "String") -> Ok(i + 1, Node("String", ts[i].text, <<>>))
    [] Check(ts, i, "(") ->
         IF LooksLikeArrowParams(ts, i + 1)
         THEN AndThen(ArrowParams(ts, i + 1, <<>>), LAMBDA j, params :
                AndThen(Annotation(ts, j), LAMBDA k, ret :
                  Expect(ts, k, "=>", LAMBDA m : FinishArrow(ts, m, params, ret))))
         ELSE AndThen(ParseExpression(ts, i + 1), LAMBDA j, e : Expect(ts, j, ")", LAMBDA k : Ok(k, e)))
    [] Check(ts, i, "[") -> AndThen(ParseList(ts, i + 1, "]", <<>>), LAMBDA j, l : Ok(j, Node("Array", "", l.c)))
    [] Check(ts, i, "{") -> ParseFields(ts, i + 1, <<>>)
    [] OTHER -> Err

\* Statements up to "}", which goes too.
ParseStatements(ts, i, acc) ==
  IF Check(ts, i, "}") THEN Ok(i + 1, Node("Block", "", acc))
  ELSE IF Check(ts, i, "End") THEN Err
  ELSE AndThen(ParseStatement(ts, i), LAMBDA j, s : ParseStatements(ts, j, Append(acc, s)))

Semi(ts, r) == AndThen(r, LAMBDA j, s : Ok(Match(ts, j, ";"), s))
\* "(" expression ")" statement, of if and while.
Guarded(ts, i, kind) ==
  Expect(ts, i, "(", LAMBDA a :
    AndThen(ParseExpression(ts, a), LAMBDA b, e :
      Expect(ts, b, ")", LAMBDA c :
        AndThen(ParseStatement(ts, c), LAMBDA d, s : Ok(d, Node(kind, "", <<e, s>>))))))
ParseIf(ts, i) ==
  AndThen(Guarded(ts, i, "If"), LAMBDA j, s :
    IF ~CheckIdent(ts, j, "else") THEN Ok(j, s)
    ELSE AndThen(ParseStatement(ts, j + 1), LAMBDA k, other : Ok(k, [s EXCEPT !.c = Append(@, other)])))

ParseVar(ts, i) ==
  Expect(ts, i, "Ident", LAMBDA a :
    AndThen(Annotation(ts, a), LAMBDA b, t :
      IF ~Check(ts, b, "=") THEN Ok(Match(ts, b, ";"), Node("Var", ts[i].text, <<t>>))
      ELSE Semi(ts, AndThen(ParseExpression(ts, b + 1), LAMBDA c, e : Ok(c, Node("Var", ts[i].text, <<t, e>>))))))

\* ParseFor, after "for": the parts that are missing are Nil.
IsVar(ts, i) == CheckIdents(ts, i, {"let", "const", "var"})
IfNot(ts, i, type, r) == IF Check(ts, i, type) THEN Ok(i, Nil) ELSE r
ForBody(ts, i, kind, name, parts) ==
  Expect(ts, i, ")", LAMBDA a :
    AndThen(ParseStatement(ts, a), LAMBDA b, s : Ok(b, Node(kind, name, Append(parts, s)))))
ForInit(ts, i) ==
  IF Check(ts, i, ";") THEN Ok(i + 1, Nil)
  ELSE IF IsVar(ts, i) THEN ParseVar(ts, i + 1)
  ELSE Semi(ts, AndThen(ParseExpression(ts, i), LAMBDA b, e : Ok(b, Node("Expr", "", <<e>>))))
ParseFor(ts, i) ==
  Expect(ts, i, "(", LAMBDA a :
    IF IsVar(ts, a) /\ PeekN(ts, a, 1).type = "Ident" /\ PeekN(ts, a, 2).type = "Ident" /\ PeekN(ts, a, 2).text = "of"
    THEN AndThen(ParseExpression(ts, a + 3), LAMBDA b, e : ForBody(ts, b, "ForOf", ts[a + 1].text, <<e>>))
    ELSE AndThen(ForInit(ts, a), LAMBDA b, init :
           AndThen(IfNot(ts, b, ";", ParseExpression(ts, b)), LAMBDA c, cond :
             Expect(ts, c, ";", LAMBDA d :
               AndThen(IfNot(ts, d, ")", ParseExpression(ts, d)), LAMBDA f, step :
                 ForBody(ts, f, "For", "", <<init, cond, step>>))))))

\* ParseClass, after "{": fields and their initial values, the constructor
\* (the last one counts) and methods; anything else is passed over.
ClassMethod(ts, i, name, hasType, F(_, _)) ==
  AndThen(ParseParamList(ts, i, <<>>), LAMBDA a, params :
    AndThen(IF hasType THEN Annotation(ts, a) ELSE Ok(a, NoType), LAMBDA b, ret :
      AndThen(ParseBlock(ts, b), LAMBDA c, body : F(c, [Func(params, ret, body) EXCEPT !.t = name]))))
ParseClassBody(ts, i0, s) ==
  IF Check(ts, i0, "}") THEN Ok(i0 + 1, s)
  ELSE IF Check(ts, i0, "End") THEN Err
  ELSE AndThen(SkipModifiers(ts, i0), LAMBDA i, none :
    IF CheckIdent(ts, i, "constructor")
    THEN Expect(ts, i + 1, "(", LAMBDA j : ClassMethod(ts, j, "constructor", FALSE, LAMBDA k, m :
           ParseClassBody(ts, k, [s EXCEPT !.c[3] = Node("Ctor", "", <<m>>)])))
    ELSE IF ~Check(ts, i, "Ident") THEN ParseClassBody(ts, i + 1, s)
    ELSE IF Check(ts, i + 1, "(")
    THEN ClassMethod(ts, i + 2, ts[i].text, TRUE, LAMBDA k, m :
           ParseClassBody(ts, k, [s EXCEPT !.c[4].c = Append(@, m)]))
    ELSE AndThen(Annotation(ts, Match(ts, i + 1, "?")), LAMBDA j, t :
           LET t1 == [s EXCEPT !.c[1].c = Append(@, Node("Field", ts[i].text, <<t>>))]
           IN  IF ~Check(ts, j, "=") THEN ParseClassBody(ts, Match(ts, j, ";"), t1)
               ELSE AndThen(ParseExpression(ts, j + 1), LAMBDA k, e :
                      ParseClassBody(ts, Match(ts, k, ";"),
                                     [t1 EXCEPT !.c[2].c = Append(@, Node("Field", ts[i].text, <<e>>))]))))
EmptyClass(kind, name) ==
  Node(kind, name, <<Node("Fields", "", <<>>), Node("Inits", "", <<>>), Nil, Node("Methods", "", <<>>)>>)
\* The name of what is extended or implemented is passed over.
Heritage(ts, i, words) == IF CheckIdents(ts, i, words) THEN Match(ts, i + 1, "Ident") ELSE i
ParseClass(ts, i) ==
  Expect(ts, i, "Ident", LAMBDA a :
    Expect(ts, Heritage(ts, a, {"extends", "implements"}), "{", LAMBDA b :
      ParseClassBody(ts, b, EmptyClass("Class", ts[i].text))))

\* The members of an interface, or of the braced type of an alias, which has
\* fields only.
ParseMembers(ts, i, s, alias) ==
  IF Check(ts, i, "}") THEN Ok(i + 1, s)
  ELSE IF Check(ts, i, "End") THEN Err
  ELSE IF ~Check(ts, i, "Ident") THEN ParseMembers(ts, i + 1, s, alias)
  ELSE LET j == Match(ts, i + 1, "?")
       IN  IF ~alias /\ Check(ts, j, "(")
           THEN AndThen(ParseParamList(ts, j + 1, <<>>), LAMBDA a, params :
                  AndThen(Annotation(ts, a), LAMBDA b, ret :
                    ParseMembers(ts, Match(ts, b, ";"),
                      [s EXCEPT !.c[4].c = Append(@, [Func(params, ret, Nil) EXCEPT !.t = ts[i].text])], alias)))
           ELSE Expect(ts, j, ":", LAMBDA a :
                  AndThen(ParseType(ts, a), LAMBDA b, t :
                    ParseMembers(ts, IF alias THEN Match(ts, Match(ts, b, ";"), ",") ELSE Match(ts, b, ";"),
                      [s EXCEPT !.c[1].c = Append(@, Node("Field", ts[i].text, <<t>>))], alias)))
ParseTsInterface(ts, i) ==
  Expect(ts, i, "Ident", LAMBDA a :
    Expect(ts, Heritage(ts, a, {"extends"}), "{", LAMBDA b :
      ParseMembers(ts, b, EmptyClass("Interface", ts[i].text), FALSE)))
ParseTypeAlias(ts, i) ==
  Expect(ts, i, "Ident", LAMBDA a :
    Expect(ts, a, "=", LAMBDA b :
      Semi(ts, IF Check(ts, b, "{")
               THEN ParseMembers(ts, b + 1, EmptyClass("Interface", ts[i].text), TRUE)
               ELSE AndThen(ParseType(ts, b), LAMBDA c, t : Ok(c, Node("TypeAlias", ts[i].text, <<t>>))))))

\* The value of a return is on its line.
ParseReturn(ts, i) ==
  Semi(ts, IF Check(ts, i, ";") \/ Check(ts, i, "}") \/ ts[i].line # ts[i - 1].line
           THEN Ok(i, Node("Return", "", <<>>))
           ELSE AndThen(ParseExpression(ts, i), LAMBDA j, e : Ok(j, Node("Return", "", <<e>>))))

ParseStatement(ts, i0) ==
  AndThen(SkipModifiers(ts, i0), LAMBDA i, none :
    CASE Check(ts, i, "{") -> ParseBlock(ts, i)
      [] CheckIdent(ts, i, "function")  -> ParseFunction(ts, i + 1)
      [] CheckIdent(ts, i, "class")     -> ParseClass(ts, i + 1)
      [] CheckIdent(ts, i, "interface") -> ParseTsInterface(ts, i + 1)
      [] CheckIdent(ts, i, "type")      -> ParseTypeAlias(ts, i + 1)
      [] IsVar(ts, i)                   -> ParseVar(ts, i + 1)
      [] CheckIdent(ts, i, "if")        -> ParseIf(ts, i + 1)
      [] CheckIdent(ts, i, "for")       -> ParseFor(ts, i + 1)
      [] CheckIdent(ts, i, "while")     -> Guarded(ts, i + 1, "While")
      [] CheckIdent(ts, i, "return")    -> ParseReturn(ts, i + 1)
      [] CheckIdents(ts, i, {"break", "continue"}) -> Ok(Match(ts, i + 1, ";"), Node("Jump", ts[i].text, <<>>))
      [] OTHER -> Semi(ts, AndThen(ParseExpression(ts, i), LAMBDA j, e : Ok(j, Node("Expr", "", <<e>>)))))

\* ParseImport, after "import".  The loop over the braces comes to an end on
\* names and commas only: a source that has another token there hangs it and
\* is not among the sources.
RECURSIVE ImportNames(_, _)
ImportNames(ts, i) ==
  IF Check(ts, i, "}") \/ Check(ts, i, "End") THEN i
  ELSE LET j == Match(ts, Match(ts, i, "Ident"), ",")
       IN  ImportNames(ts, IF CheckIdent(ts, j, "as") /\ PeekN(ts, j, 1).type = "Ident" THEN j + 2 ELSE j)
From(ts, i) ==
  LET j == IF CheckIdent(ts, i, "from") THEN i + 1 ELSE i
  IN  IF Check(ts, j, "String") THEN Ok(Match(ts, j + 1, ";"), Node("Import", ts[j].text, <<>>))
      ELSE Ok(Match(ts, j, ";"), Nil)
Braced(ts, i) == Expect(ts, ImportNames(ts, i), "}", LAMBDA j : From(ts, j))
ParseImport(ts, i) ==
  CASE Check(ts, i, "String") -> From(ts, i)
    [] Check(ts, i, "*") -> From(ts, Match(ts, IF CheckIdent(ts, i + 1, "as") THEN i + 2 ELSE i + 1, "Ident"))
    [] Check(ts, i, "{") -> Braced(ts, i + 1)
    [] Check(ts, i, "Ident") /\ PeekN(ts, i, 1).type = "," /\ PeekN(ts, i, 2).type = "{" -> Braced(ts, i + 3)
    [] Check(ts, i, "Ident") /\ ~(PeekN(ts, i, 1).type = "," /\ PeekN(ts, i, 2).type = "{") ->
         From(ts, Match(ts, i + 1, ","))
    [] OTHER -> From(ts, i)

RECURSIVE ParseProgram(_, _, _)
ParseProgram(ts, i, acc) ==
  IF Check(ts, i, "End") THEN Ok(i, Node("Program", "", acc))
  ELSE AndThen(IF CheckIdent(ts, i, "import") THEN ParseImport(ts, i + 1) ELSE ParseStatement(ts, i),
            LAMBDA j, d : ParseProgram(ts, j, Append(acc, d)))

-----------------------------------------------------------------------------
(* Emitter.  ctx is what it keeps: the classes of the program and ret_hint. *)

MapTsType(t) ==
  LET name == CASE t.t = "number" -> "float64"
                [] t.t \in {"boolean", "bool"} -> "bool"
                [] t.t \in {"any", "unknown", "object", "undefined", "null", "never"} -> "any"
                [] OTHER -> t.t
  IN  IF t.t \in {"", "void"} THEN (IF t.c # <<>> THEN <<"[", "]", "any">> ELSE <<>>)
      ELSE (IF t.c # <<>> THEN <<"[", "]">> ELSE <<>>) \o <<name>>
OrAny(ty) == IF ty = <<>> THEN <<"any">> ELSE ty
ElementOf(hint) == OrAny(IF Len(hint) > 2 /\ hint[1] = "[" THEN SubSeq(hint, 3, Len(hint)) ELSE hint)

\* The characters of an operator.
Chars(op) == LET ps == SelectSeq(Long, LAMBDA p : Joined(p) = op) IN IF ps # <<>> THEN ps[1] ELSE <<op>>
IsConsole(e) == e.k = "Call" /\ e.c[1].k = "Member" /\ e.c[1].c[1].k = "Ident" /\ e.c[1].c[1].t = "console"

RECURSIVE EmitExpr(_, _, _), EmitAll(_, _, _), EmitStmt(_, _), EmitStmts(_, _)
EmitAll(es, hint, ctx) ==
  FoldLeftDomain(LAMBDA out, i : out \o (IF i > 1 THEN <<",", " ">> ELSE <<>>) \o EmitExpr(es[i], hint, ctx), <<>>, es)
EmitParams(ps) ==
  FoldLeftDomain(LAMBDA out, i : out \o (IF i > 1 THEN <<",", " ">> ELSE <<>>)
                                    \o <<ps[i].t, " ">> \o OrAny(MapTsType(ps[i].c[1])), <<>>, ps)
Signature(f) ==
  LET ret == MapTsType(f.c[2]) IN <<"(">> \o EmitParams(f.c[1].c) \o <<")">> \o (IF ret = <<>> THEN <<>> ELSE <<" ">> \o ret)
GoBody(f, ctx) == EmitStmts(f.c[3].c, [ctx EXCEPT !.ret = MapTsType(f.c[2])])
Braces(body) == <<" ", "{", "NL">> \o body \o <<"}">>

EmitExpr(e, hint, ctx) ==
  CASE e.k \in {"Ident", "Number", "String", "Bool"} -> <<e.t>>
    [] e.k = "Null"  -> <<"nil">>
    [] e.k = "This"  -> <<"this">>
    [] e.k = "Member" -> EmitExpr(e.c[1], <<>>, ctx) \o <<".", e.t>>
    [] e.k = "Index" -> EmitExpr(e.c[1], <<>>, ctx) \o <<"[">> \o EmitExpr(e.c[2], <<>>, ctx) \o <<"]">>
    [] e.k = "Call"  ->
         (IF IsConsole(e) THEN <<"fmt.Println">> ELSE EmitExpr(e.c[1], <<>>, ctx))
         \o <<"(">> \o EmitAll(Tail(e.c), <<>>, ctx) \o <<")">>
    [] e.k \in {"Binary", "Assign"} ->
         EmitExpr(e.c[1], <<>>, ctx) \o <<" ">> \o Chars(e.t) \o <<" ">> \o EmitExpr(e.c[2], <<>>, ctx)
    [] e.k \in {"Unary", "PrefixUpdate"} -> Chars(e.t) \o EmitExpr(e.c[1], <<>>, ctx)
    [] e.k = "PostfixUpdate" -> EmitExpr(e.c[1], <<>>, ctx) \o Chars(e.t)
    [] e.k = "New"   -> IF e.t \in ctx.classes THEN <<"New" \o e.t, "(">> \o EmitAll(e.c, <<>>, ctx) \o <<")">>
                        ELSE <<"new", "(", e.t, ")">>
    [] e.k = "Array" -> <<"[", "]">> \o ElementOf(hint) \o <<"{">> \o EmitAll(e.c, ElementOf(hint), ctx) \o <<"}">>
    [] e.k = "Object" ->
         (IF hint = <<>> THEN <<"struct{}">> ELSE hint) \o <<"{">>
         \o FoldLeftDomain(LAMBDA out, i : out \o (IF i > 1 THEN <<",", " ">> ELSE <<>>) \o <<e.c[i].t, ":", " ">>
                                              \o EmitExpr(e.c[i].c[1], <<>>, ctx), <<>>, e.c) \o <<"}">>
    [] e.k = "Func"  -> <<"func">> \o Signature(e) \o Braces(GoBody(e, ctx))

\* EmitNested: the statements of a block, or one.
Nested(s, ctx) == Braces(IF s.k = "Block" THEN EmitStmts(s.c, ctx) ELSE EmitStmt(s, ctx)) 
EmitFunc(f, recv, ctx) ==
  <<"func", " ">> \o recv \o <<IF f.t = "" THEN "_" ELSE f.t>> \o Signature(f) \o Braces(GoBody(f, ctx)) \o <<"NL">>
StructOf(s) ==
  <<"type", " ", s.t, " ", "struct">>
  \o Braces(FlattenSeq([i \in DOMAIN s.c[1].c |->
               <<s.c[1].c[i].t, " ">> \o OrAny(MapTsType(s.c[1].c[i].c[1])) \o <<"NL">>])) \o <<"NL">>
\* EmitInterface: methods without fields are an interface, fields a struct,
\* and both a struct and an interface next to it.
InterfaceOf(s, name) ==
  <<"type", " ", name, " ", "interface">>
  \o Braces(FlattenSeq([i \in DOMAIN s.c[4].c |-> <<s.c[4].c[i].t>> \o Signature(s.c[4].c[i]) \o <<"NL">>])) \o <<"NL">>
EmitInterface(s) ==
  IF s.c[4].c # <<>> /\ s.c[1].c = <<>> THEN InterfaceOf(s, s.t)
  ELSE StructOf(s) \o (IF s.c[4].c # <<>> THEN InterfaceOf(s, s.t \o "Methods") ELSE <<>>)
\* EmitClass: the constructor is a function that runs the initial values and
\* then the constructor's statements.
EmitClass(s, ctx) ==
  LET params == IF s.c[3].k = "Ctor" THEN EmitParams(s.c[3].c[1].c[1].c) ELSE <<>>
      inits == FlattenSeq([i \in DOMAIN s.c[2].c |->
                 <<"this", ".", s.c[2].c[i].t, " ", "=", " ">> \o EmitExpr(s.c[2].c[i].c[1], <<>>, ctx) \o <<"NL">>])
      stmts == IF s.c[3].k = "Ctor" THEN EmitStmts(s.c[3].c[1].c[3].c, ctx) ELSE <<>>
  IN  StructOf(s) \o <<"func", " ", "New" \o s.t, "(">> \o params \o <<")", " ", "*", s.t>>
      \o Braces(<<"this", " ", ":=", " ", "new", "(", s.t, ")", "NL">> \o inits \o stmts \o <<"return", " ", "this", "NL">>)
      \o <<"NL">>
      \o FlattenSeq([i \in DOMAIN s.c[4].c |-> EmitFunc(s.c[4].c[i], <<"(", "this", " ", "*", s.t, ")", " ">>, ctx)])

GoValue(e, ctx) == IF e.k = "Nil" THEN <<>> ELSE EmitExpr(e, <<>>, ctx)
Define(v, ctx) == <<v.t, " ", ":=", " ">> \o EmitExpr(v.c[2], MapTsType(v.c[1]), ctx)
EmitStmts(ss, ctx) == FlattenSeq([i \in DOMAIN ss |-> EmitStmt(ss[i], ctx)])
EmitStmt(s, ctx) ==
  CASE s.k = "Block" -> Braces(EmitStmts(s.c, ctx)) \o <<"NL">>
    [] s.k = "Var"   -> (IF Len(s.c) = 2 THEN Define(s, ctx)
                         ELSE <<"var", " ", s.t, " ">> \o OrAny(MapTsType(s.c[1]))) \o <<"NL">>
    [] s.k = "If"    -> <<"if", " ">> \o EmitExpr(s.c[1], <<>>, ctx) \o Nested(s.c[2], ctx)
                        \o (IF Len(s.c) = 3 THEN <<" ", "else">> \o Nested(s.c[3], ctx) ELSE <<>>) \o <<"NL">>
    [] s.k = "While" -> <<"for", " ">> \o EmitExpr(s.c[1], <<>>, ctx) \o Nested(s.c[2], ctx) \o <<"NL">>
    [] s.k = "For"   -> <<"for", " ">>
                        \o (IF s.c[1].k = "Var" /\ Len(s.c[1].c) = 2 THEN Define(s.c[1], ctx)
                            ELSE IF s.c[1].k = "Expr" THEN EmitExpr(s.c[1].c[1], <<>>, ctx) ELSE <<>>)
                        \o <<";", " ">> \o GoValue(s.c[2], ctx) \o <<";", " ">> \o GoValue(s.c[3], ctx)
                        \o Nested(s.c[4], ctx) \o <<"NL">>
    [] s.k = "ForOf" -> <<"for", " ", "_", ",", " ", s.t, " ", ":=", " ", "range", " ">>
                        \o EmitExpr(s.c[1], <<>>, ctx) \o Nested(s.c[2], ctx) \o <<"NL">>
    [] s.k = "Return" -> <<"return">> \o (IF s.c = <<>> THEN <<>> ELSE <<" ">> \o EmitExpr(s.c[1], ctx.ret, ctx)) \o <<"NL">>
    [] s.k = "Jump"  -> <<s.t, "NL">>
    [] s.k = "Expr"  -> EmitExpr(s.c[1], <<>>, ctx) \o <<"NL">>
    [] s.k = "Interface" -> EmitInterface(s)
    [] s.k = "TypeAlias" -> <<"type", " ", s.t, " ", "=", " ">> \o MapTsType(s.c[1]) \o <<"NL">>
    [] s.k = "Class" -> EmitClass(s, ctx)
    [] s.k = "Func"  -> EmitFunc(s, <<>>, ctx)

\* ScanFmt: a call of the console somewhere.
RECURSIVE ScanFmt(_)
ScanFmt(n) == IsConsole(n) \/ \E i \in DOMAIN n.c : ScanFmt(n.c[i])

IsDecl(d) == d.k \in {"Func", "Class", "Interface", "TypeAlias"}
Imports(p) ==
  LET own == [i \in DOMAIN SelectSeq(p.c, LAMBDA d : d.k = "Import") |->
                SelectSeq(p.c, LAMBDA d : d.k = "Import")[i].t]
  IN  (IF ScanFmt(p) /\ "'fmt'" \notin Range(own) THEN <<"'fmt'">> ELSE <<>>) \o own
EmitProgram(p) ==
  LET ctx   == [classes |-> {d.t : d \in {x \in Range(p.c) : x.k = "Class"}}, ret |-> <<>>]
      decls == SelectSeq(p.c, IsDecl)
      tops  == SelectSeq(p.c, LAMBDA d : ~IsDecl(d) /\ d.k \notin {"Import", "Nil"})
      main  == \E d \in Range(decls) : d.k = "Func" /\ d.t = "main"
  IN  [ok   |-> tops = <<>> \/ ~main,
       text |-> EmitStmts(decls, ctx)
                \o (IF tops = <<>> THEN <<>> ELSE <<"func", " ", "main", "(", ")">> \o Braces(EmitStmts(tops, ctx)))]

-----------------------------------------------------------------------------
(* GenerateGoxx, with what main makes of its exceptions.                   *)

Lex ==
  /\ goxxStage = "source"
  /\ LET r == TokenizeTs(typescript, 1, 1, <<>>)
     IN  toks' = r.toks /\ goxxStage' = (IF r.ok THEN "lexed" ELSE "failed")
  /\ UNCHANGED <<typescript, tree, go>>
Parse ==
  /\ goxxStage = "lexed"
  /\ LET r == ParseProgram(toks, 1, <<>>)
     IN  tree' = r.n /\ goxxStage' = (IF r.ok THEN "parsed" ELSE "failed")
  /\ UNCHANGED <<typescript, toks, go>>
Emit ==
  /\ goxxStage = "parsed"
  /\ LET r == EmitProgram(tree)
     IN  IF r.ok THEN go' = r.text /\ goxxStage' = "emitted" ELSE go' = <<>> /\ goxxStage' = "failed"
  /\ UNCHANGED <<typescript, toks, tree>>
GoxxNext == Lex \/ Parse \/ Emit
GoxxSpec == GoxxInit /\ [][GoxxNext]_goxxVars

-----------------------------------------------------------------------------
(* Properties.                                                             *)

\* A token is the longest that is spelled where it starts.
LexIsGreedy ==
  \A i \in DOMAIN typescript : \A p \in Range(Long) :
    SpellsAt(typescript, i, p) => Len(TokenAt(typescript, i)) >= Len(p)

\* The expressions of the statements that are one, as far as Go has them.
RECURSIVE PlainExpr(_)
PlainExpr(e) ==
  /\ e.k \in {"Ident", "Number", "Binary", "Unary", "Member", "Index", "Call"}
  /\ ~IsConsole(e) /\ \A i \in DOMAIN e.c : PlainExpr(e.c[i])
PlainExprs == {s.c[1] : s \in {x \in Range(tree.c) : x.k = "Expr" /\ PlainExpr(x.c[1])}}

\* Go's levels: the comparisons are one.
GoLevels == <<{"||"}, {"&&"}, {"==", "!=", "<", ">", "<=", ">="}, {"+", "-"}, {"*", "/", "%"}>>
GoLevel(e) == CHOOSE k \in DOMAIN GoLevels : e.t \in GoLevels[k]
GoReads(e) ==
  LET ts == TokenizeTs(EmitExpr(e, <<>>, [classes |-> {}, ret |-> <<>>]), 1, 1, <<>>).toks
  IN  ParseLevel(ts, 1, GoLevels, 1)
\* The trees whose text means another one, since the emitter writes no
\* parentheses and no blank after a sign.
RECURSIVE Lossy(_)
Lossy(e) ==
  \/ \E i \in DOMAIN e.c : Lossy(e.c[i])
  \/ e.k = "Binary" /\ e.c[1].k = "Binary" /\ GoLevel(e.c[1]) < GoLevel(e)
  \/ e.k = "Binary" /\ e.c[2].k = "Binary" /\ GoLevel(e.c[2]) <= GoLevel(e)
  \/ e.k = "Unary" /\ (e.c[1].k = "Binary" \/ (e.t # "!" /\ e.c[1].k = "Unary" /\ e.c[1].t = e.t))
  \/ e.k \in {"Member", "Index", "Call"} /\ e.c[1].k \in {"Binary", "Unary"}

\* An expression means in Go what it meant, except for the trees above, and
\* these only come from parentheses, from two comparisons in a row and from a
\* sign that is repeated.  (TsParser::ParseOr to ParseMul, Emitter::EmitExpr.)
Comparisons == {"==", "===", "!=", "!==", "<", ">", "<=", ">="}
Innocent ==
  /\ "(" \notin Range(typescript)
  /\ Cardinality({i \in DOMAIN toks : toks[i].type \in Comparisons}) <= 1
  /\ \A i \in 1 .. Len(toks) - 1 : ~(toks[i].type \in {"+", "-"} /\ toks[i + 1].type \in {"+", "-"})
TreesSurvive ==
  goxxStage = "parsed" => \A e \in PlainExprs :
    /\ (GoReads(e).ok /\ GoReads(e).n = e) <=> ~Lossy(e)
    /\ Innocent => ~Lossy(e)

\* fmt is imported once if the text uses it and else not at all, unless the argument that
\* called the console was dropped with the `new` of an unknown class: Go
\* refuses an import too many as well as one too few.  (Emitter::ScanFmt.)
RECURSIVE Drops(_)
Drops(n) ==
  \/ n.k = "New" /\ (\E i \in DOMAIN n.c : ScanFmt(n.c[i])) /\ ~\E d \in Range(tree.c) : d.k = "Class" /\ d.t = n.t
  \/ \E i \in DOMAIN n.c : Drops(n.c[i])
FmtIffUsed ==
  goxxStage = "emitted" /\ ~Drops(tree) =>
    Len(SelectSeq(Imports(tree), LAMBDA im : im = "'fmt'")) = (IF "fmt.Println" \in Range(go) THEN 1 ELSE 0)

\* Every brace and parenthesis of the text is closed, in order.
Depth(open, close, n) ==
  Cardinality({i \in 1 .. n : go[i] = open}) - Cardinality({i \in 1 .. n : go[i] = close})
Balanced ==
  \A p \in {<<"(", ")">>, <<"{", "}">>, <<"[", "]">>} :
    /\ Depth(p[1], p[2], Len(go)) = 0
    /\ \A n \in DOMAIN go : Depth(p[1], p[2], n) >= 0

\* What the converter writes means what it read.
GoxxIsFaithful == LexIsGreedy /\ TreesSurvive /\ FmtIffUsed /\ Balanced
=============================================================================
