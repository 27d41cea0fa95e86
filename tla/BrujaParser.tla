----------------------------- MODULE BrujaParser -----------------------------
(***************************************************************************)
(* The parser of .bruja files (WASMBruja/src/parser.cc): from a sequence   *)
(* of tokens to the declarations of JsCalls' files.  A token is its text;  *)
(* spaces, comments and line numbers are left out.                         *)
(***************************************************************************)
EXTENDS JsCalls

CONSTANTS
  StringTokens,  \* the tokens that are string literals
  NumberTokens   \* ... numbers

End == "<end>"

\* A result: where the reader is and what it read, or the exception.
Got(i, v) == [ok |-> TRUE, i |-> i, v |-> v]
Thrown == [ok |-> FALSE, i |-> 0, v |-> <<>>]
After(r, F(_, _)) == IF r.ok THEN F(r.i, r.v) ELSE Thrown

Punctuation == {"(", ")", "{", "}", ",", ";", ":", "?", "<", ">", "=", "..."}
\* What Tokenize does not read.
Foreign == {"#", "*", "^", "+", "-", "->", "[]"}
IsName(t) == t \notin Punctuation \cup Foreign \cup StringTokens \cup NumberTokens \cup {End}

ExpectToken(ts, i, t) == IF ts[i] = t THEN Got(i + 1, t) ELSE Thrown
ExpectName(ts, i) == IF IsName(ts[i]) THEN Got(i + 1, ts[i]) ELSE Thrown

TypeSpec(kind, ref, of) == [kind |-> kind, nullable |-> FALSE, ref |-> ref, of |-> of]

\* The spellings of the types that no declaration gives.
Spellings ==
  [s \in {<<k>> : k \in {"void", "boolean", "byte", "octet", "short", "long", "float", "double", "any"}}
     |-> s[1]]
  @@ (<<"object">> :> "any") @@ (<<"DOMString">> :> "string") @@ (<<"USVString">> :> "string")
  @@ (<<"long", "long">> :> "long long")
  @@ (<<"unsigned", "short">> :> "unsigned short") @@ (<<"unsigned", "long">> :> "unsigned long")
  @@ (<<"unsigned", "long", "long">> :> "unsigned long long")
  @@ (<<"unrestricted", "float">> :> "float") @@ (<<"unrestricted", "double">> :> "double")

Nullable(ts, i, t) ==
  IF ts[i] = "?" THEN Got(i + 1, [t EXCEPT !.nullable = TRUE]) ELSE Got(i, t)

RECURSIVE ParseType(_, _)
RECURSIVE ParseUnion(_, _, _)
ParseUnion(ts, i, members) ==
  After(ParseType(ts, i), LAMBDA j, t :
    IF ts[j] = "or" THEN ParseUnion(ts, j + 1, Append(members, t))
    ELSE After(ExpectToken(ts, j, ")"), LAMBDA k, c : Got(k, Append(members, t))))

ParseType(ts, i) ==
  LET lengths == {n \in 1 .. 3 : i + n <= Len(ts) /\ SubSeq(ts, i, i + n - 1) \in DOMAIN Spellings}
      n == CHOOSE m \in lengths : \A l \in lengths : l <= m
  IN CASE ts[i] = "(" ->
            After(ParseUnion(ts, i + 1, <<>>), LAMBDA j, members :
              Nullable(ts, j, TypeSpec("union", NoName, members)))
       [] ts[i] \in {"sequence", "Promise"} ->
            After(ExpectToken(ts, i + 1, "<"), LAMBDA j, c :
              After(ParseType(ts, j), LAMBDA k, t :
                After(ExpectToken(ts, k, ">"), LAMBDA l, d :
                  Nullable(ts, l, TypeSpec(IF ts[i] = "Promise" THEN "promise" ELSE "sequence",
                                           NoName, <<t>>)))))
       [] lengths # {} -> Nullable(ts, i + n, TypeSpec(Spellings[SubSeq(ts, i, i + n - 1)], NoName, <<>>))
       [] ts[i] \in {"unsigned", "unrestricted"} -> Thrown
       [] OTHER -> After(ExpectName(ts, i), LAMBDA j, name :
                     Nullable(ts, j, TypeSpec("ref", name, <<>>)))

\* ParseLiteral, after a "=".
ParseLiteral(ts, i) ==
  IF ts[i] \in StringTokens \cup NumberTokens \cup {"true", "false", "null"}
  THEN Got(i + 1, <<ts[i]>>) ELSE Thrown
ParseDefault(ts, i) == IF ts[i] = "=" THEN ParseLiteral(ts, i + 1) ELSE Got(i, <<>>)

ParseParam(ts, i) ==
  LET optional == ts[i] = "optional"
  IN  After(ParseType(ts, IF optional THEN i + 1 ELSE i), LAMBDA j, type :
        LET variadic == ts[j] = "..."
        IN  After(ExpectName(ts, IF variadic THEN j + 1 ELSE j), LAMBDA k, name :
              After(ParseDefault(ts, k), LAMBDA l, default :
                Got(l, [name |-> name, type |-> type, optional |-> optional,
                        variadic |-> variadic, default |-> default]))))

RECURSIVE ParseParams(_, _, _)
ParseParams(ts, i, params) ==
  After(ParseParam(ts, i), LAMBDA j, p :
    IF ts[j] = "," THEN ParseParams(ts, j + 1, Append(params, p))
    ELSE Got(j, Append(params, p)))

\* `(` parameters `)` `;`
ParseSignature(ts, i) ==
  After(ExpectToken(ts, i, "("), LAMBDA j, c :
    After(IF ts[j] = ")" THEN Got(j, <<>>) ELSE ParseParams(ts, j, <<>>), LAMBDA k, params :
      After(ExpectToken(ts, k, ")"), LAMBDA l, d :
        After(ExpectToken(ts, l, ";"), LAMBDA m, e : Got(m, params)))))

Member(kind, name, type, params, readonly) ==
  [kind |-> kind, name |-> name, type |-> type, params |-> params, readonly |-> readonly]

ParseConstructorDecl(ts, i) ==
  After(ParseSignature(ts, i + 1), LAMBDA j, params :
    Got(j, Member("constructor", "constructor", TypeSpec("void", NoName, <<>>), params, FALSE)))
\* The value of a constant is kept as the default of a parameter.
Valued(type, value) ==
  [name |-> "value", type |-> type, optional |-> TRUE, variadic |-> FALSE, default |-> value]
ParseConst(ts, i) ==
  After(ParseType(ts, i + 1), LAMBDA j, type :
    After(ExpectName(ts, j), LAMBDA k, name :
      After(ExpectToken(ts, k, "="), LAMBDA l, c :
        After(ParseLiteral(ts, l), LAMBDA m, value :
          After(ExpectToken(ts, m, ";"), LAMBDA n, d :
            Got(n, Member("const", name, type, <<Valued(type, value)>>, TRUE)))))))
ParseAttribute(ts, i) ==
  LET readonly == ts[i] = "readonly"
  IN  After(ExpectToken(ts, IF readonly THEN i + 1 ELSE i, "attribute"), LAMBDA j, c :
        After(ParseType(ts, j), LAMBDA k, type :
          After(ExpectName(ts, k), LAMBDA l, name :
            After(ExpectToken(ts, l, ";"), LAMBDA m, d :
              Got(m, Member("attribute", name, type, <<>>, readonly))))))
ParseMethod(ts, i) ==
  After(ParseType(ts, i), LAMBDA j, type :
    After(ExpectName(ts, j), LAMBDA k, name :
      After(ParseSignature(ts, k), LAMBDA l, params :
        Got(l, Member("method", name, type, params, FALSE)))))

\* The members up to `}` `;`; a mixin has no constructor, an interface one.
RECURSIVE ParseBody(_, _, _, _)
ParseBody(ts, i, members, mixin) ==
  IF ts[i] = "}" THEN After(ExpectToken(ts, i + 1, ";"), LAMBDA j, c : Got(j, members))
  ELSE After(CASE ts[i] = "const" -> ParseConst(ts, i)
               [] ts[i] \in {"readonly", "attribute"} -> ParseAttribute(ts, i)
               [] ts[i] = "constructor" /\ ~mixin ->
                    IF \E m \in Range(members) : m.kind = "constructor" THEN Thrown
                    ELSE ParseConstructorDecl(ts, i)
               [] OTHER -> ParseMethod(ts, i),
             LAMBDA j, m : ParseBody(ts, j, Append(members, m), mixin))

\* Name, and `: Base` where one is there, up to the `{`.
ParseHead(ts, i) ==
  After(ExpectName(ts, i), LAMBDA j, name :
    After(IF ts[j] = ":" THEN ExpectName(ts, j + 1) ELSE Got(j, NoName), LAMBDA k, base :
      After(ExpectToken(ts, k, "{"), LAMBDA l, c : Got(l, <<name, base>>))))

ParseInterface(ts, i) ==
  After(ParseHead(ts, i + 1), LAMBDA j, head :
    After(ParseBody(ts, j, <<>>, FALSE), LAMBDA k, members :
      Got(k, [name |-> head[1], base |-> head[2], members |-> members])))
ParseMixin(ts, i) ==
  After(ExpectName(ts, i + 2), LAMBDA j, name :
    After(ExpectToken(ts, j, "{"), LAMBDA k, c :
      After(ParseBody(ts, k, <<>>, TRUE), LAMBDA l, members :
        Got(l, [name |-> name, members |-> members]))))
ParseIncludes(ts, i) ==
  After(ExpectName(ts, i + 2), LAMBDA j, mixin :
    After(ExpectToken(ts, j, ";"), LAMBDA k, c : Got(k, [target |-> ts[i], mixin |-> mixin])))

RECURSIVE ParseValues(_, _, _)
ParseValues(ts, i, values) ==
  IF ts[i] \notin StringTokens THEN Thrown
  ELSE IF ts[i + 1] = "," THEN ParseValues(ts, i + 2, Append(values, ts[i]))
  ELSE Got(i + 1, Append(values, ts[i]))
ParseEnum(ts, i) ==
  After(ExpectName(ts, i + 1), LAMBDA j, name :
    After(ExpectToken(ts, j, "{"), LAMBDA k, c :
      After(ParseValues(ts, k, <<>>), LAMBDA l, values :
        After(ExpectToken(ts, l, "}"), LAMBDA m, d :
          After(ExpectToken(ts, m, ";"), LAMBDA n, e :
            Got(n, [name |-> name, values |-> values]))))))

RECURSIVE ParseFields(_, _, _)
ParseFields(ts, i, fields) ==
  IF ts[i] = "}" THEN After(ExpectToken(ts, i + 1, ";"), LAMBDA j, c : Got(j, fields))
  ELSE After(ParseType(ts, i), LAMBDA j, type :
         After(ExpectName(ts, j), LAMBDA k, name :
           After(ParseDefault(ts, k), LAMBDA l, default :
             After(ExpectToken(ts, l, ";"), LAMBDA m, c :
               ParseFields(ts, m, Append(fields, [name |-> name, type |-> type, optional |-> FALSE,
                                                  variadic |-> FALSE, default |-> default]))))))
ParseDictionary(ts, i) ==
  After(ParseHead(ts, i + 1), LAMBDA j, head :
    After(ParseFields(ts, j, <<>>), LAMBDA k, fields :
      Got(k, [name |-> head[1], base |-> head[2], fields |-> fields])))
ParseCallback(ts, i) ==
  After(ExpectName(ts, i + 1), LAMBDA j, name :
    After(ExpectToken(ts, j, "="), LAMBDA k, c :
      After(ParseType(ts, k), LAMBDA l, type :
        After(ParseSignature(ts, l), LAMBDA m, params :
          Got(m, [name |-> name, type |-> type, params |-> params])))))

\* ParseModule: the declarations by kind, each in the order of the text.
NoDecls == [interfaces |-> <<>>, mixins |-> <<>>, enums |-> <<>>, dicts |-> <<>>, callbacks |-> <<>>,
            includes |-> <<>>]
RECURSIVE ParseModule(_, _, _)
ParseModule(ts, i, m) ==
  IF ts[i] = End THEN Got(i, m)
  ELSE CASE ts[i] = "interface" /\ ts[i + 1] = "mixin" ->
              After(ParseMixin(ts, i), LAMBDA j, d : ParseModule(ts, j, [m EXCEPT !.mixins = Append(@, d)]))
         [] ts[i] = "interface" /\ ts[i + 1] # "mixin" ->
              After(ParseInterface(ts, i), LAMBDA j, d :
                ParseModule(ts, j, [m EXCEPT !.interfaces = Append(@, d)]))
         [] ts[i] = "enum" ->
              After(ParseEnum(ts, i), LAMBDA j, d : ParseModule(ts, j, [m EXCEPT !.enums = Append(@, d)]))
         [] ts[i] = "dictionary" ->
              After(ParseDictionary(ts, i), LAMBDA j, d :
                ParseModule(ts, j, [m EXCEPT !.dicts = Append(@, d)]))
         [] ts[i] = "callback" ->
              After(ParseCallback(ts, i), LAMBDA j, d :
                ParseModule(ts, j, [m EXCEPT !.callbacks = Append(@, d)]))
         [] OTHER -> IF IsName(ts[i]) /\ ts[i + 1] = "includes"
                     THEN After(ParseIncludes(ts, i), LAMBDA j, d :
                            ParseModule(ts, j, [m EXCEPT !.includes = Append(@, d)]))
                     ELSE Thrown

\* Tokenize and Parse.
Parsed(ts) == IF Range(ts) \cap Foreign # {} THEN Thrown ELSE ParseModule(Append(ts, End), 1, NoDecls)
=============================================================================
