------------------------------- MODULE MCGoxx -------------------------------
(* Sources for Goxx: every short sequence of the characters of expressions, *)
(* and programs with every statement.                                       *)
EXTENDS Goxx

Expressions == UNION {[1 .. n -> {"a", "-", "*", "<", "=", "(", ")", "."}] : n \in 1 .. 4}
               \cup {e \in [1 .. 5 -> {"a", "-", "*", "<", "(", ")"}] : e[1] \in {"a", "(", "-"}}
               \cup {<<"a">> \o o \o <<"a">> \o p \o <<"a">> :
                       o, p \in {<<"=", "=">>, <<"<">>, <<"+">>, <<"*">>, <<"&", "&">>, <<"|", "|">>, <<"!", "=", "=">>}}
Log(e) == <<"console", ".", "log", "(">> \o e \o <<")", ";">>
Program(k) ==
  CASE k = 1 -> <<"import", "{", "a", ",", "b", "as", "c", "}", "from", "'m'", "NL", "let", "a", ":", "number", "[", "]",
                  "=", "[", "1", ",", "1", "]">>
    [] k = 2 -> <<"import", "'fmt'", ";">> \o Log(<<"'s'">>)
    [] k = 3 -> <<"export", "function", "f", "(", "a", "?", ":", "number", "|", "null", ",", "b", ":", "Array", "<", "string", ">",
                  ")", ":", "number", "[", "]", "{", "return", "[", "1", "]", "}">>
    [] k = 4 -> <<"class", "C", "extends", "B", "{", "a", ":", "number", "=", "1", ";", "private", "b", ";",
                  "constructor", "(", "a", ")", "{", "this", ".", "b", "=", "a", "}",
                  "m", "(", ")", ":", "number", "{">> \o Log(<<"a">>) \o <<"return", "this", ".", "a", "}", "}",
                  "new", "C", "(", "1", ")">>
    [] k = 5 -> <<"interface", "I", "{", "a", ":", "number", ";", "m", "(", "a", ")", ":", "void", ";", "}",
                  "type", "T", "=", "{", "a", "?", ":", "boolean", ",", "}", "type", "U", "=", "Promise", "<", "I", ">", "[", "]">>
    [] k = 6 -> <<"for", "(", "let", "a", "=", "1", ";", "a", "<", "1", ";", "a", "+", "+", ")", "{", "if", "(", "a", ")", "if",
                  "(", "b", ")", "break", "else", "continue", ";", "}", "for", "(", "const", "a", "of", "b", ")">> \o Log(<<"a">>)
    [] k = 7 -> <<"while", "(", "!", "a", ")", "{", "a", "+", "=", "(", "a", ",", "b", ")", ":", "number", "=", ">", "a", "}",
                  "let", "a">>
    [] k = 8 -> <<"let", "f", "=", "a", "=", ">", "{", "return", "NL", "a", "}", "/", "/", "a", "NL", "/", "*", "NL", "*", "/">>
    [] k = 9 -> <<"new", "D", "(">> \o Front(Log(<<"a">>)) \o <<")">>
    [] k = 10 -> <<"function", "main", "(", ")", "{", "}", "a">>
    [] k = 11 -> <<"async", "function", "f">>
    [] k = 12 -> <<"let", "o", ":", "T", "=", "{", "a", ":", "function", "(", ")", "{", "return", "{", "a", ":", "null", "}", "}", ",",
                   "'s'", ":", "a", "?", ".", "b", "[", "1", "]", "as", "any", "}">>
    [] k = 13 -> <<"function", "g", "(", ")", ":", "string", "{", "let", "f", "=", "function", "(", ")", ":", "number", "[", "]",
                   "{", "return", "[", "]", "}", ";", "return", "'s'", "}">>
    [] k = 14 -> <<"import", "*", "as", "a", "from", "'m'", "NL", "import", "b", ",", "{", "c", "}", "from", "'m'", "NL",
                   "import", "a", "from", "'m'", "NL", "a", "!", ".", "b", "(", ")", ";", "a", "!", "=", "1">>
    [] k = 15 -> <<"for", "(", ";", ";", ")", "{", "-", "-", "a", "}", "interface", "J", "{", "m", "(", ")", ":", "any", "}", "a", "/", "*">>
    [] k = 16 -> <<"class", "C", "{", "a", "=", "true", "}", "for", "(", "a", "=", "1", ";", "a", ";", ")", "new", "C">>
MCSources == Expressions \cup {Program(k) : k \in 1 .. 16}
MCWords == {"a", "b", "c", "f", "g", "m", "o", "B", "C", "D", "I", "J", "T", "U", "import", "as", "from", "let", "const", "var",
            "number", "null", "any", "void", "string", "boolean", "Array", "Promise", "export", "private", "async", "function",
            "main", "return", "class", "extends", "constructor", "this", "new", "interface", "type", "for", "of", "if", "else",
            "while", "break", "continue", "true", "console", "log"}
===============================================================================
