-------------------------------- MODULE MCIdl --------------------------------
EXTENDS Idl
When(f) == [Always EXCEPT !.enable_if = [mode |-> "any", flags |-> {f}]]
Unless(f) == [Always EXCEPT !.enable_if_not = [mode |-> "any", flags |-> {f}]]
Both == [Always EXCEPT !.enable_if = [mode |-> "all", flags |-> {"f", "g"}]]
IdlField(w, to, n, t, c) == [wrap |-> w, to |-> to, name |-> n, tag |-> t, when |-> c, default |-> FALSE]
IdlDecl(k, n, in, fs, t, ref, c) == [kind |-> k, name |-> n, in |-> in, fields |-> fs, tag |-> t, ref |-> ref, when |-> c]
Holding(w, to) == IdlField(w, to, "x", NoTag, Always)
Wraps == {<<>>, <<"fixed">>, <<"array">>, <<"optional">>, <<"optional", "fixed">>, <<"fixed", "optional">>}
FieldTypes == {Holding(w, <<"", t>>) : w \in {<<>>, <<"optional">>}, t \in {"A", "B", "P"}}
\* Three types, one of them nested, that hold one another in every way.
GraphFiles ==
  {<<IdlDecl("struct", "P", "I", <<p>>, NoTag, <<>>, Always),
     IdlDecl("method", "M", "I", <<Holding(<<>>, <<"", "B">>), Holding(<<"array">>, <<"", "A">>)>>, NoTag, <<>>, Always),
     IdlDecl("interface", "I", "", <<>>, NoTag, <<>>, When("f")),
     IdlDecl("struct", "A", "", <<a, Holding(wa, <<"I", "P">>)>>, NoTag, <<>>, Always),
     IdlDecl("union", "B", "", <<[b EXCEPT !.name = "y"], IdlField(<<>>, <<"", "Other">>, "z", NoTag, When("f"))>>, NoTag, <<>>, Always)>> :
     p \in FieldTypes, a \in {Holding(w, <<"", t>>) : w \in Wraps, t \in {"A", "B", "Other"}}, wa \in {<<>>, <<"map">>},
     b \in FieldTypes}
FieldTags == {NoTag, 0, 1, 3}
Conds == {Always, When("f"), Unless("f"), Both}
Number(n, t, c) == IdlField(<<>>, <<"", "">>, n, t, c)
\* Explicit numbers are the author's: the files give each to one field only.
DistinctTags(s) == \A i, j \in DOMAIN s : i # j /\ s[i] # NoTag => s[i] # s[j]
UnionFiles ==
  {<<IdlDecl("union", "U", "", <<Number("x", t[1], c[1]), Number("y", t[2], c[2]), Number("z", t[3], Always)>>, NoTag, <<>>, Always)>> :
     t \in {s \in [1..3 -> FieldTags] : DistinctTags(s)}, c \in [1..2 -> Conds]}
  \cup {<<IdlDecl("union", "U", "", fs, NoTag, <<>>, Always)>> :
     fs \in {<<>>, <<[Number("x", NoTag, Always) EXCEPT !.default = TRUE], [Number("y", NoTag, Always) EXCEPT !.default = TRUE]>>,
             <<Number("x", NoTag, When("f"))>>}}
MethodFiles ==
  {<<IdlDecl("method", "X", "I", <<>>, t[1], <<>>, c[1]), IdlDecl("method", "Y", "I", <<>>, t[2], <<>>, c[2]),
     IdlDecl("method", "Z", "I", <<>>, t[3], <<>>, Always), IdlDecl("interface", "I", "", <<>>, NoTag, <<>>, Always)>> :
     t \in {s \in [1..3 -> {NoTag, 0, 2, ReservedOrdinal}] : DistinctTags(s)}, c \in [1..2 -> {Always, When("f")}]}
Alias(n, t) == IdlField(<<>>, <<"", t>>, n, NoTag, Always)
ConstFiles ==
  {<<IdlDecl("const", "k", "I", <<>>, NoTag, <<>>, Always), IdlDecl("const", "l", "I", <<>>, NoTag, r[1], Always),
     IdlDecl("interface", "I", "", <<>>, NoTag, <<>>, Always),
     IdlDecl("enum", "E", "", <<Number("x", t, Always), Number("y", NoTag, When("f")), Alias("z", n)>>, NoTag, <<>>, Always),
     IdlDecl("const", "m", "", <<>>, NoTag, r[2], Always), IdlDecl("const", "n", "S", <<>>, NoTag, r[3], Always),
     IdlDecl("struct", "S", "", <<>>, NoTag, <<>>, Always)>> :
     r \in [1..3 -> {<<>>, <<"", "k">>, <<"I", "k">>, <<"", "m">>, <<"S", "k">>, <<"I", "l">>, <<"", "n">>}],
     t \in {NoTag, 5}, n \in {"", "x", "w"}}
MCIdlFiles == GraphFiles \cup UnionFiles \cup MethodFiles \cup ConstFiles
=============================================================================
