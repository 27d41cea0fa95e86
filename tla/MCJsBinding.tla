----------------------------- MODULE MCJsBinding -----------------------------
(* Programs for JsBinding: every declaration order and base of three        *)
(* interfaces, chosen shapes of four, two headers with a namespace each,    *)
(* and a small program for isolates and constructors.                      *)
EXTENDS JsBinding

I(name, base) == [name |-> name, base |-> base]
Header(ns, interfaces) == [ns |-> ns, interfaces |-> interfaces]
Program(backend, headers) ==
  [backend |-> backend, headers |-> headers, isolates |-> 1, objects |-> 1, made |-> 1,
   calls |-> FALSE, constructors |-> FALSE]
Calling(backend, headers) == [Program(backend, headers) EXCEPT !.calls = TRUE]

Backends == {"v8", "quickjs"}
Threes ==
  {<<I("A", a), I("B", b), I("C", c)>> :
     a \in {NoBase, "B", "C"}, b \in {NoBase, "A", "C"}, c \in {NoBase, "A", "B", "X"}}
Fours ==
  {<<I("A", NoBase), I("B", "A"), I("C", "B"), I("D", "A")>>,
   <<I("D", "C"), I("C", "B"), I("B", "A"), I("A", NoBase)>>,
   <<I("C", "A"), I("B", NoBase), I("A", NoBase), I("D", "C")>>}
TwoHeaders == {<<Header("n1", <<I("A", NoBase), I("B", "A")>>),
             Header("n2", <<I("C", NoBase), I("D", "C")>>)>>}

MCPrograms ==
  {Calling(b, <<Header("n1", f)>>) : b \in Backends, f \in Threes \cup Fours}
  \cup {[Calling(b, hs) EXCEPT !.isolates = 2, !.objects = 2, !.made = 2] : b \in Backends, hs \in TwoHeaders}
  \cup {[Program("v8", <<Header("n1", <<I("A", NoBase)>>)>>)
           EXCEPT !.constructors = TRUE, !.calls = TRUE, !.isolates = 2, !.objects = 2, !.made = 3]}

\* Two headers of the default namespace.
MCSharedNamespace ==
  {[Calling("v8", <<Header("bruja_generated", <<I("A", NoBase)>>),
                    Header("bruja_generated", <<I("C", NoBase)>>)>>)
      EXCEPT !.objects = 2, !.made = 2]}
=============================================================================
