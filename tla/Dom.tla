--------------------------------- MODULE Dom ---------------------------------
(***************************************************************************)
(* The DOM that embedders install behind brujac's generated interfaces     *)
(* (WASMBruja/include/bruja_dom: dom_impl.h for the quickjs backend and    *)
(* dom_v8_impl.h, its copy for the V8 backend, with which it differs in    *)
(* textContent and in the wrappers that elements get).                     *)
(*                                                                         *)
(* Scripts call the document, its nodes and the window; DispatchEvent and  *)
(* the timers call scripts back, which may call anything again: `callbacks` *)
(* is the stack of the callbacks that are running.  What C++ leaves        *)
(* undefined ends the behaviour in `undefined`.  Nodes are raw pointers    *)
(* that the document owns until Reset.  A page bounds what its scripts do. *)
(***************************************************************************)
EXTENDS Integers, Sequences, FiniteSets, SequencesExt

CONSTANTS
  Pages,      \* [backend, acts: what its scripts do, and its bounds]
  Document,   \* the document, a node
  DomNodes,   \* the other nodes
  Kinds,      \* what nodes are created as: "text", "comment", "fragment" or a tag
  AttrNames,  \* attribute names; "id" and "class" are special
  Tokens,     \* class names, ids and texts
  EventTypes,
  Handlers,   \* the callbacks that scripts register
  NoNode

VARIABLES
  page,      \* the page
  nodes,     \* node |-> its record; a node that is not `live` is unborn or freed
  named,     \* documentElement, body and head
  pending,   \* WindowImpl::pending_ and raf_pending_: kind |-> set of ids
  next_id,   \* next_timer_id_ and next_raf_id_
  fired,     \* kind |-> the ids whose handler was called, in order
  cleared,   \* kind |-> the ids that were cleared
  callbacks,    \* the callbacks that are running
  dispatched,\* the last DispatchEvent that returned: [due, called]
  params,    \* URLSearchParamsImpl::params_
  undefined

domVars == <<page, nodes, named, pending, next_id, fired, cleared, callbacks, dispatched, params, undefined>>
windowVars == <<pending, next_id, fired, cleared, params>>

Queues == {"timeout", "frame"}
All == DomNodes \cup {Document}
Blank == [live |-> FALSE, kind |-> "document", parent |-> NoNode, children |-> <<>>, id |-> "",
          tokens |-> <<>>, attributes |-> <<>>, fields |-> <<>>, data |-> <<>>, text |-> <<>>, listeners |-> <<>>]
NoDispatch == [due |-> <<>>, called |-> <<>>]

DomStart(p) ==
  /\ page = p
  /\ nodes = [n \in All |-> [Blank EXCEPT !.live = (n = Document)]]
  /\ named = [document_element |-> NoNode, body |-> NoNode, head |-> NoNode]
  /\ pending = [q \in Queues |-> {}]
  /\ next_id = [q \in Queues |-> 1]
  /\ fired = [q \in Queues |-> <<>>]
  /\ cleared = [q \in Queues |-> {}]
  /\ callbacks = <<>>
  /\ dispatched = NoDispatch
  /\ params = <<>>
  /\ undefined = FALSE
DomInit == \E p \in Pages : DomStart(p)

Runs(act) == act \in page.acts /\ ~undefined
Live == {n \in All : nodes[n].live}
IsElement(n) == nodes[n].kind \notin {"document", "text", "comment", "fragment"}
IsChildNode(n) == nodes[n].kind \notin {"document", "fragment"}

-----------------------------------------------------------------------------
(* Queries.                                                                *)

\* MatchesSimpleSelector: #id, .class, a tag name or *.
MatchesSimpleSelector(n, selector) ==
  CASE selector[1] = "#" -> nodes[n].id = selector[2]
    [] selector[1] = "." -> selector[2] \in Range(nodes[n].tokens)
    [] selector[1] = "*" -> TRUE
    [] OTHER             -> nodes[n].kind = selector[2]

\* Mutant of WalkElements: text, comments and fragments end a walk.
RECURSIVE WalkElementsOnly(_, _, _)
WalkElementsOnly(n, selector, found) ==
  FoldLeft(LAMBDA acc, c :
             IF acc.stop \/ ~IsElement(c) THEN acc
             ELSE IF MatchesSimpleSelector(c, selector) THEN [found |-> c, stop |-> TRUE]
             ELSE [acc EXCEPT !.found = WalkElementsOnly(c, selector, @)],
           [found |-> found, stop |-> FALSE], nodes[n].children).found

\* WalkElements with the visitor of QuerySelector and GetElementById: a match
\* ends the loop over its siblings; the loops above it go on.
RECURSIVE WalkElements(_, _, _)
WalkElements(n, selector, found) ==
  FoldLeft(LAMBDA acc, c :
             IF acc.stop THEN acc
             ELSE IF IsElement(c) /\ MatchesSimpleSelector(c, selector)
             THEN [found |-> c, stop |-> TRUE]
             ELSE [acc EXCEPT !.found = WalkElements(c, selector, @)],
           [found |-> found, stop |-> FALSE], nodes[n].children).found
QuerySelector(n, selector) == WalkElements(n, selector, NoNode)

\* WalkElements with a visitor that collects and never stops.
RECURSIVE QuerySelectorAll(_, _)
QuerySelectorAll(n, selector) ==
  FoldLeft(LAMBDA out, c :
             out \o (IF IsElement(c) /\ MatchesSimpleSelector(c, selector) THEN <<c>> ELSE <<>>)
                 \o QuerySelectorAll(c, selector),
           <<>>, nodes[n].children)

\* GetElementsByClassName: the elements that have every class that is asked
\* for; none if nothing is.
RECURSIVE GetElementsByClassName(_, _)
GetElementsByClassName(n, wanted) ==
  FoldLeft(LAMBDA out, c :
             out \o (IF IsElement(c) /\ wanted # {} /\ wanted \subseteq Range(nodes[c].tokens)
                     THEN <<c>> ELSE <<>>)
                 \o GetElementsByClassName(c, wanted),
           <<>>, nodes[n].children)

\* Closest follows the parent pointers as long as they name elements.
RECURSIVE Closest(_, _)
Closest(n, selector) ==
  IF MatchesSimpleSelector(n, selector) THEN n
  ELSE IF nodes[n].parent # NoNode /\ IsElement(nodes[n].parent) THEN Closest(nodes[n].parent, selector)
  ELSE NoNode

\* TextContent: what SetTextContent stored.  In the V8 copy a text or comment
\* has its data, and another node, if nothing was stored, the data of the
\* Text nodes below it (CollectTextContent).
IsCharacterData(n) == nodes[n].kind \in {"text", "comment"}
RECURSIVE CollectTextContent(_)
CollectTextContent(n) ==
  IF nodes[n].kind = "text" THEN nodes[n].data
  ELSE FoldLeft(LAMBDA out, c : out \o CollectTextContent(c), <<>>, nodes[n].children)
TextContent(n) ==
  IF page.backend = "quickjs" THEN nodes[n].text
  ELSE IF IsCharacterData(n) THEN nodes[n].data
  ELSE IF nodes[n].text # <<>> THEN nodes[n].text
  ELSE CollectTextContent(n)

-----------------------------------------------------------------------------
(* Nodes.                                                                  *)

\* Which of the unborn nodes a new one is does not matter.
Fresh == CHOOSE n \in DomNodes : ~nodes[n].live

\* CreateElement, CreateTextNode, CreateComment, CreateDocumentFragment.
Create(n, kind) ==
  /\ Runs("create") /\ kind \in page.kinds /\ Cardinality(Live) <= page.nodes
  /\ \E text \in Tokens :
       nodes' = [nodes EXCEPT ![n] = [Blank EXCEPT !.live = TRUE, !.kind = kind,
                   !.data = IF kind \in {"text", "comment"} THEN <<text>> ELSE <<>>]]
  /\ UNCHANGED <<page, named, windowVars, callbacks, dispatched, undefined>>

\* The lists of children.
Appended(list, c) == Append(list, c)
Removed(list, c) == SelectSeq(list, LAMBDA x : x # c)
Inserted(list, new, ref) ==
  LET i == IF ref \in Range(list) THEN SelectInSeq(list, LAMBDA x : x = ref) ELSE Len(list) + 1
  IN  InsertAt(list, i, new)

SetChildren(p, list) == nodes' = [nodes EXCEPT ![p].children = list]
TreeStep == UNCHANGED <<page, named, windowVars, callbacks, dispatched, undefined>>

\* A walk of a node that is below itself does not end: scripts do not put a
\* node below itself.
RECURSIVE Below(_)
Below(n) == {n} \cup UNION {Below(c) : c \in Range(nodes[n].children)}
AllAdoptable(p, cs) ==
  /\ \A c \in Range(cs) : c # Document /\ p \notin Below(c)
  /\ Len(nodes[p].children) + Len(cs) <= page.list
Adoptable(p, c) == AllAdoptable(p, <<c>>)

AppendChild(p, c) ==
  /\ Runs("tree") /\ Adoptable(p, c)
  /\ SetChildren(p, Appended(nodes[p].children, c))
  /\ TreeStep
RemoveChild(p, c) ==
  /\ Runs("tree")
  /\ SetChildren(p, Removed(nodes[p].children, c))
  /\ TreeStep
InsertBefore(p, new, ref) ==
  /\ Runs("tree") /\ Adoptable(p, new)
  /\ SetChildren(p, Inserted(nodes[p].children, new, ref))
  /\ TreeStep

\* An embedder that mirrors a parsed page appends a node and wires its
\* parent through SetParentPtr; scripts cannot.  It wires a node once and
\* never below itself.
RECURSIVE Wired(_)
Wired(n) == IF n = NoNode THEN {} ELSE {n} \cup Wired(nodes[n].parent)
Build(p, c) ==
  /\ Runs("build") /\ Adoptable(p, c) /\ nodes[c].parent = NoNode /\ c \notin Wired(p)
  /\ nodes' = [nodes EXCEPT ![p].children = Appended(@, c), ![c].parent = p]
  /\ named' = IF p = Document /\ IsElement(c) THEN [named EXCEPT !.document_element = c] ELSE named
  /\ UNCHANGED <<page, windowVars, callbacks, dispatched, undefined>>
SetBody(n) ==
  /\ Runs("body") /\ IsElement(n)
  /\ named' = [named EXCEPT !.body = n]
  /\ UNCHANGED <<page, nodes, windowVars, callbacks, dispatched, undefined>>

\* ChildNode: remove, before, after, replaceWith.  A string among the
\* arguments is passed over.
NodesOf(args) == SelectSeq(args, LAMBDA a : a \in All)
ChildNodeBefore(list, n, args) ==
  FoldLeft(LAMBDA l, new : Inserted(l, new, n), list, NodesOf(args))
ChildNodeAfter(list, args) == FoldLeft(Appended, list, NodesOf(args))

ChildNodeReplaceWith(list, n, args) == Removed(ChildNodeBefore(list, n, args), n)

Parented(n) == IsChildNode(n) /\ nodes[n].parent # NoNode

RemoveSelf(n) ==
  /\ Runs("child") /\ Parented(n)
  /\ SetChildren(nodes[n].parent, Removed(nodes[nodes[n].parent].children, n))
  /\ TreeStep
Before(n, args) ==
  /\ Runs("child") /\ Parented(n) /\ AllAdoptable(nodes[n].parent, NodesOf(args))
  /\ SetChildren(nodes[n].parent, ChildNodeBefore(nodes[nodes[n].parent].children, n, args))
  /\ TreeStep
After(n, args) ==
  /\ Runs("child") /\ Parented(n) /\ AllAdoptable(nodes[n].parent, NodesOf(args))
  /\ SetChildren(nodes[n].parent, ChildNodeAfter(nodes[nodes[n].parent].children, args))
  /\ TreeStep
ReplaceWith(n, args) ==
  /\ Runs("child") /\ Parented(n) /\ AllAdoptable(nodes[n].parent, NodesOf(args))
  /\ SetChildren(nodes[n].parent, ChildNodeReplaceWith(nodes[nodes[n].parent].children, n, args))
  /\ TreeStep

SetTextContent(n, text) ==
  /\ Runs("text")
  /\ nodes' = IF IsCharacterData(n) /\ page.backend = "v8" THEN [nodes EXCEPT ![n].data = text]
              ELSE [nodes EXCEPT ![n].text = text]
  /\ TreeStep

-----------------------------------------------------------------------------
(* Attributes, id and class.                                               *)

With(f, name, value) == [k \in DOMAIN f \cup {name} |-> IF k = name THEN value ELSE f[k]]

\* The classes of elements in the order in which WrapElementForJs tries them,
\* the fields that their setters store, next to those of every HTMLElement,
\* and the fields that a SetAttribute of their own copies the attribute to.
WrapChain == <<"A", "IMG", "INPUT", "BUTTON", "FORM", "SCRIPT", "SELECT", "TEXTAREA", "CANVAS", "LABEL",
               "OPTION", "AUDIO", "VIDEO", "IFRAME", "TEMPLATE", "DIV">>
Media == {"src", "autoplay", "loop", "muted", "controls"}
OwnFieldsOf ==
  [A |-> {"href", "target"}, IMG |-> {"src", "alt", "width", "height"},
   INPUT |-> {"value", "type", "checked", "disabled"}, BUTTON |-> {"disabled", "type"},
   FORM |-> {"action", "method"}, SCRIPT |-> {"src", "async", "defer"}, SELECT |-> {"value"},
   TEXTAREA |-> {"value", "rows", "cols"}, CANVAS |-> {"width", "height"}, LABEL |-> {"htmlFor"},
   OPTION |-> {"value", "text", "selected", "disabled"}, AUDIO |-> Media,
   VIDEO |-> Media \cup {"width", "height"}, IFRAME |-> {"src"}, TEMPLATE |-> {}, DIV |-> {}]
FieldsOf(class) == OwnFieldsOf[class] \cup {"title", "hidden", "tabIndex"}
Reflects(class) == IF class \in {"A", "INPUT"} THEN OwnFieldsOf[class] ELSE {}

\* MakeElementForTag: the tags that have a class of their own; any other is
\* a div.
ElementClass(tag) == IF tag \in Range(WrapChain) THEN tag ELSE "DIV"

\* SetAttribute: "id" and "class" also set the fields the selectors read; an
\* anchor and an input copy theirs to the fields their getters read (a flag
\* is set whatever the value).
Reflected(n, name, value) ==
  IF name \notin Reflects(ElementClass(nodes[n].kind)) THEN nodes[n].fields
  ELSE With(nodes[n].fields, name, IF name \in {"checked", "disabled"} THEN <<"true">> ELSE value)
SetAttribute(n, name, value) ==
  /\ Runs("attributes") /\ IsElement(n) /\ name \in page.names
  /\ nodes' = [nodes EXCEPT ![n].attributes = With(@, name, value),
                            ![n].fields = Reflected(n, name, value),
                            ![n].id = IF name = "id" THEN value[1] ELSE @,
                            ![n].tokens = IF name = "class" THEN value ELSE @]
  /\ TreeStep
RemoveAttribute(n, name) ==
  /\ Runs("attributes") /\ IsElement(n)
  /\ nodes' = [nodes EXCEPT ![n].attributes =
                 [k \in DOMAIN @ \ {name} |-> nodes[n].attributes[k]]]
  /\ TreeStep
\* The setters of the leaf classes (SetHref, SetValue, SetChecked, ...).
SetField(n, name, value) ==
  /\ Runs("fields") /\ IsElement(n) /\ name \in FieldsOf(ElementClass(nodes[n].kind)) \cap page.names
  /\ nodes' = [nodes EXCEPT ![n].fields = With(@, name, value)]
  /\ TreeStep
SetId(n, value) ==
  /\ Runs("attributes") /\ IsElement(n)
  /\ nodes' = [nodes EXCEPT ![n].id = value]
  /\ TreeStep

\* DOMTokenListImpl.
TokensAdded(tokens, t) == IF t \in Range(tokens) THEN tokens ELSE Append(tokens, t)
TokensRemoved(tokens, t) == SelectSeq(tokens, LAMBDA x : x # t)

TokensToggled(tokens, t) ==
  IF t \in Range(tokens) THEN TokensRemoved(tokens, t) ELSE Append(tokens, t)

EditClassList(n, how, t) ==
  /\ Runs("classes") /\ IsElement(n)
  /\ nodes' = [nodes EXCEPT ![n].tokens =
                 CASE how = "add"    -> TokensAdded(@, t)
                   [] how = "remove" -> TokensRemoved(@, t)
                   [] OTHER          -> TokensToggled(@, t)]
  /\ TreeStep

-----------------------------------------------------------------------------
(* Events.  DispatchEvent is a range-for over listeners_, whose end it      *)
(* reads once.                                                             *)

Dispatching(t) == \E i \in DOMAIN callbacks : callbacks[i].queue = "dispatch" /\ callbacks[i].of = t
Due(t, type) == SelectSeq(nodes[t].listeners, LAMBDA l : l[1] = type)

\* push_back: under a running dispatch the vector has room, or the loop is
\* left with the storage it moved out of.
AddEventListener(t, type, h) ==
  /\ Runs("events") /\ Len(nodes[t].listeners) < page.calls
  /\ nodes' = [nodes EXCEPT ![t].listeners = Append(@, <<type, h>>)]
  /\ undefined' \in (IF Dispatching(t) THEN BOOLEAN ELSE {FALSE})
  /\ UNCHANGED <<page, named, windowVars, callbacks, dispatched>>

\* erase: a running dispatch goes on to the end that the vector had.
RemoveEventListener(t, type, h) ==
  /\ Runs("events")
  /\ nodes' = [nodes EXCEPT ![t].listeners = SelectSeq(@, LAMBDA l : l # <<type, h>>)]
  /\ undefined' = (Dispatching(t) /\ <<type, h>> \in Range(nodes[t].listeners))
  /\ UNCHANGED <<page, named, windowVars, callbacks, dispatched>>

DispatchEvent(t, type) ==
  /\ Runs("events") /\ Len(callbacks) < page.calls
  /\ callbacks' = Append(callbacks, [queue |-> "dispatch", of |-> t, type |-> type, at |-> 0,
                               end |-> Len(nodes[t].listeners), due |-> Due(t, type),
                               called |-> <<>>])
  /\ UNCHANGED <<page, nodes, named, windowVars, dispatched, undefined>>

TopFrame == callbacks[Len(callbacks)]
InDispatch == ~undefined /\ callbacks # <<>> /\ TopFrame.queue = "dispatch"

\* The callback, if one is running, returns, and the loop goes on to the next
\* listener of the type: its callback starts.
NextAt(f) ==
  {i \in f.at + 1 .. f.end : /\ nodes[f.of].listeners[i][1] = f.type
                             /\ \A j \in f.at + 1 .. i - 1 : nodes[f.of].listeners[j][1] # f.type}
CallListener ==
  /\ InDispatch
  /\ \E i \in NextAt(TopFrame) :
       callbacks' = [callbacks EXCEPT ![Len(callbacks)] =
                    [@ EXCEPT !.at = i, !.called = Append(@, nodes[TopFrame.of].listeners[i])]]
  /\ UNCHANGED <<page, nodes, named, windowVars, dispatched, undefined>>
DispatchReturns ==
  /\ InDispatch /\ NextAt(TopFrame) = {}
  /\ callbacks' = Front(callbacks)
  /\ dispatched' = [due |-> TopFrame.due, called |-> TopFrame.called]
  /\ UNCHANGED <<page, nodes, named, windowVars, undefined>>

-----------------------------------------------------------------------------
(* Timers and animation frames.                                            *)

SetTimeout(q) ==
  /\ Runs("timers") /\ next_id[q] <= page.ids
  /\ pending' = [pending EXCEPT ![q] = @ \cup {next_id[q]}]
  /\ next_id' = [next_id EXCEPT ![q] = @ + 1]
  /\ UNCHANGED <<page, nodes, named, params, fired, cleared, callbacks, dispatched, undefined>>
ClearTimeout(q, id) ==
  /\ Runs("timers") /\ id < next_id[q]
  /\ pending' = [pending EXCEPT ![q] = @ \ {id}]
  /\ cleared' = [cleared EXCEPT ![q] = @ \cup {id}]
  /\ UNCHANGED <<page, nodes, named, params, next_id, fired, callbacks, dispatched, undefined>>

\* FireTimer and FireAnimationFrame, from the embedder's pump loop.
FireTimer(q, id) ==
  /\ Runs("timers") /\ callbacks = <<>> /\ id \in pending[q]
  /\ fired' = [fired EXCEPT ![q] = Append(@, id)]
  /\ callbacks' = <<[queue |-> q, of |-> id]>>
  /\ UNCHANGED <<page, nodes, named, params, pending, next_id, cleared, dispatched, undefined>>

\* The handler returns and its entry is erased through the iterator, which
\* is no longer one if the handler cleared its own timer.
TimerReturns ==
  /\ ~undefined /\ callbacks # <<>> /\ TopFrame.queue \in Queues
  /\ callbacks' = Front(callbacks)
  /\ undefined' = (TopFrame.of \notin pending[TopFrame.queue])
  /\ pending' = [pending EXCEPT ![TopFrame.queue] = @ \ {TopFrame.of}]
  /\ UNCHANGED <<page, nodes, named, params, next_id, fired, cleared, dispatched>>

-----------------------------------------------------------------------------
ResetNamed == [document_element |-> NoNode, body |-> NoNode, head |-> NoNode]

\* DocumentImpl::Reset frees every node and empties the document; the
\* document's own listeners and text stay.  A dispatch that runs on a node
\* goes on with a freed list.
Reset ==
  /\ Runs("reset")
  /\ nodes' = [n \in All |-> IF n = Document THEN [nodes[n] EXCEPT !.children = <<>>] ELSE Blank]
  /\ named' = ResetNamed
  /\ undefined' = (\E n \in DomNodes : Dispatching(n))
  /\ UNCHANGED <<page, windowVars, callbacks, dispatched>>

\* WrapElementForJs casts the element to one class after the other.
WrapElementForJs(n) ==
  LET hits == SelectSeq(WrapChain, LAMBDA c : c = ElementClass(nodes[n].kind))
  IN  IF hits # <<>> THEN Head(hits) ELSE "Element"
\* UnwrapElementFromJs tries one tag after the other, each for itself, then
\* the tag of Element.
UnwrapElementFromJs(tag) == Range(SelectSeq(Append(WrapChain, "Element"), LAMBDA c : c = tag))

-----------------------------------------------------------------------------
(* URLSearchParams.  A text is a sequence of characters.                   *)

\* Get and Has look at the first parameter of the name.
Get(list, name) == LET hits == SelectSeq(list, LAMBDA kv : kv[1] = name)
                   IN  IF hits = <<>> THEN "none" ELSE hits[1][2]
ParamsSet(list, name, value) ==
  IF \E i \in DOMAIN list : list[i][1] = name
  THEN [list EXCEPT ![SelectInSeq(list, LAMBDA kv : kv[1] = name)] = <<name, value>>]
  ELSE Append(list, <<name, value>>)
ParamsDelete(list, name) == SelectSeq(list, LAMBDA kv : kv[1] # name)

ParamsToString(list) ==
  FoldLeftDomain(LAMBDA out, i : out \o (IF i > 1 THEN <<"&">> ELSE <<>>)
                                    \o list[i][1] \o <<"=">> \o list[i][2], <<>>, list)

\* ParseInit: the pairs between ampersands that are not empty, each cut at
\* its first equals sign.
Cut(text, c) == LET i == SelectInSeq(text, LAMBDA x : x = c) IN IF i = 0 THEN Len(text) + 1 ELSE i
AsPair(pair) == <<SubSeq(pair, 1, Cut(pair, "=") - 1), SubSeq(pair, Cut(pair, "=") + 1, Len(pair))>>
RECURSIVE ParseInit(_)
ParseInit(text) ==
  IF text = <<>> THEN <<>>
  ELSE LET amp  == Cut(text, "&")
           pair == SubSeq(text, 1, amp - 1)
       IN  (IF pair = <<>> THEN <<>> ELSE <<AsPair(pair)>>) \o ParseInit(SubSeq(text, amp + 1, Len(text)))

EditParams(list) ==
  /\ Runs("params") /\ Len(list) <= page.list
  /\ params' = list
  /\ UNCHANGED <<page, nodes, named, pending, next_id, fired, cleared, callbacks, dispatched, undefined>>

\* Texts for the constructor, and names and values.
ParamTexts == UNION {[1 .. n -> {"x", "=", "&"}] : n \in 0 .. 4}
ParamNames == {<<>>, <<"x">>, <<"x", "=">>}
Args == {<<c>> : c \in Live} \cup {a \in Live \X Live : a[1] # a[2]} \cup {<<"string">>}
DomNext ==
  \/ \E kind \in Kinds : Live # All /\ Create(Fresh, kind)
  \/ \E p \in Live, c \in Live \ {Document} :
       \/ AppendChild(p, c) \/ RemoveChild(p, c) \/ Build(p, c)
       \/ \E ref \in Live \cup {NoNode} : InsertBefore(p, c, ref)
  \/ \E n \in Live \ {Document} :
       \/ SetBody(n) \/ RemoveSelf(n)
       \/ \E args \in Args : Before(n, args) \/ After(n, args) \/ ReplaceWith(n, args)
       \/ \E text \in Tokens : SetTextContent(n, <<text>>)
       \/ \E name \in AttrNames :
            \/ RemoveAttribute(n, name)
            \/ \E t \in Tokens : SetField(n, name, <<t>>)
            \/ \E v \in {<<t>> : t \in Tokens} \cup {<<t, u>> : t, u \in Tokens} : SetAttribute(n, name, v)
       \/ \E t \in Tokens : SetId(n, t) \/ \E how \in {"add", "remove", "toggle"} : EditClassList(n, how, t)
  \/ \E t \in Live, type \in EventTypes :
       \/ DispatchEvent(t, type)
       \/ \E h \in Handlers : AddEventListener(t, type, h) \/ RemoveEventListener(t, type, h)
  \/ CallListener \/ DispatchReturns
  \/ \E q \in Queues :
       \/ SetTimeout(q)
       \/ \E id \in 1 .. page.ids : ClearTimeout(q, id) \/ FireTimer(q, id)
  \/ TimerReturns
  \/ Reset
  \/ \E text \in ParamTexts : params = <<>> /\ EditParams(ParseInit(text))
  \/ \E name, value \in ParamNames :
       EditParams(ParamsSet(params, name, value)) \/ EditParams(Append(params, <<name, value>>))
  \/ \E name \in ParamNames : EditParams(ParamsDelete(params, name))

DomSpec == DomInit /\ [][DomNext]_domVars

-----------------------------------------------------------------------------
(* Properties.                                                             *)

\* The selectors that a page of these scripts tells apart.
Selectors ==
  {<<"*", "">>} \cup ({"tag"} \X page.kinds)
  \cup (IF "attributes" \in page.acts THEN {"#", "."} \X Tokens ELSE {<<"#", CHOOSE t \in Tokens : TRUE>>})

\* The queries of a node agree with one another and with the tree: they find
\* exactly the matching elements below it, each once unless scripts put a
\* node into the tree twice, and querySelector and getElementById find one of
\* them if there is any, through text, comments and fragments and whatever
\* scripts and their callbacks did to the tree before.  (WalkElements.)
QueriesAgree ==
  \A n \in Live : \A s \in Selectors :
    LET all == QuerySelectorAll(n, s)
        one == QuerySelector(n, s)
    IN  /\ Range(all) = {x \in UNION {Below(c) : c \in Range(nodes[n].children)} :
                            IsElement(x) /\ MatchesSimpleSelector(x, s)}
        /\ IF all = <<>> THEN one = NoNode ELSE one \in Range(all)
        /\ s[1] = "." => GetElementsByClassName(n, {s[2]}) = all
        /\ IsElement(n) /\ {"tree", "child"} \cap page.acts = {} => n \in UNION {Below(c) : c \in {Closest(n, s)} \cap Live}
                                                      \/ Closest(n, s) = NoNode

\* The text of a node of the V8 copy is the data of the texts below it (as
\* long as scripts append nothing to a text, which AppendChild allows).
TextIsBelow ==
  page.backend = "v8" /\ (\A x \in Live : nodes[x].kind = "text" => nodes[x].children = <<>>) =>
   \A n \in Live : ~IsCharacterData(n) /\ nodes[n].text = <<>> =>
    Range(TextContent(n)) = UNION {Range(nodes[x].data) : x \in {y \in Below(n) : nodes[y].kind = "text"}}

\* No list of children, parent pointer or named element of what is alive
\* names a node that Reset freed, and every element that was wrapped is
\* unwrapped as what it is.  (Reset, WrapElementForJs, UnwrapElementFromJs.)
NoDanglingNode ==
  /\ \A n \in Live : Range(nodes[n].children) \cup {nodes[n].parent} \subseteq Live \cup {NoNode}
  /\ \A k \in DOMAIN named : named[k] \in Live \cup {NoNode}
  /\ \A n \in Live : IsElement(n) =>
       UnwrapElementFromJs(WrapElementForJs(n)) = {ElementClass(nodes[n].kind)}

\* A dispatch that returned called the listeners that were registered for the
\* type when it began, each once and in the order of their registration,
\* whatever they dispatched and registered meanwhile, as long as its own list
\* did not move.  (EventTargetImplT::DispatchEvent.)
DispatchIsExact == dispatched.called = dispatched.due

\* A timer and an animation frame are called at most once and not after they
\* were cleared.  (FireTimer, FireAnimationFrame.)
FiresOnce ==
  ~undefined => \A q \in Queues :
    /\ pending[q] \cap cleared[q] = {}
    /\ \A i, j \in DOMAIN fired[q] : fired[q][i] = fired[q][j] => i = j
    /\ \A id \in pending[q] : id \in Range(fired[q]) => \E f \in Range(callbacks) : f.queue = q /\ f.of = id

\* replaceWith puts its arguments in the node's place and leaves the rest of
\* the list alone (ChildNodeReplaceWith), wherever scripts have moved the node
\* since its parent was wired; toggle and remove leave no copy of a token
\* behind (DOMTokenListImpl), though className may have stored several.
EditsAreExact ==
  /\ \A n \in Live \ {Document}, args \in Args :
       LET old == nodes[nodes[n].parent].children
           i   == SelectInSeq(old, LAMBDA x : x = n)
       IN  Parented(n) /\ IsInjective(old) /\ i # 0 /\ Range(args) \cap Range(old) = {}
             => ChildNodeReplaceWith(old, n, args)
                  = SubSeq(old, 1, i - 1) \o NodesOf(args) \o SubSeq(old, i + 1, Len(old))
  /\ \A n \in Live, t \in Tokens :
       /\ t \notin Range(TokensRemoved(nodes[n].tokens, t))
       /\ (t \in Range(TokensToggled(nodes[n].tokens, t))) # (t \in Range(nodes[n].tokens))

\* A field that reflects an attribute follows it from the first setAttribute
\* on, even when the attribute is removed again, and no attribute reaches a
\* field of a class that does not reflect it.  (HTMLAnchorElementImpl and
\* HTMLInputElementImpl::SetAttribute.)
FieldsReflect ==
  \A n \in Live : IsElement(n) =>
    /\ DOMAIN nodes[n].fields \subseteq FieldsOf(ElementClass(nodes[n].kind))
    /\ Reflects(ElementClass(nodes[n].kind)) \cap DOMAIN nodes[n].attributes \subseteq DOMAIN nodes[n].fields

\* Parameters survive being written and read again unless a name or a value
\* holds a separator; a parameter that was set is the one Get finds, with the
\* others where they were; one that was deleted is gone however often it was
\* there.  (URLSearchParamsImpl.)
Clean(kv) == Range(kv[1]) \cap {"&", "="} = {} /\ "&" \notin Range(kv[2])
ParamsRoundTrip ==
  /\ (\A kv \in Range(params) : Clean(kv)) => ParseInit(ParamsToString(params)) = params
  /\ \A name, value \in ParamNames :
       /\ Get(ParamsSet(params, name, value), name) = value
       /\ Get(ParamsDelete(params, name), name) = "none"
       /\ ParamsDelete(ParamsSet(params, name, value), name) = ParamsDelete(params, name)

\* What scripts and embedders rely on, however callbacks nest.
DomIsSound ==
  QueriesAgree /\ TextIsBelow /\ NoDanglingNode /\ DispatchIsExact /\ FiresOnce /\ EditsAreExact
  /\ FieldsReflect /\ ParamsRoundTrip
==============================================================================
