---------------------------- MODULE MCWireFormat ----------------------------
(* A schema in two versions that uses every kind of type: fields that are    *)
(* not declared in the order of their versions, nested structs, an open and  *)
(* a closed enum, an open union, a defaulted one and a closed one.           *)
EXTENDS WireFormat

Plain(kind)      == [kind |-> kind, nullable |-> FALSE]
Ref(kind, name)  == [kind |-> kind, name |-> name, nullable |-> FALSE]
Handle(kind, n)  == [kind |-> kind, place |-> n, nullable |-> FALSE]
Optional(t)      == [t EXCEPT !.nullable = TRUE]
Array(t)         == [kind |-> "array", element |-> t, nullable |-> FALSE]
Fixed(t, n)      == [kind |-> "fixed_array", element |-> t, size |-> n, nullable |-> FALSE]
Map(key, t)      == [kind |-> "map", key |-> key, element |-> t, nullable |-> FALSE]
Field(n, t, v)   == [name |-> n, type |-> t, min_version |-> v]
Variant(tag, t, v, d) == [type |-> t, min_version |-> v, tag |-> tag, is_default |-> d]
Value(n, v)      == [value |-> n, min_version |-> v]

MCEnums ==
  [Color |-> [values |-> {Value(0, 0), Value(1, 1)}, extensible |-> TRUE, imported |-> FALSE],
   Mode  |-> [values |-> {Value(0, 0), Value(3, 1)}, extensible |-> FALSE, imported |-> FALSE]]

MCStructs ==
  [Point  |-> <<Field("x", Plain("scalar"), 0), Field("mode", Ref("enum", "Mode"), 1),
                Field("y", Optional(Plain("scalar")), 0)>>,
   Line   |-> <<Field("color", Ref("enum", "Color"), 1), Field("from", Ref("struct", "Point"), 0),
                Field("to", Optional(Ref("struct", "Point")), 1)>>,
   Parcel |-> <<Field("h", Handle("handle", 1), 0), Field("n", Plain("scalar"), 1),
                Field("remote", Optional(Handle("pending_remote", 2)), 0)>>]

MCUnions ==
  [Shape |-> [fields |-> <<Variant(1, Plain("scalar"), 0, FALSE), Variant(2, Ref("struct", "Point"), 1, FALSE)>>,
              extensible |-> TRUE],
   Pick  |-> [fields |-> <<Variant(4, Plain("scalar"), 0, TRUE), Variant(6, Array(Plain("scalar")), 1, FALSE)>>,
              extensible |-> TRUE],
   Shut  |-> [fields |-> <<Variant(0, Plain("scalar"), 0, FALSE),
                           Variant(1, Fixed(Plain("scalar"), 2), 1, FALSE)>>,
              extensible |-> FALSE]]

Method(p, r, has, v) == [params |-> p, response |-> r, has_response |-> has, min_version |-> v]

MCMethods ==
  [Draw |-> Method(<<Ref("struct", "Line"), Plain("scalar")>>, <<Ref("enum", "Mode")>>, TRUE, 0),
   Show |-> Method(<<Array(Ref("union", "Shape")), Handle("handle", 1)>>,
                   <<Ref("union", "Shut"), Ref("enum", "Color")>>, TRUE, 0),
   Ship |-> Method(<<Ref("struct", "Parcel"), Handle("pending_receiver", 3),
                     Handle("pending_associated_remote", 4),
                     Optional(Handle("pending_associated_receiver", 5))>>, <<>>, FALSE, 0),
   Grow |-> Method(<<Map(Plain("scalar"), Ref("union", "Pick")), Plain("scalar")>>, <<>>, TRUE, 0),
   Late |-> Method(<<Plain("scalar")>>, <<>>, FALSE, 1)]

MCPairs == (0..1) \X (0..1)

\* A struct that gains a handle field, with another handle behind it.
MCSkipStructs == [Parcel |-> <<Field("h", Handle("handle", 1), 0), Field("extra", Handle("handle", 2), 1)>>]
MCSkipMethods ==
  [Ship |-> Method(<<Ref("struct", "Parcel"), Handle("handle", 3)>>, <<>>, FALSE, 0)]
MCNone == <<>>
=============================================================================
