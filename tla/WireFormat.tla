----------------------------- MODULE WireFormat -----------------------------
(* What the C++ that voodoomc generates does with values on the wire         *)
(* (src/src/cpp_generator.cc): the WriteX and ReadX functions of structs,    *)
(* unions, enums, arrays, maps, optionals, handles and pending endpoints,    *)
(* and the Proxy_ and Stub_ methods that call them.  A schema grows by       *)
(* [MinVersion]: at version k it has the fields, tags, enum values and       *)
(* methods marked k or lower.  The client and the server may have been       *)
(* compiled from different versions of it.                                   *)
(*                                                                           *)
(* The payload is a sequence of integers, one for each scalar, length, flag, *)
(* tag or header word; a string is one of them.                              *)
EXTENDS Integers, Sequences, FiniteSets, SequencesExt, TLC

CONSTANTS
  Structs,      \* name -> sequence of [name, type, min_version], as declared
  Unions,       \* name -> [fields: sequence of [type, min_version, tag, is_default], extensible]
  Enums,        \* name -> [values: set of [value, min_version], extensible, imported]
  Methods,      \* name -> [params, response: sequences of types, min_version]
  Extensible,   \* whether the interface is [Extensible]
  Pairs,        \* the pairs <<client, server>> of schema versions
  LastVersion   \* the newest of them

VARIABLES
  peers,        \* [client, server]: the version each was compiled from
  call,         \* [method, args, reply]: what was passed, <<>> before it is
  message,      \* the message under way: [name, payload, handles]
  stage,        \* "idle", "request", "served", "response", "done", "broken", "dropped"
  got           \* what the last read produced

wireVars == <<peers, call, message, stage, got>>

-----------------------------------------------------------------------------
(* The schema as the compiler saw it at version k.                           *)

Known(fields, k) == SelectSeq(fields, LAMBDA f : f.min_version <= k)
Members(s) == {s[i] : i \in DOMAIN s}
Largest(S) == CHOOSE x \in S : \A y \in S : y <= x

StructVersion(k, name) ==
  Largest({0} \union {f.min_version : f \in Members(Known(Structs[name], k))})

\* Fields go on the wire by min_version, in declaration order within one.
WireFieldOrder(k, name) ==
  LET Added(v) == SelectSeq(Known(Structs[name], k), LAMBDA f : f.min_version = v)
  IN  FlattenSeq([v \in 1..LastVersion + 1 |-> Added(v - 1)])

UnionFields(k, name, tag) ==
  {f \in Members(Known(Unions[name].fields, k)) : f.tag = tag}
DefaultFields(k, name) ==
  {f \in Members(Known(Unions[name].fields, k)) : f.is_default}

kUnknown == -1   \* Tag::kUnknown

\* enum_extensible holds the enums of the module that is being generated.
IsEnumExtensible(name) == Enums[name].extensible /\ ~Enums[name].imported

NoVersion == -1   \* a read outside a struct: version_expr is null
IsKnown(k, name, value, version) ==
  \E v \in Enums[name].values :
    /\ v.value = value
    /\ v.min_version <= k
    /\ version = NoVersion \/ version >= v.min_version

TakesHandle(kind) == kind \in {"handle", "pending_remote", "pending_receiver"}
IsHandleBearing(kind) ==
  TakesHandle(kind) \/ kind \in {"pending_associated_remote", "pending_associated_receiver"}

NonNull(t) == [t EXCEPT !.nullable = FALSE]

-----------------------------------------------------------------------------
(* Writing.  A piece of a message: payload and the handles attached to it.   *)

Nothing == [payload |-> <<>>, handles |-> <<>>]
Then(a, b) == [payload |-> a.payload \o b.payload, handles |-> a.handles \o b.handles]
Words(p) == [payload |-> p, handles |-> <<>>]

\* EmitHandleWritePayload: a pending_remote is a handle and a version word, an
\* associated endpoint its interface id and, for a remote, a version word.
HandleWritePayload(t, v) ==
  CASE t.kind = "handle"           -> [payload |-> <<>>, handles |-> <<v>>]
    [] t.kind = "pending_receiver" -> [payload |-> <<>>, handles |-> <<v>>]
    [] t.kind = "pending_remote"   -> [payload |-> <<0>>, handles |-> <<v>>]
    [] t.kind = "pending_associated_remote"   -> Words(<<v, 0>>)
    [] t.kind = "pending_associated_receiver" -> Words(<<v>>)

RECURSIVE WriteValue(_, _, _)

WriteAll(k, types, values) ==
  FoldLeft(Then, Nothing, [i \in DOMAIN types |-> WriteValue(k, types[i], values[i])])

WriteStruct(k, name, v) ==
  LET order == WireFieldOrder(k, name)
      body  == WriteAll(k, [i \in DOMAIN order |-> order[i].type],
                           [i \in DOMAIN order |-> v[order[i].name]])
  IN  Then(Words(<<Len(body.payload) + 2, StructVersion(k, name)>>), body)

\* A union is <<tag, value>>; one whose tag has no case here (kUnknown) is its
\* two header words.
WriteUnion(k, name, v) ==
  LET active == UnionFields(k, name, v[1])
      body   == IF active = {} THEN Nothing
                ELSE WriteValue(k, (CHOOSE f \in active : TRUE).type, v[2])
  IN  Then(Words(<<Len(body.payload) + 2, v[1]>>), body)

Repeat(t, n) == [i \in 1..n |-> t]

\* A map is written in the order of its hash table; any order will do.
WriteMap(k, t, v) ==
  LET keys == SetToSeq(DOMAIN v)
  IN  FoldLeft(Then, Words(<<Len(keys)>>),
        [i \in DOMAIN keys |-> Then(WriteValue(k, t.key, keys[i]),
                                    WriteValue(k, t.element, v[keys[i]]))])

\* An optional is a sequence of at most one value, the handle 0 is invalid.
Present(t, v) == IF IsHandleBearing(t.kind) THEN v # 0 ELSE v # <<>>
Inner(t, v)   == IF IsHandleBearing(t.kind) THEN v ELSE v[1]

WriteValue(k, t, v) ==
  IF t.nullable
  THEN IF Present(t, v) THEN Then(Words(<<1>>), WriteValue(k, NonNull(t), Inner(t, v)))
                        ELSE Words(<<0>>)
  ELSE CASE IsHandleBearing(t.kind) -> HandleWritePayload(t, v)
         [] t.kind \in {"scalar", "enum"} -> Words(<<v>>)
         [] t.kind = "struct" -> WriteStruct(k, t.name, v)
         [] t.kind = "union"  -> WriteUnion(k, t.name, v)
         [] t.kind = "fixed_array" -> WriteAll(k, Repeat(t.element, t.size), v)
         [] t.kind = "array"  -> Then(Words(<<Len(v)>>), WriteAll(k, Repeat(t.element, Len(v)), v))
         [] t.kind = "map"    -> WriteMap(k, t, v)

-----------------------------------------------------------------------------
(* Reading.  The cursor r: whether every read has succeeded, the offset into *)
(* the payload, the number of handles taken, the value read last, and        *)
(* whether the handle vector was indexed past its end.                       *)

Start == [ok |-> TRUE, offset |-> 0, idx |-> 0, val |-> 0, stray |-> FALSE]
Fail(r) == [r EXCEPT !.ok = FALSE]
Yield(r, v) == [r EXCEPT !.val = v]

ReadScalar(m, r) ==
  IF ~r.ok \/ r.offset + 1 > Len(m.payload) THEN Fail(r)
  ELSE [r EXCEPT !.val = m.payload[r.offset + 1], !.offset = @ + 1]

\* (*wvc_handles)[(*wvc_handle_idx)++], which checks nothing.
TakeHandle(m, r) ==
  [r EXCEPT !.idx = @ + 1,
            !.val = IF r.idx < Len(m.handles) THEN m.handles[r.idx + 1] ELSE 0,
            !.stray = @ \/ r.idx >= Len(m.handles)]

HandleReadInto(t, m, r) ==
  CASE t.kind \in {"handle", "pending_receiver"} -> TakeHandle(m, r)
    [] t.kind = "pending_remote" ->
         LET version == ReadScalar(m, r) IN IF version.ok THEN TakeHandle(m, version) ELSE version
    [] t.kind = "pending_associated_remote" ->
         LET iid == ReadScalar(m, r) IN Yield(ReadScalar(m, iid), iid.val)
    [] t.kind = "pending_associated_receiver" -> ReadScalar(m, r)

RECURSIVE DefaultValue(_, _)
DefaultValue(k, t) ==
  IF t.nullable THEN IF IsHandleBearing(t.kind) THEN 0 ELSE <<>>
  ELSE CASE IsHandleBearing(t.kind) \/ t.kind \in {"scalar", "enum"} -> 0
         [] t.kind = "struct" ->
              LET fields == Known(Structs[t.name], k)
              IN  [n \in {f.name : f \in Members(fields)} |->
                     DefaultValue(k, (CHOOSE f \in Members(fields) : f.name = n).type)]
         [] t.kind = "union" ->
              LET first == Known(Unions[t.name].fields, k)[1]
              IN  <<first.tag, DefaultValue(k, first.type)>>
         [] t.kind = "fixed_array" -> Repeat(DefaultValue(k, t.element), t.size)
         [] t.kind \in {"array", "map"} -> <<>>

RECURSIVE ReadInto(_, _, _, _, _)

\* Reads one value of each type and yields the sequence of them.
ReadAll(k, types, m, r, version) ==
  FoldLeft(LAMBDA a, t : IF ~a.ok THEN a
                         ELSE LET b == ReadInto(k, t, m, a, version)
                              IN  Yield(b, Append(a.val, b.val)),
           Yield(r, <<>>), types)

ReadEnum(k, t, m, r, version) ==
  LET read == ReadScalar(m, r)
  IN  IF read.ok /\ (IsEnumExtensible(t.name) \/ IsKnown(k, t.name, read.val, version))
      THEN read ELSE Fail(read)

\* Mutant: what follows the fields that the reader knows is not skipped.
ReadStructUnskipped(k, name, m, r) ==
  LET size    == ReadScalar(m, r)
      version == ReadScalar(m, size)
      Field(a, f) == IF ~a.ok \/ version.val < f.min_version THEN a
                     ELSE LET b == ReadInto(k, f.type, m, a, version.val)
                          IN  Yield(b, [a.val EXCEPT ![f.name] = b.val])
  IN  FoldLeft(Field,
        Yield(version, DefaultValue(k, [kind |-> "struct", name |-> name, nullable |-> FALSE])),
        WireFieldOrder(k, name))

\* Fields newer than the version in the header keep their default; the rest
\* of the struct, as num_bytes measures it, is skipped.
ReadStruct(k, name, m, r) ==
  LET size    == ReadScalar(m, r)
      version == ReadScalar(m, size)
      end     == version.offset - 2 + size.val
      Field(a, f) == IF ~a.ok \/ version.val < f.min_version THEN a
                     ELSE LET b == ReadInto(k, f.type, m, a, version.val)
                          IN  Yield(b, [a.val EXCEPT ![f.name] = b.val])
      fields  == FoldLeft(Field,
                   Yield(version, DefaultValue(k, [kind |-> "struct", name |-> name, nullable |-> FALSE])),
                   WireFieldOrder(k, name))
  IN  IF ~version.ok \/ size.val < 2 \/ end > Len(m.payload) THEN Fail(r)
      ELSE IF ~fields.ok THEN fields
      ELSE [fields EXCEPT !.offset = end]

\* An unknown tag is the field marked [Default], or kUnknown, when the union
\* is [Extensible], and a failure otherwise.
ReadUnion(k, name, m, r) ==
  LET size    == ReadScalar(m, r)
      tag     == ReadScalar(m, size)
      end     == size.offset - 1 + size.val
      active  == UnionFields(k, name, tag.val)
      default == DefaultFields(k, name)
      variant == IF active # {}
                 THEN LET b == ReadInto(k, (CHOOSE f \in active : TRUE).type, m, tag, NoVersion)
                      IN  Yield(b, <<tag.val, b.val>>)
                 ELSE IF ~Unions[name].extensible THEN Fail(tag)
                 ELSE IF default # {}
                 THEN LET f == CHOOSE f \in default : TRUE
                      IN  Yield(tag, <<f.tag, DefaultValue(k, f.type)>>)
                 ELSE Yield(tag, <<kUnknown, 0>>)
  IN  IF ~tag.ok \/ size.val < 1 \/ end > Len(m.payload) THEN Fail(r)
      ELSE IF ~variant.ok THEN variant
      ELSE [variant EXCEPT !.offset = end]

\* emplace keeps the first value of a key.
AsMap(entries) ==
  [key \in {e[1] : e \in Members(entries)} |->
     entries[CHOOSE i \in DOMAIN entries :
               entries[i][1] = key /\ \A j \in 1..i - 1 : entries[j][1] # key][2]]

ReadMap(k, t, m, r, version) ==
  LET size  == ReadScalar(m, r)
      OneEntry(a, i) == LET kv == ReadAll(k, <<t.key, t.element>>, m, a, version)
                        IN  IF ~a.ok THEN a ELSE Yield(kv, Append(a.val, kv.val))
      all   == FoldLeft(OneEntry, Yield(size, <<>>), Repeat(0, size.val))
  IN  IF ~size.ok THEN size ELSE IF ~all.ok THEN all ELSE Yield(all, AsMap(all.val))

ReadNullable(k, t, m, r, version) ==
  LET has   == ReadScalar(m, r)
      value == ReadInto(k, NonNull(t), m, has, version)
  IN  IF ~has.ok THEN has
      ELSE IF has.val = 0 THEN Yield(has, DefaultValue(k, t))
      ELSE IF IsHandleBearing(t.kind) THEN value ELSE Yield(value, <<value.val>>)

ReadInto(k, t, m, r, version) ==
  IF t.nullable THEN ReadNullable(k, t, m, r, version)
  ELSE CASE IsHandleBearing(t.kind) -> HandleReadInto(t, m, r)
         [] t.kind = "scalar" -> ReadScalar(m, r)
         [] t.kind = "enum"   -> ReadEnum(k, t, m, r, version)
         [] t.kind = "struct" -> ReadStruct(k, t.name, m, r)
         [] t.kind = "union"  -> ReadUnion(k, t.name, m, r)
         [] t.kind = "fixed_array" -> ReadAll(k, Repeat(t.element, t.size), m, r, version)
         [] t.kind = "array"  ->
              LET n == ReadScalar(m, r)
              IN  IF ~n.ok THEN n ELSE ReadAll(k, Repeat(t.element, n.val), m, n, version)
         [] t.kind = "map"    -> ReadMap(k, t, m, r, version)

-----------------------------------------------------------------------------
(* The values a program compiled from version k can pass.  A handle is       *)
(* numbered by the place it is passed in.                                    *)

Named(n, v) == [x \in {n} |-> v]

RECURSIVE ValuesOf(_, _)
ValuesOf(k, t) ==
  IF t.nullable
  THEN IF IsHandleBearing(t.kind) THEN {0} \union ValuesOf(k, NonNull(t))
       ELSE {<<>>} \union {<<v>> : v \in ValuesOf(k, NonNull(t))}
  ELSE CASE IsHandleBearing(t.kind) -> {t.place}
         [] t.kind = "scalar" -> {7, 8}
         [] t.kind = "enum"   -> {v.value : v \in {x \in Enums[t.name].values : x.min_version <= k}}
         [] t.kind = "struct" ->
              FoldLeft(LAMBDA S, f : {s @@ Named(f.name, v) : s \in S, v \in ValuesOf(k, f.type)},
                       {<<>>}, Known(Structs[t.name], k))
         [] t.kind = "union"  ->
              UNION {{<<f.tag, v>> : v \in ValuesOf(k, f.type)} :
                       f \in Members(Known(Unions[t.name].fields, k))}
         [] t.kind = "fixed_array" -> [1..t.size -> ValuesOf(k, t.element)]
         [] t.kind = "array"  -> UNION {[1..n -> ValuesOf(k, t.element)] : n \in 0..2}
         [] t.kind = "map"    ->
              UNION {[K -> ValuesOf(k, t.element)] : K \in SUBSET ValuesOf(k, t.key)}

ArgumentsOf(k, types) ==
  FoldLeft(LAMBDA S, t : {Append(s, v) : s \in S, v \in ValuesOf(k, t)}, {<<>>}, types)

-----------------------------------------------------------------------------
(* One call from a Proxy_ to a Stub_ and back.                               *)

NoMessage == [name |-> "none", payload |-> <<>>, handles |-> <<>>]

WireStart(p) ==
  /\ peers = [client |-> p[1], server |-> p[2]]
  /\ call = [method |-> "none", args |-> <<>>, reply |-> <<>>]
  /\ message = NoMessage
  /\ stage = "idle"
  /\ got = Start
WireInit == \E p \in Pairs : WireStart(p)

Wire(k, m, types, values) ==
  LET w == WriteAll(k, types, values)
  IN  [name |-> m, payload |-> w.payload, handles |-> w.handles]

\* Proxy_::Method: the endpoints are passed out of the arguments, then the
\* payload is written parameter by parameter and the message sent.
Call(m, a) ==
  /\ stage = "idle"
  /\ call' = [call EXCEPT !.method = m, !.args = a]
  /\ message' = Wire(peers.client, m, Methods[m].params, a)
  /\ stage' = "request"
  /\ UNCHANGED <<peers, got>>

\* Stub_::Accept: an ordinal without a case is dropped by an [Extensible]
\* interface and an error otherwise, and so is a parameter that cannot be read.
Accept ==
  /\ stage = "request"
  /\ LET read == ReadAll(peers.server, Methods[message.name].params, message, Start, NoVersion)
     IN  IF Methods[message.name].min_version > peers.server
         THEN stage' = (IF Extensible THEN "dropped" ELSE "broken") /\ got' = got
         ELSE stage' = (IF read.ok THEN "served" ELSE "broken") /\ got' = read
  /\ UNCHANGED <<peers, call, message>>

\* The callback that AcceptMethod passed to the implementation.
Respond(a) ==
  /\ stage = "served" /\ Methods[call.method].has_response
  /\ call' = [call EXCEPT !.reply = a]
  /\ message' = Wire(peers.server, call.method, Methods[call.method].response, a)
  /\ stage' = "response"
  /\ UNCHANGED <<peers, got>>

\* The callback that the Proxy_ registered with RegisterPendingResponse.
Dispatch ==
  /\ stage = "response"
  /\ LET read == ReadAll(peers.client, Methods[call.method].response, message, Start, NoVersion)
     IN  stage' = (IF read.ok THEN "done" ELSE "broken") /\ got' = read
  /\ UNCHANGED <<peers, call, message>>

WireNext ==
  \/ \E m \in {x \in DOMAIN Methods : Methods[x].min_version <= peers.client} :
       \E a \in ArgumentsOf(peers.client, Methods[m].params) : Call(m, a)
  \/ Accept
  \/ stage = "served" /\ \E a \in ArgumentsOf(peers.server, Methods[call.method].response) : Respond(a)
  \/ Dispatch

WireSpec == WireInit /\ [][WireNext]_wireVars

-----------------------------------------------------------------------------
(* What reader r should make of a value of writer w.                         *)

RECURSIVE Understands(_, _, _, _)
Understands(w, r, t, v) ==
  IF t.nullable THEN IsHandleBearing(t.kind) \/ v = <<>> \/ Understands(w, r, NonNull(t), v[1])
  ELSE CASE IsHandleBearing(t.kind) \/ t.kind = "scalar" -> TRUE
         [] t.kind = "enum"   -> Enums[t.name].extensible \/ v \in ValuesOf(r, t)
         [] t.kind = "struct" ->
              \A f \in Members(Known(Structs[t.name], r)) :
                f.min_version <= w => Understands(w, r, f.type, v[f.name])
         [] t.kind = "union"  ->
              IF UnionFields(r, t.name, v[1]) = {} THEN Unions[t.name].extensible
              ELSE \A f \in UnionFields(r, t.name, v[1]) : Understands(w, r, f.type, v[2])
         [] t.kind \in {"array", "fixed_array"} ->
              \A i \in DOMAIN v : Understands(w, r, t.element, v[i])
         [] t.kind = "map"    -> \A x \in DOMAIN v : Understands(w, r, t.element, v[x])

RECURSIVE Projected(_, _, _, _)
Projected(w, r, t, v) ==
  IF t.nullable THEN IF IsHandleBearing(t.kind) \/ v = <<>> THEN v
                     ELSE <<Projected(w, r, NonNull(t), v[1])>>
  ELSE CASE IsHandleBearing(t.kind) \/ t.kind \in {"scalar", "enum"} -> v
         [] t.kind = "struct" ->
              LET fields == Members(Known(Structs[t.name], r))
                  F(n)   == CHOOSE f \in fields : f.name = n
              IN  [n \in {f.name : f \in fields} |->
                     IF F(n).min_version <= w THEN Projected(w, r, F(n).type, v[n])
                                              ELSE DefaultValue(r, F(n).type)]
         [] t.kind = "union"  ->
              LET known == UnionFields(r, t.name, v[1])
                  default == DefaultFields(r, t.name)
              IN  IF known # {} THEN <<v[1], Projected(w, r, (CHOOSE f \in known : TRUE).type, v[2])>>
                  ELSE IF default = {} THEN <<kUnknown, 0>>
                  ELSE LET f == CHOOSE f \in default : TRUE IN <<f.tag, DefaultValue(r, f.type)>>
         [] t.kind \in {"array", "fixed_array", "map"} ->
              [i \in DOMAIN v |-> Projected(w, r, t.element, v[i])]

ReadFrom(w, r, types, values) ==
  IF \A i \in DOMAIN types : Understands(w, r, types[i], values[i])
  THEN {[i \in DOMAIN types |-> Projected(w, r, types[i], values[i])]} ELSE {}

\* The comment on EmitStructType: "an old reader skips a newer writer's
\* trailing fields it doesn't know about; a new reader reading an old
\* writer's shorter struct just leaves its newer fields at their already-
\* value-initialized (or defaulted) state".  Whatever the two versions are,
\* the reader gets every value that both know, defaults for the fields it
\* alone knows, and everything behind a part it skipped is read from where it
\* starts; it refuses a message exactly when a closed enum or union in it
\* carries something the reader does not know.  Every handle that came is
\* taken, by the parameter or field it was attached for, and none is taken
\* that is not there.
VersionsInterwork ==
  /\ stage \in {"served", "done"} => ~got.stray /\ got.idx = Len(message.handles)
  /\ stage = "served" =>
       got.val \in ReadFrom(peers.client, peers.server, Methods[call.method].params, call.args)
  /\ stage = "done" =>
       got.val \in ReadFrom(peers.server, peers.client, Methods[call.method].response, call.reply)
  /\ stage = "broken" /\ message.name = call.method /\ call.reply = <<>> =>
       \/ Methods[call.method].min_version > peers.server
       \/ {} = ReadFrom(peers.client, peers.server, Methods[call.method].params, call.args)
=============================================================================
