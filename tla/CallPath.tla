-------------------------------- MODULE CallPath --------------------------------
(***************************************************************************)
(* What a call goes through: a device prints its catalog, ubus-facade      *)
(* makes the document of it, the adapter is started with the document, and *)
(* a request to one of its paths becomes the bytes of a LOOKUP and of an   *)
(* INVOKE; the device's bytes become the response.  Every one of these is  *)
(* done by the code of UbusFacade, Json and BlobWire on the text or the    *)
(* bytes the one before it left.                                           *)
(*                                                                         *)
(* What may happen between the messages of a call is UbusConnection's; who *)
(* waits for whom is UbusHttp's.                                           *)
(***************************************************************************)
EXTENDS UbusFacade, BlobWire, FiniteSets

LOCAL INSTANCE SequencesExt

CONSTANTS
  Devices,   \* what a device may have registered: catalogs
  Bodies,    \* what clients send: [text, json], Garbage for a text that is none
  Garbage,
  Answers,   \* the values a method may answer: tables
  Statuses,  \* the ubus statuses a method may fail with
  MaxChanges \* bounds the changes of the device

VARIABLES
  device,    \* what is registered now
  measured,  \* history: the catalog the document was made of
  spec,      \* the text of the document
  routes,    \* the adapter's table, NoRoutes when it does not run
  serves,    \* history: the catalog the adapter's document was made of
  asked,     \* the last request
  stage,     \* "idle", or "sent" when its INVOKE is on the wire
  wire,      \* the INVOKE
  answered,  \* history: [status, value] of the device, and how much of it was readable
  response,  \* [code, json] of the last request
  changes

vars == <<device, measured, spec, routes, serves, asked, stage, wire, answered, response, changes>>

NoRoutes   == <<>>
NoBytes    == <<>>
Unasked    == [unasked |-> TRUE]
Unanswered == [unanswered |-> TRUE]
NoResponse == [waiting |-> TRUE]

Init ==
  /\ device \in Devices /\ measured = <<>> /\ spec = <<>>
  /\ routes = NoRoutes /\ serves = <<>>
  /\ asked = Unasked /\ stage = "idle" /\ wire = NoBytes
  /\ answered = Unanswered /\ response = NoResponse
  /\ changes = 0

------------------------------------------------------------------------------
(* External: what `ubus -v list' prints.  An object's line has its id,     *)
(* which no one keeps.                                                     *)
FieldsOf(method) ==
  (IF method.session THEN <<[name |-> Session, type |-> "String"]>> ELSE <<>>)
    \o method.params
    \o [i \in 1 .. method.undescribed |-> [name |-> <<"(unknown)">>, type |-> ""]]

Printed(catalog) ==
  FoldLeft(LAMBDA lines, o :
             Append(lines, [kind |-> "object", path |-> o.path])
               \o [i \in DOMAIN o.methods |->
                     [kind |-> "method", name |-> o.methods[i].name,
                      fields |-> FieldsOf(o.methods[i])]]
               \o <<[kind |-> "blank"]>>, <<>>, catalog)

(* One line may be something else: a warning, or half a line.              *)
Captures(catalog) ==
  {Printed(catalog)} \cup
    {[Printed(catalog) EXCEPT ![i] = [kind |-> "noise"]] : i \in DOMAIN Printed(catalog)}

(* External: the device's side of the wire, written out from the captures  *)
(* in PROTOCOL.md and not with the operators of BlobWire.                  *)
Fill(n) == [i \in 1 .. ((4 - (n % 4)) % 4) |-> 0]

Blob(first, body) ==
  <<first>> \o BigEndian(4 + Len(body), 3) \o body \o Fill(Len(body))

Named(kind, name, body) ==
  Blob(128 + kind, BigEndian(Len(name), 2) \o Bytes(name) \o <<0>> \o Fill(3 + Len(name)) \o body)

RECURSIVE Spelled(_), Run(_)
Spelled(v) ==
  CASE "str" \in DOMAIN v     -> <<3, Bytes(v.str) \o <<0>>>>
    [] "int" \in DOMAIN v     -> <<5, BigEndian(v.int, 4)>>
    [] "int8" \in DOMAIN v    -> <<7, BigEndian(v.int8, 1)>>
    [] "unknown" \in DOMAIN v -> <<v.unknown, v.bytes>>
    [] "table" \in DOMAIN v   -> <<2, Run(v.table)>>
    [] "array" \in DOMAIN v   -> <<1, Run([i \in DOMAIN v.array |-> <<<<>>, v.array[i]>>])>>
Run(pairs) ==
  FoldLeft(LAMBDA out, p : out \o Named(Spelled(p[2])[1], p[1], Spelled(p[2])[2]), <<>>, pairs)

Message(kind, seq, body) == Header(kind, seq, 7) \o Blob(0, body)
Ends(seq, code) == Message(Status, seq, Blob(StatusAttr, BigEndian(code, 4)))

(* Reading: names and strings end at a NUL. *)
Width(buf) == Unsigned(SubSeq(buf, 2, 4))
CText(bytes) == Text(UpToNul(bytes))

RECURSIVE Reads(_, _)
Reads(buf, keyed) ==
  IF Len(buf) < 4 THEN <<>>
  ELSE LET body  == SubSeq(buf, 5, Width(buf))
           n     == Unsigned(SubSeq(body, 1, 2))
           raw   == Drop(body, 3 + n + Len(Fill(3 + n)))
           value == CASE buf[1] = 131 -> [str |-> CText(raw)]
                      [] buf[1] = 133 -> [int |-> Signed(SubSeq(raw, 1, 4))]
                      [] buf[1] = 130 -> [table |-> Reads(raw, TRUE)]
                      [] buf[1] = 129 -> [array |-> Reads(raw, FALSE)]
       IN  <<IF keyed THEN <<CText(SubSeq(body, 3, 2 + n)), value>> ELSE value>>
             \o Reads(Drop(buf, Width(buf) + Len(Fill(Width(buf)))), keyed)

(* The three attributes of an INVOKE, one after another. *)
Received(bytes) ==
  LET id     == SubSeq(bytes, 17, 20)
      rest   == Drop(bytes, 20)
      method == SubSeq(rest, 5, Width(rest))
      data   == Drop(rest, Width(rest) + Len(Fill(Width(rest))))
  IN  [object |-> IF Unsigned(id) \in DOMAIN device THEN device[Unsigned(id)].path ELSE <<>>,
       method |-> CText(method), args |-> Reads(SubSeq(data, 5, Width(data)), TRUE)]

(* The device's ids are the positions of its objects.  A lookup answers    *)
(* one message for every object at the path, then the status.              *)
LookupReply(bytes) ==
  LET path == CText(SubSeq(bytes, 17, Len(bytes)))
      at   == SelectSeq([i \in DOMAIN device |-> i], LAMBDA i : device[i].path = path)
  IN  FoldLeft(LAMBDA out, i : out \o Message(Data, 1, Blob(ObjId, BigEndian(i, 4))
                                                      \o Blob(ObjPath, Bytes(path) \o <<0>>)),
               <<>>, at) \o Ends(1, 0)

------------------------------------------------------------------------------
Change ==
  /\ stage = "idle" /\ changes < MaxChanges /\ device' \in Devices \ {device}
  /\ changes' = changes + 1 /\ response' = NoResponse /\ answered' = Unanswered
  /\ UNCHANGED <<measured, spec, routes, serves, asked, stage, wire>>

(* ubus-facade, its output in the file the adapter will read.  The device  *)
(* is read once, and the file is replaced whatever comes of it.            *)
Publish ==
  /\ routes = NoRoutes
  /\ \E lines \in Captures(device) : spec' = Generate(lines)
  /\ measured' = device
  /\ UNCHANGED <<device, routes, serves, asked, stage, wire, answered, response, changes>>

(* ubus-http's main: no adapter without a document it can route by.        *)
Start ==
  LET document == Parse(spec)
      table    == RouteTable(document.json)
  IN  /\ routes = NoRoutes /\ spec # <<>> /\ ~Failed(document) /\ ~Failed(table)
      /\ routes' = table.routes /\ serves' = measured
      /\ UNCHANGED <<device, measured, spec, asked, stage, wire, answered, response, changes>>

Stop ==
  /\ routes # NoRoutes /\ stage = "idle" /\ routes' = NoRoutes
  /\ response' = NoResponse /\ answered' = Unanswered
  /\ UNCHANGED <<device, measured, spec, serves, asked, stage, wire, changes>>

(***************************************************************************)
(* One request: http.rs, handle, and client.rs, call.                      *)
(***************************************************************************)
BodyOf(text) ==
  IF SkipWs(text, 1) > Len(text) THEN [json |-> Obj(<<>>)] ELSE Parse(text)

(* The objects at the path, by the device's reply to a LOOKUP.             *)
ObjectsIn(reply, path) ==
  IF IsError(reply) THEN reply
  ELSE [found |-> SelectSeq(Found(reply.data), LAMBDA o : o.path = path)]

ObjectAt(path) == ObjectsIn(Exchange(LookupReply(LookupRequest(1, 7, path)), 1, <<>>), path)

(* The INVOKE that is sent, or the code of a response without one.         *)
Sending(route, parsed, object) ==
  LET args == ArgsFromJson(parsed.json)
  IN  IF Failed(parsed) \/ Failed(args) THEN [code |-> 400]
      ELSE IF IsError(object) THEN [code |-> 502]
      ELSE IF object.found = <<>> THEN [code |-> 404]
      ELSE [bytes |-> InvokeRequest(2, 7, object.found[1].id, route.method, args.table)]

Call(path, text) ==
  IF path \notin DOMAIN routes THEN [code |-> 404]
  ELSE Sending(routes[path], BodyOf(text), ObjectAt(routes[path].object))

Ask ==
  /\ routes # NoRoutes /\ stage = "idle"
  /\ \E body \in Bodies, path \in DOMAIN routes \cup {<<"/">>} :
       \E call \in {Call(path, body.text)} :
         /\ asked' = [path |-> path, body |-> body] /\ answered' = Unanswered
         /\ \/ /\ "code" \in DOMAIN call
               /\ response' = [code |-> call.code, json |-> Null]
               /\ UNCHANGED <<stage, wire>>
            \/ /\ "bytes" \in DOMAIN call
               /\ wire' = call.bytes /\ stage' = "sent" /\ response' = NoResponse
  /\ UNCHANGED <<device, measured, spec, routes, serves, changes>>

(* What the adapter makes of the reply; the client parses the text.        *)
Respond(reply, value) ==
  LET told(json) == [code |-> 200, json |-> Parse(Write(json)).json]
  IN  IF "status" \in DOMAIN reply
        THEN [code |-> CASE reply.status = 2 -> 400 [] reply.status = 4 -> 404
                         [] reply.status = 6 -> 403 [] OTHER -> 502, json |-> Null]
      ELSE IF IsError(reply) \/ IsError(value) THEN [code |-> 502, json |-> Null]
      ELSE IF value = NoValue THEN told(Obj(<<Pair("ok", [bool |-> TRUE])>>))
      ELSE told(JsonFromDecoded(value))

Concluded(reply) == Respond(reply, Returned(reply.data))
Response(bytes)  == Concluded(Exchange(bytes, 2, <<>>))

(* The device answers: a value, or none, with status 0, or another status. *)
(* One attribute of the value may be malformed.                            *)
DataMessage(run) == Message(Data, 2, Blob(ObjId, BigEndian(1, 4)) \o Blob(128 + DataAttr, run))

BadAttribute == <<131, 0, 0, 3>>
SpoiltAt(pairs, i) ==
  Run(SubSeq(pairs, 1, i - 1)) \o BadAttribute \o Run(SubSeq(pairs, i, Len(pairs)))

Says(status, value, read) == [status |-> status, value |-> value, read |-> read]

Replies ==
  {[bytes |-> Ends(2, code), says |-> Says(code, NoValue, 0)] : code \in Statuses \cup {0}}
  \cup {[bytes |-> DataMessage(Run(pairs)) \o Ends(2, 0),
         says |-> Says(0, [table |-> pairs], Len(pairs))] : pairs \in Answers}
  \cup UNION {{[bytes |-> DataMessage(SpoiltAt(pairs, i)) \o Ends(2, 0),
                says |-> Says(0, [table |-> pairs], i - 1)] : i \in DOMAIN pairs} : pairs \in Answers}

Reply ==
  /\ stage = "sent" /\ stage' = "idle" /\ wire' = NoBytes
  /\ \E reply \in Replies : response' = Response(reply.bytes) /\ answered' = reply.says
  /\ UNCHANGED <<device, measured, spec, routes, serves, asked, changes>>

Next == Change \/ Publish \/ Start \/ Stop \/ Ask \/ Reply

Spec == Init /\ [][Next]_vars

------------------------------------------------------------------------------
(***************************************************************************)
(* Properties.                                                             *)
(***************************************************************************)
(* A body that has a meaning on the wire, and that meaning.                *)
RECURSIVE Sendable(_), Meaning(_)
Sendable(j) ==
  CASE KindOf(j) = "arr" -> \A i \in DOMAIN j.arr : Sendable(j.arr[i])
    [] KindOf(j) = "obj" -> \A i \in DOMAIN j.obj : Sendable(j.obj[i][2])
    [] OTHER             -> KindOf(j) \in {"str", "int"}

Meaning(j) ==
  CASE KindOf(j) = "arr" -> [array |-> [i \in DOMAIN j.arr |-> Meaning(j.arr[i])]]
    [] KindOf(j) = "obj" ->
         [table |-> [i \in DOMAIN j.obj |-> <<j.obj[i][1], Meaning(j.obj[i][2])>>]]
    [] OTHER             -> j

(* Names the length field holds, and no character that ends a string.      *)
RECURSIVE Plain(_)
PlainText(text) == ~Within("NUL", text)
Plain(j) ==
  CASE KindOf(j) = "arr" -> \A i \in DOMAIN j.arr : Plain(j.arr[i])
    [] KindOf(j) = "obj" -> \A i \in DOMAIN j.obj : /\ PlainText(j.obj[i][1])
                                                    /\ Len(j.obj[i][1]) <= MaxName
                                                    /\ Plain(j.obj[i][2])
    [] KindOf(j) = "str" -> PlainText(j.str)
    [] OTHER             -> TRUE

(* A request means one operation: the device reads, off the bytes it gets, *)
(* the object and the method that were published at the path (openapi.rs:  *)
(* "the adapter is a lookup"), and a body without a meaning on the wire is *)
(* refused, as is nothing else.  The device reads the arguments as the     *)
(* client wrote them when they are plain, and only then: a text with a NUL *)
(* and a name that is too long are sent, and read as something else.       *)
(* bridge.rs:5-9 rules that out for whatever has no counterpart ("refused  *)
(* rather than coerced: coercing would send the device something other     *)
(* than what the caller wrote, and the caller would be told it succeeded").*)
DeliveredAsSent ==
  /\ stage = "sent" =>
       \E o \in ToSet(serves) : \E m \in ToSet(o.methods) :
         /\ asked.path = PathOf(o.path, m.name)
         /\ Received(wire).object = o.path /\ Received(wire).method = m.name
         /\ asked.body.json # Garbage /\ KindOf(asked.body.json) = "obj"
         /\ Sendable(asked.body.json)
         /\ Plain(asked.body.json) <=> Received(wire).args = Meaning(asked.body.json).table
  /\ stage = "idle" /\ response # NoResponse /\ answered = Unanswered =>
       CASE response.code = 400 -> asked.body.json = Garbage \/ KindOf(asked.body.json) # "obj"
                                     \/ ~Sendable(asked.body.json)
         [] response.code = 404 -> \/ asked.path \notin DOMAIN routes
                                   \/ ~\E o \in ToSet(device) : o.path = routes[asked.path].object
         [] OTHER               -> FALSE

(* The client is told what the device answered: every pair in its place, a *)
(* value of an unknown type by its type and its length.  Of an answer one  *)
(* attribute of which is malformed it is told nothing that the device did  *)
(* not say, in the order the device said it.  The property leaves open     *)
(* whether such an answer is refused; the code tells what comes before the *)
(* malformed attribute, under a 200 that nothing distinguishes from a      *)
(* whole answer.  That is the "partial view that looks complete" which     *)
(* lib.rs:325-327, client.rs:399-401 and tests/decode.rs:187-190 mean to   *)
(* refuse: the iterator stops, and those who ask it never learn why.       *)
RECURSIVE Told(_)
Told(v) ==
  CASE "table" \in DOMAIN v   -> Obj([i \in DOMAIN v.table |-> <<v.table[i][1], Told(v.table[i][2])>>])
    [] "array" \in DOMAIN v   -> [arr |-> [i \in DOMAIN v.array |-> Told(v.array[i])]]
    [] "int8" \in DOMAIN v    -> [int |-> v.int8]
    [] "unknown" \in DOMAIN v -> Obj(<<Pair("$ubusUnmeasuredType", [int |-> v.unknown]),
                                       Pair("$byteLength", [int |-> Len(v.bytes)])>>)
    [] OTHER                  -> v

RepliesAreFaithful ==
  stage = "idle" /\ answered # Unanswered =>
    CASE answered.status # 0       -> response.code # 200
      [] answered.value = NoValue  -> /\ response.code = 200
                                      /\ response.json = Obj(<<Pair("ok", [bool |-> TRUE])>>)
      [] OTHER ->
           LET pairs == answered.value.table
           IN  IF answered.read = Len(pairs)
                 THEN response = [code |-> 200, json |-> Told([table |-> pairs])]
                 ELSE \/ response.code = 502
                      \/ /\ response.code = 200
                         /\ \E n \in 0 .. answered.read :
                              response.json = Told([table |-> SubSeq(pairs, 1, n)])

(* A document that is published has every operation of the device once, at *)
(* its own path, and its schema lets a client send all that the device     *)
(* takes: it is closed only when the device described every parameter      *)
(* (openapi.rs, schema; catalog.rs, parse: a short catalog is refused).    *)
(* The name of the schema and the operation's id are its own, unless some  *)
(* other method is spelled the same: of one's names and the other's the    *)
(* same letters and digits are left, capitals apart, when all else is      *)
(* taken out.  Two such methods may have one id, and two schemas under one *)
(* name; openapi.rs:267-273 says that ids are unique, without exception.   *)
Spelling(m) ==
  [i \in DOMAIN SelectSeq(m.object \o m.method.name, Alphanumeric) |->
     Capital[SelectSeq(m.object \o m.method.name, Alphanumeric)[i]]]

Describes(schema, method) ==
  /\ Get(schema, "additionalProperties").bool <=> method.undescribed > 0
  /\ Len(Get(schema, "properties").obj) = Len(method.params)
  /\ \A p \in ToSet(method.params) :
       \E q \in ToSet(Get(schema, "properties").obj) :
         /\ q[1] = p.name
         /\ IF p.type = "(unknown)" THEN ~Has(q[2], "type")
            ELSE Get(q[2], "type").str[1] = JsonType[p.type]

Complete(text, catalog) ==
  LET document == Parse(text).json
      all      == Methods(catalog)
      paths    == Get(document, "paths").obj
      at(path) == SelectSeq(paths, LAMBDA e : e[1] = path)
      post(i)  == Get(at(PathOf(all[i].object, all[i].method.name))[1][2], "post")
      id(i)    == Get(post(i), "operationId").str
      ref(i)   == Get(Get(Get(post(i), "requestBody"), "schema"), "$ref").str
      named(n) == SelectSeq(Get(document, "schemas").obj, LAMBDA e : e[1] = n)
  IN  /\ Len(paths) = Len(all)
      /\ \A i \in DOMAIN all :
           LET alike == {j \in DOMAIN all : Spelling(all[j]) = Spelling(all[i])}
           IN  /\ Len(at(PathOf(all[i].object, all[i].method.name))) = 1
               /\ Get(post(i), "x-ubus-object").str = all[i].object
               /\ Get(post(i), "x-ubus-method").str = all[i].method.name
               /\ Has(post(i), "x-ubus-requires-rpcd-session") <=> all[i].method.session
               /\ \E schema \in ToSet(named(ref(i))) : Describes(schema[2], all[i].method)
               /\ \A j \in DOMAIN all \ alike : id(j) # id(i) /\ ref(j) # ref(i)
               /\ Len(named(ref(i))) = Cardinality({j \in alike : ref(j) = ref(i)})

PublishedIsComplete == [][spec' # spec /\ spec' # <<>> => Complete(spec', measured')]_vars

=============================================================================
