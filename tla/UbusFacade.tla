------------------------------- MODULE UbusFacade -------------------------------
(***************************************************************************)
(* crates/ubus-facade, the catalog a device prints of itself and the       *)
(* document made of it, and what crates/ubus-http makes of the document    *)
(* (route.rs) and of values on their way in and out (bridge.rs).           *)
(*                                                                         *)
(* A catalog is a sequence of objects [path, methods]; a method is         *)
(* [name, params, undescribed, session], a parameter [name, type].  The    *)
(* printed form is a sequence of lines, split at the punctuation.          *)
(***************************************************************************)
EXTENDS Json

LOCAL INSTANCE SequencesExt

CONSTANT Capital  \* the symbols that are letters and digits, and their capitals

(***************************************************************************)
(* catalog.rs                                                              *)
(***************************************************************************)
JsonType ==
  [String |-> "string", Integer |-> "integer", Boolean |-> "boolean", Table |-> "object",
   Array |-> "array"]
Types == DOMAIN JsonType \cup {"(unknown)"}

Session == <<"ubus_rpc_session">>

(* Mutant: a field without a type is left out and not counted.             *)
Skip(method, field) ==
  IF field.type = "" THEN method
  ELSE IF field.name = Session THEN [method EXCEPT !.session = TRUE]
  ELSE [method EXCEPT !.params = Append(@, field)]

(* A field with no type is one the device has no word for.                 *)
AddField(method, field) ==
  IF field.type = "" THEN [method EXCEPT !.undescribed = @ + 1]
  ELSE IF field.name = Session THEN [method EXCEPT !.session = TRUE]
  ELSE [method EXCEPT !.params = Append(@, field)]

ParseMethod(line) ==
  IF \E i \in DOMAIN line.fields : line.fields[i].type = "" /\ line.fields[i].name # <<"(unknown)">>
    THEN Fail("Malformed")
  ELSE IF \E i \in DOMAIN line.fields :
            line.fields[i].name # Session /\ line.fields[i].type \notin Types \cup {""}
    THEN Fail("UnknownType")
  ELSE FoldLeft(AddField, [name |-> line.name, params |-> <<>>, undescribed |-> 0, session |-> FALSE],
                line.fields)

Understood(objects) == [objects |-> objects]

ParseLine(objects, line) ==
  LET method == ParseMethod(line)
  IN  IF line.kind = "blank" THEN Understood(objects)
      ELSE IF line.kind = "object"
        THEN Understood(Append(objects, [path |-> line.path, methods |-> <<>>]))
      ELSE IF line.kind # "method" THEN Fail("neither an object header nor a method")
      ELSE IF objects = <<>> THEN Fail("method line before any object header")
      ELSE IF Failed(method) THEN method
      ELSE Understood([objects EXCEPT ![Len(objects)].methods = Append(@, method)])

ParseCatalog(lines) ==
  FoldLeft(LAMBDA sofar, line : IF Failed(sofar) THEN sofar ELSE ParseLine(sofar.objects, line),
           Understood(<<>>), lines)

(***************************************************************************)
(* openapi.rs.  Titles, descriptions and responses are left out.           *)
(***************************************************************************)
Alphanumeric(c) == c \in DOMAIN Capital

(* The words of a name, each with a capital. *)
Pascal(text) ==
  LET starts(i) == Alphanumeric(text[i]) /\ (i = 1 \/ ~Alphanumeric(text[i - 1]))
  IN  FoldLeftDomain(LAMBDA out, i : IF starts(i) THEN Append(out, Capital[text[i]])
                                     ELSE IF Alphanumeric(text[i]) THEN Append(out, text[i])
                                     ELSE out, <<>>, text)

SchemaName(object, method) == Pascal(object) \o Pascal(method) \o <<"Request">>

Sanitized(text) == [i \in DOMAIN text |-> IF Alphanumeric(text[i]) THEN text[i] ELSE "_"]
OperationId(object, method) == Sanitized(object) \o <<"_", "_">> \o Sanitized(method)

PathOf(object, method) == <<"/">> \o object \o <<"/">> \o method

Pair(key, value) == <<<<key>>, value>>

SchemaOf(method) ==
  LET typed(p) ==
        Obj((IF p.type = "(unknown)" THEN <<>> ELSE <<Pair("type", Str(<<JsonType[p.type]>>))>>)
            \o (IF p.type = "Array" THEN <<Pair("items", Obj(<<>>))>> ELSE <<>>))
  IN  Obj(<<Pair("type", Str(<<"object">>)),
            Pair("properties",
                 Obj([i \in DOMAIN method.params |->
                        <<method.params[i].name, typed(method.params[i])>>])),
            Pair("additionalProperties", [bool |-> method.undescribed > 0])>>)

Operation(object, method) ==
  Obj(<<Pair("operationId", Str(OperationId(object, method.name))),
        Pair("x-ubus-object", Str(object)),
        Pair("x-ubus-method", Str(method.name))>>
      \o (IF method.undescribed > 0
            THEN <<Pair("x-ubus-undescribed-params", [int |-> method.undescribed])>> ELSE <<>>)
      \o (IF method.session THEN <<Pair("x-ubus-requires-rpcd-session", [bool |-> TRUE])>> ELSE <<>>)
      \o <<Pair("requestBody",
                Obj(<<Pair("required", [bool |-> method.params # <<>>]),
                      Pair("schema", Obj(<<Pair("$ref", Str(SchemaName(object, method.name)))>>))>>))>>)

(* Every method of every object, in the catalog's order.                   *)
Methods(catalog) ==
  FoldLeft(LAMBDA all, o : all \o [i \in DOMAIN o.methods |-> [object |-> o.path, method |-> o.methods[i]]],
           <<>>, catalog)

Build(catalog) ==
  LET all == Methods(catalog)
  IN  Obj(<<Pair("paths",
                 Obj([i \in DOMAIN all |->
                        <<PathOf(all[i].object, all[i].method.name),
                          Obj(<<Pair("post", Operation(all[i].object, all[i].method))>>)>>])),
            Pair("schemas",
                 Obj([i \in DOMAIN all |->
                        <<SchemaName(all[i].object, all[i].method.name), SchemaOf(all[i].method)>>]))>>)

(* generate: nothing is printed of a catalog that was not understood.      *)
Generate(lines) ==
  LET catalog == ParseCatalog(lines)
  IN  IF Failed(catalog) THEN <<>> ELSE Write(Build(catalog.objects))

(***************************************************************************)
(* route.rs                                                                *)
(***************************************************************************)
Incomplete(item) ==
  \/ ~Has(item, "post")
  \/ \E key \in {"x-ubus-object", "x-ubus-method"} :
       ~Has(Get(item, "post"), key) \/ "str" \notin DOMAIN Get(Get(item, "post"), key)

(* Mutant: the call is read off the path, up to its first stroke and on.   *)
FromPath(path, post) ==
  LET cut == CHOOSE i \in 2 .. Len(path) : path[i] = "/" /\ \A j \in 2 .. i - 1 : path[j] # "/"
  IN  [object |-> SubSeq(path, 2, cut - 1), method |-> SubSeq(path, cut + 1, Len(path)),
       session |-> Has(post, "x-ubus-requires-rpcd-session")]

Route(path, post) ==
  [object |-> Get(post, "x-ubus-object").str, method |-> Get(post, "x-ubus-method").str,
   session |-> Has(post, "x-ubus-requires-rpcd-session")
                 /\ Get(post, "x-ubus-requires-rpcd-session") = [bool |-> TRUE]]

(* from_facade.  Of two operations at one path the later stays.            *)
RouteTable(spec) ==
  LET entries == Get(spec, "paths").obj
      last(path) == CHOOSE i \in DOMAIN entries :
                      entries[i][1] = path /\ \A j \in i + 1 .. Len(entries) : entries[j][1] # path
  IN  IF ~Has(spec, "paths") THEN Fail("no paths")
      ELSE IF "obj" \notin DOMAIN Get(spec, "paths") THEN Fail("paths is not an object")
      ELSE IF \E i \in DOMAIN entries : Incomplete(entries[i][2]) THEN Fail("incomplete operation")
      ELSE IF entries = <<>> THEN Fail("no operations")
      ELSE [routes |-> [path \in {entries[i][1] : i \in DOMAIN entries} |->
                          Route(path, Get(entries[last(path)][2], "post"))]]

(***************************************************************************)
(* bridge.rs                                                               *)
(***************************************************************************)
(* The values that are sent, or the first that cannot be.                  *)
AllSent(values) ==
  IF \E i \in DOMAIN values : Failed(values[i])
    THEN values[CHOOSE i \in DOMAIN values : Failed(values[i]) /\ \A j \in 1 .. i - 1 : ~Failed(values[j])]
    ELSE [sent |-> values]

RECURSIVE ValueFromJson(_)
ValueFromJson(j) ==
  LET kind  == KindOf(j)
      items == AllSent(CASE kind = "arr" -> [i \in DOMAIN j.arr |-> ValueFromJson(j.arr[i])]
                         [] kind = "obj" -> [i \in DOMAIN j.obj |-> ValueFromJson(j.obj[i][2])])
  IN  CASE kind = "str"  -> [str |-> j.str]
        [] kind = "int"  -> [int |-> j.int]
        [] kind = "wide" -> Fail("does not fit INT32")
        [] kind = "bool" -> Fail("boolean cannot be sent")
        [] kind = "null" -> Fail("null cannot be sent")
        [] kind = "arr"  -> IF Failed(items) THEN items ELSE [array |-> items.sent]
        [] kind = "obj"  ->
             IF Failed(items) THEN items
             ELSE [table |-> [i \in DOMAIN j.obj |-> <<j.obj[i][1], items.sent[i]>>]]

ArgsFromJson(j) ==
  IF KindOf(j) # "obj" THEN Fail("the request body must be a JSON object") ELSE ValueFromJson(j)

RECURSIVE JsonFromDecoded(_)
JsonFromDecoded(d) ==
  CASE "str" \in DOMAIN d   -> Str(d.str)
    [] "int" \in DOMAIN d   -> [int |-> d.int]
    [] "int8" \in DOMAIN d  -> [int |-> d.int8]
    [] "array" \in DOMAIN d -> [arr |-> [i \in DOMAIN d.array |-> JsonFromDecoded(d.array[i])]]
    [] "table" \in DOMAIN d ->
         Obj([i \in DOMAIN d.table |-> <<d.table[i][1], JsonFromDecoded(d.table[i][2])>>])
    [] "unknown" \in DOMAIN d ->
         Obj(<<Pair("$ubusUnmeasuredType", [int |-> d.unknown]),
               Pair("$byteLength", [int |-> Len(d.bytes)])>>)

=============================================================================
