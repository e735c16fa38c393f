-------------------------------- MODULE BlobWire --------------------------------
(***************************************************************************)
(* crates/ubus-proto: the bytes of the ubus protocol, written (encode.rs)  *)
(* and read (lib.rs, client.rs).  A byte is a number below 256; a text is  *)
(* a sequence of symbols.                                                  *)
(*                                                                         *)
(* A value is [str |-> text], [int |-> n], [table |-> pairs] or            *)
(* [array |-> values]; what is read may also be [int8 |-> n] or            *)
(* [unknown |-> type code, bytes |-> bytes].  What cannot be read is       *)
(* [error |-> why].                                                        *)
(***************************************************************************)
EXTENDS Integers, Sequences, Characters

LOCAL INSTANCE SequencesExt

CONSTANT MaxName  \* the longest name a length field holds, u16::MAX in the code

Unreadable(why) == [error |-> why]
IsError(r)      == "error" \in DOMAIN r

(* Big-endian, two's complement. *)
BigEndian(n, width) == [i \in 1 .. width |-> (n \div 256 ^ (width - i)) % 256]
Unsigned(bytes)     == FoldLeft(LAMBDA n, b : 256 * n + b, 0, bytes)
Signed(bytes)       ==
  FoldLeft(LAMBDA n, b : 256 * n + b, IF bytes[1] < 128 THEN bytes[1] ELSE bytes[1] - 256, Tail(bytes))

Zeros(n) == [i \in 1 .. n |-> 0]
Drop(bytes, n) == SubSeq(bytes, n + 1, Len(bytes))

Pad4(n) == ((n + 3) \div 4) * 4

ArrayType  == 1
TableType  == 2
StringType == 3
Int32Type  == 5
Int8Type   == 7

Hello  == 0
Status == 1
Data   == 2
Lookup == 4
Invoke == 5

StatusAttr == 1
ObjPath    == 2
ObjId      == 3
MethodAttr == 4
DataAttr   == 7

(***************************************************************************)
(* Writing: encode.rs.                                                     *)
(***************************************************************************)
(* The padding is not counted in the length, which has 24 bits.            *)
Attr(id, extended, payload) ==
  <<IF extended THEN 128 + id ELSE id>> \o BigEndian(4 + Len(payload), 3) \o payload
    \o Zeros(Pad4(Len(payload)) - Len(payload))

TypeOf(v) ==
  CASE "str" \in DOMAIN v   -> StringType
    [] "int" \in DOMAIN v   -> Int32Type
    [] "table" \in DOMAIN v -> TableType
    [] "array" \in DOMAIN v -> ArrayType

(* A name's length excludes the NUL after it, and saturates.               *)
NameField(name) ==
  BigEndian(IF Len(name) <= MaxName THEN Len(name) ELSE MaxName, 2) \o Bytes(name) \o <<0>>
    \o Zeros(Pad4(Len(name) + 3) - (Len(name) + 3))

RECURSIVE Payload(_)
Payload(v) ==
  CASE "str" \in DOMAIN v   -> Append(Bytes(v.str), 0)
    [] "int" \in DOMAIN v   -> BigEndian(v.int, 4)
    [] "table" \in DOMAIN v ->
         FoldLeft(LAMBDA out, p : out \o Attr(TypeOf(p[2]), TRUE, NameField(p[1]) \o Payload(p[2])),
                  <<>>, v.table)
    [] "array" \in DOMAIN v ->
         FoldLeft(LAMBDA out, w : out \o Attr(TypeOf(w), TRUE, NameField(<<>>) \o Payload(w)),
                  <<>>, v.array)

Header(kind, seq, peer) == <<0, kind>> \o BigEndian(seq, 2) \o BigEndian(peer, 4)

Envelope(attrs) == Attr(0, FALSE, attrs)

LookupRequest(seq, peer, path) ==
  Header(Lookup, seq, peer) \o Envelope(Attr(ObjPath, FALSE, Append(Bytes(path), 0)))

(* The arguments are there even when there are none. *)
InvokeRequest(seq, peer, id, method, args) ==
  Header(Invoke, seq, peer)
    \o Envelope(Attr(ObjId, FALSE, BigEndian(id, 4))
                  \o Attr(MethodAttr, FALSE, Append(Bytes(method), 0))
                  \o Attr(DataAttr, TRUE, Payload([table |-> args])))

(***************************************************************************)
(* Reading: lib.rs.                                                        *)
(***************************************************************************)
DecodeHeader(buf) ==
  IF Len(buf) < 8 THEN Unreadable("Truncated")
  ELSE [kind |-> buf[2], seq |-> Unsigned(SubSeq(buf, 3, 4)), peer |-> Unsigned(SubSeq(buf, 5, 8))]

DecodeAttr(buf) ==
  LET total == Unsigned(SubSeq(buf, 2, 4))
  IN  IF Len(buf) < 4 THEN Unreadable("Truncated")
      ELSE IF total < 4 THEN Unreadable("BadLength")
      ELSE IF Len(buf) < total THEN Unreadable("Truncated")
      ELSE [id |-> buf[1] % 128, extended |-> buf[1] >= 128, total |-> total,
            payload |-> SubSeq(buf, 5, total)]

(* AttrIter: the attributes up to the first that is malformed.             *)
RECURSIVE Attrs(_)
Attrs(buf) ==
  LET a == DecodeAttr(buf)
  IN  IF Len(buf) < 4 \/ IsError(a) THEN <<>> ELSE <<a>> \o Attrs(Drop(buf, Pad4(a.total)))

UpToNul(bytes) ==
  SubSeq(bytes, 1, (CHOOSE i \in 1 .. Len(bytes) + 1 :
                      /\ i = Len(bytes) + 1 \/ bytes[i] = 0
                      /\ \A j \in 1 .. i - 1 : bytes[j] # 0) - 1)

AsStr(a) == IF IsText(UpToNul(a.payload)) THEN [str |-> Text(UpToNul(a.payload))]
            ELSE Unreadable("NotUtf8")

AsU32(a) == IF Len(a.payload) = 4 THEN [u32 |-> Unsigned(a.payload)] ELSE Unreadable("BadLength")

(* The name and the bytes of the value; Unnamed for a raw attribute.       *)
Unnamed == Unreadable("Unnamed")
AsNamed(a) ==
  LET length == Unsigned(SubSeq(a.payload, 1, 2))
      name   == SubSeq(a.payload, 3, 2 + length)
  IN  IF ~a.extended THEN Unnamed
      ELSE IF Len(a.payload) < 2 THEN Unreadable("Truncated")
      ELSE IF Len(a.payload) < length + 3 THEN Unreadable("Truncated")
      ELSE IF ~IsText(name) THEN Unreadable("NotUtf8")
      ELSE [name |-> Text(name), value |-> Drop(a.payload, Pad4(length + 3))]

(***************************************************************************)
(* client.rs: the values of a reply.                                       *)
(***************************************************************************)
TrimNuls(bytes) ==
  LET solid == {i \in DOMAIN bytes : bytes[i] # 0}
  IN  IF solid = {} THEN <<>> ELSE SubSeq(bytes, 1, CHOOSE i \in solid : \A j \in solid : j <= i)

(* The items one after another, or the first error. *)
Collect(items) ==
  IF \E i \in DOMAIN items : IsError(items[i])
    THEN items[CHOOSE i \in DOMAIN items : IsError(items[i])
                                            /\ \A j \in 1 .. i - 1 : ~IsError(items[j])]
    ELSE [all |-> items]

(* Mutant: a value of a type nobody measured is passed over as empty. *)
UnknownAsEmpty(kind, raw) == [str |-> <<>>]

UnknownValue(kind, raw) == [unknown |-> kind, bytes |-> raw]

RECURSIVE DecodeRun(_, _)
DecodeValue(kind, raw) ==
  CASE kind = StringType ->
         IF IsText(TrimNuls(raw)) THEN [str |-> Text(TrimNuls(raw))] ELSE Unreadable("NotUtf8")
    [] kind = Int32Type  ->
         IF Len(raw) < 4 THEN Unreadable("Malformed") ELSE [int |-> Signed(SubSeq(raw, 1, 4))]
    [] kind = Int8Type   -> IF raw = <<>> THEN Unreadable("Malformed") ELSE [int8 |-> Signed(<<raw[1]>>)]
    [] kind = TableType  -> DecodeRun(raw, TRUE)
    [] kind = ArrayType  -> DecodeRun(raw, FALSE)
    [] OTHER             -> UnknownValue(kind, raw)

(* decode_named_run, and the arm for arrays, which discards the names.     *)
DecodeRun(buf, keyed) ==
  LET attrs == Attrs(buf)
      item(a) ==
        LET named == AsNamed(a)
            value == DecodeValue(a.id, named.value)
        IN  IF IsError(named) THEN named
            ELSE IF IsError(value) THEN value
            ELSE [name |-> named.name, value |-> value]
      run == Collect([i \in DOMAIN attrs |-> item(attrs[i])])
  IN  IF IsError(run) THEN run
      ELSE IF keyed THEN [table |-> [i \in DOMAIN run.all |-> <<run.all[i].name, run.all[i].value>>]]
      ELSE [array |-> [i \in DOMAIN run.all |-> run.all[i].value]]

(* read_message: one message off the front of a stream.                    *)
ReadMessage(stream) ==
  LET declared == Unsigned(SubSeq(stream, 10, 12))
  IN  IF Len(stream) < 12 THEN Unreadable("Io")
      ELSE IF declared < 4 THEN Unreadable("BadLength")
      ELSE IF Len(stream) < 8 + declared THEN Unreadable("Io")
      ELSE [header |-> DecodeHeader(stream), body |-> SubSeq(stream, 9, 8 + declared),
            rest |-> Drop(stream, 8 + declared)]

(* exchange: DATA messages, then one STATUS, all of them with our number.  *)
RECURSIVE Exchange(_, _, _)
Exchange(stream, seq, data) ==
  LET msg  == ReadMessage(stream)
      code == Attrs(DecodeAttr(msg.body).payload)
  IN  IF IsError(msg) THEN msg
      ELSE IF msg.header.seq # seq THEN Unreadable("Malformed")
      ELSE CASE msg.header.kind = Data   -> Exchange(msg.rest, seq, Append(data, msg.body))
             [] msg.header.kind = Status ->
                  IF code = <<>> THEN Unreadable("Malformed")
                  ELSE IF IsError(AsU32(code[1])) THEN AsU32(code[1])
                  ELSE IF AsU32(code[1]).u32 = 0 THEN [data |-> data]
                  ELSE [status |-> AsU32(code[1]).u32, error |-> "Status"]
             [] OTHER                    -> Unreadable("Malformed")

(* The first attribute with an id. *)
Find(attrs, id) == SelectSeq(attrs, LAMBDA a : a.id = id)

(* lookup: an object whose id or path cannot be read is passed over.       *)
Found(data) ==
  LET object(body) ==
        LET attrs == Attrs(DecodeAttr(body).payload)
        IN  [id |-> Find(attrs, ObjId), path |-> Find(attrs, ObjPath)]
      readable(o) == /\ o.id # <<>> /\ ~IsError(AsU32(Last(o.id)))
                     /\ o.path # <<>> /\ ~IsError(AsStr(Last(o.path)))
      objects == SelectSeq([i \in DOMAIN data |-> object(data[i])], readable)
  IN  [i \in DOMAIN objects |->
         [id |-> AsU32(Last(objects[i].id)).u32, path |-> AsStr(Last(objects[i].path)).str]]

(* invoke: the values in the DATA attribute of the first reply, if any.    *)
NoValue == [none |-> TRUE]

Returned(data) ==
  LET values == Find(Attrs(DecodeAttr(data[1]).payload), DataAttr)
  IN  IF data = <<>> \/ values = <<>> THEN NoValue ELSE DecodeRun(values[1].payload, TRUE)

=============================================================================
