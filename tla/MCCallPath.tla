------------------------------- MODULE MCCallPath -------------------------------
(* A small instance of CallPath for TLC.  The devices have an object whose   *)
(* path has a stroke and a dot, methods with and without parameters, one     *)
(* that declares a session and one with a parameter nobody has a word for.   *)
(* The last device has two objects that only a dot and an underscore tell    *)
(* apart, with methods of one name that take different things.               *)
EXTENDS CallPath, TLC

Chars ==
  <<"NUL", "BS", "\t", "\n", "\f", "\r", " ", "\"", "-", ".", "/", "0", "1", "2", "\\", "_", "a", "b", "k",
    "Q", "A", "B", "K">>
Codes8 == <<0, 8, 9, 10, 12, 13, 32, 34, 45, 46, 47, 48, 49, 50, 92, 95, 97, 98, 107, 81, 65, 66, 75>>
CodeOf == [c \in {Chars[i] : i \in DOMAIN Chars} |-> Codes8[IndexIn(c, Chars)]]
CapitalOf ==
  "a" :> "A" @@ "b" :> "B" @@ "k" :> "K" @@ [c \in {"A", "B", "K", "Q", "0", "1", "2"} |-> c]

Takes(name, params, undescribed, session) ==
  [name |-> name, params |-> params, undescribed |-> undescribed, session |-> session]
Typed(name, type) == [name |-> name, type |-> type]

Get1 == Takes(<<"a">>, <<Typed(<<"k">>, "String"), Typed(<<"b">>, "Array")>>, 0, TRUE)
Set1 == Takes(<<"b">>, <<Typed(<<"a">>, "(unknown)")>>, 1, FALSE)
Bare == Takes(<<"k">>, <<>>, 0, FALSE)

On(path, methods) == [path |-> path, methods |-> methods]
Catalogs ==
  {<<On(<<"Q">>, <<Get1, Bare>>), On(<<"a", "/", ".", "b">>, <<Set1>>)>>,
   <<On(<<"a">>, <<Bare>>), On(<<"Q">>, <<Get1>>)>>,
   <<On(<<"a", ".", "b">>, <<Bare>>), On(<<"a", "_", "b">>, <<Takes(<<"k">>, <<Typed(<<"a">>, "Integer")>>, 0, FALSE)>>)>>}

S(text)     == [str |-> text]
I(n)        == [int |-> n]
Body(json)  == [text |-> Write(json), json |-> json]
One(value)  == Obj(<<<<<<"k">>, value>>>>)

(* Written by hand: escapes, blanks, limits, and texts that are not JSON.    *)
Raw(text, json) == [text |-> text, json |-> json]
Requests ==
  {Body(Obj(<<<<<<"k">>, S(<<"\"", "\\", "\n", "a">>)>>, <<<<"k">>, S(<<>>)>>,
              <<<<"a", "b">>, [arr |-> <<I(-1), Obj(<<>>), [arr |-> <<>>]>>]>>>>)),
   Body(One([bool |-> TRUE])), Body(One(Obj(<<<<<<"a">>, Null>>>>))),
   Body(Obj(<<<<<<"a", "b", "a">>, S(<<"b">>)>>>>)), Body(One(S(<<"a", "NUL", "b">>))),
   Body(I(1)), Raw(<<" ">>, Obj(<<>>)),
   Raw(<<"{", " ", "\"", "\\", "u", "0", "0", "6", "b", "\"", " ", ":", "\n", "-", "2", "1", "4", "7", "4", "8",
         "3", "6", "4", "8", " ", "}", " ">>, One(I(-2147483647 - 1))),
   Raw(<<"{", "\"", "k", "\"", ":", "2", "1", "4", "7", "4", "8", "3", "6", "4", "8", "}">>,
       One([wide |-> <<"2", "1", "4", "7", "4", "8", "3", "6", "4", "8">>])),
   Raw(<<"{", "\"", "k", "\"", ":", "\"", "\\", "b", "\\", "f", "\\", "r", "\\", "t", "\\", "/", "\"", "}">>,
       One(S(<<"BS", "\f", "\r", "\t", "/">>))),
   Raw(<<"{", "\"", "k", "\"", ":", "1", ".", "0", "}">>, Garbage),
   Raw(<<"{", "\"", "k", "\"", ":", "\"", "\\", "u", "d", "8", "0", "0", "\"", "}">>, Garbage),
   Raw(<<"{", "}", "1">>, Garbage), Raw(<<"{", "\"", "k", "\"", ":", "1">>, Garbage)}

Values ==
  {<<>>,
   <<<<<<"k">>, S(<<"a">>)>>, <<<<"a">>, I(2147483647)>>, <<<<"b">>, [int8 |-> -1]>>>>,
   <<<<<<"a", "b">>, [unknown |-> 8, bytes |-> <<1, 2, 3>>]>>,
     <<<<"k">>, [table |-> <<<<<<"a">>, [array |-> <<S(<<"b", "\"", "\\", "BS", "\f">>), [table |-> <<>>]>>]>>>>]>>>>}
=============================================================================
